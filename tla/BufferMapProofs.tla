---------------------------- MODULE BufferMapProofs ----------------------------
(* The hash map of ibmmqc.c keeps the promise of BufferStore, for any handles, *)
(* lengths and addresses and any number of resizes, as long as no key of the   *)
(* map is a proper prefix of another.                                          *)
EXTENDS BufferMap, FiniteSetTheorems, SequenceTheorems, TLAPS

-----------------------------------------------------------------------------
(* Functions on 0..N that are defined by recursion *)

\* A nonempty set of numbers has a least one.
LEMMA LeastNumber ==
    ASSUME NEW T \in SUBSET Nat, T # {}
    PROVE  \E x \in T : \A y \in T : x <= y
<1>1. PICK x \in T : \A y \in T : ~ (<<y, x>> \in OpToRel(<, Nat))
  BY NatLessThanWellFounded, WFMin
<1>2. \A y \in T : ~(y < x)
  BY <1>1 DEF OpToRel
<1> QED
  BY <1>2

\* What holds of 0 and is handed from n - 1 to n holds up to N: T is the set of
\* numbers it holds of.
LEMMA UpTo ==
    ASSUME NEW N \in Nat, NEW T, 0 \in T, \A n \in 1..N : n - 1 \in T => n \in T
    PROVE  0..N \subseteq T
<1> SUFFICES ASSUME (0..N) \ T # {} PROVE FALSE
  OBVIOUS
<1>1. PICK n \in (0..N) \ T : \A m \in (0..N) \ T : n <= m
  <2>1. (0..N) \ T \in SUBSET Nat
    OBVIOUS
  <2> QED
    BY <2>1, LeastNumber
<1>2. n \in 1..N /\ n - 1 \in 0..N
  BY <1>1
<1> QED
  BY <1>1, <1>2

IsRecursive(f, N, s0, step) ==
    f = [n \in 0..N |-> IF n = 0 THEN s0 ELSE step[n][f[n - 1]]]

LEMMA RecursionExists ==
    ASSUME NEW N \in Nat, NEW S, NEW s0 \in S, NEW step \in [1..N -> [S -> S]]
    PROVE  \E f \in [0..N -> S] : IsRecursive(f, N, s0, step)
<1> DEFINE T == {m \in 0..N : \E f \in [0..m -> S] : IsRecursive(f, m, s0, step)}
<1>1. 0 \in T
  <2>1. [n \in 0..0 |-> s0] \in [0..0 -> S] /\ IsRecursive([n \in 0..0 |-> s0], 0, s0, step)
    BY DEF IsRecursive
  <2> QED
    BY <2>1
<1>2. ASSUME NEW m \in 1..N, m - 1 \in T PROVE m \in T
  <2>1. PICK f \in [0..m - 1 -> S] : IsRecursive(f, m - 1, s0, step)
    BY <1>2
  <2>2. step[m][f[m - 1]] \in S
    OBVIOUS
  <2> DEFINE g == [n \in 0..m |-> IF n = m THEN step[m][f[m - 1]] ELSE f[n]]
  <2>3. g \in [0..m -> S]
    BY <2>2
  <2>4. \A n \in 0..m : g[n] = IF n = 0 THEN s0 ELSE step[n][g[n - 1]]
    <3>1. ASSUME NEW n \in 0..m, n # m
          PROVE  g[n] = IF n = 0 THEN s0 ELSE step[n][g[n - 1]]
      <4>1. n \in 0..m - 1 /\ g[n] = f[n]
        BY <3>1
      <4>2. n # 0 => g[n - 1] = f[n - 1]
        BY <4>1
      <4> HIDE DEF g
      <4> QED
        BY <2>1, <4>1, <4>2 DEF IsRecursive
    <3>2. g[m] = step[m][g[m - 1]]
      BY <1>2
    <3> QED
      BY <1>2, <3>1, <3>2
  <2>5. IsRecursive(g, m, s0, step)
    BY <2>4 DEF IsRecursive
  <2> QED
    BY <2>3, <2>5
<1>3. 0..N \subseteq T
  BY <1>1, <1>2, UpTo
<1> QED
  BY <1>3

-----------------------------------------------------------------------------
(* Keys *)

LEMMA ConstantTypes ==
    /\ HConn \subseteq Nat /\ HObj \subseteq Nat
    /\ Length \subseteq Nat
    /\ InitialCapacity \in Nat /\ InitialCapacity > 0
    /\ HashWidth \in Nat /\ HashWidth > 0
BY MapAssumption

\* The handles that MQ can give out (MapAssumption).
Handles == {h \in Nat : h <= 2147483647}

LEMMA HandlesAreThese == HConn \subseteq Handles /\ HObj \subseteq Handles
BY MapAssumption DEF Handles

LEMMA Powers ==
    /\ Power[1] = 1 /\ Power[2] = 10 /\ Power[3] = 100 /\ Power[4] = 1000
    /\ Power[5] = 10000 /\ Power[6] = 100000 /\ Power[7] = 1000000
    /\ Power[8] = 10000000 /\ Power[9] = 100000000 /\ Power[10] = 1000000000
BY DEF Power

LEMMA WholeQuotient == \A n \in Nat : \A x \in {1} : n \div Power[x] = n
<1>1. \A n \in Nat : n \div 1 = n
  OBVIOUS
<1>2. Power[1] = 1
  BY Powers
<1> QED
  BY <1>1, <1>2

LEMMA PowersGrow == \A j, k \in 1..10 : Power[j] \in Nat /\ (j <= k => Power[j] <= Power[k])
<1> SUFFICES ASSUME NEW j \in 1..10, NEW k \in 1..10
             PROVE  Power[j] \in Nat /\ (j <= k => Power[j] <= Power[k])
  OBVIOUS
<1>1. j = 1 \/ j = 2 \/ j = 3 \/ j = 4 \/ j = 5 \/ j = 6 \/ j = 7 \/ j = 8 \/ j = 9 \/ j = 10
  OBVIOUS
<1>2. k = 1 \/ k = 2 \/ k = 3 \/ k = 4 \/ k = 5 \/ k = 6 \/ k = 7 \/ k = 8 \/ k = 9 \/ k = 10
  OBVIOUS
<1> QED
  BY <1>1, <1>2, Powers

LEMMA Quotient == \A n \in Nat : \A k \in 1..10 : n \div Power[k] \in Nat /\ (n \div Power[k]) % 10 \in 0..9
<1> SUFFICES ASSUME NEW n \in Nat, NEW k \in 1..10
             PROVE  n \div Power[k] \in Nat /\ (n \div Power[k]) % 10 \in 0..9
  OBVIOUS
<1>1. PICK d \in Nat \ {0} : d = Power[k]
  <2>1. k = 1 \/ k = 2 \/ k = 3 \/ k = 4 \/ k = 5 \/ k = 6 \/ k = 7 \/ k = 8 \/ k = 9 \/ k = 10
    OBVIOUS
  <2> QED
    BY <2>1, Powers
<1>2. PICK q \in Nat : q = n \div d
  OBVIOUS
<1> QED
  BY <1>1, <1>2

\* What stands before the last digit, and that digit, are the number.
LEMMA LastDigit ==
    \A n \in Nat : \A k \in 1..9 :
        /\ n \div Power[k] \in Nat
        /\ n \div Power[k + 1] \in Nat
        /\ n \div Power[k] = 10 * (n \div Power[k + 1]) + ((n \div Power[k]) % 10)
<1> SUFFICES ASSUME NEW n \in Nat, NEW k \in 1..9
             PROVE  /\ n \div Power[k] \in Nat
                    /\ n \div Power[k + 1] \in Nat
                    /\ n \div Power[k] = 10 * (n \div Power[k + 1]) + ((n \div Power[k]) % 10)
  OBVIOUS
<1> DEFINE Splits(a, b) == /\ n \div a \in Nat /\ n \div b \in Nat
                           /\ n \div a = 10 * (n \div b) + ((n \div a) % 10)
<1>1. Splits(1, 10) /\ Splits(10, 100) /\ Splits(100, 1000)
  OBVIOUS
<1>2. Splits(1000, 10000) /\ Splits(10000, 100000) /\ Splits(100000, 1000000)
  OBVIOUS
<1>3. Splits(1000000, 10000000) /\ Splits(10000000, 100000000) /\ Splits(100000000, 1000000000)
  OBVIOUS
<1> HIDE DEF Splits
<1>4. Splits(Power[k], Power[k + 1])
  <2>1. \/ k = 1 \/ k = 2 \/ k = 3 \/ k = 4 \/ k = 5 \/ k = 6 \/ k = 7 \/ k = 8 \/ k = 9
    OBVIOUS
  <2> QED
    BY <1>1, <1>2, <1>3, <2>1, Powers
<1> QED
  BY <1>4 DEF Splits

\* The width is that of the number: one digit is at its first place or before.
LEMMA WidthIs ==
    ASSUME NEW n \in Handles
    PROVE  /\ Width(n) \in 1..10
           /\ n \div Power[Width(n)] \in 0..9
           /\ Width(n) # 1 => Power[Width(n)] <= n
<1> DEFINE IsWidth(w) == (w = 1 \/ Power[w] <= n) /\ (w = 10 \/ n < Power[w + 1])
<1>1. \E w \in 1..10 : IsWidth(w)
  <2>1. CASE n < 10
    BY <2>1, Powers
  <2>2. CASE 10 <= n /\ n < 100
    BY <2>2, Powers
  <2>3. CASE 100 <= n /\ n < 1000
    BY <2>3, Powers
  <2>4. CASE 1000 <= n /\ n < 10000
    BY <2>4, Powers
  <2>5. CASE 10000 <= n /\ n < 100000
    BY <2>5, Powers
  <2>6. CASE 100000 <= n /\ n < 1000000
    BY <2>6, Powers
  <2>7. CASE 1000000 <= n /\ n < 10000000
    BY <2>7, Powers
  <2>8. CASE 10000000 <= n /\ n < 100000000
    BY <2>8, Powers
  <2>9. CASE 100000000 <= n /\ n < 1000000000
    BY <2>9, Powers
  <2>10. CASE 1000000000 <= n
    BY <2>10, Powers
  <2> QED
    BY <2>1, <2>2, <2>3, <2>4, <2>5, <2>6, <2>7, <2>8, <2>9, <2>10 DEF Handles
<1>2. PICK w \in 1..10 : w = Width(n) /\ IsWidth(w)
  BY <1>1 DEF Width
<1> DEFINE Leads(a) == n \div a \in 0..9
<1>3. Leads(Power[w])
  <2>1. /\ n < 10 => Leads(1)
        /\ 10 <= n /\ n < 100 => Leads(10)
        /\ 100 <= n /\ n < 1000 => Leads(100)
        /\ 1000 <= n /\ n < 10000 => Leads(1000)
        /\ 10000 <= n /\ n < 100000 => Leads(10000)
    BY DEF Handles
  <2>2. /\ 100000 <= n /\ n < 1000000 => Leads(100000)
        /\ 1000000 <= n /\ n < 10000000 => Leads(1000000)
        /\ 10000000 <= n /\ n < 100000000 => Leads(10000000)
        /\ 100000000 <= n /\ n < 1000000000 => Leads(100000000)
        /\ 1000000000 <= n => Leads(1000000000)
    BY DEF Handles
  <2>3. w = 1 \/ w = 2 \/ w = 3 \/ w = 4 \/ w = 5 \/ w = 6 \/ w = 7 \/ w = 8 \/ w = 9 \/ w = 10
    OBVIOUS
  <2> HIDE DEF Leads
  <2> QED
    BY <1>2, <2>1, <2>2, <2>3, Powers
<1> QED
  BY <1>2, <1>3

\* A handle is one to ten digits, none of which is the separator.
LEMMA DecimalType ==
    ASSUME NEW n \in Handles
    PROVE  /\ Decimal(n) \in Seq(48..57)
           /\ Len(Decimal(n)) = Width(n)
           /\ Width(n) \in 1..10
           /\ \A i \in 1..Width(n) :
                  Decimal(n)[i] = 48 + ((n \div Power[Width(n) + 1 - i]) % 10)
<1>1. PICK w \in 1..10 : w = Width(n)
  BY WidthIs
<1>2. ASSUME NEW k \in 1..10 PROVE 48 + ((n \div Power[k]) % 10) \in 48..57
  <2>1. n \in Nat
    BY DEF Handles
  <2>2. PICK d \in 0..9 : d = (n \div Power[k]) % 10
    BY <2>1, Quotient
  <2>3. 48 + d \in 48..57
    OBVIOUS
  <2> QED
    BY <2>2, <2>3
<1> DEFINE Digit(i) == 48 + ((n \div Power[w + 1 - i]) % 10)
<1>3. \A i \in 1..w : Digit(i) \in 48..57
  <2>1. \A i \in 1..w : w + 1 - i \in 1..10
    OBVIOUS
  <2> QED
    BY <1>2, <2>1
<1>4. Decimal(n) = [i \in 1..w |-> Digit(i)]
  BY <1>1 DEF Decimal
<1> HIDE DEF Digit
<1>5. PICK s : s = [i \in 1..w |-> Digit(i)]
  OBVIOUS
<1>6. s \in [1..w -> 48..57]
  BY <1>3, <1>5
<1>7. s \in Seq(48..57) /\ Len(s) = w
  BY <1>6, LenProperties
<1> QED
  BY <1>1, <1>4, <1>5, <1>7 DEF Digit

LEMMA NoSeparator == \A n \in Handles : \A i \in 1..Len(Decimal(n)) : Decimal(n)[i] # 47
<1>1. ASSUME NEW n \in Handles, NEW i \in 1..Len(Decimal(n)) PROVE Decimal(n)[i] # 47
  <2>1. PICK s \in Seq(48..57) : s = Decimal(n)
    BY DecimalType
  <2>2. i \in 1..Len(s)
    BY <2>1
  <2>3. s[i] \in 48..57
    BY <2>2, ElementOfSeq
  <2>4. \A x \in 48..57 : x # 47
    OBVIOUS
  <2> QED
    BY <2>1, <2>3, <2>4
<1> QED
  BY <1>1

LEMMA DecimalIsSeq == \A n \in Handles : Decimal(n) \in Seq(Nat)
<1>1. ASSUME NEW n \in Handles PROVE Decimal(n) \in Seq(Nat)
  <2>1. Decimal(n) \in Seq(48..57)
    BY DecimalType
  <2> QED
    BY <2>1
<1> QED
  BY <1>1

\* Digits that begin those of a handle are the handle without its last digits.
LEMMA BeginsIsQuotient ==
    ASSUME NEW n \in Handles, NEW m \in Handles, Width(n) <= Width(m),
           \A i \in 1..Width(n) : Decimal(n)[i] = Decimal(m)[i]
    PROVE  n = m \div Power[Width(m) - Width(n) + 1]
<1>1. PICK v \in 1..10 : v = Width(n)
  BY WidthIs
<1>2. PICK w \in 1..10 : w = Width(m)
  BY WidthIs
<1>3. v <= w
  BY <1>1, <1>2
<1> DEFINE N(k) == n \div Power[v + 1 - k]
           M(k) == m \div Power[w + 1 - k]
<1>4. n \in Nat /\ m \in Nat
  BY DEF Handles
<1>5. \A k \in 1..v : N(k) % 10 = M(k) % 10
  <2>1. ASSUME NEW k \in 1..v PROVE N(k) % 10 = M(k) % 10
    <3>1. /\ \A i \in 1..v : Decimal(n)[i] = 48 + (N(i) % 10)
          /\ \A i \in 1..w : Decimal(m)[i] = 48 + (M(i) % 10)
      BY <1>1, <1>2, DecimalType
    <3>2. k \in 1..w /\ Decimal(n)[k] = Decimal(m)[k]
      BY <1>1, <1>3
    <3>3. v + 1 - k \in 1..10 /\ w + 1 - k \in 1..10
      BY <1>3
    <3>4. N(k) % 10 \in 0..9 /\ M(k) % 10 \in 0..9
      <4>1. PICK j \in 1..10, i \in 1..10 : j = v + 1 - k /\ i = w + 1 - k
        BY <3>3
      <4>2. (n \div Power[j]) % 10 \in 0..9 /\ (m \div Power[i]) % 10 \in 0..9
        BY <1>4, Quotient
      <4> QED
        BY <4>1, <4>2
    <3> HIDE DEF N, M
    <3> QED
      BY <3>1, <3>2, <3>4
  <2> QED
    BY <2>1
<1>6. N(1) = M(1)
  <2>1. N(1) \in 0..9 /\ M(1) \in 0..9
    BY <1>1, <1>2, WidthIs
  <2>2. N(1) % 10 = M(1) % 10
    BY <1>5
  <2> HIDE DEF N, M
  <2> QED
    BY <2>1, <2>2
<1>7. ASSUME NEW k \in 2..v, N(k - 1) = M(k - 1) PROVE N(k) = M(k)
  <2>1. v + 1 - k \in 1..9 /\ w + 1 - k \in 1..9
    BY <1>3
  <2>2. v + 1 - (k - 1) = (v + 1 - k) + 1 /\ w + 1 - (k - 1) = (w + 1 - k) + 1
    OBVIOUS
  <2>3. N(k) = 10 * N(k - 1) + (N(k) % 10) /\ M(k) = 10 * M(k - 1) + (M(k) % 10)
    BY <1>4, <2>1, <2>2, LastDigit
  <2>4. N(k) % 10 = M(k) % 10
    BY <1>5
  <2> HIDE DEF N, M
  <2> QED
    BY <1>7, <2>3, <2>4
<1>8. N(v) = M(v)
  <2> DEFINE T == {0} \cup {k \in 1..v : N(k) = M(k)}
  <2>1. \A k \in 1..v : k - 1 \in T => k \in T
    <3>1. ASSUME NEW k \in 1..v, k - 1 \in T PROVE k \in T
      <4>1. k = 1 \/ (k \in 2..v /\ k - 1 \in 1..v)
        OBVIOUS
      <4>2. k - 1 \in 1..v => N(k - 1) = M(k - 1)
        BY <3>1
      <4> HIDE DEF N, M
      <4> QED
        BY <1>6, <1>7, <4>1, <4>2
    <3> QED
      BY <3>1
  <2>2. 0..v \subseteq T
    <3>1. 0 \in T
      OBVIOUS
    <3> HIDE DEF T
    <3> QED
      BY <2>1, <3>1, UpTo
  <2>3. v \in T /\ v # 0
    BY <2>2
  <2> HIDE DEF N, M
  <2> QED
    BY <2>3
<1>9. N(v) = n
  <2>1. PICK x \in {1} : x = v + 1 - v
    OBVIOUS
  <2>2. n \div Power[x] = n
    BY <1>4, WholeQuotient
  <2> QED
    BY <2>1, <2>2
<1>10. w + 1 - v = w - v + 1
  OBVIOUS
<1> QED
  BY <1>1, <1>2, <1>8, <1>9, <1>10

LEMMA KeyType ==
    ASSUME NEW c \in HConn, NEW o \in HObj
    PROVE  /\ KeyOf(c, o) \in Seq(Nat)
           /\ ConnPrefix(c) \in Seq(Nat)
           /\ Len(ConnPrefix(c)) = Len(Decimal(c)) + 1
           /\ Len(ConnPrefix(c)) <= Len(KeyOf(c, o))
           /\ \A i \in 1..Len(Decimal(c)) : KeyOf(c, o)[i] = Decimal(c)[i]
           /\ KeyOf(c, o)[Len(Decimal(c)) + 1] = 47
           /\ \A i \in 1..Len(Decimal(c)) : ConnPrefix(c)[i] = Decimal(c)[i]
           /\ ConnPrefix(c)[Len(Decimal(c)) + 1] = 47
           /\ \A i \in 1..Len(ConnPrefix(c)) : KeyOf(c, o)[i] = ConnPrefix(c)[i]
<1>1. Decimal(c) \in Seq(48..57) /\ Decimal(o) \in Seq(48..57)
  <2>1. c \in Handles /\ o \in Handles
    BY HandlesAreThese
  <2> QED
    BY <2>1, DecimalType
<1>2. Decimal(c) \in Seq(Nat) /\ Decimal(o) \in Seq(Nat) /\ <<47>> \in Seq(Nat)
  BY <1>1
<1>3. /\ ConnPrefix(c) \in Seq(Nat)
      /\ Len(ConnPrefix(c)) = Len(Decimal(c)) + 1
      /\ \A i \in 1..Len(Decimal(c)) : ConnPrefix(c)[i] = Decimal(c)[i]
      /\ ConnPrefix(c)[Len(Decimal(c)) + 1] = 47
  BY <1>2 DEF ConnPrefix, Slash
<1>4. /\ KeyOf(c, o) \in Seq(Nat)
      /\ Len(KeyOf(c, o)) = Len(ConnPrefix(c)) + Len(Decimal(o))
      /\ \A i \in 1..Len(ConnPrefix(c)) : KeyOf(c, o)[i] = ConnPrefix(c)[i]
  <2> HIDE <1>1
  <2>1. PICK s : s = ConnPrefix(c)
    OBVIOUS
  <2>2. PICK t : t = Decimal(o)
    OBVIOUS
  <2>3. s \in Seq(Nat) /\ t \in Seq(Nat) /\ KeyOf(c, o) = s \o t
    BY <1>2, <1>3, <2>1, <2>2 DEF KeyOf
  <2>4. /\ s \o t \in Seq(Nat)
        /\ Len(s \o t) = Len(s) + Len(t)
        /\ \A i \in 1..Len(s) : (s \o t)[i] = s[i]
    BY <2>3, ConcatProperties
  <2> QED
    BY <2>1, <2>2, <2>3, <2>4
<1>5. Len(Decimal(o)) \in Nat /\ Len(Decimal(c)) \in Nat
  BY <1>2
<1>6. \A i \in 1..Len(Decimal(c)) + 1 : KeyOf(c, o)[i] = ConnPrefix(c)[i]
  BY <1>3, <1>4
<1> QED
  BY <1>3, <1>4, <1>5, <1>6, SMTT(30)

LEMMA StartsWith ==
    ASSUME NEW s \in Seq(Nat), NEW t \in Seq(Nat)
    PROVE  IsPrefix(s, t) <=> Len(s) <= Len(t) /\ \A i \in 1..Len(s) : s[i] = t[i]
BY DEF IsPrefix

\* The handle and the separator tell connections apart: "1/" does not start "15/2".
LEMMA PrefixIsConn ==
    ASSUME NEW c \in HConn, NEW d \in HConn, NEW o \in HObj
    PROVE  IsPrefix(ConnPrefix(c), KeyOf(d, o)) <=> c = d
<1>1. ASSUME c = d PROVE IsPrefix(ConnPrefix(c), KeyOf(d, o))
  <2>1. PICK s \in Seq(Nat), k \in Seq(Nat) : s = ConnPrefix(c) /\ k = KeyOf(c, o)
    BY KeyType
  <2>2. Len(s) <= Len(k) /\ \A i \in 1..Len(s) : s[i] = k[i]
    BY <2>1, KeyType
  <2> QED
    BY <1>1, <2>1, <2>2, StartsWith
<1>2. ASSUME IsPrefix(ConnPrefix(c), KeyOf(d, o)) PROVE c = d
  <2>1. PICK m \in 1..10 : m = Width(c) /\ m = Len(Decimal(c))
    BY DecimalType, HandlesAreThese
  <2>2. PICK n \in 1..10 : n = Width(d) /\ n = Len(Decimal(d))
    BY DecimalType, HandlesAreThese
  <2>3. \A i \in 1..m + 1 : ConnPrefix(c)[i] = KeyOf(d, o)[i]
    BY <1>2, <2>1, KeyType DEF IsPrefix
  <2>4. /\ \A i \in 1..m : ConnPrefix(c)[i] = Decimal(c)[i]
        /\ ConnPrefix(c)[m + 1] = 47
    BY <2>1, KeyType
  <2>5. /\ \A i \in 1..n : KeyOf(d, o)[i] = Decimal(d)[i]
        /\ KeyOf(d, o)[n + 1] = 47
    BY <2>2, KeyType
  <2>6. m = n
    <3>1. /\ \A i \in 1..m : Decimal(c)[i] # 47
          /\ \A i \in 1..n : Decimal(d)[i] # 47
      <4>1. c \in Handles /\ d \in Handles
        BY HandlesAreThese
      <4> QED
        BY <2>1, <2>2, <4>1, NoSeparator
    <3>2. ~(m < n)
      <4>1. SUFFICES ASSUME m < n PROVE FALSE
        OBVIOUS
      <4>2. m + 1 \in 1..n /\ m + 1 \in 1..m + 1
        BY <4>1
      <4> QED
        BY <2>3, <2>4, <2>5, <3>1, <4>2
    <3>3. ~(n < m)
      <4>1. SUFFICES ASSUME n < m PROVE FALSE
        OBVIOUS
      <4>2. n + 1 \in 1..m /\ n + 1 \in 1..m + 1
        BY <4>1
      <4> QED
        BY <2>3, <2>4, <2>5, <3>1, <4>2
    <3> QED
      BY <3>2, <3>3
  <2>7. \A i \in 1..m : Decimal(c)[i] = Decimal(d)[i]
    BY <2>3, <2>4, <2>5, <2>6
  <2>8. c = d \div Power[n - m + 1]
    <3>1. c \in Handles /\ d \in Handles
      BY HandlesAreThese
    <3>2. Width(c) <= Width(d) /\ \A i \in 1..Width(c) : Decimal(c)[i] = Decimal(d)[i]
      BY <2>1, <2>2, <2>6, <2>7
    <3>3. c = d \div Power[Width(d) - Width(c) + 1]
      BY <3>1, <3>2, BeginsIsQuotient
    <3> QED
      BY <2>1, <2>2, <3>3
  <2>9. d \in Nat
    BY HandlesAreThese DEF Handles
  <2>10. PICK x \in {1} : x = n - m + 1
    BY <2>6
  <2>11. d \div Power[x] = d
    BY <2>9, WholeQuotient
  <2> QED
    BY <2>8, <2>10, <2>11
<1> QED
  BY <1>1, <1>2

LEMMA KeyIsSeq == \A k \in Key : k \in Seq(Nat) /\ Len(k) \in Nat
BY KeyType DEF Key

\* The test of deleteAll finds the entries of its connection (ibmmqc.c:462).
LEMMA OfConnIsConn ==
    /\ ConnOf \in [Key -> HConn]
    /\ \A c \in HConn, e \in Entry : OfConn(c, e) <=> ConnOf[e.key] = c
<1>1. \A k \in Key : \E c \in HConn, o \in HObj : k = KeyOf(c, o)
  BY DEF Key
<1>2. \A k \in Key : /\ ConnOf[k] \in HConn
                     /\ \E o \in HObj : k = KeyOf(ConnOf[k], o)
  BY <1>1 DEF ConnOf
<1>3. ASSUME NEW c \in HConn, NEW e \in Entry
      PROVE  OfConn(c, e) <=> ConnOf[e.key] = c
  <2>1. e.key \in Key
    BY DEF Entry
  <2>2. PICK d \in HConn : d = ConnOf[e.key] /\ \E o \in HObj : e.key = KeyOf(d, o)
    BY <1>2, <2>1
  <2>3. PICK o \in HObj : e.key = KeyOf(d, o)
    BY <2>2
  <2> QED
    BY <2>2, <2>3, PrefixIsConn DEF OfConn
<1>4. ConnOf \in [Key -> HConn]
  BY <1>2 DEF ConnOf
<1> QED
  BY <1>3, <1>4

LEMMA PrefixOfPrefix ==
    ASSUME NEW p \in Seq(Nat), NEW j \in Seq(Nat), NEW k \in Seq(Nat),
           IsPrefix(p, j), IsPrefix(j, k)
    PROVE  IsPrefix(p, k)
<1>1. Len(p) \in Nat /\ Len(j) \in Nat /\ Len(k) \in Nat
  OBVIOUS
<1>2. Len(p) <= Len(j) /\ Len(j) <= Len(k)
  BY DEF IsPrefix
<1>3. \A i \in 1..Len(p) : p[i] = j[i]
  BY StartsWith
<1>4. \A i \in 1..Len(j) : j[i] = k[i]
  BY StartsWith
<1>5. \A i \in 1..Len(p) : p[i] = k[i]
  BY <1>1, <1>2, <1>3, <1>4
<1>6. Len(p) <= Len(k)
  BY <1>1, <1>2
<1> QED
  BY <1>5, <1>6, StartsWith

\* A key that starts with a key of the connection is of the connection, too.
LEMMA OfSameConn ==
    ASSUME NEW c \in HConn, NEW d \in Entry, OfConn(c, d), NEW e \in Entry, IsPrefix(d.key, e.key)
    PROVE  OfConn(c, e)
<1>1. PICK p \in Seq(Nat) : p = ConnPrefix(c)
  <2>1. PICK k : k = d.key /\ k \in Key
    BY DEF Entry
  <2>2. PICK o \in HObj : TRUE
    BY <2>1 DEF Key
  <2> QED
    BY <2>2, KeyType
<1>2. PICK j \in Seq(Nat) : j = d.key
  BY KeyIsSeq DEF Entry
<1>3. PICK k \in Seq(Nat) : k = e.key
  BY KeyIsSeq DEF Entry
<1>4. IsPrefix(p, j) /\ IsPrefix(j, k)
  BY <1>1, <1>2, <1>3 DEF OfConn
<1>5. IsPrefix(p, k)
  BY <1>4, PrefixOfPrefix
<1> QED
  BY <1>1, <1>3, <1>5 DEF OfConn

HashStep(k, n, h) == (h * 33 + k[n]) % HashWidth

LEMMA HashStepType ==
    ASSUME NEW k \in Key, NEW n \in 1..Len(k), NEW h \in Nat
    PROVE  HashStep(k, n, h) \in Nat
<1>1. PICK x \in Nat : x = h * 33 + k[n]
  BY KeyIsSeq
<1> QED
  BY <1>1, ConstantTypes DEF HashStep

LEMMA HashType == Hash \in [Key -> Nat]
<1> SUFFICES ASSUME NEW k \in Key PROVE Hash[k] \in Nat
  BY DEF Hash
<1> DEFINE IsDjb2(f) ==
        f = [n \in 0..Len(k) |-> IF n = 0 THEN 5381 ELSE HashStep(k, n, f[n - 1])]
<1>1. PICK N \in Nat : N = Len(k)
  BY KeyIsSeq
<1>2. PICK g : g = (CHOOSE d : IsDjb2(d))
  OBVIOUS
<1>3. Hash[k] = g[N]
  BY <1>1, <1>2 DEF Hash, HashStep
<1>4. \A n \in 1..N : \A h \in Nat : HashStep(k, n, h) \in Nat
  BY <1>1, HashStepType
<1>5. \E f : IsDjb2(f)
  <2>1. PICK step : step = [n \in 1..N |-> [h \in Nat |-> HashStep(k, n, h)]]
    OBVIOUS
  <2>2. step \in [1..N -> [Nat -> Nat]]
    BY <1>4, <2>1
  <2>3. PICK s0 \in Nat : s0 = 5381
    OBVIOUS
  <2>4. PICK f \in [0..N -> Nat] : IsRecursive(f, N, s0, step)
    <3>1. PICK S : S = Nat
      OBVIOUS
    <3>2. step \in [1..N -> [S -> S]] /\ s0 \in S
      BY <2>2, <2>3, <3>1
    <3>3. \E f \in [0..N -> S] : IsRecursive(f, N, s0, step)
      BY <3>2, RecursionExists
    <3> QED
      BY <3>1, <3>3
  <2>5. \A n \in 1..N : step[n][f[n - 1]] = HashStep(k, n, f[n - 1])
    BY <2>1
  <2>6. f = [n \in 0..N |-> IF n = 0 THEN 5381 ELSE HashStep(k, n, f[n - 1])]
    BY <2>3, <2>4, <2>5 DEF IsRecursive
  <2> QED
    BY <1>1, <2>6
<1>6. IsDjb2(g)
  <2> HIDE DEF IsDjb2
  <2> QED
    BY <1>2, <1>5
<1>7. g[0] = 5381 /\ \A n \in 1..N : g[n] = HashStep(k, n, g[n - 1])
  BY <1>1, <1>6
<1>8. PICK T : T = {n \in 0..N : g[n] \in Nat}
  OBVIOUS
<1>9. 0 \in T /\ \A n \in 1..N : n - 1 \in T => n \in T
  BY <1>4, <1>7, <1>8
<1>10. 0..N \subseteq T
  BY <1>9, UpTo
<1> QED
  BY <1>3, <1>8, <1>10

-----------------------------------------------------------------------------
(* Tables *)

\* A table of n buckets.
IsTable(bkts, n) == bkts \in [0..n - 1 -> Seq(Entry)]

\* Every entry stands in the bucket of its key, and no key has two of them.
WellPlaced(bkts, n) ==
    \A i \in 0..n - 1 : \A j \in 1..Len(bkts[i]) : Index(bkts[i][j].key, n) = i

OneOfEach(chain) ==
    \A j, l \in 1..Len(chain) : chain[j].key = chain[l].key => j = l

IsMap(bkts, n) ==
    /\ n \in Nat \ {0}
    /\ IsTable(bkts, n)
    /\ WellPlaced(bkts, n)
    /\ \A i \in 0..n - 1 : OneOfEach(bkts[i])

Elements(chain) == {chain[j] : j \in 1..Len(chain)}

EntriesOf(bkts) == UNION {Elements(bkts[i]) : i \in DOMAIN bkts}

LEMMA CapacityIs ==
    ASSUME NEW n \in Nat \ {0}, NEW bkts, DOMAIN bkts = 0..n - 1
    PROVE  Capacity(bkts) = n
BY FS_Interval DEF Capacity

LEMMA IndexType ==
    ASSUME NEW n \in Nat \ {0}, NEW k \in Key
    PROVE  Index(k, n) \in 0..n - 1
<1>1. PICK h \in Nat : h = Hash[k]
  BY HashType
<1> QED
  BY <1>1 DEF Index

LEMMA TableTypes ==
    ASSUME NEW bkts, NEW n, IsMap(bkts, n)
    PROVE  /\ Capacity(bkts) = n
           /\ DOMAIN bkts = 0..n - 1
           /\ \A i \in 0..n - 1 : /\ bkts[i] \in Seq(Entry)
                                  /\ Len(bkts[i]) \in Nat
                                  /\ DOMAIN bkts[i] = 1..Len(bkts[i])
                                  /\ \A j \in 1..Len(bkts[i]) : bkts[i][j] \in Entry
BY CapacityIs DEF IsMap, IsTable

\* The entries with key k are those of its chain.
LEMMA ChainOfKey ==
    ASSUME NEW bkts, NEW n, IsMap(bkts, n), NEW k \in Key
    PROVE  /\ Index(k, n) \in 0..n - 1
           /\ ChainOf(bkts, k) = bkts[Index(k, n)]
           /\ ChainOf(bkts, k) \in Seq(Entry)
           /\ OneOfEach(ChainOf(bkts, k))
           /\ Elements(ChainOf(bkts, k)) \subseteq EntriesOf(bkts)
           /\ \A e \in EntriesOf(bkts) : e.key = k => e \in Elements(ChainOf(bkts, k))
<1>1. n \in Nat \ {0} /\ Index(k, n) \in 0..n - 1
  BY IndexType DEF IsMap
<1>2. ChainOf(bkts, k) = bkts[Index(k, n)]
  BY TableTypes DEF ChainOf
<1>3. ChainOf(bkts, k) \in Seq(Entry) /\ OneOfEach(ChainOf(bkts, k))
  BY <1>1, <1>2, TableTypes DEF IsMap
<1>4. Elements(ChainOf(bkts, k)) \subseteq EntriesOf(bkts)
  BY <1>1, <1>2, TableTypes DEF EntriesOf
<1>5. ASSUME NEW e \in EntriesOf(bkts), e.key = k PROVE e \in Elements(ChainOf(bkts, k))
  <2>1. PICK i \in 0..n - 1 : \E j \in 1..Len(bkts[i]) : e = bkts[i][j]
    BY TableTypes DEF EntriesOf, Elements
  <2>2. i = Index(k, n)
    BY <1>5, <2>1 DEF IsMap, WellPlaced
  <2> QED
    BY <1>2, <2>1, <2>2 DEF Elements
<1> QED
  BY <1>1, <1>2, <1>3, <1>4, <1>5

-----------------------------------------------------------------------------
(* map_get, map_put and map_remove on one table *)

LEMMA LeastOf ==
    ASSUME NEW I \in SUBSET Nat, I # {}
    PROVE  Min(I) \in I /\ \A j \in I : Min(I) <= j
BY LeastNumber DEF Min

\* map_get finds the entry of its key, or there is none.
LEMMA MapGetIs ==
    ASSUME NEW bkts, NEW n, IsMap(bkts, n), NEW k \in Key
    PROVE  \/ /\ MapGet(bkts, k) \in EntriesOf(bkts)
              /\ MapGet(bkts, k).key = k
              /\ MapGet(bkts, k) \in Entry
              /\ MapGet(bkts, k) # NoEntry
              /\ \A e \in EntriesOf(bkts) : e.key = k => e = MapGet(bkts, k)
           \/ /\ MapGet(bkts, k) = NoEntry
              /\ \A e \in EntriesOf(bkts) : e.key # k
<1>1. PICK s : s = ChainOf(bkts, k)
  OBVIOUS
<1>2. PICK I : I = {i \in 1..Len(s) : s[i].key = k}
  OBVIOUS
<1>3. MapGet(bkts, k) = IF (IF I # {} THEN Min(I) ELSE 0) = 0 THEN NoEntry
                        ELSE s[IF I # {} THEN Min(I) ELSE 0]
  BY <1>1, <1>2 DEF MapGet, SelectInSeq
<1>4. /\ s \in Seq(Entry) /\ OneOfEach(s) /\ Elements(s) \subseteq EntriesOf(bkts)
      /\ \A e \in EntriesOf(bkts) : e.key = k => e \in Elements(s)
      /\ Len(s) \in Nat /\ \A i \in 1..Len(s) : s[i] \in Entry
  BY <1>1, ChainOfKey
<1>5. CASE I = {}
  <2>1. \A e \in Elements(s) : e.key # k
    BY <1>2, <1>5 DEF Elements
  <2>2. MapGet(bkts, k) = NoEntry
    BY <1>3, <1>5
  <2> QED
    BY <1>4, <2>1, <2>2
<1>6. CASE I # {}
  <2>1. PICK i \in 1..Len(s) : I = {i} /\ s[i].key = k
    BY <1>2, <1>4, <1>6 DEF OneOfEach
  <2>2. MapGet(bkts, k) = s[i]
    <3>1. I \in SUBSET Nat
      BY <1>2, <1>4
    <3>2. Min(I) = i
      BY <1>6, <2>1, <3>1, LeastOf
    <3> QED
      BY <1>3, <1>6, <2>1, <3>2
  <2>3. s[i] \in Elements(s) /\ s[i] \in Entry
    BY <1>4 DEF Elements
  <2>4. \A e \in Elements(s) : e.key = k => e = s[i]
    BY <1>4, <2>1 DEF Elements, OneOfEach
  <2> QED
    BY <1>4, <2>1, <2>2, <2>3, <2>4, NoEntryAssumption
<1> QED
  BY <1>5, <1>6

LEMMA OneEntryEach ==
    ASSUME NEW bkts, NEW n, IsMap(bkts, n)
    PROVE  /\ EntriesOf(bkts) \subseteq Entry
           /\ \A d, e \in EntriesOf(bkts) : d.key = e.key => d = e
<1>1. EntriesOf(bkts) \subseteq Entry
  <2>1. ASSUME NEW i \in DOMAIN bkts PROVE Elements(bkts[i]) \subseteq Entry
    <3>1. \A j \in 1..Len(bkts[i]) : bkts[i][j] \in Entry
      BY TableTypes
    <3> QED
      BY <3>1 DEF Elements
  <2> QED
    BY <2>1 DEF EntriesOf
<1>2. ASSUME NEW d \in EntriesOf(bkts), NEW e \in EntriesOf(bkts), d.key = e.key
      PROVE  d = e
  <2>1. d.key \in Key
    BY <1>1 DEF Entry
  <2> QED
    BY <1>2, <2>1, MapGetIs
<1> QED
  BY <1>1, <1>2

\* r is the chain s without the entry at i.
Without(s, i, r) ==
    /\ r \in Seq(Entry)
    /\ Len(r) = Len(s) - 1
    /\ \A j \in 1..Len(s) - 1 : r[j] = IF j < i THEN s[j] ELSE s[j + 1]

LEMMA RemoveAtIs ==
    ASSUME NEW s \in Seq(Entry), NEW i \in 1..Len(s)
    PROVE  Without(s, i, RemoveAt(s, i))
<1>1. Len(s) \in Nat /\ \A j \in 1..Len(s) : s[j] \in Entry
  OBVIOUS
<1>2. PICK a : a = SubSeq(s, 1, i - 1)
  OBVIOUS
<1>3. PICK b : b = SubSeq(s, i + 1, Len(s))
  OBVIOUS
<1>4. PICK r : r = RemoveAt(s, i) /\ r = a \o b
  BY <1>2, <1>3 DEF RemoveAt
<1>5. a \in Seq(Entry) /\ Len(a) = i - 1 /\ \A j \in 1..i - 1 : a[j] = s[j]
  BY <1>1, <1>2
<1>6. b \in Seq(Entry) /\ Len(b) = Len(s) - i /\ \A j \in 1..Len(s) - i : b[j] = s[i + j]
  BY <1>1, <1>3
<1>7. r \in Seq(Entry) /\ Len(r) = Len(a) + Len(b)
  <2>1. a \in Seq(Entry) /\ b \in Seq(Entry)
    BY <1>5, <1>6
  <2>2. a \o b \in Seq(Entry) /\ Len(a \o b) = Len(a) + Len(b)
    BY <2>1, ConcatProperties
  <2> QED
    BY <1>4, <2>2
<1>8. \A j \in 1..Len(a) + Len(b) : r[j] = IF j <= Len(a) THEN a[j] ELSE b[j - Len(a)]
  BY <1>4, <1>5, <1>6, ConcatProperties
<1>9. ASSUME NEW j \in 1..Len(s) - 1
      PROVE  r[j] = IF j < i THEN s[j] ELSE s[j + 1]
  <2>1. CASE j < i
    <3>1. j \in 1..Len(a) /\ j \in 1..Len(a) + Len(b)
      BY <1>1, <1>5, <1>6, <2>1
    <3>2. r[j] = a[j] /\ a[j] = s[j]
      BY <1>5, <1>8, <3>1
    <3> QED
      BY <2>1, <3>2
  <2>2. CASE j >= i
    <3>1. j - (i - 1) \in 1..Len(s) - i /\ r[j] = b[j - (i - 1)]
      BY <1>1, <1>5, <1>6, <1>8, <2>2
    <3> QED
      BY <1>1, <1>6, <2>2, <3>1
  <2> QED
    BY <1>1, <2>1, <2>2
<1> QED
  BY <1>1, <1>4, <1>5, <1>6, <1>7, <1>9 DEF Without

\* map_remove takes out the first entry whose key starts with k, if there is one.
LEMMA RemoveInIs ==
    ASSUME NEW s \in Seq(Entry), NEW k \in Key
    PROVE  \/ /\ \A j \in 1..Len(s) : ~IsPrefix(k, s[j].key)
              /\ RemoveIn(s, k) = s
           \/ \E i \in 1..Len(s) : /\ IsPrefix(k, s[i].key)
                                   /\ \A j \in 1..i - 1 : ~IsPrefix(k, s[j].key)
                                   /\ Without(s, i, RemoveIn(s, k))
<1>1. Len(s) \in Nat
  OBVIOUS
<1>2. PICK I : I = {i \in 1..Len(s) : IsPrefix(k, s[i].key)}
  OBVIOUS
<1>3. RemoveIn(s, k) = IF I # {} THEN RemoveAt(s, IF I # {} THEN Min(I) ELSE 0) ELSE s
  BY <1>2 DEF RemoveIn, RemoveFirstMatch, SelectInSeq
<1>4. CASE I = {}
  BY <1>2, <1>3, <1>4
<1>5. CASE I # {}
  <2>1. I \in SUBSET Nat
    BY <1>1, <1>2
  <2>2. PICK i \in I : i = Min(I) /\ \A j \in I : i <= j
    BY <1>5, <2>1, LeastOf
  <2>3. i \in 1..Len(s) /\ IsPrefix(k, s[i].key)
    BY <1>2
  <2>4. \A j \in 1..i - 1 : ~IsPrefix(k, s[j].key)
    BY <1>1, <1>2, <2>2, <2>3
  <2>5. RemoveIn(s, k) = RemoveAt(s, i)
    BY <1>3, <1>5, <2>2
  <2> QED
    BY <2>3, <2>4, <2>5, RemoveAtIs
<1> QED
  BY <1>4, <1>5

LEMMA WithoutEffect ==
    ASSUME NEW s \in Seq(Entry), OneOfEach(s), NEW i \in 1..Len(s), NEW r, Without(s, i, r)
    PROVE  OneOfEach(r) /\ Elements(r) = Elements(s) \ {s[i]}
<1>1. Len(s) \in Nat
  OBVIOUS
<1>2. Len(r) = Len(s) - 1 /\ \A j \in 1..Len(s) - 1 : r[j] = IF j < i THEN s[j] ELSE s[j + 1]
  BY DEF Without
<1>3. OneOfEach(r)
  BY <1>1, <1>2 DEF OneOfEach
<1>4. ASSUME NEW j \in 1..Len(s) - 1
      PROVE  r[j] \in Elements(s) \ {s[i]}
  <2>1. CASE j < i
    <3>1. r[j] = s[j] /\ j \in 1..Len(s) /\ j # i
      BY <1>1, <1>2, <2>1
    <3> QED
      BY <3>1 DEF OneOfEach, Elements
  <2>2. CASE j >= i
    <3>1. r[j] = s[j + 1] /\ j + 1 \in 1..Len(s) /\ j + 1 # i
      BY <1>1, <1>2, <2>2
    <3> QED
      BY <3>1 DEF OneOfEach, Elements
  <2> QED
    BY <2>1, <2>2
<1>5. ASSUME NEW j \in 1..Len(s), j # i PROVE s[j] \in Elements(r)
  <2>1. CASE j < i
    <3>1. j \in 1..Len(r) /\ s[j] = r[j]
      BY <1>1, <1>2, <2>1
    <3> QED
      BY <3>1 DEF Elements
  <2>2. CASE j > i
    <3>1. j - 1 \in 1..Len(r) /\ s[j] = r[j - 1]
      BY <1>1, <1>2, <2>2
    <3> QED
      BY <3>1 DEF Elements
  <2> QED
    BY <1>5, <2>1, <2>2
<1>6. Elements(r) \subseteq Elements(s) \ {s[i]}
  BY <1>2, <1>4 DEF Elements
<1>7. Elements(s) \ {s[i]} \subseteq Elements(r)
  BY <1>5 DEF Elements
<1> QED
  BY <1>3, <1>6, <1>7

LEMMA RemoveInEffect ==
    ASSUME NEW s \in Seq(Entry), OneOfEach(s), NEW k \in Key
    PROVE  /\ RemoveIn(s, k) \in Seq(Entry)
           /\ OneOfEach(RemoveIn(s, k))
           /\ \/ /\ \A e \in Elements(s) : ~IsPrefix(k, e.key)
                 /\ Elements(RemoveIn(s, k)) = Elements(s)
              \/ \E x \in Elements(s) : /\ IsPrefix(k, x.key)
                                        /\ Elements(RemoveIn(s, k)) = Elements(s) \ {x}
<1>1. PICK r : r = RemoveIn(s, k)
  OBVIOUS
<1>2. CASE r = s /\ \A j \in 1..Len(s) : ~IsPrefix(k, s[j].key)
  BY <1>1, <1>2 DEF Elements
<1>3. CASE \E i \in 1..Len(s) : IsPrefix(k, s[i].key) /\ Without(s, i, r)
  <2>1. PICK i \in 1..Len(s) : IsPrefix(k, s[i].key) /\ Without(s, i, r)
    BY <1>3
  <2>2. OneOfEach(r) /\ Elements(r) = Elements(s) \ {s[i]} /\ r \in Seq(Entry)
    BY <2>1, WithoutEffect DEF Without
  <2>3. s[i] \in Elements(s)
    BY DEF Elements
  <2> QED
    BY <1>1, <2>1, <2>2, <2>3
<1> QED
  BY <1>1, <1>2, <1>3, RemoveInIs

\* c is the table bkts with the chain s in bucket i.
HasChain(c, bkts, n, i, s) ==
    /\ i \in 0..n - 1
    /\ s \in Seq(Entry) /\ OneOfEach(s)
    /\ \A e \in Elements(s) : Index(e.key, n) = i
    /\ c = [bkts EXCEPT ![i] = s]

LEMMA ChangeOfChain ==
    ASSUME NEW bkts, NEW n, IsMap(bkts, n), NEW i, NEW s, NEW c, HasChain(c, bkts, n, i, s)
    PROVE  /\ IsMap(c, n)
           /\ EntriesOf(c) = (EntriesOf(bkts) \ Elements(bkts[i])) \cup Elements(s)
<1>1. /\ i \in 0..n - 1
      /\ s \in Seq(Entry) /\ OneOfEach(s)
      /\ \A e \in Elements(s) : Index(e.key, n) = i
      /\ c = [bkts EXCEPT ![i] = s]
  BY DEF HasChain
<1>2. /\ n \in Nat \ {0}
      /\ bkts \in [0..n - 1 -> Seq(Entry)]
      /\ DOMAIN c = 0..n - 1
      /\ c \in [0..n - 1 -> Seq(Entry)]
      /\ c[i] = s
      /\ \A l \in 0..n - 1 : l # i => c[l] = bkts[l]
  BY <1>1 DEF IsMap, IsTable
<1>3. \A l \in 0..n - 1 : OneOfEach(c[l])
  BY <1>1, <1>2 DEF IsMap
<1>4. ASSUME NEW l \in 0..n - 1, NEW j \in 1..Len(c[l]) PROVE Index(c[l][j].key, n) = l
  <2>1. CASE l = i
    BY <1>1, <1>2, <1>4, <2>1 DEF Elements
  <2>2. CASE l # i
    BY <1>2, <1>4, <2>2 DEF IsMap, WellPlaced
  <2> QED
    BY <2>1, <2>2
<1>5. IsMap(c, n)
  BY <1>2, <1>3, <1>4 DEF IsMap, IsTable, WellPlaced
<1>6. ASSUME NEW l \in 0..n - 1, NEW e, e \in Elements(bkts[l]) PROVE Index(e.key, n) = l
  BY <1>6 DEF Elements, IsMap, WellPlaced
<1>7. ASSUME NEW e, e \in Elements(bkts[i]) PROVE Index(e.key, n) = i
  BY <1>1, <1>6, <1>7
<1>8. ASSUME NEW e, e \in EntriesOf(c)
      PROVE  e \in (EntriesOf(bkts) \ Elements(bkts[i])) \cup Elements(s)
  <2>1. PICK l \in 0..n - 1 : e \in Elements(c[l])
    BY <1>2, <1>8 DEF EntriesOf
  <2>2. CASE l = i
    BY <1>2, <2>1, <2>2
  <2>3. CASE l # i
    <3>1. e \in Elements(bkts[l])
      BY <1>2, <2>1, <2>3
    <3>2. e \in EntriesOf(bkts)
      BY <1>2, <3>1 DEF EntriesOf
    <3> QED
      BY <1>6, <1>7, <2>3, <3>1, <3>2
  <2> QED
    BY <2>2, <2>3
<1>9. ASSUME NEW e, e \in (EntriesOf(bkts) \ Elements(bkts[i])) \cup Elements(s)
      PROVE  e \in EntriesOf(c)
  <2>1. CASE e \in Elements(s)
    BY <1>1, <1>2, <2>1 DEF EntriesOf
  <2>2. CASE e \in EntriesOf(bkts) \ Elements(bkts[i])
    <3>1. PICK l \in 0..n - 1 : e \in Elements(bkts[l])
      BY <1>2, <2>2 DEF EntriesOf
    <3>2. e \in Elements(c[l])
      BY <1>2, <2>2, <3>1
    <3> QED
      BY <1>2, <3>2 DEF EntriesOf
  <2> QED
    BY <1>9, <2>1, <2>2
<1> QED
  BY <1>1, <1>5, <1>8, <1>9

\* The entries of a key's chain with that key are those of the map.
LEMMA ChainEntries ==
    ASSUME NEW bkts, NEW n, IsMap(bkts, n), NEW k \in Key
    PROVE  /\ \A e \in Elements(bkts[Index(k, n)]) : e \in Entry /\ Index(e.key, n) = Index(k, n)
           /\ \A e \in EntriesOf(bkts) : e.key = k => e \in Elements(bkts[Index(k, n)])
           /\ Elements(bkts[Index(k, n)]) \subseteq EntriesOf(bkts)
<1>1. PICK i : i = Index(k, n) /\ i \in 0..n - 1 /\ ChainOf(bkts, k) = bkts[i]
  BY ChainOfKey
<1>2. \A j \in 1..Len(bkts[i]) : bkts[i][j] \in Entry /\ Index(bkts[i][j].key, n) = i
  BY <1>1, TableTypes DEF IsMap, WellPlaced
<1>3. \A e \in Elements(bkts[i]) : e \in Entry /\ Index(e.key, n) = i
  BY <1>2 DEF Elements
<1> QED
  BY <1>1, <1>3, ChainOfKey

\* updateQ changes the entry of its key in place.
LEMMA MapUpdateEffect ==
    ASSUME NEW bkts, NEW n, IsMap(bkts, n), NEW d \in Entry,
           MapGet(bkts, d.key) # NoEntry
    PROVE  /\ IsMap(MapUpdate(bkts, d.key, d), n)
           /\ EntriesOf(MapUpdate(bkts, d.key, d)) =
                  (EntriesOf(bkts) \ {MapGet(bkts, d.key)}) \cup {d}
<1>1. PICK k \in Key : k = d.key
  BY DEF Entry
<1>2. PICK i : i = Index(k, n) /\ i \in 0..n - 1 /\ bkts[i] \in Seq(Entry) /\ OneOfEach(bkts[i])
  BY ChainOfKey
<1>3. PICK t : t = bkts[i]
  OBVIOUS
<1>4. PICK s : s = [j \in DOMAIN t |-> IF t[j].key = k THEN d ELSE t[j]]
  OBVIOUS
<1>5. Capacity(bkts) = n /\ DOMAIN bkts = 0..n - 1
  BY TableTypes
<1>6. PICK c : c = MapUpdate(bkts, k, d) /\ c = [bkts EXCEPT ![i] = s]
  BY <1>2, <1>3, <1>4, <1>5 DEF MapUpdate
<1>7. /\ t \in Seq(Entry) /\ Len(t) \in Nat /\ DOMAIN t = 1..Len(t)
      /\ \A j \in 1..Len(t) : t[j] \in Entry
  BY <1>2, <1>3
<1>8. /\ s \in Seq(Entry) /\ Len(s) = Len(t)
      /\ \A j \in 1..Len(t) : s[j] = IF t[j].key = k THEN d ELSE t[j]
  BY <1>4, <1>7
<1>9. \A j \in 1..Len(t) : s[j].key = t[j].key
  BY <1>1, <1>8
<1>10. OneOfEach(s)
  BY <1>2, <1>3, <1>8, <1>9 DEF OneOfEach
<1>11. PICK g : g = MapGet(bkts, k) /\ g \in EntriesOf(bkts) /\ g.key = k
                /\ \A e \in EntriesOf(bkts) : e.key = k => e = g
  BY <1>1, MapGetIs
<1>12. g \in Elements(t) /\ Elements(t) \subseteq EntriesOf(bkts)
       /\ \A e \in Elements(t) : Index(e.key, n) = i
  BY <1>2, <1>3, <1>11, ChainEntries
<1>13. \A e \in Elements(t) : e.key = k <=> e = g
  BY <1>11, <1>12
<1>14. Elements(s) = (Elements(t) \ {g}) \cup {d}
  <2>1. PICK m \in 1..Len(t) : t[m] = g
    BY <1>12 DEF Elements
  <2>2. s[m] = d
    BY <1>8, <1>11, <2>1
  <2>3. \A j \in 1..Len(t) : t[j] # g => s[j] = t[j]
    BY <1>8, <1>13 DEF Elements
  <2>4. \A j \in 1..Len(t) : t[j] = g => s[j] = d
    BY <1>8, <1>11
  <2> QED
    BY <1>8, <2>1, <2>2, <2>3, <2>4 DEF Elements
<1>15. \A e \in Elements(s) : Index(e.key, n) = i
  BY <1>1, <1>2, <1>12, <1>14
<1>16. /\ IsMap(c, n)
       /\ EntriesOf(c) = (EntriesOf(bkts) \ Elements(t)) \cup Elements(s)
  <2>1. HasChain(c, bkts, n, i, s) /\ t = bkts[i]
    BY <1>2, <1>3, <1>6, <1>8, <1>10, <1>15 DEF HasChain
  <2> QED
    BY <2>1, ChangeOfChain
<1> QED
  BY <1>1, <1>6, <1>11, <1>12, <1>14, <1>16

\* map_put of a key that is not in the map adds its entry.
LEMMA PushHeadEffect ==
    ASSUME NEW bkts, NEW n, IsMap(bkts, n), NEW d \in Entry,
           MapGet(bkts, d.key) = NoEntry
    PROVE  /\ IsMap(PushHead(bkts, d), n)
           /\ EntriesOf(PushHead(bkts, d)) = EntriesOf(bkts) \cup {d}
           /\ d \notin EntriesOf(bkts)
<1>1. PICK k \in Key : k = d.key
  BY DEF Entry
<1>2. PICK i : i = Index(k, n) /\ i \in 0..n - 1 /\ bkts[i] \in Seq(Entry) /\ OneOfEach(bkts[i])
  BY ChainOfKey
<1>3. PICK t : t = bkts[i]
  OBVIOUS
<1>4. PICK s : s = <<d>> \o t
  OBVIOUS
<1>5. Capacity(bkts) = n /\ DOMAIN bkts = 0..n - 1
  BY TableTypes
<1>6. PICK c : c = PushHead(bkts, d) /\ c = [bkts EXCEPT ![i] = s]
  BY <1>1, <1>2, <1>3, <1>4, <1>5 DEF PushHead
<1>7. t \in Seq(Entry) /\ Len(t) \in Nat /\ \A j \in 1..Len(t) : t[j] \in Entry
  BY <1>2, <1>3
<1>8. PICK u : u = <<d>> /\ u \in Seq(Entry) /\ Len(u) = 1 /\ u[1] = d
  <2>1. <<d>> \in Seq(Entry) /\ Len(<<d>>) = 1 /\ <<d>>[1] = d
    OBVIOUS
  <2> QED
    BY <2>1
<1>9. /\ s \in Seq(Entry) /\ Len(s) = 1 + Len(t)
      /\ \A j \in 1..1 + Len(t) : s[j] = IF j <= 1 THEN u[j] ELSE t[j - 1]
  BY <1>4, <1>7, <1>8, ConcatProperties
<1>10. s[1] = d /\ \A j \in 2..1 + Len(t) : j - 1 \in 1..Len(t) /\ s[j] = t[j - 1]
  BY <1>7, <1>8, <1>9
<1>11. \A e \in EntriesOf(bkts) : e.key # k
  BY <1>1, MapGetIs
<1>12. Elements(t) \subseteq EntriesOf(bkts) /\ \A e \in Elements(t) : Index(e.key, n) = i
  BY <1>2, <1>3, ChainEntries
<1>13. \A j \in 1..Len(t) : t[j].key # k
  BY <1>11, <1>12 DEF Elements
<1>14. OneOfEach(s)
  <2>1. ASSUME NEW j \in 1..Len(s), NEW l \in 1..Len(s), s[j].key = s[l].key PROVE j = l
    <3>1. CASE j = 1 /\ l = 1
      BY <3>1
    <3>2. CASE j = 1 /\ l # 1
      <4>1. l - 1 \in 1..Len(t) /\ s[l] = t[l - 1] /\ s[j] = d
        BY <1>7, <1>9, <1>10, <3>2
      <4> QED
        BY <1>1, <1>13, <2>1, <4>1
    <3>3. CASE j # 1 /\ l = 1
      <4>1. j - 1 \in 1..Len(t) /\ s[j] = t[j - 1] /\ s[l] = d
        BY <1>7, <1>9, <1>10, <3>3
      <4> QED
        BY <1>1, <1>13, <2>1, <4>1
    <3>4. CASE j # 1 /\ l # 1
      <4>1. /\ j - 1 \in 1..Len(t) /\ s[j] = t[j - 1]
            /\ l - 1 \in 1..Len(t) /\ s[l] = t[l - 1]
        BY <1>7, <1>9, <1>10, <3>4
      <4>2. j - 1 = l - 1
        BY <1>2, <1>3, <2>1, <4>1 DEF OneOfEach
      <4> QED
        BY <1>7, <1>9, <4>2
    <3> QED
      BY <3>1, <3>2, <3>3, <3>4
  <2> QED
    BY <2>1 DEF OneOfEach
<1>15. Elements(s) = Elements(t) \cup {d}
  <2>1. Elements(s) \subseteq Elements(t) \cup {d}
    <3>1. ASSUME NEW j \in 1..Len(s) PROVE s[j] \in Elements(t) \cup {d}
      <4>1. CASE j = 1
        BY <1>10, <4>1
      <4>2. CASE j # 1
        BY <1>7, <1>9, <1>10, <4>2 DEF Elements
      <4> QED
        BY <4>1, <4>2
    <3> QED
      BY <3>1 DEF Elements
  <2>2. ASSUME NEW j \in 1..Len(t) PROVE t[j] \in Elements(s)
    <3>1. j + 1 \in 1..Len(s) /\ s[j + 1] = t[j]
      BY <1>7, <1>9, <1>10
    <3> QED
      BY <3>1 DEF Elements
  <2>3. d \in Elements(s)
    BY <1>7, <1>9, <1>10 DEF Elements
  <2>4. Elements(t) \subseteq Elements(s)
    BY <2>2 DEF Elements
  <2> QED
    BY <2>1, <2>3, <2>4
<1>16. \A e \in Elements(s) : Index(e.key, n) = i
  BY <1>1, <1>2, <1>12, <1>15
<1>17. /\ IsMap(c, n)
       /\ EntriesOf(c) = (EntriesOf(bkts) \ Elements(t)) \cup Elements(s)
  <2>1. HasChain(c, bkts, n, i, s) /\ t = bkts[i]
    BY <1>2, <1>3, <1>6, <1>9, <1>14, <1>16 DEF HasChain
  <2> QED
    BY <2>1, ChangeOfChain
<1> QED
  BY <1>1, <1>6, <1>11, <1>12, <1>15, <1>17

\* map_remove of a key that is in the map takes out one entry, whose key starts with it.
LEMMA MapRemoveEffect ==
    ASSUME NEW bkts, NEW n, IsMap(bkts, n), NEW e \in EntriesOf(bkts)
    PROVE  /\ IsMap(MapRemove(bkts, e.key), n)
           /\ \E x \in EntriesOf(bkts) :
                 /\ IsPrefix(e.key, x.key)
                 /\ EntriesOf(MapRemove(bkts, e.key)) = EntriesOf(bkts) \ {x}
<1>0. PICK k \in Key : k = e.key
  BY OneEntryEach DEF Entry
<1>1. PICK i : i = Index(k, n) /\ i \in 0..n - 1 /\ bkts[i] \in Seq(Entry) /\ OneOfEach(bkts[i])
  BY ChainOfKey
<1>2. PICK t : t = bkts[i]
  OBVIOUS
<1>3. PICK s : s = RemoveIn(t, k)
  OBVIOUS
<1>4. Capacity(bkts) = n /\ DOMAIN bkts = 0..n - 1
  BY TableTypes
<1>5. PICK c : c = MapRemove(bkts, k) /\ c = [bkts EXCEPT ![i] = s]
  BY <1>1, <1>2, <1>3, <1>4 DEF MapRemove
<1>6. /\ \A d \in Elements(t) : Index(d.key, n) = i
      /\ \A d \in EntriesOf(bkts) : d.key = k => d \in Elements(t)
      /\ Elements(t) \subseteq EntriesOf(bkts)
  BY <1>1, <1>2, ChainEntries
<1>7. PICK x \in Elements(t) : IsPrefix(k, x.key) /\ s \in Seq(Entry) /\ OneOfEach(s)
                             /\ Elements(s) = Elements(t) \ {x}
  <2>1. IsPrefix(k, k)
    BY KeyIsSeq DEF IsPrefix
  <2>2. e \in Elements(t)
    BY <1>0, <1>6
  <2> QED
    BY <1>0, <1>1, <1>2, <1>3, <2>1, <2>2, RemoveInEffect, SMTT(30)
<1>8. \A d \in Elements(s) : Index(d.key, n) = i
  BY <1>6, <1>7
<1>9. /\ IsMap(c, n)
      /\ EntriesOf(c) = (EntriesOf(bkts) \ Elements(t)) \cup Elements(s)
  <2>1. HasChain(c, bkts, n, i, s) /\ t = bkts[i]
    BY <1>1, <1>2, <1>5, <1>7, <1>8 DEF HasChain
  <2> QED
    BY <2>1, ChangeOfChain
<1>10. EntriesOf(c) = EntriesOf(bkts) \ {x} /\ x \in EntriesOf(bkts)
  BY <1>6, <1>7, <1>9
<1> QED
  BY <1>0, <1>5, <1>7, <1>9, <1>10

-----------------------------------------------------------------------------
(* map_resize *)

EntryIn(bkts, p) == bkts[p[1]][p[2]]

\* The places of a map are its entries, and each entry has one.
LEMMA PlacesAreEntries ==
    ASSUME NEW bkts, NEW n, IsMap(bkts, n)
    PROVE  /\ Places(bkts) \subseteq Int \X Int
           /\ \A p \in Places(bkts) : /\ p[1] \in 0..n - 1
                                      /\ p[2] \in 1..Len(bkts[p[1]])
                                      /\ EntryIn(bkts, p) \in Entry
                                      /\ EntryIn(bkts, p) \in EntriesOf(bkts)
                                      /\ Index(EntryIn(bkts, p).key, n) = p[1]
           /\ \A e \in EntriesOf(bkts) : \E p \in Places(bkts) : EntryIn(bkts, p) = e
           /\ \A p, q \in Places(bkts) : EntryIn(bkts, p).key = EntryIn(bkts, q).key => p = q
<1>1. n \in Nat \ {0} /\ DOMAIN bkts = 0..n - 1
  BY TableTypes DEF IsMap
<1>2. \A i \in 0..n - 1 : /\ DOMAIN bkts[i] = 1..Len(bkts[i])
                          /\ Len(bkts[i]) \in Nat
                          /\ \A j \in 1..Len(bkts[i]) : bkts[i][j] \in Entry
  BY TableTypes
<1>3. ASSUME NEW p \in Places(bkts)
      PROVE  \E i \in 0..n - 1 : \E j \in 1..Len(bkts[i]) : p = <<i, j>>
  BY <1>1, <1>2 DEF Places
<1>4. \A i \in 0..n - 1 : \A j \in 1..Len(bkts[i]) : <<i, j>> \in Places(bkts)
  BY <1>1, <1>2 DEF Places
<1>5. ASSUME NEW p \in Places(bkts)
      PROVE  /\ p \in Int \X Int
             /\ p[1] \in 0..n - 1
             /\ p[2] \in 1..Len(bkts[p[1]])
             /\ EntryIn(bkts, p) \in Entry
             /\ EntryIn(bkts, p) \in EntriesOf(bkts)
             /\ Index(EntryIn(bkts, p).key, n) = p[1]
  <2>1. PICK i \in 0..n - 1 : \E j \in 1..Len(bkts[i]) : p = <<i, j>>
    BY <1>3
  <2>2. PICK j \in 1..Len(bkts[i]) : p = <<i, j>>
    BY <2>1
  <2>3. EntryIn(bkts, p) = bkts[i][j] /\ bkts[i][j] \in Entry
    BY <1>2, <2>2 DEF EntryIn
  <2>4. bkts[i][j] \in EntriesOf(bkts)
    BY <1>1 DEF EntriesOf, Elements
  <2>5. Index(bkts[i][j].key, n) = i
    BY DEF IsMap, WellPlaced
  <2> QED
    BY <1>1, <1>2, <2>2, <2>3, <2>4, <2>5
<1>6. ASSUME NEW e \in EntriesOf(bkts) PROVE \E p \in Places(bkts) : EntryIn(bkts, p) = e
  <2>1. PICK i \in 0..n - 1 : e \in Elements(bkts[i])
    BY <1>1 DEF EntriesOf
  <2>2. PICK j \in 1..Len(bkts[i]) : e = bkts[i][j]
    BY <2>1 DEF Elements
  <2>3. EntryIn(bkts, <<i, j>>) = e
    BY <2>2 DEF EntryIn
  <2> QED
    BY <1>4, <2>3
<1>7. ASSUME NEW p \in Places(bkts), NEW q \in Places(bkts),
             EntryIn(bkts, p).key = EntryIn(bkts, q).key
      PROVE  p = q
  <2>1. p[1] = q[1]
    BY <1>5, <1>7
  <2>2. p[2] = q[2]
    BY <1>5, <1>7, <2>1 DEF IsMap, OneOfEach, EntryIn
  <2> QED
    BY <1>5, <2>1, <2>2
<1> QED
  BY <1>5, <1>6, <1>7

\* Pushing at the head gives every place one position in the chain.
LEMMA PushedIs ==
    ASSUME NEW S \in SUBSET (Int \X Int), IsFiniteSet(S)
    PROVE  /\ Cardinality(S) \in Nat
           /\ DOMAIN Pushed(S) = 1..Cardinality(S)
           /\ \A i \in 1..Cardinality(S) : Pushed(S)[i] \in S
           /\ \A p \in S : \E i \in 1..Cardinality(S) : Pushed(S)[i] = p
           /\ \A i, j \in 1..Cardinality(S) : Pushed(S)[i] = Pushed(S)[j] => i = j
<1> DEFINE After(p) == {q \in S : Later(p, q)}
           Rank(p) == Cardinality(After(p))
<1>1. PICK N \in Nat : N = Cardinality(S)
  BY FS_CardinalityType
<1>2. /\ \A p \in S : ~Later(p, p)
      /\ \A p, q \in S : p # q => Later(p, q) \/ Later(q, p)
      /\ \A p, q, r \in S : Later(p, q) /\ Later(q, r) => Later(p, r)
  BY DEF Later
<1>3. ASSUME NEW p \in S PROVE Rank(p) \in Nat /\ Rank(p) < N
  <2>1. PICK T : T = After(p) /\ T \in SUBSET S /\ T # S
    <3>1. p \notin After(p) /\ After(p) \in SUBSET S
      BY <1>2
    <3> QED
      BY <3>1
  <2>2. IsFiniteSet(T) /\ Cardinality(T) \in Nat
    BY <2>1, FS_Subset, FS_CardinalityType
  <2>3. Cardinality(T) <= N /\ Cardinality(T) # N
    BY <1>1, <2>1, FS_Subset
  <2> QED
    BY <2>1, <2>2, <2>3
<1>4. ASSUME NEW p \in S, NEW q \in S, Later(p, q) PROVE Rank(q) < Rank(p)
  <2>1. PICK T : T = After(p) /\ IsFiniteSet(T)
    BY FS_Subset
  <2>2. PICK U : U = After(q)
    OBVIOUS
  <2>3. q \in T /\ q \notin U
    BY <1>2, <1>4, <2>1, <2>2
  <2>4. U \in SUBSET T
    BY <1>2, <1>4, <2>1, <2>2
  <2>5. Cardinality(U) <= Cardinality(T) /\ Cardinality(U) # Cardinality(T)
    BY <2>1, <2>3, <2>4, FS_Subset
  <2> QED
    BY <1>3, <2>1, <2>2, <2>5
<1>5. PICK r : r = [p \in S |-> Rank(p) + 1]
  OBVIOUS
<1>6. r \in [S -> 1..N] /\ \A p, q \in S : r[p] = r[q] => p = q
  <2> HIDE DEF Rank
  <2>1. r \in [S -> 1..N]
    BY <1>1, <1>3, <1>5
  <2>2. ASSUME NEW p \in S, NEW q \in S, r[p] = r[q] PROVE p = q
    BY <1>2, <1>3, <1>4, <1>5, <2>2
  <2> QED
    BY <2>1, <2>2
<1>7. \A i \in 1..N : \E p \in S : r[p] = i
  <2>1. r \in Injection(S, 1..N)
    BY <1>6 DEF Injection, IsInjective
  <2>2. IsFiniteSet(1..N) /\ Cardinality(1..N) = N
    BY FS_Interval
  <2>3. r \in Surjection(S, 1..N)
    BY <1>1, <2>1, <2>2, FS_Injection
  <2> QED
    BY <2>3 DEF Surjection
<1>8. ASSUME NEW i \in 1..N PROVE \E p \in S : Rank(p) = i - 1
  <2> HIDE DEF Rank
  <2>1. PICK p \in S : r[p] = i
    BY <1>7
  <2>2. Rank(p) + 1 = i
    BY <1>5, <2>1
  <2>3. Rank(p) = i - 1
    BY <1>3, <2>2
  <2> QED
    BY <2>3
<1>9. DOMAIN Pushed(S) = 1..N
  BY <1>1 DEF Pushed
<1>10. \A i \in 1..N : Pushed(S)[i] = CHOOSE p \in S : Rank(p) = i - 1
  BY <1>1 DEF Pushed
<1>11. \A i \in 1..N : Pushed(S)[i] \in S /\ Rank(Pushed(S)[i]) = i - 1
  <2> HIDE DEF Rank
  <2> QED
    BY <1>8, <1>10
<1>12. \A i, j \in 1..N : Pushed(S)[i] = Pushed(S)[j] => i = j
  <2> HIDE DEF Rank
  <2> QED
    BY <1>11
<1>13. ASSUME NEW p \in S PROVE \E i \in 1..N : Pushed(S)[i] = p
  <2> HIDE DEF Rank
  <2>1. PICK i \in 1..N : r[p] = i
    BY <1>6
  <2>2. Rank(p) = i - 1 /\ Rank(Pushed(S)[i]) = i - 1 /\ Pushed(S)[i] \in S
    BY <1>3, <1>5, <1>11, <2>1
  <2>3. r[Pushed(S)[i]] = r[p]
    BY <1>5, <2>2
  <2> QED
    BY <1>6, <2>2, <2>3
<1> QED
  BY <1>1, <1>9, <1>11, <1>12, <1>13

Mine(bkts, m, i) == {p \in Places(bkts) : Index(EntryIn(bkts, p).key, m) = i}

\* A table of twice the capacity holds the same entries, each in its bucket there.
LEMMA MapResizeEffect ==
    ASSUME NEW bkts, NEW n, IsMap(bkts, n), IsFiniteSet(Places(bkts))
    PROVE  /\ IsMap(MapResize(bkts), 2 * n)
           /\ EntriesOf(MapResize(bkts)) = EntriesOf(bkts)
<1>1. PICK m \in Nat \ {0} : m = 2 * n
  BY DEF IsMap
<1>2. PICK c : c = MapResize(bkts)
  OBVIOUS
<1>3. Capacity(bkts) = n
  BY TableTypes
<1>4. c = [i \in 0..m - 1 |->
              [j \in DOMAIN Pushed(Mine(bkts, m, i)) |->
                  EntryIn(bkts, Pushed(Mine(bkts, m, i))[j])]]
  BY <1>1, <1>2, <1>3 DEF MapResize, Mine, EntryIn
<1>5. ASSUME NEW i \in 0..m - 1
      PROVE  /\ c[i] \in Seq(Entry)
             /\ \A j \in 1..Len(c[i]) : Index(c[i][j].key, m) = i
             /\ OneOfEach(c[i])
             /\ \A p \in Mine(bkts, m, i) : EntryIn(bkts, p) \in Elements(c[i])
             /\ Elements(c[i]) \subseteq EntriesOf(bkts)
  <2>1. PICK S : S = Mine(bkts, m, i) /\ S \in SUBSET Places(bkts)
    BY DEF Mine
  <2>2. IsFiniteSet(S) /\ S \in SUBSET (Int \X Int)
    BY <2>1, PlacesAreEntries, FS_Subset
  <2>3. PICK N \in Nat : N = Cardinality(S)
    BY <2>2, FS_CardinalityType
  <2>4. PICK P : P = Pushed(S)
    OBVIOUS
  <2>5. /\ DOMAIN P = 1..N
        /\ \A j \in 1..N : P[j] \in S
        /\ \A p \in S : \E j \in 1..N : P[j] = p
        /\ \A j, l \in 1..N : P[j] = P[l] => j = l
    BY <2>2, <2>3, <2>4, PushedIs
  <2>6. c[i] = [j \in 1..N |-> EntryIn(bkts, P[j])]
    BY <1>4, <2>1, <2>4, <2>5
  <2>7. \A p \in S : /\ EntryIn(bkts, p) \in Entry
                     /\ EntryIn(bkts, p) \in EntriesOf(bkts)
                     /\ Index(EntryIn(bkts, p).key, m) = i
    BY <2>1, PlacesAreEntries DEF Mine
  <2>8. /\ c[i] \in Seq(Entry) /\ Len(c[i]) = N
        /\ \A j \in 1..N : c[i][j] = EntryIn(bkts, P[j])
    BY <2>5, <2>6, <2>7
  <2>9. \A j \in 1..Len(c[i]) : Index(c[i][j].key, m) = i
    BY <2>5, <2>7, <2>8
  <2>10. ASSUME NEW j \in 1..N, NEW l \in 1..N, c[i][j].key = c[i][l].key PROVE j = l
    <3>1. P[j] \in Places(bkts) /\ P[l] \in Places(bkts)
      BY <2>1, <2>5
    <3>2. EntryIn(bkts, P[j]).key = EntryIn(bkts, P[l]).key
      BY <2>8, <2>10
    <3>3. P[j] = P[l]
      BY <3>1, <3>2, PlacesAreEntries
    <3> QED
      BY <2>5, <3>3
  <2>11. OneOfEach(c[i])
    BY <2>8, <2>10 DEF OneOfEach
  <2>12. \A p \in S : EntryIn(bkts, p) \in Elements(c[i])
    BY <2>5, <2>8 DEF Elements
  <2>13. Elements(c[i]) \subseteq EntriesOf(bkts)
    BY <2>5, <2>7, <2>8 DEF Elements
  <2> QED
    BY <2>1, <2>8, <2>9, <2>11, <2>12, <2>13
<1>6. DOMAIN c = 0..m - 1 /\ c \in [0..m - 1 -> Seq(Entry)]
  <2>1. DOMAIN c = 0..m - 1 /\ c = [i \in 0..m - 1 |-> c[i]]
    BY <1>4
  <2> QED
    BY <1>5, <2>1
<1>7. IsMap(c, m)
  BY <1>5, <1>6 DEF IsMap, IsTable, WellPlaced
<1>8. EntriesOf(c) \subseteq EntriesOf(bkts)
  BY <1>5, <1>6 DEF EntriesOf
<1>9. ASSUME NEW e \in EntriesOf(bkts) PROVE e \in EntriesOf(c)
  <2>1. PICK p \in Places(bkts) : EntryIn(bkts, p) = e
    BY PlacesAreEntries
  <2>2. e \in Entry /\ e.key \in Key
    BY <2>1, PlacesAreEntries DEF Entry
  <2>3. PICK i \in 0..m - 1 : i = Index(e.key, m)
    BY <2>2, IndexType
  <2>4. p \in Mine(bkts, m, i)
    BY <2>1, <2>3 DEF Mine
  <2>5. e \in Elements(c[i])
    BY <1>5, <2>1, <2>4
  <2> QED
    BY <1>6, <2>5 DEF EntriesOf
<1> QED
  BY <1>1, <1>2, <1>7, <1>8, <1>9

-----------------------------------------------------------------------------
(* The walk of deleteAll *)

WalkStep(c, s, n, t) == IF OfConn(c, s[n]) THEN RemoveIn(t, s[n].key) ELSE t

Chains == {t \in Seq(Entry) : OneOfEach(t)}

\* What is left of s when the walk has passed n of its entries: the others, in order.
LeftAfter(c, s, n, t) ==
    /\ t \in Chains
    /\ Elements(t) = {e \in Elements(s) : ~(OfConn(c, e) /\ \E m \in 1..n : s[m] = e)}
    /\ \A i, j \in 1..Len(t) : \A l, m \in 1..Len(s) :
           i < j /\ t[i] = s[l] /\ t[j] = s[m] => l < m

LEMMA WalkStepType ==
    ASSUME NEW c \in HConn, NEW s \in Chains, NEW n \in 1..Len(s), NEW t \in Chains
    PROVE  WalkStep(c, s, n, t) \in Chains
<1>1. PICK k \in Key : k = s[n].key
  <2>1. s \in Seq(Entry)
    BY DEF Chains
  <2>2. s[n] \in Entry
    BY <2>1, ElementOfSeq
  <2> QED
    BY <2>2 DEF Entry
<1>2. RemoveIn(t, s[n].key) \in Chains
  BY <1>1, RemoveInEffect DEF Chains
<1> QED
  BY <1>2 DEF WalkStep

\* The entries of the connection that come before are gone already, so that the
\* first entry whose key starts with the one the walk has come to is that one.
LEMMA WalkRemoves ==
    ASSUME NEW c \in HConn, NEW s \in Chains, NEW n \in 1..Len(s), NEW t,
           LeftAfter(c, s, n - 1, t), OfConn(c, s[n]), NEW k \in Key, k = s[n].key
    PROVE  \E i \in 1..Len(t) : t[i] = s[n] /\ Without(t, i, RemoveIn(t, k))
<1>1. s \in Seq(Entry) /\ Len(s) \in Nat /\ t \in Seq(Entry) /\ Len(t) \in Nat
  BY DEF Chains, LeftAfter
<1>2. PICK x \in Entry : x = s[n] /\ x \in Elements(s)
  BY <1>1 DEF Elements
<1>3. \A m \in 1..n - 1 : s[m] # x
  BY <1>1, <1>2 DEF Chains, OneOfEach
<1>4. PICK j \in 1..Len(t) : t[j] = x
  <2>1. x \in Elements(t)
    BY <1>2, <1>3 DEF LeftAfter
  <2> QED
    BY <2>1 DEF Elements
<1>5. IsPrefix(k, t[j].key)
  <2>1. IsPrefix(k, k)
    BY KeyIsSeq DEF IsPrefix
  <2> QED
    BY <1>2, <1>4, <2>1
<1>6. PICK i \in 1..Len(t) : /\ IsPrefix(k, t[i].key)
                             /\ \A l \in 1..i - 1 : ~IsPrefix(k, t[l].key)
                             /\ Without(t, i, RemoveIn(t, k))
  BY <1>1, <1>5, RemoveInIs
<1>7. ASSUME i # j PROVE FALSE
  <2>1. i < j
    BY <1>1, <1>5, <1>6, <1>7
  <2>2. PICK y \in Entry : y = t[i] /\ y \in Elements(t)
    BY <1>1 DEF Elements
  <2>3. OfConn(c, y)
    BY <1>2, <1>6, <2>2, OfSameConn
  <2>4. PICK m \in 1..Len(s) : s[m] = y
    BY <2>2 DEF LeftAfter, Elements
  <2>5. m < n
    BY <1>2, <1>4, <2>1, <2>2, <2>4 DEF LeftAfter
  <2>6. m \in 1..n - 1
    BY <1>1, <2>5
  <2> QED
    BY <2>2, <2>3, <2>4, <2>6 DEF LeftAfter
<1>8. t[i] = s[n]
  <2>1. i = j
    BY <1>7
  <2> QED
    BY <1>2, <1>4, <2>1
<1> QED
  BY <1>6, <1>8

LEMMA WalkStepEffect ==
    ASSUME NEW c \in HConn, NEW s \in Chains, NEW n \in 1..Len(s), NEW t,
           LeftAfter(c, s, n - 1, t)
    PROVE  LeftAfter(c, s, n, WalkStep(c, s, n, t))
<1>1. PICK x \in Entry : x = s[n] /\ x \in Elements(s)
  BY DEF Chains, Elements
<1>2. s \in Seq(Entry) /\ Len(s) \in Nat /\ t \in Chains /\ t \in Seq(Entry) /\ Len(t) \in Nat
  BY DEF Chains, LeftAfter
<1>3. \A e : (\E m \in 1..n : s[m] = e) <=> (\E m \in 1..n - 1 : s[m] = e) \/ e = x
  BY <1>1, <1>2
<1>4. CASE OfConn(c, x)
  <2>1. PICK r : r = RemoveIn(t, x.key) /\ r = WalkStep(c, s, n, t)
    BY <1>1, <1>4 DEF WalkStep
  <2>2. PICK i \in 1..Len(t) : t[i] = x /\ Without(t, i, r)
    <3>1. PICK k \in Key : k = s[n].key
      BY <1>1 DEF Entry
    <3>2. OfConn(c, s[n])
      BY <1>1, <1>4
    <3>3. \E i \in 1..Len(t) : t[i] = s[n] /\ Without(t, i, RemoveIn(t, k))
      BY <3>1, <3>2, WalkRemoves
    <3> QED
      BY <1>1, <2>1, <3>1, <3>3
  <2>3. OneOfEach(r) /\ Elements(r) = Elements(t) \ {x}
    <3>1. OneOfEach(t)
      BY DEF LeftAfter, Chains
    <3> QED
      BY <1>2, <2>2, <3>1, WithoutEffect
  <2>4. r \in Chains /\ Len(r) = Len(t) - 1
        /\ \A j \in 1..Len(t) - 1 : r[j] = IF j < i THEN t[j] ELSE t[j + 1]
    BY <2>2, <2>3 DEF Without, Chains
  <2>5. Elements(r) = {e \in Elements(s) : ~(OfConn(c, e) /\ \E m \in 1..n : s[m] = e)}
    BY <1>3, <1>4, <2>3 DEF LeftAfter
  <2>6. ASSUME NEW a \in 1..Len(r), NEW b \in 1..Len(r), a < b,
               NEW l \in 1..Len(s), NEW m \in 1..Len(s), r[a] = s[l], r[b] = s[m]
        PROVE  l < m
    <3>1. \E p, q \in 1..Len(t) : p < q /\ r[a] = t[p] /\ r[b] = t[q]
      <4>1. \E p \in 1..Len(t) : r[a] = t[p] /\ p = IF a < i THEN a ELSE a + 1
        BY <1>2, <2>4
      <4>2. \E q \in 1..Len(t) : r[b] = t[q] /\ q = IF b < i THEN b ELSE b + 1
        BY <1>2, <2>4
      <4> QED
        BY <1>2, <2>4, <2>6, <4>1, <4>2
    <3> QED
      BY <2>6, <3>1 DEF LeftAfter
  <2> QED
    BY <2>1, <2>4, <2>5, <2>6 DEF LeftAfter
<1>5. CASE ~OfConn(c, x)
  <2>1. WalkStep(c, s, n, t) = t
    BY <1>1, <1>5 DEF WalkStep
  <2>2. Elements(t) = {e \in Elements(s) : ~(OfConn(c, e) /\ \E m \in 1..n : s[m] = e)}
    BY <1>3, <1>5 DEF LeftAfter
  <2> QED
    BY <1>2, <2>1, <2>2 DEF LeftAfter
<1> QED
  BY <1>4, <1>5

\* The walk leaves exactly the entries of the other connections.
LEMMA WalkEffect ==
    ASSUME NEW c \in HConn, NEW s \in Seq(Entry), OneOfEach(s)
    PROVE  /\ Walk(c, s) \in Seq(Entry)
           /\ OneOfEach(Walk(c, s))
           /\ Elements(Walk(c, s)) = {e \in Elements(s) : ~OfConn(c, e)}
<1> DEFINE IsWalk(f) ==
        f = [n \in 0..Len(s) |-> IF n = 0 THEN s ELSE WalkStep(c, s, n, f[n - 1])]
<1>1. PICK N \in Nat : N = Len(s)
  OBVIOUS
<1>2. s \in Chains
  BY DEF Chains
<1>3. PICK g : g = (CHOOSE f : IsWalk(f))
  OBVIOUS
<1>4. Walk(c, s) = g[N]
  BY <1>1, <1>3 DEF Walk, WalkStep
<1>5. \E f : IsWalk(f)
  <2>1. PICK step : step = [n \in 1..N |-> [t \in Chains |-> WalkStep(c, s, n, t)]]
    OBVIOUS
  <2>2. step \in [1..N -> [Chains -> Chains]]
    BY <1>1, <1>2, <2>1, WalkStepType
  <2>3. PICK f \in [0..N -> Chains] : IsRecursive(f, N, s, step)
    BY <1>2, <2>2, RecursionExists
  <2>4. \A n \in 1..N : step[n][f[n - 1]] = WalkStep(c, s, n, f[n - 1])
    BY <2>1
  <2>5. f = [n \in 0..N |-> IF n = 0 THEN s ELSE WalkStep(c, s, n, f[n - 1])]
    BY <2>3, <2>4 DEF IsRecursive
  <2> QED
    BY <1>1, <2>5
<1>6. IsWalk(g)
  <2> HIDE DEF IsWalk
  <2> QED
    BY <1>3, <1>5
<1>7. g[0] = s /\ \A n \in 1..N : g[n] = WalkStep(c, s, n, g[n - 1])
  BY <1>1, <1>6
<1>8. PICK T : T = {n \in 0..N : LeftAfter(c, s, n, g[n])}
  OBVIOUS
<1>9. 0 \in T
  <2>1. OneOfEach(s) /\ Len(s) \in Nat
    BY <1>1
  <2>2. \A i, j \in 1..Len(s) : s[i] = s[j] => i = j
    BY <2>1 DEF OneOfEach
  <2>3. \A i, j \in 1..Len(s) : \A l, m \in 1..Len(s) :
            i < j /\ s[i] = s[l] /\ s[j] = s[m] => l < m
    BY <2>2
  <2> QED
    BY <1>1, <1>2, <1>7, <1>8, <2>3 DEF LeftAfter
<1>10. ASSUME NEW n \in 1..N, n - 1 \in T PROVE n \in T
  <2>1. LeftAfter(c, s, n, WalkStep(c, s, n, g[n - 1]))
    BY <1>1, <1>2, <1>8, <1>10, WalkStepEffect
  <2> QED
    BY <1>7, <1>8, <2>1
<1>11. 0..N \subseteq T
  BY <1>9, <1>10, UpTo
<1>12. LeftAfter(c, s, N, g[N])
  BY <1>8, <1>11
<1>13. \A e \in Elements(s) : \E m \in 1..N : s[m] = e
  BY <1>1 DEF Elements
<1>14. Elements(g[N]) = {e \in Elements(s) : ~OfConn(c, e)}
  BY <1>12, <1>13 DEF LeftAfter
<1> QED
  BY <1>4, <1>12, <1>14 DEF LeftAfter, Chains

LEMMA WalksEffect ==
    ASSUME NEW bkts, NEW n, IsMap(bkts, n), NEW c \in HConn,
           NEW d, d = [i \in DOMAIN bkts |-> Walk(c, bkts[i])]
    PROVE  /\ IsMap(d, n)
           /\ EntriesOf(d) = {e \in EntriesOf(bkts) : ~OfConn(c, e)}
<1>1. n \in Nat \ {0} /\ DOMAIN bkts = 0..n - 1 /\ DOMAIN d = 0..n - 1
  BY TableTypes DEF IsMap
<1>2. ASSUME NEW i \in 0..n - 1
      PROVE  /\ d[i] \in Seq(Entry)
             /\ OneOfEach(d[i])
             /\ Elements(d[i]) = {e \in Elements(bkts[i]) : ~OfConn(c, e)}
  <2>1. bkts[i] \in Seq(Entry) /\ OneOfEach(bkts[i])
    BY TableTypes DEF IsMap
  <2>2. d[i] = Walk(c, bkts[i])
    BY <1>1
  <2> QED
    BY <2>1, <2>2, WalkEffect
<1>3. d \in [0..n - 1 -> Seq(Entry)]
  BY <1>1, <1>2
<1>4. ASSUME NEW i \in 0..n - 1, NEW j \in 1..Len(d[i]) PROVE Index(d[i][j].key, n) = i
  <2>1. d[i][j] \in Elements(d[i])
    BY DEF Elements
  <2>2. d[i][j] \in Elements(bkts[i])
    BY <1>2, <2>1
  <2> QED
    BY <2>2 DEF Elements, IsMap, WellPlaced
<1>5. IsMap(d, n)
  BY <1>1, <1>2, <1>3, <1>4 DEF IsMap, IsTable, WellPlaced
<1>6. EntriesOf(d) = {e \in EntriesOf(bkts) : ~OfConn(c, e)}
  BY <1>1, <1>2 DEF EntriesOf
<1> QED
  BY <1>5, <1>6

-----------------------------------------------------------------------------
(* The invariant *)

\* Some of the entries are as many as the places they stand at.
LEMMA AsManyPlaces ==
    ASSUME NEW bkts, NEW n, IsMap(bkts, n), IsFiniteSet(EntriesOf(bkts)),
           NEW E \in SUBSET EntriesOf(bkts),
           NEW P, P = {p \in Places(bkts) : EntryIn(bkts, p) \in E}
    PROVE  IsFiniteSet(P) /\ Cardinality(P) = Cardinality(E)
<1>1. IsFiniteSet(E)
  BY FS_Subset
<1>2. PICK f : f = [p \in P |-> EntryIn(bkts, p)]
  OBVIOUS
<1>3. f \in [P -> E]
  BY <1>2
<1>4. \A p, q \in P : f[p] = f[q] => p = q
  BY <1>2, PlacesAreEntries
<1>5. \A e \in E : \E p \in P : f[p] = e
  BY <1>2, PlacesAreEntries
<1>6. f \in Injection(P, E) /\ f \in Surjection(P, E)
  BY <1>3, <1>4, <1>5 DEF Injection, Surjection, IsInjective
<1> QED
  BY <1>1, <1>6, FS_Injection

LEMMA PlacesFinite ==
    ASSUME NEW bkts, NEW n, IsMap(bkts, n), IsFiniteSet(EntriesOf(bkts))
    PROVE  /\ IsFiniteSet(Places(bkts))
           /\ Cardinality(Places(bkts)) = Cardinality(EntriesOf(bkts))
<1>1. PICK E : E = EntriesOf(bkts)
  OBVIOUS
<1>2. Places(bkts) = {p \in Places(bkts) : EntryIn(bkts, p) \in E}
  BY <1>1, PlacesAreEntries
<1> QED
  BY <1>1, <1>2, AsManyPlaces

\* The chains are a map and map->size counts its entries: what no call disturbs,
\* whatever the keys.
IsCounted(bkts, n, count) ==
    /\ IsMap(bkts, n)
    /\ IsFiniteSet(EntriesOf(bkts))
    /\ count = Cardinality(EntriesOf(bkts))

ChainInv == IsCounted(buckets, Capacity(buckets), size) /\ heap \subseteq Buffer

\* The buffers that are allocated are those of the entries, one each: what needs
\* keys of which none is a prefix of another.
Owned(entries, bufs) ==
    /\ bufs = {e.buf : e \in entries}
    /\ \A d, e \in entries : d.buf = e.buf => d = e

MapInv == ChainInv /\ Owned(EntriesOf(buckets), heap)

\* No key of the map is a proper prefix of another: what map_remove takes for
\* granted when it compares strlen(key) characters (ibmmqc.c:2512).
PrefixFree == \A j, k \in Key : IsPrefix(j, k) => j = k

LEMMA ChainInvNext ==
    ASSUME NEW c, c = buckets', NEW m, IsCounted(c, m, size'), heap' \subseteq Buffer
    PROVE  ChainInv'
<1>1. Capacity(c) = m
  BY TableTypes DEF IsCounted
<1> QED
  BY <1>1 DEF ChainInv

\* The value of the refinement mapping.
StoreOf(bkts) ==
    [k \in Key |-> LET e == MapGet(bkts, k)
                   IN  IF e = NoEntry THEN NoEntry ELSE [buf |-> e.buf, size |-> e.size]]

LEMMA StoreOfEntries ==
    ASSUME NEW bkts, NEW n, IsMap(bkts, n), NEW k \in Key
    PROVE  /\ \A e \in EntriesOf(bkts) :
                  e.key = k => /\ StoreOf(bkts)[k] = [buf |-> e.buf, size |-> e.size]
                               /\ StoreOf(bkts)[k] # NoEntry
           /\ (\A e \in EntriesOf(bkts) : e.key # k) => StoreOf(bkts)[k] = NoEntry
<1>1. PICK g : g = MapGet(bkts, k)
  OBVIOUS
<1>2. StoreOf(bkts)[k] = IF g = NoEntry THEN NoEntry ELSE [buf |-> g.buf, size |-> g.size]
  BY <1>1 DEF StoreOf
<1>3. \/ /\ g \in Entry /\ g \in EntriesOf(bkts) /\ g # NoEntry /\ g.key = k
         /\ \A e \in EntriesOf(bkts) : e.key = k => e = g
      \/ /\ g = NoEntry
         /\ \A e \in EntriesOf(bkts) : e.key # k
  BY <1>1, MapGetIs
<1>4. g \in Entry => [buf |-> g.buf, size |-> g.size] # NoEntry
  BY NoEntryAssumption DEF Entry
<1> QED
  BY <1>2, <1>3, <1>4

LEMMA SameStore ==
    ASSUME NEW bkts, NEW n, IsMap(bkts, n), NEW c, NEW m, IsMap(c, m), NEW k \in Key,
           \A e : e.key = k => (e \in EntriesOf(bkts) <=> e \in EntriesOf(c))
    PROVE  StoreOf(c)[k] = StoreOf(bkts)[k]
<1>1. CASE \E e \in EntriesOf(bkts) : e.key = k
  <2>1. PICK e : e \in EntriesOf(bkts) /\ e \in EntriesOf(c) /\ e.key = k
    BY <1>1
  <2>2. StoreOf(bkts)[k] = [buf |-> e.buf, size |-> e.size]
    BY <2>1, StoreOfEntries
  <2>3. StoreOf(c)[k] = [buf |-> e.buf, size |-> e.size]
    BY <2>1, StoreOfEntries
  <2> QED
    BY <2>2, <2>3
<1>2. CASE \A e \in EntriesOf(bkts) : e.key # k
  <2>1. \A e \in EntriesOf(c) : e.key # k
    BY <1>2
  <2> QED
    BY <1>2, <2>1, StoreOfEntries
<1> QED
  BY <1>1, <1>2

LEMMA MakeRoomEffect ==
    ASSUME NEW bkts, NEW n, IsMap(bkts, n), IsFiniteSet(EntriesOf(bkts)), NEW count
    PROVE  \E m : /\ IsMap(MakeRoom(bkts, count), m)
                  /\ EntriesOf(MakeRoom(bkts, count)) = EntriesOf(bkts)
<1>1. IsFiniteSet(Places(bkts))
  BY PlacesFinite
<1>2. IsMap(MapResize(bkts), 2 * n) /\ EntriesOf(MapResize(bkts)) = EntriesOf(bkts)
  BY <1>1, MapResizeEffect
<1> QED
  BY <1>2 DEF MakeRoom

LEMMA MapInvInit == Init => MapInv /\ Store!StoreInit
<1> SUFFICES ASSUME Init PROVE MapInv /\ Store!StoreInit
  OBVIOUS
<1>1. PICK n : n = InitialCapacity /\ n \in Nat \ {0}
  BY MapAssumption
<1>2. buckets = [i \in 0..n - 1 |-> <<>>] /\ size = 0 /\ heap = {}
  BY <1>1 DEF Init
<1>3. DOMAIN buckets = 0..n - 1 /\ \A i \in 0..n - 1 : buckets[i] = <<>>
  BY <1>2
<1>4. Capacity(buckets) = n
  BY <1>1, <1>3, CapacityIs
<1>5. Len(<<>>) = 0 /\ <<>> \in Seq(Entry)
  OBVIOUS
<1>6. IsMap(buckets, n)
  BY <1>1, <1>2, <1>3, <1>5 DEF IsMap, IsTable, WellPlaced, OneOfEach
<1>7. EntriesOf(buckets) = {}
  BY <1>3, <1>5 DEF EntriesOf, Elements
<1>8. MapInv
  BY <1>2, <1>4, <1>6, <1>7, FS_EmptySet DEF MapInv, ChainInv, IsCounted, Owned
<1>9. \A k \in Key : MapGet(buckets, k) = NoEntry
  BY <1>6, <1>7, MapGetIs
<1> QED
  BY <1>2, <1>8, <1>9 DEF Store!StoreInit

-----------------------------------------------------------------------------
(* The operations *)

\* The refinement mapping is StoreOf, and the promise's types are those of the map.
LEMMA MappingIs ==
    /\ [k \in Key |-> LET e == MapGet(buckets, k)
                      IN  IF e = NoEntry THEN NoEntry
                          ELSE [buf |-> e.buf, size |-> e.size]] = StoreOf(buckets)
    /\ ([k \in Key |-> LET e == MapGet(buckets, k)
                       IN  IF e = NoEntry THEN NoEntry
                           ELSE [buf |-> e.buf, size |-> e.size]])' = StoreOf(buckets')
BY DEF StoreOf

LEMMA RecordIs ==
    ASSUME NEW k \in Key, NEW b \in Buffer, NEW n \in Length
    PROVE  \E d \in Entry : /\ d = [key |-> k, buf |-> b, size |-> n]
                            /\ d.key = k /\ d.buf = b /\ d.size = n
<1>1. [key |-> k, buf |-> b, size |-> n] \in Entry
  BY DEF Entry
<1> QED
  BY <1>1

\* updateQ of an object without a buffer, with or without a resize: one more entry.
LEMMA AllocateEffect ==
    ASSUME ChainInv, NEW k \in Key, NEW n \in Length, Allocate(k, n)
    PROVE  /\ ChainInv'
           /\ \A e \in EntriesOf(buckets) : e.key # k
           /\ \E b \in Buffer \ heap : \E d \in Entry :
                 /\ d = [key |-> k, buf |-> b, size |-> n] /\ d.key = k /\ d.buf = b
                 /\ heap' = heap \cup {b}
                 /\ EntriesOf(buckets') = EntriesOf(buckets) \cup {d}
<1>1. PICK b \in Buffer \ heap :
          /\ heap' = heap \cup {b}
          /\ buckets' = PushHead(MakeRoom(buckets, size), [key |-> k, buf |-> b, size |-> n])
          /\ size' = size + 1
  BY DEF Allocate
<1>2. PICK E : E = EntriesOf(buckets)
  OBVIOUS
<1>3. PICK m : IsMap(buckets, m) /\ IsFiniteSet(E) /\ size = Cardinality(E) /\ heap \subseteq Buffer
  BY <1>2 DEF ChainInv, IsCounted
<1>4. PICK r : r = MakeRoom(buckets, size)
  OBVIOUS
<1>5. PICK w : IsMap(r, w) /\ EntriesOf(r) = E
  BY <1>2, <1>3, <1>4, MakeRoomEffect
<1>6. PICK d \in Entry : d = [key |-> k, buf |-> b, size |-> n]
                         /\ d.key = k /\ d.buf = b /\ d.size = n
  BY RecordIs
<1>7. \A e \in E : e.key # k
  BY <1>2, <1>3, MapGetIs DEF Allocate
<1>8. MapGet(r, d.key) = NoEntry
  BY <1>5, <1>6, <1>7, MapGetIs
<1>9. PICK c : c = buckets' /\ c = PushHead(r, d)
  BY <1>1, <1>4, <1>6
<1>10. IsMap(c, w) /\ EntriesOf(c) = E \cup {d} /\ d \notin E
  BY <1>5, <1>8, <1>9, PushHeadEffect
<1>11. IsFiniteSet(E \cup {d}) /\ Cardinality(E \cup {d}) = size + 1
  BY <1>3, <1>10, FS_AddElement
<1>12. IsCounted(c, w, size')
  BY <1>1, <1>10, <1>11 DEF IsCounted
<1>13. heap' \subseteq Buffer
  BY <1>1, <1>3
<1>14. ChainInv'
  BY <1>9, <1>12, <1>13, ChainInvNext
<1>15. EntriesOf(buckets') = EntriesOf(buckets) \cup {d}
  BY <1>2, <1>9, <1>10
<1> QED
  BY <1>1, <1>2, <1>6, <1>7, <1>14, <1>15

LEMMA AllocateStep ==
    ASSUME MapInv, NEW k \in Key, NEW n \in Length, Allocate(k, n)
    PROVE  MapInv' /\ Store!Allocate(k, n)
<1>1. PICK E : E = EntriesOf(buckets)
  OBVIOUS
<1>2. ChainInv' /\ \A e \in E : e.key # k
  BY <1>1, AllocateEffect DEF MapInv
<1>3. PICK b \in Buffer \ heap, d \in Entry :
                 /\ d = [key |-> k, buf |-> b, size |-> n] /\ d.key = k /\ d.buf = b
                 /\ heap' = heap \cup {b}
                 /\ EntriesOf(buckets') = E \cup {d}
  BY <1>1, AllocateEffect DEF MapInv
<1>4. PICK c : c = buckets' /\ EntriesOf(c) = E \cup {d}
  BY <1>3
<1>5. PICK m : IsMap(buckets, m)
  BY DEF MapInv, ChainInv, IsCounted
<1>6. PICK w : IsMap(c, w)
  BY <1>2, <1>4 DEF ChainInv, IsCounted
<1>7. heap = {e.buf : e \in E} /\ \A e, f \in E : e.buf = f.buf => e = f
  BY <1>1 DEF MapInv, Owned
<1>8. \A e \in E : e.buf # b
  BY <1>3, <1>7
<1>9. heap' = {e.buf : e \in E \cup {d}}
  BY <1>3, <1>7
<1>10. \A e, f \in E \cup {d} : e.buf = f.buf => e = f
  BY <1>3, <1>7, <1>8
<1>11. MapInv'
  BY <1>2, <1>4, <1>9, <1>10 DEF MapInv, Owned
<1>12. StoreOf(buckets)[k] = NoEntry /\ StoreOf(c)[k] = [buf |-> b, size |-> n]
  <2>1. StoreOf(c)[k] = [buf |-> d.buf, size |-> d.size] /\ d.size = n
    BY <1>3, <1>4, <1>6, StoreOfEntries
  <2> QED
    BY <1>1, <1>2, <1>3, <1>5, <2>1, StoreOfEntries
<1>13. \A j \in Key : j # k => StoreOf(c)[j] = StoreOf(buckets)[j]
  BY <1>1, <1>3, <1>4, <1>5, <1>6, SameStore
<1>14. StoreOf(c) = [StoreOf(buckets) EXCEPT ![k] = [buf |-> b, size |-> n]]
  BY <1>12, <1>13 DEF StoreOf
<1>15. Store!Allocate(k, n)
  BY <1>3, <1>4, <1>12, <1>14, MappingIs DEF Store!Allocate
<1> QED
  BY <1>11, <1>15

\* A table that was resized for nothing is the same map.
LEMMA AllocateFailsEffect ==
    ASSUME ChainInv, NEW k \in Key, AllocateFails(k)
    PROVE  ChainInv' /\ EntriesOf(buckets') = EntriesOf(buckets) /\ heap' = heap
<1>1. PICK c : c = buckets' /\ c = MapResize(buckets) /\ size' = size /\ heap' = heap
  BY DEF AllocateFails
<1>2. PICK m : IsCounted(buckets, m, size) /\ heap \subseteq Buffer
  BY DEF ChainInv
<1>3. IsMap(c, 2 * m) /\ EntriesOf(c) = EntriesOf(buckets)
  <2>1. IsMap(buckets, m) /\ IsFiniteSet(Places(buckets))
    BY <1>2, PlacesFinite DEF IsCounted
  <2> QED
    BY <1>1, <2>1, MapResizeEffect
<1>4. PICK w : IsMap(c, w)
  BY <1>3
<1>5. IsCounted(c, w, size') /\ heap' \subseteq Buffer
  BY <1>1, <1>2, <1>3, <1>4 DEF IsCounted
<1>6. ChainInv'
  BY <1>1, <1>5, ChainInvNext
<1> QED
  BY <1>1, <1>3, <1>6

LEMMA AllocateFailsStep ==
    ASSUME MapInv, NEW k \in Key, AllocateFails(k)
    PROVE  MapInv' /\ StoreOf(buckets') = StoreOf(buckets) /\ heap' = heap
<1>1. PICK c : c = buckets' /\ EntriesOf(c) = EntriesOf(buckets) /\ heap' = heap /\ ChainInv'
  BY AllocateFailsEffect DEF MapInv
<1>2. PICK m : IsMap(buckets, m)
  BY DEF MapInv, ChainInv, IsCounted
<1>3. PICK w : IsMap(c, w)
  BY <1>1 DEF ChainInv, IsCounted
<1>4. MapInv'
  BY <1>1 DEF MapInv, Owned
<1>5. \A j \in Key : StoreOf(c)[j] = StoreOf(buckets)[j]
  BY <1>1, <1>2, <1>3, SameStore
<1>6. StoreOf(c) = StoreOf(buckets)
  BY <1>5 DEF StoreOf
<1> QED
  BY <1>1, <1>4, <1>6

\* updateQ of an object whose buffer is too short: its entry is another.
LEMMA GrowEffect ==
    ASSUME ChainInv, NEW k \in Key, NEW n \in Length, Grow(k, n)
    PROVE  /\ ChainInv'
           /\ \E g \in EntriesOf(buckets) : \E b \in (Buffer \ heap) \cup {g.buf} : \E d \in Entry :
                 /\ g.key = k /\ g.size < n
                 /\ d = [key |-> k, buf |-> b, size |-> n] /\ d.key = k /\ d.buf = b
                 /\ heap' = (heap \ {g.buf}) \cup {b}
                 /\ EntriesOf(buckets') = (EntriesOf(buckets) \ {g}) \cup {d}
<1>1. PICK g : g = MapGet(buckets, k) /\ g # NoEntry /\ g.size < n
  BY DEF Grow
<1>2. PICK b \in (Buffer \ heap) \cup {g.buf} :
          /\ heap' = (heap \ {g.buf}) \cup {b}
          /\ buckets' = MapUpdate(buckets, k, [key |-> k, buf |-> b, size |-> n])
          /\ size' = size
  BY <1>1 DEF Grow
<1>3. PICK E : E = EntriesOf(buckets)
  OBVIOUS
<1>4. PICK m : IsMap(buckets, m) /\ IsFiniteSet(E) /\ size = Cardinality(E) /\ heap \subseteq Buffer
  BY <1>3 DEF ChainInv, IsCounted
<1>5. g \in E /\ g \in Entry /\ g.key = k /\ \A e \in E : e.key = k => e = g
  BY <1>1, <1>3, <1>4, MapGetIs
<1>6. b \in Buffer
  BY <1>5 DEF Entry
<1>7. PICK d \in Entry : d = [key |-> k, buf |-> b, size |-> n]
                         /\ d.key = k /\ d.buf = b /\ d.size = n
  BY <1>6, RecordIs
<1>8. PICK c : c = buckets' /\ c = MapUpdate(buckets, d.key, d)
  BY <1>2, <1>7
<1>9. PICK F : F = (E \ {g}) \cup {d}
  OBVIOUS
<1>10. IsMap(c, m) /\ EntriesOf(c) = F
  <2>1. MapGet(buckets, d.key) = g
    BY <1>1, <1>7
  <2> QED
    BY <1>1, <1>3, <1>4, <1>8, <1>9, <2>1, MapUpdateEffect
<1>11. IsFiniteSet(F) /\ Cardinality(F) = size
  <2>1. IsFiniteSet(E \ {g}) /\ Cardinality(E \ {g}) = Cardinality(E) - 1
    BY <1>4, <1>5, FS_RemoveElement
  <2>2. d \notin E \ {g}
    BY <1>5, <1>7
  <2>3. IsFiniteSet(F) /\ Cardinality(F) = Cardinality(E \ {g}) + 1
    BY <1>9, <2>1, <2>2, FS_AddElement
  <2>4. Cardinality(E) \in Nat
    BY <1>4, FS_CardinalityType
  <2> QED
    BY <1>4, <2>1, <2>3, <2>4
<1>12. IsCounted(c, m, size')
  BY <1>2, <1>10, <1>11 DEF IsCounted
<1>13. heap' \subseteq Buffer
  BY <1>2, <1>4, <1>6
<1>14. ChainInv'
  BY <1>8, <1>12, <1>13, ChainInvNext
<1>15. EntriesOf(buckets') = (EntriesOf(buckets) \ {g}) \cup {d}
  BY <1>3, <1>8, <1>9, <1>10
<1> QED
  BY <1>1, <1>2, <1>3, <1>5, <1>7, <1>14, <1>15

LEMMA GrowStep ==
    ASSUME MapInv, NEW k \in Key, NEW n \in Length, Grow(k, n)
    PROVE  MapInv' /\ Store!Grow(k, n)
<1>1. PICK E : E = EntriesOf(buckets)
  OBVIOUS
<1>2. ChainInv'
  BY GrowEffect DEF MapInv
<1>3. PICK g \in E : \E b \in (Buffer \ heap) \cup {g.buf} : \E d \in Entry :
          /\ g.key = k /\ g.size < n
          /\ d = [key |-> k, buf |-> b, size |-> n] /\ d.key = k /\ d.buf = b
          /\ heap' = (heap \ {g.buf}) \cup {b}
          /\ EntriesOf(buckets') = (E \ {g}) \cup {d}
  BY <1>1, GrowEffect DEF MapInv
<1>4. PICK b \in (Buffer \ heap) \cup {g.buf} : \E d \in Entry :
          /\ d = [key |-> k, buf |-> b, size |-> n] /\ d.key = k /\ d.buf = b
          /\ heap' = (heap \ {g.buf}) \cup {b}
          /\ EntriesOf(buckets') = (E \ {g}) \cup {d}
  BY <1>3
<1>5. PICK d \in Entry : /\ d = [key |-> k, buf |-> b, size |-> n] /\ d.key = k /\ d.buf = b
                         /\ EntriesOf(buckets') = (E \ {g}) \cup {d}
  BY <1>4
<1>6. PICK c : c = buckets' /\ EntriesOf(c) = (E \ {g}) \cup {d}
  BY <1>5
<1>7. PICK m : IsMap(buckets, m)
  BY DEF MapInv, ChainInv, IsCounted
<1>8. PICK w : IsMap(c, w)
  BY <1>2, <1>6 DEF ChainInv, IsCounted
<1>9. heap = {e.buf : e \in E} /\ \A e, f \in E : e.buf = f.buf => e = f
  BY <1>1 DEF MapInv, Owned
<1>10. \A e \in E \ {g} : e.key # k
  BY <1>1, <1>3, <1>7, OneEntryEach
<1>11. \A e \in E \ {g} : e.buf # b /\ e.buf # g.buf
  BY <1>3, <1>4, <1>9
<1>12. heap' = {e.buf : e \in (E \ {g}) \cup {d}}
  BY <1>4, <1>5, <1>9, <1>11
<1>13. \A e, f \in (E \ {g}) \cup {d} : e.buf = f.buf => e = f
  BY <1>5, <1>9, <1>11
<1>14. MapInv'
  BY <1>2, <1>5, <1>12, <1>13 DEF MapInv, Owned
<1>15. /\ StoreOf(buckets)[k] = [buf |-> g.buf, size |-> g.size]
       /\ StoreOf(buckets)[k] # NoEntry
  BY <1>1, <1>3, <1>7, StoreOfEntries
<1>16. StoreOf(c)[k] = [buf |-> b, size |-> n]
  <2>1. StoreOf(c)[k] = [buf |-> d.buf, size |-> d.size] /\ d.size = n
    BY <1>5, <1>6, <1>8, StoreOfEntries
  <2> QED
    BY <1>5, <2>1
<1>17. ASSUME NEW j \in Key, j # k PROVE StoreOf(c)[j] = StoreOf(buckets)[j]
  <2>1. \A e : e.key = j => (e \in EntriesOf(buckets) <=> e \in EntriesOf(c))
    BY <1>1, <1>3, <1>5, <1>6, <1>17
  <2> QED
    BY <1>7, <1>8, <2>1, SameStore
<1>18. StoreOf(c) = [StoreOf(buckets) EXCEPT ![k] = [buf |-> b, size |-> n]]
  BY <1>15, <1>16, <1>17 DEF StoreOf
<1>19. PICK s : s = StoreOf(buckets) /\ s[k].buf = g.buf /\ s[k].size = g.size /\ s[k] # NoEntry
  BY <1>15
<1>20. Store!Grow(k, n)
  <2>1. k \in Store!Keys
    BY <1>19, MappingIs DEF Store!Keys
  <2>2. Store!BufferOf(k) = g.buf
    BY <1>19, MappingIs DEF Store!BufferOf
  <2>3. heap' = (heap \ {Store!BufferOf(k)}) \cup {b} /\ b \in (Buffer \ heap) \cup {Store!BufferOf(k)}
    BY <1>4, <2>2
  <2>4. s[k].size < n /\ StoreOf(buckets') = [s EXCEPT ![k] = [buf |-> b, size |-> n]]
    BY <1>3, <1>6, <1>18, <1>19
  <2> HIDE DEF Store!Keys, Store!BufferOf
  <2> QED
    BY <1>19, <2>1, <2>3, <2>4, MappingIs DEF Store!Grow
<1> QED
  BY <1>14, <1>20

\* The keys that have an entry in the promise are those of the map's entries.
LEMMA BuffersOfEntries ==
    ASSUME NEW n, IsMap(buckets, n)
    PROVE  /\ \A e \in EntriesOf(buckets) : /\ e.key \in Store!Keys
                                            /\ Store!BufferOf(e.key) = e.buf
           /\ \A k \in Store!Keys : \E e \in EntriesOf(buckets) : e.key = k
<1>1. PICK s : s = StoreOf(buckets)
  OBVIOUS
<1>2. /\ Store!Keys = {k \in Key : s[k] # NoEntry}
      /\ \A k : Store!BufferOf(k) = s[k].buf
  BY <1>1, MappingIs DEF Store!Keys, Store!BufferOf
<1>3. ASSUME NEW e \in EntriesOf(buckets)
      PROVE  e.key \in Store!Keys /\ Store!BufferOf(e.key) = e.buf
  <2>1. e.key \in Key
    BY OneEntryEach DEF Entry
  <2>2. s[e.key] = [buf |-> e.buf, size |-> e.size] /\ s[e.key] # NoEntry
    BY <1>1, <2>1, StoreOfEntries
  <2> HIDE DEF Store!Keys, Store!BufferOf
  <2> QED
    BY <1>2, <2>1, <2>2
<1>4. ASSUME NEW k \in Store!Keys PROVE \E e \in EntriesOf(buckets) : e.key = k
  <2>1. k \in Key /\ s[k] # NoEntry
    BY <1>2
  <2> QED
    BY <1>1, <2>1, StoreOfEntries
<1> QED
  BY <1>3, <1>4

\* Entries that go and are counted.
LEMMA FewerEntries ==
    ASSUME ChainInv, NEW gone \in SUBSET EntriesOf(buckets),
           NEW c, c = buckets', NEW m, IsMap(c, m), EntriesOf(c) = EntriesOf(buckets) \ gone,
           heap' \subseteq heap,
           size' = size - Cardinality(gone)
    PROVE  ChainInv'
<1>1. PICK E : E = EntriesOf(buckets)
  OBVIOUS
<1>2. IsFiniteSet(E) /\ size = Cardinality(E) /\ heap' \subseteq Buffer
  BY <1>1 DEF ChainInv, IsCounted
<1>3. IsFiniteSet(gone) /\ IsFiniteSet(E \ gone)
  BY <1>1, <1>2, FS_Subset
<1>4. Cardinality(E \ gone) = Cardinality(E) - Cardinality(E \cap gone)
  BY <1>2, <1>3, FS_Difference
<1>5. E \cap gone = gone
  BY <1>1
<1>6. IsCounted(c, m, size')
  BY <1>1, <1>2, <1>3, <1>4, <1>5 DEF IsCounted
<1> QED
  BY <1>2, <1>6, ChainInvNext

\* Entries of which each goes with its buffer, whichever function takes them away.
LEMMA DiscardStep ==
    ASSUME MapInv, ChainInv', NEW ks \in SUBSET Key,
           NEW gone, gone = {e \in EntriesOf(buckets) : e.key \in ks},
           EntriesOf(buckets') = EntriesOf(buckets) \ gone,
           heap' = heap \ {e.buf : e \in gone}
    PROVE  MapInv' /\ Store!Discard(ks)
<1>1. PICK E : E = EntriesOf(buckets)
  OBVIOUS
<1>2. heap = {e.buf : e \in E} /\ \A d, e \in E : d.buf = e.buf => d = e
  BY <1>1 DEF MapInv, Owned
<1>3. PICK w : IsMap(buckets, w)
  BY DEF MapInv, ChainInv, IsCounted
<1>4. PICK c : c = buckets' /\ EntriesOf(c) = E \ gone
  BY <1>1
<1>5. PICK m : IsMap(c, m)
  BY <1>4 DEF ChainInv, IsCounted
<1>6. heap' = {e.buf : e \in E \ gone}
  BY <1>1, <1>2
<1>7. \A d, e \in E \ gone : d.buf = e.buf => d = e
  BY <1>2
<1>8. MapInv'
  BY <1>1, <1>6, <1>7 DEF MapInv, Owned
<1>9. ASSUME NEW k \in Key
      PROVE  StoreOf(c)[k] = IF k \in ks THEN NoEntry ELSE StoreOf(buckets)[k]
  <2>1. CASE k \in ks
    <3>1. \A e \in EntriesOf(c) : e.key # k
      BY <1>1, <1>4, <2>1
    <3> QED
      BY <1>5, <2>1, <3>1, StoreOfEntries
  <2>2. CASE k \notin ks
    <3>1. \A e : e.key = k => (e \in EntriesOf(buckets) <=> e \in EntriesOf(c))
      BY <1>1, <1>4, <2>2
    <3> QED
      BY <1>3, <1>5, <2>2, <3>1, SameStore
  <2> QED
    BY <2>1, <2>2
<1>10. StoreOf(buckets') = [k \in Key |-> IF k \in ks THEN NoEntry ELSE StoreOf(buckets)[k]]
  BY <1>4, <1>9 DEF StoreOf
<1>11. {Store!BufferOf(k) : k \in ks \cap Store!Keys} = {e.buf : e \in gone}
  <2>1. /\ \A e \in gone : e.key \in ks \cap Store!Keys /\ Store!BufferOf(e.key) = e.buf
        /\ \A k \in ks \cap Store!Keys : \E e \in gone : e.key = k
    BY <1>3, BuffersOfEntries
  <2> HIDE DEF Store!Keys, Store!BufferOf
  <2> QED
    BY <2>1
<1>12. Store!Discard(ks)
  <2> HIDE DEF Store!Keys, Store!BufferOf
  <2> QED
    BY <1>10, <1>11, MappingIs DEF Store!Discard
<1> QED
  BY <1>8, <1>12

\* deleteQ: the buffer of its key's entry is freed, and one entry goes whose key
\* starts with that key.
LEMMA DeleteQEffect ==
    ASSUME ChainInv, NEW k \in Key, DeleteQ(k)
    PROVE  /\ ChainInv'
           /\ \E g, x \in EntriesOf(buckets) :
                 /\ g.key = k /\ IsPrefix(k, x.key)
                 /\ heap' = heap \ {g.buf}
                 /\ EntriesOf(buckets') = EntriesOf(buckets) \ {x}
<1>1. PICK g : g = MapGet(buckets, k) /\ g # NoEntry
  BY DEF DeleteQ
<1>2. PICK c : c = buckets' /\ c = MapRemove(buckets, k)
               /\ heap' = heap \ {g.buf} /\ size' = size - 1
  BY <1>1 DEF DeleteQ
<1>3. PICK n : IsMap(buckets, n)
  BY DEF ChainInv, IsCounted
<1>4. g \in EntriesOf(buckets) /\ g.key = k
  BY <1>1, <1>3, MapGetIs
<1>5. PICK x \in EntriesOf(buckets) : /\ IsMap(c, n) /\ IsPrefix(k, x.key)
                                      /\ EntriesOf(c) = EntriesOf(buckets) \ {x}
  BY <1>2, <1>3, <1>4, MapRemoveEffect
<1>6. {x} \in SUBSET EntriesOf(buckets) /\ size' = size - Cardinality({x})
  BY <1>2, FS_Singleton
<1>7. heap' \subseteq heap
  BY <1>2
<1>8. ChainInv'
  BY <1>2, <1>5, <1>6, <1>7, FewerEntries
<1> QED
  BY <1>2, <1>4, <1>5, <1>8

LEMMA DeleteQStep ==
    ASSUME PrefixFree, MapInv, NEW k \in Key, DeleteQ(k)
    PROVE  MapInv' /\ Store!DeleteQ(k)
<1>1. PICK g \in EntriesOf(buckets), x \in EntriesOf(buckets) :
          /\ g.key = k /\ IsPrefix(k, x.key)
          /\ heap' = heap \ {g.buf}
          /\ EntriesOf(buckets') = EntriesOf(buckets) \ {x}
  BY DeleteQEffect DEF MapInv
<1>2. ChainInv'
  BY DeleteQEffect DEF MapInv
<1>3. PICK n : IsMap(buckets, n)
  BY DEF MapInv, ChainInv, IsCounted
<1>4. x = g /\ \A e \in EntriesOf(buckets) : e.key = k => e = g
  <2>1. x.key \in Key
    BY <1>3, OneEntryEach DEF Entry
  <2>2. x.key = k
    BY <1>1, <2>1 DEF PrefixFree
  <2> QED
    BY <1>1, <1>3, <2>2, OneEntryEach
<1>5. PICK gone : gone = {e \in EntriesOf(buckets) : e.key \in {k}}
  OBVIOUS
<1>6. gone = {g}
  BY <1>1, <1>4, <1>5
<1>7. EntriesOf(buckets') = EntriesOf(buckets) \ gone /\ heap' = heap \ {e.buf : e \in gone}
  BY <1>1, <1>4, <1>6
<1>8. {k} \in SUBSET Key
  OBVIOUS
<1>9. MapInv' /\ Store!Discard({k})
  BY <1>2, <1>5, <1>7, <1>8, DiscardStep
<1> QED
  BY <1>9 DEF Store!DeleteQ

\* deleteAll: the entries of the connection go with their buffers, whatever the keys.
LEMMA DeleteAllEffect ==
    ASSUME ChainInv, NEW h \in HConn, DeleteAll(h),
           NEW gone, gone = {e \in EntriesOf(buckets) : e.key \in {k \in Key : ConnOf[k] = h}}
    PROVE  /\ ChainInv'
           /\ heap' = heap \ {e.buf : e \in gone}
           /\ EntriesOf(buckets') = EntriesOf(buckets) \ gone
<1>1. PICK P : P = {p \in Places(buckets) : OfConn(h, EntryIn(buckets, p))}
  OBVIOUS
<1>2. PICK c : c = buckets' /\ c = [i \in DOMAIN buckets |-> Walk(h, buckets[i])]
               /\ heap' = heap \ {EntryIn(buckets, p).buf : p \in P}
               /\ size' = size - Cardinality(P)
  BY <1>1 DEF DeleteAll, AllEntries, EntryAt, EntryIn
<1>3. PICK n : IsMap(buckets, n) /\ IsFiniteSet(EntriesOf(buckets))
  BY DEF ChainInv, IsCounted
<1>4. gone \in SUBSET EntriesOf(buckets)
  OBVIOUS
<1>5. \A e \in EntriesOf(buckets) : OfConn(h, e) <=> e \in gone
  BY <1>3, OneEntryEach, OfConnIsConn DEF Entry
<1>6. IsMap(c, n) /\ EntriesOf(c) = EntriesOf(buckets) \ gone
  <2>1. IsMap(c, n) /\ EntriesOf(c) = {e \in EntriesOf(buckets) : ~OfConn(h, e)}
    BY <1>2, <1>3, WalksEffect
  <2> QED
    BY <1>5, <2>1
<1>7. P = {p \in Places(buckets) : EntryIn(buckets, p) \in gone}
  BY <1>1, <1>3, <1>5, PlacesAreEntries
<1>8. Cardinality(P) = Cardinality(gone)
  BY <1>3, <1>4, <1>7, AsManyPlaces
<1>9. {EntryIn(buckets, p).buf : p \in P} = {e.buf : e \in gone}
  <2>1. \A e \in gone : \E p \in P : EntryIn(buckets, p) = e
    BY <1>3, <1>4, <1>7, PlacesAreEntries
  <2>2. \A p \in P : EntryIn(buckets, p) \in gone
    BY <1>7
  <2> QED
    BY <2>1, <2>2
<1>10. heap' = heap \ {e.buf : e \in gone} /\ size' = size - Cardinality(gone)
  BY <1>2, <1>8, <1>9
<1>11. heap' \subseteq heap
  BY <1>10
<1>12. ChainInv'
  BY <1>2, <1>4, <1>6, <1>10, <1>11, FewerEntries
<1> QED
  BY <1>2, <1>6, <1>10, <1>12

LEMMA DeleteAllStep ==
    ASSUME MapInv, NEW h \in HConn, DeleteAll(h)
    PROVE  MapInv' /\ Store!DeleteAll(h)
<1>1. PICK ks \in SUBSET Key : ks = {k \in Key : ConnOf[k] = h}
  OBVIOUS
<1>2. PICK gone : gone = {e \in EntriesOf(buckets) : e.key \in ks}
  OBVIOUS
<1>3. /\ ChainInv'
      /\ heap' = heap \ {e.buf : e \in gone}
      /\ EntriesOf(buckets') = EntriesOf(buckets) \ gone
  BY <1>1, <1>2, DeleteAllEffect DEF MapInv
<1>4. MapInv' /\ Store!Discard(ks)
  BY <1>2, <1>3, DiscardStep
<1> QED
  BY <1>1, <1>4 DEF Store!DeleteAll

\* updateQ of an object whose buffer is long enough (ibmmqc.c:409-412) does not show in
\* the map, and a resize for nothing does not show in the promise.
LEMMA MapInvStep ==
    ASSUME PrefixFree, MapInv, [Next]_vars
    PROVE  MapInv' /\ [Store!StoreNext]_(Store!storeVars)
<1>1. ASSUME NEW k \in Key, NEW n \in Length, Allocate(k, n)
      PROVE  MapInv' /\ Store!StoreNext
  BY <1>1, AllocateStep DEF Store!StoreNext, Store!UpdateQ
<1>2. ASSUME NEW k \in Key, AllocateFails(k)
      PROVE  MapInv' /\ UNCHANGED Store!storeVars
  BY <1>2, AllocateFailsStep, MappingIs DEF Store!storeVars
<1>3. ASSUME NEW k \in Key, NEW n \in Length, Grow(k, n)
      PROVE  MapInv' /\ Store!StoreNext
  BY <1>3, GrowStep DEF Store!StoreNext, Store!UpdateQ
<1>4. ASSUME NEW k \in Key, DeleteQ(k)
      PROVE  MapInv' /\ Store!StoreNext
  BY <1>4, DeleteQStep DEF Store!StoreNext
<1>5. ASSUME NEW h \in HConn, DeleteAll(h)
      PROVE  MapInv' /\ Store!StoreNext
  BY <1>5, DeleteAllStep DEF Store!StoreNext
<1>6. CASE UNCHANGED vars
  <2>1. MapInv'
    BY <1>6 DEF vars, MapInv, ChainInv
  <2>2. StoreOf(buckets') = StoreOf(buckets) /\ heap' = heap
    BY <1>6 DEF vars
  <2> QED
    BY <2>1, <2>2, MappingIs DEF Store!storeVars
<1> QED
  BY <1>1, <1>2, <1>3, <1>4, <1>5, <1>6 DEF Next

LEMMA ChainInvStep == ChainInv /\ [Next]_vars => ChainInv'
<1> SUFFICES ASSUME ChainInv, [Next]_vars PROVE ChainInv'
  OBVIOUS
<1>1. ASSUME NEW h \in HConn, DeleteAll(h) PROVE ChainInv'
  BY <1>1, DeleteAllEffect
<1>2. CASE UNCHANGED vars
  BY <1>2 DEF vars, ChainInv
<1> QED
  BY <1>1, <1>2, AllocateEffect, AllocateFailsEffect, GrowEffect, DeleteQEffect DEF Next

LEMMA ChainInvAlways == Spec => []ChainInv
<1>1. Init => ChainInv
  BY MapInvInit DEF MapInv
<1> QED
  BY <1>1, ChainInvStep, PTL DEF Spec

LEMMA MapInvAlways ==
    ASSUME PrefixFree
    PROVE  Spec => []MapInv
<1>1. Init => MapInv
  BY MapInvInit
<1>2. MapInv /\ [Next]_vars => MapInv'
  BY MapInvStep
<1> QED
  BY <1>1, <1>2, PTL DEF Spec

LEMMA EntriesAre ==
    ASSUME ChainInv
    PROVE  /\ \A p \in AllEntries : EntryAt(p) \in Entry /\ EntryAt(p) \in EntriesOf(buckets)
           /\ ChainsAreAMap
<1>1. PICK n : /\ IsMap(buckets, n) /\ n = Capacity(buckets)
               /\ IsFiniteSet(EntriesOf(buckets)) /\ size = Cardinality(EntriesOf(buckets))
  BY DEF ChainInv, IsCounted
<1>2. size = Cardinality(AllEntries)
  BY <1>1, PlacesFinite DEF AllEntries
<1> QED
  BY <1>1, <1>2, PlacesAreEntries DEF AllEntries, EntryAt, EntryIn, ChainsAreAMap

-----------------------------------------------------------------------------
(* What is proved of the map *)

\* The entries of the map are entries, its size is a number and what is allocated
\* are buffers, whatever its callers do (ibmmqc.c:2347-2535).
THEOREM MapTypes == Spec => []TypeOK
<1>1. ChainInv => TypeOK
  <2> SUFFICES ASSUME ChainInv PROVE TypeOK
    OBVIOUS
  <2>1. size \in Nat
    BY FS_CardinalityType DEF ChainInv, IsCounted
  <2> QED
    BY <2>1, EntriesAre DEF TypeOK, ChainInv
<1> QED
  BY <1>1, ChainInvAlways, PTL

\* The chains stay a map through every resize and removal: each entry stands where
\* map_get looks for it, once, and map->size counts the entries, for any handles and
\* any hash, and even where deleteQ takes out the entry of another object.
THEOREM ChainsStayAMap == Spec => []ChainsAreAMap
<1>1. ChainInv => ChainsAreAMap
  BY EntriesAre
<1> QED
  BY <1>1, ChainInvAlways, PTL

\* No entry of the map has a buffer that deleteQ or deleteAll has freed, as long as
\* no key of the map starts with another (ibmmqc.c:419-473 and 2499-2535).
THEOREM EntriesKeepBuffers ==
    ASSUME PrefixFree
    PROVE  Spec => []EntriesHaveBuffers
<1>1. MapInv => EntriesHaveBuffers
  BY EntriesAre DEF MapInv, Owned, EntriesHaveBuffers
<1> QED
  BY <1>1, MapInvAlways, PTL

\* The hash map implements the promise of BufferStore: each call of updateQ, deleteQ
\* and deleteAll does to the buffers of the objects what it promises, or nothing,
\* as long as no key of the map starts with another.
THEOREM MapKeepsPromise ==
    ASSUME PrefixFree
    PROVE  Spec => KeepsPromise
<1>1. Init => Store!StoreInit
  BY MapInvInit
<1>2. MapInv /\ [Next]_vars => [Store!StoreNext]_(Store!storeVars)
  BY MapInvStep
<1> QED
  BY <1>1, <1>2, MapInvAlways, PTL DEF Spec, KeepsPromise, Store!StoreSpec

\* deleteAll takes away the entries of its connection and no other, whatever the
\* keys: by the time its walk comes to an entry, every entry before it that
\* map_remove could mistake for it is gone (ibmmqc.c:444-473).
THEOREM DeleteAllIsExact ==
    Spec => [][\A h \in HConn :
                  DeleteAll(h) => EntriesOf(buckets') = {e \in EntriesOf(buckets) : ConnOf[e.key] # h}]_vars
<1> DEFINE Exact == \A h \in HConn :
                       DeleteAll(h) => EntriesOf(buckets') = {e \in EntriesOf(buckets) : ConnOf[e.key] # h}
<1>1. ChainInv /\ [Next]_vars => [Exact]_vars
  <2> SUFFICES ASSUME ChainInv, NEW h \in HConn, DeleteAll(h)
               PROVE  EntriesOf(buckets') = {e \in EntriesOf(buckets) : ConnOf[e.key] # h}
    OBVIOUS
  <2>1. PICK gone : gone = {e \in EntriesOf(buckets) : e.key \in {k \in Key : ConnOf[k] = h}}
    OBVIOUS
  <2>2. EntriesOf(buckets') = EntriesOf(buckets) \ gone
    BY <2>1, DeleteAllEffect
  <2>3. \A e \in EntriesOf(buckets) : e.key \in Key
    BY OneEntryEach DEF ChainInv, IsCounted, Entry
  <2> QED
    BY <2>1, <2>2, <2>3
<1> QED
  BY <1>1, ChainInvAlways, PTL DEF Spec

\* The keys of two objects are apart unless the digits of one object handle start
\* those of the other, as 2 and 20 do: 2 is 20 without its last digit.  Object
\* handles of one length are apart.
THEOREM ApartUnlessTenfold ==
    ASSUME \A o, p \in HObj : \A k \in 2..10 : p >= Power[k] => p \div Power[k] # o
    PROVE  PrefixFree
<1> SUFFICES ASSUME NEW j \in Key, NEW k \in Key, IsPrefix(j, k) PROVE j = k
  BY DEF PrefixFree
<1>1. PICK c \in HConn, o \in HObj : j = KeyOf(c, o)
  BY DEF Key
<1>2. PICK d \in HConn, p \in HObj : k = KeyOf(d, p)
  BY DEF Key
<1>3. c = d
  <2>1. IsPrefix(ConnPrefix(c), j)
    BY <1>1, PrefixIsConn
  <2>2. IsPrefix(ConnPrefix(c), k)
    BY <2>1, KeyType, KeyIsSeq, PrefixOfPrefix
  <2> QED
    BY <1>2, <2>2, PrefixIsConn
<1>4. PICK s \in Seq(Nat) : s = ConnPrefix(c)
  BY KeyType
<1>5. PICK a \in Seq(Nat) : a = Decimal(o)
  BY DecimalIsSeq, HandlesAreThese
<1>6. PICK b \in Seq(Nat) : b = Decimal(p)
  BY DecimalIsSeq, HandlesAreThese
<1>7. j = s \o a /\ k = s \o b
  BY <1>1, <1>2, <1>3, <1>4, <1>5, <1>6 DEF KeyOf
<1>8. Len(s) \in Nat /\ Len(a) \in Nat /\ Len(b) \in Nat
  OBVIOUS
<1>9. /\ Len(j) = Len(s) + Len(a) /\ Len(k) = Len(s) + Len(b)
      /\ \A i \in 1..Len(a) : j[Len(s) + i] = a[i]
      /\ \A i \in 1..Len(b) : k[Len(s) + i] = b[i]
  BY <1>7, <1>8, ConcatProperties
<1>10. Len(j) <= Len(k) /\ \A i \in 1..Len(j) : j[i] = k[i]
  BY KeyIsSeq, StartsWith
<1>11. Len(a) <= Len(b)
  BY <1>8, <1>9, <1>10
<1>12. ASSUME NEW i \in 1..Len(a) PROVE a[i] = b[i]
  <2>1. Len(s) + i \in 1..Len(j) /\ i \in 1..Len(b)
    BY <1>8, <1>9, <1>11
  <2> QED
    BY <1>9, <1>10, <2>1
<1>13. o \in Handles /\ p \in Handles
  BY HandlesAreThese
<1>14. PICK v \in 1..10, w \in 1..10 : v = Width(o) /\ v = Len(a) /\ w = Width(p) /\ w = Len(b)
  BY <1>5, <1>6, <1>13, DecimalType
<1>15. o = p
  <2>1. o = p \div Power[w - v + 1]
    <3>1. Width(o) <= Width(p)
      BY <1>11, <1>14
    <3>2. \A i \in 1..Width(o) : Decimal(o)[i] = Decimal(p)[i]
      BY <1>5, <1>6, <1>12, <1>14
    <3>3. o = p \div Power[Width(p) - Width(o) + 1]
      BY <1>13, <3>1, <3>2, BeginsIsQuotient
    <3> QED
      BY <1>14, <3>3
  <2>2. CASE v = w
    <3>1. p \in Nat
      BY <1>13 DEF Handles
    <3>2. PICK x \in {1} : x = w - v + 1
      BY <2>2
    <3>3. p \div Power[x] = p
      BY <3>1, WholeQuotient
    <3> QED
      BY <2>1, <3>2, <3>3
  <2>3. CASE v < w
    <3>1. PICK shift \in 2..10 : shift = w - v + 1
      BY <2>3
    <3>2. Power[w] <= p
      <4>1. Width(p) # 1 => Power[Width(p)] <= p
        BY <1>13, WidthIs
      <4>2. w # 1
        BY <2>3
      <4> QED
        BY <1>14, <4>1, <4>2
    <3>3. shift <= w
      BY <3>1
    <3>4. Power[shift] \in Nat /\ Power[w] \in Nat /\ Power[shift] <= Power[w]
      <4>1. shift \in 1..10
        OBVIOUS
      <4> QED
        BY <3>3, <4>1, PowersGrow
    <3>5. p >= Power[shift]
      BY <1>13, <3>2, <3>4 DEF Handles
    <3> QED
      BY <2>1, <3>1, <3>5
  <2> QED
    BY <1>11, <1>14, <2>2, <2>3
<1> QED
  BY <1>1, <1>2, <1>3, <1>15
=============================================================================
