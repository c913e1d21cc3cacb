---------------------------- MODULE FormatsProofs ----------------------------
(* For any folders, buffers, selectors, settings and commands: what the three  *)
(* formats pack is what they were given.                                       *)
EXTENDS PcfFormat, Rfh2, Attributes, SequenceTheorems, FiniteSetTheorems, TLAPS

-----------------------------------------------------------------------------
(* Recursive functions *)

LEMMA LeastNumber ==
    ASSUME NEW T \in SUBSET Nat, T # {}
    PROVE  \E x \in T : \A y \in T : x <= y
<1>1. PICK x \in T : \A y \in T : ~ (<<y, x>> \in OpToRel(<, Nat))
  BY NatLessThanWellFounded, WFMin
<1>2. \A y \in T : ~(y < x)
  BY <1>1 DEF OpToRel
<1> QED
  BY <1>2

\* What holds of 0 and is handed from n - 1 to n holds up to N: T is the set of
\* numbers it holds of.
LEMMA CountUp ==
    ASSUME NEW N \in Nat, NEW T, 0 \in T, \A n \in 1..N : n - 1 \in T => n \in T
    PROVE  0..N \subseteq T
<1> SUFFICES ASSUME (0..N) \ T # {} PROVE FALSE
  OBVIOUS
<1>1. PICK n \in (0..N) \ T : \A m \in (0..N) \ T : n <= m
  <2>1. (0..N) \ T \in SUBSET Nat
    OBVIOUS
  <2> QED
    BY <2>1, LeastNumber
<1>2. n \in 1..N /\ n - 1 \in 0..N
  BY <1>1
<1> QED
  BY <1>1, <1>2

IsRecursive(f, N, s0, step) ==
    f = [n \in 0..N |-> IF n = 0 THEN s0 ELSE step[n][f[n - 1]]]

\* The greatest of some bounded numbers.
LEMMA Greatest ==
    ASSUME NEW N \in Nat, NEW T \in SUBSET (0..N), T # {}
    PROVE  Max(T) \in T /\ \A y \in T : y <= Max(T)
<1> DEFINE U == {n \in Nat : \E x \in T : n = N - x}
<1>1. U # {} /\ U \in SUBSET Nat
  <2>1. PICK x \in T : TRUE
    OBVIOUS
  <2>2. N - x \in Nat
    BY <2>1
  <2> QED
    BY <2>2
<1>2. PICK n \in U : \A m \in U : n <= m
  <2> HIDE DEF U
  <2> QED
    BY <1>1, LeastNumber
<1>3. PICK x \in T : n = N - x
  BY <1>2
<1>4. \A y \in T : x >= y
  <2> SUFFICES ASSUME NEW y \in T PROVE x >= y
    OBVIOUS
  <2>1. N - y \in U
    <3>1. N - y \in Nat
      OBVIOUS
    <3> QED
      BY <3>1
  <2>2. n <= N - y
    BY <1>2, <2>1
  <2> QED
    BY <1>3, <2>2
<1>5. PICK z : z = Max(T)
  OBVIOUS
<1>6. z \in T /\ \A y \in T : z >= y
  BY <1>4, <1>5 DEF Max
<1>7. \A y \in T : y <= z
  BY <1>6
<1> QED
  BY <1>5, <1>6, <1>7

LEMMA RecursionExists ==
    ASSUME NEW N \in Nat, NEW S, NEW s0 \in S, NEW step \in [1..N -> [S -> S]]
    PROVE  \E f \in [0..N -> S] : IsRecursive(f, N, s0, step)
<1> DEFINE T == {m \in 0..N : \E f \in [0..m -> S] : IsRecursive(f, m, s0, step)}
<1>1. 0 \in T
  <2>1. [n \in 0..0 |-> s0] \in [0..0 -> S] /\ IsRecursive([n \in 0..0 |-> s0], 0, s0, step)
    BY DEF IsRecursive
  <2> QED
    BY <2>1
<1>2. ASSUME NEW m \in 1..N, m - 1 \in T PROVE m \in T
  <2>1. PICK f \in [0..m - 1 -> S] : IsRecursive(f, m - 1, s0, step)
    BY <1>2
  <2>2. step[m][f[m - 1]] \in S
    OBVIOUS
  <2> DEFINE g == [n \in 0..m |-> IF n = m THEN step[m][f[m - 1]] ELSE f[n]]
  <2>3. g \in [0..m -> S]
    BY <2>2
  <2>4. \A n \in 0..m : g[n] = IF n = 0 THEN s0 ELSE step[n][g[n - 1]]
    <3>1. ASSUME NEW n \in 0..m, n # m
          PROVE  g[n] = IF n = 0 THEN s0 ELSE step[n][g[n - 1]]
      <4>1. n \in 0..m - 1 /\ g[n] = f[n]
        BY <3>1
      <4>2. n # 0 => g[n - 1] = f[n - 1]
        BY <4>1
      <4> HIDE DEF g
      <4> QED
        BY <2>1, <4>1, <4>2 DEF IsRecursive
    <3>2. g[m] = step[m][g[m - 1]]
      BY <1>2
    <3> QED
      BY <1>2, <3>1, <3>2
  <2>5. IsRecursive(g, m, s0, step)
    BY <2>4 DEF IsRecursive
  <2> QED
    BY <2>3, <2>5
<1>3. 0..N \subseteq T
  BY <1>1, <1>2, CountUp
<1> QED
  BY <1>3

LEMMA IsSeq ==
    ASSUME NEW S, NEW n \in Nat, NEW s \in [1..n -> S]
    PROVE  s \in Seq(S) /\ Len(s) = n
OBVIOUS

-----------------------------------------------------------------------------
(* Pieces one after another *)

IsEnds(f, N, lengths) ==
    f = [n \in 0..N |-> IF n = 0 THEN 0 ELSE f[n - 1] + lengths[n]]

LEMMA EndsExist ==
    ASSUME NEW N \in Nat, NEW lengths \in [1..N -> Nat]
    PROVE  \E f \in [0..N -> Nat] : IsEnds(f, N, lengths)
<1>1. PICK step : step = [n \in 1..N |-> [t \in Nat |-> t + lengths[n]]]
  OBVIOUS
<1>2. PICK S, s0 : S = Nat /\ s0 = 0
  OBVIOUS
<1>3. step \in [1..N -> [S -> S]] /\ s0 \in S
  BY <1>1, <1>2
<1>4. PICK f \in [0..N -> S] : IsRecursive(f, N, s0, step)
  BY <1>3, RecursionExists
<1>5. \A n \in 0..N : f[n] = IF n = 0 THEN 0 ELSE f[n - 1] + lengths[n]
  <2>1. \A n \in 0..N : f[n] = IF n = 0 THEN s0 ELSE step[n][f[n - 1]]
    BY <1>4 DEF IsRecursive
  <2>2. ASSUME NEW n \in 0..N, n # 0 PROVE n \in 1..N /\ f[n - 1] \in Nat
    BY <1>2, <1>4, <2>2
  <2> QED
    BY <1>1, <1>2, <2>1, <2>2
<1>6. f = [n \in 0..N |-> IF n = 0 THEN 0 ELSE f[n - 1] + lengths[n]]
  BY <1>4, <1>5
<1> QED
  BY <1>2, <1>4, <1>6 DEF IsEnds

\* Each piece ends its length after the one before it.
LEMMA EndsAddUp ==
    ASSUME NEW N \in Nat, NEW lengths \in [1..N -> Nat]
    PROVE  /\ Ends(lengths) \in [0..N -> Nat]
           /\ Ends(lengths)[0] = 0
           /\ \A n \in 1..N : Ends(lengths)[n] = Ends(lengths)[n - 1] + lengths[n]
<1>1. PICK g : g = (CHOOSE f : IsEnds(f, N, lengths))
  OBVIOUS
<1>2. Len(lengths) = N
  BY IsSeq
<1>3. Ends(lengths) = g
  BY <1>1, <1>2 DEF Ends, IsEnds
<1>4. IsEnds(g, N, lengths)
  BY <1>1, EndsExist
<1>5. /\ g[0] = 0
      /\ \A n \in 1..N : g[n] = g[n - 1] + lengths[n]
      /\ DOMAIN g = 0..N /\ g = [n \in 0..N |-> g[n]]
  <2>1. \A n \in 0..N : g[n] = IF n = 0 THEN 0 ELSE g[n - 1] + lengths[n]
    BY <1>4 DEF IsEnds
  <2>2. ASSUME NEW n \in 1..N PROVE g[n] = g[n - 1] + lengths[n]
    <3>1. n \in 0..N /\ n # 0
      OBVIOUS
    <3> QED
      BY <2>1, <3>1
  <2>3. DOMAIN g = 0..N /\ g = [n \in 0..N |-> g[n]]
    BY <1>4 DEF IsEnds
  <2>4. g[0] = 0
    <3>1. 0 \in 0..N
      OBVIOUS
    <3> QED
      BY <2>1, <3>1
  <2> QED
    BY <2>2, <2>3, <2>4
<1>6. \A n \in 0..N : g[n] \in Nat
  <2> DEFINE T == {n \in 0..N : g[n] \in Nat}
  <2>1. 0 \in T
    BY <1>5
  <2>2. ASSUME NEW n \in 1..N, n - 1 \in T PROVE n \in T
    <3>1. g[n - 1] \in Nat /\ lengths[n] \in Nat /\ g[n] = g[n - 1] + lengths[n] /\ n \in 0..N
      <4>1. g[n - 1] \in Nat
        BY <2>2
      <4>2. g[n] = g[n - 1] + lengths[n]
        BY <1>5
      <4> QED
        BY <4>1, <4>2
    <3> QED
      BY <3>1
  <2>3. 0..N \subseteq T
    <3> HIDE DEF T
    <3> QED
      BY <2>1, <2>2, CountUp
  <2> QED
    BY <2>3
<1> QED
  BY <1>3, <1>5, <1>6

LEMMA EndsGrow ==
    ASSUME NEW N \in Nat, NEW lengths \in [1..N -> Nat], NEW m \in 0..N
    PROVE  \A n \in m..N : Ends(lengths)[m] <= Ends(lengths)[n]
<1>1. PICK e : e = Ends(lengths)
  OBVIOUS
<1>2. /\ \A n \in 0..N : e[n] \in Nat
      /\ \A n \in 1..N : e[n] = e[n - 1] + lengths[n]
  BY <1>1, EndsAddUp
<1> DEFINE T == {n \in 0..N : m <= n => e[m] <= e[n]}
<1>3. 0 \in T
  BY <1>2
<1>4. ASSUME NEW n \in 1..N, n - 1 \in T PROVE n \in T
  <2>1. e[n] = e[n - 1] + lengths[n] /\ lengths[n] \in Nat /\ e[n - 1] \in Nat /\ e[m] \in Nat
    BY <1>2
  <2>2. m <= n => m <= n - 1 \/ m = n
    OBVIOUS
  <2> QED
    BY <1>4, <2>1, <2>2
<1>5. 0..N \subseteq T
  <2> HIDE DEF T
  <2> QED
    BY <1>3, <1>4, CountUp
<1> QED
  BY <1>1, <1>5

IsFlat(f, N, seqs) ==
    f = [i \in 1..N |-> IF i = 1 THEN seqs[i] ELSE f[i - 1] \o seqs[i]]

LEMMA FlatExists ==
    ASSUME NEW S, NEW N \in Nat, N > 0, NEW seqs \in [1..N -> Seq(S)]
    PROVE  \E f : IsFlat(f, N, seqs)
<1>1. PICK M \in Nat : M = N - 1
  OBVIOUS
<1>2. PICK step : step = [n \in 1..M |-> [t \in Seq(S) |-> t \o seqs[n + 1]]]
  OBVIOUS
<1>3. PICK Q, s0 : Q = Seq(S) /\ s0 = seqs[1]
  OBVIOUS
<1>4. step \in [1..M -> [Q -> Q]] /\ s0 \in Q
  <2>1. ASSUME NEW n \in 1..M, NEW t \in Seq(S) PROVE t \o seqs[n + 1] \in Seq(S)
    <3>1. seqs[n + 1] \in Seq(S)
      BY <1>1
    <3> QED
      BY <3>1, ConcatProperties
  <2> QED
    BY <1>2, <1>3, <2>1
<1>5. PICK h \in [0..M -> Q] : IsRecursive(h, M, s0, step)
  BY <1>4, RecursionExists
<1>6. PICK f : f = [i \in 1..N |-> h[i - 1]]
  OBVIOUS
<1>7. ASSUME NEW i \in 1..N PROVE f[i] = IF i = 1 THEN seqs[i] ELSE f[i - 1] \o seqs[i]
  <2>1. \A n \in 0..M : h[n] = IF n = 0 THEN s0 ELSE step[n][h[n - 1]]
    BY <1>5 DEF IsRecursive
  <2>2. CASE i = 1
    BY <1>1, <1>3, <1>6, <2>1, <2>2
  <2>3. CASE i # 1
    <3>1. i - 1 \in 1..M /\ i - 1 \in 0..M /\ i - 1 # 0 /\ i - 2 \in 0..M /\ i - 1 \in 1..N
      BY <1>1, <2>3
    <3>2. f[i] = h[i - 1] /\ f[i - 1] = h[i - 2] /\ h[i - 2] \in Seq(S)
      BY <1>3, <1>5, <1>6, <3>1
    <3>3. h[i - 1] = step[i - 1][h[i - 2]]
      BY <2>1, <3>1
    <3>4. step[i - 1][h[i - 2]] = h[i - 2] \o seqs[i]
      <4>1. PICK n \in 1..M, t \in Seq(S) : n = i - 1 /\ t = h[i - 2]
        BY <3>1, <3>2
      <4>2. step[n][t] = t \o seqs[n + 1] /\ n + 1 = i
        BY <1>2, <4>1
      <4> QED
        BY <4>1, <4>2
    <3> QED
      BY <2>3, <3>2, <3>3, <3>4
  <2> QED
    BY <2>2, <2>3
<1>8. f = [i \in 1..N |-> IF i = 1 THEN seqs[i] ELSE f[i - 1] \o seqs[i]]
  <2>1. DOMAIN f = 1..N /\ f = [i \in 1..N |-> f[i]]
    BY <1>6
  <2> QED
    BY <1>7, <2>1
<1> QED
  BY <1>8 DEF IsFlat

\* Flattened, every piece is where Ends says.
AreLengths(lengths, N, seqs) == lengths = [i \in 1..N |-> Len(seqs[i])]

Laid(flat, N, seqs, ends) ==
    \A i \in 1..N : \A k \in 1..Len(seqs[i]) : flat[ends[i - 1] + k] = seqs[i][k]

LEMMA Flattened ==
    ASSUME NEW S, NEW N \in Nat, NEW seqs \in [1..N -> Seq(S)],
           NEW lengths, AreLengths(lengths, N, seqs)
    PROVE  /\ lengths \in [1..N -> Nat]
           /\ FlattenSeq(seqs) \in Seq(S)
           /\ Len(FlattenSeq(seqs)) = Ends(lengths)[N]
           /\ Laid(FlattenSeq(seqs), N, seqs, Ends(lengths))
<1>1. lengths \in [1..N -> Nat] /\ \A i \in 1..N : lengths[i] = Len(seqs[i])
  BY LenProperties DEF AreLengths
<1>2. PICK e : e = Ends(lengths)
  OBVIOUS
<1>3. /\ \A n \in 0..N : e[n] \in Nat
      /\ e[0] = 0
      /\ \A n \in 1..N : e[n] = e[n - 1] + lengths[n]
  BY <1>1, <1>2, EndsAddUp
<1>4. Len(seqs) = N /\ seqs \in Seq(Seq(S))
  <2>1. PICK Q : Q = Seq(S)
    OBVIOUS
  <2> QED
    BY <2>1, IsSeq
<1>5. CASE N = 0
  <2>1. FlattenSeq(seqs) = seqs /\ seqs = <<>>
    BY <1>4, <1>5, EmptySeq DEF FlattenSeq
  <2> QED
    BY <1>1, <1>2, <1>3, <1>5, <2>1 DEF Laid
<1>6. CASE N > 0
  <2>1. PICK g : g = (CHOOSE f : IsFlat(f, N, seqs))
    OBVIOUS
  <2>2. FlattenSeq(seqs) = g[N]
    BY <1>4, <1>6, <2>1 DEF FlattenSeq, IsFlat
  <2>3. IsFlat(g, N, seqs)
    BY <1>6, <2>1, FlatExists
  <2>4. \A i \in 1..N : g[i] = IF i = 1 THEN seqs[i] ELSE g[i - 1] \o seqs[i]
    BY <2>3 DEF IsFlat
  <2> DEFINE P(n) == /\ g[n] \in Seq(S) /\ Len(g[n]) = e[n]
                     /\ \A i \in 1..n : \A k \in 1..Len(seqs[i]) : g[n][e[i - 1] + k] = seqs[i][k]
  <2>5. P(1)
    <3>1. g[1] = seqs[1] /\ seqs[1] \in Seq(S) /\ e[1] = Len(seqs[1]) /\ Len(seqs[1]) \in Nat
      BY <1>1, <1>3, <1>6, <2>4
    <3>2. \A k \in 1..Len(seqs[1]) : e[0] + k = k
      BY <1>3, <3>1
    <3>3. \A i \in 1..1 : i = 1 /\ i - 1 = 0
      OBVIOUS
    <3> QED
      BY <3>1, <3>2, <3>3
  <2>6. ASSUME NEW n \in 2..N, P(n - 1) PROVE P(n)
    <3>0. n \in 1..N /\ n # 1
      OBVIOUS
    <3>1. g[n] = g[n - 1] \o seqs[n] /\ g[n - 1] \in Seq(S) /\ seqs[n] \in Seq(S)
      BY <2>4, <2>6, <3>0
    <3>2. /\ g[n] \in Seq(S) /\ Len(g[n]) = Len(g[n - 1]) + Len(seqs[n])
          /\ \A k \in 1..Len(g[n - 1]) + Len(seqs[n]) :
                g[n][k] = IF k <= Len(g[n - 1]) THEN g[n - 1][k] ELSE seqs[n][k - Len(g[n - 1])]
      <4>1. PICK s \in Seq(S), u \in Seq(S) : s = g[n - 1] /\ u = seqs[n]
        BY <3>1
      <4>2. /\ s \o u \in Seq(S) /\ Len(s \o u) = Len(s) + Len(u)
            /\ \A k \in 1..Len(s) + Len(u) :
                  (s \o u)[k] = IF k <= Len(s) THEN s[k] ELSE u[k - Len(s)]
        BY ConcatProperties
      <4>3. PICK w : w = g[n] /\ w = s \o u
        BY <3>1, <4>1
      <4>4. /\ w \in Seq(S) /\ Len(w) = Len(s) + Len(u)
            /\ \A k \in 1..Len(s) + Len(u) : w[k] = IF k <= Len(s) THEN s[k] ELSE u[k - Len(s)]
        BY <4>2, <4>3
      <4>5. g[n] \in Seq(S) /\ Len(g[n]) = Len(g[n - 1]) + Len(seqs[n])
        BY <4>1, <4>3, <4>4
      <4>6. ASSUME NEW k \in 1..Len(g[n - 1]) + Len(seqs[n])
            PROVE  g[n][k] = IF k <= Len(g[n - 1]) THEN g[n - 1][k] ELSE seqs[n][k - Len(g[n - 1])]
        <5>1. w[k] = IF k <= Len(s) THEN s[k] ELSE u[k - Len(s)]
          BY <4>1, <4>4
        <5> QED
          BY <4>1, <4>3, <5>1
      <4> QED
        BY <4>5, <4>6
    <3>3. Len(g[n - 1]) = e[n - 1] /\ e[n] = e[n - 1] + Len(seqs[n])
      BY <1>1, <1>3, <2>6
    <3>4. e[n - 1] \in Nat /\ Len(seqs[n]) \in Nat
      BY <1>1, <1>3
    <3>5. ASSUME NEW i \in 1..n, NEW k \in 1..Len(seqs[i])
          PROVE  g[n][e[i - 1] + k] = seqs[i][k]
      <4>1. e[i - 1] \in Nat /\ Len(seqs[i]) \in Nat /\ e[i] = e[i - 1] + Len(seqs[i]) /\ e[i] \in Nat
        BY <1>1, <1>3
      <4>2. CASE i = n
        <5>1. e[n - 1] + k \in 1..Len(g[n - 1]) + Len(seqs[n]) /\ ~(e[n - 1] + k <= Len(g[n - 1]))
          <6>1. PICK x \in Nat, l \in Nat : x = e[n - 1] /\ l = Len(seqs[n])
            BY <3>4
          <6>2. k \in 1..l
            BY <4>2, <6>1
          <6>3. x + k \in 1..x + l /\ ~(x + k <= x)
            BY <6>2
          <6> HIDE DEF P
          <6> QED
            BY <3>3, <6>1, <6>3
        <5>2. (e[n - 1] + k) - Len(g[n - 1]) = k
          BY <3>3, <3>4
        <5> HIDE DEF P
        <5> QED
          BY <3>2, <4>2, <5>1, <5>2
      <4>3. CASE i # n
        <5>1. i \in 1..n - 1
          BY <4>3
        <5>2. e[i] <= e[n - 1]
          <6>1. i \in 0..N /\ n - 1 \in i..N
            BY <5>1
          <6> HIDE DEF P
          <6> QED
            BY <1>1, <1>2, <6>1, EndsGrow
        <5>3. e[i - 1] + k \in 1..Len(g[n - 1]) + Len(seqs[n]) /\ e[i - 1] + k <= Len(g[n - 1])
          <6>1. PICK x \in Nat, y \in Nat, z \in Nat, l \in Nat :
                    x = e[i - 1] /\ y = e[i] /\ z = e[n - 1] /\ l = Len(seqs[n])
            BY <3>4, <4>1
          <6>2. k \in 1..Len(seqs[i]) /\ y = x + Len(seqs[i]) /\ y <= z /\ Len(seqs[i]) \in Nat
            BY <4>1, <5>2, <6>1
          <6>3. x + k \in 1..z + l /\ x + k <= z
            BY <6>2
          <6> HIDE DEF P
          <6> QED
            BY <3>3, <6>1, <6>3
        <5>4. g[n - 1][e[i - 1] + k] = seqs[i][k]
          BY <2>6, <5>1
        <5> HIDE DEF P
        <5> QED
          BY <3>2, <5>3, <5>4
      <4> QED
        BY <4>2, <4>3
    <3> QED
      BY <3>2, <3>3, <3>5
  <2>7. P(N)
    <3> DEFINE T == {m \in 0..N - 1 : P(m + 1)}
    <3>1. 0 \in T
      BY <1>6, <2>5
    <3>2. ASSUME NEW m \in 1..N - 1, m - 1 \in T PROVE m \in T
      <4>1. m + 1 \in 2..N /\ (m + 1) - 1 = m /\ (m - 1) + 1 = m
        OBVIOUS
      <4>2. P((m - 1) + 1)
        BY <3>2
      <4>3. P((m + 1) - 1)
        <5> HIDE DEF P
        <5> QED
          BY <4>1, <4>2
      <4>4. P(m + 1)
        <5> HIDE DEF P
        <5> QED
          BY <2>6, <4>1, <4>3
      <4> QED
        BY <4>4
    <3>3. PICK M \in Nat : M = N - 1
      BY <1>6
    <3>4. 0..M \subseteq T
      <4> HIDE DEF T
      <4> QED
        BY <3>1, <3>2, <3>3, CountUp
    <3>5. M \in T /\ M + 1 = N
      <4>1. M \in 0..M /\ M + 1 = N
        BY <3>3
      <4> HIDE DEF T
      <4> QED
        BY <3>4, <4>1
    <3>6. P(M + 1)
      <4> HIDE DEF P
      <4> QED
        BY <3>5
    <3> QED
      <4> HIDE DEF P
      <4> QED
        BY <3>5, <3>6
  <2> QED
    BY <1>1, <1>2, <2>2, <2>7 DEF Laid
<1> QED
  <2>1. N = 0 \/ N > 0
    OBVIOUS
  <2> QED
    BY <1>5, <1>6, <2>1

-----------------------------------------------------------------------------
(* RFH2 *)

Field == [name: {f.name : f \in Folder}, length: Nat, folder: Folder]

\* What self.opts may be: each folder under its own name, with room for it.
IsList(list) ==
    /\ list \in Seq(Field)
    /\ \A i \in DOMAIN list :
          list[i].name = list[i].folder.name /\ list[i].length >= list[i].folder.length

Names(list) == {list[i].name : i \in DOMAIN list}

FoldersOf(list) == [i \in DOMAIN list |-> list[i].folder]

FieldOf(o) == [folder |-> o.folder, length |-> o.length]

\* The object has the folders it should have: in its list, in its fields if they have
\* names of their own, and counted in StrucLength if there are any.
HasThem ==
    has # Nothing =>
        /\ has = FoldersOf(opts)
        /\ listed = opts
        /\ opts # <<>> => strucLength = GetLength(opts)
        /\ Distinct(has) => \A i \in DOMAIN opts : attr[opts[i].name] = FieldOf(opts[i])

RfhInv == RfhTypeOK /\ IsList(opts) /\ (wasBig <=> prefix = "big") /\ HasThem /\ PacksWhatItHas

LEMMA NoFolders ==
    /\ DOMAIN <<>> = {} /\ Names(<<>>) = {} /\ FoldersOf(<<>>) = <<>> /\ IsList(<<>>)
<1>1. <<>> \in Seq(Field) /\ DOMAIN <<>> = {}
  OBVIOUS
<1>2. Names(<<>>) = {}
  BY <1>1 DEF Names
<1>3. FoldersOf(<<>>) = <<>>
  <2>1. PICK n \in Nat : n = 0
    OBVIOUS
  <2>2. FoldersOf(<<>>) \in [1..n -> Folder]
    BY <1>1, <2>1 DEF FoldersOf
  <2>3. FoldersOf(<<>>) \in Seq(Folder) /\ Len(FoldersOf(<<>>)) = 0
    BY <2>1, <2>2, IsSeq
  <2> QED
    BY <2>3, EmptySeq
<1>4. IsList(<<>>)
  BY <1>1 DEF IsList
<1> QED
  BY <1>1, <1>2, <1>3, <1>4

LEMMA FieldTypes ==
    ASSUME NEW list, IsList(list)
    PROVE  \A i \in DOMAIN list : list[i].folder \in Folder /\ list[i].length \in Nat
<1> SUFFICES ASSUME NEW i \in DOMAIN list PROVE list[i] \in Field
  BY DEF Field
<1> QED
  BY ElementOfSeq DEF IsList

LEMMA PaddedIsEnough ==
    ASSUME NEW n \in Nat
    PROVE  PaddedFolder(n) \in Nat /\ PaddedFolder(n) >= n
BY DEF PaddedFolder

\* With names of its own, a folder is found under its name.
LEMMA FoundUnderItsName ==
    ASSUME NEW list, IsList(list), Distinct(FoldersOf(list)), NEW i \in DOMAIN list
    PROVE  FromList(list)[list[i].name] = FieldOf(list[i])
<1>1. {j \in DOMAIN list : list[j].name = list[i].name} = {i}
  BY DEF Distinct, FoldersOf, IsList
<1>2. i \in Nat
  BY DEF IsList
<1>3. Max({i}) = i
  BY <1>2 DEF Max
<1> QED
  BY <1>1, <1>3 DEF FromList, FieldOf

LEMMA FromListNames == \A list : DOMAIN FromList(list) = Names(list)
BY DEF FromList, Names

LEMMA ReinitNames == \A list : DOMAIN Reinit(list) = DOMAIN attr \cup Names(list)
BY FromListNames DEF Reinit, Saved

\* Fields that were there keep their values, new ones have those of the list.
LEMMA ReinitValues ==
    ASSUME NEW list, NEW n \in DOMAIN attr \cup Names(list)
    PROVE  Reinit(list)[n] = IF n \in DOMAIN attr THEN attr[n] ELSE FromList(list)[n]
BY FromListNames DEF Reinit, Saved

LEMMA RfhInitInv == RfhInit => RfhInv
<1> SUFFICES ASSUME RfhInit PROVE RfhInv
  OBVIOUS
<1>0. /\ opts = <<>> /\ listed = <<>> /\ attr = <<>> /\ strucLength = 0 /\ prefix = "" /\ has = <<>>
      /\ DOMAIN opts = {} /\ DOMAIN listed = {} /\ DOMAIN attr = {}
  <2>1. DOMAIN <<>> = {}
    OBVIOUS
  <2> QED
    BY <2>1 DEF RfhInit
<1>1. RfhTypeOK
  BY <1>0 DEF RfhTypeOK
<1>2. IsList(opts)
  BY <1>0, NoFolders
<1>3. HasThem
  BY <1>0, NoFolders DEF HasThem
<1> QED
  BY <1>1, <1>2, <1>3 DEF RfhInit, RfhInv, PacksWhatItHas

-----------------------------------------------------------------------------
Added(f) == [name |-> f.name, length |-> PaddedFolder(f.length), folder |-> f]

LEMMA AppendIsList ==
    ASSUME NEW list, IsList(list), NEW f \in Folder
    PROVE  /\ IsList(Append(list, Added(f)))
           /\ DOMAIN Append(list, Added(f)) = DOMAIN list \cup {Len(list) + 1}
           /\ Len(list) \in Nat /\ DOMAIN list = 1..Len(list)
           /\ \A i \in DOMAIN list : Append(list, Added(f))[i] = list[i]
           /\ Append(list, Added(f))[Len(list) + 1] = Added(f)
<1>1. Added(f) \in Field
  BY RfhAssumption, PaddedIsEnough DEF Field, Added
<1>2. /\ Added(f).name = Added(f).folder.name
      /\ Added(f).length >= Added(f).folder.length
  BY RfhAssumption, PaddedIsEnough DEF Added
<1>3. list \in Seq(Field)
  BY DEF IsList
<1>4. /\ Append(list, Added(f)) \in Seq(Field)
      /\ Len(Append(list, Added(f))) = Len(list) + 1
      /\ \A i \in 1..Len(list) : Append(list, Added(f))[i] = list[i]
      /\ Append(list, Added(f))[Len(list) + 1] = Added(f)
      /\ DOMAIN list = 1..Len(list) /\ Len(list) \in Nat
  BY <1>1, <1>3, AppendProperties
<1>5. DOMAIN Append(list, Added(f)) = DOMAIN list \cup {Len(list) + 1}
  BY <1>4
<1>6. \A i \in DOMAIN Append(list, Added(f)) :
          /\ Append(list, Added(f))[i].name = Append(list, Added(f))[i].folder.name
          /\ Append(list, Added(f))[i].length >= Append(list, Added(f))[i].folder.length
  <2>1. \A i \in DOMAIN list : Append(list, Added(f))[i] = list[i]
    BY <1>4
  <2> HIDE DEF Added
  <2> QED
    BY <1>2, <1>4, <1>5, <2>1 DEF IsList
<1> QED
  BY <1>4, <1>5, <1>6 DEF IsList


LEMMA HeaderLengthType ==
    ASSUME NEW lengths \in Seq(Nat)
    PROVE  HeaderLength(lengths) \in Nat
<1>1. PICK N \in Nat : N = Len(lengths)
  OBVIOUS
<1>2. PICK all : all = [i \in DOMAIN lengths |-> Long + lengths[i]]
  OBVIOUS
<1>3. all \in [1..N -> Nat]
  BY <1>1, <1>2 DEF Long
<1>4. Ends(all)[N] \in Nat /\ Len(all) = N
  BY <1>3, EndsAddUp, IsSeq
<1> QED
  BY <1>2, <1>4 DEF HeaderLength, Total, FixedPart

LEMMA GetLengthType ==
    ASSUME NEW list, IsList(list)
    PROVE  GetLength(list) \in Nat
<1>1. \A i \in DOMAIN list : list[i].length \in Nat
  BY FieldTypes
<1>2. [i \in DOMAIN list |-> list[i].length] \in Seq(Nat)
  BY <1>1 DEF IsList
<1> QED
  BY <1>2, HeaderLengthType DEF GetLength

LEMMA AddFolderStep == ASSUME RfhInv, NEW f \in Folder, AddFolder(f) PROVE RfhInv'
<1> DEFINE new == Append(opts, Added(f))
<1> USE DEF RfhInv
<1>1. /\ opts' = new /\ listed' = new /\ attr' = Reinit(new) /\ strucLength' = GetLength(new)
      /\ has' = IF has = Nothing THEN Nothing ELSE Append(has, f)
      /\ buffer' = Nothing /\ prefix' = prefix /\ wasBig' = wasBig
  BY DEF AddFolder, Added, LengthAfter
<1>2. /\ IsList(new) /\ DOMAIN new = DOMAIN opts \cup {Len(opts) + 1}
      /\ Len(opts) \in Nat /\ DOMAIN opts = 1..Len(opts)
      /\ \A i \in DOMAIN opts : new[i] = opts[i]
      /\ new[Len(opts) + 1] = Added(f)
  BY AppendIsList
<1> HIDE DEF new
<1>3. GetLength(new) \in Nat
  BY <1>2, GetLengthType
<1>4. RfhTypeOK'
  <2>1. \A i \in DOMAIN new : new[i].folder \in Folder /\ new[i].length \in Nat
    BY <1>2, FieldTypes
  <2>2. DOMAIN Reinit(new) = Names(new)
    <3>1. DOMAIN attr = Names(listed) /\ (listed = opts \/ listed = <<>>)
      BY DEF RfhTypeOK, Names
    <3>2. Names(opts) \subseteq Names(new) /\ Names(<<>>) = {}
      BY <1>2 DEF Names
    <3> QED
      BY <3>1, <3>2, ReinitNames
  <2> QED
    BY <1>1, <1>3, <2>1, <2>2 DEF RfhTypeOK, Names
<1>5. HasThem'
  <2> SUFFICES ASSUME has' # Nothing PROVE HasThem'
    BY DEF HasThem
  <2>1. has # Nothing /\ has' = Append(has, f) /\ has = FoldersOf(opts) /\ listed = opts
    BY <1>1 DEF HasThem
  <2>2. FoldersOf(opts) \in Seq(Folder) /\ Len(FoldersOf(opts)) = Len(opts)
    <3>1. \A i \in DOMAIN opts : opts[i].folder \in Folder
      BY DEF RfhTypeOK
    <3> QED
      BY <1>2, <3>1 DEF FoldersOf
  <2>3. has' = FoldersOf(new)
    <3>1. /\ DOMAIN has' = DOMAIN new /\ has' = [i \in DOMAIN new |-> has'[i]]
          /\ \A i \in DOMAIN opts : has'[i] = has[i]
          /\ has'[Len(opts) + 1] = f
      <4>1. has \in Seq(Folder) /\ Len(has) = Len(opts)
        BY <2>1, <2>2
      <4>2. /\ has' \in Seq(Folder) /\ Len(has') = Len(opts) + 1
            /\ \A i \in 1..Len(opts) : has'[i] = has[i]
            /\ has'[Len(opts) + 1] = f
        BY <2>1, <4>1, AppendProperties
      <4>3. DOMAIN has' = 1..Len(opts) + 1 /\ has' = [i \in DOMAIN has' |-> has'[i]]
        BY <4>2, LenProperties
      <4> QED
        BY <1>2, <4>2, <4>3
    <3>2. \A i \in DOMAIN new : has'[i] = new[i].folder
      BY <1>2, <2>1, <3>1 DEF FoldersOf, Added
    <3> QED
      BY <3>1, <3>2 DEF FoldersOf
  <2>4. ASSUME Distinct(has'), NEW i \in DOMAIN new PROVE attr'[new[i].name] = FieldOf(new[i])
    <3>1. Distinct(FoldersOf(opts))
      BY <1>2, <2>3, <2>4 DEF Distinct, FoldersOf
    <3>2. FromList(new)[new[i].name] = FieldOf(new[i])
      BY <1>2, <2>3, <2>4, FoundUnderItsName
    <3>3. \A j \in DOMAIN opts : attr[opts[j].name] = FieldOf(opts[j])
      BY <2>1, <3>1 DEF HasThem
    <3>4. DOMAIN attr = Names(opts)
      BY <2>1 DEF RfhTypeOK, Names
    <3>5. new[i].name \in Names(new)
      BY DEF Names
    <3>6. CASE i \in DOMAIN opts
      BY <1>1, <1>2, <3>3, <3>4, <3>5, <3>6, ReinitValues DEF Names
    <3>7. CASE i \notin DOMAIN opts
      <4>1. new[i].name \notin Names(opts)
        <5> SUFFICES ASSUME NEW j \in DOMAIN opts, opts[j].name = new[i].name PROVE FALSE
          BY DEF Names
        <5>1. j \in DOMAIN new /\ new[j] = opts[j] /\ i # j
          BY <1>2, <3>7
        <5>2. new[j].folder.name = new[i].folder.name
          BY <1>2, <5>1 DEF IsList
        <5> QED
          BY <2>3, <2>4, <5>1, <5>2 DEF Distinct, FoldersOf
      <4> QED
        BY <1>1, <3>2, <3>4, <3>5, <4>1, ReinitValues
    <3> QED
      BY <3>6, <3>7
  <2> QED
    BY <1>1, <2>3, <2>4 DEF HasThem
<1> QED
  BY <1>1, <1>2, <1>4, <1>5 DEF PacksWhatItHas

-----------------------------------------------------------------------------
\* With the fields in order, struct.pack makes the folders it has.
LEMMA PackedFolders ==
    ASSUME NEW values, IsList(opts),
           \A i \in DOMAIN opts : values[opts[i].name] = FieldOf(opts[i])
    PROVE  /\ [i \in DOMAIN Packed(opts, values) |-> Packed(opts, values)[i].folder] = FoldersOf(opts)
           /\ \A i \in DOMAIN Packed(opts, values) :
                 LET f == Packed(opts, values)[i] IN f.length = f.room /\ f.room >= f.folder.length
           /\ HeaderLength([i \in DOMAIN Packed(opts, values) |-> Packed(opts, values)[i].room])
                = GetLength(opts)
<1> DEFINE p == Packed(opts, values)
<1>1. /\ DOMAIN p = DOMAIN opts
      /\ \A i \in DOMAIN opts : /\ p[i].folder = opts[i].folder
                                /\ p[i].length = opts[i].length
                                /\ p[i].room = opts[i].length
  <2>1. ASSUME NEW i \in DOMAIN opts
        PROVE  /\ values[opts[i].name].folder = opts[i].folder
               /\ values[opts[i].name].length = opts[i].length
    <3>1. PICK o : o = opts[i]
      OBVIOUS
    <3>2. values[o.name] = FieldOf(o)
      BY <3>1
    <3>3. FieldOf(o).folder = o.folder /\ FieldOf(o).length = o.length
      BY DEF FieldOf
    <3> QED
      BY <3>1, <3>2, <3>3
  <2> QED
    BY <2>1 DEF Packed
<1> HIDE DEF p
<1>2. [i \in DOMAIN p |-> p[i].folder] = FoldersOf(opts)
  BY <1>1 DEF FoldersOf
<1>3. \A i \in DOMAIN p : LET f == p[i] IN f.length = f.room /\ f.room >= f.folder.length
  BY <1>1 DEF IsList
<1>4. [i \in DOMAIN p |-> p[i].room] = [i \in DOMAIN opts |-> opts[i].length]
  BY <1>1
<1>5. HeaderLength([i \in DOMAIN p |-> p[i].room]) = GetLength(opts)
  BY <1>4 DEF GetLength
<1> QED
  BY <1>2, <1>3, <1>5 DEF p

LEMMA PackStep ==
    ASSUME RfhInv, NEW encoding \in Order \cup {""}, Pack(encoding)
    PROVE  RfhInv'
<1> USE DEF RfhInv
<1>1. PICK list, order, values :
          /\ list = IF encoding = "big" THEN opts ELSE listed
          /\ order = IF encoding = "big" THEN "big" ELSE prefix
          /\ values = IF encoding = "big" THEN Reinit(opts) ELSE attr
          /\ prefix' = order /\ listed' = list /\ attr' = values
          /\ buffer' = [order |-> IF order = "" THEN Native ELSE order, asked |-> encoding,
                        strucLength |-> strucLength, folders |-> Packed(list, values),
                        has |-> has, wasBig |-> wasBig]
          /\ wasBig' = (wasBig \/ encoding = "big")
          /\ UNCHANGED <<opts, strucLength, has>>
  BY DEF Pack
<1>2. listed = opts \/ listed = <<>>
  BY DEF RfhTypeOK
<1>3. DOMAIN values = Names(list)
  <2>1. DOMAIN attr = Names(listed) /\ Names(<<>>) = {}
    BY NoFolders DEF RfhTypeOK, Names
  <2> QED
    BY <1>1, <1>2, <2>1, ReinitNames
<1>4. RfhTypeOK'
  BY <1>1, <1>2, <1>3 DEF RfhTypeOK, Names, Order
<1>5. (wasBig <=> prefix = "big")'
  BY <1>1
<1>6. ASSUME has # Nothing, Distinct(has)
      PROVE  list = opts /\ \A i \in DOMAIN opts : values[opts[i].name] = FieldOf(opts[i])
  <2>1. /\ list = opts /\ listed = opts
        /\ \A i \in DOMAIN opts : attr[opts[i].name] = FieldOf(opts[i])
    BY <1>1, <1>6 DEF HasThem
  <2>2. \A i \in DOMAIN opts : opts[i].name \in DOMAIN attr
    BY <2>1 DEF RfhTypeOK
  <2>3. \A i \in DOMAIN opts : Reinit(opts)[opts[i].name] = attr[opts[i].name]
    BY <2>2, ReinitValues
  <2> QED
    BY <1>1, <2>1, <2>3
<1>7. HasThem'
  <2>1. has # Nothing => listed' = opts
    BY <1>1 DEF HasThem
  <2> QED
    BY <1>1, <1>6, <2>1 DEF HasThem
<1>8. PacksWhatItHas'
  <2>1. buffer'.asked = "big" => buffer'.order = "big"
    BY <1>1
  <2>2. buffer'.asked = "little" /\ ~buffer'.wasBig => buffer'.order = "little"
    BY <1>1 DEF Native, RfhTypeOK, Order
  <2>3. ASSUME has # Nothing, Distinct(has)
        PROVE  /\ [i \in DOMAIN buffer'.folders |-> buffer'.folders[i].folder] = has
               /\ \A i \in DOMAIN buffer'.folders :
                     LET f == buffer'.folders[i] IN f.length = f.room /\ f.room >= f.folder.length
               /\ has # <<>> => buffer'.strucLength
                      = HeaderLength([i \in DOMAIN buffer'.folders |-> buffer'.folders[i].room])
    <3>1. buffer'.folders = Packed(opts, values) /\ buffer'.strucLength = strucLength
      BY <1>1, <1>6, <2>3
    <3>2. has = FoldersOf(opts) /\ (opts # <<>> => strucLength = GetLength(opts))
      BY <2>3 DEF HasThem
    <3>3. opts = <<>> => has = <<>>
      BY <3>2, NoFolders
    <3>4. /\ [i \in DOMAIN Packed(opts, values) |-> Packed(opts, values)[i].folder] = FoldersOf(opts)
          /\ \A i \in DOMAIN Packed(opts, values) :
                LET f == Packed(opts, values)[i] IN f.length = f.room /\ f.room >= f.folder.length
          /\ HeaderLength([i \in DOMAIN Packed(opts, values) |-> Packed(opts, values)[i].room])
                = GetLength(opts)
      BY <1>6, <2>3, PackedFolders
    <3> QED
      BY <3>1, <3>2, <3>3, <3>4
  <2>4. buffer'.has = has
    BY <1>1
  <2> QED
    BY <2>1, <2>2, <2>3, <2>4 DEF PacksWhatItHas
<1> QED
  BY <1>1, <1>4, <1>5, <1>7, <1>8

-----------------------------------------------------------------------------
Part == [folder: Folder, length: Nat, wellFormed: BOOLEAN]

LEMMA BadIsPlace ==
    ASSUME NEW b \in Buffer
    PROVE  SelectInSeq(b.folders, LAMBDA x : ~x.wellFormed) \in 0..Len(b.folders)
<1> DEFINE I == {i \in 1..Len(b.folders) : ~b.folders[i].wellFormed}
<1>1. SelectInSeq(b.folders, LAMBDA x : ~x.wellFormed) = IF I # {} THEN Min(I) ELSE 0
  BY DEF SelectInSeq
<1>2. Len(b.folders) \in Nat
  <2>1. b.folders \in Seq(Part)
    BY RfhAssumption DEF Part
  <2> QED
    BY <2>1, LenProperties
<1>3. ASSUME I # {} PROVE Min(I) \in I
  <2>1. I \in SUBSET Nat
    BY <1>2
  <2>2. \E x \in I : \A y \in I : x <= y
    BY <1>3, <2>1, LeastNumber
  <2> QED
    BY <2>2 DEF Min
<1> QED
  BY <1>1, <1>2, <1>3

LEMMA ParsedIsList ==
    ASSUME NEW b \in Buffer
    PROVE  /\ IsList(Parsed(b)) /\ Len(Parsed(b)) = Len(b.folders)
           /\ FoldersOf(Parsed(b)) = [i \in DOMAIN b.folders |-> b.folders[i].folder]
           /\ GetLength(Parsed(b)) = b.strucLength
<1>1. /\ b.folders \in Seq(Part)
      /\ \A i \in DOMAIN b.folders : b.folders[i].length >= b.folders[i].folder.length
      /\ b.strucLength = HeaderLength([i \in DOMAIN b.folders |-> b.folders[i].length])
  BY RfhAssumption DEF Part
<1>2. \A i \in DOMAIN b.folders : b.folders[i].folder \in Folder /\ b.folders[i].length \in Nat
  <2> SUFFICES ASSUME NEW i \in DOMAIN b.folders PROVE b.folders[i] \in Part
    BY DEF Part
  <2> QED
    BY <1>1, ElementOfSeq
<1>3. /\ DOMAIN Parsed(b) = DOMAIN b.folders
      /\ \A i \in DOMAIN b.folders :
            /\ Parsed(b)[i].name = b.folders[i].folder.name
            /\ Parsed(b)[i].length = b.folders[i].length
            /\ Parsed(b)[i].folder = b.folders[i].folder
            /\ Parsed(b)[i] \in Field
  BY <1>2 DEF Parsed, Field
<1>4. Parsed(b) \in Seq(Field) /\ Len(Parsed(b)) = Len(b.folders)
  <2>1. DOMAIN b.folders = 1..Len(b.folders) /\ Len(b.folders) \in Nat
    BY <1>1
  <2>2. Parsed(b) = [i \in DOMAIN b.folders |-> Parsed(b)[i]]
    BY DEF Parsed
  <2>3. Parsed(b) \in [1..Len(b.folders) -> Field]
    BY <1>3, <2>1, <2>2
  <2> QED
    BY <2>1, <2>3, IsSeq
<1>5. IsList(Parsed(b))
  BY <1>1, <1>3, <1>4 DEF IsList
<1>6. FoldersOf(Parsed(b)) = [i \in DOMAIN b.folders |-> b.folders[i].folder]
  BY <1>3 DEF FoldersOf
<1>7. [i \in DOMAIN Parsed(b) |-> Parsed(b)[i].length] = [i \in DOMAIN b.folders |-> b.folders[i].length]
  BY <1>3
<1> QED
  BY <1>1, <1>4, <1>5, <1>6, <1>7 DEF GetLength

LEMMA FirstFolders ==
    ASSUME NEW list, IsList(list), NEW n \in 0..Len(list), n # 0
    PROVE  IsList(SubSeq(list, 1, n - 1))
<1>1. list \in Seq(Field) /\ Len(list) \in Nat /\ DOMAIN list = 1..Len(list)
  <2>1. list \in Seq(Field)
    BY DEF IsList
  <2> QED
    BY <2>1, LenProperties
<1>2. PICK first \in Int, last \in Nat : first = 1 /\ last = n - 1
  BY <1>1
<1>3. \A i \in 1..last : i \in DOMAIN list
  BY <1>1, <1>2
<1>4. \A i \in first..last : list[i] \in Field
  BY <1>1, <1>2, <1>3, ElementOfSeq
<1>5. PICK s : s = SubSeq(list, first, last)
  OBVIOUS
<1>6. /\ s \in Seq(Field)
      /\ Len(s) = IF first <= last THEN last - first + 1 ELSE 0
      /\ \A i \in 1..last - first + 1 : s[i] = list[first + i - 1]
  BY <1>4, <1>5, SubSeqProperties
<1>7. \A i \in DOMAIN s : i \in DOMAIN list /\ s[i] = list[i]
  BY <1>2, <1>3, <1>6
<1> QED
  BY <1>2, <1>5, <1>6, <1>7 DEF IsList

LEMMA UnpackStep ==
    ASSUME RfhInv, NEW b \in Buffer, NEW encoding \in Order \cup {""}, Unpack(b, encoding)
    PROVE  RfhInv'
<1> USE DEF RfhInv
<1>1. PICK order, bad, seen, ok :
          /\ order = IF encoding = "" THEN b.order ELSE encoding
          /\ bad = SelectInSeq(b.folders, LAMBDA x : ~x.wellFormed)
          /\ seen = IF ~(order = b.order /\ b.there = "header") THEN <<>>
                    ELSE IF bad = 0 THEN Parsed(b) ELSE SubSeq(Parsed(b), 1, bad - 1)
          /\ ok = \/ FixedPartOnly(b, order)
                  \/ order = b.order /\ b.there = "header" /\ bad = 0
          /\ opts' = seen
          /\ listed' = IF ok THEN seen ELSE <<>>
          /\ attr' = IF ok THEN FromList(seen) ELSE <<>>
          /\ strucLength' = IF order = b.order THEN b.strucLength ELSE Nothing
          /\ prefix' = order
          /\ has' = IF ~ok THEN Nothing ELSE IF b.there = "fixed part" THEN <<>>
                    ELSE [i \in DOMAIN b.folders |-> b.folders[i].folder]
          /\ wasBig' = (order = "big")
          /\ buffer' = Nothing
  BY DEF Unpack
<1>2. bad \in 0..Len(b.folders)
  BY <1>1, BadIsPlace
<1>3. IsList(seen)
  <2>1. IsList(<<>>)
    BY NoFolders
  <2>2. ASSUME bad # 0 PROVE IsList(SubSeq(Parsed(b), 1, bad - 1))
    BY <1>2, <2>2, FirstFolders, ParsedIsList
  <2> QED
    BY <1>1, <2>1, <2>2, ParsedIsList
<1>4. order = b.order => strucLength' \in Nat
  BY <1>1, ParsedIsList, GetLengthType
<1>5. RfhTypeOK'
  <2>1. \A i \in DOMAIN seen : seen[i].folder \in Folder /\ seen[i].length \in Nat
    BY <1>3, FieldTypes
  <2>2. DOMAIN attr' = Names(listed') /\ (listed' = opts' \/ listed' = <<>>)
    <3>1. CASE ok
      BY <1>1, <3>1, FromListNames
    <3>2. CASE ~ok
      BY <1>1, <3>2, NoFolders
    <3> QED
      BY <3>1, <3>2
  <2>3. order \in Order
    BY <1>1, RfhAssumption
  <2> QED
    BY <1>1, <1>4, <2>1, <2>2, <2>3 DEF RfhTypeOK, Names
<1>6. HasThem'
  <2> SUFFICES ASSUME has' # Nothing PROVE HasThem'
    BY DEF HasThem
  <2>1. /\ ok /\ b.there \in {"fixed part", "header"}
        /\ b.there = "header" => seen = Parsed(b) /\ order = b.order
        /\ b.there = "fixed part" => seen = <<>>
    BY <1>1 DEF FixedPartOnly
  <2>2. has' = FoldersOf(seen) /\ (seen # <<>> => strucLength' = GetLength(seen))
    BY <1>1, <2>1, ParsedIsList, NoFolders
  <2>3. Distinct(has') => \A i \in DOMAIN seen : attr'[seen[i].name] = FieldOf(seen[i])
    BY <1>1, <1>3, <2>1, <2>2, FoundUnderItsName
  <2> QED
    BY <1>1, <2>1, <2>2, <2>3 DEF HasThem
<1> QED
  BY <1>1, <1>3, <1>5, <1>6 DEF PacksWhatItHas

-----------------------------------------------------------------------------
LEMMA RfhNextInv == RfhInv /\ [RfhNext]_rfhVars => RfhInv'
<1> SUFFICES ASSUME RfhInv, [RfhNext]_rfhVars PROVE RfhInv'
  OBVIOUS
<1>1. CASE UNCHANGED rfhVars
  <2>1. /\ UNCHANGED <<opts, listed, attr, strucLength>>
        /\ UNCHANGED <<prefix, buffer, has, wasBig>>
    BY <1>1 DEF rfhVars
  <2>2. RfhTypeOK' /\ IsList(opts)'
    BY <2>1 DEF RfhInv, RfhTypeOK
  <2>3. HasThem'
    BY <2>1 DEF RfhInv, HasThem
  <2>4. PacksWhatItHas'
    BY <2>1 DEF RfhInv, PacksWhatItHas
  <2> QED
    BY <2>1, <2>2, <2>3, <2>4 DEF RfhInv
<1> QED
  BY <1>1, AddFolderStep, PackStep, UnpackStep DEF RfhNext

\* The fields of an RFH2 object are those of its folders.
THEOREM RfhTypes == RfhSpec => []RfhTypeOK
<1>1. RfhInv => RfhTypeOK
  BY DEF RfhInv
<1> QED
  BY <1>1, RfhInitInv, RfhNextInv, PTL DEF RfhSpec

\* Whatever is added, packed in either byte order and unpacked from other
\* programs, the next header has the folders of the object.
THEOREM PackedIsWhatItHas == RfhSpec => []PacksWhatItHas
<1>1. RfhInv => PacksWhatItHas
  BY DEF RfhInv
<1> QED
  BY <1>1, RfhInitInv, RfhNextInv, PTL DEF RfhSpec

-----------------------------------------------------------------------------
(* MQINQ and MQSET *)

AttrInv == AttrTypeOK /\ EachItsOwn

LEMMA Bounds ==
    \A from, l \in Nat : \A first, last \in Int :
        first = from + 1 /\ last = from + l =>
            /\ last - first + 1 = l
            /\ ~(first <= last) => l = 0
            /\ \A n \in Nat : from + l <= n => \A k \in first..last : k \in 1..n
OBVIOUS

\* A piece is cut out of the whole again.
LEMMA CutOut ==
    ASSUME NEW S, NEW N \in Nat, NEW seqs \in [1..N -> Seq(S)],
           NEW lengths, AreLengths(lengths, N, seqs),
           NEW i \in 1..N, NEW from \in Nat, from = Ends(lengths)[i - 1]
    PROVE  SubSeq(FlattenSeq(seqs), from + 1, from + Len(seqs[i])) = seqs[i]
<1>1. PICK flat : flat = FlattenSeq(seqs)
  OBVIOUS
<1>2. /\ lengths \in [1..N -> Nat] /\ flat \in Seq(S) /\ Len(flat) = Ends(lengths)[N]
      /\ \A k \in 1..Len(seqs[i]) : flat[from + k] = seqs[i][k]
  <2>1. /\ lengths \in [1..N -> Nat]
        /\ FlattenSeq(seqs) \in Seq(S)
        /\ Len(FlattenSeq(seqs)) = Ends(lengths)[N]
        /\ Laid(FlattenSeq(seqs), N, seqs, Ends(lengths))
    BY Flattened
  <2> QED
    BY <1>1, <2>1 DEF Laid
<1>3. PICK l \in Nat, piece \in Seq(S) : piece = seqs[i] /\ l = Len(piece)
  BY LenProperties
<1>4. Ends(lengths)[i] = from + l /\ from + l <= Len(flat)
  <2>1. i - 1 \in 0..N /\ i \in 0..N /\ N \in i..N
    OBVIOUS
  <2>1a. lengths[i] = Len(seqs[i])
    BY DEF AreLengths
  <2>2. Ends(lengths)[i - 1] \in Nat /\ Ends(lengths)[i] = Ends(lengths)[i - 1] + lengths[i]
    BY <1>2, <2>1, EndsAddUp
  <2>3. Ends(lengths)[i] <= Ends(lengths)[N]
    BY <1>2, <2>1, EndsGrow
  <2> QED
    BY <1>2, <1>3, <2>1a, <2>2, <2>3
<1>4a. from + l <= Len(flat)
  BY <1>4
<1>5. PICK first \in Int, last \in Int : first = from + 1 /\ last = from + l
  <2>1. from + 1 \in Int /\ from + l \in Int
    BY <1>4
  <2> QED
    BY <2>1
<1>6. \A k \in first..last : flat[k] \in S
  <2>1. Len(flat) \in Nat /\ \A k \in 1..Len(flat) : flat[k] \in S
    BY <1>2, LenProperties, ElementOfSeq
  <2>2. \A k \in first..last : k \in 1..Len(flat)
    <3>1. first = from + 1 /\ last = from + l
      BY <1>5
    <3>2. \A n \in Nat : from + l <= n => \A k \in first..last : k \in 1..n
      BY <3>1, Bounds
    <3>3. PICK n \in Nat : n = Len(flat)
      BY <2>1
    <3> QED
      BY <1>4a, <3>2, <3>3
  <2> QED
    BY <2>1, <2>2
<1>7. PICK cut : cut = SubSeq(flat, first, last)
  OBVIOUS
<1>8. /\ cut \in Seq(S) /\ Len(cut) = IF first <= last THEN last - first + 1 ELSE 0
      /\ \A k \in 1..last - first + 1 : cut[k] = flat[first + k - 1]
  BY <1>6, <1>7, SubSeqProperties
<1>9. last - first + 1 = l /\ Len(cut) = l
  <2>1. /\ last - first + 1 = l
        /\ ~(first <= last) => l = 0
        /\ \A n \in Nat : from + l <= n => \A k \in first..last : k \in 1..n
    <3>1. first = from + 1 /\ last = from + l
      BY <1>5
    <3> QED
      BY <3>1, Bounds
  <2> QED
    BY <1>8, <2>1
<1>10. \A k \in 1..l : cut[k] = piece[k]
  <2> SUFFICES ASSUME NEW k \in 1..l PROVE cut[k] = piece[k]
    OBVIOUS
  <2>1. first + k - 1 = from + k
    BY <1>3, <1>4, <1>5
  <2>2. cut[k] = flat[first + k - 1]
    BY <1>8, <1>9
  <2> QED
    BY <1>2, <1>3, <2>1, <2>2
<1>11. cut = piece
  BY <1>3, <1>8, <1>9, <1>10, SeqEqual
<1> QED
  BY <1>1, <1>3, <1>5, <1>7, <1>11

\* Values under their selectors, each of the size of its attribute.
AreValues(selectors, values) ==
    /\ selectors \in Seq(Selector)
    /\ values \in [1..Len(selectors) -> Value]
    /\ \A i \in DOMAIN selectors : selectors[i] \in IntAttr \cup CharAttr /\ Fits(selectors[i], values[i])

SizeTypes ==
    /\ \A s \in IntAttr : IntSize(s) = 1 /\ GetAttrLength(s) = 0
    /\ \A s \in CharAttr : IntSize(s) = 0 /\ GetAttrLength(s) \in Nat

LEMMA Sizes == SizeTypes
BY AttributesAssumption DEF SizeTypes, IntSize, GetAttrLength

PiecesOf(selectors, S, values) ==
    [i \in DOMAIN selectors |-> IF selectors[i] \in S THEN values[i] ELSE <<>>]

LEMMA PiecesTypes ==
    ASSUME NEW selectors, NEW values, AreValues(selectors, values), NEW S
    PROVE  /\ Len(selectors) \in Nat /\ DOMAIN selectors = 1..Len(selectors)
           /\ PiecesOf(selectors, S, values) \in [1..Len(selectors) -> Seq(Int)]
<1>1. Len(selectors) \in Nat /\ DOMAIN selectors = 1..Len(selectors)
  <2>1. selectors \in Seq(Selector)
    BY DEF AreValues
  <2> QED
    BY <2>1, LenProperties
<1>2. <<>> \in Seq(Int)
  OBVIOUS
<1>3. \A i \in 1..Len(selectors) : values[i] \in Seq(Int)
  BY DEF AreValues, Value
<1> QED
  BY <1>1, <1>2, <1>3 DEF PiecesOf

\* The array of integers has each at its place.
LEMMA IntsInOrder ==
    ASSUME NEW selectors, NEW values, AreValues(selectors, values)
    PROVE  /\ InOrder(selectors, IntAttr, values) \in Seq(Int)
           /\ Len(InOrder(selectors, IntAttr, values)) = IntEnds(selectors)[Len(selectors)]
           /\ \A i \in DOMAIN selectors : selectors[i] \in IntAttr =>
                 <<InOrder(selectors, IntAttr, values)[IntEnds(selectors)[i - 1] + 1]>> = values[i]
<1>1. PICK N, p, S : N = Len(selectors) /\ p = PiecesOf(selectors, IntAttr, values) /\ S = Int
  OBVIOUS
<1>2. N \in Nat /\ DOMAIN selectors = 1..N /\ p \in [1..N -> Seq(S)]
  BY <1>1, PiecesTypes
<1>3. PICK lengths : AreLengths(lengths, N, p)
  BY DEF AreLengths
<1>4. \A i \in 1..N : Len(p[i]) = IntSize(selectors[i])
  <2> SUFFICES ASSUME NEW i \in 1..N PROVE Len(p[i]) = IntSize(selectors[i])
    OBVIOUS
  <2>1. p[i] = IF selectors[i] \in IntAttr THEN values[i] ELSE <<>>
    BY <1>1, <1>2 DEF PiecesOf
  <2>2. selectors[i] \in IntAttr \cup CharAttr /\ Len(values[i]) = IntSize(selectors[i]) + GetAttrLength(selectors[i])
    BY <1>2 DEF AreValues, Fits
  <2>3. Len(<<>>) = 0
    OBVIOUS
  <2> QED
    BY <2>1, <2>2, <2>3, Sizes, AttributesAssumption DEF SizeTypes
<1>5. lengths = [i \in DOMAIN selectors |-> IntSize(selectors[i])]
  BY <1>2, <1>3, <1>4 DEF AreLengths
<1>6. PICK flat : flat = FlattenSeq(p)
  OBVIOUS
<1>7. /\ flat \in Seq(S) /\ Len(flat) = Ends(lengths)[N]
      /\ \A i \in 1..N : \A k \in 1..Len(p[i]) : flat[Ends(lengths)[i - 1] + k] = p[i][k]
  <2>1. /\ FlattenSeq(p) \in Seq(S) /\ Len(FlattenSeq(p)) = Ends(lengths)[N]
        /\ Laid(FlattenSeq(p), N, p, Ends(lengths))
    BY <1>2, <1>3, Flattened
  <2> QED
    BY <1>6, <2>1 DEF Laid
<1>8. flat = InOrder(selectors, IntAttr, values) /\ Ends(lengths) = IntEnds(selectors)
  BY <1>1, <1>5, <1>6 DEF InOrder, PiecesOf, IntEnds
<1>9. ASSUME NEW i \in 1..N, selectors[i] \in IntAttr
      PROVE  <<flat[Ends(lengths)[i - 1] + 1]>> = values[i]
  <2>1. p[i] = values[i] /\ Len(p[i]) = 1 /\ p[i] \in Seq(S)
    BY <1>1, <1>2, <1>4, <1>9, Sizes DEF PiecesOf, SizeTypes
  <2>2. 1 \in 1..Len(p[i])
    BY <2>1
  <2>3. flat[Ends(lengths)[i - 1] + 1] = p[i][1]
    BY <1>7, <2>2
  <2>4. <<p[i][1]>> = p[i]
    BY <2>1
  <2> QED
    BY <2>1, <2>3, <2>4
<1> QED
  BY <1>1, <1>2, <1>7, <1>8, <1>9

\* So has the array of bytes.
LEMMA CharsInOrder ==
    ASSUME NEW selectors, NEW values, AreValues(selectors, values),
           NEW C, \A i \in DOMAIN selectors : selectors[i] \in C <=> selectors[i] \in CharAttr
    PROVE  /\ InOrder(selectors, C, values) \in Seq(Int)
           /\ Len(InOrder(selectors, C, values)) = CharEnds(selectors)[Len(selectors)]
           /\ \A i \in DOMAIN selectors : selectors[i] \in CharAttr =>
                 SubSeq(InOrder(selectors, C, values), CharEnds(selectors)[i - 1] + 1,
                        CharEnds(selectors)[i - 1] + GetAttrLength(selectors[i])) = values[i]
<1>1. PICK N, p, S : N = Len(selectors) /\ p = PiecesOf(selectors, C, values) /\ S = Int
  OBVIOUS
<1>2. N \in Nat /\ DOMAIN selectors = 1..N /\ p \in [1..N -> Seq(S)]
  BY <1>1, PiecesTypes
<1>3. PICK lengths : AreLengths(lengths, N, p)
  BY DEF AreLengths
<1>4. \A i \in 1..N : Len(p[i]) = GetAttrLength(selectors[i])
  <2> SUFFICES ASSUME NEW i \in 1..N PROVE Len(p[i]) = GetAttrLength(selectors[i])
    OBVIOUS
  <2>1. p[i] = IF selectors[i] \in CharAttr THEN values[i] ELSE <<>>
    BY <1>1, <1>2 DEF PiecesOf
  <2>2. selectors[i] \in IntAttr \cup CharAttr /\ Len(values[i]) = IntSize(selectors[i]) + GetAttrLength(selectors[i])
    BY <1>2 DEF AreValues, Fits
  <2>3. Len(<<>>) = 0
    OBVIOUS
  <2> QED
    BY <2>1, <2>2, <2>3, Sizes, AttributesAssumption DEF SizeTypes
<1>5. lengths = [i \in DOMAIN selectors |-> GetAttrLength(selectors[i])]
  BY <1>2, <1>3, <1>4 DEF AreLengths
<1>6. PICK flat : flat = FlattenSeq(p)
  OBVIOUS
<1>7. flat \in Seq(S) /\ Len(flat) = Ends(lengths)[N]
  <2>1. FlattenSeq(p) \in Seq(S) /\ Len(FlattenSeq(p)) = Ends(lengths)[N]
    BY <1>2, <1>3, Flattened
  <2> QED
    BY <1>6, <2>1
<1>8. flat = InOrder(selectors, C, values) /\ Ends(lengths) = CharEnds(selectors)
  BY <1>1, <1>5, <1>6 DEF InOrder, PiecesOf, CharEnds
<1>9. ASSUME NEW i \in 1..N, selectors[i] \in CharAttr
      PROVE  SubSeq(flat, Ends(lengths)[i - 1] + 1,
                    Ends(lengths)[i - 1] + GetAttrLength(selectors[i])) = values[i]
  <2>1. p[i] = values[i] /\ Len(p[i]) = GetAttrLength(selectors[i])
    BY <1>1, <1>2, <1>4, <1>9 DEF PiecesOf
  <2>2. PICK from \in Nat : from = Ends(lengths)[i - 1]
    <3>1. lengths \in [1..N -> Nat] /\ i - 1 \in 0..N
      BY <1>2, <1>3, Flattened
    <3> QED
      BY <1>2, <3>1, EndsAddUp
  <2>3. SubSeq(FlattenSeq(p), from + 1, from + Len(p[i])) = p[i]
    BY <1>2, <1>3, <2>2, CutOut
  <2> QED
    BY <1>6, <2>1, <2>2, <2>3
<1> QED
  BY <1>1, <1>2, <1>7, <1>8, <1>9

LEMMA AttrInitInv == AttrInit => AttrInv
<1> SUFFICES ASSUME AttrInit PROVE AttrInv
  OBVIOUS
<1>1. ASSUME NEW s \in IntAttr \cup CharAttr PROVE Fits(s, attribute[s])
  <2>1. PICK n \in Nat : n = IntSize(s) + GetAttrLength(s)
    BY Sizes DEF SizeTypes
  <2>2. attribute[s] = [i \in 1..n |-> 1]
    BY <2>1 DEF AttrInit
  <2>3. PICK S : S = Int
    OBVIOUS
  <2>4. [i \in 1..n |-> 1] \in [1..n -> S]
    BY <2>3
  <2> QED
    BY <2>1, <2>2, <2>3, <2>4, IsSeq DEF Fits, Value
<1> QED
  BY <1>1 DEF AttrInit, AttrInv, AttrTypeOK, EachItsOwn

-----------------------------------------------------------------------------
\* What an object has, asked for in any order.
LEMMA AttributesAreValues ==
    ASSUME AttrTypeOK, NEW selectors \in Inquiry, Known(selectors)
    PROVE  AreValues(selectors, [i \in DOMAIN selectors |-> attribute[selectors[i]]])
<1>1. selectors \in Seq(Selector)
  BY AttributesAssumption
<1>2. DOMAIN selectors = 1..Len(selectors)
  BY <1>1, LenProperties
<1>3. \A i \in DOMAIN selectors :
          selectors[i] \in IntAttr \cup CharAttr /\ Fits(selectors[i], attribute[selectors[i]])
  BY DEF Known, ToSet, AttrTypeOK
<1> QED
  BY <1>1, <1>2, <1>3 DEF AreValues, Fits

LEMMA InquireStep == ASSUME AttrInv, NEW selectors \in Inquiry, Inquire(selectors) PROVE AttrInv'
<1>1. PICK ints, chars, last :
          /\ ints = MQINQ(selectors, IntAttr, IntEnds(selectors)[Len(selectors)])
          /\ chars = MQINQ(selectors, CharAttr, CharEnds(selectors)[Len(selectors)])
          /\ last = [s \in ToSet(selectors) |-> Max({i \in DOMAIN selectors : selectors[i] = s})]
          /\ reply' = IF Known(selectors)
                      THEN [s \in ToSet(selectors) |-> ValueOf(selectors, ints, chars, last[s])]
                      ELSE NoReply
          /\ UNCHANGED <<attribute, wanted>>
  <2>1. PICK last : last = [s \in ToSet(selectors) |-> Max({i \in DOMAIN selectors : selectors[i] = s})]
    OBVIOUS
  <2>2. \A s \in ToSet(selectors) : Max({i \in DOMAIN selectors : selectors[i] = s}) = last[s]
    BY <2>1
  <2>3. PICK ints, chars :
            /\ ints = MQINQ(selectors, IntAttr, IntEnds(selectors)[Len(selectors)])
            /\ chars = MQINQ(selectors, CharAttr, CharEnds(selectors)[Len(selectors)])
    OBVIOUS
  <2>4. /\ reply' = IF Known(selectors)
                    THEN [s \in ToSet(selectors) |->
                             ValueOf(selectors, ints, chars,
                                     Max({i \in DOMAIN selectors : selectors[i] = s}))]
                    ELSE NoReply
        /\ UNCHANGED <<attribute, wanted>>
    BY <2>3 DEF Inquire
  <2>5. CASE ~Known(selectors)
    BY <2>1, <2>3, <2>4, <2>5
  <2>6. CASE Known(selectors)
    <3>1. [s \in ToSet(selectors) |->
              ValueOf(selectors, ints, chars, Max({i \in DOMAIN selectors : selectors[i] = s}))]
            = [s \in ToSet(selectors) |-> ValueOf(selectors, ints, chars, last[s])]
      BY <2>2
    <3> QED
      BY <2>1, <2>3, <2>4, <2>6, <3>1
  <2> QED
    BY <2>5, <2>6
<1>2. CASE ~Known(selectors)
  BY <1>1, <1>2 DEF AttrInv, AttrTypeOK, EachItsOwn
<1>3. CASE Known(selectors)
  <2>1. PICK values : values = [i \in DOMAIN selectors |-> attribute[selectors[i]]]
    OBVIOUS
  <2>2. AreValues(selectors, values) /\ DOMAIN selectors = 1..Len(selectors) /\ Len(selectors) \in Nat
    <3>1. AreValues(selectors, values)
      BY <1>3, <2>1, AttributesAreValues DEF AttrInv
    <3> QED
      BY <3>1, PiecesTypes
  <2>3. ints = InOrder(selectors, IntAttr, values)
    BY <1>1, <2>1, <2>2, IntsInOrder, SubSeqFull DEF MQINQ
  <2>4. chars = InOrder(selectors, CharAttr, values)
    BY <1>1, <2>1, <2>2, CharsInOrder, SubSeqFull DEF MQINQ
  <2>5. ASSUME NEW s \in ToSet(selectors)
        PROVE  last[s] \in DOMAIN selectors /\ selectors[last[s]] = s
    <3>1. PICK T : T = {i \in DOMAIN selectors : selectors[i] = s}
      OBVIOUS
    <3>2. T # {} /\ T \in SUBSET (1..Len(selectors))
      BY <2>2, <3>1 DEF ToSet
    <3>3. Max(T) \in T
      <4>1. T \in SUBSET (0..Len(selectors))
        BY <3>2
      <4> QED
        BY <2>2, <3>2, <4>1, Greatest
    <3> QED
      BY <1>1, <3>1, <3>3
  <2>6. ASSUME NEW i \in DOMAIN selectors
        PROVE  ValueOf(selectors, ints, chars, i)
                 = IF selectors[i] = Secret THEN Stars ELSE attribute[selectors[i]]
    <3>1. selectors[i] \in IntAttr \cup CharAttr /\ values[i] = attribute[selectors[i]]
      BY <2>1, <2>2 DEF AreValues
    <3>2. CASE selectors[i] \in IntAttr
      <4>1. selectors[i] # Secret
        BY <3>2, AttributesAssumption
      <4>2. <<ints[IntEnds(selectors)[i - 1] + 1]>> = values[i]
        BY <2>2, <2>3, <3>2, IntsInOrder
      <4> QED
        BY <3>1, <3>2, <4>1, <4>2 DEF ValueOf
    <3>3. CASE selectors[i] \notin IntAttr
      <4>1. selectors[i] \in CharAttr
        BY <3>1, <3>3
      <4>2. SubSeq(chars, CharEnds(selectors)[i - 1] + 1,
                   CharEnds(selectors)[i - 1] + GetAttrLength(selectors[i])) = values[i]
        BY <2>2, <2>4, <4>1, CharsInOrder
      <4> QED
        BY <3>1, <3>3, <4>2 DEF ValueOf, CharOffset
    <3> QED
      BY <3>2, <3>3
  <2>7. /\ reply' = [s \in ToSet(selectors) |-> ValueOf(selectors, ints, chars, last[s])]
        /\ UNCHANGED <<attribute, wanted>>
    BY <1>1, <1>3
  <2>8. \A s \in ToSet(selectors) : reply'[s] = IF s = Secret THEN Stars ELSE attribute[s]
    BY <2>5, <2>6, <2>7
  <2>9. DOMAIN reply' = ToSet(selectors) /\ ToSet(selectors) \subseteq IntAttr \cup CharAttr
    BY <1>3, <2>7 DEF Known
  <2>10. PICK answer : answer = reply'
    OBVIOUS
  <2>11. /\ DOMAIN answer \subseteq DOMAIN attribute
         /\ \A s \in DOMAIN answer : answer[s] = IF s = Secret THEN Stars ELSE attribute[s]
    BY <2>8, <2>9, <2>10 DEF AttrInv, AttrTypeOK
  <2>12. AttrTypeOK'
    BY <2>7, <2>10, <2>11 DEF AttrInv, AttrTypeOK
  <2>13. EachItsOwn'
    BY <2>7, <2>10, <2>11 DEF AttrInv, EachItsOwn
  <2> QED
    BY <2>12, <2>13 DEF AttrInv
<1> QED
  BY <1>2, <1>3

-----------------------------------------------------------------------------
\* A text that is not too long gets the length of its attribute.
LEMMA FilledUpFits ==
    ASSUME NEW s \in IntAttr \cup CharAttr, NEW v \in Value, s \in IntAttr => Len(v) = 1, ~Oversize(s, v)
    PROVE  Fits(s, FilledUp(s, v))
<1>1. CASE s \in IntAttr
  BY <1>1, Sizes DEF SizeTypes, Fits, FilledUp
<1>2. CASE s \notin IntAttr
  <2>1. s \in CharAttr /\ IntSize(s) = 0 /\ GetAttrLength(s) \in Nat
    BY <1>2, Sizes DEF SizeTypes
  <2>2. v \in Seq(Int) /\ Len(v) \in Nat /\ Len(v) <= GetAttrLength(s)
    BY <1>2, <2>1, LenProperties DEF Oversize, Value
  <2>3. PICK n \in Nat : n = GetAttrLength(s) - Len(v)
    BY <2>1, <2>2
  <2> PICK S : S = Int
    OBVIOUS
  <2> PICK t : t = v
    OBVIOUS
  <2>4. PICK nuls : nuls = [i \in 1..n |-> 0]
    OBVIOUS
  <2>5. nuls \in Seq(S) /\ Len(nuls) = n
    <3>1. nuls \in [1..n -> S]
      BY <2>4
    <3> QED
      BY <3>1, IsSeq
  <2>6. v \o nuls \in Seq(S) /\ Len(v \o nuls) = Len(v) + n
    <3>1. t \in Seq(S)
      BY <2>2
    <3>2. t \o nuls \in Seq(S) /\ Len(t \o nuls) = Len(t) + Len(nuls)
      BY <2>5, <3>1, ConcatProperties
    <3> QED
      BY <2>5, <3>2
  <2>7. FilledUp(s, v) = v \o nuls
    BY <1>2, <2>3, <2>4 DEF FilledUp
  <2>8. Len(v) + n = 0 + GetAttrLength(s)
    BY <2>1, <2>2, <2>3
  <2> QED
    BY <2>1, <2>3, <2>6, <2>7, <2>8 DEF Fits, Value
<1> QED
  BY <1>1, <1>2

LEMMA SetStep == ASSUME AttrInv, NEW kv \in Setting, Set(kv) PROVE AttrInv'
<1>1. PICK selectors, values, ints, chars :
          /\ selectors = [i \in DOMAIN kv |-> kv[i][1]]
          /\ values = [i \in DOMAIN kv |-> FilledUp(kv[i][1], kv[i][2])]
          /\ ints = InOrder(selectors, IntAttr, values)
          /\ chars = InOrder(selectors, Selector \ IntAttr, values)
          /\ ~\E i \in DOMAIN kv : Oversize(kv[i][1], kv[i][2])
          /\ \/ /\ Known(selectors)
                /\ attribute' = MQSET(selectors, ints, chars)
                /\ wanted' = [s \in DOMAIN wanted |->
                                 IF s \in ToSet(selectors) THEN values[IndexOf(selectors, s)]
                                 ELSE wanted[s]]
             \/ UNCHANGED <<attribute, wanted>>
          /\ reply' = NoReply
  BY DEF Set
<1>2. CASE UNCHANGED <<attribute, wanted>>
  BY <1>1, <1>2 DEF AttrInv, AttrTypeOK, EachItsOwn
<1>3. CASE /\ Known(selectors)
           /\ attribute' = MQSET(selectors, ints, chars)
           /\ wanted' = [s \in DOMAIN wanted |->
                            IF s \in ToSet(selectors) THEN values[IndexOf(selectors, s)] ELSE wanted[s]]
  <2>1. PICK P : P = Selector \X Value
    OBVIOUS
  <2>2. kv \in Seq(P) /\ \A i \in DOMAIN kv : kv[i][1] \in IntAttr => Len(kv[i][2]) = 1
    BY <2>1, AttributesAssumption
  <2>3. /\ Len(kv) \in Nat /\ DOMAIN kv = 1..Len(kv)
        /\ \A i \in DOMAIN kv : kv[i] \in P
    BY <2>2, LenProperties, ElementOfSeq
  <2>4. \A i \in DOMAIN kv : kv[i][1] \in Selector /\ kv[i][2] \in Value
    BY <2>1, <2>3
  <2>5. selectors \in Seq(Selector) /\ Len(selectors) = Len(kv) /\ DOMAIN selectors = DOMAIN kv
    <3>1. PICK n \in Nat : n = Len(kv)
      BY <2>3
    <3>2. selectors \in [1..n -> Selector]
      BY <1>1, <2>3, <2>4, <3>1
    <3>3. selectors \in Seq(Selector) /\ Len(selectors) = n
      BY <3>2, IsSeq
    <3> QED
      BY <1>1, <3>1, <3>3
  <2>6. ASSUME NEW i \in DOMAIN selectors
        PROVE  selectors[i] \in IntAttr \cup CharAttr /\ Fits(selectors[i], values[i])
    <3>1. selectors[i] = kv[i][1] /\ values[i] = FilledUp(kv[i][1], kv[i][2])
      BY <1>1, <2>5
    <3>2. selectors[i] \in IntAttr \cup CharAttr
      BY <1>3 DEF Known, ToSet
    <3>3. kv[i][2] \in Value /\ ~Oversize(kv[i][1], kv[i][2]) /\ (kv[i][1] \in IntAttr => Len(kv[i][2]) = 1)
      BY <1>1, <2>2, <2>4, <2>5
    <3> QED
      BY <3>1, <3>2, <3>3, FilledUpFits
  <2>7. AreValues(selectors, values)
    <3>1. values \in [1..Len(selectors) -> Value]
      BY <1>1, <2>3, <2>5, <2>6 DEF Fits
    <3> QED
      BY <2>5, <2>6, <3>1 DEF AreValues
  <2>8. ASSUME NEW i \in DOMAIN selectors, selectors[i] \in IntAttr
        PROVE  <<ints[IntEnds(selectors)[i - 1] + 1]>> = values[i]
    BY <1>1, <2>7, <2>8, IntsInOrder
  <2>9. ASSUME NEW i \in DOMAIN selectors, selectors[i] \notin IntAttr
        PROVE  SubSeq(chars, CharEnds(selectors)[i - 1] + 1,
                      CharEnds(selectors)[i - 1] + GetAttrLength(selectors[i])) = values[i]
    <3>1. PICK C : C = Selector \ IntAttr
      OBVIOUS
    <3>2. \A j \in DOMAIN selectors : selectors[j] \in C <=> selectors[j] \in CharAttr
      BY <2>6, <3>1, AttributesAssumption
    <3>3. selectors[i] \in CharAttr
      BY <2>6, <2>9
    <3>4. chars = InOrder(selectors, C, values)
      BY <1>1, <3>1
    <3>5. SubSeq(InOrder(selectors, C, values), CharEnds(selectors)[i - 1] + 1,
                 CharEnds(selectors)[i - 1] + GetAttrLength(selectors[i])) = values[i]
      <4>1. \A j \in DOMAIN selectors : selectors[j] \in CharAttr =>
                SubSeq(InOrder(selectors, C, values), CharEnds(selectors)[j - 1] + 1,
                       CharEnds(selectors)[j - 1] + GetAttrLength(selectors[j])) = values[j]
        BY ONLY <2>7, <3>2, CharsInOrder, AttributesAssumption
      <4> QED
        BY <3>3, <4>1
    <3> QED
      BY <3>4, <3>5
  <2>10. \A s \in ToSet(selectors) :
            IndexOf(selectors, s) \in DOMAIN selectors /\ selectors[IndexOf(selectors, s)] = s
    BY DEF IndexOf, ToSet
  <2>11. attribute' = [s \in DOMAIN attribute |->
                          IF s \in ToSet(selectors) THEN values[IndexOf(selectors, s)] ELSE attribute[s]]
    <3>1. ASSUME NEW i \in DOMAIN selectors
          PROVE  values[i] = IF selectors[i] \in IntAttr THEN <<ints[IntEnds(selectors)[i - 1] + 1]>>
                             ELSE SubSeq(chars, CharEnds(selectors)[i - 1] + 1,
                                         CharEnds(selectors)[i - 1] + GetAttrLength(selectors[i]))
      BY <2>8, <2>9
    <3>2. PICK taken : taken = [i \in DOMAIN selectors |->
                             IF selectors[i] \in IntAttr THEN <<ints[IntEnds(selectors)[i - 1] + 1]>>
                             ELSE SubSeq(chars, CharEnds(selectors)[i - 1] + 1,
                                         CharEnds(selectors)[i - 1] + GetAttrLength(selectors[i]))]
      OBVIOUS
    <3>3. \A i \in DOMAIN selectors : taken[i] = values[i]
      BY <3>1, <3>2
    <3>4. attribute' = [s \in DOMAIN attribute |->
                           IF s \in ToSet(selectors) THEN taken[IndexOf(selectors, s)] ELSE attribute[s]]
      BY <1>3, <2>10, <3>2 DEF MQSET
    <3> QED
      BY <2>10, <3>3, <3>4
  <2>12. attribute = wanted /\ DOMAIN attribute = IntAttr \cup CharAttr
    BY DEF AttrInv, EachItsOwn, AttrTypeOK
  <2>13. attribute' = wanted'
    BY <1>3, <2>11, <2>12
  <2>14. \A s \in DOMAIN attribute : Fits(s, attribute'[s])
    <3>1. \A s \in DOMAIN attribute : Fits(s, attribute[s])
      BY DEF AttrInv, AttrTypeOK
    <3>2. \A s \in ToSet(selectors) : Fits(s, values[IndexOf(selectors, s)])
      BY <2>6, <2>10
    <3> QED
      BY <2>11, <3>1, <3>2
  <2>15. DOMAIN attribute' = DOMAIN attribute
    BY <2>11
  <2> QED
    BY <1>1, <2>12, <2>13, <2>14, <2>15 DEF AttrInv, AttrTypeOK, EachItsOwn
<1> QED
  BY <1>1, <1>2, <1>3

LEMMA AttrNextInv == AttrInv /\ [AttrNext]_attrVars => AttrInv'
<1> SUFFICES ASSUME AttrInv, [AttrNext]_attrVars PROVE AttrInv'
  OBVIOUS
<1>1. CASE UNCHANGED attrVars
  BY <1>1 DEF attrVars, AttrInv, AttrTypeOK, EachItsOwn
<1> QED
  BY <1>1, InquireStep, SetStep DEF AttrNext

\* An attribute keeps the size MQ has for it, and a reply is about attributes.
THEOREM AttrTypes == AttrSpec => []AttrTypeOK
<1>1. AttrInv => AttrTypeOK
  BY DEF AttrInv
<1> QED
  BY <1>1, AttrInitInv, AttrNextInv, PTL DEF AttrSpec

\* Whatever selectors there are, of whatever lengths, in whatever order: the offsets of
\* common_inq and the arrays of common_set are those of MQ.
THEOREM EachGetsItsOwn == AttrSpec => []EachItsOwn
<1>1. AttrInv => EachItsOwn
  BY DEF AttrInv
<1> QED
  BY <1>1, AttrInitInv, AttrNextInv, PTL DEF AttrSpec

-----------------------------------------------------------------------------
(* PCF structures *)

\* The total of some numbers is at least each and at most as many times the bound of all.
LEMMA TotalBetween ==
    ASSUME NEW N \in Nat, NEW lengths \in [1..N -> Nat],
           NEW w \in Nat, \A i \in 1..N : lengths[i] <= w
    PROVE  Total(lengths) \in Nat /\ Total(lengths) <= w * N
<1>1. PICK e : e = Ends(lengths)
  OBVIOUS
<1>2. /\ \A n \in 0..N : e[n] \in Nat
      /\ e[0] = 0
      /\ \A n \in 1..N : e[n] = e[n - 1] + lengths[n]
  BY <1>1, EndsAddUp
<1> DEFINE T == {n \in 0..N : e[n] <= w * n}
<1>3. 0 \in T
  BY <1>2
<1>4. ASSUME NEW n \in 1..N, n - 1 \in T PROVE n \in T
  <2>1. /\ e[n] = e[n - 1] + lengths[n] /\ lengths[n] \in Nat /\ lengths[n] <= w
        /\ e[n - 1] \in Nat /\ e[n - 1] <= w * (n - 1)
    BY <1>2, <1>4
  <2>2. w * n = w * (n - 1) + w /\ w * n \in Nat /\ w * (n - 1) \in Nat
    OBVIOUS
  <2>3. e[n] <= w * n
    <3> HIDE DEF T
    <3> QED
      BY <2>1, <2>2
  <2> QED
    BY <2>3
<1>5. 0..N \subseteq T
  <2> HIDE DEF T
  <2> QED
    BY <1>3, <1>4, CountUp
<1>6. N \in T /\ N \in 0..N
  BY <1>5
<1>7. Len(lengths) = N
  BY IsSeq
<1>8. e[N] \in Nat /\ e[N] <= w * N
  BY <1>2, <1>6
<1> QED
  BY <1>1, <1>7, <1>8 DEF Total

LEMMA EachInTotal ==
    ASSUME NEW N \in Nat, NEW lengths \in [1..N -> Nat]
    PROVE  \A i \in 1..N : lengths[i] <= Ends(lengths)[N] /\ Ends(lengths)[N] \in Nat
<1> SUFFICES ASSUME NEW i \in 1..N
             PROVE  lengths[i] <= Ends(lengths)[N] /\ Ends(lengths)[N] \in Nat
  OBVIOUS
<1>1. PICK e : e = Ends(lengths)
  OBVIOUS
<1>2. i \in 0..N /\ i - 1 \in 0..N /\ N \in i..N /\ N \in 0..N
  OBVIOUS
<1>3. e[i] \in Nat /\ e[i - 1] \in Nat /\ e[i] = e[i - 1] + lengths[i] /\ lengths[i] \in Nat /\ e[N] \in Nat
  BY <1>1, <1>2, EndsAddUp
<1>4. e[i] <= e[N]
  BY <1>1, <1>2, EndsGrow
<1> QED
  BY <1>1, <1>3, <1>4

LEMMA PaddedFits ==
    ASSUME NEW n \in Nat
    PROVE  PaddedCount(n) \in Nat /\ n <= PaddedCount(n) /\ PaddedCount(n) % 4 = 0
<1>1. PICK q \in Nat, r \in 0..3 : n = 4 * q + r
  <2>1. n \div 4 \in Nat /\ n % 4 \in 0..3 /\ n = 4 * (n \div 4) + (n % 4)
    OBVIOUS
  <2> QED
    BY <2>1
<1>2. n % 4 = r
  BY <1>1
<1>3. PaddedCount(n) = IF r = 0 THEN 4 * q ELSE 4 * (q + 1)
  BY <1>1, <1>2 DEF PaddedCount
<1> QED
  BY <1>1, <1>3

LEMMA FourTimes ==
    ASSUME NEW n \in Nat, n % 4 = 0, NEW count \in Nat
    PROVE  n * count \in Nat /\ (n * count) % 4 = 0
<1>1. PICK q \in Nat : n = 4 * q
  <2>1. n \div 4 \in Nat /\ n = 4 * (n \div 4) + (n % 4)
    OBVIOUS
  <2> QED
    BY <2>1
<1>2. PICK m \in Nat : m = q * count
  OBVIOUS
<1>3. n * count = 4 * m
  BY <1>1, <1>2
<1>4. 4 * m \in Nat /\ (4 * m) % 4 = 0
  OBVIOUS
<1> QED
  BY <1>3, <1>4

\* The longest of some texts.
LEMMA Widest ==
    ASSUME NEW of \in Seq(Nat), of # <<>>
    PROVE  /\ Len(of) \in Nat \ {0} /\ of \in [1..Len(of) -> Nat]
           /\ Max(ToSet(of)) \in Nat /\ Max(ToSet(of)) \in ToSet(of)
           /\ \A i \in 1..Len(of) : of[i] <= Max(ToSet(of))
<1>1. PICK N \in Nat : N = Len(of)
  BY LenProperties
<1>2. of \in [1..N -> Nat] /\ N # 0
  BY <1>1, LenProperties, EmptySeq
<1>3. PICK B \in Nat : \A i \in 1..N : of[i] <= B
  BY <1>2, EachInTotal
<1>4. ToSet(of) \in SUBSET (0..B) /\ ToSet(of) # {}
  BY <1>2, <1>3 DEF ToSet
<1>5. Max(ToSet(of)) \in ToSet(of) /\ \A y \in ToSet(of) : y <= Max(ToSet(of))
  BY <1>4, Greatest
<1>6. \A i \in 1..N : of[i] \in ToSet(of)
  BY <1>2 DEF ToSet
<1>7. ToSet(of) \subseteq Nat
  BY <1>4
<1> QED
  BY <1>1, <1>2, <1>5, <1>6, <1>7

\* How a structure is made: StrucLength is what is packed.
Sized(it, len, nuls, room) ==
    [type |-> it.kind, param |-> it.key, of |-> it.of, len |-> len, nuls |-> nuls,
     struc |-> Fixed[it.kind] + room, bytes |-> Fixed[it.kind] + room]

LEMMA FixedParts ==
    /\ \A k \in DOMAIN Fixed : Fixed[k] \in Nat \ {0} /\ Fixed[k] % 4 = 0
    /\ {"group", "ints", "ints64", "int", "strings", "string", "bytes"} \subseteq DOMAIN Fixed
BY DEF Fixed

LEMMA ItemTypes ==
    ASSUME NEW it \in Plain \cup Group
    PROVE  /\ it.kind \in DOMAIN Fixed /\ it.of \in Seq(Nat)
           /\ it \in Group <=> it.kind = "group"
           /\ it.kind = "group" => it.key \in GroupKey /\ it.members \in Seq(Plain)
           /\ it.kind # "group" => it.key \in Key /\ it.members = <<>>
           /\ it.kind \in {"string", "bytes"} => it.of \in [1..1 -> Nat]
           /\ it.kind \notin {"strings", "ints", "ints64", "group"} => it.of # <<>>
<1>1. PICK empty : empty = <<>>
  OBVIOUS
<1>2. empty \in Seq(Nat)
  BY <1>1
<1> DEFINE Single == [kind: {"string", "bytes", "int", "int64"}, key: Key, of: [1..1 -> Nat], members: {empty}]
           Filter == [kind: {"stringFilter", "bytesFilter", "intFilter"}, key: Key, of: [1..2 -> Nat], members: {empty}]
           List == [kind: {"strings", "ints", "ints64"}, key: Key, of: Seq(Nat), members: {empty}]
<1>3. Plain = Single \cup Filter \cup List
  BY <1>1 DEF Plain
<1>4. \A n \in {1, 2} : \A s \in [1..n -> Nat] : s \in Seq(Nat) /\ s # empty
  <2> SUFFICES ASSUME NEW n \in {1, 2}, NEW s \in [1..n -> Nat] PROVE s \in Seq(Nat) /\ s # empty
    OBVIOUS
  <2>1. s \in Seq(Nat) /\ Len(s) = n
    BY IsSeq
  <2> QED
    BY <1>1, <2>1
<1>5. CASE it \in Single
  <2>1. it.of \in [1..1 -> Nat] /\ it.kind \in {"string", "bytes", "int", "int64"} /\ it.key \in Key /\ it.members = empty
    BY <1>5
  <2>2. it.of \in Seq(Nat) /\ it.of # empty
    BY <1>4, <2>1
  <2>3. it.kind \in DOMAIN Fixed /\ it.kind # "group" /\ it \notin Group
    BY <2>1 DEF Fixed, Group
  <2> QED
    BY <1>1, <2>1, <2>2, <2>3
<1>6. CASE it \in Filter
  <2>1. /\ it.of \in [1..2 -> Nat] /\ it.kind \in {"stringFilter", "bytesFilter", "intFilter"}
        /\ it.key \in Key /\ it.members = empty
    BY <1>6
  <2>2. it.of \in Seq(Nat) /\ it.of # empty
    BY <1>4, <2>1
  <2>3. it.kind \in DOMAIN Fixed /\ it.kind \notin {"group", "string", "bytes"} /\ it \notin Group
    BY <2>1 DEF Fixed, Group
  <2> QED
    BY <1>1, <2>1, <2>2, <2>3
<1>7. CASE it \in List
  <2>1. it.of \in Seq(Nat) /\ it.kind \in {"strings", "ints", "ints64"} /\ it.key \in Key /\ it.members = empty
    BY <1>7
  <2>2. it.kind \in DOMAIN Fixed /\ it.kind \notin {"group", "string", "bytes"} /\ it \notin Group
    BY <2>1 DEF Fixed, Group
  <2> QED
    BY <1>1, <2>1, <2>2
<1>8. CASE it \in Group
  BY <1>8, FixedParts DEF Group
<1> QED
  BY <1>3, <1>5, <1>6, <1>7, <1>8

\* Its length is right for any value, its bytes end on a boundary of four.
LEMMA StructureShape ==
    ASSUME NEW it \in Plain \cup Group
    PROVE  \E len, nuls, room \in Nat :
              /\ Structure(it) = Sized(it, len, nuls, room)
              /\ room % 4 = 0
              /\ it.kind = "group" => len = Len(it.members)
              /\ it.kind \in {"string", "bytes"} => len = Last(it.of)
              /\ it.kind = "strings" => len = WidestText(it)
<1>1. it.kind \in DOMAIN Fixed /\ it.of \in Seq(Nat)
  BY ItemTypes
<1>2. CASE it.kind \in Text
  <2>1. it.of # <<>>
    BY <1>2, ItemTypes DEF Text
  <2>2. PICK n : n = Last(it.of)
    OBVIOUS
  <2>3. n \in Nat /\ Len(it.of) # 0
    BY <1>1, <2>1, <2>2, Widest DEF Last
  <2>4. PaddedCount(n) \in Nat /\ n <= PaddedCount(n) /\ PaddedCount(n) % 4 = 0
    BY <2>3, PaddedFits
  <2>5. PaddedCount(n) - n \in Nat
    BY <2>3, <2>4
  <2>6. Structure(it) = Sized(it, n, PaddedCount(n) - n, PaddedCount(n))
    <3>1. PICK padded, rest : padded = PaddedCount(n) /\ rest = padded - n
      OBVIOUS
    <3>2. Structure(it) = Sized(it, n, rest, padded)
      BY <1>2, <2>2, <3>1 DEF Structure, Sized, Text
    <3> QED
      BY <3>1, <3>2
  <2>7. it.kind # "group" /\ it.kind # "strings"
    BY <1>2 DEF Text
  <2> QED
    BY <1>1, <2>2, <2>3, <2>4, <2>5, <2>6, <2>7
<1>3. CASE it.kind = "strings" /\ it.of # <<>>
  <2>2. PICK most \in Nat, count \in Nat : most = Max(ToSet(it.of)) /\ count = Len(it.of) /\ count # 0
    BY <1>1, <1>3, Widest
  <2>3. it.of \in [1..count -> Nat] /\ \A i \in 1..count : it.of[i] <= most
    BY <1>1, <1>3, <2>2, Widest
  <2>4. PICK widest \in Nat : widest = PaddedCount(most) /\ most <= widest /\ widest % 4 = 0
    BY PaddedFits
  <2>5. \A i \in 1..count : it.of[i] <= widest
    BY <2>3, <2>4
  <2>6. PICK total \in Nat : total = Total(it.of) /\ total <= widest * count
    BY <2>3, <2>5, TotalBetween
  <2>7. PICK room \in Nat : room = widest * count
    OBVIOUS
  <2>8. room % 4 = 0
    BY <2>4, <2>7, FourTimes
  <2>9. room - total \in Nat
    BY <2>6, <2>7
  <2>10. Structure(it) = Sized(it, widest, room - total, room)
    <3>1. PICK rest : rest = room - total
      OBVIOUS
    <3>2. WidestText(it) = widest
      BY <1>3, <2>2, <2>4 DEF WidestText
    <3>3. Structure(it) = Sized(it, widest, rest, room)
      BY <1>3, <2>2, <2>6, <2>7, <3>1, <3>2 DEF Structure, Sized, Text
    <3> QED
      BY <3>1, <3>3
  <2>11. widest = WidestText(it)
    BY <1>3, <2>2, <2>4 DEF WidestText
  <2> QED
    BY <1>1, <1>3, <2>8, <2>9, <2>10, <2>11
<1>7. CASE it.kind = "strings" /\ it.of = <<>>
  <2>1. Len(it.of) = 0 /\ Total(it.of) = 0
    <3>1. PICK lengths : lengths = it.of
      OBVIOUS
    <3>2. Len(lengths) = 0 /\ lengths \in [1..0 -> Nat]
      BY <1>1, <1>7, <3>1, EmptySeq, LenProperties
    <3>3. PICK N \in Nat : N = 0 /\ lengths \in [1..N -> Nat]
      BY <3>2
    <3>4. Ends(lengths)[0] = 0
      BY <3>3, EndsAddUp
    <3> QED
      BY <3>1, <3>2, <3>4 DEF Total
  <2>2. WidestText(it) = 0
    BY <1>7 DEF WidestText
  <2>3. Structure(it) = Sized(it, 0, 0, 0)
    BY <1>7, <2>1, <2>2 DEF Structure, Sized, Text
  <2>4. 0 \in Nat /\ 0 % 4 = 0
    OBVIOUS
  <2>5. it.kind \notin {"group", "string", "bytes"}
    BY <1>7
  <2> QED
    BY <2>2, <2>3, <2>4, <2>5
<1>4. CASE it.kind \in {"ints", "ints64"}
  <2>1. PICK count \in Nat : count = Len(it.of)
    BY <1>1, LenProperties
  <2>2. 4 * count \in Nat /\ 8 * count \in Nat /\ (4 * count) % 4 = 0 /\ (8 * count) % 4 = 0
    BY FourTimes
  <2>3. Structure(it) = Sized(it, count, 0, IF it.kind = "ints" THEN 4 * count ELSE 8 * count)
    BY <1>4, <2>1 DEF Structure, Sized, Text
  <2>4. (IF it.kind = "ints" THEN 4 * count ELSE 8 * count) \in Nat
    BY <2>2
  <2> QED
    BY <1>4, <2>1, <2>2, <2>3, <2>4
<1>5. CASE it.kind = "group"
  <2>1. PICK count \in Nat : count = Len(it.members)
    BY <1>5, ItemTypes, LenProperties
  <2>2. Structure(it) = Sized(it, count, 0, 0)
    BY <1>5, <2>1 DEF Structure, Sized, Text
  <2> QED
    BY <1>5, <2>1, <2>2
<1>6. CASE it.kind \notin Text \cup {"strings", "ints", "ints64", "group"}
  <2>1. Structure(it) = Sized(it, 0, 0, 0)
    BY <1>6 DEF Structure, Sized
  <2>2. it.kind \notin {"group", "string", "bytes", "strings"}
    BY <1>6 DEF Text
  <2> QED
    BY <2>1, <2>2
<1> QED
  BY <1>2, <1>3, <1>4, <1>5, <1>6, <1>7

\* A structure has in it what an item says.
Carries(s, it) ==
    /\ s \in Struct
    /\ s.param = it.key /\ s.of = it.of
    /\ s.struc = s.bytes /\ s.struc % 4 = 0
    /\ s.type = "group" <=> it.kind = "group"
    /\ s.type = "string" <=> it.kind = "string"
    /\ it.kind = "group" => s.len = Len(it.members)
    /\ ReadValue(s).of = AsRead(it)

LEMMA StructTypes ==
    ASSUME NEW s \in Struct
    PROVE  /\ s.type \in DOMAIN Fixed /\ s.of \in Seq(Nat) /\ s.len \in Nat /\ s.nuls \in Nat
           /\ s.struc \in Nat /\ s.bytes \in Nat /\ s.bytes > 0
           /\ s.type = "group" => s.param \in GroupKey
           /\ s.type # "group" => s.param \in Key
           /\ ReadValue(s) \in [of: Seq(Nat), nuls: Nat]
           /\ s.type = "string" => ReadValue(s).nuls = 0
<1>1. /\ s.type \in DOMAIN Fixed /\ s.of \in Seq(Nat) /\ s.len \in Nat /\ s.nuls \in Nat
      /\ s.struc \in Nat /\ s.bytes \in Nat /\ s.bytes > 0
      /\ s.type = "group" => s.param \in GroupKey
      /\ s.type # "group" => s.param \in Key
  <2> DEFINE Values == [type: DOMAIN Fixed \ {"group"}, param: Key, of: Seq(Nat), len: Nat, nuls: Nat,
                        struc: Nat, bytes: Nat \ {0}]
             Heads == [type: {"group"}, param: GroupKey, of: Seq(Nat), len: Nat, nuls: Nat,
                       struc: Nat, bytes: Nat \ {0}]
  <2>1. CASE s \in Values
    BY <2>1
  <2>2. CASE s \in Heads
    BY <2>2, FixedParts
  <2> QED
    BY <2>1, <2>2 DEF Struct
<1>2. PICK one : one = <<0>>
  OBVIOUS
<1>3. one \in Seq(Nat)
  BY <1>2
<1>4. ReadValue(s) \in [of: Seq(Nat), nuls: Nat]
  BY <1>1, <1>2, <1>3 DEF ReadValue
<1>5. s.type = "string" => ReadValue(s).nuls = 0
  BY <1>2 DEF ReadValue
<1> QED
  BY <1>1, <1>4, <1>5

LEMMA OneNumber == \A n : <<n>> \in [1..1 -> {n}] /\ Len(<<n>>) = 1 /\ Last(<<n>>) = n /\ <<n>>[1] = n
BY DEF Last

\* A value is read as it is, unless it is Unreadable.
LEMMA ReadBack ==
    ASSUME NEW it \in Plain \cup Group, NEW len \in Nat, NEW nuls \in Nat, NEW room \in Nat,
           it.kind \in {"string", "bytes"} => len = Last(it.of),
           it.kind = "strings" => len = WidestText(it)
    PROVE  ReadValue(Sized(it, len, nuls, room)).of = AsRead(it)
<1>1. PICK s : s = Sized(it, len, nuls, room)
  OBVIOUS
<1>2. s.type = it.kind /\ s.of = it.of /\ s.len = len
  BY <1>1 DEF Sized
<1>3. CASE it.kind \notin {"string", "bytes", "strings"}
  BY <1>1, <1>2, <1>3 DEF ReadValue, AsRead, Unreadable
<1>4. CASE it.kind \in {"string", "bytes"}
  <2>1. it.of \in [1..1 -> Nat]
    BY <1>4, ItemTypes
  <2>2. PICK n \in Nat : n = it.of[1]
    BY <2>1
  <2>3. it.of = <<n>>
    BY <2>1, <2>2
  <2>4. n = len
    BY <1>4, <2>3, OneNumber
  <2>5. Unreadable(it) <=> n = 1
    BY <1>4, <2>3 DEF Unreadable
  <2>6. ReadValue(s).of = IF n <= 1 THEN <<0>> ELSE it.of
    BY <1>2, <1>4, <2>4 DEF ReadValue
  <2> QED
    BY <1>1, <2>3, <2>5, <2>6 DEF AsRead
<1>5. CASE it.kind = "strings"
  <2>1. PICK lengths \in Seq(Nat) : lengths = it.of
    BY ItemTypes
  <2>2. PICK count \in Nat : count = Len(lengths) /\ lengths \in [1..count -> Nat]
    BY LenProperties
  <2>3. /\ Unreadable(it) <=> count # 1 /\ Total(lengths) = 0
        /\ ReadValue(s).of = IF len <= 1 THEN <<0>> ELSE lengths
    BY <1>2, <1>5, <2>1, <2>2 DEF Unreadable, ReadValue
  <2>4. CASE lengths = <<>>
    <3>1. len = 0 /\ count = 0
      BY <1>5, <2>1, <2>2, <2>4, EmptySeq DEF WidestText
    <3>2. Total(lengths) = 0
      BY <2>2, <3>1, EndsAddUp DEF Total
    <3> QED
      BY <1>1, <2>3, <3>1, <3>2 DEF AsRead
  <2>5. CASE lengths # <<>>
    <3>1. PICK most \in Nat : most = Max(ToSet(lengths)) /\ count # 0 /\ \A i \in 1..count : lengths[i] <= most
      BY <2>2, <2>5, Widest
    <3>2. len = PaddedCount(most)
      BY <1>5, <2>1, <2>5, <3>1 DEF WidestText
    <3>3. most <= len /\ len % 4 = 0
      BY <3>2, PaddedFits
    <3>4. CASE most = 0
      <4>1. len = 0
        BY <3>2, <3>4 DEF PaddedCount
      <4>2. Total(lengths) = 0
        <5>1. PICK w \in Nat : w = 0
          OBVIOUS
        <5>2. Total(lengths) \in Nat /\ Total(lengths) <= w * count
          BY <2>2, <3>1, <3>4, <5>1, TotalBetween
        <5>3. w * count = 0
          BY <5>1
        <5> QED
          BY <5>2, <5>3
      <4>3. count = 1 => lengths = <<0>>
        BY <2>2, <3>1, <3>4
      <4> QED
        BY <1>1, <2>1, <2>3, <4>1, <4>2, <4>3 DEF AsRead
    <3>5. CASE most # 0
      <4>1. ~(len <= 1)
        BY <3>3, <3>5
      <4>2. Total(lengths) # 0
        <5>1. PICK i \in 1..count : lengths[i] # 0
          <6>1. Max(ToSet(lengths)) \in ToSet(lengths)
            BY <2>5, Widest
          <6> QED
            BY <2>2, <3>1, <3>5, <6>1 DEF ToSet
        <5>2. lengths[i] <= Total(lengths) /\ Total(lengths) \in Nat
          BY <2>2, EachInTotal DEF Total
        <5> QED
          BY <2>2, <5>1, <5>2
      <4> QED
        BY <1>1, <2>1, <2>3, <4>1, <4>2 DEF AsRead
    <3> QED
      BY <3>4, <3>5
  <2> QED
    BY <2>4, <2>5
<1> QED
  BY <1>3, <1>4, <1>5

LEMMA OneStructure ==
    ASSUME NEW it \in Plain \cup Group
    PROVE  Carries(Structure(it), it)
<1>1. PICK len \in Nat, nuls \in Nat, room \in Nat :
          /\ Structure(it) = Sized(it, len, nuls, room)
          /\ room % 4 = 0
          /\ it.kind = "group" => len = Len(it.members)
          /\ it.kind \in {"string", "bytes"} => len = Last(it.of)
          /\ it.kind = "strings" => len = WidestText(it)
  BY StructureShape
<1>2. PICK s : s = Structure(it)
  OBVIOUS
<1>3. PICK fixed \in Nat : fixed = Fixed[it.kind] /\ fixed # 0 /\ fixed % 4 = 0
  BY ItemTypes, FixedParts
<1>4. fixed + room \in Nat \ {0} /\ (fixed + room) % 4 = 0
  BY <1>1, <1>3
<1>5. PICK struc \in Nat \ {0} : struc = fixed + room /\ struc % 4 = 0
  BY <1>4
<1>6. s = [type |-> it.kind, param |-> it.key, of |-> it.of, len |-> len, nuls |-> nuls,
           struc |-> struc, bytes |-> struc]
  BY <1>1, <1>2, <1>3, <1>5 DEF Sized
<1>7. s \in Struct
  BY <1>6, ItemTypes DEF Struct
<1>8. ReadValue(s).of = AsRead(it)
  BY <1>1, <1>2, ReadBack
<1> QED
  BY <1>1, <1>2, <1>5, <1>6, <1>7, <1>8 DEF Carries

LEMMA OneArgument ==
    ASSUME NEW it \in Plain
    PROVE  Carries(Structure(AsArgument(it)), it)
<1>1. CASE AsArgument(it) = it
  BY <1>1, OneStructure
<1>2. CASE it.kind = "int"
  <2>1. PICK list : list = [it EXCEPT !.kind = "ints"]
    OBVIOUS
  <2>2. it \in [kind: {"string", "bytes", "int", "int64"}, key: Key, of: [1..1 -> Nat], members: {<<>>}]
    BY <1>2 DEF Plain
  <2>3. it.of \in Seq(Nat) /\ it.key \in Key /\ it.members \in {<<>>}
    BY <2>2, IsSeq
  <2>4. list = [kind |-> "ints", key |-> it.key, of |-> it.of, members |-> it.members]
    BY <2>1, <2>2
  <2>5. list \in [kind: {"ints", "ints64"}, key: Key, of: Seq(Nat), members: {<<>>}]
    BY <2>3, <2>4
  <2>6. list \in Plain
    BY <2>5 DEF Plain
  <2>7. Carries(Structure(list), list)
    BY <2>6, OneStructure
  <2>8. Carries(Structure(list), it)
    BY <1>2, <2>4, <2>7 DEF Carries, AsRead, Unreadable
  <2> QED
    BY <1>1, <1>2, <2>1, <2>8 DEF AsArgument
<1> QED
  BY <1>1, <1>2 DEF AsArgument

\* How many structures stand for each item.
Places(items) == [i \in DOMAIN items |-> 1 + Len(items[i].members)]

\* Items, how many there are, and where their structures end.
AreItems(items, N, E) ==
    /\ N \in Nat /\ DOMAIN items = 1..N /\ Len(items) = N
    /\ \A i \in 0..N : E[i] \in Nat /\ E[i] <= E[N]
    /\ E[0] = 0
    /\ \A i \in 1..N :
          /\ items[i] \in Plain \cup Group
          /\ items[i].members \in Seq(Plain)
          /\ Len(items[i].members) \in Nat
          /\ items[i].kind # "group" => Len(items[i].members) = 0
          /\ E[i] = E[i - 1] + 1 + Len(items[i].members)

LEMMA ItemsAt ==
    ASSUME NEW items \in Seq(Plain \cup Group)
    PROVE  /\ AreItems(items, Len(items), Ends(Places(items)))
           /\ Places(items) \in [1..Len(items) -> Nat]
<1>1. PICK I : I = Plain \cup Group
  OBVIOUS
<1>2. items \in Seq(I)
  BY <1>1
<1>3. PICK N \in Nat : N = Len(items)
  BY <1>2, LenProperties
<1>4. items \in [1..N -> I] /\ DOMAIN items = 1..N
  BY <1>2, <1>3, LenProperties
<1>5. ASSUME NEW i \in 1..N
      PROVE  /\ items[i] \in Plain \cup Group
             /\ items[i].members \in Seq(Plain)
             /\ Len(items[i].members) \in Nat
             /\ items[i].kind # "group" => Len(items[i].members) = 0
  <2>1. items[i] \in Plain \cup Group
    BY <1>1, <1>4
  <2>2. PICK it : it = items[i]
    OBVIOUS
  <2>3. it \in Plain \cup Group
    BY <2>1, <2>2
  <2>4. it.kind # "group" => it.members \in Seq(Plain) /\ Len(it.members) = 0
    BY <2>3, ItemTypes, EmptySeq
  <2>5. it.kind = "group" => it.members \in Seq(Plain)
    BY <2>3, ItemTypes
  <2>6. it.members \in Seq(Plain)
    BY <2>4, <2>5
  <2>7. Len(it.members) \in Nat
    BY <2>6, LenProperties
  <2> QED
    BY <2>2, <2>3, <2>4, <2>6, <2>7
<1>6. PICK lengths : lengths = Places(items)
  OBVIOUS
<1>7. lengths \in [1..N -> Nat] /\ \A i \in 1..N : lengths[i] = 1 + Len(items[i].members)
  BY <1>4, <1>5, <1>6 DEF Places
<1>8. PICK E : E = Ends(lengths)
  OBVIOUS
<1>9. /\ E \in [0..N -> Nat] /\ E[0] = 0
      /\ \A i \in 1..N : E[i] = E[i - 1] + lengths[i]
  BY <1>7, <1>8, EndsAddUp
<1>10. \A i \in 0..N : E[i] \in Nat /\ E[i] <= E[N]
  <2> SUFFICES ASSUME NEW i \in 0..N PROVE E[i] \in Nat /\ E[i] <= E[N]
    OBVIOUS
  <2>1. N \in i..N
    OBVIOUS
  <2> QED
    BY <1>7, <1>8, <1>9, <2>1, EndsGrow
<1>11. \A i \in 1..N : E[i] = E[i - 1] + 1 + Len(items[i].members)
  <2> SUFFICES ASSUME NEW i \in 1..N PROVE E[i] = E[i - 1] + 1 + Len(items[i].members)
    OBVIOUS
  <2>1. PICK from \in Nat, L \in Nat : from = E[i - 1] /\ L = Len(items[i].members)
    <3>1. i - 1 \in 0..N
      OBVIOUS
    <3> QED
      BY <1>5, <1>9, <3>1
  <2>2. E[i] = from + (1 + L)
    BY <1>7, <1>9, <2>1
  <2>3. from + (1 + L) = from + 1 + L
    OBVIOUS
  <2> QED
    BY <2>1, <2>2, <2>3
<1>12. AreItems(items, N, E)
  BY <1>3, <1>4, <1>5, <1>9, <1>10, <1>11 DEF AreItems
<1> QED
  BY <1>3, <1>6, <1>7, <1>8, <1>12

\* The message has the structures of the items one after another, groups before their members.
LaysOut(items, N, E, msg) ==
    /\ msg \in Seq(Struct) /\ Len(msg) = E[N]
    /\ \A i \in 1..N :
          /\ Carries(msg[E[i - 1] + 1], items[i])
          /\ \A j \in 1..Len(items[i].members) : Carries(msg[E[i - 1] + 1 + j], items[i].members[j])

Lays(items, msg) == LaysOut(items, Len(items), Ends(Places(items)), msg)

StructuresOf(it) ==
    <<Structure(it)>> \o (IF it.kind = "group" THEN [i \in DOMAIN it.members |-> Structure(it.members[i])]
                          ELSE <<>>)

LEMMA ItsStructures ==
    ASSUME NEW it \in Plain \cup Group, NEW L \in Nat, it.members \in Seq(Plain), L = Len(it.members)
    PROVE  /\ StructuresOf(it) \in Seq(Struct) /\ Len(StructuresOf(it)) = 1 + L
           /\ Carries(StructuresOf(it)[1], it)
           /\ \A j \in 1..L : Carries(StructuresOf(it)[1 + j], it.members[j])
<1>1. PICK first : first = <<Structure(it)>>
  OBVIOUS
<1>2. Structure(it) \in Struct /\ Carries(Structure(it), it)
  BY OneStructure DEF Carries
<1>3. first \in Seq(Struct) /\ Len(first) = 1 /\ first[1] = Structure(it)
  BY <1>1, <1>2
<1>4. PICK members : members = it.members
  OBVIOUS
<1>5. members \in [1..L -> Plain] /\ DOMAIN members = 1..L
  BY <1>4, LenProperties
<1>6. \A j \in 1..L : Carries(Structure(members[j]), members[j]) /\ Structure(members[j]) \in Struct
  <2> SUFFICES ASSUME NEW j \in 1..L
               PROVE  Carries(Structure(members[j]), members[j]) /\ Structure(members[j]) \in Struct
    OBVIOUS
  <2>1. members[j] \in Plain \cup Group
    BY <1>5
  <2> QED
    BY <2>1, OneStructure DEF Carries
<1>7. PICK rest : rest = [j \in 1..L |-> Structure(members[j])]
  OBVIOUS
<1>8. rest \in Seq(Struct) /\ Len(rest) = L
  <2>1. rest \in [1..L -> Struct]
    BY <1>6, <1>7
  <2> QED
    BY <2>1, IsSeq
<1>9. StructuresOf(it) = first \o rest
  <2>1. CASE it.kind = "group"
    BY <1>1, <1>4, <1>5, <1>7, <2>1 DEF StructuresOf
  <2>2. CASE it.kind # "group"
    <3>1. it.members = <<>>
      BY <2>2, ItemTypes
    <3>2. L = 0
      BY <3>1
    <3>3. rest = <<>>
      BY <1>8, <3>2, EmptySeq
    <3> QED
      BY <1>1, <2>2, <3>3 DEF StructuresOf
  <2> QED
    BY <2>1, <2>2
<1>10. PICK both : both = first \o rest
  OBVIOUS
<1>11. /\ both \in Seq(Struct) /\ Len(both) = 1 + L
       /\ \A i \in 1..1 + L : both[i] = IF i <= 1 THEN first[i] ELSE rest[i - 1]
  <2>1. /\ first \o rest \in Seq(Struct) /\ Len(first \o rest) = Len(first) + Len(rest)
        /\ \A i \in 1..Len(first) + Len(rest) :
              (first \o rest)[i] = IF i <= Len(first) THEN first[i] ELSE rest[i - Len(first)]
    BY <1>3, <1>8, ConcatProperties
  <2> QED
    BY <1>3, <1>8, <1>10, <2>1
<1>12. both[1] = Structure(it)
  BY <1>3, <1>11
<1>13. \A j \in 1..L : both[1 + j] = Structure(members[j])
  <2> SUFFICES ASSUME NEW j \in 1..L PROVE both[1 + j] = Structure(members[j])
    OBVIOUS
  <2>1. 1 + j \in 1..1 + L /\ ~(1 + j <= 1) /\ (1 + j) - 1 = j
    OBVIOUS
  <2> QED
    BY <1>7, <1>11, <2>1
<1> QED
  BY <1>2, <1>4, <1>6, <1>9, <1>10, <1>11, <1>12, <1>13

LEMMA FlatLays ==
    ASSUME NEW items \in Seq(Plain \cup Group)
    PROVE  Lays(items, Flat(items))
<1>1. PICK N, E, lengths : N = Len(items) /\ lengths = Places(items) /\ E = Ends(lengths)
  OBVIOUS
<1>2. AreItems(items, N, E) /\ lengths \in [1..N -> Nat] /\ N \in Nat /\ DOMAIN items = 1..N
  BY <1>1, ItemsAt DEF AreItems
<1>3. PICK seqs : seqs = [i \in 1..N |-> StructuresOf(items[i])]
  OBVIOUS
<1>4. ASSUME NEW i \in 1..N
      PROVE  /\ seqs[i] \in Seq(Struct) /\ Len(seqs[i]) = 1 + Len(items[i].members)
             /\ Carries(seqs[i][1], items[i])
             /\ \A j \in 1..Len(items[i].members) : Carries(seqs[i][1 + j], items[i].members[j])
  <2>1. PICK it : it = items[i]
    OBVIOUS
  <2>2. it \in Plain \cup Group /\ it.members \in Seq(Plain) /\ Len(it.members) \in Nat
    BY <1>2, <2>1 DEF AreItems
  <2>3. seqs[i] = StructuresOf(it)
    BY <1>3, <2>1
  <2> QED
    BY <2>1, <2>2, <2>3, ItsStructures
<1>5. seqs \in [1..N -> Seq(Struct)]
  BY <1>3, <1>4
<1>6. AreLengths(lengths, N, seqs)
  <2>1. \A i \in 1..N : lengths[i] = Len(seqs[i])
    BY <1>1, <1>2, <1>4 DEF Places
  <2> QED
    BY <1>2, <2>1 DEF AreLengths
<1>7. PICK msg : msg = FlattenSeq(seqs)
  OBVIOUS
<1>8. msg \in Seq(Struct) /\ Len(msg) = E[N] /\ Laid(msg, N, seqs, E)
  BY <1>1, <1>2, <1>5, <1>6, <1>7, Flattened
<1>9. Flat(items) = msg
  BY <1>2, <1>3, <1>7 DEF Flat, StructuresOf
<1>10. ASSUME NEW i \in 1..N
       PROVE  /\ Carries(msg[E[i - 1] + 1], items[i])
              /\ \A j \in 1..Len(items[i].members) : Carries(msg[E[i - 1] + 1 + j], items[i].members[j])
  <2>1. PICK L \in Nat : L = Len(items[i].members)
    BY <1>2 DEF AreItems
  <2>2. \A k \in 1..1 + L : msg[E[i - 1] + k] = seqs[i][k]
    BY <1>4, <1>8, <2>1 DEF Laid
  <2>3. 1 \in 1..1 + L /\ \A j \in 1..L : 1 + j \in 1..1 + L
    OBVIOUS
  <2>4. Carries(msg[E[i - 1] + 1], items[i])
    BY <1>4, <2>2, <2>3
  <2>5. PICK from \in Nat : from = E[i - 1]
    <3>1. i - 1 \in 0..N
      BY <1>2
    <3> QED
      BY <1>2, <3>1 DEF AreItems
  <2>6. \A j \in 1..L : from + 1 + j = from + (1 + j)
    OBVIOUS
  <2>7. \A j \in 1..L : msg[E[i - 1] + 1 + j] = seqs[i][1 + j]
    BY <2>2, <2>3, <2>5, <2>6
  <2> QED
    BY <1>4, <2>1, <2>4, <2>7
<1>11. LaysOut(items, N, E, msg)
  BY <1>8, <1>10 DEF LaysOut
<1> QED
  BY <1>1, <1>9, <1>11 DEF Lays

\* Without groups, one structure stands for each item.
LEMMA NoGroupsPlaces ==
    ASSUME NEW items \in Seq(Plain), NEW N, NEW E, AreItems(items, N, E)
    PROVE  \A i \in 0..N : E[i] = i
<1>1. /\ N \in Nat /\ DOMAIN items = 1..N /\ E[0] = 0
      /\ \A i \in 1..N : E[i] = E[i - 1] + 1 + Len(items[i].members)
  BY DEF AreItems
<1>2. \A i \in 1..N : Len(items[i].members) = 0
  <2> SUFFICES ASSUME NEW i \in 1..N PROVE Len(items[i].members) = 0
    OBVIOUS
  <2>1. items[i] \in Plain
    BY <1>1, LenProperties
  <2>2. items[i].members = <<>>
    <3>1. PICK it : it = items[i]
      OBVIOUS
    <3>2. it \in Plain
      BY <2>1, <3>1
    <3>3. it.members = <<>>
      BY <3>2 DEF Plain
    <3> QED
      BY <3>1, <3>3
  <2> QED
    BY <2>2, EmptySeq
<1> DEFINE T == {i \in 0..N : E[i] = i}
<1>3. 0 \in T
  BY <1>1
<1>4. ASSUME NEW n \in 1..N, n - 1 \in T PROVE n \in T
  <2>1. E[n] = (n - 1) + 1 + 0
    BY <1>1, <1>2, <1>4
  <2>2. n \in 0..N /\ (n - 1) + 1 + 0 = n
    OBVIOUS
  <2> QED
    BY <2>1, <2>2
<1>5. 0..N \subseteq T
  <2> HIDE DEF T
  <2> QED
    BY <1>1, <1>3, <1>4, CountUp
<1> QED
  BY <1>5

\* The structures that __call__ makes of its arguments.
LEMMA ArgumentsLay ==
    ASSUME NEW items \in Seq(Plain), NEW msg \in Seq(Struct), Len(msg) = Len(items),
           \A i \in 1..Len(items) : msg[i] = Structure(AsArgument(items[i]))
    PROVE  Lays(items, msg)
<1>1. PICK N, E : N = Len(items) /\ E = Ends(Places(items))
  OBVIOUS
<1>2. items \in Seq(Plain \cup Group)
  <2>1. Plain \subseteq Plain \cup Group
    OBVIOUS
  <2> QED
    BY <2>1, SeqMonotonic
<1>3. AreItems(items, N, E)
  BY <1>1, <1>2, ItemsAt
<1>4. N \in Nat /\ \A i \in 0..N : E[i] = i
  BY <1>3, NoGroupsPlaces DEF AreItems
<1>5. ASSUME NEW i \in 1..N
      PROVE  /\ Carries(msg[E[i - 1] + 1], items[i])
             /\ \A j \in 1..Len(items[i].members) : Carries(msg[E[i - 1] + 1 + j], items[i].members[j])
  <2>1. E[i - 1] + 1 = i
    BY <1>4
  <2>2. items[i] \in Plain
    BY <1>1, ElementOfSeq
  <2>3. Carries(msg[i], items[i])
    BY <1>1, <2>2, OneArgument
  <2>4. Len(items[i].members) = 0
    <3>1. PICK it : it = items[i]
      OBVIOUS
    <3>2. it \in Plain
      BY <2>2, <3>1
    <3>3. it.members = <<>>
      BY <3>2 DEF Plain
    <3> QED
      BY <3>1, <3>3, EmptySeq
  <2> QED
    BY <2>1, <2>3, <2>4
<1>6. Len(msg) = E[N]
  BY <1>1, <1>4
<1>7. LaysOut(items, N, E, msg)
  BY <1>5, <1>6 DEF LaysOut
<1> QED
  BY <1>1, <1>7 DEF Lays

\* Where structure i of a message starts.
OffsetIn(msg, i) == Header + Ends([j \in DOMAIN msg |-> msg[j].bytes])[i - 1]

\* No two structures start at the same place.
LEMMA OffsetsGrow ==
    ASSUME NEW msg \in Seq(Struct), NEW M, M = Len(msg)
    PROVE  /\ \A q \in 1..M + 1 : OffsetIn(msg, q) \in Nat
           /\ OffsetIn(msg, 1) = Header
           /\ \A q \in 1..M : /\ OffsetIn(msg, q + 1) = OffsetIn(msg, q) + msg[q].bytes
                              /\ {i \in DOMAIN msg : OffsetIn(msg, i) = OffsetIn(msg, q)} = {q}
<1>1. M \in Nat /\ DOMAIN msg = 1..M /\ msg \in [1..M -> Struct]
  BY LenProperties
<1>2. \A j \in 1..M : msg[j].bytes \in Nat /\ msg[j].bytes > 0
  <2> SUFFICES ASSUME NEW j \in 1..M PROVE msg[j].bytes \in Nat /\ msg[j].bytes > 0
    OBVIOUS
  <2>1. PICK s : s = msg[j]
    OBVIOUS
  <2>2. s \in Struct
    BY <1>1, <2>1
  <2> QED
    BY <2>1, <2>2, StructTypes
<1>3. PICK lengths : lengths = [j \in DOMAIN msg |-> msg[j].bytes]
  OBVIOUS
<1>4. lengths \in [1..M -> Nat] /\ \A j \in 1..M : lengths[j] = msg[j].bytes /\ lengths[j] > 0
  BY <1>1, <1>2, <1>3
<1>5. PICK e : e = Ends(lengths)
  OBVIOUS
<1>6. /\ e \in [0..M -> Nat] /\ e[0] = 0
      /\ \A n \in 1..M : e[n] = e[n - 1] + lengths[n]
      /\ \A m \in 0..M : \A n \in m..M : e[m] <= e[n]
  BY <1>1, <1>4, <1>5, EndsAddUp, EndsGrow
<1>7. \A i \in 1..M + 1 : OffsetIn(msg, i) = 36 + e[i - 1] /\ i - 1 \in 0..M
  BY <1>1, <1>3, <1>5 DEF OffsetIn, Header
<1>8. \A q \in 1..M + 1 : OffsetIn(msg, q) \in Nat
  BY <1>6, <1>7
<1>9. OffsetIn(msg, 1) = Header
  BY <1>1, <1>6, <1>7 DEF Header
<1>10. \A m, n \in 1..M : m < n => OffsetIn(msg, m) < OffsetIn(msg, n)
  <2> SUFFICES ASSUME NEW m \in 1..M, NEW n \in 1..M, m < n PROVE OffsetIn(msg, m) < OffsetIn(msg, n)
    OBVIOUS
  <2>1. m \in 0..M /\ n - 1 \in m..M /\ m - 1 \in 0..M /\ n - 1 \in 0..M /\ m \in 1..M + 1 /\ n \in 1..M + 1
    BY <1>1
  <2>2. PICK a \in Nat, b \in Nat, c \in Nat : a = e[m - 1] /\ b = e[m] /\ c = e[n - 1]
    BY <1>6, <2>1
  <2>3. b > a /\ b <= c
    <3>1. PICK l \in Nat : l = lengths[m] /\ l > 0
      BY <1>4
    <3>2. b = a + l
      BY <1>6, <2>2, <3>1
    <3>3. b <= c
      BY <1>6, <2>1, <2>2
    <3> QED
      BY <3>1, <3>2, <3>3
  <2>4. OffsetIn(msg, m) = 36 + a /\ OffsetIn(msg, n) = 36 + c
    BY <1>7, <2>1, <2>2
  <2> QED
    BY <2>3, <2>4
<1>11. ASSUME NEW q \in 1..M
       PROVE  /\ OffsetIn(msg, q + 1) = OffsetIn(msg, q) + msg[q].bytes
              /\ {i \in DOMAIN msg : OffsetIn(msg, i) = OffsetIn(msg, q)} = {q}
  <2>1. q \in 1..M + 1 /\ q + 1 \in 1..M + 1 /\ (q + 1) - 1 = q /\ q - 1 \in 0..M /\ q \in 0..M
    BY <1>1
  <2>2. PICK a \in Nat, b \in Nat, l \in Nat : a = e[q - 1] /\ b = e[q] /\ l = lengths[q]
    BY <1>4, <1>6, <2>1
  <2>3. b = a + l
    BY <1>6, <2>2
  <2>4. OffsetIn(msg, q) = 36 + a /\ OffsetIn(msg, q + 1) = 36 + b
    BY <1>7, <2>1, <2>2
  <2>5. OffsetIn(msg, q + 1) = OffsetIn(msg, q) + msg[q].bytes
    <3>1. l = msg[q].bytes
      BY <1>4, <2>2
    <3>2. 36 + b = (36 + a) + l
      BY <2>3
    <3> QED
      BY <2>4, <3>1, <3>2
  <2>6. \A i \in 1..M : OffsetIn(msg, i) = OffsetIn(msg, q) => i = q
    <3> SUFFICES ASSUME NEW i \in 1..M, OffsetIn(msg, i) = OffsetIn(msg, q), i # q PROVE FALSE
      OBVIOUS
    <3>1. i < q \/ q < i
      BY <1>1
    <3>2. i \in 1..M + 1
      BY <1>1
    <3>3. OffsetIn(msg, i) \in Nat /\ OffsetIn(msg, q) \in Nat
      BY <1>8, <2>1, <3>2
    <3> QED
      BY <1>10, <3>1, <3>3
  <2> QED
    BY <1>1, <2>5, <2>6
<1> QED
  BY <1>8, <1>9, <1>11

-----------------------------------------------------------------------------
(* PCF dictionaries *)

Dict == UNION {[D -> [of: Seq(Nat), nuls: Nat]] : D \in SUBSET Key}

LEMMA EmptyDict == <<>> \in Dict /\ DOMAIN <<>> = {}
<1>1. PICK empty : empty = <<>>
  OBVIOUS
<1>2. empty \in Seq(Nat) /\ Len(empty) = 0
  BY <1>1, EmptySeq
<1>3. DOMAIN empty = {} /\ empty = [i \in {} |-> empty[i]]
  <2>1. DOMAIN empty = 1..0 /\ empty \in [1..0 -> Nat]
    BY <1>2, LenProperties
  <2> QED
    BY <2>1
<1>4. empty \in [{} -> [of: Seq(Nat), nuls: Nat]]
  BY <1>3
<1>5. empty \in Dict
  BY <1>4 DEF Dict
<1> QED
  BY <1>1, <1>3, <1>5

LEMMA DictTypes ==
    ASSUME NEW dict \in Dict
    PROVE  /\ IsDict(dict)
           /\ \A k \in Key : \A v \in [of: Seq(Nat), nuls: Nat] : Put(dict, k, v) \in Dict
<1>1. PICK V : V = [of: Seq(Nat), nuls: Nat]
  OBVIOUS
<1>2. PICK D \in SUBSET Key : dict \in [D -> V]
  BY <1>1 DEF Dict
<1>3. IsDict(dict)
  BY <1>1, <1>2 DEF IsDict
<1>4. ASSUME NEW k \in Key, NEW v \in V
      PROVE  Put(dict, k, v) \in Dict
  <2>1. Put(dict, k, v) \in [D \cup {k} -> V]
    BY <1>2 DEF Put
  <2>2. D \cup {k} \in SUBSET Key
    OBVIOUS
  <2> QED
    BY <1>1, <2>1, <2>2 DEF Dict
<1> QED
  BY <1>1, <1>3, <1>4

LEMMA SaysNone == \A items : Says(<<>>, items, 0)
<1> SUFFICES ASSUME NEW items PROVE Says(<<>>, items, 0)
  OBVIOUS
<1>1. {i \in 1..0 : items[i].kind # "group"} = {}
  OBVIOUS
<1> QED
  BY <1>1, EmptyDict DEF Says

\* The next value goes under its key, the ones before it stay under theirs.
LEMMA SaysMore ==
    ASSUME NEW items, NEW n \in Nat, NEW dict, Says(dict, items, n), NEW v, NEW k,
           k = items[n + 1].key, items[n + 1].kind # "group",
           v.of = AsRead(items[n + 1]), items[n + 1].kind = "string" => v.nuls = 0
    PROVE  Says(Put(dict, k, v), items, n + 1)
<1> DEFINE plain == {i \in 1..n : items[i].kind # "group"}
           more == {i \in 1..n + 1 : items[i].kind # "group"}
           last(S, i) == \A j \in S : items[j].key = items[i].key => j <= i
           said(d, i) == /\ d[items[i].key].of = AsRead(items[i])
                         /\ items[i].kind = "string" => d[items[i].key].nuls = 0
<1>1. PICK put : put = Put(dict, k, v)
  OBVIOUS
<1>2. more = plain \cup {n + 1} /\ n + 1 \notin plain
  OBVIOUS
<1>3. /\ DOMAIN dict = {items[i].key : i \in plain}
      /\ \A i \in plain : last(plain, i) => said(dict, i)
  BY DEF Says
<1>4. /\ DOMAIN put = DOMAIN dict \cup {k} /\ put[k] = v
      /\ \A j \in DOMAIN dict : j # k => put[j] = dict[j]
  BY <1>1 DEF Put
<1>5. DOMAIN put = {items[i].key : i \in more}
  <2> HIDE DEF plain, more
  <2> QED
    BY <1>2, <1>3, <1>4
<1>6. ASSUME NEW i \in more, last(more, i)
      PROVE  said(put, i)
  <2>1. CASE i = n + 1
    BY <1>4, <2>1
  <2>2. CASE i \in plain
    <3>1. i < n + 1
      BY <2>2
    <3>2. items[i].key # k
      <4> SUFFICES ASSUME items[i].key = k PROVE FALSE
        OBVIOUS
      <4>1. n + 1 <= i
        BY <1>2, <1>6
      <4> QED
        BY <2>2, <3>1, <4>1
    <3>3. last(plain, i)
      BY <1>2, <1>6
    <3>4. said(dict, i)
      BY <1>3, <2>2, <3>3
    <3>5. items[i].key \in DOMAIN dict
      BY <1>3, <2>2
    <3>6. put[items[i].key] = dict[items[i].key]
      BY <1>4, <3>2, <3>5
    <3> QED
      BY <3>4, <3>6
  <2> QED
    BY <1>2, <2>1, <2>2
<1>7. Says(put, items, n + 1)
  BY <1>5, <1>6 DEF Says
<1> QED
  BY <1>1, <1>7

\* A group goes elsewhere.
LEMMA SaysAsBefore ==
    ASSUME NEW items, NEW n \in Nat, NEW dict, Says(dict, items, n), items[n + 1].kind = "group"
    PROVE  Says(dict, items, n + 1)
<1>1. {i \in 1..n + 1 : items[i].kind # "group"} = {i \in 1..n : items[i].kind # "group"}
  OBVIOUS
<1> QED
  BY <1>1 DEF Says

\* How many of the first n items are groups under this key.
GroupsIn(items, k, n) == Cardinality({i \in 1..n : items[i].kind = "group" /\ items[i].key = k})

LEMMA GroupsCount ==
    ASSUME NEW items, NEW k, NEW n \in Nat
    PROVE  /\ GroupsIn(items, k, n) \in Nat
           /\ GroupsIn(items, k, 0) = 0
           /\ items[n + 1].kind = "group" /\ items[n + 1].key = k =>
                 GroupsIn(items, k, n + 1) = GroupsIn(items, k, n) + 1
           /\ ~(items[n + 1].kind = "group" /\ items[n + 1].key = k) =>
                 GroupsIn(items, k, n + 1) = GroupsIn(items, k, n)
<1> DEFINE here(i) == items[i].kind = "group" /\ items[i].key = k
           S(m) == {i \in 1..m : here(i)}
<1>1. \A m \in Nat : IsFiniteSet(S(m))
  <2> SUFFICES ASSUME NEW m \in Nat PROVE IsFiniteSet(S(m))
    OBVIOUS
  <2>1. IsFiniteSet(1..m)
    BY FS_Interval
  <2> QED
    BY <2>1, FS_Subset
<1>2. Cardinality(S(n)) \in Nat
  BY <1>1, FS_CardinalityType
<1>3. S(0) = {}
  OBVIOUS
<1>4. Cardinality(S(0)) = 0
  BY <1>3, FS_EmptySet
<1>5. here(n + 1) => S(n + 1) = S(n) \cup {n + 1} /\ n + 1 \notin S(n)
  OBVIOUS
<1>6. here(n + 1) => Cardinality(S(n + 1)) = Cardinality(S(n)) + 1
  BY <1>1, <1>5, FS_AddElement
<1>7. ~here(n + 1) => S(n + 1) = S(n)
  OBVIOUS
<1> QED
  BY <1>2, <1>4, <1>6, <1>7 DEF GroupsIn

\* A group among the first n has its number among the groups of its key, which no later one has.
LEMMA GroupsNumbered ==
    ASSUME NEW items, NEW n \in Nat, NEW i \in 1..n, items[i].kind = "group"
    PROVE  /\ GroupsIn(items, items[i].key, i) \in Nat
           /\ 1 <= GroupsIn(items, items[i].key, i)
           /\ GroupsIn(items, items[i].key, i) <= GroupsIn(items, items[i].key, n)
<1> DEFINE k == items[i].key
           here(j) == items[j].kind = "group" /\ items[j].key = k
           S(m) == {j \in 1..m : here(j)}
<1>1. \A m \in Nat : IsFiniteSet(S(m))
  <2> SUFFICES ASSUME NEW m \in Nat PROVE IsFiniteSet(S(m))
    OBVIOUS
  <2>1. IsFiniteSet(1..m)
    BY FS_Interval
  <2> QED
    BY <2>1, FS_Subset
<1>2. i \in S(i) /\ S(i) \subseteq S(n) /\ i \in Nat
  OBVIOUS
<1>3. Cardinality(S(i)) \in Nat /\ Cardinality(S(i)) <= Cardinality(S(n))
  BY <1>1, <1>2, FS_Subset, FS_CardinalityType
<1>4. Cardinality(S(i)) # 0
  BY <1>1, <1>2, FS_EmptySet
<1> QED
  BY <1>3, <1>4 DEF GroupsIn

-----------------------------------------------------------------------------
(* Reading a PCF message *)

Reader == [index: Nat, cursor: Nat, group: GroupKey \cup {None}, groupCount: Nat,
           res: Dict, groups: [GroupKey -> Seq(Dict)]]

AfterGroup(r, s) ==
    [index |-> r.index + s.len - 1, cursor |-> r.cursor + s.struc, group |-> s.param,
     groupCount |-> s.len, res |-> r.res,
     groups |-> [r.groups EXCEPT ![s.param] = Append(@, <<>>)]]

AfterPlain(r, s) ==
    LET group == IF r.groupCount = 0 THEN None ELSE r.group
        put(dict) == Put(dict, s.param, ReadValue(s))
    IN [index |-> r.index - 1, cursor |-> r.cursor + s.struc, group |-> group,
        groupCount |-> IF group = None THEN r.groupCount ELSE r.groupCount - 1,
        res |-> IF group = None THEN put(r.res) ELSE r.res,
        groups |-> IF group = None THEN r.groups
                   ELSE [r.groups EXCEPT ![group][Len(r.groups[group])] = put(@)]]

LEMMA AfterGroupTypes ==
    ASSUME NEW r \in Reader, NEW s \in Struct, s.type = "group", r.index > 0
    PROVE  /\ AfterGroup(r, s) \in Reader
           /\ \A k \in GroupKey : r.groups[k] \in Seq(Dict) /\ Len(r.groups[k]) \in Nat
           /\ \A k \in GroupKey : k # s.param => AfterGroup(r, s).groups[k] = r.groups[k]
           /\ Len(AfterGroup(r, s).groups[s.param]) = Len(r.groups[s.param]) + 1
           /\ AfterGroup(r, s).groups[s.param][Len(r.groups[s.param]) + 1] = <<>>
           /\ \A i \in 1..Len(r.groups[s.param]) :
                 AfterGroup(r, s).groups[s.param][i] = r.groups[s.param][i]
<1>1. PICK D, empty : D = Dict /\ empty = <<>>
  OBVIOUS
<1>2. empty \in D
  BY <1>1, EmptyDict
<1>3. PICK g : g = r.groups
  OBVIOUS
<1>4. g \in [GroupKey -> Seq(D)]
  BY <1>1, <1>3 DEF Reader
<1>5. PICK k : k = s.param
  OBVIOUS
<1>6. k \in GroupKey /\ s.len \in Nat /\ s.struc \in Nat
  BY <1>5, StructTypes
<1>7. PICK a : a = Append(g[k], empty)
  OBVIOUS
<1>8. /\ a \in Seq(D) /\ Len(a) = Len(g[k]) + 1 /\ a[Len(g[k]) + 1] = empty /\ Len(g[k]) \in Nat
      /\ \A i \in 1..Len(g[k]) : a[i] = g[k][i]
  <2>1. g[k] \in Seq(D)
    BY <1>4, <1>6
  <2> QED
    BY <1>2, <1>7, <2>1, AppendProperties, LenProperties
<1>9. PICK g2 : g2 = [g EXCEPT ![k] = a]
  OBVIOUS
<1>10. g2 \in [GroupKey -> Seq(D)] /\ g2[k] = a /\ \A j \in GroupKey : j # k => g2[j] = g[j]
  BY <1>4, <1>6, <1>8, <1>9
<1>11. PICK r2 : r2 = AfterGroup(r, s)
  OBVIOUS
<1>12. r2 = [index |-> r.index + s.len - 1, cursor |-> r.cursor + s.struc, group |-> s.param,
             groupCount |-> s.len, res |-> r.res, groups |-> g2]
  <2>1. g2 = [r.groups EXCEPT ![s.param] = Append(@, <<>>)]
    BY <1>1, <1>3, <1>4, <1>5, <1>6, <1>7, <1>9
  <2> QED
    BY <1>11, <2>1 DEF AfterGroup
<1>13. r.index + s.len - 1 \in Nat /\ r.cursor + s.struc \in Nat /\ r.res \in D
  BY <1>1, <1>6 DEF Reader
<1>14. r2 \in Reader
  BY <1>1, <1>5, <1>6, <1>10, <1>12, <1>13 DEF Reader
<1>15. r2.groups = g2
  BY <1>12
<1>16. \A j \in GroupKey : g[j] \in Seq(D) /\ Len(g[j]) \in Nat
  BY <1>4, LenProperties
<1> QED
  BY <1>1, <1>3, <1>5, <1>8, <1>10, <1>11, <1>14, <1>15, <1>16

LEMMA AfterPlainTypes ==
    ASSUME NEW r \in Reader, NEW s \in Struct, s.type # "group", r.index > 0
    PROVE  /\ AfterPlain(r, s) \in Reader
           /\ r.groupCount # 0 /\ r.group \in GroupKey =>
                 LET k == r.group
                     n == Len(r.groups[k])
                     put == AfterPlain(r, s).groups
                 IN /\ \A j \in GroupKey : Len(put[j]) = Len(r.groups[j])
                    /\ \A j \in GroupKey \ {k} : put[j] = r.groups[j]
                    /\ \A i \in 1..n : put[k][i] = IF i = n THEN Put(r.groups[k][n], s.param, ReadValue(s))
                                                   ELSE r.groups[k][i]
<1>1. PICK D, v : D = Dict /\ v = ReadValue(s)
  OBVIOUS
<1>2. PICK key : key = s.param
  OBVIOUS
<1>3. /\ key \in Key /\ s.struc \in Nat
      /\ \A d \in D : Put(d, key, v) \in D
  BY <1>1, <1>2, StructTypes, DictTypes
<1>4. /\ r.groups \in [GroupKey -> Seq(D)] /\ r.res \in D /\ r.index \in Nat /\ r.cursor \in Nat
      /\ r.groupCount \in Nat /\ r.group \in GroupKey \cup {None}
  BY <1>1 DEF Reader
<1>5. r.index - 1 \in Nat /\ r.cursor + s.struc \in Nat
  BY <1>3, <1>4
<1>6. PICK r2 : r2 = AfterPlain(r, s)
  OBVIOUS
<1>7. CASE r.groupCount = 0 \/ r.group = None
  <2>1. r2 = [index |-> r.index - 1, cursor |-> r.cursor + s.struc, group |-> None,
              groupCount |-> r.groupCount, res |-> Put(r.res, key, v), groups |-> r.groups]
    BY <1>1, <1>2, <1>6, <1>7 DEF AfterPlain
  <2>2. r2 \in Reader
    BY <1>1, <1>3, <1>4, <1>5, <2>1 DEF Reader
  <2> QED
    BY <1>6, <1>7, <2>2, PcfAssumption
<1>8. CASE r.groupCount # 0 /\ r.group # None
  <2>1. PICK k, g : k = r.group /\ g = r.groups
    OBVIOUS
  <2>2. k \in GroupKey /\ g \in [GroupKey -> Seq(D)] /\ g[k] \in Seq(D) /\ k # None
    BY <1>4, <1>8, <2>1
  <2>3. PICK n \in Nat : n = Len(g[k])
    BY <2>2, LenProperties
  <2>4. PICK new : new = [g[k] EXCEPT ![n] = Put(@, key, v)]
    OBVIOUS
  <2>5. new \in Seq(D) /\ Len(new) = n /\ \A i \in 1..n : new[i] = IF i = n THEN Put(g[k][n], key, v) ELSE g[k][i]
    <3>1. g[k] \in [1..n -> D]
      BY <2>2, <2>3, LenProperties
    <3>2. new \in [1..n -> D] /\ \A i \in 1..n : new[i] = IF i = n THEN Put(g[k][n], key, v) ELSE g[k][i]
      BY <1>3, <2>4, <3>1
    <3> QED
      BY <3>2, IsSeq
  <2>6. PICK g2 : g2 = [g EXCEPT ![k] = new]
    OBVIOUS
  <2>7. g2 \in [GroupKey -> Seq(D)] /\ g2[k] = new /\ \A j \in GroupKey \ {k} : g2[j] = g[j]
    BY <2>2, <2>5, <2>6
  <2>8. g2 = [g EXCEPT ![k][n] = Put(@, key, v)]
    BY <2>2, <2>4, <2>6
  <2>9. r2 = [index |-> r.index - 1, cursor |-> r.cursor + s.struc, group |-> k,
              groupCount |-> r.groupCount - 1, res |-> r.res, groups |-> g2]
    BY <1>1, <1>2, <1>6, <1>8, <2>1, <2>3, <2>8 DEF AfterPlain
  <2>10. r.groupCount - 1 \in Nat
    BY <1>4, <1>8
  <2>11. r2 \in Reader
    BY <1>1, <1>4, <1>5, <2>2, <2>7, <2>9, <2>10 DEF Reader
  <2>12. r2.groups = g2
    BY <2>9
  <2>13. \A j \in GroupKey : Len(g2[j]) = Len(g[j])
    BY <2>3, <2>5, <2>7
  <2> QED
    BY <1>1, <1>2, <1>6, <2>1, <2>3, <2>5, <2>7, <2>11, <2>12, <2>13
<1> QED
  BY <1>7, <1>8

After(r, s) == IF s.type = "group" THEN AfterGroup(r, s) ELSE AfterPlain(r, s)

\* p items are read, but for m members of the last of them.
PositionAt(items, N, E, msg, r, p, m) ==
    /\ p \in 0..N /\ m \in Nat
    /\ m > 0 => /\ p > 0 /\ items[p].kind = "group" /\ m <= Len(items[p].members)
                /\ r.group = items[p].key
    /\ r.index = (N - p) + m
    /\ r.cursor = OffsetIn(msg, (E[p] - m) + 1)
    /\ r.groupCount = m

\* The group that item i has become.
GroupRead(items, r, i) == r.groups[items[i].key][GroupsIn(items, items[i].key, i)]

\* What is read so far is in the dictionaries.
HasRead(items, r, p, m) ==
    /\ Says(r.res, items, p)
    /\ \A k \in GroupKey : Len(r.groups[k]) = GroupsIn(items, k, p)
    /\ \A i \in 1..p : items[i].kind = "group" =>
          Says(GroupRead(items, r, i), items[i].members,
               IF i = p THEN Len(items[i].members) - m ELSE Len(items[i].members))

\* A structure at the cursor, and where the cursor goes from there.
LEMMA AtTheCursor ==
    ASSUME NEW msg \in Seq(Struct), NEW q \in 1..Len(msg), NEW r, r.cursor = OffsetIn(msg, q),
           msg[q].struc = msg[q].bytes
    PROVE  /\ q \in DOMAIN msg /\ msg[q] \in Struct
           /\ {i \in DOMAIN msg : OffsetIn(msg, i) = r.cursor} = {q}
           /\ r.cursor + msg[q].struc = OffsetIn(msg, q + 1)
BY OffsetsGrow, LenProperties, ElementOfSeq

\* What reading the next structure does.
Advances(items, N, E, msg, r, p, m) ==
    \E q \in DOMAIN msg, p2 \in Nat, m2 \in Nat :
        /\ {i \in DOMAIN msg : OffsetIn(msg, i) = r.cursor} = {q}
        /\ PositionAt(items, N, E, msg, After(r, msg[q]), p2, m2)
        /\ HasRead(items, r, p, m) => HasRead(items, After(r, msg[q]), p2, m2)

\* Between items, before one that is no group.
LEMMA NextPlain ==
    ASSUME NEW items, NEW N, NEW E, AreItems(items, N, E),
           NEW msg, LaysOut(items, N, E, msg), NEW r \in Reader,
           NEW p, PositionAt(items, N, E, msg, r, p, 0), p < N, items[p + 1].kind # "group"
    PROVE  Advances(items, N, E, msg, r, p, 0)
<1>1. /\ N \in Nat /\ DOMAIN items = 1..N /\ p \in 0..N /\ p + 1 \in 1..N /\ p \in Nat
      /\ r.index = (N - p) + 0 /\ r.groupCount = 0
  BY DEF AreItems, PositionAt
<1>2. PICK it : it = items[p + 1]
  OBVIOUS
<1>3. PICK from \in Nat : from = E[p]
  BY <1>1 DEF AreItems
<1>4. E[p + 1] = from + 1 /\ E[p + 1] <= E[N] /\ E[N] \in Nat
  <2>1. (p + 1) - 1 = p /\ p + 1 \in 0..N /\ N \in 0..N
    BY <1>1
  <2>2. E[p + 1] = from + 1 + Len(items[p + 1].members) /\ Len(items[p + 1].members) = 0
    BY <1>1, <1>3, <2>1 DEF AreItems
  <2>3. E[p + 1] <= E[N] /\ E[N] \in Nat
    BY <2>1 DEF AreItems
  <2> QED
    BY <2>2, <2>3
<1>5. PICK q \in Nat : q = from + 1
  OBVIOUS
<1>6. msg \in Seq(Struct) /\ q \in 1..Len(msg) /\ Carries(msg[q], it)
  <2>1. Len(msg) = E[N] /\ msg \in Seq(Struct)
    BY DEF LaysOut
  <2>2. (p + 1) - 1 = p
    BY <1>1
  <2>3. Carries(msg[E[p] + 1], items[p + 1])
    BY <1>1, <2>2 DEF LaysOut
  <2> QED
    BY <1>2, <1>3, <1>4, <1>5, <2>1, <2>3
<1>7. r.cursor = OffsetIn(msg, q)
  <2>1. (E[p] - 0) + 1 = q
    BY <1>3, <1>5
  <2> QED
    BY <2>1 DEF PositionAt
<1>8. PICK s : s = msg[q]
  OBVIOUS
<1>9. /\ q \in DOMAIN msg /\ s \in Struct
      /\ {i \in DOMAIN msg : OffsetIn(msg, i) = r.cursor} = {q}
      /\ r.cursor + s.struc = OffsetIn(msg, q + 1)
  BY <1>6, <1>7, <1>8, AtTheCursor DEF Carries
<1>10. /\ s.type # "group" /\ s.param = it.key
       /\ ReadValue(s).of = AsRead(it)
       /\ it.kind = "string" => ReadValue(s).nuls = 0
  BY <1>2, <1>6, <1>8, <1>9, StructTypes DEF Carries
<1>11. PICK r2 : r2 = After(r, msg[q])
  OBVIOUS
<1>12. r2 = [index |-> r.index - 1, cursor |-> r.cursor + s.struc, group |-> None,
             groupCount |-> 0, res |-> Put(r.res, s.param, ReadValue(s)), groups |-> r.groups]
  BY <1>1, <1>8, <1>10, <1>11 DEF After, AfterPlain
<1>13. PositionAt(items, N, E, msg, r2, p + 1, 0)
  <2>1. r.index - 1 = (N - (p + 1)) + 0
    BY <1>1
  <2>2. (E[p + 1] - 0) + 1 = q + 1
    BY <1>4, <1>5
  <2>3. p + 1 \in 0..N /\ 0 \in Nat /\ ~(0 > 0)
    BY <1>1
  <2>4. r2.index = r.index - 1 /\ r2.cursor = r.cursor + s.struc /\ r2.groupCount = 0
    BY <1>12
  <2> QED
    BY <1>9, <2>1, <2>2, <2>3, <2>4 DEF PositionAt
<1>14. ASSUME HasRead(items, r, p, 0)
       PROVE  HasRead(items, r2, p + 1, 0)
  <2>1. r2.res = Put(r.res, s.param, ReadValue(s)) /\ r2.groups = r.groups
    BY <1>12
  <2>2. Says(r2.res, items, p + 1)
    <3>1. ReadValue(s).of = AsRead(it)
      BY <1>10
    <3>2. Says(r.res, items, p)
      BY <1>14 DEF HasRead
    <3> QED
      BY <1>1, <1>2, <1>10, <2>1, <3>1, <3>2, SaysMore
  <2>3. \A k \in GroupKey : Len(r2.groups[k]) = GroupsIn(items, k, p + 1)
    BY <1>1, <1>14, <2>1, GroupsCount DEF HasRead
  <2>4. ASSUME NEW i \in 1..p + 1, items[i].kind = "group"
        PROVE  Says(GroupRead(items, r2, i), items[i].members,
                    IF i = p + 1 THEN Len(items[i].members) - 0 ELSE Len(items[i].members))
    <3>1. i \in 1..p /\ i # p + 1
      BY <1>1, <2>4
    <3>2. PICK L \in Nat : L = Len(items[i].members)
      BY <1>1, <3>1 DEF AreItems
    <3>3. L - 0 = L
      OBVIOUS
    <3>4. Says(GroupRead(items, r, i), items[i].members, L)
      BY <1>14, <2>4, <3>1, <3>2, <3>3 DEF HasRead
    <3>5. GroupRead(items, r2, i) = GroupRead(items, r, i)
      BY <2>1 DEF GroupRead
    <3> QED
      BY <3>1, <3>2, <3>4, <3>5
  <2> QED
    BY <2>2, <2>3, <2>4 DEF HasRead
<1>15. p + 1 \in Nat /\ 0 \in Nat
  BY <1>1
<1> QED
  BY <1>9, <1>11, <1>13, <1>14, <1>15 DEF Advances

\* Between items, before a group.
LEMMA NextGroup ==
    ASSUME NEW items, NEW N, NEW E, AreItems(items, N, E),
           NEW msg, LaysOut(items, N, E, msg), NEW r \in Reader,
           NEW p, PositionAt(items, N, E, msg, r, p, 0), p < N, items[p + 1].kind = "group"
    PROVE  Advances(items, N, E, msg, r, p, 0)
<1>1. /\ N \in Nat /\ DOMAIN items = 1..N /\ p \in 0..N /\ p + 1 \in 1..N /\ p \in Nat
      /\ r.index = (N - p) + 0 /\ r.groupCount = 0
  BY DEF AreItems, PositionAt
<1>2. PICK it, key : it = items[p + 1] /\ key = items[p + 1].key
  OBVIOUS
<1>2a. it \in Plain \cup Group /\ it.kind = "group" /\ it.key = key /\ key \in GroupKey
  BY <1>1, <1>2, ItemTypes DEF AreItems
<1>3. PICK from \in Nat : from = E[p]
  BY <1>1 DEF AreItems
<1>3a. PICK L \in Nat : L = Len(items[p + 1].members)
  BY <1>1 DEF AreItems
<1>4. E[p + 1] = from + 1 + L /\ E[p + 1] <= E[N] /\ E[N] \in Nat
  <2>1. (p + 1) - 1 = p /\ p + 1 \in 0..N /\ N \in 0..N
    BY <1>1
  <2>2. E[p + 1] = from + 1 + L
    BY <1>1, <1>3, <1>3a, <2>1 DEF AreItems
  <2>3. E[p + 1] <= E[N] /\ E[N] \in Nat
    BY <2>1 DEF AreItems
  <2> QED
    BY <2>2, <2>3
<1>5. PICK q \in Nat : q = from + 1
  OBVIOUS
<1>6. msg \in Seq(Struct) /\ q \in 1..Len(msg) /\ Carries(msg[q], it)
  <2>1. Len(msg) = E[N] /\ msg \in Seq(Struct)
    BY DEF LaysOut
  <2>2. (p + 1) - 1 = p
    BY <1>1
  <2>3. Carries(msg[E[p] + 1], items[p + 1])
    BY <1>1, <2>2 DEF LaysOut
  <2> QED
    BY <1>2, <1>3, <1>4, <1>5, <2>1, <2>3
<1>7. r.cursor = OffsetIn(msg, q)
  <2>1. (E[p] - 0) + 1 = q
    BY <1>3, <1>5
  <2> QED
    BY <2>1 DEF PositionAt
<1>8. PICK s : s = msg[q]
  OBVIOUS
<1>9. /\ q \in DOMAIN msg /\ s \in Struct
      /\ {i \in DOMAIN msg : OffsetIn(msg, i) = r.cursor} = {q}
      /\ r.cursor + s.struc = OffsetIn(msg, q + 1)
  BY <1>6, <1>7, <1>8, AtTheCursor DEF Carries
<1>10. s.type = "group" /\ s.param = key /\ s.len = L
  BY <1>2, <1>2a, <1>3a, <1>6, <1>8 DEF Carries
<1>11. PICK r2 : r2 = After(r, msg[q])
  OBVIOUS
<1>12. r2 = AfterGroup(r, s)
  BY <1>8, <1>10, <1>11 DEF After
<1>13. PositionAt(items, N, E, msg, r2, p + 1, L)
  <2>1. r2.index = r.index + s.len - 1 /\ r2.cursor = r.cursor + s.struc
        /\ r2.groupCount = L /\ r2.group = key
    BY <1>10, <1>12 DEF AfterGroup
  <2>2. r.index + L - 1 = (N - (p + 1)) + L
    BY <1>1
  <2>3. (E[p + 1] - L) + 1 = q + 1
    BY <1>4, <1>5
  <2>4. p + 1 \in 0..N /\ p + 1 > 0 /\ L <= L
    BY <1>1
  <2> QED
    BY <1>2, <1>2a, <1>3a, <1>9, <1>10, <2>1, <2>2, <2>3, <2>4 DEF PositionAt
<1>14. ASSUME HasRead(items, r, p, 0)
       PROVE  HasRead(items, r2, p + 1, L)
  <2>1. PICK before : before = r.groups
    OBVIOUS
  <2>2. PICK after : after = r2.groups
    OBVIOUS
  <2>3. /\ \A k \in GroupKey \ {key} : after[k] = before[k]
        /\ Len(after[key]) = Len(before[key]) + 1 /\ Len(before[key]) \in Nat
        /\ after[key][Len(before[key]) + 1] = <<>>
        /\ \A i \in 1..Len(before[key]) : after[key][i] = before[key][i]
    <3>1. r.index > 0
      BY <1>1
    <3>2. PICK k, a : k = s.param /\ a = AfterGroup(r, s).groups
      OBVIOUS
    <3>3. /\ \A x \in GroupKey : r.groups[x] \in Seq(Dict) /\ Len(r.groups[x]) \in Nat
          /\ \A x \in GroupKey : x # k => a[x] = r.groups[x]
          /\ Len(a[k]) = Len(r.groups[k]) + 1
          /\ a[k][Len(r.groups[k]) + 1] = <<>>
          /\ \A i \in 1..Len(r.groups[k]) : a[k][i] = r.groups[k][i]
      BY <1>9, <1>10, <3>1, <3>2, AfterGroupTypes
    <3>4. k = key /\ a = after
      BY <1>10, <1>12, <2>2, <3>2
    <3> QED
      BY <1>2a, <2>1, <3>3, <3>4
  <2>4. \A k \in GroupKey : Len(before[k]) = GroupsIn(items, k, p)
    BY <1>14, <2>1 DEF HasRead
  <2>5. Says(r2.res, items, p + 1)
    <3>1. r2.res = r.res
      BY <1>12 DEF AfterGroup
    <3> QED
      BY <1>1, <1>14, <3>1, SaysAsBefore DEF HasRead
  <2>6. /\ GroupsIn(items, key, p + 1) = GroupsIn(items, key, p) + 1
        /\ \A k \in GroupKey \ {key} : GroupsIn(items, k, p + 1) = GroupsIn(items, k, p)
    BY <1>1, <1>2, <1>2a, GroupsCount
  <2>7. \A k \in GroupKey : Len(after[k]) = GroupsIn(items, k, p + 1)
    BY <1>2a, <2>3, <2>4, <2>6
  <2>8. ASSUME NEW i \in 1..p + 1, items[i].kind = "group"
        PROVE  Says(GroupRead(items, r2, i), items[i].members,
                    IF i = p + 1 THEN Len(items[i].members) - L ELSE Len(items[i].members))
    <3>1. CASE i = p + 1
      <4>1. GroupRead(items, r2, i) = <<>>
        BY <1>2, <1>2a, <2>2, <2>3, <2>4, <2>6, <3>1 DEF GroupRead
      <4>2. Len(items[i].members) - L = 0
        BY <1>3a, <3>1
      <4> QED
        BY <3>1, <4>1, <4>2, SaysNone
    <3>2. CASE i \in 1..p
      <4>1. PICK k : k = items[i].key
        OBVIOUS
      <4>1a. PICK M \in Nat : M = Len(items[i].members)
        BY <1>1, <3>2 DEF AreItems
      <4>2. k \in GroupKey
        <5>1. PICK x : x = items[i]
          OBVIOUS
        <5>2. x \in Plain \cup Group
          BY <1>1, <3>2, <5>1 DEF AreItems
        <5> QED
          BY <2>8, <4>1, <5>1, <5>2, ItemTypes
      <4>3. M - 0 = M /\ i # p + 1
        BY <1>1, <3>2
      <4>4. Says(GroupRead(items, r, i), items[i].members, M)
        BY <1>14, <2>8, <3>2, <4>1a, <4>3 DEF HasRead
      <4>5. PICK n \in Nat : n = GroupsIn(items, k, i) /\ 1 <= n /\ n <= GroupsIn(items, k, p)
        BY <1>1, <2>8, <3>2, <4>1, GroupsNumbered
      <4>6. n \in 1..Len(before[k])
        <5>1. GroupsIn(items, k, p) \in Nat
          BY <1>1, GroupsCount
        <5> QED
          BY <2>4, <4>2, <4>5, <5>1
      <4>7. after[k][n] = before[k][n]
        BY <2>3, <4>2, <4>6
      <4>8. GroupRead(items, r2, i) = GroupRead(items, r, i)
        BY <2>1, <2>2, <4>1, <4>5, <4>7 DEF GroupRead
      <4> QED
        BY <4>1a, <4>3, <4>4, <4>8
    <3> QED
      BY <1>1, <3>1, <3>2
  <2> QED
    BY <2>2, <2>5, <2>7, <2>8 DEF HasRead
<1>15. p + 1 \in Nat
  BY <1>1
<1> QED
  BY <1>9, <1>11, <1>13, <1>14, <1>15 DEF Advances

\* In a group.
LEMMA NextMember ==
    ASSUME NEW items, NEW N, NEW E, AreItems(items, N, E),
           NEW msg, LaysOut(items, N, E, msg), NEW r \in Reader,
           NEW p, NEW m, PositionAt(items, N, E, msg, r, p, m), m > 0
    PROVE  Advances(items, N, E, msg, r, p, m)
<1>1. /\ N \in Nat /\ DOMAIN items = 1..N /\ p \in 1..N /\ p \in Nat /\ m \in Nat /\ m # 0
      /\ items[p].kind = "group" /\ m <= Len(items[p].members)
      /\ r.index = (N - p) + m /\ r.groupCount = m /\ r.group = items[p].key
      /\ r.cursor = OffsetIn(msg, (E[p] - m) + 1)
  BY DEF AreItems, PositionAt
<1>2. PICK it, key, members : it = items[p] /\ key = items[p].key /\ members = items[p].members
  OBVIOUS
<1>2a. /\ it \in Plain \cup Group /\ it.kind = "group" /\ it.key = key /\ key \in GroupKey
       /\ members \in Seq(Plain)
  BY <1>1, <1>2, ItemTypes DEF AreItems
<1>3. PICK from \in Nat : from = E[p - 1]
  <2>1. p - 1 \in 0..N
    BY <1>1
  <2> QED
    BY <2>1 DEF AreItems
<1>3a. PICK L \in Nat : L = Len(members)
  BY <1>2a, LenProperties
<1>4. E[p] = from + 1 + L /\ E[p] <= E[N] /\ E[N] \in Nat
  <2>1. p \in 0..N /\ N \in 0..N
    BY <1>1
  <2>2. E[p] = from + 1 + L
    BY <1>1, <1>2, <1>3, <1>3a DEF AreItems
  <2>3. E[p] <= E[N] /\ E[N] \in Nat
    BY <2>1 DEF AreItems
  <2> QED
    BY <2>2, <2>3
<1>5. PICK j \in Nat : j = (L - m) + 1 /\ j \in 1..L
  <2>1. m <= L
    BY <1>1, <1>2, <1>3a
  <2>2. (L - m) + 1 \in 1..L
    BY <1>1, <2>1
  <2> QED
    BY <2>2
<1>5a. PICK q \in Nat : q = from + 1 + j
  OBVIOUS
<1>5b. (E[p] - m) + 1 = q /\ j - 1 = L - m /\ j - 1 \in Nat
  BY <1>1, <1>4, <1>5, <1>5a
<1>6. msg \in Seq(Struct) /\ q \in 1..Len(msg) /\ Carries(msg[q], members[j])
  <2>1. Len(msg) = E[N] /\ msg \in Seq(Struct)
    BY DEF LaysOut
  <2>2. Carries(msg[E[p - 1] + 1 + j], items[p].members[j])
    BY <1>1, <1>2, <1>3a, <1>5 DEF LaysOut
  <2>3. q <= E[p] /\ 1 <= q
    BY <1>4, <1>5, <1>5a
  <2> QED
    BY <1>2, <1>3, <1>4, <1>5a, <2>1, <2>2, <2>3
<1>7. r.cursor = OffsetIn(msg, q)
  BY <1>1, <1>5b
<1>8. PICK s : s = msg[q]
  OBVIOUS
<1>9. /\ q \in DOMAIN msg /\ s \in Struct
      /\ {i \in DOMAIN msg : OffsetIn(msg, i) = r.cursor} = {q}
      /\ r.cursor + s.struc = OffsetIn(msg, q + 1)
  BY <1>6, <1>7, <1>8, AtTheCursor DEF Carries
<1>9a. members[j] \in Plain /\ members[j] \in Plain \cup Group
  BY <1>2a, <1>3a, <1>5, ElementOfSeq
<1>10. /\ s.type # "group" /\ s.param = members[j].key /\ members[j].kind # "group"
       /\ ReadValue(s).of = AsRead(members[j])
       /\ members[j].kind = "string" => ReadValue(s).nuls = 0
  <2>1. PICK x : x = members[j]
    OBVIOUS
  <2>2. x \in Plain
    BY <1>9a, <2>1
  <2>3. x.kind # "group"
    BY <2>2 DEF Plain
  <2> QED
    BY <1>6, <1>8, <1>9, <2>1, <2>3, StructTypes DEF Carries
<1>11. PICK r2 : r2 = After(r, msg[q])
  OBVIOUS
<1>12. r2 = AfterPlain(r, s)
  BY <1>8, <1>10, <1>11 DEF After
<1>12a. r.groupCount # 0 /\ r.group = key /\ key # None
  BY <1>1, <1>2, <1>2a, PcfAssumption
<1>12b. /\ r2.index = r.index - 1 /\ r2.cursor = r.cursor + s.struc /\ r2.group = key
        /\ r2.groupCount = r.groupCount - 1 /\ r2.res = r.res
  BY <1>12, <1>12a DEF AfterPlain
<1>13. PositionAt(items, N, E, msg, r2, p, m - 1)
  <2>1. r.index - 1 = (N - p) + (m - 1)
    BY <1>1
  <2>2. (E[p] - (m - 1)) + 1 = q + 1
    BY <1>1, <1>4, <1>5b
  <2>3. p \in 0..N /\ m - 1 \in Nat /\ p > 0 /\ m - 1 <= Len(items[p].members)
    BY <1>1, <1>2, <1>3a
  <2> QED
    BY <1>1, <1>2, <1>9, <1>12b, <2>1, <2>2, <2>3 DEF PositionAt
<1>14. ASSUME HasRead(items, r, p, m)
       PROVE  HasRead(items, r2, p, m - 1)
  <2>1. PICK before : before = r.groups
    OBVIOUS
  <2>2. PICK after : after = r2.groups
    OBVIOUS
  <2>3. PICK n \in Nat : n = Len(before[key]) /\ n = GroupsIn(items, key, p) /\ 1 <= n
    <3>1. Len(before[key]) = GroupsIn(items, key, p)
      BY <1>2a, <1>14, <2>1 DEF HasRead
    <3>2. p \in 1..p
      BY <1>1
    <3>3. GroupsIn(items, key, p) \in Nat /\ 1 <= GroupsIn(items, key, p)
      BY <1>1, <1>2, <3>2, GroupsNumbered
    <3> QED
      BY <3>1, <3>3
  <2>4. /\ \A k \in GroupKey : Len(after[k]) = Len(before[k])
        /\ \A k \in GroupKey \ {key} : after[k] = before[k]
        /\ \A i \in 1..n : after[key][i] = IF i = n THEN Put(before[key][n], s.param, ReadValue(s))
                                           ELSE before[key][i]
    <3>1. r.index > 0
      BY <1>1
    <3>2. PICK k, a : k = r.group /\ a = AfterPlain(r, s).groups
      OBVIOUS
    <3>3. r.groupCount # 0 /\ r.group \in GroupKey
      BY <1>2a, <1>12a
    <3>4. /\ \A x \in GroupKey : Len(a[x]) = Len(r.groups[x])
          /\ \A x \in GroupKey \ {k} : a[x] = r.groups[x]
          /\ \A i \in 1..Len(r.groups[k]) :
                a[k][i] = IF i = Len(r.groups[k]) THEN Put(r.groups[k][Len(r.groups[k])], s.param, ReadValue(s))
                          ELSE r.groups[k][i]
      BY <1>9, <1>10, <3>1, <3>2, <3>3, AfterPlainTypes
    <3>5. k = key /\ a = after
      BY <1>12, <1>12a, <2>2, <3>2
    <3> QED
      BY <2>1, <2>3, <3>4, <3>5
  <2>5. \A k \in GroupKey : Len(after[k]) = GroupsIn(items, k, p)
    BY <1>14, <2>1, <2>4 DEF HasRead
  <2>6. Says(r2.res, items, p)
    BY <1>12b, <1>14 DEF HasRead
  <2>7. Says(GroupRead(items, r2, p), members, L - (m - 1))
    <3>1. PICK d : d = before[key][n]
      OBVIOUS
    <3>2. Says(d, members, j - 1)
      <4>1. GroupRead(items, r, p) = d
        BY <1>2, <2>1, <2>3, <3>1 DEF GroupRead
      <4>2. Says(GroupRead(items, r, p), members, L - m)
        BY <1>1, <1>2, <1>3a, <1>14 DEF HasRead
      <4> QED
        BY <1>5b, <4>1, <4>2
    <3>3. PICK i \in Nat : i = j - 1
      BY <1>5b
    <3>4. i + 1 = j /\ L - (m - 1) = i + 1
      BY <1>1, <1>5, <3>3
    <3>5. ReadValue(s).of = AsRead(members[j])
      BY <1>10
    <3>6. Says(Put(d, s.param, ReadValue(s)), members, i + 1)
      BY <1>10, <3>2, <3>3, <3>4, <3>5, SaysMore
    <3>7. GroupRead(items, r2, p) = Put(d, s.param, ReadValue(s))
      <4>1. n \in 1..n
        BY <2>3
      <4> QED
        BY <1>2, <2>2, <2>3, <2>4, <3>1, <4>1 DEF GroupRead
    <3> QED
      BY <3>4, <3>6, <3>7
  <2>8. ASSUME NEW i \in 1..p, items[i].kind = "group"
        PROVE  Says(GroupRead(items, r2, i), items[i].members,
                    IF i = p THEN Len(items[i].members) - (m - 1) ELSE Len(items[i].members))
    <3>1. CASE i = p
      BY <1>2, <1>3a, <2>7, <3>1
    <3>2. CASE i # p
      <4>1. PICK k : k = items[i].key
        OBVIOUS
      <4>2. Says(GroupRead(items, r, i), items[i].members, Len(items[i].members))
        BY <1>14, <2>8, <3>2 DEF HasRead
      <4>3. k \in GroupKey
        <5>1. PICK x : x = items[i]
          OBVIOUS
        <5>2. x \in Plain \cup Group
          BY <1>1, <5>1 DEF AreItems
        <5> QED
          BY <2>8, <4>1, <5>1, <5>2, ItemTypes
      <4>4. PICK o \in Nat : o = GroupsIn(items, k, i)
        BY GroupsCount
      <4>5. k = key => o \in 1..n /\ o # n
        <5> SUFFICES ASSUME k = key PROVE o \in 1..n /\ o # n
          OBVIOUS
        <5>1. PICK b \in Nat : b = p - 1 /\ b + 1 = p /\ i \in 1..b
          <6>1. p - 1 \in Nat /\ (p - 1) + 1 = p /\ i \in 1..p - 1
            BY <1>1, <3>2
          <6> QED
            BY <6>1
        <5>2. 1 <= o /\ o <= GroupsIn(items, k, b)
          BY <2>8, <4>1, <4>4, <5>1, GroupsNumbered
        <5>3. GroupsIn(items, k, b + 1) = GroupsIn(items, k, b) + 1 /\ GroupsIn(items, k, b) \in Nat
          BY <1>1, <1>2, <5>1, GroupsCount
        <5>4. n = GroupsIn(items, k, b) + 1
          BY <2>3, <5>1, <5>3
        <5> QED
          BY <5>2, <5>3, <5>4
      <4>6. after[k][o] = before[k][o]
        BY <2>4, <4>3, <4>5
      <4>7. GroupRead(items, r2, i) = GroupRead(items, r, i)
        BY <2>1, <2>2, <4>1, <4>4, <4>6 DEF GroupRead
      <4> QED
        BY <3>2, <4>2, <4>7
    <3> QED
      BY <3>1, <3>2
  <2> QED
    BY <2>2, <2>5, <2>6, <2>8 DEF HasRead
<1>15. m - 1 \in Nat /\ p \in Nat
  BY <1>1
<1> QED
  BY <1>9, <1>11, <1>13, <1>14, <1>15 DEF Advances

LEMMA NextPlace ==
    ASSUME NEW items, NEW N, NEW E, AreItems(items, N, E),
           NEW msg, LaysOut(items, N, E, msg), NEW r \in Reader, r.index > 0,
           NEW p, NEW m, PositionAt(items, N, E, msg, r, p, m)
    PROVE  Advances(items, N, E, msg, r, p, m)
<1>1. m \in Nat /\ p \in 0..N /\ N \in Nat /\ r.index = (N - p) + m
  BY DEF PositionAt, AreItems
<1>2. CASE m > 0
  BY <1>2, NextMember
<1>3. CASE m = 0
  <2>1. p < N
    BY <1>1, <1>3
  <2>2. PositionAt(items, N, E, msg, r, p, 0)
    BY <1>3
  <2>3. Advances(items, N, E, msg, r, p, 0)
    BY <2>1, <2>2, NextPlain, NextGroup
  <2> QED
    BY <1>3, <2>3
<1> QED
  BY <1>1, <1>2, <1>3

-----------------------------------------------------------------------------
(* PCF commands and answers *)

AllSupported(items) == \A i \in DOMAIN items : items[i].kind # "other"

\* The first n arguments are packed.
IsPacking(items, n, msg) ==
    /\ items \in Seq(Plain \cup Unknown)
    /\ (\A i \in 1..n : items[i].kind # "other") =>
          /\ Len(msg) = n
          /\ \A i \in 1..n : msg[i] = Structure(AsArgument(items[i]))

\* Between two structures.
IsReading(items, msg, r) ==
    /\ items \in Seq(Plain \cup Group)
    /\ Lays(items, msg)
    /\ \E p \in Nat, m \in Nat :
          /\ PositionAt(items, Len(items), Ends(Places(items)), msg, r, p, m)
          /\ HasRead(items, r, p, m)

PcfInv ==
    /\ content \in Seq(Plain \cup Unknown \cup Group)
    /\ at \in {"idle", "packing", "reading", "raised", "error"}
    /\ packed \in 0..Len(content)
    /\ parameter \in Seq(Struct) /\ message \in Seq(Struct)
    /\ read \in Reader
    /\ at = "packing" => IsPacking(content, packed, message)
    /\ at = "reading" /\ AllSupported(content) =>
          /\ IsReading(content, message, read)
          /\ packed = Len(content) => content \in Seq(Plain)
    /\ at = "error" => ~AllSupported(content)

LEMMA NothingIsReader ==
    /\ NothingRead \in Reader
    /\ \A n \in Nat : /\ [NothingRead EXCEPT !.index = n] \in Reader
                      /\ [NothingRead EXCEPT !.index = n] =
                            [index |-> n, cursor |-> Header, group |-> None, groupCount |-> 0,
                             res |-> <<>>, groups |-> [g \in GroupKey |-> <<>>]]
<1>1. PICK empty, D : empty = <<>> /\ D = Dict
  OBVIOUS
<1>2. empty \in D /\ empty \in Seq(D)
  BY <1>1, EmptyDict
<1>3. PICK groups : groups = [g \in GroupKey |-> empty]
  OBVIOUS
<1>4. groups \in [GroupKey -> Seq(D)]
  BY <1>2, <1>3
<1>5. NothingRead = [index |-> 0, cursor |-> 36, group |-> None, groupCount |-> 0,
                     res |-> empty, groups |-> groups]
  BY <1>1, <1>3 DEF NothingRead, Header
<1>6. \A n \in Nat : [NothingRead EXCEPT !.index = n] =
         [index |-> n, cursor |-> 36, group |-> None, groupCount |-> 0, res |-> empty, groups |-> groups]
  BY <1>5
<1>7. \A n \in Nat : [index |-> n, cursor |-> 36, group |-> None, groupCount |-> 0,
                      res |-> empty, groups |-> groups] \in Reader
  BY <1>1, <1>2, <1>4 DEF Reader
<1>8. NothingRead \in Reader
  BY <1>5, <1>7
<1>9. \A n \in Nat : [NothingRead EXCEPT !.index = n] \in Reader
  BY <1>6, <1>7
<1> QED
  BY <1>1, <1>3, <1>6, <1>8, <1>9 DEF Header

\* At the first structure nothing is read.
LEMMA AtTheStart ==
    ASSUME NEW items \in Seq(Plain \cup Group), NEW msg, Lays(items, msg)
    PROVE  IsReading(items, msg, [NothingRead EXCEPT !.index = Len(items)])
<1>1. PICK N, E : N = Len(items) /\ E = Ends(Places(items))
  OBVIOUS
<1>2. AreItems(items, N, E) /\ LaysOut(items, N, E, msg)
  BY <1>1, ItemsAt DEF Lays
<1>3. N \in Nat /\ E[0] = 0 /\ 0 \in 0..N
  BY <1>2 DEF AreItems
<1>4. PICK r : r = [NothingRead EXCEPT !.index = N]
  OBVIOUS
<1>5. r = [index |-> N, cursor |-> Header, group |-> None, groupCount |-> 0,
           res |-> <<>>, groups |-> [g \in GroupKey |-> <<>>]]
  BY <1>3, <1>4, NothingIsReader
<1>6. PositionAt(items, N, E, msg, r, 0, 0)
  <2>1. (E[0] - 0) + 1 = 1 /\ (N - 0) + 0 = N
    BY <1>3
  <2>2. OffsetIn(msg, 1) = Header
    BY <1>2, OffsetsGrow DEF LaysOut
  <2>3. r.index = N /\ r.cursor = Header /\ r.groupCount = 0
    BY <1>5
  <2> QED
    BY <1>3, <2>1, <2>2, <2>3 DEF PositionAt
<1>7. HasRead(items, r, 0, 0)
  <2>1. r.res = <<>> /\ \A k \in GroupKey : r.groups[k] = <<>>
    BY <1>5
  <2>2. \A k \in GroupKey : Len(r.groups[k]) = GroupsIn(items, k, 0)
    BY <2>1, GroupsCount
  <2>3. Says(r.res, items, 0)
    BY <2>1, SaysNone
  <2> QED
    BY <2>2, <2>3 DEF HasRead
<1>8. 0 \in Nat
  OBVIOUS
<1> QED
  BY <1>1, <1>2, <1>4, <1>6, <1>7, <1>8 DEF IsReading, Lays

LEMMA PcfInitInv == PcfInit => PcfInv
<1> SUFFICES ASSUME PcfInit PROVE PcfInv
  OBVIOUS
<1>1. /\ content = <<>> /\ message = <<>> /\ parameter = <<>>
      /\ at = "idle" /\ packed = 0 /\ read = NothingRead
  BY DEF PcfInit
<1>2. \A S : content \in Seq(S) /\ message \in Seq(S) /\ parameter \in Seq(S)
  BY <1>1, EmptySeq
<1>3. Len(content) = 0 /\ packed \in 0..Len(content)
  BY <1>1, EmptySeq
<1> QED
  BY <1>1, <1>2, <1>3, NothingIsReader DEF PcfInv

LEMMA AskStep == ASSUME PcfInv, Ask PROVE PcfInv'
<1>1. PICK items \in Command : Begin(items, "packing", <<>>, 0)
  BY DEF Ask
<1>2. PICK r : r = [NothingRead EXCEPT !.index = 0]
  OBVIOUS
<1>3. /\ content' = items /\ at' = "packing" /\ packed' = 0 /\ parameter' = <<>>
      /\ message' = <<>> /\ read' = r
  BY <1>1, <1>2 DEF Begin
<1>4. items \in Seq(Plain \cup Unknown) /\ items \in Seq(Plain \cup Unknown \cup Group)
  <2>1. items \in Seq(Plain \cup Unknown)
    BY PcfAssumption
  <2>2. Plain \cup Unknown \subseteq Plain \cup Unknown \cup Group
    OBVIOUS
  <2> QED
    BY <2>1, <2>2, SeqMonotonic
<1>5. Len(items) \in Nat
  BY <1>4, LenProperties
<1>6. r \in Reader
  BY <1>2, NothingIsReader
<1>7. <<>> \in Seq(Struct) /\ Len(<<>>) = 0
  BY EmptySeq
<1>8. IsPacking(items, 0, <<>>)
  BY <1>4, <1>7 DEF IsPacking
<1>9. 0 \in 0..Len(items)
  BY <1>5
<1> QED
  BY <1>3, <1>4, <1>6, <1>7, <1>8, <1>9 DEF PcfInv

LEMMA AnswerStep == ASSUME PcfInv, Answer PROVE PcfInv'
<1>1. PICK items \in Response : Begin(items, "reading", Flat(items), Len(items))
  BY DEF Answer
<1>2. PICK r, msg : r = [NothingRead EXCEPT !.index = Len(items)] /\ msg = Flat(items)
  OBVIOUS
<1>3. /\ content' = items /\ at' = "reading" /\ packed' = 0 /\ parameter' = <<>>
      /\ message' = msg /\ read' = r
  BY <1>1, <1>2 DEF Begin
<1>4. items \in Seq(Plain \cup Group) /\ items \in Seq(Plain \cup Unknown \cup Group)
  <2>1. items \in Seq(Plain \cup Group)
    BY PcfAssumption
  <2>2. Plain \cup Group \subseteq Plain \cup Unknown \cup Group
    OBVIOUS
  <2> QED
    BY <2>1, <2>2, SeqMonotonic
<1>5. Len(items) \in Nat
  BY <1>4, LenProperties
<1>6. r \in Reader
  BY <1>2, <1>5, NothingIsReader
<1>7. Lays(items, msg) /\ msg \in Seq(Struct)
  BY <1>2, <1>4, FlatLays DEF Lays, LaysOut
<1>8. IsReading(items, msg, r)
  BY <1>2, <1>4, <1>7, AtTheStart
<1>9. 0 = Len(items) => items \in Seq(Plain)
  <2>1. 0 = Len(items) => items = <<>>
    BY <1>4, EmptySeq
  <2> QED
    BY <2>1, EmptySeq
<1>10. 0 \in 0..Len(items) /\ <<>> \in Seq(Struct)
  BY <1>5, EmptySeq
<1> QED
  BY <1>3, <1>4, <1>6, <1>7, <1>8, <1>9, <1>10 DEF PcfInv

LEMMA PackArgumentStep == ASSUME PcfInv, PackArgument PROVE PcfInv'
<1>1. PICK it, made : /\ it = content[packed + 1]
                      /\ made = IF it.kind = "other" THEN parameter ELSE <<Structure(AsArgument(it))>>
  OBVIOUS
<1>2. /\ at = "packing" /\ packed < Len(content) /\ parameter' = made /\ message' = message \o made
      /\ packed' = packed + 1 /\ content' = content /\ at' = at /\ read' = read
  BY <1>1 DEF PackArgument
<1>3. PICK n \in Nat : n = packed /\ n + 1 \in 1..Len(content) /\ n + 1 \in 0..Len(content)
  <2>1. Len(content) \in Nat
    BY LenProperties DEF PcfInv
  <2>2. packed \in Nat /\ packed + 1 \in 1..Len(content) /\ packed + 1 \in 0..Len(content)
    BY <1>2, <2>1 DEF PcfInv
  <2> QED
    BY <2>2
<1>4. IsPacking(content, n, message) /\ content \in Seq(Plain \cup Unknown)
  BY <1>2, <1>3 DEF PcfInv, IsPacking
<1>5. it \in Plain \cup Unknown
  <2>1. PICK S : S = Plain \cup Unknown
    OBVIOUS
  <2>2. content \in Seq(S)
    BY <1>4, <2>1
  <2>3. content[n + 1] \in S
    BY <1>3, <2>2, ElementOfSeq
  <2> QED
    BY <1>1, <1>3, <2>1, <2>3
<1>6. it.kind # "other" => Structure(AsArgument(it)) \in Struct
  <2>1. it \in Unknown => it.kind = "other"
    BY DEF Unknown
  <2> QED
    BY <1>5, <2>1, OneArgument DEF Carries
<1>7. message \in Seq(Struct) /\ made \in Seq(Struct)
  BY <1>1, <1>6 DEF PcfInv
<1>8. /\ message \o made \in Seq(Struct) /\ Len(message) \in Nat
      /\ Len(message \o made) = Len(message) + Len(made)
      /\ \A i \in 1..Len(message) + Len(made) :
            (message \o made)[i] = IF i <= Len(message) THEN message[i] ELSE made[i - Len(message)]
  BY <1>7, ConcatProperties, LenProperties
<1>9. ASSUME \A i \in 1..n + 1 : content[i].kind # "other"
      PROVE  /\ Len(message \o made) = n + 1
             /\ \A i \in 1..n + 1 : (message \o made)[i] = Structure(AsArgument(content[i]))
  <2>1. made = <<Structure(AsArgument(it))>> /\ Len(made) = 1 /\ made[1] = Structure(AsArgument(it))
    BY <1>1, <1>3, <1>9
  <2>2. Len(message) = n /\ \A i \in 1..n : message[i] = Structure(AsArgument(content[i]))
    BY <1>4, <1>9 DEF IsPacking
  <2>3. ASSUME NEW i \in 1..n + 1
        PROVE  (message \o made)[i] = Structure(AsArgument(content[i]))
    <3>1. (message \o made)[i] = IF i <= n THEN message[i] ELSE made[i - n]
      BY <1>8, <2>1, <2>2
    <3>2. i \in 1..n \/ (i = n + 1 /\ ~(i <= n) /\ i - n = 1)
      OBVIOUS
    <3> QED
      BY <1>1, <1>3, <2>1, <2>2, <3>1, <3>2
  <2> QED
    BY <1>8, <2>1, <2>2, <2>3
<1>10. IsPacking(content, n + 1, message \o made)
  BY <1>4, <1>9 DEF IsPacking
<1> QED
  BY <1>2, <1>3, <1>7, <1>8, <1>10 DEF PcfInv

LEMMA RaiseStep == ASSUME PcfInv, RaiseOnEmptyList PROVE PcfInv'
BY DEF PcfInv, RaiseOnEmptyList

LEMMA SentStep == ASSUME PcfInv, Sent PROVE PcfInv'
<1>1. PICK r : r = [NothingRead EXCEPT !.index = Len(content)]
  OBVIOUS
<1>2. /\ at = "packing" /\ packed = Len(content) /\ at' = "reading" /\ read' = r
      /\ content' = content /\ packed' = packed /\ parameter' = parameter /\ message' = message
  BY <1>1 DEF Sent
<1>3. PICK N \in Nat : N = Len(content) /\ DOMAIN content = 1..N
  BY LenProperties DEF PcfInv
<1>4. IsPacking(content, N, message)
  BY <1>2, <1>3 DEF PcfInv
<1>5. r \in Reader
  BY <1>1, <1>3, NothingIsReader
<1>6. ASSUME AllSupported(content)
      PROVE  IsReading(content, message, r) /\ content \in Seq(Plain)
  <2>1. \A i \in 1..N : content[i] \in Plain
    <3> SUFFICES ASSUME NEW i \in 1..N PROVE content[i] \in Plain
      OBVIOUS
    <3>1. PICK S, it : S = Plain \cup Unknown /\ it = content[i]
      OBVIOUS
    <3>2. it \in S
      BY <1>3, <1>4, <3>1, ElementOfSeq DEF IsPacking
    <3>3. it.kind # "other"
      BY <1>3, <1>6, <3>1 DEF AllSupported
    <3>4. it \in Unknown => it.kind = "other"
      BY DEF Unknown
    <3> QED
      BY <3>1, <3>2, <3>3, <3>4
  <2>2. content \in [1..N -> Plain]
    <3>1. content = [i \in 1..N |-> content[i]]
      BY <1>3, LenProperties DEF PcfInv
    <3> QED
      BY <2>1, <3>1
  <2>3. content \in Seq(Plain)
    BY <2>2, IsSeq
  <2>4. Len(message) = N /\ \A i \in 1..N : message[i] = Structure(AsArgument(content[i]))
    BY <1>3, <1>4, <1>6 DEF IsPacking, AllSupported
  <2>5. Lays(content, message)
    BY <1>3, <2>3, <2>4, ArgumentsLay DEF PcfInv
  <2>6. content \in Seq(Plain \cup Group)
    <3>1. Plain \subseteq Plain \cup Group
      OBVIOUS
    <3> QED
      BY <2>3, <3>1, SeqMonotonic
  <2> QED
    BY <1>1, <2>3, <2>5, <2>6, AtTheStart
<1> QED
  BY <1>2, <1>5, <1>6 DEF PcfInv

LEMMA AtCursorIs == AtCursor = {i \in DOMAIN message : OffsetIn(message, i) = read.cursor}
BY DEF AtCursor, Offset, OffsetIn

\* One turn of the loop, and what it makes of the local variables.
LEMMA ReadTurn ==
    ASSUME PcfInv, read.index > 0, NEW i \in AtCursor,
           IF message[i].type = "group" THEN ReadGroup(message[i]) ELSE ReadPlain(message[i])
    PROVE  read' = After(read, message[i]) /\ read' \in Reader
<1>1. PICK s, r : s = message[i] /\ r = read
  OBVIOUS
<1>2. r \in Reader /\ s \in Struct /\ r.index > 0
  <2>1. i \in DOMAIN message /\ message \in Seq(Struct)
    BY AtCursorIs DEF PcfInv
  <2>2. i \in 1..Len(message)
    BY <2>1, LenProperties
  <2> QED
    BY <1>1, <2>1, <2>2, ElementOfSeq DEF PcfInv
<1>3. CASE s.type = "group"
  <2>1. r = [index |-> r.index, cursor |-> r.cursor, group |-> r.group, groupCount |-> r.groupCount,
             res |-> r.res, groups |-> r.groups]
    BY <1>2 DEF Reader
  <2>2. read' = [r EXCEPT !.index = @ + s.len - 1, !.cursor = @ + s.struc, !.group = s.param,
                          !.groupCount = s.len, !.groups[s.param] = Append(@, <<>>)]
    BY <1>1, <1>3 DEF ReadGroup
  <2>3. read' = AfterGroup(r, s)
    BY <2>1, <2>2 DEF AfterGroup
  <2> QED
    BY <1>1, <1>2, <1>3, <2>3, AfterGroupTypes DEF After
<1>4. CASE s.type # "group"
  <2>1. ReadPlain(s)
    BY <1>1, <1>4
  <2>2. read' = AfterPlain(r, s)
    BY <1>1, <2>1 DEF ReadPlain, AfterPlain, GroupLeft
  <2> QED
    BY <1>1, <1>2, <1>4, <2>2, AfterPlainTypes DEF After
<1> QED
  BY <1>3, <1>4

LEMMA ReadNextStep == ASSUME PcfInv, ReadNext PROVE PcfInv'
<1>1. /\ at = "reading" /\ read.index > 0 /\ content' = content /\ packed' = packed
      /\ parameter' = parameter /\ message' = message
  BY DEF ReadNext
<1>2. PICK N, E : N = Len(content) /\ E = Ends(Places(content))
  OBVIOUS
<1>3. ASSUME AllSupported(content)
      PROVE  \E q \in DOMAIN message, p2 \in Nat, m2 \in Nat :
                /\ AtCursor = {q}
                /\ PositionAt(content, N, E, message, After(read, message[q]), p2, m2)
                /\ HasRead(content, After(read, message[q]), p2, m2)
  <2>1. IsReading(content, message, read) /\ read \in Reader
    BY <1>1, <1>3 DEF PcfInv
  <2>2. PICK p \in Nat, m \in Nat : /\ PositionAt(content, N, E, message, read, p, m)
                                    /\ HasRead(content, read, p, m)
    BY <1>2, <2>1 DEF IsReading
  <2>3. AreItems(content, N, E) /\ LaysOut(content, N, E, message)
    BY <1>2, <2>1, ItemsAt DEF IsReading, Lays
  <2>4. Advances(content, N, E, message, read, p, m)
    BY <1>1, <2>1, <2>2, <2>3, NextPlace
  <2> QED
    BY <2>2, <2>4, AtCursorIs DEF Advances
<1>4. CASE \E i \in AtCursor :
             /\ IF message[i].type = "group" THEN ReadGroup(message[i]) ELSE ReadPlain(message[i])
             /\ UNCHANGED at
  <2>1. PICK i \in AtCursor : read' = After(read, message[i]) /\ read' \in Reader /\ at' = at
    BY <1>1, <1>4, ReadTurn
  <2>2. ASSUME AllSupported(content)
        PROVE  IsReading(content, message, read')
    <3>1. PICK q \in DOMAIN message, p2 \in Nat, m2 \in Nat :
             /\ AtCursor = {q}
             /\ PositionAt(content, N, E, message, After(read, message[q]), p2, m2)
             /\ HasRead(content, After(read, message[q]), p2, m2)
      BY <1>3, <2>2
    <3>2. i = q
      BY <3>1
    <3>3. PositionAt(content, N, E, message, read', p2, m2) /\ HasRead(content, read', p2, m2)
      BY <2>1, <3>1, <3>2
    <3>4. content \in Seq(Plain \cup Group) /\ Lays(content, message)
      BY <1>1, <2>2 DEF PcfInv, IsReading
    <3>5. p2 \in Nat /\ m2 \in Nat
      BY <3>1
    <3> QED
      BY <1>2, <3>3, <3>4, <3>5 DEF IsReading
  <2> QED
    BY <1>1, <2>1, <2>2 DEF PcfInv
<1>5. CASE AtCursor = {} /\ at' = "error" /\ UNCHANGED read
  <2>1. ~AllSupported(content)
    BY <1>3, <1>5
  <2> QED
    BY <1>1, <1>5, <2>1 DEF PcfInv
<1> QED
  BY <1>4, <1>5 DEF ReadNext

LEMMA ReturnedStep == ASSUME PcfInv, Returned PROVE PcfInv'
<1>1. /\ content' = <<>> /\ message' = <<>> /\ parameter' = <<>>
      /\ at' = "idle" /\ packed' = 0 /\ read' = NothingRead
  BY DEF Returned
<1>2. PICK empty : empty = <<>>
  OBVIOUS
<1>3. Len(empty) = 0 /\ empty \in Seq(Plain \cup Unknown \cup Group) /\ empty \in Seq(Struct)
  BY <1>2, EmptySeq
<1>4. 0 \in 0..Len(empty)
  BY <1>3
<1> QED
  BY <1>1, <1>2, <1>3, <1>4, NothingIsReader DEF PcfInv

LEMMA PcfNextInv == PcfInv /\ [PcfNext]_pcfVars => PcfInv'
<1> SUFFICES ASSUME PcfInv, [PcfNext]_pcfVars PROVE PcfInv'
  OBVIOUS
<1>1. CASE Ask
  BY <1>1, AskStep
<1>2. CASE PackArgument
  BY <1>2, PackArgumentStep
<1>3. CASE Sent
  BY <1>3, SentStep
<1>4. CASE Answer
  BY <1>4, AnswerStep
<1>5. CASE ReadNext
  BY <1>5, ReadNextStep
<1>6. CASE Returned
  BY <1>6, ReturnedStep
<1>7. CASE UNCHANGED pcfVars
  BY <1>7 DEF pcfVars, PcfInv
<1>8. CASE RaiseOnEmptyList
  BY <1>8, RaiseStep
<1> QED
  BY <1>1, <1>2, <1>3, <1>4, <1>5, <1>6, <1>7, <1>8 DEF PcfNext

LEMMA PcfAlways == PcfSpec => []PcfInv
BY PcfInitInv, PcfNextInv, PTL DEF PcfSpec

\* For any arguments and answers, the variables of __call__ and _unpack_option have their types.
THEOREM PcfTypes == PcfSpec => []PcfTypeOK
<1>1. PcfInv => PcfTypeOK
  <2> SUFFICES ASSUME PcfInv PROVE PcfTypeOK
    OBVIOUS
  <2>1. /\ read.index \in Nat /\ read.cursor \in Nat /\ read.groupCount \in Nat
        /\ read.group \in GroupKey \cup {None} /\ read.res \in Dict
        /\ read.groups \in [GroupKey -> Seq(Dict)]
    BY DEF PcfInv, Reader
  <2>2. ASSUME NEW k \in GroupKey, NEW i \in DOMAIN read.groups[k]
        PROVE  IsDict(read.groups[k][i])
    <3>1. PICK D, g : D = Dict /\ g = read.groups[k]
      OBVIOUS
    <3>2. g \in Seq(D)
      BY <2>1, <3>1
    <3>3. g[i] \in D
      BY <2>2, <3>1, <3>2, LenProperties, ElementOfSeq
    <3> QED
      BY <3>1, <3>3, DictTypes
  <2>3. IsDict(read.res)
    BY <2>1, DictTypes
  <2> QED
    BY <2>1, <2>2, <2>3 DEF PcfInv, PcfTypeOK
<1> QED
  BY <1>1, PcfAlways, PTL

\* A command of any length, of arguments and filters of any supported kinds and sizes, is sent with a
\* ParameterCount and structures that are its own, as long as they say and on boundaries of four
\* (mqadmin.py:190-343).
THEOREM SentAsItWasAsked == PcfSpec => []SentAsAsked
<1>1. PcfInv => SentAsAsked
  <2> SUFFICES ASSUME PcfInv, at = "reading", packed = Len(content), Supported
               PROVE  /\ Len(message) = Len(content)
                      /\ \A i \in DOMAIN message :
                            /\ message[i].param = content[i].key /\ message[i].of = content[i].of
                            /\ message[i].struc = message[i].bytes /\ message[i].struc % 4 = 0
    BY DEF SentAsAsked
  <2>1. IsReading(content, message, read) /\ content \in Seq(Plain)
    BY DEF PcfInv, Supported, AllSupported
  <2>2. PICK N, E : N = Len(content) /\ E = Ends(Places(content))
    OBVIOUS
  <2>3. AreItems(content, N, E) /\ LaysOut(content, N, E, message)
    BY <2>1, <2>2, ItemsAt DEF IsReading, Lays
  <2>4. N \in Nat /\ \A i \in 0..N : E[i] = i
    BY <2>1, <2>3, NoGroupsPlaces DEF AreItems
  <2>5. Len(message) = N /\ DOMAIN message = 1..N
    BY <2>3, <2>4, LenProperties DEF LaysOut
  <2>6. ASSUME NEW i \in 1..N
        PROVE  /\ message[i].param = content[i].key /\ message[i].of = content[i].of
               /\ message[i].struc = message[i].bytes /\ message[i].struc % 4 = 0
    <3>1. E[i - 1] + 1 = i
      BY <2>4
    <3>2. Carries(message[i], content[i])
      BY <2>3, <3>1 DEF LaysOut
    <3> QED
      BY <3>2 DEF Carries
  <2> QED
    BY <2>2, <2>5, <2>6
<1> QED
  BY <1>1, PcfAlways, PTL

\* Any command or answer, with any number of groups and members and lists of any length, the empty
\* ones too, is read to its end, and every value is found under its key in its own group, with one
\* empty text for those that are Unreadable (mqadmin.py:611-715).
THEOREM ReadAsItWasWritten == PcfSpec => []ReadsAsWritten
<1>1. PcfInv => ReadsAsWritten
  <2> SUFFICES ASSUME PcfInv PROVE ReadsAsWritten
    OBVIOUS
  <2>1. Supported => at # "error"
    BY DEF PcfInv, Supported, AllSupported
  <2>2. ASSUME at = "reading", read.index = 0, Supported
        PROVE  /\ read.cursor = MessageEnd
               /\ Says(read.res, content, Len(content))
               /\ \A k \in GroupKey : Len(read.groups[k]) = Groups(k, Len(content))
               /\ \A i \in DOMAIN content :
                     LET k == content[i].key
                     IN content[i].kind = "group" =>
                           Says(read.groups[k][Groups(k, i)], content[i].members, Len(content[i].members))
    <3>1. IsReading(content, message, read)
      BY <2>2 DEF PcfInv, Supported, AllSupported
    <3>2. PICK N, E : N = Len(content) /\ E = Ends(Places(content))
      OBVIOUS
    <3>3. AreItems(content, N, E) /\ LaysOut(content, N, E, message)
      BY <3>1, <3>2, ItemsAt DEF IsReading, Lays
    <3>5. PICK p \in Nat, m \in Nat : PositionAt(content, N, E, message, read, p, m) /\ HasRead(content, read, p, m)
      BY <3>1, <3>2 DEF IsReading
    <3>6. N \in Nat /\ DOMAIN content = 1..N /\ p = N /\ m = 0
      BY <2>2, <3>3, <3>5 DEF AreItems, PositionAt
    <3>7. read.cursor = MessageEnd
      <4>1. (E[N] - 0) + 1 = Len(message) + 1
        BY <3>3, <3>6 DEF LaysOut, AreItems
      <4>2. read.cursor = OffsetIn(message, Len(message) + 1)
        BY <3>5, <3>6, <4>1 DEF PositionAt
      <4> QED
        BY <4>2 DEF MessageEnd, Offset, OffsetIn
    <3>8. \A k : \A n : Groups(k, n) = GroupsIn(content, k, n)
      BY DEF Groups, GroupsIn
    <3>9. Says(read.res, content, N) /\ \A k \in GroupKey : Len(read.groups[k]) = GroupsIn(content, k, N)
      BY <3>5, <3>6 DEF HasRead
    <3>10. ASSUME NEW i \in 1..N, content[i].kind = "group"
           PROVE  Says(GroupRead(content, read, i), content[i].members, Len(content[i].members))
      <4>1. PICK L \in Nat : L = Len(content[i].members)
        BY <3>3 DEF AreItems
      <4>2. L - 0 = L
        OBVIOUS
      <4> QED
        BY <3>5, <3>6, <3>10, <4>1, <4>2 DEF HasRead
    <3> QED
      BY <3>2, <3>6, <3>7, <3>8, <3>9, <3>10 DEF GroupRead
  <2> QED
    BY <2>1, <2>2 DEF ReadsAsWritten
<1> QED
  BY <1>1, PcfAlways, PTL
=============================================================================
