------------------------------ MODULE BufferMap ------------------------------
(***************************************************************************)
(* The hash map of ibmmqc.c that holds the MQGET buffers, at the level of  *)
(* its bucket chains, with the three functions that use it: updateQ,       *)
(* deleteQ and deleteAll.  A key is the string "hConn/hObj"; here it is    *)
(* the sequence of its character codes, because both the hash and the      *)
(* comparison in map_remove look at the characters.                        *)
(*                                                                         *)
(* map->size and map->capacity are variables of the map; the message       *)
(* buffers are the heap.  The descriptors and map entries are allocated    *)
(* and freed with the entry and have no state of their own.                *)
(***************************************************************************)
EXTENDS Integers, Sequences, SequencesExt, FiniteSets

CONSTANTS
    HashWidth,        \* 2^w for an unsigned long of w bits
    HConn,            \* connection handles: the MQLONGs that MQ gives out,
    HObj,             \*   which are not negative; and object handles
    Buffer,           \* addresses that malloc can return for a message buffer
    Length,           \* buffer lengths that callers ask for
    NoEntry,
    InitialCapacity   \* MAP_INITIAL_CAPACITY

ASSUME MapAssumption ==
    /\ \A h \in HConn \cup HObj : h \in Nat /\ h <= 2147483647
    /\ Length \subseteq Nat
    /\ InitialCapacity \in Nat \ {0}
    /\ HashWidth \in Nat \ {0}

VARIABLES
    buckets,    \* buckets[i]: the chain of bucket i, its head first
    size,       \* map->size
    heap        \* the message buffers that are allocated

vars == <<buckets, size, heap>>

-----------------------------------------------------------------------------
(* Keys *)

\* The powers of ten that an MQLONG can reach.
Power == <<1, 10, 100, 1000, 10000, 100000, 1000000, 10000000, 100000000, 1000000000>>

Width(n) == CHOOSE w \in 1..10 : (w = 1 \/ Power[w] <= n) /\ (w = 10 \/ n < Power[w + 1])

\* snprintf's "%d" of a handle.
Decimal(n) == [i \in 1..Width(n) |-> 48 + ((n \div Power[Width(n) + 1 - i]) % 10)]

Slash == <<47>>

\* What deleteAll matches on: the handle and the separator.
ConnPrefix(c) == Decimal(c) \o Slash

KeyOf(c, o) == ConnPrefix(c) \o Decimal(o)

Key == {KeyOf(c, o) : c \in HConn, o \in HObj}

ConnOf == [k \in Key |-> CHOOSE c \in HConn : \E o \in HObj : k = KeyOf(c, o)]

\* map_hash is djb2.  The hash is only used modulo a capacity, which divides 2^16
\* for every capacity of a run: the runs take 2^16 for the 2^32 or 2^64 of an
\* unsigned long.
Hash == [k \in Key |->
    LET djb2[n \in 0..Len(k)] ==
            IF n = 0 THEN 5381 ELSE (djb2[n - 1] * 33 + k[n]) % HashWidth
    IN  djb2[Len(k)]]

Index(k, capacity) == Hash[k] % capacity

-----------------------------------------------------------------------------
(* The map: bkts is a value of buckets. *)

Entry == [key: Key, buf: Buffer, size: Length]

ASSUME NoEntryAssumption == NoEntry \notin Entry \cup [buf: Buffer, size: Length]

Capacity(bkts) == Cardinality(DOMAIN bkts)

\* The places of the entries: a bucket and a place in its chain.
Places(bkts) == UNION {{<<i, j>> : j \in DOMAIN bkts[i]} : i \in DOMAIN bkts}

ChainOf(bkts, k) == bkts[Index(k, Capacity(bkts))]

\* map_get: strcmp finds the entry of exactly this key, or there is none.
MapGet(bkts, k) ==
    LET i == SelectInSeq(ChainOf(bkts, k), LAMBDA e : e.key = k)
    IN  IF i = 0 THEN NoEntry ELSE ChainOf(bkts, k)[i]

\* map_put stores through the entry: the descriptor of k becomes d.
MapUpdate(bkts, k, d) ==
    [bkts EXCEPT ![Index(k, Capacity(bkts))] =
        [i \in DOMAIN @ |-> IF @[i].key = k THEN d ELSE @[i]]]

\* A map_resize that copies the chains and does not rehash.
MapResizeNoRehash(bkts) ==
    [i \in 0..2 * Capacity(bkts) - 1 |-> IF i \in DOMAIN bkts THEN bkts[i] ELSE <<>>]

\* map_resize comes to the entry at q after the one at p.
Later(p, q) == p[1] < q[1] \/ (p[1] = q[1] /\ p[2] < q[2])

\* Pushed at the head one after the other, the n-th of places is the one that
\* n - 1 of them come after.
Pushed(places) ==
    [n \in 1..Cardinality(places) |->
        CHOOSE p \in places : Cardinality({q \in places : Later(p, q)}) = n - 1]

\* map_resize pushes every entry, old bucket by old bucket, at the head of its
\* chain in a table of twice the capacity.
MapResize(bkts) ==
    LET wider   == 2 * Capacity(bkts)
        at(p)   == bkts[p[1]][p[2]]
        mine(i) == {p \in Places(bkts) : Index(at(p).key, wider) = i}
        pushed  == [i \in 0..wider - 1 |-> Pushed(mine(i))]
    IN  [i \in 0..wider - 1 |-> [n \in DOMAIN pushed[i] |-> at(pushed[i][n])]]

\* size / capacity > MAP_LOAD_FACTOR
Overloaded(bkts, n) == 4 * n > 3 * Capacity(bkts)

MakeRoom(bkts, n) == IF Overloaded(bkts, n) THEN MapResize(bkts) ELSE bkts

\* map_put of a key that is not in the map, after its resize.
PushHead(bkts, e) ==
    [bkts EXCEPT ![Index(e.key, Capacity(bkts))] = <<e>> \o @]

\* A map_remove that takes the head of the chain whatever its key.
RemoveHead(chain, k) == IF chain = <<>> THEN chain ELSE Tail(chain)

\* map_remove compares strlen(key) characters, so the first entry of the chain
\* whose key starts with k goes.
RemoveIn(chain, k) == RemoveFirstMatch(chain, LAMBDA e : IsPrefix(k, e.key))

MapRemove(bkts, k) ==
    [bkts EXCEPT ![Index(k, Capacity(bkts))] = RemoveIn(@, k)]

-----------------------------------------------------------------------------

Init ==
    /\ buckets = [i \in 0..InitialCapacity - 1 |-> <<>>]
    /\ size = 0
    /\ heap = {}

\* updateQ, no entry for k: a new buffer is put in the map.
Allocate(k, n) ==
    /\ MapGet(buckets, k) = NoEntry
    /\ \E b \in Buffer \ heap :
          /\ heap' = heap \cup {b}
          /\ buckets' = PushHead(MakeRoom(buckets, size),
                                 [key |-> k, buf |-> b, size |-> n])
          /\ size' = size + 1

\* updateQ, no entry for k: map_put resizes the table and then finds no memory
\* for its entry, so that updateQ frees the buffer and the descriptor.  When there
\* is no memory for the buffer itself, neither map nor heap changes: the descriptor,
\* which is lost then (ibmmqc.c:382-384), is not modelled.
AllocateFails(k) ==
    /\ MapGet(buckets, k) = NoEntry
    /\ Overloaded(buckets, size)
    /\ buckets' = MapResize(buckets)
    /\ UNCHANGED <<size, heap>>

\* updateQ, the entry's buffer is too short: realloc keeps or moves it.
Grow(k, n) ==
    LET e == MapGet(buckets, k)
    IN  /\ e # NoEntry
        /\ e.size < n
        /\ \E b \in (Buffer \ heap) \cup {e.buf} :
              /\ heap' = (heap \ {e.buf}) \cup {b}
              /\ buckets' = MapUpdate(buckets, k,
                                      [key |-> k, buf |-> b, size |-> n])
              /\ UNCHANGED size

\* map_remove that counts down although nothing matched.
DeleteQUnchecked(k) ==
    /\ buckets' = MapRemove(buckets, k)
    /\ size' = size - 1
    /\ UNCHANGED heap

\* deleteQ: the buffer found under k is freed, then map_remove takes an entry
\* out of the chain.
DeleteQ(k) ==
    LET e == MapGet(buckets, k)
    IN  /\ e # NoEntry
        /\ heap' = heap \ {e.buf}
        /\ buckets' = MapRemove(buckets, k)
        /\ size' = size - 1

AllEntries == Places(buckets)

EntryAt(p) == buckets[p[1]][p[2]]

OfConn(c, e) == IsPrefix(ConnPrefix(c), e.key)

\* What the walk of deleteAll leaves of a chain: it removes, one map_remove at a
\* time, each entry of connection c that it comes to.
Walk(c, chain) ==
    LET left[n \in 0..Len(chain)] ==
            IF n = 0 THEN chain
            ELSE IF OfConn(c, chain[n]) THEN RemoveIn(left[n - 1], chain[n].key)
            ELSE left[n - 1]
    IN  left[Len(chain)]

\* deleteAll: a walk over every chain that frees and removes the entries of c.
DeleteAll(c) ==
    LET gone == {p \in AllEntries : OfConn(c, EntryAt(p))}
    IN  /\ gone # {}
        /\ heap' = heap \ {EntryAt(p).buf : p \in gone}
        /\ buckets' = [i \in DOMAIN buckets |-> Walk(c, buckets[i])]
        /\ size' = size - Cardinality(gone)

Next ==
    \/ \E k \in Key, n \in Length : Allocate(k, n)
    \/ \E k \in Key : AllocateFails(k)
    \/ \E k \in Key, n \in Length : Grow(k, n)
    \/ \E k \in Key : DeleteQ(k)
    \/ \E c \in HConn : DeleteAll(c)

Spec == Init /\ [][Next]_vars

-----------------------------------------------------------------------------

TypeOK ==
    /\ \A p \in AllEntries : EntryAt(p) \in Entry
    /\ size \in Nat
    /\ heap \subseteq Buffer

\* The chains are a map: an entry stands in the bucket map_get and map_remove
\* look in, whatever the table has been resized to, no key has two entries, and
\* map->size, which decides the next resize, is the number of entries.
ChainsAreAMap ==
    /\ \A p \in AllEntries : p[1] = Index(EntryAt(p).key, Capacity(buckets))
    /\ \A p, q \in AllEntries : EntryAt(p).key = EntryAt(q).key => p = q
    /\ size = Cardinality(AllEntries)

\* "Remove a key-value pair from the map" (ibmmqc.c:2496) after "Removing the
\* entry will free() the value as well as control structures. But it does not
\* free the allocated message buffer. So we have to do that here first."
\* (ibmmqc.c:427-429): what stays in the map has a buffer that is allocated.
EntriesHaveBuffers == \A p \in AllEntries : EntryAt(p).buf \in heap

\* The map keeps the promise of BufferStore: a buffer for every key of its own,
\* no buffer without a key, and deleteQ and deleteAll take away exactly the
\* entries they are asked to.
Store == INSTANCE BufferStore WITH
    store <- [k \in Key |->
                LET e == MapGet(buckets, k)
                IN  IF e = NoEntry THEN NoEntry ELSE [buf |-> e.buf, size |-> e.size]]

KeepsPromise == Store!StoreSpec
=============================================================================
