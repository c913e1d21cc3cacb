----------------------------- MODULE BufferStore -----------------------------
(***************************************************************************)
(* What ibmmqc.c promises its callers about message buffers: every open    *)
(* object of every connection has at most one buffer of its own, which     *)
(* lives from the object's first MQGET until the object is closed or its   *)
(* connection ends.  updateQ, deleteQ and deleteAll run under the map's    *)
(* lock, so each of them is one action.                                    *)
(*                                                                         *)
(* BufferMap shows how the hash map of ibmmqc.c keeps this promise and     *)
(* GetCalls what the threads that issue MQGET, MQCLOSE and MQDISC make of  *)
(* it.                                                                     *)
(***************************************************************************)
EXTENDS Integers

CONSTANTS
    HConn,      \* connection handles
    Key,        \* the "hConn/hObj" keys of the map
    ConnOf,     \* ConnOf[k]: the connection handle in key k
    Buffer,     \* addresses that malloc can return for a message buffer
    Length,     \* buffer lengths that callers ask for
    NoEntry     \* "the map has no entry for this key"

ASSUME StoreAssumption ==
    /\ ConnOf \in [Key -> HConn]
    /\ Length \subseteq Nat
    /\ NoEntry \notin [buf: Buffer, size: Length]

VARIABLES
    store,      \* store[k]: the GetBuffer found under k, or NoEntry
    heap        \* the message buffers that are allocated

storeVars == <<store, heap>>

GetBuffer == [buf: Buffer, size: Length]

StoreTypeOK ==
    /\ store \in [Key -> GetBuffer \cup {NoEntry}]
    /\ heap \subseteq Buffer

StoreInit ==
    /\ store = [k \in Key |-> NoEntry]
    /\ heap = {}

Keys == {k \in Key : store[k] # NoEntry}

\* The buffer of an entry; only asked for keys that have one.
BufferOf(k) == store[k].buf

-----------------------------------------------------------------------------

\* The first MQGET of an object: a descriptor and a buffer of the length asked for.
Allocate(k, n) ==
    /\ store[k] = NoEntry
    /\ \E b \in Buffer \ heap :
          /\ heap' = heap \cup {b}
          /\ store' = [store EXCEPT ![k] = [buf |-> b, size |-> n]]

\* Grow that frees the old buffer and leaves its address in the entry.
GrowKeepsAddress(k, n) ==
    /\ k \in Keys
    /\ store[k].size < n
    /\ \E b \in (Buffer \ heap) \cup {BufferOf(k)} :
          /\ heap' = (heap \ {BufferOf(k)}) \cup {b}
          /\ store' = [store EXCEPT ![k].size = n]

\* Grow that notes one byte more than it allocates.
GrowOneMore(k, n) ==
    /\ k \in Keys
    /\ store[k].size < n
    /\ store' = [store EXCEPT ![k].size = n + 1]
    /\ UNCHANGED heap

\* A longer message: realloc keeps the address or moves the buffer.
Grow(k, n) ==
    /\ k \in Keys
    /\ store[k].size < n
    /\ \E b \in (Buffer \ heap) \cup {BufferOf(k)} :
          /\ heap' = (heap \ {BufferOf(k)}) \cup {b}
          /\ store' = [store EXCEPT ![k] = [buf |-> b, size |-> n]]

\* The buffer is long enough already.
Reuse(k, n) ==
    /\ k \in Keys
    /\ store[k].size >= n
    /\ UNCHANGED storeVars

UpdateQ(k, n) == Allocate(k, n) \/ Grow(k, n) \/ Reuse(k, n)

\* Entries are freed and their buffers are not.
DiscardEntries(ks) ==
    /\ store' = [k \in Key |-> IF k \in ks THEN NoEntry ELSE store[k]]
    /\ UNCHANGED heap

\* Every entry of the keys in ks goes, with its buffer.
Discard(ks) ==
    /\ heap' = heap \ {BufferOf(k) : k \in ks \cap Keys}
    /\ store' = [k \in Key |-> IF k \in ks THEN NoEntry ELSE store[k]]

DeleteQ(k) == Discard({k})

\* deleteAll without the test of the key.
DeleteEverything(c) == Discard(Key)

DeleteAll(c) == Discard({k \in Key : ConnOf[k] = c})

StoreNext ==
    \/ \E k \in Key, n \in Length : UpdateQ(k, n)
    \/ \E k \in Key : DeleteQ(k)
    \/ \E c \in HConn : DeleteAll(c)

StoreSpec == StoreInit /\ [][StoreNext]_storeVars

-----------------------------------------------------------------------------

\* No two entries share a buffer, and an entry's buffer is allocated: what the
\* fields of GetBuffer (ibmmqc.c:131-134) are trusted to mean by every MQGET.
OwnBuffers ==
    /\ \A k \in Keys : BufferOf(k) \in heap
    /\ \A j, k \in Keys : BufferOf(j) = BufferOf(k) => j = k

\* Nothing is allocated that no entry refers to: what deleteQ and deleteAll
\* (ibmmqc.c:419-473) must free.
NoLeak == \A b \in heap : \E k \in Keys : BufferOf(k) = b
=============================================================================
