------------------------------- MODULE GetProofs -------------------------------
(* What each operation of BufferStore does to the store, and that every store *)
(* keeps its buffers apart and leaks none.  Then, with a connection per       *)
(* thread, that every MQGET copies its own message out of a buffer that is    *)
(* still its own, however the threads' calls interleave.  And that a get      *)
(* which reads a message twice loses none that conversion at most doubles.    *)
EXTENDS GetCalls, QueueGet, TLAPS

-----------------------------------------------------------------------------
(* The buffer map *)

StoreInv == StoreTypeOK /\ OwnBuffers /\ NoLeak

\* updateQ leaves an entry of at least the length asked for under its key, and
\* every other entry as it is (ibmmqc.c:369-416).
LEMMA UpdateQEffect ==
    ASSUME StoreInv, NEW k \in Key, NEW n \in Length, UpdateQ(k, n)
    PROVE  /\ StoreInv'
           /\ k \in Keys'
           /\ store'[k].size >= n
           /\ \A j \in Key \ {k} : store'[j] = store[j]
<1> USE StoreAssumption DEF StoreInv, StoreTypeOK, OwnBuffers, NoLeak, Keys, BufferOf, GetBuffer
<1>1. CASE Allocate(k, n)
  BY <1>1 DEF Allocate
<1>2. CASE Grow(k, n)
  <2>1. PICK b \in (Buffer \ heap) \cup {BufferOf(k)} :
            /\ heap' = (heap \ {BufferOf(k)}) \cup {b}
            /\ store' = [store EXCEPT ![k] = [buf |-> b, size |-> n]]
    BY <1>2 DEF Grow
  <2>2. store[k] \in GetBuffer
    BY <1>2 DEF Grow
  <2>3. store'[k] = [buf |-> b, size |-> n] /\ \A j \in Key \ {k} : store'[j] = store[j]
    BY <2>1
  <2>4. b \in Buffer
    BY <2>2
  <2>5. StoreTypeOK'
    BY <2>1, <2>2, <2>4
  <2>6. OwnBuffers'
    BY <2>1, <2>2, <2>3, <1>2 DEF Grow
  <2>7. NoLeak'
    BY <2>1, <2>2, <2>3, <1>2 DEF Grow
  <2> QED
    BY <2>3, <2>4, <2>5, <2>6, <2>7
<1>3. CASE Reuse(k, n)
  BY <1>3 DEF Reuse, storeVars
<1> QED
  BY <1>1, <1>2, <1>3 DEF UpdateQ

\* deleteQ and deleteAll take away the entries of their keys and nothing else
\* (ibmmqc.c:419-473).
LEMMA DiscardEffect ==
    ASSUME StoreInv, NEW ks \in SUBSET Key, Discard(ks)
    PROVE  /\ StoreInv'
           /\ \A j \in Key \ ks : store'[j] = store[j]
           /\ \A j \in ks : j \notin Keys'
BY StoreAssumption DEF StoreInv, StoreTypeOK, OwnBuffers, NoLeak, Keys, BufferOf,
   GetBuffer, Discard

LEMMA StoreInvInit == StoreInit => StoreInv
BY StoreAssumption DEF StoreInit, StoreInv, StoreTypeOK, OwnBuffers, NoLeak, Keys, GetBuffer

LEMMA StoreInvStep == StoreInv /\ [StoreNext]_storeVars => StoreInv'
<1> SUFFICES ASSUME StoreInv, [StoreNext]_storeVars PROVE StoreInv'
  OBVIOUS
<1>1. ASSUME NEW k \in Key, NEW n \in Length, UpdateQ(k, n) PROVE StoreInv'
  BY <1>1, UpdateQEffect
<1>2. ASSUME NEW k \in Key, DeleteQ(k) PROVE StoreInv'
  BY <1>2, DiscardEffect DEF DeleteQ
<1>3. ASSUME NEW c \in HConn, DeleteAll(c) PROVE StoreInv'
  BY <1>3, DiscardEffect DEF DeleteAll
<1>4. CASE UNCHANGED storeVars
  BY <1>4 DEF storeVars, StoreInv, StoreTypeOK, OwnBuffers, NoLeak, Keys, BufferOf
<1> QED
  BY <1>1, <1>2, <1>3, <1>4 DEF StoreNext

\* A store that only updateQ, deleteQ and deleteAll change never has two keys on
\* one buffer, an entry without a buffer, or a buffer without an entry.
THEOREM StoreKeepsBuffersApart == StoreSpec => [](OwnBuffers /\ NoLeak)
<1>1. StoreInit => StoreInv
  BY StoreInvInit
<1>2. StoreInv /\ [StoreNext]_storeVars => StoreInv'
  BY StoreInvStep
<1>3. StoreInv => OwnBuffers /\ NoLeak
  BY DEF StoreInv
<1> QED
  BY <1>1, <1>2, <1>3, PTL DEF StoreSpec

-----------------------------------------------------------------------------
(* The calls of the threads *)


\* What a thread in the middle of a call knows: its QueueManager holds the connection, and
\* the key is on that connection.
CallsAreTheThreads ==
    \A t \in Thread :
        /\ ~At(t, "idle") => <<t, call[t].conn>> \in held
        /\ call[t].at \in {"ready", "getting", "got", "failed", "closed", "deleted"} =>
              /\ call[t].key \in Key
              /\ ConnOf[call[t].key] = call[t].conn
        /\ call[t].at \in {"ready", "getting", "got", "failed"} => call[t].len \in Length
        /\ InMQ(t) => call[t].buf \in Buffer

\* Two threads have a number only if MQ gave it out early.
HeldApart ==
    \A t, u \in Thread, c \in HConn :
        <<t, c>> \in held /\ <<u, c>> \in held /\ t # u => c \in early

\* A QueueManager whose connection MQ has dropped got a warning or is in its disconnect.
HeldOrLeaving ==
    \A t \in Thread, c \in HConn : <<t, c>> \in held =>
        \/ c \in conns \cup warned \cup early
        \/ call[t].at \in {"disced", "cleaned"} /\ call[t].conn = c

IntactInMQ == \A t \in intact : At(t, "got")

\* Inductive when connections are private.
IInv ==
    /\ TypeOK
    /\ OwnBuffers
    /\ NoLeak
    /\ CallsAreTheThreads
    /\ HeldApart
    /\ HeldOrLeaving
    /\ IntactInMQ
    /\ BufferStays
    /\ OwnMessage
    /\ NoOrphans

LEMMA IInvInit == Init => IInv
BY StoreInvInit, StoreAssumption, CallAssumption
   DEF Init, StoreInit, StoreInv, IInv, TypeOK, Call, Step, Idle, At, InMQ, CallsAreTheThreads,
       HeldApart, HeldOrLeaving, IntactInMQ, BufferStays, OwnMessage, NoOrphans, Keys

\* A thread works with what it made.
LEMMA HoldsOwn ==
    ASSUME PrivateConnections, NEW t \in Thread
    PROVE  /\ \A c : Holds(t, c) <=> <<t, c>> \in held
           /\ \A k : HoldsQ(t, k) <=> <<t, k>> \in qheld
BY DEF PrivateConnections, Holds, HoldsQ

\* Threads in calls on connections that were not given out early use different keys.
LEMMA KeysApart ==
    ASSUME IInv, NEW t \in Thread, ~At(t, "idle"), NEW u \in Thread \ {t}, InMQ(u),
           call[u].conn \notin early
    PROVE  call[u].conn # call[t].conn
BY CallAssumption DEF IInv, TypeOK, CallsAreTheThreads, HeldApart, At, InMQ

\* Steps that leave the store, the connections and the calls of other threads
\* alone, and move t to a state in which it is not inside MQ.
LEMMA QuietStep ==
    ASSUME IInv, NEW t \in Thread, NEW new \in Call,
           call' = [call EXCEPT ![t] = new],
           ~At(t, "disced"),
           new.at \notin {"getting", "got", "disced", "cleaned"},
           ~At(t, "cleaned"),
           new.at # "idle" => <<t, new.conn>> \in held,
           new.at \in {"ready", "failed", "closed", "deleted"} =>
              /\ new.key \in Key
              /\ ConnOf[new.key] = new.conn,
           new.at \in {"ready", "failed"} => new.len \in Length,
           UNCHANGED <<storeVars, conns, held, warned, early>>,
           objs' \subseteq Key, qheld' \subseteq Thread \X Key,
           intact' = intact \ {t}
    PROVE  IInv'
<1> USE DEF IInv, TypeOK, StoreTypeOK, storeVars, OwnBuffers, NoLeak, Keys, BufferOf
<1>1. TypeOK' /\ OwnBuffers' /\ NoLeak'
  OBVIOUS
<1>2. \A u \in Thread \ {t} : call'[u] = call[u]
  OBVIOUS
<1>3. call'[t] = new
  OBVIOUS
<1>4. CallsAreTheThreads'
  BY <1>2, <1>3 DEF CallsAreTheThreads, At, InMQ, Call, Step
<1>5. HeldOrLeaving' /\ HeldApart'
  BY <1>2, <1>3 DEF HeldOrLeaving, HeldApart, At, Call
<1>6. IntactInMQ'
  BY <1>2, <1>3 DEF IntactInMQ, At
<1>7. BufferStays'
  BY <1>2, <1>3 DEF BufferStays, At, InMQ
<1>8. OwnMessage'
  BY <1>2, <1>3 DEF OwnMessage, At
<1>9. NoOrphans'
  BY <1>2, <1>3 DEF NoOrphans, At
<1> QED
  BY <1>1, <1>4, <1>5, <1>6, <1>7, <1>8, <1>9

\* Steps that change what is open and who holds it, outside a call.
LEMMA HandleStep ==
    ASSUME IInv, UNCHANGED <<store, heap, call, intact>>,
           conns' \subseteq HConn, objs' \subseteq Key, warned' \subseteq HConn,
           early' \subseteq HConn, held' \subseteq Thread \X HConn, qheld' \subseteq Thread \X Key,
           early \subseteq early',
           \A t \in Thread : ~At(t, "idle") => <<t, call[t].conn>> \in held',
           HeldApart', HeldOrLeaving',
           conns \cup warned \cup early \subseteq conns' \cup warned' \cup early'
    PROVE  IInv'
<1> USE DEF IInv, TypeOK, StoreTypeOK, OwnBuffers, NoLeak, Keys, BufferOf
<1>1. TypeOK' /\ OwnBuffers' /\ NoLeak'
  OBVIOUS
<1>2. CallsAreTheThreads'
  BY DEF CallsAreTheThreads, At, InMQ
<1>3. IntactInMQ' /\ OwnMessage'
  BY DEF IntactInMQ, OwnMessage, At
<1>4. BufferStays'
  BY DEF BufferStays, At, InMQ
<1>5. NoOrphans'
  BY DEF NoOrphans, At
<1> QED
  BY <1>1, <1>2, <1>3, <1>4, <1>5

LEMMA ConnectStep ==
    ASSUME IInv, NEW t \in Thread, NEW c \in HConn, Connect(t, c)
    PROVE  IInv'
<1>1. HeldApart'
  BY DEF Connect, IInv, HeldApart
<1>2. HeldOrLeaving'
  BY DEF Connect, IInv, HeldOrLeaving
<1>3. \A u \in Thread : ~At(u, "idle") => <<u, call[u].conn>> \in held'
  BY DEF Connect, IInv, CallsAreTheThreads
<1>4. conns' \subseteq HConn /\ conns \subseteq conns' /\ held' \subseteq Thread \X HConn
  BY DEF Connect, IInv, TypeOK
<1>6. early' \subseteq HConn /\ early \subseteq early'
  <2>1. early' = early \/ early' = early \cup {c}
    BY DEF Connect
  <2> QED
    BY <2>1 DEF IInv, TypeOK
<1>5. /\ objs' \subseteq Key /\ warned' \subseteq HConn /\ qheld' \subseteq Thread \X Key
      /\ UNCHANGED <<store, heap, call, intact, warned>>
  BY DEF Connect, IInv, TypeOK, storeVars
<1> QED
  BY <1>1, <1>2, <1>3, <1>4, <1>5, <1>6, HandleStep

LEMMA DropStep ==
    ASSUME IInv, PrivateConnections, NEW t \in Thread, NEW c \in HConn, Drop(t, c)
    PROVE  IInv'
<1>1. HeldApart' /\ HeldOrLeaving'
  BY DEF Drop, IInv, HeldApart, HeldOrLeaving
<1>2. \A u \in Thread : ~At(u, "idle") => <<u, call[u].conn>> \in held'
  BY DEF Drop, IInv, CallsAreTheThreads, PrivateConnections
<1> QED
  BY <1>1, <1>2, HandleStep DEF Drop, IInv, TypeOK, storeVars

LEMMA DiscWarnsStep ==
    ASSUME IInv, NEW t \in Thread, NEW c \in HConn, DiscWarns(t, c)
    PROVE  IInv'
<1>1. HeldApart' /\ HeldOrLeaving'
  BY DEF DiscWarns, IInv, HeldApart, HeldOrLeaving
<1> QED
  BY <1>1, HandleStep DEF DiscWarns, IInv, TypeOK, CallsAreTheThreads, storeVars

LEMMA OpenStep ==
    ASSUME IInv, NEW t \in Thread, NEW k \in Key, Open(t, k) \/ CloseWarns(t, k)
    PROVE  IInv'
<1>1. HeldApart' /\ HeldOrLeaving'
  BY DEF Open, CloseWarns, IInv, HeldApart, HeldOrLeaving
<1> QED
  BY <1>1, HandleStep DEF Open, CloseWarns, IInv, TypeOK, CallsAreTheThreads, storeVars

LEMMA GetBeginStep ==
    ASSUME IInv, NEW t \in Thread, GetBegin(t)
    PROVE  IInv'
<1> DEFINE k == call[t].key
<1>1. k \in Key /\ call[t].len \in Length /\ ConnOf[k] = call[t].conn
  BY DEF GetBegin, IInv, CallsAreTheThreads, At
<1>2. StoreInv' /\ k \in Keys' /\ store'[k].size >= call[t].len
      /\ \A j \in Key \ {k} : store'[j] = store[j]
  BY <1>1, UpdateQEffect DEF GetBegin, IInv, TypeOK, StoreInv
<1>3. store'[k].buf \in Buffer
  BY <1>1, <1>2 DEF StoreInv, StoreTypeOK, Keys, GetBuffer
<1>4. /\ call[t].at = "ready"
      /\ call[t] \in Call
      /\ call' = [call EXCEPT ![t].at = "getting", ![t].buf = store'[k].buf]
      /\ UNCHANGED <<conns, objs, held, qheld, intact, warned, early>>
  BY DEF GetBegin, At, IInv, TypeOK, handleVars
<1>5. /\ call'[t].at = "getting" /\ call'[t].key = k /\ call'[t].len = call[t].len
      /\ call'[t].conn = call[t].conn /\ call'[t].buf = store'[k].buf
      /\ call'[t] \in Call
      /\ \A u \in Thread \ {t} : call'[u] = call[u]
  BY <1>3, <1>4 DEF IInv, TypeOK, Call, Step
<1>6. \A u \in Thread \ {t} : InMQ(u) /\ call[u].conn \notin early => call[u].key \in Key \ {k}
  <2>1. ~At(t, "idle")
    BY <1>4 DEF At
  <2> QED
    BY <1>1, <2>1, KeysApart DEF IInv, CallsAreTheThreads, At, InMQ
<1>7. TypeOK'
  BY <1>2, <1>4, <1>5 DEF IInv, TypeOK, StoreInv
<1>8. OwnBuffers' /\ NoLeak'
  BY <1>2 DEF StoreInv
<1>13. <<t, call[t].conn>> \in held /\ call[t].conn \in HConn
  BY <1>4 DEF IInv, TypeOK, CallsAreTheThreads, At
<1>9. CallsAreTheThreads'
  <2>2. call'[t].buf \in Buffer
    BY <1>3, <1>5
  <2>3. \A u \in Thread \ {t} : call'[u] = call[u]
    BY <1>5
  <2>4. call'[t].at = "getting" /\ call'[t].key = k /\ call'[t].len = call[t].len
        /\ call'[t].conn = call[t].conn /\ held' = held
    BY <1>4, <1>5
  <2> HIDE DEF k
  <2> QED
    BY <1>1, <1>13, <2>2, <2>3, <2>4 DEF IInv, CallsAreTheThreads, At, InMQ
<1>10. HeldOrLeaving' /\ HeldApart' /\ IntactInMQ' /\ OwnMessage'
  <2>1. HeldOrLeaving' /\ HeldApart'
    <3>1. \A u \in Thread : call[u].at \in {"disced", "cleaned"} => call'[u] = call[u]
      BY <1>4, <1>5
    <3>2. UNCHANGED <<held, conns, warned, early>>
      BY <1>4
    <3> QED
      BY <3>1, <3>2 DEF IInv, HeldOrLeaving, HeldApart
  <2>2. t \notin intact /\ \A u \in intact : u \in Thread
    BY <1>4 DEF IInv, TypeOK, IntactInMQ, At
  <2>3. IntactInMQ' /\ OwnMessage'
    BY <1>4, <1>5, <2>2 DEF IInv, IntactInMQ, OwnMessage, At
  <2> QED
    BY <2>1, <2>3
<1>11. BufferStays'
  <2>1. ASSUME NEW u \in Thread \ {t}, InMQ(u), call[u].conn \notin early
        PROVE  /\ call[u].key \in Keys'
               /\ store'[call[u].key].buf = call[u].buf
               /\ store'[call[u].key].size >= call[u].len
    <3>1. call[u].key \in Key \ {k}
      BY <1>6, <2>1
    <3>2. store'[call[u].key] = store[call[u].key]
      BY <1>2, <3>1
    <3> QED
      BY <2>1, <3>1, <3>2 DEF IInv, BufferStays, Keys, BufferOf
  <2>2. \A u \in Thread \ {t} : InMQ(u)' => InMQ(u)
    BY <1>5 DEF InMQ, At
  <2>3. call'[t].key \in Keys' /\ store'[call'[t].key].buf = call'[t].buf
        /\ store'[call'[t].key].size >= call'[t].len
    BY <1>2, <1>5
  <2> QED
    <3> SUFFICES ASSUME NEW u \in Thread, InMQ(u)', call'[u].conn \notin early'
                 PROVE  /\ call'[u].key \in Keys'
                        /\ store'[call'[u].key].buf = call'[u].buf
                        /\ store'[call'[u].key].size >= call'[u].len
      BY DEF BufferStays, BufferOf
    <3>1. CASE u = t
      BY <2>3, <3>1
    <3>2. CASE u # t
      <4>1. call'[u] = call[u] /\ early' = early /\ InMQ(u)
        BY <1>4, <1>5, <2>2, <3>2
      <4> QED
        BY <2>1, <3>2, <4>1
    <3> QED
      BY <3>1, <3>2
<1>12. NoOrphans'
  <2> SUFFICES ASSUME NEW j \in Keys'
               PROVE  \/ ConnOf[j] \in (conns \cup warned \cup early)'
                      \/ \E u \in Thread : At(u, "disced")' /\ call'[u].conn = ConnOf[j]
    BY DEF NoOrphans, At
  <2>1. CASE j = k
    BY <2>1, <1>1, <1>4, <1>13 DEF IInv, HeldOrLeaving
  <2>2. CASE j # k
    <3>1. j \in Keys
      BY <2>2, <1>2 DEF Keys
    <3>2. \/ ConnOf[j] \in conns \cup warned \cup early
          \/ \E u \in Thread : At(u, "disced") /\ call[u].conn = ConnOf[j]
      BY <3>1 DEF IInv, NoOrphans
    <3> QED
      BY <3>2, <1>4, <1>5 DEF At
  <2> QED
    BY <2>1, <2>2
<1> QED
  BY <1>7, <1>8, <1>9, <1>10, <1>11, <1>12 DEF IInv

\* The buffers of two threads inside MQ are different, so the message of one
\* never lands in the buffer of the other.
LEMMA DeliverStep ==
    ASSUME IInv, NEW t \in Thread, Deliver(t)
    PROVE  IInv'
<1>1. /\ call[t].at = "getting"
      /\ call[t] \in Call
      /\ call' = [call EXCEPT ![t].at = "got"]
      /\ intact' = {u \in intact : call[u].buf # call[t].buf} \cup {t}
      /\ UNCHANGED <<store, heap, conns, objs, held, qheld, warned, early>>
  BY DEF Deliver, At, MoveTo, IInv, TypeOK, storeVars, handleVars
<1>2. /\ call'[t].at = "got" /\ call'[t].key = call[t].key /\ call'[t].len = call[t].len
      /\ call'[t].conn = call[t].conn /\ call'[t].buf = call[t].buf
      /\ call'[t] \in Call
      /\ \A u \in Thread \ {t} : call'[u] = call[u]
  BY <1>1 DEF IInv, TypeOK, Call, Step
<1>3. ASSUME early = {}, NEW u \in Thread \ {t}, At(u, "got") PROVE call[u].buf # call[t].buf
  <2>1. ~At(t, "idle") /\ InMQ(t) /\ InMQ(u)
    BY <1>1, <1>3 DEF At, InMQ
  <2>2. call[u].conn # call[t].conn
    BY <1>3, <2>1, KeysApart
  <2>3. call[u].key # call[t].key
    BY <2>1, <2>2 DEF IInv, CallsAreTheThreads, InMQ, At
  <2> QED
    BY <1>3, <2>1, <2>3 DEF IInv, BufferStays, OwnBuffers
<1>4. TypeOK' /\ OwnBuffers' /\ NoLeak'
  BY <1>1, <1>2 DEF IInv, TypeOK, StoreTypeOK, OwnBuffers, NoLeak, Keys, BufferOf
<1>5. CallsAreTheThreads'
  BY <1>1, <1>2 DEF IInv, CallsAreTheThreads, At, InMQ
<1>6. HeldOrLeaving' /\ HeldApart' /\ IntactInMQ'
  BY <1>1, <1>2 DEF IInv, TypeOK, HeldOrLeaving, HeldApart, IntactInMQ, At
<1>7. OwnMessage'
  BY <1>1, <1>2, <1>3 DEF IInv, OwnMessage, At
<1>8. BufferStays'
  BY <1>1, <1>2 DEF IInv, BufferStays, InMQ, At, Keys, BufferOf
<1>9. NoOrphans'
  BY <1>1, <1>2 DEF IInv, NoOrphans, At, Keys
<1> QED
  BY <1>4, <1>5, <1>6, <1>7, <1>8, <1>9 DEF IInv

\* deleteQ and deleteAll free the buffers of a connection their thread holds, and
\* no other thread is inside MQ on it, unless its number was given out early.
LEMMA DeleteStep ==
    ASSUME IInv, NEW t \in Thread, NEW ks \in SUBSET Key,
           Discard(ks), \A k \in ks : ConnOf[k] = call[t].conn,
           NEW to \in {"deleted", "cleaned"}, MoveTo(t, to),
           to = "deleted" => At(t, "closed") /\ warned' = warned,
           to = "cleaned" => /\ At(t, "disced")
                             /\ ks = {k \in Key : ConnOf[k] = call[t].conn}
                             /\ warned' = warned \ {call[t].conn},
           UNCHANGED <<conns, objs, held, qheld, intact, early>>
    PROVE  IInv'
<1>1. StoreInv' /\ (\A j \in Key \ ks : store'[j] = store[j]) /\ (\A j \in ks : j \notin Keys')
  BY DiscardEffect DEF IInv, TypeOK, StoreInv
<1>2. /\ call[t] \in Call
      /\ call[t].at \in {"closed", "disced"}
      /\ <<t, call[t].conn>> \in held
      /\ ~At(t, "idle")
      /\ warned' \subseteq warned
  BY DEF IInv, TypeOK, At, CallsAreTheThreads
<1>3. /\ call'[t].at = to /\ call'[t].key = call[t].key /\ call'[t].conn = call[t].conn
      /\ call'[t] \in Call
      /\ \A u \in Thread \ {t} : call'[u] = call[u]
  BY <1>2 DEF IInv, TypeOK, Call, Step, MoveTo
<1>4. \A u \in Thread \ {t} : InMQ(u) /\ call[u].conn \notin early => call[u].key \in Key \ ks
  BY <1>2, KeysApart DEF IInv, CallsAreTheThreads, At, InMQ
<1>5. TypeOK' /\ OwnBuffers' /\ NoLeak'
  BY <1>1, <1>2, <1>3 DEF IInv, TypeOK, StoreInv, MoveTo
<1>6. CallsAreTheThreads'
  BY <1>2, <1>3 DEF IInv, CallsAreTheThreads, At, InMQ
<1>7. HeldOrLeaving' /\ HeldApart' /\ IntactInMQ' /\ OwnMessage'
  <2>1. call[t].at = "disced" => call'[t].at = "cleaned"
    BY <1>3 DEF At
  <2>2. HeldOrLeaving'
    <3> SUFFICES ASSUME NEW u \in Thread, NEW c \in HConn, <<u, c>> \in held,
                        c \notin conns \cup warned' \cup early
                 PROVE  call'[u].at \in {"disced", "cleaned"} /\ call'[u].conn = c
      BY DEF HeldOrLeaving
    <3>1. CASE c \in warned
      <4>1. c = call[t].conn /\ to = "cleaned"
        BY <3>1
      <4>2. u = t
        BY <1>2, <4>1 DEF IInv, HeldApart
      <4> QED
        BY <1>3, <4>1, <4>2
    <3>2. CASE c \notin warned
      <4>1. call[u].at \in {"disced", "cleaned"} /\ call[u].conn = c
        BY <3>2 DEF IInv, HeldOrLeaving
      <4> QED
        BY <1>2, <1>3, <2>1, <4>1
    <3> QED
      BY <3>1, <3>2
  <2>3. t \notin intact /\ \A u \in intact : u \in Thread
    BY <1>2 DEF IInv, TypeOK, IntactInMQ, At
  <2>4. IntactInMQ' /\ OwnMessage'
    BY <1>3, <2>3 DEF IInv, IntactInMQ, OwnMessage, At
  <2>5. HeldApart'
    BY DEF IInv, HeldApart
  <2> QED
    BY <2>2, <2>4, <2>5
<1>8. BufferStays'
  BY <1>1, <1>2, <1>3, <1>4 DEF IInv, BufferStays, InMQ, At, Keys, BufferOf
<1>9. NoOrphans'
  <2> SUFFICES ASSUME NEW j \in Keys'
               PROVE  \/ ConnOf[j] \in (conns \cup warned \cup early)'
                      \/ \E u \in Thread : At(u, "disced")' /\ call'[u].conn = ConnOf[j]
    BY DEF NoOrphans, At
  <2>1. j \notin ks /\ j \in Keys
    BY <1>1 DEF Keys
  <2>2. \/ ConnOf[j] \in conns \cup warned \cup early
        \/ \E u \in Thread : At(u, "disced") /\ call[u].conn = ConnOf[j]
    BY <2>1 DEF IInv, NoOrphans
  <2>3. ASSUME to = "cleaned" PROVE ConnOf[j] # call[t].conn
    <3>2. j \in Key
      BY DEF Keys
    <3> QED
      BY <2>1, <2>3, <3>2
  <2>4. At(t, "disced") => to = "cleaned"
    BY DEF At
  <2>5. ConnOf[j] \in warned => ConnOf[j] \in warned'
    BY <2>3
  <2> QED
    BY <2>2, <2>3, <2>4, <2>5, <1>3 DEF At
<1> QED
  BY <1>5, <1>6, <1>7, <1>8, <1>9 DEF IInv

LEMMA DiscBeginStep ==
    ASSUME IInv, PrivateConnections, NEW t \in Thread, NEW c \in HConn, DiscBegin(t, c)
    PROVE  IInv'
<1> DEFINE new == [Idle EXCEPT !.at = "disced", !.conn = c]
<1>1. /\ call[t].at = "idle" /\ <<t, c>> \in held
      /\ conns' = conns \ {c} /\ objs' = {k \in objs : ConnOf[k] # c}
      /\ call' = [call EXCEPT ![t] = new]
      /\ UNCHANGED <<store, heap, held, qheld, intact, warned, early>>
  BY HoldsOwn DEF DiscBegin, At, storeVars
<1>2. new \in Call /\ new.at = "disced" /\ new.conn = c
  BY DEF Idle, Call, Step
<1>3. call'[t] = new /\ \A u \in Thread \ {t} : call'[u] = call[u]
  BY <1>1 DEF IInv, TypeOK
<1> HIDE DEF new
<1>5. TypeOK' /\ OwnBuffers' /\ NoLeak'
  BY <1>1, <1>2, <1>3 DEF IInv, TypeOK, StoreTypeOK, OwnBuffers, NoLeak, Keys, BufferOf
<1>6. CallsAreTheThreads'
  BY <1>1, <1>2, <1>3 DEF IInv, CallsAreTheThreads, At, InMQ
<1>7. HeldOrLeaving' /\ HeldApart' /\ IntactInMQ' /\ OwnMessage'
  <2>1. HeldApart'
    BY <1>1 DEF IInv, HeldApart
  <2>2. HeldOrLeaving'
    BY <1>1, <1>2, <1>3 DEF IInv, HeldOrLeaving, HeldApart
  <2>3. IntactInMQ' /\ OwnMessage'
    BY <1>1, <1>2, <1>3 DEF IInv, IntactInMQ, OwnMessage, At
  <2> QED
    BY <2>1, <2>2, <2>3
<1>8. BufferStays'
  BY <1>1, <1>2, <1>3 DEF IInv, BufferStays, InMQ, At, Keys, BufferOf
<1>9. NoOrphans'
  BY <1>1, <1>2, <1>3 DEF IInv, NoOrphans, At, Keys
<1> QED
  BY <1>5, <1>6, <1>7, <1>8, <1>9 DEF IInv

LEMMA DiscReturnStep ==
    ASSUME IInv, PrivateConnections, NEW t \in Thread, DiscReturn(t)
    PROVE  IInv'
<1>1. /\ call[t].at = "cleaned"
      /\ held' = held \ {<<t, call[t].conn>>}
      /\ call' = [call EXCEPT ![t] = Idle]
      /\ UNCHANGED <<store, heap, conns, objs, qheld, intact, warned, early>>
  BY DEF DiscReturn, At, Finish, storeVars, PrivateConnections
<1>2. Idle \in Call /\ Idle.at = "idle"
  BY DEF Idle, Call, Step
<1>3. call'[t] = Idle /\ \A u \in Thread \ {t} : call'[u] = call[u]
  BY <1>1 DEF IInv, TypeOK
<1>4. TypeOK' /\ OwnBuffers' /\ NoLeak'
  BY <1>1, <1>2, <1>3 DEF IInv, TypeOK, StoreTypeOK, OwnBuffers, NoLeak, Keys, BufferOf
<1>5. CallsAreTheThreads'
  BY <1>1, <1>2, <1>3 DEF IInv, CallsAreTheThreads, At, InMQ
<1>6. HeldOrLeaving' /\ HeldApart' /\ IntactInMQ' /\ OwnMessage'
  BY <1>1, <1>2, <1>3 DEF IInv, HeldOrLeaving, HeldApart, IntactInMQ, OwnMessage, At
<1>7. BufferStays'
  BY <1>1, <1>2, <1>3 DEF IInv, BufferStays, InMQ, At, Keys, BufferOf
<1>8. NoOrphans'
  BY <1>1, <1>2, <1>3 DEF IInv, NoOrphans, At, Keys
<1> QED
  BY <1>4, <1>5, <1>6, <1>7, <1>8 DEF IInv

LEMMA IInvStep ==
    ASSUME IInv, PrivateConnections, [Next]_vars
    PROVE  IInv'
<1>1. ASSUME NEW t \in Thread, NEW c \in HConn,
             Connect(t, c) \/ Drop(t, c) \/ DiscBegin(t, c) \/ DiscWarns(t, c)
      PROVE  IInv'
  BY <1>1, ConnectStep, DropStep, DiscBeginStep, DiscWarnsStep
<1>2. ASSUME NEW t \in Thread, NEW k \in Key, Open(t, k) \/ CloseWarns(t, k) PROVE IInv'
  BY <1>2, OpenStep
<1>3. ASSUME NEW t \in Thread, NEW k \in Key, NEW n \in Length, Prepare(t, k, n) PROVE IInv'
  <2> DEFINE new == [at |-> "ready", conn |-> ConnOf[k], key |-> k, len |-> n, buf |-> None]
  <2>1. new \in Call
    BY StoreAssumption DEF Call, Step
  <2>2. <<t, ConnOf[k]>> \in held
    BY <1>3, HoldsOwn DEF Prepare
  <2>3. intact' = intact \ {t}
    BY <1>3 DEF Prepare, IInv, IntactInMQ, At
  <2> QED
    BY <1>3, <2>1, <2>2, <2>3, QuietStep DEF Prepare, At, IInv, TypeOK, handleVars
<1>4. ASSUME NEW t \in Thread, GetBegin(t) PROVE IInv'
  BY <1>4, GetBeginStep
<1>5. Idle \in Call /\ Idle.at = "idle"
  BY DEF Idle, Call, Step
<1>6. ASSUME NEW t \in Thread, GetNoMemory(t) PROVE IInv'
  <2>1. intact' = intact \ {t}
    BY <1>6 DEF GetNoMemory, IInv, IntactInMQ, At
  <2> QED
    BY <1>5, <1>6, <2>1, QuietStep DEF GetNoMemory, Finish, At, IInv, TypeOK, handleVars
<1>7. ASSUME NEW t \in Thread, Deliver(t) PROVE IInv'
  BY <1>7, DeliverStep
<1>8. ASSUME NEW t \in Thread, GetFails(t) PROVE IInv'
  <2> DEFINE new == [call[t] EXCEPT !.at = "failed"]
  <2>1. call[t] \in Call /\ call[t].at = "getting"
    BY <1>8 DEF GetFails, At, IInv, TypeOK
  <2>2. new \in Call /\ new.at = "failed" /\ new.conn = call[t].conn /\ new.key = call[t].key
        /\ new.len = call[t].len
    BY <2>1 DEF Call, Step
  <2>3. call' = [call EXCEPT ![t] = new]
    BY <1>8 DEF GetFails, MoveTo
  <2>4. intact' = intact \ {t}
    BY <1>8 DEF GetFails, IInv, IntactInMQ, At
  <2>5. new.key \in Key /\ ConnOf[new.key] = new.conn
        /\ new.len \in Length /\ <<t, new.conn>> \in held
    BY <2>1, <2>2 DEF IInv, CallsAreTheThreads, At
  <2> HIDE DEF new
  <2> QED
    BY <1>8, <2>1, <2>2, <2>3, <2>4, <2>5, QuietStep DEF GetFails, At, IInv, TypeOK, handleVars
<1>9. ASSUME NEW t \in Thread, GetReturn(t) PROVE IInv'
  BY <1>5, <1>9, QuietStep DEF GetReturn, Finish, At, IInv, TypeOK, handleVars
<1>10. ASSUME NEW t \in Thread, NEW k \in Key, CloseBegin(t, k) PROVE IInv'
  <2> DEFINE new == [Idle EXCEPT !.at = "closed", !.conn = ConnOf[k], !.key = k]
  <2>1. new \in Call /\ new.at = "closed" /\ new.conn = ConnOf[k] /\ new.key = k
    BY StoreAssumption DEF Call, Step, Idle
  <2>2. <<t, ConnOf[k]>> \in held
    BY <1>10, HoldsOwn DEF CloseBegin
  <2>3. intact' = intact \ {t}
    BY <1>10 DEF CloseBegin, IInv, IntactInMQ, At
  <2>4. call' = [call EXCEPT ![t] = new]
    BY <1>10 DEF CloseBegin
  <2> HIDE DEF new
  <2> QED
    BY <1>10, <2>1, <2>2, <2>3, <2>4, QuietStep DEF CloseBegin, At, IInv, TypeOK
<1>11. ASSUME NEW t \in Thread, CloseDelete(t) PROVE IInv'
  <2>1. call[t].key \in Key /\ ConnOf[call[t].key] = call[t].conn
    BY <1>11 DEF CloseDelete, IInv, CallsAreTheThreads, At
  <2> QED
    BY <1>11, <2>1, DeleteStep DEF CloseDelete, DeleteQ, handleVars
<1>12. ASSUME NEW t \in Thread, CloseReturn(t) PROVE IInv'
  <2>1. intact' = intact \ {t} /\ qheld' \subseteq Thread \X Key
    BY <1>12 DEF CloseReturn, IInv, IntactInMQ, At, TypeOK
  <2> QED
    BY <1>5, <1>12, <2>1, QuietStep DEF CloseReturn, Finish, At, IInv, TypeOK
<1>14. ASSUME NEW t \in Thread, DiscDelete(t) PROVE IInv'
  BY <1>14, DeleteStep DEF DiscDelete, DeleteAll
<1>15. ASSUME NEW t \in Thread, DiscReturn(t) PROVE IInv'
  BY <1>15, DiscReturnStep
<1>16. CASE UNCHANGED vars
  BY <1>16 DEF vars, IInv, TypeOK, StoreTypeOK, storeVars, OwnBuffers, NoLeak, Keys, BufferOf,
     CallsAreTheThreads, HeldApart, HeldOrLeaving, IntactInMQ, BufferStays, OwnMessage, NoOrphans,
     At, InMQ
<1> QED
  BY <1>1, <1>2, <1>3, <1>4, <1>6, <1>7, <1>8, <1>9, <1>10, <1>11, <1>12, <1>14, <1>15,
     <1>16 DEF Next

\* Private connections are an assumption on the constants of the specification.
LEMMA IInvAlways ==
    ASSUME PrivateConnections
    PROVE  Spec => []IInv
<1>1. IInv /\ [Next]_vars => IInv'
  BY IInvStep
<1> QED
  BY <1>1, IInvInit, PTL DEF Spec

\* The state of GetCalls keeps its types, for any threads, connections and keys.
THEOREM TypeCorrect ==
    ASSUME PrivateConnections
    PROVE  Spec => []TypeOK
<1>1. IInv => TypeOK
  BY DEF IInv
<1> QED
  BY <1>1, IInvAlways, PTL

\* With a connection per thread, the buffer that MQGET passes to MQ stays the
\* one of its object until the message is copied (ibmmqc.c:1004-1028), on every
\* connection whose number was given out only after its last holder let go of it.
THEOREM BufferStaysAlways ==
    ASSUME PrivateConnections
    PROVE  Spec => []BufferStays
<1>1. IInv => BufferStays
  BY DEF IInv
<1> QED
  BY <1>1, IInvAlways, PTL

\* With a connection per thread, every MQGET returns the message MQ delivered to
\* it, for any number of threads, connections and objects (ibmmqc.c:1026), while
\* no number has been given out early.
THEOREM OwnMessageAlways ==
    ASSUME PrivateConnections
    PROVE  Spec => []OwnMessage
<1>1. IInv => OwnMessage
  BY DEF IInv
<1> QED
  BY <1>1, IInvAlways, PTL

\* With a connection per thread, a connection that is gone has left buffers behind
\* only if its MQDISC ended with a warning, or its number was given out early
\* (ibmmqc.c:746-748).
THEOREM NoOrphansAlways ==
    ASSUME PrivateConnections
    PROVE  Spec => []NoOrphans
<1>1. IInv => NoOrphans
  BY DEF IInv
<1> QED
  BY <1>1, IInvAlways, PTL

-----------------------------------------------------------------------------

\* What a call knows that is about to change the store, whoever shares its connection.
CallsHaveKeys ==
    \A t \in Thread :
        /\ At(t, "ready") => call[t].key \in Key /\ call[t].len \in Length
        /\ At(t, "closed") => call[t].key \in Key
        /\ At(t, "disced") => call[t].conn \in HConn

StoreAndCalls == StoreInv /\ call \in [Thread -> Call] /\ CallsHaveKeys

\* Every change that a thread makes to the store is one call of updateQ, deleteQ or deleteAll.
LEMMA StoreStep ==
    ASSUME StoreAndCalls, [Next]_vars
    PROVE  [StoreNext]_storeVars
<1> USE DEF StoreAndCalls, CallsHaveKeys
<1>1. ASSUME NEW t \in Thread, GetBegin(t) PROVE StoreNext
  BY <1>1 DEF GetBegin, StoreNext
<1>2. ASSUME NEW t \in Thread, CloseDelete(t) PROVE StoreNext
  BY <1>2 DEF CloseDelete, StoreNext
<1>3. ASSUME NEW t \in Thread, DiscDelete(t) PROVE StoreNext
  BY <1>3 DEF DiscDelete, StoreNext
<1>4. CASE UNCHANGED vars
  BY <1>4 DEF vars, storeVars
<1>5. CASE Next
  BY <1>1, <1>2, <1>3, <1>5 DEF Next, Connect, Drop, DiscBegin, DiscWarns, Open, CloseBegin,
     CloseWarns, Prepare, GetNoMemory, Deliver, GetFails, GetReturn, CloseReturn, DiscReturn
<1> QED
  BY <1>4, <1>5

LEMMA StoreAndCallsStep ==
    ASSUME StoreAndCalls, [Next]_vars
    PROVE  StoreAndCalls'
<1>1. StoreInv'
  BY StoreStep, StoreInvStep DEF StoreAndCalls
<1>2. \A t \in Thread : call[t] \in Call
  BY DEF StoreAndCalls
<1>3. ASSUME NEW t \in Thread, NEW new \in Call, call' = [call EXCEPT ![t] = new],
             new.at = "ready" => new.key \in Key /\ new.len \in Length,
             new.at = "closed" => new.key \in Key,
             new.at = "disced" => new.conn \in HConn
      PROVE  StoreAndCalls'
  BY <1>1, <1>3 DEF StoreAndCalls, CallsHaveKeys, At
<1>4. Idle \in Call /\ Idle.at = "idle"
  BY DEF Idle, Call, Step
<1>5. ASSUME NEW t \in Thread, NEW step \in Step \ {"ready", "closed", "disced"}, MoveTo(t, step)
      PROVE  StoreAndCalls'
  <2> DEFINE new == [call[t] EXCEPT !.at = step]
  <2>1. new \in Call /\ new.at = step
    BY <1>2 DEF Call
  <2>2. call' = [call EXCEPT ![t] = new]
    BY <1>5 DEF MoveTo
  <2> HIDE DEF new
  <2> QED
    BY <1>3, <2>1, <2>2
<1>6. ASSUME NEW t \in Thread, Finish(t) PROVE StoreAndCalls'
  BY <1>3, <1>4, <1>6 DEF Finish
<1>7. ASSUME call' = call PROVE StoreAndCalls'
  BY <1>1, <1>7 DEF StoreAndCalls, CallsHaveKeys, At
<1>8. ASSUME NEW t \in Thread, NEW k \in Key, NEW n \in Length, Prepare(t, k, n) PROVE StoreAndCalls'
  <2> DEFINE new == [at |-> "ready", conn |-> ConnOf[k], key |-> k, len |-> n, buf |-> None]
  <2>1. new \in Call
    BY StoreAssumption DEF Call, Step
  <2> QED
    BY <1>3, <1>8, <2>1 DEF Prepare
<1>9. ASSUME NEW t \in Thread, NEW k \in Key, CloseBegin(t, k) PROVE StoreAndCalls'
  <2> DEFINE new == [Idle EXCEPT !.at = "closed", !.conn = ConnOf[k], !.key = k]
  <2>1. new \in Call /\ new.at = "closed" /\ new.key = k
    BY StoreAssumption DEF Call, Step, Idle
  <2>2. call' = [call EXCEPT ![t] = new]
    BY <1>9 DEF CloseBegin
  <2> HIDE DEF new
  <2> QED
    BY <1>3, <2>1, <2>2
<1>10. ASSUME NEW t \in Thread, NEW c \in HConn, DiscBegin(t, c) PROVE StoreAndCalls'
  <2> DEFINE new == [Idle EXCEPT !.at = "disced", !.conn = c]
  <2>1. new \in Call /\ new.at = "disced" /\ new.conn = c
    BY DEF Call, Step, Idle
  <2>2. call' = [call EXCEPT ![t] = new]
    BY <1>10 DEF DiscBegin
  <2> HIDE DEF new
  <2> QED
    BY <1>3, <2>1, <2>2
<1>11. ASSUME NEW t \in Thread, GetBegin(t) PROVE StoreAndCalls'
  <2> DEFINE new == [call[t] EXCEPT !.at = "getting", !.buf = store'[call[t].key].buf]
  <2>1. call[t].key \in Key /\ call[t].len \in Length /\ UpdateQ(call[t].key, call[t].len)
    BY <1>11 DEF GetBegin, StoreAndCalls, CallsHaveKeys
  <2>2. store'[call[t].key] \in GetBuffer
    BY <2>1, UpdateQEffect DEF StoreAndCalls, StoreInv, StoreTypeOK, Keys
  <2>3. new \in Call /\ new.at = "getting"
    BY <1>2, <2>2 DEF Call, Step, GetBuffer
  <2>4. call' = [call EXCEPT ![t] = new]
    BY <1>11 DEF GetBegin
  <2> HIDE DEF new
  <2> QED
    BY <1>3, <2>3, <2>4
<1>12. ASSUME NEW t \in Thread,
              \/ Deliver(t) \/ GetFails(t) \/ CloseDelete(t) \/ DiscDelete(t)
       PROVE  StoreAndCalls'
  BY <1>5, <1>12 DEF Deliver, GetFails, CloseDelete, DiscDelete, Step
<1>13. ASSUME NEW t \in Thread,
              \/ GetNoMemory(t) \/ GetReturn(t) \/ CloseReturn(t) \/ DiscReturn(t)
       PROVE  StoreAndCalls'
  BY <1>6, <1>13 DEF GetNoMemory, GetReturn, CloseReturn, DiscReturn
<1>14. ASSUME NEW t \in Thread,
              \/ \E c \in HConn : Connect(t, c) \/ Drop(t, c) \/ DiscWarns(t, c)
              \/ \E k \in Key : Open(t, k) \/ CloseWarns(t, k)
       PROVE  StoreAndCalls'
  BY <1>7, <1>14 DEF Connect, Drop, DiscWarns, Open, CloseWarns
<1>15. CASE UNCHANGED vars
  BY <1>7, <1>15 DEF vars
<1>16. CASE Next
  BY <1>8, <1>9, <1>10, <1>11, <1>12, <1>13, <1>14, <1>16 DEF Next
<1> QED
  BY <1>15, <1>16

LEMMA StoreAndCallsInit == Init => StoreAndCalls
<1> SUFFICES ASSUME Init PROVE StoreAndCalls
  OBVIOUS
<1>1. StoreInv
  BY StoreInvInit DEF Init
<1>2. Idle \in Call /\ Idle.at = "idle"
  BY DEF Idle, Call, Step
<1> QED
  BY <1>1, <1>2 DEF StoreAndCalls, CallsHaveKeys, Init, At

\* Threads that call MQGET, MQCLOSE and MQDISC use the map of buffers as BufferStore specifies
\* it, also when they share a connection: the GIL is held around each call of updateQ, deleteQ
\* and deleteAll (ibmmqc.c:747, 824, 1005).
THEOREM ImplementsStore == Spec => StoreSpec
<1>1. Init => StoreInit
  BY DEF Init
<1>2. StoreAndCalls /\ [Next]_vars => [StoreNext]_storeVars
  BY StoreStep
<1>3. StoreAndCalls /\ [Next]_vars => StoreAndCalls'
  BY StoreAndCallsStep
<1> QED
  BY <1>1, <1>2, <1>3, StoreAndCallsInit, PTL DEF Spec, StoreSpec

\* However threads share connections, no buffer is left that no entry refers to, and no two
\* entries have one (ibmmqc.c:369-473).
THEOREM NoLeakAlways == Spec => [](OwnBuffers /\ NoLeak)
  BY ImplementsStore, StoreKeepsBuffersApart, PTL

-----------------------------------------------------------------------------
(* Queue.get *)

\* What the second MQGET asks for: the message that the first found, with the length
\* that was noted for it.
RetryAsks ==
    \A c \in Consumer : retrying[c] # Unset =>
        /\ md[c] \in Msg
        /\ prevLength[c] = RetryLength(md[c], retrying[c])

QueueInv == QueueTypeOK /\ NothingLost /\ RetryAsks

\* The length noted for the second MQGET is enough for the message of the first, also
\* when it is converted, if that at most doubles it (mqqueue.py:317-323).
LEMMA RetryLengthFits ==
    ASSUME NEW m \in Msg, NEW opts \in Options
    PROVE  /\ RetryLength(m, opts) \in Nat
           /\ Raw[m] <= RetryLength(m, opts)
           /\ opts.convert => RetryLength(m, opts) = 2 * Raw[m]
BY GetAssumption DEF RetryLength, Options

LEMMA QueueInvInit == QueueInit => QueueInv
BY GetAssumption DEF QueueInit, QueueInv, QueueTypeOK, NothingLost, RetryAsks, Msg

\* A message keeps its reason for being out of the queue.
LEMMA StaysAccounted ==
    ASSUME NothingLost, put' = put, put \in 0..Messages,
           \A m \in 1..put \ queue' : m \in 1..put \ queue,
           \A m \in 1..put \ queue' : handed[m] # "nothing" => handed'[m] # "nothing",
           \A m \in 1..put \ queue', n \in Msg : <<n, m>> \in swaps => <<n, m>> \in swaps'
    PROVE  NothingLost'
<1> SUFFICES ASSUME NEW m \in 1..put \ queue',
                    ~(handed'[m] # "nothing"), ~Outgrows(m)
             PROVE  \E n \in Msg : Swapped(n, m)'
  BY DEF NothingLost, Outgrows
<1>1. PICK n \in Msg : Swapped(n, m)
  BY DEF NothingLost
<1> QED
  BY <1>1 DEF Swapped

\* A get that ends or fails and leaves the queue alone.
LEMMA QuietGet ==
    ASSUME QueueInv, NEW c \in Consumer,
           retrying' = [retrying EXCEPT ![c] = Unset],
           \E id \in Msg \cup {Unset} : md' = [md EXCEPT ![c] = id],
           UNCHANGED <<put, queue, uow, handed, prevLength, swaps>>
    PROVE  QueueInv'
<1>1. QueueTypeOK'
  BY DEF QueueInv, QueueTypeOK
<1>2. NothingLost'
  BY StaysAccounted DEF QueueInv, QueueTypeOK
<1>3. RetryAsks'
  BY DEF QueueInv, QueueTypeOK, RetryAsks, RetryLength
<1> QED
  BY <1>1, <1>2, <1>3 DEF QueueInv

\* A get that takes m off the queue, hands it over, and ends.
LEMMA TakeAndHand ==
    ASSUME QueueInv, NEW c \in Consumer, NEW m \in queue, NEW what \in {"part", "whole"},
           NEW opts \in Options, Take(c, m, opts), Hand(m, what),
           retrying' = [retrying EXCEPT ![c] = Unset],
           \E id \in Msg \cup {Unset} : md' = [md EXCEPT ![c] = id],
           UNCHANGED <<put, prevLength, swaps>>
    PROVE  QueueInv'
<1> USE DEF QueueInv, QueueTypeOK
<1>1. m \in 1..put /\ m \in Msg
  BY GetAssumption DEF Msg
<1>2. uow' \in [Consumer -> SUBSET (1..put)]
  BY <1>1 DEF Take
<1>3. QueueTypeOK'
  BY <1>1, <1>2 DEF Take, Hand
<1>4. NothingLost'
  <2>1. \A x \in 1..put \ queue' : x = m \/ x \in 1..put \ queue
    BY DEF Take
  <2>2. handed'[m] # "nothing" /\ \A x \in 1..put : x # m => handed'[x] = handed[x]
    BY <1>1, GetAssumption DEF Hand, Msg
  <2>3. ASSUME NEW x \in 1..put \ queue', x # m
        PROVE  handed'[x] # "nothing" \/ Outgrows(x) \/ \E n \in Msg : Swapped(n, x)'
    <3>1. handed[x] # "nothing" \/ Outgrows(x) \/ \E n \in Msg : Swapped(n, x)
      BY <2>1, <2>3 DEF NothingLost
    <3>2. ASSUME NEW n \in Msg, Swapped(n, x) PROVE Swapped(n, x)'
      BY <3>2 DEF Swapped
    <3> QED
      BY <2>2, <2>3, <3>1, <3>2
  <2>4. Outgrows(m)' = Outgrows(m) /\ \A x \in 1..put : Outgrows(x)' = Outgrows(x)
    BY DEF Outgrows
  <2> QED
    BY <2>2, <2>3, <2>4 DEF NothingLost
<1>5. RetryAsks'
  BY DEF RetryAsks, RetryLength
<1> QED
  BY <1>3, <1>4, <1>5

LEMMA RetryReturnsStep == ASSUME QueueInv, NEW c \in Consumer, RetryReturns(c) PROVE QueueInv'
<1>1. retrying[c] \in Options
  BY DEF QueueInv, QueueTypeOK, RetryReturns
<1>2. PICK m \in Msg : /\ m \in queue
                       /\ Take(c, m, retrying[c]) /\ Hand(m, "whole")
                       /\ md' = [md EXCEPT ![c] = m]
  BY DEF RetryReturns, Finds
<1> QED
  BY <1>1, <1>2, TakeAndHand DEF RetryReturns

\* The message that is taken with a warning and handed to nobody is longer, converted,
\* than what was asked for, which is twice the length of the message of the first MQGET.
LEMMA RetryWarnsStep == ASSUME QueueInv, NEW c \in Consumer, RetryWarns(c) PROVE QueueInv'
<1>1. PICK m \in Msg : /\ Finds(md[c], m, retrying[c])
                       /\ Unconverted(m, prevLength[c], retrying[c])
                       /\ Take(c, m, retrying[c])
                       /\ swaps' = IF retrying[c].match THEN swaps
                                                        ELSE swaps \cup {<<md[c], m>>}
  BY DEF RetryWarns
<1>2. PICK n \in Msg : n = md[c]
  BY DEF QueueInv, RetryAsks, RetryWarns
<1>3. m \in queue /\ m \in 1..put /\ retrying[c] \in Options
  BY <1>1 DEF Finds, QueueInv, QueueTypeOK, RetryWarns
<1>4. prevLength[c] = 2 * Raw[n] /\ Raw[m] <= 2 * Raw[n] /\ Converted[m] > 2 * Raw[n]
  <2>1. Raw[m] <= prevLength[c] /\ retrying[c].convert /\ Converted[m] > prevLength[c]
    BY <1>1 DEF Unconverted
  <2>2. prevLength[c] = RetryLength(n, retrying[c])
    BY <1>2 DEF QueueInv, RetryAsks, RetryWarns
  <2> QED
    BY <1>3, <2>1, <2>2, RetryLengthFits
<1>5. Outgrows(m) \/ Swapped(n, m)'
  <2>1. CASE retrying[c].match
    <3>1. n = m
      BY <1>1, <1>2, <2>1, GetAssumption DEF Finds, Matches, Msg
    <3> QED
      BY <1>4, <3>1 DEF Outgrows
  <2>2. CASE ~retrying[c].match
    <3>1. <<n, m>> \in swaps'
      BY <1>1, <1>2, <2>2
    <3>2. Raw[n] \in Nat /\ Raw[m] \in Nat /\ Converted[m] \in Nat
      BY GetAssumption
    <3>3. Outgrows(m) \/ Raw[n] < Raw[m]
      BY <1>4, <3>2 DEF Outgrows
    <3> QED
      BY <1>4, <3>1, <3>3 DEF Swapped
  <2> QED
    BY <2>1, <2>2
<1>6. QueueTypeOK'
  BY <1>1, <1>2, <1>3 DEF QueueInv, QueueTypeOK, Take, RetryWarns
<1>7. NothingLost'
  <2> SUFFICES ASSUME NEW x \in 1..put \ queue'
               PROVE  handed[x] # "nothing" \/ Outgrows(x) \/ \E k \in Msg : Swapped(k, x)'
    BY DEF NothingLost, RetryWarns, Outgrows
  <2>1. CASE x = m
    BY <1>5, <2>1
  <2>2. CASE x # m
    <3>1. x \in 1..put \ queue
      BY <1>1, <2>2 DEF Take
    <3>2. ASSUME NEW k \in Msg, Swapped(k, x) PROVE Swapped(k, x)'
      BY <1>1, <3>2 DEF Swapped
    <3> QED
      BY <3>1, <3>2 DEF QueueInv, NothingLost
  <2> QED
    BY <2>1, <2>2
<1>8. RetryAsks'
  BY DEF QueueInv, QueueTypeOK, RetryAsks, RetryWarns, RetryLength
<1> QED
  BY <1>6, <1>7, <1>8 DEF QueueInv

\* The first MQGET finds the message longer than __prev_length.
LEMMA GetRetriesStep ==
    ASSUME QueueInv, NEW c \in Consumer, NEW id, NEW opts \in Options, GetRetries(c, id, opts)
    PROVE  /\ QueueInv'
           /\ prevLength'[c] >= prevLength[c]
<1>1. PICK m \in Msg : /\ Finds(id, m, opts)
                       /\ TooLong(m, FirstLength(c, Unset, opts), opts)
                       /\ md' = [md EXCEPT ![c] = m]
                       /\ prevLength' = [prevLength EXCEPT ![c] = RetryLength(m, opts)]
  BY DEF GetRetries
<1>2. ~opts.accept /\ Raw[m] > prevLength[c]
  BY <1>1 DEF TooLong, FirstLength
<1>3. RetryLength(m, opts) \in Nat /\ Raw[m] <= RetryLength(m, opts)
  BY RetryLengthFits
<1>4. QueueTypeOK'
  BY <1>1, <1>3 DEF QueueInv, QueueTypeOK, GetRetries
<1>5. NothingLost'
  BY StaysAccounted DEF QueueInv, QueueTypeOK, GetRetries
<1>6. RetryAsks'
  <2>1. /\ md'[c] = m /\ prevLength'[c] = RetryLength(m, opts) /\ retrying'[c] = opts
        /\ \A d \in Consumer \ {c} : /\ md'[d] = md[d] /\ prevLength'[d] = prevLength[d]
                                     /\ retrying'[d] = retrying[d]
    BY <1>1 DEF QueueInv, QueueTypeOK, GetRetries
  <2>2. RetryLength(m, opts)' = RetryLength(m, opts)
    BY DEF RetryLength
  <2> QED
    BY <2>1, <2>2 DEF QueueInv, RetryAsks, RetryLength
<1>7. prevLength'[c] >= prevLength[c]
  BY <1>1, <1>2, <1>3, GetAssumption DEF QueueInv, QueueTypeOK
<1> QED
  BY <1>4, <1>5, <1>6, <1>7 DEF QueueInv

\* Commits keep what was handed over; a backout puts back what it takes away.
LEMMA UnitOfWorkStep ==
    ASSUME QueueInv, NEW c \in Consumer, Commit(c) \/ Backout(c)
    PROVE  QueueInv'
<1>1. CASE Commit(c)
  <2>1. QueueTypeOK'
    BY <1>1 DEF QueueInv, QueueTypeOK, Commit
  <2>2. NothingLost'
    BY <1>1, StaysAccounted DEF QueueInv, QueueTypeOK, Commit
  <2>3. RetryAsks'
    BY <1>1 DEF QueueInv, RetryAsks, Commit, RetryLength
  <2> QED
    BY <2>1, <2>2, <2>3 DEF QueueInv
<1>2. CASE Backout(c)
  <2>1. QueueTypeOK'
    BY <1>2 DEF QueueInv, QueueTypeOK, Backout
  <2>2. NothingLost'
    <3>1. \A m \in 1..put \ queue' : m \notin uow[c] /\ m \in 1..put \ queue /\ m \in Msg
      BY <1>2, GetAssumption DEF QueueInv, QueueTypeOK, Backout, Msg
    <3>2. \A m \in 1..put \ queue' : handed'[m] = handed[m]
      BY <1>2, <3>1 DEF Backout
    <3>3. \A m \in 1..put \ queue', n \in Msg : <<n, m>> \in swaps => <<n, m>> \in swaps'
      BY <1>2, <3>1 DEF Backout
    <3> QED
      BY <1>2, <3>1, <3>2, <3>3, StaysAccounted DEF QueueInv, QueueTypeOK, Backout
  <2>3. RetryAsks'
    BY <1>2 DEF QueueInv, RetryAsks, Backout, RetryLength
  <2> QED
    BY <2>1, <2>2, <2>3 DEF QueueInv
<1> QED
  BY <1>1, <1>2

LEMMA PutStep == ASSUME QueueInv, Put PROVE QueueInv'
<1>1. QueueTypeOK'
  BY GetAssumption DEF QueueInv, QueueTypeOK, Put
<1>2. NothingLost'
  <2> SUFFICES ASSUME NEW m \in 1..put' \ queue'
               PROVE  handed[m] # "nothing" \/ Outgrows(m) \/ \E n \in Msg : Swapped(n, m)'
    BY DEF NothingLost, Put, Outgrows
  <2>1. m \in 1..put \ queue
    BY DEF QueueInv, QueueTypeOK, Put
  <2>2. ASSUME NEW n \in Msg, Swapped(n, m) PROVE Swapped(n, m)'
    BY <2>2 DEF Swapped, Put
  <2> QED
    BY <2>1, <2>2 DEF QueueInv, NothingLost
<1>3. RetryAsks'
  BY DEF QueueInv, RetryAsks, Put, RetryLength
<1> QED
  BY <1>1, <1>2, <1>3 DEF QueueInv

LEMMA GetStep == ASSUME QueueInv, NEW c \in Consumer, Get(c) PROVE QueueInv'
<1>1. ASSUME NEW id \in {Unset, md[c]}, NEW max, NEW opts \in Options, GetTakes(c, id, max, opts)
      PROVE  QueueInv'
  <2>1. PICK m \in queue :
            /\ Take(c, m, opts)
            /\ Hand(m, IF Truncated(m, FirstLength(c, max, opts), opts)
                       THEN "part" ELSE "whole")
            /\ md' = [md EXCEPT ![c] = m]
    BY <1>1 DEF GetTakes, Finds
  <2>2. m \in Msg /\ retrying' = [retrying EXCEPT ![c] = Unset]
    BY <1>1, GetAssumption DEF GetTakes, QueueInv, QueueTypeOK, Msg
  <2>3. \E what \in {"part", "whole"} : Hand(m, what)
    BY <2>1
  <2>4. UNCHANGED <<put, prevLength, swaps>>
    BY <1>1 DEF GetTakes
  <2> QED
    BY <2>1, <2>2, <2>3, <2>4, TakeAndHand
<1>2. ASSUME NEW id \in {Unset, md[c]}, NEW max, NEW opts \in Options, GetTooLong(c, id, max, opts)
      PROVE  QueueInv'
  <2>1. retrying' = [retrying EXCEPT ![c] = Unset] /\ \E m \in Msg : md' = [md EXCEPT ![c] = m]
    BY <1>2 DEF GetTooLong, QueueInv, QueueTypeOK
  <2> QED
    BY <1>2, <2>1, QuietGet DEF GetTooLong
<1>3. ASSUME NEW id \in {Unset, md[c]}, NEW opts \in Options, GetRetries(c, id, opts)
      PROVE  QueueInv'
  BY <1>3, GetRetriesStep
<1>4. ASSUME NEW id \in {Unset, md[c]}, GetRaises(c, id) PROVE QueueInv'
  <2>1. retrying' = [retrying EXCEPT ![c] = Unset] /\ id \in Msg \cup {Unset}
    BY <1>4 DEF GetRaises, QueueInv, QueueTypeOK
  <2> QED
    BY <1>4, <2>1, QuietGet DEF GetRaises
<1>5. CASE RetryReturns(c)
  BY <1>5, RetryReturnsStep
<1>6. CASE RetryWarns(c)
  BY <1>6, RetryWarnsStep
<1>7. CASE RetryFails(c)
  <2>1. md' = [md EXCEPT ![c] = md[c]] /\ md[c] \in Msg \cup {Unset}
    BY <1>7 DEF RetryFails, QueueInv, QueueTypeOK
  <2> QED
    BY <1>7, <2>1, QuietGet DEF RetryFails
<1> QED
  BY <1>1, <1>2, <1>3, <1>4, <1>5, <1>6, <1>7 DEF Get

LEMMA QueueInvStep == QueueInv /\ [QueueNext]_queueVars => QueueInv'
<1> SUFFICES ASSUME QueueInv, [QueueNext]_queueVars PROVE QueueInv'
  OBVIOUS
<1>1. CASE UNCHANGED queueVars
  <2>1. QueueTypeOK' /\ RetryAsks'
    BY <1>1 DEF queueVars, QueueInv, QueueTypeOK, RetryAsks, RetryLength
  <2>2. NothingLost'
    BY <1>1, StaysAccounted DEF queueVars, QueueInv, QueueTypeOK
  <2> QED
    BY <2>1, <2>2 DEF QueueInv
<1> QED
  BY <1>1, PutStep, GetStep, UnitOfWorkStep DEF QueueNext

LEMMA QueueInvAlways == QueueSpec => []QueueInv
BY QueueInvInit, QueueInvStep, PTL DEF QueueSpec

\* The variables of QueueGet hold what they are declared to hold.
THEOREM QueueTypeCorrect == QueueSpec => []QueueTypeOK
<1>1. QueueInv => QueueTypeOK
  BY DEF QueueInv
<1> QED
  BY <1>1, QueueInvAlways, PTL

\* For any number of consumers, messages and lengths, a message leaves the queue without
\* being handed to an application only if conversion more than doubles it, or if a get that
\* does not match the MsgId took it in place of a shorter one (mqqueue.py:282-354).
THEOREM NothingLostAlways == QueueSpec => []NothingLost
<1>1. QueueInv => NothingLost
  BY DEF QueueInv
<1> QED
  BY <1>1, QueueInvAlways, PTL

\* The length noted for later gets never goes down (mqqueue.py:325).
THEOREM LengthNeverShrinksAlways == QueueSpec => LengthNeverShrinks
<1>1. QueueInv /\ [QueueNext]_queueVars =>
          [\A c \in Consumer : prevLength'[c] >= prevLength[c]]_queueVars
  <2> SUFFICES ASSUME QueueInv, QueueNext, NEW d \in Consumer PROVE prevLength'[d] >= prevLength[d]
    OBVIOUS
  <2>1. CASE UNCHANGED prevLength
    BY <2>1 DEF QueueInv, QueueTypeOK
  <2>2. ASSUME NEW c \in Consumer, NEW id, NEW opts \in Options, GetRetries(c, id, opts)
        PROVE  prevLength'[d] >= prevLength[d]
    <3>1. prevLength'[c] >= prevLength[c]
      BY <2>2, GetRetriesStep
    <3>2. d # c => prevLength'[d] = prevLength[d]
      BY <2>2 DEF GetRetries, QueueInv, QueueTypeOK
    <3> QED
      BY <3>1, <3>2 DEF QueueInv, QueueTypeOK
  <2> QED
    BY <2>1, <2>2 DEF QueueNext, Put, Commit, Backout, Get, GetTakes, GetTooLong, GetRaises,
       RetryReturns, RetryWarns, RetryFails
<1> QED
  BY <1>1, QueueInvAlways, PTL DEF QueueSpec, LengthNeverShrinks
=============================================================================
