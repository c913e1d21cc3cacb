------------------------------- MODULE GetCalls -------------------------------
(***************************************************************************)
(* Python threads that connect, open, MQGET, MQCLOSE and MQDISC through    *)
(* ibmmqc.c, and the message buffers of BufferStore they share.            *)
(*                                                                         *)
(* A C function holds the GIL except between Py_BEGIN_ALLOW_THREADS and    *)
(* Py_END_ALLOW_THREADS, where it is inside the MQ call.  An action is     *)
(* what happens between two places where another thread can run.  Inside   *)
(* one connection MQ runs one call at a time (MQCNO_HANDLE_SHARE_BLOCK,    *)
(* mqqmgr.py:165-169), so an MQ call is one action as well.                *)
(*                                                                         *)
(* A handle number is given out again as soon as MQ has let go of it.      *)
(* <<t, c>> and <<t, k>> are the QueueManager and the Queue that thread t  *)
(* made and that hold the connection number c and the key k.               *)
(***************************************************************************)
EXTENDS BufferStore

CONSTANTS
    Thread,
    With,       \* With[t]: the threads whose objects the application uses in t
    None

ASSUME CallAssumption ==
    /\ With \in [Thread -> SUBSET Thread]
    /\ \A t \in Thread : t \in With[t]
    /\ None \notin HConn /\ None \notin Key
    /\ None \notin Length /\ None \notin Buffer

VARIABLES
    conns,      \* connections MQ knows
    objs,       \* objects MQ has open
    held,       \* QueueManagers whose __handle is set
    qheld,      \* Queues whose __q_handle is set
    call,       \* call[t]: the call thread t is in
    intact,     \* threads whose buffer holds the message MQ put there for them
    warned,     \* history: connections that MQDISC ended with a warning
    early       \* history: numbers MQ gave out while a QueueManager of another
                \*   thread still held them

handleVars == <<conns, objs, held, qheld, warned, early>>
vars == <<store, heap, conns, objs, held, qheld, call, intact, warned, early>>

Step == {"idle", "ready", "getting", "got", "failed", "closed", "deleted",
         "disced", "cleaned"}

Call == [at: Step, conn: HConn \cup {None}, key: Key \cup {None},
         len: Length \cup {None}, buf: Buffer \cup {None}]

Idle == [at |-> "idle", conn |-> None, key |-> None, len |-> None, buf |-> None]

TypeOK ==
    /\ StoreTypeOK
    /\ conns \subseteq HConn
    /\ objs \subseteq Key
    /\ held \subseteq Thread \X HConn
    /\ qheld \subseteq Thread \X Key
    /\ call \in [Thread -> Call]
    /\ intact \subseteq Thread
    /\ warned \subseteq HConn
    /\ early \subseteq HConn

Init ==
    /\ StoreInit
    /\ conns = {} /\ objs = {} /\ held = {} /\ qheld = {}
    /\ call = [t \in Thread |-> Idle]
    /\ intact = {} /\ warned = {} /\ early = {}

At(t, step) == call[t].at = step

MoveTo(t, step) == call' = [call EXCEPT ![t].at = step]

Finish(t) == call' = [call EXCEPT ![t] = Idle]

-----------------------------------------------------------------------------

\* Thread t has a QueueManager with the number c, a Queue with the key k.
Holds(t, c) == \E u \in With[t] : <<u, c>> \in held
HoldsQ(t, k) == \E u \in With[t] : <<u, k>> \in qheld

\* QueueManager.connect: MQ gives out the number of a connection it does not have.
Connect(t, c) ==
    /\ At(t, "idle")
    /\ c \notin conns
    /\ <<t, c>> \notin held
    /\ conns' = conns \cup {c}
    /\ held' = held \cup {<<t, c>>}
    /\ early' = IF \E u \in Thread : <<u, c>> \in held THEN early \cup {c} ELSE early
    /\ UNCHANGED <<storeVars, objs, qheld, call, intact, warned>>

\* Queue.open: MQOPEN gives out the number of an object that is not open.
Open(t, k) ==
    /\ At(t, "idle")
    /\ Holds(t, ConnOf[k])
    /\ ConnOf[k] \in conns
    /\ k \notin objs
    /\ objs' = objs \cup {k}
    /\ qheld' = qheld \cup {<<t, k>>}
    /\ UNCHANGED <<storeVars, conns, held, call, intact, warned, early>>

\* The destructor of a QueueManager whose connection is gone: its MQDISC fails,
\* with a reason for which cleanupOK does not hold.
Drop(t, c) ==
    /\ <<t, c>> \in held
    /\ c \notin conns
    /\ \A u \in Thread : t \in With[u] => call[u].conn # c
    /\ held' = held \ {<<t, c>>}
    /\ qheld' = {q \in qheld : q[1] = t => ConnOf[q[2]] # c}
    /\ UNCHANGED <<storeVars, conns, objs, call, intact, warned, early>>

\* Queue.get has read both handles; pack() runs before the call of MQGET.
Prepare(t, k, n) ==
    /\ At(t, "idle")
    /\ Holds(t, ConnOf[k]) /\ HoldsQ(t, k)
    /\ call' = [call EXCEPT ![t] = [at |-> "ready", conn |-> ConnOf[k], key |-> k,
                                    len |-> n, buf |-> None]]
    /\ UNCHANGED <<storeVars, handleVars, intact>>

\* updateQ that takes the entry of any object.
GetBeginAnyEntry(t) ==
    /\ At(t, "ready")
    /\ UpdateQ(call[t].key, call[t].len)
    /\ \E k \in Keys' : call' = [call EXCEPT ![t].at = "getting", ![t].buf = store'[k].buf]
    /\ UNCHANGED <<handleVars, intact>>

\* MQGET as far as Py_BEGIN_ALLOW_THREADS: updateQ returns the buffer.
GetBegin(t) ==
    /\ At(t, "ready")
    /\ UpdateQ(call[t].key, call[t].len)
    /\ call' = [call EXCEPT ![t].at = "getting", ![t].buf = store'[call[t].key].buf]
    /\ UNCHANGED <<handleVars, intact>>

\* updateQ returns NULL: MQGET returns without a call of MQ.
GetNoMemory(t) ==
    /\ At(t, "ready")
    /\ Finish(t)
    /\ UNCHANGED <<storeVars, handleVars, intact>>

\* MQ writes a message for thread t into the buffer it was given.
Deliver(t) ==
    /\ At(t, "getting")
    /\ call[t].key \in objs
    /\ MoveTo(t, "got")
    /\ intact' = {u \in intact : call[u].buf # call[t].buf} \cup {t}
    /\ UNCHANGED <<storeVars, handleVars>>

\* MQGET ends without a message; nothing is written.
GetFails(t) ==
    /\ At(t, "getting")
    /\ MoveTo(t, "failed")
    /\ UNCHANGED <<storeVars, handleVars, intact>>

\* Py_BuildValue copies the message out of the buffer.
GetReturn(t) ==
    /\ At(t, "got") \/ At(t, "failed")
    /\ Finish(t)
    /\ intact' = intact \ {t}
    /\ UNCHANGED <<storeVars, handleVars>>

-----------------------------------------------------------------------------

\* MQCLOSE inside MQ ends with a reason for which cleanupOK holds: success, or
\* a connection that is ending, when the object need not be closed.  With any
\* other failure nothing changes: Queue.close raises.
CloseBegin(t, k) ==
    /\ At(t, "idle")
    /\ Holds(t, ConnOf[k]) /\ HoldsQ(t, k)
    /\ k \in objs
    /\ objs' \in {objs, objs \ {k}}
    /\ call' = [call EXCEPT ![t] = [Idle EXCEPT !.at = "closed",
                                    !.conn = ConnOf[k], !.key = k]]
    /\ UNCHANGED <<storeVars, conns, held, qheld, intact, warned, early>>

\* MQCLOSE closes the object and ends with a warning: no deleteQ, and Queue.close
\* raises with its handle in place.
CloseWarns(t, k) ==
    /\ At(t, "idle")
    /\ Holds(t, ConnOf[k]) /\ HoldsQ(t, k)
    /\ k \in objs
    /\ objs' = objs \ {k}
    /\ UNCHANGED <<storeVars, conns, held, qheld, call, intact, warned, early>>

\* Back with the GIL: deleteQ.
CloseDelete(t) ==
    /\ At(t, "closed")
    /\ DeleteQ(call[t].key)
    /\ MoveTo(t, "deleted")
    /\ UNCHANGED <<handleVars, intact>>

\* Queue.close: __q_handle becomes None, unless MQCLOSE gave an error.
CloseReturn(t) ==
    /\ At(t, "deleted")
    /\ \/ qheld' = qheld \ (With[t] \X {call[t].key})
       \/ qheld' = qheld
    /\ Finish(t)
    /\ UNCHANGED <<storeVars, conns, objs, held, intact, warned, early>>

\* MQDISC inside MQ ends with a reason for which cleanupOK holds: the connection
\* and its objects are gone.  When it fails otherwise, nothing changes.
DiscBegin(t, c) ==
    /\ At(t, "idle")
    /\ Holds(t, c)
    /\ c \in conns
    /\ conns' = conns \ {c}
    /\ objs' = {k \in objs : ConnOf[k] # c}
    /\ call' = [call EXCEPT ![t] = [Idle EXCEPT !.at = "disced", !.conn = c]]
    /\ UNCHANGED <<storeVars, held, qheld, intact, warned, early>>

\* MQDISC ends the connection with a warning: no deleteAll, and
\* QueueManager.disconnect raises with its handle in place.
DiscWarns(t, c) ==
    /\ At(t, "idle")
    /\ Holds(t, c)
    /\ c \in conns
    /\ conns' = conns \ {c}
    /\ objs' = {k \in objs : ConnOf[k] # c}
    /\ warned' = warned \cup {c}
    /\ UNCHANGED <<storeVars, held, qheld, call, intact, early>>

\* deleteAll of the handle that MQDISC has set to -1.
DiscDeleteNothing(t) ==
    /\ At(t, "disced")
    /\ MoveTo(t, "cleaned")
    /\ warned' = warned \ {call[t].conn}
    /\ UNCHANGED <<storeVars, conns, objs, held, qheld, intact, early>>

\* Back with the GIL: deleteAll of everything filed under the number, whoever has
\* it by now.
DiscDelete(t) ==
    /\ At(t, "disced")
    /\ DeleteAll(call[t].conn)
    /\ MoveTo(t, "cleaned")
    /\ warned' = warned \ {call[t].conn}
    /\ UNCHANGED <<conns, objs, held, qheld, intact, early>>

\* QueueManager.disconnect: __handle becomes None.  The Queue objects of the
\* connection keep their handles.
DiscReturn(t) ==
    /\ At(t, "cleaned")
    /\ held' = held \ (With[t] \X {call[t].conn})
    /\ Finish(t)
    /\ UNCHANGED <<storeVars, conns, objs, qheld, intact, warned, early>>

Next ==
    \E t \in Thread :
        \/ \E c \in HConn : Connect(t, c) \/ Drop(t, c) \/ DiscBegin(t, c) \/ DiscWarns(t, c)
        \/ \E k \in Key : Open(t, k) \/ CloseBegin(t, k) \/ CloseWarns(t, k)
        \/ \E k \in Key, n \in Length : Prepare(t, k, n)
        \/ GetBegin(t) \/ GetNoMemory(t) \/ Deliver(t) \/ GetFails(t) \/ GetReturn(t)
        \/ CloseDelete(t) \/ CloseReturn(t)
        \/ DiscDelete(t) \/ DiscReturn(t)

Spec == Init /\ [][Next]_vars

-----------------------------------------------------------------------------

\* Each thread works with the connections it made.
PrivateConnections == \A t \in Thread : With[t] = {t}

InMQ(t) == At(t, "getting") \/ At(t, "got")

\* From updateQ to the copy of the message, the buffer a thread passed to MQ is
\* still the one of its object, and as long as MQ was told: no other thread's
\* get, close or disconnect frees or moves it meanwhile (ibmmqc.c:1005-1028).
\* MQ has given out the connection's number only after whoever had it last had
\* cleaned up; where it has not, deleteAll takes the buffers of that number and
\* of no other.
BufferStays ==
    \A t \in Thread : InMQ(t) /\ call[t].conn \notin early =>
        /\ call[t].key \in Keys
        /\ BufferOf(call[t].key) = call[t].buf
        /\ store[call[t].key].size >= call[t].len

\* What MQGET copies out of the buffer (ibmmqc.c:1026) is the message MQ put
\* there for this call, as long as no number has been given out early: the
\* memory that deleteAll then frees may become the buffer of any object.
OwnMessage == early = {} => \A t \in Thread : At(t, "got") => t \in intact

\* A connection that is gone has no buffers, whatever was open or stale when it
\* went (ibmmqc.c:746-748), unless MQDISC ended it with a warning: apart from
\* those, only a thread between MQDISC and deleteAll has some left to free.
NoOrphans ==
    \A k \in Keys :
        \/ ConnOf[k] \in conns \cup warned \cup early
        \/ \E t \in Thread : At(t, "disced") /\ call[t].conn = ConnOf[k]
=============================================================================
