------------------------------ MODULE Callbacks ------------------------------
(***************************************************************************)
(* Asynchronous consumption (mqcallback.py, QueueManager.ctl): the stash   *)
(* that lets the proxy function _internal_cb find the application's        *)
(* function, its object and its connection area again from the handles     *)
(* MQ passes, while threads connect, open, register, start, stop, close    *)
(* and disconnect.                                                         *)
(*                                                                         *)
(* MQ serialises a connection: it calls one callback at a time, refuses    *)
(* every call but MQCTL and MQDISC of another thread while the connection  *)
(* is started, and ends MQCTL(STOP) and MQDISC when no callback is         *)
(* running.  A callback function may itself call MQCB.  The Python code    *)
(* between an MQ call and the update of the stash is a step of its own.    *)
(*                                                                         *)
(* Handle numbers are reused, as soon as MQ has let go of them.  What a    *)
(* number denotes is told apart by incarnation: the how-manieth MQCONN or  *)
(* MQOPEN it came from.                                                    *)
(***************************************************************************)
EXTENDS Integers, FiniteSets

CONSTANTS
    Thread,
    HConn,          \* numbers MQ gives to connections
    HObj,           \* numbers MQ gives to open queues
    MaxConnects,    \* bound: MQCONNs of a behaviour
    MaxOpens,       \* bound: MQOPENs of a behaviour
    NoEntry

NoObject == 0       \* MQHO_NONE, the key of a QueueManager's event handler

ASSUME CallbackAssumption ==
    /\ HConn \subseteq Nat \ {0}
    /\ HObj \subseteq Nat \ {0}
    /\ MaxConnects \in Nat /\ MaxOpens \in Nat
    /\ NoEntry \notin Nat \cup Thread
    /\ Thread \cap HConn = {}

Key == HConn \X (HObj \cup {NoObject})

VARIABLES
    connects,   \* MQCONNs so far
    opens,      \* MQOPENs so far
    conn,       \* conn[c]: the connection c denotes, 0 if it denotes none
    made,       \* made[t][c]: the connection for which t made the QueueManager
                \*   that has the number c, 0 if t has none
    object,     \* object[k]: the object key k denotes, 0 if it denotes none
    registered, \* keys that MQ has a callback for
    started,    \* connections that MQ calls callbacks of
    stashedCBD, \* _stashedCBD: the object saved under a key
    stashedCTLO,\* _stashedCTLO: the connection whose area is saved under a number
    doing,      \* doing[a]: the call a thread, or a connection's callback, is in
    delivery,   \* delivery[c]: the callback of c that is running
    warned,     \* history: numbers whose last MQDISC ended with a warning
    early       \* history: numbers MQ gave out while a QueueManager had them

vars == <<connects, opens, conn, made, object, registered, started, stashedCBD,
          stashedCTLO, doing, delivery, warned, early>>

\* The event handler's object is the QueueManager: it is told apart like its
\* connection.
ObjectOf(k) == IF k[2] = NoObject THEN conn[k[1]] ELSE object[k]

\* A callback function runs on MQ's thread for its connection.
Actor == Thread \cup HConn

Idle == [at |-> "idle"]
NoDelivery == [at |-> "none"]

Doing ==
    [at: {"idle"}]
    \cup [at: {"registering", "deregistering"}, key: Key]
    \cup [at: {"starting", "stopping", "disconnecting"}, conn: HConn]

Delivery ==
    [at: {"none"}]
    \cup [at: {"called"}, key: Key]
    \cup [at: {"found"}, key: Key, object: Nat \cup {NoEntry}]
    \cup [at: {"running"}, key: Key, object: Nat \cup {NoEntry},
          area: Nat \cup {NoEntry}]

TypeOK ==
    /\ connects \in 0..MaxConnects /\ opens \in 0..MaxOpens
    /\ conn \in [HConn -> 0..connects]
    /\ made \in [Thread -> [HConn -> 0..connects]]
    /\ object \in [Key -> 0..opens]
    /\ registered \subseteq {k \in Key : ObjectOf(k) # 0}
    /\ started \subseteq {c \in HConn : conn[c] # 0}
    /\ stashedCBD \in [Key -> Nat \cup {NoEntry}]
    /\ stashedCTLO \in [HConn -> Nat \cup {NoEntry}]
    /\ doing \in [Actor -> Doing]
    /\ delivery \in [HConn -> Delivery]
    /\ warned \subseteq HConn /\ early \subseteq HConn

Init ==
    /\ connects = 0 /\ opens = 0
    /\ conn = [c \in HConn |-> 0]
    /\ made = [t \in Thread |-> [c \in HConn |-> 0]]
    /\ object = [k \in Key |-> 0]
    /\ registered = {} /\ started = {}
    /\ stashedCBD = [k \in Key |-> NoEntry]
    /\ stashedCTLO = [c \in HConn |-> NoEntry]
    /\ doing = [a \in Actor |-> Idle]
    /\ delivery = [c \in HConn |-> NoDelivery]
    /\ warned = {} /\ early = {}

Do(a, what) == doing' = [doing EXCEPT ![a] = what]

Done(a) == doing[a] # Idle /\ Do(a, Idle)

\* Actors that may call MQ on c: a thread with a QueueManager for a stopped
\* connection, or the callback function that is running.
MayCall(a, c) ==
    /\ conn[c] # 0
    /\ doing[a] = Idle
    /\ \/ a \in Thread /\ made[a][c] # 0 /\ c \notin started
       \/ a = c /\ delivery[c].at = "running"

Disconnecting(c) ==
    \E t \in Thread : doing[t].at = "disconnecting" /\ doing[t].conn = c

-----------------------------------------------------------------------------

\* MQCONN gives out a number that denotes nothing.  No thread makes a second
\* QueueManager for a number that it still has in a first.
Connect(t, c) ==
    /\ doing[t] = Idle
    /\ conn[c] = 0 /\ made[t][c] = 0
    /\ connects < MaxConnects
    /\ connects' = connects + 1
    /\ conn' = [conn EXCEPT ![c] = connects + 1]
    /\ made' = [made EXCEPT ![t][c] = connects + 1]
    /\ early' = IF \E u \in Thread : made[u][c] # 0 THEN early \cup {c} ELSE early
    /\ UNCHANGED <<opens, object, registered, started, stashedCBD, stashedCTLO,
                   doing, delivery, warned>>

\* Queue.open
Open(a, k) ==
    /\ MayCall(a, k[1])
    /\ k[2] # NoObject /\ object[k] = 0
    /\ opens < MaxOpens
    /\ opens' = opens + 1
    /\ object' = [object EXCEPT ![k] = opens + 1]
    /\ UNCHANGED <<connects, conn, made, registered, started, stashedCBD,
                   stashedCTLO, doing, delivery, warned, early>>

\* Queue.close: MQ forgets the callback of the queue, the stash does not.
Close(a, k) ==
    /\ MayCall(a, k[1])
    /\ object[k] # 0
    /\ object' = [object EXCEPT ![k] = 0]
    /\ registered' = registered \ {k}
    /\ UNCHANGED <<connects, opens, conn, made, started, stashedCBD, stashedCTLO,
                   doing, delivery, warned, early>>

-----------------------------------------------------------------------------
(* real_cb *)

\* MQCB(REGISTER) for a queue that need not be open.
RegisterUnopened(a, k) ==
    /\ MayCall(a, k[1])
    /\ registered' = registered \cup {k}
    /\ Do(a, [at |-> "registering", key |-> k])
    /\ UNCHANGED <<connects, opens, conn, made, object, started, stashedCBD,
                   stashedCTLO, delivery, warned, early>>

\* MQCB(REGISTER) has succeeded, on an object that is open.
Register(a, k) ==
    /\ MayCall(a, k[1])
    /\ ObjectOf(k) # 0
    /\ registered' = registered \cup {k}
    /\ Do(a, [at |-> "registering", key |-> k])
    /\ UNCHANGED <<connects, opens, conn, made, object, started, stashedCBD,
                   stashedCTLO, delivery, warned, early>>

\* A _save_callback that keeps what is saved under the key already.
SaveCallbackOnce(a) ==
    /\ doing[a].at = "registering"
    /\ LET k == doing[a].key IN stashedCBD' =
          [stashedCBD EXCEPT ![k] = IF @ = NoEntry THEN ObjectOf(k) ELSE @]
    /\ Done(a)
    /\ UNCHANGED <<connects, opens, conn, made, object, registered, started,
                   stashedCTLO, delivery, warned, early>>

\* _save_callback
SaveCallback(a) ==
    /\ doing[a].at = "registering"
    /\ stashedCBD' = [stashedCBD EXCEPT ![doing[a].key] = ObjectOf(doing[a].key)]
    /\ Done(a)
    /\ UNCHANGED <<connects, opens, conn, made, object, registered, started,
                   stashedCTLO, delivery, warned, early>>

\* MQCB(DEREGISTER) has succeeded.
Deregister(a, k) ==
    /\ MayCall(a, k[1])
    /\ k \in registered
    /\ registered' = registered \ {k}
    /\ Do(a, [at |-> "deregistering", key |-> k])
    /\ UNCHANGED <<connects, opens, conn, made, object, started, stashedCBD,
                   stashedCTLO, delivery, warned, early>>

\* _delete_callback
DeleteCallback(a) ==
    /\ doing[a].at = "deregistering"
    /\ stashedCBD' = [stashedCBD EXCEPT ![doing[a].key] = NoEntry]
    /\ Done(a)
    /\ UNCHANGED <<connects, opens, conn, made, object, registered, started,
                   stashedCTLO, delivery, warned, early>>

-----------------------------------------------------------------------------
(* QueueManager.ctl *)

\* ctl that saves the area only when MQCTL has ended: see Start.
SaveAreaLate(t, c, what) ==
    /\ doing[t] = Idle
    /\ made[t][c] # 0
    /\ Do(t, [at |-> what, conn |-> c])
    /\ UNCHANGED <<connects, opens, conn, made, object, registered, started,
                   stashedCBD, stashedCTLO, delivery, warned, early>>

\* _save_connection_area, before MQCTL and for every operation of it.
SaveArea(t, c, what) ==
    /\ doing[t] = Idle
    /\ made[t][c] # 0
    /\ stashedCTLO' = [stashedCTLO EXCEPT ![c] = made[t][c]]
    /\ Do(t, [at |-> what, conn |-> c])
    /\ UNCHANGED <<connects, opens, conn, made, object, registered, started,
                   stashedCBD, delivery, warned, early>>

\* MQCTL(START) or MQCTL(RESUME), which may fail.
Start(t) ==
    /\ doing[t].at = "starting"
    /\ \/ conn[doing[t].conn] # 0 /\ started' = started \cup {doing[t].conn}
       \/ started' = started
    /\ Done(t)
    /\ UNCHANGED <<connects, opens, conn, made, object, registered, stashedCBD,
                   stashedCTLO, delivery, warned, early>>

\* MQCTL(STOP) or MQCTL(SUSPEND), when the callback that is running has ended.
Stop(t) ==
    /\ doing[t].at = "stopping"
    /\ delivery[doing[t].conn] = NoDelivery
    /\ started' = started \ {doing[t].conn}
    /\ Done(t)
    /\ UNCHANGED <<connects, opens, conn, made, object, registered, stashedCBD,
                   stashedCTLO, delivery, warned, early>>

-----------------------------------------------------------------------------
(* QueueManager.disconnect *)

\* What MQDISC ends: the connection, its queues and its callbacks.
Ends(c) ==
    /\ conn[c] # 0
    /\ delivery[c] = NoDelivery
    /\ conn' = [conn EXCEPT ![c] = 0]
    /\ object' = [k \in Key |-> IF k[1] = c THEN 0 ELSE object[k]]
    /\ registered' = {k \in registered : k[1] # c}
    /\ started' = started \ {c}

\* MQDISC has ended, or has found the connection broken or stopping.  When it
\* fails otherwise, nothing changes.
Disconnect(t, c) ==
    /\ doing[t] = Idle
    /\ made[t][c] # 0
    /\ Ends(c)
    /\ Do(t, [at |-> "disconnecting", conn |-> c])
    /\ UNCHANGED <<connects, opens, made, stashedCBD, stashedCTLO, delivery, warned,
                   early>>

\* MQDISC ends the connection with a warning: disconnect raises, with its handle
\* in place, and skips _delete_all_callbacks.
DisconnectWarns(t, c) ==
    /\ doing[t] = Idle
    /\ made[t][c] # 0
    /\ Ends(c)
    /\ warned' = warned \cup {c}
    /\ UNCHANGED <<connects, opens, made, stashedCBD, stashedCTLO, doing, delivery,
                   early>>

\* The destructor of a QueueManager whose connection is gone: its MQDISC fails.
\* The stash refers to the objects of its entries, and they to their QueueManager.
Drop(t, c) ==
    /\ doing[t] = Idle
    /\ made[t][c] # 0 /\ conn[c] = 0
    /\ \A k \in Key : k[1] = c => stashedCBD[k] = NoEntry
    /\ made' = [made EXCEPT ![t][c] = 0]
    /\ UNCHANGED <<connects, opens, conn, object, registered, started, stashedCBD,
                   stashedCTLO, doing, delivery, warned, early>>

\* The keys of queues only.
OfHandleQueues(c, k) == k[1] = c /\ k[2] # NoObject

\* The key starts with the handle and "/".
OfHandle(c, k) == k[1] = c

\* __handle becomes None, and _delete_all_callbacks as far as it takes the tests
\* of the keys.  The connection area is looked up under str(hconn), where it
\* never is.
DeleteAllCallbacks(t) ==
    /\ doing[t].at = "disconnecting"
    /\ LET c == doing[t].conn IN
          /\ stashedCBD' = [k \in Key |-> IF OfHandle(c, k) THEN NoEntry ELSE stashedCBD[k]]
          /\ made' = [made EXCEPT ![t][c] = 0]
          /\ warned' = warned \ {c}
    /\ Done(t)
    /\ UNCHANGED <<connects, opens, conn, object, registered, started, stashedCTLO,
                   delivery, early>>

-----------------------------------------------------------------------------
(* cbFunc_C and _internal_cb *)

\* MQ calls the callback of a started connection.
Call(k) ==
    /\ k \in registered /\ k[1] \in started
    /\ delivery[k[1]] = NoDelivery
    /\ delivery' = [delivery EXCEPT ![k[1]] = [at |-> "called", key |-> k]]
    /\ UNCHANGED <<connects, opens, conn, made, object, registered, started,
                   stashedCBD, stashedCTLO, doing, warned, early>>

\* The look-up under the lock.  Without an entry a KeyError ends the callback,
\* and cbFunc_C prints it.
LookUp(c) ==
    /\ delivery[c].at = "called"
    /\ delivery' = [delivery EXCEPT ![c] =
          IF stashedCBD[@.key] = NoEntry THEN NoDelivery
          ELSE [at |-> "found", key |-> @.key, object |-> stashedCBD[@.key]]]
    /\ UNCHANGED <<connects, opens, conn, made, object, registered, started,
                   stashedCBD, stashedCTLO, doing, warned, early>>

\* The connection area is read, without the lock, and the application's
\* function is called.
RunFunction(c) ==
    /\ delivery[c].at = "found"
    /\ delivery' = [delivery EXCEPT ![c] =
          [at |-> "running", key |-> @.key, object |-> @.object,
           area |-> stashedCTLO[c]]]
    /\ UNCHANGED <<connects, opens, conn, made, object, registered, started,
                   stashedCBD, stashedCTLO, doing, warned, early>>

\* The function returns, with no MQCB of its own under way.
FunctionReturns(c) ==
    /\ delivery[c].at = "running" /\ doing[c] = Idle
    /\ delivery' = [delivery EXCEPT ![c] = NoDelivery]
    /\ UNCHANGED <<connects, opens, conn, made, object, registered, started,
                   stashedCBD, stashedCTLO, doing, warned, early>>

Next ==
    \/ \E t \in Thread :
          \/ \E c \in HConn :
                \/ Connect(t, c) \/ Disconnect(t, c) \/ DisconnectWarns(t, c) \/ Drop(t, c)
                \/ \E what \in {"starting", "stopping"} : SaveArea(t, c, what)
          \/ Start(t) \/ Stop(t) \/ DeleteAllCallbacks(t)
    \/ \E a \in Actor :
          \/ \E k \in Key : Open(a, k) \/ Close(a, k) \/ Register(a, k) \/ Deregister(a, k)
          \/ SaveCallback(a) \/ DeleteCallback(a)
    \/ \E k \in Key : Call(k)
    \/ \E c \in HConn : LookUp(c) \/ RunFunction(c) \/ FunctionReturns(c)

Spec == Init /\ [][Next]_vars

-----------------------------------------------------------------------------

\* "Should not happen as we've got control of the map" (mqcallback.py:94): when
\* MQ calls a callback, the stash holds an entry for it, and the entry's object
\* is the one that is open, not one that had the same handles before.  Left out
\* are numbers that MQ gave out while another QueueManager had them, whose
\* disconnect may then delete the callbacks of the new connection (mqqmgr.py:443).
CallbackResolves ==
    \A c \in HConn \ early : delivery[c].at = "called" =>
        /\ stashedCBD[delivery[c].key] # NoEntry
        /\ stashedCBD[delivery[c].key] = ObjectOf(delivery[c].key)

\* The area given to a callback is one that was passed to ctl on this
\* connection, although that of an earlier connection with the same handle is
\* still in the stash (mqqmgr.py:643, mqcallback.py:108-112), unless that one's
\* QueueManager still had the number, and its ctl saves under it.
AreaOfThisConnection ==
    \A c \in HConn \ early : delivery[c].at = "running" => delivery[c].area = conn[c]

\* When disconnect returns, no callback of the connection is in the stash
\* (mqqmgr.py:426-443, mqcallback.py:60-68), so its functions and queues can go.
\* Only a disconnect that raised a warning leaves them there, and keeps its
\* QueueManager alive by them.
StashEmptied ==
    \A k \in Key : stashedCBD[k] # NoEntry =>
        \/ conn[k[1]] # 0
        \/ Disconnecting(k[1])
        \/ k[1] \in early
        \/ k[1] \in warned /\ \E t \in Thread : made[t][k[1]] # 0
=============================================================================
