--------------------------- MODULE CallbacksProofs ---------------------------
(* However threads and callback functions register, start, stop, close and    *)
(* disconnect, for any number of connections, queues and threads: a callback  *)
(* that MQ calls finds its own entry in the stash, and is given the area of   *)
(* its own connection, unless MQ gave its connection's number out while       *)
(* another QueueManager still had it (early).                                 *)
EXTENDS Callbacks, TLAPS

\* The QueueManager that has a number is the only one, and made for the connection
\* that the number denotes, if any.
MadeOnce ==
    \A c \in HConn \ early, t \in Thread : made[t][c] # 0 =>
        /\ conn[c] # 0 => made[t][c] = conn[c]
        /\ \A u \in Thread \ {t} : made[u][c] = 0

\* A callback runs on a started connection, for a key of that connection.  Until
\* it has been looked up its key is registered, and the entry is the object's.
DeliveriesAreOfStarted ==
    \A c \in HConn : delivery[c].at # "none" =>
        /\ c \in started
        /\ delivery[c].key \in Key /\ delivery[c].key[1] = c
        /\ delivery[c].at = "called" =>
              /\ delivery[c].key \in registered
              /\ c \notin early => stashedCBD[delivery[c].key] = ObjectOf(delivery[c].key)

\* An actor that is between MQCB and the update of the stash has the connection to
\* itself: its QueueManager has a stopped one, or it is the function that runs.
HasToItself(a, c) ==
    /\ conn[c] # 0
    /\ \/ a \in Thread /\ made[a][c] # 0 /\ c \notin started
       \/ a = c /\ delivery[c].at = "running"

\* What an actor that is inside a call may rely on.
HasTheirs(a) ==
    /\ doing[a].at \in {"registering", "deregistering"} =>
          /\ doing[a].key \in Key
          /\ doing[a].key[1] \notin early => HasToItself(a, doing[a].key[1])
    /\ doing[a].at = "deregistering" /\ doing[a].key[1] \notin early =>
          doing[a].key \notin registered
    /\ doing[a].at \in {"starting", "stopping", "disconnecting"} =>
          a \in Thread /\ doing[a].conn \in HConn /\ made[a][doing[a].conn] # 0
    /\ doing[a].at = "starting" /\ doing[a].conn \notin early =>
          stashedCTLO[doing[a].conn] = made[a][doing[a].conn]
    /\ doing[a].at = "disconnecting" /\ doing[a].conn \notin early =>
          conn[doing[a].conn] = 0

ActorsHaveTheirs == \A a \in Actor : HasTheirs(a)

\* What MQ has a callback for is in the stash, or about to be put there.
RegisteredIsStashed ==
    \A k \in registered : k[1] \notin early =>
        \/ stashedCBD[k] = ObjectOf(k)
        \/ \E a \in Actor : doing[a].at = "registering" /\ doing[a].key = k

\* A queue is open on a connection.
OpenOnConnections == \A k \in Key : object[k] # 0 => conn[k[1]] # 0

StartedHasArea == \A c \in started \ early : stashedCTLO[c] = conn[c]

IInv ==
    /\ TypeOK
    /\ MadeOnce
    /\ DeliveriesAreOfStarted
    /\ ActorsHaveTheirs
    /\ RegisteredIsStashed
    /\ OpenOnConnections
    /\ StartedHasArea
    /\ AreaOfThisConnection
    /\ StashEmptied

LEMMA IInvInit == Init => IInv
BY CallbackAssumption
   DEF Init, IInv, TypeOK, DeliveriesAreOfStarted, ActorsHaveTheirs, RegisteredIsStashed, MadeOnce, HasTheirs,
       OpenOnConnections, StartedHasArea, AreaOfThisConnection, StashEmptied, Doing, Delivery, Idle, NoDelivery, Actor

\* What an object number denotes is a number, so never what an empty entry is.
LEMMA ObjectsAreNumbers ==
    ASSUME TypeOK, NEW k \in Key
    PROVE  ObjectOf(k) \in Nat /\ ObjectOf(k) # NoEntry
<1>1. k[1] \in HConn
  BY DEF Key
<1>2. conn[k[1]] \in Nat /\ object[k] \in Nat
  BY <1>1 DEF TypeOK
<1> QED
  BY <1>2, CallbackAssumption DEF ObjectOf

\* Two actors never have the same connection to themselves.
LEMMA Alone ==
    ASSUME IInv, NEW a \in Actor, NEW b \in Actor, NEW c \in HConn \ early,
           HasToItself(a, c), HasToItself(b, c)
    PROVE  a = b
BY DEF IInv, MadeOnce, DeliveriesAreOfStarted, HasToItself

\* Nor does an actor while a callback of it has yet to be looked up.
LEMMA NoLookUpUnderWay ==
    ASSUME IInv, NEW a \in Actor, NEW c \in HConn, HasToItself(a, c)
    PROVE  delivery[c].at # "called"
BY DEF IInv, DeliveriesAreOfStarted, HasToItself

\* So an actor that may call MQ on a connection finds no other at work on it, and
\* no callback that has yet to be looked up.
LEMMA CallerIsAlone ==
    ASSUME IInv, NEW a \in Actor, NEW c \in HConn, MayCall(a, c)
    PROVE  /\ HasToItself(a, c)
           /\ delivery[c].at # "called"
           /\ c \notin early => \A b \in Actor :
                 doing[b].at \in {"registering", "deregistering"} => doing[b].key[1] # c
<1>1. HasToItself(a, c)
  BY DEF MayCall, HasToItself
<1>2. delivery[c].at # "called"
  BY <1>1, NoLookUpUnderWay
<1>3. ASSUME c \notin early, NEW b \in Actor, doing[b].at \in {"registering", "deregistering"}, doing[b].key[1] = c
      PROVE  FALSE
  BY <1>1, <1>3, Alone DEF IInv, ActorsHaveTheirs, HasTheirs, MayCall, Idle
<1> QED
  BY <1>1, <1>2, <1>3

LEMMA ConnectStep == ASSUME IInv, NEW t \in Thread, NEW c \in HConn, Connect(t, c) PROVE IInv'
<1> USE CallbackAssumption DEF Connect, Do, Done, Idle, NoDelivery, ObjectOf, Actor, Key
<1>1. TypeOK'
  BY DEF IInv, TypeOK, Doing, Delivery
<1>2. DeliveriesAreOfStarted'
  BY DEF IInv, TypeOK, DeliveriesAreOfStarted
<1>3. ActorsHaveTheirs'
  BY DEF IInv, TypeOK, ActorsHaveTheirs, Disconnecting, HasTheirs, HasToItself
<1>4. RegisteredIsStashed'
  BY DEF IInv, TypeOK, RegisteredIsStashed
<1>5. StartedHasArea'
  BY DEF IInv, TypeOK, StartedHasArea
<1>6. AreaOfThisConnection'
  BY DEF IInv, TypeOK, AreaOfThisConnection, ActorsHaveTheirs, HasTheirs, HasToItself, DeliveriesAreOfStarted
<1>7. StashEmptied'
  <2> SUFFICES ASSUME NEW j \in Key, stashedCBD'[j] # NoEntry
               PROVE  \/ conn'[j[1]] # 0
                      \/ Disconnecting(j[1])'
                      \/ j[1] \in early'
                      \/ j[1] \in warned' /\ \E u \in Thread : made'[u][j[1]] # 0
    BY DEF StashEmptied
  <2>1. \/ conn[j[1]] # 0
        \/ Disconnecting(j[1])
        \/ j[1] \in early
        \/ j[1] \in warned /\ \E u \in Thread : made[u][j[1]] # 0
    BY DEF IInv, StashEmptied
  <2>2. Disconnecting(j[1]) => Disconnecting(j[1])'
    BY DEF Disconnecting, IInv, TypeOK
  <2>3. \A u \in Thread : made[u][j[1]] # 0 => made'[u][j[1]] # 0
    BY DEF IInv, TypeOK
  <2>4. conn[j[1]] # 0 => conn'[j[1]] # 0
    BY DEF IInv, TypeOK
  <2>5. early \subseteq early'
    OBVIOUS
  <2> QED
    BY <2>1, <2>2, <2>3, <2>4, <2>5
<1>8. OpenOnConnections'
  BY DEF IInv, TypeOK, OpenOnConnections, MayCall
<1>9. MadeOnce'
  BY DEF IInv, TypeOK, MadeOnce
<1> QED
  BY <1>1, <1>2, <1>3, <1>4, <1>5, <1>6, <1>7, <1>8, <1>9 DEF IInv

LEMMA OpenStep == ASSUME IInv, NEW a \in Actor, NEW k \in Key, Open(a, k) PROVE IInv'
<1> USE CallbackAssumption DEF Open, Do, Done, Idle, NoDelivery, ObjectOf, Actor, Key
<1>1. TypeOK'
  BY CallerIsAlone DEF IInv, TypeOK, Doing, Delivery
<1>2. DeliveriesAreOfStarted'
  BY SMTT(30), CallerIsAlone DEF IInv, TypeOK, DeliveriesAreOfStarted
<1>3. ActorsHaveTheirs'
  BY DEF IInv, ActorsHaveTheirs, HasTheirs, HasToItself
<1>4. RegisteredIsStashed'
  BY SMTT(30), CallerIsAlone DEF IInv, TypeOK, RegisteredIsStashed
<1>5. StartedHasArea'
  BY CallerIsAlone DEF IInv, TypeOK, StartedHasArea
<1>6. AreaOfThisConnection'
  BY CallerIsAlone DEF IInv, TypeOK, AreaOfThisConnection
<1>7. StashEmptied'
  BY DEF IInv, TypeOK, StashEmptied, Disconnecting
<1>8. OpenOnConnections'
  BY DEF IInv, TypeOK, OpenOnConnections, MayCall
<1>9. MadeOnce'
  BY DEF IInv, TypeOK, MadeOnce
<1> QED
  BY <1>1, <1>2, <1>3, <1>4, <1>5, <1>6, <1>7, <1>8, <1>9 DEF IInv

LEMMA CloseStep == ASSUME IInv, NEW a \in Actor, NEW k \in Key, Close(a, k) PROVE IInv'
<1> USE CallbackAssumption DEF Close, Do, Done, Idle, NoDelivery, ObjectOf, Actor, Key
<1>1. TypeOK'
  BY CallerIsAlone DEF IInv, TypeOK, Doing, Delivery
<1>2. DeliveriesAreOfStarted'
  BY CallerIsAlone DEF IInv, TypeOK, DeliveriesAreOfStarted
<1>3. ActorsHaveTheirs'
  BY CallerIsAlone DEF IInv, TypeOK, ActorsHaveTheirs, HasTheirs, HasToItself
<1>4. RegisteredIsStashed'
  BY CallerIsAlone DEF IInv, TypeOK, RegisteredIsStashed
<1>5. StartedHasArea'
  BY CallerIsAlone DEF IInv, TypeOK, StartedHasArea
<1>6. AreaOfThisConnection'
  BY CallerIsAlone DEF IInv, TypeOK, AreaOfThisConnection
<1>7. StashEmptied'
  BY DEF IInv, TypeOK, StashEmptied, Disconnecting
<1>8. OpenOnConnections'
  BY DEF IInv, TypeOK, OpenOnConnections, MayCall
<1>9. MadeOnce'
  BY DEF IInv, TypeOK, MadeOnce
<1> QED
  BY <1>1, <1>2, <1>3, <1>4, <1>5, <1>6, <1>7, <1>8, <1>9 DEF IInv

LEMMA RegisterStep == ASSUME IInv, NEW a \in Actor, NEW k \in Key, Register(a, k) PROVE IInv'
<1> USE CallbackAssumption DEF Register, Do, Done, Idle, NoDelivery, ObjectOf, Actor, Key
<1>1. TypeOK'
  BY CallerIsAlone DEF IInv, TypeOK, Doing, Delivery
<1>2. DeliveriesAreOfStarted'
  BY CallerIsAlone DEF IInv, TypeOK, DeliveriesAreOfStarted
<1>3. ActorsHaveTheirs'
  <2>1. HasToItself(a, k[1]) /\ (k[1] \notin early => \A b \in Actor \ {a} :
            doing[b].at \in {"registering", "deregistering"} => doing[b].key[1] # k[1])
    BY CallerIsAlone
  <2>2. /\ doing'[a] = [at |-> "registering", key |-> k]
        /\ \A b \in Actor \ {a} : doing'[b] = doing[b]
    BY DEF IInv, TypeOK
  <2> QED
    BY <2>1, <2>2 DEF IInv, TypeOK, ActorsHaveTheirs, HasTheirs, HasToItself
<1>4. RegisteredIsStashed'
  BY CallerIsAlone DEF IInv, TypeOK, RegisteredIsStashed, ActorsHaveTheirs, HasTheirs, DeliveriesAreOfStarted, HasToItself, MayCall
<1>5. StartedHasArea'
  BY CallerIsAlone DEF IInv, TypeOK, StartedHasArea
<1>6. AreaOfThisConnection'
  BY CallerIsAlone DEF IInv, TypeOK, AreaOfThisConnection
<1>7. StashEmptied'
  BY DEF IInv, TypeOK, StashEmptied, Disconnecting, ActorsHaveTheirs, HasTheirs, HasToItself, MayCall
<1>8. OpenOnConnections'
  BY DEF IInv, TypeOK, OpenOnConnections, MayCall
<1>9. MadeOnce'
  BY DEF IInv, TypeOK, MadeOnce
<1> QED
  BY <1>1, <1>2, <1>3, <1>4, <1>5, <1>6, <1>7, <1>8, <1>9 DEF IInv

LEMMA SaveCallbackStep == ASSUME IInv, NEW a \in Actor, SaveCallback(a) PROVE IInv'
<1> USE CallbackAssumption DEF SaveCallback, Do, Done, Idle, NoDelivery, ObjectOf, Actor, Key
<1>1. TypeOK'
  <2>1. doing[a].key \in Key
    BY DEF IInv, ActorsHaveTheirs, HasTheirs
  <2>2. ObjectOf(doing[a].key) \in Nat
    BY <2>1, ObjectsAreNumbers DEF IInv
  <2> QED
    BY <2>1, <2>2 DEF IInv, TypeOK, Doing
<1>2. DeliveriesAreOfStarted'
  <2>1. doing[a].key \in Key /\ (doing[a].key[1] \notin early => delivery[doing[a].key[1]].at # "called")
    <3>1. /\ doing[a].key \in Key /\ doing[a].key[1] \in HConn
          /\ doing[a].key[1] \notin early => HasToItself(a, doing[a].key[1])
      BY DEF IInv, ActorsHaveTheirs, HasTheirs
    <3> QED
      BY <3>1, NoLookUpUnderWay
  <2>2. \A k \in Key \ {doing[a].key} : stashedCBD'[k] = stashedCBD[k]
    BY DEF IInv, TypeOK
  <2> QED
    BY <2>1, <2>2 DEF IInv, TypeOK, DeliveriesAreOfStarted
<1>3. ActorsHaveTheirs'
  BY DEF IInv, TypeOK, ActorsHaveTheirs, HasTheirs, HasToItself
<1>4. RegisteredIsStashed'
  BY DEF IInv, TypeOK, RegisteredIsStashed
<1>5. StartedHasArea'
  BY DEF IInv, TypeOK, StartedHasArea
<1>6. AreaOfThisConnection'
  BY DEF IInv, TypeOK, AreaOfThisConnection
<1>7. StashEmptied'
  BY DEF IInv, TypeOK, StashEmptied, Disconnecting, ActorsHaveTheirs, HasTheirs, HasToItself
<1>8. OpenOnConnections'
  BY DEF IInv, TypeOK, OpenOnConnections, MayCall
<1>9. MadeOnce'
  BY DEF IInv, TypeOK, MadeOnce
<1> QED
  BY <1>1, <1>2, <1>3, <1>4, <1>5, <1>6, <1>7, <1>8, <1>9 DEF IInv

LEMMA DeregisterStep == ASSUME IInv, NEW a \in Actor, NEW k \in Key, Deregister(a, k) PROVE IInv'
<1> USE CallbackAssumption DEF Deregister, Do, Done, Idle, NoDelivery, ObjectOf, Actor, Key
<1>1. TypeOK'
  BY CallerIsAlone DEF IInv, TypeOK, Doing, Delivery
<1>2. DeliveriesAreOfStarted'
  BY CallerIsAlone DEF IInv, TypeOK, DeliveriesAreOfStarted
<1>3. ActorsHaveTheirs'
  BY SMTT(30), CallerIsAlone DEF IInv, TypeOK, ActorsHaveTheirs, HasTheirs, HasToItself, MayCall, DeliveriesAreOfStarted
<1>4. RegisteredIsStashed'
  <2> SUFFICES ASSUME NEW j \in registered', j[1] \notin early
               PROVE  \/ stashedCBD[j] = ObjectOf(j)
                      \/ \E b \in Actor : doing'[b].at = "registering" /\ doing'[b].key = j
    BY DEF RegisteredIsStashed
  <2>1. j \in registered /\ (\A b \in Actor : b # a => doing'[b] = doing[b]) /\ doing[a].at = "idle"
    BY DEF MayCall, IInv, TypeOK
  <2>2. \/ stashedCBD[j] = ObjectOf(j)
        \/ \E b \in Actor : doing[b].at = "registering" /\ doing[b].key = j
    BY <2>1 DEF IInv, RegisteredIsStashed
  <2> QED
    BY <2>1, <2>2
<1>5. StartedHasArea'
  BY CallerIsAlone DEF IInv, TypeOK, StartedHasArea
<1>6. AreaOfThisConnection'
  BY CallerIsAlone DEF IInv, TypeOK, AreaOfThisConnection
<1>7. StashEmptied'
  BY DEF IInv, TypeOK, StashEmptied, Disconnecting, ActorsHaveTheirs, HasTheirs, HasToItself, MayCall
<1>8. OpenOnConnections'
  BY DEF IInv, TypeOK, OpenOnConnections, MayCall
<1>9. MadeOnce'
  BY DEF IInv, TypeOK, MadeOnce
<1> QED
  BY <1>1, <1>2, <1>3, <1>4, <1>5, <1>6, <1>7, <1>8, <1>9 DEF IInv

LEMMA DeleteCallbackStep == ASSUME IInv, NEW a \in Actor, DeleteCallback(a) PROVE IInv'
<1> USE CallbackAssumption DEF DeleteCallback, Do, Done, Idle, NoDelivery, ObjectOf, Actor, Key
<1>1. TypeOK'
  BY DEF IInv, TypeOK, Doing, Delivery
<1>2. DeliveriesAreOfStarted'
  <2>1. doing[a].key \in Key /\ (doing[a].key[1] \notin early => delivery[doing[a].key[1]].at # "called")
    <3>1. /\ doing[a].key \in Key /\ doing[a].key[1] \in HConn
          /\ doing[a].key[1] \notin early => HasToItself(a, doing[a].key[1])
      BY DEF IInv, ActorsHaveTheirs, HasTheirs
    <3> QED
      BY <3>1, NoLookUpUnderWay
  <2>2. \A k \in Key \ {doing[a].key} : stashedCBD'[k] = stashedCBD[k]
    BY DEF IInv, TypeOK
  <2>3. ASSUME NEW c \in HConn, delivery[c].at = "called", c \notin early
        PROVE  stashedCBD'[delivery[c].key] = ObjectOf(delivery[c].key)
    <3>1. /\ delivery[c].key \in Key /\ delivery[c].key[1] = c
          /\ stashedCBD[delivery[c].key] = ObjectOf(delivery[c].key)
      BY <2>3 DEF IInv, DeliveriesAreOfStarted
    <3> QED
      BY <2>1, <2>2, <2>3, <3>1
  <2>4. delivery' = delivery /\ started' = started /\ registered' = registered /\ early' = early
    OBVIOUS
  <2>5. \A k \in Key : ObjectOf(k)' = ObjectOf(k)
    OBVIOUS
  <2> HIDE DEF DeleteCallback, ObjectOf, Key, Done, Do
  <2> QED
    BY <2>3, <2>4, <2>5 DEF IInv, DeliveriesAreOfStarted
<1>3. ActorsHaveTheirs'
  BY DEF IInv, TypeOK, ActorsHaveTheirs, HasTheirs, HasToItself
<1>4. RegisteredIsStashed'
  BY DEF IInv, TypeOK, RegisteredIsStashed, ActorsHaveTheirs, HasTheirs
<1>5. StartedHasArea'
  BY DEF IInv, TypeOK, StartedHasArea
<1>6. AreaOfThisConnection'
  BY DEF IInv, TypeOK, AreaOfThisConnection
<1>7. StashEmptied'
  BY DEF IInv, TypeOK, StashEmptied, Disconnecting
<1>8. OpenOnConnections'
  BY DEF IInv, TypeOK, OpenOnConnections, MayCall
<1>9. MadeOnce'
  BY DEF IInv, TypeOK, MadeOnce
<1> QED
  BY <1>1, <1>2, <1>3, <1>4, <1>5, <1>6, <1>7, <1>8, <1>9 DEF IInv

LEMMA SaveAreaStep == ASSUME IInv, NEW t \in Thread, NEW c \in HConn, NEW what \in {"starting", "stopping"}, SaveArea(t, c, what) PROVE IInv'
<1> USE CallbackAssumption DEF SaveArea, Do, Done, Idle, NoDelivery, ObjectOf, Actor, Key
<1>1. TypeOK'
  BY DEF IInv, TypeOK, Doing, Delivery
<1>2. DeliveriesAreOfStarted'
  BY DEF IInv, TypeOK, DeliveriesAreOfStarted
<1>3. ActorsHaveTheirs'
  <2> SUFFICES ASSUME NEW b \in Actor PROVE HasTheirs(b)'
    BY DEF ActorsHaveTheirs
  <2>1. HasTheirs(b)
    BY DEF IInv, ActorsHaveTheirs
  <2>2. \A d \in HConn \ {c} : stashedCTLO'[d] = stashedCTLO[d]
    BY DEF IInv, TypeOK
  <2>3. \A d \in Actor \ {t} : doing'[d] = doing[d]
    BY DEF IInv, TypeOK
  <2>4. doing'[t] = [at |-> what, conn |-> c] /\ stashedCTLO'[c] = made[t][c]
    BY DEF IInv, TypeOK
  <2>5. CASE b = t
    BY <2>4, <2>5 DEF HasTheirs
  <2>6. CASE b # t
    <3>1. \A u \in Thread \ {t} : c \notin early => made[u][c] = 0
      BY DEF IInv, MadeOnce
    <3> QED
      BY <2>1, <2>2, <2>3, <2>6, <3>1 DEF HasTheirs, HasToItself
  <2> QED
    BY <2>5, <2>6
<1>4. RegisteredIsStashed'
  BY DEF IInv, TypeOK, RegisteredIsStashed
<1>5. StartedHasArea'
  <2>1. c \in started \ early => made[t][c] = conn[c]
    BY DEF IInv, TypeOK, MadeOnce
  <2> QED
    BY <2>1 DEF IInv, TypeOK, StartedHasArea
<1>6. AreaOfThisConnection'
  BY DEF IInv, TypeOK, AreaOfThisConnection
<1>7. StashEmptied'
  <2> SUFFICES ASSUME NEW j \in Key, stashedCBD'[j] # NoEntry
               PROVE  \/ conn'[j[1]] # 0
                      \/ Disconnecting(j[1])'
                      \/ j[1] \in early'
                      \/ j[1] \in warned' /\ \E u \in Thread : made'[u][j[1]] # 0
    BY DEF StashEmptied
  <2>1. \/ conn[j[1]] # 0
        \/ Disconnecting(j[1])
        \/ j[1] \in early
        \/ j[1] \in warned /\ \E u \in Thread : made[u][j[1]] # 0
    BY DEF IInv, StashEmptied
  <2>2. Disconnecting(j[1]) => Disconnecting(j[1])'
    BY DEF Disconnecting, IInv, TypeOK
  <2> QED
    BY <2>1, <2>2
<1>8. OpenOnConnections'
  BY DEF IInv, TypeOK, OpenOnConnections, MayCall
<1>9. MadeOnce'
  BY DEF IInv, TypeOK, MadeOnce
<1> QED
  BY <1>1, <1>2, <1>3, <1>4, <1>5, <1>6, <1>7, <1>8, <1>9 DEF IInv

LEMMA StartStep == ASSUME IInv, NEW t \in Thread, Start(t) PROVE IInv'
<1> USE CallbackAssumption DEF Start, Do, Done, Idle, NoDelivery, ObjectOf, Actor, Key
<1> DEFINE c == doing[t].conn
<1>a. c \in HConn /\ (conn[c] # 0 /\ c \notin early => stashedCTLO[c] = conn[c])
  <2>1. HasTheirs(t)
    BY DEF IInv, ActorsHaveTheirs
  <2>2. c \in HConn /\ made[t][c] # 0 /\ (c \notin early => stashedCTLO[c] = made[t][c])
    BY <2>1 DEF HasTheirs
  <2> QED
    BY <2>2 DEF IInv, MadeOnce
<1>b. started' = started \/ (conn[c] # 0 /\ started' = started \cup {c})
  OBVIOUS
<1>1. TypeOK'
  BY <1>a, <1>b DEF IInv, TypeOK, Doing
<1>2. DeliveriesAreOfStarted'
  BY <1>a, <1>b DEF IInv, TypeOK, DeliveriesAreOfStarted
<1>3. ActorsHaveTheirs'
  <2> SUFFICES ASSUME NEW b \in Actor PROVE HasTheirs(b)'
    BY DEF ActorsHaveTheirs
  <2>1. HasTheirs(b)
    BY DEF IInv, ActorsHaveTheirs
  <2>2. CASE b = t
    BY <2>2 DEF IInv, TypeOK, HasTheirs
  <2>3. CASE b # t
    <3>1. doing'[b] = doing[b]
      BY <2>3 DEF IInv, TypeOK
    <3>2. c \notin early => ~(b \in Thread /\ made[b][c] # 0)
      <4>1. HasTheirs(t)
        BY DEF IInv, ActorsHaveTheirs
      <4>2. made[t][c] # 0
        BY <4>1 DEF HasTheirs
      <4>3. c \notin early => \A u \in Thread \ {t} : made[u][c] = 0
        BY <4>2, <1>a DEF IInv, MadeOnce
      <4> QED
        BY <4>3, <2>3
    <3>3. \A d \in HConn \ {c} : d \in started' <=> d \in started
      BY <1>b
    <3> QED
      BY <2>1, <3>1, <3>2, <3>3, <1>a DEF HasTheirs, HasToItself
  <2> QED
    BY <2>2, <2>3
<1>4. RegisteredIsStashed'
  BY DEF IInv, TypeOK, RegisteredIsStashed
<1>5. StartedHasArea'
  BY <1>a, <1>b DEF IInv, TypeOK, StartedHasArea
<1>6. AreaOfThisConnection'
  BY DEF IInv, TypeOK, AreaOfThisConnection
<1>7. StashEmptied'
  BY DEF IInv, TypeOK, StashEmptied, Disconnecting
<1>8. OpenOnConnections'
  BY DEF IInv, TypeOK, OpenOnConnections, MayCall
<1>9. MadeOnce'
  BY DEF IInv, TypeOK, MadeOnce
<1> QED
  BY <1>1, <1>2, <1>3, <1>4, <1>5, <1>6, <1>7, <1>8, <1>9 DEF IInv

LEMMA StopStep == ASSUME IInv, NEW t \in Thread, Stop(t) PROVE IInv'
<1> USE CallbackAssumption DEF Stop, Do, Done, Idle, NoDelivery, ObjectOf, Actor, Key
<1>1. TypeOK'
  BY DEF IInv, TypeOK, Doing, Delivery
<1>2. DeliveriesAreOfStarted'
  BY DEF IInv, TypeOK, DeliveriesAreOfStarted
<1>3. ActorsHaveTheirs'
  BY DEF IInv, TypeOK, ActorsHaveTheirs, HasTheirs, HasToItself
<1>4. RegisteredIsStashed'
  BY DEF IInv, TypeOK, RegisteredIsStashed
<1>5. StartedHasArea'
  BY DEF IInv, TypeOK, StartedHasArea
<1>6. AreaOfThisConnection'
  BY DEF IInv, TypeOK, AreaOfThisConnection
<1>7. StashEmptied'
  BY DEF IInv, TypeOK, StashEmptied, Disconnecting
<1>8. OpenOnConnections'
  BY DEF IInv, TypeOK, OpenOnConnections, MayCall
<1>9. MadeOnce'
  BY DEF IInv, TypeOK, MadeOnce
<1> QED
  BY <1>1, <1>2, <1>3, <1>4, <1>5, <1>6, <1>7, <1>8, <1>9 DEF IInv

LEMMA DisconnectStep == ASSUME IInv, NEW t \in Thread, NEW c \in HConn, Disconnect(t, c) PROVE IInv'
<1> USE CallbackAssumption DEF Disconnect, Ends, Do, Done, Idle, NoDelivery, ObjectOf, Actor, Key
<1>1. TypeOK'
  BY DEF IInv, TypeOK, Doing, Delivery
<1>2. DeliveriesAreOfStarted'
  BY DEF IInv, TypeOK, DeliveriesAreOfStarted
<1>3. ActorsHaveTheirs'
  <2> SUFFICES ASSUME NEW b \in Actor PROVE HasTheirs(b)'
    BY DEF ActorsHaveTheirs
  <2>1. HasTheirs(b)
    BY DEF IInv, ActorsHaveTheirs
  <2>2. \A d \in HConn \ {c} : conn'[d] = conn[d]
    BY DEF IInv, TypeOK
  <2>3. conn'[c] = 0
    BY DEF IInv, TypeOK
  <2>4. c \notin early => ~HasToItself(b, c) \/ b = t
    BY DEF IInv, MadeOnce, HasToItself
  <2>5. registered' \subseteq registered /\ started' \subseteq started
    OBVIOUS
  <2>6. CASE b # t
    <3>1. doing'[b] = doing[b]
      BY <2>6 DEF IInv, TypeOK
    <3> QED
      BY <2>1, <2>2, <2>3, <2>4, <2>5, <2>6, <3>1 DEF HasTheirs, HasToItself
  <2>7. CASE b = t
    BY <2>3, <2>7 DEF IInv, TypeOK, HasTheirs
  <2> QED
    BY <2>6, <2>7
<1>4. RegisteredIsStashed'
  BY SMTT(30) DEF IInv, TypeOK, RegisteredIsStashed
<1>5. StartedHasArea'
  BY DEF IInv, TypeOK, StartedHasArea
<1>6. AreaOfThisConnection'
  BY DEF IInv, TypeOK, AreaOfThisConnection
<1>7. StashEmptied'
  BY DEF IInv, TypeOK, StashEmptied, Disconnecting
<1>8. OpenOnConnections'
  BY DEF IInv, TypeOK, OpenOnConnections, MayCall
<1>9. MadeOnce'
  BY DEF IInv, TypeOK, MadeOnce
<1> QED
  BY <1>1, <1>2, <1>3, <1>4, <1>5, <1>6, <1>7, <1>8, <1>9 DEF IInv

LEMMA DisconnectWarnsStep == ASSUME IInv, NEW t \in Thread, NEW c \in HConn, DisconnectWarns(t, c) PROVE IInv'
<1> USE CallbackAssumption DEF DisconnectWarns, Ends, Do, Done, Idle, NoDelivery, ObjectOf, Actor, Key
<1>1. TypeOK'
  BY DEF IInv, TypeOK, Doing, Delivery
<1>2. DeliveriesAreOfStarted'
  BY DEF IInv, TypeOK, DeliveriesAreOfStarted
<1>3. ActorsHaveTheirs'
  <2> SUFFICES ASSUME NEW b \in Actor PROVE HasTheirs(b)'
    BY DEF ActorsHaveTheirs
  <2>1. HasTheirs(b)
    BY DEF IInv, ActorsHaveTheirs
  <2>2. \A d \in HConn \ {c} : conn'[d] = conn[d]
    BY DEF IInv, TypeOK
  <2>3. conn'[c] = 0
    BY DEF IInv, TypeOK
  <2>4. c \notin early => ~HasToItself(b, c) \/ b = t
    BY DEF IInv, MadeOnce, HasToItself
  <2>5. registered' \subseteq registered /\ started' \subseteq started
    OBVIOUS
  <2>6. CASE b # t
    <3>1. doing'[b] = doing[b]
      BY <2>6 DEF IInv, TypeOK
    <3> QED
      BY <2>1, <2>2, <2>3, <2>4, <2>5, <2>6, <3>1 DEF HasTheirs, HasToItself
  <2>7. CASE b = t
    BY <2>3, <2>7 DEF IInv, TypeOK, HasTheirs
  <2> QED
    BY <2>6, <2>7
<1>4. RegisteredIsStashed'
  BY SMTT(30) DEF IInv, TypeOK, RegisteredIsStashed
<1>5. StartedHasArea'
  BY DEF IInv, TypeOK, StartedHasArea
<1>6. AreaOfThisConnection'
  BY DEF IInv, TypeOK, AreaOfThisConnection
<1>7. StashEmptied'
  BY DEF IInv, TypeOK, StashEmptied, Disconnecting
<1>8. OpenOnConnections'
  BY DEF IInv, TypeOK, OpenOnConnections, MayCall
<1>9. MadeOnce'
  BY DEF IInv, TypeOK, MadeOnce
<1> QED
  BY <1>1, <1>2, <1>3, <1>4, <1>5, <1>6, <1>7, <1>8, <1>9 DEF IInv

LEMMA DropStep == ASSUME IInv, NEW t \in Thread, NEW c \in HConn, Drop(t, c) PROVE IInv'
<1> USE CallbackAssumption DEF Drop, Do, Done, Idle, NoDelivery, ObjectOf, Actor, Key
<1>1. TypeOK'
  BY DEF IInv, TypeOK, Doing, Delivery
<1>2. DeliveriesAreOfStarted'
  BY DEF IInv, TypeOK, DeliveriesAreOfStarted
<1>3. ActorsHaveTheirs'
  BY DEF IInv, TypeOK, ActorsHaveTheirs, HasTheirs, HasToItself
<1>4. RegisteredIsStashed'
  BY SMTT(30) DEF IInv, TypeOK, RegisteredIsStashed
<1>5. StartedHasArea'
  BY DEF IInv, TypeOK, StartedHasArea
<1>6. AreaOfThisConnection'
  BY DEF IInv, TypeOK, AreaOfThisConnection
<1>7. StashEmptied'
  <2> SUFFICES ASSUME NEW j \in Key, stashedCBD'[j] # NoEntry
               PROVE  \/ conn'[j[1]] # 0
                      \/ Disconnecting(j[1])'
                      \/ j[1] \in early'
                      \/ j[1] \in warned' /\ \E u \in Thread : made'[u][j[1]] # 0
    BY DEF StashEmptied
  <2>1. \/ conn[j[1]] # 0
        \/ Disconnecting(j[1])
        \/ j[1] \in early
        \/ j[1] \in warned /\ \E u \in Thread : made[u][j[1]] # 0
    BY DEF IInv, StashEmptied
  <2>2. Disconnecting(j[1]) => Disconnecting(j[1])'
    BY DEF Disconnecting, IInv, TypeOK
  <2>3. j[1] # c /\ j[1] \in HConn
    OBVIOUS
  <2>4. \A u \in Thread : made'[u][j[1]] = made[u][j[1]]
    BY <2>3 DEF IInv, TypeOK
  <2> QED
    BY <2>1, <2>2, <2>4
<1>8. OpenOnConnections'
  BY DEF IInv, TypeOK, OpenOnConnections, MayCall
<1>9. MadeOnce'
  BY DEF IInv, TypeOK, MadeOnce
<1> QED
  BY <1>1, <1>2, <1>3, <1>4, <1>5, <1>6, <1>7, <1>8, <1>9 DEF IInv

LEMMA DeleteAllCallbacksStep == ASSUME IInv, NEW t \in Thread, DeleteAllCallbacks(t) PROVE IInv'
<1> USE CallbackAssumption DEF DeleteAllCallbacks, Do, Done, Idle, NoDelivery, ObjectOf, Actor, Key
<1> DEFINE c == doing[t].conn
<1>a. c \in HConn /\ (c \notin early => conn[c] = 0)
  BY DEF IInv, ActorsHaveTheirs, HasTheirs
<1>b. stashedCBD' = [k \in Key |-> IF k[1] = c THEN NoEntry ELSE stashedCBD[k]]
  BY DEF OfHandle
<1>c. \A k \in registered : k \in Key /\ (k[1] \notin early => k[1] # c)
  BY <1>a DEF IInv, TypeOK, OpenOnConnections
<1>1. TypeOK'
  <2>1. made' \in [Thread -> [HConn -> 0..connects]]
    BY <1>a DEF IInv, TypeOK
  <2>2. stashedCBD' \in [Key -> Nat \cup {NoEntry}]
    BY <1>b DEF IInv, TypeOK
  <2>3. doing' \in [Actor -> Doing]
    BY DEF IInv, TypeOK, Doing
  <2> QED
    BY <2>1, <2>2, <2>3 DEF IInv, TypeOK
<1>2. DeliveriesAreOfStarted'
  BY <1>b, <1>c DEF IInv, TypeOK, DeliveriesAreOfStarted
<1>3. ActorsHaveTheirs'
  BY DEF IInv, TypeOK, ActorsHaveTheirs, HasTheirs, HasToItself
<1>4. RegisteredIsStashed'
  BY <1>b, <1>c DEF IInv, TypeOK, RegisteredIsStashed
<1>5. StartedHasArea'
  BY DEF IInv, TypeOK, StartedHasArea
<1>6. AreaOfThisConnection'
  BY DEF IInv, TypeOK, AreaOfThisConnection
<1>7. StashEmptied'
  BY <1>a, <1>b DEF IInv, TypeOK, StashEmptied, Disconnecting
<1>8. OpenOnConnections'
  BY DEF IInv, TypeOK, OpenOnConnections, MayCall
<1>9. MadeOnce'
  BY DEF IInv, TypeOK, MadeOnce
<1> QED
  BY <1>1, <1>2, <1>3, <1>4, <1>5, <1>6, <1>7, <1>8, <1>9 DEF IInv

LEMMA CallStep == ASSUME IInv, NEW k \in Key, Call(k) PROVE IInv'
<1> USE CallbackAssumption DEF Call, Do, Done, Idle, NoDelivery, ObjectOf, Actor, Key
<1>1. TypeOK'
  BY DEF IInv, TypeOK, Doing, Delivery
<1>2. DeliveriesAreOfStarted'
  <2>1. k[1] \notin early => stashedCBD[k] = ObjectOf(k)
    BY DEF IInv, TypeOK, RegisteredIsStashed, ActorsHaveTheirs, HasTheirs, HasToItself
  <2> QED
    BY <2>1 DEF IInv, TypeOK, DeliveriesAreOfStarted
<1>3. ActorsHaveTheirs'
  BY DEF IInv, TypeOK, ActorsHaveTheirs, HasTheirs, HasToItself
<1>4. RegisteredIsStashed'
  BY DEF IInv, TypeOK, RegisteredIsStashed
<1>5. StartedHasArea'
  BY DEF IInv, TypeOK, StartedHasArea
<1>6. AreaOfThisConnection'
  BY DEF IInv, TypeOK, AreaOfThisConnection
<1>7. StashEmptied'
  BY DEF IInv, TypeOK, StashEmptied, Disconnecting
<1>8. OpenOnConnections'
  BY DEF IInv, TypeOK, OpenOnConnections, MayCall
<1>9. MadeOnce'
  BY DEF IInv, TypeOK, MadeOnce
<1> QED
  BY <1>1, <1>2, <1>3, <1>4, <1>5, <1>6, <1>7, <1>8, <1>9 DEF IInv

LEMMA LookUpStep == ASSUME IInv, NEW c \in HConn, LookUp(c) PROVE IInv'
<1> USE CallbackAssumption DEF LookUp, Do, Done, Idle, NoDelivery, ObjectOf, Actor, Key
<1>1. TypeOK'
  BY DEF IInv, TypeOK, Doing, Delivery
<1>2. DeliveriesAreOfStarted'
  BY DEF IInv, TypeOK, DeliveriesAreOfStarted
<1>3. ActorsHaveTheirs'
  BY DEF IInv, TypeOK, ActorsHaveTheirs, HasTheirs, HasToItself
<1>4. RegisteredIsStashed'
  BY DEF IInv, TypeOK, RegisteredIsStashed
<1>5. StartedHasArea'
  BY DEF IInv, TypeOK, StartedHasArea
<1>6. AreaOfThisConnection'
  BY DEF IInv, TypeOK, AreaOfThisConnection
<1>7. StashEmptied'
  BY DEF IInv, TypeOK, StashEmptied, Disconnecting
<1>8. OpenOnConnections'
  BY DEF IInv, TypeOK, OpenOnConnections, MayCall
<1>9. MadeOnce'
  BY DEF IInv, TypeOK, MadeOnce
<1> QED
  BY <1>1, <1>2, <1>3, <1>4, <1>5, <1>6, <1>7, <1>8, <1>9 DEF IInv

LEMMA RunFunctionStep == ASSUME IInv, NEW c \in HConn, RunFunction(c) PROVE IInv'
<1> USE CallbackAssumption DEF RunFunction, Do, Done, Idle, NoDelivery, ObjectOf, Actor, Key
<1>1. TypeOK'
  BY DEF IInv, TypeOK, Doing, Delivery
<1>2. DeliveriesAreOfStarted'
  BY DEF IInv, TypeOK, DeliveriesAreOfStarted
<1>3. ActorsHaveTheirs'
  BY DEF IInv, TypeOK, ActorsHaveTheirs, HasTheirs, HasToItself
<1>4. RegisteredIsStashed'
  BY DEF IInv, TypeOK, RegisteredIsStashed
<1>5. StartedHasArea'
  BY DEF IInv, TypeOK, StartedHasArea
<1>6. AreaOfThisConnection'
  <2>1. c \notin early => stashedCTLO[c] = conn[c]
    BY DEF IInv, DeliveriesAreOfStarted, StartedHasArea
  <2> QED
    BY <2>1 DEF IInv, TypeOK, AreaOfThisConnection
<1>7. StashEmptied'
  BY DEF IInv, TypeOK, StashEmptied, Disconnecting
<1>8. OpenOnConnections'
  BY DEF IInv, TypeOK, OpenOnConnections, MayCall
<1>9. MadeOnce'
  BY DEF IInv, TypeOK, MadeOnce
<1> QED
  BY <1>1, <1>2, <1>3, <1>4, <1>5, <1>6, <1>7, <1>8, <1>9 DEF IInv

LEMMA FunctionReturnsStep == ASSUME IInv, NEW c \in HConn, FunctionReturns(c) PROVE IInv'
<1> USE CallbackAssumption DEF FunctionReturns, Do, Done, Idle, NoDelivery, ObjectOf, Actor, Key
<1>1. TypeOK'
  BY DEF IInv, TypeOK, Doing, Delivery
<1>2. DeliveriesAreOfStarted'
  BY DEF IInv, TypeOK, DeliveriesAreOfStarted
<1>3. ActorsHaveTheirs'
  BY DEF IInv, TypeOK, ActorsHaveTheirs, HasTheirs, HasToItself
<1>4. RegisteredIsStashed'
  BY DEF IInv, TypeOK, RegisteredIsStashed
<1>5. StartedHasArea'
  BY DEF IInv, TypeOK, StartedHasArea
<1>6. AreaOfThisConnection'
  BY DEF IInv, TypeOK, AreaOfThisConnection
<1>7. StashEmptied'
  BY DEF IInv, TypeOK, StashEmptied, Disconnecting
<1>8. OpenOnConnections'
  BY DEF IInv, TypeOK, OpenOnConnections, MayCall
<1>9. MadeOnce'
  BY DEF IInv, TypeOK, MadeOnce
<1> QED
  BY <1>1, <1>2, <1>3, <1>4, <1>5, <1>6, <1>7, <1>8, <1>9 DEF IInv

LEMMA IInvStep == IInv /\ [Next]_vars => IInv'
<1> SUFFICES ASSUME IInv, [Next]_vars PROVE IInv'
  OBVIOUS
<1>1. CASE UNCHANGED vars
  BY <1>1 DEF vars, IInv, TypeOK, MadeOnce, HasTheirs, DeliveriesAreOfStarted, ActorsHaveTheirs, HasToItself,
     RegisteredIsStashed, OpenOnConnections, StartedHasArea, AreaOfThisConnection, StashEmptied,
     Disconnecting, ObjectOf
<1> QED
  BY <1>1, ConnectStep, DisconnectStep, DisconnectWarnsStep, DropStep, SaveAreaStep, StartStep, StopStep, DeleteAllCallbacksStep,
     OpenStep, CloseStep, RegisterStep, DeregisterStep, SaveCallbackStep, DeleteCallbackStep,
     CallStep, LookUpStep, RunFunctionStep, FunctionReturnsStep DEF Next

LEMMA IInvAlways == Spec => []IInv
BY IInvInit, IInvStep, PTL DEF Spec

\* The variables of Callbacks hold what they are declared to hold.
THEOREM CallbacksTypeCorrect == Spec => []TypeOK
<1>1. IInv => TypeOK
  BY DEF IInv
<1> QED
  BY <1>1, IInvAlways, PTL

\* A callback that MQ calls finds the entry of the object that is open now under
\* its handles, however numbers are reused and registrations interleave with
\* starts, stops, closes and disconnects (mqcallback.py:90-97): on every connection
\* whose number no other QueueManager has held on to.
THEOREM CallbackResolvesAlways == Spec => []CallbackResolves
<1>1. IInv => CallbackResolves
  BY ObjectsAreNumbers DEF IInv, DeliveriesAreOfStarted, CallbackResolves
<1> QED
  BY <1>1, IInvAlways, PTL

\* A callback that runs was given an area of its own connection, although areas of
\* earlier connections are never deleted (mqqmgr.py:643, mqcallback.py:108-112),
\* on every connection whose number no other QueueManager has held on to.
THEOREM AreaOfThisConnectionAlways == Spec => []AreaOfThisConnection
<1>1. IInv => AreaOfThisConnection
  BY DEF IInv
<1> QED
  BY <1>1, IInvAlways, PTL

\* A callback is in the stash only of a connection that is there, that is being
\* disconnected, or whose disconnect raised a warning and left its QueueManager
\* with the number (mqqmgr.py:426-443, mqcallback.py:60-68), unless the number was
\* given out while a QueueManager still had it.
THEOREM StashEmptiedAlways == Spec => []StashEmptied
<1>1. IInv => StashEmptied
  BY DEF IInv
<1> QED
  BY <1>1, IInvAlways, PTL
=============================================================================
