---------------------------- MODULE HandlesProofs ----------------------------
(* For any managers, objects and numbers: what an object holds is its own,    *)
(* what it has opened it can close, and a connection is its manager's.        *)
EXTENDS Handles, TLAPS

\* MQ has nothing open on a connection that is not up.
DownIsEmpty == \A c \in Conn : ~link[c].up => \A n \in Obj : opened[c][n] = None

\* An object has a manager as long as it exists.
ObjectsHaveManagers == \A o \in Object : obj[o].mgr = None => obj[o] = Unborn

\* The queue of a subscription has the manager of the subscription; a reply queue,
\* and nothing else, has a PCFExecute for its manager: the two are never the same.
SubQueues ==
    \A s \in Subscription :
        /\ obj[s].mgr \in QueueManager \cup {None}
        /\ obj[s].handle # None => subQueue[s] # None
        /\ subQueue[s] # None => obj[s].mgr # None /\ obj[subQueue[s]].mgr = obj[s].mgr

ReplyQueues ==
    /\ \A p \in PCFExecute : replyQueue[p] # None => obj[replyQueue[p]].mgr = p
    /\ \A o \in Object : obj[o].mgr \in PCFExecute => replyQueue[obj[o].mgr] = o

IInv ==
    /\ TypeOK
    /\ DownIsEmpty
    /\ ObjectsHaveManagers
    /\ SubQueues
    /\ ReplyQueues
    /\ ConnectionsHeld
    /\ NothingLost
    /\ HoldsOwn

-----------------------------------------------------------------------------
(* Who holds what.                                                             *)

Thing == Manager \cup Object
ObjectRecord == [mgr : Manager \cup {None}, handle : Obj \cup {None}, named : BOOLEAN]

\* The kinds of objects are told apart, and from None and Orphan.
LEMMA Kinds ==
    /\ \A x \in Manager : x \notin Object /\ x # None /\ x # Orphan
    /\ \A x \in Object : x \notin Manager /\ x # None /\ x # Orphan
    /\ \A x \in Queue : x \in Opener
    /\ \A x \in Opener : x \in Object /\ x \notin Subscription
    /\ \A x \in Subscription : x \in Object /\ x \notin Opener /\ x \notin Queue
    /\ \A x \in QueueManager : x \in Manager /\ x \notin PCFExecute
    /\ \A x \in PCFExecute : x \in Manager /\ x \notin QueueManager
    /\ None # Orphan /\ None \notin Conn /\ None \notin Obj
BY HandlesAssumption DEF Manager, Object, Opener

LEMMA HeldOf ==
    /\ \A m \in Manager : Held(m) = mgr[m].qmobj /\ OnConn(m) = mgr[m].handle
    /\ \A o \in Object : /\ Held(o) = obj[o].handle
                         /\ OnConn(o) = IF obj[o].mgr = None THEN None ELSE mgr[obj[o].mgr].handle
    /\ \A m \in Manager : Held(m)' = mgr'[m].qmobj /\ OnConn(m)' = mgr'[m].handle
    /\ \A o \in Object : /\ Held(o)' = obj'[o].handle
                         /\ OnConn(o)' = IF obj'[o].mgr = None THEN None ELSE mgr'[obj'[o].mgr].handle
BY Kinds DEF Held, OnConn

\* A step that leaves a thing and its manager's connection alone leaves what it holds alone.
LEMMA HeldKept ==
    /\ \A m \in Manager : mgr'[m] = mgr[m] => Held(m)' = Held(m) /\ OnConn(m)' = OnConn(m)
    /\ \A o \in Object :
          /\ obj'[o] = obj[o]
          /\ obj[o].mgr # None => mgr'[obj[o].mgr].handle = mgr[obj[o].mgr].handle
          => Held(o)' = Held(o) /\ OnConn(o)' = OnConn(o)
BY HeldOf

LEMMA HeldTyped ==
    ASSUME TypeOK
    PROVE  \A x \in Thing : Held(x) \in Obj \cup {None} /\ OnConn(x) \in Conn \cup {None}
BY HeldOf DEF TypeOK, Thing

LEMMA IInvInit == Init => IInv
<1> SUFFICES ASSUME Init PROVE IInv
  OBVIOUS
<1>1. \A o \in Object : obj[o] = Unborn
  BY DEF Init
<1>2. \A m \in Manager : mgr[m] = Unconnected
  BY DEF Init
<1>3. \A c \in Conn : link[c] = NoLink /\ \A n \in Obj : opened[c][n] = None
  BY DEF Init, NothingOpen
<1>4. TypeOK
  BY DEF Init, TypeOK, Unborn, Unconnected, NoLink, NothingOpen
<1>5. DownIsEmpty /\ ObjectsHaveManagers /\ ReplyQueues
  BY <1>1, <1>3, Kinds DEF Init, DownIsEmpty, ObjectsHaveManagers, ReplyQueues, Unborn
<1>6. SubQueues
  BY <1>1, Kinds DEF Init, SubQueues, Unborn
<1>7. ConnectionsHeld
  BY <1>2, <1>3, Kinds DEF ConnectionsHeld, ConnectionIsOwn, Unconnected, NoLink
<1>8. NothingLost
  BY <1>3 DEF NothingLost
<1>9. HoldsOwn
  BY <1>1, <1>2, HeldOf DEF HoldsOwn, Unborn, Unconnected
<1> QED
  BY <1>4, <1>5, <1>6, <1>7, <1>8, <1>9 DEF IInv

\* Nobody else has the number under which MQ has something of x open.
LEMMA OwnNumber ==
    ASSUME IInv, lapses = {}, NEW x \in Thing, NEW y \in Thing,
           Answers(OnConn(x)), Held(x) # None, Held(y) = Held(x), OnConn(y) = OnConn(x)
    PROVE  x = y
BY DEF IInv, HoldsOwn, Thing

-----------------------------------------------------------------------------
(* Things let go of what they hold.                                            *)

\* MQ has nothing open any more for the things of X, and what they were in the way
\* of is as it was; unless the connection is gone.
Cleared(X) ==
    \A c \in Conn, n \in Obj :
        \/ /\ opened'[c][n] = opened[c][n]
           /\ opened[c][n] \in X /\ link[c].up =>
                OnConn(opened[c][n]) # c \/ Held(opened[c][n]) # n
        \/ /\ \E x \in X : OnConn(x) = c /\ Held(x) = n
           /\ link[c].up /\ opened'[c][n] \in {None, Orphan, opened[c][n]}
           /\ "stale" \notin lapses => opened'[c][n] \notin X
        \/ ~link'[c].up /\ opened'[c][n] = None

LetsGo(X) ==
    /\ \A y \in Thing \ X : Held(y)' = Held(y) /\ OnConn(y)' = OnConn(y)
    /\ \A x \in X : Held(x)' = None \/ OnConn(x)' = None
    /\ \A c \in Conn : /\ link'[c].up => link[c].up
                       /\ ~link'[c].up => \A n \in Obj : opened'[c][n] = None
    /\ Cleared(X)
    /\ lapses \subseteq lapses'

LEMMA LetsGoEffect ==
    ASSUME IInv, NEW X \in SUBSET Thing, LetsGo(X)
    PROVE  DownIsEmpty' /\ NothingLost' /\ HoldsOwn'
<1>1. DownIsEmpty'
  BY DEF DownIsEmpty, LetsGo
<1>2. NothingLost'
  <2> SUFFICES ASSUME "stale" \notin lapses', NEW c \in Conn, NEW n \in Obj,
                      NEW y, y = opened'[c][n], y \notin {None, Orphan}
               PROVE  Held(y)' = n /\ OnConn(y)' = c
    BY DEF NothingLost
  <2>1. opened[c][n] = y
    BY DEF LetsGo, Cleared
  <2>2. Held(y) = n /\ OnConn(y) = c /\ y \in Thing
    BY <2>1 DEF IInv, NothingLost, TypeOK, Thing, LetsGo
  <2>3. y \notin X
    BY <2>1, <2>2 DEF LetsGo, Cleared, IInv, DownIsEmpty
  <2> QED
    BY <2>2, <2>3 DEF LetsGo
<1>3. HoldsOwn'
  <2> SUFFICES ASSUME lapses = {}, NEW y \in Thing, Held(y)' # None, Answers(OnConn(y))'
               PROVE  opened'[OnConn(y)'][Held(y)'] = y
    BY DEF HoldsOwn, LetsGo, Thing
  <2>1. OnConn(y)' # None /\ link'[OnConn(y)'].up
    BY DEF Answers
  <2>2. y \notin X /\ Held(y)' = Held(y) /\ OnConn(y)' = OnConn(y)
    BY <2>1 DEF LetsGo
  <2>3. Held(y) \in Obj /\ OnConn(y) \in Conn
    BY <2>1, <2>2, HeldTyped DEF IInv
  <2>4. link[OnConn(y)].up /\ Answers(OnConn(y))
    BY <2>1, <2>2, <2>3 DEF Answers, LetsGo
  <2>5. opened[OnConn(y)][Held(y)] = y
    BY <2>2, <2>4 DEF IInv, HoldsOwn, Thing
  <2>6. \A x \in X : ~(OnConn(x) = OnConn(y) /\ Held(x) = Held(y))
    BY <2>2, <2>4, OwnNumber
  <2> QED
    BY <2>1, <2>2, <2>3, <2>5, <2>6 DEF LetsGo, Cleared
<1> QED
  BY <1>1, <1>2, <1>3

\* op is what is open when the number of x has been cleared, and no other.
OnlyFreed(x, op) ==
    /\ op \in [Conn -> [Obj -> Object \cup Manager \cup {None, Orphan}]]
    /\ \A c \in Conn, n \in Obj :
          \/ op[c][n] = opened[c][n] /\ (opened[c][n] = x /\ link[c].up => OnConn(x) # c \/ Held(x) # n)
          \/ /\ OnConn(x) = c /\ Held(x) = n /\ link[c].up
             /\ op[c][n] \in {None, Orphan, opened[c][n]} \ {x}

\* The destructors' close clears the number, whether MQCLOSE succeeds or not.
LEMMA ClosedEffect ==
    ASSUME IInv, NEW x \in Thing, NEW op \in Closed(x, OnConn(x), Held(x))
    PROVE  OnlyFreed(x, op)
<1> DEFINE c == OnConn(x)
           n == Held(x)
<1>1. n \in Obj \cup {None} /\ c \in Conn \cup {None}
  BY HeldTyped DEF IInv
<1>2. x # None /\ x # Orphan
  BY Kinds DEF Thing
<1>3. CASE n # None /\ HasOpen(c, n)
  <2>1. c \in Conn /\ n \in Obj /\ link[c].up
    BY <1>1, <1>3 DEF HasOpen, Answers
  <2>2. CASE op = [opened EXCEPT ![c][n] = None]
    BY <1>2, <2>1, <2>2 DEF OnlyFreed, IInv, TypeOK
  <2>3. CASE op = [opened EXCEPT ![c][n] = IF @ = x THEN Orphan ELSE @]
    BY <1>2, <2>1, <2>3 DEF OnlyFreed, IInv, TypeOK
  <2> QED
    BY <1>3, <2>2, <2>3 DEF Closed
<1>4. CASE ~(n # None /\ HasOpen(c, n))
  <2>1. op = opened
    BY <1>4 DEF Closed
  <2>2. ASSUME NEW d \in Conn, NEW j \in Obj, opened[d][j] = x, link[d].up, c = d, n = j PROVE FALSE
    BY <1>1, <1>2, <1>4, <2>2, Kinds DEF HasOpen, Answers
  <2> QED
    BY <2>1, <2>2 DEF OnlyFreed, IInv, TypeOK
<1> QED
  BY <1>3, <1>4

\* An object alone lets go of its number, and its manager keeps the connection.
LEMMA ObjectLetsGo ==
    ASSUME IInv, NEW x \in Object,
           obj'[x].handle = None, \A y \in Object \ {x} : obj'[y] = obj[y],
           OnlyFreed(x, opened'),
           UNCHANGED <<mgr, link, lapses>>
    PROVE  DownIsEmpty' /\ ConnectionsHeld' /\ NothingLost' /\ HoldsOwn'
<1>1. x \in Thing
  BY DEF Thing
<1>2. \A y \in Thing \ {x} : Held(y)' = Held(y) /\ OnConn(y)' = OnConn(y)
  BY HeldKept DEF Thing
<1>3. Held(x)' = None
  BY HeldOf
<1>4. Cleared({x})
  BY DEF Cleared, OnlyFreed
<1>5. \A c \in Conn : ~link'[c].up => \A n \in Obj : opened'[c][n] = None
  BY DEF IInv, DownIsEmpty, OnlyFreed
<1>6. LetsGo({x})
  BY <1>2, <1>3, <1>4, <1>5 DEF LetsGo
<1>7. ConnectionsHeld'
  BY DEF IInv, ConnectionsHeld, ConnectionIsOwn
<1> QED
  BY <1>1, <1>6, <1>7, LetsGoEffect

-----------------------------------------------------------------------------
(* A thing that holds nothing opens something.                                 *)

Gains(x, c, n) ==
    /\ Held(x) = None /\ link[c].up /\ opened[c][n] = None
    /\ \A d \in Conn, j \in Obj : opened'[d][j] = IF d = c /\ j = n THEN x ELSE opened[d][j]
    /\ \A m \in Manager : mgr'[m].handle = mgr[m].handle
    /\ link' = link /\ lapses' = lapses

LEMMA GainsEffect ==
    ASSUME IInv, NEW x \in Thing, NEW c \in Conn, NEW n \in Obj, Gains(x, c, n),
           Held(x)' = n, OnConn(x)' = c,
           \A y \in Thing \ {x} : Held(y)' = Held(y) /\ OnConn(y)' = OnConn(y)
    PROVE  DownIsEmpty' /\ ConnectionsHeld' /\ NothingLost' /\ HoldsOwn'
<1>1. DownIsEmpty'
  BY DEF IInv, DownIsEmpty, Gains
<1>2. ConnectionsHeld'
  BY DEF IInv, ConnectionsHeld, ConnectionIsOwn, Gains
<1>3. NothingLost'
  <2> SUFFICES ASSUME "stale" \notin lapses, NEW d \in Conn, NEW j \in Obj,
                      NEW y, y = opened'[d][j], y \notin {None, Orphan}
               PROVE  Held(y)' = j /\ OnConn(y)' = d
    BY DEF NothingLost, Gains
  <2>1. CASE d = c /\ j = n
    BY <2>1 DEF Gains
  <2>2. CASE ~(d = c /\ j = n)
    <3>1. opened[d][j] = y
      BY <2>2 DEF Gains
    <3>2. Held(y) = j /\ OnConn(y) = d /\ y \in Thing
      BY <3>1 DEF IInv, NothingLost, TypeOK, Thing
    <3>3. y # x
      BY <3>2, Kinds DEF Gains
    <3> QED
      BY <3>2, <3>3
  <2> QED
    BY <2>1, <2>2
<1>4. HoldsOwn'
  <2> SUFFICES ASSUME lapses = {}, NEW y \in Thing, Held(y)' # None, Answers(OnConn(y))'
               PROVE  opened'[OnConn(y)'][Held(y)'] = y
    BY DEF HoldsOwn, Gains, Thing
  <2>1. CASE y = x
    BY <2>1 DEF Gains
  <2>2. CASE y # x
    <3>1. Held(y)' = Held(y) /\ OnConn(y)' = OnConn(y)
      BY <2>2
    <3>2. opened[OnConn(y)][Held(y)] = y /\ OnConn(y) \in Conn /\ Held(y) \in Obj
      BY <3>1, HeldTyped DEF IInv, HoldsOwn, Answers, Gains, Thing
    <3>3. y # None
      BY Kinds DEF Thing
    <3> QED
      BY <3>1, <3>2, <3>3 DEF Gains
  <2> QED
    BY <2>1, <2>2
<1> QED
  BY <1>1, <1>2, <1>3, <1>4

\* Nothing but descriptions changes.
LEMMA NothingHeldChanges ==
    ASSUME IInv, UNCHANGED <<opened, link, lapses>>,
           \A m \in Manager : mgr'[m].handle = mgr[m].handle,
           \A y \in Thing : Held(y)' = Held(y) /\ (Held(y) # None => OnConn(y)' = OnConn(y))
    PROVE  DownIsEmpty' /\ ConnectionsHeld' /\ NothingLost' /\ HoldsOwn'
<1>1. DownIsEmpty'
  BY DEF IInv, DownIsEmpty
<1>2. ConnectionsHeld'
  BY DEF IInv, ConnectionsHeld, ConnectionIsOwn
<1>3. NothingLost'
  <2> SUFFICES ASSUME "stale" \notin lapses, NEW c \in Conn, NEW n \in Obj,
                      NEW y, y = opened[c][n], y \notin {None, Orphan}
               PROVE  Held(y)' = n /\ OnConn(y)' = c
    BY DEF NothingLost
  <2> QED
    BY Kinds DEF IInv, NothingLost, TypeOK, Thing
<1>4. HoldsOwn'
  <2> SUFFICES ASSUME lapses = {}, NEW y \in Thing, Held(y)' # None, Answers(OnConn(y))'
               PROVE  opened[OnConn(y)'][Held(y)'] = y
    BY DEF HoldsOwn, Thing
  <2> QED
    BY DEF IInv, HoldsOwn, Answers, Thing
<1> QED
  BY <1>1, <1>2, <1>3, <1>4

-----------------------------------------------------------------------------
(* Queue and Topic.                                                            *)

\* An object that holds nothing has m for its manager from now on, and perhaps opens.
LEMMA ObjectSettles ==
    ASSUME IInv, NEW o \in Opener, NEW m \in Manager,
           (obj[o] = Unborn /\ m \in QueueManager) \/ obj[o].mgr = m,
           obj'[o].mgr = m, \A y \in Object \ {o} : obj'[y] = obj[y],
           UNCHANGED <<mgr, subQueue, replyQueue>>
    PROVE  ObjectsHaveManagers' /\ SubQueues' /\ ReplyQueues'
<1>1. o \in Object /\ o \notin Subscription /\ m # None
  BY Kinds
<1>2. \A y \in Object \ {o} : obj'[y] = obj[y]
  OBVIOUS
<1>3. ObjectsHaveManagers'
  BY <1>1, <1>2 DEF IInv, ObjectsHaveManagers
<1>4. \A q \in Object : obj[q].mgr # None => obj'[q].mgr = obj[q].mgr
  BY <1>1, <1>2 DEF Unborn
<1>5. SubQueues'
  <2>1. \A s \in Subscription : s \in Object /\ obj'[s] = obj[s]
    BY <1>1, <1>2, Kinds
  <2>2. \A s \in Subscription : subQueue[s] # None => subQueue[s] \in Object
    BY Kinds DEF IInv, TypeOK
  <2> QED
    BY <1>4, <2>1, <2>2 DEF IInv, SubQueues
<1>6. ReplyQueues'
  <2>1. \A p \in PCFExecute : p # None /\ (replyQueue[p] # None => replyQueue[p] \in Object)
    BY Kinds DEF IInv, TypeOK
  <2>2. \A p \in PCFExecute : replyQueue'[p] # None => obj'[replyQueue'[p]].mgr = p
    BY <1>4, <2>1 DEF IInv, ReplyQueues
  <2>3. obj[o].mgr # m => m \notin PCFExecute
    BY Kinds
  <2>4. \A y \in Object : obj'[y].mgr \in PCFExecute => obj'[y].mgr = obj[y].mgr
    BY <1>1, <1>2, <2>3
  <2>5. \A y \in Object : obj'[y].mgr \in PCFExecute => replyQueue'[obj'[y].mgr] = y
    BY <2>4 DEF IInv, ReplyQueues
  <2> QED
    BY <2>2, <2>5 DEF ReplyQueues
<1> QED
  BY <1>3, <1>5, <1>6

LEMMA RealOpenStep ==
    ASSUME IInv, NEW o \in Opener, NEW m \in Manager, NEW n \in Obj, RealOpen(o, m, n),
           (obj[o] = Unborn /\ m \in QueueManager) \/ obj[o].mgr = m, obj[o].handle = None,
           UNCHANGED <<mgr, subQueue, replyQueue, link, lapses>>
    PROVE  IInv'
<1> DEFINE c == mgr[m].handle
<1>1. c \in Conn /\ link[c].up /\ opened[c][n] = None
  BY DEF RealOpen, Answers, IInv, TypeOK
<1>2. o \in Object /\ o \in Thing /\ m # None
  BY Kinds DEF Thing
<1>3. TypeOK'
  BY <1>1, <1>2 DEF IInv, TypeOK, RealOpen, ObjectRecord
<1>4. Gains(o, c, n)
  BY <1>1, <1>2, HeldOf DEF Gains, RealOpen, IInv, TypeOK
<1>5. obj'[o].handle = n /\ obj'[o].mgr = m /\ \A y \in Object \ {o} : obj'[y] = obj[y]
  BY <1>2 DEF RealOpen, IInv, TypeOK
<1>6. ObjectsHaveManagers' /\ SubQueues' /\ ReplyQueues'
  BY <1>5, ObjectSettles
<1>7. Held(o)' = n /\ OnConn(o)' = c
  BY <1>2, <1>5, HeldOf
<1>8. \A y \in Thing \ {o} : Held(y)' = Held(y) /\ OnConn(y)' = OnConn(y)
  BY <1>5, HeldKept DEF Thing
<1>9. DownIsEmpty' /\ ConnectionsHeld' /\ NothingLost' /\ HoldsOwn'
  BY <1>1, <1>2, <1>4, <1>7, <1>8, GainsEffect
<1> QED
  BY <1>3, <1>6, <1>9 DEF IInv

LEMMA DescribedStep ==
    ASSUME IInv, NEW o \in Opener, NEW m \in Manager,
           (obj[o] = Unborn /\ m \in QueueManager) \/ obj[o].mgr = m, obj[o].handle = None,
           obj' \in [Object -> ObjectRecord], obj'[o].mgr = m, obj'[o].handle = None,
           \A y \in Object \ {o} : obj'[y] = obj[y],
           UNCHANGED <<mgr, subQueue, replyQueue, link, opened, lapses>>
    PROVE  IInv'
<1>1. o \in Object
  BY Kinds
<1>2. ObjectsHaveManagers' /\ SubQueues' /\ ReplyQueues'
  BY ObjectSettles
<1>3. TypeOK'
  BY DEF IInv, TypeOK, ObjectRecord
<1>4. obj'[o].handle = None /\ \A y \in Object \ {o} : obj'[y] = obj[y]
  OBVIOUS
<1>5. \A y \in Thing : Held(y)' = Held(y) /\ (Held(y) # None => OnConn(y)' = OnConn(y))
  BY <1>1, <1>4, HeldKept, HeldOf DEF Thing
<1>6. DownIsEmpty' /\ ConnectionsHeld' /\ NothingLost' /\ HoldsOwn'
  BY <1>5, NothingHeldChanges
<1> QED
  BY <1>2, <1>3, <1>6 DEF IInv

LEMMA NewStep ==
    ASSUME IInv, NEW o \in Opener, NEW m \in QueueManager, NEW n \in Obj, New(o, m, n)
    PROVE  IInv'
<1>1. obj[o] = Unborn /\ obj[o].handle = None /\ m \in Manager
  BY Kinds DEF New, Unborn
<1>2. CASE RealOpen(o, m, n)
  BY <1>1, <1>2, RealOpenStep DEF New
<1>3. CASE ~RealOpen(o, m, n)
  <2>1. PICK d \in BOOLEAN : obj' = [obj EXCEPT ![o] = [mgr |-> m, handle |-> None, named |-> d]]
    BY <1>3 DEF New
  <2>2. /\ obj' \in [Object -> ObjectRecord] /\ obj'[o].mgr = m /\ obj'[o].handle = None
        /\ \A y \in Object \ {o} : obj'[y] = obj[y]
    BY <1>1, <2>1, Kinds DEF IInv, TypeOK, ObjectRecord
  <2> QED
    BY <1>1, <1>3, <2>2, DescribedStep DEF New
<1> QED
  BY <1>2, <1>3

LEMMA OpenStep ==
    ASSUME IInv, NEW o \in Opener, NEW n \in Obj, Open(o, n) \/ Use(o, n)
    PROVE  IInv'
<1>1. o \in Object /\ obj[o].handle = None /\ obj[o].mgr # None
  BY Kinds DEF Open, Use
<1>2. obj[o].mgr \in Manager
  BY <1>1 DEF IInv, TypeOK
<1>3. CASE RealOpen(o, obj[o].mgr, n)
  BY <1>1, <1>2, <1>3, RealOpenStep DEF Open, Use
<1>4. CASE obj' = [obj EXCEPT ![o].named = TRUE] /\ UNCHANGED <<mgr, subQueue, replyQueue, link, opened, lapses>>
  <2>1. obj \in [Object -> ObjectRecord]
    BY DEF IInv, TypeOK, ObjectRecord
  <2>2. PICK new : new = [obj[o] EXCEPT !.named = TRUE]
    OBVIOUS
  <2>3. new \in ObjectRecord /\ new.mgr = obj[o].mgr /\ new.handle = obj[o].handle
    BY <1>1, <2>1, <2>2 DEF ObjectRecord
  <2>4. obj' = [obj EXCEPT ![o] = new]
    BY <1>4, <2>2
  <2>5. /\ obj' \in [Object -> ObjectRecord] /\ obj'[o].mgr = obj[o].mgr /\ obj'[o].handle = None
        /\ \A y \in Object \ {o} : obj'[y] = obj[y]
    BY <1>1, <2>1, <2>3, <2>4
  <2> QED
    BY <1>1, <1>2, <1>4, <2>5, DescribedStep
<1> QED
  BY <1>3, <1>4 DEF Open, Use

\* Objects keep their managers, and open nothing.
LEMMA ManagersKept ==
    ASSUME IInv, UNCHANGED <<subQueue, replyQueue>>,
           \A y \in Object : /\ obj'[y].mgr = obj[y].mgr
                             /\ obj'[y].handle # None => obj[y].handle # None
                             /\ obj[y].mgr = None => obj'[y] = obj[y]
    PROVE  ObjectsHaveManagers' /\ SubQueues' /\ ReplyQueues'
<1>1. ObjectsHaveManagers'
  BY DEF IInv, ObjectsHaveManagers
<1>2. \A s \in Subscription : s \in Object /\ (subQueue[s] # None => subQueue[s] \in Object)
  BY Kinds DEF IInv, TypeOK
<1>3. SubQueues'
  BY <1>2 DEF IInv, SubQueues
<1>4. \A p \in PCFExecute : replyQueue[p] # None => replyQueue[p] \in Object
  BY Kinds DEF IInv, TypeOK
<1>5. ReplyQueues'
  BY <1>4 DEF IInv, ReplyQueues
<1> QED
  BY <1>1, <1>3, <1>5

\* An object that nobody refers to any more is forgotten.
LEMMA Forgotten ==
    ASSUME IInv, NEW x \in Object, obj' = [obj EXCEPT ![x] = Unborn],
           subQueue' \in [Subscription -> Queue \cup {None}], replyQueue' \in [PCFExecute -> Queue \cup {None}],
           \A s \in Subscription : subQueue'[s] = IF s = x THEN None ELSE subQueue[s],
           \A p \in PCFExecute : replyQueue'[p] = IF replyQueue[p] = x THEN None ELSE replyQueue[p],
           \A s \in Subscription : subQueue[s] # x,
           OnlyFreed(x, opened'),
           UNCHANGED <<mgr, link, lapses>>
    PROVE  IInv'
<1>1. obj'[x] = Unborn /\ \A y \in Object \ {x} : obj'[y] = obj[y]
  BY DEF IInv, TypeOK
<1>2. TypeOK'
  BY DEF IInv, TypeOK, Unborn, OnlyFreed
<1>3. obj'[x].handle = None
  BY <1>1 DEF Unborn
<1>4. DownIsEmpty' /\ ConnectionsHeld' /\ NothingLost' /\ HoldsOwn'
  BY <1>1, <1>3, ObjectLetsGo
<1>5. ObjectsHaveManagers'
  BY <1>1 DEF IInv, ObjectsHaveManagers
<1>6. SubQueues'
  <2>1. \A s \in Subscription : s \in Object /\ (subQueue[s] # None => subQueue[s] \in Object \ {x})
    BY Kinds DEF IInv, TypeOK
  <2> QED
    BY <1>1, <2>1 DEF IInv, SubQueues, Unborn
<1>7. ReplyQueues'
  <2>1. \A p \in PCFExecute : replyQueue[p] # None => replyQueue[p] \in Object
    BY Kinds DEF IInv, TypeOK
  <2>2. \A p \in PCFExecute : replyQueue'[p] # None => obj'[replyQueue'[p]].mgr = p
    BY <1>1, <2>1 DEF IInv, ReplyQueues
  <2>3. \A y \in Object : obj'[y].mgr \in PCFExecute => y # x
    BY <1>1, Kinds DEF Unborn
  <2>4. \A y \in Object : obj'[y].mgr \in PCFExecute => replyQueue'[obj'[y].mgr] = y
    BY <1>1, <2>3 DEF IInv, ReplyQueues
  <2> QED
    BY <2>2, <2>4 DEF ReplyQueues
<1> QED
  BY <1>2, <1>4, <1>5, <1>6, <1>7 DEF IInv

LEMMA CloseStep == ASSUME IInv, NEW o \in Opener, Close(o) PROVE IInv'
<1> DEFINE c == mgr[obj[o].mgr].handle
           n == obj[o].handle
<1>1. o \in Object /\ o # None
  BY Kinds
<1>2. obj[o].mgr \in Manager /\ obj[o].mgr # None /\ n \in Obj /\ c \in Conn /\ link[c].up
  BY <1>1 DEF Close, HasOpen, Answers, IInv, TypeOK
<1>3. /\ obj'[o].handle = None /\ obj'[o].mgr = obj[o].mgr
      /\ \A y \in Object \ {o} : obj'[y] = obj[y]
      /\ obj' \in [Object -> ObjectRecord]
  BY ZenonT(30), <1>1 DEF Close, IInv, TypeOK, ObjectRecord
<1>4. Held(o) = n /\ OnConn(o) = c
  BY <1>1, <1>2, HeldOf
<1>5. TypeOK'
  BY <1>2, <1>3 DEF Close, IInv, TypeOK, ObjectRecord
<1>6. \A d \in Conn, j \in Obj : opened'[d][j] = IF d = c /\ j = n THEN None ELSE opened[d][j]
  BY <1>2 DEF Close, IInv, TypeOK
<1>7. OnlyFreed(o, opened')
  BY <1>1, <1>2, <1>4, <1>5, <1>6 DEF OnlyFreed, TypeOK
<1>8. DownIsEmpty' /\ ConnectionsHeld' /\ NothingLost' /\ HoldsOwn'
  BY <1>1, <1>3, <1>7, ObjectLetsGo DEF Close
<1>9. ObjectsHaveManagers' /\ SubQueues' /\ ReplyQueues'
  BY <1>2, <1>3, ManagersKept DEF Close
<1> QED
  BY <1>5, <1>8, <1>9 DEF IInv

\* What the destructor of an object closes is what the object holds.
LEMMA LetGoIsClosed ==
    ASSUME IInv, NEW o \in Object, obj[o] # Unborn
    PROVE  LetGo(o) = Closed(o, OnConn(o), Held(o)) /\ o \in Thing
BY HeldOf DEF LetGo, IInv, ObjectsHaveManagers, Thing

LEMMA DelStep == ASSUME IInv, NEW o \in Opener, Del(o) PROVE IInv'
<1>1. o \in Object /\ o \notin Subscription /\ o # None
  BY Kinds
<1>2. OnlyFreed(o, opened')
  BY <1>1, LetGoIsClosed, ClosedEffect DEF Del
<1>3. UNCHANGED <<mgr, subQueue, replyQueue, link, lapses>> /\ obj' = [obj EXCEPT ![o] = Unborn]
  BY DEF Del
<1>4. /\ \A s \in Subscription : subQueue[s] # o /\ s # o
      /\ \A p \in PCFExecute : replyQueue[p] # o
  BY <1>1 DEF Del
<1> QED
  BY <1>1, <1>2, <1>3, <1>4, Forgotten DEF IInv, TypeOK

LEMMA DelSubStep == ASSUME IInv, NEW s \in Subscription, DelSub(s) PROVE IInv'
<1>1. s \in Object /\ s \notin Queue /\ s # None
  BY Kinds
<1>2. OnlyFreed(s, opened')
  BY <1>1, LetGoIsClosed, ClosedEffect DEF DelSub
<1>3. /\ UNCHANGED <<mgr, replyQueue, link, lapses>> /\ obj' = [obj EXCEPT ![s] = Unborn]
      /\ subQueue' = [subQueue EXCEPT ![s] = None]
  BY DEF DelSub
<1>4. /\ \A t \in Subscription : subQueue[t] # s
      /\ \A p \in PCFExecute : replyQueue[p] # s
  BY <1>1 DEF IInv, TypeOK
<1> QED
  BY <1>1, <1>2, <1>3, <1>4, Forgotten DEF IInv, TypeOK

LEMMA PCFDisconnectStep == ASSUME IInv, NEW p \in PCFExecute, PCFDisconnect(p) PROVE IInv'
<1> DEFINE q == replyQueue[p]
<1>1. q \in Queue /\ q \in Object /\ q \notin Subscription /\ q \in Thing /\ q # None /\ p # None
  BY Kinds DEF PCFDisconnect, IInv, TypeOK, Thing
<1>2. obj[q].mgr = p
  BY DEF PCFDisconnect, IInv, ReplyQueues
<1>3. ReplyQueueClosed(p) = Closed(q, OnConn(q), Held(q))
  BY <1>1, <1>2, HeldOf DEF ReplyQueueClosed
<1>4. OnlyFreed(q, opened')
  BY <1>1, <1>3, ClosedEffect DEF PCFDisconnect
<1>5. /\ UNCHANGED <<mgr, subQueue, link, lapses>> /\ obj' = [obj EXCEPT ![q] = Unborn]
      /\ replyQueue' = [replyQueue EXCEPT ![p] = None]
  BY <1>1 DEF PCFDisconnect, ReplyQueueDropped
<1>6. \A s \in Subscription : subQueue[s] # q /\ s # q
  BY <1>1, <1>2, Kinds DEF IInv, SubQueues
<1>7. \A r \in PCFExecute \ {p} : replyQueue[r] # q
  BY <1>1, <1>2 DEF IInv, ReplyQueues
<1> QED
  BY <1>1, <1>4, <1>5, <1>6, <1>7, Forgotten DEF IInv, TypeOK

\* CloseSub closes the subscription alone, or its queue as well.
LEMMA CloseSubStep == ASSUME IInv, NEW s \in Subscription, CloseSub(s) PROVE IInv'
<1> DEFINE c == mgr[obj[s].mgr].handle
           n == obj[s].handle
<1>0. PICK q : q = subQueue[s]
  OBVIOUS
<1>1. s \in Object /\ s \notin Queue /\ s \in Thing /\ s # None
  BY Kinds DEF Thing
<1>2. obj[s].mgr \in Manager /\ obj[s].mgr # None /\ n \in Obj /\ c \in Conn /\ link[c].up
  BY ZenonT(30), <1>1 DEF CloseSub, HasOpen, Answers, IInv, TypeOK
<1>3. q \in Queue /\ q \in Object /\ q \in Thing /\ q # s /\ q # None /\ obj[q].mgr = obj[s].mgr
  <2>1. subQueue[s] # None /\ obj[subQueue[s]].mgr = obj[s].mgr
    BY <1>2, Kinds DEF IInv, SubQueues
  <2> QED
    BY <1>0, <1>1, <2>1, Kinds DEF IInv, TypeOK, Thing
<1>4. Held(s) = n /\ OnConn(s) = c /\ Held(q) = obj[q].handle /\ OnConn(q) = c
  BY <1>1, <1>2, <1>3, HeldOf
<1>5. UNCHANGED <<mgr, subQueue, replyQueue, link, lapses>>
  BY DEF CloseSub
<1>6. CASE /\ opened' = [opened EXCEPT ![c][n] = None]
           /\ obj' = [obj EXCEPT ![s].handle = None, ![s].named = FALSE]
  <2>1. /\ obj' \in [Object -> ObjectRecord]
        /\ obj'[s].handle = None /\ obj'[s].mgr = obj[s].mgr
        /\ \A y \in Object \ {s} : obj'[y] = obj[y]
    BY ZenonT(30), <1>1, <1>6 DEF IInv, TypeOK, ObjectRecord
  <2>2. OnlyFreed(s, opened')
    BY <1>1, <1>2, <1>4, <1>6 DEF OnlyFreed, IInv, TypeOK
  <2>3. DownIsEmpty' /\ ConnectionsHeld' /\ NothingLost' /\ HoldsOwn'
    BY <1>1, <1>5, <2>1, <2>2, ObjectLetsGo
  <2>4. ObjectsHaveManagers' /\ SubQueues' /\ ReplyQueues'
    BY <1>2, <1>5, <2>1, ManagersKept
  <2>5. TypeOK'
    BY <1>5, <2>1, <2>2 DEF IInv, TypeOK, ObjectRecord, OnlyFreed
  <2> QED
    BY <2>3, <2>4, <2>5 DEF IInv
<1>7. CASE /\ obj[q].handle # None
           /\ opened' = [[opened EXCEPT ![c][n] = None] EXCEPT ![c][obj[q].handle] = None]
           /\ obj' = [obj EXCEPT ![s].handle = None, ![s].named = FALSE,
                                 ![q].handle = None, ![q].named = FALSE]
  <2>1. /\ obj' \in [Object -> ObjectRecord]
        /\ obj'[s].handle = None /\ obj'[s].mgr = obj[s].mgr
        /\ obj'[q].handle = None /\ obj'[q].mgr = obj[q].mgr
        /\ \A y \in Object \ {s, q} : obj'[y] = obj[y]
    <3> DEFINE f == [obj EXCEPT ![s].handle = None, ![s].named = FALSE]
    <3>2. /\ f \in [Object -> ObjectRecord] /\ f[s].handle = None /\ f[s].mgr = obj[s].mgr
          /\ \A y \in Object \ {s} : f[y] = obj[y]
      BY <1>1 DEF IInv, TypeOK, ObjectRecord
    <3>3. obj' = [f EXCEPT ![q].handle = None, ![q].named = FALSE]
      BY <1>7
    <3> HIDE DEF f
    <3>7. PICK new : new = [f[q] EXCEPT !.handle = None, !.named = FALSE]
      OBVIOUS
    <3>8. new \in ObjectRecord /\ new.handle = None /\ new.mgr = f[q].mgr
      BY <1>3, <3>2, <3>7 DEF ObjectRecord
    <3>9. obj' = [f EXCEPT ![q] = new]
      <4>1. obj' = [f EXCEPT ![q] = [[f[q] EXCEPT !.handle = None] EXCEPT !.named = FALSE]]
        BY <1>3, <3>2, <3>3
      <4>2. new = [[f[q] EXCEPT !.handle = None] EXCEPT !.named = FALSE]
        BY <1>3, <3>2, <3>7 DEF ObjectRecord
      <4> QED
        BY <4>1, <4>2
    <3>4. obj' \in [Object -> ObjectRecord] /\ obj'[q].handle = None /\ obj'[q].mgr = f[q].mgr
      BY <1>3, <3>2, <3>8, <3>9
    <3>5. \A y \in Object \ {q} : obj'[y] = f[y]
      BY <3>2, <3>9
    <3> QED
      BY <1>1, <1>3, <3>2, <3>4, <3>5
  <2>2. obj[q].handle \in Obj
    BY <1>3, <1>7 DEF IInv, TypeOK
  <2>3. /\ opened' \in [Conn -> [Obj -> Object \cup Manager \cup {None, Orphan}]]
        /\ \A d \in Conn, j \in Obj :
             opened'[d][j] = IF d = c /\ j \in {n, obj[q].handle} THEN None ELSE opened[d][j]
    BY <1>2, <1>7, <2>2 DEF IInv, TypeOK
  <2>4. Cleared({s, q})
    BY <1>1, <1>2, <1>3, <1>4, <2>3 DEF Cleared
  <2>5. Held(s)' = None /\ Held(q)' = None
    <3>1. Held(s)' = obj'[s].handle /\ Held(q)' = obj'[q].handle
      BY <1>1, <1>3, HeldOf
    <3> QED
      BY <2>1, <3>1
  <2>6. \A y \in Thing \ {s, q} : Held(y)' = Held(y) /\ OnConn(y)' = OnConn(y)
    BY <1>5, <2>1, HeldKept DEF Thing
  <2>7. \A d \in Conn : ~link'[d].up => \A j \in Obj : opened'[d][j] = None
    BY <1>5, <2>3 DEF IInv, DownIsEmpty
  <2>8. LetsGo({s, q})
    BY <1>5, <2>4, <2>5, <2>6, <2>7 DEF LetsGo
  <2>9. DownIsEmpty' /\ NothingLost' /\ HoldsOwn'
    BY <1>1, <1>3, <2>8, LetsGoEffect
  <2>10. ConnectionsHeld'
    BY <1>5 DEF IInv, ConnectionsHeld, ConnectionIsOwn
  <2>11. ObjectsHaveManagers' /\ SubQueues' /\ ReplyQueues'
    BY <1>1, <1>2, <1>3, <1>5, <2>1, ManagersKept
  <2>12. TypeOK'
    BY <1>5, <2>1, <2>3 DEF IInv, TypeOK, ObjectRecord
  <2> QED
    BY <2>9, <2>10, <2>11, <2>12 DEF IInv
<1> QED
  BY <1>0, <1>6, <1>7 DEF CloseSub

-----------------------------------------------------------------------------
(* QueueManager.                                                               *)

LEMMA BreakStep == ASSUME IInv, NEW c \in Conn, Break(c) PROVE IInv'
<1>1. TypeOK'
  BY DEF IInv, TypeOK, Break, NothingOpen
<1>2. /\ UNCHANGED <<mgr, obj, subQueue, replyQueue, lapses>>
      /\ ~link'[c].up /\ link'[c].of = link[c].of
      /\ link'[c].connectWarned = link[c].connectWarned /\ \A n \in Obj : opened'[c][n] = None
      /\ \A d \in Conn \ {c} : link'[d] = link[d] /\ opened'[d] = opened[d]
  BY DEF Break, NothingOpen, IInv, TypeOK
<1>3. ObjectsHaveManagers' /\ SubQueues' /\ ReplyQueues' /\ ConnectionsHeld'
  <2>1. ObjectsHaveManagers' /\ SubQueues' /\ ReplyQueues'
    BY <1>2 DEF IInv, ObjectsHaveManagers, SubQueues, ReplyQueues
  <2>2. \A d \in Conn : link'[d].of = link[d].of /\ link'[d].connectWarned = link[d].connectWarned
    BY <1>2
  <2>3. \A m \in Manager : mgr[m].handle # None => mgr[m].handle \in Conn
    BY DEF IInv, TypeOK
  <2>4. ConnectionsHeld'
    BY <1>2, <2>2, <2>3 DEF IInv, ConnectionsHeld, ConnectionIsOwn
  <2> QED
    BY <2>1, <2>4
<1>4. \A y \in Thing : Held(y)' = Held(y) /\ OnConn(y)' = OnConn(y)
  BY <1>2, HeldKept DEF Thing
<1>5. Cleared({})
  BY <1>2 DEF Cleared
<1>6. LetsGo({})
  BY <1>2, <1>4, <1>5 DEF LetsGo, IInv, DownIsEmpty, Break
<1>7. DownIsEmpty' /\ NothingLost' /\ HoldsOwn'
  BY <1>6, LetsGoEffect
<1> QED
  BY <1>1, <1>3, <1>7 DEF IInv

\* The managers and objects whose connection is that of m.
Of(m) == {m} \cup {o \in Object : obj[o].mgr = m}

LEMMA DisconnectStep == ASSUME IInv, NEW m \in Manager, Disconnect(m) PROVE IInv'
<1> DEFINE c == mgr[m].handle
<1>1. m \in QueueManager /\ c \in Conn /\ m # None
  BY Kinds DEF Disconnect, IInv, TypeOK
<1>2. PICK answer \in DiscAnswers(c) :
        /\ mgr' = IF Forgets(answer) THEN [mgr EXCEPT ![m] = Unconnected] ELSE mgr
        /\ link' = IF Ends(answer) THEN [link EXCEPT ![c] = NoLink] ELSE link
        /\ opened' = IF Ends(answer) THEN [opened EXCEPT ![c] = NothingOpen] ELSE opened
        /\ Noting("warned", answer = "warned")
  BY DEF Disconnect
<1>3. UNCHANGED <<obj, subQueue, replyQueue>> /\ lapses \subseteq lapses' /\ lapses' \subseteq Lapse
  BY <1>2 DEF Disconnect, Noting, IInv, TypeOK
<1>4. CASE ~Ends(answer)
  <2>1. UNCHANGED <<mgr, link, opened>> /\ lapses' = lapses
    BY <1>2, <1>4 DEF Ends, Forgets, Noting
  <2> QED
    BY <1>3, <2>1, HeldKept, NothingHeldChanges
       DEF IInv, TypeOK, ObjectsHaveManagers, SubQueues, ReplyQueues, Thing
<1>5. CASE Ends(answer)
  <2>1. /\ link'[c] = NoLink /\ ~link'[c].up /\ \A n \in Obj : opened'[c][n] = None
        /\ \A d \in Conn \ {c} : link'[d] = link[d] /\ opened'[d] = opened[d]
    BY <1>1, <1>2, <1>5 DEF NoLink, NothingOpen, IInv, TypeOK
  <2>2. \A k \in Manager \ {m} : mgr'[k] = mgr[k]
    BY <1>2 DEF IInv, TypeOK
  <2>3. mgr'[m] = IF Forgets(answer) THEN Unconnected ELSE mgr[m]
    BY <1>2 DEF IInv, TypeOK
  <2>4. TypeOK'
    BY <1>1, <1>2, <1>3 DEF IInv, TypeOK, Unconnected, NoLink, NothingOpen
  <2>5. ObjectsHaveManagers' /\ SubQueues' /\ ReplyQueues'
    BY <1>3 DEF IInv, ObjectsHaveManagers, SubQueues, ReplyQueues
  <2>6. ConnectionsHeld'
    <3>1. "stale" \notin lapses' =>
             \A d \in Conn : link'[d].of \in Manager /\ ~link'[d].connectWarned =>
                                mgr'[link'[d].of].handle = d
      BY <1>1, <1>3, <2>1, <2>2, <2>3, Kinds DEF IInv, ConnectionsHeld, NoLink
    <3>2. "warned" \notin lapses' => \A k \in Manager : mgr'[k].handle # None => link'[mgr'[k].handle].of = k
      <4>1. "warned" \notin lapses' => Forgets(answer) /\ \A k \in Manager : mgr[k].handle # None => link[mgr[k].handle].of = k
        BY <1>2, <1>3, <1>5 DEF Ends, Forgets, Noting, IInv, ConnectionsHeld, ConnectionIsOwn
      <4> SUFFICES ASSUME "warned" \notin lapses', NEW k \in Manager, mgr'[k].handle # None
                   PROVE  link'[mgr'[k].handle].of = k
        OBVIOUS
      <4>2. k # m /\ mgr'[k] = mgr[k] /\ mgr[k].handle \in Conn
        BY <2>2, <2>3, <4>1 DEF Unconnected, IInv, TypeOK
      <4>3. link[mgr[k].handle].of = k /\ link[c].of = m
        BY <1>1, <4>1, <4>2, Kinds
      <4> QED
        BY <2>1, <4>2, <4>3
    <3> QED
      BY <3>1, <3>2 DEF ConnectionsHeld, ConnectionIsOwn
  <2>7. \A y \in Of(m) : y \in Thing /\ OnConn(y) = c
    BY <1>1, HeldOf DEF Of, Thing
  <2>8. \A y \in Thing \ Of(m) : Held(y)' = Held(y) /\ OnConn(y)' = OnConn(y)
    <3>1. \A o \in Object \ Of(m) : obj[o].mgr # None => obj[o].mgr \in Manager \ {m}
      BY DEF Of, IInv, TypeOK
    <3> QED
      BY <1>3, <2>2, <3>1, HeldKept DEF Of, Thing
  <2>9. \A d \in Conn : /\ link'[d].up => link[d].up
                        /\ ~link'[d].up => \A n \in Obj : opened'[d][n] = None
    BY <2>1 DEF IInv, DownIsEmpty
  <2>10. CASE Forgets(answer)
    <3>1. \A y \in Of(m) : OnConn(y)' = None
      BY <1>1, <1>3, <2>3, <2>10, HeldOf DEF Of, Unconnected
    <3>2. Cleared(Of(m))
      BY <2>1, <2>7 DEF Cleared
    <3>3. LetsGo(Of(m)) /\ Of(m) \in SUBSET Thing
      BY <1>3, <2>7, <2>8, <2>9, <3>1, <3>2 DEF LetsGo
    <3>4. DownIsEmpty' /\ NothingLost' /\ HoldsOwn'
      BY <3>3, LetsGoEffect
    <3> QED
      BY <2>4, <2>5, <2>6, <3>4 DEF IInv
  <2>11. CASE ~Forgets(answer)
    <3>1. \A y \in Thing : Held(y)' = Held(y) /\ OnConn(y)' = OnConn(y)
      BY <1>2, <1>3, <2>11, HeldKept DEF Thing
    <3>2. Cleared({})
      BY <2>1 DEF Cleared
    <3>3. LetsGo({})
      BY <1>3, <2>9, <3>1, <3>2 DEF LetsGo
    <3>4. DownIsEmpty' /\ NothingLost' /\ HoldsOwn'
      BY <3>3, LetsGoEffect
    <3> QED
      BY <2>4, <2>5, <2>6, <3>4 DEF IInv
  <2> QED
    BY <2>10, <2>11
<1> QED
  BY <1>4, <1>5

LEMMA InquireStep == ASSUME IInv, NEW m \in Manager, NEW n \in Obj, Inquire(m, n) PROVE IInv'
<1> DEFINE c == mgr[m].handle
<1>1. c \in Conn /\ link[c].up /\ opened[c][n] = None /\ m \in Thing
  BY DEF Inquire, Answers, IInv, TypeOK, Thing
<1>2. UNCHANGED <<obj, subQueue, replyQueue, link, lapses>>
  BY DEF Inquire
<1>3. /\ mgr'[m].qmobj = n /\ \A k \in Manager : mgr'[k].handle = mgr[k].handle
      /\ \A k \in Manager \ {m} : mgr'[k] = mgr[k]
  BY DEF Inquire, IInv, TypeOK
<1>4. TypeOK'
  BY <1>1 DEF Inquire, IInv, TypeOK
<1>5. Gains(m, c, n)
  BY <1>1, <1>2, <1>3, HeldOf DEF Gains, Inquire, IInv, TypeOK
<1>6. Held(m)' = n /\ OnConn(m)' = c
  BY <1>3, HeldOf
<1>7. \A y \in Thing \ {m} : Held(y)' = Held(y) /\ OnConn(y)' = OnConn(y)
  BY <1>2, <1>3, HeldKept DEF Thing, IInv, TypeOK
<1>8. DownIsEmpty' /\ ConnectionsHeld' /\ NothingLost' /\ HoldsOwn'
  BY <1>1, <1>5, <1>6, <1>7, GainsEffect
<1>9. ObjectsHaveManagers' /\ SubQueues' /\ ReplyQueues'
  BY <1>2 DEF IInv, ObjectsHaveManagers, SubQueues, ReplyQueues
<1> QED
  BY <1>4, <1>8, <1>9 DEF IInv

\* A manager is gone, and its connection ended or nobody's.
LEMMA ManagerGone ==
    ASSUME IInv, NEW m \in Manager, NEW c \in Conn, mgr[m].handle = c,
           mgr' = [mgr EXCEPT ![m] = Unconnected],
           \A d \in Conn \ {c} : link'[d] = link[d],
           link'[c].of \notin Manager \/ (link'[c] = link[c] /\ link[c].of # m),
           lapses' = lapses
    PROVE  ConnectionsHeld'
<1>1. mgr'[m].handle = None /\ \A k \in Manager \ {m} : mgr'[k] = mgr[k]
  BY DEF Unconnected, IInv, TypeOK
<1>2. "stale" \notin lapses =>
         \A d \in Conn : link'[d].of \in Manager /\ ~link'[d].connectWarned =>
                            mgr'[link'[d].of].handle = d
  BY <1>1 DEF IInv, ConnectionsHeld
<1>3. "warned" \notin lapses => \A k \in Manager : mgr'[k].handle # None => link'[mgr'[k].handle].of = k
  <2> SUFFICES ASSUME "warned" \notin lapses, NEW k \in Manager, mgr'[k].handle # None
               PROVE  link'[mgr'[k].handle].of = k
    OBVIOUS
  <2>1. k # m /\ mgr'[k] = mgr[k] /\ mgr[k].handle \in Conn
    BY <1>1 DEF IInv, TypeOK
  <2>2. link[mgr[k].handle].of = k /\ link[c].of = m
    BY <2>1, Kinds DEF IInv, ConnectionsHeld, ConnectionIsOwn
  <2> QED
    BY <2>1, <2>2
<1> QED
  BY <1>2, <1>3 DEF ConnectionsHeld, ConnectionIsOwn

LEMMA AbandonedEffect ==
    ASSUME IInv, NEW m \in Manager, NEW c \in Conn, link' = Abandoned(m, c)
    PROVE  /\ link' \in [Conn -> [of : Manager \cup {None, Orphan}, up : BOOLEAN,
                               connectWarned : BOOLEAN]]
           /\ \A d \in Conn \ {c} : link'[d] = link[d]
           /\ \A d \in Conn : link'[d].up = link[d].up
           /\ link'[c].of \notin Manager \/ (link'[c] = link[c] /\ link[c].of # m)
<1>1. Orphan \notin Manager
      /\ link \in [Conn -> [of : Manager \cup {None, Orphan}, up : BOOLEAN,
                            connectWarned : BOOLEAN]]
  BY Kinds DEF IInv, TypeOK
<1>2. CASE link[c].of = m
  <2>1. link' = [link EXCEPT ![c].of = Orphan]
    BY <1>2 DEF Abandoned
  <2>2. link' \in [Conn -> [of : Manager \cup {None, Orphan}, up : BOOLEAN,
                               connectWarned : BOOLEAN]]
    BY <1>1, <2>1
  <2>3. link'[c].of = Orphan /\ link'[c].up = link[c].up /\ \A d \in Conn \ {c} : link'[d] = link[d]
    BY <1>1, <2>1
  <2> QED
    BY <1>1, <2>2, <2>3
<1>3. CASE link[c].of # m
  BY <1>1, <1>3 DEF Abandoned
<1> QED
  BY <1>2, <1>3

LEMMA DelManagerStep == ASSUME IInv, NEW m \in Manager, DelManager(m) PROVE IInv'
<1> DEFINE c == mgr[m].handle
<1>1. c \in Conn /\ m \in Thing /\ OnConn(m) = c /\ Held(m) = mgr[m].qmobj
  BY HeldOf DEF DelManager, IInv, TypeOK, Thing
<1>2. PICK op \in Closed(m, c, mgr[m].qmobj),
           answer \in IF m \in DisconnectOnExit THEN DiscAnswers(c) ELSE {"none"} :
        /\ link' = IF Ends(answer) THEN [link EXCEPT ![c] = NoLink] ELSE Abandoned(m, c)
        /\ opened' = IF Ends(answer) THEN [op EXCEPT ![c] = NothingOpen] ELSE op
  BY DEF DelManager
<1>3. /\ UNCHANGED <<obj, subQueue, replyQueue, lapses>> /\ mgr' = [mgr EXCEPT ![m] = Unconnected]
      /\ \A o \in Object : obj[o].mgr # m
  BY DEF DelManager
<1>4. mgr'[m] = Unconnected /\ \A k \in Manager \ {m} : mgr'[k] = mgr[k]
  BY <1>3 DEF IInv, TypeOK
<1>5. OnlyFreed(m, op)
  BY <1>1, ClosedEffect
<1>6. Held(m)' = None
  BY <1>4, HeldOf DEF Unconnected
<1>7. \A y \in Thing \ {m} : Held(y)' = Held(y) /\ OnConn(y)' = OnConn(y)
  <2>1. \A o \in Object : obj[o].mgr # None => obj[o].mgr \in Manager \ {m}
    BY <1>3 DEF IInv, TypeOK
  <2> QED
    BY <1>3, <1>4, <2>1, HeldKept DEF Thing
<1>8. ObjectsHaveManagers' /\ SubQueues' /\ ReplyQueues'
  BY <1>3 DEF IInv, ObjectsHaveManagers, SubQueues, ReplyQueues
<1>9. CASE Ends(answer)
  <2>1. /\ link'[c].of = None /\ ~link'[c].up /\ \A n \in Obj : opened'[c][n] = None
        /\ \A d \in Conn \ {c} : link'[d] = link[d] /\ opened'[d] = op[d]
    BY <1>1, <1>2, <1>5, <1>9 DEF NoLink, NothingOpen, OnlyFreed, IInv, TypeOK
  <2>2. TypeOK'
    BY <1>1, <1>2, <1>3, <1>5, <1>9 DEF IInv, TypeOK, Unconnected, NoLink, NothingOpen, OnlyFreed
  <2>3. Cleared({m})
    BY <1>1, <1>5, <2>1 DEF Cleared, OnlyFreed
  <2>4. \A d \in Conn : ~link'[d].up => \A n \in Obj : opened'[d][n] = None
    BY <1>5, <2>1 DEF OnlyFreed, IInv, DownIsEmpty
  <2>5. LetsGo({m})
    BY <1>3, <1>6, <1>7, <2>1, <2>3, <2>4 DEF LetsGo
  <2>6. DownIsEmpty' /\ NothingLost' /\ HoldsOwn'
    BY <1>1, <2>5, LetsGoEffect
  <2>7. ConnectionsHeld'
    <3>1. link'[c].of \notin Manager /\ \A d \in Conn \ {c} : link'[d] = link[d]
      BY <2>1, Kinds
    <3> QED
      BY <1>1, <1>3, <3>1, ManagerGone
  <2> QED
    BY <1>8, <2>2, <2>6, <2>7 DEF IInv
<1>10. CASE ~Ends(answer)
  <2>1. /\ link' \in [Conn -> [of : Manager \cup {None, Orphan}, up : BOOLEAN,
                               connectWarned : BOOLEAN]]
        /\ \A d \in Conn \ {c} : link'[d] = link[d]
        /\ \A d \in Conn : link'[d].up = link[d].up
        /\ link'[c].of \notin Manager \/ (link'[c] = link[c] /\ link[c].of # m)
    BY <1>1, <1>2, <1>10, AbandonedEffect
  <2>2. opened' = op
    BY <1>2, <1>10
  <2>3. TypeOK'
    BY <1>3, <1>5, <2>1, <2>2 DEF IInv, TypeOK, Unconnected, OnlyFreed
  <2>4. Cleared({m})
    BY <1>5, <2>2 DEF Cleared, OnlyFreed
  <2>5. \A d \in Conn : ~link'[d].up => \A n \in Obj : opened'[d][n] = None
    <3>1. \A d \in Conn : ~link'[d].up => ~link[d].up
      BY <2>1, Zenon
    <3> QED
      BY <1>5, <2>2, <3>1 DEF OnlyFreed, IInv, DownIsEmpty
  <2>6. LetsGo({m})
    BY <1>3, <1>6, <1>7, <2>1, <2>4, <2>5 DEF LetsGo
  <2>7. DownIsEmpty' /\ NothingLost' /\ HoldsOwn'
    BY <1>1, <2>6, LetsGoEffect
  <2>8. ConnectionsHeld'
    BY <1>1, <1>3, <2>1, ManagerGone
  <2> QED
    BY <1>8, <2>3, <2>7, <2>8 DEF IInv
<1> QED
  BY <1>9, <1>10

-----------------------------------------------------------------------------
(* New connections.                                                            *)

\* A number that no connection has is no manager's handle, unless an MQDISC has warned.
LEMMA NobodyOnIt ==
    ASSUME IInv, lapses = {}, NEW c \in Conn, link[c] = NoLink
    PROVE  /\ \A y \in Thing : OnConn(y) # c
           /\ \A k \in Manager : mgr[k].handle # c
<1>1. \A k \in Manager : mgr[k].handle # c
  BY Kinds DEF IInv, ConnectionsHeld, ConnectionIsOwn, NoLink
<1> QED
  BY <1>1, HeldOf, Kinds DEF Thing, IInv, TypeOK

\* m has the new connection c, and what is opened with it is held.
LEMMA LinkEffect ==
    ASSUME IInv, NEW m \in Manager, NEW c \in Conn, link[c] = NoLink,
           NEW warned \in BOOLEAN,
           link' = [link EXCEPT ![c] = [of |-> m, up |-> TRUE, connectWarned |-> warned]],
           mgr' = [mgr EXCEPT ![m].handle = c],
           lapses \subseteq lapses',
           "stale" \notin lapses' =>
               /\ mgr[m].handle = None
               /\ \A y \in Thing :
                     \/ Held(y)' = Held(y) /\ OnConn(y)' = OnConn(y)
                     \/ Held(y) = None /\ Held(y)' = None
                     \/ Held(y) = None /\ OnConn(y)' = c /\ opened'[c][Held(y)'] = y,
           \A d \in Conn, j \in Obj :
               \/ opened'[d][j] = opened[d][j]
               \/ d = c /\ \E y \in Thing : opened'[d][j] = y /\ Held(y)' = j /\ OnConn(y)' = c
    PROVE  DownIsEmpty' /\ ConnectionsHeld' /\ NothingLost' /\ HoldsOwn'
<1>1. /\ link'[c].of = m /\ link'[c].up /\ mgr'[m].handle = c
      /\ \A d \in Conn \ {c} : link'[d] = link[d]
      /\ \A k \in Manager \ {m} : mgr'[k] = mgr[k]
  BY DEF IInv, TypeOK
<1>2. \A n \in Obj : opened[c][n] = None
  BY DEF IInv, DownIsEmpty, NoLink
<1>3. DownIsEmpty'
  BY <1>1 DEF IInv, DownIsEmpty
<1>4. ConnectionsHeld'
  <2>1. ASSUME "stale" \notin lapses', NEW d \in Conn, link'[d].of \in Manager,
               ~link'[d].connectWarned
        PROVE  mgr'[link'[d].of].handle = d
    BY <1>1, <2>1, Kinds DEF IInv, ConnectionsHeld
  <2>2. ASSUME "warned" \notin lapses', NEW k \in Manager, mgr'[k].handle # None
        PROVE  link'[mgr'[k].handle].of = k
    <3>1. CASE k = m
      BY <1>1, <3>1
    <3>2. CASE k # m
      <4>1. mgr'[k] = mgr[k] /\ mgr[k].handle \in Conn /\ link[mgr[k].handle].of = k /\ k # None
        BY <1>1, <2>2, <3>2, Kinds DEF IInv, TypeOK, ConnectionsHeld, ConnectionIsOwn
      <4> QED
        BY <1>1, <4>1 DEF NoLink
    <3> QED
      BY <3>1, <3>2
  <2> QED
    BY <2>1, <2>2 DEF ConnectionsHeld, ConnectionIsOwn
<1>5. NothingLost'
  <2> SUFFICES ASSUME "stale" \notin lapses', NEW d \in Conn, NEW j \in Obj,
                      NEW y, y = opened'[d][j], y \notin {None, Orphan}
               PROVE  Held(y)' = j /\ OnConn(y)' = d
    BY DEF NothingLost
  <2>1. CASE y # opened[d][j]
    BY <2>1
  <2>2. CASE y = opened[d][j]
    <3>1. Held(y) = j /\ OnConn(y) = d /\ y \in Thing /\ j # None
      BY <2>2, Kinds DEF IInv, NothingLost, TypeOK, Thing
    <3> QED
      BY <3>1
  <2> QED
    BY <2>1, <2>2
<1>6. HoldsOwn'
  <2> SUFFICES ASSUME lapses' = {}, NEW y \in Thing, Held(y)' # None, Answers(OnConn(y))'
               PROVE  opened'[OnConn(y)'][Held(y)'] = y
    BY DEF HoldsOwn, Thing
  <2>1. CASE Held(y)' = Held(y) /\ OnConn(y)' = OnConn(y)
    <3>1. OnConn(y) \in Conn \ {c} /\ Held(y) \in Obj
      BY <2>1, NobodyOnIt, HeldTyped DEF IInv, Answers
    <3>2. Answers(OnConn(y))
      BY <1>1, <2>1, <3>1 DEF Answers
    <3>3. opened[OnConn(y)][Held(y)] = y
      BY <2>1, <3>2 DEF IInv, HoldsOwn, Thing
    <3> QED
      BY <2>1, <3>1, <3>3
  <2>2. CASE Held(y) = None /\ OnConn(y)' = c /\ opened'[c][Held(y)'] = y
    BY <2>2
  <2> QED
    BY <2>1, <2>2
<1> QED
  BY <1>3, <1>4, <1>5, <1>6

LEMMA NewLinkStep ==
    ASSUME IInv, NEW m \in Manager, NEW c \in Conn, NEW warned \in BOOLEAN,
           NewLink(m, c, warned), Given(TRUE, m, c),
           UNCHANGED <<obj, subQueue, replyQueue, opened>>
    PROVE  IInv'
<1>1. /\ link[c] = NoLink
      /\ link' = [link EXCEPT ![c] = [of |-> m, up |-> TRUE, connectWarned |-> warned]]
      /\ mgr' = [mgr EXCEPT ![m].handle = c]
      /\ lapses \subseteq lapses' /\ lapses' \subseteq Lapse
  BY DEF NewLink, Given, Noting
<1>2. TypeOK'
  BY <1>1 DEF IInv, TypeOK
<1>3. ObjectsHaveManagers' /\ SubQueues' /\ ReplyQueues'
  BY DEF IInv, ObjectsHaveManagers, SubQueues, ReplyQueues
<1>4. /\ mgr'[m].qmobj = mgr[m].qmobj
      /\ \A k \in Manager \ {m} : mgr'[k] = mgr[k]
  BY <1>1 DEF IInv, TypeOK
<1>5. "stale" \notin lapses' => mgr[m] = Unconnected /\ \A o \in Object : obj[o].mgr = m => obj[o].handle = None
  BY DEF Given, Noting
<1>6. ASSUME "stale" \notin lapses', NEW y \in Thing
      PROVE  \/ Held(y)' = Held(y) /\ OnConn(y)' = OnConn(y)
             \/ Held(y) = None /\ Held(y)' = None
  <2>1. CASE y \in Manager
    BY <1>4, <1>5, <1>6, <2>1, HeldOf, HeldKept DEF Unconnected
  <2>2. CASE y \in Object /\ obj[y].mgr = m
    BY <1>5, <1>6, <2>2, HeldOf
  <2>3. CASE y \in Object /\ obj[y].mgr # m
    BY <1>4, <2>3, HeldKept DEF IInv, TypeOK
  <2> QED
    BY <2>1, <2>2, <2>3 DEF Thing
<1>7. "stale" \notin lapses' => mgr[m].handle = None
  BY <1>5 DEF Unconnected
<1>8. DownIsEmpty' /\ ConnectionsHeld' /\ NothingLost' /\ HoldsOwn'
  BY <1>1, <1>6, <1>7, LinkEffect
<1> QED
  BY <1>2, <1>3, <1>8 DEF IInv

\* A connection that nobody has the handle of.
LEMMA UnnotedStep ==
    ASSUME IInv, NEW m \in Manager \cup {Orphan}, NEW c \in Conn, NEW warned \in BOOLEAN,
           NewLink(m, c, warned), m \in Manager => warned,
           UNCHANGED <<mgr, obj, subQueue, replyQueue, opened, lapses>>
    PROVE  IInv'
<1>1. /\ link[c] = NoLink
      /\ link' = [link EXCEPT ![c] = [of |-> m, up |-> TRUE, connectWarned |-> warned]]
  BY DEF NewLink
<1>2. TypeOK'
  BY <1>1 DEF IInv, TypeOK
<1>3. ObjectsHaveManagers' /\ SubQueues' /\ ReplyQueues'
  BY DEF IInv, ObjectsHaveManagers, SubQueues, ReplyQueues
<1>4. /\ link'[c].of = m /\ link'[c].up /\ link'[c].connectWarned = warned
      /\ \A d \in Conn \ {c} : link'[d] = link[d]
      /\ \A y \in Thing : Held(y)' = Held(y) /\ OnConn(y)' = OnConn(y)
  BY <1>1, HeldKept DEF IInv, TypeOK, Thing
<1>5. DownIsEmpty'
  BY <1>4 DEF IInv, DownIsEmpty
<1>6. ConnectionsHeld'
  BY <1>1, <1>4, Kinds DEF IInv, TypeOK, ConnectionsHeld, ConnectionIsOwn, NoLink
<1>7. NothingLost'
  <2> SUFFICES ASSUME "stale" \notin lapses, NEW d \in Conn, NEW j \in Obj,
                      NEW y, y = opened[d][j], y \notin {None, Orphan}
               PROVE  Held(y)' = j /\ OnConn(y)' = d
    BY DEF NothingLost
  <2> QED
    BY <1>4 DEF IInv, NothingLost, TypeOK, Thing
<1>8. HoldsOwn'
  <2> SUFFICES ASSUME lapses = {}, NEW y \in Thing, Held(y)' # None, Answers(OnConn(y))'
               PROVE  opened[OnConn(y)'][Held(y)'] = y
    BY DEF HoldsOwn, Thing
  <2>1. OnConn(y) \in Conn \ {c}
    BY <1>1, <1>4, NobodyOnIt, HeldTyped DEF IInv, Answers
  <2>2. Answers(OnConn(y))
    BY <1>4, <2>1 DEF Answers
  <2> QED
    BY <1>4, <2>2 DEF IInv, HoldsOwn, Thing
<1> QED
  BY <1>2, <1>3, <1>5, <1>6, <1>7, <1>8 DEF IInv

LEMMA ConnectStep == ASSUME IInv, NEW m \in Manager, NEW c \in Conn, Connect(m, c) PROVE IInv'
<1>0. UNCHANGED <<obj, subQueue, replyQueue, opened>>
  BY DEF Connect
<1>1. CASE NewLink(m, c, FALSE) /\ Given(ConnectNotes("ok"), m, c)
  BY <1>0, <1>1, NewLinkStep DEF ConnectNotes
<1>2. CASE NewLink(m, c, TRUE) /\ Given(ConnectNotes("warning"), m, c)
  BY <1>0, <1>2, UnnotedStep DEF Given, ConnectNotes, Noting
<1>3. CASE Answers(c) /\ Given(ConnectNotes("warning"), m, c) /\ UNCHANGED link
  <2>1. UNCHANGED vars
    BY <1>0, <1>3 DEF Given, ConnectNotes, Noting, vars
  <2>2. \A y \in Thing : Held(y)' = Held(y) /\ OnConn(y)' = OnConn(y)
    BY <2>1, HeldKept DEF Thing, vars
  <2> QED
    BY <2>1, <2>2, NothingHeldChanges
       DEF vars, IInv, TypeOK, ObjectsHaveManagers, SubQueues, ReplyQueues
<1>4. \/ NewLink(m, c, "ok" = "warning") /\ Given(ConnectNotes("ok"), m, c)
      \/ NewLink(m, c, "warning" = "warning") /\ Given(ConnectNotes("warning"), m, c)
      \/ Answers(c) /\ Given(ConnectNotes("warning"), m, c) /\ UNCHANGED link
  BY DEF Connect
<1> QED
  BY <1>1, <1>2, <1>3, <1>4

LEMMA ConnectWithOptionsStep ==
    ASSUME IInv, NEW m \in Manager, NEW c \in Conn, ConnectWithOptions(m, c) PROVE IInv'
<1>1. Given(TRUE, m, c)
  BY DEF ConnectWithOptions, ConnectWithOptionsNotes
<1> QED
  BY <1>1, NewLinkStep DEF ConnectWithOptions

-----------------------------------------------------------------------------
(* PCFExecute.                                                                 *)

LEMMA NewPCFExecuteStep ==
    ASSUME IInv, NEW p \in PCFExecute, NEW q \in Queue, NEW c \in Conn, NEW n \in Obj,
           NewPCFExecute(p, q, c, n)
    PROVE  IInv'
<1>1. /\ mgr[p] = Unconnected /\ replyQueue[p] = None /\ obj[q] = Unborn /\ link[c] = NoLink
      /\ UNCHANGED <<subQueue, lapses>>
  BY DEF NewPCFExecute, NewLink
<1>2. p \in Manager /\ p # None /\ q \in Object /\ q \in Thing /\ q \notin Subscription /\ q # None
  BY Kinds DEF Thing
<1>3. CASE /\ mgr' = [mgr EXCEPT ![p].handle = c]
           /\ replyQueue' = [replyQueue EXCEPT ![p] = q]
           /\ obj' = [obj EXCEPT ![q] = [mgr |-> p, handle |-> n, named |-> TRUE]]
           /\ NewLink(p, c, FALSE)
           /\ opened' = [opened EXCEPT ![c][n] = q]
  <2>0. link' = [link EXCEPT ![c] = [of |-> p, up |-> TRUE, connectWarned |-> FALSE]]
    BY <1>3 DEF NewLink
  <2>1. TypeOK'
    <3>1. mgr' \in [Manager -> [handle : Conn \cup {None}, qmobj : Obj \cup {None}]]
      BY ZenonT(30), <1>3 DEF IInv, TypeOK
    <3>2. obj' \in [Object -> ObjectRecord] /\ replyQueue' \in [PCFExecute -> Queue \cup {None}]
      BY <1>2, <1>3 DEF IInv, TypeOK, ObjectRecord
    <3>3. link' \in [Conn -> [of : Manager \cup {None, Orphan}, up : BOOLEAN,
                               connectWarned : BOOLEAN]]
      BY <1>2, <2>0 DEF IInv, TypeOK
    <3>4. opened' \in [Conn -> [Obj -> Object \cup Manager \cup {None, Orphan}]]
      BY <1>2, <1>3 DEF IInv, TypeOK
    <3> QED
      BY <1>1, <3>1, <3>2, <3>3, <3>4 DEF IInv, TypeOK, ObjectRecord
  <2>2. /\ obj'[q].mgr = p /\ obj'[q].handle = n /\ \A y \in Object \ {q} : obj'[y] = obj[y]
        /\ mgr'[p].handle = c /\ mgr'[p].qmobj = None /\ \A k \in Manager \ {p} : mgr'[k] = mgr[k]
        /\ replyQueue'[p] = q /\ \A r \in PCFExecute \ {p} : replyQueue'[r] = replyQueue[r]
        /\ \A d \in Conn, j \in Obj : opened'[d][j] = IF d = c /\ j = n THEN q ELSE opened[d][j]
    BY <1>1, <1>2, <1>3 DEF IInv, TypeOK, Unconnected
  <2>3. \A o \in Object : obj[o].mgr # p
    BY <1>1, <1>2, Kinds DEF IInv, ReplyQueues
  <2>4. ObjectsHaveManagers'
    BY <1>2, <2>2 DEF IInv, ObjectsHaveManagers
  <2>5. SubQueues'
    <3>1. \A s \in Subscription :
             /\ s \in Object \ {q}
             /\ subQueue[s] # None => subQueue[s] \in Object \ {q}
      BY <1>1, <1>2, Kinds DEF IInv, TypeOK, SubQueues, Unborn
    <3> QED
      BY <1>1, <2>2, <3>1 DEF IInv, SubQueues
  <2>6. ReplyQueues'
    <3>1. \A r \in PCFExecute \ {p} : replyQueue[r] # None => replyQueue[r] \in Object \ {q}
      BY <1>1, Kinds DEF IInv, TypeOK, ReplyQueues, Unborn
    <3>2. \A r \in PCFExecute : replyQueue'[r] # None => obj'[replyQueue'[r]].mgr = r
      BY <2>2, <3>1 DEF IInv, ReplyQueues
    <3>3. \A o \in Object : obj'[o].mgr \in PCFExecute => replyQueue'[obj'[o].mgr] = o
      BY <2>2, <2>3 DEF IInv, ReplyQueues
    <3> QED
      BY <3>2, <3>3 DEF ReplyQueues
  <2>7. ASSUME NEW y \in Thing
        PROVE  \/ Held(y)' = Held(y) /\ OnConn(y)' = OnConn(y)
               \/ Held(y) = None /\ Held(y)' = None
               \/ Held(y) = None /\ OnConn(y)' = c /\ opened'[c][Held(y)'] = y
    <3>1. CASE y = p
      BY <1>1, <1>2, <2>2, <3>1, HeldOf DEF Unconnected
    <3>2. CASE y = q
      BY <1>1, <1>2, <2>2, <3>2, HeldOf DEF Unborn
    <3>3. CASE y \notin {p, q}
      <4>1. \A o \in Object : obj[o].mgr # None => obj[o].mgr \in Manager \ {p}
        BY <2>3 DEF IInv, TypeOK
      <4> QED
        BY <2>2, <3>3, <4>1, HeldKept DEF Thing
    <3> QED
      BY <3>1, <3>2, <3>3
  <2>8. Held(q)' = n /\ OnConn(q)' = c
    BY <1>2, <2>2, HeldOf
  <2>9. \A d \in Conn, j \in Obj :
           \/ opened'[d][j] = opened[d][j]
           \/ d = c /\ \E y \in Thing : opened'[d][j] = y /\ Held(y)' = j /\ OnConn(y)' = c
    BY <1>2, <2>2, <2>8
  <2>10. mgr[p].handle = None
    BY <1>1 DEF Unconnected
  <2>11. DownIsEmpty' /\ ConnectionsHeld' /\ NothingLost' /\ HoldsOwn'
    BY <1>1, <1>2, <1>3, <2>0, <2>7, <2>9, <2>10, LinkEffect
  <2> QED
    BY <2>1, <2>4, <2>5, <2>6, <2>11 DEF IInv
<1>4. CASE NewLink(Orphan, c, FALSE) /\ UNCHANGED <<mgr, replyQueue, obj, opened>>
  BY <1>1, <1>4, UnnotedStep, Kinds
<1> QED
  BY <1>3, <1>4 DEF NewPCFExecute


LEMMA DelPCFExecuteStep == ASSUME IInv, NEW p \in PCFExecute, DelPCFExecute(p) PROVE IInv'
<1> DEFINE c == mgr[p].handle
           n == mgr[p].qmobj
<1>1. c \in Conn /\ p \in Manager /\ p \in Thing /\ p # None /\ OnConn(p) = c /\ Held(p) = n
  BY Kinds, HeldOf DEF DelPCFExecute, IInv, TypeOK, Thing
<1>2. PICK op \in ReplyQueueClosed(p), left \in {None, Orphan} :
          opened' = IF n # None /\ HasOpen(c, n) THEN [op EXCEPT ![c][n] = left] ELSE op
  BY DEF DelPCFExecute
<1>3. /\ UNCHANGED <<subQueue, lapses>> /\ ReplyQueueDropped(p)
      /\ link' = Abandoned(p, c) /\ mgr' = [mgr EXCEPT ![p] = Unconnected]
      /\ \A o \in Object : obj[o].mgr = p => o = replyQueue[p]
  BY DEF DelPCFExecute
<1>4. PICK r : r = replyQueue[p]
  OBVIOUS
<1>5. /\ \A d \in Conn \ {c} : link'[d] = link[d]
      /\ \A d \in Conn : link'[d].up = link[d].up
      /\ link'[c].of \notin Manager \/ (link'[c] = link[c] /\ link[c].of # p)
      /\ link' \in [Conn -> [of : Manager \cup {None, Orphan}, up : BOOLEAN,
                               connectWarned : BOOLEAN]]
  BY <1>1, <1>3, AbandonedEffect
<1>6. mgr'[p] = Unconnected /\ \A k \in Manager \ {p} : mgr'[k] = mgr[k]
  BY <1>1, <1>3 DEF IInv, TypeOK
<1>7. r # None => /\ r \in Queue /\ r \in Object /\ r \in Thing /\ r \notin Subscription
                  /\ obj[r].mgr = p /\ OnConn(r) = c /\ Held(r) = obj[r].handle
  BY <1>1, <1>4, Kinds, HeldOf DEF IInv, TypeOK, ReplyQueues, Thing
<1>8. /\ \A y \in Object : y # r => obj'[y] = obj[y] /\ obj[y].mgr # p
      /\ r # None => obj'[r] = Unborn
      /\ replyQueue'[p] = None /\ \A k \in PCFExecute \ {p} : replyQueue'[k] = replyQueue[k]
  BY <1>3, <1>4, <1>7 DEF ReplyQueueDropped, IInv, TypeOK
<1>9. \A d \in Conn, j \in Obj :
         \/ op[d][j] = opened[d][j] /\ (opened[d][j] = r /\ r # None /\ link[d].up => OnConn(r) # d \/ Held(r) # j)
         \/ r # None /\ OnConn(r) = d /\ Held(r) = j /\ link[d].up /\ op[d][j] \in {None, Orphan, opened[d][j]} \ {r}
  <2>1. CASE r = None
    BY <1>2, <1>4, <2>1 DEF ReplyQueueClosed
  <2>2. CASE r # None
    <3>1. op \in Closed(r, OnConn(r), Held(r))
      BY <1>2, <1>4, <1>7, <2>2 DEF ReplyQueueClosed
    <3>2. OnlyFreed(r, op)
      BY <1>7, <2>2, <3>1, ClosedEffect
    <3> QED
      BY <2>2, <3>2 DEF OnlyFreed
  <2> QED
    BY <2>1, <2>2
<1>10. op \in [Conn -> [Obj -> Object \cup Manager \cup {None, Orphan}]]
  <2>1. CASE r = None
    BY <1>2, <1>4, <2>1 DEF ReplyQueueClosed, IInv, TypeOK
  <2>2. CASE r # None
    <3>1. op \in Closed(r, OnConn(r), Held(r))
      BY <1>2, <1>4, <1>7, <2>2 DEF ReplyQueueClosed
    <3> QED
      BY <1>7, <2>2, <3>1, ClosedEffect DEF OnlyFreed
  <2> QED
    BY <2>1, <2>2
<1>11. TypeOK'
  <2>1. mgr' \in [Manager -> [handle : Conn \cup {None}, qmobj : Obj \cup {None}]]
    BY <1>3 DEF IInv, TypeOK, Unconnected
  <2>2. obj' \in [Object -> ObjectRecord] /\ replyQueue' \in [PCFExecute -> Queue \cup {None}]
    BY <1>3 DEF ReplyQueueDropped, IInv, TypeOK, ObjectRecord, Unborn
  <2>3. opened' \in [Conn -> [Obj -> Object \cup Manager \cup {None, Orphan}]]
    BY <1>2, <1>10
  <2> QED
    BY <1>3, <1>5, <2>1, <2>2, <2>3 DEF IInv, TypeOK, ObjectRecord
<1>12. \A d \in Conn, j \in Obj :
          \/ d = c /\ j = n /\ link[c].up /\ opened'[d][j] \in {None, Orphan}
          \/ opened'[d][j] = op[d][j] /\ (link[d].up /\ d = c /\ j = n => opened[d][j] = None)
  <2>1. CASE n # None /\ HasOpen(c, n)
    BY <1>1, <1>2, <1>10, <2>1 DEF HasOpen, Answers
  <2>2. CASE ~(n # None /\ HasOpen(c, n))
    BY <1>1, <1>2, <2>2, Kinds DEF HasOpen, Answers
  <2> QED
    BY <2>1, <2>2
<1> DEFINE X == {y \in Thing : y = p \/ (y = r /\ r # None)}
<1>13. X \in SUBSET Thing /\ \A y : y \in X <=> y = p \/ (y = r /\ r # None)
  BY <1>1, <1>7
<1> HIDE DEF X
<1>14. Cleared(X)
  <2> SUFFICES ASSUME NEW d \in Conn, NEW j \in Obj
               PROVE  \/ /\ opened'[d][j] = opened[d][j]
                         /\ opened[d][j] \in X /\ link[d].up =>
                              OnConn(opened[d][j]) # d \/ Held(opened[d][j]) # j
                      \/ /\ \E x \in X : OnConn(x) = d /\ Held(x) = j
                         /\ link[d].up /\ opened'[d][j] \in {None, Orphan, opened[d][j]}
                         /\ "stale" \notin lapses => opened'[d][j] \notin X
    BY DEF Cleared
  <2>1. None \notin X /\ Orphan \notin X /\ p \in X /\ (r # None => r \in X)
    BY <1>1, <1>7, <1>13, Kinds
  <2>2. CASE d = c /\ j = n /\ link[c].up /\ opened'[d][j] \in {None, Orphan}
    BY <1>1, <2>1, <2>2
  <2>3. CASE opened'[d][j] = op[d][j] /\ (link[d].up /\ d = c /\ j = n => opened[d][j] = None)
    <3>1. CASE op[d][j] = opened[d][j] /\ (opened[d][j] = r /\ r # None /\ link[d].up => OnConn(r) # d \/ Held(r) # j)
      BY <1>1, <1>13, <2>1, <2>3, <3>1
    <3>2. CASE r # None /\ OnConn(r) = d /\ Held(r) = j /\ link[d].up /\ op[d][j] \in {None, Orphan, opened[d][j]} \ {r}
      <4>1. "stale" \notin lapses /\ opened[d][j] = p => Held(p) = j /\ OnConn(p) = d
        BY <1>1, Kinds DEF IInv, NothingLost
      <4> QED
        BY <1>1, <1>13, <2>1, <2>3, <3>2, <4>1
    <3> QED
      BY <1>9, <3>1, <3>2
  <2> QED
    BY <1>12, <2>2, <2>3
<1>15. \A x \in X : Held(x)' = None
  <2>1. Held(p)' = None
    BY <1>1, <1>6, HeldOf DEF Unconnected
  <2>2. r # None => Held(r)' = None
    BY <1>7, <1>8, HeldOf DEF Unborn
  <2> QED
    BY <1>13, <2>1, <2>2
<1>16. \A y \in Thing \ X : Held(y)' = Held(y) /\ OnConn(y)' = OnConn(y)
  <2>1. \A y \in Object : y # r /\ obj[y].mgr # None => obj[y].mgr \in Manager \ {p}
    BY <1>8 DEF IInv, TypeOK
  <2>2. \A y \in Object : y = r => r # None
    BY Kinds
  <2> QED
    BY <1>6, <1>8, <1>13, <2>1, <2>2, HeldKept DEF Thing
<1>17. \A d \in Conn : /\ link'[d].up => link[d].up
                       /\ ~link'[d].up => \A j \in Obj : opened'[d][j] = None
  <2>1. \A d \in Conn : (link'[d].up => link[d].up) /\ (~link'[d].up => ~link[d].up)
    BY <1>5, Zenon
  <2>2. \A d \in Conn : ~link[d].up => \A j \in Obj : opened'[d][j] = None
    BY <1>9, <1>12 DEF IInv, DownIsEmpty
  <2> QED
    BY <2>1, <2>2
<1>18. LetsGo(X)
  BY <1>3, <1>14, <1>15, <1>16, <1>17 DEF LetsGo
<1>19. DownIsEmpty' /\ NothingLost' /\ HoldsOwn'
  BY <1>13, <1>18, LetsGoEffect
<1>20. ConnectionsHeld'
  BY <1>1, <1>3, <1>5, ManagerGone
<1>21. ObjectsHaveManagers'
  BY <1>8, Kinds DEF IInv, ObjectsHaveManagers
<1>22. SubQueues'
  <2>1. \A s \in Subscription :
           /\ s \in Object /\ s # r
           /\ subQueue[s] # None => subQueue[s] \in Object /\ subQueue[s] # r
    BY <1>1, <1>7, Kinds DEF IInv, TypeOK, SubQueues
  <2> QED
    BY <1>3, <1>8, <2>1 DEF IInv, SubQueues
<1>23. ReplyQueues'
  <2>1. \A k \in PCFExecute \ {p} : replyQueue[k] # None => replyQueue[k] \in Object /\ replyQueue[k] # r
    BY <1>7, Kinds DEF IInv, TypeOK, ReplyQueues
  <2>2. \A k \in PCFExecute : replyQueue'[k] # None => obj'[replyQueue'[k]].mgr = k
    BY <1>8, <2>1 DEF IInv, ReplyQueues
  <2>3. \A y \in Object : obj'[y].mgr \in PCFExecute => y # r
    BY <1>7, <1>8, Kinds DEF Unborn
  <2>4. \A y \in Object : obj'[y].mgr \in PCFExecute => replyQueue'[obj'[y].mgr] = y
    BY <1>8, <2>3 DEF IInv, ReplyQueues
  <2> QED
    BY <2>2, <2>4 DEF ReplyQueues
<1> QED
  BY <1>11, <1>19, <1>20, <1>21, <1>22, <1>23 DEF IInv

-----------------------------------------------------------------------------
(* Subscription.                                                               *)

LEMMA SubStep ==
    ASSUME IInv, NEW s \in Subscription, NEW m \in QueueManager, NEW q \in Queue,
           NEW p \in Queue \cup {None}, NEW n \in Obj, NEW k \in Obj, Sub(s, m, q, p, n, k)
    PROVE  IInv'
<1> DEFINE c == mgr[m].handle
           left == [j \in Obj |-> IF j = obj[s].handle /\ opened[c][j] = s THEN Orphan ELSE opened[c][j]]
<1>1. /\ m \in Manager /\ m # None /\ m \notin PCFExecute
      /\ s \in Object /\ s \notin Queue /\ s # None /\ s \in Thing
      /\ q \in Object /\ q \notin Subscription /\ q # None /\ q \in Thing /\ q # s
  BY Kinds DEF Thing
<1>2. /\ obj[s].mgr \in {None, m} /\ obj[q] = Unborn /\ c \in Conn /\ link[c].up
      /\ opened[c][n] = None /\ k # n /\ (p = None => opened[c][k] = None)
  BY <1>1 DEF Sub, Answers, IInv, TypeOK
<1>3. /\ UNCHANGED <<mgr, replyQueue, link>>
      /\ obj' = [obj EXCEPT ![s] = [mgr |-> m, handle |-> n, named |-> TRUE],
                            ![q] = [mgr |-> m, handle |-> k, named |-> FALSE]]
      /\ subQueue' = [subQueue EXCEPT ![s] = q]
      /\ lapses \subseteq lapses' /\ lapses' \subseteq Lapse /\ (lapses' = {} => p = None)
  BY DEF Sub, Noting, IInv, TypeOK
<1>4. /\ obj'[s].mgr = m /\ obj'[s].handle = n
      /\ obj'[q].mgr = m /\ obj'[q].handle = k
      /\ \A y \in Object \ {s, q} : obj'[y] = obj[y]
      /\ obj' \in [Object -> ObjectRecord]
  <2> DEFINE f == [obj EXCEPT ![s] = [mgr |-> m, handle |-> n, named |-> TRUE]]
  <2>1. /\ f \in [Object -> ObjectRecord] /\ f[s].mgr = m /\ f[s].handle = n
        /\ \A y \in Object \ {s} : f[y] = obj[y]
    BY <1>1 DEF IInv, TypeOK, ObjectRecord
  <2>2. obj' = [f EXCEPT ![q] = [mgr |-> m, handle |-> k, named |-> FALSE]]
    BY <1>3
  <2> HIDE DEF f
  <2>3. obj' \in [Object -> ObjectRecord] /\ obj'[q].mgr = m /\ obj'[q].handle = k
    BY <1>1, <2>1, <2>2 DEF ObjectRecord
  <2>4. \A y \in Object \ {q} : obj'[y] = f[y]
    BY <2>1, <2>2
  <2> QED
    BY <1>1, <2>1, <2>3, <2>4
<1>5. subQueue'[s] = q /\ \A t \in Subscription \ {s} : subQueue'[t] = subQueue[t]
  BY <1>3 DEF IInv, TypeOK
<1>6. /\ opened' \in [Conn -> [Obj -> Object \cup Manager \cup {None, Orphan}]]
      /\ \A d \in Conn \ {c}, j \in Obj : opened'[d][j] = opened[d][j]
      /\ \A j \in Obj \ {n} : ~(j = k /\ p = None) => opened'[c][j] = left[j]
      /\ opened'[c][n] = s /\ (p = None => opened'[c][k] = q)
  <2>1. left \in [Obj -> Object \cup Manager \cup {None, Orphan}]
    BY <1>2 DEF IInv, TypeOK
  <2>2. \/ p = None /\ opened' = [opened EXCEPT ![c] = [left EXCEPT ![n] = s, ![k] = q]]
        \/ p # None /\ opened' = [opened EXCEPT ![c] = [left EXCEPT ![n] = s]]
    BY DEF Sub
  <2> HIDE DEF left
  <2> DEFINE g == IF p = None THEN [left EXCEPT ![n] = s, ![k] = q] ELSE [left EXCEPT ![n] = s]
  <2>3. opened' = [opened EXCEPT ![c] = g]
    BY <2>2
  <2>4. /\ g \in [Obj -> Object \cup Manager \cup {None, Orphan}]
        /\ g[n] = s /\ (p = None => g[k] = q)
        /\ \A j \in Obj \ {n} : ~(j = k /\ p = None) => g[j] = left[j]
    BY <1>1, <1>2, <2>1
  <2> HIDE DEF g
  <2> QED
    BY <1>2, <2>3, <2>4 DEF IInv, TypeOK
<1>7. \A d \in Conn, j \in Obj :
         \/ d = c /\ j = n /\ opened'[d][j] = s
         \/ d = c /\ j = k /\ opened'[d][j] = q
         \/ opened'[d][j] = Orphan /\ opened[d][j] = s
         \/ opened'[d][j] = opened[d][j] /\ (d = c /\ j = obj[s].handle => opened[d][j] # s)
  BY <1>1, <1>2, <1>6
<1>8. TypeOK'
  BY <1>3, <1>4, <1>6 DEF IInv, TypeOK, ObjectRecord
<1>9. /\ Held(s)' = n /\ OnConn(s)' = c /\ Held(q)' = k /\ OnConn(q)' = c
      /\ Held(q) = None /\ Held(s) = obj[s].handle /\ OnConn(s) \in {None, c}
  BY <1>1, <1>2, <1>3, <1>4, HeldOf DEF Unborn
<1>10. \A y \in Thing \ {s, q} : Held(y)' = Held(y) /\ OnConn(y)' = OnConn(y)
  BY <1>3, <1>4, HeldKept DEF Thing
<1>11. DownIsEmpty'
  BY <1>2, <1>3, <1>6 DEF IInv, DownIsEmpty
<1>12. ConnectionsHeld'
  BY <1>3 DEF IInv, ConnectionsHeld, ConnectionIsOwn
<1>13. NothingLost'
  <2> SUFFICES ASSUME "stale" \notin lapses, NEW d \in Conn, NEW j \in Obj,
                      NEW y, y = opened'[d][j], y \notin {None, Orphan}
               PROVE  Held(y)' = j /\ OnConn(y)' = d
    BY <1>3 DEF NothingLost
  <2>1. CASE d = c /\ ((j = n /\ y = s) \/ (j = k /\ y = q))
    BY <1>9, <2>1
  <2>2. CASE y = opened[d][j] /\ (d = c /\ j = obj[s].handle => opened[d][j] # s)
    <3>1. Held(y) = j /\ OnConn(y) = d /\ y \in Thing
      BY <2>2 DEF IInv, NothingLost, TypeOK, Thing
    <3>2. y # q /\ y # s
      BY <1>9, <2>2, <3>1, Kinds
    <3> QED
      BY <1>10, <3>1, <3>2
  <2> QED
    BY <1>7, <2>1, <2>2
<1>14. HoldsOwn'
  <2> SUFFICES ASSUME lapses = {}, p = None, NEW y \in Thing, Held(y)' # None, Answers(OnConn(y))'
               PROVE  opened'[OnConn(y)'][Held(y)'] = y
    BY <1>3 DEF HoldsOwn, Thing
  <2>1. CASE y = s \/ y = q
    BY <1>6, <1>9, <2>1
  <2>2. CASE y \notin {s, q}
    <3>1. Held(y)' = Held(y) /\ OnConn(y)' = OnConn(y) /\ y # None
      BY <1>10, <2>2, Kinds DEF Thing
    <3>2. opened[OnConn(y)][Held(y)] = y /\ OnConn(y) \in Conn /\ Held(y) \in Obj
      BY <1>3, <3>1, HeldTyped DEF IInv, HoldsOwn, Answers, Thing
    <3>3. ~(OnConn(y) = c /\ Held(y) \in {n, k})
      BY <1>2, <3>1, <3>2
    <3>4. opened'[OnConn(y)][Held(y)] = opened[OnConn(y)][Held(y)]
      BY <1>7, <2>2, <3>2, <3>3
    <3> QED
      BY <3>1, <3>2, <3>4
  <2> QED
    BY <2>1, <2>2
<1>15. ObjectsHaveManagers'
  BY <1>1, <1>4 DEF IInv, ObjectsHaveManagers
<1>16. SubQueues'
  <2>1. \A t \in Subscription \ {s} :
           /\ t \in Object \ {s, q}
           /\ subQueue[t] # None => subQueue[t] \in Object \ {s, q}
    BY <1>1, <1>2, Kinds DEF IInv, TypeOK, SubQueues, Unborn
  <2> QED
    BY <1>1, <1>4, <1>5, <2>1 DEF IInv, SubQueues
<1>17. ReplyQueues'
  <2>1. \A r \in PCFExecute : replyQueue[r] # None => replyQueue[r] \in Object \ {s, q}
    BY <1>1, <1>2, Kinds DEF IInv, TypeOK, ReplyQueues, Unborn
  <2>2. \A r \in PCFExecute : replyQueue'[r] # None => obj'[replyQueue'[r]].mgr = r
    BY <1>3, <1>4, <2>1 DEF IInv, ReplyQueues
  <2>3. \A y \in Object : obj'[y].mgr \in PCFExecute => replyQueue'[obj'[y].mgr] = y
    BY <1>1, <1>3, <1>4 DEF IInv, ReplyQueues
  <2> QED
    BY <2>2, <2>3 DEF ReplyQueues
<1> QED
  BY <1>8, <1>11, <1>12, <1>13, <1>14, <1>15, <1>16, <1>17 DEF IInv

-----------------------------------------------------------------------------
(* The invariant, and what it implies.                                         *)

LEMMA IInvStep == IInv /\ [Next]_vars => IInv'
<1> SUFFICES ASSUME IInv, [Next]_vars PROVE IInv'
  OBVIOUS
<1>1. CASE UNCHANGED vars
  <2>1. \A y \in Thing : Held(y)' = Held(y) /\ OnConn(y)' = OnConn(y)
    BY <1>1, HeldKept DEF Thing, vars
  <2> QED
    BY <1>1, <2>1, NothingHeldChanges
       DEF vars, IInv, TypeOK, ObjectsHaveManagers, SubQueues, ReplyQueues
<1>2. CASE Next
  BY <1>2, BreakStep, ConnectStep, ConnectWithOptionsStep, DisconnectStep, DelManagerStep, InquireStep,
     NewPCFExecuteStep, PCFDisconnectStep, DelPCFExecuteStep,
     NewStep, OpenStep, CloseStep, DelStep, SubStep, CloseSubStep, DelSubStep
     DEF Next
<1> QED
  BY <1>1, <1>2

LEMMA IInvAlways == Spec => []IInv
BY IInvInit, IInvStep, PTL DEF Spec

\* Managers, objects, numbers and connections have the values they are declared with.
THEOREM HandlesTypeCorrect == Spec => []TypeOK
<1>1. IInv => TypeOK
  BY DEF IInv
<1> QED
  BY <1>1, IInvAlways, PTL

\* However objects are opened, subscribed, closed, destroyed and disconnected: with no
\* stale number, no queue that is lent and no MQDISC that warns, what an object gives
\* to MQPUT, MQGET, MQINQ or MQCLOSE denotes what the object itself has opened.
THEOREM HoldsOwnAlways == Spec => []HoldsOwn
<1>1. IInv => HoldsOwn
  BY DEF IInv
<1> QED
  BY <1>1, IInvAlways, PTL

\* What MQ has open for an object can be closed by that object, over any history in
\* which no manager connects again while old numbers are about.
THEOREM NothingLostAlways == Spec => []NothingLost
<1>1. IInv => NothingLost
  BY DEF IInv
<1> QED
  BY <1>1, IInvAlways, PTL

\* A connection that was made for a manager is the one the manager has, unless `connect`
\* made it with a warning, when nobody has it (mqqmgr.py:75-79); and a manager has no
\* other, whatever the order of connects, disconnects, breaks and destructors.
THEOREM ConnectionsHeldAlways == Spec => []ConnectionsHeld
<1>1. IInv => ConnectionsHeld
  BY DEF IInv
<1> QED
  BY <1>1, IInvAlways, PTL
=============================================================================
