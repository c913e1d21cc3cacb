----------------------------- MODULE OTelProofs -----------------------------
(* For any number of threads, connections, objects and message handles: the    *)
(* tables of mqotel.py say what MQ has, and a trace reaches what it is for.     *)
EXTENDS OTel, TLAPS

\* A connection is one thread's, and what nobody is connected to has no objects.
PrivateConnections == \A t, u \in Thread : conn[t] # None /\ conn[t] = conn[u] => t = u

NoObjectsLeft ==
    \A k \in Conn \X Obj : (\A t \in Thread : conn[t] # k[1]) => object[k] = None

\* What is in the tables under key k.
HandleKnown(k) ==
    objectHandle[k] # None =>
        /\ msgHandle[objectHandle[k]] # None
        /\ msgHandle[objectHandle[k]].conn = k[1]

OptionsKnown(k) ==
    objectOptions[k] # None =>
        /\ k[2] # Star /\ object[k] # None
        /\ objectOptions[k].propCtl \in {object[k].propCtl, "unknown"}

\* An entry that refers to another object refers to the queue of a subscription.
ManagedLinked(k) ==
    (objectOptions[k] # None /\ objectOptions[k].managed # None) =>
        LET j == MakeKey(k[1], objectOptions[k].managed) IN
        object[j] # None /\ object[j].kind = "managed"

KeySound(k) == HandleKnown(k) /\ OptionsKnown(k) /\ ManagedLinked(k)

\* While t is connected and before it disconnects.
Alive(t, h) == msgHandle[h] # None /\ msgHandle[h].conn = conn[t]

InputsKnown(t) ==
    \A o \in Obj : LET k == MakeKey(conn[t], o) IN
        (object[k] # None /\ object[k].kind = "input") => objectOptions[k] # None

PmoSound(t) == pmo[t] # None => Alive(t, pmo[t])

\* The GMO has a handle of the application, or none, or that of the connection.
OwnHandleInGmo(t) ==
    /\ gmo[t].asked = "handle" /\ gmo[t].props = "handle"
    /\ gmo[t].handle # None /\ Alive(t, gmo[t].handle)
    /\ objectHandle[SharedKey(conn[t])] # gmo[t].handle

NoHandleInGmo(t) ==
    /\ gmo[t].asked # "handle" /\ gmo[t].handle = None
    /\ gmo[t].props = gmo[t].asked \/ (gmo[t].asked = "none" /\ gmo[t].props = "queue")

SharedHandleInGmo(t) ==
    /\ gmo[t].asked \in {"none", "queue"} /\ gmo[t].props = "handle"
    /\ gmo[t].handle # None
    /\ objectHandle[SharedKey(conn[t])] = gmo[t].handle

GmoSound(t) == OwnHandleInGmo(t) \/ NoHandleInGmo(t) \/ SharedHandleInGmo(t)

\* Nothing is under the keys of a connection whose MQDISC is about to be called.
Emptied(t) ==
    \A k \in Key : k[1] = conn[t] => objectHandle[k] = None /\ objectOptions[k] = None

\* What a thread is about in its call.
Puts(t) ==
    (/\ At(t, "putting")
     /\ call[t].from # "application" /\ call[t].span # None /\ ~call[t].failed) =>
        /\ msgHandle[pmo[t]].trace # None
        /\ call[t].from = "connection" => msgHandle[pmo[t]].trace = call[t].span

Gets(t) ==
    At(t, "getting") =>
        LET k == MakeKey(conn[t], call[t].obj) IN
        /\ call[t].obj \in Obj /\ object[k] # None
        /\ gmo[t].handle = None => ~NoProperties(k, gmo[t])

HasGot(t) ==
    At(t, "got") =>
        LET k == MakeKey(conn[t], call[t].obj) IN
        /\ call[t].obj \in Obj /\ object[k] # None
        /\ (/\ object[k].kind = "input"
            /\ objectOptions[k] # None => objectOptions[k].propCtl # "unknown")
           => call[t].link = call[t].trace
        /\ IF gmo[t].asked = "handle" THEN gmo[t].handle # None ELSE gmo[t].handle = None
        /\ gmo[t].asked # "none" => gmo[t].props = gmo[t].asked

ThreadSound(t) ==
    /\ ~At(t, "idle") => conn[t] # None
    /\ At(t, "disconnecting") => Emptied(t)
    /\ (conn[t] # None /\ ~At(t, "disconnecting")) => InputsKnown(t) /\ PmoSound(t) /\ GmoSound(t)
    /\ Puts(t) /\ Gets(t) /\ HasGot(t)

KeysSound == \A k \in Key : KeySound(k)
ThreadsSound == \A t \in Thread : ThreadSound(t)

IInv ==
    /\ TypeOK
    /\ PrivateConnections
    /\ NoObjectsLeft
    /\ KeysSound
    /\ ThreadsSound

-----------------------------------------------------------------------------
(* What a step of one thread must see to: its own connection.                  *)

LeavesOthers(t) ==
    /\ \A u \in Thread \ {t} :
          conn'[u] = conn[u] /\ pmo'[u] = pmo[u] /\ gmo'[u] = gmo[u] /\ call'[u] = call[u]
    /\ \A k \in Key : k[1] # conn[t] =>
          objectHandle'[k] = objectHandle[k] /\ objectOptions'[k] = objectOptions[k]
    /\ \A k \in Conn \X Obj : k[1] # conn[t] => object'[k] = object[k]
    /\ \A h \in Handle : (msgHandle[h] # None /\ msgHandle[h].conn # conn[t]) =>
          msgHandle'[h] = msgHandle[h]

LEMMA KeyTyped ==
    ASSUME NEW k \in Key
    PROVE  /\ k[1] \in Conn /\ k[2] \in Obj \cup {Star} /\ k = <<k[1], k[2]>>
           /\ \A o \in Obj : MakeKey(k[1], o) \in Key /\ MakeKey(k[1], o) \in Conn \X Obj
           /\ k[2] # Star => k \in Conn \X Obj
BY DEF Key, MakeKey

\* The keys of other connections.
LEMMA OtherKeysKept ==
    ASSUME IInv, NEW t \in Thread, LeavesOthers(t), NEW k \in Key, k[1] # conn[t]
    PROVE  KeySound(k)'
<1>1. KeySound(k) /\ objectHandle'[k] = objectHandle[k] /\ objectOptions'[k] = objectOptions[k]
  BY DEF IInv, KeysSound, LeavesOthers
<1>2. HandleKnown(k)'
  <2>1. objectHandle[k] \in Handle \cup {None}
    BY DEF IInv, TypeOK
  <2> QED
    BY <1>1, <2>1 DEF KeySound, HandleKnown, LeavesOthers
<1>3. \A o \in Obj : object'[MakeKey(k[1], o)] = object[MakeKey(k[1], o)]
  <2> SUFFICES ASSUME NEW o \in Obj PROVE object'[MakeKey(k[1], o)] = object[MakeKey(k[1], o)]
    OBVIOUS
  <2>1. MakeKey(k[1], o) \in Conn \X Obj /\ MakeKey(k[1], o)[1] = k[1]
    BY KeyTyped DEF MakeKey
  <2> QED
    BY <2>1 DEF LeavesOthers
<1>4. OptionsKnown(k)'
  <2>1. k[2] # Star => object'[k] = object[k]
    BY KeyTyped DEF LeavesOthers
  <2> QED
    BY <1>1, <2>1 DEF KeySound, OptionsKnown
<1>5. ManagedLinked(k)'
  <2>1. objectOptions[k] # None => objectOptions[k].managed \in Obj \cup {None}
    BY DEF IInv, TypeOK, PropOptions
  <2> QED
    BY <1>1, <1>3, <2>1 DEF KeySound, ManagedLinked
<1> QED
  BY <1>2, <1>4, <1>5 DEF KeySound

\* The other threads.
LEMMA OtherThreadsKept ==
    ASSUME IInv, NEW t \in Thread, LeavesOthers(t), NEW u \in Thread, u # t
    PROVE  ThreadSound(u)'
<1>1. /\ ThreadSound(u)
      /\ conn'[u] = conn[u] /\ pmo'[u] = pmo[u] /\ gmo'[u] = gmo[u] /\ call'[u] = call[u]
      /\ conn[u] \in Conn \cup {None} /\ pmo[u] \in Handle \cup {None} /\ gmo[u].handle \in Handle \cup {None}
  BY DEF IInv, ThreadsSound, LeavesOthers, TypeOK, Gmo
<1>2. CASE conn[u] = None
  <2>1. At(u, "idle")'
    BY <1>1, <1>2 DEF ThreadSound, At
  <2> QED
    BY <1>1, <1>2, <2>1 DEF ThreadSound, At, Puts, Gets, HasGot
<1>3. CASE conn[u] # None
  <2>1. conn[u] # conn[t] /\ conn[u] \in Conn
    BY <1>1, <1>3 DEF IInv, PrivateConnections
  <2>2. /\ \A o \in Obj : LET k == MakeKey(conn[u], o) IN
              object'[k] = object[k] /\ objectOptions'[k] = objectOptions[k]
        /\ objectHandle'[SharedKey(conn[u])] = objectHandle[SharedKey(conn[u])]
    <3>1. \A o \in Obj : /\ MakeKey(conn[u], o) \in Conn \X Obj /\ MakeKey(conn[u], o) \in Key
                         /\ MakeKey(conn[u], o)[1] = conn[u]
      BY <2>1 DEF MakeKey, Key
    <3>2. SharedKey(conn[u]) \in Key /\ SharedKey(conn[u])[1] = conn[u]
      BY <2>1 DEF SharedKey, MakeKey, Key
    <3> QED
      BY <2>1, <3>1, <3>2 DEF LeavesOthers
  <2>3. \A h \in Handle : Alive(u, h) => Alive(u, h)' /\ msgHandle'[h] = msgHandle[h]
    BY <1>1, <2>1 DEF Alive, LeavesOthers
  <2>4. At(u, "disconnecting")' => Emptied(u)'
    BY <1>1, <2>1 DEF ThreadSound, At, Emptied, LeavesOthers
  <2>5. (conn[u] # None /\ ~At(u, "disconnecting"))' => InputsKnown(u)' /\ PmoSound(u)' /\ GmoSound(u)'
    <3> SUFFICES ASSUME ~At(u, "disconnecting") PROVE InputsKnown(u)' /\ PmoSound(u)' /\ GmoSound(u)'
      BY <1>1, <1>3 DEF At
    <3>1. InputsKnown(u) /\ PmoSound(u) /\ GmoSound(u)
      BY <1>1, <1>3 DEF ThreadSound
    <3>2. InputsKnown(u)'
      BY <1>1, <2>2, <3>1 DEF InputsKnown
    <3>3. PmoSound(u)'
      BY <1>1, <2>3, <3>1 DEF PmoSound
    <3>4. GmoSound(u)'
      BY <1>1, <2>2, <2>3, <3>1 DEF GmoSound, OwnHandleInGmo, NoHandleInGmo, SharedHandleInGmo
    <3> QED
      BY <3>2, <3>3, <3>4
  <2>6. Puts(u)'
    <3>1. At(u, "putting") => PmoSound(u) /\ pmo[u] # None
      BY <1>1, <1>3 DEF ThreadSound, At, IInv, TypeOK
    <3>2. At(u, "putting") => Alive(u, pmo[u]) /\ pmo[u] \in Handle
      BY <1>1, <3>1 DEF PmoSound
    <3> QED
      BY <1>1, <2>3, <3>2 DEF ThreadSound, Puts, At
  <2>7. Gets(u)'
    <3>1. (At(u, "getting") /\ call[u].obj \in Obj) => 
             (NoProperties(MakeKey(conn[u], call[u].obj), gmo[u])' =>
              NoProperties(MakeKey(conn[u], call[u].obj), gmo[u]))
      BY <1>1, <2>2 DEF NoProperties
    <3> QED
      BY <1>1, <2>2, <3>1 DEF ThreadSound, Gets, At
  <2>8. HasGot(u)'
    BY <1>1, <2>2 DEF ThreadSound, HasGot, At
  <2> QED
    BY <1>1, <1>3, <2>4, <2>5, <2>6, <2>7, <2>8 DEF ThreadSound
<1> QED
  BY <1>2, <1>3

\* A step of a thread that stays connected.
LEMMA StepEffect ==
    ASSUME IInv, NEW t \in Thread, conn[t] # None, conn' = conn, LeavesOthers(t), TypeOK',
           \A k \in Key : k[1] = conn[t] => KeySound(k)',
           ThreadSound(t)'
    PROVE  IInv'
<1>1. PrivateConnections'
  BY DEF IInv, PrivateConnections
<1>2. NoObjectsLeft'
  BY DEF IInv, NoObjectsLeft, LeavesOthers
<1>3. KeysSound'
  BY OtherKeysKept DEF KeysSound
<1>4. ThreadsSound'
  BY OtherThreadsKept DEF ThreadsSound
<1> QED
  BY <1>1, <1>2, <1>3, <1>4 DEF IInv

-----------------------------------------------------------------------------
LEMMA IInvInit == Init => IInv
<1> SUFFICES ASSUME Init PROVE IInv
  OBVIOUS
<1>1. TypeOK
  <2>1. Idle \in Call /\ Idle.step = "idle" /\ NewGmo("queue", None) \in Gmo
    BY DEF Idle, Call, PmoFrom, Trace, NewGmo, Gmo, Properties
  <2> QED
    BY <2>1 DEF Init, TypeOK, At
<1>2. PrivateConnections /\ NoObjectsLeft
  BY DEF Init, PrivateConnections, NoObjectsLeft
<1>3. KeysSound
  BY DEF Init, KeysSound, KeySound, HandleKnown, OptionsKnown, ManagedLinked
<1>4. ThreadsSound
  <2> SUFFICES ASSUME NEW t \in Thread PROVE ThreadSound(t)
    BY DEF ThreadsSound
  <2>1. call[t].step = "idle" /\ conn[t] = None
    BY DEF Init, Idle
  <2> QED
    BY <2>1 DEF ThreadSound, At, Puts, Gets, HasGot
<1> QED
  BY <1>1, <1>2, <1>3, <1>4 DEF IInv

\* The numbers of a thread's connection in the tables.
LEMMA OwnKeys ==
    ASSUME IInv, NEW t \in Thread, conn[t] # None
    PROVE  /\ conn[t] \in Conn
           /\ SharedKey(conn[t]) \in Key /\ SharedKey(conn[t])[1] = conn[t]
           /\ \A o \in Obj :
                 /\ MakeKey(conn[t], o) \in Conn \X Obj /\ MakeKey(conn[t], o) \in Key
                 /\ MakeKey(conn[t], o)[1] = conn[t] /\ MakeKey(conn[t], o)[2] = o
                 /\ MakeKey(conn[t], o) # SharedKey(conn[t])
BY OTelAssumption DEF IInv, TypeOK, SharedKey, MakeKey, Key

\* What thread t knows before it makes a call.
LEMMA ReadyKnows ==
    ASSUME IInv, NEW t \in Thread, Ready(t)
    PROVE  /\ conn[t] # None /\ conn[t] \in Conn
           /\ InputsKnown(t) /\ PmoSound(t) /\ GmoSound(t)
           /\ call[t] \in Call /\ gmo[t] \in Gmo /\ pmo[t] \in Handle \cup {None}
BY DEF Ready, At, IInv, TypeOK, ThreadsSound, ThreadSound

\* Thread t makes no call any more.
LEMMA IdleSound ==
    ASSUME NEW t \in Thread, conn'[t] # None, call'[t] = Idle,
           InputsKnown(t)', PmoSound(t)', GmoSound(t)'
    PROVE  ThreadSound(t)'
BY DEF ThreadSound, At, Idle, Puts, Gets, HasGot

LEMMA IdleTyped ==
    ASSUME IInv, NEW t \in Thread, call' = [call EXCEPT ![t] = Idle]
    PROVE  /\ call' \in [Thread -> Call] /\ call'[t] = Idle /\ ~At(t, "putting")'
           /\ \A u \in Thread \ {t} : call'[u] = call[u]
<1>1. Idle \in Call /\ Idle.step = "idle"
  BY DEF Idle, Call, PmoFrom, Trace
<1> QED
  BY <1>1 DEF IInv, TypeOK, At

-----------------------------------------------------------------------------
(* The objects                                                                 *)

\* Opening and closing leave the message handles alone.
LEMMA ObjectsStep ==
    ASSUME IInv, NEW t \in Thread, Ready(t),
           UNCHANGED <<conn, msgHandle, objectHandle, pmo, gmo>>,
           call' = [call EXCEPT ![t] = Idle],
           object' \in [Conn \X Obj -> Object \cup {None}],
           objectOptions' \in [Key -> PropOptions \cup {None}],
           \A k \in Key : k[1] # conn[t] => objectOptions'[k] = objectOptions[k],
           \A k \in Conn \X Obj : k[1] # conn[t] => object'[k] = object[k],
           \A k \in Key : k[1] = conn[t] => OptionsKnown(k)' /\ ManagedLinked(k)',
           InputsKnown(t)'
    PROVE  IInv'
<1>1. /\ call' \in [Thread -> Call] /\ call'[t] = Idle /\ ~At(t, "putting")'
      /\ \A u \in Thread \ {t} : call'[u] = call[u]
  BY IdleTyped
<1>2. conn[t] # None /\ PmoSound(t) /\ GmoSound(t)
  BY ReadyKnows
<1>3. LeavesOthers(t)
  BY <1>1 DEF LeavesOthers
<1>4. TypeOK'
  BY <1>1 DEF IInv, TypeOK, At
<1>5. ASSUME NEW k \in Key, k[1] = conn[t] PROVE KeySound(k)'
  <2>1. HandleKnown(k)'
    BY DEF IInv, KeysSound, KeySound, HandleKnown
  <2> QED
    BY <1>5, <2>1 DEF KeySound
<1>6. ThreadSound(t)'
  <2>1. PmoSound(t)' /\ GmoSound(t)'
    BY <1>2 DEF PmoSound, GmoSound, OwnHandleInGmo, NoHandleInGmo, SharedHandleInGmo, Alive
  <2> QED
    BY <1>1, <1>2, <2>1, IdleSound
<1> QED
  BY <1>2, <1>3, <1>4, <1>5, <1>6, StepEffect

\* An object that MQ does not have is not in the table, and no entry refers to it.
LEMMA UnknownIfClosed ==
    ASSUME IInv, NEW k \in Key, k[2] # Star, object[k] = None
    PROVE  /\ objectOptions[k] = None
           /\ \A j \in Key : (objectOptions[j] # None /\ objectOptions[j].managed # None) =>
                 MakeKey(j[1], objectOptions[j].managed) # k
BY DEF IInv, KeysSound, KeySound, OptionsKnown, ManagedLinked

LEMMA EntryTyped ==
    ASSUME NEW known \in PropCtl \cup {"unknown"}, NEW managed \in Obj \cup {None}
    PROVE  /\ Entry(known, managed) \in PropOptions /\ Entry(known, managed) # None
           /\ Entry(known, managed).propCtl = known /\ Entry(known, managed).managed = managed
BY OTelAssumption DEF Entry, PropOptions

LEMMA ObjectTyped ==
    ASSUME NEW kind \in {"input", "other", "sub", "managed"}, NEW ctl \in PropCtl,
           NEW new, new = [kind |-> kind, propCtl |-> ctl]
    PROVE  new \in Object /\ new # None /\ new.kind = kind /\ new.propCtl = ctl
BY OTelAssumption DEF Object

LEMMA OpenQueueStep ==
    ASSUME IInv, NEW t \in Thread, NEW o \in Obj, NEW kind \in {"input", "other"}, NEW ctl \in PropCtl,
           NEW known \in PropCtl \cup {"unknown"}, OpenQueue(t, o, kind, ctl, known)
    PROVE  IInv'
<1>1. Ready(t) /\ conn[t] # None /\ InputsKnown(t)
  BY ReadyKnows DEF OpenQueue
<1>2. PICK k : k = MakeKey(conn[t], o)
  OBVIOUS
<1>3. k \in Key /\ k \in Conn \X Obj /\ k[1] = conn[t] /\ k[2] # Star
  BY <1>1, <1>2, OwnKeys, OTelAssumption
<1>4. PICK new : new = [kind |-> kind, propCtl |-> ctl]
  OBVIOUS
<1>5. new \in Object /\ new # None /\ new.kind = kind /\ new.propCtl = ctl
  BY <1>4, ObjectTyped
<1>6. PICK entry : entry = Entry(known, None)
  OBVIOUS
<1>7. entry \in PropOptions /\ entry # None /\ entry.propCtl = known /\ entry.managed = None
  BY <1>6, EntryTyped
<1>8. /\ object[k] = None /\ known \in {ctl, "unknown"}
      /\ object' = [object EXCEPT ![k] = new]
      /\ objectOptions' = IF kind = "input" THEN [objectOptions EXCEPT ![k] = entry] ELSE objectOptions
      /\ call' = [call EXCEPT ![t] = Idle]
      /\ UNCHANGED <<conn, msgHandle, objectHandle, pmo, gmo>>
  BY <1>2, <1>4, <1>6 DEF OpenQueue
<1>9. /\ object' \in [Conn \X Obj -> Object \cup {None}] /\ object'[k] = new
      /\ \A j \in Conn \X Obj : j # k => object'[j] = object[j]
  BY <1>3, <1>5, <1>8 DEF IInv, TypeOK
<1>10. /\ objectOptions[k] = None
       /\ \A j \in Key : (objectOptions[j] # None /\ objectOptions[j].managed # None) =>
             MakeKey(j[1], objectOptions[j].managed) # k
  BY <1>3, <1>8, UnknownIfClosed
<1>11. /\ objectOptions' \in [Key -> PropOptions \cup {None}]
       /\ kind = "input" => objectOptions'[k] = entry
       /\ kind # "input" => objectOptions'[k] = None
       /\ \A j \in Key : j # k => objectOptions'[j] = objectOptions[j]
  <2>1. CASE kind = "input"
    BY <1>3, <1>7, <1>8, <2>1 DEF IInv, TypeOK
  <2>2. CASE kind # "input"
    BY <1>8, <1>10, <2>2 DEF IInv, TypeOK
  <2> QED
    BY <2>1, <2>2
<1>12. ASSUME NEW j \in Key, j[1] = conn[t] PROVE OptionsKnown(j)' /\ ManagedLinked(j)'
  <2>1. CASE j = k
    BY <1>3, <1>5, <1>7, <1>8, <1>9, <1>11, <2>1 DEF OptionsKnown, ManagedLinked
  <2>2. CASE j # k
    <3>1. OptionsKnown(j) /\ ManagedLinked(j) /\ objectOptions'[j] = objectOptions[j]
      BY <1>11, <2>2 DEF IInv, KeysSound, KeySound
    <3>2. j[2] # Star => object'[j] = object[j]
      BY <1>9, <2>2, KeyTyped
    <3>3. (objectOptions[j] # None /\ objectOptions[j].managed # None) =>
             LET m == MakeKey(j[1], objectOptions[j].managed) IN m # k /\ m \in Conn \X Obj
      <4>1. objectOptions[j] # None => objectOptions[j].managed \in Obj \cup {None}
        BY DEF IInv, TypeOK, PropOptions
      <4> QED
        BY <1>10, <4>1, KeyTyped
    <3> QED
      BY <1>9, <3>1, <3>2, <3>3 DEF OptionsKnown, ManagedLinked
  <2> QED
    BY <2>1, <2>2
<1>13. InputsKnown(t)'
  <2> SUFFICES ASSUME NEW p \in Obj, NEW j, j = MakeKey(conn[t], p),
                      object'[j] # None, object'[j].kind = "input"
               PROVE  objectOptions'[j] # None
    BY <1>8 DEF InputsKnown
  <2>1. j \in Key /\ j \in Conn \X Obj
    BY <1>1, OwnKeys
  <2>2. CASE j = k
    BY <1>5, <1>7, <1>9, <1>11, <2>2
  <2>3. CASE j # k
    BY <1>1, <1>9, <1>11, <2>1, <2>3 DEF InputsKnown
  <2> QED
    BY <2>2, <2>3
<1> QED
  BY <1>1, <1>3, <1>8, <1>9, <1>11, <1>12, <1>13, ObjectsStep

LEMMA SubscribeStep ==
    ASSUME IInv, NEW t \in Thread, NEW s \in Obj, NEW q \in Obj, NEW ctl \in PropCtl,
           NEW known \in PropCtl \cup {"unknown"}, Subscribe(t, s, q, ctl, known)
    PROVE  IInv'
<1>1. Ready(t) /\ conn[t] # None /\ InputsKnown(t)
  BY ReadyKnows DEF Subscribe
<1>2. PICK ks, kq : ks = MakeKey(conn[t], s) /\ kq = MakeKey(conn[t], q)
  OBVIOUS
<1>3. /\ ks \in Key /\ ks \in Conn \X Obj /\ ks[1] = conn[t] /\ ks[2] = s /\ ks[2] # Star
      /\ kq \in Key /\ kq \in Conn \X Obj /\ kq[1] = conn[t] /\ kq[2] = q /\ kq[2] # Star
      /\ ks # kq
  BY <1>1, <1>2, OwnKeys, OTelAssumption DEF Subscribe
<1>4. PICK sub, queue : /\ sub = [kind |-> "sub", propCtl |-> ctl]
                        /\ queue = [kind |-> "managed", propCtl |-> ctl]
  OBVIOUS
<1>5. /\ sub \in Object /\ sub # None /\ sub.kind = "sub" /\ sub.propCtl = ctl
      /\ queue \in Object /\ queue # None /\ queue.kind = "managed" /\ queue.propCtl = ctl
  BY <1>4, ObjectTyped
<1>6. PICK es, eq : es = Entry(known, q) /\ eq = Entry(known, None)
  OBVIOUS
<1>7. /\ es \in PropOptions /\ es # None /\ es.propCtl = known /\ es.managed = q
      /\ eq \in PropOptions /\ eq # None /\ eq.propCtl = known /\ eq.managed = None
  BY <1>6, EntryTyped
<1>8. /\ object[ks] = None /\ object[kq] = None /\ known \in {ctl, "unknown"}
      /\ object' = [object EXCEPT ![ks] = sub, ![kq] = queue]
      /\ objectOptions' = [objectOptions EXCEPT ![kq] = eq, ![ks] = es]
      /\ call' = [call EXCEPT ![t] = Idle]
      /\ UNCHANGED <<conn, msgHandle, objectHandle, pmo, gmo>>
  BY <1>2, <1>4, <1>6 DEF Subscribe
<1>9. /\ object' \in [Conn \X Obj -> Object \cup {None}] /\ object'[ks] = sub /\ object'[kq] = queue
      /\ \A j \in Conn \X Obj : (j # ks /\ j # kq) => object'[j] = object[j]
  BY <1>3, <1>5, <1>8 DEF IInv, TypeOK
<1>10. \A j \in Key : (objectOptions[j] # None /\ objectOptions[j].managed # None) =>
          MakeKey(j[1], objectOptions[j].managed) \notin {ks, kq}
  BY <1>3, <1>8, UnknownIfClosed
<1>11. /\ objectOptions' \in [Key -> PropOptions \cup {None}]
       /\ objectOptions'[ks] = es /\ objectOptions'[kq] = eq
       /\ \A j \in Key : (j # ks /\ j # kq) => objectOptions'[j] = objectOptions[j]
  BY <1>3, <1>7, <1>8 DEF IInv, TypeOK
<1>12. ASSUME NEW j \in Key, j[1] = conn[t] PROVE OptionsKnown(j)' /\ ManagedLinked(j)'
  <2>1. CASE j = kq
    BY <1>3, <1>5, <1>7, <1>8, <1>9, <1>11, <2>1 DEF OptionsKnown, ManagedLinked
  <2>2. CASE j = ks
    <3>1. OptionsKnown(j)'
      BY <1>3, <1>5, <1>7, <1>8, <1>9, <1>11, <2>2 DEF OptionsKnown
    <3>2. objectOptions'[j].managed = q /\ MakeKey(j[1], q) = kq
      BY <1>2, <1>3, <1>7, <1>11, <2>2
    <3> QED
      BY <1>5, <1>9, <3>1, <3>2 DEF ManagedLinked
  <2>3. CASE j # ks /\ j # kq
    <3>1. OptionsKnown(j) /\ ManagedLinked(j) /\ objectOptions'[j] = objectOptions[j]
      BY <1>11, <2>3 DEF IInv, KeysSound, KeySound
    <3>2. j[2] # Star => object'[j] = object[j]
      BY <1>9, <2>3, KeyTyped
    <3>3. (objectOptions[j] # None /\ objectOptions[j].managed # None) =>
             LET m == MakeKey(j[1], objectOptions[j].managed) IN m \notin {ks, kq} /\ m \in Conn \X Obj
      <4>1. objectOptions[j] # None => objectOptions[j].managed \in Obj \cup {None}
        BY DEF IInv, TypeOK, PropOptions
      <4> QED
        BY <1>10, <4>1, KeyTyped
    <3> QED
      BY <1>9, <3>1, <3>2, <3>3 DEF OptionsKnown, ManagedLinked
  <2> QED
    BY <2>1, <2>2, <2>3
<1>13. InputsKnown(t)'
  <2> SUFFICES ASSUME NEW p \in Obj, NEW j, j = MakeKey(conn[t], p),
                      object'[j] # None, object'[j].kind = "input"
               PROVE  objectOptions'[j] # None
    BY <1>8 DEF InputsKnown
  <2>1. j \in Key /\ j \in Conn \X Obj
    BY <1>1, OwnKeys
  <2>2. CASE j \in {ks, kq}
    BY <1>7, <1>11, <2>2
  <2>3. CASE j # ks /\ j # kq
    BY <1>1, <1>9, <1>11, <2>1, <2>3 DEF InputsKnown
  <2> QED
    BY <2>2, <2>3
<1> QED
  BY <1>1, <1>3, <1>8, <1>9, <1>11, <1>12, <1>13, ObjectsStep

\* The entries that a close removes are that of the object and that of a managed queue.
LEMMA OtelCloseEffect ==
    ASSUME IInv, NEW k \in Key, NEW closed, closed = OtelClose(objectOptions, k)
    PROVE  /\ closed \in [Key -> PropOptions \cup {None}]
           /\ closed[k] = None
           /\ \A j \in Key : closed[j] \in {None, objectOptions[j]}
           /\ \A j \in Key : j[1] # k[1] => closed[j] = objectOptions[j]
           /\ \A j \in Key : closed[j] # objectOptions[j] =>
                 j = k \/ (object[j] # None /\ object[j].kind = "managed")
<1>1. /\ objectOptions \in [Key -> PropOptions \cup {None}]
      /\ objectOptions[k] # None => objectOptions[k].managed \in Obj \cup {None}
  BY DEF IInv, TypeOK, PropOptions
<1>2. \A j \in Key : closed[j] =
         IF j = k \/ (objectOptions[k] # None /\ j = MakeKey(k[1], objectOptions[k].managed))
         THEN None ELSE objectOptions[j]
  BY DEF OtelClose
<1>3. closed \in [Key -> PropOptions \cup {None}]
  BY <1>1 DEF OtelClose
<1>4. ASSUME NEW j \in Key, closed[j] # objectOptions[j], j # k
      PROVE  j[1] = k[1] /\ object[j] # None /\ object[j].kind = "managed"
  <2>1. /\ objectOptions[k] # None /\ j = MakeKey(k[1], objectOptions[k].managed)
        /\ objectOptions[j] # None
    BY <1>2, <1>4
  <2>2. objectOptions[k].managed # None
    <3>1. OptionsKnown(j)
      BY DEF IInv, KeysSound, KeySound
    <3>2. j[2] # Star /\ j[2] \in Obj
      BY <2>1, <3>1, KeyTyped DEF OptionsKnown
    <3> QED
      BY <2>1, <3>2, OTelAssumption DEF MakeKey
  <2>3. ManagedLinked(k)
    BY DEF IInv, KeysSound, KeySound
  <2> QED
    BY <2>1, <2>2, <2>3 DEF ManagedLinked, MakeKey
<1> QED
  BY <1>2, <1>3, <1>4

\* What is known of the other objects stays known, and no entry refers to k.
LEMMA UnlinkEffect ==
    ASSUME NEW options \in [Key -> PropOptions \cup {None}], NEW k \in Key,
           NEW linked, linked = Unlink(options, k)
    PROVE  /\ linked \in [Key -> PropOptions \cup {None}]
           /\ \A j \in Key : options[j] = None => linked[j] = None
           /\ \A j \in Key : options[j] # None =>
                 /\ linked[j] # None /\ linked[j].propCtl = options[j].propCtl
                 /\ linked[j].managed \in {options[j].managed, None}
                 /\ linked[j].managed # None => MakeKey(j[1], linked[j].managed) # k
           /\ \A j \in Key : j[1] # k[1] => linked[j] = options[j]
<1>1. \A j \in Key : linked[j] =
         IF options[j] # None /\ MakeKey(j[1], options[j].managed) = k
         THEN [options[j] EXCEPT !.managed = None] ELSE options[j]
  BY DEF Unlink
<1>2. ASSUME NEW j \in Key, options[j] # None, NEW new, new = [options[j] EXCEPT !.managed = None]
      PROVE  new \in PropOptions /\ new # None /\ new.propCtl = options[j].propCtl /\ new.managed = None
  BY <1>2, OTelAssumption DEF PropOptions
<1>3. linked \in [Key -> PropOptions \cup {None}]
  <2>1. linked = [j \in Key |-> linked[j]]
    BY DEF Unlink
  <2>2. \A j \in Key : linked[j] \in PropOptions \cup {None}
    BY <1>1, <1>2
  <2> QED
    BY <2>1, <2>2
<1>4. ASSUME NEW j \in Key, j[1] # k[1] PROVE linked[j] = options[j]
  <2>1. \A m : MakeKey(j[1], m) # k
    BY <1>4 DEF MakeKey
  <2> QED
    BY <1>1, <2>1
<1>5. ASSUME NEW j \in Key, options[j] # None
      PROVE  /\ linked[j] # None /\ linked[j].propCtl = options[j].propCtl
             /\ linked[j].managed \in {options[j].managed, None}
             /\ linked[j].managed # None => MakeKey(j[1], linked[j].managed) # k
  <2>1. CASE MakeKey(j[1], options[j].managed) = k
    BY <1>1, <1>2, <1>5, <2>1
  <2>2. CASE MakeKey(j[1], options[j].managed) # k
    BY <1>1, <1>5, <2>2
  <2> QED
    BY <2>1, <2>2
<1> QED
  BY <1>1, <1>3, <1>4, <1>5

\* An object is closed, and its entry and perhaps that of a managed queue go.
LEMMA CloseStep ==
    ASSUME IInv, NEW t \in Thread, Ready(t), NEW k \in Conn \X Obj, k[1] = conn[t],
           UNCHANGED <<conn, msgHandle, objectHandle, pmo, gmo>>,
           call' = [call EXCEPT ![t] = Idle],
           object' = [object EXCEPT ![k] = None],
           objectOptions' \in [Key -> PropOptions \cup {None}], objectOptions'[k] = None,
           \A j \in Key : j[1] # k[1] => objectOptions'[j] = objectOptions[j],
           \A j \in Key : objectOptions'[j] # None =>
              /\ objectOptions[j] # None /\ objectOptions'[j].propCtl = objectOptions[j].propCtl
              /\ objectOptions'[j].managed \in {objectOptions[j].managed, None}
              /\ objectOptions'[j].managed # None => MakeKey(j[1], objectOptions'[j].managed) # k,
           \A j \in Key : (objectOptions[j] # None /\ objectOptions'[j] = None) =>
              j = k \/ (object[j] # None /\ object[j].kind = "managed")
    PROVE  IInv'
<1>1. conn[t] # None /\ InputsKnown(t) /\ k \in Key
  BY ReadyKnows DEF Key
<1>2. /\ object' \in [Conn \X Obj -> Object \cup {None}] /\ object'[k] = None
      /\ \A j \in Conn \X Obj : j # k => object'[j] = object[j]
  BY DEF IInv, TypeOK
<1>3. ASSUME NEW j \in Key, j[1] = conn[t] PROVE OptionsKnown(j)' /\ ManagedLinked(j)'
  <2> SUFFICES ASSUME objectOptions'[j] # None PROVE OptionsKnown(j)' /\ ManagedLinked(j)'
    BY DEF OptionsKnown, ManagedLinked
  <2>1. OptionsKnown(j) /\ ManagedLinked(j) /\ objectOptions[j] # None /\ j # k
    BY DEF IInv, KeysSound, KeySound
  <2>2. OptionsKnown(j)'
    <3>1. j[2] # Star /\ object'[j] = object[j]
      BY <1>2, <2>1, KeyTyped DEF OptionsKnown
    <3> QED
      BY <2>1, <3>1 DEF OptionsKnown
  <2>3. ManagedLinked(j)'
    <3>1. SUFFICES ASSUME objectOptions'[j].managed # None
                   PROVE  LET m == MakeKey(j[1], objectOptions'[j].managed) IN
                          object'[m] # None /\ object'[m].kind = "managed"
      BY DEF ManagedLinked
    <3>2. objectOptions'[j].managed = objectOptions[j].managed
      BY <3>1
    <3>3. objectOptions[j].managed \in Obj
      BY <2>1, <3>1, <3>2 DEF IInv, TypeOK, PropOptions
    <3>4. LET m == MakeKey(j[1], objectOptions[j].managed) IN m # k /\ m \in Conn \X Obj
      BY <3>1, <3>2, <3>3, KeyTyped
    <3> QED
      BY <1>2, <2>1, <3>1, <3>2, <3>4 DEF ManagedLinked
  <2> QED
    BY <2>2, <2>3
<1>4. InputsKnown(t)'
  <2> SUFFICES ASSUME NEW p \in Obj, NEW j, j = MakeKey(conn[t], p),
                      object'[j] # None, object'[j].kind = "input"
               PROVE  objectOptions'[j] # None
    BY DEF InputsKnown
  <2>1. j \in Key /\ j \in Conn \X Obj
    BY <1>1, OwnKeys
  <2>2. j # k /\ object[j] # None /\ object[j].kind = "input"
    BY <1>2, <2>1
  <2> QED
    BY <1>1, <2>1, <2>2 DEF InputsKnown
<1>5. \A j \in Conn \X Obj : j[1] # conn[t] => object'[j] = object[j]
  BY <1>2
<1> QED
  BY <1>2, <1>3, <1>4, <1>5, ObjectsStep

LEMMA CloseQueueStep ==
    ASSUME IInv, NEW t \in Thread, NEW o \in Obj, CloseQueue(t, o) PROVE IInv'
<1>1. Ready(t) /\ conn[t] # None
  BY ReadyKnows DEF CloseQueue
<1>2. PICK k : k = MakeKey(conn[t], o)
  OBVIOUS
<1>3. k \in Key /\ k \in Conn \X Obj /\ k[1] = conn[t]
  BY <1>1, <1>2, OwnKeys
<1>4. PICK closed : closed = OtelClose(objectOptions, k)
  OBVIOUS
<1>5. /\ closed \in [Key -> PropOptions \cup {None}]
      /\ closed[k] = None
      /\ \A j \in Key : closed[j] \in {None, objectOptions[j]}
      /\ \A j \in Key : j[1] # k[1] => closed[j] = objectOptions[j]
      /\ \A j \in Key : closed[j] # objectOptions[j] =>
            j = k \/ (object[j] # None /\ object[j].kind = "managed")
  BY <1>3, <1>4, OtelCloseEffect
<1>6. /\ object' = [object EXCEPT ![k] = None] /\ objectOptions' = Unlink(closed, k)
      /\ call' = [call EXCEPT ![t] = Idle] /\ UNCHANGED <<conn, msgHandle, objectHandle, pmo, gmo>>
  BY <1>2, <1>4 DEF CloseQueue
<1>7. /\ objectOptions' \in [Key -> PropOptions \cup {None}]
      /\ \A j \in Key : closed[j] = None => objectOptions'[j] = None
      /\ \A j \in Key : closed[j] # None =>
            /\ objectOptions'[j] # None /\ objectOptions'[j].propCtl = closed[j].propCtl
            /\ objectOptions'[j].managed \in {closed[j].managed, None}
            /\ objectOptions'[j].managed # None => MakeKey(j[1], objectOptions'[j].managed) # k
      /\ \A j \in Key : j[1] # k[1] => objectOptions'[j] = closed[j]
  BY <1>3, <1>5, <1>6, UnlinkEffect
<1>8. /\ objectOptions'[k] = None
      /\ \A j \in Key : j[1] # k[1] => objectOptions'[j] = objectOptions[j]
      /\ \A j \in Key : objectOptions'[j] # None =>
            /\ objectOptions[j] # None /\ objectOptions'[j].propCtl = objectOptions[j].propCtl
            /\ objectOptions'[j].managed \in {objectOptions[j].managed, None}
            /\ objectOptions'[j].managed # None => MakeKey(j[1], objectOptions'[j].managed) # k
      /\ \A j \in Key : (objectOptions[j] # None /\ objectOptions'[j] = None) =>
            j = k \/ (object[j] # None /\ object[j].kind = "managed")
  BY <1>3, <1>5, <1>7
<1> QED
  BY <1>1, <1>3, <1>6, <1>7, <1>8, CloseStep

LEMMA CloseSubStep ==
    ASSUME IInv, NEW t \in Thread, NEW s \in Obj, CloseSub(t, s) PROVE IInv'
<1>1. Ready(t) /\ conn[t] # None
  BY ReadyKnows DEF CloseSub
<1>2. PICK k : k = MakeKey(conn[t], s)
  OBVIOUS
<1>3. k \in Key /\ k \in Conn \X Obj /\ k[1] = conn[t]
  BY <1>1, <1>2, OwnKeys
<1>4. /\ object[k] # None /\ object[k].kind = "sub"
      /\ object' = [object EXCEPT ![k] = None] /\ objectOptions' = OtelClose(objectOptions, k)
      /\ call' = [call EXCEPT ![t] = Idle] /\ UNCHANGED <<conn, msgHandle, objectHandle, pmo, gmo>>
  BY <1>2 DEF CloseSub
<1>5. /\ objectOptions' \in [Key -> PropOptions \cup {None}]
      /\ objectOptions'[k] = None
      /\ \A j \in Key : objectOptions'[j] \in {None, objectOptions[j]}
      /\ \A j \in Key : j[1] # k[1] => objectOptions'[j] = objectOptions[j]
      /\ \A j \in Key : objectOptions'[j] # objectOptions[j] =>
            j = k \/ (object[j] # None /\ object[j].kind = "managed")
  BY <1>3, <1>4, OtelCloseEffect
<1>6. \A j \in Key : (objectOptions[j] # None /\ objectOptions[j].managed # None) =>
         MakeKey(j[1], objectOptions[j].managed) # k
  BY <1>4 DEF IInv, KeysSound, KeySound, ManagedLinked
<1>7. /\ \A j \in Key : objectOptions'[j] # None =>
            /\ objectOptions[j] # None /\ objectOptions'[j].propCtl = objectOptions[j].propCtl
            /\ objectOptions'[j].managed \in {objectOptions[j].managed, None}
            /\ objectOptions'[j].managed # None => MakeKey(j[1], objectOptions'[j].managed) # k
      /\ \A j \in Key : (objectOptions[j] # None /\ objectOptions'[j] = None) =>
            j = k \/ (object[j] # None /\ object[j].kind = "managed")
  <2> SUFFICES ASSUME NEW j \in Key
               PROVE  /\ objectOptions'[j] # None =>
                            /\ objectOptions[j] # None /\ objectOptions'[j].propCtl = objectOptions[j].propCtl
                            /\ objectOptions'[j].managed \in {objectOptions[j].managed, None}
                            /\ objectOptions'[j].managed # None => MakeKey(j[1], objectOptions'[j].managed) # k
                      /\ (objectOptions[j] # None /\ objectOptions'[j] = None) =>
                            j = k \/ (object[j] # None /\ object[j].kind = "managed")
    OBVIOUS
  <2>1. CASE objectOptions'[j] = objectOptions[j]
    BY <1>6, <2>1
  <2>2. CASE objectOptions'[j] # objectOptions[j]
    BY <1>5, <2>2
  <2> QED
    BY <2>1, <2>2
<1> QED
  BY <1>1, <1>3, <1>4, <1>5, <1>7, CloseStep

-----------------------------------------------------------------------------
(* The message handles                                                         *)

LEMMA ObjectsKept ==
    ASSUME IInv, UNCHANGED <<conn, object, objectOptions>>
    PROVE  /\ \A k \in Key : OptionsKnown(k)' /\ ManagedLinked(k)'
           /\ \A t \in Thread : InputsKnown(t) => InputsKnown(t)'
BY DEF IInv, KeysSound, KeySound, OptionsKnown, ManagedLinked, InputsKnown

\* A put, a get, or a change of PMO or GMO leaves the objects alone.
LEMMA HandlesStep ==
    ASSUME IInv, NEW t \in Thread, conn[t] # None, UNCHANGED <<conn, object, objectOptions>>,
           \A u \in Thread \ {t} : pmo'[u] = pmo[u] /\ gmo'[u] = gmo[u] /\ call'[u] = call[u],
           \A k \in Key : k[1] # conn[t] => objectHandle'[k] = objectHandle[k],
           \A h \in Handle : (msgHandle[h] # None /\ msgHandle[h].conn # conn[t]) =>
              msgHandle'[h] = msgHandle[h],
           \A k \in Key : (k[1] = conn[t] /\ objectHandle'[k] # None) => Alive(t, objectHandle[k])',
           TypeOK', ThreadSound(t)'
    PROVE  IInv'
<1>1. LeavesOthers(t)
  BY DEF LeavesOthers
<1>2. ASSUME NEW k \in Key, k[1] = conn[t] PROVE KeySound(k)'
  <2>1. HandleKnown(k)'
    BY <1>2 DEF HandleKnown, Alive
  <2>2. OptionsKnown(k)' /\ ManagedLinked(k)'
    BY ObjectsKept
  <2> QED
    BY <2>1, <2>2 DEF KeySound
<1> QED
  BY <1>1, <1>2, StepEffect

\* The handle that the library has for a connection is one of it.
LEMMA OursAlive ==
    ASSUME IInv, NEW t \in Thread, NEW k \in Key, k[1] = conn[t], objectHandle[k] # None
    PROVE  objectHandle[k] \in Handle /\ Alive(t, objectHandle[k])
BY DEF IInv, TypeOK, KeysSound, KeySound, HandleKnown, Alive

LEMMA GmoHandleAlive ==
    ASSUME IInv, NEW t \in Thread, conn[t] # None, GmoSound(t), gmo[t].handle # None
    PROVE  gmo[t].handle \in Handle /\ Alive(t, gmo[t].handle)
<1>1. gmo[t].handle \in Handle
  BY DEF IInv, TypeOK, Gmo
<1>2. CASE SharedHandleInGmo(t)
  BY <1>1, <1>2, OwnKeys, OursAlive DEF SharedHandleInGmo
<1> QED
  BY <1>1, <1>2 DEF GmoSound, OwnHandleInGmo, NoHandleInGmo

LEMMA InsertEffect ==
    ASSUME NEW handles \in [Handle -> MsgHandle \cup {None}], NEW h \in Handle,
           NEW span \in Span \cup {None}, NEW skip \in BOOLEAN,
           NEW inserted, inserted = Insert(handles, h, span, skip)
    PROVE  /\ inserted \in [Handle -> MsgHandle \cup {None}]
           /\ \A g \in Handle : g # h => inserted[g] = handles[g]
           /\ skip => inserted[h] = handles[h]
           /\ handles[h] # None => inserted[h] # None /\ inserted[h].conn = handles[h].conn
           /\ (handles[h] # None /\ span # None /\ ~skip) => inserted[h].trace = span
<1>1. CASE span = None \/ skip \/ handles[h] = None
  BY <1>1 DEF Insert
<1>2. CASE ~(span = None \/ skip \/ handles[h] = None)
  <2>1. PICK new : new = [handles[h] EXCEPT !.trace = span]
    OBVIOUS
  <2>2. new \in MsgHandle /\ new # None /\ new.conn = handles[h].conn /\ new.trace = span
    BY <1>2, <2>1, OTelAssumption DEF MsgHandle, Trace
  <2>3. inserted = [handles EXCEPT ![h] = new]
    BY <1>2, <2>1 DEF Insert
  <2> QED
    BY <1>2, <2>2, <2>3
<1> QED
  BY <1>1, <1>2

LEMMA PuttingTyped ==
    ASSUME NEW from \in PmoFrom, NEW inBody \in BOOLEAN, NEW span \in Span \cup {None},
           NEW fails \in BOOLEAN, NEW putting, putting = Putting(from, inBody, span, fails)
    PROVE  /\ putting \in Call /\ putting.step = "putting" /\ putting.from = from
           /\ putting.failed = fails /\ putting.span = IF inBody THEN None ELSE span
BY DEF Putting, Idle, Call, PmoFrom, Trace

\* The hooks before a put: the handle is one of the connection, with the span in it.
LEMMA PuttingStep ==
    ASSUME IInv, NEW t \in Thread, Ready(t), NEW from \in PmoFrom, NEW inBody \in BOOLEAN,
           NEW span \in Span \cup {None}, NEW fails \in BOOLEAN, NEW h \in Handle,
           UNCHANGED <<conn, object, objectOptions, gmo>>,
           call' = [call EXCEPT ![t] = Putting(from, inBody, span, fails)],
           pmo' \in [Thread -> Handle \cup {None}], pmo'[t] = h,
           \A u \in Thread \ {t} : pmo'[u] = pmo[u],
           msgHandle' \in [Handle -> MsgHandle \cup {None}],
           objectHandle' \in [Key -> Handle \cup {None}],
           \A k \in Key : k[1] # conn[t] => objectHandle'[k] = objectHandle[k],
           \A g \in Handle : (msgHandle[g] # None /\ msgHandle[g].conn # conn[t]) =>
              msgHandle'[g] = msgHandle[g],
           \A k \in Key : (k[1] = conn[t] /\ objectHandle'[k] # None) => Alive(t, objectHandle[k])',
           Alive(t, h)', GmoSound(t)',
           (from # "application" /\ ~inBody /\ span # None /\ ~fails) =>
              /\ msgHandle'[h].trace # None
              /\ from = "connection" => msgHandle'[h].trace = span
    PROVE  IInv'
<1>1. conn[t] # None /\ InputsKnown(t)
  BY ReadyKnows
<1>2. PICK putting : putting = Putting(from, inBody, span, fails)
  OBVIOUS
<1>3. /\ putting \in Call /\ putting.step = "putting" /\ putting.from = from
      /\ putting.failed = fails /\ putting.span = IF inBody THEN None ELSE span
  BY <1>2, PuttingTyped
<1>4. /\ call' \in [Thread -> Call] /\ call'[t] = putting
      /\ \A u \in Thread \ {t} : call'[u] = call[u]
  BY <1>2, <1>3 DEF IInv, TypeOK
<1>5. TypeOK'
  <2>1. \A u \in Thread : At(u, "putting")' => pmo'[u] # None
    BY <1>4, OTelAssumption DEF IInv, TypeOK, At
  <2> QED
    BY <1>4, <2>1 DEF IInv, TypeOK
<1>6. ThreadSound(t)'
  <2>1. InputsKnown(t)' /\ PmoSound(t)' /\ GmoSound(t)'
    BY <1>1, ObjectsKept DEF PmoSound
  <2>2. Puts(t)'
    BY <1>3, <1>4 DEF Puts
  <2>3. call'[t].step = "putting"
    BY <1>3, <1>4
  <2> QED
    BY <1>1, <2>1, <2>2, <2>3 DEF ThreadSound, At, Gets, HasGot
<1> QED
  BY <1>1, <1>4, <1>5, <1>6, HandlesStep

LEMMA PutWithHandleStep ==
    ASSUME IInv, NEW t \in Thread, NEW span \in Span \cup {None}, NEW inBody \in BOOLEAN,
           NEW fails \in BOOLEAN, PutWithHandle(t, span, inBody, fails)
    PROVE  IInv'
<1>1. Ready(t) /\ conn[t] # None /\ PmoSound(t) /\ GmoSound(t)
  BY ReadyKnows DEF PutWithHandle
<1>2. PICK h \in Handle : h = pmo[t]
  BY DEF PutWithHandle, IInv, TypeOK
<1>3. Alive(t, h)
  BY <1>1, <1>2, OTelAssumption DEF PmoSound
<1>4. PICK skip \in BOOLEAN : skip = (inBody \/ fails \/ PropsContain(h))
  OBVIOUS
<1>5. PICK from \in PmoFrom \ {"connection"} :
         from = IF pmo[t] \in Ours THEN "failedPut" ELSE "application"
  BY DEF PmoFrom
<1>6. /\ msgHandle' = Insert(msgHandle, h, span, skip)
       /\ call' = [call EXCEPT ![t] = Putting(from, inBody, span, fails)]
       /\ UNCHANGED <<conn, object, objectHandle, objectOptions, pmo, gmo>>
  BY <1>2, <1>4, <1>5 DEF PutWithHandle
<1>7. /\ msgHandle' \in [Handle -> MsgHandle \cup {None}]
      /\ \A g \in Handle : g # h => msgHandle'[g] = msgHandle[g]
      /\ Alive(t, h)'
      /\ (span # None /\ ~skip) => msgHandle'[h].trace = span
  <2>1. msgHandle \in [Handle -> MsgHandle \cup {None}]
    BY DEF IInv, TypeOK
  <2>2. /\ msgHandle' \in [Handle -> MsgHandle \cup {None}]
        /\ \A g \in Handle : g # h => msgHandle'[g] = msgHandle[g]
        /\ msgHandle[h] # None => msgHandle'[h] # None /\ msgHandle'[h].conn = msgHandle[h].conn
        /\ (msgHandle[h] # None /\ span # None /\ ~skip) => msgHandle'[h].trace = span
    BY <1>6, <2>1, InsertEffect
  <2> QED
    BY <1>3, <1>6, <2>2 DEF Alive
<1>8. \A g \in Handle : Alive(t, g) => Alive(t, g)'
  BY <1>6, <1>7 DEF Alive
<1>9. GmoSound(t)'
  BY <1>1, <1>6, <1>8, GmoHandleAlive
     DEF GmoSound, OwnHandleInGmo, NoHandleInGmo, SharedHandleInGmo
<1>10. \A k \in Key : (k[1] = conn[t] /\ objectHandle'[k] # None) => Alive(t, objectHandle[k])'
  BY <1>6, <1>8, OursAlive
<1>11. \A g \in Handle : (msgHandle[g] # None /\ msgHandle[g].conn # conn[t]) =>
          msgHandle'[g] = msgHandle[g]
  BY <1>3, <1>7 DEF Alive
<1>12. pmo' \in [Thread -> Handle \cup {None}] /\ objectHandle' \in [Key -> Handle \cup {None}]
  BY <1>6 DEF IInv, TypeOK
<1>13. (~inBody /\ span # None /\ ~fails) => msgHandle'[h].trace # None
  <2>1. CASE PropsContain(h)
    BY <1>4, <1>6, <2>1 DEF PropsContain, Insert
  <2>2. CASE ~PropsContain(h)
    BY <1>4, <1>7, <2>2
  <2> QED
    BY <2>1, <2>2
<1>14. pmo'[t] = h /\ \A u \in Thread \ {t} : pmo'[u] = pmo[u]
  BY <1>2, <1>6
<1> QED
  BY <1>1, <1>5, <1>6, <1>7, <1>9, <1>10, <1>11, <1>12, <1>13, <1>14, PuttingStep

\* _get_msg_handle finds the handle of the connection, or makes one.
LEMMA GetMsgHandleEffect ==
    ASSUME IInv, NEW t \in Thread, Ready(t), NEW h \in Handle, GetMsgHandle(SharedKey(conn[t]), h),
           NEW handles, handles = Handles(h, conn[t])
    PROVE  /\ objectHandle' \in [Key -> Handle \cup {None}]
           /\ objectHandle'[SharedKey(conn[t])] = h
           /\ \A k \in Key : k # SharedKey(conn[t]) => objectHandle'[k] = objectHandle[k]
           /\ objectHandle[SharedKey(conn[t])] \in {h, None}
           /\ handles \in [Handle -> MsgHandle \cup {None}]
           /\ handles[h] # None /\ handles[h].conn = conn[t]
           /\ \A g \in Handle : g # h => handles[g] = msgHandle[g]
           /\ msgHandle[h] # None => msgHandle[h].conn = conn[t] /\ handles[h] = msgHandle[h]
           /\ h # None /\ ~(OwnHandleInGmo(t) /\ gmo[t].handle = h)
<1>1. PICK shared : shared = SharedKey(conn[t])
  OBVIOUS
<1>2. conn[t] \in Conn /\ conn[t] # None /\ shared \in Key /\ shared[1] = conn[t]
  BY <1>1, ReadyKnows, OwnKeys
<1>3. /\ objectHandle[shared] = h \/ (objectHandle[shared] = None /\ msgHandle[h] = None)
      /\ objectHandle' = [objectHandle EXCEPT ![shared] = h]
  BY <1>1 DEF GetMsgHandle
<1>4. /\ objectHandle' \in [Key -> Handle \cup {None}] /\ objectHandle'[shared] = h
      /\ \A k \in Key : k # shared => objectHandle'[k] = objectHandle[k]
  BY <1>2, <1>3 DEF IInv, TypeOK
<1>5. h # None
  BY OTelAssumption
<1>6. msgHandle[h] # None => Alive(t, h)
  BY <1>2, <1>3, <1>5, OursAlive
<1>7. /\ handles \in [Handle -> MsgHandle \cup {None}]
      /\ handles[h] # None /\ handles[h].conn = conn[t]
      /\ \A g \in Handle : g # h => handles[g] = msgHandle[g]
      /\ msgHandle[h] # None => handles[h] = msgHandle[h]
  <2>1. msgHandle \in [Handle -> MsgHandle \cup {None}]
    BY DEF IInv, TypeOK
  <2>2. CASE msgHandle[h] = None
    <3>1. PICK new : new = [conn |-> conn[t], trace |-> None]
      OBVIOUS
    <3>2. new \in MsgHandle /\ new # None /\ new.conn = conn[t]
      BY <1>2, <3>1, OTelAssumption DEF MsgHandle, Trace
    <3>3. handles = [msgHandle EXCEPT ![h] = new]
      BY <2>2, <3>1 DEF Handles
    <3> QED
      BY <2>1, <2>2, <3>2, <3>3
  <2>3. CASE msgHandle[h] # None
    BY <1>6, <2>1, <2>3 DEF Handles, Alive
  <2> QED
    BY <2>2, <2>3
<1>8. ~(OwnHandleInGmo(t) /\ gmo[t].handle = h)
  BY <1>1, <1>3 DEF OwnHandleInGmo, Alive
<1> QED
  BY <1>1, <1>3, <1>4, <1>5, <1>6, <1>7, <1>8 DEF Alive

\* What thread t has is still there when the handle of its connection has been used.
LEMMA SharedHandleUsed ==
    ASSUME IInv, NEW t \in Thread, Ready(t), NEW h \in Handle, GetMsgHandle(SharedKey(conn[t]), h),
           conn' = conn,
           \A g \in Handle : g # h => msgHandle'[g] = msgHandle[g],
           Alive(t, h)'
    PROVE  /\ \A g \in Handle : Alive(t, g) => Alive(t, g)'
           /\ \A g \in Handle : (msgHandle[g] # None /\ msgHandle[g].conn # conn[t]) =>
                 msgHandle'[g] = msgHandle[g]
           /\ \A k \in Key : (k[1] = conn[t] /\ objectHandle'[k] # None) => Alive(t, objectHandle[k])'
           /\ \A k \in Key : k[1] # conn[t] => objectHandle'[k] = objectHandle[k]
           /\ gmo'[t] = gmo[t] => GmoSound(t)'
<1>1. /\ objectHandle'[SharedKey(conn[t])] = h
      /\ \A k \in Key : k # SharedKey(conn[t]) => objectHandle'[k] = objectHandle[k]
      /\ objectHandle[SharedKey(conn[t])] \in {h, None}
      /\ msgHandle[h] # None => msgHandle[h].conn = conn[t]
      /\ h # None /\ ~(OwnHandleInGmo(t) /\ gmo[t].handle = h)
  BY GetMsgHandleEffect
<1>2. conn[t] # None /\ GmoSound(t) /\ SharedKey(conn[t])[1] = conn[t]
  BY ReadyKnows, OwnKeys
<1>3. \A g \in Handle : Alive(t, g) => Alive(t, g)'
  BY DEF Alive
<1>4. \A k \in Key : (k[1] = conn[t] /\ objectHandle'[k] # None) => Alive(t, objectHandle[k])'
  <2> SUFFICES ASSUME NEW k \in Key, k[1] = conn[t], objectHandle'[k] # None
               PROVE  Alive(t, objectHandle[k])'
    OBVIOUS
  <2>1. PICK g : g = objectHandle'[k]
    OBVIOUS
  <2>2. CASE k = SharedKey(conn[t])
    BY <1>1, <2>2
  <2>3. CASE k # SharedKey(conn[t])
    <3>1. g \in Handle /\ Alive(t, g)
      BY <1>1, <2>1, <2>3, OursAlive
    <3>2. Alive(t, g)'
      BY <1>3, <3>1
    <3> QED
      BY <2>1, <3>2
  <2> QED
    BY <2>2, <2>3
<1>5. gmo'[t] = gmo[t] => GmoSound(t)'
  <2> SUFFICES ASSUME gmo'[t] = gmo[t] PROVE GmoSound(t)'
    OBVIOUS
  <2>1. CASE OwnHandleInGmo(t)
    <3>1. gmo[t].handle \in Handle
      BY <1>2, <2>1, GmoHandleAlive DEF OwnHandleInGmo
    <3> QED
      BY <1>1, <1>3, <2>1, <3>1 DEF OwnHandleInGmo, GmoSound
  <2>2. CASE NoHandleInGmo(t)
    BY <2>2 DEF NoHandleInGmo, GmoSound
  <2>3. CASE SharedHandleInGmo(t)
    BY <1>1, <2>3 DEF SharedHandleInGmo, GmoSound
  <2> QED
    BY <1>2, <2>1, <2>2, <2>3 DEF GmoSound
<1> QED
  BY <1>1, <1>2, <1>3, <1>4, <1>5

LEMMA PutWithoutStep ==
    ASSUME IInv, NEW t \in Thread, NEW span \in Span \cup {None}, NEW inBody \in BOOLEAN,
           NEW fails \in BOOLEAN, NEW h \in Handle, PutWithout(t, span, inBody, fails, h)
    PROVE  IInv'
<1>1. Ready(t) /\ GetMsgHandle(SharedKey(conn[t]), h)
  BY DEF PutWithout
<1>2. PICK handles : handles = Handles(h, conn[t])
  OBVIOUS
<1>3. PICK skip \in BOOLEAN : skip = (inBody \/ fails)
  OBVIOUS
<1>4. "connection" \in PmoFrom
  BY DEF PmoFrom
<1>5. /\ handles \in [Handle -> MsgHandle \cup {None}]
      /\ handles[h] # None /\ handles[h].conn = conn[t]
      /\ \A g \in Handle : g # h => handles[g] = msgHandle[g]
      /\ objectHandle' \in [Key -> Handle \cup {None}]
  BY <1>1, <1>2, GetMsgHandleEffect
<1>6. /\ msgHandle' = Insert(handles, h, span, skip)
      /\ pmo' = [pmo EXCEPT ![t] = h]
      /\ call' = [call EXCEPT ![t] = Putting("connection", inBody, span, fails)]
      /\ UNCHANGED <<conn, object, objectOptions, gmo>>
  BY <1>2, <1>3 DEF PutWithout
<1>7. /\ msgHandle' \in [Handle -> MsgHandle \cup {None}]
      /\ \A g \in Handle : g # h => msgHandle'[g] = handles[g]
      /\ msgHandle'[h] # None /\ msgHandle'[h].conn = handles[h].conn
      /\ (span # None /\ ~skip) => msgHandle'[h].trace = span
  <2>1. /\ msgHandle' \in [Handle -> MsgHandle \cup {None}]
        /\ \A g \in Handle : g # h => msgHandle'[g] = handles[g]
        /\ handles[h] # None => msgHandle'[h] # None /\ msgHandle'[h].conn = handles[h].conn
        /\ (handles[h] # None /\ span # None /\ ~skip) => msgHandle'[h].trace = span
    <3>1. PICK inserted : inserted = Insert(handles, h, span, skip)
      OBVIOUS
    <3>2. /\ inserted \in [Handle -> MsgHandle \cup {None}]
          /\ \A g \in Handle : g # h => inserted[g] = handles[g]
          /\ handles[h] # None => inserted[h] # None /\ inserted[h].conn = handles[h].conn
          /\ (handles[h] # None /\ span # None /\ ~skip) => inserted[h].trace = span
      BY <1>5, <3>1, InsertEffect
    <3>3. msgHandle' = inserted
      BY <1>6, <3>1
    <3> QED
      BY <3>2, <3>3
  <2> QED
    BY <1>5, <2>1
<1>8. Alive(t, h)' /\ \A g \in Handle : g # h => msgHandle'[g] = msgHandle[g]
  BY <1>5, <1>6, <1>7 DEF Alive
<1>9. /\ \A g \in Handle : (msgHandle[g] # None /\ msgHandle[g].conn # conn[t]) =>
            msgHandle'[g] = msgHandle[g]
      /\ \A k \in Key : (k[1] = conn[t] /\ objectHandle'[k] # None) => Alive(t, objectHandle[k])'
      /\ \A k \in Key : k[1] # conn[t] => objectHandle'[k] = objectHandle[k]
      /\ GmoSound(t)'
  BY <1>1, <1>6, <1>8, SharedHandleUsed
<1>10. /\ pmo' \in [Thread -> Handle \cup {None}] /\ pmo'[t] = h
      /\ \A u \in Thread \ {t} : pmo'[u] = pmo[u]
  BY <1>6 DEF IInv, TypeOK
<1>11. (~inBody /\ span # None /\ ~fails) =>
          msgHandle'[h].trace # None /\ msgHandle'[h].trace = span
  BY <1>7, <1>3
<1> QED
  BY <1>1, <1>5, <1>6, <1>7, <1>8, <1>9, <1>10, <1>4, <1>11, PuttingStep

\* A step that ends a call, or a change of PMO and GMO.
LEMMA BetweenCalls ==
    ASSUME IInv, NEW t \in Thread, conn[t] # None, ~At(t, "disconnecting"),
           UNCHANGED <<conn, object, objectHandle, objectOptions>>,
           call' = [call EXCEPT ![t] = Idle],
           pmo' \in [Thread -> Handle \cup {None}], gmo' \in [Thread -> Gmo],
           \A u \in Thread \ {t} : pmo'[u] = pmo[u] /\ gmo'[u] = gmo[u],
           msgHandle' \in [Handle -> MsgHandle \cup {None}],
           \A g \in Handle : (msgHandle[g] # None /\ msgHandle[g].conn # conn[t]) =>
              msgHandle'[g] = msgHandle[g],
           \A k \in Key : (k[1] = conn[t] /\ objectHandle[k] # None) => Alive(t, objectHandle[k])',
           PmoSound(t)', GmoSound(t)'
    PROVE  IInv'
<1>1. /\ call' \in [Thread -> Call] /\ call'[t] = Idle /\ ~At(t, "putting")'
      /\ \A u \in Thread \ {t} : call'[u] = call[u]
  BY IdleTyped
<1>2. TypeOK'
  <2>1. \A u \in Thread : At(u, "putting")' => pmo'[u] # None
    BY <1>1 DEF IInv, TypeOK, At
  <2> QED
    BY <1>1, <2>1 DEF IInv, TypeOK
<1>3. InputsKnown(t)'
  BY ObjectsKept DEF IInv, ThreadsSound, ThreadSound
<1>4. ThreadSound(t)'
  BY <1>1, <1>3, IdleSound
<1> QED
  BY <1>1, <1>2, <1>4, HandlesStep

\* What a thread that is in a call, and not disconnecting, has.
LEMMA InCallKnows ==
    ASSUME IInv, NEW t \in Thread, call[t].step \in {"putting", "getting"}
    PROVE  /\ conn[t] # None /\ ~At(t, "disconnecting")
           /\ InputsKnown(t) /\ PmoSound(t) /\ GmoSound(t)
           /\ \A k \in Key : (k[1] = conn[t] /\ objectHandle[k] # None) => Alive(t, objectHandle[k])
BY OursAlive DEF IInv, ThreadsSound, ThreadSound, At

LEMMA HandlesUnchanged ==
    ASSUME IInv, NEW t \in Thread, GmoSound(t), UNCHANGED <<conn, msgHandle, objectHandle, gmo>>
    PROVE  GmoSound(t)' /\ \A h : Alive(t, h) => Alive(t, h)'
BY DEF GmoSound, OwnHandleInGmo, NoHandleInGmo, SharedHandleInGmo, Alive

LEMMA PutReturnsStep == ASSUME IInv, NEW t \in Thread, PutReturns(t) PROVE IInv'
<1>1. call[t].step = "putting" /\ call' = [call EXCEPT ![t] = Idle]
      /\ UNCHANGED <<conn, object, msgHandle, objectHandle, objectOptions, gmo>>
  BY DEF PutReturns, At
<1>2. /\ conn[t] # None /\ ~At(t, "disconnecting") /\ PmoSound(t) /\ GmoSound(t)
      /\ \A k \in Key : (k[1] = conn[t] /\ objectHandle[k] # None) => Alive(t, objectHandle[k])
  BY <1>1, InCallKnows
<1>3. /\ pmo' \in [Thread -> Handle \cup {None}] /\ pmo'[t] \in {pmo[t], None}
      /\ \A u \in Thread \ {t} : pmo'[u] = pmo[u]
  BY DEF PutReturns, IInv, TypeOK
<1>4. GmoSound(t)' /\ \A h : Alive(t, h) => Alive(t, h)'
  BY <1>1, <1>2, HandlesUnchanged
<1>5. PmoSound(t)'
  BY <1>2, <1>3, <1>1 DEF PmoSound, Alive
<1>6. \A k \in Key : (k[1] = conn[t] /\ objectHandle[k] # None) => Alive(t, objectHandle[k])'
  BY <1>1, <1>2 DEF Alive
<1>7. gmo' \in [Thread -> Gmo] /\ msgHandle' \in [Handle -> MsgHandle \cup {None}]
  BY <1>1 DEF IInv, TypeOK
<1> QED
  BY <1>1, <1>2, <1>3, <1>4, <1>5, <1>6, <1>7, BetweenCalls

LEMMA PutFailsStep == ASSUME IInv, NEW t \in Thread, PutFails(t) PROVE IInv'
<1>1. call[t].step = "putting" /\ call' = [call EXCEPT ![t] = Idle]
      /\ UNCHANGED <<conn, object, msgHandle, objectHandle, objectOptions, pmo, gmo>>
  BY DEF PutFails, At
<1>2. /\ conn[t] # None /\ ~At(t, "disconnecting") /\ PmoSound(t) /\ GmoSound(t)
      /\ \A k \in Key : (k[1] = conn[t] /\ objectHandle[k] # None) => Alive(t, objectHandle[k])
  BY <1>1, InCallKnows
<1>3. GmoSound(t)' /\ PmoSound(t)'
  BY <1>1, <1>2, HandlesUnchanged DEF PmoSound
<1>4. \A k \in Key : (k[1] = conn[t] /\ objectHandle[k] # None) => Alive(t, objectHandle[k])'
  BY <1>1, <1>2 DEF Alive
<1>5. /\ pmo' \in [Thread -> Handle \cup {None}] /\ gmo' \in [Thread -> Gmo]
      /\ msgHandle' \in [Handle -> MsgHandle \cup {None}]
  BY <1>1 DEF IInv, TypeOK
<1> QED
  BY <1>1, <1>2, <1>3, <1>4, <1>5, BetweenCalls

\* The application lets go of a handle of its own, and may make another.
LEMMA ReplacedEffect ==
    ASSUME IInv, NEW t \in Thread, conn[t] # None, NEW old \in Handle \cup {None},
           old # None => Alive(t, old), NEW h \in Handle \cup {None}, h # None => msgHandle[h] = None,
           conn' = conn, objectHandle' = objectHandle, msgHandle' = Replaced(t, old, h)
    PROVE  /\ msgHandle' \in [Handle -> MsgHandle \cup {None}]
           /\ \A g \in Handle : (msgHandle[g] # None /\ msgHandle[g].conn # conn[t]) =>
                 msgHandle'[g] = msgHandle[g]
           /\ h # None => Alive(t, h)'
           /\ \A g \in Handle : (Alive(t, g) /\ (g # old \/ g \in Ours)) => Alive(t, g)'
           /\ \A k \in Key : (k[1] = conn[t] /\ objectHandle[k] # None) => Alive(t, objectHandle[k])'
<1>1. PICK new : new = [conn |-> conn[t], trace |-> None]
  OBVIOUS
<1>2. new \in MsgHandle /\ new # None /\ new.conn = conn[t]
  BY <1>1, OwnKeys, OTelAssumption DEF MsgHandle, Trace
<1>3. /\ DOMAIN msgHandle' = Handle
      /\ \A g \in Handle : msgHandle'[g] = IF g = h THEN new
                                           ELSE IF g = old /\ g \notin Ours THEN None
                                           ELSE msgHandle[g]
  BY <1>1 DEF Replaced
<1>4. msgHandle' \in [Handle -> MsgHandle \cup {None}]
  <2>1. msgHandle' = [g \in Handle |-> msgHandle'[g]]
    BY DEF Replaced
  <2>2. \A g \in Handle : msgHandle'[g] \in MsgHandle \cup {None}
    BY <1>2, <1>3 DEF IInv, TypeOK
  <2> QED
    BY <2>1, <2>2
<1>5. \A g \in Handle : (Alive(t, g) /\ (g # old \/ g \in Ours)) => Alive(t, g)'
  BY <1>3, OTelAssumption DEF Alive
<1>6. ASSUME NEW k \in Key, k[1] = conn[t], objectHandle[k] # None PROVE Alive(t, objectHandle[k])'
  <2>1. objectHandle[k] \in Handle /\ Alive(t, objectHandle[k])
    BY <1>6, OursAlive
  <2>2. objectHandle[k] \in Ours
    BY <1>6 DEF Ours
  <2>3. PICK g \in Handle : g = objectHandle[k]
    BY <2>1
  <2>4. Alive(t, g)'
    BY <1>5, <2>1, <2>2, <2>3
  <2> QED
    BY <2>3, <2>4
<1>7. \A g \in Handle : (msgHandle[g] # None /\ msgHandle[g].conn # conn[t]) => msgHandle'[g] = msgHandle[g]
  BY <1>3, OTelAssumption DEF Alive
<1>8. h # None => Alive(t, h)'
  BY <1>2, <1>3 DEF Alive
<1> QED
  BY <1>4, <1>5, <1>6, <1>7, <1>8

LEMMA GivePmoStep ==
    ASSUME IInv, NEW t \in Thread, NEW h \in Handle \cup {None}, GivePmo(t, h) PROVE IInv'
<1>1. /\ Ready(t) /\ conn[t] # None /\ ~At(t, "disconnecting") /\ PmoSound(t) /\ GmoSound(t)
      /\ pmo[t] \in Handle \cup {None}
  BY ReadyKnows DEF GivePmo, Ready, At
<1>2. PICK old : old = IF pmo[t] = gmo[t].handle THEN None ELSE pmo[t]
  OBVIOUS
<1>3. /\ h \in {None, gmo[t].handle} \ Ours /\ msgHandle' = Replaced(t, old, None)
      /\ pmo' = [pmo EXCEPT ![t] = h] /\ call' = [call EXCEPT ![t] = Idle]
      /\ UNCHANGED <<conn, object, objectHandle, objectOptions, gmo>>
  BY <1>2 DEF GivePmo
<1>4. old \in Handle \cup {None} /\ (old # None => Alive(t, old) /\ old # gmo[t].handle)
  BY <1>1, <1>2 DEF PmoSound
<1>5. /\ msgHandle' \in [Handle -> MsgHandle \cup {None}]
      /\ \A g \in Handle : (msgHandle[g] # None /\ msgHandle[g].conn # conn[t]) =>
            msgHandle'[g] = msgHandle[g]
      /\ \A g \in Handle : (Alive(t, g) /\ (g # old \/ g \in Ours)) => Alive(t, g)'
      /\ \A k \in Key : (k[1] = conn[t] /\ objectHandle[k] # None) => Alive(t, objectHandle[k])'
  BY <1>1, <1>3, <1>4, ReplacedEffect
<1>6. gmo[t].handle # None => Alive(t, gmo[t].handle)'
  <2> SUFFICES ASSUME gmo[t].handle # None PROVE Alive(t, gmo[t].handle)'
    OBVIOUS
  <2>1. PICK g \in Handle : g = gmo[t].handle /\ Alive(t, g)
    BY <1>1, GmoHandleAlive
  <2>2. Alive(t, g)'
    BY <1>4, <1>5, <2>1
  <2> QED
    BY <1>3, <2>1, <2>2
<1>7. GmoSound(t)'
  BY <1>1, <1>3, <1>6 DEF GmoSound, OwnHandleInGmo, NoHandleInGmo, SharedHandleInGmo
<1>8. /\ pmo' \in [Thread -> Handle \cup {None}] /\ pmo'[t] = h
      /\ \A u \in Thread \ {t} : pmo'[u] = pmo[u]
  BY <1>3 DEF IInv, TypeOK
<1>9. PmoSound(t)'
  BY <1>3, <1>6, <1>8 DEF PmoSound
<1>10. gmo' \in [Thread -> Gmo]
  BY <1>3 DEF IInv, TypeOK
<1> QED
  BY <1>1, <1>3, <1>5, <1>7, <1>8, <1>9, <1>10, BetweenCalls

LEMMA GiveGmoStep ==
    ASSUME IInv, NEW t \in Thread, NEW asked \in Asked, NEW h \in Handle \cup {None}, GiveGmo(t, asked, h)
    PROVE  IInv'
<1>1. /\ Ready(t) /\ conn[t] # None /\ ~At(t, "disconnecting") /\ PmoSound(t) /\ GmoSound(t)
      /\ pmo[t] \in Handle \cup {None}
  BY ReadyKnows DEF GiveGmo, Ready, At
<1>2. PICK old : old = IF pmo[t] = gmo[t].handle THEN None ELSE gmo[t].handle
  OBVIOUS
<1>3. /\ asked = "handle" => h # None /\ msgHandle[h] = None
      /\ asked # "handle" => h = None
      /\ msgHandle' = Replaced(t, old, h)
      /\ gmo' = [gmo EXCEPT ![t] = NewGmo(asked, h)] /\ call' = [call EXCEPT ![t] = Idle]
      /\ UNCHANGED <<conn, object, objectHandle, objectOptions, pmo>>
  BY <1>2 DEF GiveGmo
<1>4. old \in Handle \cup {None} /\ (old # None => Alive(t, old) /\ old # pmo[t])
  BY <1>1, <1>2, GmoHandleAlive
<1>5. /\ msgHandle' \in [Handle -> MsgHandle \cup {None}]
      /\ \A g \in Handle : (msgHandle[g] # None /\ msgHandle[g].conn # conn[t]) =>
            msgHandle'[g] = msgHandle[g]
      /\ h # None => Alive(t, h)'
      /\ \A g \in Handle : (Alive(t, g) /\ (g # old \/ g \in Ours)) => Alive(t, g)'
      /\ \A k \in Key : (k[1] = conn[t] /\ objectHandle[k] # None) => Alive(t, objectHandle[k])'
  BY <1>1, <1>3, <1>4, ReplacedEffect
<1>6. PICK new : new = NewGmo(asked, h)
  OBVIOUS
<1>7. new \in Gmo /\ new.props = asked /\ new.handle = h /\ new.asked = asked
  BY <1>6, OTelAssumption DEF NewGmo, Gmo
<1>8. /\ gmo' \in [Thread -> Gmo] /\ gmo'[t] = new
      /\ \A u \in Thread \ {t} : gmo'[u] = gmo[u]
  BY <1>3, <1>6, <1>7 DEF IInv, TypeOK
<1>9. GmoSound(t)'
  <2>1. CASE asked = "handle"
    <3>1. objectHandle[SharedKey(conn[t])] # h
      BY <1>1, <1>3, <2>1, OwnKeys, OursAlive DEF Alive
    <3>2. OwnHandleInGmo(t)'
      BY <1>3, <1>5, <1>7, <1>8, <2>1, <3>1 DEF OwnHandleInGmo
    <3> QED
      BY <3>2 DEF GmoSound
  <2>2. CASE asked # "handle"
    BY <1>3, <1>7, <1>8, <2>2 DEF GmoSound, NoHandleInGmo
  <2> QED
    BY <2>1, <2>2
<1>10. PmoSound(t)'
  <2> SUFFICES ASSUME pmo[t] # None PROVE Alive(t, pmo[t])'
    BY <1>3 DEF PmoSound
  <2>1. PICK g \in Handle : g = pmo[t] /\ Alive(t, g)
    BY <1>1 DEF PmoSound
  <2>2. Alive(t, g)'
    BY <1>4, <1>5, <2>1
  <2> QED
    BY <1>3, <2>1, <2>2
<1>11. pmo' \in [Thread -> Handle \cup {None}]
  BY <1>3 DEF IInv, TypeOK
<1> QED
  BY <1>1, <1>3, <1>5, <1>8, <1>9, <1>10, <1>11, BetweenCalls

-----------------------------------------------------------------------------
(* Gets                                                                        *)

\* The hooks before a get: the GMO has a handle, or needs none.
LEMMA GettingStep ==
    ASSUME IInv, NEW t \in Thread, Ready(t), NEW o \in GetObjects(t),
           UNCHANGED <<conn, object, objectOptions, pmo>>,
           call' = [call EXCEPT ![t] = Getting(o)],
           gmo' \in [Thread -> Gmo], \A u \in Thread \ {t} : gmo'[u] = gmo[u],
           msgHandle' \in [Handle -> MsgHandle \cup {None}],
           objectHandle' \in [Key -> Handle \cup {None}],
           \A k \in Key : k[1] # conn[t] => objectHandle'[k] = objectHandle[k],
           \A g \in Handle : (msgHandle[g] # None /\ msgHandle[g].conn # conn[t]) =>
              msgHandle'[g] = msgHandle[g],
           \A g \in Handle : Alive(t, g) => Alive(t, g)',
           \A k \in Key : (k[1] = conn[t] /\ objectHandle'[k] # None) => Alive(t, objectHandle[k])',
           GmoSound(t)',
           gmo'[t].handle = None => gmo'[t] = gmo[t] /\ ~NoProperties(MakeKey(conn[t], o), gmo[t])
    PROVE  IInv'
<1>1. /\ conn[t] # None /\ InputsKnown(t) /\ PmoSound(t) /\ pmo[t] \in Handle \cup {None}
      /\ o \in Obj /\ object[MakeKey(conn[t], o)] # None
  BY ReadyKnows DEF GetObjects
<1>2. PICK getting : getting = Getting(o)
  OBVIOUS
<1>3. getting \in Call /\ getting.step = "getting" /\ getting.obj = o
  BY <1>1, <1>2 DEF Getting, Idle, Call, PmoFrom, Trace
<1>4. /\ call' \in [Thread -> Call] /\ call'[t] = getting
      /\ \A u \in Thread \ {t} : call'[u] = call[u]
  BY <1>2, <1>3 DEF IInv, TypeOK
<1>5. TypeOK'
  <2>1. \A u \in Thread : At(u, "putting")' => pmo'[u] # None
    BY <1>3, <1>4 DEF IInv, TypeOK, At
  <2> QED
    BY <1>4, <2>1 DEF IInv, TypeOK
<1>6. ThreadSound(t)'
  <2>1. PmoSound(t)'
    BY <1>1 DEF PmoSound
  <2>2. InputsKnown(t)'
    BY <1>1, ObjectsKept
  <2>3. Gets(t)'
    BY <1>1, <1>3, <1>4 DEF Gets, NoProperties
  <2>4. call'[t].step = "getting"
    BY <1>3, <1>4
  <2> QED
    BY <1>1, <2>1, <2>2, <2>3, <2>4 DEF ThreadSound, At, Puts, HasGot
<1> QED
  BY <1>1, <1>4, <1>5, <1>6, HandlesStep

\* A get that leaves the handles as they are.
LEMMA GetAsItIsStep ==
    ASSUME IInv, NEW t \in Thread, Ready(t), NEW o \in GetObjects(t),
           UNCHANGED <<conn, object, msgHandle, objectHandle, objectOptions, pmo, gmo>>,
           call' = [call EXCEPT ![t] = Getting(o)],
           gmo[t].handle = None => ~NoProperties(MakeKey(conn[t], o), gmo[t])
    PROVE  IInv'
<1>1. GmoSound(t)' /\ \A h : Alive(t, h) => Alive(t, h)'
  BY ReadyKnows, HandlesUnchanged
<1>2. \A k \in Key : (k[1] = conn[t] /\ objectHandle'[k] # None) => Alive(t, objectHandle[k])'
  BY OursAlive DEF Alive
<1>3. /\ gmo' \in [Thread -> Gmo] /\ msgHandle' \in [Handle -> MsgHandle \cup {None}]
      /\ objectHandle' \in [Key -> Handle \cup {None}]
  BY DEF IInv, TypeOK
<1> QED
  BY <1>1, <1>2, <1>3, GettingStep

LEMMA GetWithHandleStep ==
    ASSUME IInv, NEW t \in Thread, NEW o \in Obj, GetWithHandle(t, o) PROVE IInv'
BY GetAsItIsStep DEF GetWithHandle

LEMMA GetWithoutStep ==
    ASSUME IInv, NEW t \in Thread, NEW o \in Obj, GetWithout(t, o) PROVE IInv'
BY GetAsItIsStep DEF GetWithout

LEMMA GetIntoOursStep ==
    ASSUME IInv, NEW t \in Thread, NEW o \in Obj, NEW h \in Handle, GetIntoOurs(t, o, h) PROVE IInv'
<1>1. /\ Ready(t) /\ o \in GetObjects(t) /\ GetMsgHandle(SharedKey(conn[t]), h)
      /\ gmo[t].handle = None /\ NoProperties(MakeKey(conn[t], o), gmo[t])
      /\ msgHandle' = Handles(h, conn[t])
      /\ gmo' = [gmo EXCEPT ![t].props = "handle", ![t].handle = h]
      /\ call' = [call EXCEPT ![t] = Getting(o)]
      /\ UNCHANGED <<conn, object, objectOptions, pmo>>
  BY DEF GetIntoOurs
<1>2. PICK handles : handles = Handles(h, conn[t])
  OBVIOUS
<1>3. /\ objectHandle' \in [Key -> Handle \cup {None}] /\ objectHandle'[SharedKey(conn[t])] = h
      /\ handles \in [Handle -> MsgHandle \cup {None}]
      /\ handles[h] # None /\ handles[h].conn = conn[t]
      /\ \A g \in Handle : g # h => handles[g] = msgHandle[g]
      /\ h # None
  BY <1>1, <1>2, GetMsgHandleEffect
<1>4. msgHandle' = handles
  BY <1>1, <1>2
<1>5. Alive(t, h)' /\ \A g \in Handle : g # h => msgHandle'[g] = msgHandle[g]
  BY <1>1, <1>3, <1>4 DEF Alive
<1>6. /\ \A g \in Handle : Alive(t, g) => Alive(t, g)'
      /\ \A g \in Handle : (msgHandle[g] # None /\ msgHandle[g].conn # conn[t]) =>
            msgHandle'[g] = msgHandle[g]
      /\ \A k \in Key : (k[1] = conn[t] /\ objectHandle'[k] # None) => Alive(t, objectHandle[k])'
      /\ \A k \in Key : k[1] # conn[t] => objectHandle'[k] = objectHandle[k]
  BY <1>1, <1>5, SharedHandleUsed
<1>7. /\ gmo' \in [Thread -> Gmo] /\ \A u \in Thread \ {t} : gmo'[u] = gmo[u]
      /\ gmo'[t].props = "handle" /\ gmo'[t].handle = h /\ gmo'[t].asked = gmo[t].asked
  <2> DEFINE new == [gmo[t] EXCEPT !.props = "handle", !.handle = h]
  <2>1. gmo \in [Thread -> Gmo] /\ gmo' = [gmo EXCEPT ![t] = new]
    BY <1>1 DEF IInv, TypeOK
  <2>2. new \in Gmo /\ new.props = "handle" /\ new.handle = h /\ new.asked = gmo[t].asked
    BY <2>1 DEF Gmo, Properties
  <2> HIDE DEF new
  <2> QED
    BY <2>1, <2>2
<1>8. GmoSound(t)'
  <2>1. gmo[t].asked \in {"none", "queue"}
    <3>1. gmo[t].props \in {"none", "queue"}
      BY <1>1 DEF NoProperties
    <3>2. GmoSound(t)
      BY <1>1, ReadyKnows
    <3> QED
      BY <1>1, <3>1, <3>2 DEF GmoSound, OwnHandleInGmo, NoHandleInGmo, SharedHandleInGmo
  <2> QED
    BY <1>1, <1>3, <1>7, <2>1 DEF GmoSound, SharedHandleInGmo
<1> QED
  BY <1>1, <1>3, <1>4, <1>6, <1>7, <1>8, GettingStep

\* An MQGET puts properties into nothing but the handle of the GMO.
LEMMA FilledEffect ==
    ASSUME IInv, NEW t \in Thread, call[t].step = "getting", NEW trace \in Remote \cup {None},
           conn' = conn, objectHandle' = objectHandle,
           msgHandle' = msgHandle \/ msgHandle' = Filled(gmo[t].handle, trace)
    PROVE  /\ msgHandle' \in [Handle -> MsgHandle \cup {None}]
           /\ \A g \in Handle : g # gmo[t].handle => msgHandle'[g] = msgHandle[g]
           /\ \A g \in Handle : (msgHandle[g] # None /\ msgHandle[g].conn # conn[t]) =>
                 msgHandle'[g] = msgHandle[g]
           /\ \A g \in Handle : Alive(t, g) => Alive(t, g)'
           /\ \A k \in Key : (k[1] = conn[t] /\ objectHandle[k] # None) => Alive(t, objectHandle[k])'
<1>1. conn[t] # None /\ GmoSound(t)
  BY InCallKnows
<1>2. msgHandle \in [Handle -> MsgHandle \cup {None}]
  BY DEF IInv, TypeOK
<1>3. CASE msgHandle' = msgHandle
  BY <1>2, <1>3, OursAlive DEF Alive
<1>4. CASE gmo[t].handle = None /\ msgHandle' = Filled(gmo[t].handle, trace)
  <2>1. msgHandle' = msgHandle
    BY <1>4 DEF Filled
  <2> QED
    BY <1>3, <2>1
<1>5. CASE gmo[t].handle # None /\ msgHandle' = Filled(gmo[t].handle, trace)
  <2>1. PICK h \in Handle : h = gmo[t].handle /\ Alive(t, h)
    BY <1>1, <1>5, GmoHandleAlive
  <2>2. PICK new : new = [msgHandle[h] EXCEPT !.trace = trace]
    OBVIOUS
  <2>3. new \in MsgHandle /\ new # None /\ new.conn = conn[t]
    BY <1>2, <2>1, <2>2, OTelAssumption DEF Alive, MsgHandle, Trace
  <2>4. msgHandle' = [msgHandle EXCEPT ![h] = new]
    BY <1>5, <2>1, <2>2 DEF Filled
  <2>5. /\ msgHandle' \in [Handle -> MsgHandle \cup {None}]
        /\ msgHandle'[h] = new /\ \A g \in Handle : g # h => msgHandle'[g] = msgHandle[g]
    BY <1>2, <2>3, <2>4
  <2>6. \A g \in Handle : Alive(t, g) => Alive(t, g)'
    BY <2>3, <2>5 DEF Alive
  <2>7. ASSUME NEW k \in Key, k[1] = conn[t], objectHandle[k] # None PROVE Alive(t, objectHandle[k])'
    <3>1. PICK g \in Handle : g = objectHandle[k] /\ Alive(t, g)
      BY <2>7, OursAlive
    <3> QED
      BY <2>6, <3>1
  <2> QED
    BY <2>1, <2>5, <2>6, <2>7 DEF Alive
<1> QED
  BY <1>3, <1>4, <1>5

LEMMA GetFailsStep ==
    ASSUME IInv, NEW t \in Thread, NEW trace \in Remote \cup {None}, GetFails(t, trace) PROVE IInv'
<1>1. /\ call[t].step = "getting" /\ call' = [call EXCEPT ![t] = Idle]
      /\ msgHandle' = msgHandle \/ msgHandle' = Filled(gmo[t].handle, trace)
      /\ UNCHANGED <<conn, object, objectHandle, objectOptions, pmo, gmo>>
  BY DEF GetFails, At
<1>2. conn[t] # None /\ ~At(t, "disconnecting") /\ PmoSound(t) /\ GmoSound(t)
  BY <1>1, InCallKnows
<1>3. /\ msgHandle' \in [Handle -> MsgHandle \cup {None}]
      /\ \A g \in Handle : (msgHandle[g] # None /\ msgHandle[g].conn # conn[t]) =>
            msgHandle'[g] = msgHandle[g]
      /\ \A g \in Handle : Alive(t, g) => Alive(t, g)'
      /\ \A k \in Key : (k[1] = conn[t] /\ objectHandle[k] # None) => Alive(t, objectHandle[k])'
  BY <1>1, FilledEffect
<1>4. /\ pmo' \in [Thread -> Handle \cup {None}] /\ gmo' \in [Thread -> Gmo]
      /\ pmo[t] \in Handle \cup {None}
  BY <1>1 DEF IInv, TypeOK
<1>5. PmoSound(t)'
  BY <1>1, <1>2, <1>3, <1>4 DEF PmoSound
<1>6. GmoSound(t)'
  BY <1>1, <1>2, <1>3, GmoHandleAlive
     DEF GmoSound, OwnHandleInGmo, NoHandleInGmo, SharedHandleInGmo
<1> QED
  BY <1>1, <1>2, <1>3, <1>4, <1>5, <1>6, BetweenCalls

LEMMA RestoredEffect ==
    ASSUME IInv, NEW t \in Thread, GmoSound(t), NEW restored, restored = RestoredGmo(t)
    PROVE  /\ restored \in Gmo /\ restored.asked = gmo[t].asked
           /\ (OwnHandleInGmo(t) \/ NoHandleInGmo(t)) => restored = gmo[t]
           /\ SharedHandleInGmo(t) => restored.props = "queue" /\ restored.handle = None
<1>1. gmo[t] \in Gmo
  BY DEF IInv, TypeOK
<1>2. CASE gmo[t].handle # None /\ objectHandle[SharedKey(conn[t])] = gmo[t].handle
  <2>1. restored = [gmo[t] EXCEPT !.props = "queue", !.handle = None]
    BY <1>2 DEF RestoredGmo
  <2>2. /\ restored \in Gmo /\ restored.asked = gmo[t].asked
        /\ restored.props = "queue" /\ restored.handle = None
    BY <1>1, <2>1 DEF Gmo, Properties
  <2> QED
    BY <1>2, <2>2 DEF OwnHandleInGmo, NoHandleInGmo
<1>3. CASE ~(gmo[t].handle # None /\ objectHandle[SharedKey(conn[t])] = gmo[t].handle)
  <2>1. restored = gmo[t]
    BY <1>3 DEF RestoredGmo
  <2> QED
    BY <1>1, <1>3, <2>1 DEF SharedHandleInGmo
<1> QED
  BY <1>2, <1>3

\* Where the properties of a message can be, if they are in no handle.
LEMMA LinkFound ==
    ASSUME IInv, NEW t \in Thread, call[t].step = "getting", gmo[t].handle = None,
           NEW k, k = MakeKey(conn[t], call[t].obj), object[k].kind = "input",
           objectOptions[k] # None => objectOptions[k].propCtl # "unknown"
    PROVE  InRfh2(t)
<1>1. /\ conn[t] # None /\ InputsKnown(t) /\ GmoSound(t)
      /\ call[t].obj \in Obj /\ object[k] # None /\ ~NoProperties(k, gmo[t])
  BY InCallKnows DEF IInv, ThreadsSound, ThreadSound, At, Gets
<1>2. k \in Key /\ k \in Conn \X Obj
  BY <1>1, OwnKeys
<1>3. objectOptions[k] # None /\ object[k].propCtl \in {"none", "all"}
  BY <1>1, <1>2 DEF InputsKnown, IInv, TypeOK, Object, PropCtl
<1>4. objectOptions[k].propCtl = object[k].propCtl
  BY <1>2, <1>3 DEF IInv, KeysSound, KeySound, OptionsKnown
<1>5. NoHandleInGmo(t)
  BY <1>1 DEF GmoSound, OwnHandleInGmo, SharedHandleInGmo
<1>6. gmo[t].props \in {"queue", "rfh2"}
  BY <1>1, <1>5 DEF NoProperties, NoHandleInGmo, IInv, TypeOK, Gmo, Properties
<1> QED
  BY <1>1, <1>3, <1>4, <1>6 DEF NoProperties, InRfh2

LEMMA GetReturnsStep ==
    ASSUME IInv, NEW t \in Thread, NEW trace \in Remote \cup {None}, GetReturns(t, trace) PROVE IInv'
<1>1. PICK link : link = IF gmo[t].handle # None \/ InRfh2(t) THEN trace ELSE None
  OBVIOUS
<1>2. /\ call[t].step = "getting"
      /\ msgHandle' = Filled(gmo[t].handle, trace)
      /\ gmo' = [gmo EXCEPT ![t] = RestoredGmo(t)]
      /\ call' = [call EXCEPT ![t].step = "got", ![t].trace = trace, ![t].link = link]
      /\ UNCHANGED <<conn, object, objectHandle, objectOptions, pmo>>
  BY <1>1 DEF GetReturns, At
<1>3. /\ conn[t] # None /\ ~At(t, "disconnecting") /\ InputsKnown(t) /\ PmoSound(t) /\ GmoSound(t)
      /\ call[t].obj \in Obj /\ object[MakeKey(conn[t], call[t].obj)] # None
  BY <1>2, InCallKnows DEF IInv, ThreadsSound, ThreadSound, At, Gets
<1>4. /\ call' \in [Thread -> Call] /\ call'[t].step = "got" /\ call'[t].trace = trace
      /\ call'[t].link = link /\ call'[t].obj = call[t].obj
      /\ \A u \in Thread \ {t} : call'[u] = call[u]
  <2> DEFINE new == [call[t] EXCEPT !.step = "got", !.trace = trace, !.link = link]
  <2>1. call \in [Thread -> Call] /\ call' = [call EXCEPT ![t] = new]
    BY <1>2 DEF IInv, TypeOK
  <2>2. trace \in Trace /\ link \in Trace
    BY <1>1 DEF Trace
  <2>3. /\ new \in Call /\ new.step = "got" /\ new.trace = trace
        /\ new.link = link /\ new.obj = call[t].obj
    BY <2>1, <2>2 DEF Call
  <2> HIDE DEF new
  <2> QED
    BY <2>1, <2>3
<1>5. PICK restored : restored = RestoredGmo(t)
  OBVIOUS
<1>6. /\ restored \in Gmo /\ restored.asked = gmo[t].asked
      /\ (OwnHandleInGmo(t) \/ NoHandleInGmo(t)) => restored = gmo[t]
      /\ SharedHandleInGmo(t) => restored.props = "queue" /\ restored.handle = None
  BY <1>3, <1>5, RestoredEffect
<1>7. /\ gmo' \in [Thread -> Gmo] /\ gmo'[t] = restored
      /\ \A u \in Thread \ {t} : gmo'[u] = gmo[u]
  BY <1>2, <1>5, <1>6 DEF IInv, TypeOK
<1>8. /\ msgHandle' \in [Handle -> MsgHandle \cup {None}]
      /\ \A g \in Handle : (msgHandle[g] # None /\ msgHandle[g].conn # conn[t]) =>
            msgHandle'[g] = msgHandle[g]
      /\ \A g \in Handle : Alive(t, g) => Alive(t, g)'
      /\ \A k \in Key : (k[1] = conn[t] /\ objectHandle[k] # None) => Alive(t, objectHandle[k])'
  BY <1>2, FilledEffect
<1>9. TypeOK'
  <2>1. \A u \in Thread : At(u, "putting")' => pmo'[u] # None
    BY <1>2, <1>4 DEF IInv, TypeOK, At
  <2> QED
    BY <1>2, <1>4, <1>7, <1>8, <2>1 DEF IInv, TypeOK
<1>10. PmoSound(t)'
  <2>1. pmo[t] \in Handle \cup {None}
    BY DEF IInv, TypeOK
  <2> QED
    BY <1>2, <1>3, <1>8, <2>1 DEF PmoSound
<1>11. /\ GmoSound(t)'
       /\ IF restored.asked = "handle" THEN restored.handle # None ELSE restored.handle = None
       /\ restored.asked # "none" => restored.props = restored.asked
  <2>1. CASE OwnHandleInGmo(t)
    <3>1. gmo[t].handle \in Handle
      BY <1>3, <2>1, GmoHandleAlive DEF OwnHandleInGmo
    <3> QED
      BY <1>2, <1>6, <1>7, <1>8, <2>1, <3>1 DEF GmoSound, OwnHandleInGmo
  <2>2. CASE NoHandleInGmo(t)
    BY <1>6, <1>7, <2>2 DEF GmoSound, NoHandleInGmo
  <2>3. CASE SharedHandleInGmo(t)
    BY <1>6, <1>7, <2>3 DEF GmoSound, NoHandleInGmo, SharedHandleInGmo
  <2> QED
    BY <1>3, <2>1, <2>2, <2>3 DEF GmoSound
<1>12. HasGot(t)'
  <2>1. PICK k : k = MakeKey(conn[t], call[t].obj)
    OBVIOUS
  <2>2. (/\ object[k].kind = "input"
         /\ objectOptions[k] # None => objectOptions[k].propCtl # "unknown")
        => link = trace
    BY <1>1, <1>2, <2>1, LinkFound
  <2> QED
    BY <1>2, <1>3, <1>4, <1>7, <1>11, <2>1, <2>2 DEF HasGot
<1>13. ThreadSound(t)'
  <2>1. InputsKnown(t)'
    BY <1>2, <1>3, ObjectsKept
  <2> QED
    BY <1>2, <1>3, <1>4, <1>10, <1>11, <1>12, <2>1 DEF ThreadSound, At, Puts, Gets
<1> QED
  BY <1>2, <1>3, <1>4, <1>7, <1>8, <1>9, <1>13, HandlesStep

-----------------------------------------------------------------------------
(* Connections                                                                 *)

LEMMA OtelDiscStep == ASSUME IInv, NEW t \in Thread, OtelDisc(t) PROVE IInv'
<1>1. Ready(t) /\ conn[t] # None
  BY ReadyKnows DEF OtelDisc
<1>2. PICK leaving : leaving = [Idle EXCEPT !.step = "disconnecting"]
  OBVIOUS
<1>3. leaving \in Call /\ leaving.step = "disconnecting"
  BY <1>2 DEF Idle, Call, PmoFrom, Trace
<1>4. call' = [call EXCEPT ![t] = leaving] /\ UNCHANGED <<conn, object, pmo, gmo>>
  BY <1>2 DEF OtelDisc
<1>5. /\ call' \in [Thread -> Call] /\ call'[t] = leaving
      /\ \A u \in Thread \ {t} : call'[u] = call[u]
  BY <1>3, <1>4 DEF IInv, TypeOK
<1>6. /\ objectHandle' \in [Key -> Handle \cup {None}]
      /\ objectOptions' \in [Key -> PropOptions \cup {None}]
      /\ \A k \in Key : k[1] = conn[t] => objectHandle'[k] = None /\ objectOptions'[k] = None
      /\ \A k \in Key : k[1] # conn[t] =>
            objectHandle'[k] = objectHandle[k] /\ objectOptions'[k] = objectOptions[k]
  BY DEF OtelDisc, OfConnection, IInv, TypeOK
<1>7. /\ msgHandle' \in [Handle -> MsgHandle \cup {None}]
      /\ \A h \in Handle : (msgHandle[h] # None /\ msgHandle[h].conn # conn[t]) =>
            msgHandle'[h] = msgHandle[h]
  <2>1. msgHandle' = [h \in Handle |->
           IF \E k \in Key : k[1] = conn[t] /\ objectHandle[k] = h THEN None ELSE msgHandle[h]]
    BY DEF OtelDisc, OfConnection
  <2>2. msgHandle' \in [Handle -> MsgHandle \cup {None}]
    BY <2>1 DEF IInv, TypeOK
  <2>3. ASSUME NEW h \in Handle, msgHandle[h] # None, msgHandle[h].conn # conn[t],
               NEW k \in Key, k[1] = conn[t]
        PROVE  objectHandle[k] # h
    BY <2>3, OursAlive, OTelAssumption DEF Alive
  <2> QED
    BY <2>1, <2>2, <2>3
<1>8. LeavesOthers(t)
  BY <1>4, <1>5, <1>6, <1>7 DEF LeavesOthers
<1>9. TypeOK'
  <2>1. \A u \in Thread : At(u, "putting")' => pmo'[u] # None
    BY <1>3, <1>4, <1>5 DEF IInv, TypeOK, At
  <2> QED
    BY <1>4, <1>5, <1>6, <1>7, <2>1 DEF IInv, TypeOK
<1>10. \A k \in Key : k[1] = conn[t] => KeySound(k)'
  BY <1>6 DEF KeySound, HandleKnown, OptionsKnown, ManagedLinked
<1>11. ThreadSound(t)'
  <2>1. Emptied(t)'
    BY <1>4, <1>6 DEF Emptied
  <2> QED
    BY <1>1, <1>3, <1>4, <1>5, <2>1 DEF ThreadSound, At, Puts, Gets, HasGot
<1> QED
  BY <1>1, <1>4, <1>8, <1>9, <1>10, <1>11, StepEffect

LEMMA DisconnectStep == ASSUME IInv, NEW t \in Thread, Disconnect(t) PROVE IInv'
<1>1. /\ conn[t] # None /\ Emptied(t) /\ conn[t] \in Conn
  BY DEF Disconnect, At, IInv, TypeOK, ThreadsSound, ThreadSound
<1>2. /\ call' = [call EXCEPT ![t] = Idle] /\ conn' = [conn EXCEPT ![t] = None]
      /\ UNCHANGED <<objectHandle, objectOptions, pmo, gmo>>
  BY DEF Disconnect
<1>3. /\ call' \in [Thread -> Call] /\ call'[t] = Idle /\ ~At(t, "putting")'
      /\ \A u \in Thread \ {t} : call'[u] = call[u]
  BY <1>2, IdleTyped
<1>4. /\ conn' \in [Thread -> Conn \cup {None}] /\ conn'[t] = None
      /\ \A u \in Thread \ {t} : conn'[u] = conn[u]
  BY <1>2 DEF IInv, TypeOK
<1>5. /\ object' \in [Conn \X Obj -> Object \cup {None}]
      /\ \A k \in Conn \X Obj : k[1] = conn[t] => object'[k] = None
      /\ \A k \in Conn \X Obj : k[1] # conn[t] => object'[k] = object[k]
  BY DEF Disconnect, IInv, TypeOK
<1>6. /\ msgHandle' \in [Handle -> MsgHandle \cup {None}]
      /\ \A h \in Handle : (msgHandle[h] # None /\ msgHandle[h].conn # conn[t]) =>
            msgHandle'[h] = msgHandle[h]
  BY DEF Disconnect, IInv, TypeOK
<1>7. LeavesOthers(t)
  BY <1>2, <1>3, <1>4, <1>5, <1>6 DEF LeavesOthers
<1>8. TypeOK'
  <2>1. \A u \in Thread : At(u, "putting")' => pmo'[u] # None
    BY <1>2, <1>3 DEF IInv, TypeOK, At
  <2> QED
    BY <1>2, <1>3, <1>4, <1>5, <1>6, <2>1 DEF IInv, TypeOK
<1>9. PrivateConnections'
  BY <1>4 DEF IInv, PrivateConnections
<1>10. NoObjectsLeft'
  BY <1>4, <1>5 DEF IInv, NoObjectsLeft
<1>11. KeysSound'
  <2> SUFFICES ASSUME NEW k \in Key PROVE KeySound(k)'
    BY DEF KeysSound
  <2>1. CASE k[1] = conn[t]
    BY <1>1, <1>2, <2>1 DEF Emptied, KeySound, HandleKnown, OptionsKnown, ManagedLinked
  <2>2. CASE k[1] # conn[t]
    BY <1>7, <2>2, OtherKeysKept
  <2> QED
    BY <2>1, <2>2
<1>12. ThreadsSound'
  <2>1. ThreadSound(t)'
    BY <1>3, <1>4 DEF ThreadSound, At, Idle, Puts, Gets, HasGot
  <2> QED
    BY <1>7, <2>1, OtherThreadsKept DEF ThreadsSound
<1> QED
  BY <1>8, <1>9, <1>10, <1>11, <1>12 DEF IInv

LEMMA ConnectStep == ASSUME IInv, NEW t \in Thread, NEW c \in Conn, Connect(t, c) PROVE IInv'
<1>1. /\ conn[t] = None /\ \A u \in Thread : conn[u] # c
      /\ conn' = [conn EXCEPT ![t] = c] /\ pmo' = [pmo EXCEPT ![t] = None]
      /\ gmo' = [gmo EXCEPT ![t] = NewGmo("queue", None)]
      /\ UNCHANGED <<object, msgHandle, objectHandle, objectOptions, call>>
  BY DEF Connect
<1>2. call[t].step = "idle"
  BY <1>1 DEF IInv, ThreadsSound, ThreadSound, At
<1>3. PICK new : new = NewGmo("queue", None)
  OBVIOUS
<1>4. new \in Gmo /\ new.props = "queue" /\ new.handle = None /\ new.asked = "queue"
  BY <1>3 DEF NewGmo, Gmo, Properties
<1>5. /\ conn' \in [Thread -> Conn \cup {None}] /\ conn'[t] = c
      /\ pmo' \in [Thread -> Handle \cup {None}] /\ pmo'[t] = None
      /\ gmo' \in [Thread -> Gmo] /\ gmo'[t] = new
      /\ \A u \in Thread \ {t} : conn'[u] = conn[u] /\ pmo'[u] = pmo[u] /\ gmo'[u] = gmo[u]
  BY <1>1, <1>3, <1>4 DEF IInv, TypeOK
<1>6. LeavesOthers(t)
  BY <1>1, <1>5 DEF LeavesOthers
<1>7. TypeOK'
  <2>1. \A u \in Thread : At(u, "putting")' => pmo'[u] # None
    BY <1>1, <1>2, <1>5 DEF IInv, TypeOK, At
  <2> QED
    BY <1>1, <1>5, <2>1 DEF IInv, TypeOK
<1>8. PrivateConnections'
  BY <1>1, <1>5 DEF IInv, PrivateConnections
<1>9. NoObjectsLeft'
  <2> SUFFICES ASSUME NEW k \in Conn \X Obj, \A u \in Thread : conn'[u] # k[1]
               PROVE  object[k] = None
    BY <1>1 DEF NoObjectsLeft
  <2>1. \A u \in Thread : conn[u] # k[1]
    BY <1>1, <1>5, OTelAssumption
  <2> QED
    BY <2>1 DEF IInv, NoObjectsLeft
<1>10. KeysSound'
  <2> SUFFICES ASSUME NEW k \in Key PROVE KeySound(k)'
    BY DEF KeysSound
  <2>1. k[1] # conn[t]
    BY <1>1, KeyTyped, OTelAssumption
  <2> QED
    BY <1>6, <2>1, OtherKeysKept
<1>11. ThreadSound(t)'
  <2>1. InputsKnown(t)'
    <3>1. \A o \in Obj : object[MakeKey(c, o)] = None
      <4>1. \A o \in Obj : MakeKey(c, o) \in Conn \X Obj /\ MakeKey(c, o)[1] = c
        BY DEF MakeKey
      <4> QED
        BY <1>1, <4>1 DEF IInv, NoObjectsLeft
    <3> QED
      BY <1>1, <1>5, <3>1 DEF InputsKnown
  <2>2. PmoSound(t)' /\ GmoSound(t)'
    BY <1>4, <1>5 DEF PmoSound, GmoSound, NoHandleInGmo
  <2> QED
    BY <1>1, <1>2, <2>1, <2>2 DEF ThreadSound, At, Puts, Gets, HasGot
<1>12. ThreadsSound'
  BY <1>6, <1>11, OtherThreadsKept DEF ThreadsSound
<1> QED
  BY <1>7, <1>8, <1>9, <1>10, <1>12 DEF IInv

-----------------------------------------------------------------------------
LEMMA StutterStep == ASSUME IInv, UNCHANGED vars PROVE IInv'
<1>1. TypeOK'
  BY DEF IInv, TypeOK, At, vars
<1>2. PrivateConnections' /\ NoObjectsLeft'
  BY DEF IInv, PrivateConnections, NoObjectsLeft, vars
<1>3. KeysSound'
  BY DEF IInv, KeysSound, KeySound, HandleKnown, OptionsKnown, ManagedLinked, vars
<1>4. ThreadsSound'
  <2> SUFFICES ASSUME NEW t \in Thread PROVE ThreadSound(t)'
    BY DEF ThreadsSound
  <2>1. LeavesOthers(t)
    BY DEF LeavesOthers, vars
  <2>2. ThreadSound(t)
    BY DEF IInv, ThreadsSound
  <2>3. InputsKnown(t) => InputsKnown(t)'
    BY DEF InputsKnown, vars
  <2>4. (PmoSound(t) => PmoSound(t)') /\ (GmoSound(t) => GmoSound(t)')
    BY DEF PmoSound, GmoSound, OwnHandleInGmo, NoHandleInGmo, SharedHandleInGmo, Alive, vars
  <2>5. (Emptied(t) => Emptied(t)') /\ (Puts(t) => Puts(t)')
    BY DEF Emptied, Puts, At, vars
  <2>6. (Gets(t) => Gets(t)') /\ (HasGot(t) => HasGot(t)')
    BY DEF Gets, HasGot, NoProperties, At, vars
  <2> QED
    BY <2>2, <2>3, <2>4, <2>5, <2>6 DEF ThreadSound, At, vars
<1> QED
  BY <1>1, <1>2, <1>3, <1>4 DEF IInv

LEMMA IInvStep == IInv /\ [Next]_vars => IInv'
<1> SUFFICES ASSUME IInv, [Next]_vars PROVE IInv'
  OBVIOUS
<1>1. CASE UNCHANGED vars
  BY <1>1, StutterStep
<1>2. CASE Next
  <2>1. PICK t \in Thread :
        \/ \E c \in Conn : Connect(t, c)
        \/ \E h \in Handle \cup {None} : GivePmo(t, h)
        \/ \E asked \in Asked, h \in Handle \cup {None} : GiveGmo(t, asked, h)
        \/ \E o \in Obj, kind \in {"input", "other"}, ctl \in PropCtl,
              known \in PropCtl \cup {"unknown"} : OpenQueue(t, o, kind, ctl, known)
        \/ \E s, q \in Obj, ctl \in PropCtl, known \in PropCtl \cup {"unknown"} :
              Subscribe(t, s, q, ctl, known)
        \/ \E o \in Obj : CloseQueue(t, o) \/ CloseSub(t, o)
        \/ \E span \in Span \cup {None}, inBody, fails \in BOOLEAN :
              \/ PutWithHandle(t, span, inBody, fails)
              \/ \E h \in Handle : PutWithout(t, span, inBody, fails, h)
        \/ PutReturns(t) \/ PutFails(t)
        \/ \E o \in Obj : GetWithHandle(t, o) \/ GetWithout(t, o)
        \/ \E o \in Obj, h \in Handle : GetIntoOurs(t, o, h)
        \/ \E trace \in Remote \cup {None} : GetReturns(t, trace) \/ GetFails(t, trace)
        \/ OtelDisc(t) \/ Disconnect(t)
    BY <1>2, Zenon DEF Next
  <2> QED
    BY <2>1, ConnectStep, GivePmoStep, GiveGmoStep, OpenQueueStep, SubscribeStep, CloseQueueStep,
       CloseSubStep, PutWithHandleStep, PutWithoutStep, PutReturnsStep, PutFailsStep,
       GetWithHandleStep, GetWithoutStep, GetIntoOursStep, GetReturnsStep, GetFailsStep,
       OtelDiscStep, DisconnectStep
<1> QED
  BY <1>1, <1>2

LEMMA IInvAlways == Spec => []IInv
BY IInvInit, IInvStep, PTL DEF Spec

\* The variables have their types: a put is never made with a PMO that has no handle.
THEOREM OTelTypeCorrect == Spec => []TypeOK
BY IInvAlways, PTL DEF IInv

\* A message handle that the library keeps for a connection exists and is one of that
\* connection, whoever else connects, disconnects and is given the same numbers
\* (mqotel.py:170-180, 87-101).
THEOREM HandlesAliveAlways == Spec => []HandlesAlive
<1>1. IInv => HandlesAlive
  BY DEF IInv, KeysSound, KeySound, HandleKnown, HandlesAlive
<1> QED
  BY <1>1, IInvAlways, PTL

\* What is known of an object is true of the object that has its handle now, although
\* handles are given out again and subscriptions and their queues are closed in either
\* order (mqotel.py:160-314).
THEOREM OptionsOfThisObjectAlways == Spec => []OptionsOfThisObject
<1>1. IInv => OptionsOfThisObject
  BY DEF IInv, KeysSound, KeySound, OptionsKnown, OptionsOfThisObject
<1> QED
  BY <1>1, IInvAlways, PTL

\* When MQPUT is called for an application that left the message handle to the library,
\* the handle is one of the put's own connection, whatever other threads do between the
\* MQSETMP and the MQPUT on theirs, and has the span of this put.  Two puts have no such
\* promise: that whose MQSETMP failed, and that after a put that failed, which may carry
\* an earlier trace of the connection (mqotel.py:333-417).
THEOREM SpanPropagatedAlways == Spec => []SpanPropagated
<1>1. ASSUME IInv, NEW t \in Thread, At(t, "putting")
      PROVE  msgHandle[pmo[t]] # None /\ msgHandle[pmo[t]].conn = conn[t] /\ Puts(t)
  <2>1. ThreadSound(t) /\ pmo[t] # None /\ ~At(t, "idle") /\ ~At(t, "disconnecting")
    BY <1>1 DEF IInv, ThreadsSound, TypeOK, At
  <2> QED
    BY <2>1 DEF ThreadSound, PmoSound, Alive
<1>2. IInv => SpanPropagated
  BY <1>1 DEF Puts, SpanPropagated
<1> QED
  BY <1>2, IInvAlways, PTL

\* A get made in a span from a queue that was opened for input links the span to the trace
\* of the message, in whatever form the properties come (mqotel.py:469-498, 528-651).
THEOREM SpanLinkedAlways == Spec => []SpanLinked
<1>1. IInv => SpanLinked
  BY DEF IInv, ThreadsSound, ThreadSound, HasGot, SpanLinked
<1> QED
  BY <1>1, IInvAlways, PTL

\* A get that returns a message gives the GMO back as the application set it up, also after
\* gets that failed and left it changed (mqotel.py:563-571).
THEOREM GmoReturnedAlways == Spec => []GmoReturned
<1>1. IInv => GmoReturned
  BY DEF IInv, ThreadsSound, ThreadSound, HasGot, GmoReturned
<1> QED
  BY <1>1, IInvAlways, PTL

-----------------------------------------------------------------------------
\* What a step may do to the trace in a handle of the application.
TraceKept ==
    \A h \in Handle \ Ours :
        (/\ msgHandle[h] # None /\ msgHandle[h].trace # None /\ msgHandle'[h] # None
         /\ ~\E t \in Thread : At(t, "getting") /\ gmo[t].handle = h)
        => msgHandle'[h].trace = msgHandle[h].trace

LEMMA ReplacedKeeps ==
    ASSUME NEW t \in Thread, NEW old, NEW g \in Handle \cup {None}, g # None => msgHandle[g] = None,
           msgHandle' = Replaced(t, old, g)
    PROVE  TraceKept
<1> SUFFICES ASSUME NEW h \in Handle, msgHandle[h] # None, msgHandle'[h] # None
             PROVE  msgHandle'[h] = msgHandle[h]
  BY DEF TraceKept
<1>1. h # g
  BY OTelAssumption
<1> QED
  BY <1>1 DEF Replaced

LEMMA PutKeeps ==
    ASSUME IInv, NEW t \in Thread, NEW span \in Span \cup {None}, NEW inBody \in BOOLEAN,
           NEW fails \in BOOLEAN, PutWithHandle(t, span, inBody, fails)
    PROVE  TraceKept
<1> SUFFICES ASSUME NEW h \in Handle, msgHandle[h] # None, msgHandle[h].trace # None
             PROVE  msgHandle'[h] = msgHandle[h]
  BY DEF TraceKept
<1>1. PICK skip : skip = (inBody \/ fails \/ PropsContain(pmo[t]))
  OBVIOUS
<1>2. msgHandle' = Insert(msgHandle, pmo[t], span, skip)
  BY <1>1 DEF PutWithHandle
<1>3. CASE pmo[t] = h
  BY <1>1, <1>2, <1>3 DEF PropsContain, Insert
<1>4. CASE pmo[t] # h
  BY <1>2, <1>4 DEF Insert, IInv, TypeOK
<1> QED
  BY <1>3, <1>4

\* The handle of a connection is in the table or has just been made.
LEMMA SharedKeeps ==
    ASSUME IInv, NEW t \in Thread, Ready(t), NEW g \in Handle, GetMsgHandle(SharedKey(conn[t]), g),
           \A h \in Handle : h # g => msgHandle'[h] = msgHandle[h]
    PROVE  TraceKept
<1> SUFFICES ASSUME NEW h \in Handle \ Ours, msgHandle[h] # None
             PROVE  msgHandle'[h] = msgHandle[h]
  BY DEF TraceKept
<1>1. SharedKey(conn[t]) \in Key
  BY ReadyKnows, OwnKeys
<1>2. h # g
  BY <1>1, OTelAssumption DEF GetMsgHandle, Ours
<1> QED
  BY <1>2

LEMMA TraceKeptStep == IInv /\ [Next]_vars => TraceKept
<1> SUFFICES ASSUME IInv, [Next]_vars PROVE TraceKept
  OBVIOUS
<1>0. CASE UNCHANGED msgHandle
  BY <1>0 DEF TraceKept
<1>1. ASSUME NEW t \in Thread, NEW h \in Handle \cup {None}, GivePmo(t, h) PROVE TraceKept
  BY <1>1, ReplacedKeeps DEF GivePmo
<1>2. ASSUME NEW t \in Thread, NEW asked \in Asked, NEW h \in Handle \cup {None}, GiveGmo(t, asked, h)
      PROVE  TraceKept
  BY <1>2, ReplacedKeeps DEF GiveGmo
<1>3. ASSUME NEW t \in Thread, NEW span \in Span \cup {None}, NEW inBody \in BOOLEAN,
             NEW fails \in BOOLEAN, PutWithHandle(t, span, inBody, fails)
      PROVE  TraceKept
  BY <1>3, PutKeeps
<1>4. ASSUME NEW t \in Thread, NEW span \in Span \cup {None}, NEW inBody \in BOOLEAN,
             NEW fails \in BOOLEAN, NEW g \in Handle, PutWithout(t, span, inBody, fails, g)
      PROVE  TraceKept
  <2>1. Ready(t) /\ GetMsgHandle(SharedKey(conn[t]), g)
        /\ msgHandle' = Insert(Handles(g, conn[t]), g, span, inBody \/ fails)
    BY <1>4 DEF PutWithout
  <2>2. \A h \in Handle : h # g => msgHandle'[h] = msgHandle[h]
    BY <2>1 DEF Insert, Handles, IInv, TypeOK
  <2> QED
    BY <2>1, <2>2, SharedKeeps
<1>5. ASSUME NEW t \in Thread, NEW o \in Obj, NEW g \in Handle, GetIntoOurs(t, o, g) PROVE TraceKept
  <2>1. Ready(t) /\ GetMsgHandle(SharedKey(conn[t]), g) /\ msgHandle' = Handles(g, conn[t])
    BY <1>5 DEF GetIntoOurs
  <2>2. \A h \in Handle : h # g => msgHandle'[h] = msgHandle[h]
    BY <2>1 DEF Handles, IInv, TypeOK
  <2> QED
    BY <2>1, <2>2, SharedKeeps
<1>6. ASSUME NEW t \in Thread, NEW trace \in Remote \cup {None}, GetReturns(t, trace) \/ GetFails(t, trace)
      PROVE  TraceKept
  <2>1. /\ At(t, "getting") /\ UNCHANGED <<conn, objectHandle>>
        /\ msgHandle' = msgHandle \/ msgHandle' = Filled(gmo[t].handle, trace)
    BY <1>6 DEF GetReturns, GetFails
  <2>2. \A g \in Handle : g # gmo[t].handle => msgHandle'[g] = msgHandle[g]
    BY <2>1, FilledEffect DEF At
  <2> QED
    BY <2>1, <2>2 DEF TraceKept
<1>7. ASSUME NEW t \in Thread, OtelDisc(t) \/ Disconnect(t) PROVE TraceKept
  <2>1. \A h \in Handle : msgHandle'[h] \in {None, msgHandle[h]}
    BY <1>7 DEF OtelDisc, Disconnect
  <2> QED
    BY <2>1 DEF TraceKept
<1>8. CASE UNCHANGED vars
  BY <1>0, <1>8 DEF vars
<1>9. ASSUME NEW t \in Thread, NEW o \in Obj,
             \/ \E kind \in {"input", "other"}, ctl \in PropCtl,
                   known \in PropCtl \cup {"unknown"} : OpenQueue(t, o, kind, ctl, known)
             \/ \E q \in Obj, ctl \in PropCtl, known \in PropCtl \cup {"unknown"} :
                   Subscribe(t, o, q, ctl, known)
             \/ CloseQueue(t, o) \/ CloseSub(t, o) \/ GetWithHandle(t, o) \/ GetWithout(t, o)
      PROVE  TraceKept
  <2>1. UNCHANGED msgHandle
    BY <1>9 DEF OpenQueue, Subscribe, CloseQueue, CloseSub, GetWithHandle, GetWithout
  <2> QED
    BY <1>0, <2>1
<1>10. ASSUME NEW t \in Thread, PutReturns(t) \/ PutFails(t) \/ \E c \in Conn : Connect(t, c)
       PROVE  TraceKept
  <2>1. UNCHANGED msgHandle
    BY <1>10 DEF PutReturns, PutFails, Connect
  <2> QED
    BY <1>0, <2>1
<1>11. CASE Next
  <2>1. PICK t \in Thread :
        \/ \E c \in Conn : Connect(t, c)
        \/ \E h \in Handle \cup {None} : GivePmo(t, h)
        \/ \E asked \in Asked, h \in Handle \cup {None} : GiveGmo(t, asked, h)
        \/ \E o \in Obj, kind \in {"input", "other"}, ctl \in PropCtl,
              known \in PropCtl \cup {"unknown"} : OpenQueue(t, o, kind, ctl, known)
        \/ \E s, q \in Obj, ctl \in PropCtl, known \in PropCtl \cup {"unknown"} :
              Subscribe(t, s, q, ctl, known)
        \/ \E o \in Obj : CloseQueue(t, o) \/ CloseSub(t, o)
        \/ \E span \in Span \cup {None}, inBody, fails \in BOOLEAN :
              \/ PutWithHandle(t, span, inBody, fails)
              \/ \E h \in Handle : PutWithout(t, span, inBody, fails, h)
        \/ PutReturns(t) \/ PutFails(t)
        \/ \E o \in Obj : GetWithHandle(t, o) \/ GetWithout(t, o)
        \/ \E o \in Obj, h \in Handle : GetIntoOurs(t, o, h)
        \/ \E trace \in Remote \cup {None} : GetReturns(t, trace) \/ GetFails(t, trace)
        \/ OtelDisc(t) \/ Disconnect(t)
    BY <1>11, Zenon DEF Next
  <2>2. CASE \/ \E h \in Handle \cup {None} : GivePmo(t, h)
             \/ \E asked \in Asked, h \in Handle \cup {None} : GiveGmo(t, asked, h)
             \/ \E span \in Span \cup {None}, inBody, fails \in BOOLEAN :
                   \/ PutWithHandle(t, span, inBody, fails)
                   \/ \E h \in Handle : PutWithout(t, span, inBody, fails, h)
             \/ \E o \in Obj, h \in Handle : GetIntoOurs(t, o, h)
             \/ \E trace \in Remote \cup {None} : GetReturns(t, trace) \/ GetFails(t, trace)
             \/ OtelDisc(t) \/ Disconnect(t)
    BY <1>1, <1>2, <1>3, <1>4, <1>5, <1>6, <1>7, <2>2
  <2>3. CASE \/ \E o \in Obj, kind \in {"input", "other"}, ctl \in PropCtl,
                   known \in PropCtl \cup {"unknown"} : OpenQueue(t, o, kind, ctl, known)
             \/ \E s, q \in Obj, ctl \in PropCtl, known \in PropCtl \cup {"unknown"} :
                   Subscribe(t, s, q, ctl, known)
             \/ \E o \in Obj : CloseQueue(t, o) \/ CloseSub(t, o)
             \/ \E o \in Obj : GetWithHandle(t, o) \/ GetWithout(t, o)
    BY <1>9, <2>3
  <2>4. CASE \/ \E c \in Conn : Connect(t, c)
             \/ PutReturns(t) \/ PutFails(t)
    BY <1>10, <2>4
  <2> QED
    BY <2>1, <2>2, <2>3, <2>4, Zenon
<1> QED
  BY <1>8, <1>11

\* The trace in a message handle of the application is changed by nothing but a get into
\* that handle (mqotel.py:333-349).
THEOREM OwnTraceKeptAlways == Spec => OwnTraceKept
<1>1. IInv /\ [Next]_vars => [TraceKept]_vars
  BY TraceKeptStep
<1> QED
  BY <1>1, IInvAlways, PTL DEF Spec, OwnTraceKept, TraceKept
=============================================================================
