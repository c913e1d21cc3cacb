------------------------------- MODULE Handles -------------------------------
(* The lives of QueueManager, PCFExecute, Queue, Topic and Subscription        *)
(* objects, over numbers that MQ gives out again: deferred opens, destructors, *)
(* broken connections, an MQDISC that warns, subscriptions with a managed      *)
(* queue or with a queue of the application.  A call of a method is one step.  *)

CONSTANTS
    QueueManager, PCFExecute, Queue, Topic, Subscription,   \* Python objects
    DisconnectOnExit,   \* the QueueManagers made with disconnect_on_exit
    Lapse,              \* bound: the things the library does not cope with that happen
    Conn, Obj,          \* numbers of connections, and of what is open on one
    None,               \* Python's None, and whatever a number does not denote
    Orphan              \* what MQ has open and no Python object answers for

ASSUME HandlesAssumption ==
    /\ QueueManager \cap PCFExecute = {} /\ DisconnectOnExit \subseteq QueueManager
    /\ (QueueManager \cup PCFExecute) \cap (Queue \cup Topic \cup Subscription) = {}
    /\ Queue \cap Topic = {} /\ (Queue \cup Topic) \cap Subscription = {}
    /\ Lapse \subseteq {"stale", "lent", "warned"}
    /\ None \notin Conn \cup Obj
    /\ {None, Orphan} \cap (QueueManager \cup PCFExecute \cup Queue \cup Topic \cup Subscription) = {}
    /\ None # Orphan

Manager == QueueManager \cup PCFExecute
Opener == Queue \cup Topic
Object == Opener \cup Subscription

VARIABLES
    mgr,        \* mgr[m]: __handle and __qmobj of a QueueManager
    obj,        \* obj[o]: its QueueManager (None: no such object), its handle, has it a descriptor
    subQueue,   \* subQueue[s]: sub_queue of a Subscription
    replyQueue, \* replyQueue[p]: __reply_queue of a PCFExecute
    link,       \* link[c]: the manager a connection was made for, whether it is up, and
                \*   whether `connect` made it and its MQCONN ended with a warning
    opened,     \* opened[c][n]: who opened what MQ has under the number n
    lapses      \* history: what has been done that leaves numbers behind

vars == <<mgr, obj, subQueue, replyQueue, link, opened, lapses>>

TypeOK ==
    /\ mgr \in [Manager -> [handle : Conn \cup {None}, qmobj : Obj \cup {None}]]
    /\ obj \in [Object -> [mgr : Manager \cup {None}, handle : Obj \cup {None}, named : BOOLEAN]]
    /\ subQueue \in [Subscription -> Queue \cup {None}]
    /\ replyQueue \in [PCFExecute -> Queue \cup {None}]
    /\ link \in [Conn -> [of : Manager \cup {None, Orphan}, up : BOOLEAN,
                      connectWarned : BOOLEAN]]
    /\ opened \in [Conn -> [Obj -> Object \cup Manager \cup {None, Orphan}]]
    /\ lapses \subseteq Lapse

\* Mutant: a new object has a number that is not None.
UnusableHandle == [mgr |-> None, handle |-> Orphan, named |-> FALSE]

Unborn == [mgr |-> None, handle |-> None, named |-> FALSE]
Unconnected == [handle |-> None, qmobj |-> None]
NoLink == [of |-> None, up |-> FALSE, connectWarned |-> FALSE]
NothingOpen == [n \in Obj |-> None]

Init ==
    /\ mgr = [m \in Manager |-> Unconnected]
    /\ obj = [o \in Object |-> Unborn]
    /\ subQueue = [s \in Subscription |-> None]
    /\ replyQueue = [p \in PCFExecute |-> None]
    /\ link = [c \in Conn |-> NoLink]
    /\ opened = [c \in Conn |-> NothingOpen]
    /\ lapses = {}

-----------------------------------------------------------------------------
(* MQ.  A number reaches what has it now, whoever was given it before.         *)

Answers(c) == c # None /\ link[c].up
HasOpen(c, n) == Answers(c) /\ opened[c][n] # None

\* The connection breaks: MQ lets its objects go, the number stays till MQDISC.
Break(c) ==
    /\ link[c].up
    /\ link' = [link EXCEPT ![c].up = FALSE]
    /\ opened' = [opened EXCEPT ![c] = NothingOpen]
    /\ UNCHANGED <<mgr, obj, subQueue, replyQueue, lapses>>

Noting(l, if) ==
    /\ lapses' = IF if THEN lapses \cup {l} ELSE lapses
    /\ lapses' \subseteq Lapse

\* A connection for m under a free number.
NewLink(m, c, connectWarned) ==
    /\ link[c] = NoLink
    /\ link' = [link EXCEPT ![c] =
                    [of |-> m, up |-> TRUE, connectWarned |-> connectWarned]]

\* MQDISC of c: refused, or the connection and its objects are gone.  A broken
\* one ends with an error; a unit of work that is backed out is a warning.
DiscAnswers(c) ==
    IF link[c] = NoLink THEN {"unknown"}
    ELSE IF link[c].up THEN {"ok", "warned", "refused"} ELSE {"broken"}

Ends(answer) == answer \in {"ok", "warned", "broken"}

-----------------------------------------------------------------------------
(* QueueManager.                                                               *)

\* Whether a connect notes the handle it is given.  MQCONN warns when there is a
\* connection already, whose number it gives, but may also warn of a new one.
ConnectNotes(cc) == cc = "ok"

\* Mutant: a connect that warns does not note the handle.
NotesIfOk(cc) == cc = "ok"

ConnectWithOptionsNotes(cc) == cc # "failed"

\* m notes c, or not.  If m or an object of m still has a number of an earlier
\* connection, that number now means something else.
Given(notes, m, c) ==
    /\ mgr' = IF notes THEN [mgr EXCEPT ![m].handle = c] ELSE mgr
    /\ Noting("stale", notes /\ (mgr[m] # Unconnected
                       \/ \E o \in Object : obj[o].mgr = m /\ obj[o].handle # None))

Connect(m, c) ==
    /\ m \in QueueManager
    /\ \/ \E cc \in {"ok", "warning"} :
            NewLink(m, c, cc = "warning") /\ Given(ConnectNotes(cc), m, c)
       \/ Answers(c) /\ Given(ConnectNotes("warning"), m, c) /\ UNCHANGED link
    /\ UNCHANGED <<obj, subQueue, replyQueue, opened>>

ConnectWithOptions(m, c) ==
    /\ m \in QueueManager
    /\ NewLink(m, c, FALSE)
    /\ \E cc \in {"ok", "warning"} : Given(ConnectWithOptionsNotes(cc), m, c)
    /\ UNCHANGED <<obj, subQueue, replyQueue, opened>>

\* Mutant: disconnect forgets the handle if there is no error.
ForgetsIfOk(answer) == answer = "ok"

\* The answers after which disconnect forgets the handle, and the queue manager object.
Forgets(answer) == answer \in {"ok", "broken"}

Disconnect(m) ==
    LET c == mgr[m].handle IN
    /\ m \in QueueManager /\ c # None
    /\ \E answer \in DiscAnswers(c) :
        /\ mgr' = IF Forgets(answer) THEN [mgr EXCEPT ![m] = Unconnected] ELSE mgr
        /\ link' = IF Ends(answer) THEN [link EXCEPT ![c] = NoLink] ELSE link
        /\ opened' = IF Ends(answer) THEN [opened EXCEPT ![c] = NothingOpen] ELSE opened
        /\ Noting("warned", answer = "warned")
    /\ UNCHANGED <<obj, subQueue, replyQueue>>

\* The first inquire opens the queue manager object, and keeps its number.
Inquire(m, n) ==
    LET c == mgr[m].handle IN
    /\ mgr[m].qmobj = None /\ Answers(c) /\ opened[c][n] = None
    /\ mgr' = [mgr EXCEPT ![m].qmobj = n]
    /\ opened' = [opened EXCEPT ![c][n] = m]
    /\ UNCHANGED <<obj, subQueue, replyQueue, link, lapses>>

\* What is left open when the destructor of x has tried to close the number n on c;
\* where MQCLOSE fails nobody will try again.
Closed(x, c, n) ==
    IF n # None /\ HasOpen(c, n)
    THEN {[opened EXCEPT ![c][n] = None],
          [opened EXCEPT ![c][n] = IF @ = x THEN Orphan ELSE @]}
    ELSE {opened}

\* The connection that a destructor leaves up is nobody's any more.
Abandoned(m, c) == IF link[c].of = m THEN [link EXCEPT ![c].of = Orphan] ELSE link

\* The destructor of a QueueManager that no object refers to.
DelManager(m) ==
    LET c == mgr[m].handle IN
    /\ m \in QueueManager /\ c # None
    /\ \A o \in Object : obj[o].mgr # m
    /\ \E op \in Closed(m, c, mgr[m].qmobj),
          answer \in IF m \in DisconnectOnExit THEN DiscAnswers(c) ELSE {"none"} :
        /\ link' = IF Ends(answer) THEN [link EXCEPT ![c] = NoLink] ELSE Abandoned(m, c)
        /\ opened' = IF Ends(answer) THEN [op EXCEPT ![c] = NothingOpen] ELSE op
    /\ mgr' = [mgr EXCEPT ![m] = Unconnected]
    /\ UNCHANGED <<obj, subQueue, replyQueue, lapses>>

-----------------------------------------------------------------------------
(* PCFExecute: a QueueManager with a reply queue, and a disconnect of its own. *)

NewPCFExecute(p, q, c, n) ==
    /\ p \in PCFExecute /\ mgr[p] = Unconnected /\ replyQueue[p] = None
    /\ obj[q] = Unborn
    /\ \/ /\ mgr' = [mgr EXCEPT ![p].handle = c]
          /\ replyQueue' = [replyQueue EXCEPT ![p] = q]
          /\ obj' = [obj EXCEPT ![q] = [mgr |-> p, handle |-> n, named |-> TRUE]]
          /\ NewLink(p, c, FALSE)
          /\ opened' = [opened EXCEPT ![c][n] = q]
       \/ \* the reply queue cannot be opened, or the MQCONN ends with a warning
          /\ NewLink(Orphan, c, FALSE)
          /\ UNCHANGED <<mgr, replyQueue, obj, opened>>
    /\ UNCHANGED <<subQueue, lapses>>

\* The reply queue, if there is one, is closed and dropped.
ReplyQueueClosed(p) ==
    IF replyQueue[p] = None THEN {opened}
    ELSE Closed(replyQueue[p], mgr[p].handle, obj[replyQueue[p]].handle)

ReplyQueueDropped(p) ==
    /\ obj' = IF replyQueue[p] = None THEN obj ELSE [obj EXCEPT ![replyQueue[p]] = Unborn]
    /\ replyQueue' = [replyQueue EXCEPT ![p] = None]

PCFDisconnect(p) ==
    /\ replyQueue[p] # None
    /\ opened' \in ReplyQueueClosed(p)
    /\ ReplyQueueDropped(p)
    /\ UNCHANGED <<mgr, subQueue, link, lapses>>

\* The destructor calls the disconnect of PCFExecute, so there is no MQDISC.
DelPCFExecute(p) ==
    LET c == mgr[p].handle IN
    /\ c # None
    /\ \A o \in Object : obj[o].mgr = p => o = replyQueue[p]
    /\ \E op \in ReplyQueueClosed(p), left \in {None, Orphan} :
          opened' = IF mgr[p].qmobj # None /\ HasOpen(c, mgr[p].qmobj)
                    THEN [op EXCEPT ![c][mgr[p].qmobj] = left] ELSE op
    /\ ReplyQueueDropped(p)
    /\ link' = Abandoned(p, c)
    /\ mgr' = [mgr EXCEPT ![p] = Unconnected]
    /\ UNCHANGED <<subQueue, lapses>>

-----------------------------------------------------------------------------
(* Queue and Topic.                                                            *)

\* __real_open
RealOpen(o, m, n) ==
    LET c == mgr[m].handle IN
    /\ Answers(c) /\ opened[c][n] = None
    /\ obj' = [obj EXCEPT ![o] = [mgr |-> m, handle |-> n, named |-> TRUE]]
    /\ opened' = [opened EXCEPT ![c][n] = o]

\* Made without a descriptor, with one, or with one and opened.
New(o, m, n) ==
    /\ obj[o] = Unborn
    /\ \/ \E d \in (IF o \in Topic THEN {TRUE} ELSE BOOLEAN) :
            obj' = [obj EXCEPT ![o] = [mgr |-> m, handle |-> None, named |-> d]]
          /\ UNCHANGED opened
       \/ RealOpen(o, m, n)
    /\ UNCHANGED <<mgr, subQueue, replyQueue, link, lapses>>

\* open, with options; without them, or if MQOPEN fails, the descriptor is all there is.
Open(o, n) ==
    /\ obj[o].mgr # None /\ obj[o].handle = None
    /\ \/ RealOpen(o, obj[o].mgr, n)
       \/ obj' = [obj EXCEPT ![o].named = TRUE] /\ UNCHANGED opened
    /\ UNCHANGED <<mgr, subQueue, replyQueue, link, lapses>>

\* put, get, inquire, set and pub open what is not open, if it has a descriptor.
Use(o, n) ==
    /\ obj[o].mgr # None /\ obj[o].handle = None /\ obj[o].named
    /\ RealOpen(o, obj[o].mgr, n)
    /\ UNCHANGED <<mgr, subQueue, replyQueue, link, lapses>>

\* close forgets the number only if MQCLOSE succeeds.
Close(o) ==
    LET c == mgr[obj[o].mgr].handle
        n == obj[o].handle
    IN /\ obj[o].mgr # None /\ n # None /\ HasOpen(c, n)
       /\ opened' = [opened EXCEPT ![c][n] = None]
       /\ obj' = [obj EXCEPT ![o].handle = None, ![o].named = FALSE]
       /\ UNCHANGED <<mgr, subQueue, replyQueue, link, lapses>>

\* Mutant: a destructor that does not close.
LetGoOpen(o) == {opened}

LetGo(o) == Closed(o, mgr[obj[o].mgr].handle, obj[o].handle)

\* The destructor, when nothing refers to the object.
Del(o) ==
    /\ obj[o] # Unborn
    /\ \A s \in Subscription : subQueue[s] # o
    /\ \A p \in PCFExecute : replyQueue[p] # o
    /\ opened' \in LetGo(o)
    /\ obj' = [obj EXCEPT ![o] = Unborn]
    /\ UNCHANGED <<mgr, subQueue, replyQueue, link, lapses>>

-----------------------------------------------------------------------------
(* Subscription.                                                               *)

\* sub: MQSUB opens the subscription and its managed queue k, or is lent the number
\* of p.  A new Queue object gets the number; the numbers of an earlier sub are lost.
Sub(s, m, q, p, n, k) ==
    LET c == mgr[m].handle
        left == [j \in Obj |-> IF j = obj[s].handle /\ opened[c][j] = s THEN Orphan ELSE opened[c][j]]
    IN /\ obj[s].mgr \in {None, m} /\ obj[q] = Unborn
       /\ Answers(c) /\ opened[c][n] = None /\ k # n
       /\ \/ /\ p = None /\ opened[c][k] = None
             /\ opened' = [opened EXCEPT ![c] = [left EXCEPT ![n] = s, ![k] = q]]
             /\ UNCHANGED lapses
          \/ /\ p # None /\ obj[p].handle = k /\ HasOpen(c, k)
             /\ opened' = [opened EXCEPT ![c] = [left EXCEPT ![n] = s]]
             /\ Noting("lent", TRUE)
       /\ obj' = [obj EXCEPT ![s] = [mgr |-> m, handle |-> n, named |-> TRUE],
                             ![q] = [mgr |-> m, handle |-> k, named |-> FALSE]]
       /\ subQueue' = [subQueue EXCEPT ![s] = q]
    /\ UNCHANGED <<mgr, replyQueue, link>>

\* close: the subscription, then its queue if the caller says so.
CloseSub(s) ==
    LET c == mgr[obj[s].mgr].handle
        n == obj[s].handle
        q == subQueue[s]
        one == [opened EXCEPT ![c][n] = None]
    IN /\ obj[s].mgr # None /\ n # None /\ HasOpen(c, n)
       /\ \/ /\ opened' = one
             /\ obj' = [obj EXCEPT ![s].handle = None, ![s].named = FALSE]
          \/ /\ obj[q].handle # None /\ one[c][obj[q].handle] # None
             /\ opened' = [one EXCEPT ![c][obj[q].handle] = None]
             /\ obj' = [obj EXCEPT ![s].handle = None, ![s].named = FALSE,
                                   ![q].handle = None, ![q].named = FALSE]
       /\ UNCHANGED <<mgr, subQueue, replyQueue, link, lapses>>

\* The destructor: its queue may live on with the application.
DelSub(s) ==
    /\ obj[s] # Unborn
    /\ opened' \in LetGo(s)
    /\ obj' = [obj EXCEPT ![s] = Unborn]
    /\ subQueue' = [subQueue EXCEPT ![s] = None]
    /\ UNCHANGED <<mgr, replyQueue, link, lapses>>

-----------------------------------------------------------------------------
Next ==
    \/ \E c \in Conn : Break(c)
    \/ \E m \in Manager, c \in Conn : Connect(m, c) \/ ConnectWithOptions(m, c)
    \/ \E m \in Manager : Disconnect(m) \/ DelManager(m)
    \/ \E m \in Manager, n \in Obj : Inquire(m, n)
    \/ \E p \in PCFExecute, q \in Queue, c \in Conn, n \in Obj : NewPCFExecute(p, q, c, n)
    \/ \E p \in PCFExecute : PCFDisconnect(p) \/ DelPCFExecute(p)
    \/ \E o \in Opener, m \in QueueManager, n \in Obj : New(o, m, n)
    \/ \E o \in Opener, n \in Obj : Open(o, n) \/ Use(o, n)
    \/ \E o \in Opener : Close(o) \/ Del(o)
    \/ \E s \in Subscription, m \in QueueManager, q \in Queue, p \in Queue \cup {None}, n, k \in Obj :
           Sub(s, m, q, p, n, k)
    \/ \E s \in Subscription : CloseSub(s) \/ DelSub(s)

Spec == Init /\ [][Next]_vars

-----------------------------------------------------------------------------
(* Properties.                                                                 *)

\* The numbers that a manager or an object has, and the connection it uses them on.
Held(x) == IF x \in Manager THEN mgr[x].qmobj ELSE obj[x].handle
OnConn(x) == IF x \in Manager THEN mgr[x].handle
             ELSE IF obj[x].mgr = None THEN None ELSE mgr[obj[x].mgr].handle

\* As long as a manager is not connected again while it or its objects keep numbers
\* of an earlier connection, no queue is lent to a subscription, and no MQDISC
\* warns: a number that an object has is that of what it opened itself.  So every
\* put, get, inquire and close, the ones of destructors too, is about that.
HoldsOwn ==
    lapses = {} => \A x \in Manager \cup Object :
        Held(x) # None /\ Answers(OnConn(x)) => opened[OnConn(x)][Held(x)] = x

\* Unless a manager is connected over old numbers, what an object has opened and not
\* let go of can still be closed by it: the object has its number, and its manager
\* the connection.  Subscribing again, lending and broken closes do not change that.
NothingLost ==
    "stale" \notin lapses => \A c \in Conn, n \in Obj :
        opened[c][n] \notin {None, Orphan} => Held(opened[c][n]) = n /\ OnConn(opened[c][n]) = c

\* The handle of a manager is that of the connection that was made for it.
ConnectionIsOwn == \A m \in Manager : mgr[m].handle # None => link[mgr[m].handle].of = m

\* With the same proviso a connection that was made for a manager can be ended by
\* it, but for the one that `connect` made with a warning: it raises and does not
\* note the handle, so that nobody can end that connection (mqqmgr.py:75-79).
\* Unless an MQDISC has warned, a manager ends and uses its own connection only.
ConnectionsHeld ==
    /\ "stale" \notin lapses =>
          \A c \in Conn : link[c].of \in Manager /\ ~link[c].connectWarned =>
                             mgr[link[c].of].handle = c
    /\ "warned" \notin lapses => ConnectionIsOwn
=============================================================================
