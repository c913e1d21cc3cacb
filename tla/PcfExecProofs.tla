---------------------------- MODULE PcfExecProofs ----------------------------
(* For any number of threads and commands: the responses of a call are those to  *)
(* its own command, and, if the server keeps its promise, all of them.           *)
EXTENDS PcfExec, TLAPS

Busy(a) == call[a].at # "idle"

\* A call has a number that was given out, has not ended, and is in one thread.
OneThreadEach ==
    /\ \A a \in Caller : Busy(a) => call[a].n \in 1..calls /\ outcome[call[a].n].how = "none"
    /\ \A a, b \in Caller : Busy(a) /\ Busy(b) /\ call[a].n = call[b].n => a = b

\* The server knows of no command before it is put.
NotPut(n) ==
    n > calls \/ \E a \in Caller : call[a].at \in {"queue", "opening", "put"} /\ call[a].n = n

SilentBefore ==
    /\ \A n \in Number : NotPut(n) => script[n] = <<>>
    /\ \A n \in Number : n > calls => ress[n] = {} /\ outcome[n].how = "none"

\* The replies to a command are read in the order in which they were sent.
ReadInOrder ==
    \A r \in replies : \A i \in Nat : r[2] < i /\ i <= sent[r[1]] => <<r[1], i>> \in replies

\* The replies to n that have been read.
Read(n) == {i \in 1..sent[n] : <<n, i>> \notin replies}

\* What the variables of the loop say of the replies that have been read.
Collected(n) == {<<n, i>> : i \in {j \in Read(n) : Appended(script[n][j])}}

Knows(a, n) ==
    /\ ress[n] = Collected(n)
    /\ call[a].scope = \E i \in Read(n) : Accepts(script[n][i])
    /\ call[a].first = \E i \in Read(n) : ~script[n][i].ok

LoopKnows == \A a \in Caller : Busy(a) /\ ~call[a].passed => Knows(a, call[a].n)

\* What a call that ended well has: all responses, and read all replies.
HasAll(n) ==
    ~outcome[n].passed =>
        /\ outcome[n].how \in {"returned", "firstError"} =>
              ress[n] = Responses(n) /\ Read(n) = DOMAIN script[n]
        /\ outcome[n].how = "returned" => \A i \in DOMAIN script[n] : script[n][i].ok

AllHaveAll == \A n \in Number : HasAll(n)

IInv ==
    /\ TypeOK
    /\ CommandQueueUsable
    /\ OneThreadEach
    /\ SilentBefore
    /\ ReadInOrder
    /\ LoopKnows
    /\ AllHaveAll

-----------------------------------------------------------------------------
LEMMA IInvInit == Init => IInv
<1> SUFFICES ASSUME Init PROVE IInv
  OBVIOUS
<1>1. TypeOK
  <2>1. /\ script \in [Number -> Script \cup {<<>>}] /\ sent \in [Number -> Nat]
        /\ \A n \in Number : script[n] = <<>> /\ sent[n] = 0
    BY DEF Init
  <2>2. \A n \in Number : sent[n] <= Len(script[n])
    BY <2>1
  <2>3. call \in [Caller -> Call] /\ \A a \in Caller : call[a].at = "idle"
    BY PcfAssumption DEF Init, Idle, Call, Place
  <2>4. calls \in 0..MaxCalls /\ outcome \in [Number -> Outcome]
    BY PcfAssumption DEF Init, Outcome
  <2> QED
    BY <2>1, <2>2, <2>3, <2>4 DEF Init, TypeOK, QueueObject
<1>2. CommandQueueUsable /\ OneThreadEach /\ ReadInOrder /\ LoopKnows
  BY DEF Init, CommandQueueUsable, OneThreadEach, ReadInOrder, LoopKnows, Busy, Idle
<1>3. SilentBefore /\ AllHaveAll
  BY DEF Init, SilentBefore, AllHaveAll, HasAll
<1> QED
  BY <1>1, <1>2, <1>3 DEF IInv

LEMMA ScriptTyped == ASSUME IInv, NEW n \in Number PROVE script[n] \in Seq(Reply)
<1>1. script[n] \in Script \/ script[n] = <<>>
  BY DEF IInv, TypeOK
<1>2. <<>> \in Seq(Reply)
  OBVIOUS
<1> QED
  BY <1>1, <1>2, PcfAssumption

LEMMA BusyNumber ==
    ASSUME IInv, NEW a \in Caller, Busy(a)
    PROVE  /\ call[a].n \in Number /\ call[a].n \in 1..calls /\ call[a].n <= calls
           /\ calls \in Nat /\ MaxCalls \in Nat /\ calls <= MaxCalls
BY PcfAssumption DEF IInv, OneThreadEach, TypeOK, Number

\* Before its command is put, nothing has been sent to a call.
LEMMA SilentRead ==
    ASSUME IInv, NEW n \in Number, NotPut(n)
    PROVE  sent[n] = 0 /\ Read(n) = {}
<1>1. script[n] = <<>> /\ sent[n] \in Nat /\ sent[n] <= Len(script[n])
  BY DEF IInv, SilentBefore, TypeOK
<1>2. sent[n] = 0
  BY <1>1
<1> QED
  BY <1>2 DEF Read

LEMMA KnowsKept ==
    ASSUME NEW a, NEW n, Knows(a, n),
           call'[a].scope = call[a].scope, call'[a].first = call[a].first,
           script'[n] = script[n], ress'[n] = ress[n], Read(n)' = Read(n)
    PROVE  Knows(a, n)'
BY DEF Knows, Collected

\* What a step of thread a must see to: its own call n, and nothing of another's.
LeavesOthers(a, n) ==
    /\ calls' = calls
    /\ \A b \in Caller \ {a} : call'[b] = call[b]
    /\ \A m \in Number \ {n} :
          /\ script'[m] = script[m] /\ ress'[m] = ress[m]
          /\ outcome'[m] = outcome[m] /\ Read(m)' = Read(m)

GoesOn(a, n) ==
    /\ call'[a].n = n /\ outcome'[n].how = "none"
    /\ call'[a].at \in {"queue", "opening", "put"} =>
          call[a].at \in {"queue", "opening", "put"} /\ script'[n] = script[n]
    /\ ~call'[a].passed => Knows(a, n)'

LEMMA HasAllKept ==
    ASSUME NEW n, HasAll(n), script'[n] = script[n], ress'[n] = ress[n],
           outcome'[n] = outcome[n], Read(n)' = Read(n)
    PROVE  HasAll(n)'
BY DEF HasAll, Responses

LEMMA StepEffect ==
    ASSUME IInv, NEW a \in Caller, Busy(a), NEW n \in Number, n = call[a].n,
           LeavesOthers(a, n), Busy(a)' => GoesOn(a, n), HasAll(n)'
    PROVE  OneThreadEach' /\ SilentBefore' /\ LoopKnows' /\ AllHaveAll'
<1>0. n \in 1..calls /\ n <= calls /\ calls \in Nat /\ MaxCalls \in Nat
  BY BusyNumber
<1>1. \A b \in Caller \ {a} : Busy(b) => call[b].n \in Number \ {n}
  BY BusyNumber DEF IInv, OneThreadEach
<1>2. OneThreadEach'
  <2>1. \A b \in Caller : Busy(b)' => call'[b].n \in 1..calls' /\ outcome'[call'[b].n].how = "none"
    BY <1>0, <1>1 DEF IInv, OneThreadEach, Busy, LeavesOthers, GoesOn
  <2>2. \A b, d \in Caller : Busy(b)' /\ Busy(d)' /\ call'[b].n = call'[d].n => b = d
    BY <1>1 DEF IInv, OneThreadEach, Busy, LeavesOthers, GoesOn
  <2> QED
    BY <2>1, <2>2 DEF OneThreadEach
<1>3. SilentBefore'
  <2>1. \A m \in Number : m > calls => m # n
    BY <1>0 DEF Number
  <2>2. ASSUME NEW m \in Number, NotPut(m)' PROVE script'[m] = <<>>
    <3>1. CASE m = n
      <4>1. call'[a].at \in {"queue", "opening", "put"}
        BY <1>1, <2>1, <2>2, <3>1 DEF NotPut, Busy, LeavesOthers
      <4>2. script'[n] = script[n] /\ NotPut(n)
        BY <4>1 DEF GoesOn, Busy, NotPut
      <4> QED
        BY <3>1, <4>2 DEF IInv, SilentBefore
    <3>2. CASE m # n
      <4>1. NotPut(m)
        BY <2>2, <3>2 DEF NotPut, LeavesOthers, GoesOn, Busy
      <4> QED
        BY <3>2, <4>1 DEF IInv, SilentBefore, LeavesOthers
    <3> QED
      BY <3>1, <3>2
  <2> QED
    BY <2>1, <2>2 DEF IInv, SilentBefore, LeavesOthers
<1>4. LoopKnows'
  <2> SUFFICES ASSUME NEW b \in Caller, Busy(b)', ~call'[b].passed PROVE Knows(b, call[b].n)'
    BY DEF LoopKnows
  <2>1. CASE b = a
    BY <2>1 DEF Busy, GoesOn
  <2>2. CASE b # a
    <3>1. PICK m : m = call[b].n
      OBVIOUS
    <3>2. Knows(b, m) /\ call'[b] = call[b] /\ m \in Number \ {n}
      BY <1>1, <2>2, <3>1 DEF IInv, LoopKnows, Busy, LeavesOthers
    <3>3. Knows(b, m)'
      BY <3>2, KnowsKept DEF LeavesOthers
    <3> QED
      BY <3>1, <3>2, <3>3
  <2> QED
    BY <2>1, <2>2
<1>5. AllHaveAll'
  <2> SUFFICES ASSUME NEW m \in Number PROVE HasAll(m)'
    BY DEF AllHaveAll, HasAll
  <2>1. CASE m = n
    BY <2>1
  <2>2. CASE m # n
    <3>1. /\ script'[m] = script[m] /\ ress'[m] = ress[m] /\ outcome'[m] = outcome[m]
          /\ Read(m)' = Read(m)
      BY <2>2 DEF LeavesOthers
    <3>2. HasAll(m)
      BY DEF IInv, AllHaveAll
    <3> QED
      BY <3>1, <3>2, HasAllKept
  <2> QED
    BY <2>1, <2>2
<1> QED
  BY <1>2, <1>3, <1>4, <1>5

-----------------------------------------------------------------------------
(* Steps that read nothing from the reply queue.                               *)

LEMMA NothingRead ==
    ASSUME IInv, UNCHANGED <<script, sent, replies>>
    PROVE  ReadInOrder' /\ \A m : Read(m)' = Read(m)
BY DEF IInv, ReadInOrder, Read

\* The name in _command_queue is as good as before.
LEMMA QueueKept ==
    ASSUME IInv, UNCHANGED <<commandQueue, open>>,
           \A b \in Caller : call[b].at = "closed" => call'[b] = call[b]
    PROVE  CommandQueueUsable'
BY DEF IInv, CommandQueueUsable, At

\* Thread a ends its call.
LEMMA EndTyped ==
    ASSUME IInv, NEW a \in Caller, Busy(a),
           NEW ending \in {"returned", "firstError", "pcfError", "mqiError"}, End(a, ending)
    PROVE  /\ call' \in [Caller -> Call] /\ outcome' \in [Number -> Outcome]
           /\ call'[a] = Idle /\ ~Busy(a)'
           /\ \A b \in Caller \ {a} : call'[b] = call[b]
           /\ outcome'[call[a].n] = [how |-> ending, passed |-> call[a].passed]
           /\ \A m \in Number \ {call[a].n} : outcome'[m] = outcome[m]
           /\ \A b \in Caller : call'[b].queue = None => call'[b].at \in {"idle", "queue", "opening"}
<1>0. call[a].n \in Number /\ Idle.at = "idle" /\ Idle \in Call
  <2>1. 0 \in 0..MaxCalls
    BY PcfAssumption
  <2> QED
    BY <2>1, BusyNumber DEF Call, Idle, Place
<1>1. call[a].n \in Number /\ call[a].passed \in BOOLEAN /\ Idle \in Call
  BY <1>0 DEF IInv, TypeOK, Call
<1>2. call' \in [Caller -> Call] /\ call'[a] = Idle /\ \A b \in Caller \ {a} : call'[b] = call[b]
  BY <1>1 DEF End, IInv, TypeOK
<1>3. /\ outcome' \in [Number -> Outcome]
      /\ outcome'[call[a].n] = [how |-> ending, passed |-> call[a].passed]
      /\ \A m \in Number \ {call[a].n} : outcome'[m] = outcome[m]
  BY <1>1 DEF End, IInv, TypeOK, Outcome
<1>4. ~Busy(a)'
  BY <1>0, <1>2 DEF Busy
<1> QED
  BY <1>0, <1>2, <1>3, <1>4 DEF IInv, TypeOK

LEMMA RaiseEffect ==
    ASSUME IInv, NEW a \in Caller, Busy(a), call[a].at # "closed",
           NEW ending \in {"pcfError", "mqiError"}, End(a, ending),
           UNCHANGED <<calls, script, sent, ress>>,
           \A m \in Number \ {call[a].n} : Read(m)' = Read(m)
    PROVE  /\ OneThreadEach' /\ SilentBefore' /\ LoopKnows' /\ AllHaveAll'
           /\ UNCHANGED <<commandQueue, open>> => CommandQueueUsable'
<1>1. PICK n \in Number : n = call[a].n
  BY BusyNumber
<1>2. /\ ~Busy(a)' /\ \A b \in Caller \ {a} : call'[b] = call[b]
      /\ outcome'[n] = [how |-> ending, passed |-> call[a].passed]
      /\ \A m \in Number \ {n} : outcome'[m] = outcome[m]
  BY <1>1, EndTyped
<1>3. LeavesOthers(a, n)
  BY <1>1, <1>2 DEF LeavesOthers
<1>4. HasAll(n)'
  <2>1. outcome'[n].how = ending /\ ending \notin {"returned", "firstError"}
    BY <1>2
  <2> QED
    BY <2>1 DEF HasAll
<1>5. OneThreadEach' /\ SilentBefore' /\ LoopKnows' /\ AllHaveAll'
  BY <1>1, <1>2, <1>3, <1>4, StepEffect
<1>6. UNCHANGED <<commandQueue, open>> => CommandQueueUsable'
  BY <1>2, QueueKept
<1> QED
  BY <1>5, <1>6

\* Thread a goes to another place in its call.
LEMMA MoveEffect ==
    ASSUME IInv, NEW a \in Caller, Busy(a),
           \A b \in Caller \ {a} : call'[b] = call[b],
           call'[a].n = call[a].n, call'[a].passed = call[a].passed,
           call'[a].scope = call[a].scope, call'[a].first = call[a].first,
           call'[a].at \in {"queue", "opening", "put"} => call[a].at \in {"queue", "opening", "put"},
           UNCHANGED <<calls, script, sent, replies, ress, outcome>>
    PROVE  OneThreadEach' /\ SilentBefore' /\ LoopKnows' /\ AllHaveAll' /\ ReadInOrder'
<1>1. PICK n \in Number : n = call[a].n
  BY BusyNumber
<1>2. ReadInOrder' /\ \A m : Read(m)' = Read(m)
  BY NothingRead
<1>3. LeavesOthers(a, n)
  BY <1>2 DEF LeavesOthers
<1>4. ~call'[a].passed => Knows(a, n)'
  <2>1. ~call[a].passed => Knows(a, n)
    BY <1>1 DEF IInv, LoopKnows
  <2>2. Knows(a, n) => Knows(a, n)'
    BY <1>2, KnowsKept
  <2> QED
    BY <2>1, <2>2
<1>5. GoesOn(a, n)
  BY <1>1, <1>4 DEF GoesOn, IInv, OneThreadEach
<1>6. HasAll(n)'
  <2>1. HasAll(n)
    BY DEF IInv, AllHaveAll
  <2> QED
    BY <1>2, <2>1, HasAllKept
<1>7. OneThreadEach' /\ SilentBefore' /\ LoopKnows' /\ AllHaveAll'
  BY <1>1, <1>3, <1>5, <1>6, StepEffect
<1> QED
  BY <1>2, <1>7

\* Nothing happens to calls; the server and the connection go on.
LEMMA CallsKept ==
    ASSUME IInv, UNCHANGED <<calls, script, call, ress, outcome>>,
           \A m \in Number : Read(m)' = Read(m)
    PROVE  OneThreadEach' /\ SilentBefore' /\ LoopKnows' /\ AllHaveAll'
<1>1. OneThreadEach' /\ SilentBefore'
  BY DEF IInv, OneThreadEach, SilentBefore, Busy, NotPut
<1>2. AllHaveAll'
  BY HasAllKept DEF IInv, AllHaveAll
<1>3. LoopKnows'
  <2> SUFFICES ASSUME NEW b \in Caller, Busy(b), ~call[b].passed PROVE Knows(b, call[b].n)'
    BY DEF LoopKnows, Busy
  <2>1. PICK m \in Number : m = call[b].n
    BY BusyNumber
  <2>2. Knows(b, m)
    BY <2>1 DEF IInv, LoopKnows
  <2>3. Knows(b, m)'
    BY <2>2, KnowsKept
  <2> QED
    BY <2>1, <2>3
<1> QED
  BY <1>1, <1>2, <1>3

-----------------------------------------------------------------------------
(* The command                                                                 *)

\* Thread a is somewhere else in its call, perhaps with a queue.
LEMMA MoveTyped ==
    ASSUME IInv, NEW a \in Caller, Busy(a), NEW place \in Place, NEW queue \in QueueObject \cup {None},
           call' = [call EXCEPT ![a].at = place, ![a].queue = queue]
    PROVE  /\ call' \in [Caller -> Call]
           /\ call'[a].at = place /\ call'[a].queue = queue
           /\ call'[a].n = call[a].n /\ call'[a].passed = call[a].passed
           /\ call'[a].scope = call[a].scope /\ call'[a].first = call[a].first
           /\ \A b \in Caller \ {a} : call'[b] = call[b]
BY DEF IInv, TypeOK, Call

LEMMA GoToTyped ==
    ASSUME IInv, NEW a \in Caller, Busy(a), NEW place \in Place, GoTo(a, place)
    PROVE  /\ call' \in [Caller -> Call]
           /\ call'[a].at = place /\ call'[a].queue = call[a].queue
           /\ call'[a].n = call[a].n /\ call'[a].passed = call[a].passed
           /\ call'[a].scope = call[a].scope /\ call'[a].first = call[a].first
           /\ \A b \in Caller \ {a} : call'[b] = call[b]
BY DEF IInv, TypeOK, Call, GoTo

LEMMA UseQueueStep == ASSUME IInv, NEW a \in Caller, UseQueue(a) PROVE IInv'
<1>1. Busy(a) /\ call[a].at = "queue"
  BY DEF UseQueue, At, Busy
<1>2. UNCHANGED <<calls, commandQueue, open, script, sent, replies, ress, outcome, broken>>
  BY DEF UseQueue
<1>3. /\ call' \in [Caller -> Call] /\ call'[a].at \in {"opening", "put"}
      /\ call'[a].n = call[a].n /\ call'[a].passed = call[a].passed
      /\ call'[a].scope = call[a].scope /\ call'[a].first = call[a].first
      /\ \A b \in Caller \ {a} : call'[b] = call[b]
      /\ call'[a].queue = None => call'[a].at = "opening"
  <2>1. CASE commandQueue = None
    <3>1. GoTo(a, "opening") /\ "opening" \in Place
      BY <2>1 DEF UseQueue, Place
    <3> QED
      BY <1>1, <3>1, GoToTyped
  <2>2. CASE commandQueue # None
    <3>1. /\ call' = [call EXCEPT ![a].at = "put", ![a].queue = commandQueue]
          /\ "put" \in Place /\ commandQueue \in QueueObject \cup {None}
      BY <2>2 DEF UseQueue, Place, IInv, TypeOK
    <3>2. /\ call' \in [Caller -> Call]
          /\ call'[a].at = "put" /\ call'[a].queue = commandQueue
          /\ call'[a].n = call[a].n /\ call'[a].passed = call[a].passed
          /\ call'[a].scope = call[a].scope /\ call'[a].first = call[a].first
          /\ \A b \in Caller \ {a} : call'[b] = call[b]
      BY ZenonT(30), <1>1, <3>1, MoveTyped
    <3> QED
      BY <2>2, <3>2
  <2> QED
    BY <2>1, <2>2
<1>4. OneThreadEach' /\ SilentBefore' /\ LoopKnows' /\ AllHaveAll' /\ ReadInOrder'
  BY <1>1, <1>2, <1>3, MoveEffect
<1>5. CommandQueueUsable'
  BY <1>1, <1>2, <1>3, QueueKept
<1>6. TypeOK'
  BY <1>2, <1>3 DEF IInv, TypeOK
<1> QED
  BY <1>4, <1>5, <1>6 DEF IInv

LEMMA OpenQueueStep == ASSUME IInv, NEW a \in Caller, OpenQueue(a) PROVE IInv'
<1>1. Busy(a) /\ call[a].at = "opening" /\ call[a].n \in Number
  BY BusyNumber DEF OpenQueue, At, Busy
<1>2. UNCHANGED <<calls, script, sent, replies, ress, broken>>
  BY DEF OpenQueue
<1>3. CASE /\ open' = open \cup {call[a].n} /\ commandQueue' = call[a].n
           /\ call' = [call EXCEPT ![a].at = "put", ![a].queue = call[a].n]
           /\ UNCHANGED outcome
  <2>1. call[a].n \in QueueObject /\ call[a].n # None
    BY <1>1, PcfAssumption DEF QueueObject, Number
  <2>2. /\ call' \in [Caller -> Call] /\ call'[a].at = "put" /\ call'[a].queue = call[a].n
        /\ call'[a].n = call[a].n /\ call'[a].passed = call[a].passed
        /\ call'[a].scope = call[a].scope /\ call'[a].first = call[a].first
        /\ \A b \in Caller \ {a} : call'[b] = call[b]
    <3>1. "put" \in Place
      BY DEF Place
    <3> QED
      BY ZenonT(30), <1>1, <1>3, <2>1, <3>1, MoveTyped
  <2>3. OneThreadEach' /\ SilentBefore' /\ LoopKnows' /\ AllHaveAll' /\ ReadInOrder'
    BY <1>1, <1>2, <1>3, <2>2, MoveEffect
  <2>4. CommandQueueUsable'
    BY <1>3 DEF CommandQueueUsable
  <2>5. TypeOK'
    BY <1>2, <1>3, <2>1, <2>2 DEF IInv, TypeOK
  <2> QED
    BY <2>3, <2>4, <2>5 DEF IInv
<1>4. CASE End(a, "mqiError") /\ UNCHANGED <<open, commandQueue>>
  <2>1. ReadInOrder' /\ \A m : Read(m)' = Read(m)
    BY <1>2, NothingRead
  <2>2. /\ OneThreadEach' /\ SilentBefore' /\ LoopKnows' /\ AllHaveAll'
        /\ CommandQueueUsable'
    BY <1>1, <1>2, <1>4, <2>1, RaiseEffect
  <2>3. TypeOK'
    BY <1>1, <1>2, <1>4, EndTyped DEF IInv, TypeOK
  <2> QED
    BY <2>1, <2>2, <2>3 DEF IInv
<1> QED
  BY <1>3, <1>4 DEF OpenQueue, RaiseMQI

\* A step that ends the call and changes nothing else.
LEMMA RaiseStep ==
    ASSUME IInv, NEW a \in Caller, Busy(a), call[a].at # "closed", End(a, "mqiError"),
           UNCHANGED <<calls, commandQueue, open, script, sent, replies, ress, broken>>
    PROVE  IInv'
<1>1. ReadInOrder' /\ \A m : Read(m)' = Read(m)
  BY NothingRead
<1>2. /\ OneThreadEach' /\ SilentBefore' /\ LoopKnows' /\ AllHaveAll'
      /\ CommandQueueUsable'
  BY <1>1, RaiseEffect
<1>3. TypeOK'
  BY EndTyped DEF IInv, TypeOK
<1> QED
  BY <1>1, <1>2, <1>3 DEF IInv

LEMMA PutFailsStep == ASSUME IInv, NEW a \in Caller, PutFails(a) PROVE IInv'
BY RaiseStep DEF PutFails, At, Busy, RaiseMQI

LEMMA PutStep == ASSUME IInv, NEW a \in Caller, Put(a) PROVE IInv'
<1>1. PICK n \in Number : n = call[a].n
  BY BusyNumber DEF Put, At, Busy
<1>2. Busy(a) /\ call[a].at = "put" /\ NotPut(n)
  BY <1>1 DEF Put, At, Busy, NotPut
<1>3. PICK s \in Script : script' = [script EXCEPT ![n] = s]
  BY <1>1 DEF Put
<1>4. PICK place \in {"close", "get"} : GoTo(a, place)
  BY DEF Put
<1>5. UNCHANGED <<calls, commandQueue, open, sent, replies, ress, outcome, broken>>
  BY DEF Put
<1>6. /\ call' \in [Caller -> Call] /\ call'[a].at \in {"close", "get"} /\ call'[a].queue = call[a].queue
      /\ call'[a].n = n /\ call'[a].passed = call[a].passed
      /\ call'[a].scope = call[a].scope /\ call'[a].first = call[a].first
      /\ \A b \in Caller \ {a} : call'[b] = call[b]
  <2>1. place \in Place
    BY DEF Place
  <2> QED
    BY <1>1, <1>2, <1>4, <2>1, GoToTyped
<1>7. script'[n] = s /\ \A m \in Number \ {n} : script'[m] = script[m]
  BY <1>3 DEF IInv, TypeOK
<1>8. sent[n] = 0 /\ Read(n) = {}
  BY <1>2, SilentRead
<1>9. \A m : Read(m)' = Read(m)
  BY <1>5 DEF Read
<1>10. ReadInOrder'
  BY <1>5 DEF IInv, ReadInOrder
<1>11. LeavesOthers(a, n)
  BY <1>5, <1>6, <1>7, <1>9 DEF LeavesOthers
<1>12. ~call'[a].passed => Knows(a, n)'
  <2>1. ~call[a].passed => Knows(a, n)
    BY <1>1, <1>2 DEF IInv, LoopKnows
  <2>2. Read(n)' = {}
    BY <1>8, <1>9
  <2>3. Collected(n) = {} /\ Collected(n)' = {}
    BY <1>8, <2>2 DEF Collected
  <2>4. ~call[a].passed => ress[n] = {} /\ call[a].scope = FALSE /\ call[a].first = FALSE
    BY <1>8, <2>1, <2>3 DEF Knows
  <2> QED
    BY <1>5, <1>6, <2>2, <2>3, <2>4 DEF Knows
<1>13. GoesOn(a, n)
  BY <1>1, <1>2, <1>5, <1>6, <1>12 DEF GoesOn, IInv, OneThreadEach
<1>14. HasAll(n)'
  BY <1>1, <1>2, <1>5 DEF HasAll, IInv, OneThreadEach
<1>15. OneThreadEach' /\ SilentBefore' /\ LoopKnows' /\ AllHaveAll'
  BY <1>1, <1>2, <1>11, <1>13, <1>14, StepEffect
<1>16. CommandQueueUsable'
  BY <1>2, <1>5, <1>6, QueueKept
<1>17. TypeOK'
  <2>1. \A m \in Number : sent'[m] \in Nat /\ sent'[m] <= Len(script'[m])
    <3>1. Len(s) \in Nat
      BY PcfAssumption
    <3> QED
      BY <1>5, <1>7, <1>8, <3>1 DEF IInv, TypeOK
  <2>2. script' \in [Number -> Script \cup {<<>>}]
    BY <1>3 DEF IInv, TypeOK
  <2>3. call'[a].queue # None
    BY <1>2, <1>6 DEF IInv, TypeOK
  <2> QED
    BY <1>5, <1>6, <2>1, <2>2, <2>3 DEF IInv, TypeOK
<1> QED
  BY <1>10, <1>15, <1>16, <1>17 DEF IInv

LEMMA CloseQueueStep == ASSUME IInv, NEW a \in Caller, CloseQueue(a) PROVE IInv'
<1>1. Busy(a) /\ call[a].at = "close"
  BY DEF CloseQueue, At, Busy
<1>2. UNCHANGED <<calls, commandQueue, script, sent, replies, ress, broken>>
  BY DEF CloseQueue
<1>3. CASE open' = open \ {call[a].queue} /\ GoTo(a, "closed") /\ UNCHANGED outcome
  <2>1. /\ call' \in [Caller -> Call] /\ call'[a].at = "closed" /\ call'[a].queue = call[a].queue
        /\ call'[a].n = call[a].n /\ call'[a].passed = call[a].passed
        /\ call'[a].scope = call[a].scope /\ call'[a].first = call[a].first
        /\ \A b \in Caller \ {a} : call'[b] = call[b]
    <3>1. "closed" \in Place
      BY DEF Place
    <3> QED
      BY <1>1, <1>3, <3>1, GoToTyped
  <2>2. OneThreadEach' /\ SilentBefore' /\ LoopKnows' /\ AllHaveAll' /\ ReadInOrder'
    BY <1>1, <1>2, <1>3, <2>1, MoveEffect
  <2>3. CommandQueueUsable'
    BY <1>1, <1>2, <1>3, <2>1 DEF IInv, CommandQueueUsable, At
  <2>4. TypeOK'
    BY <1>1, <1>2, <1>3, <2>1 DEF IInv, TypeOK
  <2> QED
    BY <2>2, <2>3, <2>4 DEF IInv
<1>4. CASE End(a, "mqiError") /\ UNCHANGED open
  BY <1>1, <1>2, <1>4, RaiseStep
<1> QED
  BY <1>3, <1>4 DEF CloseQueue, RaiseMQI

LEMMA ForgetQueueStep == ASSUME IInv, NEW a \in Caller, ForgetQueue(a) PROVE IInv'
<1>1. Busy(a) /\ call[a].at = "closed"
  BY DEF ForgetQueue, At, Busy
<1>2. UNCHANGED <<calls, open, script, sent, replies, ress, outcome, broken>> /\ commandQueue' = None
  BY DEF ForgetQueue
<1>3. /\ call' \in [Caller -> Call] /\ call'[a].at = "get" /\ call'[a].queue = call[a].queue
      /\ call'[a].n = call[a].n /\ call'[a].passed = call[a].passed
      /\ call'[a].scope = call[a].scope /\ call'[a].first = call[a].first
      /\ \A b \in Caller \ {a} : call'[b] = call[b]
  <2>1. "get" \in Place /\ GoTo(a, "get")
    BY DEF Place, ForgetQueue
  <2> QED
    BY <1>1, <2>1, GoToTyped
<1>4. OneThreadEach' /\ SilentBefore' /\ LoopKnows' /\ AllHaveAll' /\ ReadInOrder'
  BY <1>1, <1>2, <1>3, MoveEffect
<1>5. CommandQueueUsable'
  BY <1>2 DEF CommandQueueUsable
<1>6. TypeOK'
  BY <1>1, <1>2, <1>3 DEF IInv, TypeOK
<1> QED
  BY <1>4, <1>5, <1>6 DEF IInv

LEMMA BeginStep == ASSUME IInv, NEW a \in Caller, NEW ignore \in BOOLEAN, Begin(a, ignore) PROVE IInv'
<1>1. ~Busy(a) /\ calls < MaxCalls /\ calls \in Nat /\ MaxCalls \in Nat
  BY PcfAssumption DEF Begin, At, Busy, IInv, TypeOK
<1>2. UNCHANGED <<commandQueue, open, script, sent, replies, ress, outcome, broken>> /\ calls' = calls + 1
  BY DEF Begin
<1>3. PICK n \in Number : n = calls + 1
  BY <1>1 DEF Number
<1>4. /\ call' \in [Caller -> Call] /\ call'[a].at = "queue" /\ call'[a].n = n
      /\ call'[a].scope = FALSE /\ call'[a].first = FALSE /\ call'[a].passed = FALSE
      /\ \A b \in Caller \ {a} : call'[b] = call[b]
  <2> DEFINE new == [Idle EXCEPT !.at = "queue", !.n = n, !.ignore = ignore]
  <2>1. n \in 0..MaxCalls
    BY <1>1 DEF Number
  <2>2. /\ new \in Call /\ new.at = "queue" /\ new.n = n
        /\ new.scope = FALSE /\ new.first = FALSE /\ new.passed = FALSE
    BY <2>1 DEF Idle, Call, Place
  <2>3. call' = [call EXCEPT ![a] = new]
    BY <1>3 DEF Begin
  <2> HIDE DEF new
  <2> QED
    BY <2>2, <2>3 DEF IInv, TypeOK
<1>5. /\ script[n] = <<>> /\ ress[n] = {} /\ outcome[n].how = "none" /\ sent[n] = 0 /\ Read(n) = {}
  <2>1. n > calls /\ NotPut(n)
    BY <1>1, <1>3 DEF NotPut
  <2> QED
    BY <2>1, SilentRead DEF IInv, SilentBefore
<1>6. \A b \in Caller : Busy(b) => call[b].n # n /\ call[b].n \in 1..calls'
  BY <1>1, <1>2, <1>3, BusyNumber
<1>7. OneThreadEach'
  <2>1. n \in 1..calls'
    BY <1>1, <1>2, <1>3
  <2> QED
    BY <1>2, <1>4, <1>5, <1>6, <2>1 DEF IInv, OneThreadEach, Busy
<1>8. SilentBefore'
  <2>1. \A m \in Number : m > calls' => m > calls
    BY <1>1, <1>2 DEF Number
  <2>2. \A m \in Number : NotPut(m)' => NotPut(m) \/ m = n
    BY <1>4, <2>1 DEF NotPut
  <2> QED
    BY <1>2, <1>5, <2>1, <2>2 DEF IInv, SilentBefore
<1>9. ReadInOrder' /\ \A m : Read(m)' = Read(m)
  BY <1>2, NothingRead DEF IInv
<1>10. LoopKnows'
  <2> SUFFICES ASSUME NEW b \in Caller, Busy(b)', ~call'[b].passed PROVE Knows(b, call[b].n)'
    BY DEF LoopKnows
  <2>1. CASE b = a
    <3>1. Read(n)' = {} /\ Collected(n)' = {}
      BY <1>5, <1>9 DEF Collected
    <3>2. Knows(a, n)'
      BY <1>2, <1>4, <1>5, <3>1 DEF Knows
    <3> QED
      BY <1>4, <2>1, <3>2
  <2>2. CASE b # a
    <3>1. PICK m : m = call[b].n
      OBVIOUS
    <3>2. Knows(b, m) /\ call'[b] = call[b]
      BY <1>4, <2>2, <3>1 DEF IInv, LoopKnows, Busy
    <3>3. Knows(b, m)'
      BY <1>2, <1>9, <3>2, KnowsKept
    <3> QED
      BY <3>1, <3>2, <3>3
  <2> QED
    BY <2>1, <2>2
<1>11. AllHaveAll'
  BY <1>2, <1>9, HasAllKept DEF IInv, AllHaveAll
<1>12. CommandQueueUsable'
  BY <1>1, <1>2, <1>4, QueueKept DEF Busy
<1>13. TypeOK'
  <2>1. calls' \in 0..MaxCalls
    BY <1>1, <1>2
  <2>2. \A b \in Caller : call'[b].queue = None => call'[b].at \in {"idle", "queue", "opening"}
    BY <1>4 DEF IInv, TypeOK
  <2> QED
    BY <1>2, <1>4, <2>1, <2>2 DEF IInv, TypeOK
<1> QED
  BY <1>7, <1>8, <1>9, <1>10, <1>11, <1>12, <1>13 DEF IInv

-----------------------------------------------------------------------------
(* The server and the connection                                               *)

LEMMA AnswerStep == ASSUME IInv, NEW n \in Number, Answer(n) PROVE IInv'
<1> DEFINE r == <<n, sent[n] + 1>>
<1>1. sent[n] \in Nat /\ sent[n] < Len(script[n])
  BY DEF Answer, IInv, TypeOK
<1>2. UNCHANGED <<calls, commandQueue, open, script, call, ress, outcome, broken>>
  BY DEF Answer
<1>3. /\ sent' \in [Number -> Nat] /\ sent'[n] = sent[n] + 1
      /\ \A m \in Number \ {n} : sent'[m] = sent[m]
      /\ replies' = replies \cup {r}
  BY <1>1 DEF Answer, IInv, TypeOK
<1>4. \A q \in replies : q[1] \in Number /\ q[2] \in Nat \ {0} /\ q[2] <= sent[q[1]]
  BY DEF IInv, TypeOK
<1>5. TypeOK'
  <2>1. \A m \in Number : sent'[m] <= Len(script'[m])
    <3>1. script[n] \in Seq(Reply)
      BY ScriptTyped
    <3>2. sent[n] + 1 <= Len(script[n])
      BY <1>1, <3>1
    <3>3. \A m \in Number \ {n} : sent'[m] <= Len(script'[m])
      BY <1>2, <1>3 DEF IInv, TypeOK
    <3> QED
      BY <1>2, <1>3, <3>2, <3>3
  <2>2. replies' \subseteq Number \X (Nat \ {0})
    BY <1>1, <1>3 DEF IInv, TypeOK
  <2>3. \A q \in replies' : q[2] <= sent'[q[1]]
    BY <1>1, <1>3, <1>4 DEF IInv, TypeOK
  <2> QED
    BY <1>2, <1>3, <2>1, <2>2, <2>3 DEF IInv, TypeOK
<1>6. ReadInOrder'
  <2> SUFFICES ASSUME NEW q \in replies', NEW i \in Nat, q[2] < i, i <= sent'[q[1]]
               PROVE  <<q[1], i>> \in replies'
    BY DEF ReadInOrder
  <2>1. q \in replies
    BY <1>1, <1>3
  <2>2. CASE q[1] # n \/ i <= sent[n]
    BY <1>3, <1>4, <2>1, <2>2 DEF IInv, ReadInOrder
  <2>3. CASE q[1] = n /\ i > sent[n]
    BY <1>1, <1>3, <2>3
  <2> QED
    BY <1>1, <2>2, <2>3
<1>7. \A m \in Number : Read(m)' = Read(m)
  <2> SUFFICES ASSUME NEW m \in Number PROVE Read(m)' = Read(m)
    OBVIOUS
  <2>1. CASE m # n
    <3>1. sent'[m] = sent[m] /\ \A i : <<m, i>> \in replies' <=> <<m, i>> \in replies
      BY <1>3, <2>1
    <3> QED
      BY <3>1 DEF Read
  <2>2. CASE m = n
    <3>1. \A i \in 1..sent'[n] : <<n, i>> \notin replies' <=> i \in 1..sent[n] /\ <<n, i>> \notin replies
      BY <1>1, <1>3
    <3>2. \A i \in 1..sent[n] : i \in 1..sent'[n]
      BY <1>1, <1>3
    <3> QED
      BY <2>2, <3>1, <3>2 DEF Read
  <2> QED
    BY <2>1, <2>2
<1>8. OneThreadEach' /\ SilentBefore' /\ LoopKnows' /\ AllHaveAll'
  BY <1>2, <1>7, CallsKept
<1>9. CommandQueueUsable'
  BY <1>2, QueueKept
<1> QED
  BY <1>5, <1>6, <1>8, <1>9 DEF IInv

\* Nothing changes but the connection.
LEMMA BreakStep ==
    ASSUME IInv, UNCHANGED <<calls, commandQueue, open, script, sent, replies, call, ress, outcome>>,
           broken' \in BOOLEAN
    PROVE  IInv'
<1>1. ReadInOrder' /\ \A m : Read(m)' = Read(m)
  BY NothingRead
<1>2. OneThreadEach' /\ SilentBefore' /\ LoopKnows' /\ AllHaveAll'
  BY <1>1, CallsKept
<1>3. CommandQueueUsable'
  BY QueueKept
<1>4. TypeOK'
  BY DEF IInv, TypeOK
<1> QED
  BY <1>1, <1>2, <1>3, <1>4 DEF IInv

-----------------------------------------------------------------------------
(* The replies                                                                 *)

\* What the MQGET of call n takes is the first reply that has not been read.
LEMMA TakesNext ==
    ASSUME IInv, NEW n \in Number, NEW r \in replies, NextReply(n, r),
           replies' = replies \ {r}, sent' = sent
    PROVE  /\ r = <<n, r[2]>> /\ r[1] = n /\ r[2] \in 1..sent[n]
           /\ Read(n) = 1..(r[2] - 1) /\ Read(n)' = 1..r[2]
           /\ \A m \in Number \ {n} : Read(m)' = Read(m)
           /\ ReadInOrder'
<1>1. r = <<r[1], r[2]>> /\ r[1] = n /\ r[2] \in Nat \ {0} /\ r[2] <= sent[n] /\ sent[n] \in Nat
  BY DEF IInv, TypeOK, NextReply, Matches
<1>2. \A i \in Nat : i < r[2] => <<n, i>> \notin replies
  BY <1>1 DEF NextReply, Matches
<1>3. \A i \in Nat : r[2] < i /\ i <= sent[n] => <<n, i>> \in replies
  BY <1>1 DEF IInv, ReadInOrder
<1>4. Read(n) = 1..(r[2] - 1)
  <2>1. \A i \in 1..sent[n] : <<n, i>> \notin replies <=> i < r[2]
    BY <1>1, <1>2, <1>3
  <2> QED
    BY <1>1, <2>1 DEF Read
<1>5. Read(n)' = 1..r[2]
  <2>1. \A i \in 1..sent[n] : <<n, i>> \notin replies' <=> i <= r[2]
    BY <1>1, <1>2, <1>3
  <2> QED
    BY <1>1, <2>1 DEF Read
<1>6. \A m \in Number \ {n} : Read(m)' = Read(m)
  <2> SUFFICES ASSUME NEW m \in Number \ {n} PROVE Read(m)' = Read(m)
    OBVIOUS
  <2>1. \A i : <<m, i>> \in replies' <=> <<m, i>> \in replies
    BY <1>1
  <2> QED
    BY <2>1 DEF Read
<1>7. ReadInOrder'
  <2> SUFFICES ASSUME NEW q \in replies', NEW i \in Nat, q[2] < i, i <= sent[q[1]]
               PROVE  <<q[1], i>> \in replies'
    BY DEF ReadInOrder
  <2>1. q \in replies /\ q = <<q[1], q[2]>> /\ q[2] \in Nat /\ <<q[1], i>> \in replies
    BY DEF IInv, TypeOK, ReadInOrder
  <2>2. q[1] = n => r[2] <= q[2]
    BY <1>1, <2>1 DEF NextReply, Matches
  <2> QED
    BY <1>1, <2>1, <2>2
<1> QED
  BY <1>1, <1>4, <1>5, <1>6, <1>7

\* A get that ends the call, with or without the reply.
LEMMA EndStep ==
    ASSUME IInv, NEW a \in Caller, At(a, "get"),
           NEW ending \in {"pcfError", "mqiError"}, End(a, ending),
           UNCHANGED <<calls, commandQueue, open, script, sent, ress, broken>>,
           replies' \subseteq replies, ReadInOrder',
           \A m \in Number \ {call[a].n} : Read(m)' = Read(m)
    PROVE  IInv'
<1>1. Busy(a) /\ call[a].at # "closed"
  BY DEF At, Busy
<1>2. /\ OneThreadEach' /\ SilentBefore' /\ LoopKnows' /\ AllHaveAll'
      /\ CommandQueueUsable'
  BY <1>1, RaiseEffect
<1>3. TypeOK'
  BY <1>1, EndTyped DEF IInv, TypeOK
<1> QED
  BY <1>2, <1>3 DEF IInv

LEMMA PassOverStep ==
    ASSUME IInv, NEW a \in Caller, At(a, "get"), call' = [call EXCEPT ![a].passed = TRUE],
           UNCHANGED <<calls, commandQueue, open, script, sent, ress, outcome, broken>>,
           replies' \subseteq replies, ReadInOrder',
           \A m \in Number \ {call[a].n} : Read(m)' = Read(m)
    PROVE  IInv'
<1>1. Busy(a) /\ call[a].at = "get"
  BY DEF At, Busy
<1>2. PICK n \in Number : n = call[a].n
  BY <1>1, BusyNumber
<1>3. /\ call' \in [Caller -> Call] /\ call'[a].at = "get" /\ call'[a].queue = call[a].queue
      /\ call'[a].n = n /\ call'[a].passed = TRUE
      /\ \A b \in Caller \ {a} : call'[b] = call[b]
  BY <1>1, <1>2 DEF IInv, TypeOK, Call
<1>4. LeavesOthers(a, n) /\ GoesOn(a, n)
  BY <1>1, <1>2, <1>3 DEF LeavesOthers, GoesOn, IInv, OneThreadEach
<1>5. HasAll(n)'
  BY <1>1, <1>2 DEF HasAll, IInv, OneThreadEach
<1>6. OneThreadEach' /\ SilentBefore' /\ LoopKnows' /\ AllHaveAll'
  BY <1>1, <1>2, <1>4, <1>5, StepEffect
<1>7. CommandQueueUsable'
  BY <1>1, <1>3, QueueKept DEF IInv
<1>8. TypeOK'
  BY <1>1, <1>3 DEF IInv, TypeOK
<1> QED
  BY <1>6, <1>7, <1>8 DEF IInv

LEMMA RaisePcfStep == ASSUME IInv, NEW a \in Caller, RaisePcf(a) PROVE IInv'
<1>1. PICK n \in Number : n = call[a].n
  BY BusyNumber DEF RaisePcf, At, Busy
<1>2. PICK r \in replies : NextReply(n, r) /\ replies' = replies \ {r}
  BY <1>1 DEF RaisePcf
<1>3. ReadInOrder' /\ \A m \in Number \ {n} : Read(m)' = Read(m)
  BY <1>2, TakesNext DEF RaisePcf
<1> QED
  BY <1>1, <1>2, <1>3, EndStep DEF RaisePcf

LEMMA GetWarnsStep == ASSUME IInv, NEW a \in Caller, GetWarns(a) PROVE IInv'
<1>1. PICK n \in Number : n = call[a].n
  BY BusyNumber DEF GetWarns, At, Busy
<1>2. PICK r \in replies : NextReply(n, r) /\ replies' = replies \ {r}
  BY <1>1 DEF GetWarns
<1>3. ReadInOrder' /\ \A m \in Number \ {n} : Read(m)' = Read(m)
  BY <1>2, TakesNext DEF GetWarns
<1>4. CASE End(a, "mqiError")
  BY <1>1, <1>2, <1>3, <1>4, EndStep DEF GetWarns
<1>5. CASE call' = [call EXCEPT ![a].passed = TRUE] /\ UNCHANGED outcome
  BY <1>1, <1>2, <1>3, <1>5, PassOverStep DEF GetWarns
<1> QED
  BY <1>4, <1>5 DEF GetWarns, RaiseOrPassOver, RaiseMQI

LEMMA GetFailsStep == ASSUME IInv, NEW a \in Caller, GetFails(a) PROVE IInv'
<1>1. ReadInOrder' /\ \A m : Read(m)' = Read(m)
  BY NothingRead DEF GetFails
<1>2. CASE End(a, "mqiError")
  BY <1>1, <1>2, EndStep DEF GetFails
<1>3. CASE call' = [call EXCEPT ![a].passed = TRUE] /\ UNCHANGED outcome
  BY <1>1, <1>3, PassOverStep DEF GetFails
<1> QED
  BY <1>2, <1>3 DEF GetFails, RaiseOrPassOver, RaiseMQI

LEMMA GetTimesOutStep == ASSUME IInv, NEW a \in Caller, GetTimesOut(a) PROVE IInv'
BY RaiseStep DEF GetTimesOut, At, Busy, RaiseMQI

-----------------------------------------------------------------------------
(* A reply without an error, or any reply when errors are ignored              *)

\* What the loop knows once it has taken the k-th reply to n.
LEMMA TakenKnown ==
    ASSUME IInv, NEW a \in Caller, NEW n \in Number, NEW k \in Nat \ {0},
           NEW reply, reply = script[n][k], Knows(a, n),
           script' = script, Read(n) = 1..(k - 1), Read(n)' = 1..k,
           ress'[n] = IF Appended(reply) THEN ress[n] \cup {<<n, k>>} ELSE ress[n]
    PROVE  /\ ress'[n] = Collected(n)'
           /\ InScope(a, reply) = \E i \in 1..k : Accepts(script[n][i])
           /\ FirstError(a, reply) = \E i \in 1..k : ~script[n][i].ok
<1>1. \A i : i \in 1..k <=> i \in 1..(k - 1) \/ i = k
  OBVIOUS
<1>2. ress'[n] = Collected(n)'
  BY <1>1 DEF Knows, Collected
<1>3. InScope(a, reply) = \E i \in 1..k : Accepts(script[n][i])
  BY <1>1 DEF Knows, InScope
<1>4. FirstError(a, reply) = \E i \in 1..k : ~script[n][i].ok
  BY <1>1 DEF Knows, FirstError
<1> QED
  BY <1>2, <1>3, <1>4

\* The mark of the last reply is met where the replies end.
LEMMA LastIsLast ==
    ASSUME IInv, NEW a \in Caller, NEW n \in Number, NEW k \in 1..Len(script[n]),
           NEW reply, reply = script[n][k], GotAllReplies(a, reply),
           InScope(a, reply) = \E i \in 1..k : Accepts(script[n][i])
    PROVE  k = Len(script[n])
<1>1. script[n] \in Seq(Reply)
  BY ScriptTyped
<1>2. script[n] \in Script
  <2>1. script[n] # <<>>
    BY <1>1
  <2> QED
    BY <2>1 DEF IInv, TypeOK
<1>3. Marked(script[n], k)
  BY DEF Marked, GotAllReplies
<1> QED
  BY <1>2, <1>3, ScriptAssumption

LEMMA TakeReplyStep == ASSUME IInv, NEW a \in Caller, TakeReply(a) PROVE IInv'
<1>1. PICK n \in Number : n = call[a].n
  BY BusyNumber DEF TakeReply, At, Busy
<1>2. /\ Busy(a) /\ call[a].at = "get"
      /\ UNCHANGED <<calls, commandQueue, open, script, sent, broken>>
  BY DEF TakeReply, At, Busy
<1>3. PICK r, reply :
          /\ r \in replies
          /\ reply = script[r[1]][r[2]] /\ NextReply(n, r) /\ replies' = replies \ {r}
          /\ ress' = IF Appended(reply)
                     THEN [ress EXCEPT ![n] = @ \cup {r}] ELSE ress
          /\ IF GotAllReplies(a, reply)
             THEN End(a, IF FirstError(a, reply) THEN "firstError" ELSE "returned")
             ELSE /\ call' = [call EXCEPT ![a].scope = InScope(a, reply),
                                          ![a].first = FirstError(a, reply)]
                  /\ UNCHANGED outcome
  BY <1>1 DEF TakeReply, ReplyOf
<1>4. PICK k : k = r[2]
  OBVIOUS
<1>5. /\ r = <<n, k>> /\ k \in 1..sent[n] /\ Read(n) = 1..(k - 1) /\ Read(n)' = 1..k
      /\ \A m \in Number \ {n} : Read(m)' = Read(m)
      /\ ReadInOrder'
  BY <1>2, <1>3, <1>4, TakesNext
<1>6. /\ reply = script[n][k] /\ script[n] \in Seq(Reply) /\ sent[n] \in Nat /\ k \in Nat \ {0}
      /\ k \in 1..Len(script[n]) /\ reply \in Reply
  <2>1. script[n] \in Seq(Reply) /\ sent[n] \in Nat /\ sent[n] <= Len(script[n])
    BY ScriptTyped DEF IInv, TypeOK
  <2> QED
    BY <1>3, <1>4, <1>5, <2>1
<1>7. /\ ress' \in [Number -> SUBSET (Number \X Nat)]
      /\ ress'[n] = IF Appended(reply) THEN ress[n] \cup {<<n, k>>} ELSE ress[n]
      /\ \A m \in Number \ {n} : ress'[m] = ress[m]
  <2>1. ress \in [Number -> SUBSET (Number \X Nat)] /\ r \in Number \X Nat
    BY <1>5, <1>6 DEF IInv, TypeOK
  <2>2. CASE Appended(reply)
    <3>1. ress' = [ress EXCEPT ![n] = ress[n] \cup {r}]
      BY <1>3, <2>2
    <3>2. ress[n] \cup {r} \in SUBSET (Number \X Nat)
      BY <2>1
    <3>3. /\ ress' \in [Number -> SUBSET (Number \X Nat)] /\ ress'[n] = ress[n] \cup {r}
          /\ \A m \in Number \ {n} : ress'[m] = ress[m]
      BY <2>1, <3>1, <3>2
    <3> QED
      BY <1>5, <2>2, <3>3
  <2>3. CASE ~Appended(reply)
    BY <1>3, <2>1, <2>3
  <2> QED
    BY <2>2, <2>3
<1>9. ~call[a].passed => /\ ress'[n] = Collected(n)'
                         /\ InScope(a, reply) = \E i \in 1..k : Accepts(script[n][i])
                         /\ FirstError(a, reply) = \E i \in 1..k : ~script[n][i].ok
  <2> SUFFICES ASSUME ~call[a].passed
               PROVE  /\ ress'[n] = Collected(n)'
                      /\ InScope(a, reply) = \E i \in 1..k : Accepts(script[n][i])
                      /\ FirstError(a, reply) = \E i \in 1..k : ~script[n][i].ok
    OBVIOUS
  <2>1. Knows(a, n)
    BY <1>1, <1>2 DEF IInv, LoopKnows
  <2>2. script' = script /\ Read(n) = 1..(k - 1) /\ Read(n)' = 1..k /\ reply = script[n][k]
    BY <1>2, <1>5, <1>6
  <2>3. ress'[n] = IF Appended(reply) THEN ress[n] \cup {<<n, k>>} ELSE ress[n]
    BY <1>7
  <2>4. k \in Nat \ {0}
    BY <1>6
  <2> QED
    BY ZenonT(30), <2>1, <2>2, <2>3, <2>4, TakenKnown
<1>10. CASE GotAllReplies(a, reply)
  <2>1. PICK ending \in {"firstError", "returned"} :
            End(a, ending) /\ (ending = "returned" => ~FirstError(a, reply))
    BY <1>3, <1>10
  <2>2. /\ call' \in [Caller -> Call] /\ outcome' \in [Number -> Outcome]
        /\ ~Busy(a)' /\ \A b \in Caller \ {a} : call'[b] = call[b]
        /\ outcome'[n] = [how |-> ending, passed |-> call[a].passed]
        /\ \A m \in Number \ {n} : outcome'[m] = outcome[m]
        /\ \A b \in Caller : call'[b].queue = None => call'[b].at \in {"idle", "queue", "opening"}
    BY <1>1, <1>2, <2>1, EndTyped
  <2>3. HasAll(n)'
    <3> SUFFICES ASSUME ~call[a].passed
                 PROVE  /\ ress'[n] = Responses(n)' /\ Read(n)' = DOMAIN script'[n]
                        /\ ending = "returned" => \A i \in DOMAIN script[n] : script[n][i].ok
      <4>1. script' = script /\ outcome'[n].how = ending /\ outcome'[n].passed = call[a].passed
        BY <1>2, <2>2
      <4> QED
        BY <4>1 DEF HasAll
    <3>1. k = Len(script[n])
      BY <1>6, <1>9, <1>10, LastIsLast
    <3>2. DOMAIN script[n] = 1..k /\ Read(n)' = DOMAIN script'[n]
      BY <1>2, <1>5, <1>6, <3>1
    <3>3. ress'[n] = Responses(n)'
      BY <1>2, <1>9, <3>2 DEF Responses, Collected, Appended
    <3>4. ending = "returned" => \A i \in DOMAIN script[n] : script[n][i].ok
      BY <1>9, <2>1, <3>2
    <3> QED
      BY <3>2, <3>3, <3>4
  <2>4. LeavesOthers(a, n)
    BY <1>2, <1>5, <1>7, <2>2 DEF LeavesOthers
  <2>5. OneThreadEach' /\ SilentBefore' /\ LoopKnows' /\ AllHaveAll'
    BY <1>1, <1>2, <2>2, <2>3, <2>4, StepEffect
  <2>6. CommandQueueUsable'
    BY <1>2, <2>2, QueueKept
  <2>7. TypeOK'
    BY <1>2, <1>3, <1>7, <2>2 DEF IInv, TypeOK
  <2> QED
    BY <1>5, <2>5, <2>6, <2>7 DEF IInv
<1>11. CASE ~GotAllReplies(a, reply)
  <2>1. PICK scope \in BOOLEAN, first \in BOOLEAN :
            scope = InScope(a, reply) /\ first = FirstError(a, reply)
    BY <1>6 DEF InScope, FirstError, Accepts, IInv, TypeOK, Call, Reply
  <2>2. call' = [call EXCEPT ![a].scope = scope, ![a].first = first] /\ outcome' = outcome
    BY <1>3, <1>11, <2>1
  <2>3. /\ call' \in [Caller -> Call] /\ call'[a].at = "get" /\ call'[a].queue = call[a].queue
        /\ call'[a].n = n /\ call'[a].passed = call[a].passed
        /\ call'[a].scope = scope /\ call'[a].first = first
        /\ \A b \in Caller \ {a} : call'[b] = call[b]
    <3> DEFINE new == [call[a] EXCEPT !.scope = scope, !.first = first]
    <3>1. call \in [Caller -> Call] /\ call' = [call EXCEPT ![a] = new]
      BY <2>2 DEF IInv, TypeOK
    <3>2. /\ new \in Call /\ new.at = call[a].at /\ new.queue = call[a].queue /\ new.n = call[a].n
          /\ new.passed = call[a].passed /\ new.scope = scope /\ new.first = first
      BY <3>1 DEF Call
    <3> HIDE DEF new
    <3> QED
      BY <1>1, <1>2, <3>1, <3>2
  <2>4. ~call'[a].passed => Knows(a, n)'
    BY <1>2, <1>5, <1>9, <2>1, <2>3 DEF Knows
  <2>5. GoesOn(a, n) /\ LeavesOthers(a, n)
    BY <1>1, <1>2, <1>5, <1>7, <2>2, <2>3, <2>4 DEF GoesOn, LeavesOthers, IInv, OneThreadEach
  <2>6. HasAll(n)'
    BY <1>1, <1>2, <2>2 DEF HasAll, IInv, OneThreadEach
  <2>7. OneThreadEach' /\ SilentBefore' /\ LoopKnows' /\ AllHaveAll'
    BY <1>1, <1>2, <2>5, <2>6, StepEffect
  <2>8. CommandQueueUsable'
    BY <1>2, <2>3, QueueKept
  <2>9. TypeOK'
    BY SMTT(30), <1>2, <1>3, <1>7, <2>2, <2>3 DEF IInv, TypeOK
  <2> QED
    BY <1>5, <2>7, <2>8, <2>9 DEF IInv
<1> QED
  BY <1>10, <1>11

-----------------------------------------------------------------------------
LEMMA IInvStep == IInv /\ [Next]_vars => IInv'
<1> SUFFICES ASSUME IInv, [Next]_vars PROVE IInv'
  OBVIOUS
<1>1. ASSUME NEW a \in Caller, NEW ignore \in BOOLEAN, Begin(a, ignore) PROVE IInv'
  BY <1>1, BeginStep
<1>2. ASSUME NEW a \in Caller, Proceed(a) PROVE IInv'
  BY <1>2, UseQueueStep, OpenQueueStep, PutStep, PutFailsStep, CloseQueueStep, ForgetQueueStep,
     TakeReplyStep, RaisePcfStep, GetWarnsStep, GetFailsStep, GetTimesOutStep DEF Proceed
<1>3. ASSUME NEW n \in Number, Answer(n) PROVE IInv'
  BY <1>3, AnswerStep
<1>4. CASE Break
  BY <1>4, BreakStep DEF Break
<1>5. CASE UNCHANGED vars
  BY <1>5, BreakStep DEF vars, IInv, TypeOK
<1> QED
  BY <1>1, <1>2, <1>3, <1>4, <1>5 DEF Next

LEMMA IInvAlways == Spec => []IInv
BY IInvInit, IInvStep, PTL DEF Spec

\* The variables have their types: a thread without a Queue is not past its MQOPEN, and
\* no reply is on the reply queue that the server has not sent.
THEOREM PcfExecTypeCorrect == Spec => []TypeOK
BY IInvAlways, PTL DEF IInv

\* A call that returns, or that raises the first error at its end, has every response to
\* its command, provided that the server marks the last reply and no other as the last
\* (ScriptAssumption) and the loop has passed over no MQI error (mqadmin.py:333-374).
THEOREM NothingMissingAlways == Spec => []NothingMissing
<1>1. IInv => NothingMissing
  BY DEF IInv, AllHaveAll, HasAll, NothingMissing
<1> QED
  BY <1>1, IInvAlways, PTL

\* A call that ends so leaves no reply on the reply queue, now or later
\* (mqadmin.py:348-359).
THEOREM NothingLeftBehindAlways == Spec => []NothingLeftBehind
<1>1. ASSUME IInv, NEW n \in Number, Read(n) = DOMAIN script[n]
      PROVE  sent[n] = Len(script[n]) /\ \A r \in replies : r[1] # n
  <2>1. script[n] \in Seq(Reply)
    BY <1>1, ScriptTyped
  <2>2. sent[n] \in Nat /\ sent[n] <= Len(script[n])
    BY <1>1 DEF IInv, TypeOK
  <2>3. \A i \in 1..Len(script[n]) : i <= sent[n] /\ <<n, i>> \notin replies
    BY <1>1, <2>1 DEF Read
  <2>4. sent[n] = Len(script[n])
    <3>1. PICK len \in Nat : len = Len(script[n])
      BY <2>1
    <3>2. len \in 1..len => len <= sent[n]
      BY <2>3, <3>1
    <3>3. len = 0 \/ len \in 1..len
      OBVIOUS
    <3>4. len <= sent[n] /\ sent[n] <= len
      BY <2>2, <3>1, <3>2, <3>3
    <3> QED
      BY <2>2, <3>1, <3>4
  <2>5. ASSUME NEW r \in replies, r[1] = n PROVE FALSE
    <3>1. r = <<n, r[2]>> /\ r[2] \in Nat \ {0} /\ r[2] <= sent[n]
      BY <1>1, <2>5 DEF IInv, TypeOK
    <3> QED
      BY <2>1, <2>3, <2>4, <2>5, <3>1
  <2> QED
    BY <2>4, <2>5
<1>2. IInv => NothingLeftBehind
  BY <1>1 DEF IInv, AllHaveAll, HasAll, NothingLeftBehind
<1> QED
  BY <1>2, IInvAlways, PTL

\* A Queue that _command_queue names is open, or its thread is between MQCLOSE and the
\* assignment of None, whatever the other threads do (mqadmin.py:270-302).
THEOREM CommandQueueUsableAlways == Spec => []CommandQueueUsable
BY IInvAlways, PTL DEF IInv
=============================================================================
