------------------------------- MODULE PcfExec -------------------------------
(***************************************************************************)
(* A PCF command (mqadmin.py, _Method.__call__): the command queue that a  *)
(* PCFExecute opens for a command or has open, the put, and the loop that  *)
(* reads replies until the last one, with the two ways of reporting        *)
(* errors: at once, or at the end when the caller passed a list for the    *)
(* responses.                                                              *)
(*                                                                         *)
(* Threads may share the PCFExecute, as they may share its connection.     *)
(* They run between the test of _command_queue, MQOPEN, MQPUT, MQCLOSE and *)
(* each MQGET.  A call is known by its number, which is also the MsgId of  *)
(* its command, the CorrelId of its replies and the Queue object it opens. *)
(***************************************************************************)
EXTENDS Naturals, Sequences

CONSTANTS
    Caller,     \* threads that share the PCFExecute
    MaxCalls,   \* bound: commands that are executed
    Script,     \* the sequences of replies a command server may send
    None

Number == 1..MaxCalls

\* The Queue object of call n is n; PreOpened was passed to the constructor.
PreOpened == 0
QueueObject == Number \cup {PreOpened}

\* A reply as the loop sees it: its type, Control = MQCFC_LAST, CompCode =
\* MQCC_OK, whether it has no parameters, its MQIACF_COMMAND_INFO, and how the
\* MQGET of it ends.
Reply == [type: {"response", "xr_msg", "xr_summary"}, last: BOOLEAN, ok: BOOLEAN,
          empty: BOOLEAN, info: {"none", "accepted", "completed"},
          read: {"ok", "warning", "tooLong"}]

ASSUME PcfAssumption ==
    /\ MaxCalls \in Nat
    /\ Script \subseteq Seq(Reply)
    /\ None \notin Nat

Accepts(reply) == reply.type = "xr_msg" /\ reply.info = "accepted"
Completes(reply) == reply.type = "xr_msg" /\ reply.info = "completed"

\* What a command server promises: the last reply is marked as the last, and no other
\* is.  Once a reply has announced those of other queue managers, each of them has a
\* last reply of its own and the mark is MQCMDI_CMDSCOPE_COMPLETED.
Marked(s, i) ==
    IF \E j \in 1..i : Accepts(s[j]) THEN Completes(s[i]) ELSE s[i].last

ASSUME ScriptAssumption ==
    \A s \in Script : \A i \in 1..Len(s) : Marked(s, i) => i = Len(s)

VARIABLES
    calls,          \* calls that have been made
    commandQueue,   \* PCFExecute._command_queue
    open,           \* Queue objects that are open
    script,         \* script[n]: the replies that the server sends to n
    sent,           \* sent[n]: how many of them it has sent
    replies,        \* <<n, i>>: the i-th reply to n is on the reply queue
    call,           \* call[a]: the call that thread a is in
    ress,           \* ress[n]: the replies in the list of responses of n
    outcome,        \* outcome[n]: how n ended
    broken          \* the connection is broken

vars == <<calls, commandQueue, open, script, sent, replies, call, ress, outcome, broken>>

Place == {"idle", "queue", "opening", "put", "close", "closed", "get"}

\* n, ignore_errors, the Queue in use, in_cmdscope, first_e is set, and whether
\* an MQI error has been passed over.
Call == [at: Place, n: 0..MaxCalls, ignore: BOOLEAN, queue: QueueObject \cup {None},
         scope: BOOLEAN, first: BOOLEAN, passed: BOOLEAN]

Idle == [at |-> "idle", n |-> 0, ignore |-> FALSE, queue |-> None,
         scope |-> FALSE, first |-> FALSE, passed |-> FALSE]

\* How a call ends, and whether an MQI error had been passed over.
Outcome == [how: {"none", "returned", "firstError", "pcfError", "mqiError"},
            passed: BOOLEAN]

TypeOK ==
    /\ calls \in 0..MaxCalls
    /\ commandQueue \in QueueObject \cup {None}
    /\ open \subseteq QueueObject
    /\ script \in [Number -> Script \cup {<<>>}]
    /\ sent \in [Number -> Nat]
    /\ \A n \in Number : sent[n] <= Len(script[n])
    /\ replies \subseteq Number \X (Nat \ {0})
    /\ \A r \in replies : r[2] <= sent[r[1]]
    /\ call \in [Caller -> Call]
    /\ \A a \in Caller : call[a].queue = None => call[a].at \in {"idle", "queue", "opening"}
    /\ ress \in [Number -> SUBSET (Number \X Nat)]
    /\ outcome \in [Number -> Outcome]
    /\ broken \in BOOLEAN

Init ==
    /\ calls = 0
    /\ \/ commandQueue = None /\ open = {}
       \/ commandQueue = PreOpened /\ open = {PreOpened}
    /\ script = [n \in Number |-> <<>>]
    /\ sent = [n \in Number |-> 0]
    /\ replies = {}
    /\ call = [a \in Caller |-> Idle]
    /\ ress = [n \in Number |-> {}]
    /\ outcome = [n \in Number |-> [how |-> "none", passed |-> FALSE]]
    /\ broken = FALSE

At(a, place) == call[a].at = place

GoTo(a, place) == call' = [call EXCEPT ![a].at = place]

End(a, how) ==
    /\ call' = [call EXCEPT ![a] = Idle]
    /\ outcome' = [outcome EXCEPT ![call[a].n] = [how |-> how, passed |-> call[a].passed]]

RaiseMQI(a) == End(a, "mqiError")

-----------------------------------------------------------------------------
(* The command *)

Begin(a, ignore) ==
    /\ At(a, "idle")
    /\ calls < MaxCalls
    /\ calls' = calls + 1
    /\ call' = [call EXCEPT ![a] = [Idle EXCEPT !.at = "queue", !.n = calls + 1,
                                    !.ignore = ignore]]
    /\ UNCHANGED <<commandQueue, open, script, sent, replies, ress, outcome, broken>>

\* A call that does not test whether _command_queue is set.
UseQueueUntested(a) ==
    /\ At(a, "queue")
    /\ call' = [call EXCEPT ![a].at = "put", ![a].queue = commandQueue]
    /\ UNCHANGED <<calls, commandQueue, open, script, sent, replies, ress, outcome, broken>>

\* _command_queue is set: it is used and is left open.
UseQueue(a) ==
    /\ At(a, "queue")
    /\ IF commandQueue = None THEN GoTo(a, "opening")
       ELSE call' = [call EXCEPT ![a].at = "put", ![a].queue = commandQueue]
    /\ UNCHANGED <<calls, commandQueue, open, script, sent, replies, ress, outcome, broken>>

\* _command_queue was not set: a Queue is opened for this command.
OpenQueue(a) ==
    /\ At(a, "opening")
    /\ \/ /\ ~broken
          /\ open' = open \cup {call[a].n}
          /\ commandQueue' = call[a].n
          /\ call' = [call EXCEPT ![a].at = "put", ![a].queue = call[a].n]
          /\ UNCHANGED outcome
       \/ /\ RaiseMQI(a)
          /\ UNCHANGED <<open, commandQueue>>
    /\ UNCHANGED <<calls, script, sent, replies, ress, broken>>

\* The command is put, and the server will answer it in one of its ways.
Put(a) ==
    /\ At(a, "put")
    /\ call[a].queue \in open
    /\ ~broken
    /\ \E s \in Script : script' = [script EXCEPT ![call[a].n] = s]
    /\ GoTo(a, IF call[a].queue = call[a].n THEN "close" ELSE "get")
    /\ UNCHANGED <<calls, commandQueue, open, sent, replies, ress, outcome, broken>>

\* MQPUT fails, or the Queue has been closed by the thread that opened it.
PutFails(a) ==
    /\ At(a, "put")
    /\ RaiseMQI(a)
    /\ UNCHANGED <<calls, commandQueue, open, script, sent, replies, ress, broken>>

CloseQueue(a) ==
    /\ At(a, "close")
    /\ \/ /\ ~broken
          /\ open' = open \ {call[a].queue}
          /\ GoTo(a, "closed")
          /\ UNCHANGED outcome
       \/ /\ RaiseMQI(a)
          /\ UNCHANGED open
    /\ UNCHANGED <<calls, commandQueue, script, sent, replies, ress, broken>>

\* The Queue that is closed stays in _command_queue.
KeepQueue(a) ==
    /\ At(a, "closed")
    /\ GoTo(a, "get")
    /\ UNCHANGED <<calls, commandQueue, open, script, sent, replies, ress, outcome, broken>>

ForgetQueue(a) ==
    /\ At(a, "closed")
    /\ commandQueue' = None
    /\ GoTo(a, "get")
    /\ UNCHANGED <<calls, open, script, sent, replies, ress, outcome, broken>>

-----------------------------------------------------------------------------
(* The replies *)

\* A get that does not ask for the CorrelId of the command.
MatchesAny(n, r) == r \in replies

\* MQMO_MATCH_CORREL_ID: the replies to n that are on the queue.
Matches(n, r) == r \in replies /\ r[1] = n

\* The reply that MQGET finds: the oldest of those that match.
NextReply(n, r) ==
    /\ Matches(n, r)
    /\ \A q \in replies : Matches(n, q) /\ q[1] = r[1] => r[2] <= q[2]

ReplyOf(r) == script[r[1]][r[2]]

InScope(a, reply) ==
    call[a].scope \/ Accepts(reply)

\* The end of the replies without regard to MQCMDI_CMDSCOPE_ACCEPTED.
LastOfAnyScope(a, reply) == reply.last

\* got_all_replies
GotAllReplies(a, reply) ==
    IF InScope(a, reply) THEN Completes(reply) ELSE reply.last

\* first_e is set, when errors are ignored.
FirstError(a, reply) == call[a].first \/ ~reply.ok

\* "if res": a response without parameters is an empty dictionary.
Appended(reply) == reply.type = "response" /\ ~reply.empty

\* A reply without an error, or any reply when errors are ignored.
TakeReply(a) ==
    /\ At(a, "get") /\ ~broken
    /\ \E r \in replies : LET reply == ReplyOf(r) IN
          /\ NextReply(call[a].n, r)
          /\ reply.read = "ok"
          /\ reply.ok \/ call[a].ignore
          /\ replies' = replies \ {r}
          /\ ress' = IF Appended(reply)
                     THEN [ress EXCEPT ![call[a].n] = @ \cup {r}] ELSE ress
          /\ IF GotAllReplies(a, reply)
             THEN End(a, IF FirstError(a, reply) THEN "firstError" ELSE "returned")
             ELSE /\ call' = [call EXCEPT ![a].scope = InScope(a, reply),
                                          ![a].first = FirstError(a, reply)]
                  /\ UNCHANGED outcome
    /\ UNCHANGED <<calls, commandQueue, open, script, sent, broken>>

\* _unpack_option raises the error of a reply, unless errors are ignored.
RaisePcf(a) ==
    /\ At(a, "get") /\ ~broken
    /\ ~call[a].ignore
    /\ \E r \in replies :
          /\ NextReply(call[a].n, r)
          /\ ReplyOf(r).read = "ok"
          /\ ~ReplyOf(r).ok
          /\ replies' = replies \ {r}
    /\ End(a, "pcfError")
    /\ UNCHANGED <<calls, commandQueue, open, script, sent, ress, broken>>

\* An MQMIError of the get other than 2033: raised, or passed over when errors
\* are ignored.
RaiseOrPassOver(a) ==
    IF call[a].ignore
    THEN call' = [call EXCEPT ![a].passed = TRUE] /\ UNCHANGED outcome
    ELSE RaiseMQI(a)

\* The get of a reply ends with a warning.  The reply has left the queue.
GetWarns(a) ==
    /\ At(a, "get") /\ ~broken
    /\ \E r \in replies :
          /\ NextReply(call[a].n, r)
          /\ ReplyOf(r).read = "warning"
          /\ replies' = replies \ {r}
    /\ RaiseOrPassOver(a)
    /\ UNCHANGED <<calls, commandQueue, open, script, sent, ress, broken>>

\* A reply longer than max_length stays on the queue, and a broken connection
\* stays broken.
GetFails(a) ==
    /\ At(a, "get")
    /\ broken \/ \E r \in replies : NextReply(call[a].n, r) /\ ReplyOf(r).read = "tooLong"
    /\ RaiseOrPassOver(a)
    /\ UNCHANGED <<calls, commandQueue, open, script, sent, replies, ress, broken>>

\* A get that is repeated after 2033 when errors are ignored.
GetTimesOutAgain(a) ==
    /\ At(a, "get") /\ ~broken
    /\ ~\E r \in replies : Matches(call[a].n, r)
    /\ RaiseOrPassOver(a)
    /\ UNCHANGED <<calls, commandQueue, open, script, sent, replies, ress, broken>>

\* 2033: no reply within response_wait_interval.
GetTimesOut(a) ==
    /\ At(a, "get") /\ ~broken
    /\ ~\E r \in replies : Matches(call[a].n, r)
    /\ RaiseMQI(a)
    /\ UNCHANGED <<calls, commandQueue, open, script, sent, replies, ress, broken>>

-----------------------------------------------------------------------------
(* The command server and the connection *)

\* The next reply to n, also when nobody waits for it any more.
Answer(n) ==
    /\ sent[n] < Len(script[n])
    /\ sent' = [sent EXCEPT ![n] = @ + 1]
    /\ replies' = replies \cup {<<n, sent[n] + 1>>}
    /\ UNCHANGED <<calls, commandQueue, open, script, call, ress, outcome, broken>>

Break ==
    /\ ~broken
    /\ broken' = TRUE
    /\ UNCHANGED <<calls, commandQueue, open, script, sent, replies, call, ress, outcome>>

\* What a thread does once it has made a call.
Proceed(a) ==
    \/ UseQueue(a) \/ OpenQueue(a) \/ Put(a) \/ PutFails(a)
    \/ CloseQueue(a) \/ ForgetQueue(a)
    \/ TakeReply(a) \/ RaisePcf(a) \/ GetWarns(a) \/ GetFails(a) \/ GetTimesOut(a)

Next ==
    \/ \E a \in Caller, ignore \in BOOLEAN : Begin(a, ignore)
    \/ \E a \in Caller : Proceed(a)
    \/ \E n \in Number : Answer(n)
    \/ Break

\* Every MQ call returns: the wait of MQGET is finite, because __init__ replaces
\* MQWI_UNLIMITED (mqadmin.py:456-461).  Nothing is assumed of the server.
Fairness == \A a \in Caller : WF_vars(Proceed(a))

Spec == Init /\ [][Next]_vars /\ Fairness

-----------------------------------------------------------------------------

\* What a command was answered: the responses that say something.
Responses(n) ==
    {<<n, i>> : i \in {j \in DOMAIN script[n] :
                          script[n][j].type = "response" /\ ~script[n][j].empty}}

\* A call that returns has every response to its command that has parameters, from
\* every queue manager that MQCMDI_CMDSCOPE_ACCEPTED announced (mqadmin.py:339-359),
\* and none to another command, whatever earlier calls have left on the reply queue
\* (mqadmin.py:314-318); and so has a call that ignored errors and raises the first
\* of them at its end.  It has not returned over an error.
NothingMissing ==
    \A n \in Number :
        ~outcome[n].passed =>
            /\ outcome[n].how \in {"returned", "firstError"} => ress[n] = Responses(n)
            /\ outcome[n].how = "returned" => \A i \in DOMAIN script[n] : script[n][i].ok

\* Only calls that an error has ended, or that have passed over one, leave replies
\* behind on the reply queue, which later commands and other threads read too: any
\* other has waited for the last one that will come (mqadmin.py:348-359, 376-390).
NothingLeftBehind ==
    \A n \in Number :
        outcome[n].how \in {"returned", "firstError"} /\ ~outcome[n].passed =>
            /\ sent[n] = Len(script[n])
            /\ \A r \in replies : r[1] # n

\* Where the loop passes over errors and meets the same one again.
Stuck(a) ==
    /\ call[a].at = "get" /\ call[a].ignore
    /\ broken \/ \E r \in replies : NextReply(call[a].n, r) /\ ReplyOf(r).read = "tooLong"

\* Every call ends, whether or not the server answers and whatever it answers,
\* except one that ignores errors and meets one that stays (mqadmin.py:376-390).
CallsEndUnlessStuck == \A a \in Caller : ~At(a, "idle") ~> At(a, "idle") \/ Stuck(a)

\* A Queue that _command_queue names is open, but for the moment between its
\* MQCLOSE and the assignment of None (mqadmin.py:270-302).
CommandQueueUsable ==
    commandQueue # None =>
        \/ commandQueue \in open
        \/ \E a \in Caller : At(a, "closed") /\ call[a].queue = commandQueue
=============================================================================
