------------------------------- MODULE QueueGet -------------------------------
(***************************************************************************)
(* Queue.get (mqqueue.py:218-354): the length it asks for, the second      *)
(* MQGET when the first finds the message longer, what the application is  *)
(* handed and what it is not, while other consumers read the same queue    *)
(* and units of work are committed and backed out.                         *)
(*                                                                         *)
(* A message is its number in the order of arrival.  A consumer has a      *)
(* connection, a Queue and an MD of its own.  Between two MQGETs of a get  *)
(* every other consumer may run.                                           *)
(***************************************************************************)
EXTENDS Integers

CONSTANTS
    Consumer,
    Messages,       \* how many messages are put; bounds the model
    Raw,            \* Raw[m]: the length of message m as it was put
    Converted,      \* Converted[m]: the length that converting it takes; longer
                    \*   than any buffer when it cannot be converted
    MaxLength,      \* the values an application passes as maxLength
    InitialLength,  \* the first __prev_length, 4096
    Unset

Msg == 1..Messages

ASSUME GetAssumption ==
    /\ Messages \in Nat
    /\ Raw \in [Msg -> Nat]
    /\ Converted \in [Msg -> Nat]
    /\ MaxLength \subseteq Nat
    /\ InitialLength \in Nat
    /\ Unset \notin Nat

VARIABLES
    put,            \* messages 1..put have been put
    queue,          \* the messages a get can take
    uow,            \* uow[c]: taken by c in a unit of work that has not ended
    handed,         \* what applications were handed of each message
    prevLength,     \* Queue.__prev_length
    md,             \* md[c]: the MsgId in the consumer's MD, Unset if it is blank
    retrying,       \* retrying[c]: the options of a get between its two MQGETs
    swaps           \* history: <<n, m>>, a second MQGET that does not match found
                    \*   n, took m and warned

queueVars == <<put, queue, uow, handed, prevLength, md, retrying, swaps>>

\* match: MatchOptions has MQMO_MATCH_MSG_ID, as by default; MQMO_NONE takes the
\* oldest message whatever the MD says.
Options == [accept: BOOLEAN, convert: BOOLEAN, syncpoint: BOOLEAN, match: BOOLEAN]

QueueTypeOK ==
    /\ put \in 0..Messages
    /\ queue \subseteq 1..put
    /\ uow \in [Consumer -> SUBSET (1..put)]
    /\ handed \in [Msg -> {"nothing", "part", "whole"}]
    /\ prevLength \in [Consumer -> Nat]
    /\ md \in [Consumer -> Msg \cup {Unset}]
    /\ retrying \in [Consumer -> Options \cup {Unset}]
    /\ swaps \subseteq Msg \X Msg

QueueInit ==
    /\ put = 0
    /\ queue = {}
    /\ uow = [c \in Consumer |-> {}]
    /\ handed = [m \in Msg |-> "nothing"]
    /\ prevLength = [c \in Consumer |-> InitialLength]
    /\ md = [c \in Consumer |-> Unset]
    /\ retrying = [c \in Consumer |-> Unset]
    /\ swaps = {}

-----------------------------------------------------------------------------
(* MQGET *)

Matches(id, m, opts) == opts.match => id \in {Unset, m}

\* The message a get with this MsgId in its MD finds: the oldest that matches.
Finds(id, m, opts) ==
    /\ m \in queue
    /\ Matches(id, m, opts)
    /\ \A n \in queue : Matches(id, n, opts) => m <= n

TooLong(m, length, opts) == Raw[m] > length /\ ~opts.accept

Truncated(m, length, opts) == Raw[m] > length /\ opts.accept

\* MQRC_CONVERTED_MSG_TOO_BIG, MQRC_FORMAT_ERROR and their like: a warning, the
\* message is returned as it was put, and it has left the queue.
Unconverted(m, length, opts) ==
    Raw[m] <= length /\ opts.convert /\ Converted[m] > length

Complete(m, length, opts) ==
    Raw[m] <= length /\ (opts.convert => Converted[m] <= length)

\* MQGET takes m off the queue for c.
Take(c, m, opts) ==
    /\ queue' = queue \ {m}
    /\ uow' = IF opts.syncpoint THEN [uow EXCEPT ![c] = @ \cup {m}] ELSE uow

Hand(m, what) == handed' = [handed EXCEPT ![m] = what]

-----------------------------------------------------------------------------
(* Queue.get *)

FirstLength(c, max, opts) ==
    IF max # Unset THEN max ELSE IF opts.accept THEN 0 ELSE prevLength[c]

\* A get that does not double the length when the message is converted.
RetryLengthUndoubled(m, opts) == Raw[m]

\* What the second MQGET asks for.
RetryLength(m, opts) == IF opts.convert THEN 2 * Raw[m] ELSE Raw[m]

\* The first MQGET takes a message: it is returned, or, with a warning, carried
\* by the MQMIError.
GetTakes(c, id, max, opts) ==
    /\ retrying[c] = Unset
    /\ \E m \in Msg :
          /\ Finds(id, m, opts)
          /\ ~TooLong(m, FirstLength(c, max, opts), opts)
          /\ Take(c, m, opts)
          /\ Hand(m, IF Truncated(m, FirstLength(c, max, opts), opts)
                     THEN "part" ELSE "whole")
          /\ md' = [md EXCEPT ![c] = m]
    /\ UNCHANGED <<put, prevLength, retrying, swaps>>

\* GetTooLong that takes the length MQGET returned for the message's MsgId.
GetTooLongMixedUp(c, id, max, opts) ==
    /\ retrying[c] = Unset
    /\ max # Unset
    /\ \E m \in Msg :
          /\ Finds(id, m, opts)
          /\ TooLong(m, max, opts)
          /\ md' = [md EXCEPT ![c] = Raw[m]]
    /\ UNCHANGED <<put, queue, uow, handed, prevLength, retrying, swaps>>

\* The message is longer than the maxLength of the application: the get fails,
\* with the MD of the message.
GetTooLong(c, id, max, opts) ==
    /\ retrying[c] = Unset
    /\ max # Unset
    /\ \E m \in Msg :
          /\ Finds(id, m, opts)
          /\ TooLong(m, max, opts)
          /\ md' = [md EXCEPT ![c] = m]
    /\ UNCHANGED <<put, queue, uow, handed, prevLength, retrying, swaps>>

\* The message is longer than __prev_length: its MD is unpacked and its length
\* is noted for the second MQGET and for later gets.
GetRetries(c, id, opts) ==
    /\ retrying[c] = Unset
    /\ \E m \in Msg :
          /\ Finds(id, m, opts)
          /\ TooLong(m, FirstLength(c, Unset, opts), opts)
          /\ md' = [md EXCEPT ![c] = m]
          /\ prevLength' = [prevLength EXCEPT ![c] = RetryLength(m, opts)]
    /\ retrying' = [retrying EXCEPT ![c] = opts]
    /\ UNCHANGED <<put, queue, uow, handed, swaps>>

\* No message, or another error of the first MQGET: the MD stays as it was
\* passed.
GetRaises(c, id) ==
    /\ retrying[c] = Unset
    /\ md' = [md EXCEPT ![c] = id]
    /\ UNCHANGED <<put, queue, uow, handed, prevLength, retrying, swaps>>

\* The second MQGET, with the MD that the first filled in and the options of the
\* application, returns what it finds: the same message if the options match.
RetryReturns(c) ==
    /\ retrying[c] # Unset
    /\ \E m \in Msg :
          /\ Finds(md[c], m, retrying[c])
          /\ Complete(m, prevLength[c], retrying[c])
          /\ Take(c, m, retrying[c])
          /\ Hand(m, "whole")
          /\ md' = [md EXCEPT ![c] = m]
    /\ retrying' = [retrying EXCEPT ![c] = Unset]
    /\ UNCHANGED <<put, prevLength, swaps>>

\* The second MQGET takes what it finds with a warning: the MQMIError that is
\* raised does not carry it, and the MD still names the message of the first.
RetryWarns(c) ==
    /\ retrying[c] # Unset
    /\ \E m \in Msg :
          /\ Finds(md[c], m, retrying[c])
          /\ Unconverted(m, prevLength[c], retrying[c])
          /\ Take(c, m, retrying[c])
          /\ swaps' = IF retrying[c].match THEN swaps ELSE swaps \cup {<<md[c], m>>}
    /\ retrying' = [retrying EXCEPT ![c] = Unset]
    /\ UNCHANGED <<put, handed, prevLength, md>>

\* Nothing is found, what is found is longer still, or another error of the
\* second MQGET.
RetryFails(c) ==
    /\ retrying[c] # Unset
    /\ retrying' = [retrying EXCEPT ![c] = Unset]
    /\ UNCHANGED <<put, queue, uow, handed, prevLength, md, swaps>>

Get(c) ==
    \/ \E id \in {Unset, md[c]}, opts \in Options :
          \/ \E max \in MaxLength \cup {Unset} :
                GetTakes(c, id, max, opts) \/ GetTooLong(c, id, max, opts)
          \/ GetRetries(c, id, opts)
          \/ GetRaises(c, id)
    \/ RetryReturns(c)
    \/ RetryWarns(c)
    \/ RetryFails(c)

-----------------------------------------------------------------------------

\* Another program puts a message.
Put ==
    /\ put < Messages
    /\ put' = put + 1
    /\ queue' = queue \cup {put + 1}
    /\ UNCHANGED <<uow, handed, prevLength, md, retrying, swaps>>

\* QueueManager.commit
Commit(c) ==
    /\ retrying[c] = Unset
    /\ uow[c] # {}
    /\ uow' = [uow EXCEPT ![c] = {}]
    /\ UNCHANGED <<put, queue, handed, prevLength, md, retrying, swaps>>

\* QueueManager.backout: the messages are there again, for anyone to get.
Backout(c) ==
    /\ retrying[c] = Unset
    /\ uow[c] # {}
    /\ queue' = queue \cup uow[c]
    /\ uow' = [uow EXCEPT ![c] = {}]
    /\ handed' = [m \in Msg |-> IF m \in uow[c] THEN "nothing" ELSE handed[m]]
    /\ swaps' = {s \in swaps : s[2] \notin uow[c]}
    /\ UNCHANGED <<put, prevLength, md, retrying>>

QueueNext == Put \/ \E c \in Consumer : Get(c) \/ Commit(c) \/ Backout(c)

QueueSpec == QueueInit /\ [][QueueNext]_queueVars

-----------------------------------------------------------------------------

\* Conversion makes the message more than twice as long, or is not possible.
Outgrows(m) == Converted[m] > 2 * Raw[m]

\* The second MQGET of a get that does not match found n and took the longer m.
Swapped(n, m) == <<n, m>> \in swaps /\ Raw[n] < Raw[m] /\ Raw[m] <= 2 * Raw[n]

\* A message that has left the queue was handed to an application, returned or
\* on the exception, whichever consumers raced for it (mqqueue.py:282-354).  The
\* doubling at 323 leaves two ways out: conversion more than doubles the message,
\* or a get that does not match the MsgId (331) took it in place of a shorter one,
\* more than half as long, that somebody took between its two MQGETs.
NothingLost ==
    \A m \in 1..put \ queue :
        handed[m] # "nothing" \/ Outgrows(m) \/ \E n \in Msg : Swapped(n, m)

\* "If maxLength is not specified, or is None, then the entire message is
\* returned regardless of its size." (mqqueue.py:226-227), so no message leaves
\* the queue and is handed to nobody.
NothingEverLost == \A m \in 1..put \ queue : handed[m] # "nothing"

\* The length noted for later gets never goes down (mqqueue.py:325), so a
\* message that fitted goes on to be read by a single MQGET.
LengthNeverShrinks ==
    [][\A c \in Consumer : prevLength'[c] >= prevLength[c]]_queueVars
=============================================================================
