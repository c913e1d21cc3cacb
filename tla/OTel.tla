---------------------------------- MODULE OTel ----------------------------------
(***************************************************************************)
(* The propagation of trace context (mqotel.py) by the hooks around MQPUT, *)
(* MQGET, MQOPEN, MQSUB, MQCLOSE and MQDISC: a table of message handles,   *)
(* one for all puts and gets on a connection, and a table of what is known *)
(* of each object, both keyed by handles that MQ gives out again.          *)
(*                                                                         *)
(* A connection belongs to the thread that made it, which makes a new PMO  *)
(* and a new GMO for it; the tables are common to all threads.  Between a  *)
(* hook and the MQ call that it prepares every other thread may run.  A    *)
(* trace is the span that set it; tracestate goes the way of traceparent   *)
(* and is left out, as is the registration of callbacks.                   *)
(***************************************************************************)
EXTENDS Naturals

CONSTANTS
    Thread,
    Consumer,   \* the threads that open objects and get; the others only put
    Conn,       \* the numbers that MQ uses for connections,
    Obj,        \*   for objects on a connection
    Handle,     \*   and for message handles
    Span,       \* the spans of this process
    Remote,     \* the traces that messages come with
    Asked,      \* the properties options that applications set in a GMO
    None

Star == "*"     \* in the key of the message handle of a connection
Trace == Span \cup Remote \cup {None}

PropCtl == {"none", "all"}                         \* the PROPCTL of a queue
Properties == {"none", "queue", "rfh2", "handle"}  \* MQGMO_..._PROPERTIES_...

VARIABLES
    conn,           \* conn[t]: the connection of thread t
    object,         \* what MQ has under each object handle
    msgHandle,      \* what MQ has under each message handle
    objectHandle,   \* object_handle: the message handles of this layer
    objectOptions,  \* object_options: a PropOptions per object
    pmo,            \* pmo[t]: the message handle in the PMO that t puts with,
                    \*   NewMsgHandle or, if there is none, OriginalMsgHandle
    gmo,            \* gmo[t]: properties option and message handle of its GMO,
                    \*   and the option that the application set
    call            \* call[t]: the call that t is in, or the get it has made

vars == <<conn, object, msgHandle, objectHandle, objectOptions, pmo, gmo, call>>

MakeKey(c, o) == <<c, o>>
Key == Conn \X (Obj \cup {Star})

\* "input": opened for gets; "managed": the queue of a managed subscription.
Object == [kind: {"input", "other", "sub", "managed"}, propCtl: PropCtl]
PropOptions == [propCtl: PropCtl \cup {"unknown"},
                managed: Obj \cup {None}]
Gmo == [props: Properties, handle: Handle \cup {None}, asked: Properties]
MsgHandle == [conn: Conn, trace: Trace]

ASSUME OTelAssumption ==
    /\ Asked \subseteq Properties
    /\ Consumer \subseteq Thread
    /\ Conn \subseteq Nat
    /\ Star \notin Obj
    /\ None \notin Obj \cup Conn \cup Handle \cup Span \cup Remote
    /\ None \notin Object \cup PropOptions \cup MsgHandle

NewGmo(asked, h) == [props |-> asked, handle |-> h, asked |-> asked]

\* from: where the handle of a put comes from, "failedPut" if a put that failed
\* left that of the connection in the PMO; span: that in which a put is made,
\* None also if the RFH2 of the message has a traceparent; failed: the MQSETMP
\* did; trace: that of the message got; link: what the get added to the span.
PmoFrom == {"connection", "failedPut", "application"}
Call == [step: {"idle", "putting", "getting", "got", "disconnecting"},
         from: PmoFrom, failed: BOOLEAN,
         obj: Obj \cup {None},
         span: Trace, trace: Trace, link: Trace]
Idle == [step |-> "idle", from |-> "connection", failed |-> FALSE, obj |-> None,
         span |-> None, trace |-> None, link |-> None]

At(t, step) == call[t].step = step

TypeOK ==
    /\ conn \in [Thread -> Conn \cup {None}]
    /\ object \in [Conn \X Obj -> Object \cup {None}]
    /\ msgHandle \in [Handle -> MsgHandle \cup {None}]
    /\ objectHandle \in [Key -> Handle \cup {None}]
    /\ objectOptions \in [Key -> PropOptions \cup {None}]
    /\ pmo \in [Thread -> Handle \cup {None}]
    /\ gmo \in [Thread -> Gmo]
    /\ call \in [Thread -> Call]
    /\ \A t \in Thread : At(t, "putting") => pmo[t] # None

Init ==
    /\ conn = [t \in Thread |-> None]
    /\ object = [k \in Conn \X Obj |-> None]
    /\ msgHandle = [h \in Handle |-> None]
    /\ objectHandle = [k \in Key |-> None]
    /\ objectOptions = [k \in Key |-> None]
    /\ pmo = [t \in Thread |-> None]
    /\ gmo = [t \in Thread |-> NewGmo("queue", None)]
    /\ call = [t \in Thread |-> Idle]

\* t is connected and makes no call.
Ready(t) == conn[t] # None /\ (At(t, "idle") \/ At(t, "got"))

-----------------------------------------------------------------------------
(* The application and MQ *)

Connect(t, c) ==
    /\ conn[t] = None
    /\ \A u \in Thread : conn[u] # c
    /\ conn' = [conn EXCEPT ![t] = c]
    /\ pmo' = [pmo EXCEPT ![t] = None]
    /\ gmo' = [gmo EXCEPT ![t] = NewGmo("queue", None)]
    /\ UNCHANGED <<object, msgHandle, objectHandle, objectOptions, call>>

Ours == {objectHandle[k] : k \in Key} \ {None}

\* The message handles that remain when the application has no use for `old`
\* any more and, unless h is None, makes h.
Replaced(t, old, h) ==
    [g \in Handle |->
        IF g = h THEN [conn |-> conn[t], trace |-> None]
        ELSE IF g = old /\ g \notin Ours THEN None
        ELSE msgHandle[g]]

\* The application sets up its PMO: without a handle, or with the one it gets
\* properties into, so that they are passed on.
GivePmo(t, h) ==
    /\ Ready(t)
    /\ h \in {None, gmo[t].handle} \ Ours
    /\ msgHandle' = Replaced(t, IF pmo[t] = gmo[t].handle THEN None ELSE pmo[t], None)
    /\ pmo' = [pmo EXCEPT ![t] = h]
    /\ call' = [call EXCEPT ![t] = Idle]
    /\ UNCHANGED <<conn, object, objectHandle, objectOptions, gmo>>

\* The application sets up its GMO, with a new handle for the properties if it
\* asks for that.
GiveGmo(t, asked, h) ==
    /\ Ready(t) /\ t \in Consumer
    /\ IF asked = "handle" THEN h # None /\ msgHandle[h] = None ELSE h = None
    /\ msgHandle' = Replaced(t, IF pmo[t] = gmo[t].handle THEN None ELSE gmo[t].handle, h)
    /\ gmo' = [gmo EXCEPT ![t] = NewGmo(asked, h)]
    /\ call' = [call EXCEPT ![t] = Idle]
    /\ UNCHANGED <<conn, object, objectHandle, objectOptions, pmo>>

-----------------------------------------------------------------------------
(* MQOPEN, MQSUB and MQCLOSE *)

Entry(known, managed) == [propCtl |-> known, managed |-> managed]

\* Queue.__real_open and otel_open: the PROPCTL is asked for if the queue is
\* opened for input, and is not known if the MQINQ or its MQOPEN fails.  No
\* hook reads the PROPCTL of the others, so one value stands for both.
OpenQueue(t, o, kind, ctl, known) ==
    LET k == MakeKey(conn[t], o) IN
    /\ Ready(t) /\ t \in Consumer
    /\ object[k] = None
    /\ kind = "other" => ctl = "all"
    /\ known \in {ctl, "unknown"}
    /\ object' = [object EXCEPT ![k] = [kind |-> kind, propCtl |-> ctl]]
    /\ objectOptions' = IF kind = "input"
                        THEN [objectOptions EXCEPT ![k] = Entry(known, None)]
                        ELSE objectOptions
    /\ call' = [call EXCEPT ![t] = Idle]
    /\ UNCHANGED <<conn, msgHandle, objectHandle, pmo, gmo>>

\* Subscription.sub of a managed subscription: entries for it and its queue.
Subscribe(t, s, q, ctl, known) ==
    LET ks == MakeKey(conn[t], s)  kq == MakeKey(conn[t], q) IN
    /\ Ready(t) /\ t \in Consumer
    /\ s # q /\ object[ks] = None /\ object[kq] = None
    /\ known \in {ctl, "unknown"}
    /\ object' = [object EXCEPT ![ks] = [kind |-> "sub", propCtl |-> ctl],
                                ![kq] = [kind |-> "managed", propCtl |-> ctl]]
    /\ objectOptions' = [objectOptions EXCEPT ![kq] = Entry(known, None),
                                              ![ks] = Entry(known, q)]
    /\ call' = [call EXCEPT ![t] = Idle]
    /\ UNCHANGED <<conn, msgHandle, objectHandle, pmo, gmo>>

\* otel_close: the entry of k goes, and that of the managed queue it names.
OtelClose(options, k) ==
    [j \in Key |->
        IF j = k \/ (options[k] # None /\ j = MakeKey(k[1], options[k].managed))
        THEN None ELSE options[j]]

\* A reference by number, which stays.
UnlinkNothing(options, k) == options

\* A Queue that is closed has no handle, also for the entry that refers to it:
\* the entry no longer leads to the object that gets the handle next.
Unlink(options, k) ==
    [j \in Key |->
        IF options[j] # None /\ MakeKey(j[1], options[j].managed) = k
        THEN [options[j] EXCEPT !.managed = None] ELSE options[j]]

\* A close that forgets nothing of the object.
CloseQueueOnly(t, o) ==
    LET k == MakeKey(conn[t], o) IN
    /\ Ready(t)
    /\ object[k] # None /\ object[k].kind # "sub"
    /\ object' = [object EXCEPT ![k] = None]
    /\ objectOptions' = Unlink(objectOptions, k)
    /\ call' = [call EXCEPT ![t] = Idle]
    /\ UNCHANGED <<conn, msgHandle, objectHandle, pmo, gmo>>

CloseQueue(t, o) ==
    LET k == MakeKey(conn[t], o) IN
    /\ Ready(t)
    /\ object[k] # None /\ object[k].kind # "sub"
    /\ object' = [object EXCEPT ![k] = None]
    /\ objectOptions' = Unlink(OtelClose(objectOptions, k), k)
    /\ call' = [call EXCEPT ![t] = Idle]
    /\ UNCHANGED <<conn, msgHandle, objectHandle, pmo, gmo>>

\* Subscription.close; with close_sub_queue CloseQueue of its queue follows.
CloseSub(t, s) ==
    LET k == MakeKey(conn[t], s) IN
    /\ Ready(t)
    /\ object[k] # None /\ object[k].kind = "sub"
    /\ object' = [object EXCEPT ![k] = None]
    /\ objectOptions' = OtelClose(objectOptions, k)
    /\ call' = [call EXCEPT ![t] = Idle]
    /\ UNCHANGED <<conn, msgHandle, objectHandle, pmo, gmo>>

-----------------------------------------------------------------------------
(* Puts: Queue.put, Topic.pub, QueueManager.put1 *)

SharedKey(c) == MakeKey(c, Star)

\* _get_msg_handle: h is under key k, from now on if it was not before.
GetMsgHandle(k, h) ==
    /\ \/ objectHandle[k] = h
       \/ objectHandle[k] = None /\ msgHandle[h] = None
    /\ objectHandle' = [objectHandle EXCEPT ![k] = h]

Handles(h, c) ==
    IF msgHandle[h] = None
    THEN [msgHandle EXCEPT ![h] = [conn |-> c, trace |-> None]] ELSE msgHandle

\* A look-up that misses the property.
PropsContainMisses(h) == FALSE

\* _props_contain
PropsContain(h) == msgHandle[h] # None /\ msgHandle[h].trace # None

\* MQSETMP, when there is a span and nothing says to leave the handle alone.  An
\* MQSETMP that fails is passed over: the put goes on with the handle as it is.
Insert(handles, h, span, skip) ==
    IF span = None \/ skip \/ handles[h] = None
    THEN handles ELSE [handles EXCEPT ![h].trace = span]

\* What the traceparent is set for.
Traced(inBody, span) == span # None /\ ~inBody

Putting(from, inBody, span, fails) ==
    [Idle EXCEPT !.step = "putting", !.from = from, !.failed = fails,
                 !.span = IF inBody THEN None ELSE span]

\* otel_put_trace_before, the PMO has a handle.
PutWithHandle(t, span, inBody, fails) ==
    /\ Ready(t)
    /\ pmo[t] # None
    /\ fails => Traced(inBody, span)
    /\ msgHandle' = Insert(msgHandle, pmo[t], span,
                           inBody \/ fails \/ PropsContain(pmo[t]))
    /\ call' = [call EXCEPT ![t] =
          Putting(IF pmo[t] \in Ours THEN "failedPut" ELSE "application",
                  inBody, span, fails)]
    /\ UNCHANGED <<conn, object, objectHandle, objectOptions, pmo, gmo>>

\* The property is set and the handle is not put into the PMO.
PutWithoutPmo(t, span, inBody, fails, h) ==
    /\ Ready(t)
    /\ pmo[t] = None
    /\ fails => Traced(inBody, span)
    /\ GetMsgHandle(SharedKey(conn[t]), h)
    /\ msgHandle' = Insert(Handles(h, conn[t]), h, span, inBody \/ fails)
    /\ call' = [call EXCEPT ![t] = Putting("connection", inBody, span, fails)]
    /\ UNCHANGED <<conn, object, objectOptions, pmo, gmo>>

\* otel_put_trace_before, the PMO has no handle and gets that of the connection.
PutWithout(t, span, inBody, fails, h) ==
    /\ Ready(t)
    /\ pmo[t] = None
    /\ fails => Traced(inBody, span)
    /\ GetMsgHandle(SharedKey(conn[t]), h)
    /\ msgHandle' = Insert(Handles(h, conn[t]), h, span, inBody \/ fails)
    /\ pmo' = [pmo EXCEPT ![t] = h]
    /\ call' = [call EXCEPT ![t] = Putting("connection", inBody, span, fails)]
    /\ UNCHANGED <<conn, object, objectOptions, gmo>>

\* MQPUT and otel_put_trace_after.
PutReturns(t) ==
    /\ At(t, "putting")
    /\ pmo' = IF objectHandle[SharedKey(conn[t])] = pmo[t]
              THEN [pmo EXCEPT ![t] = None] ELSE pmo
    /\ call' = [call EXCEPT ![t] = Idle]
    /\ UNCHANGED <<conn, object, msgHandle, objectHandle, objectOptions, gmo>>

\* MQPUT fails: put raises at once.
PutFails(t) ==
    /\ At(t, "putting")
    /\ call' = [call EXCEPT ![t] = Idle]
    /\ UNCHANGED <<conn, object, msgHandle, objectHandle, objectOptions, pmo, gmo>>

-----------------------------------------------------------------------------
(* Queue.get *)

GetObjects(t) ==
    {o \in Obj : /\ object[MakeKey(conn[t], o)] # None
                 /\ object[MakeKey(conn[t], o)].kind # "sub"}

\* The application or the queue says that no properties are wanted.
NoProperties(k, options) ==
    \/ options.props = "none"
    \/ /\ options.props = "queue"
       /\ objectOptions[k] # None /\ objectOptions[k].propCtl = "none"

Getting(o) == [Idle EXCEPT !.step = "getting", !.obj = o]

\* otel_get_trace_before, the GMO has a handle.
GetWithHandle(t, o) ==
    /\ Ready(t) /\ o \in GetObjects(t)
    /\ gmo[t].handle # None
    /\ call' = [call EXCEPT ![t] = Getting(o)]
    /\ UNCHANGED <<conn, object, msgHandle, objectHandle, objectOptions, pmo, gmo>>

\* The GMO has none and is left as it is.
GetWithout(t, o) ==
    LET k == MakeKey(conn[t], o) IN
    /\ Ready(t) /\ o \in GetObjects(t)
    /\ gmo[t].handle = None /\ ~NoProperties(k, gmo[t])
    /\ call' = [call EXCEPT ![t] = Getting(o)]
    /\ UNCHANGED <<conn, object, msgHandle, objectHandle, objectOptions, pmo, gmo>>

\* The GMO has none and gets that of the connection.
GetIntoOurs(t, o, h) ==
    LET k == MakeKey(conn[t], o) IN
    /\ Ready(t) /\ o \in GetObjects(t)
    /\ gmo[t].handle = None /\ NoProperties(k, gmo[t])
    /\ GetMsgHandle(SharedKey(conn[t]), h)
    /\ msgHandle' = Handles(h, conn[t])
    /\ gmo' = [gmo EXCEPT ![t].props = "handle", ![t].handle = h]
    /\ call' = [call EXCEPT ![t] = Getting(o)]
    /\ UNCHANGED <<conn, object, objectOptions, pmo>>

\* MQGET returns the properties in a handle, as an RFH2, or not at all.
InRfh2(t) ==
    \/ gmo[t].props = "rfh2"
    \/ gmo[t].props = "queue" /\ object[MakeKey(conn[t], call[t].obj)].propCtl = "all"

\* The handle is compared with the one of the object.
RestoredGmoOfObject(t) ==
    IF gmo[t].handle # None
       /\ objectHandle[MakeKey(conn[t], call[t].obj)] = gmo[t].handle
    THEN [gmo[t] EXCEPT !.props = "queue", !.handle = None] ELSE gmo[t]

\* otel_get_trace_after: if the handle is that of the connection, the GMO has
\* none again and the option for it is cleared.  The options that were stashed
\* before the get are not restored: they are under the object's key and are
\* looked for under the connection's, which has no entry (OptionsOfThisObject).
RestoredGmo(t) ==
    IF gmo[t].handle # None /\ objectHandle[SharedKey(conn[t])] = gmo[t].handle
    THEN [gmo[t] EXCEPT !.props = "queue", !.handle = None] ELSE gmo[t]

\* MQGET puts the properties of a message into handle h, if there is one.
Filled(h, trace) ==
    IF h = None THEN msgHandle ELSE [msgHandle EXCEPT ![h].trace = trace]

\* MQGET and otel_get_trace_after, in a span: the only thing that a get without
\* one does not do is to add the link.
GetReturns(t, trace) ==
    LET h == gmo[t].handle IN
    /\ At(t, "getting")
    /\ gmo[t].props = "handle" => h # None
    /\ msgHandle' = Filled(h, trace)
    /\ gmo' = [gmo EXCEPT ![t] = RestoredGmo(t)]
    /\ call' = [call EXCEPT ![t].step = "got", ![t].trace = trace,
                   ![t].link = IF h # None \/ InRfh2(t) THEN trace ELSE None]
    /\ UNCHANGED <<conn, object, objectHandle, objectOptions, pmo>>

\* MQGET fails, also because there is no message, or ends with a warning and a
\* message: get raises at once.
GetFails(t, trace) ==
    /\ At(t, "getting")
    /\ UNCHANGED msgHandle \/ msgHandle' = Filled(gmo[t].handle, trace)
    /\ call' = [call EXCEPT ![t] = Idle]
    /\ UNCHANGED <<conn, object, objectHandle, objectOptions, pmo, gmo>>

-----------------------------------------------------------------------------
(* QueueManager.disconnect *)

\* The prefix without the slash.
StartsLikeConnection(k, c) == k[1] = c \/ k[1] \div 10 = c

\* str(hConn) + "/" is a prefix of the key.
OfConnection(k, c) == k[1] = c

\* otel_disc, which leaves the message handles to MQDISC.
OtelDiscOptions(t) ==
    /\ Ready(t)
    /\ objectOptions' = [k \in Key |-> IF OfConnection(k, conn[t]) THEN None
                                       ELSE objectOptions[k]]
    /\ call' = [call EXCEPT ![t] = [Idle EXCEPT !.step = "disconnecting"]]
    /\ UNCHANGED <<conn, object, msgHandle, objectHandle, pmo, gmo>>

\* otel_disc
OtelDisc(t) ==
    /\ Ready(t)
    /\ msgHandle' = [h \in Handle |->
          IF \E k \in Key : OfConnection(k, conn[t]) /\ objectHandle[k] = h
          THEN None ELSE msgHandle[h]]
    /\ objectHandle' = [k \in Key |-> IF OfConnection(k, conn[t]) THEN None
                                      ELSE objectHandle[k]]
    /\ objectOptions' = [k \in Key |-> IF OfConnection(k, conn[t]) THEN None
                                       ELSE objectOptions[k]]
    /\ call' = [call EXCEPT ![t] = [Idle EXCEPT !.step = "disconnecting"]]
    /\ UNCHANGED <<conn, object, pmo, gmo>>

\* MQDISC ends the connection and what belongs to it, also when it fails.
Disconnect(t) ==
    /\ At(t, "disconnecting")
    /\ conn' = [conn EXCEPT ![t] = None]
    /\ object' = [k \in Conn \X Obj |-> IF k[1] = conn[t] THEN None ELSE object[k]]
    /\ msgHandle' = [h \in Handle |->
          IF msgHandle[h] # None /\ msgHandle[h].conn = conn[t] THEN None
          ELSE msgHandle[h]]
    /\ call' = [call EXCEPT ![t] = Idle]
    /\ UNCHANGED <<objectHandle, objectOptions, pmo, gmo>>

-----------------------------------------------------------------------------
Next ==
    \E t \in Thread :
        \/ \E c \in Conn : Connect(t, c)
        \/ \E h \in Handle \cup {None} : GivePmo(t, h)
        \/ \E asked \in Asked, h \in Handle \cup {None} : GiveGmo(t, asked, h)
        \/ \E o \in Obj, kind \in {"input", "other"}, ctl \in PropCtl,
              known \in PropCtl \cup {"unknown"} : OpenQueue(t, o, kind, ctl, known)
        \/ \E s, q \in Obj, ctl \in PropCtl, known \in PropCtl \cup {"unknown"} :
              Subscribe(t, s, q, ctl, known)
        \/ \E o \in Obj : CloseQueue(t, o) \/ CloseSub(t, o)
        \/ \E span \in Span \cup {None}, inBody, fails \in BOOLEAN :
              \/ PutWithHandle(t, span, inBody, fails)
              \/ \E h \in Handle : PutWithout(t, span, inBody, fails, h)
        \/ PutReturns(t) \/ PutFails(t)
        \/ \E o \in Obj : GetWithHandle(t, o) \/ GetWithout(t, o)
        \/ \E o \in Obj, h \in Handle : GetIntoOurs(t, o, h)
        \/ \E trace \in Remote \cup {None} : GetReturns(t, trace) \/ GetFails(t, trace)
        \/ OtelDisc(t) \/ Disconnect(t)

Spec == Init /\ [][Next]_vars

-----------------------------------------------------------------------------
(* Properties *)

\* The tables outlive no connection: a message handle that this layer would
\* put into a PMO or GMO exists and is one of the connection it is used on,
\* whoever else connects, disconnects and is given the same numbers
\* (mqotel.py:170-180, 87-101).
HandlesAlive ==
    \A k \in Key : objectHandle[k] # None =>
        /\ msgHandle[objectHandle[k]] # None
        /\ msgHandle[objectHandle[k]].conn = k[1]

\* What is known of an object is true of the object that has the handle now,
\* although handles are reused, subscriptions and their queues are closed in
\* either order, and entries are removed from three places (mqotel.py:160-314).
OptionsOfThisObject ==
    \A k \in Key : objectOptions[k] # None =>
        /\ k[2] # Star /\ object[k] # None
        /\ objectOptions[k].propCtl \in {object[k].propCtl, "unknown"}

\* When MQPUT is called for an application that left the handle to this layer,
\* the handle is one of the connection that the put is made on.  It has the span
\* the put is made in and not that of another put, get or connection, unless the
\* MQSETMP failed, which is passed over, or a put that failed left the handle in
\* the PMO: the hook then takes it for the application's and may leave what an
\* earlier put or get on this connection put there (mqotel.py:333-417).
SpanPropagated ==
    \A t \in Thread :
        /\ At(t, "putting")
        /\ call[t].from # "application" /\ call[t].span # None
        => /\ msgHandle[pmo[t]] # None /\ msgHandle[pmo[t]].conn = conn[t]
           /\ ~call[t].failed => /\ msgHandle[pmo[t]].trace # None
                                 /\ call[t].from = "connection" =>
                                       msgHandle[pmo[t]].trace = call[t].span

\* A get made in a span from a queue that was opened for input links the span
\* to the trace of the message and to nothing else, wherever the properties
\* come, unless the PROPCTL could not be found out (mqotel.py:469-498, 528-651).
SpanLinked ==
    \A t \in Thread :
        LET k == MakeKey(conn[t], call[t].obj) IN
        /\ At(t, "got")
        /\ object[k].kind = "input"
        /\ objectOptions[k] # None => objectOptions[k].propCtl # "unknown"
        => call[t].link = call[t].trace

\* A get that returns a message gives the GMO back as the application set it up,
\* also after gets that failed and left it changed (mqotel.py:563-571).  An
\* option for no properties is not returned: see RestoredGmo.
GmoReturned ==
    \A t \in Thread : At(t, "got") =>
        /\ IF gmo[t].asked = "handle" THEN gmo[t].handle # None ELSE gmo[t].handle = None
        /\ gmo[t].asked # "none" => gmo[t].props = gmo[t].asked

\* The trace in a message handle of the application is changed by nothing but a
\* get into that handle: a put that passes it on keeps it (mqotel.py:333-349).
OwnTraceKept ==
    [][\A h \in Handle \ Ours :
          (/\ msgHandle[h] # None /\ msgHandle[h].trace # None /\ msgHandle'[h] # None
           /\ ~\E t \in Thread : At(t, "getting") /\ gmo[t].handle = h)
          => msgHandle'[h].trace = msgHandle[h].trace]_vars
=============================================================================
