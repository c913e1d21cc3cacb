# TLA+ models of the ibmmq Python library

This directory models `ibmmq`, the Python interface to the MQI of IBM MQ: a C
extension (`src/code/ibmmq/ibmmqc.c`) that calls the MQ client library, and
Python classes over it. Every definition is translated from the source;
`PROJECT.json` ("map") says from which lines. MQ itself is not in the
repository. It appears as the environment: what an MQ call may return, and what
MQ does on its own, is taken from how the code uses it and is marked external
in the map.

## The system

| Component | State it keeps | Operations | What is hard about it |
|---|---|---|---|
| MQGET buffer map (`ibmmqc.c`) | a hash map from "hConn/hObj" to a message buffer | `updateQ`, `deleteQ`, `deleteAll`; `map_put`, `map_get`, `map_remove`, `map_resize` | resizing, collisions, keys compared by prefix, memory that runs out half-way |
| C extension (`ibmmqc.c`) | nothing between calls but the map and the callback pointer | one function per MQI verb | the GIL is released inside MQ, so threads interleave around the buffer map |
| Queue (`mqqueue.py`) | `__q_handle`, `__prev_length`, descriptor, options | `open`, `put`, `get`, `close`, `inquire`, `set`, `cb` | `get` may call MQGET twice; other consumers run in between |
| QueueManager (`mqqmgr.py`) | `__handle`, `__qmobj` | `connect`, `connect_with_options`, `disconnect`, `begin`, `commit`, `backout`, `put1`, `inquire`, `cb`, `ctl` | order of MQ call and clean-up; pointer fields swapped and restored |
| Asynchronous consumption (`mqcallback.py`) | `_stashedCBD`, `_stashedCTLO`, a lock | `real_cb`, `_internal_cb`, `_delete_all_callbacks` | MQ's own threads call back; handles are reused; the stash changes after the MQ call |
| PCF execution (`mqadmin.py`) | `_command_queue`, the reply queue | `_Method.__call__`, `disconnect` | replies of several queue managers, late replies, errors that are reported or passed over |
| OpenTelemetry (`mqotel.py`) | `object_handle`, `object_options`: message handles and PROPCTL values, with a lock each | hooks before and after put and get, at open, close and disconnect | one message handle for all calls on a connection; tables keyed by handles that MQ gives out again; hooks that an error skips |
| Topic, Subscription (`mqtopic.py`, `mqsub.py`) | handles of topic, subscription and managed queue | `open`, `pub`, `sub`, `close`, destructors | two handles with one life; a queue lent to a subscription has two objects |
| MessageHandle (`mqmsghdl.py`) | a handle | create, delete, properties | use after delete |
| MQINQ and MQSET (`mqinq.py`) | none | `common_inq`, `common_set` | one array of bytes for all texts, taken apart by a table of lengths |
| PCF formats (`mqpcf.py`, `_unpack_option`) | none between messages | pack the arguments of a command, unpack a response | padding, groups told by a count, texts of length 0 and 1 |
| RFH2 (`mqrfh2.py`) | folders, as a list and as fields | `add_folder`, `pack`, `unpack` | the object is built anew around values that are put back; two byte orders |
| Structure classes (`mqopts.py` and 20 others) | fields, buffers behind pointer fields | `set`, `pack`, `unpack`, `_set_ptr_field` | buffers whose life hangs on a dictionary entry |

They interact in six ways. Python classes call the C functions, which call MQ
without the GIL. The C functions share the buffer map. MQ calls
`cbFunc_C` on threads of its own, which calls `_internal_cb`, which finds the
application's function in the stash. A `PCFExecute` uses a `Queue` to put
commands and another to get replies. `Queue`, `Topic`, `Subscription` and
`QueueManager` call the hooks of `mqotel.py`, which change the caller's PMO and GMO. Every object
refers to its `QueueManager` and asks it for the connection handle at each call, so
that a reconnect gives all of them another connection.

### What makes the components correct

* Buffer map: an entry per key, found wherever resizes have put it, with a buffer
  that is allocated and its own; nothing leaks.
* C extension: from `updateQ` to the copy of the message nobody else frees, moves
  or overwrites the buffer.
* Queue: a message that leaves the queue reaches the application, whatever others do
  between the two MQGETs of a get.
* Callbacks: MQ's handles lead to the function, object and area they were
  registered with; nothing stays behind a connection that is gone.
* PCF: a call gets its own replies and all of them, leaves none behind, and ends.
* Objects: the number an object has is that of what it opened; what is open is
  within reach of the object that opened it, and a connection of its manager.
* `connect_with_options`: MQ gets the strings the application has set, in memory
  that is still there, and the structures have them again afterwards.
* Formats: what is unpacked is what was packed, value by value, on both sides of
  every boundary.
* OpenTelemetry: a message put in a span carries that span, a span is linked to the
  messages got in it, and the caller's options come back as they were.

`PROJECT.json` ("hazards") lists at its line each thing that can go wrong and is
hard to test, and the properties that watch it.

## The modules

| Module | Models | Checked by | Proved in |
|---|---|---|---|
| `BufferStore` | what the buffer map promises, one action per call | as part of `GetCalls`; as the specification of `BufferMap` | `GetProofs` |
| `BufferMap` | the bucket chains of the map | `MCBufferMap` | `BufferMapProofs` |
| `GetCalls` | threads inside MQGET, MQCLOSE, MQDISC over `BufferStore` | `MCGetCalls` | `GetProofs` |
| `QueueGet` | `Queue.get`, units of work, racing consumers | `MCQueueGet` | `GetProofs` |
| `Callbacks` | `mqcallback.py`, `ctl`, `disconnect` | `MCCallbacks` | `CallbacksProofs` |
| `PcfExec` | `_Method.__call__` and the reply queue | `MCPcfExec` | `PcfExecProofs` |
| `OTel` | the hooks of `mqotel.py` and the MQ calls they surround | `MCOTel` | `OTelProofs` |
| `Handles` | QueueManager, PCFExecute, Queue, Topic and Subscription objects over reused numbers | `MCHandles` | `HandlesProofs` |
| `ConnectOptions` | the pointer fields in `connect_with_options` | `MCConnectOptions` | `ConnectOptionsProofs` |
| `PcfFormat` | PCF messages: `__call__` packs, `_unpack_option` reads | `MCFormats` | `FormatsProofs` |
| `Rfh2` | RFH2 objects over `MQOpts` | `MCFormats` | `FormatsProofs` |
| `Attributes` | `common_inq` and `common_set` | `MCFormats` | `FormatsProofs` |
| `Lengths` | running sums: where each of several pieces ends | with the formats | `FormatsProofs` |

`GetCalls` is composed with `BufferStore` (it extends it and takes `UpdateQ`,
`DeleteQ`, `DeleteAll` as steps of its actions). `BufferMap` implements
`BufferStore`: `KeepsPromise` instantiates it with `store` mapped to what
`map_get` finds. So what is shown of the threads with the small store holds with
the hash map underneath, as far as `BufferMap` keeps its promise.

### BufferStore and BufferMap

`store[k]` is the `GetBuffer` under a key, `heap` the buffers `malloc` has handed
out. `updateQ` is `Allocate`, `Grow` or `Reuse`. In `BufferMap` the map is
`buckets`, a function from bucket numbers to chains, and `size` is
`map->size`; a key is the sequence of its character codes, because the hash
and the comparison of prefixes read them. The hash is djb2 modulo `HashWidth`; the run takes 2^16, of
which every capacity in use is a divisor, so the index is that of the code.
`AllocateFails` is memory that runs out after `map_resize`. Where there is no memory for
the buffer itself (`ibmmqc.c:382-384`) the map stays as it is and the descriptor is lost;
descriptors have no state in the model, so that this leak is not in it.

### GetCalls

A step is what runs between two places where the GIL can change hands:
`Prepare` (the Python part of `get`), `GetBegin` (`updateQ`), `Deliver` or
`GetFails` (inside MQ), `GetReturn` (the copy). MQCLOSE and MQDISC are three steps
each: inside MQ, the clean-up of the map, the Python assignment. `intact` holds
the threads whose buffer still has the message MQ wrote there. `With[t]` are the threads
whose connections and queues t works with. MQCLOSE and MQDISC may end what
they are about and report a warning (`CloseWarns`, `DiscWarns`); the code then skips the
clean-up of the map. MQ may give a number out as soon as it is free for MQ, before the
clean-up of the thread that had it. Two history variables name the consequences:
`warned`, connections that ended with a warning, whose buffers stay until the number is
used again; and `early`, connection numbers given out while somebody held them, of which
`BufferStays` says nothing; `OwnMessage` holds as long as there are none. A queue that is closed with a
warning leaves its buffer to the disconnect or to the next owner of its number.

### QueueGet

A message is its number in the order of arrival, with a length as put and a
length once converted. `prevLength` is `__prev_length`, `md` the message
identifier in the caller's descriptor, `retrying` the options of a get between
its MQGETs, its MatchOptions among them: a retry that matches the MsgId finds its message or
none, one that does not takes whatever is first (`RetryReturns`, `RetryWarns`). `swaps` notes a
retry that took another message and lost it. `handed` is a history variable: what an
application has been given of each message, returned or on the exception. Conversion warnings, truncation with
and without acceptance, other errors, commits and backouts are actions.

### Callbacks

Numbers of connections and objects are reused; `conn` and `object` say by
incarnation what a number denotes at present. `doing[a]` is the step between an MQ
call and the update of the stash, `delivery[c]` the callback that runs on a
connection, from the call by MQ over the look-up to the application's function,
which may itself register, open and close. `Disconnect` is followed by
the clean-up of the stash (`DeleteAllCallbacks`); `DisconnectWarns` ends the connection and raises,
which keeps the handle and the stash.
A number may be given out again at once. `made` says which threads still have
a `QueueManager` with a number, `warned` which numbers a disconnect has left in the stash, and
`early` those given out while a `QueueManager` had them: the later clean-up
under that number takes out the callbacks of the new owner, so that the properties say nothing of
those.

### PcfExec

`call[a]` holds the local variables of a call and where it is; a call's number is
also the MsgId of its command and the CorrelId of its replies. `script[n]` is what
the server will answer, `replies` the reply queue, which all calls share. A reply is
what the loop tells apart: type, last or not, completion code, CMDSCOPE
information, whether it has parameters, and whether the MQGET of it succeeds, warns, or
finds it too long. A response without parameters is read and not appended
(`mqadmin.py:365`), be it an error or not: `Responses` are those that say something.
`_unpack_option` is abstracted to these fields; `PcfFormat` has its body. `outcome[n]` is
how the call ended, and whether its loop had passed over an MQI error by then. The test of
`_command_queue` and its use are one step (`UseQueue`), as no MQ call is between them.
`ScriptAssumption` is what a command server promises: the last reply is marked as the
last, and no other is.

### OTel

`objectHandle` and `objectOptions` are the two tables of `mqotel.py`, `object` and
`msgHandle` what MQ has under the numbers it gave out. A connection is one
thread's, with a new PMO (`pmo`) and GMO (`gmo`); of each, only the message handle,
the properties option and, as history, the option the application set are kept.
A put is two steps, `PutWith...` (the hook before it) and `PutReturns` or
`PutFails` (MQPUT and the hook after it, which a failure skips); so is a get, with
`GetWithHandle`, `GetWithout` or `GetIntoOurs` first. A disconnect is `OtelDisc` and
then `Disconnect`. Between the two steps every other thread runs. The handle of a
connection is under `SharedKey`, the `hConn/*` of the code. `call[t]` keeps what a put
or get was about until the next call of the thread, so that the invariants can
relate its outcome to it; for a put, where the handle in the PMO came from (this layer,
a put that failed and left it there, the application) and whether the MQSETMP failed. Such a failure
is passed over, and the put goes on with what the handle had.

Left out: `tracestate`, which goes the way of `traceparent`; the hooks of `cb`; and
the options stashed before a get, since they are stored under the object's key
and looked up under the connection's, which never has an entry (part of
`OptionsOfThisObject`). An MQCLOSE with a warning, after which `close` raises and skips
`otel_close` (`mqqueue.py:416-418`), is in neither `OTel` nor `Handles`.

### Handles

A call of a method is one step; what threads do to each other between the steps of
a call is the subject of `GetCalls` and `Callbacks`. `mgr`, `obj`, `subQueue` and
`replyQueue` are the attributes of the Python objects, `link` and `opened` what MQ has
under the numbers of connections and objects. A step of MQ is about what has the number
now: that is the point of the model. `opened` says who opened it, or `Orphan` when
that object has let it go without closing it, as a destructor does whose MQCLOSE
fails. `lapses` records the three things the library does not cope with: a manager
that connects again while it or its objects keep old numbers ("stale"), a queue lent
to a subscription, which then has two objects ("lent"), and an MQDISC that ends
with a warning, after which `disconnect` keeps the handle ("warned"). Each property says
what holds without which of them. `RealOpen`, `New`, `Open`, `Use`, `Close` and `Del` stand
for Queue and Topic alike, whose code is the same but for names. A `PCFExecute` over an
existing `QueueManager` is a Queue of that manager, so that only the one that connects
itself is modelled.

### ConnectOptions

`field[f]` is what a pointer field holds: text, or a pointer to text. A call is three
steps: `ReachMQ` prepares the structures in their order and enters MQCONNX,
`Return` puts back, `Raise` leaves on the way. `call[t].passed` and `.alive` are what
MQ was given and which of the buffers are still kept (`__vs_ctype_store` has one a field).
`meant` is a history variable: what the application has set, or `Junk` once a
call that raised, or one of another thread, may have spoiled the field.
A text may be `Empty`: `_set_ptr_field` makes a pointer to it, and the tests of the restore
pass over it, so that in a CNO or SCO the pointer stays (`Lingers`).
`create_string_buffer` takes a number for a length, so a pointer that was left in a field
becomes a buffer of NULs: `PointerTo`.

### PcfFormat, Rfh2, Attributes

Three formats without state in common; `MCFormats` puts them side by side, and a
behaviour is of one of them. Texts are their lengths (PCF, RFH2) or short sequences of
bytes (attributes), which is what offsets and padding depend on.

* `PcfFormat`. A message is the items it is made of; `Structure` gives each the lengths
  that the class in `mqpcf.py` computes: `struc` is the field StrucLength, by which a reader goes
  on, and `bytes` what the format string packs. Lists may be empty, in responses and, as an
  exception that ends the call (`RaiseOnEmptyList`), in commands. `PackArgument` is one turn of the loop of
  `__call__`, with `parameter` left over from the turn before; `ReadNext` one turn of the
  loop of `_unpack_option`, with its cursor, its count of parameters and of group members.
  `Plain` are the items a structure exists for, `Unknown` those none does, `Group` the
  groups of a response. Commands are read back with the function that reads responses.
* `Rfh2`. `opts` is `self.opts`, `listed` what `MQOpts` was built with last, `attr` the
  attributes it set, `prefix` the byte order in the format string. `Buffer` is
  what other programs send: both byte orders, a folder that is not XML, a header cut short,
  and the 36 bytes of the fixed part alone, which are read whatever StrucLength says, unless it is
  negative in the byte order they are read in.
* `Attributes`. MQ fills two arrays in the order of the selectors (`InOrder`); `ValueOf` takes
  them apart as `common_inq` does, at the offset where the lengths before it end (`Ends` in `Lengths`). `Set` builds the two arrays of MQSET, `MQSET` is what a queue
  manager does with them.

## The runs

| Run | Shows | Instance |
|---|---|---|
| `BufferMap` | the chains are a map; it implements `BufferStore` | connections 1 and 15, objects 2 and 3, five buffers, capacity 1 at first |
| `BufferMapPrefix` | finding: an entry is left without a buffer | one connection, objects 2 and 20, capacity 16 |
| `GetCalls` | buffers and messages of threads with connections of their own | two threads, connections 1 and 5 with an object each, three buffers |
| `GetCallsShared` | finding: a message overwrites another | the same, with shared connections |
| `QueueGet` | which messages are lost, and that no others are | two consumers, three messages |
| `QueueGetOutgrown` | finding: a message is lost | two messages that more than double |
| `Callbacks` | callbacks resolve; the stash is emptied | two threads, two connections, two MQCONN, two MQOPEN |
| `PcfExec` | all responses and no others, no reply left behind, every call ends | two threads, two commands, six scripts |
| `OTel` | traces reach the right message and span; tables follow the handles; options come back | a thread that opens, gets and puts, one that puts; connections 1 and 15, two objects, two message handles |
| `Handles` | objects have numbers of their own; nothing open is out of reach | one QueueManager, one PCFExecute, two queues, a topic, a subscription; two numbers of connections and of objects |
| `ConnectOptions` | MQ gets what was set; structures come back | two threads, five fields, one text and the empty one, the calls of `MCArgs` |
| `Formats` | what is packed is what was given, what is read is what was packed | commands of up to three arguments, responses of up to three items or groups, three folders, five selectors |

Bounds, and why they are enough:

* `BufferMap`: four keys are enough for two resizes of a table that starts with
  one bucket, so that entries collide, split and change the order of their chain;
  fifteen begins with the digit of one, which is what the prefix of `deleteAll` must
  tell apart. The handles may be any that are not negative and fit an MQLONG, which
  is what MQ gives out; a key then fits `KEY_SIZE`. The keys of the passing run are such that none is a prefix of
  another; `BufferMapPrefix` is the case in which one is.
* `GetCalls`: interference takes two threads, and each may make, lose and make again both
  connections. One object on each is enough for `deleteAll`, since
  what it does to several keys of a connection is checked in `BufferMap`. `Length` 0 and 1 are a buffer that fits and one that grows.
* `QueueGet`: of `MCRaw` and `MCConverted`, <<3, 4, 3>> and <<6, 8, 9>>, the first two double, of
  which the second does not fit into what is asked for the first, and the third more than
  doubles. The length a Queue starts with is 2, which stands for 4096, so that its first
  MQGET finds its message too long. `MaxLength` is the maxLength of a get that gives one.
* `Callbacks`: two MQCONN and two MQOPEN (`MaxConnects`, `MaxOpens`) are one reuse
  of a number each.
* `PcfExec`: two commands (`MaxCalls`) are what a late reply needs; the scripts are
  one reply, one without parameters, an error without parameters before the last reply, CMDSCOPE
  with two last responses, a warning, and a reply that is too long.

* `OTel`: connections 1 and 15, because the digits of fifteen start with those of one,
  which `otel_disc` must tell apart. Two objects are a subscription with its managed queue,
  or a number that is reused while the other is open; two message handles are
  reused across connections and by the application. `Consumer` is a bound: one thread
  makes every call, the other only puts, which is all that the shared tables need
  to be raced for. `Asked` leaves out `MQGMO_PROPERTIES_FORCE_MQRFH2`, which takes the
  path of "queue" with a PROPCTL of "all".
* `Handles`: two numbers are one reuse; two queues are what a subscription needs that is
  made again, or that a queue is lent to. `Lapse` is {"lent"}: with "stale" or "warned"
  the properties that are conditional on them say nothing, and the states grow ten
  times ({"lent", "warned"} has 2.8 million and also passes).
* `ConnectOptions`: `MCUsed` has one of the fields that are prepared and restored alike
  (the password of the key repository), both credentials and the token that replaces
  them, and the field of the CD; one text is enough, since no property compares two, and the empty
  one where the code treats it differently: a pointer that lingers, a user without a
  password, a token that is none.
* `Formats`: lengths 0, 1, 4, 5 and 9 are on either side of the boundary of four and of
  the test for more than 1; three items are a group, what precedes it and what follows it;
  empty lists come in commands, in responses and in groups; a folder of 88 bytes makes a StrucLength
  of 128, which is negative in the other byte order;
  `MaxFolders` is three, two of one name.

No liveness property is checked with symmetry. Deadlock is checked in `OTel`, `Handles`,
`ConnectOptions` and `Formats`, where nothing is bounded but the numbers and inputs, and a
caller can always go on. It is not checked elsewhere: those environments are bounded
(messages, connections, commands), so every system stops in the end, and a caller that
has nothing to do is not stuck.

Fairness is assumed in `PcfExec` only: a thread that has made a call goes on
(`WF_vars(Proceed(a))`). The code justifies it, since every MQ call returns:
the wait of the MQGET is finite, as `PCFExecute.__init__` replaces
`MQWI_UNLIMITED` (`mqadmin.py:456-461`). Nothing is assumed of the server. A call
ends even if no reply comes, except where `Stuck` says so: errors are
ignored and the same error comes back.

## What is proved

The proofs are checked by TLAPS for all values of the constants that satisfy the
named assumptions.

* `GetProofs`, the store. `StoreInv` (types, `OwnBuffers`, `NoLeak`) is inductive for
  the store alone. `UpdateQEffect` and `DiscardEffect` say what a call does to the
  other keys: nothing. The threads below use the two.
* `ImplementsStore` (in `GetProofs`). `GetCalls` implements `StoreSpec`: whoever
  shares a connection, a step of a thread is one call of `updateQ`, `deleteQ` or `deleteAll`,
  or leaves the store alone. `NoLeak` and `OwnBuffers` of the threads follow from
  `StoreKeepsBuffersApart`, with no assumption about connections. What sharing does break is the
  order of these calls, hence the assumption of the next theorems.
* `GetProofs`, the threads. Under `PrivateConnections` (no thread uses what another has
  made) the properties of the run `GetCalls` hold for any number of threads,
  connections, objects and buffers. `IInv` adds to them
  `CallsAreTheThreads` (a thread in a call holds the connection, and its key is on it),
  `HeldApart` (two threads hold a number only if it was given out early), `HeldOrLeaving` (a handle
  that MQ has dropped is in a `disconnect`, or had a warning) and `IntactInMQ`. Without
  `HeldApart` the `deleteQ` of one thread could name the key another has a buffer for; without
  `HeldOrLeaving` a thread could start a get on a connection that is gone, and leave a
  buffer behind. `GetCallsShared` shows that the assumption is needed for `OwnMessage`.
* `GetProofs`, `Queue.get`. `QueueInv` is `QueueTypeOK`, `NothingLost` and `RetryAsks` together:
  `NothingLost` is not inductive alone, since only `RetryAsks` says that the second MQGET asks for
  the message the first has found, with twice its length. So a message that a matching retry
  takes and keeps back has outgrown that length, and one that another retry takes is more than
  half as long as the message it took the place of. `LengthNeverShrinks` follows from the types
  and from the condition under which `get` reads again.
* `BufferMapProofs`. The hash map implements `BufferStore`, for every capacity to start with,
  every width of the hash, all handles (of one to ten digits), all lengths and all
  buffers. The argument looks at the map as the set of its entries
  (`EntriesOf`); `IsMap` says that each entry stands in the bucket its key is hashed to, once.
  `map_put`, `map_get` and `map_remove` are then operations on that set, wherever in its chain an entry
  stands. A resize moves the entries one by one; `Pushed` gives each its rank in that order,
  with which the new chains are written down without recursion. The invariant comes in two
  parts. `ChainInv` (`IsMap`, and `map->size` counts the entries) needs no assumption about
  keys: the chains stay a map even where `deleteQ` takes out another object's entry
  (`ChainsStayAMap`). `MapInv` (every entry has a buffer that is its own and allocated) needs
  `PrefixFree`, no key starts with another, and it needs it in the step of `deleteQ` only;
  `BufferMapPrefix` shows what happens there without it. `deleteAll` is exact whatever
  the keys (`DeleteAllIsExact`), because it removes as it walks: what
  `map_remove` could mistake for an entry is gone before it. `ApartUnlessTenfold` says which handles
  are safe: keys are apart unless one object handle is another without its last digits. What
  that and `deleteAll` rest on is `BeginsIsQuotient`: digits that begin those of a number are
  the number divided by a power of ten, so that equal digits are equal numbers.
* `CallbacksProofs`. `MadeOnce` says that a `QueueManager` has the connection that its number denotes,
  as long as the number was not given out early. `ActorsHaveTheirs` says that an actor between MQCB and the update
  of the stash has the connection to itself, as its owner while it is stopped or as the
  callback that runs; so no two of these updates race, and `RegisteredIsStashed` (what MQ has
  a callback for is in the stash, or about to be) survives each. `DeliveriesAreOfStarted` then
  gives `CallbackResolves`. `OpenOnConnections` is why a number that is given out again
  is found with nothing registered, and `StartedHasArea` why an area that is never
  deleted is overwritten before it can be used.
* `PcfExecProofs`. The two facts that carry `NothingMissing` and `NothingLeftBehind` (together `HasAll`,
  for a call that has ended) are `ReadInOrder` (MQGET with
  a CorrelId takes the replies to a command in the order they were sent, so that the last
  is read when none is left) and `LoopKnows` (`ress`, `in_cmdscope` and `first_e` say exactly what
  the replies read so far amount to, those without parameters left out of the list). `OneThreadEach`
  keeps a call's replies from another thread, and `SilentBefore` keeps replies from a command that
  has not been put. Only the end of a call uses `ScriptAssumption`.
* `OTelProofs`. The lemmas about a step say that it touches only the thread's own connection
  (`LeavesOthers`), so that the invariant is shown key by key and thread by thread.
  `HandlesAlive` and `OptionsOfThisObject` need `Emptied` (between `otel_disc` and MQDISC no key
  of the connection is in a table) and `NoObjectsLeft`, for the next connection with that
  number. `SpanLinked` needs `InputsKnown` and `ManagedLinked`, the latter because a
  subscription's entry names another object, which may be closed first. `GmoReturned`
  needs `GmoSound`: at each moment the GMO is as the application set it, or has no handle, or
  has the library's after a get that failed. `SpanPropagated` needs to know of a put in progress where
  its handle came from, and that a handle of this layer that a failed put has left in the
  PMO is still the connection's. `OwnTraceKept` is an action property, from
  the same invariant. The theorems cover every set of consumers and of options
  in `Asked`, of which the run has a few.
* `HandlesProofs`. The theorems are for every `Lapse`; the run has only {"lent"}. `HoldsOwn`,
  `NothingLost` and `ConnectionsHeld` are proved together, since each says what an MQCLOSE or MQDISC of
  one object finds for the others. `DownIsEmpty` keeps the objects of one
  connection out of the next one with its number. `SubQueues` and `ReplyQueues` say
  which objects come in pairs: a close of the pair is two MQCLOSE calls, in an order
  that must not matter. `ConnectionsHeld` needs `connectWarned` in `link`: the connection that
  `connect` made with a warning is its manager's by right and not by number.
* `ConnectOptionsProofs`. `UsersPutBack` says of a field in use that one call has it, and
  will put back what was set; `SoundIsClean` and `SharingKept` tie a call to the history of
  the fields and options it uses. `Restored` is about moments at which no call
  is under way, so that it is not inductive without the first. `Unspoiled` is what a field holds that
  is as it was set: the text or, where the text is empty and `Lingers`, the pointer to it; the next call
  makes a text of NULs of that pointer, which is then no text the application has set.

* `FormatsProofs`, what the three share. `Ends` is a recursive function; that it adds up
  is shown by the least number at which it would not (`CountUp`), and that there is
  such a function by the least number up to which there is none (`RecursionExists`). `Flattened` says
  where each of several pieces stands in the whole, `CutOut` that it is cut out there again.
* `FormatsProofs`, `Rfh2`. `HasThem` ties the two lives of a folder together: what is on the
  list is under its name among the attributes, unless two folders share the name.
  With it `StrucLength` is the sum of what `pack` writes, for any folders and any received
  header that parses.
* `FormatsProofs`, `Attributes`. For any selectors, in any order and repeated, of any lengths, the
  offset that `common_inq` has counted up to a selector is where MQ put its text, and
  `common_set` writes where MQSET reads.
* `FormatsProofs`, `PcfFormat`. `Carries` says what of an item its structure has; every kind of item
  makes such a structure, of a length that is a multiple of four (`OneStructure`, `OneArgument`).
  `Lays` says that a message is the structures of its items, groups before their members; so are
  the answers of a queue manager (`FlatLays`) and the commands of `__call__` (`ArgumentsLay`).
  The heart of `PcfInv` is `PositionAt` with `HasRead`: between two turns of the loop there are a p
  and an m such that the cursor, `index` and `group_count` all say that p items are read but for
  the last m members of the p-th, and the dictionaries have exactly these. As no structure is
  empty, one structure starts at the cursor (`OffsetsGrow`), and the turn leads to the next such place
  (`NextPlain`, `NextGroup`, `NextMember`). The theorems cover any number of arguments, groups, members
  and keys, of which the run has at most three, and the values that the run takes from a few
  lengths; repeated keys included.

Model-checked only: `CallsEndUnlessStuck`, as liveness under fairness is out of the prover's
reach, and `TypeOK` of `MCFormats`, which is the conjunction of the three that are
proved. Where a definition recurses over data (hash, chains, running sums, flattened sequences)
the proofs do without the induction theorems of the library, whose operator parameters the
provers cannot instantiate: they take the least number for which the claim fails.

## Assumptions about MQ

* Inside one connection MQ runs one call at a time (`MQCNO_HANDLE_SHARE_BLOCK`, the
  default of `mqqmgr.py:165-169`).
* A handle number may be given out again as soon as MQ has ended what had it, before the code
  has cleaned up after it (`GetCalls`, `Callbacks`); in `Handles`
  and `OTel` the MQCLOSE of an object and what the code does after it are one step.
* A started connection refuses every call but MQCTL and MQDISC from other threads,
  and stop and disconnect wait for the callback that is running.
* A get that matches the MsgId finds that message or none, one that does not takes the first; a
  warning other than truncation leaves the message off the queue.
* MQDISC ends the connection, its objects and its message handles, also when it
  reports an error. An MQGET into a message handle replaces the properties there.
* MQCONN warns when the thread is connected already, and gives the number of that
  connection; MQCONNX always makes a new one. A broken connection keeps its number
  until MQDISC. Numbers are given out again. (`Handles`)
* MQSUB with MQSO_MANAGED opens a queue; with a queue of the application it returns the
  number it was lent (`mqsub.py:135-136` stores whatever it returns).
* MQINQ and MQSET use the arrays in the order of the selectors, texts in the lengths of
  `mqAttrLength`. A queue manager lays a group out before its members.

## Disagreements between the code and what is said of it

The three `violation` runs: removal by prefix (`ibmmqc.c:2512`), a buffer per
object and not per call (`ibmmqc.c:1005`), and a message dropped on the second
MQGET (`mqqueue.py:332`). `PROJECT.json` ("findings") quotes what each one disagrees with.

Read in the code and not the subject of a run; where a property of a passing run has a
proviso because of it, the proviso is named:

* `mqcallback.py:69`: `_delete_all_callbacks` looks for the connection area under
  `str(hconn)`, it was stored under the number (`mqcallback.py:77`), and stays for ever.
* `mqadmin.py:388`: with a list for the responses, an error that stays makes the reply
  loop endless (`Stuck` in `CallsEndUnlessStuck`).
* `mqqueue.py:177`: a put that fails leaves the library's message handle in the caller's
  PMO, and the next put with it carries the old span (`SpanPropagated`).
* `mqotel.py:565`: a get that found `MQGMO_NO_PROPERTIES` does not put that option back
  (`GmoReturned`); `mqotel.py:99`: `_get_msg_handle` reads the table again outside its lock;
  `mqotel.py:92`: for a callback it is given a number and asks it for its handle; and a put
  outside any span, after one inside, sends what the connection's handle was last given.
* `mqqmgr.py:426`: an MQDISC with a warning has ended the connection, and `disconnect`
  keeps its handle ("warned" in `ConnectionsHeld`) and the callbacks (`warned` in
  `StashEmptied`). `mqqmgr.py:77`: an MQCONN that makes a connection and warns leaves it to
  nobody (`connectWarned` in `ConnectionsHeld`). `ibmmqc.c:746` and `823`: the buffers stay
  after such an MQDISC or MQCLOSE (`warned` in `NoOrphans`).
* `mqqmgr.py:443`, `ibmmqc.c:746`: what is cleaned up after MQDISC may be that of the next
  connection with the number (`early`).
* `mqqueue.py:331`: a retry whose MatchOptions do not match may take another message, and lose it
  (`Swapped` in `NothingLost`).
* `mqqmgr.py:341`, `349`, `351`: an empty string in a CNO or SCO is not put back (`Lingers`).
* `mqotel.py:415`: after an MQSETMP that failed, the put sends what an earlier one has left
  (`SpanPropagated`).
* `mqadmin.py:574`: `PCFExecute.disconnect` never ends the connection that the object made.
* `mqtopic.py:263-266` says that a queue name given to `Topic.sub` is opened; it is passed to
  MQSUB as if it were a handle (`mqsub.py:125`).
* `mqqmgr.py:167`: an explicit `MQCNO_HANDLE_SHARE_NONE` is not seen, and BLOCK is added
  (`PassesWhatWasSet`). `mqqmgr.py:299`: the client binding for a CD is added to the CNO
  after it was packed (`mqqmgr.py:171`). `ibmmqc.c:701`: the BNO is passed on only if the
  version of the CNO is below 8. The `AuthenticationType` of an earlier call stays when the
  CSP names nobody.
* `mqadmin.py:365`: a response without parameters is not in the list, an error among them. `mqadmin.py:233`:
  an empty list as an argument raises an IndexError.
* `mqadmin.py:627`: texts of one byte come back empty, and an empty list of texts as a list of
  one (`AsRead`). `mqadmin.py:245`:
  a value of an unknown type packs the structure before it again (`Supported`).
  `mqadmin.py:670`: a group inside a group ends the outer one.
* `mqrfh2.py:136` promises the byte order of the encoding; after a big-endian `pack` the
  object stays big-endian. Two folders of one name share a field, and the first one's
  text is packed for both (`PacksWhatItHas`).

## Plan

The order in which the project was built; every step has its models, runs and proofs.

1. `BufferStore`, `BufferMap`, `GetCalls`, with `GetProofs` and `BufferMapProofs`.
2. `QueueGet`, with its part of `GetProofs`.
3. `Callbacks`, with `CallbacksProofs`.
4. `PcfExec`, with `PcfExecProofs`.
5. `OTel`, with `OTelProofs`.
6. `Handles`, with `HandlesProofs`.
7. `ConnectOptions`, with `ConnectOptionsProofs`.
8. `PcfFormat`, `Rfh2`, `Attributes`, with `FormatsProofs`.

What could follow: groups inside groups in `PcfFormat`, and connections that threads share in `OTel`.

## Not modelled

* `put_rfh2`, `get_rfh2`, `get_no_jms`: they chain headers that `Rfh2` packs and unpacks
  around the put and get of `QueueGet` and `OTel`.
* `put1`, `begin`, `stat`, `subrq`, `connect_tcp_client`: a structure is packed, one MQ call
  made, the structure unpacked; no state is kept.
* The hooks of `mqotel.py` for asynchronous consumption, `tracestate`, and connections that
  threads share; iteration over the properties of a message handle.
* Structure classes other than those of `connect_with_options`: fixed layouts. `MQCHARV`
  fields (`set_vs`, `get_vs`) keep a buffer each as the pointer fields do.
* Constants (five sixths of the lines of the package are generated tables), logging,
  exceptions, build files, examples and tests: nothing there changes state.
