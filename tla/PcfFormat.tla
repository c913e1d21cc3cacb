------------------------------ MODULE PcfFormat ------------------------------
(* PCF messages: _Method.__call__ packs the arguments of a command, structure  *)
(* by structure; _unpack_option reads any PCF message into a dictionary.       *)
EXTENDS Naturals, Sequences, FiniteSets, SequencesExt, FiniteSetsExt, Lengths

CONSTANTS
    Command,    \* bound: the arguments and filters that commands are made with
    Response,   \* bound: what the queue manager has to say
    Key,        \* the keys of values
    AttrList,   \* of these, MQIACF_..._ATTRS and MQIACH_..._ATTRS
    GroupKey,   \* the keys of groups
    None

\* An item is a key with a value.  Its kind is that of the structure it goes into, or
\* "other": a value of a type no structure is for.  `of` is the value: integers,
\* or a text or several, which are their lengths, after the operator of a filter.
Text == {"string", "bytes", "stringFilter", "bytesFilter"}

Fixed == [string |-> 20, strings |-> 24, bytes |-> 16, stringFilter |-> 24, bytesFilter |-> 20,
          int |-> 16, int64 |-> 24, ints |-> 16, ints64 |-> 16, intFilter |-> 20, group |-> 16]

\* A filter has an operator before its value, only a list may be empty, and groups are
\* not in groups.
Plain ==
    [kind: {"string", "bytes", "int", "int64"}, key: Key, of: [1..1 -> Nat], members: {<<>>}]
    \cup [kind: {"stringFilter", "bytesFilter", "intFilter"}, key: Key, of: [1..2 -> Nat], members: {<<>>}]
    \cup [kind: {"strings", "ints", "ints64"}, key: Key, of: Seq(Nat), members: {<<>>}]
Unknown == [kind: {"other"}, key: Key, of: Seq(Nat), members: {<<>>}]
Group == [kind: {"group"}, key: GroupKey, of: Seq(Nat), members: Seq(Plain)]

ASSUME PcfAssumption ==
    /\ Command \subseteq Seq(Plain \cup Unknown)
    /\ Response \subseteq Seq(Plain \cup Group)
    /\ Key \cap GroupKey = {} /\ None \notin GroupKey

VARIABLES
    content,    \* the items of the message at hand
    at,         \* "idle", "packing", "reading", or ended by an exception: "raised"
                \* in packing, "error" in reading
    packed,     \* how many of them __call__ has gone through
    parameter,  \* the structure it has made last
    message,    \* the structures of the message
    read        \* the local variables of _unpack_option

pcfVars == <<content, at, packed, parameter, message, read>>

Header == 36

NothingRead == [index |-> 0, cursor |-> Header, group |-> None, groupCount |-> 0,
                res |-> <<>>, groups |-> [g \in GroupKey |-> <<>>]]

\* A dictionary; of texts, nuls says how many of the bytes only pad.
IsDict(dict) ==
    DOMAIN dict \subseteq Key /\ \A k \in DOMAIN dict : dict[k] \in [of: Seq(Nat), nuls: Nat]

Struct ==
    [type: DOMAIN Fixed \ {"group"}, param: Key, of: Seq(Nat), len: Nat, nuls: Nat, struc: Nat, bytes: Nat \ {0}]
    \cup [type: {"group"}, param: GroupKey, of: Seq(Nat), len: Nat, nuls: Nat, struc: Nat, bytes: Nat \ {0}]

PcfTypeOK ==
    /\ content \in Seq(Plain \cup Unknown \cup Group)
    /\ at \in {"idle", "packing", "reading", "raised", "error"}
    /\ packed \in 0..Len(content)
    /\ parameter \in Seq(Struct) /\ message \in Seq(Struct)
    /\ {read.index, read.cursor, read.groupCount} \subseteq Nat
    /\ read.group \in GroupKey \cup {None}
    /\ IsDict(read.res) /\ DOMAIN read.groups = GroupKey
    /\ \A k \in GroupKey : \A i \in DOMAIN read.groups[k] : IsDict(read.groups[k][i])

PcfInit ==
    /\ content = <<>> /\ message = <<>> /\ parameter = <<>>
    /\ at = "idle" /\ packed = 0 /\ read = NothingRead

-----------------------------------------------------------------------------
(* Structures.                                                                 *)

\* Mutant: nothing is padded.
PaddedNever(n) == n

PaddedCount(n) == n + ((4 - (n % 4)) % 4)

\* The longest of the texts of a list, padded.
WidestText(it) == IF it.of = <<>> THEN 0 ELSE PaddedCount(Max(ToSet(it.of)))

\* The structure for an item: its length field, the NUL bytes in it that only pad, its
\* StrucLength, and the bytes that its format string makes.
Structure(it) ==
    LET n == Last(it.of)
        count == Len(it.of)
        sized(len, nuls, room, bytes) ==
            [type |-> it.kind, param |-> it.key, of |-> it.of, len |-> len, nuls |-> nuls,
             struc |-> Fixed[it.kind] + room, bytes |-> Fixed[it.kind] + bytes]
    IN CASE it.kind \in Text -> sized(n, PaddedCount(n) - n, PaddedCount(n), PaddedCount(n))
         [] it.kind = "strings" ->
                sized(WidestText(it), WidestText(it) * count - Total(it.of), WidestText(it) * count,
                      WidestText(it) * (IF count = 0 THEN 1 ELSE count))
         [] it.kind = "ints" -> sized(count, 0, 4 * count, 4 * count)
         [] it.kind = "ints64" -> sized(count, 0, 8 * count, 8 * count)
         [] it.kind = "group" -> sized(Len(it.members), 0, 0, 0)
         [] OTHER -> sized(0, 0, 0, 0)

-----------------------------------------------------------------------------
(* Packing.                                                                    *)

Begin(items, phase, structures, index) ==
    /\ content' = items /\ at' = phase /\ packed' = 0 /\ parameter' = <<>>
    /\ message' = structures
    /\ read' = [NothingRead EXCEPT !.index = index]

Ask == at = "idle" /\ \E items \in Command : Begin(items, "packing", <<>>, 0)

\* An integer under a key that takes a list goes into a list of one.
AsArgument(it) ==
    IF it.kind = "int" /\ it.key \in AttrList THEN [it EXCEPT !.kind = "ints"] ELSE it

\* An empty list: its first value tells what it is a list of.
NoFirst(it) == it.kind \in {"strings", "ints"} /\ it.of = <<>>

\* What a value of no known type leaves in `parameter`: the structure before it, if any.
PackArgument ==
    LET it == content[packed + 1]
        made == IF it.kind = "other" THEN parameter ELSE <<Structure(AsArgument(it))>>
    IN /\ at = "packing" /\ packed < Len(content) /\ ~NoFirst(it)
       /\ parameter' = made
       /\ message' = message \o made
       /\ packed' = packed + 1
       /\ UNCHANGED <<content, at, read>>

\* value[0] raises an IndexError, and no command is sent.
RaiseOnEmptyList ==
    /\ at = "packing" /\ packed < Len(content) /\ NoFirst(content[packed + 1])
    /\ at' = "raised"
    /\ UNCHANGED <<content, packed, parameter, message, read>>

\* The command is complete; whoever gets it reads it.
Sent ==
    /\ at = "packing" /\ packed = Len(content)
    /\ at' = "reading"
    /\ read' = [NothingRead EXCEPT !.index = Len(content)]
    /\ UNCHANGED <<content, packed, parameter, message>>

\* The queue manager answers: a group stands before its members.
Flat(items) ==
    LET structures(it) ==
            <<Structure(it)>> \o (IF it.kind = "group" THEN [i \in DOMAIN it.members |-> Structure(it.members[i])]
                                  ELSE <<>>)
    IN FlattenSeq([i \in DOMAIN items |-> structures(items[i])])

Answer == at = "idle" /\ \E items \in Response : Begin(items, "reading", Flat(items), Len(items))

-----------------------------------------------------------------------------
(* Reading: one turn of the loop of _unpack_option.                            *)

\* Where structure i starts, and where the message ends if there is none.
Offset(i) == Header + Ends([j \in DOMAIN message |-> message[j].bytes])[i - 1]
MessageEnd == Offset(Len(message) + 1)
AtCursor == {i \in DOMAIN message : Offset(i) = read.cursor}

\* Texts of at most one byte are not read, and a CFST is cut at its StringLength.
ReadValue(s) ==
    IF s.type \in {"string", "bytes", "strings"} /\ s.len <= 1 THEN [of |-> <<0>>, nuls |-> 0]
    ELSE [of |-> s.of, nuls |-> IF s.type = "string" THEN 0 ELSE s.nuls]

\* Mutant: a member does not count.
GroupNever(n) == n

\* What is left of a group after one of its members.
GroupLeft(n) == n - 1

Put(dict, k, v) == [j \in DOMAIN dict \cup {k} |-> IF j = k THEN v ELSE dict[j]]

ReadGroup(s) ==
    read' = [read EXCEPT !.index = @ + s.len - 1,
                         !.cursor = @ + s.struc,
                         !.group = s.param,
                         !.groupCount = s.len,
                         !.groups[s.param] = Append(@, <<>>)]

ReadPlain(s) ==
    LET group == IF read.groupCount = 0 THEN None ELSE read.group
        put(dict) == Put(dict, s.param, ReadValue(s))
    IN read' = [index |-> read.index - 1,
                cursor |-> read.cursor + s.struc,
                group |-> group,
                groupCount |-> IF group = None THEN read.groupCount ELSE GroupLeft(read.groupCount),
                res |-> IF group = None THEN put(read.res) ELSE read.res,
                groups |-> IF group = None THEN read.groups
                           ELSE [read.groups EXCEPT ![group][Len(read.groups[group])] = put(@)]]

ReadNext ==
    /\ at = "reading" /\ read.index > 0
    /\ \/ \E i \in AtCursor :
            /\ IF message[i].type = "group" THEN ReadGroup(message[i]) ELSE ReadPlain(message[i])
            /\ UNCHANGED at
       \/ AtCursor = {} /\ at' = "error" /\ UNCHANGED read
    /\ UNCHANGED <<content, packed, parameter, message>>

\* The caller has the dictionary, or the exception.
Returned ==
    /\ \/ at = "reading" /\ read.index = 0
       \/ at \in {"raised", "error"}
    /\ content' = <<>> /\ message' = <<>> /\ parameter' = <<>>
    /\ at' = "idle" /\ packed' = 0 /\ read' = NothingRead

PcfNext ==
    \/ Ask \/ PackArgument \/ RaiseOnEmptyList \/ Sent
    \/ Answer
    \/ ReadNext \/ Returned

PcfSpec == PcfInit /\ [][PcfNext]_pcfVars

-----------------------------------------------------------------------------
(* Properties.                                                                 *)

Supported == \A i \in DOMAIN content : content[i].kind # "other"

\* A command whose values have types that __call__ knows is as the PCF format wants it:
\* ParameterCount structures, one per argument in their order, each as long as its
\* StrucLength says, on boundaries of four.
SentAsAsked ==
    at = "reading" /\ packed = Len(content) /\ Supported =>
        /\ Len(message) = Len(content)
        /\ \A i \in DOMAIN message :
              /\ message[i].param = content[i].key /\ message[i].of = content[i].of
              /\ message[i].struc = message[i].bytes /\ message[i].struc % 4 = 0

\* What the code does not read: a text of one byte (mqadmin.py:627, 665), and a list of no
\* texts or of several empty ones (mqadmin.py:639).
Unreadable(it) ==
    \/ it.kind \in {"string", "bytes"} /\ it.of = <<1>>
    \/ it.kind = "strings" /\ Len(it.of) # 1 /\ Total(it.of) = 0

\* One empty text stands for it.
AsRead(it) == IF Unreadable(it) THEN <<0>> ELSE it.of

\* The dictionary has what the first n items say: under each key, the last of its values.
Says(dict, items, n) ==
    LET plain == {i \in 1..n : items[i].kind # "group"}
    IN /\ DOMAIN dict = {items[i].key : i \in plain}
       /\ \A i \in plain : (\A j \in plain : items[j].key = items[i].key => j <= i) =>
             /\ dict[items[i].key].of = AsRead(items[i])
             /\ items[i].kind = "string" => dict[items[i].key].nuls = 0

\* How many of the first n items are groups under this key.
Groups(k, n) == Cardinality({i \in 1..n : content[i].kind = "group" /\ content[i].key = k})

\* A message is read to its end, every value comes back under its key and in its own
\* group, texts from a CFST without the bytes that pad them (mqadmin.py:611-715).  Those
\* that are Unreadable come back as one empty text, and disturb no other value.
ReadsAsWritten ==
    Supported =>
        /\ at # "error"
        /\ at = "reading" /\ read.index = 0 =>
            /\ read.cursor = MessageEnd
            /\ Says(read.res, content, Len(content))
            /\ \A k \in GroupKey : Len(read.groups[k]) = Groups(k, Len(content))
            /\ \A i \in DOMAIN content :
                  LET k == content[i].key
                  IN content[i].kind = "group" =>
                        Says(read.groups[k][Groups(k, i)], content[i].members, Len(content[i].members))
=============================================================================
