-------------------------------- MODULE Rfh2 ---------------------------------
(* An RFH2 object: folders added one by one, the header packed and unpacked in *)
(* the byte order of an encoding.  Buffers come from other programs, too.      *)
EXTENDS Naturals, Sequences, SequencesExt, FiniteSetsExt, Lengths

CONSTANTS
    Folder,         \* folders: name and length
    Buffer,         \* bound: what other programs have packed
    MaxFolders,     \* bound: folders in one header
    Nothing

Order == {"big", "little"}

VARIABLES
    opts,       \* the folders in self.opts: a name, the Length noted with it, the folder
    listed,     \* those of them that MQOpts knows, in its __list
    attr,       \* its attributes for the listed folders, name and nameLength; older ones are left out
    strucLength,    \* its attribute StrucLength; Nothing if it was read in the wrong byte order
    prefix,     \* the byte order in the format of the first field: "" is that of the machine
    buffer,     \* what was packed since the last change, and the encoding asked for
    has,        \* history: the folders it should have; Nothing after an unpack that failed
    wasBig      \* history: has it been big-endian

rfhVars == <<opts, listed, attr, strucLength, prefix, buffer, has, wasBig>>

\* The machine is little-endian, as MQENC_NATIVE says for the platforms of the tests.
Native == "little"

FixedPart == 36
Long == 4

\* A Length stands before each folder.
HeaderLength(lengths) == FixedPart + Total([i \in DOMAIN lengths |-> Long + lengths[i]])

\* Others pack folders that are as long as they say, or are padded, and a StrucLength
\* that ends the last of them.  The whole header may be there, a part of it, or just
\* its fixed part.
ASSUME RfhAssumption ==
    /\ \A f \in Folder : f.length \in Nat
    /\ \A b \in Buffer :
          /\ b.order \in Order
          /\ b.there \in {"header", "part", "fixed part"}
          /\ b.folders \in Seq([folder: Folder, length: Nat, wellFormed: BOOLEAN])
          /\ \A i \in DOMAIN b.folders : b.folders[i].length >= b.folders[i].folder.length
          /\ b.strucLength = HeaderLength([i \in DOMAIN b.folders |-> b.folders[i].length])

RfhTypeOK ==
    /\ \A i \in DOMAIN opts : opts[i].folder \in Folder /\ opts[i].length \in Nat
    /\ listed = opts \/ listed = <<>>
    /\ DOMAIN attr = {listed[i].name : i \in DOMAIN listed}
    /\ strucLength \in Nat \cup {Nothing}
    /\ prefix \in Order \cup {""}

RfhInit ==
    /\ opts = <<>> /\ listed = <<>> /\ attr = <<>> /\ strucLength = 0
    /\ prefix = "" /\ buffer = Nothing /\ has = <<>> /\ wasBig = FALSE

-----------------------------------------------------------------------------
(* MQOpts.__init__ gives each attribute its value in the list; set then gives  *)
(* those that get returned before their values back.                           *)

\* Of two folders with one name, the later.
FromList(list) ==
    [n \in {list[i].name : i \in DOMAIN list} |->
        LET last == list[Max({i \in DOMAIN list : list[i].name = n})]
        IN  [folder |-> last.folder, length |-> last.length]]

Saved == attr

\* Mutant: the object has no field for the new folder.
SavedAlone(list) == Saved

Reinit(list) ==
    LET new == FromList(list)
    IN  [n \in DOMAIN Saved \cup DOMAIN new |-> IF n \in DOMAIN Saved THEN Saved[n] ELSE new[n]]

\* The length of the header as MQOpts packs it.
GetLength(list) == HeaderLength([i \in DOMAIN list |-> list[i].length])

-----------------------------------------------------------------------------
PaddedFolder(n) == IF n % 4 = 0 THEN n ELSE n + 4 - (n % 4)

\* Mutant: StrucLength is that of the folders before.
LengthBefore(list) == GetLength(opts)

LengthAfter(list) == GetLength(list)

AddFolder(f) ==
    LET new == Append(opts, [name |-> f.name, length |-> PaddedFolder(f.length), folder |-> f])
    IN /\ Len(opts) < MaxFolders
       /\ opts' = new /\ listed' = new
       /\ attr' = Reinit(new)
       /\ strucLength' = LengthAfter(new)
       /\ has' = IF has = Nothing THEN Nothing ELSE Append(has, f)
       /\ buffer' = Nothing
       /\ UNCHANGED <<prefix, wasBig>>

\* What struct.pack makes of each folder: its Length, what it is, and the bytes it fills.
Packed(list, values) ==
    [i \in DOMAIN list |-> [length |-> values[list[i].name].length,
                            folder |-> values[list[i].name].folder,
                            room |-> list[i].length]]

\* Only a big-endian encoding changes the format.
Pack(encoding) ==
    LET big == encoding = "big"
        list == IF big THEN opts ELSE listed
        order == IF big THEN "big" ELSE prefix
        values == IF big THEN Reinit(opts) ELSE attr
    IN /\ prefix' = order /\ listed' = list /\ attr' = values
       /\ buffer' = [order |-> IF order = "" THEN Native ELSE order, asked |-> encoding,
                     strucLength |-> strucLength, folders |-> Packed(list, values),
                     has |-> has, wasBig |-> wasBig]
       /\ wasBig' = (wasBig \/ big)
       /\ UNCHANGED <<opts, strucLength, has>>

\* What is read of the folders: their name, and their bytes up to the first NUL.
Parsed(b) ==
    [i \in DOMAIN b.folders |-> [name |-> b.folders[i].folder.name,
                                 length |-> b.folders[i].length,
                                 folder |-> b.folders[i].folder]]

\* In the wrong byte order the sign of StrucLength is the top bit of its last byte.
ReadNegative(b, order) == order # b.order /\ b.strucLength % 256 >= 128

\* The fixed part alone is read without a look at what StrucLength promises.
FixedPartOnly(b, order) == b.there = "fixed part" /\ ~ReadNegative(b, order)

\* The header is read first, in the byte order of the encoding, or the one its Version
\* is in.  The wrong order makes StrucLength negative, or more than there is.  If that
\* or a folder is found to be wrong, no folder has become a field.
Unpack(b, encoding) ==
    LET order == IF encoding = "" THEN b.order ELSE encoding
        bad == SelectInSeq(b.folders, LAMBDA x : ~x.wellFormed)
        header == order = b.order /\ b.there = "header"
        read == IF ~header THEN <<>>
                ELSE IF bad = 0 THEN Parsed(b) ELSE SubSeq(Parsed(b), 1, bad - 1)
        ok == FixedPartOnly(b, order) \/ (header /\ bad = 0)
    IN /\ opts' = read
       /\ listed' = IF ok THEN read ELSE <<>>
       /\ attr' = IF ok THEN FromList(read) ELSE <<>>
       /\ strucLength' = IF order = b.order THEN b.strucLength ELSE Nothing
       /\ prefix' = order
       /\ has' = IF ~ok THEN Nothing ELSE IF b.there = "fixed part" THEN <<>>
                 ELSE [i \in DOMAIN b.folders |-> b.folders[i].folder]
       /\ wasBig' = (order = "big")
       /\ buffer' = Nothing

RfhNext ==
    \/ \E f \in Folder : AddFolder(f)
    \/ \E encoding \in Order \cup {""} : Pack(encoding)
    \/ \E b \in Buffer, encoding \in Order \cup {""} : Unpack(b, encoding)

RfhSpec == RfhInit /\ [][RfhNext]_rfhVars

-----------------------------------------------------------------------------
\* No two folders have one name: the object has a field for each.
Distinct(folders) ==
    \A i, j \in DOMAIN folders : folders[i].name = folders[j].name => i = j

\* A packed header has the folders that were added or read, whole and in order, each as
\* long as its Length says; StrucLength ends it; numbers are in the byte order asked for.
\* "Override pack in order to set correct numeric encoding in the format" (mqrfh2.py:136)
\* holds until the object has been big-endian, and StrucLength is 0 without folders.
PacksWhatItHas ==
    buffer # Nothing =>
        /\ buffer.asked = "big" => buffer.order = "big"
        /\ buffer.asked = "little" /\ ~buffer.wasBig => buffer.order = "little"
        /\ (IF buffer.has = Nothing THEN FALSE ELSE Distinct(buffer.has)) =>
              /\ [i \in DOMAIN buffer.folders |-> buffer.folders[i].folder] = buffer.has
              /\ \A i \in DOMAIN buffer.folders :
                    LET f == buffer.folders[i] IN f.length = f.room /\ f.room >= f.folder.length
              /\ buffer.has # <<>> =>
                    buffer.strucLength = HeaderLength([i \in DOMAIN buffer.folders |-> buffer.folders[i].room])
=============================================================================
