------------------------------ MODULE MCFormats ------------------------------
(* PcfFormat, Rfh2 and Attributes for TLC: they share no state, and a          *)
(* behaviour is one of the three.                                              *)
EXTENDS PcfFormat, Rfh2, Attributes, TLC

CONSTANTS b1, b2, k1, k2, k3, g1, g2        \* keys; k3 takes a list, g1 and g2 have groups
CONSTANTS i1, i2, c1, c2, key, other        \* selectors

UpTo(n, S) == UNION {[1..i -> S] : i \in 0..n}

\* Values of every kind, with texts shorter and longer than a boundary.
Item(kind, k, v) == [kind |-> kind, key |-> k, of |-> v, members |-> <<>>]
Argument(k) ==
    {Item(kind, k, <<n>>) : kind \in {"string", "bytes"}, n \in {0, 1, 4, 5}}
    \cup {Item("int", k, <<7>>), Item("ints", k, <<7, 8>>), Item("other", k, <<0>>)}
    \cup {Item("strings", k, v) : v \in {<<3>>, <<0, 0>>, <<2, 9>>}}
    \cup {Item(kind, k, <<>>) : kind \in {"strings", "ints"}}
Second == {Item("string", k2, <<6>>), Item("int", k3, <<7>>), Item("other", k2, <<0>>)}
Filters ==
    {Item("stringFilter", b1, <<6, n>>) : n \in {0, 1, 7}}
    \cup {Item("intFilter", b1, <<6, 7>>), Item("bytesFilter", b2, <<6, 3>>)}
MCCommand ==
    LET arguments == {<<>>} \cup {<<a, b>> : a \in Argument(k1), b \in Second}
    IN {a \o f : a \in arguments, f \in {<<>>} \cup {<<x>> : x \in Filters}}

\* Answers: at most three items at the top, groups of at most two members.
Few == {Item("string", k1, <<5>>), Item("strings", k1, <<>>),
        Item("int64", k1, <<7>>), Item("ints64", k2, <<7, 8>>)}
GroupOf(k, members) == [Item("group", k, <<0>>) EXCEPT !.members = members]
MCResponse ==
    UpTo(3, Few \cup {GroupOf(g, m) : g \in GroupKey,
                                    m \in {<<>>} \cup {<<x, Item("bytes", k2, <<6>>)>> : x \in Few}}
                \cup {GroupOf(g1, <<x>>) : x \in Few})

MCFolder == {[name |-> "usr", length |-> 4], [name |-> "usr", length |-> 6],
             [name |-> "mcd", length |-> 9]}
Received(f, ok) == [folder |-> f, length |-> PaddedFolder(f.length), wellFormed |-> ok]
MCBuffer ==
    LET usr == Received([name |-> "usr", length |-> 6], TRUE)
        mcd == Received([name |-> "mcd", length |-> 9], TRUE)
        long == [folder |-> [name |-> "usr", length |-> 6], length |-> 88, wellFormed |-> TRUE]
        bad == Received([name |-> "mcd", length |-> 9], FALSE)
        header(o, t, fs) == [order |-> o, there |-> t, folders |-> fs,
                             strucLength |-> FoldLeft(LAMBDA n, f : n + 4 + f.length, 36, fs)]
    IN {header(o, "header", fs) : o \in Order,
                                  fs \in {<<usr>>, <<mcd, usr>>, <<usr, usr>>, <<usr, bad>>, <<bad>>}}
       \cup {header(o, "fixed part", fs) : o \in Order, fs \in {<<>>, <<mcd, usr>>, <<long>>}}
       \cup {header("little", "part", <<usr>>)}

MCAttrLength == (c1 :> 2) @@ (c2 :> 3) @@ (key :> 2)
MCInquiry ==
    UpTo(2, CharAttr) \cup {<<i1, c1, i2, c2>>, <<key, i2, c1, i1>>, <<c2, key, c1, c2>>, <<c1, other>>}
MCSetting ==
    LET text(s) == {<<s, v>> : v \in {<<>>, <<2, 3>>, <<4, 4, 5>>, <<6, 6, 6, 6>>}}
    IN {<<<<i1, <<2>>>>>>, <<<<other, <<>>>>>>}
       \cup {<<t, <<i2, <<2>>>>, <<i1, <<3>>>>>> : t \in text(c1)}
       \cup {<<t, <<i2, <<3>>>>, u>> : t \in text(c2), u \in text(c1)}

Init == PcfInit /\ RfhInit /\ AttrInit

PcfIdle == at = "idle"
RfhIdle == buffer = Nothing /\ opts = <<>> /\ has = <<>> /\ prefix = ""
AttrIdle == reply = NoReply /\ attribute = [s \in DOMAIN attribute |-> [i \in DOMAIN attribute[s] |-> 1]]

Next ==
    \/ PcfNext /\ RfhIdle /\ AttrIdle /\ UNCHANGED rfhVars /\ UNCHANGED attrVars
    \/ RfhNext /\ PcfIdle /\ AttrIdle /\ UNCHANGED pcfVars /\ UNCHANGED attrVars
    \/ AttrNext /\ PcfIdle /\ RfhIdle /\ UNCHANGED pcfVars /\ UNCHANGED rfhVars

Spec == Init /\ [][Next]_<<pcfVars, rfhVars, attrVars>>

\* The variables of the three formats have their types.
TypeOK == PcfTypeOK /\ RfhTypeOK /\ AttrTypeOK
=============================================================================
