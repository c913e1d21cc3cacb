------------------------------ MODULE Attributes -----------------------------
(* MQINQ and MQSET: selectors in any order, values in two arrays, one of       *)
(* integers and one of the bytes of all texts, which Python takes apart.       *)
EXTENDS Integers, Sequences, SequencesExt, FiniteSetsExt, Lengths

CONSTANTS
    Selector,
    IntAttr,        \* selectors from MQIA_FIRST to MQIA_LAST
    CharAttr,       \* the keys of mqAttrLength
    AttrLength,     \* mqAttrLength
    Secret,         \* MQCA_INITIAL_KEY
    Inquiry,        \* bound: sequences of selectors
    Setting,        \* bound: dictionaries, as sequences of pairs of a selector and its value
    NoReply

\* A value is a sequence: a text of its bytes, an integer of itself.  0 is the NUL byte.
Value == Seq(Int)

Stars == [i \in 1..8 |-> 42]

ASSUME AttributesAssumption ==
    /\ IntAttr \cup CharAttr \subseteq Selector /\ IntAttr \cap CharAttr = {}
    /\ AttrLength \in [CharAttr -> Nat]
    /\ Secret \in CharAttr
    /\ Inquiry \subseteq Seq(Selector)
    /\ Setting \subseteq Seq(Selector \X Value)
    /\ \A kv \in Setting :
          /\ \A i \in DOMAIN kv : kv[i][1] \in IntAttr => Len(kv[i][2]) = 1
          /\ \A i, j \in DOMAIN kv : kv[i][1] = kv[j][1] => i = j

VARIABLES
    attribute,  \* the attributes of the object, in the queue manager
    wanted,     \* history: what they have been set to
    reply       \* what the last inquire returned, if nothing was set since

attrVars == <<attribute, wanted, reply>>

-----------------------------------------------------------------------------
(* What a selector takes of each array. *)

IntSize(s) == IF s \in IntAttr THEN 1 ELSE 0

GetAttrLength(s) == IF s \in CharAttr THEN AttrLength[s] ELSE 0

Fits(s, v) == v \in Value /\ Len(v) = IntSize(s) + GetAttrLength(s)

AttrTypeOK ==
    /\ DOMAIN attribute = IntAttr \cup CharAttr /\ DOMAIN wanted = DOMAIN attribute
    /\ \A s \in DOMAIN attribute : Fits(s, attribute[s])
    /\ reply # NoReply => DOMAIN reply \subseteq DOMAIN attribute

AttrInit ==
    /\ attribute = [s \in IntAttr \cup CharAttr |-> [i \in 1..(IntSize(s) + GetAttrLength(s)) |-> 1]]
    /\ wanted = attribute
    /\ reply = NoReply

\* get_attr_info raises MQRC_SELECTOR_ERROR for a selector that is in neither range.
Known(selectors) == ToSet(selectors) \subseteq IntAttr \cup CharAttr

\* Where the part of each selector ends in the array of integers and in that of bytes.
IntEnds(selectors) == Ends([i \in DOMAIN selectors |-> IntSize(selectors[i])])
CharEnds(selectors) == Ends([i \in DOMAIN selectors |-> GetAttrLength(selectors[i])])

\* The values of the selectors in S, in the order of the selectors.
InOrder(selectors, S, values) ==
    FlattenSeq([i \in DOMAIN selectors |-> IF selectors[i] \in S THEN values[i] ELSE <<>>])

-----------------------------------------------------------------------------
\* MQINQ fills the two arrays in the order of the selectors, as far as they go.
MQINQ(selectors, S, length) ==
    SubSeq(InOrder(selectors, S, [i \in DOMAIN selectors |-> attribute[selectors[i]]]), 1, length)

\* Mutant: the key that is not shown has no place in the array.
OffsetOfShown(selectors, i) ==
    Ends([j \in DOMAIN selectors |->
             IF selectors[j] = Secret THEN 0 ELSE GetAttrLength(selectors[j])])[i - 1]

\* char_offset when the loop of common_inq comes to the i-th selector.
CharOffset(selectors, i) == CharEnds(selectors)[i - 1]

ValueOf(selectors, ints, chars, i) ==
    LET s == selectors[i]
        at == CharOffset(selectors, i)
    IN IF s \in IntAttr THEN <<ints[IntEnds(selectors)[i - 1] + 1]>>
       ELSE IF s = Secret THEN Stars
       ELSE SubSeq(chars, at + 1, at + GetAttrLength(s))

\* The caller gets a dictionary: of two values for one selector, the later.
Inquire(selectors) ==
    LET ints == MQINQ(selectors, IntAttr, IntEnds(selectors)[Len(selectors)])
        chars == MQINQ(selectors, CharAttr, CharEnds(selectors)[Len(selectors)])
        last(s) == Max({i \in DOMAIN selectors : selectors[i] = s})
    IN /\ reply' = IF Known(selectors)
                   THEN [s \in ToSet(selectors) |-> ValueOf(selectors, ints, chars, last(s))]
                   ELSE NoReply
       /\ UNCHANGED <<attribute, wanted>>

-----------------------------------------------------------------------------
Oversize(s, v) == s \notin IntAttr /\ Len(v) > GetAttrLength(s)

\* A text is filled up with NULs to the length of its attribute.
FilledUp(s, v) ==
    IF s \in IntAttr THEN v ELSE v \o [i \in 1..(GetAttrLength(s) - Len(v)) |-> 0]

IndexOf(selectors, s) == CHOOSE i \in DOMAIN selectors : selectors[i] = s

\* MQSET takes the values from the arrays in the order of the selectors.
MQSET(selectors, ints, chars) ==
    LET taken(i) ==
            LET s == selectors[i]
                at == CharEnds(selectors)[i - 1]
            IN IF s \in IntAttr THEN <<ints[IntEnds(selectors)[i - 1] + 1]>>
               ELSE SubSeq(chars, at + 1, at + GetAttrLength(s))
    IN [s \in DOMAIN attribute |->
           IF s \in ToSet(selectors) THEN taken(IndexOf(selectors, s)) ELSE attribute[s]]

\* MQ sets all of them, or refuses.
Set(kv) ==
    LET selectors == [i \in DOMAIN kv |-> kv[i][1]]
        values == [i \in DOMAIN kv |-> FilledUp(kv[i][1], kv[i][2])]
        ints == InOrder(selectors, IntAttr, values)
        chars == InOrder(selectors, Selector \ IntAttr, values)
    IN /\ ~\E i \in DOMAIN kv : Oversize(kv[i][1], kv[i][2])
       /\ \/ /\ Known(selectors)
             /\ attribute' = MQSET(selectors, ints, chars)
             /\ wanted' = [s \in DOMAIN wanted |->
                              IF s \in ToSet(selectors) THEN values[IndexOf(selectors, s)]
                              ELSE wanted[s]]
          \/ UNCHANGED <<attribute, wanted>>
       /\ reply' = NoReply

AttrNext ==
    \/ \E selectors \in Inquiry : Inquire(selectors)
    \/ \E kv \in Setting : Set(kv)

AttrSpec == AttrInit /\ [][AttrNext]_attrVars

-----------------------------------------------------------------------------
\* Whatever is asked for or set in one call, in whatever order and how often, each
\* value goes to and comes from the attribute it was asked of, not its neighbour in
\* the arrays (mqinq.py:113-216).
EachItsOwn ==
    /\ attribute = wanted
    /\ reply # NoReply =>
          \A s \in DOMAIN reply : reply[s] = IF s = Secret THEN Stars ELSE attribute[s]
=============================================================================
