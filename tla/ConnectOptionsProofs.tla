------------------------- MODULE ConnectOptionsProofs -------------------------
(* Whichever threads connect with whichever structures, and whichever calls   *)
(* raise: what the application has set and nothing has spoiled reaches MQ,    *)
(* and is back in the structures when the call has ended.                     *)
EXTENDS ConnectOptions, TLAPS

ClearText(text) == [ptr |-> FALSE, text |-> text]
Pointer(text) == [ptr |-> TRUE, text |-> text]

\* What a field that nothing has spoiled may hold: what the application set, or the pointer
\* that is left of an empty string.
Unspoiled(f, v) == v = ClearText(meant[f]) \/ (Lingers(f) /\ v = Pointer(meant[f]))

\* A field that nothing has spoiled is used by one call at most, and that call puts
\* back what the application has set, or finds nothing to put back.
UsersPutBack ==
    \A t \in Thread, f \in Field : f \in FieldsIn(call[t].args) /\ meant[f] # Junk =>
        /\ \A u \in Thread \ {t} : f \notin FieldsIn(call[u].args)
        /\ Unspoiled(f, call[t].saved[f])
        /\ ~PutsBack(f, call[t].saved[f]) => Unspoiled(f, field[f])

\* Nothing has spoiled the fields of a call that is sound.
SoundIsClean ==
    \A t \in Thread : call[t].sound =>
        \A f \in FieldsIn(call[t].args) : meant[f] # Junk

\* The options in the CNO are the application's, or those with the default added.
SharingKept ==
    /\ sharing \in {{}, {"NO_BLOCK"}, {"NONE"}}
    /\ options.share \in {sharing, Shared(sharing)}

IInv ==
    /\ TypeOK
    /\ UsersPutBack
    /\ SoundIsClean
    /\ SharingKept
    /\ Restored
    /\ PassesWhatWasSet

-----------------------------------------------------------------------------
(* The structures and the preparation of them.                                 *)

\* Every structure has fields of its own.
LEMMA FieldsAreOfOne ==
    /\ Struct = {"CNO", "SCO", "CSP", "CD"}
    /\ \A s \in Struct : FieldsOf[s] \subseteq Field
    /\ \A s, r \in Struct : FieldsOf[s] \cap FieldsOf[r] # {} => s = r
BY DEF Struct, Field, FieldsOf

\* So structures that share a field are shared, and a call uses a field with all of
\* the structure that it is in.
LEMMA FieldsInStructs ==
    ASSUME NEW args \in SUBSET Struct
    PROVE  /\ FieldsIn(args) \subseteq Field
           /\ \A s \in Struct : \A f \in FieldsOf[s] : f \in FieldsIn(args) <=> s \in args
           /\ \A more \in SUBSET Struct :
                 FieldsIn(args) \cap FieldsIn(more) # {} => args \cap more # {}
<1>1. FieldsIn(args) \subseteq Field
  BY FieldsAreOfOne DEF FieldsIn
<1>2. \A s \in Struct : \A f \in FieldsOf[s] : f \in FieldsIn(args) <=> s \in args
  BY FieldsAreOfOne DEF FieldsIn
<1>3. ASSUME NEW more \in SUBSET Struct, NEW f \in FieldsIn(args), f \in FieldsIn(more)
      PROVE  args \cap more # {}
  <2>1. PICK s \in args : f \in FieldsOf[s]
    BY DEF FieldsIn
  <2>2. PICK r \in more : f \in FieldsOf[r]
    BY <1>3 DEF FieldsIn
  <2> QED
    BY <2>1, <2>2, FieldsAreOfOne
<1> QED
  BY <1>1, <1>2, <1>3

\* A field is prepared with its structure and with no other.
LEMMA PreparedWithStruct ==
    ASSUME NEW done \in SUBSET Struct, NEW cur, NEW f \in Field
    PROVE  /\ f \notin FieldsIn(done) => Prepared(done, cur)[f] = cur[f]
           /\ \A s \in done : f \in FieldsOf[s] => Prepared(done, cur)[f] = Prepare(s, cur)[f]
<1>1. PICK s \in Struct : f \in FieldsOf[s]
  BY DEF Field
<1>2. \A r \in Struct : f \in FieldsOf[r] => r = s
  BY <1>1, FieldsAreOfOne
<1>3. StructOf(f) = s
  BY <1>1, <1>2 DEF StructOf
<1>4. Prepared(done, cur)[f] = IF s \in done THEN Prepare(s, cur)[f] ELSE cur[f]
  BY <1>3 DEF Prepared
<1>5. f \in FieldsIn(done) <=> s \in done
  BY <1>1, FieldsInStructs
<1> QED
  BY <1>2, <1>4, <1>5

\* What a preparation leaves in a field is text, a pointer to text, or nothing.
LEMMA PrepareTyped ==
    ASSUME NEW s \in Struct, NEW cur \in [Field -> Value]
    PROVE  Prepare(s, cur) \in [Field -> Value]
<1>1. \A fs, now : now \in [Field -> Value] =>
          SetPtr(now, fs) \in [Field -> Value] /\ ClearPtr(now, fs) \in [Field -> Value]
  BY DEF SetPtr, ClearPtr, PointerTo, Unset, Value
<1>2. \A f, now : now \in [Field -> Value] => SetPtrIfAny(now, f) \in [Field -> Value]
  BY <1>1 DEF SetPtrIfAny
<1>3. PrepareCSP(cur) \in [Field -> Value]
  BY <1>1, <1>2 DEF PrepareCSP
<1> QED
  BY <1>1, <1>2, <1>3, FieldsAreOfOne DEF Prepare

LEMMA PreparedTyped ==
    ASSUME NEW done \in SUBSET Struct, NEW cur \in [Field -> Value]
    PROVE  Prepared(done, cur) \in [Field -> Value]
<1>1. ASSUME NEW f \in Field PROVE Prepared(done, cur)[f] \in Value
  <2>1. CASE f \notin FieldsIn(done)
    BY <2>1, PreparedWithStruct
  <2>2. CASE f \in FieldsIn(done)
    <3>1. PICK s \in done : f \in FieldsOf[s]
      BY <2>2 DEF FieldsIn
    <3> QED
      BY <3>1, PreparedWithStruct, PrepareTyped
  <2> QED
    BY <2>1, <2>2
<1> QED
  BY <1>1 DEF Prepared

\* A field that is not set and no credential stays as it is.
LEMMA UnsetStays ==
    ASSUME NEW s \in Struct, NEW cur \in [Field -> Value], NEW f \in FieldsOf[s],
           cur[f] = Unset
    PROVE  Prepare(s, cur)[f] = Unset
<1>1. PointerTo(Unset) = Unset /\ ~Truthy(Unset)
  BY DEF PointerTo, Unset, Truthy
<1>2. \A fs : SetPtr(cur, fs)[f] = Unset /\ ClearPtr(cur, fs)[f] = Unset
  BY <1>1, FieldsAreOfOne DEF SetPtr, ClearPtr
<1>3. \A g : SetPtrIfAny(cur, g)[f] = Unset
  BY <1>2 DEF SetPtrIfAny
<1>4. PrepareCSP(cur)[f] = Unset
  BY <1>1, <1>2, FieldsAreOfOne DEF PrepareCSP, SetPtrIfAny, SetPtr, ClearPtr
<1> QED
  BY <1>2, <1>3, <1>4, FieldsAreOfOne DEF Prepare

\* What a call does not put back was nothing, and is that still, or an empty string.
LEMMA NotPutBack ==
    ASSUME IInv, NEW args \in SUBSET Struct, NEW f \in FieldsIn(args),
           Packs(args, Prepared(args, field)), Unspoiled(f, field[f]), ~PutsBack(f, field[f])
    PROVE  Unspoiled(f, Prepared(args, field)[f])
<1>1. PICK s \in args : f \in FieldsOf[s]
  BY DEF FieldsIn
<1>2. Prepared(args, field)[f] = Prepare(s, field)[f] /\ f \in Field /\ s \in Struct
  BY <1>1, PreparedWithStruct, FieldsAreOfOne
<1>3. field \in [Field -> Value] /\ meant \in Texts
  BY DEF IInv, TypeOK
<1>4. f \notin {"CSPUserId", "CSPPassword"} /\ meant[f] \in {None, Empty} /\ field[f] = ClearText(meant[f])
  BY ConnectOptionsAssumption DEF PutsBack, Truthy, Unspoiled, ClearText, Pointer, Lingers
<1>5. CASE meant[f] = None
  BY <1>1, <1>2, <1>3, <1>4, <1>5, UnsetStays DEF Unspoiled, ClearText, Unset
<1>6. CASE meant[f] = Empty
  <2>1. CASE s \in {"CNO", "SCO"}
    <3>1. Prepare(s, field)[f] = PointerTo(field[f])
      BY <1>1, <1>2, <2>1, FieldsAreOfOne DEF Prepare, SetPtr
    <3>2. PointerTo(ClearText(Empty)) = Pointer(Empty)
      BY ConnectOptionsAssumption DEF PointerTo, ClearText, Pointer
    <3>3. Lingers(f)
      BY <1>1, <1>6, <2>1 DEF Lingers, FieldsIn
    <3> QED
      BY <1>2, <1>4, <1>6, <3>1, <3>2, <3>3 DEF Unspoiled
  <2>2. CASE s \notin {"CNO", "SCO"}
    <3>1. Prepare(s, field)[f] = field[f]
      <4>1. ~Truthy(field[f])
        BY <1>4, <1>6 DEF Truthy, ClearText
      <4>2. CASE s = "CSP"
        <5>1. f \in {"Token", "InitialKey"}
          BY <1>1, <1>4, <4>2 DEF FieldsOf
        <5>2. PrepareCSP(field)[f] = field[f]
          BY <1>2, <1>3, <4>1, <5>1 DEF PrepareCSP, SetPtrIfAny, SetPtr, ClearPtr, Credentials
        <5> QED
          BY <4>2, <5>2 DEF Prepare
      <4>3. CASE s = "CD"
        <5>1. f = "SSLPeerNamePtr"
          BY <1>1, <4>3 DEF FieldsOf
        <5> QED
          BY <4>1, <4>3, <5>1 DEF Prepare, SetPtrIfAny
      <4> QED
        BY <1>2, <2>2, <4>2, <4>3, FieldsAreOfOne
    <3>2. IsText(field[f])
      BY <1>4, <1>6, ConnectOptionsAssumption DEF IsText, ClearText
    <3> QED
      BY <1>2, <3>1, <3>2 DEF Packs
  <2> QED
    BY <2>1, <2>2
<1> QED
  BY <1>4, <1>5, <1>6

\* The text that a field has is passed to MQ, unless it is a credential that is not used.
LEMMA TextIsPassed ==
    ASSUME NEW s \in Struct, NEW cur \in [Field -> Value], NEW f \in FieldsOf[s],
           \A g \in FieldsOf[s] : cur[g].ptr = FALSE
    PROVE  Prepare(s, cur)[f].text =
             IF f \in {"CSPUserId", "CSPPassword"}
                   /\ (cur["Token"].text \notin {None, Empty} \/ cur["CSPUserId"].text \in {None, Empty})
             THEN None ELSE cur[f].text
<1> DEFINE unused == cur["Token"].text \notin {None, Empty} \/ cur["CSPUserId"].text \in {None, Empty}
<1>1. \A g \in FieldsOf[s] : PointerTo(cur[g]).text = cur[g].text
  BY DEF PointerTo
<1>2. f \in Field
  BY FieldsAreOfOne
<1>3. CASE s # "CSP"
  <2>1. f \notin {"CSPUserId", "CSPPassword"}
    BY <1>3, FieldsAreOfOne DEF FieldsOf
  <2>2. Prepare(s, cur)[f] \in {PointerTo(cur[f]), cur[f]}
    BY <1>2, <1>3, FieldsAreOfOne DEF Prepare, SetPtr, SetPtrIfAny
  <2> QED
    BY <1>1, <2>1, <2>2
<1>4. CASE s = "CSP"
  <2>1. FieldsOf[s] = {"CSPUserId", "CSPPassword", "Token", "InitialKey"}
    BY <1>4 DEF FieldsOf
  <2>2. Prepare(s, cur)[f] = PrepareCSP(cur)[f]
    BY <1>4 DEF Prepare
  <2>3. /\ Truthy(cur["Token"]) <=> cur["Token"].text \notin {None, Empty}
        /\ Truthy(cur["CSPUserId"]) <=> cur["CSPUserId"].text \notin {None, Empty}
    BY <2>1 DEF Truthy
  <2>4. CASE f \in {"CSPUserId", "CSPPassword"}
    <3>1. PrepareCSP(cur)[f] = IF unused THEN Unset ELSE PointerTo(cur[f])
      BY <1>2, <2>3, <2>4 DEF PrepareCSP, Credentials, SetPtr, ClearPtr, SetPtrIfAny
    <3> QED
      BY <1>1, <2>2, <2>4, <3>1 DEF Unset
  <2>5. CASE f \in {"Token", "InitialKey"}
    <3>1. PrepareCSP(cur)[f] \in {PointerTo(cur[f]), cur[f]}
      BY <1>2, <2>5 DEF PrepareCSP, Credentials, SetPtr, ClearPtr, SetPtrIfAny
    <3> QED
      BY <1>1, <2>2, <2>5, <3>1
  <2> QED
    BY <2>1, <2>4, <2>5
<1> QED
  BY <1>3, <1>4

-----------------------------------------------------------------------------
LEMMA ClearTextFields ==
    ASSUME NEW text
    PROVE  ClearText(text).ptr = FALSE /\ ClearText(text).text = text
BY DEF ClearText

LEMMA IInvInit == Init => IInv
<1> SUFFICES ASSUME Init PROVE IInv
  OBVIOUS
<1>1. FieldsIn({}) = {} /\ \A t \in Thread : call[t].args = {} /\ ~InMQ(t)
  BY DEF Init, IdleCall, FieldsIn, InMQ
<1>2. TypeOK
  BY DEF Init, TypeOK, Value, Unset, IdleCall, Call, Texts, NoText, Options, Share, AuthType
<1>3. UsersPutBack /\ SoundIsClean /\ PassesWhatWasSet
  BY <1>1 DEF UsersPutBack, SoundIsClean, PassesWhatWasSet
<1>4. SharingKept /\ Restored
  BY DEF Init, SharingKept, Restored, Unset, NoText
<1> QED
  BY <1>2, <1>3, <1>4 DEF IInv

-----------------------------------------------------------------------------
(* What the steps have in common.                                              *)

\* The preparation of done leaves the fields of the other structures alone.
LEMMA PreparedByEffect ==
    ASSUME IInv, NEW done \in SUBSET Struct, PreparedBy(done)
    PROVE  /\ field' \in [Field -> Value] /\ auth' \in AuthType /\ options' \in Options
           /\ sharing' = sharing /\ SharingKept'
           /\ \A f \in Field \ FieldsIn(done) : field'[f] = field[f]
<1>1. field' = Prepared(done, field) /\ field \in [Field -> Value] /\ sharing' = sharing
  BY DEF PreparedBy, IInv, TypeOK
<1>2. field' \in [Field -> Value] /\ \A f \in Field \ FieldsIn(done) : field'[f] = field[f]
  BY <1>1, PreparedTyped, PreparedWithStruct
<1>3. auth' \in AuthType
  BY DEF PreparedBy, IInv, TypeOK, Credentials, AuthType
<1>4. options' \in Options
  BY DEF PreparedBy, IInv, TypeOK, Options, Shared, Share
<1>5. options'.share \in {options.share, Shared(options.share)}
  BY DEF PreparedBy
<1>6. Shared(Shared(sharing)) = Shared(sharing)
  BY DEF Shared
<1>7. SharingKept'
  BY <1>1, <1>5, <1>6 DEF IInv, SharingKept, Shared
<1> QED
  BY <1>1, <1>2, <1>3, <1>4, <1>7

\* A call that shares a structure with another is not sound any more; what it puts
\* back, and where, does not change.
LEMMA DisturbedEffect ==
    ASSUME IInv, NEW t \in Thread, NEW done \in SUBSET Struct
    PROVE  /\ Disturbed(t, done) \in [Thread -> Call]
           /\ \A u \in Thread :
                 /\ Disturbed(t, done)[u].args = call[u].args
                 /\ Disturbed(t, done)[u].saved = call[u].saved
                 /\ Disturbed(t, done)[u].sound =>
                       Disturbed(t, done)[u] = call[u] /\ u \notin Others(t, done)
           /\ Disturbed(t, done)[t] = call[t]
<1>1. ASSUME NEW u \in Thread, u \in Others(t, done)
      PROVE  /\ Disturbed(t, done)[u] \in Call
             /\ Disturbed(t, done)[u].args = call[u].args
             /\ Disturbed(t, done)[u].saved = call[u].saved
             /\ Disturbed(t, done)[u].sound = FALSE
  BY <1>1 DEF IInv, TypeOK, Disturbed, Call
<1>2. ASSUME NEW u \in Thread, u \notin Others(t, done)
      PROVE  Disturbed(t, done)[u] = call[u] /\ call[u] \in Call
  BY <1>2 DEF IInv, TypeOK, Disturbed
<1>3. t \notin Others(t, done)
  BY DEF Others
<1> QED
  BY <1>1, <1>2, <1>3 DEF Disturbed

\* A thread that uses a field of done is among the others.
LEMMA UsersAreOthers ==
    ASSUME IInv, NEW t \in Thread, NEW u \in Thread \ {t}, NEW done \in SUBSET Struct,
           NEW f \in FieldsIn(done), f \in FieldsIn(call[u].args)
    PROVE  u \in Others(t, done) /\ ~Alone(t, done)
<1>1. call[u].args \in SUBSET Struct
  BY DEF IInv, TypeOK, Call
<1>2. call[u].args \cap done # {}
  BY <1>1, FieldsInStructs
<1> QED
  BY <1>2 DEF Others, Alone

\* What PassesWhatWasSet says of one call.
Passes(t) ==
    InMQ(t) /\ call[t].sound =>
        /\ \A f \in FieldsIn(call[t].args) :
             /\ call[t].passed[f] = Expected(f)
             /\ Expected(f) # None => f \in call[t].alive
        /\ "CSP" \in call[t].args =>
             /\ meant["Token"] \notin {None, Empty} => call[t].auth = "token"
             /\ Expected("CSPUserId") # None => call[t].auth = "user"
        /\ "CNO" \in call[t].args /\ sharing # {"NONE"} =>
             call[t].options.share = IF sharing = {} THEN {"BLOCK"} ELSE sharing

\* It is about the fields of the call alone.
LEMMA PassesKept ==
    ASSUME IInv, NEW t \in Thread, call'[t] = call[t], sharing' = sharing,
           \A f \in FieldsIn(call[t].args) : meant'[f] = meant[f]
    PROVE  Passes(t)'
<1>1. call[t].args \in SUBSET Struct
  BY DEF IInv, TypeOK, Call
<1>2. FieldsOf.CSP = {"CSPUserId", "CSPPassword", "Token", "InitialKey"}
  BY DEF FieldsOf
<1>3. "CSP" \in call[t].args => meant'["Token"] = meant["Token"] /\ meant'["CSPUserId"] = meant["CSPUserId"]
                              /\ meant'["CSPPassword"] = meant["CSPPassword"]
  BY <1>1, <1>2, FieldsInStructs, FieldsAreOfOne
<1>4. ASSUME NEW f \in FieldsIn(call[t].args) PROVE Expected(f)' = Expected(f)
  <2>1. f \in {"CSPUserId", "CSPPassword"} => "CSP" \in call[t].args
    BY <1>1, <1>2, FieldsInStructs, FieldsAreOfOne
  <2> QED
    BY <1>3, <2>1 DEF Expected
<1>5. "CSP" \in call[t].args => Expected("CSPUserId")' = Expected("CSPUserId")
  BY <1>3 DEF Expected
<1>6. Passes(t)
  BY DEF IInv, PassesWhatWasSet, Passes
<1> QED
  BY <1>3, <1>4, <1>5, <1>6 DEF Passes, InMQ

-----------------------------------------------------------------------------
(* The steps.                                                                  *)

\* A call with args that nothing has spoiled passes what the application has set.
LEMMA CallPasses ==
    ASSUME IInv, NEW t \in Thread, NEW args \in Args, ReachMQ(t, args), call'[t].sound
    PROVE  Passes(t)'
<1> DEFINE A == FieldsIn(args)
<1>1. args \in SUBSET Struct /\ field \in [Field -> Value] /\ A \subseteq Field
  BY ConnectOptionsAssumption, FieldsInStructs DEF IInv, TypeOK
<1>2. /\ call'[t].args = args /\ call'[t].auth = auth' /\ call'[t].alive = A
      /\ \A f \in A : call'[t].passed[f] = field'[f].text
      /\ call'[t].options.share = options'.share
      /\ Alone(t, args) /\ \A f \in A : meant[f] # Junk /\ ~(Lingers(f) /\ field[f].ptr)
  BY <1>1, DisturbedEffect DEF ReachMQ
<1>3. meant' = meant /\ sharing' = sharing /\ field' = Prepared(args, field)
  BY <1>2 DEF ReachMQ, PreparedBy
<1>4. \A f \in A : \A u \in Thread : f \notin FieldsIn(call[u].args)
  <2>1. FieldsIn(call[t].args) = {}
    BY DEF ReachMQ, InMQ, FieldsIn
  <2> QED
    BY <1>1, <1>2, <2>1, UsersAreOthers
<1>5. \A f \in A : field[f].ptr = FALSE /\ field[f].text = meant[f]
  <2>1. \A f \in A : field[f] = ClearText(meant[f])
    <3> SUFFICES ASSUME NEW f \in A PROVE field[f] = ClearText(meant[f])
      OBVIOUS
    <3>1. f \in Field /\ meant[f] # Junk /\ ~(Lingers(f) /\ field[f].ptr)
      BY <1>1, <1>2
    <3>2. [ptr |-> TRUE, text |-> meant[f]].ptr
      OBVIOUS
    <3> QED
      BY <1>4, <3>1, <3>2 DEF IInv, Restored, ClearText
  <2> QED
    BY <2>1, ClearTextFields
<1>6. FieldsOf.CSP = {"CSPUserId", "CSPPassword", "Token", "InitialKey"}
  BY DEF FieldsOf
<1>7. ASSUME NEW f \in A PROVE field'[f].text = Expected(f)'
  <2>1. PICK s \in args : f \in FieldsOf[s]
    BY DEF FieldsIn
  <2>2. s \in Struct /\ FieldsOf[s] \subseteq A
    BY <1>1, <2>1, FieldsInStructs
  <2>3. \A g \in FieldsOf[s] : field[g].ptr = FALSE /\ field[g].text = meant[g]
    BY <1>5, <2>2
  <2>4. field'[f] = Prepare(s, field)[f]
    BY <1>1, <1>3, <2>1, PreparedWithStruct
  <2>5. f \in {"CSPUserId", "CSPPassword"} => s = "CSP"
    BY <1>6, <2>1, <2>2, FieldsAreOfOne
  <2>6. f \in {"CSPUserId", "CSPPassword"} =>
            field["Token"].text = meant["Token"] /\ field["CSPUserId"].text = meant["CSPUserId"]
    BY <1>6, <2>3, <2>5
  <2>7. Prepare(s, field)[f].text =
           IF f \in {"CSPUserId", "CSPPassword"}
                 /\ (field["Token"].text \notin {None, Empty} \/ field["CSPUserId"].text \in {None, Empty})
           THEN None ELSE field[f].text
    BY <1>1, <2>1, <2>2, <2>3, TextIsPassed
  <2> QED
    BY <1>3, <2>1, <2>3, <2>4, <2>6, <2>7 DEF Expected
<1>8. "CSP" \in args =>
          /\ meant'["Token"] \notin {None, Empty} => auth' = "token"
          /\ Expected("CSPUserId")' # None => auth' = "user"
  <2> SUFFICES ASSUME "CSP" \in args
               PROVE  /\ meant'["Token"] \notin {None, Empty} => auth' = "token"
                      /\ Expected("CSPUserId")' # None => auth' = "user"
    OBVIOUS
  <2>1. /\ field["Token"].text = meant["Token"] /\ field["CSPUserId"].text = meant["CSPUserId"]
        /\ field["Token"].ptr = FALSE /\ field["CSPUserId"].ptr = FALSE
    <3>1. "Token" \in A /\ "CSPUserId" \in A
      BY <1>1, <1>6, FieldsInStructs, FieldsAreOfOne
    <3> QED
      BY <1>5, <3>1
  <2> QED
    BY <1>3, <2>1 DEF ReachMQ, PreparedBy, Credentials, Truthy, Expected
<1>9. "CNO" \in args /\ sharing' # {"NONE"} =>
          options'.share = IF sharing' = {} THEN {"BLOCK"} ELSE sharing'
  BY <1>3 DEF ReachMQ, PreparedBy, IInv, SharingKept, Shared
<1> QED
  BY <1>2, <1>7, <1>8, <1>9 DEF Passes

LEMMA ReachMQStep ==
    ASSUME IInv, NEW t \in Thread, NEW args \in Args, ReachMQ(t, args)
    PROVE  IInv'
<1> DEFINE A == FieldsIn(args)
<1>1. args \in SUBSET Struct /\ A \subseteq Field
  BY ConnectOptionsAssumption, FieldsInStructs
<1>2. FieldsIn(call[t].args) = {}
  BY DEF ReachMQ, InMQ, FieldsIn
<1>3. /\ field' \in [Field -> Value] /\ auth' \in AuthType /\ options' \in Options
      /\ sharing' = sharing /\ SharingKept'
      /\ \A f \in Field \ A : field'[f] = field[f]
  BY <1>1, PreparedByEffect DEF ReachMQ
<1>4. \A u \in Thread \ {t} :
          /\ call'[u].args = call[u].args /\ call'[u].saved = call[u].saved
          /\ call'[u].sound => call'[u] = call[u] /\ u \notin Others(t, args)
  BY <1>1, DisturbedEffect DEF ReachMQ
<1>5. /\ call'[t].args = args
      /\ \A f \in A : call'[t].saved[f] = field[f]
      /\ call'[t].sound => Alone(t, args) /\ \A f \in A : meant[f] # Junk
  BY <1>1, DisturbedEffect DEF ReachMQ
<1>6. /\ \A f \in Field \ A : meant'[f] = meant[f]
      /\ \A f \in A : Alone(t, args) \/ meant'[f] = Junk
      /\ Alone(t, args) => meant' = meant
      /\ meant' \in Texts
  BY <1>1 DEF ReachMQ, IInv, TypeOK, Texts
<1>7. \A u \in Thread \ {t} : \A f \in A : f \in FieldsIn(call[u].args) => ~Alone(t, args)
  BY <1>1, UsersAreOthers
<1>8. TypeOK'
  <2>1. call' \in [Thread -> Call]
    <3>1. call'[t] = [args |-> args, auth |-> auth', alive |-> A,
               saved |-> [f \in Field |-> IF f \in A THEN field[f] ELSE Unset],
               passed |-> [f \in Field |-> IF f \in A THEN field'[f].text ELSE None],
               options |-> [share |-> options'.share, client |-> options.client],
               sound |-> /\ Alone(t, args)
                         /\ \A f \in A : meant[f] # Junk /\ ~(Lingers(f) /\ field[f].ptr)]
      BY <1>1, DisturbedEffect DEF ReachMQ
    <3>2. [f \in Field |-> IF f \in A THEN field[f] ELSE Unset] \in [Field -> Value]
      BY DEF IInv, TypeOK, Value, Unset
    <3>3. [f \in Field |-> IF f \in A THEN field'[f].text ELSE None] \in Texts
      BY <1>3 DEF Value, Texts
    <3>4. [share |-> options'.share, client |-> options.client] \in Options
      BY <1>3 DEF Options, IInv, TypeOK
    <3>5. (Alone(t, args) /\ \A f \in A : meant[f] # Junk /\ ~(Lingers(f) /\ field[f].ptr)) \in BOOLEAN
      OBVIOUS
    <3>6. call'[t] \in Call
      BY <1>1, <1>3, <3>1, <3>2, <3>3, <3>4, <3>5 DEF Call
    <3> QED
      BY <1>1, <3>6, DisturbedEffect DEF ReachMQ
  <2> QED
    BY <1>3, <1>6, <2>1 DEF IInv, TypeOK
<1>9. UsersPutBack'
  <2> SUFFICES ASSUME NEW u \in Thread, NEW f \in Field, f \in FieldsIn(call'[u].args), meant'[f] # Junk
               PROVE  /\ \A v \in Thread \ {u} : f \notin FieldsIn(call'[v].args)
                      /\ Unspoiled(f, call[u].saved[f])'
                      /\ ~PutsBack(f, call'[u].saved[f]) => Unspoiled(f, field[f])'
    BY DEF UsersPutBack
  <2>1. CASE f \in A
    <3>1. \A v \in Thread : f \notin FieldsIn(call[v].args)
      BY <1>2, <1>6, <1>7, <2>1
    <3>2. u = t /\ \A v \in Thread \ {u} : f \notin FieldsIn(call'[v].args)
      BY <1>4, <3>1
    <3>3. Unspoiled(f, field[f]) /\ meant'[f] = meant[f]
      BY <1>6, <2>1, <3>1 DEF IInv, Restored, Unspoiled, ClearText, Pointer
    <3>4. ~PutsBack(f, field[f]) => Unspoiled(f, field'[f])
      BY <1>1, <2>1, <3>3, NotPutBack DEF ReachMQ, PreparedBy
    <3> QED
      BY <1>5, <2>1, <3>2, <3>3, <3>4 DEF Unspoiled, Lingers
  <2>2. CASE f \notin A
    BY <1>3, <1>4, <1>5, <1>6, <2>2 DEF IInv, UsersPutBack, Unspoiled, Lingers
  <2> QED
    BY <2>1, <2>2
<1>10. ASSUME NEW u \in Thread \ {t}, call'[u].sound
       PROVE  call'[u] = call[u] /\ \A f \in FieldsIn(call[u].args) : meant'[f] = meant[f]
  <2>1. call[u].args \in SUBSET Struct /\ u \notin Others(t, args) /\ call'[u] = call[u]
    BY <1>4, <1>10 DEF IInv, TypeOK, Call
  <2>2. FieldsIn(call[u].args) \subseteq Field \ A
    BY <1>1, <2>1, UsersAreOthers, FieldsInStructs
  <2> QED
    BY <1>6, <2>1, <2>2
<1>11. SoundIsClean'
  BY <1>5, <1>6, <1>10 DEF IInv, SoundIsClean
<1>12. Restored'
  BY ZenonT(30), <1>1, <1>3, <1>4, <1>5, <1>6, <1>2 DEF IInv, Restored, Lingers
<1>13. ASSUME NEW u \in Thread, call'[u].sound PROVE Passes(u)'
  BY <1>3, <1>10, <1>13, CallPasses, PassesKept
<1>14. PassesWhatWasSet'
  BY <1>13 DEF PassesWhatWasSet, Passes
<1> QED
  BY <1>3, <1>8, <1>9, <1>11, <1>12, <1>14 DEF IInv

LEMMA RaiseStep ==
    ASSUME IInv, NEW t \in Thread, NEW args \in Args, Raise(t, args)
    PROVE  IInv'
<1>1. PICK k \in {Order(s) : s \in args} \cup {5} :
          LET done == {s \in args : Order(s) < k} IN
          /\ PreparedBy(done)
          /\ call' = Disturbed(t, done)
          /\ meant' = [f \in Field |-> IF f \in FieldsIn(done) /\ (field'[f] # field[f] \/ ~Alone(t, done))
                                       THEN Junk ELSE meant[f]]
  BY DEF Raise
<1> DEFINE done == {s \in args : Order(s) < k}
           D == FieldsIn(done)
<1>2. done \in SUBSET Struct /\ D \subseteq Field
  BY ConnectOptionsAssumption, FieldsInStructs
<1> HIDE DEF done
<1>3. FieldsIn(call[t].args) = {} /\ call[t].args = {}
  BY DEF Raise, InMQ, FieldsIn
<1>4. /\ field' \in [Field -> Value] /\ auth' \in AuthType /\ options' \in Options
      /\ sharing' = sharing /\ SharingKept'
      /\ \A f \in Field \ D : field'[f] = field[f]
  BY <1>1, <1>2, PreparedByEffect DEF done
<1>5. /\ call' \in [Thread -> Call]
      /\ \A u \in Thread :
            /\ call'[u].args = call[u].args /\ call'[u].saved = call[u].saved
            /\ call'[u].sound => call'[u] = call[u] /\ u \notin Others(t, done)
  BY <1>1, <1>2, DisturbedEffect DEF done
<1>6. /\ \A f \in Field \ D : meant'[f] = meant[f]
      /\ \A f \in D : meant'[f] # Junk =>
            meant'[f] = meant[f] /\ field'[f] = field[f] /\ Alone(t, done)
      /\ meant' \in Texts
  BY <1>1, <1>2 DEF done, IInv, TypeOK, Texts
<1>7. \A u \in Thread \ {t} : \A f \in D : f \in FieldsIn(call[u].args) => ~Alone(t, done)
  BY <1>2, UsersAreOthers
<1>8. TypeOK'
  BY <1>4, <1>5, <1>6 DEF IInv, TypeOK
<1>9. UsersPutBack'
  BY <1>3, <1>4, <1>5, <1>6, <1>7 DEF IInv, UsersPutBack, Unspoiled, Lingers
<1>10. ASSUME NEW u \in Thread, call'[u].sound
       PROVE  call'[u] = call[u] /\ \A f \in FieldsIn(call[u].args) : meant'[f] = meant[f]
  <2>1. call[u].args \in SUBSET Struct /\ u \notin Others(t, done) /\ call'[u] = call[u]
    BY <1>5, <1>10 DEF IInv, TypeOK, Call
  <2>2. FieldsIn(call[u].args) \subseteq Field \ D
    BY <1>2, <1>3, <2>1, UsersAreOthers, FieldsInStructs
  <2> QED
    BY <1>6, <2>1, <2>2
<1>11. SoundIsClean'
  BY <1>5, <1>10 DEF IInv, SoundIsClean
<1>12. Restored'
  BY <1>4, <1>5, <1>6 DEF IInv, Restored, Lingers
<1>13. ASSUME NEW u \in Thread, call'[u].sound PROVE Passes(u)'
  BY <1>4, <1>10, <1>13, PassesKept
<1>14. PassesWhatWasSet'
  BY <1>13 DEF PassesWhatWasSet, Passes
<1> QED
  BY <1>4, <1>8, <1>9, <1>11, <1>12, <1>14 DEF IInv

LEMMA ReturnStep == ASSUME IInv, NEW t \in Thread, Return(t) PROVE IInv'
<1> DEFINE A == FieldsIn(call[t].args)
<1>1. A \subseteq Field
  BY FieldsInStructs DEF IInv, TypeOK, Call
<1>2. /\ call'[t] = IdleCall /\ \A u \in Thread \ {t} : call'[u] = call[u]
      /\ meant' = meant /\ sharing' = sharing /\ auth' = auth /\ options' = options
  BY DEF Return, IInv, TypeOK
<1>3. FieldsIn(call'[t].args) = {} /\ call'[t].args = {}
  BY <1>2 DEF IdleCall, FieldsIn
<1>4. \A f \in Field : field'[f] = IF f \in A /\ PutsBack(f, call[t].saved[f])
                                   THEN call[t].saved[f] ELSE field[f]
  BY DEF Return, IInv, TypeOK
<1>5. TypeOK'
  <2>1. IdleCall \in Call
    BY DEF IdleCall, Call, Value, Unset, Texts, NoText, Options, Share, AuthType
  <2>2. call[t].saved \in [Field -> Value]
    BY DEF IInv, TypeOK, Call
  <2> QED
    BY <1>2, <2>1, <2>2 DEF Return, IInv, TypeOK
<1>6. UsersPutBack'
  BY ZenonT(30), <1>2, <1>3, <1>4 DEF IInv, UsersPutBack, Unspoiled, Lingers
<1>7. SoundIsClean' /\ SharingKept'
  BY <1>2, <1>3 DEF IInv, SoundIsClean, SharingKept
<1>8. Restored'
  <2> SUFFICES ASSUME NEW f \in Field, meant[f] # Junk,
                      \A u \in Thread : f \notin FieldsIn(call'[u].args)
               PROVE  Unspoiled(f, field'[f])
    BY <1>2 DEF Restored, Unspoiled, ClearText, Pointer, Lingers
  <2>1. CASE f \in A
    <3>1. /\ Unspoiled(f, call[t].saved[f])
          /\ ~PutsBack(f, call[t].saved[f]) => Unspoiled(f, field[f])
      BY <2>1 DEF IInv, UsersPutBack
    <3> QED
      BY <1>4, <2>1, <3>1
  <2>2. CASE f \notin A
    BY <1>2, <1>4, <2>2 DEF IInv, Restored, Unspoiled, ClearText, Pointer
  <2> QED
    BY <2>1, <2>2
<1>9. ASSUME NEW u \in Thread PROVE Passes(u)'
  <2>1. CASE u = t
    BY <1>3, <2>1 DEF Passes, InMQ
  <2>2. CASE u # t
    BY <1>2, <2>2, PassesKept
  <2> QED
    BY <2>1, <2>2
<1>10. PassesWhatWasSet'
  BY <1>9 DEF PassesWhatWasSet, Passes
<1> QED
  BY <1>5, <1>6, <1>7, <1>8, <1>10 DEF IInv

LEMMA SetFieldStep ==
    ASSUME IInv, NEW f \in Field, NEW v \in Text \cup {None}, SetField(f, v)
    PROVE  IInv'
<1>1. f \in Field /\ v # Junk /\ \A t \in Thread : f \notin FieldsIn(call[t].args)
  BY ConnectOptionsAssumption DEF SetField
<1>2. /\ field'[f] = ClearText(v) /\ meant'[f] = v
      /\ \A g \in Field \ {f} : field'[g] = field[g] /\ meant'[g] = meant[g]
      /\ call' = call /\ sharing' = sharing /\ auth' = auth /\ options' = options
  BY <1>1 DEF SetField, IInv, TypeOK, Texts, ClearText
<1>3. TypeOK'
  BY <1>1 DEF SetField, IInv, TypeOK, Texts, Value
<1>4. UsersPutBack'
  BY <1>1, <1>2 DEF IInv, UsersPutBack, Unspoiled, Lingers
<1>5. ASSUME NEW t \in Thread PROVE \A g \in FieldsIn(call[t].args) : meant'[g] = meant[g]
  <2>1. FieldsIn(call[t].args) \subseteq Field
    BY FieldsInStructs DEF IInv, TypeOK, Call
  <2> QED
    BY <1>1, <1>2, <2>1
<1>6. SoundIsClean' /\ SharingKept'
  BY <1>2, <1>5 DEF IInv, SoundIsClean, SharingKept
<1>7. Restored'
  BY <1>2 DEF IInv, Restored, ClearText, Lingers
<1>8. ASSUME NEW t \in Thread PROVE Passes(t)'
  BY <1>2, <1>5, PassesKept
<1>9. PassesWhatWasSet'
  BY <1>8 DEF PassesWhatWasSet, Passes
<1> QED
  BY <1>3, <1>4, <1>6, <1>7, <1>9 DEF IInv

LEMMA IInvStep == IInv /\ [Next]_vars => IInv'
<1> SUFFICES ASSUME IInv, [Next]_vars PROVE IInv'
  OBVIOUS
<1>1. CASE UNCHANGED vars
  <2>1. \A t \in Thread : Passes(t)'
    BY <1>1, PassesKept DEF vars
  <2>2. PassesWhatWasSet'
    BY <2>1 DEF PassesWhatWasSet, Passes
  <2> QED
    BY <1>1, <2>2 DEF vars, IInv, TypeOK, UsersPutBack, Unspoiled, Lingers, SoundIsClean, SharingKept, Restored
<1>2. ASSUME NEW use \in Used, SetField(use[1], use[2]) PROVE IInv'
  BY <1>2, ConnectOptionsAssumption, SetFieldStep
<1> QED
  BY <1>1, <1>2, ReachMQStep, RaiseStep, ReturnStep DEF Next

LEMMA IInvAlways == Spec => []IInv
BY IInvInit, IInvStep, PTL DEF Spec

\* The variables of ConnectOptions hold what they are declared to hold.
THEOREM ConnectOptionsTypeCorrect == Spec => []TypeOK
<1>1. IInv => TypeOK
  BY DEF IInv
<1> QED
  BY <1>1, IInvAlways, PTL

\* Every call that no other disturbs passes to MQ what the application has set, for
\* any threads, structures and texts (mqqmgr.py:144-327).
THEOREM PassesWhatWasSetAlways == Spec => []PassesWhatWasSet
<1>1. IInv => PassesWhatWasSet
  BY DEF IInv
<1> QED
  BY <1>1, IInvAlways, PTL

\* And the structures hold what was set when no call uses them (mqqmgr.py:329-350), but for
\* the pointer that an empty string leaves in a CNO or an SCO.
THEOREM RestoredAlways == Spec => []Restored
<1>1. IInv => Restored
  BY DEF IInv
<1> QED
  BY <1>1, IInvAlways, PTL
=============================================================================
