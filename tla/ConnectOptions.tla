---------------------------- MODULE ConnectOptions ----------------------------
(* QueueManager.connect_with_options: the strings in the caller's CNO, SCO, CSP *)
(* and CD are replaced by pointers before MQCONNX and put back after it.  Calls *)
(* may raise on the way, and threads may connect with the same structures.      *)
EXTENDS Naturals, FiniteSets

CONSTANTS
    Thread,
    Args,       \* the sets of structures that calls pass
    Used,       \* bound: the fields that the application sets, each with what it sets it to
    Text,       \* what an application sets a string field to
    Empty,      \* the empty string, which is such a text
    None,       \* None or 0: nothing set
    Junk        \* a buffer of NULs as long as a pointer is large

\* The string fields of the structures, in the order in which the structures are prepared.
FieldsOf == [CNO |-> {"CCDTUrl"},
             SCO |-> {"KeyRepoPassword", "HTTPSKeyStore"},
             CSP |-> {"CSPUserId", "CSPPassword", "Token", "InitialKey"},
             CD  |-> {"SSLPeerNamePtr"}]
Struct == DOMAIN FieldsOf
Field == UNION {FieldsOf[s] : s \in Struct}

ASSUME ConnectOptionsAssumption ==
    /\ Empty \in Text /\ None \notin Text /\ Junk \notin Text /\ None # Junk
    /\ Args \subseteq SUBSET Struct /\ {} \notin Args /\ Used \subseteq Field \X (Text \cup {None})

VARIABLES
    field,      \* field[f]: what is in the field, text or a pointer to text
    auth,       \* AuthenticationType of the CSP
    options,    \* Options of the CNO: handle sharing and client binding
    call,       \* call[t]: the call that a thread is in
    meant,      \* history: what the application has set; Junk if the field has been spoiled
                \* since, by a call that raised or one that another thread made meanwhile
    sharing     \* the handle sharing that the application has set

vars == <<field, auth, options, call, meant, sharing>>

Value == [ptr : BOOLEAN, text : Text \cup {None, Junk}]
Share == {"BLOCK", "NO_BLOCK", "NONE"}
Options == [share : SUBSET Share, client : BOOLEAN]
Texts == [Field -> Text \cup {None, Junk}]
AuthType == {"none", "token", "user"}

\* saved is what a call puts back, passed what MQ sees, through the buffers of alive;
\* a call is sound if no other thread and no earlier call has spoiled its structures.
Call == [args : SUBSET Struct, saved : [Field -> Value], passed : Texts, alive : SUBSET Field,
         auth : AuthType, options : Options, sound : BOOLEAN]

Unset == [ptr |-> FALSE, text |-> None]
NoText == [f \in Field |-> None]
IdleCall == [args |-> {}, saved |-> [f \in Field |-> Unset], passed |-> NoText, alive |-> {},
             auth |-> "none", options |-> [share |-> {}, client |-> FALSE], sound |-> TRUE]

TypeOK ==
    /\ field \in [Field -> Value]
    /\ auth \in AuthType
    /\ options \in Options
    /\ call \in [Thread -> Call]
    /\ meant \in Texts
    /\ sharing \in SUBSET Share

Init ==
    /\ field = [f \in Field |-> Unset]
    /\ auth = "none"
    /\ meant = NoText
    /\ sharing \in {{}, {"NO_BLOCK"}, {"NONE"}}
    /\ options = [share |-> sharing, client |-> FALSE]
    /\ call = [t \in Thread |-> IdleCall]

InMQ(t) == call[t].args # {}

-----------------------------------------------------------------------------
(* The preparation, structure by structure.  cur says what the fields hold.    *)

IsText(v) == ~v.ptr /\ v.text # None
Truthy(v) == v.text # None /\ (v.ptr \/ v.text # Empty)

\* _set_ptr_field: a pointer to a copy of the text, the empty one too; create_string_buffer
\* takes a pointer that is there already for a length.
PointerTo(v) == IF v.ptr /\ v.text # None THEN [ptr |-> TRUE, text |-> Junk]
                ELSE [ptr |-> v.text # None, text |-> v.text]
SetPtr(cur, fs) == [f \in Field |-> IF f \in fs THEN PointerTo(cur[f]) ELSE cur[f]]
ClearPtr(cur, fs) == [f \in Field |-> IF f \in fs THEN Unset ELSE cur[f]]

SetPtrIfAny(cur, f) == IF Truthy(cur[f]) THEN SetPtr(cur, {f}) ELSE cur

\* What a CSP is rejected for: a token or a user that is not text, a user without a password.
Rejects(cur) ==
    IF Truthy(cur["Token"]) THEN ~IsText(cur["Token"])
    ELSE Truthy(cur["CSPUserId"]) /\ ~(IsText(cur["CSPUserId"]) /\ IsText(cur["CSPPassword"]))

\* Mutant: the authentication type of a CSP that names nobody.
CredentialsOrNone(cur) ==
    IF Truthy(cur["Token"]) THEN "token" ELSE IF Truthy(cur["CSPUserId"]) THEN "user" ELSE None

Credentials(cur) ==
    IF Truthy(cur["Token"]) THEN "token" ELSE IF Truthy(cur["CSPUserId"]) THEN "user" ELSE "none"

\* Mutant: user and password go with the token.
PrepareTokenToo(cur) ==
    LET creds == CASE Credentials(cur) = "token" -> SetPtr(cur, {"Token", "CSPUserId", "CSPPassword"})
                   [] Credentials(cur) = "user"  -> SetPtr(cur, {"CSPUserId", "CSPPassword"})
                   [] OTHER                      -> ClearPtr(cur, {"CSPUserId", "CSPPassword"})
    IN SetPtrIfAny(creds, "InitialKey")

\* A token goes first; whatever of user and password is not used is cleared.
PrepareCSP(cur) ==
    LET creds == CASE Credentials(cur) = "token" -> ClearPtr(SetPtr(cur, {"Token"}), {"CSPUserId", "CSPPassword"})
                   [] Credentials(cur) = "user"  -> SetPtr(cur, {"CSPUserId", "CSPPassword"})
                   [] OTHER                      -> ClearPtr(cur, {"CSPUserId", "CSPPassword"})
    IN SetPtrIfAny(creds, "InitialKey")

Prepare(s, cur) ==
    CASE s = "CNO" -> SetPtr(cur, FieldsOf.CNO)
      [] s = "SCO" -> SetPtr(cur, FieldsOf.SCO)
      [] s = "CSP" -> PrepareCSP(cur)
      [] s = "CD"  -> SetPtrIfAny(cur, "SSLPeerNamePtr")

FieldsIn(args) == UNION {FieldsOf[s] : s \in args}

StructOf(f) == CHOOSE s \in Struct : f \in FieldsOf[s]

\* The fields after the structures of done were prepared.
Prepared(done, cur) ==
    [f \in Field |-> IF StructOf(f) \in done THEN Prepare(StructOf(f), cur)[f] ELSE cur[f]]

\* The fields whose buffers are replaced on the way.
Rebuffered(done, cur) ==
    {f \in Field : \E s \in done : f \in FieldsOf[s]
        /\ (f \in {"InitialKey", "SSLPeerNamePtr"} => Truthy(cur[f]))
        /\ (f = "Token" => Truthy(cur[f]))}

\* The handle sharing that is passed if none is asked for.
Shared(share) == IF share \cap {"BLOCK", "NO_BLOCK"} = {} THEN share \cup {"BLOCK"} ELSE share

\* struct.pack wants pointers: it raises for an empty text that was not made one.
Packs(done, cur) == \A f \in FieldsIn(done) : ~IsText(cur[f])

Order(s) == CASE s = "CNO" -> 1 [] s = "SCO" -> 2 [] s = "CSP" -> 3 [] s = "CD" -> 4

-----------------------------------------------------------------------------
(* The steps of a call.  MQCONNX runs without the GIL.                         *)

Others(t, args) == {u \in Thread \ {t} : call[u].args \cap args # {}}
Alone(t, args) == Others(t, args) = {}

\* A call of t with args has prepared the structures of done.
PreparedBy(done) ==
    /\ field' = Prepared(done, field)
    /\ auth' = IF "CSP" \in done /\ Credentials(field) # "none" THEN Credentials(field) ELSE auth
    /\ options' = [share |-> IF "CNO" \in done THEN Shared(options.share) ELSE options.share,
                   client |-> options.client \/ {"CNO", "CD"} \subseteq done]
    /\ UNCHANGED sharing

\* What that does to the calls of other threads: __vs_ctype_store keeps one buffer a field.
Disturbed(t, done) ==
    [u \in Thread |-> IF u \in Others(t, done)
                      THEN [call[u] EXCEPT !.sound = FALSE, !.alive = @ \ Rebuffered(done, field)]
                      ELSE call[u]]

\* The application's empty string in a CNO or SCO, of which a pointer is left behind: what
\* is put back is what was set and is not empty.
Lingers(f) == meant[f] = Empty /\ f \in FieldsIn({"CNO", "SCO"})

\* The structures are packed, the CNO before a CD asks for the client binding.
ReachMQ(t, args) ==
    /\ ~InMQ(t)
    /\ "CSP" \in args => ~Rejects(field)
    /\ PreparedBy(args)
    /\ Packs(args, field')
    /\ call' = [Disturbed(t, args) EXCEPT ![t] =
           [args |-> args, auth |-> auth', alive |-> FieldsIn(args),
            saved |-> [f \in Field |-> IF f \in FieldsIn(args) THEN field[f] ELSE Unset],
            passed |-> [f \in Field |-> IF f \in FieldsIn(args) THEN field'[f].text ELSE None],
            options |-> [share |-> options'.share, client |-> options.client],
            sound |-> /\ Alone(t, args)
                      /\ \A f \in FieldsIn(args) : meant[f] # Junk /\ ~(Lingers(f) /\ field[f].ptr)]]
    /\ meant' = IF Alone(t, args) THEN meant
                ELSE [f \in Field |-> IF f \in FieldsIn(args) THEN Junk ELSE meant[f]]

\* A structure is rejected when the ones before it have been prepared, or the last
\* one when it is packed.  Nothing is put back.
Raise(t, args) ==
    /\ ~InMQ(t)
    /\ \E k \in {Order(s) : s \in args} \cup {5} :
        LET done == {s \in args : Order(s) < k}
            packed == {s \in done : \E r \in done : Order(s) < Order(r)} IN
        /\ "CSP" \in done => ~Rejects(field)
        /\ PreparedBy(done)
        /\ Packs(packed, field')
        /\ call' = Disturbed(t, done)
        /\ meant' = [f \in Field |-> IF f \in FieldsIn(done) /\ (field'[f] # field[f] \/ ~Alone(t, done))
                                     THEN Junk ELSE meant[f]]

\* Mutant: user and password are not put back.
PutsBackSecrets(f, was) == f \notin {"CSPUserId", "CSPPassword"} /\ Truthy(was)

\* What is put back after MQCONNX: user and password always, the rest if it was not empty.
PutsBack(f, was) == f \in {"CSPUserId", "CSPPassword"} \/ Truthy(was)

Return(t) ==
    LET c == call[t] IN
    /\ InMQ(t)
    /\ field' = [f \in Field |-> IF f \in FieldsIn(c.args) /\ PutsBack(f, c.saved[f]) THEN c.saved[f] ELSE field[f]]
    /\ call' = [call EXCEPT ![t] = IdleCall]
    /\ UNCHANGED <<auth, options, meant, sharing>>

\* The application sets a field, between its calls.
SetField(f, v) ==
    /\ \A t \in Thread : f \notin FieldsIn(call[t].args)
    /\ field' = [field EXCEPT ![f] = [ptr |-> FALSE, text |-> v]]
    /\ meant' = [meant EXCEPT ![f] = v]
    /\ UNCHANGED <<auth, options, call, sharing>>

Next ==
    \/ \E t \in Thread, args \in Args : ReachMQ(t, args) \/ Raise(t, args)
    \/ \E t \in Thread : Return(t)
    \/ \E use \in Used : SetField(use[1], use[2])

Spec == Init /\ [][Next]_vars

-----------------------------------------------------------------------------
(* Properties.                                                                 *)

\* What the texts that the application has set mean for MQ.
Expected(f) ==
    LET given(g) == meant[g] \notin {None, Empty} IN
    IF f \in {"CSPUserId", "CSPPassword"} /\ (given("Token") \/ ~given("CSPUserId"))
    THEN None ELSE meant[f]

\* A call that no other call disturbs, with structures no earlier call has spoiled and
\* no pointer to an empty string that one has left there (Lingers), passes to MQ what
\* the application has set, in buffers that are still there, with the authentication
\* type of these credentials and one way of sharing the handle, the application's if
\* it has named one (MQCNO_HANDLE_SHARE_NONE is not taken for one).
PassesWhatWasSet ==
    \A t \in Thread : InMQ(t) /\ call[t].sound =>
        /\ \A f \in FieldsIn(call[t].args) :
             /\ call[t].passed[f] = Expected(f)
             /\ Expected(f) # None => f \in call[t].alive
        /\ "CSP" \in call[t].args =>
             /\ meant["Token"] \notin {None, Empty} => call[t].auth = "token"
             /\ Expected("CSPUserId") # None => call[t].auth = "user"
        /\ "CNO" \in call[t].args /\ sharing # {"NONE"} =>
             call[t].options.share = IF sharing = {} THEN {"BLOCK"} ELSE sharing

\* When no call uses it, a field that nothing has spoiled holds what the application set.
\* The exception is an empty string: _set_ptr_field makes a pointer of it (mqopts.py:391),
\* and a CNO or an SCO keeps this pointer, as the code that puts back its fields takes
\* the empty string for none (mqqmgr.py:341-351).
Restored ==
    \A f \in Field : meant[f] # Junk /\ (\A t \in Thread : f \notin FieldsIn(call[t].args)) =>
        \/ field[f] = [ptr |-> FALSE, text |-> meant[f]]
        \/ Lingers(f) /\ field[f] = [ptr |-> TRUE, text |-> meant[f]]
=============================================================================
