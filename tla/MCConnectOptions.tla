--------------------------- MODULE MCConnectOptions ---------------------------
(* ConnectOptions for TLC. *)
EXTENDS ConnectOptions, TLC

\* A CSP alone, and with structures that are prepared before and after it.
MCArgs == {{"CSP"}, Struct}

\* The empty string where it makes a difference: a pointer that lingers, a user without
\* a password, a token that is none.
MCUsed ==
    {"KeyRepoPassword", "CSPPassword", "Token"} \X Text
        \cup {"CSPUserId", "CSPPassword", "Token"} \X {None}
        \cup {"CSPUserId", "SSLPeerNamePtr"} \X (Text \ {Empty})

ThreadSymmetry == Permutations(Thread)
=============================================================================
