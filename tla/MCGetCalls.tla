------------------------------ MODULE MCGetCalls ------------------------------
(* GetCalls for TLC: two connections, 1 and 5, with an object 2 each. *)
EXTENDS GetCalls, TLC

MCKey == {<<1, 2>>, <<5, 2>>}
MCConnOf == [k \in MCKey |-> k[1]]

\* Threads that use what they made, and threads that use everything.
PrivateWith == [t \in Thread |-> {t}]
SharedWith == [t \in Thread |-> Thread]

CallSymmetry == Permutations(Thread) \cup Permutations(Buffer)
=============================================================================
