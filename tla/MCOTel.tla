------------------------------- MODULE MCOTel -------------------------------
(* OTel for TLC: a thread that does everything and one that only puts. *)
EXTENDS OTel, TLC

HandleSymmetry == {p @@ q : p \in Permutations(Obj), q \in Permutations(Handle)}
=============================================================================
