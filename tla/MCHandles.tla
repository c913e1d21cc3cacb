------------------------------ MODULE MCHandles ------------------------------
(* Handles for TLC: numbers and the objects of one class are interchangeable. *)
EXTENDS Handles, TLC

HandlesSymmetry == Permutations(Queue) \cup Permutations(Conn) \cup Permutations(Obj)
=============================================================================
