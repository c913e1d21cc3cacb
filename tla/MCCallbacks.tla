----------------------------- MODULE MCCallbacks -----------------------------
(* Callbacks for TLC.  Threads only differ by their identity. *)
EXTENDS Callbacks, TLC

ThreadSymmetry == Permutations(Thread)
=============================================================================
