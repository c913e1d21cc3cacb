----------------------------- MODULE MCBufferMap -----------------------------
(* BufferMap for TLC.  Buffers only differ by their identity. *)
EXTENDS BufferMap, TLC

BufferSymmetry == Permutations(Buffer)
=============================================================================
