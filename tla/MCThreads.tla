----------------------------- MODULE MCThreads -----------------------------
(* Small instances of Threads for TLC. *)
EXTENDS ThreadsInvariant, TLC

ChunkSymmetry == Permutations(Tcb)
=============================================================================
