--------------------------- MODULE MCThreadTests ---------------------------
(* The test drivers of the threads library for TLC. *)
EXTENDS ThreadTests
=============================================================================
