------------------------------ MODULE MCAlloc ------------------------------
(***************************************************************************)
(* Heaps of 28 and 32 words for the allocator.  A block of 5 words takes   *)
(* 8, one of 13 takes 16: four blocks fit.  In the heap of 32 the last     *)
(* block can be allocated as it is; in that of 28 one word is always left  *)
(* behind the others.  Free blocks have 29, 25, 21, 17, 13, 9, 5 or 1      *)
(* words: none is less than three words too small for a request.  A        *)
(* request of 4 words finds one that is.                                   *)
(***************************************************************************)
EXTENDS Alloc

Fitting == {<<5, 1>>, <<13, 2>>}
Misfit == {<<4, 0>>, <<5, 0>>}
=============================================================================
