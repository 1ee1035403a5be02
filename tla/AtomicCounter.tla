--------------------------- MODULE AtomicCounter ---------------------------
(***************************************************************************)
(* What test_counter_lock.asm is for: a counter that each core increments  *)
(* Rounds times, every increment one indivisible step.                     *)
(***************************************************************************)
EXTENDS Integers

CONSTANTS Core, Rounds
VARIABLES count, left   \* left[c]: increments core c still has to make
vars == <<count, left>>

Init == count = 0 /\ left = [c \in Core |-> Rounds]

Increment(c) ==
    /\ left[c] > 0
    /\ count' = count + 1
    /\ left' = [left EXCEPT ![c] = @ - 1]

Next == \E c \in Core : Increment(c)

Spec == Init /\ [][Next]_vars
=============================================================================
