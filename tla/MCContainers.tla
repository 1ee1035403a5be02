---------------------------- MODULE MCContainers ----------------------------
(***************************************************************************)
(* Small instances of the two containers of the threads library, Queue and *)
(* ThreadTable.  They share no state; a client uses one or the other.      *)
(***************************************************************************)
EXTENDS Queue

CONSTANTS Handle, Tcb, MaxId

ASSUME TableAssumption ==
    IsFiniteSet(Handle) /\ NULL \notin Handle /\ NULL \notin Tcb /\ MaxId \in Nat

VARIABLES
    subject,      \* the container in use
    t_made, head, max_id, size, t_next, id, tcb, t_allocated, handle, t_res,
    stale

Table == INSTANCE ThreadTable WITH
    made <- t_made, next <- t_next, allocated <- t_allocated, res <- t_res

tvars == <<t_made, head, max_id, size, t_next, id, tcb, t_allocated, handle, t_res, stale>>

Subjects == {"queue", "table"}

MCInit == subject \in Subjects /\ Init /\ Table!Init

UseQueue == subject = "queue" /\ Next /\ UNCHANGED <<subject, tvars>>
UseTable == subject = "table" /\ Table!Next /\ UNCHANGED <<subject, vars>>

MCSpec == MCInit /\ [][UseQueue \/ UseTable]_<<subject, vars, tvars>>

MCSymmetry == Permutations(Item) \cup Permutations(Handle) \cup Permutations(Tcb)
-----------------------------------------------------------------------------
\* Every chunk that queue.c has allocated is in its list, once, but for what
\* was pushed between a removal of the last item and the next time the queue
\* was emptied; back is the last item or points outside the list.  As long as
\* no TCB is put twice, the stack of thread_table.c is exactly the handles in
\* memory, and a TCB and its handle point at each other.
NothingLeaks == ListWellFormed /\ Table!TableWellFormed

\* get_tcb_by_id, which stops at the first smaller id, finds a TCB exactly as
\* long as it is in the table, whatever remove_tcb took out in between:
\* thread_table.c implements Directory, as long as no TCB is put twice.
ImplementsDirectory == Table!ImplementsDirectory
=============================================================================
