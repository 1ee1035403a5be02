----------------------------- MODULE Directory -----------------------------
(***************************************************************************)
(* What the comments of A3/thread_table.c and .h promise: a table maps ids *)
(* to TCBs.  put_tcb gives each TCB the next id, a TCB is found by its id  *)
(* exactly as long as it is in the table, and pop takes the newest.        *)
(* A TCB that is put a second time while it is in the table breaks it.     *)
(***************************************************************************)
EXTENDS Integers

CONSTANTS Tcb, NULL, MaxId

VARIABLES
    made, entries, next_id, res,
    broken  \* nothing is promised any more

vars == <<made, entries, next_id, res, broken>>

Answer(op, val) == [op |-> op, val |-> val]

\* entries[k] is the TCB with id k, or NULL.
Empty == [k \in 0 .. MaxId - 1 |-> NULL]
Known == {k \in 0 .. MaxId - 1 : entries[k] # NULL}

Init ==
    /\ made = FALSE /\ entries = Empty /\ next_id = 0
    /\ res = Answer("none", NULL) /\ broken = FALSE

Make ==
    /\ ~made /\ made' = TRUE
    /\ entries' = Empty /\ next_id' = 0 /\ res' = Answer("init", 0)
    /\ UNCHANGED broken

Put(t) ==
    /\ made /\ next_id < MaxId /\ \A k \in Known : entries[k] # t
    /\ entries' = [entries EXCEPT ![next_id] = t]
    /\ next_id' = next_id + 1
    /\ res' = Answer("put", 0)
    /\ UNCHANGED <<made, broken>>

PutTwice(t) ==
    /\ made /\ next_id < MaxId /\ \E k \in Known : entries[k] = t
    /\ broken' = TRUE

Find(k) ==
    /\ made
    /\ res' = Answer("get", IF k \in Known THEN entries[k] ELSE NULL)
    /\ UNCHANGED <<made, entries, next_id, broken>>

FindTcb(t) ==
    /\ made
    /\ res' = Answer("get", IF \E k \in Known : entries[k] = t THEN t ELSE NULL)
    /\ UNCHANGED <<made, entries, next_id, broken>>

Pop ==
    /\ made
    /\ \/ Known = {} /\ res' = Answer("pop", NULL) /\ UNCHANGED entries
       \/ \E k \in Known :
          /\ \A j \in Known : j <= k
          /\ res' = Answer("pop", entries[k])
          /\ entries' = [entries EXCEPT ![k] = NULL]
    /\ UNCHANGED <<made, next_id, broken>>

Delete(t) ==
    /\ made
    /\ \/ (\A k \in Known : entries[k] # t) /\ res' = Answer("remove", -1) /\ UNCHANGED entries
       \/ \E k \in Known :
          /\ entries[k] = t
          /\ res' = Answer("remove", 0)
          /\ entries' = [entries EXCEPT ![k] = NULL]
    /\ UNCHANGED <<made, next_id, broken>>

Destroy ==
    /\ made /\ made' = FALSE
    /\ entries' = Empty /\ next_id' = 0 /\ res' = Answer("destroy", 0)
    /\ UNCHANGED broken

Next ==
    /\ ~broken
    /\ \/ Make \/ Pop \/ Destroy
       \/ \E t \in Tcb : Put(t) \/ PutTwice(t) \/ FindTcb(t) \/ Delete(t)
       \/ \E k \in 0 .. MaxId : Find(k)

Spec == Init /\ [][Next]_vars
=============================================================================
