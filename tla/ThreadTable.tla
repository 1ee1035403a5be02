---------------------------- MODULE ThreadTable ----------------------------
(***************************************************************************)
(* The thread table of A3/thread_table.c: a stack of handles linked from   *)
(* head, each with the id and the TCB it stands for; the TCB points back   *)
(* to its handle.  A search walks down the stack while the ids are larger  *)
(* than the one it looks for and gives up at the first that is not, which  *)
(* finds a TCB only as long as the stack stays sorted by falling id.       *)
(***************************************************************************)
EXTENDS Integers, Sequences, FiniteSets, SequencesExt, LinkedList

CONSTANTS
    Handle,  \* the heap chunks a thandle_t can occupy
    Tcb,     \* the TCBs of the client
    NULL,    \* the null pointer
    MaxId    \* bound: ids given out between init_table and destroy_table

VARIABLES
    made,              \* the struct TABLE exists
    head, max_id, size,  \* its fields
    next, id, tcb,     \* the fields of the handles
    allocated,         \* the chunks that hold a handle
    handle,            \* the field of the TCBs
    res,               \* the last operation and what it returned
    stale              \* a handle was freed while it is in the stack

vars == <<made, head, max_id, size, next, id, tcb, allocated, handle, res, stale>>

Answer(op, val) == [op |-> op, val |-> val]

Init ==
    /\ made = FALSE /\ head = NULL /\ max_id = 0 /\ size = 0
    /\ next = [h \in Handle |-> NULL]
    /\ id = [h \in Handle |-> 0]
    /\ tcb = [h \in Handle |-> NULL]
    /\ allocated = {}
    /\ handle = [t \in Tcb |-> NULL]
    /\ res = Answer("none", NULL) /\ stale = FALSE

init_table ==
    /\ ~made /\ made' = TRUE
    /\ head' = NULL /\ max_id' = 0 /\ size' = 0
    /\ res' = Answer("init", 0)
    /\ UNCHANGED <<next, id, tcb, allocated, handle, stale>>

\* A handle that the TCB already has is freed but not taken out of the stack.
put_tcb(h, t) ==
    /\ made /\ max_id < MaxId /\ h \notin allocated
    /\ allocated' = (allocated \cup {h}) \ {handle[t]}
    /\ stale' = (handle[t] # NULL)
    /\ tcb' = [tcb EXCEPT ![h] = t]
    /\ id' = [id EXCEPT ![h] = max_id]
    /\ max_id' = max_id + 1
    /\ next' = [next EXCEPT ![h] = head]
    /\ head' = h /\ size' = size + 1
    /\ handle' = [handle EXCEPT ![t] = h]
    /\ res' = Answer("put", 0)
    /\ UNCHANGED made

List == Nodes(head, next, Handle, NULL)

\* Mutant: the search stops at the first id that is not smaller.
StopsAtLarger(k) == {i \in DOMAIN List : id[List[i]] >= k /\ \A j \in 1 .. i-1 : id[List[j]] < k}
\* Where the search for k stops: the first place whose id is not larger.
StopsAt(k) == {i \in DOMAIN List : id[List[i]] <= k /\ \A j \in 1 .. i-1 : id[List[j]] > k}
FoundAt(k) == {i \in StopsAt(k) : id[List[i]] = k}

Lookup(k) ==
    /\ \/ FoundAt(k) = {} /\ res' = Answer("get", NULL)
       \/ \E i \in FoundAt(k) : res' = Answer("get", tcb[List[i]])
    /\ UNCHANGED <<made, head, max_id, size, next, id, tcb, allocated, handle, stale>>

get_tcb_by_id(k) == made /\ Lookup(k)

get_tcb(t) ==
    /\ made
    /\ \/ /\ handle[t] = NULL /\ res' = Answer("get", NULL)
          /\ UNCHANGED <<made, head, max_id, size, next, id, tcb, allocated, handle, stale>>
       \/ handle[t] # NULL /\ Lookup(id[handle[t]])

pop_tcb ==
    /\ made
    /\ \/ /\ head = NULL /\ res' = Answer("pop", NULL)
          /\ UNCHANGED <<head, size, allocated, handle>>
       \/ /\ head # NULL
          /\ head' = next[head] /\ size' = size - 1
          /\ handle' = [handle EXCEPT ![tcb[head]] = NULL]
          /\ allocated' = allocated \ {head}
          /\ res' = Answer("pop", tcb[head])
    /\ UNCHANGED <<made, max_id, next, id, tcb, stale>>

\* Take the handle at place i out of the stack and free it.
Unlink(i) ==
    /\ \/ i = 1 /\ head' = next[List[1]] /\ UNCHANGED next
       \/ i > 1 /\ next' = [next EXCEPT ![List[i-1]] = next[List[i]]] /\ UNCHANGED head
    /\ allocated' = allocated \ {List[i]}

\* -2 stands for a handle that is not found in this table.
remove_tcb(t) ==
    /\ made
    /\ \/ /\ handle[t] = NULL /\ res' = Answer("remove", -1)
          /\ UNCHANGED <<head, size, next, allocated, handle>>
       \/ /\ handle[t] # NULL
          /\ IF FoundAt(id[handle[t]]) = {}
             THEN /\ res' = Answer("remove", -2)
                  /\ UNCHANGED <<head, size, next, allocated, handle>>
             ELSE /\ \E i \in FoundAt(id[handle[t]]) : Unlink(i)
                  /\ handle' = [handle EXCEPT ![t] = NULL]
                  /\ size' = size - 1
                  /\ res' = Answer("remove", 0)
    /\ UNCHANGED <<made, max_id, id, tcb, stale>>

destroy_table ==
    /\ made /\ made' = FALSE
    /\ handle' = [t \in Tcb |-> IF \E h \in ToSet(List) : tcb[h] = t THEN NULL ELSE handle[t]]
    /\ allocated' = allocated \ ToSet(List)
    /\ head' = NULL /\ max_id' = 0 /\ size' = 0
    /\ res' = Answer("destroy", 0)
    /\ UNCHANGED <<next, id, tcb, stale>>

\* With a freed handle in the stack every call is undefined, and none is
\* modelled.
Next ==
    /\ ~stale
    /\ \/ init_table \/ pop_tcb \/ destroy_table
       \/ \E h \in Handle, t \in Tcb : put_tcb(h, t)
       \/ \E t \in Tcb : get_tcb(t) \/ remove_tcb(t)
       \/ \E k \in 0 .. MaxId : get_tcb_by_id(k)

Spec == Init /\ [][Next]_vars
-----------------------------------------------------------------------------
\* The TCB that a list of handles gives for an id.
Entry(k) ==
    IF \E h \in ToSet(List) : id[h] = k
    THEN tcb[CHOOSE h \in ToSet(List) : id[h] = k]
    ELSE NULL

Abstract == INSTANCE Directory WITH
    entries <- [k \in 0 .. MaxId - 1 |-> Entry(k)], next_id <- max_id, broken <- stale

\* The early end of the search never misses a TCB, also after removals from
\* the middle: thread_table.c implements Directory, whose promise ends with
\* the first TCB that is put a second time.
ImplementsDirectory == Abstract!Spec

\* As long as no TCB is put a second time, the stack holds exactly the
\* allocated handles, size of them; a TCB and its handle point at each other.
TableWellFormed ==
    made /\ ~stale =>
        /\ ToSet(List) = allocated /\ Len(List) = size /\ Cardinality(allocated) = size
        /\ \A t \in Tcb : handle[t] # NULL => handle[t] \in allocated /\ tcb[handle[t]] = t
        /\ \A h \in allocated : handle[tcb[h]] = h
=============================================================================
