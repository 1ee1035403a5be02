------------------------------- MODULE Queue -------------------------------
(***************************************************************************)
(* The queue of A3/queue.c: a linked list of items in heap chunks, with    *)
(* pointers to its first and its last item.  malloc returns any free chunk *)
(* and never fails while there is one; free leaves a chunk's content.      *)
(***************************************************************************)
EXTENDS Naturals, Sequences, FiniteSets, SequencesExt, LinkedList

CONSTANTS
    Item,   \* the heap chunks a qitem_t can occupy
    Data,   \* what the client puts into the queue
    NULL    \* the null pointer

ASSUME ConstantsAssumption ==
    /\ IsFiniteSet(Item)
    /\ NULL \notin Item \cup Data \cup Nat
    /\ Item \cap Data = {}

VARIABLES
    made,         \* the struct Queue exists
    front, back,  \* its fields
    next, data,   \* the fields of the items
    allocated,    \* the chunks that hold an item
    it,           \* the client's iterator
    res,          \* the last operation and what it returned
    lost          \* history: the items pushed while back pointed outside the list

vars == <<made, front, back, next, data, allocated, it, res, lost>>

Answer(op, val) == [op |-> op, val |-> val]

Init ==
    /\ made = FALSE /\ front = NULL /\ back = NULL
    /\ next = [i \in Item |-> NULL] /\ data = [i \in Item |-> NULL]
    /\ allocated = {} /\ it = NULL /\ res = Answer("none", NULL) /\ lost = {}

init_queue ==
    /\ ~made /\ made' = TRUE
    /\ front' = NULL /\ back' = NULL /\ it' = NULL
    /\ res' = Answer("init", 0)
    /\ UNCHANGED <<next, data, allocated, lost>>

queue_not_empty ==
    /\ made
    /\ res' = Answer("not_empty", IF front = NULL THEN 0 ELSE 1)
    /\ UNCHANGED <<made, front, back, next, data, allocated, it, lost>>

List == Nodes(front, next, Item, NULL)

\* back points to an item that is not in the list: it was removed, or pushed
\* after that.
Dangling == back # IF List = <<>> THEN NULL ELSE Last(List)

\* Mutant: the item after back is not linked when the queue is not empty.
PushWithoutLink(i, d) ==
    /\ made /\ i \notin allocated
    /\ allocated' = allocated \cup {i}
    /\ data' = [data EXCEPT ![i] = d]
    /\ next' = [next EXCEPT ![i] = NULL]
    /\ front' = IF back = NULL THEN i ELSE front
    /\ back' = i
    /\ lost' = IF Dangling THEN lost \cup {i} ELSE lost
    /\ res' = Answer("push", NULL)
    /\ UNCHANGED <<made, it>>
\* Only back is asked where to link the new item: while back points outside
\* the list, the item gets into no list.  It is written first; if it is the
\* chunk back points to, back->next = item makes it its own successor.
queue_push(i, d) ==
    /\ made /\ i \notin allocated
    /\ allocated' = allocated \cup {i}
    /\ data' = [data EXCEPT ![i] = d]
    /\ \/ /\ back # NULL
          /\ next' = [next EXCEPT ![i] = NULL, ![back] = i]
          /\ UNCHANGED front
       \/ /\ back = NULL
          /\ next' = [next EXCEPT ![i] = NULL]
          /\ front' = i
    /\ back' = i
    /\ lost' = IF Dangling THEN lost \cup {i} ELSE lost
    /\ res' = Answer("push", NULL)
    /\ UNCHANGED <<made, it>>

\* What is returned is the item, not "the value of the frontmost Item".
queue_peek ==
    /\ made
    /\ res' = Answer("peek", front)
    /\ UNCHANGED <<made, front, back, next, data, allocated, it, lost>>

\* Mutant: the popped item is not freed.
PopLeaks ==
    /\ made
    /\ \/ /\ front = NULL
          /\ res' = Answer("pop", NULL)
          /\ UNCHANGED <<front, back, allocated>>
       \/ /\ front # NULL
          /\ front' = next[front]
          /\ back' = IF next[front] = NULL THEN NULL ELSE back
          /\ res' = Answer("pop", data[front])
          /\ UNCHANGED allocated
    /\ it' = NULL
    /\ UNCHANGED <<made, next, data, lost>>
\* Taking an item out ends the use of the client's iterator, which may point
\* to it.
queue_pop ==
    /\ made
    /\ \/ /\ front = NULL
          /\ res' = Answer("pop", NULL)
          /\ UNCHANGED <<front, back, allocated>>
       \/ /\ front # NULL
          /\ front' = next[front]
          /\ back' = IF next[front] = NULL THEN NULL ELSE back
          /\ res' = Answer("pop", data[front])
          /\ allocated' = allocated \ {front}
    /\ it' = NULL
    /\ UNCHANGED <<made, next, data, lost>>

iterator ==
    /\ made
    /\ it' = front /\ res' = Answer("iterator", NULL)
    /\ UNCHANGED <<made, front, back, next, data, allocated, lost>>

\* next(); the name belongs to the field.
next_element ==
    /\ made
    /\ \/ it = NULL /\ res' = Answer("next", NULL) /\ UNCHANGED it
       \/ it # NULL /\ res' = Answer("next", data[it]) /\ it' = next[it]
    /\ UNCHANGED <<made, front, back, next, data, allocated, lost>>

\* Position i of the list holds the first d.
FirstAt(d, i) == data[List[i]] = d /\ \A j \in 1 .. i - 1 : data[List[j]] # d

\* back is left alone, also when it points to the item that is freed.
queue_remove(d) ==
    /\ made
    /\ \/ /\ \A i \in DOMAIN List : ~FirstAt(d, i)
          /\ res' = Answer("remove", 1)
          /\ UNCHANGED <<front, next, allocated>>
       \/ \E i \in DOMAIN List :
          /\ FirstAt(d, i)
          /\ \/ i = 1 /\ front' = next[List[1]] /\ UNCHANGED next
             \/ i > 1 /\ next' = [next EXCEPT ![List[i-1]] = next[List[i]]] /\ UNCHANGED front
          /\ allocated' = allocated \ {List[i]}
          /\ res' = Answer("remove", 0)
    /\ it' = NULL
    /\ UNCHANGED <<made, back, data, lost>>

destroy_queue ==
    /\ made /\ made' = FALSE
    /\ allocated' = allocated \ ToSet(List)
    /\ front' = NULL /\ back' = NULL /\ it' = NULL
    /\ res' = Answer("destroy", NULL)
    /\ UNCHANGED <<next, data, lost>>

Next ==
    \/ init_queue \/ queue_not_empty \/ queue_peek \/ queue_pop
    \/ iterator \/ next_element \/ destroy_queue
    \/ \E d \in Data : queue_remove(d) \/ \E i \in Item : queue_push(i, d)

Spec == Init /\ [][Next]_vars

-----------------------------------------------------------------------------
Contents(from) ==
    LET list == Nodes(from, next, Item, NULL) IN [i \in DOMAIN list |-> data[list[i]]]

\* The results, with the item that queue_peek returns replaced by its data,
\* which a client only gets by passing the item to next.
Seen ==
    IF res.op = "peek" /\ res.val # NULL THEN Answer("peek", data[res.val]) ELSE res

Abstract == INSTANCE Fifo WITH
    contents <- Contents(front), rest <- Contents(it), cut <- Dangling, res <- Seen

\* Pushing, popping, removing and iterating work on the sequence of the data
\* in the list, in first-in first-out order, but for what is pushed between
\* the removal of the last item and the next time the queue is emptied by
\* popping or made anew: that is dropped.  The item that queue_peek returns
\* is the first.  This is how far queue.c implements Fifo.
ImplementsFifo == Abstract!Spec

\* Every chunk that holds an item is in the list, once, but for the items
\* that were pushed after the last one had been removed; these leak.  back is
\* the last item, NULL if there is none, or points outside the list, so that
\* a push cannot damage what is in it.
ListWellFormed ==
    made => /\ ToSet(List) = allocated \ lost
            /\ Len(List) = Cardinality(allocated \ lost)
            /\ Dangling => back \notin ToSet(List) \cup {NULL}
=============================================================================
