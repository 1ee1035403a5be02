----------------------------- MODULE LinkedList -----------------------------
(* The singly linked lists of A3/queue.c and A3/thread_table.c, read as the *)
(* sequences they stand for.                                                *)
EXTENDS Naturals, FiniteSets

\* The nodes from head along next up to the null pointer; a list that does
\* not end is cut off after as many nodes as there are.
Nodes(head, next, Node, null) ==
    LET walk[k \in 0 .. Cardinality(Node)] ==
            IF k = 0 THEN head
            ELSE IF walk[k-1] = null THEN null ELSE next[walk[k-1]]
        len == Cardinality({k \in 0 .. Cardinality(Node) - 1 : walk[k] # null})
    IN [k \in 1 .. len |-> walk[k-1]]
=============================================================================
