-------------------------------- MODULE Fifo --------------------------------
(***************************************************************************)
(* What the comments of A3/queue.c promise: a queue is a sequence of data  *)
(* that is filled at the back and emptied at the front, and an iterator    *)
(* gives its elements in order.  res is the last operation and its result. *)
(* queue_remove, which has no comment, has a price: once it has taken the  *)
(* last element out, the queue is cut, and takes nothing more in until it  *)
(* has been emptied by popping, or made anew.                              *)
(***************************************************************************)
EXTENDS Naturals, Sequences, SequencesExt

CONSTANTS Data, NULL

VARIABLES made, contents, rest, cut, res

vars == <<made, contents, rest, cut, res>>

Answer(op, val) == [op |-> op, val |-> val]

Init ==
    /\ made = FALSE /\ contents = <<>> /\ rest = <<>> /\ cut = FALSE
    /\ res = Answer("none", NULL)

Make ==
    /\ ~made /\ made' = TRUE
    /\ contents' = <<>> /\ rest' = <<>> /\ cut' = FALSE /\ res' = Answer("init", 0)

\* An iterator that has not reached the end also gives what is pushed later.
Push(d) ==
    /\ made
    /\ \/ cut /\ UNCHANGED <<contents, rest>>
       \/ /\ ~cut
          /\ contents' = Append(contents, d)
          /\ rest' = IF rest = <<>> THEN <<>> ELSE Append(rest, d)
    /\ res' = Answer("push", NULL)
    /\ UNCHANGED <<made, cut>>

Pop ==
    /\ made
    /\ \/ contents = <<>> /\ res' = Answer("pop", NULL) /\ UNCHANGED <<contents, cut>>
       \/ /\ contents # <<>>
          /\ res' = Answer("pop", Head(contents)) /\ contents' = Tail(contents)
          /\ cut' = (cut /\ Tail(contents) # <<>>)
    /\ rest' = <<>>
    /\ UNCHANGED made

Peek ==
    /\ made
    /\ res' = Answer("peek", IF contents = <<>> THEN NULL ELSE Head(contents))
    /\ UNCHANGED <<made, contents, rest, cut>>

IsAt(d, p) == contents[p] = d /\ \A j \in 1 .. p - 1 : contents[j] # d

\* The first d is taken out of the queue; 1 if there is none.
TakeOut(d) ==
    /\ made
    /\ res' = Answer("remove", IF Contains(contents, d) THEN 0 ELSE 1)
    /\ contents' = RemoveFirst(contents, d)
    /\ cut' = (cut \/ (contents # <<>> /\ IsAt(d, Len(contents))))
    /\ rest' = <<>>
    /\ UNCHANGED made

NotEmpty ==
    /\ made /\ res' = Answer("not_empty", IF contents = <<>> THEN 0 ELSE 1)
    /\ UNCHANGED <<made, contents, rest, cut>>

Iterate ==
    /\ made /\ rest' = contents /\ res' = Answer("iterator", NULL)
    /\ UNCHANGED <<made, contents, cut>>

NextElement ==
    /\ made
    /\ \/ rest = <<>> /\ res' = Answer("next", NULL) /\ UNCHANGED rest
       \/ rest # <<>> /\ res' = Answer("next", Head(rest)) /\ rest' = Tail(rest)
    /\ UNCHANGED <<made, contents, cut>>

Destroy ==
    /\ made /\ made' = FALSE
    /\ contents' = <<>> /\ rest' = <<>> /\ cut' = FALSE /\ res' = Answer("destroy", NULL)

Next ==
    \/ Make \/ Peek \/ Pop \/ NotEmpty \/ Iterate \/ NextElement \/ Destroy
    \/ \E d \in Data : Push(d) \/ TakeOut(d)

Spec == Init /\ [][Next]_vars
=============================================================================
