-------------------------- MODULE ThreadsInvariant --------------------------
(***************************************************************************)
(* The inductive invariant behind the safety of the threads library: where *)
(* a thread may be, what a blocked thread is blocked in, and who owns a    *)
(* mutex that is on its way to a thread that is ready but has not run yet. *)
(* It holds in one use of the library; thread_cleanup ends it.             *)
(***************************************************************************)
EXTENDS Threads

\* The running thread and the threads in the ready list can work; nobody is
\* in the list twice, and the running thread is not in it.
ReadyPart ==
    /\ current_thread \in all_threads /\ status[current_thread] = "WORKING"
    /\ IsInjective(ready_list)
    /\ \A t \in ToSet(ready_list) :
        t \in all_threads /\ t # current_thread /\ status[t] = "WORKING"

\* The threads in the queue of a mutex are blocked in a call for this mutex.
MutexPart ==
    \A m \in mutexes :
        /\ IsInjective(mq[m])
        /\ \A t \in ToSet(mq[m]) :
            /\ t \in all_threads /\ status[t] = "WAITING"
            /\ call[t].op \in {"lock", "wait"} /\ call[t].arg = m

\* The threads in the queue of a condition variable are blocked in
\* thread_cond_wait with the mutex noted there, and are in no other queue.
CondPart ==
    \A c \in conds : \A i \in DOMAIN cq[c] :
        /\ cq[c][i].thread \in all_threads /\ status[cq[c][i].thread] = "WAITING"
        /\ call[cq[c][i].thread].op = "wait" /\ call[cq[c][i].thread].arg = cq[c][i].mutex
        /\ cq[c][i].mutex \in mutexes
        /\ \A d \in conds : \A j \in DOMAIN cq[d] :
            cq[d][j].thread = cq[c][i].thread => d = c /\ j = i
        /\ \A m \in mutexes : cq[c][i].thread \notin ToSet(mq[m])

\* Only a thread that has not terminated has an observer; the observer is
\* blocked in thread_join, and observes no other thread.
JoinPart ==
    /\ \A u \in Tcb : observer[u] \in Tcb =>
        /\ u \in Live
        /\ observer[u] \in all_threads /\ status[observer[u]] = "WAITING"
        /\ call[observer[u]].op = "join"
    /\ \A u, v \in Tcb : observer[u] \in Tcb /\ observer[u] = observer[v] => u = v

\* The table is what is in memory, ids are unique, and what waits for its
\* destruction has terminated.
HeapPart ==
    /\ allocated = all_threads
    /\ \A t, u \in all_threads : tid[t] = tid[u] => t = u
    /\ \A t \in all_threads : tid[t] < max_id
    /\ next_to_destroy # NULL =>
        next_to_destroy \in all_threads /\ status[next_to_destroy] = "DONE"

\* A thread that is ready to come back from a mutex call owns the mutex.
HandoffPart ==
    \A t \in ToSet(ready_list) :
        call[t].op \in {"lock", "wait"} =>
            /\ call[t].arg \in mutexes
            /\ locked[call[t].arg] = 1 /\ owner[call[t].arg] = tid[t]

\* Only the owner has been told that it holds a mutex.
ExclusionPart ==
    \A m \in mutexes : \A k \in holds[m] : locked[m] = 1 /\ owner[m] = k

\* Before the first init(): no thread exists, and what malloc returns may
\* hold garbage but no pointer to a TCB.
Fresh ==
    /\ ready = 0 /\ allocated = {} /\ next_to_destroy = NULL
    /\ \A u \in Tcb : observer[u] \notin Tcb

\* The library in use.
InUse ==
    /\ ReadyPart /\ MutexPart /\ CondPart /\ JoinPart
    /\ HeapPart /\ HandoffPart /\ ExclusionPart

\* From the first init() to thread_cleanup, and whatever the client calls,
\* a thread that the scheduler or an unlock, a signal or a termination picks
\* from a list is one that may be picked, and finds what it waited for.
IInv ==
    /\ TypeOK
    /\ inits = 0 => Fresh
    /\ inits = 1 /\ Running => InUse
-----------------------------------------------------------------------------
(***************************************************************************)
(* What else holds while the library is in use: no thread is lost, nobody  *)
(* owns a mutex it waits for, a join ends with its target.                 *)
(***************************************************************************)
\* A thread that can work is running or ready; a thread that waits is found
\* by whoever has to wake it up.
PlacePart ==
    \A t \in Live :
        /\ status[t] = "WORKING" => t = current_thread \/ t \in ToSet(ready_list)
        /\ status[t] = "WAITING" =>
            \/ \E u \in Live : observer[u] = t
            \/ \E m \in mutexes : t \in ToSet(mq[m])
            \/ \E c \in conds : \E i \in DOMAIN cq[c] : cq[c][i].thread = t

\* Thread t is blocked until it gets mutex m, in whatever queue it is.
Wants(t, m) ==
    status[t] = "WAITING" /\ call[t].op \in {"lock", "wait"} /\ call[t].arg = m

\* Only a mutex that is taken is waited for, and never by its owner.
OwnerPart ==
    \A m \in mutexes :
        /\ mq[m] # <<>> => locked[m] = 1
        /\ locked[m] = 1 => \A t \in all_threads : Wants(t, m) => tid[t] # owner[m]

\* A thread blocked in a thread_join that will return 0 observes its target;
\* when it has been woken up, the target has terminated.
TargetPart ==
    \A t \in all_threads : call[t].op = "join" /\ call[t].ret = 0 =>
        /\ call[t].arg \in 0 .. max_id - 1
        /\ status[t] = "WAITING" => \E u \in Live : observer[u] = t /\ tid[u] = call[t].arg
        /\ status[t] = "WORKING" => \A u \in Live : tid[u] # call[t].arg

\* A terminated thread is destroyed when the next one terminates.
DonePart == \A t \in all_threads \ Live : t = next_to_destroy

Orderly == PlacePart /\ OwnerPart /\ TargetPart /\ DonePart

\* The table is what is in memory, empty while the library is not in use,
\* and no id is given twice.  Unlike the above this survives thread_cleanup.
TableSound ==
    /\ allocated = all_threads
    /\ ready = 0 => allocated = {}
    /\ \A t, u \in all_threads : tid[t] = tid[u] => t = u
    /\ \A t \in all_threads : tid[t] < max_id

\* From a heap without garbage: no observer is garbage, a free chunk has no
\* handle of a former thread, and nothing went wrong so far.
CleanSound ==
    /\ process # "crash"
    /\ \A u \in Tcb : observer[u] # Garbage
    /\ \A u \in Tcb \ allocated : handle[u] = 0

\* IInv, and all that is proved on top of it.
FullInv ==
    /\ IInv
    /\ TableSound
    /\ inits = 1 /\ Running => Orderly
    /\ inits = 1 /\ process = "deadlock" => \A t \in Live : status[t] = "WAITING"
    /\ inits <= 1 /\ HeapContent \subseteq {NULL} => CleanSound
    /\ inits <= 1 => JoinAcyclic
=============================================================================
