------------------------------ MODULE Threads ------------------------------
(***************************************************************************)
(* The user-level threads library A3/thread.c: a cooperative round-robin   *)
(* scheduler with thread_create, thread_yield, thread_join, mutexes and    *)
(* condition variables.  Exactly one thread runs at a time and it keeps    *)
(* the processor until a library call gives it away, so one call, up to    *)
(* the context switch it may end in, is one step.                          *)
(*                                                                         *)
(* A TCB is the heap chunk it lives in: malloc hands out any free chunk,   *)
(* also one that held an earlier TCB, and what nobody writes stays in it.  *)
(* The queues of queue.c are sequences (module Queue refines them) and the *)
(* thread table of thread_table.c is the set of TCBs it lists (ThreadTable *)
(* refines it).  Registers and stack contents are abstracted to call[t],   *)
(* the library call thread t is in, or made last.                          *)
(*                                                                         *)
(* A definition that stands before another one and says "Mutant" is a      *)
(* plausible mistake in the code of the one that follows; nothing uses it  *)
(* in the specification.                                                   *)
(***************************************************************************)
EXTENDS Integers, Sequences, FiniteSets, SequencesExt

CONSTANTS
    Tcb,          \* the heap chunks a tcb_t can occupy
    Mutex,        \* the client's thread_mutex_t objects
    Cond,         \* the client's thread_cond_t objects
    NULL,         \* the null pointer
    Garbage,      \* a pointer left in memory by some earlier use of it
    HeapContent,  \* what a chunk that never held a TCB may contain
    MaxId,        \* bound: thread ids handed out between two init() calls
    MaxInits      \* bound: init() calls (2: the client goes on after cleanup)

ASSUME ConstantsAssumption ==
    /\ IsFiniteSet(Tcb)
    /\ NULL \notin Tcb \cup Mutex \cup Cond \cup Nat
    /\ Garbage \notin Tcb \cup {NULL}
    /\ Mutex \cap Nat = {}
    /\ HeapContent \subseteq {NULL, Garbage}
    /\ MaxId \in Nat \ {0}
    /\ MaxInits \in Nat

VARIABLES
    \* the library's globals
    ready, all_threads, max_id, ready_list, mutexes, conds,
    next_to_destroy, current_thread,
    \* the heap: which chunks hold a TCB, and the fields of the TCBs
    allocated, status, observer, tid, handle,
    \* the client's mutexes and condition variables (m->q is mq[m])
    locked, owner, mq, cq,
    \* what is on each thread's stack, and whether the process still runs
    call, process,
    \* history: for each mutex the ids of the threads that were told they
    \* have it; and the number of init() calls
    holds, inits

libVars   == <<ready, inits, next_to_destroy>>
tableVars == <<all_threads, max_id, allocated, tid, handle>>
mutexVars == <<mutexes, locked, owner, mq>>
condVars  == <<conds, cq>>
schedVars == <<ready_list, current_thread, status, observer, process, call, holds>>
vars == <<libVars, tableVars, mutexVars, condVars, schedVars>>

self == current_thread

\* A library call: op, its argument, and what it returns (a blocked call:
\* what it will return once its thread is switched in again).
Called(op, arg, ret) == [op |-> op, arg |-> arg, ret |-> ret]
Idle == Called("none", NULL, 0)

Running == process = "running" /\ ready = 1
-----------------------------------------------------------------------------
Init ==
    /\ ready = 0 /\ inits = 0
    /\ all_threads = {} /\ max_id = 0
    /\ ready_list = <<>> /\ mutexes = {} /\ conds = {}
    /\ next_to_destroy = NULL /\ current_thread = NULL
    /\ allocated = {}
    /\ status = [t \in Tcb |-> "WORKING"]
    /\ tid = [t \in Tcb |-> 0]
    /\ observer \in [Tcb -> HeapContent]
    /\ handle \in [Tcb -> IF Garbage \in HeapContent THEN {0, 1} ELSE {0}]
    /\ locked = [m \in Mutex |-> 0]
    /\ owner = [m \in Mutex |-> -1]
    /\ mq = [m \in Mutex |-> <<>>]
    /\ cq = [c \in Cond |-> <<>>]
    /\ call = [t \in Tcb |-> Idle]
    /\ holds = [m \in Mutex |-> {}]
    /\ process = "running"

\* The call returns at once and changes nothing.
Return(op, arg, ret) ==
    /\ call' = [call EXCEPT ![self] = Called(op, arg, ret)]
    /\ UNCHANGED <<libVars, tableVars, mutexVars, condVars, ready_list,
                   current_thread, status, observer, process, holds>>

\* An access through a dangling or garbage pointer ends the process.
Crash ==
    /\ process' = "crash"
    /\ UNCHANGED <<libVars, tableVars, mutexVars, condVars, ready_list,
                   current_thread, status, observer, call, holds>>
-----------------------------------------------------------------------------
(***************************************************************************)
(* malloc of a TCB in chunk a, and put_tcb.  Neither the caller nor        *)
(* put_tcb writes observer: it keeps what the chunk held.  put_tcb frees   *)
(* the handle it finds in the chunk if that is not NULL.                   *)
(***************************************************************************)
NewThread(a, id, table) ==
    /\ a \notin allocated
    /\ allocated' = allocated \cup {a}
    /\ status' = [status EXCEPT ![a] = "WORKING"]
    /\ tid' = [tid EXCEPT ![a] = id]
    /\ max_id' = id + 1
    /\ all_threads' = table \cup {a}
    /\ handle' = [handle EXCEPT ![a] = 1]
    /\ process' = IF handle[a] = 0 THEN "running" ELSE "crash"

\* init(), at the head of the first library call after the start or after
\* thread_cleanup; thread_self() does this and nothing else.
lib_init(a) ==
    /\ process = "running" /\ ready = 0 /\ inits < MaxInits
    /\ NewThread(a, 0, {})
    /\ ready_list' = <<>> /\ mutexes' = {} /\ conds' = {}
    /\ current_thread' = a
    /\ call' = [call EXCEPT ![a] = Idle]
    /\ ready' = 1 /\ inits' = inits + 1
    /\ UNCHANGED <<next_to_destroy, observer, locked, owner, mq, cq, holds>>

thread_create(a) ==
    /\ Running /\ max_id < MaxId
    /\ NewThread(a, max_id, all_threads)
    /\ ready_list' = Append(ready_list, a)
    /\ call' = [call EXCEPT ![self] = Idle, ![a] = Idle]
    /\ UNCHANGED <<libVars, mutexVars, condVars, current_thread, observer, holds>>
-----------------------------------------------------------------------------
(***************************************************************************)
(* thread_yield() when the statuses are st, the ready list rl and the      *)
(* history hd: threads at the head of rl that are not WORKING are dropped; *)
(* the first WORKING one is switched in, and its pending call returns.     *)
(***************************************************************************)
Resume(hd, n) ==
    IF call[n].op \in {"lock", "wait"}
    THEN [hd EXCEPT ![call[n].arg] = @ \cup {tid[n]}]
    ELSE hd

Workable(st, rl) == {i \in DOMAIN rl : st[rl[i]] = "WORKING"}

\* Mutant: the yielding thread goes to the front of the ready list.
RequeueInFront(st, rest) == IF st[self] = "WORKING" THEN Cons(self, rest) ELSE rest
\* The thread that gives up the processor goes to the back if it can work.
Requeue(st, rest) == IF st[self] = "WORKING" THEN Append(rest, self) ELSE rest

Switch(st, rl, hd) ==
    \/ /\ Workable(st, rl) = {}
       /\ ready_list' = <<>>
       /\ process' = IF st[self] = "WORKING" THEN "running" ELSE "deadlock"
       /\ holds' = hd
       /\ UNCHANGED current_thread
    \/ \E i \in Workable(st, rl) :
       /\ \A j \in Workable(st, rl) : i <= j
       /\ current_thread' = rl[i]
       /\ ready_list' = Requeue(st, SubSeq(rl, i + 1, Len(rl)))
       /\ holds' = Resume(hd, rl[i])
       /\ UNCHANGED process

thread_yield ==
    /\ Running
    /\ Switch(status, ready_list, holds)
    /\ call' = [call EXCEPT ![self] = Idle]
    /\ UNCHANGED <<libVars, tableVars, mutexVars, condVars, status, observer>>

\* Mutant: the thread does not mark itself as waiting.
NotBlocked(st) == st
\* The statuses st after the running thread has marked itself as waiting.
Blocked(st) == [st EXCEPT ![self] = "WAITING"]
-----------------------------------------------------------------------------
(***************************************************************************)
(* thread_join.  chain[k] is what following observer k times from the      *)
(* running thread gives; detect_deadlock moves slow by one and fast by two *)
(* and reports a cycle when both point to the same thread.                 *)
(***************************************************************************)
Chain(obs) ==
    LET chain[k \in 0 .. 2 * Cardinality(Tcb)] ==
            IF k = 0 THEN self
            ELSE IF chain[k-1] \in Tcb THEN obs[chain[k-1]] ELSE chain[k-1]
    IN chain

\* Mutant: fast moves by one as well, so it always meets slow.
DetectSlowFast(obs) == Chain(obs)[1] \in Tcb
detect_deadlock(obs) ==
    \E k \in 1 .. Cardinality(Tcb) :
        /\ Chain(obs)[2*k] \in Tcb
        /\ tid[Chain(obs)[k]] = tid[Chain(obs)[2*k]]

\* The walk along the observers runs into a pointer that is none.
WalkFaults(obs) == \E k \in 1 .. 2 * Cardinality(Tcb) : Chain(obs)[k] = Garbage

thread_join(k) ==
    /\ Running
    /\ \/ tid[self] = k /\ Return("join", k, -1)
       \/ tid[self] # k /\ (\A t \in all_threads : tid[t] # k) /\ Return("join", k, -3)
       \/ \E t \in all_threads :
          /\ tid[self] # k /\ tid[t] = k
          /\ \/ /\ status[t] = "DONE"
                /\ Switch(status, ready_list, holds)
                /\ call' = [call EXCEPT ![self] = Called("join", k, 0)]
                /\ UNCHANGED <<libVars, tableVars, mutexVars, condVars, status, observer>>
             \/ /\ status[t] # "DONE" /\ observer[t] # NULL
                /\ Return("join", k, -2)
             \/ /\ status[t] # "DONE" /\ observer[t] = NULL
                /\ LET obs == [observer EXCEPT ![t] = self]
                   IN \/ WalkFaults(obs) /\ Crash
                      \/ ~WalkFaults(obs) /\ detect_deadlock(obs) /\ Return("join", k, -1)
                      \/ /\ ~WalkFaults(obs) /\ ~detect_deadlock(obs)
                         /\ observer' = obs
                         /\ status' = Blocked(status)
                         /\ Switch(Blocked(status), ready_list, holds)
                         /\ call' = [call EXCEPT ![self] = Called("join", k, 0)]
                         /\ UNCHANGED <<libVars, tableVars, mutexVars, condVars>>
-----------------------------------------------------------------------------
(***************************************************************************)
(* Mutexes.  The client initialises a mutex once, before it uses it.       *)
(***************************************************************************)
thread_mutex_init(m) ==
    /\ Running
    /\ \/ m = NULL /\ Return("none", NULL, 0)
       \/ /\ m \in Mutex \ mutexes
          /\ locked' = [locked EXCEPT ![m] = 0]
          /\ owner' = [owner EXCEPT ![m] = -1]
          /\ mq' = [mq EXCEPT ![m] = <<>>]
          /\ mutexes' = mutexes \cup {m}
          /\ holds' = [holds EXCEPT ![m] = {}]
          /\ call' = [call EXCEPT ![self] = Idle]
          /\ UNCHANGED <<libVars, tableVars, condVars, ready_list, current_thread,
                         status, observer, process>>

Owns(m) == m \in mutexes /\ locked[m] = 1 /\ owner[m] = tid[self]

thread_mutex_lock(m) ==
    /\ Running
    /\ \/ (m = NULL \/ Owns(m)) /\ Return("none", NULL, 0)
       \/ /\ m \in mutexes /\ locked[m] = 0
          /\ locked' = [locked EXCEPT ![m] = 1]
          /\ owner' = [owner EXCEPT ![m] = tid[self]]
          /\ holds' = [holds EXCEPT ![m] = @ \cup {tid[self]}]
          /\ call' = [call EXCEPT ![self] = Idle]
          /\ UNCHANGED <<libVars, tableVars, mutexes, mq, condVars, ready_list,
                         current_thread, status, observer, process>>
       \/ /\ m \in mutexes /\ locked[m] = 1 /\ ~Owns(m)
          /\ mq' = [mq EXCEPT ![m] = Append(@, self)]
          /\ status' = Blocked(status)
          /\ Switch(Blocked(status), ready_list, holds)
          /\ call' = [call EXCEPT ![self] = Called("lock", m, 1)]
          /\ UNCHANGED <<libVars, tableVars, mutexes, locked, owner, condVars, observer>>

\* Mutant: the hand-off does not set the new owner.
ReleaseKeepsOwner(m) ==
    IF mq[m] = <<>>
    THEN locked' = [locked EXCEPT ![m] = 0] /\ UNCHANGED <<owner, mq>>
    ELSE mq' = [mq EXCEPT ![m] = Tail(@)] /\ UNCHANGED <<locked, owner>>
\* Mutant: owner is set to the TCB instead of the thread's id.
ReleaseToPointer(m) ==
    IF mq[m] = <<>>
    THEN locked' = [locked EXCEPT ![m] = 0] /\ UNCHANGED <<owner, mq>>
    ELSE /\ owner' = [owner EXCEPT ![m] = Head(mq[m])]
         /\ mq' = [mq EXCEPT ![m] = Tail(@)]
         /\ UNCHANGED locked
\* Mutant: the newest waiter is taken.
ReleaseToLast(m) ==
    IF mq[m] = <<>>
    THEN locked' = [locked EXCEPT ![m] = 0] /\ UNCHANGED <<owner, mq>>
    ELSE /\ owner' = [owner EXCEPT ![m] = tid[Last(mq[m])]]
         /\ mq' = [mq EXCEPT ![m] = Front(@)]
         /\ UNCHANGED locked
\* Mutant: the mutex is free although the first waiter was woken.
ReleaseAlwaysUnlocks(m) ==
    /\ locked' = [locked EXCEPT ![m] = 0]
    /\ mq' = [mq EXCEPT ![m] = IF @ = <<>> THEN @ ELSE Tail(@)]
    /\ UNCHANGED owner
\* thread_mutex_unlock by the owner: the mutex goes to the thread that has
\* waited longest, which becomes ready, or is free if nobody waits.
Release(m) ==
    IF mq[m] = <<>>
    THEN /\ locked' = [locked EXCEPT ![m] = 0]
         /\ UNCHANGED <<owner, mq>>
    ELSE /\ owner' = [owner EXCEPT ![m] = tid[Head(mq[m])]]
         /\ mq' = [mq EXCEPT ![m] = Tail(@)]
         /\ UNCHANGED locked

StatusAfterRelease(m) ==
    IF mq[m] = <<>> THEN status ELSE [status EXCEPT ![Head(mq[m])] = "WORKING"]

\* Mutant: the new owner is not put into the ready list.
ReadyWithoutWaiter(m) == ready_list
ReadyAfterRelease(m) ==
    IF mq[m] = <<>> THEN ready_list ELSE Append(ready_list, Head(mq[m]))

thread_mutex_unlock(m) ==
    /\ Running /\ m \in mutexes \cup {NULL}
    /\ \/ ~Owns(m) /\ Return("none", NULL, 0)
       \/ /\ Owns(m)
          /\ Release(m)
          /\ status' = StatusAfterRelease(m)
          /\ ready_list' = ReadyAfterRelease(m)
          /\ holds' = [holds EXCEPT ![m] = @ \ {tid[self]}]
          /\ call' = [call EXCEPT ![self] = Idle]
          /\ UNCHANGED <<libVars, tableVars, mutexes, condVars, current_thread,
                         observer, process>>
-----------------------------------------------------------------------------
(***************************************************************************)
(* Condition variables.  A waiter is the COND_INFO record of its thread    *)
(* and the mutex it gave up.                                               *)
(***************************************************************************)
thread_cond_init(c) ==
    /\ Running
    /\ \/ c = NULL /\ Return("none", NULL, 0)
       \/ /\ c \in Cond \ conds
          /\ cq' = [cq EXCEPT ![c] = <<>>]
          /\ conds' = conds \cup {c}
          /\ call' = [call EXCEPT ![self] = Idle]
          /\ UNCHANGED <<libVars, tableVars, mutexVars, ready_list, current_thread,
                         status, observer, process, holds>>

thread_cond_wait(c, m) ==
    /\ Running /\ c \in conds \cup {NULL} /\ m \in mutexes \cup {NULL}
    /\ \/ (c = NULL \/ ~Owns(m)) /\ Return("none", NULL, 0)
       \/ /\ c # NULL /\ Owns(m)
          /\ Release(m)
          /\ cq' = [cq EXCEPT ![c] = Append(@, [thread |-> self, mutex |-> m])]
          /\ status' = Blocked(StatusAfterRelease(m))
          /\ Switch(Blocked(StatusAfterRelease(m)), ReadyAfterRelease(m),
                    [holds EXCEPT ![m] = @ \ {tid[self]}])
          /\ call' = [call EXCEPT ![self] = Called("wait", m, 1)]
          /\ UNCHANGED <<libVars, tableVars, mutexes, conds, observer>>

\* The first waiter gets its mutex if that is free and becomes ready, or
\* goes on waiting in the queue of the mutex.
thread_cond_signal(c) ==
    /\ Running
    /\ \/ (c = NULL \/ (c \in conds /\ cq[c] = <<>>)) /\ Return("none", NULL, 0)
       \/ /\ c \in conds /\ cq[c] # <<>>
          /\ cq' = [cq EXCEPT ![c] = Tail(@)]
          /\ call' = [call EXCEPT ![self] = Idle]
          /\ LET w == Head(cq[c])
             IN \/ /\ locked[w.mutex] = 0
                   /\ locked' = [locked EXCEPT ![w.mutex] = 1]
                   /\ owner' = [owner EXCEPT ![w.mutex] = tid[w.thread]]
                   /\ status' = [status EXCEPT ![w.thread] = "WORKING"]
                   /\ ready_list' = Append(ready_list, w.thread)
                   /\ UNCHANGED mq
                \/ /\ locked[w.mutex] = 1
                   /\ mq' = [mq EXCEPT ![w.mutex] = Append(@, w.thread)]
                   /\ UNCHANGED <<locked, owner, status, ready_list>>
          /\ UNCHANGED <<libVars, tableVars, mutexes, conds, current_thread,
                         observer, process, holds>>
-----------------------------------------------------------------------------
(***************************************************************************)
(* The end of a thread, and of the library.  A terminating thread still    *)
(* runs on its own stack, so it frees the previous terminated thread and   *)
(* leaves itself in next_to_destroy.                                       *)
(***************************************************************************)
\* Mutant: the handle in the freed chunk is not cleared.
DestroyKeepsHandle(gone) ==
    /\ allocated' = allocated \ gone
    /\ all_threads' = all_threads \ gone
    /\ UNCHANGED handle
\* Mutant: the TCB leaves the table but is not freed.
DestroyLeaks(gone) ==
    /\ all_threads' = all_threads \ gone
    /\ handle' = [t \in Tcb |-> IF t \in gone THEN 0 ELSE handle[t]]
    /\ UNCHANGED allocated
\* destroy_thread on every thread of gone: out of the table, which clears
\* the handle, and its memory freed.
destroy_thread(gone) ==
    /\ allocated' = allocated \ gone
    /\ all_threads' = all_threads \ gone
    /\ handle' = [t \in Tcb |-> IF t \in gone THEN 0 ELSE handle[t]]

\* Mutant: a terminating thread destroys itself at once.
DestroyMyself == self
\* The thread a terminating thread destroys.
ToDestroy == next_to_destroy

thread_terminate ==
    /\ Running /\ tid[self] # 0
    /\ LET o  == observer[self]
           st == IF o = NULL THEN [status EXCEPT ![self] = "DONE"]
                 ELSE [status EXCEPT ![self] = "DONE", ![o] = "WORKING"]
           rl == IF o = NULL THEN ready_list ELSE Append(ready_list, o)
       IN \/ (o = Garbage \/ ToDestroy \notin allocated \cup {NULL}) /\ Crash
          \/ /\ o # Garbage /\ ToDestroy \in allocated \cup {NULL}
             /\ status' = st
             /\ observer' = [observer EXCEPT ![self] = NULL]
             /\ destroy_thread({ToDestroy})
             /\ next_to_destroy' = self
             /\ Switch(st, rl, holds)
             /\ call' = [call EXCEPT ![self] = Idle]
             /\ UNCHANGED <<ready, inits, max_id, tid, mutexVars, condVars>>

\* thread_cleanup frees every thread in the table, the queues of every
\* mutex and condition variable, and the library's own structures.
thread_cleanup ==
    /\ Running
    /\ \/ tid[self] # 0 /\ Return("none", NULL, 0)
       \/ /\ tid[self] = 0
          /\ destroy_thread(all_threads)
          /\ ready_list' = <<>> /\ mutexes' = {} /\ conds' = {}
          /\ ready' = 0
          /\ UNCHANGED <<inits, next_to_destroy, max_id, tid, locked, owner, mq, cq,
                         current_thread, status, observer, process, call, holds>>

\* The process has ended, or the client uses the library no more.
Exited ==
    /\ process # "running" \/ (ready = 0 /\ inits = MaxInits)
    /\ UNCHANGED vars

Next ==
    \/ \E a \in Tcb : lib_init(a) \/ thread_create(a)
    \/ thread_yield
    \/ \E k \in 0 .. max_id : thread_join(k)
    \/ \E m \in Mutex \cup {NULL} :
        \/ thread_mutex_init(m)
        \/ thread_mutex_lock(m)
        \/ thread_mutex_unlock(m)
        \/ \E c \in Cond \cup {NULL} : thread_cond_wait(c, m)
    \/ \E c \in Cond \cup {NULL} : thread_cond_init(c) \/ thread_cond_signal(c)
    \/ thread_terminate
    \/ thread_cleanup
    \/ Exited

Spec == Init /\ [][Next]_vars

\* The running thread goes on to yield: the client's part of the bargain in
\* a cooperative scheduler.
FairSpec == Spec /\ WF_vars(thread_yield)
-----------------------------------------------------------------------------
(***************************************************************************)
(* Properties.                                                             *)
(***************************************************************************)
\* The values the variables take; while the library is ready there is a
\* current thread, and a thread blocked in a mutex call names its mutex.
TypeOK ==
    /\ ready \in {0, 1} /\ inits \in 0 .. MaxInits
    /\ next_to_destroy \in Tcb \cup {NULL}
    /\ all_threads \subseteq Tcb /\ allocated \subseteq Tcb
    /\ max_id \in 0 .. MaxId
    /\ tid \in [Tcb -> 0 .. MaxId] /\ handle \in [Tcb -> {0, 1}]
    /\ mutexes \subseteq Mutex /\ conds \subseteq Cond
    /\ locked \in [Mutex -> {0, 1}] /\ owner \in [Mutex -> -1 .. MaxId]
    /\ mq \in [Mutex -> Seq(Tcb)]
    /\ cq \in [Cond -> Seq([thread : Tcb, mutex : Mutex])]
    /\ ready_list \in Seq(Tcb)
    /\ current_thread \in Tcb \cup {NULL}
    /\ ready = 1 => current_thread \in Tcb
    /\ status \in [Tcb -> {"WORKING", "WAITING", "DONE"}]
    /\ observer \in [Tcb -> Tcb \cup {NULL, Garbage}]
    /\ process \in {"running", "deadlock", "crash"}
    /\ call \in [Tcb -> [op : {"none", "join", "lock", "wait"},
                         arg : Nat \cup Mutex \cup {NULL},
                         ret : -3 .. 1]]
    /\ \A t \in Tcb : call[t].op \in {"lock", "wait"} => call[t].arg \in Mutex
    /\ holds \in [Mutex -> SUBSET (0 .. MaxId)]

\* The threads that have not terminated.
Live == {t \in all_threads : status[t] # "DONE"}

\* Where thread t is: running, in the ready list, observer of a thread it
\* joins, or in the queue of a mutex or of a condition variable.
Places(t) ==
    {<<"running", r>> : r \in {current_thread} \cap {t}}
    \cup {<<"ready", i>> : i \in {j \in DOMAIN ready_list : ready_list[j] = t}}
    \cup {<<"join", u>> : u \in {v \in Live : observer[v] = t}}
    \cup (UNION {{<<"mutex", m, i>> : i \in {j \in DOMAIN mq[m] : mq[m][j] = t}}
                  : m \in mutexes})
    \cup (UNION {{<<"cond", c, i>> : i \in {j \in DOMAIN cq[c] : cq[c][j].thread = t}}
                  : c \in conds})

\* No thread is lost and none is in two places: each live thread is in one
\* place, it is WORKING exactly when the scheduler can reach it, and no
\* queue, observer or current_thread points to a finished or freed thread.
ThreadPlacement ==
    Running =>
        /\ \A t \in Live :
            /\ \E p \in Places(t) : Places(t) = {p}
            /\ (status[t] = "WORKING") <=> (t = current_thread \/ t \in ToSet(ready_list))
        /\ \A t \in Tcb \ Live : Places(t) = {}

\* At most one thread has been told it holds a mutex, and that is the owner:
\* a thread that comes back from a blocked thread_mutex_lock or
\* thread_cond_wait really was handed the mutex in the meantime.
MutualExclusion ==
    Running => \A m \in mutexes : \A k \in holds[m] : locked[m] = 1 /\ owner[m] = k

\* Nobody is left waiting for a free mutex, and the owner of a mutex is not
\* in its own queue.
MutexQueueSound ==
    Running => \A m \in mutexes :
        mq[m] # <<>> => locked[m] = 1 /\ \A t \in ToSet(mq[m]) : tid[t] # owner[m]

\* The thread that waits in thread_join for u to terminate.
Joiner(u) == {t \in Tcb : u \in Live /\ observer[u] = t}

\* The threads that wait in thread_join, possibly through others, for x to
\* terminate: what every set contains that is closed under Joiner.  The
\* reference for detect_deadlock.
HeldUpBy(x) ==
    {y \in Tcb : \A set \in SUBSET Tcb :
        (\A u \in set \cup {x} : Joiner(u) \subseteq set) => y \in set}

\* Threads never wait for each other in a circle of thread_joins.
JoinAcyclic == Running => \A t \in Tcb : t \notin HeldUpBy(t)

\* In every state, for every thread t that the running thread may join,
\* detect_deadlock reports a cycle exactly if t waits for the running thread.
DetectionExact ==
    Running => \A t \in Live \ {current_thread} :
        observer[t] = NULL =>
            (detect_deadlock([observer EXCEPT ![t] = current_thread])
                <=> t \in HeldUpBy(current_thread))

\* A thread_join that returns 0 returns after its target has terminated.
JoinedIsDone ==
    Running /\ call[self].op = "join" /\ call[self].ret = 0 =>
        \A t \in Live : tid[t] # call[self].arg

\* From a clean heap, within one use of the library, no dangling pointer is
\* followed: a chunk that is reused for a new thread has neither an observer
\* nor a handle of its former thread.
NoCrash == process # "crash"

\* The table lists exactly the TCBs in memory, with different ids, at most
\* one finished thread waits to be destroyed, and cleanup leaves nothing.
HeapAccounted ==
    /\ allocated = all_threads
    /\ ready = 0 => allocated = {}
    /\ \A t, u \in all_threads : tid[t] = tid[u] => t = u
    /\ \A t \in all_threads : tid[t] < max_id
    /\ Running => all_threads \ Live = {next_to_destroy} \ {NULL}

\* The "deadlock - no threads available to work" exit is taken only when
\* every thread that has not terminated is blocked.
DeadlockIsReal == process = "deadlock" => \A t \in Live : status[t] = "WAITING"

\* The ready list is served in order: the next thread to run is its first,
\* and nobody who comes later gets in front of those already in it.
SchedulingIsFifo ==
    [][Running /\ Running' =>
        \/ current_thread' = current_thread /\ IsPrefix(ready_list, ready_list')
        \/ ready_list = <<>>
        \/ /\ ready_list # <<>>
           /\ current_thread' = Head(ready_list)
           /\ IsPrefix(Tail(ready_list), ready_list')]_vars

\* A mutex that is waited for passes to the thread that has waited longest,
\* and it is never free in between, so nobody can slip in.
HandoffIsFifo ==
    [][Running /\ Running' => \A m \in mutexes :
        mq[m] # <<>> =>
            /\ locked'[m] = 1
            /\ \/ owner'[m] = owner[m] /\ IsPrefix(mq[m], mq'[m])
               \/ owner'[m] = tid[Head(mq[m])] /\ IsPrefix(Tail(mq[m]), mq'[m])]_vars

\* While the library is in use, memory is freed only of threads that have
\* terminated earlier, never of one that still needs its stack: the
\* destruction of a thread is deferred to the next termination.
DeferredDestruction ==
    [][Running /\ ready' = 1 => \A t \in allocated \ allocated' : status[t] = "DONE"]_vars

\* Round robin: a thread in the ready list gets to run, unless the process
\* ends or the parent cleans up.
RoundRobin ==
    \A t \in Tcb : t \in ToSet(ready_list) ~> (t = current_thread \/ ~Running)

\* thread_join keeps the threads from waiting for each other in a circle, and
\* refuses no other join: the two pointers of detect_deadlock, which walk the
\* observers at different speeds, meet exactly in the circles.
JoinsSound == JoinAcyclic /\ DetectionExact
=============================================================================
