---------------------------- MODULE ThreadTests ----------------------------
(***************************************************************************)
(* The drivers A3/test1.c ... test7.c and test11.c on top of the threads   *)
(* library.  A driver is the instructions of its functions: library calls  *)
(* and what it shows.  Each step is one call of the running thread, with   *)
(* the whole effect it has in module Threads; malloc takes some free chunk.*)
(***************************************************************************)
EXTENDS Threads

CONSTANTS
    Tests,        \* the drivers
    Lock1, Lock2, Condition,
    Joiners,      \* length of the chain of joins in test2; 5 in the driver
    Workers,      \* THREADS of test4; 10 in the driver
    Rounds        \* the rounds of a worker in test4, 100, and of test11, 1000000

VARIABLES
    test,
    function,     \* the function of each thread, by id
    ip,           \* the next instruction of each thread, by id
    shown,        \* what was written, in order
    counter, num  \* the shared counter, and the thread's copy of it

testVars == <<test, function, ip, shown, counter, num>>

Repeat(s, n) == FlattenSeq([k \in 1 .. n |-> s])
-----------------------------------------------------------------------------
status_(part) == <<"show", part>>
Wrong == 99       \* what a driver says should not be shown
call_(op, arg) == <<op, arg>>
yield_ == <<"yield", 0>>
cleanup_ == <<"cleanup", 0>>
joined(k) == << <<"join", k>>, <<"result", 0>> >>

test1 == [ main    |-> << call_("create", "thread1"), status_(0), yield_, status_(2), cleanup_ >>,
           thread1 |-> << status_(1), yield_, status_(Wrong) >> ]

test2 == [ main    |-> << call_("create", "thread1"), call_("create", "thread2"), call_("create", "thread3"),
                          status_(0) >> \o joined(1) \o << status_(6) >> \o joined(-1) \o joined(0)
                       \o << call_("create", "dlock") >> \o joined(4)
                       \o << call_("create", "dlock") >>
                       \o [k \in 1 .. Joiners |-> call_("create", "dlock2")] \o joined(5 + Joiners) \o << cleanup_ >>,
           thread1 |-> << status_(1), call_("join", 2), status_(5) >>,
           thread2 |-> << status_(2), call_("join", 3), status_(4) >>,
           thread3 |-> << status_(3) >>,
           dlock   |-> joined(0),
           dlock2  |-> << <<"join-previous", 0>>, <<"result", 0>> >> ]

test3 == [ main    |-> << call_("create", "thread1"), status_(0), yield_, yield_, status_(2), cleanup_ >>,
           thread1 |-> << status_(1) >> ]

test4 == [ main |-> << call_("mutex_init", Lock1) >>
                    \o [k \in 1 .. Workers |-> call_("create", "work")]
                    \o [k \in 1 .. Workers |-> call_("join", k)]
                    \o << <<"show-counter", 0>>, cleanup_ >>,
           work |-> Repeat(<< call_("lock", Lock1), <<"read", 0>>, <<"may-yield", 0>>, <<"write", 0>>,
                              call_("unlock", Lock1), <<"may-yield", 0>> >>, Rounds) ]

test5 == [ main    |-> << call_("create", "first"), call_("create", "second"), call_("mutex_init", Lock1),
                          status_(0), call_("join", 1), call_("join", 2), status_(Wrong) >>,
           first   |-> << status_(1), call_("lock", Lock1), status_(2), yield_ >>,
           second  |-> << status_(3), call_("lock", Lock1), status_(Wrong), yield_ >> ]

test6 == [ main    |-> << call_("mutex_init", Lock1), call_("mutex_init", Lock2),
                          call_("create", "thread2"), call_("create", "thread1"),
                          call_("create", "thread3"), call_("lock", Lock2), status_(0) >>
                       \o joined(2) \o joined(1) \o joined(3) \o << call_("unlock", Lock2), cleanup_ >>,
           thread1 |-> << call_("lock", Lock1), status_(Wrong), call_("unlock", Lock1) >>,
           thread2 |-> << call_("lock", Lock1), call_("join", 3), call_("unlock", Lock1), status_(Wrong) >>,
           thread3 |-> << call_("lock", Lock2), status_(Wrong), call_("unlock", Lock2) >> ]

test7 == [ main    |-> << call_("mutex_init", Lock1), call_("cond_init", Condition),
                          call_("create", "thread1"), call_("create", "thread2"),
                          call_("create", "thread3"), status_(0), call_("join", 2), call_("join", 3),
                          status_(6), call_("signal", Condition), call_("join", 1), status_(8), cleanup_ >>,
           thread1 |-> << call_("lock", Lock1), status_(1), call_("wait", Condition), status_(7) >>,
           thread2 |-> << status_(2), yield_, status_(5) >>,
           thread3 |-> << call_("lock", Lock1), status_(3), call_("unlock", Lock1), status_(4) >> ]

test11 == [ main    |-> FlattenSeq([k \in 1 .. Rounds |->
                            << call_("create", "thread1") >> \o (IF k % 2 = 0 THEN << yield_ >> ELSE <<>>)
                            \o joined(k)]) \o << <<"show-counter", 0>> >>,
            thread1 |-> << <<"read", 0>>, <<"write", 0>> >> ]

Driver(t) == CASE t = "test1" -> test1 [] t = "test2" -> test2 [] t = "test3" -> test3
               [] t = "test4" -> test4 [] t = "test5" -> test5 [] t = "test6" -> test6
               [] t = "test7" -> test7 [] t = "test11" -> test11
-----------------------------------------------------------------------------
TestInit ==
    /\ Init
    /\ test \in Tests
    /\ function = [k \in 0 .. MaxId |-> "main"] /\ ip = [k \in 0 .. MaxId |-> 1]
    /\ shown = <<>> /\ counter = 0 /\ num = [k \in 0 .. MaxId |-> 0]

\* The first library call starts the library.
Chunk == CHOOSE a \in Tcb : a \notin allocated
Start == inits = 0 /\ lib_init(Chunk) /\ UNCHANGED testVars

me == tid[self]
Body == Driver(test)[function[me]]
Done == ip[me] > Len(Body)
At(op) == inits > 0 /\ process = "running" /\ ~Done /\ Body[ip[me]][1] = op
Arg == Body[ip[me]][2]
Advance == ip' = [ip EXCEPT ![me] = @ + 1] /\ UNCHANGED test

Create ==
    /\ At("create") /\ thread_create(Chunk) /\ Advance
    /\ function' = [function EXCEPT ![max_id] = Arg]
    /\ UNCHANGED <<shown, counter, num>>

Call ==
    /\ \/ At("yield") /\ thread_yield
       \/ At("may-yield") /\ (thread_yield \/ UNCHANGED vars)
       \/ At("join") /\ thread_join(Arg)
       \/ At("join-previous") /\ thread_join(me - 1)
       \/ At("mutex_init") /\ thread_mutex_init(Arg)
       \/ At("cond_init") /\ thread_cond_init(Arg)
       \/ At("lock") /\ thread_mutex_lock(Arg)
       \/ At("unlock") /\ thread_mutex_unlock(Arg)
       \/ At("wait") /\ thread_cond_wait(Arg, Lock1)
       \/ At("signal") /\ thread_cond_signal(Arg)
       \/ At("cleanup") /\ thread_cleanup
    /\ Advance
    /\ UNCHANGED <<function, shown, counter, num>>

Local ==
    /\ \/ At("show") /\ shown' = Append(shown, Arg) /\ UNCHANGED <<counter, num>>
       \/ At("result") /\ shown' = Append(shown, call[self].ret) /\ UNCHANGED <<counter, num>>
       \/ At("show-counter") /\ shown' = Append(shown, counter) /\ UNCHANGED <<counter, num>>
       \/ At("read") /\ num' = [num EXCEPT ![me] = counter] /\ UNCHANGED <<shown, counter>>
       \/ At("write") /\ counter' = num[me] + 1 /\ UNCHANGED <<shown, num>>
    /\ Advance
    /\ UNCHANGED <<vars, function>>

\* The function of a thread returns; when main returns the process ends.
Terminate ==
    /\ inits > 0 /\ Done /\ thread_terminate /\ UNCHANGED testVars

MainReturned == inits > 0 /\ process = "running" /\ me = 0 /\ Done
TestExited == (process # "running" \/ MainReturned) /\ UNCHANGED <<vars, testVars>>

TestNext == Start \/ Create \/ Call \/ Local \/ Terminate
TestSpec == /\ TestInit /\ [][TestNext \/ TestExited]_<<vars, testVars>>
            /\ WF_<<vars, testVars>>(TestNext)
-----------------------------------------------------------------------------
Count(n) == [k \in 1 .. n |-> k - 1]

\* What each driver announces: its parts in their order; test2 also the results
\* of the joins in its deadlocks; test4 and test11 that no increment is lost.
Announced ==
    CASE test = "test1"  -> Count(3)
      [] test = "test2"  -> Count(6) \o <<0, 6, -3, -1, -1, 0, -1, 0>>
      [] test = "test3"  -> Count(3)
      [] test = "test4"  -> <<Workers * Rounds>>
      [] test = "test5"  -> Count(4)
      [] test = "test6"  -> <<0>>
      [] test = "test7"  -> Count(9)
      [] test = "test11" -> Append([k \in 1 .. Rounds |-> 0], Rounds)

\* A driver never shows anything but what it announces, in that order: in
\* particular not "error if program gets here" and "should not print".
ShownAsAnnounced == IsPrefix(shown, Announced)

\* Every driver comes to its end having shown all of it: test5 ("Create mutex
\* deadlock"), where a thread terminates with the mutex locked, and test6 by the
\* deadlock exit, the others by returning from main.
EndsAsAnnounced ==
    <>(/\ shown = Announced
       /\ IF test \in {"test5", "test6"} THEN process = "deadlock" ELSE MainReturned)

\* However the threads of test4 interleave, the counter is what the finished
\* rounds have added: between its read and its write no other thread gets in.
NoLostUpdate ==
    test = "test4" /\ At("write") => num[me] = counter

\* What the drivers print and count is right however their threads interleave.
OutputRight == ShownAsAnnounced /\ NoLostUpdate
=============================================================================
