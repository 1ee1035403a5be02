------------------------ MODULE ThreadsSafetyProofs ------------------------
(***************************************************************************)
(* The threads library for any number of threads, mutexes and condition    *)
(* variables: its types, and the invariant of ThreadsInvariant, which is   *)
(* inductive.                                                              *)
(***************************************************************************)
EXTENDS ThreadsInvariant, SequenceTheorems, TLAPS

Status == {"WORKING", "WAITING", "DONE"}
History == [Mutex -> SUBSET (0 .. MaxId)]
CallRecord == [op : {"none", "join", "lock", "wait"},
               arg : Nat \cup Mutex \cup {NULL}, ret : -3 .. 1]

\* A context switch keeps the types of what it writes.
LEMMA SwitchType ==
    ASSUME TypeOK, Running, NEW st \in [Tcb -> Status], NEW rl \in Seq(Tcb),
           NEW hd \in History, Switch(st, rl, hd)
    PROVE  /\ ready_list' \in Seq(Tcb)
           /\ current_thread' \in Tcb
           /\ process' \in {"running", "deadlock", "crash"}
           /\ holds' \in History
<1>0. self \in Tcb BY DEF TypeOK, Running, self
<1>1. CASE /\ Workable(st, rl) = {}
           /\ ready_list' = <<>>
           /\ process' = IF st[self] = "WORKING" THEN "running" ELSE "deadlock"
           /\ holds' = hd
           /\ UNCHANGED current_thread
  BY <1>0, <1>1 DEF self
<1>2. ASSUME NEW i \in Workable(st, rl),
             current_thread' = rl[i],
             ready_list' = Requeue(st, SubSeq(rl, i + 1, Len(rl))),
             holds' = Resume(hd, rl[i]),
             UNCHANGED process
      PROVE  /\ ready_list' \in Seq(Tcb)
             /\ current_thread' \in Tcb
             /\ process' \in {"running", "deadlock", "crash"}
             /\ holds' \in History
  <2>1. i \in 1 .. Len(rl) /\ Len(rl) \in Nat /\ rl[i] \in Tcb
    BY <1>2 DEF Workable
  <2>2. SubSeq(rl, i + 1, Len(rl)) \in Seq(Tcb)
    <3>1. \A j \in i + 1 .. Len(rl) : rl[j] \in Tcb BY <2>1
    <3> QED BY <2>1, <3>1, SubSeqProperties
  <2>3. ready_list' \in Seq(Tcb)
    BY <1>0, <1>2, <2>2 DEF Requeue
  <2>4. holds' \in History
    <3>1. tid[rl[i]] \in 0 .. MaxId BY <2>1 DEF TypeOK
    <3>2. CASE call[rl[i]].op \in {"lock", "wait"}
      <4>1. call[rl[i]].arg \in Mutex BY <2>1, <3>2 DEF TypeOK
      <4> QED BY <1>2, <3>1, <3>2, <4>1 DEF Resume, History
    <3>3. CASE call[rl[i]].op \notin {"lock", "wait"}
      BY <1>2, <3>3 DEF Resume
    <3> QED BY <3>2, <3>3
  <2> QED BY <1>2, <2>1, <2>3, <2>4 DEF TypeOK
<1> QED BY <1>1, <1>2 DEF Switch

\* The record of a call that the running thread makes has the right type.
CallOK == /\ call \in [Tcb -> CallRecord]
          /\ \A t \in Tcb : call[t].op \in {"lock", "wait"} => call[t].arg \in Mutex

\* What a thread is recorded to be in is a library call.
LEMMA CallType ==
    ASSUME TypeOK, Running,
           NEW op \in {"none", "join", "lock", "wait"},
           NEW arg \in Nat \cup Mutex \cup {NULL}, NEW ret \in -3 .. 1,
           op \in {"lock", "wait"} => arg \in Mutex,
           call' = [call EXCEPT ![self] = Called(op, arg, ret)]
    PROVE  CallOK'
<1>1. current_thread \in Tcb BY DEF TypeOK, Running
<1>2. Called(op, arg, ret) \in CallRecord BY DEF Called, CallRecord
<1>3. call' \in [Tcb -> CallRecord] BY <1>1, <1>2 DEF TypeOK, self, CallRecord
<1>4. \A t \in Tcb : call'[t].op \in {"lock", "wait"} => call'[t].arg \in Mutex
  BY <1>1 DEF Called, TypeOK, self
<1> QED BY <1>3, <1>4 DEF CallOK

\* ... for a call that returned nothing of interest,
LEMMA IdleType ==
    ASSUME TypeOK, Running, call' = [call EXCEPT ![self] = Idle]
    PROVE  CallOK'
<1>1. call' = [call EXCEPT ![self] = Called("none", NULL, 0)] BY DEF Idle
<1>2. 0 \in -3 .. 1 OBVIOUS
<1> QED BY <1>1, <1>2, CallType

\* ... for a thread_join that gives up the processor,
LEMMA JoinCallType ==
    ASSUME TypeOK, Running, NEW k \in Nat,
           call' = [call EXCEPT ![self] = Called("join", k, 0)]
    PROVE  CallOK'
<1>1. 0 \in -3 .. 1 /\ k \in Nat \cup Mutex \cup {NULL} OBVIOUS
<1> QED BY <1>1, CallType

\* ... and for a call that waits for a mutex.
LEMMA MutexCallType ==
    ASSUME TypeOK, Running, NEW m \in Mutex, NEW op \in {"lock", "wait"},
           call' = [call EXCEPT ![self] = Called(op, m, 1)]
    PROVE  CallOK'
<1>1. 1 \in -3 .. 1 /\ m \in Nat \cup Mutex \cup {NULL} OBVIOUS
<1>2. op \in {"none", "join", "lock", "wait"} OBVIOUS
<1> QED BY <1>1, <1>2, CallType

\* A call that returns at once keeps the types,
LEMMA ReturnType ==
    ASSUME TypeOK, Running, NEW op \in {"none", "join"},
           NEW arg \in Nat \cup {NULL}, NEW ret \in -3 .. 1, Return(op, arg, ret)
    PROVE  TypeOK'
<1>1. CallOK' BY CallType DEF Return
<1> QED
  BY <1>1 DEF TypeOK, Return, CallOK, CallRecord, libVars, tableVars, mutexVars, condVars

\* ... also if it returns nothing.
LEMMA ReturnNothing == TypeOK /\ Running /\ Return("none", NULL, 0) => TypeOK'
<1>1. 0 \in -3 .. 1 OBVIOUS
<1>2. "none" \in {"none", "join"} /\ NULL \in Nat \cup {NULL} OBVIOUS
<1> QED BY <1>1, <1>2, ReturnType

\* A crash keeps the types.
LEMMA CrashType == TypeOK /\ Crash => TypeOK'
BY DEF TypeOK, Crash, libVars, tableVars, mutexVars, condVars

\* Releasing a mutex keeps the types.
LEMMA ReleaseType ==
    ASSUME TypeOK, NEW m \in Mutex, Release(m)
    PROVE  /\ locked' \in [Mutex -> {0, 1}]
           /\ owner' \in [Mutex -> -1 .. MaxId]
           /\ mq' \in [Mutex -> Seq(Tcb)]
           /\ StatusAfterRelease(m) \in [Tcb -> Status]
           /\ ReadyAfterRelease(m) \in Seq(Tcb)
<1>1. CASE mq[m] = <<>>
  BY <1>1 DEF TypeOK, Release, StatusAfterRelease, ReadyAfterRelease, Status
<1>2. CASE mq[m] # <<>>
  <2>1. mq[m] \in Seq(Tcb) BY DEF TypeOK
  <2>2. Head(mq[m]) \in Tcb /\ Tail(mq[m]) \in Seq(Tcb) BY <1>2, <2>1, HeadTailProperties
  <2>3. tid[Head(mq[m])] \in -1 .. MaxId BY <2>2 DEF TypeOK
  <2>4. locked' \in [Mutex -> {0, 1}] BY <1>2 DEF TypeOK, Release
  <2>5. owner' \in [Mutex -> -1 .. MaxId] BY <1>2, <2>3 DEF TypeOK, Release
  <2>6. mq' \in [Mutex -> Seq(Tcb)] BY <1>2, <2>2 DEF TypeOK, Release
  <2>7. StatusAfterRelease(m) \in [Tcb -> Status]
    BY <1>2, <2>2 DEF TypeOK, StatusAfterRelease, Status
  <2>8. ReadyAfterRelease(m) \in Seq(Tcb)
    BY <1>2, <2>2 DEF TypeOK, ReadyAfterRelease
  <2> QED BY <2>4, <2>5, <2>6, <2>7, <2>8
<1> QED BY <1>1, <1>2

\* A new thread in chunk a keeps the types of the heap and the table.
LEMMA NewThreadType ==
    ASSUME TypeOK, NEW a \in Tcb, NEW id \in 0 .. MaxId - 1, NEW table \in SUBSET Tcb,
           NewThread(a, id, table)
    PROVE  /\ allocated' \in SUBSET Tcb /\ all_threads' \in SUBSET Tcb
           /\ status' \in [Tcb -> Status]
           /\ tid' \in [Tcb -> 0 .. MaxId] /\ max_id' \in 0 .. MaxId
           /\ handle' \in [Tcb -> {0, 1}]
           /\ process' \in {"running", "crash"}
BY ConstantsAssumption DEF TypeOK, NewThread, Status

\* The initial states have the types.
LEMMA InitType == Init => TypeOK
BY ConstantsAssumption
DEF Init, TypeOK, Idle, Called

\* init() keeps the types.
LEMMA LibInitType ==
    ASSUME TypeOK, NEW a \in Tcb, lib_init(a)
    PROVE  TypeOK'
<1>1. 0 \in 0 .. MaxId - 1 BY ConstantsAssumption
<1>2. NewThread(a, 0, {}) BY DEF lib_init
<1>3. /\ allocated' \in SUBSET Tcb /\ all_threads' \in SUBSET Tcb
      /\ status' \in [Tcb -> Status]
      /\ tid' \in [Tcb -> 0 .. MaxId] /\ max_id' \in 0 .. MaxId
      /\ handle' \in [Tcb -> {0, 1}]
      /\ process' \in {"running", "crash"}
  BY <1>1, <1>2, NewThreadType
<1>4. /\ call' \in [Tcb -> CallRecord]
      /\ \A t \in Tcb : call'[t].op \in {"lock", "wait"} => call'[t].arg \in Mutex
  BY DEF lib_init, TypeOK, Idle, Called, CallRecord
<1>5. inits' \in 0 .. MaxInits BY ConstantsAssumption DEF lib_init, TypeOK
<1>6. ready_list' \in Seq(Tcb) BY EmptySeq DEF lib_init
<1> QED
  BY <1>3, <1>4, <1>5, <1>6 DEF TypeOK, lib_init, Status, CallRecord

\* thread_create keeps the types.
LEMMA CreateType ==
    ASSUME TypeOK, NEW a \in Tcb, thread_create(a)
    PROVE  TypeOK'
<1>0. Running /\ current_thread \in Tcb BY DEF thread_create, Running, TypeOK
<1>1. max_id \in 0 .. MaxId - 1 BY ConstantsAssumption DEF TypeOK, thread_create
<1>2. NewThread(a, max_id, all_threads) /\ all_threads \in SUBSET Tcb
  BY DEF thread_create, TypeOK
<1>3. /\ allocated' \in SUBSET Tcb /\ all_threads' \in SUBSET Tcb
      /\ status' \in [Tcb -> Status]
      /\ tid' \in [Tcb -> 0 .. MaxId] /\ max_id' \in 0 .. MaxId
      /\ handle' \in [Tcb -> {0, 1}]
      /\ process' \in {"running", "crash"}
  BY <1>1, <1>2, NewThreadType
<1>4. /\ call' \in [Tcb -> CallRecord]
      /\ \A t \in Tcb : call'[t].op \in {"lock", "wait"} => call'[t].arg \in Mutex
  <2>1. call' = [call EXCEPT ![self] = Idle, ![a] = Idle] BY DEF thread_create
  <2>2. Idle \in CallRecord /\ Idle.op = "none" BY DEF Idle, Called, CallRecord
  <2>3. call \in [Tcb -> CallRecord] BY DEF TypeOK, CallRecord
  <2>4. \A t \in Tcb : call'[t] = Idle \/ call'[t] = call[t] BY <1>0, <2>1, <2>3 DEF self
  <2>5. call' \in [Tcb -> CallRecord] BY <1>0, <2>1, <2>2, <2>3 DEF self
  <2> QED BY <2>2, <2>4, <2>5 DEF TypeOK
<1>5. ready_list' \in Seq(Tcb) BY DEF thread_create, TypeOK
<1> QED
  BY <1>3, <1>4, <1>5 DEF TypeOK, thread_create, Status, CallRecord, libVars, mutexVars, condVars

\* thread_yield keeps the types.
LEMMA YieldType == TypeOK /\ thread_yield => TypeOK'
<1> SUFFICES ASSUME TypeOK, thread_yield PROVE TypeOK' OBVIOUS
<1>1. Running BY DEF thread_yield
<1>2. status \in [Tcb -> Status] /\ ready_list \in Seq(Tcb) /\ holds \in History
  BY DEF TypeOK, Status, History
<1>3. /\ ready_list' \in Seq(Tcb) /\ current_thread' \in Tcb
      /\ process' \in {"running", "deadlock", "crash"} /\ holds' \in History
  BY <1>1, <1>2, SwitchType DEF thread_yield
<1>4. CallOK' BY <1>1, IdleType DEF thread_yield
<1> QED
  BY <1>3, <1>4 DEF TypeOK, thread_yield, CallOK, CallRecord, History,
                    libVars, tableVars, mutexVars, condVars

\* thread_join keeps the types.
LEMMA JoinType ==
    ASSUME TypeOK, NEW k \in 0 .. max_id, thread_join(k)
    PROVE  TypeOK'
<1>0. Running /\ current_thread \in Tcb /\ k \in Nat BY DEF thread_join, Running, TypeOK
<1>1. status \in [Tcb -> Status] /\ ready_list \in Seq(Tcb) /\ holds \in History
  BY DEF TypeOK, Status, History
<1>2. ASSUME NEW r \in -3 .. 1, Return("join", k, r) PROVE TypeOK'
  BY <1>0, <1>2, ReturnType
<1>3. CASE Crash BY <1>3, CrashType
<1>4. ASSUME NEW st \in [Tcb -> Status], Switch(st, ready_list, holds),
             status' = st, observer' \in [Tcb -> Tcb \cup {NULL, Garbage}],
             call' = [call EXCEPT ![self] = Called("join", k, 0)],
             UNCHANGED <<libVars, tableVars, mutexVars, condVars>>
      PROVE  TypeOK'
  <2>1. /\ ready_list' \in Seq(Tcb) /\ current_thread' \in Tcb
        /\ process' \in {"running", "deadlock", "crash"} /\ holds' \in History
    BY <1>0, <1>1, <1>4, SwitchType
  <2>2. CallOK' BY <1>0, <1>4, JoinCallType
  <2> QED
    BY <1>4, <2>1, <2>2 DEF TypeOK, CallOK, CallRecord, History, Status,
                            libVars, tableVars, mutexVars, condVars
<1>5. Blocked(status) \in [Tcb -> Status] BY <1>0 DEF Blocked, TypeOK, Status
<1>6. \A t \in Tcb : [observer EXCEPT ![t] = self] \in [Tcb -> Tcb \cup {NULL, Garbage}]
  BY <1>0 DEF TypeOK, self
<1>7. \A t \in all_threads : t \in Tcb BY DEF TypeOK
<1>8. CASE Return("join", k, -1) \/ Return("join", k, -2) \/ Return("join", k, -3)
  BY <1>2, <1>8
<1>9. CASE /\ Switch(status, ready_list, holds)
           /\ call' = [call EXCEPT ![self] = Called("join", k, 0)]
           /\ UNCHANGED <<libVars, tableVars, mutexVars, condVars, status, observer>>
  BY <1>1, <1>4, <1>9 DEF TypeOK
<1>10. ASSUME NEW t \in all_threads,
              observer' = [observer EXCEPT ![t] = self],
              status' = Blocked(status),
              Switch(Blocked(status), ready_list, holds),
              call' = [call EXCEPT ![self] = Called("join", k, 0)],
              UNCHANGED <<libVars, tableVars, mutexVars, condVars>>
       PROVE  TypeOK'
  BY <1>4, <1>5, <1>6, <1>7, <1>10
<1> QED BY <1>3, <1>8, <1>9, <1>10 DEF thread_join

\* thread_mutex_init keeps the types.
LEMMA MutexInitType ==
    ASSUME TypeOK, NEW m \in Mutex \cup {NULL}, thread_mutex_init(m)
    PROVE  TypeOK'
<1>0. Running BY DEF thread_mutex_init
<1>1. CASE Return("none", NULL, 0) BY <1>0, <1>1, ReturnNothing
<1>2. CASE m \in Mutex \ mutexes /\ ~Return("none", NULL, 0)
  <2>1. CallOK' BY <1>0, <1>2, IdleType, ConstantsAssumption DEF thread_mutex_init
  <2>2. mq' \in [Mutex -> Seq(Tcb)]
    <3>1. mq' = [mq EXCEPT ![m] = <<>>] BY <1>2 DEF thread_mutex_init
    <3> QED BY <3>1, EmptySeq DEF TypeOK
  <2>3. /\ locked' \in [Mutex -> {0, 1}] /\ owner' \in [Mutex -> -1 .. MaxId]
        /\ holds' \in [Mutex -> SUBSET (0 .. MaxId)] /\ mutexes' \subseteq Mutex
    <3>1. /\ locked' = [locked EXCEPT ![m] = 0]
          /\ owner' = [owner EXCEPT ![m] = -1]
          /\ mutexes' = mutexes \cup {m}
          /\ holds' = [holds EXCEPT ![m] = {}]
      BY <1>2 DEF thread_mutex_init
    <3>2. -1 \in -1 .. MaxId BY ConstantsAssumption
    <3> QED BY <1>2, <3>1, <3>2 DEF TypeOK
  <2>4. UNCHANGED <<libVars, tableVars, condVars, ready_list, current_thread,
                    status, observer, process>>
    BY <1>2 DEF thread_mutex_init
  <2> QED
    BY <2>1, <2>2, <2>3, <2>4 DEF TypeOK, CallOK, CallRecord, libVars, tableVars, condVars
<1> QED BY <1>1, <1>2 DEF thread_mutex_init

\* thread_mutex_lock keeps the types.
LEMMA LockType ==
    ASSUME TypeOK, NEW m \in Mutex \cup {NULL}, thread_mutex_lock(m)
    PROVE  TypeOK'
<1>0. Running /\ current_thread \in Tcb BY DEF thread_mutex_lock, Running, TypeOK
<1>1. CASE Return("none", NULL, 0) BY <1>0, <1>1, ReturnNothing
<1>2. CASE /\ m \in mutexes
           /\ locked' = [locked EXCEPT ![m] = 1]
           /\ owner' = [owner EXCEPT ![m] = tid[self]]
           /\ holds' = [holds EXCEPT ![m] = @ \cup {tid[self]}]
           /\ call' = [call EXCEPT ![self] = Idle]
           /\ UNCHANGED <<libVars, tableVars, mutexes, mq, condVars, ready_list,
                          current_thread, status, observer, process>>
  <2>1. CallOK' BY <1>0, <1>2, IdleType
  <2>2. m \in Mutex /\ tid[self] \in 0 .. MaxId BY <1>0, <1>2 DEF TypeOK, self
  <2>3. owner' \in [Mutex -> -1 .. MaxId] BY <1>2, <2>2 DEF TypeOK
  <2>4. holds' \in [Mutex -> SUBSET (0 .. MaxId)] BY <1>2, <2>2 DEF TypeOK
  <2> QED
    BY <1>2, <2>1, <2>2, <2>3, <2>4 DEF TypeOK, CallOK, CallRecord, libVars, tableVars, condVars
<1>3. CASE /\ m \in mutexes
           /\ mq' = [mq EXCEPT ![m] = Append(@, self)]
           /\ status' = Blocked(status)
           /\ Switch(Blocked(status), ready_list, holds)
           /\ call' = [call EXCEPT ![self] = Called("lock", m, 1)]
           /\ UNCHANGED <<libVars, tableVars, mutexes, locked, owner, condVars, observer>>
  <2>0. m \in Mutex BY <1>3 DEF TypeOK
  <2>1. CallOK' BY <1>0, <1>3, <2>0, MutexCallType
  <2>2. Blocked(status) \in [Tcb -> Status] /\ ready_list \in Seq(Tcb) /\ holds \in History
    BY <1>0 DEF Blocked, TypeOK, Status, History
  <2>3. /\ ready_list' \in Seq(Tcb) /\ current_thread' \in Tcb
        /\ process' \in {"running", "deadlock", "crash"} /\ holds' \in History
    BY <1>0, <1>3, <2>2, SwitchType
  <2>4. mq' \in [Mutex -> Seq(Tcb)] BY <1>0, <1>3, <2>0 DEF TypeOK, self
  <2> QED
    BY <1>3, <2>1, <2>2, <2>3, <2>4 DEF TypeOK, CallOK, CallRecord, History, Status,
                                  libVars, tableVars, condVars
<1> QED BY <1>1, <1>2, <1>3 DEF thread_mutex_lock

\* thread_mutex_unlock keeps the types.
LEMMA UnlockType ==
    ASSUME TypeOK, NEW m \in Mutex \cup {NULL}, thread_mutex_unlock(m)
    PROVE  TypeOK'
<1>0. Running BY DEF thread_mutex_unlock
<1>1. CASE Return("none", NULL, 0) BY <1>0, <1>1, ReturnNothing
<1>2. CASE Owns(m) /\ ~Return("none", NULL, 0)
  <2>0. m \in Mutex BY <1>2 DEF Owns, TypeOK
  <2>1. CallOK' BY <1>0, <1>2, IdleType DEF thread_mutex_unlock
  <2>2. Release(m) BY <1>2 DEF thread_mutex_unlock
  <2>3. /\ locked' \in [Mutex -> {0, 1}]
        /\ owner' \in [Mutex -> -1 .. MaxId]
        /\ mq' \in [Mutex -> Seq(Tcb)]
        /\ StatusAfterRelease(m) \in [Tcb -> Status]
        /\ ReadyAfterRelease(m) \in Seq(Tcb)
    BY <2>0, <2>2, ReleaseType
  <2>4. holds' \in [Mutex -> SUBSET (0 .. MaxId)]
    <3>1. holds' = [holds EXCEPT ![m] = @ \ {tid[self]}] BY <1>2 DEF thread_mutex_unlock
    <3> QED BY <2>0, <3>1 DEF TypeOK
  <2> QED
    BY <1>2, <2>1, <2>3, <2>4 DEF thread_mutex_unlock, TypeOK, CallOK, CallRecord, Status,
                                  libVars, tableVars, condVars
<1> QED BY <1>1, <1>2 DEF thread_mutex_unlock

\* thread_cond_init keeps the types.
LEMMA CondInitType ==
    ASSUME TypeOK, NEW c \in Cond \cup {NULL}, thread_cond_init(c)
    PROVE  TypeOK'
<1>0. Running BY DEF thread_cond_init
<1>1. CASE Return("none", NULL, 0) BY <1>0, <1>1, ReturnNothing
<1>2. CASE c \in Cond \ conds /\ ~Return("none", NULL, 0)
  <2>1. CallOK' BY <1>0, <1>2, IdleType DEF thread_cond_init
  <2>2. cq' \in [Cond -> Seq([thread : Tcb, mutex : Mutex])]
    <3>1. cq' = [cq EXCEPT ![c] = <<>>] BY <1>2 DEF thread_cond_init
    <3> QED BY <3>1, EmptySeq DEF TypeOK
  <2> QED
    BY <1>2, <2>1, <2>2 DEF thread_cond_init, TypeOK, CallOK, CallRecord,
                   libVars, tableVars, mutexVars
<1> QED BY <1>1, <1>2 DEF thread_cond_init

\* thread_cond_wait keeps the types.
LEMMA WaitType ==
    ASSUME TypeOK, NEW c \in Cond \cup {NULL}, NEW m \in Mutex \cup {NULL},
           thread_cond_wait(c, m)
    PROVE  TypeOK'
<1>0. Running /\ current_thread \in Tcb BY DEF thread_cond_wait, Running, TypeOK
<1>1. CASE Return("none", NULL, 0) BY <1>0, <1>1, ReturnNothing
<1>2. CASE c # NULL /\ Owns(m) /\ ~Return("none", NULL, 0)
  <2>0. m \in Mutex /\ c \in Cond BY <1>2 DEF Owns, TypeOK
  <2>1. CallOK'
    <3>1. call' = [call EXCEPT ![self] = Called("wait", m, 1)] BY <1>2 DEF thread_cond_wait
    <3> QED BY <1>0, <2>0, <3>1, MutexCallType
  <2>2. Release(m) BY <1>2 DEF thread_cond_wait
  <2>3. /\ locked' \in [Mutex -> {0, 1}]
        /\ owner' \in [Mutex -> -1 .. MaxId]
        /\ mq' \in [Mutex -> Seq(Tcb)]
        /\ StatusAfterRelease(m) \in [Tcb -> Status]
        /\ ReadyAfterRelease(m) \in Seq(Tcb)
    BY <2>0, <2>2, ReleaseType
  <2>4. Blocked(StatusAfterRelease(m)) \in [Tcb -> Status]
    BY <1>0, <2>3 DEF Blocked, Status, self
  <2>5. [holds EXCEPT ![m] = @ \ {tid[self]}] \in History
    BY <2>0 DEF TypeOK, History
  <2>6. /\ ready_list' \in Seq(Tcb) /\ current_thread' \in Tcb
        /\ process' \in {"running", "deadlock", "crash"} /\ holds' \in History
    BY <1>0, <1>2, <2>3, <2>4, <2>5, SwitchType DEF thread_cond_wait
  <2>7. cq' \in [Cond -> Seq([thread : Tcb, mutex : Mutex])]
    <3>1. cq' = [cq EXCEPT ![c] = Append(@, [thread |-> self, mutex |-> m])]
      BY <1>2 DEF thread_cond_wait
    <3>2. [thread |-> self, mutex |-> m] \in [thread : Tcb, mutex : Mutex]
      BY <1>0, <2>0 DEF self
    <3>3. cq[c] \in Seq([thread : Tcb, mutex : Mutex]) BY <2>0 DEF TypeOK
    <3>4. Append(cq[c], [thread |-> self, mutex |-> m]) \in Seq([thread : Tcb, mutex : Mutex])
      BY <3>2, <3>3, AppendProperties
    <3> QED BY <2>0, <3>1, <3>4 DEF TypeOK
  <2> QED
    BY <1>2, <2>1, <2>3, <2>4, <2>6, <2>7
    DEF thread_cond_wait, TypeOK, CallOK, CallRecord, Status, History, libVars, tableVars
<1> QED BY <1>1, <1>2 DEF thread_cond_wait

\* thread_cond_signal keeps the types.
LEMMA SignalType ==
    ASSUME TypeOK, NEW c \in Cond \cup {NULL}, thread_cond_signal(c)
    PROVE  TypeOK'
<1>0. Running BY DEF thread_cond_signal
<1>1. CASE Return("none", NULL, 0) BY <1>0, <1>1, ReturnNothing
<1>2. CASE c \in conds /\ cq[c] # <<>> /\ ~Return("none", NULL, 0)
  <2> DEFINE w == Head(cq[c])
  <2>0. c \in Cond /\ cq[c] \in Seq([thread : Tcb, mutex : Mutex]) BY <1>2 DEF TypeOK
  <2>1. CallOK' BY <1>0, <1>2, IdleType DEF thread_cond_signal
  <2>2. w \in [thread : Tcb, mutex : Mutex] /\ Tail(cq[c]) \in Seq([thread : Tcb, mutex : Mutex])
    BY <1>2, <2>0, HeadTailProperties
  <2>3. cq' \in [Cond -> Seq([thread : Tcb, mutex : Mutex])]
    BY <1>2, <2>0, <2>2 DEF thread_cond_signal, TypeOK
  <2>4. w.thread \in Tcb /\ w.mutex \in Mutex /\ tid[w.thread] \in -1 .. MaxId
    BY <2>2, SMTT(40) DEF TypeOK
  <2> HIDE DEF w
  <2>5. /\ locked' \in [Mutex -> {0, 1}] /\ owner' \in [Mutex -> -1 .. MaxId]
        /\ mq' \in [Mutex -> Seq(Tcb)] /\ status' \in [Tcb -> Status]
        /\ ready_list' \in Seq(Tcb)
    <3>1. CASE /\ locked' = [locked EXCEPT ![w.mutex] = 1]
               /\ owner' = [owner EXCEPT ![w.mutex] = tid[w.thread]]
               /\ status' = [status EXCEPT ![w.thread] = "WORKING"]
               /\ ready_list' = Append(ready_list, w.thread)
               /\ UNCHANGED mq
      BY <2>4, <3>1 DEF TypeOK, Status
    <3>2. CASE /\ mq' = [mq EXCEPT ![w.mutex] = Append(@, w.thread)]
               /\ UNCHANGED <<locked, owner, status, ready_list>>
      BY <2>4, <3>2 DEF TypeOK, Status
    <3> QED BY <1>2, <3>1, <3>2 DEF thread_cond_signal, w
  <2> QED
    BY <1>2, <2>1, <2>3, <2>5 DEF thread_cond_signal, TypeOK, CallOK, CallRecord, Status,
                                  libVars, tableVars
<1> QED BY <1>1, <1>2 DEF thread_cond_signal

\* destroy_thread keeps the types of the table and the heap.
LEMMA DestroyType ==
    ASSUME TypeOK, NEW gone, destroy_thread(gone)
    PROVE  /\ allocated' \in SUBSET Tcb /\ all_threads' \in SUBSET Tcb
           /\ handle' \in [Tcb -> {0, 1}]
BY DEF TypeOK, destroy_thread

\* thread_terminate keeps the types.
LEMMA TerminateType == TypeOK /\ thread_terminate => TypeOK'
<1> SUFFICES ASSUME TypeOK, thread_terminate PROVE TypeOK' OBVIOUS
<1>0. Running /\ current_thread \in Tcb BY DEF thread_terminate, Running, TypeOK
<1> DEFINE o  == observer[self]
           st == IF o = NULL THEN [status EXCEPT ![self] = "DONE"]
                 ELSE [status EXCEPT ![self] = "DONE", ![o] = "WORKING"]
           rl == IF o = NULL THEN ready_list ELSE Append(ready_list, o)
<1>1. CASE Crash BY <1>1, CrashType
<1>2. CASE /\ o # Garbage
           /\ status' = st
           /\ observer' = [observer EXCEPT ![self] = NULL]
           /\ destroy_thread({ToDestroy})
           /\ next_to_destroy' = self
           /\ Switch(st, rl, holds)
           /\ call' = [call EXCEPT ![self] = Idle]
           /\ UNCHANGED <<ready, inits, max_id, tid, mutexVars, condVars>>
  <2>1. CallOK' BY <1>0, <1>2, IdleType
  <2>2. o \in Tcb \cup {NULL} BY <1>0, <1>2 DEF TypeOK, self
  <2>3. st \in [Tcb -> Status] BY <1>0, <2>2 DEF TypeOK, Status, self
  <2>4. rl \in Seq(Tcb) BY <2>2 DEF TypeOK
  <2>5. holds \in History BY DEF TypeOK, History
  <2> HIDE DEF st, rl
  <2>6. /\ ready_list' \in Seq(Tcb) /\ current_thread' \in Tcb
        /\ process' \in {"running", "deadlock", "crash"} /\ holds' \in History
    BY <1>0, <1>2, <2>3, <2>4, <2>5, SwitchType
  <2>7. /\ allocated' \in SUBSET Tcb /\ all_threads' \in SUBSET Tcb
        /\ handle' \in [Tcb -> {0, 1}]
    BY <1>2, DestroyType
  <2>8. observer' \in [Tcb -> Tcb \cup {NULL, Garbage}] /\ next_to_destroy' \in Tcb
    BY <1>0, <1>2 DEF TypeOK, self
  <2> QED
    BY <1>2, <2>1, <2>3, <2>6, <2>7, <2>8 DEF TypeOK, CallOK, CallRecord, Status, History,
                                              mutexVars, condVars
<1> QED BY <1>1, <1>2 DEF thread_terminate

\* thread_cleanup keeps the types.
LEMMA CleanupType == TypeOK /\ thread_cleanup => TypeOK'
<1> SUFFICES ASSUME TypeOK, thread_cleanup PROVE TypeOK' OBVIOUS
<1>0. Running BY DEF thread_cleanup
<1>1. CASE Return("none", NULL, 0) BY <1>0, <1>1, ReturnNothing
<1>2. CASE /\ destroy_thread(all_threads)
           /\ ready_list' = <<>> /\ mutexes' = {} /\ conds' = {}
           /\ ready' = 0
           /\ UNCHANGED <<inits, next_to_destroy, max_id, tid, locked, owner, mq, cq,
                          current_thread, status, observer, process, call, holds>>
  <2>1. /\ allocated' \in SUBSET Tcb /\ all_threads' \in SUBSET Tcb
        /\ handle' \in [Tcb -> {0, 1}]
    BY <1>2, DestroyType
  <2>2. ready_list' \in Seq(Tcb) BY <1>2, EmptySeq
  <2> QED BY <1>2, <2>1, <2>2 DEF TypeOK
<1> QED BY <1>1, <1>2 DEF thread_cleanup

\* A step that changes nothing keeps the types.
LEMMA ExitedType == TypeOK /\ UNCHANGED vars => TypeOK'
BY DEF TypeOK, vars, libVars, tableVars, mutexVars, condVars, schedVars

\* Every step keeps the types.
LEMMA TypeStep == TypeOK /\ [Next]_vars => TypeOK'
<1> SUFFICES ASSUME TypeOK, Next PROVE TypeOK' BY ExitedType
<1>1. ASSUME NEW a \in Tcb, lib_init(a) PROVE TypeOK' BY <1>1, LibInitType
<1>2. ASSUME NEW a \in Tcb, thread_create(a) PROVE TypeOK' BY <1>2, CreateType
<1>3. CASE thread_yield BY <1>3, YieldType
<1>4. ASSUME NEW k \in 0 .. max_id, thread_join(k) PROVE TypeOK' BY <1>4, JoinType
<1>5. ASSUME NEW m \in Mutex \cup {NULL}, thread_mutex_init(m) PROVE TypeOK'
  BY <1>5, MutexInitType
<1>6. ASSUME NEW m \in Mutex \cup {NULL}, thread_mutex_lock(m) PROVE TypeOK'
  BY <1>6, LockType
<1>7. ASSUME NEW m \in Mutex \cup {NULL}, thread_mutex_unlock(m) PROVE TypeOK'
  BY <1>7, UnlockType
<1>8. ASSUME NEW m \in Mutex \cup {NULL}, NEW c \in Cond \cup {NULL},
             thread_cond_wait(c, m)
      PROVE  TypeOK'
  BY <1>8, WaitType
<1>9. ASSUME NEW c \in Cond \cup {NULL}, thread_cond_init(c) PROVE TypeOK'
  BY <1>9, CondInitType
<1>10. ASSUME NEW c \in Cond \cup {NULL}, thread_cond_signal(c) PROVE TypeOK'
  BY <1>10, SignalType
<1>11. CASE thread_terminate BY <1>11, TerminateType
<1>12. CASE thread_cleanup BY <1>12, CleanupType
<1>13. CASE Exited BY <1>13, ExitedType DEF Exited
<1> QED
  BY <1>1, <1>2, <1>3, <1>4, <1>5, <1>6, <1>7, <1>8, <1>9, <1>10, <1>11, <1>12, <1>13
  DEF Next

\* The variables keep their types, whatever the client calls: in particular
\* the library always has a current thread while it is in use.
THEOREM TypeCorrect == Spec => []TypeOK
BY InitType, TypeStep, PTL DEF Spec

-----------------------------------------------------------------------------
(* Queues as sets: what queue_push and queue_pop do to the elements of a   *)
(* queue in which nobody is twice.                                         *)

\* queue_push: the queue gains one element at its end.
LEMMA AppendEffect ==
    ASSUME NEW S, NEW s \in Seq(S), NEW e \in S
    PROVE  /\ Append(s, e) \in Seq(S) /\ Len(s) \in Nat
           /\ DOMAIN s = 1 .. Len(s) /\ DOMAIN Append(s, e) = 1 .. Len(s) + 1
           /\ \A j \in 1 .. Len(s) : Append(s, e)[j] = s[j]
           /\ Append(s, e)[Len(s) + 1] = e
           /\ ToSet(Append(s, e)) = ToSet(s) \cup {e}
           /\ IsInjective(s) /\ e \notin ToSet(s) => IsInjective(Append(s, e))
<1>1. Len(s) \in Nat /\ DOMAIN s = 1 .. Len(s) BY LenProperties
<1>2. /\ Append(s, e) \in Seq(S)
      /\ Len(Append(s, e)) = Len(s) + 1
      /\ \A j \in 1 .. Len(s) : Append(s, e)[j] = s[j]
      /\ Append(s, e)[Len(s) + 1] = e
  BY AppendProperties
<1>3. DOMAIN Append(s, e) = 1 .. Len(s) + 1 BY <1>2, LenProperties
<1>4. ToSet(Append(s, e)) = ToSet(s) \cup {e}
  <2>1. \A j \in 1 .. Len(s) + 1 : j \in 1 .. Len(s) \/ j = Len(s) + 1 BY <1>1
  <2>2. \A j \in 1 .. Len(s) : j \in 1 .. Len(s) + 1 BY <1>1
  <2>3. Len(s) + 1 \in 1 .. Len(s) + 1 BY <1>1
  <2> QED BY <1>1, <1>2, <1>3, <2>1, <2>2, <2>3 DEF ToSet
<1>5. ASSUME IsInjective(s), e \notin ToSet(s) PROVE IsInjective(Append(s, e))
  <2>1. \A j \in 1 .. Len(s) : s[j] # e BY <1>1, <1>5 DEF ToSet
  <2>2. \A j, l \in 1 .. Len(s) : s[j] = s[l] => j = l BY <1>1, <1>5 DEF IsInjective
  <2>3. \A j \in 1 .. Len(s) + 1 : j \in 1 .. Len(s) \/ j = Len(s) + 1 BY <1>1
  <2> QED BY <1>2, <1>3, <2>1, <2>2, <2>3 DEF IsInjective
<1> QED BY <1>1, <1>2, <1>3, <1>4, <1>5

\* queue_pop: the queue loses its first element.
LEMMA TailEffect ==
    ASSUME NEW S, NEW s \in Seq(S), s # <<>>
    PROVE  /\ Tail(s) \in Seq(S) /\ Head(s) \in S /\ Head(s) \in ToSet(s)
           /\ Len(s) \in Nat /\ Len(s) >= 1 /\ Head(s) = s[1]
           /\ DOMAIN s = 1 .. Len(s) /\ DOMAIN Tail(s) = 1 .. Len(s) - 1
           /\ \A j \in 1 .. Len(s) - 1 : Tail(s)[j] = s[j + 1]
           /\ ToSet(Tail(s)) \subseteq ToSet(s)
           /\ IsInjective(s) => IsInjective(Tail(s)) /\ Head(s) \notin ToSet(Tail(s))
<1>1. Len(s) \in Nat /\ Len(s) >= 1 /\ DOMAIN s = 1 .. Len(s) BY EmptySeq, LenProperties
<1>2. /\ Head(s) \in S /\ Tail(s) \in Seq(S) /\ Len(Tail(s)) = Len(s) - 1
      /\ \A j \in 1 .. Len(Tail(s)) : Tail(s)[j] = s[j + 1]
  BY HeadTailProperties
<1>3. DOMAIN Tail(s) = 1 .. Len(s) - 1 BY <1>2, LenProperties
<1>4. Head(s) = s[1] OBVIOUS
<1>5. Head(s) \in ToSet(s) BY <1>1, <1>4 DEF ToSet
<1>6. \A j \in 1 .. Len(s) - 1 : j + 1 \in 1 .. Len(s) /\ j + 1 # 1 BY <1>1
<1>7. ToSet(Tail(s)) \subseteq ToSet(s) BY <1>1, <1>2, <1>3, <1>6 DEF ToSet
<1>8. ASSUME IsInjective(s) PROVE IsInjective(Tail(s)) /\ Head(s) \notin ToSet(Tail(s))
  <2>1. \A j, l \in 1 .. Len(s) : s[j] = s[l] => j = l BY <1>1, <1>8 DEF IsInjective
  <2>2. \A j, l \in 1 .. Len(s) - 1 : Tail(s)[j] = Tail(s)[l] => j = l
    BY <1>1, <1>2, <1>6, <2>1
  <2>3. \A j \in 1 .. Len(s) - 1 : Tail(s)[j] # Head(s)
    BY <1>1, <1>2, <1>4, <1>6, <2>1
  <2> QED BY <1>3, <2>2, <2>3 DEF IsInjective, ToSet
<1> QED BY <1>1, <1>2, <1>3, <1>4, <1>5, <1>7, <1>8

-----------------------------------------------------------------------------
(* What a context switch does to a ready list that holds only threads that *)
(* can work, each once.                                                    *)

\* The running thread is one of the list or goes on; the new list holds
\* others of them, each once; and only the thread that is switched in is
\* told that it holds a mutex.
Switched(st, rl, hd) ==
    /\ current_thread' \in ToSet(rl) \cup {current_thread}
    /\ st[current_thread'] = "WORKING"
    /\ IsInjective(ready_list')
    /\ \A t \in ToSet(ready_list') :
         /\ t \in ToSet(rl) \cup {current_thread}
         /\ t # current_thread' /\ st[t] = "WORKING"
    /\ \A m \in Mutex : \A k \in holds'[m] :
         \/ k \in hd[m]
         \/ /\ current_thread' \in ToSet(rl)
            /\ call[current_thread'].op \in {"lock", "wait"}
            /\ call[current_thread'].arg = m
            /\ k = tid[current_thread']

\* Switch does what Switched says.
LEMMA SwitchEffect ==
    ASSUME TypeOK, Running, NEW st \in [Tcb -> Status], NEW rl \in Seq(Tcb),
           NEW hd \in History, IsInjective(rl),
           \A t \in ToSet(rl) : t # current_thread /\ st[t] = "WORKING",
           Switch(st, rl, hd), Running'
    PROVE  Switched(st, rl, hd)
<1>0. /\ current_thread \in Tcb /\ Len(rl) \in Nat /\ DOMAIN rl = 1 .. Len(rl)
      /\ \A i \in 1 .. Len(rl) : rl[i] \in Tcb
  BY DEF TypeOK, Running
<1>1. \A i \in 1 .. Len(rl) : rl[i] # current_thread /\ st[rl[i]] = "WORKING"
  BY <1>0 DEF ToSet
<1>2. Workable(st, rl) = 1 .. Len(rl) BY <1>0, <1>1 DEF Workable
<1>3. CASE /\ Workable(st, rl) = {}
           /\ ready_list' = <<>>
           /\ process' = IF st[self] = "WORKING" THEN "running" ELSE "deadlock"
           /\ holds' = hd
           /\ UNCHANGED current_thread
  <2>1. st[current_thread] = "WORKING" BY <1>3 DEF Running, self
  <2>2. DOMAIN ready_list' = {} BY <1>3
  <2> QED BY <1>3, <2>1, <2>2 DEF Switched, IsInjective, ToSet
<1>4. ASSUME NEW i \in Workable(st, rl),
             \A j \in Workable(st, rl) : i <= j,
             current_thread' = rl[i],
             ready_list' = Requeue(st, SubSeq(rl, i + 1, Len(rl))),
             holds' = Resume(hd, rl[i])
      PROVE  /\ current_thread' \in ToSet(rl)
             /\ st[current_thread'] = "WORKING"
             /\ IsInjective(ready_list')
             /\ \A t \in ToSet(ready_list') :
                  /\ t \in ToSet(rl) \cup {current_thread}
                  /\ t # current_thread' /\ st[t] = "WORKING"
             /\ \A m \in Mutex : \A k \in holds'[m] :
                  \/ k \in hd[m]
                  \/ /\ call[current_thread'].op \in {"lock", "wait"}
                     /\ call[current_thread'].arg = m
                     /\ k = tid[current_thread']
  <2>1. i = 1 /\ Len(rl) >= 1
    <3>1. i \in 1 .. Len(rl) BY <1>2
    <3>2. i \in Int /\ 1 <= i /\ i <= Len(rl) BY <1>0, <3>1
    <3>3. 1 \in Workable(st, rl) BY <1>0, <1>2, <3>2
    <3>4. i <= 1 BY <1>4, <3>3
    <3> QED BY <1>0, <3>2, <3>4
  <2>2. current_thread' \in ToSet(rl) /\ st[current_thread'] = "WORKING"
    BY <1>0, <1>1, <1>4, <2>1 DEF ToSet
  <2> DEFINE rest == SubSeq(rl, 2, Len(rl))
  <2>3. /\ rest \in Seq(Tcb) /\ Len(rest) = Len(rl) - 1
        /\ \A j \in 1 .. Len(rl) - 1 : rest[j] = rl[j + 1]
    <3>1. \A j \in 2 .. Len(rl) : rl[j] \in Tcb BY <1>0
    <3>2. 2 \in Int /\ Len(rl) \in Int BY <1>0
    <3>3. /\ SubSeq(rl, 2, Len(rl)) \in Seq(Tcb)
          /\ Len(SubSeq(rl, 2, Len(rl))) = IF 2 <= Len(rl) THEN Len(rl) - 2 + 1 ELSE 0
          /\ \A j \in 1 .. Len(rl) - 2 + 1 : SubSeq(rl, 2, Len(rl))[j] = rl[2 + j - 1]
      BY <3>1, <3>2, SubSeqProperties
    <3>4. \A j \in 1 .. Len(rl) - 1 : j \in 1 .. Len(rl) - 2 + 1 /\ 2 + j - 1 = j + 1
      BY <1>0
    <3> QED BY <1>0, <2>1, <3>3, <3>4
  <2> HIDE DEF rest
  <2>4. ready_list' = Requeue(st, rest) BY <1>4, <2>1 DEF rest
  <2>5. \A j \in 1 .. Len(rest) : /\ rest[j] \in ToSet(rl)
                                  /\ rest[j] # current_thread /\ rest[j] # current_thread'
                                  /\ st[rest[j]] = "WORKING"
    BY <1>0, <1>1, <1>4, <2>1, <2>3 DEF ToSet, IsInjective
  <2>6. \A j, l \in 1 .. Len(rest) : rest[j] = rest[l] => j = l
    BY <1>0, <2>3, SMTT(40) DEF IsInjective
  <2>7. /\ IsInjective(ready_list')
        /\ \A t \in ToSet(ready_list') :
             /\ t \in ToSet(rl) \cup {current_thread}
             /\ t # current_thread' /\ st[t] = "WORKING"
    <3>1. CASE st[current_thread] = "WORKING"
      <4>1. ready_list' = Append(rest, current_thread) BY <2>4, <3>1 DEF Requeue, self
      <4>2. /\ DOMAIN ready_list' = 1 .. Len(rest) + 1
            /\ \A j \in 1 .. Len(rest) : ready_list'[j] = rest[j]
            /\ ready_list'[Len(rest) + 1] = current_thread
            /\ Len(rest) \in Nat
        <5> DEFINE new == Append(rest, current_thread)
        <5>1. rest \in Seq(Tcb) /\ current_thread \in Tcb BY <1>0, <2>3
        <5>2. /\ Len(rest) \in Nat /\ DOMAIN new = 1 .. Len(rest) + 1
              /\ \A j \in 1 .. Len(rest) : new[j] = rest[j]
              /\ new[Len(rest) + 1] = current_thread
          BY <5>1, AppendEffect
        <5>3. ready_list' = new BY <4>1
        <5> HIDE DEF new
        <5> QED BY <5>2, <5>3
      <4>3. current_thread # current_thread' BY <1>0, <1>1, <1>4, <2>1
      <4>4. IsInjective(ready_list')
        BY <2>5, <2>6, <4>2 DEF IsInjective
      <4>5. \A j \in 1 .. Len(rest) + 1 :
               /\ ready_list'[j] \in ToSet(rl) \cup {current_thread}
               /\ ready_list'[j] # current_thread' /\ st[ready_list'[j]] = "WORKING"
        BY <2>5, <3>1, <4>2, <4>3
      <4> QED BY <4>2, <4>4, <4>5 DEF ToSet
    <3>2. CASE st[current_thread] # "WORKING"
      <4>1. ready_list' = rest BY <2>4, <3>2 DEF Requeue, self
      <4>2. DOMAIN rest = 1 .. Len(rest) BY <2>3
      <4> QED BY <2>5, <2>6, <4>1, <4>2 DEF IsInjective, ToSet
    <3> QED BY <3>1, <3>2
  <2>8. \A m \in Mutex : \A k \in holds'[m] :
           \/ k \in hd[m]
           \/ /\ call[current_thread'].op \in {"lock", "wait"}
              /\ call[current_thread'].arg = m
              /\ k = tid[current_thread']
    <3>1. holds' = Resume(hd, current_thread') BY <1>4
    <3>2. CASE call[current_thread'].op \in {"lock", "wait"}
      <4>1. holds' = [hd EXCEPT ![call[current_thread'].arg] = @ \cup {tid[current_thread']}]
        BY <3>1, <3>2 DEF Resume
      <4> QED BY <3>2, <4>1 DEF History
    <3>3. CASE call[current_thread'].op \notin {"lock", "wait"}
      BY <3>1, <3>3 DEF Resume
    <3> QED BY <3>2, <3>3
  <2> QED BY <2>2, <2>7, <2>8
<1> QED BY <1>3, <1>4 DEF Switch, Switched

\* What has to hold before a context switch for the running thread and the
\* ready list to be in order after it.
LEMMA SwitchParts ==
    ASSUME NEW st, NEW rl, NEW hd, TypeOK, TypeOK', Switched(st, rl, hd), status' = st,
           \A t \in ToSet(rl) \cup {current_thread} :
               st[t] = "WORKING" => t \in all_threads',
           \A t \in ToSet(rl) : call'[t] = call[t] /\ tid'[t] = tid[t],
           \A t \in ToSet(rl) : call[t].op \in {"lock", "wait"} =>
               /\ call[t].arg \in mutexes'
               /\ locked'[call[t].arg] = 1 /\ owner'[call[t].arg] = tid[t],
           st[current_thread] = "WORKING" => call'[current_thread].op \notin {"lock", "wait"},
           \A m \in mutexes' : \A k \in hd[m] : locked'[m] = 1 /\ owner'[m] = k
    PROVE  ReadyPart' /\ HandoffPart' /\ ExclusionPart'
<1>1. ReadyPart' BY DEF ReadyPart, Switched
<1>2. HandoffPart' BY DEF HandoffPart, Switched
<1>3. ExclusionPart'
  <2> SUFFICES ASSUME NEW m \in mutexes', NEW k \in holds'[m]
               PROVE  locked'[m] = 1 /\ owner'[m] = k
    BY DEF ExclusionPart
  <2>1. m \in Mutex BY DEF TypeOK
  <2> QED BY <2>1 DEF Switched
<1> QED BY <1>1, <1>2, <1>3

-----------------------------------------------------------------------------
(* Threads that stay blocked while a step is made.                         *)

\* Every blocked thread other than h stays as it is.
Kept(h) ==
    \A t \in all_threads : status[t] = "WAITING" /\ t # h =>
        t \in all_threads' /\ status'[t] = "WAITING" /\ call'[t] = call[t]

\* No thread enters a mutex queue and only h may leave one.
LEMMA MutexFrame ==
    ASSUME NEW h, MutexPart, Kept(h), mutexes' = mutexes,
           \A m \in mutexes :
               /\ IsInjective(mq'[m])
               /\ \A t \in ToSet(mq'[m]) : t \in ToSet(mq[m]) /\ t # h
    PROVE  MutexPart'
<1> SUFFICES ASSUME NEW m \in mutexes
             PROVE  /\ IsInjective(mq'[m])
                    /\ \A t \in ToSet(mq'[m]) :
                        /\ t \in all_threads' /\ status'[t] = "WAITING"
                        /\ call'[t].op \in {"lock", "wait"} /\ call'[t].arg = m
  BY DEF MutexPart
<1>1. \A t \in ToSet(mq'[m]) :
        /\ t \in all_threads /\ status[t] = "WAITING" /\ t # h
        /\ call[t].op \in {"lock", "wait"} /\ call[t].arg = m
  BY DEF MutexPart
<1> QED BY <1>1 DEF Kept

\* The condition variables do not change, and no waiter is woken up.
LEMMA CondFrame ==
    ASSUME NEW h, CondPart, Kept(h), mutexes \subseteq mutexes', conds' = conds, cq' = cq,
           \A c \in conds : \A i \in DOMAIN cq[c] : cq[c][i].thread # h,
           \A m \in mutexes' : \A t \in ToSet(mq'[m]) : \/ m \in mutexes /\ t \in ToSet(mq[m])
                                                        \/ status[t] = "WORKING"
    PROVE  CondPart'
<1> SUFFICES ASSUME NEW c \in conds, NEW i \in DOMAIN cq[c]
             PROVE  /\ cq[c][i].thread \in all_threads' /\ status'[cq[c][i].thread] = "WAITING"
                    /\ call'[cq[c][i].thread].op = "wait"
                    /\ call'[cq[c][i].thread].arg = cq[c][i].mutex
                    /\ cq[c][i].mutex \in mutexes'
                    /\ \A d \in conds : \A j \in DOMAIN cq[d] :
                        cq[d][j].thread = cq[c][i].thread => d = c /\ j = i
                    /\ \A m \in mutexes' : cq[c][i].thread \notin ToSet(mq'[m])
  BY DEF CondPart
<1>1. /\ cq[c][i].thread \in all_threads /\ status[cq[c][i].thread] = "WAITING"
      /\ call[cq[c][i].thread].op = "wait"
      /\ call[cq[c][i].thread].arg = cq[c][i].mutex
      /\ cq[c][i].mutex \in mutexes
      /\ \A d \in conds : \A j \in DOMAIN cq[d] :
          cq[d][j].thread = cq[c][i].thread => d = c /\ j = i
      /\ \A m \in mutexes : cq[c][i].thread \notin ToSet(mq[m])
  BY DEF CondPart
<1>2. cq[c][i].thread # h OBVIOUS
<1> QED BY <1>1, <1>2 DEF Kept

\* No thread gets an observer, and h, if it was one, is one no more.
LEMMA JoinFrame ==
    ASSUME NEW h, JoinPart, Kept(h),
           \A u \in Tcb : observer'[u] \in Tcb =>
               /\ observer'[u] = observer[u] /\ observer[u] # h
               /\ u \in Live => u \in Live'
    PROVE  JoinPart'
<1>1. ASSUME NEW u \in Tcb, observer'[u] \in Tcb
      PROVE  /\ u \in Live'
             /\ observer'[u] \in all_threads' /\ status'[observer'[u]] = "WAITING"
             /\ call'[observer'[u]].op = "join"
  BY <1>1 DEF JoinPart, Kept
<1>2. \A u, v \in Tcb : observer'[u] \in Tcb /\ observer'[u] = observer'[v] => u = v
  BY DEF JoinPart
<1> QED BY <1>1, <1>2 DEF JoinPart

\* No thread is created or destroyed, and none that is done works again.
LEMMA HeapFrame ==
    ASSUME TypeOK, HeapPart, UNCHANGED tableVars, next_to_destroy' = next_to_destroy,
           \A t \in Tcb : status[t] = "DONE" => status'[t] = "DONE"
    PROVE  HeapPart'
BY DEF TypeOK, HeapPart, tableVars

\* The running thread is nowhere else, and a thread is blocked in one queue
\* at most.
LEMMA Apart ==
    ASSUME TypeOK, InUse
    PROVE  /\ \A m \in mutexes : \A t \in ToSet(mq[m]) : t # current_thread
           /\ \A c \in conds : \A i \in DOMAIN cq[c] : cq[c][i].thread # current_thread
           /\ \A u \in Tcb : observer[u] # current_thread
           /\ \A u \in Tcb : \A m \in mutexes : \A t \in ToSet(mq[m]) : observer[u] # t
           /\ \A u \in Tcb : \A c \in conds : \A i \in DOMAIN cq[c] : observer[u] # cq[c][i].thread
           /\ \A l, m \in mutexes : \A t \in ToSet(mq[m]) : t \in ToSet(mq[l]) => l = m
<1>0. current_thread \in Tcb /\ status[current_thread] = "WORKING" /\ all_threads \subseteq Tcb
  BY DEF TypeOK, InUse, ReadyPart
<1>1. \A m \in mutexes : \A t \in ToSet(mq[m]) :
         /\ t \in Tcb /\ status[t] = "WAITING"
         /\ call[t].op \in {"lock", "wait"} /\ call[t].arg = m
  BY <1>0 DEF InUse, MutexPart
<1>2. \A c \in conds : \A i \in DOMAIN cq[c] :
         /\ cq[c][i].thread \in Tcb /\ status[cq[c][i].thread] = "WAITING"
         /\ call[cq[c][i].thread].op = "wait"
  BY <1>0 DEF InUse, CondPart
<1>3. \A u \in Tcb : observer[u] \in Tcb =>
         status[observer[u]] = "WAITING" /\ call[observer[u]].op = "join"
  BY DEF InUse, JoinPart
<1> QED BY <1>0, <1>1, <1>2, <1>3

-----------------------------------------------------------------------------
(* The calls, one by one.                                                  *)

\* A call that returns at once ends the last call of the running thread.
LEMMA ReturnSafe ==
    ASSUME TypeOK, TypeOK', InUse, NEW op \in {"none", "join"}, NEW arg, NEW ret,
           Return(op, arg, ret)
    PROVE  InUse'
<1>0. /\ current_thread \in Tcb /\ status[current_thread] = "WORKING"
      /\ all_threads \subseteq Tcb
  BY DEF TypeOK, InUse, ReadyPart
<1>1. /\ \A t \in Tcb : t # current_thread => call'[t] = call[t]
      /\ call'[current_thread].op \notin {"lock", "wait"}
  BY <1>0 DEF Return, Called, TypeOK, self
<1>2. UNCHANGED <<libVars, tableVars, mutexVars, condVars, ready_list,
                  current_thread, status, observer, process, holds>>
  BY DEF Return
<1>3. Kept(current_thread) BY <1>0, <1>1, <1>2 DEF Kept, tableVars
<1>4. ReadyPart' BY <1>2 DEF InUse, ReadyPart, tableVars
<1>5. MutexPart'
  <2>1. \A m \in mutexes : IsInjective(mq'[m]) /\ \A t \in ToSet(mq'[m]) :
            t \in ToSet(mq[m]) /\ t # current_thread
    BY <1>2, Apart DEF InUse, MutexPart, mutexVars
  <2> QED BY <1>2, <1>3, <2>1, MutexFrame DEF InUse, mutexVars
<1>6. CondPart' BY <1>2, <1>3, Apart, CondFrame DEF InUse, mutexVars, condVars
<1>7. JoinPart' BY <1>2, <1>3, Apart, JoinFrame DEF InUse, Live, tableVars
<1>8. HeapPart' BY <1>2, HeapFrame DEF InUse, libVars
<1>9. HandoffPart'
  <2>1. \A t \in ToSet(ready_list) : t \in Tcb /\ t # current_thread
    BY <1>0 DEF InUse, ReadyPart
  <2> QED BY <1>1, <1>2, <2>1 DEF InUse, HandoffPart, mutexVars, tableVars
<1>10. ExclusionPart' BY <1>2 DEF InUse, ExclusionPart, mutexVars
<1> QED BY <1>4, <1>5, <1>6, <1>7, <1>8, <1>9, <1>10 DEF InUse

\* thread_create: the new thread is ready, and in no other place.
LEMMA CreateSafe ==
    ASSUME TypeOK, TypeOK', InUse, NEW a \in Tcb, thread_create(a)
    PROVE  InUse'
<1>0. /\ current_thread \in Tcb /\ status[current_thread] = "WORKING"
      /\ all_threads \subseteq Tcb /\ current_thread \in all_threads
      /\ ready_list \in Seq(Tcb)
  BY DEF TypeOK, InUse, ReadyPart
<1>1. a \notin all_threads BY DEF thread_create, NewThread, InUse, HeapPart
<1>2. /\ all_threads' = all_threads \cup {a} /\ allocated' = allocated \cup {a}
      /\ \A t \in Tcb : t # a => status'[t] = status[t] /\ tid'[t] = tid[t]
      /\ status'[a] = "WORKING" /\ tid'[a] = max_id /\ max_id' = max_id + 1
  BY <1>0 DEF thread_create, NewThread, TypeOK
<1>3. ready_list' = Append(ready_list, a) BY DEF thread_create
<1>4. /\ \A t \in Tcb : t # current_thread /\ t # a => call'[t] = call[t]
      /\ call'[a].op = "none" /\ call'[current_thread].op = "none"
  BY <1>0 DEF thread_create, TypeOK, Idle, Called, self
<1>5. UNCHANGED <<libVars, mutexVars, condVars, current_thread, observer, holds>>
  BY DEF thread_create
<1>6. Kept(current_thread) BY <1>0, <1>1, <1>2, <1>4 DEF Kept
<1>7. a \notin ToSet(ready_list) BY <1>1 DEF InUse, ReadyPart
<1>8. /\ ToSet(ready_list') = ToSet(ready_list) \cup {a}
      /\ IsInjective(ready_list')
  <2>1. IsInjective(ready_list) BY DEF InUse, ReadyPart
  <2> QED BY <1>0, <1>3, <1>7, <2>1, AppendEffect
<1>9. ReadyPart'
  <2>1. current_thread' \in all_threads' /\ status'[current_thread'] = "WORKING"
    BY <1>0, <1>1, <1>2, <1>5
  <2>2. \A t \in ToSet(ready_list') :
           t \in all_threads' /\ t # current_thread' /\ status'[t] = "WORKING"
    BY <1>0, <1>1, <1>2, <1>5, <1>8 DEF InUse, ReadyPart
  <2> QED BY <1>8, <2>1, <2>2 DEF ReadyPart
<1>10. MutexPart'
  <2>1. \A m \in mutexes : IsInjective(mq'[m]) /\ \A t \in ToSet(mq'[m]) :
            t \in ToSet(mq[m]) /\ t # current_thread
    BY <1>5, Apart DEF InUse, MutexPart, mutexVars
  <2> QED BY <1>5, <1>6, <2>1, MutexFrame DEF InUse, mutexVars
<1>11. CondPart' BY <1>5, <1>6, Apart, CondFrame DEF InUse, mutexVars, condVars
<1>12. JoinPart'
  <2>1. \A u \in Tcb : u \in Live => u \in Live' BY <1>1, <1>2 DEF Live
  <2> QED BY <1>5, <1>6, <2>1, Apart, JoinFrame DEF InUse
<1>13. HeapPart'
  <2>1. \A t \in all_threads : tid[t] < max_id /\ tid'[t] = tid[t] /\ tid[t] \in Nat
    BY <1>0, <1>1, <1>2 DEF InUse, HeapPart, TypeOK
  <2>2. max_id \in Nat BY DEF TypeOK
  <2>3. \A t, u \in all_threads' : tid'[t] = tid'[u] => t = u
    BY <1>2, <2>1, <2>2 DEF InUse, HeapPart
  <2>4. \A t \in all_threads' : tid'[t] < max_id' BY <1>2, <2>1, <2>2
  <2>5. next_to_destroy' # NULL =>
            next_to_destroy' \in all_threads' /\ status'[next_to_destroy'] = "DONE"
    <3>1. next_to_destroy # NULL =>
            /\ next_to_destroy \in all_threads /\ next_to_destroy # a
            /\ status[next_to_destroy] = "DONE"
      BY <1>1 DEF InUse, HeapPart
    <3> QED BY <1>0, <1>2, <1>5, <3>1 DEF libVars
  <2> QED BY <1>2, <2>3, <2>4, <2>5 DEF InUse, HeapPart
<1>14. HandoffPart'
  <2>1. \A t \in ToSet(ready_list) : t \in Tcb /\ t # current_thread /\ t # a
    BY <1>0, <1>7 DEF InUse, ReadyPart
  <2>2. \A t \in ToSet(ready_list) : call'[t] = call[t] /\ tid'[t] = tid[t]
    BY <1>2, <1>4, <2>1
  <2> QED BY <1>4, <1>5, <1>8, <2>2 DEF InUse, HandoffPart, mutexVars
<1>15. ExclusionPart' BY <1>5 DEF InUse, ExclusionPart, mutexVars
<1> QED BY <1>9, <1>10, <1>11, <1>12, <1>13, <1>14, <1>15 DEF InUse

\* A call that gives up the processor and changes nothing else.
LEMMA PlainSwitchSafe ==
    ASSUME TypeOK, TypeOK', InUse, Running, Running',
           Switch(status, ready_list, holds),
           \A t \in Tcb : t # current_thread => call'[t] = call[t],
           call'[current_thread].op \notin {"lock", "wait"},
           UNCHANGED <<libVars, tableVars, mutexVars, condVars, status, observer>>
    PROVE  InUse'
<1>0. /\ current_thread \in Tcb /\ status[current_thread] = "WORKING"
      /\ all_threads \subseteq Tcb /\ current_thread \in all_threads
      /\ ready_list \in Seq(Tcb) /\ status \in [Tcb -> Status] /\ holds \in History
      /\ IsInjective(ready_list)
      /\ \A t \in ToSet(ready_list) :
           t \in all_threads /\ t \in Tcb /\ t # current_thread /\ status[t] = "WORKING"
  BY DEF TypeOK, InUse, ReadyPart, Status, History
<1>1. Switched(status, ready_list, holds) BY <1>0, SwitchEffect
<1>2. Kept(current_thread) BY <1>0 DEF Kept, tableVars
<1>3. ReadyPart' /\ HandoffPart' /\ ExclusionPart'
  <2>1. \A t \in ToSet(ready_list) \cup {current_thread} :
            status[t] = "WORKING" => t \in all_threads'
    BY <1>0 DEF tableVars
  <2>2. \A t \in ToSet(ready_list) : call'[t] = call[t] /\ tid'[t] = tid[t]
    BY <1>0 DEF tableVars
  <2>3. \A t \in ToSet(ready_list) : call[t].op \in {"lock", "wait"} =>
            /\ call[t].arg \in mutexes'
            /\ locked'[call[t].arg] = 1 /\ owner'[call[t].arg] = tid[t]
    BY DEF InUse, HandoffPart, mutexVars
  <2>4. \A m \in mutexes' : \A k \in holds[m] : locked'[m] = 1 /\ owner'[m] = k
    BY DEF InUse, ExclusionPart, mutexVars
  <2> QED BY <1>1, <2>1, <2>2, <2>3, <2>4, SwitchParts
<1>4. MutexPart'
  <2>1. \A m \in mutexes : IsInjective(mq'[m]) /\ \A t \in ToSet(mq'[m]) :
            t \in ToSet(mq[m]) /\ t # current_thread
    BY Apart DEF InUse, MutexPart, mutexVars
  <2> QED BY <1>2, <2>1, MutexFrame DEF InUse, mutexVars
<1>5. CondPart' BY <1>2, Apart, CondFrame DEF InUse, mutexVars, condVars
<1>6. JoinPart' BY <1>2, Apart, JoinFrame DEF InUse, Live, tableVars
<1>7. HeapPart' BY HeapFrame DEF InUse, libVars
<1> QED BY <1>3, <1>4, <1>5, <1>6, <1>7 DEF InUse

\* thread_yield.
LEMMA YieldSafe ==
    ASSUME TypeOK, TypeOK', InUse, Running', thread_yield
    PROVE  InUse'
<1>0. current_thread \in Tcb BY DEF TypeOK, InUse, ReadyPart
<1>1. /\ \A t \in Tcb : t # current_thread => call'[t] = call[t]
      /\ call'[current_thread].op \notin {"lock", "wait"}
  BY <1>0 DEF thread_yield, TypeOK, Idle, Called, self
<1>2. /\ Running /\ Switch(status, ready_list, holds)
      /\ UNCHANGED <<libVars, tableVars, mutexVars, condVars, status, observer>>
  BY DEF thread_yield
<1> QED BY <1>1, <1>2, PlainSwitchSafe

\* thread_join: the target has no observer yet, and the running thread
\* observes nobody, so that no thread gets two observers or observes two.
LEMMA JoinSafe ==
    ASSUME TypeOK, TypeOK', InUse, Running', NEW k \in Nat, thread_join(k)
    PROVE  InUse'
<1>0. /\ current_thread \in Tcb /\ status[current_thread] = "WORKING"
      /\ all_threads \subseteq Tcb /\ current_thread \in all_threads
      /\ ready_list \in Seq(Tcb) /\ status \in [Tcb -> Status] /\ holds \in History
      /\ IsInjective(ready_list)
      /\ \A t \in ToSet(ready_list) :
           t \in all_threads /\ t \in Tcb /\ t # current_thread /\ status[t] = "WORKING"
  BY DEF TypeOK, InUse, ReadyPart, Status, History
<1>1. ASSUME NEW ret, Return("join", k, ret) PROVE InUse' BY <1>1, ReturnSafe
<1>2. ASSUME Crash PROVE InUse' BY <1>2 DEF Crash, Running
<1>3. ASSUME NEW ret, call' = [call EXCEPT ![self] = Called("join", k, ret)]
      PROVE  /\ \A t \in Tcb : t # current_thread => call'[t] = call[t]
             /\ call'[current_thread].op = "join"
  BY <1>0, <1>3 DEF TypeOK, Called, self
<1>4. ASSUME Switch(status, ready_list, holds),
             call' = [call EXCEPT ![self] = Called("join", k, 0)],
             UNCHANGED <<libVars, tableVars, mutexVars, condVars, status, observer>>
      PROVE  InUse'
  <2>1. Running BY DEF thread_join
  <2>2. call'[current_thread].op \notin {"lock", "wait"} BY <1>3, <1>4
  <2>3. \A t \in Tcb : t # current_thread => call'[t] = call[t] BY <1>3, <1>4
  <2> QED BY <1>4, <2>1, <2>2, <2>3, PlainSwitchSafe
<1>5. ASSUME NEW t \in all_threads, tid[self] # k, tid[t] = k, status[t] # "DONE",
             observer[t] = NULL,
             observer' = [observer EXCEPT ![t] = self],
             status' = Blocked(status),
             Switch(Blocked(status), ready_list, holds),
             call' = [call EXCEPT ![self] = Called("join", k, 0)],
             UNCHANGED <<libVars, tableVars, mutexVars, condVars>>
      PROVE  InUse'
  <2> DEFINE st == Blocked(status)
  <2>1. /\ st \in [Tcb -> Status] /\ st[current_thread] = "WAITING"
        /\ \A u \in Tcb : u # current_thread => st[u] = status[u]
    BY <1>0 DEF Blocked, Status, self
  <2>2. status' = st /\ Switch(st, ready_list, holds) BY <1>5
  <2> HIDE DEF st
  <2>3. /\ \A u \in Tcb : u # current_thread => call'[u] = call[u]
        /\ call'[current_thread].op = "join"
    BY <1>3, <1>5
  <2>4. /\ observer'[t] = current_thread /\ \A u \in Tcb : u # t => observer'[u] = observer[u]
        /\ t \in Tcb /\ t # current_thread
    BY <1>0, <1>5 DEF TypeOK, self
  <2>5. Running BY DEF thread_join
  <2>6. \A u \in ToSet(ready_list) : u # current_thread /\ st[u] = "WORKING"
    BY <1>0, <2>1
  <2>7. Switched(st, ready_list, holds)
    BY <1>0, <2>1, <2>2, <2>5, <2>6, SwitchEffect
  <2>8. Kept(current_thread) BY <1>0, <1>5, <2>1, <2>2, <2>3 DEF Kept, tableVars
  <2>9. ReadyPart' /\ HandoffPart' /\ ExclusionPart'
    <3>1. \A u \in ToSet(ready_list) \cup {current_thread} :
              st[u] = "WORKING" => u \in all_threads'
      BY <1>0, <1>5 DEF tableVars
    <3>2. \A u \in ToSet(ready_list) : call'[u] = call[u] /\ tid'[u] = tid[u]
      BY <1>0, <1>5, <2>3 DEF tableVars
    <3>3. \A u \in ToSet(ready_list) : call[u].op \in {"lock", "wait"} =>
              /\ call[u].arg \in mutexes'
              /\ locked'[call[u].arg] = 1 /\ owner'[call[u].arg] = tid[u]
      BY <1>5 DEF InUse, HandoffPart, mutexVars
    <3>4. \A m \in mutexes' : \A l \in holds[m] : locked'[m] = 1 /\ owner'[m] = l
      BY <1>5 DEF InUse, ExclusionPart, mutexVars
    <3> QED BY <2>1, <2>2, <2>7, <3>1, <3>2, <3>3, <3>4, SwitchParts
  <2>10. MutexPart'
    <3>1. \A m \in mutexes : IsInjective(mq'[m]) /\ \A u \in ToSet(mq'[m]) :
              u \in ToSet(mq[m]) /\ u # current_thread
      BY <1>5, Apart DEF InUse, MutexPart, mutexVars
    <3> QED BY <1>5, <2>8, <3>1, MutexFrame DEF InUse, mutexVars
  <2>11. CondPart' BY <1>5, <2>8, Apart, CondFrame DEF InUse, mutexVars, condVars
  <2>12. JoinPart'
    <3>1. \A u \in Tcb : u \in Live => u \in Live'
      BY <1>0, <1>5, <2>1, <2>2 DEF Live, tableVars
    <3>2. \A u \in Tcb : observer[u] # current_thread BY Apart
    <3>3. t \in Live' BY <1>5, <3>1, <2>4 DEF Live
    <3>4. ASSUME NEW u \in Tcb, observer'[u] \in Tcb
          PROVE  /\ u \in Live'
                 /\ observer'[u] \in all_threads' /\ status'[observer'[u]] = "WAITING"
                 /\ call'[observer'[u]].op = "join"
      <4>1. CASE u = t BY <1>0, <1>5, <2>1, <2>2, <2>3, <2>4, <3>3, <4>1 DEF tableVars
      <4>2. CASE u # t
        <5>1. observer'[u] = observer[u] BY <2>4, <4>2
        <5>2. /\ u \in Live /\ observer[u] \in all_threads
              /\ status[observer[u]] = "WAITING" /\ call[observer[u]].op = "join"
          BY <3>4, <5>1 DEF InUse, JoinPart
        <5> QED BY <2>8, <3>1, <3>2, <5>1, <5>2 DEF Kept
      <4> QED BY <4>1, <4>2
    <3>5. \A u, v \in Tcb : observer'[u] \in Tcb /\ observer'[u] = observer'[v] => u = v
      BY <2>4, <3>2 DEF InUse, JoinPart
    <3> QED BY <3>4, <3>5 DEF JoinPart
  <2>13. HeapPart'
    <3>1. \A u \in Tcb : status[u] = "DONE" => status'[u] = "DONE" BY <1>0, <2>1, <2>2
    <3> QED BY <1>5, <3>1, HeapFrame DEF InUse, libVars
  <2> QED BY <2>9, <2>10, <2>11, <2>12, <2>13 DEF InUse
<1> QED BY <1>1, <1>2, <1>4, <1>5 DEF thread_join

\* What every call starts from.
LEMMA Start ==
    ASSUME TypeOK, InUse
    PROVE  /\ current_thread \in Tcb /\ status[current_thread] = "WORKING"
           /\ all_threads \subseteq Tcb /\ current_thread \in all_threads
           /\ ready_list \in Seq(Tcb) /\ status \in [Tcb -> Status] /\ holds \in History
           /\ mutexes \subseteq Mutex /\ conds \subseteq Cond
           /\ IsInjective(ready_list)
           /\ \A t \in ToSet(ready_list) :
                t \in all_threads /\ t \in Tcb /\ t # current_thread /\ status[t] = "WORKING"
BY DEF TypeOK, InUse, ReadyPart, Status, History

\* A new mutex is free, has an empty queue and nobody was told to hold it;
\* nothing changes for the mutexes in use.
LEMMA MutexInitSafe ==
    ASSUME TypeOK, TypeOK', InUse, Running', NEW m \in Mutex \cup {NULL}, thread_mutex_init(m)
    PROVE  InUse'
<1>0. /\ current_thread \in Tcb /\ status[current_thread] = "WORKING"
      /\ all_threads \subseteq Tcb /\ mutexes \subseteq Mutex
      /\ \A t \in ToSet(ready_list) : t \in Tcb /\ t # current_thread
  BY Start
<1>1. CASE Return("none", NULL, 0) BY <1>1, ReturnSafe
<1>2. ASSUME m \in Mutex \ mutexes,
             locked' = [locked EXCEPT ![m] = 0],
             owner' = [owner EXCEPT ![m] = -1],
             mq' = [mq EXCEPT ![m] = <<>>],
             mutexes' = mutexes \cup {m},
             holds' = [holds EXCEPT ![m] = {}],
             call' = [call EXCEPT ![self] = Idle],
             UNCHANGED <<libVars, tableVars, condVars, ready_list, current_thread,
                         status, observer, process>>
      PROVE  InUse'
  <2>1. /\ \A l \in mutexes : l # m /\ l \in Mutex
        /\ \A l \in mutexes : /\ locked'[l] = locked[l] /\ owner'[l] = owner[l]
                              /\ mq'[l] = mq[l] /\ holds'[l] = holds[l]
        /\ mq'[m] = <<>> /\ holds'[m] = {}
    BY <1>0, <1>2, ZenonT(60) DEF TypeOK
  <2>2. /\ \A t \in Tcb : t # current_thread => call'[t] = call[t]
        /\ call'[current_thread].op = "none"
    BY <1>0, <1>2 DEF TypeOK, Idle, Called, self
  <2>3. Kept(current_thread) BY <1>0, <1>2, <2>2 DEF Kept, tableVars
  <2>4. ReadyPart' BY <1>2 DEF InUse, ReadyPart, tableVars
  <2>5. IsInjective(mq'[m]) /\ ToSet(mq'[m]) = {}
    <3>1. DOMAIN mq'[m] = {} BY <2>1
    <3> QED BY <3>1 DEF IsInjective, ToSet
  <2>6. MutexPart'
    <3>1. \A l \in mutexes : IsInjective(mq[l]) /\ \A t \in ToSet(mq[l]) :
             /\ t \in all_threads' /\ status'[t] = "WAITING"
             /\ call'[t].op \in {"lock", "wait"} /\ call'[t].arg = l
      <4>1. \A l \in mutexes : \A t \in ToSet(mq[l]) : t # current_thread BY Apart
      <4> QED BY <2>3, <4>1 DEF InUse, MutexPart, Kept
    <3> QED BY <1>2, <2>1, <2>5, <3>1 DEF MutexPart
  <2>7. CondPart'
    <3>1. \A l \in mutexes' : \A t \in ToSet(mq'[l]) : l \in mutexes /\ t \in ToSet(mq[l])
      BY <1>2, <2>1, <2>5
    <3> QED BY <1>2, <2>3, <3>1, Apart, CondFrame DEF InUse, condVars
  <2>8. JoinPart' BY <1>2, <2>3, Apart, JoinFrame DEF InUse, Live, tableVars
  <2>9. HeapPart' BY <1>2, HeapFrame DEF InUse, libVars
  <2>10. HandoffPart'
    <3>1. \A t \in ToSet(ready_list) : call'[t] = call[t] /\ tid'[t] = tid[t]
      BY <1>0, <1>2, <2>2 DEF tableVars
    <3> QED BY <1>2, <2>1, <3>1 DEF InUse, HandoffPart
  <2>11. ExclusionPart' BY <1>2, <2>1 DEF InUse, ExclusionPart
  <2> QED BY <2>4, <2>6, <2>7, <2>8, <2>9, <2>10, <2>11 DEF InUse
<1> QED BY <1>1, <1>2 DEF thread_mutex_init

\* A free mutex has no holder and is promised to nobody, so the running
\* thread can take it; otherwise it is queued and marked as waiting before
\* the processor is given away.
LEMMA LockSafe ==
    ASSUME TypeOK, TypeOK', InUse, Running', NEW m \in Mutex \cup {NULL}, thread_mutex_lock(m)
    PROVE  InUse'
<1>0. /\ current_thread \in Tcb /\ status[current_thread] = "WORKING"
      /\ all_threads \subseteq Tcb /\ current_thread \in all_threads
      /\ ready_list \in Seq(Tcb) /\ status \in [Tcb -> Status] /\ holds \in History
      /\ mutexes \subseteq Mutex
      /\ IsInjective(ready_list)
      /\ \A t \in ToSet(ready_list) :
           t \in all_threads /\ t \in Tcb /\ t # current_thread /\ status[t] = "WORKING"
  BY Start
<1>1. CASE Return("none", NULL, 0) BY <1>1, ReturnSafe
<1>2. ASSUME m \in mutexes, locked[m] = 0,
             locked' = [locked EXCEPT ![m] = 1],
             owner' = [owner EXCEPT ![m] = tid[self]],
             holds' = [holds EXCEPT ![m] = @ \cup {tid[self]}],
             call' = [call EXCEPT ![self] = Idle],
             UNCHANGED <<libVars, tableVars, mutexes, mq, condVars, ready_list,
                         current_thread, status, observer, process>>
      PROVE  InUse'
  <2>1. /\ \A l \in mutexes : l # m => /\ locked'[l] = locked[l] /\ owner'[l] = owner[l]
                                       /\ holds'[l] = holds[l]
        /\ locked'[m] = 1 /\ owner'[m] = tid[current_thread]
        /\ holds'[m] = holds[m] \cup {tid[current_thread]}
    BY <1>0, <1>2 DEF TypeOK, self
  <2>2. /\ \A t \in Tcb : t # current_thread => call'[t] = call[t]
        /\ call'[current_thread].op = "none"
    BY <1>0, <1>2 DEF TypeOK, Idle, Called, self
  <2>3. Kept(current_thread) BY <1>0, <1>2, <2>2 DEF Kept, tableVars
  <2>4. ReadyPart' BY <1>2 DEF InUse, ReadyPart, tableVars
  <2>5. MutexPart'
    <3>1. \A l \in mutexes : IsInjective(mq'[l]) /\ \A u \in ToSet(mq'[l]) :
              u \in ToSet(mq[l]) /\ u # current_thread
      BY <1>2, Apart DEF InUse, MutexPart
    <3> QED BY <1>2, <2>3, <3>1, MutexFrame DEF InUse
  <2>6. CondPart' BY <1>2, <2>3, Apart, CondFrame DEF InUse, condVars
  <2>7. JoinPart' BY <1>2, <2>3, Apart, JoinFrame DEF InUse, Live, tableVars
  <2>8. HeapPart' BY <1>2, HeapFrame DEF InUse, libVars
  <2>9. HandoffPart'
    <3>1. \A t \in ToSet(ready_list) : call'[t] = call[t] /\ tid'[t] = tid[t]
      BY <1>0, <1>2, <2>2 DEF tableVars
    <3>2. \A t \in ToSet(ready_list) : call[t].op \in {"lock", "wait"} =>
             /\ call[t].arg \in mutexes /\ call[t].arg # m
             /\ locked[call[t].arg] = 1 /\ owner[call[t].arg] = tid[t]
      BY <1>2 DEF InUse, HandoffPart
    <3> QED BY <1>2, <2>1, <3>1, <3>2 DEF HandoffPart
  <2>10. ExclusionPart'
    <3>1. holds[m] = {} BY <1>2 DEF InUse, ExclusionPart
    <3> QED BY <1>2, <2>1, <3>1 DEF InUse, ExclusionPart
  <2> QED BY <2>4, <2>5, <2>6, <2>7, <2>8, <2>9, <2>10 DEF InUse
<1>3. ASSUME m \in mutexes,
             mq' = [mq EXCEPT ![m] = Append(@, self)],
             status' = Blocked(status),
             Switch(Blocked(status), ready_list, holds),
             call' = [call EXCEPT ![self] = Called("lock", m, 1)],
             UNCHANGED <<libVars, tableVars, mutexes, locked, owner, condVars, observer>>
      PROVE  InUse'
  <2> DEFINE st == Blocked(status)
             q  == Append(mq[m], current_thread)
  <2>1. /\ st \in [Tcb -> Status] /\ st[current_thread] = "WAITING"
        /\ \A u \in Tcb : u # current_thread => st[u] = status[u]
    BY <1>0 DEF Blocked, Status, self
  <2>2. status' = st /\ Switch(st, ready_list, holds) BY <1>3
  <2>3. mq'[m] = q /\ \A l \in mutexes : l # m => mq'[l] = mq[l]
    BY <1>0, <1>3 DEF TypeOK, self
  <2>4. ToSet(q) = ToSet(mq[m]) \cup {current_thread} /\ IsInjective(q)
    <3>1. mq[m] \in Seq(Tcb) BY <1>0, <1>3 DEF TypeOK
    <3>2. IsInjective(mq[m]) /\ current_thread \notin ToSet(mq[m])
      BY <1>3, Apart DEF InUse, MutexPart
    <3> QED BY <1>0, <3>1, <3>2, AppendEffect
  <2> HIDE DEF st, q
  <2>5. /\ \A u \in Tcb : u # current_thread => call'[u] = call[u]
        /\ call'[current_thread].op = "lock" /\ call'[current_thread].arg = m
    BY <1>0, <1>3 DEF TypeOK, Called, self
  <2>6. Running BY DEF thread_mutex_lock
  <2>7. \A u \in ToSet(ready_list) : u # current_thread /\ st[u] = "WORKING"
    BY <1>0, <2>1
  <2>8. Switched(st, ready_list, holds)
    BY <1>0, <2>1, <2>2, <2>6, <2>7, SwitchEffect
  <2>9. Kept(current_thread) BY <1>0, <1>3, <2>1, <2>2, <2>5 DEF Kept, tableVars
  <2>10. ReadyPart' /\ HandoffPart' /\ ExclusionPart'
    <3>1. \A u \in ToSet(ready_list) \cup {current_thread} :
              st[u] = "WORKING" => u \in all_threads'
      BY <1>0, <1>3 DEF tableVars
    <3>2. \A u \in ToSet(ready_list) : call'[u] = call[u] /\ tid'[u] = tid[u]
      BY <1>0, <1>3, <2>5 DEF tableVars
    <3>3. \A u \in ToSet(ready_list) : call[u].op \in {"lock", "wait"} =>
              /\ call[u].arg \in mutexes'
              /\ locked'[call[u].arg] = 1 /\ owner'[call[u].arg] = tid[u]
      BY <1>3 DEF InUse, HandoffPart
    <3>4. \A l \in mutexes' : \A i \in holds[l] : locked'[l] = 1 /\ owner'[l] = i
      BY <1>3 DEF InUse, ExclusionPart
    <3> QED BY <2>1, <2>2, <2>8, <3>1, <3>2, <3>3, <3>4, SwitchParts
  <2>11. MutexPart'
    <3>1. \A l \in mutexes : IsInjective(mq[l]) /\ \A t \in ToSet(mq[l]) :
             /\ t \in all_threads' /\ status'[t] = "WAITING"
             /\ call'[t].op \in {"lock", "wait"} /\ call'[t].arg = l
      <4>1. \A l \in mutexes : \A t \in ToSet(mq[l]) : t # current_thread BY Apart
      <4> QED BY <2>9, <4>1 DEF InUse, MutexPart, Kept
    <3>2. /\ current_thread \in all_threads' /\ status'[current_thread] = "WAITING"
          /\ call'[current_thread].op \in {"lock", "wait"} /\ call'[current_thread].arg = m
      BY <1>0, <1>3, <2>1, <2>2, <2>5 DEF tableVars
    <3>3. \A l \in mutexes' : l \in mutexes BY <1>3
    <3> QED BY <2>3, <2>4, <3>1, <3>2, <3>3 DEF MutexPart
  <2>12. CondPart'
    <3>1. \A l \in mutexes' : \A t \in ToSet(mq'[l]) :
              (l \in mutexes /\ t \in ToSet(mq[l])) \/ status[t] = "WORKING"
      BY <1>0, <1>3, <2>3, <2>4
    <3> QED BY <1>3, <2>9, <3>1, Apart, CondFrame DEF InUse, condVars
  <2>13. JoinPart'
    <3>1. \A u \in Tcb : u \in Live => u \in Live'
      BY <1>0, <1>3, <2>1, <2>2 DEF Live, tableVars
    <3> QED BY <1>3, <2>9, <3>1, Apart, JoinFrame DEF InUse
  <2>14. HeapPart'
    <3>1. \A u \in Tcb : status[u] = "DONE" => status'[u] = "DONE" BY <1>0, <2>1, <2>2
    <3> QED BY <1>3, <3>1, HeapFrame DEF InUse, libVars
  <2> QED BY <2>10, <2>11, <2>12, <2>13, <2>14 DEF InUse
<1> QED BY <1>1, <1>2, <1>3 DEF thread_mutex_lock

\* The owner gives up mutex m, which makes st the statuses and rl the ready
\* list.  h is the thread that is woken up, or the running thread if nobody
\* waits: h leaves the queue of m, it becomes ready, and the mutex is its
\* own before anybody else can run.
Woken(m, h, st, rl) ==
    /\ st \in [Tcb -> Status] /\ st[h] = "WORKING" /\ status[h] # "DONE"
    /\ \A t \in Tcb : t # h => st[t] = status[t]
    /\ rl \in Seq(Tcb) /\ IsInjective(rl)
    /\ \A t \in ToSet(rl) :
         /\ t \in all_threads /\ t # current_thread /\ st[t] = "WORKING"
         /\ call[t].op \in {"lock", "wait"} =>
              /\ call[t].arg \in mutexes
              /\ locked'[call[t].arg] = 1 /\ owner'[call[t].arg] = tid[t]
    /\ \A l \in mutexes : IsInjective(mq'[l]) /\ \A t \in ToSet(mq'[l]) :
         t \in ToSet(mq[l]) /\ t # h
    /\ \A l \in mutexes : \A k \in holds[l] :
         (l = m /\ k = tid[current_thread]) \/ (locked'[l] = 1 /\ owner'[l] = k)
    /\ \A c \in conds : \A i \in DOMAIN cq[c] : cq[c][i].thread # h
    /\ \A u \in Tcb : observer[u] # h

\* thread_mutex_unlock by the owner wakes up at most one thread.
LEMMA ReleaseEffect ==
    ASSUME TypeOK, InUse, NEW m \in mutexes, Owns(m), Release(m)
    PROVE  \E h \in all_threads : Woken(m, h, StatusAfterRelease(m), ReadyAfterRelease(m))
<1> DEFINE st == StatusAfterRelease(m)
           rl == ReadyAfterRelease(m)
<1>0. /\ current_thread \in Tcb /\ status[current_thread] = "WORKING"
      /\ all_threads \subseteq Tcb /\ current_thread \in all_threads
      /\ ready_list \in Seq(Tcb) /\ status \in [Tcb -> Status]
      /\ mutexes \subseteq Mutex /\ IsInjective(ready_list)
      /\ \A t \in ToSet(ready_list) :
           t \in all_threads /\ t \in Tcb /\ t # current_thread /\ status[t] = "WORKING"
  BY Start
<1>1. /\ m \in Mutex /\ locked[m] = 1 /\ owner[m] = tid[current_thread]
      /\ mq[m] \in Seq(Tcb) /\ locked \in [Mutex -> {0, 1}] /\ owner \in [Mutex -> -1 .. MaxId]
      /\ mq \in [Mutex -> Seq(Tcb)]
  BY <1>0 DEF Owns, TypeOK, self
<1>2. \A t \in ToSet(ready_list) : call[t].op \in {"lock", "wait"} =>
         /\ call[t].arg \in mutexes /\ call[t].arg # m
         /\ locked[call[t].arg] = 1 /\ owner[call[t].arg] = tid[t]
  <2>1. \A t \in all_threads : tid[t] = tid[current_thread] => t = current_thread
    BY <1>0 DEF InUse, HeapPart
  <2> QED BY <1>0, <1>1, <2>1 DEF InUse, HandoffPart
<1>3. \A l \in mutexes : \A k \in holds[l] :
         (l = m /\ k = tid[current_thread]) \/ (l # m /\ locked[l] = 1 /\ owner[l] = k)
  BY <1>1 DEF InUse, ExclusionPart
<1>4. /\ \A l \in mutexes : IsInjective(mq[l])
      /\ \A l \in mutexes : \A t \in ToSet(mq[l]) : t # current_thread
  BY Apart DEF InUse, MutexPart
<1>5. CASE mq[m] = <<>>
  <2>1. st = status /\ rl = ready_list BY <1>5 DEF StatusAfterRelease, ReadyAfterRelease
  <2>2. /\ mq' = mq /\ owner' = owner
        /\ \A l \in mutexes : l # m => locked'[l] = locked[l]
    BY <1>0, <1>1, <1>5 DEF Release
  <2> HIDE DEF st, rl
  <2>3. \A t \in ToSet(rl) :
          /\ t \in all_threads /\ t # current_thread /\ st[t] = "WORKING"
          /\ call[t].op \in {"lock", "wait"} =>
               /\ call[t].arg \in mutexes
               /\ locked'[call[t].arg] = 1 /\ owner'[call[t].arg] = tid[t]
    BY <1>0, <1>2, <2>1, <2>2
  <2>4. \A l \in mutexes : \A k \in holds[l] :
          (l = m /\ k = tid[current_thread]) \/ (locked'[l] = 1 /\ owner'[l] = k)
    BY <1>3, <2>2
  <2>5. \A l \in mutexes : IsInjective(mq'[l]) /\ \A t \in ToSet(mq'[l]) :
          t \in ToSet(mq[l]) /\ t # current_thread
    BY <1>4, <2>2
  <2>6. /\ st \in [Tcb -> Status] /\ st[current_thread] = "WORKING"
        /\ \A t \in Tcb : t # current_thread => st[t] = status[t]
        /\ status[current_thread] # "DONE"
        /\ rl \in Seq(Tcb) /\ IsInjective(rl)
    BY <1>0, <2>1
  <2>7. /\ \A c \in conds : \A i \in DOMAIN cq[c] : cq[c][i].thread # current_thread
        /\ \A u \in Tcb : observer[u] # current_thread
    BY Apart
  <2>8. Woken(m, current_thread, st, rl) BY <2>3, <2>4, <2>5, <2>6, <2>7 DEF Woken
  <2> QED BY <1>0, <2>8 DEF st, rl
<1>6. CASE mq[m] # <<>>
  <2> DEFINE h  == Head(mq[m])
             tl == Tail(mq[m])
  <2>1. /\ h \in Tcb /\ h \in ToSet(mq[m]) /\ h \notin ToSet(tl)
        /\ ToSet(tl) \subseteq ToSet(mq[m]) /\ IsInjective(tl)
    BY <1>1, <1>4, <1>6, TailEffect
  <2>2. st = [status EXCEPT ![h] = "WORKING"] /\ rl = Append(ready_list, h)
    BY <1>6 DEF StatusAfterRelease, ReadyAfterRelease
  <2>3. /\ locked' = locked /\ owner' = [owner EXCEPT ![m] = tid[h]]
        /\ mq' = [mq EXCEPT ![m] = tl]
    BY <1>6 DEF Release
  <2> HIDE DEF h, tl
  <2>4. /\ owner'[m] = tid[h] /\ mq'[m] = tl
        /\ \A l \in mutexes : l # m => owner'[l] = owner[l] /\ mq'[l] = mq[l]
    BY <1>0, <1>1, <2>3
  <2>5. /\ h \in all_threads /\ status[h] = "WAITING" /\ h # current_thread
        /\ call[h].op \in {"lock", "wait"} /\ call[h].arg = m
    BY <1>0, <2>1 DEF InUse, MutexPart
  <2>6. h \notin ToSet(ready_list) BY <1>0, <2>5
  <2>7. /\ st \in [Tcb -> Status] /\ st[h] = "WORKING"
        /\ \A t \in Tcb : t # h => st[t] = status[t]
        /\ status[h] # "DONE"
    <3> HIDE DEF st
    <3> QED BY <1>0, <2>1, <2>2, <2>5 DEF Status
  <2>8. rl \in Seq(Tcb) /\ IsInjective(rl) /\ ToSet(rl) = ToSet(ready_list) \cup {h}
    BY <1>0, <2>1, <2>2, <2>6, AppendEffect
  <2> HIDE DEF st, rl
  <2>9. \A t \in ToSet(rl) :
          /\ t \in all_threads /\ t # current_thread /\ st[t] = "WORKING"
          /\ call[t].op \in {"lock", "wait"} =>
               /\ call[t].arg \in mutexes
               /\ locked'[call[t].arg] = 1 /\ owner'[call[t].arg] = tid[t]
    BY <1>0, <1>1, <1>2, <2>3, <2>4, <2>5, <2>7, <2>8
  <2>10. \A l \in mutexes : \A k \in holds[l] :
          (l = m /\ k = tid[current_thread]) \/ (locked'[l] = 1 /\ owner'[l] = k)
    BY <1>3, <2>3, <2>4
  <2>11. \A l \in mutexes : \A t \in ToSet(mq[l]) : t = h => l = m
    BY <2>1, Apart
  <2>12. \A l \in mutexes : IsInjective(mq'[l]) /\ \A t \in ToSet(mq'[l]) :
          t \in ToSet(mq[l]) /\ t # h
    BY <1>4, <2>1, <2>4, <2>11
  <2>13. \A c \in conds : \A i \in DOMAIN cq[c] : cq[c][i].thread # h
    BY <2>1 DEF InUse, CondPart
  <2>14. \A u \in Tcb : observer[u] # h BY <2>1, Apart
  <2>15. Woken(m, h, st, rl)
    BY <2>7, <2>8, <2>9, <2>10, <2>12, <2>13, <2>14 DEF Woken
  <2> QED BY <2>5, <2>15 DEF st, rl
<1> QED BY <1>5, <1>6

\* thread_mutex_unlock.
LEMMA UnlockSafe ==
    ASSUME TypeOK, TypeOK', InUse, Running', NEW m, thread_mutex_unlock(m)
    PROVE  InUse'
<1>0. /\ current_thread \in Tcb /\ status[current_thread] = "WORKING"
      /\ all_threads \subseteq Tcb /\ current_thread \in all_threads
      /\ mutexes \subseteq Mutex
  BY Start
<1>1. CASE Return("none", NULL, 0) BY <1>1, ReturnSafe
<1>2. ASSUME Owns(m), Release(m),
             status' = StatusAfterRelease(m),
             ready_list' = ReadyAfterRelease(m),
             holds' = [holds EXCEPT ![m] = @ \ {tid[self]}],
             call' = [call EXCEPT ![self] = Idle],
             UNCHANGED <<libVars, tableVars, mutexes, condVars, current_thread,
                         observer, process>>
      PROVE  InUse'
  <2>0. m \in mutexes BY <1>2 DEF Owns
  <2>1. PICK h \in all_threads : Woken(m, h, status', ready_list')
    <3>1. PICK h \in all_threads : Woken(m, h, StatusAfterRelease(m), ReadyAfterRelease(m))
      BY <1>2, <2>0, ReleaseEffect
    <3> QED BY <1>2, <3>1
  <2>2. /\ \A t \in Tcb : t # current_thread => call'[t] = call[t]
        /\ call'[current_thread].op = "none"
    BY <1>0, <1>2 DEF TypeOK, Idle, Called, self
  <2>3. Kept(h) BY <1>0, <1>2, <2>1, <2>2 DEF Kept, tableVars, Woken
  <2>4. ReadyPart'
    <3>1. status'[current_thread] = "WORKING" BY <1>0, <2>1 DEF Woken
    <3> QED BY <1>0, <1>2, <2>1, <3>1 DEF ReadyPart, tableVars, Woken
  <2>5. MutexPart' BY <1>2, <2>1, <2>3, MutexFrame DEF InUse, Woken
  <2>6. CondPart' BY <1>2, <2>1, <2>3, CondFrame DEF InUse, condVars, Woken
  <2>7. JoinPart'
    <3>1. \A u \in Tcb : u \in Live => u \in Live' BY <1>0, <1>2, <2>1 DEF Live, tableVars, Woken
    <3> QED BY <1>2, <2>1, <2>3, <3>1, JoinFrame DEF InUse, Woken
  <2>8. HeapPart'
    <3>1. \A u \in Tcb : status[u] = "DONE" => status'[u] = "DONE" BY <2>1 DEF Woken
    <3> QED BY <1>2, <3>1, HeapFrame DEF InUse, libVars
  <2>9. HandoffPart'
    <3>1. \A t \in ToSet(ready_list') : call'[t] = call[t] /\ tid'[t] = tid[t]
      BY <1>0, <1>2, <2>1, <2>2 DEF tableVars, Woken
    <3> QED BY <1>2, <2>1, <3>1 DEF HandoffPart, Woken
  <2>10. ExclusionPart'
    <3>1. \A l \in mutexes : \A k \in holds'[l] :
             k \in holds[l] /\ ~(l = m /\ k = tid[current_thread])
      BY <1>0, <1>2, <2>0 DEF TypeOK, self
    <3> QED BY <1>2, <2>1, <3>1 DEF ExclusionPart, Woken
  <2> QED BY <2>4, <2>5, <2>6, <2>7, <2>8, <2>9, <2>10 DEF InUse, Woken
<1> QED BY <1>1, <1>2 DEF thread_mutex_unlock

-----------------------------------------------------------------------------
(* Condition variables.                                                    *)

\* A new condition variable has an empty queue.
LEMMA CondInitSafe ==
    ASSUME TypeOK, TypeOK', InUse, Running', NEW c \in Cond \cup {NULL}, thread_cond_init(c)
    PROVE  InUse'
<1>0. /\ current_thread \in Tcb /\ status[current_thread] = "WORKING"
      /\ all_threads \subseteq Tcb /\ conds \subseteq Cond
      /\ \A t \in ToSet(ready_list) : t \in Tcb /\ t # current_thread
  BY Start
<1>1. CASE Return("none", NULL, 0) BY <1>1, ReturnSafe
<1>2. ASSUME c \in Cond \ conds,
             cq' = [cq EXCEPT ![c] = <<>>],
             conds' = conds \cup {c},
             call' = [call EXCEPT ![self] = Idle],
             UNCHANGED <<libVars, tableVars, mutexVars, ready_list, current_thread,
                         status, observer, process, holds>>
      PROVE  InUse'
  <2>1. /\ \A d \in conds : d # c /\ cq'[d] = cq[d]
        /\ cq'[c] = <<>>
    BY <1>0, <1>2 DEF TypeOK
  <2>2. /\ \A t \in Tcb : t # current_thread => call'[t] = call[t]
        /\ call'[current_thread].op = "none"
    BY <1>0, <1>2 DEF TypeOK, Idle, Called, self
  <2>3. Kept(current_thread) BY <1>0, <1>2, <2>2 DEF Kept, tableVars
  <2>4. ReadyPart' BY <1>2 DEF InUse, ReadyPart, tableVars
  <2>5. MutexPart'
    <3>1. \A l \in mutexes : IsInjective(mq'[l]) /\ \A u \in ToSet(mq'[l]) :
              u \in ToSet(mq[l]) /\ u # current_thread
      BY <1>2, Apart DEF InUse, MutexPart, mutexVars
    <3> QED BY <1>2, <2>3, <3>1, MutexFrame DEF InUse, mutexVars
  <2>6. CondPart'
    <3>1. DOMAIN cq'[c] = {} BY <2>1
    <3>2. \A d \in conds : \A i \in DOMAIN cq[d] : cq[d][i].thread # current_thread BY Apart
    <3>3. ASSUME NEW d \in conds', NEW i \in DOMAIN cq'[d]
          PROVE  /\ cq'[d][i].thread \in all_threads' /\ status'[cq'[d][i].thread] = "WAITING"
                 /\ call'[cq'[d][i].thread].op = "wait"
                 /\ call'[cq'[d][i].thread].arg = cq'[d][i].mutex
                 /\ cq'[d][i].mutex \in mutexes'
                 /\ \A e \in conds' : \A j \in DOMAIN cq'[e] :
                     cq'[e][j].thread = cq'[d][i].thread => e = d /\ j = i
                 /\ \A m \in mutexes' : cq'[d][i].thread \notin ToSet(mq'[m])
      <4>1. d \in conds /\ cq'[d] = cq[d] BY <1>2, <2>1, <3>1
      <4>2. /\ cq[d][i].thread \in all_threads /\ status[cq[d][i].thread] = "WAITING"
            /\ call[cq[d][i].thread].op = "wait"
            /\ call[cq[d][i].thread].arg = cq[d][i].mutex
            /\ cq[d][i].mutex \in mutexes
            /\ \A e \in conds : \A j \in DOMAIN cq[e] :
                cq[e][j].thread = cq[d][i].thread => e = d /\ j = i
            /\ \A m \in mutexes : cq[d][i].thread \notin ToSet(mq[m])
        BY <4>1 DEF InUse, CondPart
      <4>3. \A e \in conds' : \A j \in DOMAIN cq'[e] : e \in conds /\ cq'[e] = cq[e]
        BY <1>2, <2>1, <3>1
      <4> QED BY <1>2, <2>3, <3>2, <4>1, <4>2, <4>3 DEF Kept, mutexVars
    <3> QED BY <3>3 DEF CondPart
  <2>7. JoinPart' BY <1>2, <2>3, Apart, JoinFrame DEF InUse, Live, tableVars
  <2>8. HeapPart' BY <1>2, HeapFrame DEF InUse, libVars
  <2>9. HandoffPart'
    <3>1. \A t \in ToSet(ready_list) : call'[t] = call[t] /\ tid'[t] = tid[t]
      BY <1>0, <1>2, <2>2 DEF tableVars
    <3> QED BY <1>2, <3>1 DEF InUse, HandoffPart, mutexVars
  <2>10. ExclusionPart' BY <1>2 DEF InUse, ExclusionPart, mutexVars
  <2> QED BY <2>4, <2>5, <2>6, <2>7, <2>8, <2>9, <2>10 DEF InUse
<1> QED BY <1>1, <1>2 DEF thread_cond_init

\* thread_cond_wait releases the mutex, which may wake up another thread,
\* and blocks the running thread, in this order and with no thread running
\* in between.
LEMMA WaitSafe ==
    ASSUME TypeOK, TypeOK', InUse, Running', NEW c, NEW m, thread_cond_wait(c, m)
    PROVE  InUse'
<1>0. /\ current_thread \in Tcb /\ status[current_thread] = "WORKING"
      /\ all_threads \subseteq Tcb /\ current_thread \in all_threads
      /\ holds \in History /\ mutexes \subseteq Mutex /\ conds \subseteq Cond
  BY Start
<1>1. CASE Return("none", NULL, 0) BY <1>1, ReturnSafe
<1>2. ASSUME c \in conds, Owns(m), Release(m),
             cq' = [cq EXCEPT ![c] = Append(@, [thread |-> self, mutex |-> m])],
             status' = Blocked(StatusAfterRelease(m)),
             Switch(Blocked(StatusAfterRelease(m)), ReadyAfterRelease(m),
                    [holds EXCEPT ![m] = @ \ {tid[self]}]),
             call' = [call EXCEPT ![self] = Called("wait", m, 1)],
             UNCHANGED <<libVars, tableVars, mutexes, conds, observer>>
      PROVE  InUse'
  <2> DEFINE st == StatusAfterRelease(m)
             rl == ReadyAfterRelease(m)
             hd == [holds EXCEPT ![m] = @ \ {tid[self]}]
             w  == [thread |-> current_thread, mutex |-> m]
             q  == Append(cq[c], w)
  <2>0. m \in mutexes /\ m \in Mutex /\ c \in Cond BY <1>0, <1>2 DEF Owns
  <2>1. PICK h \in all_threads : Woken(m, h, st, rl) BY <1>2, <2>0, ReleaseEffect
  <2>2. /\ hd \in History
        /\ \A l \in Mutex : \A k \in hd[l] :
             k \in holds[l] /\ ~(l = m /\ k = tid[current_thread])
    BY <1>0, <2>0 DEF History, self
  <2>3. status' = Blocked(st) /\ Switch(status', rl, hd) BY <1>2
  <2>4. /\ cq'[c] = q /\ \A d \in conds : d # c => cq'[d] = cq[d]
        /\ w.thread = current_thread /\ w.mutex = m
    BY <1>0, <1>2, <2>0 DEF TypeOK, self
  <2>5. /\ Len(cq[c]) \in Nat /\ DOMAIN cq[c] = 1 .. Len(cq[c])
        /\ DOMAIN q = 1 .. Len(cq[c]) + 1
        /\ \A j \in 1 .. Len(cq[c]) : q[j] = cq[c][j]
        /\ q[Len(cq[c]) + 1] = w
    <3>1. cq[c] \in Seq([thread : Tcb, mutex : Mutex]) BY <2>0 DEF TypeOK
    <3>2. w \in [thread : Tcb, mutex : Mutex] BY <1>0, <2>0
    <3> HIDE DEF w
    <3> QED BY <3>1, <3>2, AppendEffect
  <2> HIDE DEF st, rl, hd, w, q
  <2>6. /\ status' \in [Tcb -> Status] /\ status'[current_thread] = "WAITING"
        /\ \A t \in Tcb : t # current_thread => status'[t] = st[t]
    BY <1>0, <2>1, <2>3 DEF Blocked, Status, Woken, self
  <2>7. /\ \A t \in Tcb : t # current_thread => call'[t] = call[t]
        /\ call'[current_thread].op = "wait" /\ call'[current_thread].arg = m
    BY <1>0, <1>2 DEF TypeOK, Called, self
  <2>8. /\ \A t \in Tcb : t # current_thread /\ t # h => status'[t] = status[t]
        /\ h # current_thread => status'[h] = "WORKING"
    BY <1>0, <2>1, <2>6 DEF Woken
  <2>9. Kept(h) BY <1>0, <1>2, <2>7, <2>8 DEF Kept, tableVars
  <2>10. \A t \in ToSet(rl) : /\ t \in all_threads /\ t \in Tcb /\ t # current_thread
                             /\ status'[t] = "WORKING"
    BY <1>0, <2>1, <2>6 DEF Woken
  <2>11. Switched(status', rl, hd)
    <3>1. Running BY DEF thread_cond_wait
    <3>2. rl \in Seq(Tcb) /\ IsInjective(rl) BY <2>1 DEF Woken
    <3> QED BY <2>2, <2>3, <2>6, <2>10, <3>1, <3>2, SwitchEffect
  <2>12. ReadyPart' /\ HandoffPart' /\ ExclusionPart'
    <3>1. \A u \in ToSet(rl) \cup {current_thread} :
              status'[u] = "WORKING" => u \in all_threads'
      BY <1>0, <1>2, <2>10 DEF tableVars
    <3>2. \A u \in ToSet(rl) : call'[u] = call[u] /\ tid'[u] = tid[u]
      BY <1>2, <2>7, <2>10 DEF tableVars
    <3>3. \A u \in ToSet(rl) : call[u].op \in {"lock", "wait"} =>
              /\ call[u].arg \in mutexes'
              /\ locked'[call[u].arg] = 1 /\ owner'[call[u].arg] = tid[u]
      BY <1>2, <2>1 DEF Woken
    <3>4. \A l \in mutexes' : \A k \in hd[l] : locked'[l] = 1 /\ owner'[l] = k
      BY <1>0, <1>2, <2>1, <2>2 DEF Woken
    <3> QED BY <2>6, <2>11, <3>1, <3>2, <3>3, <3>4, SwitchParts
  <2>13. MutexPart'
    <3>1. \A l \in mutexes : IsInjective(mq'[l]) /\ \A t \in ToSet(mq'[l]) :
             t \in ToSet(mq[l]) /\ t # h
      BY <2>1 DEF Woken
    <3> QED BY <1>2, <2>9, <3>1, MutexFrame DEF InUse
  <2>14. CondPart'
    <3>1. \A l \in mutexes : \A t \in ToSet(mq'[l]) : t \in ToSet(mq[l]) BY <2>1 DEF Woken
    <3>2. \A d \in conds : \A i \in DOMAIN cq[d] :
             cq[d][i].thread # h /\ cq[d][i].thread # current_thread
      BY <2>1, Apart DEF Woken
    <3>3. \A d \in conds : \A i \in DOMAIN cq'[d] :
             \/ i \in DOMAIN cq[d] /\ cq'[d][i] = cq[d][i]
             \/ d = c /\ i = Len(cq[c]) + 1 /\ cq'[d][i] = w
      BY <2>4, <2>5
    <3>4. /\ current_thread \in all_threads' /\ status'[current_thread] = "WAITING"
          /\ call'[current_thread].op = "wait" /\ call'[current_thread].arg = m
          /\ m \in mutexes' /\ \A l \in mutexes' : current_thread \notin ToSet(mq'[l])
      BY <1>0, <1>2, <2>0, <2>6, <2>7, <3>1, Apart DEF tableVars
    <3>5. \A d \in conds : \A i \in DOMAIN cq[d] :
            /\ cq[d][i].thread \in all_threads' /\ status'[cq[d][i].thread] = "WAITING"
            /\ call'[cq[d][i].thread].op = "wait"
            /\ call'[cq[d][i].thread].arg = cq[d][i].mutex
            /\ cq[d][i].mutex \in mutexes'
            /\ \A l \in mutexes' : cq[d][i].thread \notin ToSet(mq'[l])
      <4>1. \A d \in conds : \A i \in DOMAIN cq[d] :
              /\ cq[d][i].thread \in all_threads /\ status[cq[d][i].thread] = "WAITING"
              /\ call[cq[d][i].thread].op = "wait"
              /\ call[cq[d][i].thread].arg = cq[d][i].mutex
              /\ cq[d][i].mutex \in mutexes
              /\ \A l \in mutexes : cq[d][i].thread \notin ToSet(mq[l])
        BY DEF InUse, CondPart
      <4>2. \A d \in conds : \A i \in DOMAIN cq[d] :
              /\ cq[d][i].thread \in all_threads' /\ status'[cq[d][i].thread] = "WAITING"
              /\ call'[cq[d][i].thread] = call[cq[d][i].thread]
        BY <2>9, <3>2, <4>1 DEF Kept
      <4>3. mutexes' = mutexes BY <1>2
      <4> QED BY <3>1, <4>1, <4>2, <4>3
    <3>6. \A d, e \in conds : \A i \in DOMAIN cq[d] : \A j \in DOMAIN cq[e] :
             cq[e][j].thread = cq[d][i].thread => e = d /\ j = i
      BY DEF InUse, CondPart
    <3>7. ASSUME NEW d \in conds, NEW i \in DOMAIN cq'[d]
          PROVE  /\ cq'[d][i].thread \in all_threads' /\ status'[cq'[d][i].thread] = "WAITING"
                 /\ call'[cq'[d][i].thread].op = "wait"
                 /\ call'[cq'[d][i].thread].arg = cq'[d][i].mutex
                 /\ cq'[d][i].mutex \in mutexes'
                 /\ \A l \in mutexes' : cq'[d][i].thread \notin ToSet(mq'[l])
      BY <2>4, <3>3, <3>4, <3>5
    <3>8. \A d, e \in conds : \A i \in DOMAIN cq'[d] : \A j \in DOMAIN cq'[e] :
             cq'[e][j].thread = cq'[d][i].thread => e = d /\ j = i
      BY <2>4, <3>2, <3>3, <3>6
    <3>9. conds' = conds BY <1>2
    <3> QED BY <3>7, <3>8, <3>9 DEF CondPart
  <2>15. JoinPart'
    <3>1. \A u \in Tcb : u \in Live => u \in Live'
      BY <1>0, <1>2, <2>6, <2>8 DEF Live, tableVars
    <3> QED BY <1>2, <2>1, <2>9, <3>1, JoinFrame DEF InUse, Woken
  <2>16. HeapPart'
    <3>1. \A u \in Tcb : status[u] = "DONE" => status'[u] = "DONE"
      BY <1>0, <2>1, <2>8 DEF Woken
    <3> QED BY <1>2, <3>1, HeapFrame DEF InUse, libVars
  <2> QED BY <2>12, <2>13, <2>14, <2>15, <2>16 DEF InUse
<1>3. Return("none", NULL, 0) \/ c \in conds BY DEF thread_cond_wait
<1> QED BY <1>1, <1>2, <1>3 DEF thread_cond_wait

\* The queue of c loses its first waiter, that of thread h; everybody else
\* who waits in a condition variable goes on waiting.
LEMMA CondPop ==
    ASSUME TypeOK, CondPart, NEW c \in conds, cq[c] # <<>>,
           NEW h, h = Head(cq[c]).thread, Kept(h),
           cq' = [cq EXCEPT ![c] = Tail(@)], mutexes' = mutexes, conds' = conds,
           \A m \in mutexes : \A t \in ToSet(mq'[m]) : t \in ToSet(mq[m]) \/ t = h
    PROVE  CondPart'
<1> DEFINE tl == Tail(cq[c])
<1>0. c \in Cond /\ cq[c] \in Seq([thread : Tcb, mutex : Mutex]) BY DEF TypeOK
<1>1. /\ Len(cq[c]) \in Nat /\ Len(cq[c]) >= 1 /\ DOMAIN cq[c] = 1 .. Len(cq[c])
      /\ DOMAIN tl = 1 .. Len(cq[c]) - 1 /\ Head(cq[c]) = cq[c][1]
      /\ \A j \in 1 .. Len(cq[c]) - 1 : tl[j] = cq[c][j + 1]
  BY <1>0, TailEffect
<1>2. cq'[c] = tl /\ \A d \in conds : d # c => cq'[d] = cq[d]
  BY <1>0 DEF TypeOK
<1> HIDE DEF tl
<1>3. \A d, e \in conds : \A i \in DOMAIN cq[d] : \A j \in DOMAIN cq[e] :
         cq[e][j].thread = cq[d][i].thread => e = d /\ j = i
  BY DEF CondPart
<1>4. \A d \in conds : \A i \in DOMAIN cq[d] : (d = c /\ i = 1) \/ cq[d][i].thread # h
  <2>1. 1 \in DOMAIN cq[c] /\ cq[c][1].thread = h BY <1>1
  <2> QED BY <1>3, <2>1
<1>5. \A i \in DOMAIN cq'[c] : i + 1 \in DOMAIN cq[c] /\ i + 1 # 1 /\ cq'[c][i] = cq[c][i + 1]
  BY <1>1, <1>2
<1>6. ASSUME NEW d \in conds, NEW i \in DOMAIN cq'[d]
      PROVE  \E j \in DOMAIN cq[d] : cq'[d][i] = cq[d][j] /\ cq[d][j].thread # h
  <2>1. CASE d = c BY <1>4, <1>5, <2>1
  <2>2. CASE d # c BY <1>2, <1>4, <2>2
  <2> QED BY <2>1, <2>2
<1>7. ASSUME NEW d \in conds, NEW i \in DOMAIN cq'[d]
      PROVE  /\ cq'[d][i].thread \in all_threads' /\ status'[cq'[d][i].thread] = "WAITING"
             /\ call'[cq'[d][i].thread].op = "wait"
             /\ call'[cq'[d][i].thread].arg = cq'[d][i].mutex
             /\ cq'[d][i].mutex \in mutexes'
             /\ \A m \in mutexes' : cq'[d][i].thread \notin ToSet(mq'[m])
  <2>1. PICK j \in DOMAIN cq[d] : cq'[d][i] = cq[d][j] /\ cq[d][j].thread # h BY <1>6
  <2>2. /\ cq[d][j].thread \in all_threads /\ status[cq[d][j].thread] = "WAITING"
        /\ call[cq[d][j].thread].op = "wait"
        /\ call[cq[d][j].thread].arg = cq[d][j].mutex
        /\ cq[d][j].mutex \in mutexes
        /\ \A m \in mutexes : cq[d][j].thread \notin ToSet(mq[m])
    BY DEF CondPart
  <2>3. /\ cq[d][j].thread \in all_threads' /\ status'[cq[d][j].thread] = "WAITING"
        /\ call'[cq[d][j].thread] = call[cq[d][j].thread]
    BY <2>1, <2>2 DEF Kept
  <2>4. \A m \in mutexes' : cq[d][j].thread \notin ToSet(mq'[m]) BY <2>1, <2>2
  <2> QED BY <2>1, <2>2, <2>3, <2>4
<1>8. ASSUME NEW d \in conds, NEW e \in conds, NEW i \in DOMAIN cq'[d], NEW j \in DOMAIN cq'[e],
             cq'[e][j].thread = cq'[d][i].thread
      PROVE  e = d /\ j = i
  <2>1. CASE d = c /\ e = c
    <3>1. i + 1 = j + 1 BY <1>3, <1>5, <1>8, <2>1
    <3>2. i \in Int /\ j \in Int BY <1>1, <1>2, <2>1
    <3> QED BY <2>1, <3>1, <3>2
  <2>2. CASE d = c /\ e # c BY <1>2, <1>3, <1>5, <1>8, <2>2
  <2>3. CASE d # c /\ e = c BY <1>2, <1>3, <1>5, <1>8, <2>3
  <2>4. CASE d # c /\ e # c BY <1>2, <1>3, <1>8, <2>4
  <2> QED BY <2>1, <2>2, <2>3, <2>4
<1> QED BY <1>7, <1>8 DEF CondPart

\* A signalled thread is given its mutex before it is made ready, or goes
\* from the queue of the condition variable to that of the mutex.
LEMMA SignalSafe ==
    ASSUME TypeOK, TypeOK', InUse, Running', NEW c, thread_cond_signal(c)
    PROVE  InUse'
<1>0. /\ current_thread \in Tcb /\ status[current_thread] = "WORKING"
      /\ all_threads \subseteq Tcb /\ current_thread \in all_threads
      /\ ready_list \in Seq(Tcb) /\ mutexes \subseteq Mutex /\ conds \subseteq Cond
      /\ IsInjective(ready_list)
      /\ \A t \in ToSet(ready_list) :
           t \in all_threads /\ t \in Tcb /\ t # current_thread /\ status[t] = "WORKING"
  BY Start
<1>1. CASE Return("none", NULL, 0) BY <1>1, ReturnSafe
<1>2. ASSUME c \in conds, cq[c] # <<>>, NEW w, w = Head(cq[c]),
             cq' = [cq EXCEPT ![c] = Tail(@)],
             call' = [call EXCEPT ![self] = Idle],
             \/ /\ locked[w.mutex] = 0
                /\ locked' = [locked EXCEPT ![w.mutex] = 1]
                /\ owner' = [owner EXCEPT ![w.mutex] = tid[w.thread]]
                /\ status' = [status EXCEPT ![w.thread] = "WORKING"]
                /\ ready_list' = Append(ready_list, w.thread)
                /\ UNCHANGED mq
             \/ /\ locked[w.mutex] = 1
                /\ mq' = [mq EXCEPT ![w.mutex] = Append(@, w.thread)]
                /\ UNCHANGED <<locked, owner, status, ready_list>>,
             UNCHANGED <<libVars, tableVars, mutexes, conds, current_thread,
                         observer, process, holds>>
      PROVE  InUse'
  <2> DEFINE h == w.thread
             m == w.mutex
  <2>1. /\ h \in all_threads /\ h \in Tcb /\ status[h] = "WAITING" /\ h # current_thread
        /\ call[h].op = "wait" /\ call[h].arg = m /\ m \in mutexes /\ m \in Mutex
        /\ \A l \in mutexes : h \notin ToSet(mq[l])
        /\ \A u \in Tcb : observer[u] # h
    <3>1. 1 \in DOMAIN cq[c] /\ w = cq[c][1]
      <4>1. cq[c] \in Seq([thread : Tcb, mutex : Mutex]) BY <1>0, <1>2 DEF TypeOK
      <4>2. Head(cq[c]) = cq[c][1] /\ Len(cq[c]) \in Nat /\ Len(cq[c]) >= 1
            /\ DOMAIN cq[c] = 1 .. Len(cq[c])
        BY <1>2, <4>1, TailEffect
      <4> QED BY <1>2, <4>2
    <3>2. /\ h \in all_threads /\ status[h] = "WAITING"
          /\ call[h].op = "wait" /\ call[h].arg = m /\ m \in mutexes
          /\ \A l \in mutexes : h \notin ToSet(mq[l])
      BY <1>2, <3>1 DEF InUse, CondPart
    <3>3. \A u \in Tcb : observer[u] # h BY <1>2, <3>1, Apart
    <3> QED BY <1>0, <3>2, <3>3
  <2>2. h = Head(cq[c]).thread BY <1>2, SMTT(40)
  <2>3. \/ /\ locked[m] = 0
           /\ locked' = [locked EXCEPT ![m] = 1]
           /\ owner' = [owner EXCEPT ![m] = tid[h]]
           /\ status' = [status EXCEPT ![h] = "WORKING"]
           /\ ready_list' = Append(ready_list, h)
           /\ UNCHANGED mq
        \/ /\ locked[m] = 1
           /\ mq' = [mq EXCEPT ![m] = Append(@, h)]
           /\ UNCHANGED <<locked, owner, status, ready_list>>
    BY <1>2
  <2> HIDE DEF h, m
  <2>4. /\ \A t \in Tcb : t # current_thread => call'[t] = call[t]
        /\ call'[current_thread].op = "none"
    BY <1>0, <1>2 DEF TypeOK, Idle, Called, self
  <2>5. /\ \A t \in Tcb : t # h => status'[t] = status[t]
        /\ status'[h] \in {"WAITING", "WORKING"}
    BY <2>1, <2>3 DEF TypeOK
  <2>6. Kept(h) BY <1>0, <1>2, <2>4, <2>5 DEF Kept, tableVars
  <2>7. JoinPart'
    <3>1. \A u \in Tcb : u \in Live => u \in Live' BY <1>2, <2>5 DEF Live, tableVars
    <3> QED BY <1>2, <2>1, <2>6, <3>1, JoinFrame DEF InUse
  <2>8. HeapPart'
    <3>1. \A u \in Tcb : status[u] = "DONE" => status'[u] = "DONE" BY <2>1, <2>5
    <3> QED BY <1>2, <3>1, HeapFrame DEF InUse, libVars
  <2>9. \A t \in ToSet(ready_list) : /\ call'[t] = call[t] /\ tid'[t] = tid[t]
                                    /\ t # h /\ status'[t] = "WORKING"
    BY <1>0, <1>2, <2>1, <2>4, <2>5 DEF tableVars
  <2>10. status'[current_thread'] = "WORKING" /\ current_thread' \in all_threads'
    BY <1>0, <1>2, <2>1, <2>5 DEF tableVars
  <2>11. CASE /\ locked[m] = 0
              /\ locked' = [locked EXCEPT ![m] = 1]
              /\ owner' = [owner EXCEPT ![m] = tid[h]]
              /\ status' = [status EXCEPT ![h] = "WORKING"]
              /\ ready_list' = Append(ready_list, h)
              /\ UNCHANGED mq
    <3>1. /\ locked'[m] = 1 /\ owner'[m] = tid[h]
          /\ \A l \in mutexes : l # m => locked'[l] = locked[l] /\ owner'[l] = owner[l]
          /\ mq' = mq
      BY <1>0, <2>1, <2>11 DEF TypeOK
    <3>2. status'[h] = "WORKING" BY <2>1, <2>11 DEF TypeOK
    <3>3. ToSet(ready_list') = ToSet(ready_list) \cup {h} /\ IsInjective(ready_list')
      <4>1. h \notin ToSet(ready_list) BY <2>9
      <4>2. ready_list' = Append(ready_list, h) BY <2>11
      <4> QED BY <1>0, <2>1, <4>1, <4>2, AppendEffect
    <3>4. ReadyPart'
      BY <1>0, <1>2, <2>1, <2>9, <2>10, <3>2, <3>3 DEF ReadyPart, tableVars
    <3>5. MutexPart'
      <4>1. \A l \in mutexes : IsInjective(mq'[l]) /\ \A u \in ToSet(mq'[l]) :
                u \in ToSet(mq[l]) /\ u # h
        BY <2>1, <3>1 DEF InUse, MutexPart
      <4> QED BY <1>2, <2>6, <4>1, MutexFrame DEF InUse
    <3>6. CondPart' BY <1>2, <2>2, <2>6, <3>1, CondPop DEF InUse
    <3>7. HandoffPart'
      <4>1. \A t \in ToSet(ready_list) : call[t].op \in {"lock", "wait"} =>
               /\ call[t].arg \in mutexes /\ call[t].arg # m
               /\ locked[call[t].arg] = 1 /\ owner[call[t].arg] = tid[t]
        BY <2>11 DEF InUse, HandoffPart
      <4>2. call'[h] = call[h] /\ tid'[h] = tid[h] BY <1>2, <2>1, <2>4 DEF tableVars
      <4> QED BY <1>2, <2>1, <2>9, <3>1, <3>3, <4>1, <4>2 DEF HandoffPart
    <3>8. ExclusionPart'
      <4>1. holds[m] = {} BY <2>1, <2>11 DEF InUse, ExclusionPart
      <4> QED BY <1>2, <3>1, <4>1 DEF InUse, ExclusionPart
    <3> QED BY <2>7, <2>8, <3>4, <3>5, <3>6, <3>7, <3>8 DEF InUse
  <2>12. CASE /\ locked[m] = 1
              /\ mq' = [mq EXCEPT ![m] = Append(@, h)]
              /\ UNCHANGED <<locked, owner, status, ready_list>>
    <3> DEFINE q == Append(mq[m], h)
    <3>1. mq'[m] = q /\ \A l \in mutexes : l # m => mq'[l] = mq[l]
      BY <1>0, <2>1, <2>12 DEF TypeOK
    <3>2. ToSet(q) = ToSet(mq[m]) \cup {h} /\ IsInjective(q)
      <4>1. mq[m] \in Seq(Tcb) BY <2>1 DEF TypeOK
      <4>2. IsInjective(mq[m]) /\ h \notin ToSet(mq[m]) BY <2>1 DEF InUse, MutexPart
      <4> QED BY <2>1, <4>1, <4>2, AppendEffect
    <3> HIDE DEF q
    <3>3. ReadyPart' BY <1>2, <2>12 DEF InUse, ReadyPart, tableVars
    <3>4. MutexPart'
      <4>1. \A l \in mutexes : IsInjective(mq[l]) /\ \A t \in ToSet(mq[l]) :
               /\ t \in all_threads' /\ status'[t] = "WAITING"
               /\ call'[t].op \in {"lock", "wait"} /\ call'[t].arg = l
        BY <2>1, <2>6 DEF InUse, MutexPart, Kept
      <4>2. /\ h \in all_threads' /\ status'[h] = "WAITING"
            /\ call'[h].op \in {"lock", "wait"} /\ call'[h].arg = m
        BY <1>2, <2>1, <2>4, <2>12 DEF tableVars
      <4>3. mutexes' = mutexes BY <1>2
      <4> QED BY <3>1, <3>2, <4>1, <4>2, <4>3 DEF MutexPart
    <3>5. CondPart'
      <4>1. \A l \in mutexes : \A t \in ToSet(mq'[l]) : t \in ToSet(mq[l]) \/ t = h
        BY <3>1, <3>2
      <4> QED BY <1>2, <2>2, <2>6, <4>1, CondPop DEF InUse
    <3>6. HandoffPart' BY <1>2, <2>9, <2>12 DEF InUse, HandoffPart
    <3>7. ExclusionPart' BY <1>2, <2>12 DEF InUse, ExclusionPart
    <3> QED BY <2>7, <2>8, <3>3, <3>4, <3>5, <3>6, <3>7 DEF InUse
  <2> QED BY <2>3, <2>11, <2>12
<1> QED BY <1>1, <1>2 DEF thread_cond_signal

-----------------------------------------------------------------------------
(* The end of a thread, and the beginning of the library.                  *)

\* The observer of a terminating thread is woken up; what is destroyed is a
\* thread that has terminated before, so that nothing points to it.
LEMMA TerminateSafe ==
    ASSUME TypeOK, TypeOK', InUse, Running', thread_terminate
    PROVE  InUse'
<1> DEFINE o  == observer[self]
           st == IF o = NULL THEN [status EXCEPT ![self] = "DONE"]
                 ELSE [status EXCEPT ![self] = "DONE", ![o] = "WORKING"]
           rl == IF o = NULL THEN ready_list ELSE Append(ready_list, o)
           d  == next_to_destroy
           h  == IF o = NULL THEN current_thread ELSE o
<1>0. /\ current_thread \in Tcb /\ status[current_thread] = "WORKING"
      /\ all_threads \subseteq Tcb /\ current_thread \in all_threads
      /\ ready_list \in Seq(Tcb) /\ status \in [Tcb -> Status] /\ holds \in History
      /\ IsInjective(ready_list)
      /\ \A t \in ToSet(ready_list) :
           t \in all_threads /\ t \in Tcb /\ t # current_thread /\ status[t] = "WORKING"
  BY Start
<1>1. CASE Crash BY <1>1 DEF Crash, Running
<1>2. ASSUME o # Garbage,
             status' = st,
             observer' = [observer EXCEPT ![self] = NULL],
             destroy_thread({d}),
             next_to_destroy' = self,
             Switch(st, rl, holds),
             call' = [call EXCEPT ![self] = Idle],
             UNCHANGED <<ready, inits, max_id, tid, mutexVars, condVars>>
      PROVE  InUse'
  <2>1. (o = NULL \/ o \in Tcb) /\ NULL \notin Tcb
    <3>1. o \in Tcb \cup {NULL, Garbage} BY <1>0 DEF TypeOK, self
    <3> QED BY <1>2, <3>1, ConstantsAssumption
  <2>2. o # NULL =>
          /\ o \in all_threads /\ o # current_thread /\ status[o] = "WAITING"
          /\ call[o].op = "join" /\ o \notin ToSet(ready_list)
    <3>1. o # NULL => o \in all_threads /\ status[o] = "WAITING" /\ call[o].op = "join"
      BY <1>0, <2>1 DEF InUse, JoinPart, self
    <3> QED BY <1>0, <3>1
  <2>3. /\ st \in [Tcb -> Status] /\ st[current_thread] = "DONE"
        /\ o # NULL => st[o] = "WORKING"
        /\ \A t \in Tcb : t # current_thread /\ t # o => st[t] = status[t]
    <3>1. CASE o = NULL BY <1>0, <3>1 DEF Status, self
    <3>2. CASE o # NULL
      <4> HIDE DEF o
      <4> QED BY <1>0, <2>1, <2>2, <3>2 DEF Status, self
    <3> QED BY <3>1, <3>2
  <2>4. /\ rl \in Seq(Tcb) /\ IsInjective(rl)
        /\ \A t \in ToSet(rl) : t \in ToSet(ready_list) \/ (t = o /\ o # NULL)
    <3>1. CASE o = NULL BY <1>0, <3>1
    <3>2. CASE o # NULL
      <4>1. rl = Append(ready_list, o) BY <3>2
      <4> HIDE DEF o, rl
      <4> QED BY <1>0, <2>1, <2>2, <3>2, <4>1, AppendEffect
    <3> QED BY <3>1, <3>2
  <2>5. status' = st /\ Switch(st, rl, holds) BY <1>2
  <2>6. /\ h \in all_threads /\ h \in Tcb
        /\ \A t \in Tcb : t # current_thread /\ t # h => st[t] = status[t]
        /\ h # current_thread => h = o /\ o # NULL
        /\ h = o \/ o = NULL
    <3> HIDE DEF o, st
    <3> QED BY <1>0, <2>1, <2>2, <2>3
  <2>7. /\ observer'[current_thread] = NULL
        /\ \A u \in Tcb : u # current_thread => observer'[u] = observer[u]
        /\ observer[current_thread] = o
    BY <1>0, <1>2 DEF TypeOK, self
  <2>8. /\ all_threads' = all_threads \ {d} /\ allocated' = allocated \ {d}
        /\ next_to_destroy' = current_thread /\ tid' = tid /\ max_id' = max_id
        /\ mutexes' = mutexes /\ mq' = mq /\ locked' = locked /\ owner' = owner
        /\ conds' = conds /\ cq' = cq
    BY <1>2 DEF destroy_thread, mutexVars, condVars, self
  <2>9. d \in all_threads => status[d] = "DONE"
    <3>1. NULL \notin all_threads BY <1>0, ConstantsAssumption
    <3> QED BY <3>1 DEF InUse, HeapPart
  <2>10. Running BY DEF thread_terminate
  <2> HIDE DEF o, st, rl, d, h
  <2>11. /\ \A t \in Tcb : t # current_thread => call'[t] = call[t]
         /\ call'[current_thread].op = "none"
    BY <1>0, <1>2 DEF TypeOK, Idle, Called, self
  <2>12. \A t \in ToSet(rl) : /\ t \in all_threads /\ t \in Tcb /\ t # current_thread
                             /\ st[t] = "WORKING" /\ t \in all_threads'
    BY <1>0, <2>1, <2>2, <2>3, <2>4, <2>8, <2>9
  <2>13. Switched(st, rl, holds)
    BY <1>0, <2>3, <2>4, <2>5, <2>10, <2>12, SwitchEffect
  <2>14. Kept(h)
    <3>1. \A t \in all_threads : status[t] = "WAITING" /\ t # h =>
             t # d /\ t # current_thread /\ t \in Tcb
      BY <1>0, <2>9
    <3> QED BY <2>5, <2>6, <2>8, <2>11, <3>1 DEF Kept
  <2>15. ReadyPart' /\ HandoffPart' /\ ExclusionPart'
    <3>1. \A t \in ToSet(rl) \cup {current_thread} : st[t] = "WORKING" => t \in all_threads'
      BY <2>3, <2>12
    <3>2. \A t \in ToSet(rl) : call'[t] = call[t] /\ tid'[t] = tid[t]
      BY <2>8, <2>11, <2>12
    <3>3. \A t \in ToSet(rl) : call[t].op \in {"lock", "wait"} =>
              /\ call[t].arg \in mutexes'
              /\ locked'[call[t].arg] = 1 /\ owner'[call[t].arg] = tid[t]
      <4>1. \A t \in ToSet(rl) : call[t].op \in {"lock", "wait"} => t \in ToSet(ready_list)
        BY <2>2, <2>4
      <4> QED BY <2>8, <4>1 DEF InUse, HandoffPart
    <3>4. \A m \in mutexes' : \A k \in holds[m] : locked'[m] = 1 /\ owner'[m] = k
      BY <2>8 DEF InUse, ExclusionPart
    <3> QED BY <2>3, <2>5, <2>13, <3>1, <3>2, <3>3, <3>4, SwitchParts
  <2>16. /\ \A m \in mutexes : \A t \in ToSet(mq[m]) : t # h
         /\ \A c \in conds : \A i \in DOMAIN cq[c] : cq[c][i].thread # h
    <3>1. CASE h = current_thread BY <3>1, Apart
    <3>2. CASE h # current_thread
      <4>1. h = observer[current_thread] BY <2>6, <2>7, <3>2
      <4> QED BY <1>0, <4>1, Apart
    <3> QED BY <3>1, <3>2
  <2>17. MutexPart'
    <3>1. \A m \in mutexes : IsInjective(mq'[m]) /\ \A t \in ToSet(mq'[m]) :
              t \in ToSet(mq[m]) /\ t # h
      BY <2>8, <2>16 DEF InUse, MutexPart
    <3> QED BY <2>8, <2>14, <3>1, MutexFrame DEF InUse
  <2>18. CondPart' BY <2>8, <2>14, <2>16, CondFrame DEF InUse
  <2>19. JoinPart'
    <3>1. ASSUME NEW u \in Tcb, observer'[u] \in Tcb
          PROVE  /\ observer'[u] = observer[u] /\ observer[u] # h
                 /\ u \in Live => u \in Live'
      <4>1. u # current_thread BY <2>7, <3>1, ConstantsAssumption
      <4>2. observer'[u] = observer[u] BY <2>7, <4>1
      <4>3. observer[u] # h
        <5>1. CASE h = current_thread BY <5>1, Apart
        <5>2. CASE h # current_thread
          <6>1. h = observer[current_thread] BY <2>6, <2>7, <5>2
          <6> QED BY <1>0, <3>1, <4>1, <4>2, <6>1 DEF InUse, JoinPart
        <5> QED BY <5>1, <5>2
      <4>4. u \in Live => u \in Live'
        <5>1. u \in Live => u # d BY <2>9 DEF Live
        <5>2. u \in Live => st[u] # "DONE" BY <2>1, <2>3, <4>1 DEF Live
        <5> QED BY <2>5, <2>8, <5>1, <5>2 DEF Live
      <4> QED BY <4>2, <4>3, <4>4
    <3> QED BY <2>14, <3>1, JoinFrame DEF InUse
  <2>20. HeapPart'
    <3>1. current_thread \in all_threads' /\ status'[current_thread] = "DONE"
      BY <1>0, <2>3, <2>5, <2>8, <2>9
    <3> QED BY <2>8, <3>1 DEF InUse, HeapPart
  <2> QED BY <2>15, <2>17, <2>18, <2>19, <2>20 DEF InUse
<1> QED BY <1>1, <1>2 DEF thread_terminate, ToDestroy

\* init() on fresh memory: one thread, and no mutex or condition variable.
LEMMA LibInitSafe ==
    ASSUME TypeOK, TypeOK', Fresh, NEW a \in Tcb, lib_init(a)
    PROVE  InUse'
<1>1. /\ allocated' = {a} /\ all_threads' = {a} /\ current_thread' = a
      /\ status'[a] = "WORKING" /\ tid'[a] = 0 /\ max_id' = 1
      /\ ready_list' = <<>> /\ mutexes' = {} /\ conds' = {}
      /\ next_to_destroy' = NULL /\ observer' = observer
  BY DEF lib_init, NewThread, Fresh, TypeOK
<1>2. DOMAIN ready_list' = {} BY <1>1
<1>3. ReadyPart' BY <1>1, <1>2 DEF ReadyPart, IsInjective, ToSet
<1>4. MutexPart' /\ CondPart' /\ ExclusionPart'
  BY <1>1 DEF MutexPart, CondPart, ExclusionPart
<1>5. JoinPart' BY <1>1 DEF JoinPart, Fresh
<1>6. HeapPart' BY <1>1 DEF HeapPart
<1>7. HandoffPart' BY <1>2 DEF HandoffPart, ToSet
<1> QED BY <1>3, <1>4, <1>5, <1>6, <1>7 DEF InUse

-----------------------------------------------------------------------------
(* The theorems.                                                           *)

\* No call but init() counts as one, and none but a termination frees
\* memory while the library stays in use.
LEMMA CallFrame ==
    ASSUME Next, Running
    PROVE  /\ inits' = inits
           /\ allocated \subseteq allocated' \/ thread_terminate \/ ready' = 0
<1> USE DEF Return, Crash, libVars, tableVars
<1>1. ASSUME NEW a \in Tcb, lib_init(a) PROVE FALSE BY <1>1 DEF lib_init, Running
<1>2. ASSUME NEW a \in Tcb, thread_create(a)
      PROVE  inits' = inits /\ allocated \subseteq allocated'
  BY <1>2 DEF thread_create, NewThread
<1>3. CASE thread_yield BY <1>3 DEF thread_yield
<1>4. ASSUME NEW k \in 0 .. max_id, thread_join(k)
      PROVE  inits' = inits /\ allocated' = allocated
  BY <1>4 DEF thread_join
<1>5. ASSUME NEW m \in Mutex \cup {NULL}, thread_mutex_init(m)
      PROVE  inits' = inits /\ allocated' = allocated
  BY <1>5 DEF thread_mutex_init
<1>6. ASSUME NEW m \in Mutex \cup {NULL}, thread_mutex_lock(m)
      PROVE  inits' = inits /\ allocated' = allocated
  BY <1>6 DEF thread_mutex_lock
<1>7. ASSUME NEW m \in Mutex \cup {NULL}, thread_mutex_unlock(m)
      PROVE  inits' = inits /\ allocated' = allocated
  BY <1>7 DEF thread_mutex_unlock
<1>8. ASSUME NEW m \in Mutex \cup {NULL}, NEW c \in Cond \cup {NULL}, thread_cond_wait(c, m)
      PROVE  inits' = inits /\ allocated' = allocated
  BY <1>8 DEF thread_cond_wait
<1>9. ASSUME NEW c \in Cond \cup {NULL}, thread_cond_init(c)
      PROVE  inits' = inits /\ allocated' = allocated
  BY <1>9 DEF thread_cond_init
<1>10. ASSUME NEW c \in Cond \cup {NULL}, thread_cond_signal(c)
      PROVE  inits' = inits /\ allocated' = allocated
  BY <1>10 DEF thread_cond_signal
<1>11. CASE thread_terminate
  <2>1. inits' = inits BY <1>11 DEF thread_terminate
  <2> QED BY <1>11, <2>1
<1>12. CASE thread_cleanup BY <1>12 DEF thread_cleanup
<1>13. CASE Exited BY <1>13 DEF Exited, vars
<1> QED
  BY <1>1, <1>2, <1>3, <1>4, <1>5, <1>6, <1>7, <1>8, <1>9, <1>10, <1>11, <1>12, <1>13
  DEF Next

\* Every call that leaves the library in use leaves it in order.
LEMMA CallSafe ==
    ASSUME TypeOK, TypeOK', InUse, Running, Running', Next
    PROVE  InUse'
<1>1. ASSUME NEW a \in Tcb, lib_init(a) PROVE InUse' BY <1>1 DEF lib_init, Running
<1>2. ASSUME NEW a \in Tcb, thread_create(a) PROVE InUse' BY <1>2, CreateSafe
<1>3. CASE thread_yield BY <1>3, YieldSafe
<1>4. ASSUME NEW k \in 0 .. max_id, thread_join(k) PROVE InUse'
  <2>1. k \in Nat BY DEF TypeOK
  <2> QED BY <1>4, <2>1, JoinSafe
<1>5. ASSUME NEW m \in Mutex \cup {NULL}, thread_mutex_init(m) PROVE InUse'
  BY <1>5, MutexInitSafe
<1>6. ASSUME NEW m \in Mutex \cup {NULL}, thread_mutex_lock(m) PROVE InUse'
  BY <1>6, LockSafe
<1>7. ASSUME NEW m \in Mutex \cup {NULL}, thread_mutex_unlock(m) PROVE InUse'
  BY <1>7, UnlockSafe
<1>8. ASSUME NEW m \in Mutex \cup {NULL}, NEW c \in Cond \cup {NULL}, thread_cond_wait(c, m)
      PROVE  InUse'
  BY <1>8, WaitSafe
<1>9. ASSUME NEW c \in Cond \cup {NULL}, thread_cond_init(c) PROVE InUse'
  BY <1>9, CondInitSafe
<1>10. ASSUME NEW c \in Cond \cup {NULL}, thread_cond_signal(c) PROVE InUse'
  BY <1>10, SignalSafe
<1>11. CASE thread_terminate BY <1>11, TerminateSafe
<1>12. CASE thread_cleanup
  <2>1. CASE Return("none", NULL, 0) BY <2>1, ReturnSafe
  <2>2. CASE ready' = 0 BY <2>2 DEF Running
  <2> QED BY <1>12, <2>1, <2>2 DEF thread_cleanup
<1>13. CASE Exited BY <1>13, SMTT(40) DEF Exited, Running
<1> QED
  BY <1>1, <1>2, <1>3, <1>4, <1>5, <1>6, <1>7, <1>8, <1>9, <1>10, <1>11, <1>12, <1>13
  DEF Next

\* Before the library is used, only init() can be the next call.
LEMMA OutsideCall ==
    ASSUME Next, ~Running
    PROVE  (\E a \in Tcb : lib_init(a)) \/ UNCHANGED vars
BY DEF Next, thread_create, thread_yield, thread_join, thread_mutex_init, thread_mutex_lock,
       thread_mutex_unlock, thread_cond_wait, thread_cond_init, thread_cond_signal,
       thread_terminate, thread_cleanup, Exited

\* A step that changes nothing.
LEMMA UnchangedSafe ==
    ASSUME IInv, UNCHANGED vars
    PROVE  IInv'
<1> USE DEF vars, libVars, tableVars, mutexVars, condVars, schedVars
<1>1. TypeOK' BY ExitedType DEF IInv
<1>2. inits' = inits /\ (Fresh => Fresh') /\ (Running' => Running) BY DEF Fresh, Running
<1>3. InUse => ReadyPart' /\ HandoffPart' /\ ExclusionPart'
  BY DEF InUse, ReadyPart, HandoffPart, ExclusionPart
<1>4. InUse => MutexPart' BY DEF InUse, MutexPart
<1>5. InUse => CondPart' BY DEF InUse, CondPart
<1>6. InUse => JoinPart' /\ HeapPart' BY DEF InUse, JoinPart, HeapPart, Live
<1> QED BY <1>1, <1>2, <1>3, <1>4, <1>5, <1>6 DEF IInv, InUse

\* IInv holds in every state of every execution.
THEOREM Invariant == Spec => []IInv
<1>1. Init => IInv
  <2> SUFFICES ASSUME Init PROVE IInv OBVIOUS
  <2>1. TypeOK BY InitType
  <2>2. \A u \in Tcb : observer[u] \in {NULL, Garbage} BY ConstantsAssumption DEF Init
  <2>3. Fresh BY <2>2, ConstantsAssumption DEF Init, Fresh
  <2> QED BY <2>1, <2>3 DEF IInv, Fresh, Running
<1>2. IInv /\ [Next]_vars => IInv'
  <2> SUFFICES ASSUME IInv, Next PROVE IInv' BY UnchangedSafe
  <2>1. TypeOK /\ TypeOK' BY TypeStep DEF IInv
  <2>2. CASE Running
    <3>1. inits # 0 /\ inits' = inits BY <2>2, CallFrame DEF IInv, Fresh, Running
    <3> QED BY <2>1, <2>2, <3>1, CallSafe DEF IInv
  <2>3. CASE ~Running
    <3>1. CASE UNCHANGED vars BY <3>1, UnchangedSafe
    <3>2. ASSUME NEW a \in Tcb, lib_init(a) PROVE IInv'
      <4>1. inits' = inits + 1 /\ inits \in Nat BY <2>1, <3>2 DEF lib_init, TypeOK
      <4>2. inits' # 0 /\ (inits' = 1 => inits = 0) BY <4>1
      <4>3. inits = 0 => InUse' BY <2>1, <3>2, LibInitSafe DEF IInv
      <4> QED BY <2>1, <4>2, <4>3 DEF IInv
    <3> QED BY <2>3, <3>1, <3>2, OutsideCall
  <2> QED BY <2>2, <2>3
<1> QED BY <1>1, <1>2, PTL DEF Spec

\* For any number of threads, mutexes and condition variables: in the first
\* use of the library at most one thread has been told by
\* thread_mutex_lock or thread_cond_wait that it holds a mutex, and that
\* thread is the mutex's owner.
THEOREM MutexSafe == Spec => [](inits <= 1 => MutualExclusion)
<1>1. IInv => (inits <= 1 => MutualExclusion)
  <2> SUFFICES ASSUME IInv, inits <= 1, Running PROVE ExclusionPart
    BY DEF MutualExclusion, ExclusionPart
  <2>1. inits = 0 \/ inits = 1 BY DEF IInv, TypeOK
  <2> QED BY <2>1 DEF IInv, Fresh, Running, InUse
<1> QED BY <1>1, Invariant, PTL

\* If the library is used once, thread_terminate never frees the memory of
\* a thread that can still run.
THEOREM DestructionDeferred == MaxInits <= 1 => (Spec => DeferredDestruction)
<1> SUFFICES ASSUME MaxInits <= 1 PROVE Spec => DeferredDestruction OBVIOUS
<1> DEFINE OnlyDone == Running /\ ready' = 1 => \A t \in allocated \ allocated' : status[t] = "DONE"
<1>1. IInv /\ [Next]_vars => [OnlyDone]_vars
  <2> SUFFICES ASSUME IInv, Next, Running, ready' = 1, NEW t \in allocated \ allocated'
               PROVE  status[t] = "DONE"
    OBVIOUS
  <2>1. inits = 1
    <3>1. inits # 0 BY DEF IInv, Fresh, Running
    <3> QED BY <3>1, ConstantsAssumption DEF IInv, TypeOK
  <2>2. InUse BY <2>1 DEF IInv
  <2>3. thread_terminate BY CallFrame
  <2>4. t = next_to_destroy
    BY <2>3 DEF thread_terminate, destroy_thread, ToDestroy, Crash, tableVars
  <2>5. t # NULL BY ConstantsAssumption DEF IInv, TypeOK
  <2> QED BY <2>2, <2>4, <2>5 DEF InUse, HeapPart
<1> QED BY <1>1, Invariant, PTL DEF Spec, DeferredDestruction
=============================================================================
