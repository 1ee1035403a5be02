------------------------- MODULE ThreadsOrderProofs -------------------------
(***************************************************************************)
(* On top of the inductive invariant of ThreadsSafetyProofs:               *)
(* detect_deadlock finds a circle of joins exactly when the join would     *)
(* close one, and so no circle ever comes about; no thread is lost, nobody *)
(* waits for a free mutex, a thread_join returns after its target, queues  *)
(* are served in order, and from a clean heap nothing follows a dangling   *)
(* pointer.                                                                *)
(***************************************************************************)
EXTENDS ThreadsSafetyProofs, PointerWalks

\* Chain is the walk from the running thread along the observers.
LEMMA ChainWalk ==
    ASSUME NEW obs
    PROVE  /\ Cardinality(Tcb) \in Nat
           /\ IsWalk(Chain(obs), 2 * Cardinality(Tcb), current_thread, obs, Tcb)
           /\ IsWalk(Chain(obs), Cardinality(Tcb), current_thread, obs, Tcb)
<1> DEFINE n == Cardinality(Tcb)
           l == 2 * n
           c == Chain(obs)
           Step(d, k) == IF d[k] \in Tcb THEN obs[d[k]] ELSE d[k]
<1>1. n \in Nat BY FS_CardinalityType, ConstantsAssumption
<1> HIDE DEF n
<1>2. l \in Nat BY <1>1
<1>3. \E d : Walks(d, l, self, obs, Tcb)
  <2> HIDE DEF l
  <2> QED BY <1>2, WalkExists, SMTT(40)
<1>4. c = [k \in 0 .. l |-> IF k = 0 THEN self
                           ELSE IF c[k-1] \in Tcb THEN obs[c[k-1]] ELSE c[k-1]]
  BY <1>3 DEF Chain, Walks, n
<1> HIDE DEF c, l
<1>5. c[0] = current_thread BY <1>2, <1>4 DEF self
<1>6. ASSUME NEW k \in 0 .. l - 1 PROVE c[k + 1] = Step(c, k)
  <2>1. k + 1 \in 0 .. l /\ k + 1 # 0 /\ k + 1 - 1 = k BY <1>2
  <2>2. \A i \in 0 .. l : i # 0 => c[i] = Step(c, i - 1) BY <1>4
  <2> QED BY <2>1, <2>2
<1>7. \A k \in 0 .. n - 1 : k \in 0 .. l - 1 BY <1>1 DEF l
<1> QED BY <1>1, <1>5, <1>6, <1>7 DEF IsWalk, n, c, l

\* The walk stays in a set that it starts in and that the pointers keep to.
LEMMA ChainInside ==
    ASSUME NEW obs, NEW S, NEW l \in Nat, l <= 2 * Cardinality(Tcb), current_thread \in S,
           \A k \in 0 .. l - 1 : Chain(obs)[k] \in S \cap Tcb => obs[Chain(obs)[k]] \in S
    PROVE  \A k \in 0 .. l : Chain(obs)[k] \in S
<1> DEFINE c == Chain(obs)
           n == 2 * Cardinality(Tcb)
           R == {k \in Nat : k <= l => c[k] \in S}
<1>0. n \in Nat /\ IsWalk(c, n, current_thread, obs, Tcb) BY ChainWalk
<1> HIDE DEF c, n
<1>1. 0 \in R BY <1>0 DEF IsWalk
<1>2. ASSUME NEW k \in Nat, k \in R PROVE k + 1 \in R
  <2> SUFFICES ASSUME k + 1 <= l PROVE c[k + 1] \in S OBVIOUS
  <2>1. k <= l /\ k \in 0 .. l - 1 OBVIOUS
  <2>2. k \in 0 .. n - 1 BY <1>0, <2>1 DEF n
  <2>3. c[k + 1] = IF c[k] \in Tcb THEN obs[c[k]] ELSE c[k] BY <1>0, <2>2 DEF IsWalk
  <2> QED BY <1>2, <2>1, <2>3 DEF c
<1>3. \A k \in Nat : k \in R
  <2> HIDE DEF R
  <2> QED BY <1>1, <1>2, NatSetInduction
<1> QED BY <1>3 DEF c

\* Where no observer is garbage, the walk meets none.
LEMMA NoFault ==
    ASSUME NEW obs, current_thread \in Tcb, \A u \in Tcb : obs[u] \in Tcb \cup {NULL}
    PROVE  ~WalkFaults(obs)
<1> DEFINE n == 2 * Cardinality(Tcb)
           S == Tcb \cup {NULL}
<1>1. n \in Nat /\ n <= 2 * Cardinality(Tcb) BY ChainWalk
<1>2. \A k \in 0 .. n : Chain(obs)[k] \in S
  <2>1. current_thread \in S /\ \A u \in S \cap Tcb : obs[u] \in S OBVIOUS
  <2> HIDE DEF n, S
  <2> QED BY <1>1, <2>1, ChainInside
<1>3. \A k \in 1 .. n : k \in 0 .. n BY <1>1
<1> QED BY <1>2, <1>3, ConstantsAssumption DEF WalkFaults
-----------------------------------------------------------------------------
\* Who waits for a thread of the set, or for x, is in the set.
Closed(x, set) == \A u \in set \cup {x} : Joiner(u) \subseteq set

\* The threads that wait for x are the least closed set.
LEMMA HeldLeast ==
    ASSUME NEW x
    PROVE  /\ HeldUpBy(x) \in SUBSET Tcb /\ Closed(x, HeldUpBy(x))
           /\ \A set \in SUBSET Tcb : Closed(x, set) => HeldUpBy(x) \subseteq set
<1>1. HeldUpBy(x) \in SUBSET Tcb BY DEF HeldUpBy
<1>2. \A set \in SUBSET Tcb : Closed(x, set) => HeldUpBy(x) \subseteq set
  BY DEF HeldUpBy, Closed
<1>3. ASSUME NEW u \in HeldUpBy(x) \cup {x}, NEW w \in Joiner(u) PROVE w \in HeldUpBy(x)
  <2>1. w \in Tcb BY DEF Joiner
  <2>2. ASSUME NEW set \in SUBSET Tcb, Closed(x, set) PROVE w \in set
    BY <1>2, <2>2 DEF Closed
  <2> QED BY <2>1, <2>2 DEF HeldUpBy, Closed
<1> QED BY <1>1, <1>2, <1>3 DEF Closed

\* Who waits for a thread that waits for x waits for x.
LEMMA HeldThrough ==
    ASSUME NEW x, NEW y \in HeldUpBy(x)
    PROVE  HeldUpBy(y) \subseteq HeldUpBy(x)
<1>1. HeldUpBy(x) \in SUBSET Tcb /\ Closed(y, HeldUpBy(x)) BY HeldLeast DEF Closed
<1> QED BY <1>1, HeldLeast

\* Where fewer threads wait, no circle comes about.
LEMMA FewerJoins ==
    ASSUME \A u \in Tcb : Joiner(u)' \subseteq Joiner(u), \A u \in Tcb : u \notin HeldUpBy(u)
    PROVE  \A u \in Tcb : u \notin HeldUpBy(u)'
<1> SUFFICES ASSUME NEW u \in Tcb PROVE HeldUpBy(u)' \subseteq HeldUpBy(u) OBVIOUS
<1>1. HeldUpBy(u) \in SUBSET Tcb /\ Closed(u, HeldUpBy(u)) BY HeldLeast
<1>2. \A v \in HeldUpBy(u) \cup {u} : Joiner(v)' \subseteq HeldUpBy(u) BY <1>1 DEF Closed
<1> QED BY <1>1, <1>2 DEF HeldUpBy

\* Neither does one when s begins to wait for t and t does not wait for s.
LEMMA OneMoreJoin ==
    ASSUME NEW s \in Tcb, NEW t \in Tcb, s # t, t \notin HeldUpBy(s), Joiner(t)' \subseteq {s},
           \A u \in Tcb : u # t => Joiner(u)' \subseteq Joiner(u),
           \A u \in Tcb : u \notin HeldUpBy(u)
    PROVE  \A u \in Tcb : u \notin HeldUpBy(u)'
<1> SUFFICES ASSUME NEW x \in Tcb PROVE x \notin HeldUpBy(x)' OBVIOUS
<1>1. /\ HeldUpBy(x) \in SUBSET Tcb /\ HeldUpBy(s) \in SUBSET Tcb
      /\ \A u \in HeldUpBy(x) \cup {x} : Joiner(u) \subseteq HeldUpBy(x)
      /\ \A u \in HeldUpBy(s) \cup {s} : Joiner(u) \subseteq HeldUpBy(s)
  BY HeldLeast DEF Closed
<1>2. CASE t \notin HeldUpBy(x) \cup {x}
  <2>1. \A u \in HeldUpBy(x) \cup {x} : Joiner(u)' \subseteq HeldUpBy(x) BY <1>1, <1>2
  <2> QED BY <1>1, <2>1 DEF HeldUpBy
<1>3. CASE t \in HeldUpBy(x) \cup {x}
  <2> DEFINE set == HeldUpBy(x) \cup HeldUpBy(s) \cup {s}
  <2>1. set \in SUBSET Tcb BY <1>1
  <2>2. \A u \in set \cup {x} : Joiner(u)' \subseteq set BY <1>1
  <2>3. x \notin set BY <1>3, HeldThrough
  <2> HIDE DEF set
  <2> QED BY <2>1, <2>2, <2>3 DEF HeldUpBy
<1> QED BY <1>2, <1>3
-----------------------------------------------------------------------------
\* The running thread may wait for t; obs are the observers when it does.
Joining(t, obs) ==
    /\ t \in Live \ {current_thread} /\ observer[t] = NULL
    /\ obs = [observer EXCEPT ![t] = current_thread]

\* The observers when the running thread is about to wait for t: a thread
\* observes one other at most, and the running thread only t.
LEMMA JoinPointers ==
    ASSUME TypeOK, InUse, NEW t, NEW obs, Joining(t, obs)
    PROVE  /\ current_thread \in Tcb /\ t \in Tcb
           /\ obs[t] = current_thread /\ \A u \in Tcb : u # t => obs[u] = observer[u]
           /\ PointedOnce(obs, Tcb)
           /\ \A u \in Tcb : obs[u] = current_thread => u = t
           /\ \A u \in Tcb : obs[u] \in Tcb => obs[u] \in all_threads
           /\ \A u \in Tcb : u # t /\ obs[u] \in Tcb => obs[u] \in Joiner(u)
           /\ \A u \in Tcb : \A w \in Joiner(u) : u # t /\ obs[u] = w
<1>1. current_thread \in Tcb /\ t \in Tcb /\ current_thread \in all_threads /\ t # current_thread
  BY Start DEF Live, Joining
<1>2. obs[t] = current_thread /\ \A u \in Tcb : u # t => obs[u] = observer[u]
  BY <1>1 DEF TypeOK, Joining
<1>3. \A u \in Tcb : observer[u] # current_thread BY Apart
<1>4. /\ \A u \in Tcb : observer[u] \in Tcb => u \in Live /\ observer[u] \in all_threads
      /\ \A u, v \in Tcb : observer[u] \in Tcb /\ observer[u] = observer[v] => u = v
  BY DEF InUse, JoinPart
<1>5. NULL \notin Tcb /\ observer[t] = NULL BY ConstantsAssumption DEF Joining
<1>6. PointedOnce(obs, Tcb) BY <1>1, <1>2, <1>3, <1>4 DEF PointedOnce
<1> QED BY <1>1, <1>2, <1>3, <1>4, <1>5, <1>6 DEF Joiner

\* If the two pointers of detect_deadlock meet, t waits for the running thread.
LEMMA MeetsOnCircle ==
    ASSUME TypeOK, InUse, NEW t, NEW obs, Joining(t, obs), detect_deadlock(obs)
    PROVE  t \in HeldUpBy(current_thread)
<1> DEFINE n == Cardinality(Tcb)
           c == Chain(obs)
           l == 2 * n
           S == HeldUpBy(current_thread) \cup {current_thread}
<1>a. /\ current_thread \in Tcb /\ t \in Tcb /\ obs[t] = current_thread
      /\ PointedOnce(obs, Tcb)
      /\ \A u \in Tcb : obs[u] = current_thread => u = t
      /\ \A u \in Tcb : obs[u] \in Tcb => obs[u] \in all_threads
      /\ \A u \in Tcb : u # t /\ obs[u] \in Tcb => obs[u] \in Joiner(u)
  BY JoinPointers
<1>0. n \in Nat /\ l \in Nat /\ IsWalk(c, l, current_thread, obs, Tcb) BY ChainWalk
<1>1. PICK k \in 1 .. n : c[2 * k] \in Tcb /\ tid[c[k]] = tid[c[2 * k]] BY DEF detect_deadlock
<1> HIDE DEF n, c
<1>2. /\ 2 * k \in 0 .. l /\ k \in 0 .. l /\ k - 1 \in 0 .. l - 1 /\ 2 * k - 1 \in 0 .. l - 1
      /\ k - 1 \in Nat /\ k - 1 \in 0 .. l /\ 2 * k - 1 \in 0 .. l
      /\ k <= 2 * k /\ k - 1 <= 2 * k /\ 2 * k - 1 <= 2 * k
      /\ 2 * k - k = k /\ k - 1 + 1 = k /\ 2 * k - 1 + 1 = 2 * k /\ k - 1 <= l
  BY <1>0
<1> HIDE DEF l
<1>3. c[k] \in Tcb /\ c[k - 1] \in Tcb /\ c[2 * k - 1] \in Tcb
  BY <1>0, <1>1, <1>2, WalkInside
<1>4. c[k] = obs[c[k - 1]] /\ c[2 * k] = obs[c[2 * k - 1]]
  BY <1>0, <1>2, <1>3 DEF IsWalk
<1>5. c[k] \in all_threads /\ c[2 * k] \in all_threads
  BY <1>1, <1>3, <1>4, <1>a
<1>6. c[k] = c[2 * k] BY <1>1, <1>5 DEF InUse, HeapPart
<1>7. c[k] = current_thread
  BY <1>0, <1>1, <1>2, <1>6, <1>a, WalkBack
<1>8. c[k - 1] = t BY <1>3, <1>4, <1>7, <1>a
<1>9. ASSUME NEW u \in S \cap Tcb PROVE obs[u] \in S \/ obs[u] \notin Tcb
  BY HeldLeast, <1>a DEF Closed
<1>10. ASSUME NEW j \in 0 .. (k - 1) - 1, c[j] \in S \cap Tcb PROVE obs[c[j]] \in S
  <2>1. j \in 0 .. l - 1 /\ j + 1 \in 0 .. l /\ j + 1 <= 2 * k BY <1>2, <1>0
  <2>2. c[j + 1] = obs[c[j]] BY <1>0, <1>10, <2>1 DEF IsWalk
  <2>3. c[j + 1] \in Tcb BY <1>0, <1>1, <1>2, <2>1, WalkInside
  <2> QED BY <1>9, <1>10, <2>2, <2>3
<1>11. \A j \in 0 .. k - 1 : c[j] \in S
  <2>1. current_thread \in S OBVIOUS
  <2> DEFINE e == k - 1
  <2>2. e \in Nat /\ e <= 2 * Cardinality(Tcb) BY <1>2 DEF l, n
  <2>3. \A j \in 0 .. e - 1 : Chain(obs)[j] \in S \cap Tcb => obs[Chain(obs)[j]] \in S
    BY <1>10 DEF c
  <2> HIDE DEF e, S
  <2>4. \A j \in 0 .. e : Chain(obs)[j] \in S BY <2>1, <2>2, <2>3, ChainInside
  <2> QED BY <2>4 DEF e, c
<1>12. k - 1 \in 0 .. k - 1 BY <1>2
<1> QED BY <1>8, <1>11, <1>12 DEF Joining

\* If they do not meet, t does not wait for the running thread.
LEMMA MissesOffCircle ==
    ASSUME TypeOK, InUse, NEW t, NEW obs, Joining(t, obs), ~detect_deadlock(obs)
    PROVE  t \notin HeldUpBy(current_thread)
<1> DEFINE n == Cardinality(Tcb)
           c == Chain(obs)
           l == 2 * n
           A == {c[j] : j \in 1 .. n} \cap Tcb
<1>a. /\ current_thread \in Tcb /\ t \in Tcb /\ obs[t] = current_thread
      /\ PointedOnce(obs, Tcb)
      /\ \A u \in Tcb : \A w \in Joiner(u) : obs[u] = w
  BY JoinPointers
<1>0. /\ n \in Nat /\ l \in Nat
      /\ IsWalk(c, l, current_thread, obs, Tcb) /\ IsWalk(c, n, current_thread, obs, Tcb)
  BY ChainWalk
<1>1. ASSUME NEW k \in 1 .. n PROVE c[k] # current_thread
  <2> SUFFICES ASSUME c[k] = current_thread PROVE FALSE OBVIOUS
  <2>1. k \in Nat /\ 2 * k <= l BY <1>0
  <2>2. c[2 * k] = current_thread
    <3> HIDE DEF c, l
    <3> QED BY <1>0, <1>1, <2>1, WalkRound
  <2> QED BY <2>2, <1>a DEF detect_deadlock
<1>2. c[n] \notin Tcb
  <2> HIDE DEF c
  <2> QED BY <1>0, <1>1, <1>a, WalkEnds, ConstantsAssumption
<1> HIDE DEF n, c, l
<1>3. ASSUME NEW j \in 0 .. n, c[j] \in Tcb
      PROVE  j \in 0 .. n - 1 /\ j + 1 \in 1 .. n /\ c[j + 1] = obs[c[j]]
  <2>1. j # n BY <1>2, <1>3
  <2>2. j \in 0 .. n - 1 /\ j + 1 \in 1 .. n BY <1>0, <2>1
  <2> QED BY <1>0, <1>3, <2>2 DEF IsWalk
<1>4. A \in SUBSET Tcb OBVIOUS
<1>5. Closed(current_thread, A)
  <2> SUFFICES ASSUME NEW u \in A \cup {current_thread}, NEW w \in Joiner(u) PROVE w \in A
    BY DEF Closed
  <2>1. u \in Tcb /\ w \in Tcb BY <1>a DEF Joiner
  <2>2. obs[u] = w BY <2>1, <1>a
  <2>3. PICK j \in 0 .. n : u = c[j]
    <3>1. CASE u = current_thread BY <1>0, <3>1 DEF IsWalk
    <3>2. CASE u \in A
      <4>1. PICK j \in 1 .. n : u = c[j] BY <3>2
      <4>2. j \in 0 .. n BY <1>0
      <4> QED BY <4>1, <4>2
    <3> QED BY <3>1, <3>2
  <2> QED BY <1>3, <2>1, <2>2, <2>3
<1>6. t \notin A
  <2> SUFFICES ASSUME NEW j \in 1 .. n, t = c[j] PROVE FALSE OBVIOUS
  <2>1. j \in 0 .. n /\ t \in Tcb BY <1>0, <1>a
  <2>2. c[j + 1] = current_thread /\ j + 1 \in 1 .. n BY <1>3, <2>1, <1>a
  <2> QED BY <1>1, <2>2
<1> HIDE DEF A
<1> QED BY <1>4, <1>5, <1>6, HeldLeast

\* detect_deadlock is exact.
LEMMA Detection ==
    ASSUME TypeOK, InUse
    PROVE  DetectionExact
<1> SUFFICES ASSUME NEW t \in Live \ {current_thread}, observer[t] = NULL
             PROVE  detect_deadlock([observer EXCEPT ![t] = current_thread])
                        <=> t \in HeldUpBy(current_thread)
  BY DEF DetectionExact
<1> DEFINE obs == [observer EXCEPT ![t] = current_thread]
<1> HIDE DEF obs
<1>1. Joining(t, obs) BY DEF obs, Joining
<1>2. detect_deadlock(obs) <=> t \in HeldUpBy(current_thread)
  BY <1>1, MeetsOnCircle, MissesOffCircle, SMTT(40)
<1> QED BY <1>2 DEF obs
-----------------------------------------------------------------------------
\* What a call may do to the observers: it clears them, or the running
\* thread becomes the observer of a thread that does not wait for it.
LEMMA ObserverStep ==
    ASSUME TypeOK, Running, Next
    PROVE  \/ \A u \in Tcb : observer'[u] \in {observer[u], NULL}
           \/ \E t : \E obs : Joining(t, obs) /\ ~detect_deadlock(obs) /\ observer' = obs
<1>1. ASSUME NEW k, thread_join(k), observer' # observer
      PROVE  \E t : \E obs : Joining(t, obs) /\ ~detect_deadlock(obs) /\ observer' = obs
  <2>1. PICK t \in all_threads :
          /\ tid[self] # k /\ tid[t] = k /\ status[t] # "DONE" /\ observer[t] = NULL
          /\ LET obs == [observer EXCEPT ![t] = self]
             IN ~detect_deadlock(obs) /\ observer' = obs
    BY <1>1 DEF thread_join, Return, Crash
  <2> DEFINE obs == [observer EXCEPT ![t] = self]
  <2>2. Joining(t, obs) BY <2>1 DEF Joining, Live, self
  <2> HIDE DEF obs
  <2> QED BY <2>1, <2>2 DEF obs
<1>2. CASE observer' = observer BY <1>2
<1>3. CASE thread_terminate
  <2>1. observer' \in {observer, [observer EXCEPT ![self] = NULL]}
    BY <1>3 DEF thread_terminate, Crash
  <2> QED BY <2>1 DEF TypeOK
<1> QED
  BY <1>1, <1>2, <1>3
  DEF Next, lib_init, thread_create, thread_yield, thread_mutex_init, thread_mutex_lock,
      thread_mutex_unlock, thread_cond_wait, thread_cond_init, thread_cond_signal,
      thread_cleanup, Exited, Return, vars, schedVars

\* No call makes threads wait for each other in a circle.
LEMMA CallAcyclic ==
    ASSUME TypeOK, InUse, Running, Next, JoinAcyclic
    PROVE  JoinAcyclic'
<1>1. \A u \in Tcb : u \notin HeldUpBy(u) BY DEF JoinAcyclic
<1>2. NULL \notin Tcb BY ConstantsAssumption
<1>3. \A u \in Tcb : observer[u] \in Tcb => u \in Live BY DEF InUse, JoinPart
<1>4. CASE \A u \in Tcb : observer'[u] \in {observer[u], NULL}
  <2>1. \A u \in Tcb : Joiner(u)' \subseteq Joiner(u) BY <1>2, <1>3, <1>4 DEF Joiner
  <2> QED BY <1>1, <2>1, FewerJoins DEF JoinAcyclic
<1>5. ASSUME NEW t, NEW obs, Joining(t, obs), ~detect_deadlock(obs), observer' = obs
      PROVE  JoinAcyclic'
  <2>1. PICK s \in Tcb : s = current_thread BY DEF TypeOK, Running
  <2>2. t \notin HeldUpBy(s) BY <1>5, <2>1, MissesOffCircle
  <2>3. t \in Tcb /\ s # t BY <1>5, <2>1 DEF Joining, Live, TypeOK
  <2>4. Joiner(t)' \subseteq {s} BY <1>5, <2>1, JoinPointers DEF Joiner
  <2>5. \A u \in Tcb : u # t => obs[u] = observer[u] BY <1>5, JoinPointers
  <2>6. \A u \in Tcb : u # t => Joiner(u)' \subseteq Joiner(u)
    BY <1>3, <1>5, <2>5 DEF Joiner
  <2> QED BY <1>1, <2>1, <2>2, <2>3, <2>4, <2>6, OneMoreJoin DEF JoinAcyclic
<1> QED BY <1>4, <1>5, ObserverStep

\* Where nobody observes anybody, nobody waits.
LEMMA NoObservers == (\A u \in Tcb : observer[u] \notin Tcb) => JoinAcyclic
<1> SUFFICES ASSUME \A u \in Tcb : observer[u] \notin Tcb PROVE JoinAcyclic OBVIOUS
<1>1. \A u \in Tcb : Closed(u, {}) BY DEF Closed, Joiner
<1>2. {} \in SUBSET Tcb OBVIOUS
<1>3. \A u \in Tcb : HeldUpBy(u) \subseteq {} BY <1>1, <1>2, HeldLeast
<1> QED BY <1>3 DEF JoinAcyclic
-----------------------------------------------------------------------------
(* Queues: the other halves of AppendEffect and TailEffect, and prefixes.  *)

\* queue_pop takes the first element and leaves all the others.
LEMMA TailSet ==
    ASSUME NEW S, NEW s \in Seq(S), s # <<>>
    PROVE  ToSet(s) = {Head(s)} \cup ToSet(Tail(s))
<1>1. /\ Len(s) \in Nat /\ Len(s) >= 1 /\ Head(s) = s[1] /\ Head(s) \in ToSet(s)
      /\ DOMAIN s = 1 .. Len(s) /\ DOMAIN Tail(s) = 1 .. Len(s) - 1
      /\ \A j \in 1 .. Len(s) - 1 : Tail(s)[j] = s[j + 1]
      /\ ToSet(Tail(s)) \subseteq ToSet(s)
  BY TailEffect
<1>2. ASSUME NEW i \in 1 .. Len(s), i # 1 PROVE s[i] \in ToSet(Tail(s))
  <2>1. i - 1 \in 1 .. Len(s) - 1 /\ i - 1 + 1 = i BY <1>1, <1>2
  <2>2. Tail(s)[i - 1] = s[i] BY <1>1, <2>1
  <2> QED BY <1>1, <2>1, <2>2 DEF ToSet
<1>3. ToSet(s) \subseteq {Head(s)} \cup ToSet(Tail(s)) BY <1>1, <1>2 DEF ToSet
<1> QED BY <1>1, <1>3

\* A queue is a prefix of itself, and stays one when something is pushed.
LEMMA PrefixAppend ==
    ASSUME NEW S, NEW s \in Seq(S), NEW e \in S
    PROVE  IsPrefix(s, s) /\ IsPrefix(s, Append(s, e))
<1>1. Len(s) \in Nat /\ Len(Append(s, e)) = Len(s) + 1 /\ Append(s, e) \in Seq(S)
      /\ \A j \in 1 .. Len(s) : Append(s, e)[j] = s[j]
  BY LenProperties, AppendProperties
<1>2. SubSeq(s, 1, Len(s)) = SubSeq(Append(s, e), 1, Len(s))
  <2> DEFINE t == Append(s, e)
             a == SubSeq(s, 1, Len(s))
             b == SubSeq(t, 1, Len(s))
  <2>1. \A i \in 1 .. Len(s) : s[i] \in S /\ t[i] \in S BY <1>1, ElementOfSeq
  <2>2. /\ a \in Seq(S)
        /\ Len(a) = IF 1 <= Len(s) THEN Len(s) - 1 + 1 ELSE 0
        /\ \A i \in 1 .. Len(s) - 1 + 1 : a[i] = s[1 + i - 1]
    BY <1>1, <2>1, SubSeqProperties
  <2>3. /\ b \in Seq(S)
        /\ Len(b) = IF 1 <= Len(s) THEN Len(s) - 1 + 1 ELSE 0
        /\ \A i \in 1 .. Len(s) - 1 + 1 : b[i] = t[1 + i - 1]
    <3> HIDE DEF t
    <3> QED BY <1>1, <2>1, SubSeqProperties
  <2> HIDE DEF a, b
  <2>4. Len(a) = Len(b) /\ Len(a) = Len(s) BY <1>1, <2>2, <2>3
  <2>5. \A i \in 1 .. Len(a) : a[i] = b[i]
    <3>1. \A i \in 1 .. Len(a) : i \in 1 .. Len(s) - 1 + 1 /\ 1 + i - 1 = i /\ i \in 1 .. Len(s)
      BY <1>1, <2>4
    <3> QED BY <1>1, <2>2, <2>3, <3>1
  <2>6. a = b BY <2>2, <2>3, <2>4, <2>5, SeqEqual
  <2> QED BY <2>6 DEF a, b
<1> QED BY <1>1, <1>2 DEF IsPrefix

-----------------------------------------------------------------------------
(* What a context switch does, exactly.                                    *)

\* The first of the ready list runs, and the thread that gives up the
\* processor goes to the end of the list if it can work; if the list is
\* empty it goes on, or nobody can work.
LEMMA SwitchOrder ==
    ASSUME TypeOK, Running, NEW st \in [Tcb -> Status], NEW rl \in Seq(Tcb), NEW hd,
           \A t \in ToSet(rl) : st[t] = "WORKING",
           Switch(st, rl, hd)
    PROVE  \/ /\ rl = <<>> /\ ready_list' = <<>> /\ current_thread' = current_thread
              /\ process' = IF st[current_thread] = "WORKING" THEN "running" ELSE "deadlock"
           \/ /\ rl # <<>> /\ current_thread' = Head(rl) /\ process' = process
              /\ ready_list' = IF st[current_thread] = "WORKING"
                               THEN Append(Tail(rl), current_thread) ELSE Tail(rl)
<1>0. Len(rl) \in Nat /\ DOMAIN rl = 1 .. Len(rl) BY LenProperties
<1>1. Workable(st, rl) = 1 .. Len(rl) BY <1>0 DEF Workable, ToSet
<1>2. CASE /\ Workable(st, rl) = {}
           /\ ready_list' = <<>>
           /\ process' = IF st[self] = "WORKING" THEN "running" ELSE "deadlock"
           /\ UNCHANGED current_thread
  <2>1. rl = <<>>
    <3>1. Len(rl) # 0 => 1 \in 1 .. Len(rl) BY <1>0
    <3> QED BY <1>1, <1>2, <3>1, EmptySeq
  <2> QED BY <1>2, <2>1 DEF self
<1>3. ASSUME NEW i \in Workable(st, rl),
             \A j \in Workable(st, rl) : i <= j,
             current_thread' = rl[i],
             ready_list' = Requeue(st, SubSeq(rl, i + 1, Len(rl))),
             UNCHANGED process
      PROVE  /\ rl # <<>> /\ current_thread' = Head(rl) /\ process' = process
             /\ ready_list' = IF st[current_thread] = "WORKING"
                              THEN Append(Tail(rl), current_thread) ELSE Tail(rl)
  <2>1. i = 1
    <3>1. i \in Int /\ 1 <= i /\ i <= Len(rl) BY <1>0, <1>1
    <3>2. 1 \in Workable(st, rl) BY <1>0, <1>1, <3>1
    <3> QED BY <1>3, <3>1, <3>2
  <2>2. rl # <<>> BY <1>0, <1>1, <2>1, EmptySeq
  <2>3. Tail(rl) = SubSeq(rl, 2, Len(rl)) BY <2>2, TailIsSubSeq
  <2>4. ready_list' = Requeue(st, Tail(rl))
    <3>1. i + 1 = 2 BY <2>1
    <3> QED BY <1>3, <2>3, <3>1
  <2>5. Head(rl) = rl[1] BY <2>2
  <2> QED BY <1>3, <2>1, <2>2, <2>4, <2>5 DEF Requeue, self
<1> QED BY <1>2, <1>3 DEF Switch

\* A context switch loses nobody who can work, and it ends the process only
\* if there is nobody.
LEMMA SwitchKeeps ==
    ASSUME TypeOK, Running, NEW st \in [Tcb -> Status], NEW rl \in Seq(Tcb), NEW hd,
           \A t \in ToSet(rl) : st[t] = "WORKING",
           Switch(st, rl, hd)
    PROVE  \A t \in ToSet(rl) \cup {current_thread} :
               st[t] = "WORKING" => t = current_thread' \/ t \in ToSet(ready_list')
<1>0. current_thread \in Tcb BY DEF TypeOK, Running
<1>1. CASE rl = <<>> /\ current_thread' = current_thread
  <2>1. ToSet(rl) = {} BY <1>1 DEF ToSet
  <2> QED BY <1>1, <2>1
<1>2. CASE /\ rl # <<>> /\ current_thread' = Head(rl)
           /\ ready_list' = IF st[current_thread] = "WORKING"
                            THEN Append(Tail(rl), current_thread) ELSE Tail(rl)
  <2>1. ToSet(rl) = {Head(rl)} \cup ToSet(Tail(rl)) /\ Tail(rl) \in Seq(Tcb)
    BY <1>2, TailSet, TailEffect
  <2>2. ToSet(Append(Tail(rl), current_thread)) = ToSet(Tail(rl)) \cup {current_thread}
    <3> DEFINE tl == Tail(rl)
    <3>1. tl \in Seq(Tcb) BY <2>1
    <3> HIDE DEF tl
    <3>2. ToSet(Append(tl, current_thread)) = ToSet(tl) \cup {current_thread}
      BY <1>0, <3>1, AppendEffect
    <3> QED BY <3>2 DEF tl
  <2> QED BY <1>2, <2>1, <2>2
<1> QED BY <1>1, <1>2, SwitchOrder

-----------------------------------------------------------------------------
(* What has to be shown of a call for each part of Orderly.                *)

\* Somebody finds thread t in order to wake it up.
Found(t) ==
    \/ \E u \in Live : observer[u] = t
    \/ \E m \in mutexes : t \in ToSet(mq[m])
    \/ \E c \in conds : \E i \in DOMAIN cq[c] : cq[c][i].thread = t

\* A blocked thread other than h stays where it is found.
Findable(h) ==
    /\ \A u \in Live : observer[u] \in Tcb /\ observer[u] # h =>
           u \in Live' /\ observer'[u] = observer[u]
    /\ \A m \in mutexes : m \in mutexes' /\ \A t \in ToSet(mq[m]) : t # h => t \in ToSet(mq'[m])
    /\ \A c \in conds : c \in conds' /\ \A i \in DOMAIN cq[c] : cq[c][i].thread # h =>
           \E j \in DOMAIN cq'[c] : cq'[c][j].thread = cq[c][i].thread

\* No thread is lost, if all but h are blocked where they were.
LEMMA PlaceFrame ==
    ASSUME NEW h, TypeOK, PlacePart, Findable(h),
           \A t \in Live' : status'[t] = "WORKING" =>
               t = current_thread' \/ t \in ToSet(ready_list'),
           \A t \in Live' : status'[t] = "WAITING" =>
               (t \in Live /\ status[t] = "WAITING" /\ t # h) \/ Found(t)'
    PROVE  PlacePart'
<1>1. ASSUME NEW t \in Live, status[t] = "WAITING", t # h PROVE Found(t)'
  <2>1. t \in Tcb BY DEF Live, TypeOK
  <2>2. CASE \E u \in Live : observer[u] = t BY <1>1, <2>1, <2>2 DEF Findable, Found
  <2>3. CASE \E m \in mutexes : t \in ToSet(mq[m]) BY <1>1, <2>3 DEF Findable, Found
  <2>4. CASE \E c \in conds : \E i \in DOMAIN cq[c] : cq[c][i].thread = t
    BY <1>1, <2>4 DEF Findable, Found
  <2> QED BY <1>1, <2>2, <2>3, <2>4 DEF PlacePart
<1>2. \A t \in Live' : status'[t] = "WAITING" => Found(t)' BY <1>1
<1> QED BY <1>2 DEF PlacePart, Found

\* Nobody begins to wait for a mutex, and the mutexes do not change.
LEMMA OwnerFrame ==
    ASSUME OwnerPart, UNCHANGED mutexVars,
           \A t \in all_threads' : \A m \in mutexes : Wants(t, m)' =>
               t \in all_threads /\ Wants(t, m) /\ tid'[t] = tid[t]
    PROVE  OwnerPart'
BY DEF OwnerPart, mutexVars

\* Nobody comes back from a join or begins one, and no new thread has the
\* id of an old one.
LEMMA TargetFrame ==
    ASSUME TypeOK, TypeOK', TargetPart, max_id <= max_id',
           \A t \in all_threads' : call'[t].op = "join" /\ call'[t].ret = 0 =>
               t \in all_threads /\ call'[t] = call[t] /\ status'[t] = status[t],
           \A u \in Live : observer[u] \in Tcb => u \in Live' /\ observer'[u] = observer[u],
           \A u \in Live : tid'[u] = tid[u],
           \A u \in Live' : u \in Live \/ tid'[u] = max_id
    PROVE  TargetPart'
<1> SUFFICES ASSUME NEW t \in all_threads', call'[t].op = "join", call'[t].ret = 0
             PROVE  /\ call'[t].arg \in 0 .. max_id' - 1
                    /\ status'[t] = "WAITING" =>
                         \E u \in Live' : observer'[u] = t /\ tid'[u] = call'[t].arg
                    /\ status'[t] = "WORKING" => \A u \in Live' : tid'[u] # call'[t].arg
  BY DEF TargetPart
<1>1. t \in all_threads /\ call'[t] = call[t] /\ status'[t] = status[t] /\ t \in Tcb
  BY DEF TypeOK
<1>2. /\ call[t].arg \in 0 .. max_id - 1
      /\ status[t] = "WAITING" => \E u \in Live : observer[u] = t /\ tid[u] = call[t].arg
      /\ status[t] = "WORKING" => \A u \in Live : tid[u] # call[t].arg
  BY <1>1 DEF TargetPart
<1>3. status'[t] = "WAITING" => \E u \in Live' : observer'[u] = t /\ tid'[u] = call'[t].arg
  BY <1>1, <1>2
<1>4. max_id # call[t].arg /\ call[t].arg \in 0 .. max_id' - 1
  BY <1>2, SMTT(40) DEF TypeOK
<1> QED BY <1>1, <1>2, <1>3, <1>4

-----------------------------------------------------------------------------
(* The calls, one by one.                                                  *)

\* A call that changes no queue, no status and no observer: all depends on
\* what it does with the ready list, and on what it returns.
LEMMA PlainOrderly ==
    ASSUME TypeOK, TypeOK', InUse, Orderly,
           UNCHANGED <<libVars, tableVars, mutexVars, condVars, status, observer>>,
           \A t \in ToSet(ready_list) \cup {current_thread} : status[t] = "WORKING" =>
               t = current_thread' \/ t \in ToSet(ready_list'),
           \A t \in Tcb : t # current_thread => call'[t] = call[t],
           call'[current_thread].op = "join" /\ call'[current_thread].ret = 0 =>
               /\ call'[current_thread].arg \in 0 .. max_id - 1
               /\ \A u \in Live : tid[u] # call'[current_thread].arg
    PROVE  Orderly'
<1>0. /\ current_thread \in Tcb /\ status[current_thread] = "WORKING"
      /\ all_threads \subseteq Tcb
  BY Start
<1>1. /\ Live' = Live /\ all_threads' = all_threads /\ status' = status /\ observer' = observer
      /\ tid' = tid /\ max_id' = max_id /\ next_to_destroy' = next_to_destroy
  BY DEF Live, tableVars, libVars
<1>2. PlacePart'
  <2>1. Findable(current_thread) BY <1>1 DEF Findable, mutexVars, condVars
  <2>2. \A t \in Live : status[t] = "WORKING" => t \in ToSet(ready_list) \cup {current_thread}
    BY DEF Orderly, PlacePart
  <2> QED BY <1>0, <1>1, <2>1, <2>2, PlaceFrame DEF Orderly
<1>3. OwnerPart'
  <2>1. \A t \in all_threads' : \A m \in mutexes : Wants(t, m)' => Wants(t, m)
    BY <1>0, <1>1 DEF Wants
  <2> QED BY <1>1, <2>1, OwnerFrame DEF Orderly
<1>4. TargetPart'
  <2>1. ASSUME NEW t \in all_threads, call'[t].op = "join", call'[t].ret = 0
        PROVE  /\ call'[t].arg \in 0 .. max_id - 1
               /\ status[t] = "WAITING" => \E u \in Live : observer[u] = t /\ tid[u] = call'[t].arg
               /\ status[t] = "WORKING" => \A u \in Live : tid[u] # call'[t].arg
    <3>1. CASE t = current_thread BY <1>0, <2>1, <3>1
    <3>2. CASE t # current_thread
      <4>1. call'[t] = call[t] BY <1>0, <3>2
      <4> QED BY <2>1, <4>1 DEF Orderly, TargetPart
    <3> QED BY <3>1, <3>2
  <2> QED BY <1>1, <2>1 DEF TargetPart
<1>5. DonePart' BY <1>1 DEF Orderly, DonePart
<1> QED BY <1>2, <1>3, <1>4, <1>5 DEF Orderly

\* A call that returns at once.
LEMMA ReturnOrderly ==
    ASSUME TypeOK, TypeOK', InUse, Orderly, NEW op, NEW arg, NEW ret, Return(op, arg, ret),
           op # "join" \/ ret # 0
    PROVE  Orderly'
<1>0. current_thread \in Tcb BY Start
<1>1. /\ \A t \in Tcb : t # current_thread => call'[t] = call[t]
      /\ call'[current_thread].op = op /\ call'[current_thread].ret = ret
  BY <1>0 DEF Return, Called, TypeOK, self
<1>2. /\ UNCHANGED <<libVars, tableVars, mutexVars, condVars, status, observer>>
      /\ ready_list' = ready_list /\ current_thread' = current_thread
  BY DEF Return
<1> QED BY <1>1, <1>2, PlainOrderly

\* ... and in particular one that returns nothing.
LEMMA ReturnNothingOrderly ==
    ASSUME TypeOK, TypeOK', InUse, Orderly, Return("none", NULL, 0)
    PROVE  Orderly'
<1>1. "none" # "join" OBVIOUS
<1> QED BY <1>1, ReturnOrderly

\* thread_yield.
LEMMA YieldOrderly ==
    ASSUME TypeOK, TypeOK', InUse, Orderly, thread_yield
    PROVE  Orderly'
<1>0. /\ current_thread \in Tcb /\ ready_list \in Seq(Tcb) /\ status \in [Tcb -> Status]
      /\ \A t \in ToSet(ready_list) : status[t] = "WORKING"
  BY Start
<1>1. /\ \A t \in Tcb : t # current_thread => call'[t] = call[t]
      /\ call'[current_thread].op = "none"
  BY <1>0 DEF thread_yield, TypeOK, Idle, Called, self
<1>2. /\ Running /\ Switch(status, ready_list, holds)
      /\ UNCHANGED <<libVars, tableVars, mutexVars, condVars, status, observer>>
  BY DEF thread_yield
<1>3. \A t \in ToSet(ready_list) \cup {current_thread} : status[t] = "WORKING" =>
          t = current_thread' \/ t \in ToSet(ready_list')
  BY <1>0, <1>2, SwitchKeeps
<1> QED BY <1>1, <1>2, <1>3, PlainOrderly

\* thread_create: the new thread is at the end of the ready list.
LEMMA CreateOrderly ==
    ASSUME TypeOK, TypeOK', InUse, Orderly, NEW a \in Tcb, thread_create(a)
    PROVE  Orderly'
<1>0. /\ current_thread \in Tcb /\ status[current_thread] = "WORKING"
      /\ all_threads \subseteq Tcb /\ current_thread \in all_threads /\ ready_list \in Seq(Tcb)
  BY Start
<1>1. a \notin all_threads BY DEF thread_create, NewThread, InUse, HeapPart
<1>2. /\ all_threads' = all_threads \cup {a}
      /\ \A t \in Tcb : t # a => status'[t] = status[t] /\ tid'[t] = tid[t]
      /\ status'[a] = "WORKING" /\ tid'[a] = max_id /\ max_id' = max_id + 1
  BY <1>0 DEF thread_create, NewThread, TypeOK
<1>3. ToSet(ready_list') = ToSet(ready_list) \cup {a} BY <1>0, AppendEffect DEF thread_create
<1>4. /\ \A t \in Tcb : t # current_thread /\ t # a => call'[t] = call[t]
      /\ call'[a].op = "none" /\ call'[current_thread].op = "none"
  BY <1>0 DEF thread_create, TypeOK, Idle, Called, self
<1>5. UNCHANGED <<libVars, mutexVars, condVars, current_thread, observer, holds>>
  BY DEF thread_create
<1>6. Live' = Live \cup {a} /\ a \notin Live /\ Live \subseteq Tcb BY <1>0, <1>1, <1>2 DEF Live
<1>7. PlacePart'
  <2>1. Findable(current_thread) BY <1>5, <1>6 DEF Findable, mutexVars, condVars
  <2>2. \A t \in Live' : status'[t] = "WORKING" => t = current_thread' \/ t \in ToSet(ready_list')
    BY <1>2, <1>3, <1>5, <1>6 DEF Orderly, PlacePart
  <2>3. \A t \in Live' : status'[t] = "WAITING" =>
            t \in Live /\ status[t] = "WAITING" /\ t # current_thread
    BY <1>0, <1>2, <1>6
  <2> QED BY <2>1, <2>2, <2>3, PlaceFrame DEF Orderly
<1>8. OwnerPart'
  <2>1. \A t \in all_threads' : status'[t] = "WAITING" =>
            /\ t \in all_threads /\ t \in Tcb /\ status[t] = "WAITING"
            /\ t # a /\ t # current_thread
    BY <1>0, <1>2
  <2> QED BY <1>2, <1>4, <1>5, <2>1, OwnerFrame DEF Orderly, Wants
<1>9. TargetPart'
  <2>1. \A t \in all_threads' : call'[t].op = "join" =>
            t \in all_threads /\ call'[t] = call[t] /\ status'[t] = status[t]
    BY <1>0, <1>2, <1>4
  <2>2. \A u \in Live : u \in Live' /\ observer'[u] = observer[u] /\ tid'[u] = tid[u]
    BY <1>2, <1>5, <1>6
  <2>3. \A u \in Live' : u \in Live \/ tid'[u] = max_id BY <1>2, <1>6
  <2>4. max_id <= max_id' BY <1>2 DEF TypeOK
  <2> QED BY <2>1, <2>2, <2>3, <2>4, TargetFrame DEF Orderly
<1>10. DonePart' BY <1>2, <1>5, <1>6 DEF Orderly, DonePart, Live, libVars
<1> QED BY <1>7, <1>8, <1>9, <1>10 DEF Orderly

\* thread_join: a target that has terminated is gone for good, and the
\* running thread becomes the observer of one that has not.
LEMMA JoinOrderly ==
    ASSUME TypeOK, TypeOK', InUse, Orderly, process' # "crash", NEW k \in Nat, thread_join(k)
    PROVE  Orderly'
<1>0. /\ current_thread \in Tcb /\ status[current_thread] = "WORKING"
      /\ all_threads \subseteq Tcb /\ current_thread \in all_threads
      /\ ready_list \in Seq(Tcb) /\ status \in [Tcb -> Status]
      /\ \A t \in ToSet(ready_list) : t \in Tcb /\ t # current_thread /\ status[t] = "WORKING"
  BY Start
<1>1. CASE Return("join", k, -1) \/ Return("join", k, -2) \/ Return("join", k, -3)
  <2>1. -1 # 0 /\ -2 # 0 /\ -3 # 0 OBVIOUS
  <2> QED BY <1>1, <2>1, ReturnOrderly
<1>2. CASE Crash BY <1>2 DEF Crash
<1>3. /\ Running
      /\ \A t \in all_threads : tid[t] = k =>
           /\ \A u \in all_threads : tid[u] = k => u = t
           /\ k \in 0 .. max_id - 1
  BY DEF thread_join, InUse, HeapPart, TypeOK
<1>4. ASSUME call' = [call EXCEPT ![self] = Called("join", k, 0)]
      PROVE  /\ \A t \in Tcb : t # current_thread => call'[t] = call[t]
             /\ call'[current_thread].op = "join" /\ call'[current_thread].arg = k
  BY <1>0, <1>4 DEF TypeOK, Called, self
<1>5. ASSUME NEW t \in all_threads, tid[t] = k, status[t] = "DONE",
             Switch(status, ready_list, holds),
             call' = [call EXCEPT ![self] = Called("join", k, 0)],
             UNCHANGED <<libVars, tableVars, mutexVars, condVars, status, observer>>
      PROVE  Orderly'
  <2>1. \A u \in ToSet(ready_list) \cup {current_thread} : status[u] = "WORKING" =>
            u = current_thread' \/ u \in ToSet(ready_list')
    BY <1>0, <1>3, <1>5, SwitchKeeps
  <2>2. \A u \in Live : tid[u] # k BY <1>3, <1>5 DEF Live
  <2> QED BY <1>3, <1>4, <1>5, <2>1, <2>2, PlainOrderly
<1>6. ASSUME NEW t \in all_threads, tid[self] # k, tid[t] = k, status[t] # "DONE",
             observer[t] = NULL,
             observer' = [observer EXCEPT ![t] = self],
             status' = Blocked(status),
             Switch(Blocked(status), ready_list, holds),
             call' = [call EXCEPT ![self] = Called("join", k, 0)],
             UNCHANGED <<libVars, tableVars, mutexVars, condVars>>
      PROVE  Orderly'
  <2>1. /\ status' \in [Tcb -> Status] /\ status'[current_thread] = "WAITING"
        /\ \A u \in Tcb : u # current_thread => status'[u] = status[u]
    BY <1>0, <1>6 DEF Blocked, Status, self
  <2>2. /\ all_threads' = all_threads /\ tid' = tid /\ max_id' = max_id
        /\ next_to_destroy' = next_to_destroy
    BY <1>6 DEF tableVars, libVars
  <2>3. /\ observer'[t] = current_thread /\ \A u \in Tcb : u # t => observer'[u] = observer[u]
        /\ t \in Live /\ t \in Tcb /\ observer[t] \notin Tcb
    BY <1>0, <1>6, ConstantsAssumption DEF TypeOK, Live, self
  <2>4. Live' = Live BY <1>0, <2>1, <2>2 DEF Live
  <2>5. \A u \in ToSet(ready_list) \cup {current_thread} : status'[u] = "WORKING" =>
            u = current_thread' \/ u \in ToSet(ready_list')
    <3>1. \A u \in ToSet(ready_list) : status'[u] = "WORKING" BY <1>0, <2>1
    <3>2. Switch(status', ready_list, holds) BY <1>6
    <3> QED BY <1>0, <1>3, <2>1, <3>1, <3>2, SwitchKeeps
  <2>6. PlacePart'
    <3>1. Findable(current_thread)
      BY <1>0, <1>6, <2>3, <2>4 DEF Findable, mutexVars, condVars, Live
    <3>2. \A u \in Live' : status'[u] = "WORKING" => u = current_thread' \/ u \in ToSet(ready_list')
      BY <1>0, <2>1, <2>4, <2>5 DEF Orderly, PlacePart, Live
    <3>3. PICK me \in Tcb : me = current_thread BY <1>0
    <3>4. Found(me)' BY <2>3, <2>4, <3>3 DEF Found
    <3>5. \A u \in Live' : status'[u] = "WAITING" =>
            (u \in Live /\ status[u] = "WAITING" /\ u # current_thread) \/ Found(u)'
      <4>1. \A u \in Live' : u = me \/ (u \in Live /\ status'[u] = status[u] /\ u # current_thread)
        BY <1>0, <2>1, <2>4, <3>3 DEF Live
      <4> QED BY <3>4, <4>1
    <3> QED BY <3>1, <3>2, <3>5, PlaceFrame DEF Orderly
  <2>7. OwnerPart'
    <3>1. \A u \in all_threads' : \A m \in mutexes : Wants(u, m)' => Wants(u, m)
      BY <1>0, <1>4, <1>6, <2>1, <2>2 DEF Wants
    <3> QED BY <1>6, <2>2, <3>1, OwnerFrame DEF Orderly
  <2>8. TargetPart'
    <3>1. ASSUME NEW u \in all_threads, call'[u].op = "join", call'[u].ret = 0
          PROVE  /\ call'[u].arg \in 0 .. max_id - 1
                 /\ status'[u] = "WAITING" =>
                      \E v \in Live : observer'[v] = u /\ tid[v] = call'[u].arg
                 /\ status'[u] = "WORKING" => \A v \in Live : tid[v] # call'[u].arg
      <4>1. CASE u = current_thread BY <1>3, <1>4, <1>6, <2>1, <2>3, <4>1
      <4>2. CASE u # current_thread
        <5>1. call'[u] = call[u] /\ status'[u] = status[u] /\ u \in Tcb
          BY <1>0, <1>4, <1>6, <2>1, <4>2
        <5>2. /\ call[u].arg \in 0 .. max_id - 1
              /\ status[u] = "WAITING" =>
                   \E v \in Live : observer[v] = u /\ tid[v] = call[u].arg
              /\ status[u] = "WORKING" => \A v \in Live : tid[v] # call[u].arg
          BY <3>1, <5>1 DEF Orderly, TargetPart
        <5>3. \A v \in Live : observer[v] = u => observer'[v] = u
          BY <1>0, <2>3, <5>1 DEF Live
        <5> QED BY <5>1, <5>2, <5>3
      <4> QED BY <4>1, <4>2
    <3> QED BY <2>2, <2>4, <3>1 DEF TargetPart
  <2>9. DonePart' BY <2>2, <2>4 DEF Orderly, DonePart
  <2> QED BY <2>6, <2>7, <2>8, <2>9 DEF Orderly
<1> QED BY <1>1, <1>2, <1>5, <1>6 DEF thread_join

\* A call that touches no observer and creates or ends no thread: what is
\* known of the joins stays true, if the thread h it wakes up is in none.
LEMMA JoinsKept ==
    ASSUME TypeOK, TypeOK', InUse, Orderly, NEW h \in all_threads,
           h = current_thread \/ call[h].op # "join",
           UNCHANGED <<libVars, tableVars, observer>>,
           \A t \in Tcb : t # h /\ t # current_thread => status'[t] = status[t],
           status[h] # "DONE", status'[h] # "DONE", status'[current_thread] # "DONE",
           \A t \in Tcb : t # current_thread => call'[t] = call[t],
           call'[current_thread].op # "join"
    PROVE  TargetPart' /\ DonePart' /\ Live' = Live
<1>0. /\ current_thread \in Tcb /\ status[current_thread] = "WORKING" /\ all_threads \subseteq Tcb
  BY Start
<1>1. /\ all_threads' = all_threads /\ tid' = tid /\ max_id' = max_id
      /\ next_to_destroy' = next_to_destroy
  BY DEF tableVars, libVars
<1>2. Live' = Live
  <2>1. \A t \in all_threads : status'[t] # "DONE" <=> status[t] # "DONE"
    BY <1>0
  <2> QED BY <1>1, <2>1 DEF Live
<1>3. TargetPart'
  <2>1. \A t \in all_threads' : call'[t].op = "join" =>
            t \in all_threads /\ call'[t] = call[t] /\ status'[t] = status[t]
    BY <1>0, <1>1
  <2>2. max_id <= max_id' BY <1>1 DEF TypeOK
  <2> QED BY <1>1, <1>2, <2>1, <2>2, TargetFrame DEF Orderly
<1>4. DonePart' BY <1>1, <1>2 DEF Orderly, DonePart
<1> QED BY <1>2, <1>3, <1>4

\* thread_mutex_init: a new mutex is free, and nobody waits for it.
LEMMA MutexInitOrderly ==
    ASSUME TypeOK, TypeOK', InUse, Orderly, NEW m, thread_mutex_init(m)
    PROVE  Orderly'
<1>0. /\ current_thread \in Tcb /\ status[current_thread] = "WORKING"
      /\ all_threads \subseteq Tcb /\ current_thread \in all_threads /\ mutexes \subseteq Mutex
  BY Start
<1>1. CASE Return("none", NULL, 0) BY <1>1, ReturnNothingOrderly
<1>2. ASSUME m \in Mutex \ mutexes,
             locked' = [locked EXCEPT ![m] = 0],
             owner' = [owner EXCEPT ![m] = -1],
             mq' = [mq EXCEPT ![m] = <<>>],
             mutexes' = mutexes \cup {m},
             call' = [call EXCEPT ![self] = Idle],
             UNCHANGED <<libVars, tableVars, condVars, ready_list, current_thread,
                         status, observer, process>>
      PROVE  Orderly'
  <2>1. /\ \A l \in mutexes : l # m /\ locked'[l] = locked[l] /\ owner'[l] = owner[l] /\ mq'[l] = mq[l]
        /\ mq'[m] = <<>> /\ locked'[m] = 0
    BY <1>0, <1>2 DEF TypeOK
  <2>2. /\ \A t \in Tcb : t # current_thread => call'[t] = call[t]
        /\ call'[current_thread].op = "none"
    BY <1>0, <1>2 DEF TypeOK, Idle, Called, self
  <2>3. TargetPart' /\ DonePart' /\ Live' = Live BY <1>0, <1>2, <2>2, JoinsKept
  <2>4. PlacePart'
    <3>1. Findable(current_thread) BY <1>2, <2>1, <2>3 DEF Findable, condVars
    <3> QED BY <1>0, <1>2, <2>3, <3>1, PlaceFrame DEF Orderly, PlacePart
  <2>5. OwnerPart'
    <3>1. \A t \in all_threads : status[t] = "WAITING" => call'[t] = call[t] BY <1>0, <2>2
    <3>2. all_threads' = all_threads /\ tid' = tid /\ status' = status BY <1>2 DEF tableVars
    <3>3. \A l \in mutexes' : l \in mutexes \/ l = m BY <1>2
    <3>4. \A t \in all_threads : \A l \in mutexes : Wants(t, l)' => Wants(t, l)
      BY <3>1, <3>2 DEF Wants
    <3> QED BY <2>1, <3>2, <3>3, <3>4 DEF Orderly, OwnerPart
  <2> QED BY <2>3, <2>4, <2>5 DEF Orderly
<1> QED BY <1>1, <1>2 DEF thread_mutex_init

\* thread_mutex_lock: the running thread gets a mutex that is free, and
\* waits for one that another thread owns.
LEMMA LockOrderly ==
    ASSUME TypeOK, TypeOK', InUse, Orderly, NEW m, thread_mutex_lock(m)
    PROVE  Orderly'
<1>0. /\ current_thread \in Tcb /\ status[current_thread] = "WORKING"
      /\ all_threads \subseteq Tcb /\ current_thread \in all_threads /\ mutexes \subseteq Mutex
      /\ ready_list \in Seq(Tcb) /\ status \in [Tcb -> Status]
      /\ \A t \in ToSet(ready_list) : t \in Tcb /\ t # current_thread /\ status[t] = "WORKING"
  BY Start
<1>1. \A t \in all_threads : tid[t] = tid[current_thread] => t = current_thread
  BY <1>0 DEF InUse, HeapPart
<1>2. CASE Return("none", NULL, 0) BY <1>2, ReturnNothingOrderly
<1>3. ASSUME m \in mutexes, locked[m] = 0,
             locked' = [locked EXCEPT ![m] = 1],
             owner' = [owner EXCEPT ![m] = tid[self]],
             call' = [call EXCEPT ![self] = Idle],
             UNCHANGED <<libVars, tableVars, mutexes, mq, condVars, ready_list,
                         current_thread, status, observer, process>>
      PROVE  Orderly'
  <2>1. /\ \A l \in mutexes : l # m => locked'[l] = locked[l] /\ owner'[l] = owner[l]
        /\ locked'[m] = 1 /\ owner'[m] = tid[current_thread]
    BY <1>0, <1>3 DEF TypeOK, self
  <2>2. /\ \A t \in Tcb : t # current_thread => call'[t] = call[t]
        /\ call'[current_thread].op = "none"
    BY <1>0, <1>3 DEF TypeOK, Idle, Called, self
  <2>3. TargetPart' /\ DonePart' /\ Live' = Live BY <1>0, <1>3, <2>2, JoinsKept
  <2>4. PlacePart'
    <3>1. Findable(current_thread) BY <1>3, <2>1, <2>3 DEF Findable, condVars
    <3> QED BY <1>0, <1>3, <2>3, <3>1, PlaceFrame DEF Orderly, PlacePart
  <2>5. OwnerPart'
    <3>1. all_threads' = all_threads /\ tid' = tid /\ status' = status BY <1>3 DEF tableVars
    <3>2. \A t \in all_threads : \A l \in mutexes : Wants(t, l)' => Wants(t, l) /\ t # current_thread
      BY <1>0, <2>2, <3>1 DEF Wants
    <3> QED BY <1>1, <1>3, <2>1, <3>1, <3>2 DEF Orderly, OwnerPart
  <2> QED BY <2>3, <2>4, <2>5 DEF Orderly
<1>4. ASSUME m \in mutexes, locked[m] = 1, ~Owns(m),
             mq' = [mq EXCEPT ![m] = Append(@, self)],
             status' = Blocked(status),
             Switch(Blocked(status), ready_list, holds),
             call' = [call EXCEPT ![self] = Called("lock", m, 1)],
             UNCHANGED <<libVars, tableVars, mutexes, locked, owner, condVars, observer>>
      PROVE  Orderly'
  <2>1. /\ status' \in [Tcb -> Status] /\ status'[current_thread] = "WAITING"
        /\ \A u \in Tcb : u # current_thread => status'[u] = status[u]
    BY <1>0, <1>4 DEF Blocked, Status, self
  <2>2. /\ \A t \in Tcb : t # current_thread => call'[t] = call[t]
        /\ call'[current_thread].op = "lock" /\ call'[current_thread].arg = m
    BY <1>0, <1>4 DEF TypeOK, Called, self
  <2>3. TargetPart' /\ DonePart' /\ Live' = Live BY <1>0, <1>4, <2>1, <2>2, JoinsKept
  <2>4. /\ ToSet(mq'[m]) = ToSet(mq[m]) \cup {current_thread}
        /\ \A l \in mutexes : l # m => mq'[l] = mq[l]
    <3>1. mq[m] \in Seq(Tcb) BY <1>0, <1>4 DEF TypeOK
    <3>2. mq'[m] = Append(mq[m], current_thread) /\ \A l \in mutexes : l # m => mq'[l] = mq[l]
      BY <1>0, <1>4 DEF TypeOK, self
    <3> QED BY <1>0, <3>1, <3>2, AppendEffect
  <2>5. \A u \in ToSet(ready_list) \cup {current_thread} : status'[u] = "WORKING" =>
            u = current_thread' \/ u \in ToSet(ready_list')
    <3>1. \A u \in ToSet(ready_list) : status'[u] = "WORKING" BY <1>0, <2>1
    <3>2. Switch(status', ready_list, holds) BY <1>4
    <3>3. Running BY DEF thread_mutex_lock
    <3> QED BY <1>0, <2>1, <3>1, <3>2, <3>3, SwitchKeeps
  <2>6. PlacePart'
    <3>1. Findable(current_thread) BY <1>4, <2>3, <2>4 DEF Findable, condVars
    <3>2. \A u \in Live' : status'[u] = "WORKING" => u = current_thread' \/ u \in ToSet(ready_list')
      BY <1>0, <2>1, <2>3, <2>5 DEF Orderly, PlacePart, Live
    <3>3. PICK me \in Tcb : me = current_thread BY <1>0
    <3>4. Found(me)' BY <1>4, <2>4, <3>3 DEF Found
    <3>5. \A u \in Live' : u = me \/ (u \in Live /\ status'[u] = status[u] /\ u # current_thread)
      BY <1>0, <2>1, <2>3, <3>3 DEF Live
    <3> QED BY <3>1, <3>2, <3>4, <3>5, PlaceFrame DEF Orderly
  <2>7. OwnerPart'
    <3>1. all_threads' = all_threads /\ tid' = tid BY <1>4 DEF tableVars
    <3>2. \A t \in all_threads : \A l \in mutexes : Wants(t, l)' =>
              Wants(t, l) \/ (t = current_thread /\ l = m)
      BY <1>0, <2>1, <2>2 DEF Wants
    <3>3. owner[m] # tid[current_thread] BY <1>4 DEF Owns, self
    <3> QED BY <1>4, <2>4, <3>1, <3>2, <3>3 DEF Orderly, OwnerPart
  <2> QED BY <2>3, <2>6, <2>7 DEF Orderly
<1> QED BY <1>2, <1>3, <1>4 DEF thread_mutex_lock

\* Mutex m is given up, with st the statuses and rl the ready list after it:
\* nobody waited and it is free, or h waited longest, becomes ready and owns
\* it, and the others go on waiting.
Handed(m, h, st, rl) ==
    /\ st \in [Tcb -> Status] /\ rl \in Seq(Tcb) /\ \A t \in ToSet(rl) : st[t] = "WORKING"
    /\ status[h] # "DONE" /\ st[h] = "WORKING"
    /\ \A t \in Tcb : t # h => st[t] = status[t]
    /\ \A l \in mutexes : l # m => locked'[l] = locked[l] /\ owner'[l] = owner[l] /\ mq'[l] = mq[l]
    /\ \A t \in ToSet(mq[m]) : t # h => t \in ToSet(mq'[m])
    /\ \/ h = current_thread /\ rl = ready_list /\ locked'[m] = 0 /\ mq'[m] = <<>>
       \/ /\ h # current_thread /\ call[h].op \in {"lock", "wait"}
          /\ locked'[m] = 1 /\ owner'[m] = tid[h]
          /\ ToSet(rl) = ToSet(ready_list) \cup {h}

\* That is what the owner's thread_mutex_unlock does.
LEMMA ReleaseHands ==
    ASSUME TypeOK, InUse, NEW m \in mutexes, Owns(m), Release(m)
    PROVE  \E h \in all_threads : Handed(m, h, StatusAfterRelease(m), ReadyAfterRelease(m))
<1> DEFINE st == StatusAfterRelease(m)
           rl == ReadyAfterRelease(m)
<1>0. /\ current_thread \in Tcb /\ status[current_thread] = "WORKING"
      /\ all_threads \subseteq Tcb /\ current_thread \in all_threads
      /\ ready_list \in Seq(Tcb) /\ status \in [Tcb -> Status] /\ mutexes \subseteq Mutex
      /\ \A t \in ToSet(ready_list) : t \in Tcb /\ t # current_thread /\ status[t] = "WORKING"
  BY Start
<1>1. /\ m \in Mutex /\ locked[m] = 1 /\ mq[m] \in Seq(Tcb)
      /\ locked \in [Mutex -> {0, 1}] /\ owner \in [Mutex -> -1 .. MaxId]
      /\ mq \in [Mutex -> Seq(Tcb)]
  BY <1>0 DEF Owns, TypeOK
<1>2. CASE mq[m] = <<>>
  <2>1. st = status /\ rl = ready_list BY <1>2 DEF StatusAfterRelease, ReadyAfterRelease
  <2>2. /\ mq' = mq /\ owner' = owner /\ locked'[m] = 0
        /\ \A l \in mutexes : l # m => locked'[l] = locked[l]
    BY <1>0, <1>1, <1>2 DEF Release
  <2>3. ToSet(mq[m]) = {} BY <1>2 DEF ToSet
  <2> HIDE DEF st, rl
  <2>4. Handed(m, current_thread, st, rl) BY <1>0, <1>2, <2>1, <2>2, <2>3 DEF Handed
  <2> QED BY <1>0, <2>4 DEF st, rl
<1>3. CASE mq[m] # <<>>
  <2> DEFINE h  == Head(mq[m])
             tl == Tail(mq[m])
  <2>1. h \in Tcb /\ h \in ToSet(mq[m]) /\ ToSet(mq[m]) = {h} \cup ToSet(tl)
    BY <1>1, <1>3, TailEffect, TailSet
  <2>2. st = [status EXCEPT ![h] = "WORKING"] /\ rl = Append(ready_list, h)
    BY <1>3 DEF StatusAfterRelease, ReadyAfterRelease
  <2>3. /\ locked' = locked /\ owner' = [owner EXCEPT ![m] = tid[h]]
        /\ mq' = [mq EXCEPT ![m] = tl]
    BY <1>3 DEF Release
  <2> HIDE DEF h, tl
  <2>4. /\ owner'[m] = tid[h] /\ mq'[m] = tl
        /\ \A l \in mutexes : l # m => owner'[l] = owner[l] /\ mq'[l] = mq[l]
    BY <1>0, <1>1, <2>3
  <2>5. /\ h \in all_threads /\ status[h] = "WAITING" /\ h # current_thread
        /\ call[h].op \in {"lock", "wait"}
    BY <1>0, <2>1 DEF InUse, MutexPart
  <2>6. /\ st \in [Tcb -> Status] /\ st[h] = "WORKING"
        /\ \A t \in Tcb : t # h => st[t] = status[t]
    <3> HIDE DEF st
    <3> QED BY <1>0, <2>1, <2>2, <2>5 DEF Status
  <2>7. rl \in Seq(Tcb) /\ ToSet(rl) = ToSet(ready_list) \cup {h}
    BY <1>0, <2>1, <2>2, AppendEffect
  <2> HIDE DEF st, rl
  <2>8. \A t \in ToSet(rl) : st[t] = "WORKING" BY <1>0, <2>6, <2>7
  <2>9. Handed(m, h, st, rl)
    BY <1>1, <2>1, <2>3, <2>4, <2>5, <2>6, <2>7, <2>8 DEF Handed
  <2> QED BY <2>5, <2>9 DEF st, rl
<1> QED BY <1>2, <1>3

\* After a mutex was handed on, nobody but the running thread may have
\* begun to wait, and nobody waits for what it owns.
LEMMA HandedOwner ==
    ASSUME TypeOK, InUse, OwnerPart, NEW m \in mutexes, NEW h \in all_threads,
           NEW st, NEW rl, Handed(m, h, st, rl),
           UNCHANGED <<mutexes, all_threads, tid>>, status'[h] = "WORKING" \/ h = current_thread,
           \A t \in all_threads : \A l \in mutexes : Wants(t, l)' =>
               Wants(t, l) \/ (t = current_thread /\ l = m)
    PROVE  OwnerPart'
<1>1. \A t \in all_threads : tid[t] = tid[h] => t = h BY DEF InUse, HeapPart
<1>2. \A l \in mutexes : l # m =>
        /\ mq'[l] # <<>> => locked'[l] = 1
        /\ locked'[l] = 1 => \A t \in all_threads' : Wants(t, l)' => tid'[t] # owner'[l]
  BY DEF Handed, OwnerPart
<1>3. CASE h = current_thread
  <2>1. locked'[m] = 0 /\ mq'[m] = <<>> BY <1>3 DEF Handed
  <2> QED BY <1>2, <2>1 DEF OwnerPart
<1>4. CASE h # current_thread
  <2>1. locked'[m] = 1 /\ owner'[m] = tid[h] BY <1>4 DEF Handed
  <2>2. \A t \in all_threads : Wants(t, m)' => t # h BY <1>4 DEF Wants
  <2> QED BY <1>1, <1>2, <2>1, <2>2 DEF OwnerPart
<1> QED BY <1>3, <1>4

\* thread_mutex_unlock.
LEMMA UnlockOrderly ==
    ASSUME TypeOK, TypeOK', InUse, Orderly, NEW m, thread_mutex_unlock(m)
    PROVE  Orderly'
<1>0. /\ current_thread \in Tcb /\ status[current_thread] = "WORKING"
      /\ all_threads \subseteq Tcb /\ current_thread \in all_threads /\ mutexes \subseteq Mutex
  BY Start
<1>1. CASE Return("none", NULL, 0) BY <1>1, ReturnNothingOrderly
<1>2. ASSUME Owns(m), Release(m),
             status' = StatusAfterRelease(m),
             ready_list' = ReadyAfterRelease(m),
             call' = [call EXCEPT ![self] = Idle],
             UNCHANGED <<libVars, tableVars, mutexes, condVars, current_thread,
                         observer, process>>
      PROVE  Orderly'
  <2>0. m \in mutexes BY <1>2 DEF Owns
  <2>1. PICK h \in all_threads : Handed(m, h, status', ready_list')
    <3>1. PICK h \in all_threads : Handed(m, h, StatusAfterRelease(m), ReadyAfterRelease(m))
      BY <1>2, <2>0, ReleaseHands
    <3> QED BY <1>2, <3>1
  <2>2. /\ \A t \in Tcb : t # current_thread => call'[t] = call[t]
        /\ call'[current_thread].op = "none"
    BY <1>0, <1>2 DEF TypeOK, Idle, Called, self
  <2>3. /\ h \in Tcb /\ status[h] # "DONE" /\ status'[h] = "WORKING"
        /\ h = current_thread \/ call[h].op # "join"
        /\ \A t \in Tcb : t # h => status'[t] = status[t]
        /\ status'[current_thread] # "DONE"
        /\ \A t \in ToSet(ready_list) \cup {h, current_thread} :
             t \in ToSet(ready_list') \cup {current_thread}
    BY <1>0, <2>1 DEF Handed
  <2>4. TargetPart' /\ DonePart' /\ Live' = Live BY <1>2, <2>2, <2>3, JoinsKept
  <2>5. PlacePart'
    <3>1. Findable(h) BY <1>2, <2>1, <2>4 DEF Findable, Handed, condVars
    <3>2. \A t \in Live' : status'[t] = "WORKING" => t = current_thread' \/ t \in ToSet(ready_list')
      <4>1. \A t \in Live : status'[t] = "WORKING" => t \in ToSet(ready_list) \cup {h, current_thread}
        BY <1>0, <2>3 DEF Orderly, PlacePart, Live
      <4> QED BY <1>2, <2>3, <2>4, <4>1
    <3>3. \A t \in Live' : status'[t] = "WAITING" => t \in Live /\ status[t] = "WAITING" /\ t # h
      BY <1>0, <2>3, <2>4 DEF Live
    <3> QED BY <3>1, <3>2, <3>3, PlaceFrame DEF Orderly
  <2>6. OwnerPart'
    <3>1. \A t \in all_threads : \A l \in mutexes : Wants(t, l)' => Wants(t, l)
      BY <1>0, <2>2, <2>3 DEF Wants
    <3> QED BY <1>2, <2>0, <2>1, <2>3, <3>1, HandedOwner DEF Orderly, tableVars
  <2> QED BY <2>4, <2>5, <2>6 DEF Orderly
<1> QED BY <1>1, <1>2 DEF thread_mutex_unlock

\* thread_cond_init: a new condition variable has an empty queue.
LEMMA CondInitOrderly ==
    ASSUME TypeOK, TypeOK', InUse, Orderly, NEW c, thread_cond_init(c)
    PROVE  Orderly'
<1>0. /\ current_thread \in Tcb /\ status[current_thread] = "WORKING"
      /\ all_threads \subseteq Tcb /\ current_thread \in all_threads /\ conds \subseteq Cond
  BY Start
<1>1. CASE Return("none", NULL, 0) BY <1>1, ReturnNothingOrderly
<1>2. ASSUME c \in Cond \ conds,
             cq' = [cq EXCEPT ![c] = <<>>],
             conds' = conds \cup {c},
             call' = [call EXCEPT ![self] = Idle],
             UNCHANGED <<libVars, tableVars, mutexVars, ready_list, current_thread,
                         status, observer, process, holds>>
      PROVE  Orderly'
  <2>1. \A d \in conds : d # c /\ cq'[d] = cq[d] BY <1>0, <1>2 DEF TypeOK
  <2>2. /\ \A t \in Tcb : t # current_thread => call'[t] = call[t]
        /\ call'[current_thread].op = "none"
    BY <1>0, <1>2 DEF TypeOK, Idle, Called, self
  <2>3. TargetPart' /\ DonePart' /\ Live' = Live BY <1>0, <1>2, <2>2, JoinsKept
  <2>4. PlacePart'
    <3>1. Findable(current_thread) BY <1>2, <2>1, <2>3 DEF Findable, mutexVars
    <3> QED BY <1>0, <1>2, <2>3, <3>1, PlaceFrame DEF Orderly, PlacePart
  <2>5. OwnerPart'
    <3>1. \A t \in all_threads' : \A m \in mutexes : Wants(t, m)' => Wants(t, m)
      BY <1>0, <1>2, <2>2 DEF Wants, tableVars
    <3> QED BY <1>2, <3>1, OwnerFrame DEF Orderly, tableVars
  <2> QED BY <2>3, <2>4, <2>5 DEF Orderly
<1> QED BY <1>1, <1>2 DEF thread_cond_init

\* thread_cond_wait: the running thread is in the queue of the condition
\* variable before anybody else runs.
LEMMA WaitOrderly ==
    ASSUME TypeOK, TypeOK', InUse, Orderly, NEW c, NEW m, thread_cond_wait(c, m)
    PROVE  Orderly'
<1>0. /\ current_thread \in Tcb /\ status[current_thread] = "WORKING"
      /\ all_threads \subseteq Tcb /\ current_thread \in all_threads
      /\ mutexes \subseteq Mutex /\ conds \subseteq Cond
  BY Start
<1>1. CASE Return("none", NULL, 0) BY <1>1, ReturnNothingOrderly
<1>2. ASSUME c \in conds, Owns(m), Release(m),
             cq' = [cq EXCEPT ![c] = Append(@, [thread |-> self, mutex |-> m])],
             status' = Blocked(StatusAfterRelease(m)),
             Switch(Blocked(StatusAfterRelease(m)), ReadyAfterRelease(m),
                    [holds EXCEPT ![m] = @ \ {tid[self]}]),
             call' = [call EXCEPT ![self] = Called("wait", m, 1)],
             UNCHANGED <<libVars, tableVars, mutexes, conds, observer>>
      PROVE  Orderly'
  <2> DEFINE st == StatusAfterRelease(m)
             rl == ReadyAfterRelease(m)
             w  == [thread |-> current_thread, mutex |-> m]
             q  == Append(cq[c], w)
  <2>0. m \in mutexes /\ m \in Mutex /\ c \in Cond BY <1>0, <1>2 DEF Owns
  <2>1. PICK h \in all_threads : Handed(m, h, st, rl) BY <1>2, <2>0, ReleaseHands
  <2>2. status' = Blocked(st) BY <1>2
  <2>3. PICK hd : Switch(status', rl, hd) BY <1>2
  <2>4. /\ cq'[c] = q /\ \A d \in conds : d # c => cq'[d] = cq[d]
        /\ w.thread = current_thread
    BY <1>0, <1>2, <2>0 DEF TypeOK, self
  <2>5. /\ Len(cq[c]) \in Nat /\ DOMAIN cq[c] = 1 .. Len(cq[c])
        /\ DOMAIN q = 1 .. Len(cq[c]) + 1
        /\ \A j \in 1 .. Len(cq[c]) : q[j] = cq[c][j]
        /\ q[Len(cq[c]) + 1] = w
    <3>1. cq[c] \in Seq([thread : Tcb, mutex : Mutex]) BY <2>0 DEF TypeOK
    <3>2. w \in [thread : Tcb, mutex : Mutex] BY <1>0, <2>0
    <3> HIDE DEF w
    <3> QED BY <3>1, <3>2, AppendEffect
  <2> HIDE DEF st, rl, w, q
  <2>6. /\ status' \in [Tcb -> Status] /\ status'[current_thread] = "WAITING"
        /\ \A t \in Tcb : t # current_thread => status'[t] = st[t]
    BY <1>0, <2>1, <2>2 DEF Blocked, Status, Handed, self
  <2>7. /\ \A t \in Tcb : t # current_thread => call'[t] = call[t]
        /\ call'[current_thread].op = "wait" /\ call'[current_thread].arg = m
    BY <1>0, <1>2 DEF TypeOK, Called, self
  <2>8. /\ h \in Tcb /\ status[h] # "DONE"
        /\ h = current_thread \/ (call[h].op # "join" /\ status'[h] = "WORKING")
        /\ \A t \in Tcb : t # h /\ t # current_thread => status'[t] = status[t]
        /\ status'[h] # "DONE"
        /\ \A t \in ToSet(ready_list) : t \in ToSet(rl)
        /\ h # current_thread => h \in ToSet(rl)
        /\ \A t \in ToSet(rl) : t \in Tcb /\ t # current_thread /\ status'[t] = "WORKING"
    <3>1. \A t \in ToSet(ready_list) : t \in Tcb /\ t # current_thread BY Start
    <3> QED BY <1>0, <2>1, <2>6, <3>1 DEF Handed
  <2>9. TargetPart' /\ DonePart' /\ Live' = Live BY <1>2, <2>6, <2>7, <2>8, JoinsKept
  <2>10. \A u \in ToSet(rl) : u = current_thread' \/ u \in ToSet(ready_list')
    <3>1. Running BY DEF thread_cond_wait
    <3>2. rl \in Seq(Tcb) BY <2>1 DEF Handed
    <3> QED BY <2>3, <2>6, <2>8, <3>1, <3>2, SwitchKeeps
  <2>11. PlacePart'
    <3>1. Findable(h)
      <4>1. \A d \in conds : \A i \in DOMAIN cq[d] : i \in DOMAIN cq'[d] /\ cq'[d][i] = cq[d][i]
        BY <2>4, <2>5
      <4> QED BY <1>2, <2>1, <2>9, <4>1 DEF Findable, Handed
    <3>2. \A t \in Live' : status'[t] = "WORKING" => t = current_thread' \/ t \in ToSet(ready_list')
      <4>1. \A t \in Live : status'[t] = "WORKING" => t \in ToSet(rl)
        BY <1>0, <2>6, <2>8 DEF Orderly, PlacePart, Live
      <4> QED BY <2>9, <2>10, <4>1
    <3>3. PICK me \in Tcb : me = current_thread BY <1>0
    <3>4. Found(me)'
      <4>1. Len(cq[c]) + 1 \in DOMAIN cq'[c] /\ cq'[c][Len(cq[c]) + 1].thread = me
        BY <2>4, <2>5, <3>3
      <4> QED BY <1>2, <4>1 DEF Found
    <3>5. \A t \in Live' : t = me \/ t = h \/ (t \in Live /\ status'[t] = status[t])
      BY <1>0, <2>8, <2>9, <3>3 DEF Live
    <3> QED BY <2>8, <3>1, <3>2, <3>3, <3>4, <3>5, PlaceFrame DEF Orderly
  <2>12. OwnerPart'
    <3>1. \A t \in all_threads : \A l \in mutexes : Wants(t, l)' =>
              Wants(t, l) \/ (t = current_thread /\ l = m)
      BY <1>0, <2>7, <2>8 DEF Wants
    <3> QED BY <1>2, <2>0, <2>1, <2>8, <3>1, HandedOwner DEF Orderly, tableVars
  <2> QED BY <2>9, <2>11, <2>12 DEF Orderly
<1>3. Return("none", NULL, 0) \/ c \in conds BY DEF thread_cond_wait
<1> QED BY <1>1, <1>2, <1>3 DEF thread_cond_wait

\* thread_cond_signal: the first waiter is ready and owns its mutex, which
\* was free and which nobody waited for, or waits for it in its queue.
LEMMA SignalOrderly ==
    ASSUME TypeOK, TypeOK', InUse, Orderly, NEW c, thread_cond_signal(c)
    PROVE  Orderly'
<1>0. /\ current_thread \in Tcb /\ status[current_thread] = "WORKING"
      /\ all_threads \subseteq Tcb /\ current_thread \in all_threads
      /\ ready_list \in Seq(Tcb) /\ mutexes \subseteq Mutex /\ conds \subseteq Cond
  BY Start
<1>1. CASE Return("none", NULL, 0) BY <1>1, ReturnNothingOrderly
<1>2. ASSUME c \in conds, cq[c] # <<>>, NEW w, w = Head(cq[c]),
             cq' = [cq EXCEPT ![c] = Tail(@)],
             call' = [call EXCEPT ![self] = Idle],
             \/ /\ locked[w.mutex] = 0
                /\ locked' = [locked EXCEPT ![w.mutex] = 1]
                /\ owner' = [owner EXCEPT ![w.mutex] = tid[w.thread]]
                /\ status' = [status EXCEPT ![w.thread] = "WORKING"]
                /\ ready_list' = Append(ready_list, w.thread)
                /\ UNCHANGED mq
             \/ /\ locked[w.mutex] = 1
                /\ mq' = [mq EXCEPT ![w.mutex] = Append(@, w.thread)]
                /\ UNCHANGED <<locked, owner, status, ready_list>>,
             UNCHANGED <<libVars, tableVars, mutexes, conds, current_thread,
                         observer, process, holds>>
      PROVE  Orderly'
  <2> DEFINE h == w.thread
             m == w.mutex
             tl == Tail(cq[c])
  <2>1. /\ Len(cq[c]) \in Nat /\ Len(cq[c]) >= 1 /\ DOMAIN cq[c] = 1 .. Len(cq[c])
        /\ DOMAIN tl = 1 .. Len(cq[c]) - 1 /\ w = cq[c][1]
        /\ \A j \in 1 .. Len(cq[c]) - 1 : tl[j] = cq[c][j + 1]
    <3>1. cq[c] \in Seq([thread : Tcb, mutex : Mutex]) BY <1>0, <1>2 DEF TypeOK
    <3> QED BY <1>2, <3>1, TailEffect
  <2>2. /\ h \in all_threads /\ h \in Tcb /\ status[h] = "WAITING" /\ h # current_thread
        /\ call[h].op = "wait" /\ call[h].arg = m /\ m \in mutexes /\ m \in Mutex
    <3>1. 1 \in DOMAIN cq[c] BY <2>1
    <3>2. /\ h \in all_threads /\ status[h] = "WAITING"
          /\ call[h].op = "wait" /\ call[h].arg = m /\ m \in mutexes
      BY <1>2, <2>1, <3>1 DEF InUse, CondPart
    <3> QED BY <1>0, <3>2
  <2>3. \/ /\ locked[m] = 0
           /\ locked' = [locked EXCEPT ![m] = 1]
           /\ owner' = [owner EXCEPT ![m] = tid[h]]
           /\ status' = [status EXCEPT ![h] = "WORKING"]
           /\ ready_list' = Append(ready_list, h)
           /\ UNCHANGED mq
        \/ /\ locked[m] = 1
           /\ mq' = [mq EXCEPT ![m] = Append(@, h)]
           /\ UNCHANGED <<locked, owner, status, ready_list>>
    BY <1>2
  <2>4. cq'[c] = tl /\ \A d \in conds : d # c => cq'[d] = cq[d] BY <1>0, <1>2 DEF TypeOK
  <2> HIDE DEF tl
  <2>5. \A d \in conds : \A i \in DOMAIN cq[d] : cq[d][i].thread # h =>
            \E j \in DOMAIN cq'[d] : cq'[d][j].thread = cq[d][i].thread
    <3>1. ASSUME NEW i \in DOMAIN cq[c], i # 1 PROVE \E j \in DOMAIN tl : tl[j] = cq[c][i]
      <4>1. i - 1 \in 1 .. Len(cq[c]) - 1 /\ i - 1 + 1 = i BY <2>1, <3>1
      <4>2. tl[i - 1] = cq[c][i] BY <2>1, <4>1
      <4> QED BY <2>1, <4>1, <4>2
    <3>2. \A i \in DOMAIN cq[c] : cq[c][i].thread # h => i # 1 BY <2>1
    <3> QED BY <2>4, <3>1, <3>2
  <2> HIDE DEF h, m
  <2>6. /\ \A t \in Tcb : t # current_thread => call'[t] = call[t]
        /\ call'[current_thread].op = "none"
    BY <1>0, <1>2 DEF TypeOK, Idle, Called, self
  <2>7. /\ \A t \in Tcb : t # h => status'[t] = status[t]
        /\ status'[h] \in {"WAITING", "WORKING"}
    BY <2>2, <2>3 DEF TypeOK
  <2>8. TargetPart' /\ DonePart' /\ Live' = Live
    BY <1>0, <1>2, <2>2, <2>6, <2>7, JoinsKept
  <2>9. all_threads' = all_threads /\ tid' = tid BY <1>2 DEF tableVars
  <2>10. \A t \in all_threads : \A l \in mutexes : Wants(t, l)' => Wants(t, l)
    BY <1>0, <2>2, <2>6, <2>7 DEF Wants
  <2>11. CASE /\ locked[m] = 0
              /\ locked' = [locked EXCEPT ![m] = 1]
              /\ owner' = [owner EXCEPT ![m] = tid[h]]
              /\ status' = [status EXCEPT ![h] = "WORKING"]
              /\ ready_list' = Append(ready_list, h)
              /\ UNCHANGED mq
    <3>1. /\ locked'[m] = 1 /\ owner'[m] = tid[h] /\ status'[h] = "WORKING"
          /\ \A l \in mutexes : l # m => locked'[l] = locked[l] /\ owner'[l] = owner[l]
      BY <1>0, <2>2, <2>11 DEF TypeOK
    <3>2. ToSet(ready_list') = ToSet(ready_list) \cup {h} BY <1>0, <2>2, <2>11, AppendEffect
    <3>3. PlacePart'
      <4>1. Findable(h) BY <1>2, <2>5, <2>8, <2>11 DEF Findable
      <4>2. \A t \in Live' : status'[t] = "WORKING" =>
                t = current_thread' \/ t \in ToSet(ready_list')
        BY <1>0, <1>2, <2>7, <2>8, <3>2 DEF Orderly, PlacePart, Live
      <4>3. \A t \in Live' : status'[t] = "WAITING" =>
                t \in Live /\ status[t] = "WAITING" /\ t # h
        BY <1>0, <2>7, <2>8, <3>1 DEF Live
      <4> QED BY <4>1, <4>2, <4>3, PlaceFrame, SMTT(40) DEF Orderly
    <3>4. OwnerPart'
      <4>1. \A t \in all_threads : tid[t] = tid[h] => t = h BY <2>2 DEF InUse, HeapPart
      <4>2. \A t \in all_threads : \A l \in mutexes : Wants(t, l)' => t # h BY <3>1 DEF Wants
      <4> QED BY <1>2, <2>9, <2>10, <2>11, <3>1, <4>1, <4>2 DEF Orderly, OwnerPart
    <3> QED BY <2>8, <3>3, <3>4 DEF Orderly
  <2>12. CASE /\ locked[m] = 1
              /\ mq' = [mq EXCEPT ![m] = Append(@, h)]
              /\ UNCHANGED <<locked, owner, status, ready_list>>
    <3>1. /\ ToSet(mq'[m]) = ToSet(mq[m]) \cup {h}
          /\ \A l \in mutexes : l # m => mq'[l] = mq[l]
      <4>1. mq'[m] = Append(mq[m], h) /\ \A l \in mutexes : l # m => mq'[l] = mq[l]
        BY <1>0, <2>2, <2>12 DEF TypeOK
      <4>2. mq[m] \in Seq(Tcb) BY <2>2 DEF TypeOK
      <4> QED BY <2>2, <4>1, <4>2, AppendEffect
    <3>2. PlacePart'
      <4>1. Findable(h) BY <1>2, <2>5, <2>8, <3>1 DEF Findable
      <4>2. \A t \in Live' : status'[t] = "WORKING" =>
                t = current_thread' \/ t \in ToSet(ready_list')
        BY <1>2, <2>8, <2>12 DEF Orderly, PlacePart
      <4>3. Found(h)' BY <1>2, <2>2, <3>1 DEF Found
      <4>4. \A t \in Live' : t \in Live /\ status'[t] = status[t] BY <2>8, <2>12
      <4> QED BY <4>1, <4>2, <4>3, <4>4, PlaceFrame DEF Orderly
    <3>3. OwnerPart' BY <1>2, <2>9, <2>10, <2>12, <3>1 DEF Orderly, OwnerPart
    <3> QED BY <2>8, <3>2, <3>3 DEF Orderly
  <2> QED BY <2>3, <2>11, <2>12
<1> QED BY <1>1, <1>2 DEF thread_cond_signal

\* thread_terminate: the observer of the running thread is ready, and the
\* thread it joined is done.
LEMMA TerminateOrderly ==
    ASSUME TypeOK, TypeOK', InUse, Orderly, process' # "crash", thread_terminate
    PROVE  Orderly'
<1> DEFINE o  == observer[self]
           st == IF o = NULL THEN [status EXCEPT ![self] = "DONE"]
                 ELSE [status EXCEPT ![self] = "DONE", ![o] = "WORKING"]
           rl == IF o = NULL THEN ready_list ELSE Append(ready_list, o)
           d  == next_to_destroy
           h  == IF o = NULL THEN current_thread ELSE o
<1>0. /\ current_thread \in Tcb /\ status[current_thread] = "WORKING"
      /\ all_threads \subseteq Tcb /\ current_thread \in all_threads
      /\ ready_list \in Seq(Tcb) /\ status \in [Tcb -> Status]
      /\ \A t \in ToSet(ready_list) : t \in Tcb /\ t # current_thread /\ status[t] = "WORKING"
  BY Start
<1>1. CASE Crash BY <1>1 DEF Crash
<1>2. ASSUME o # Garbage,
             status' = st,
             observer' = [observer EXCEPT ![self] = NULL],
             destroy_thread({d}),
             next_to_destroy' = self,
             Switch(st, rl, holds),
             call' = [call EXCEPT ![self] = Idle],
             UNCHANGED <<ready, inits, max_id, tid, mutexVars, condVars>>
      PROVE  Orderly'
  <2>1. (o = NULL \/ o \in Tcb) /\ NULL \notin Tcb
    <3>1. o \in Tcb \cup {NULL, Garbage} BY <1>0 DEF TypeOK, self
    <3> QED BY <1>2, <3>1, ConstantsAssumption
  <2>2. o # NULL =>
          /\ o \in all_threads /\ o # current_thread /\ status[o] = "WAITING"
          /\ call[o].op = "join"
    <3>1. o # NULL => o \in all_threads /\ status[o] = "WAITING" /\ call[o].op = "join"
      BY <1>0, <2>1 DEF InUse, JoinPart, self
    <3> QED BY <1>0, <3>1
  <2>3. /\ st \in [Tcb -> Status] /\ st[current_thread] = "DONE"
        /\ o # NULL => st[o] = "WORKING"
        /\ \A t \in Tcb : t # current_thread /\ t # o => st[t] = status[t]
    <3>1. CASE o = NULL BY <1>0, <3>1 DEF Status, self
    <3>2. CASE o # NULL
      <4> HIDE DEF o
      <4> QED BY <1>0, <2>1, <2>2, <3>2 DEF Status, self
    <3> QED BY <3>1, <3>2
  <2>4. /\ rl \in Seq(Tcb)
        /\ o # NULL => o \in ToSet(rl)
        /\ \A t \in ToSet(rl) : t \in ToSet(ready_list) \/ (t = o /\ o # NULL)
        /\ \A t \in ToSet(ready_list) : t \in ToSet(rl)
    <3>1. CASE o = NULL BY <1>0, <3>1
    <3>2. CASE o # NULL
      <4>1. rl = Append(ready_list, o) BY <3>2
      <4> HIDE DEF o, rl
      <4> QED BY <1>0, <2>1, <3>2, <4>1, AppendEffect
    <3> QED BY <3>1, <3>2
  <2>5. status' = st /\ Switch(st, rl, holds) BY <1>2
  <2>6. /\ observer'[current_thread] = NULL
        /\ \A u \in Tcb : u # current_thread => observer'[u] = observer[u]
        /\ observer[current_thread] = o
    BY <1>0, <1>2 DEF TypeOK, self
  <2>7. /\ all_threads' = all_threads \ {d} /\ next_to_destroy' = current_thread
        /\ tid' = tid /\ max_id' = max_id
        /\ mutexes' = mutexes /\ mq' = mq /\ locked' = locked /\ owner' = owner
        /\ conds' = conds /\ cq' = cq
    BY <1>2 DEF destroy_thread, mutexVars, condVars, self
  <2>8. d \in all_threads => status[d] = "DONE"
    <3>1. NULL \notin all_threads BY <1>0, ConstantsAssumption
    <3> QED BY <3>1 DEF InUse, HeapPart
  <2>9. \A t \in all_threads \ Live : t = d BY DEF Orderly, DonePart
  <2>10. Running BY DEF thread_terminate
  <2> HIDE DEF o, st, rl, d, h
  <2>11. Live' = Live \ {current_thread} /\ Live \subseteq Tcb
    <3>1. \A t \in Live : t # d BY <2>8 DEF Live
    <3>2. \A t \in Live : t # current_thread => st[t] # "DONE"
      BY <1>0, <2>1, <2>3 DEF Live
    <3>3. \A t \in all_threads' : st[t] # "DONE" => t \in Live /\ t # current_thread
      <4>1. \A t \in all_threads' : t \notin Live => FALSE BY <2>7, <2>9
      <4> QED BY <2>3, <4>1
    <3> QED BY <1>0, <2>5, <2>7, <3>1, <3>2, <3>3 DEF Live
  <2>12. /\ \A t \in Tcb : t # current_thread => call'[t] = call[t]
         /\ call'[current_thread].op = "none"
    BY <1>0, <1>2 DEF TypeOK, Idle, Called, self
  <2>13. \A t \in ToSet(rl) : st[t] = "WORKING" => t = current_thread' \/ t \in ToSet(ready_list')
    <3>1. \A t \in ToSet(rl) : st[t] = "WORKING" BY <1>0, <2>1, <2>2, <2>3, <2>4
    <3> QED BY <2>3, <2>4, <2>5, <2>10, <3>1, SwitchKeeps
  <2>14. PlacePart'
    <3>1. Findable(o)
      <4>1. \A u \in Live : observer[u] \in Tcb /\ observer[u] # o =>
                u \in Live' /\ observer'[u] = observer[u]
        BY <2>6, <2>11
      <4> QED BY <2>7, <4>1 DEF Findable
    <3>2. \A t \in Live' : status'[t] = "WORKING" => t = current_thread' \/ t \in ToSet(ready_list')
      <4>1. \A t \in Live' : st[t] = "WORKING" => t \in ToSet(rl)
        BY <2>1, <2>3, <2>4, <2>11 DEF Orderly, PlacePart
      <4> QED BY <2>5, <2>13, <4>1
    <3>3. \A t \in Live' : status'[t] = "WAITING" => t \in Live /\ status[t] = "WAITING" /\ t # o
      BY <2>1, <2>3, <2>5, <2>11
    <3> QED BY <3>1, <3>2, <3>3, PlaceFrame DEF Orderly
  <2>15. OwnerPart'
    <3>1. \A t \in all_threads' : \A m \in mutexes : Wants(t, m)' =>
              t \in all_threads /\ Wants(t, m) /\ tid'[t] = tid[t]
      <4>1. \A t \in all_threads' : st[t] = "WAITING" =>
              /\ t \in all_threads /\ t \in Tcb /\ t # current_thread /\ status[t] = "WAITING"
        BY <1>0, <2>1, <2>3, <2>7
      <4> QED BY <2>5, <2>7, <2>12, <4>1 DEF Wants
    <3> QED BY <2>7, <3>1, OwnerFrame DEF Orderly, mutexVars
  <2>16. TargetPart'
    <3>1. ASSUME NEW t \in all_threads', call'[t].op = "join", call'[t].ret = 0
          PROVE  /\ call'[t].arg \in 0 .. max_id - 1
                 /\ st[t] = "WAITING" =>
                      \E u \in Live' : observer'[u] = t /\ tid[u] = call'[t].arg
                 /\ st[t] = "WORKING" => \A u \in Live' : tid[u] # call'[t].arg
      <4>1. t \in all_threads /\ t \in Tcb /\ t # current_thread /\ call'[t] = call[t]
        BY <1>0, <2>7, <2>12, <3>1
      <4>2. /\ call[t].arg \in 0 .. max_id - 1
            /\ status[t] = "WAITING" =>
                 \E u \in Live : observer[u] = t /\ tid[u] = call[t].arg
            /\ status[t] = "WORKING" => \A u \in Live : tid[u] # call[t].arg
        BY <3>1, <4>1 DEF Orderly, TargetPart
      <4>3. CASE t = o
        <5>1. status[t] = "WAITING" /\ st[t] = "WORKING" BY <2>1, <2>2, <2>3, <4>1, <4>3
        <5>2. PICK u \in Live : observer[u] = t /\ tid[u] = call[t].arg BY <4>2, <5>1
        <5>3. u = current_thread
          BY <1>0, <2>6, <2>11, <4>1, <4>3, <5>2 DEF InUse, JoinPart
        <5>4. \A v \in Live : tid[v] = tid[current_thread] => v = current_thread
          BY <1>0 DEF InUse, HeapPart, Live
        <5> QED BY <2>11, <4>1, <4>2, <5>1, <5>2, <5>3, <5>4
      <4>4. CASE t # o
        <5>1. st[t] = status[t] BY <2>3, <4>1, <4>4
        <5>2. \A u \in Live : observer[u] = t => u \in Live' /\ observer'[u] = t
          BY <2>6, <2>11, <4>4
        <5> QED BY <2>11, <4>1, <4>2, <5>1, <5>2
      <4> QED BY <4>3, <4>4
    <3> QED BY <2>5, <2>7, <3>1 DEF TargetPart
  <2>17. DonePart'
    <3>1. \A t \in all_threads' : t \notin Live' => t = current_thread BY <2>7, <2>9, <2>11
    <3> QED BY <2>7, <3>1 DEF DonePart
  <2> QED BY <2>14, <2>15, <2>16, <2>17 DEF Orderly
<1> QED BY <1>1, <1>2 DEF thread_terminate, ToDestroy

\* init(): the only thread runs.
LEMMA LibInitOrderly ==
    ASSUME TypeOK, TypeOK', NEW a \in Tcb, lib_init(a)
    PROVE  Orderly'
<1>1. /\ all_threads' = {a} /\ current_thread' = a /\ status'[a] = "WORKING"
      /\ mutexes' = {} /\ call'[a].op = "none"
  BY DEF lib_init, NewThread, TypeOK, Idle, Called
<1>2. Live' = {a} BY <1>1 DEF Live
<1> QED BY <1>1, <1>2 DEF Orderly, PlacePart, OwnerPart, TargetPart, DonePart

\* Every call that does not end the use of the library keeps Orderly; it is
\* kept also when the call finds that all threads wait.
LEMMA CallOrderly ==
    ASSUME TypeOK, TypeOK', InUse, Orderly, Running, ready' = 1, process' # "crash", Next
    PROVE  Orderly'
<1>1. ASSUME NEW a \in Tcb, lib_init(a) PROVE Orderly' BY <1>1 DEF lib_init, Running
<1>2. ASSUME NEW a \in Tcb, thread_create(a) PROVE Orderly' BY <1>2, CreateOrderly
<1>3. CASE thread_yield BY <1>3, YieldOrderly
<1>4. ASSUME NEW k \in 0 .. max_id, thread_join(k) PROVE Orderly'
  <2>1. k \in Nat BY DEF TypeOK
  <2> QED BY <1>4, <2>1, JoinOrderly
<1>5. ASSUME NEW m, thread_mutex_init(m) PROVE Orderly' BY <1>5, MutexInitOrderly
<1>6. ASSUME NEW m, thread_mutex_lock(m) PROVE Orderly' BY <1>6, LockOrderly
<1>7. ASSUME NEW m, thread_mutex_unlock(m) PROVE Orderly' BY <1>7, UnlockOrderly
<1>8. ASSUME NEW m, NEW c, thread_cond_wait(c, m) PROVE Orderly' BY <1>8, WaitOrderly
<1>9. ASSUME NEW c, thread_cond_init(c) PROVE Orderly' BY <1>9, CondInitOrderly
<1>10. ASSUME NEW c, thread_cond_signal(c) PROVE Orderly' BY <1>10, SignalOrderly
<1>11. CASE thread_terminate BY <1>11, TerminateOrderly
<1>12. CASE thread_cleanup
  <2>1. CASE Return("none", NULL, 0) BY <2>1, ReturnNothingOrderly
  <2>2. CASE ready' = 0 BY <2>2
  <2> QED BY <1>12, <2>1, <2>2 DEF thread_cleanup
<1>13. CASE Exited BY <1>13 DEF Exited, Running
<1> QED
  BY <1>1, <1>2, <1>3, <1>4, <1>5, <1>6, <1>7, <1>8, <1>9, <1>10, <1>11, <1>12, <1>13
  DEF Next
-----------------------------------------------------------------------------
\* The calls that change neither the table nor the heap.
LEMMA PlainTable ==
    ASSUME Next
    PROVE  \/ \E a \in Tcb : lib_init(a) \/ thread_create(a)
           \/ thread_terminate \/ thread_cleanup
           \/ UNCHANGED <<tableVars, ready, next_to_destroy>>
<1> DEFINE Same == UNCHANGED <<tableVars, ready, next_to_destroy>>
<1> USE DEF Return, libVars
<1>1. thread_yield => Same BY DEF thread_yield
<1>2. ASSUME NEW k, thread_join(k) PROVE Same BY <1>2 DEF thread_join, Crash
<1>3. ASSUME NEW m, thread_mutex_init(m) \/ thread_mutex_lock(m) \/ thread_mutex_unlock(m)
      PROVE  Same
  BY <1>3 DEF thread_mutex_init, thread_mutex_lock, thread_mutex_unlock
<1>4. ASSUME NEW m, NEW c, thread_cond_wait(c, m) PROVE Same BY <1>4 DEF thread_cond_wait
<1>5. ASSUME NEW c, thread_cond_init(c) \/ thread_cond_signal(c) PROVE Same
  BY <1>5 DEF thread_cond_init, thread_cond_signal
<1>6. Exited => Same BY DEF Exited, vars
<1> HIDE DEF Same
<1>7. \/ \E a \in Tcb : lib_init(a) \/ thread_create(a)
      \/ thread_terminate \/ thread_cleanup \/ Same
  BY <1>1, <1>2, <1>3, <1>4, <1>5, <1>6 DEF Next
<1> QED BY <1>7 DEF Same

\* Every call keeps the table what is in memory.
LEMMA TableStep ==
    ASSUME TypeOK, TypeOK', TableSound, Next
    PROVE  TableSound'
<1> USE DEF TableSound
<1>1. ASSUME NEW a \in Tcb, lib_init(a) PROVE TableSound'
  <2>1. all_threads' = {a} /\ allocated' = {a} /\ tid'[a] = 0 /\ max_id' = 1 /\ ready' = 1
    BY <1>1 DEF lib_init, NewThread, TypeOK
  <2> QED BY <2>1
<1>2. ASSUME NEW a \in Tcb, thread_create(a) PROVE TableSound'
  <2>1. /\ all_threads' = all_threads \cup {a} /\ allocated' = allocated \cup {a}
        /\ a \notin allocated /\ tid' = [tid EXCEPT ![a] = max_id] /\ max_id' = max_id + 1
        /\ ready' = 1
    BY <1>2 DEF thread_create, NewThread, Running, libVars
  <2>2. tid'[a] = max_id /\ \A t \in all_threads : tid'[t] = tid[t] BY <2>1 DEF TypeOK
  <2>3. max_id \in Nat /\ \A t \in all_threads : tid[t] \in Nat BY DEF TypeOK
  <2> QED BY <2>1, <2>2, <2>3
<1>3. CASE thread_terminate
  BY <1>3 DEF thread_terminate, destroy_thread, Crash, tableVars, libVars, Running
<1>4. CASE thread_cleanup
  BY <1>4 DEF thread_cleanup, destroy_thread, Return, tableVars, libVars, Running
<1>5. CASE UNCHANGED <<tableVars, ready, next_to_destroy>> BY <1>5 DEF tableVars
<1> QED BY <1>1, <1>2, <1>3, <1>4, <1>5, PlainTable

\* The exit with "deadlock" is taken where the running thread cannot work
\* and nobody is ready.
LEMMA DeadlockStep ==
    ASSUME TypeOK, Running, Next, process' = "deadlock"
    PROVE  /\ ready' = 1 /\ ready_list' = <<>> /\ current_thread' \in Tcb
           /\ status'[current_thread'] # "WORKING"
<1> DEFINE Stuck == /\ ready' = 1 /\ ready_list' = <<>> /\ current_thread' \in Tcb
                    /\ status'[current_thread'] # "WORKING"
<1> USE DEF Running, libVars
<1>0. current_thread \in Tcb BY DEF TypeOK
<1>1. ASSUME NEW st, NEW rl, NEW hd, Switch(st, rl, hd), status' = st, ready' = ready PROVE Stuck
  BY <1>0, <1>1 DEF Switch, self
<1>2. ASSUME NEW a \in Tcb, lib_init(a) \/ thread_create(a) PROVE FALSE
  BY <1>2 DEF lib_init, thread_create, NewThread
<1>3. CASE thread_yield BY <1>1, <1>3 DEF thread_yield
<1>4. ASSUME NEW k, thread_join(k) PROVE Stuck
  BY <1>1, <1>4 DEF thread_join, Return, Crash
<1>5. ASSUME NEW m, thread_mutex_init(m) \/ thread_mutex_unlock(m) PROVE FALSE
  BY <1>5 DEF thread_mutex_init, thread_mutex_unlock, Return
<1>6. ASSUME NEW m, thread_mutex_lock(m) PROVE Stuck
  BY <1>1, <1>6 DEF thread_mutex_lock, Return
<1>7. ASSUME NEW m, NEW c, thread_cond_wait(c, m) PROVE Stuck
  BY <1>1, <1>7 DEF thread_cond_wait, Return
<1>8. ASSUME NEW c, thread_cond_init(c) \/ thread_cond_signal(c) PROVE FALSE
  BY <1>8 DEF thread_cond_init, thread_cond_signal, Return
<1>9. CASE thread_terminate
  <2>1. process' # "crash" OBVIOUS
  <2>2. \E st, rl, hd : Switch(st, rl, hd) /\ status' = st /\ ready' = ready
    BY <1>9, <2>1 DEF thread_terminate, Crash
  <2> QED BY <1>1, <2>2
<1>10. CASE thread_cleanup BY <1>10 DEF thread_cleanup, Return
<1>11. CASE Exited BY <1>11 DEF Exited, vars, schedVars
<1> QED BY <1>2, <1>3, <1>4, <1>5, <1>6, <1>7, <1>8, <1>9, <1>10, <1>11 DEF Next

\* Then all threads that have not terminated wait.
LEMMA DeadlockReal ==
    ASSUME TypeOK, TypeOK', InUse, Orderly, Running, Next, process' = "deadlock"
    PROVE  \A t \in Live' : status'[t] = "WAITING"
<1>1. /\ ready' = 1 /\ ready_list' = <<>> /\ current_thread' \in Tcb
      /\ status'[current_thread'] # "WORKING"
  BY DeadlockStep
<1>2. PlacePart' BY <1>1, CallOrderly DEF Orderly
<1>3. ToSet(<<>>) = {} BY DEF ToSet
<1>4. \A t \in Live' : status'[t] # "WORKING" BY <1>1, <1>2, <1>3 DEF PlacePart
<1> QED BY <1>4 DEF Live, TypeOK

\* From a clean heap, no call goes wrong or leaves garbage behind.
LEMMA CleanStep ==
    ASSUME TypeOK, TypeOK', InUse, CleanSound, Running, Next
    PROVE  CleanSound'
<1> USE DEF CleanSound
<1>0. current_thread \in Tcb /\ NULL # Garbage /\ Garbage \notin Tcb /\ NULL \notin Tcb
  BY ConstantsAssumption DEF TypeOK, Running
<1>1. \A u \in Tcb : observer[u] \in Tcb \cup {NULL} BY DEF TypeOK
<1>2. \A u \in Tcb : observer'[u] # Garbage
  <2>1. CASE \A u \in Tcb : observer'[u] \in {observer[u], NULL} BY <1>0, <2>1
  <2>2. ASSUME NEW t, NEW obs, Joining(t, obs), observer' = obs
        PROVE  \A u \in Tcb : observer'[u] # Garbage
    BY <1>0, <2>2, JoinPointers
  <2> QED BY <2>1, <2>2, ObserverStep
<1>3. \A u \in Tcb \ allocated' : handle'[u] = 0
  <2>1. ASSUME NEW a \in Tcb, lib_init(a) \/ thread_create(a)
        PROVE  \A u \in Tcb \ allocated' : handle'[u] = 0
    BY <2>1 DEF lib_init, thread_create, NewThread, TypeOK
  <2>2. CASE thread_terminate
    BY <2>2 DEF thread_terminate, destroy_thread, Crash, tableVars
  <2>3. CASE thread_cleanup BY <2>3 DEF thread_cleanup, destroy_thread, Return, tableVars
  <2>4. CASE UNCHANGED <<tableVars, ready, next_to_destroy>> BY <2>4 DEF tableVars
  <2> QED BY <2>1, <2>2, <2>3, <2>4, PlainTable
<1>4. process' # "crash"
  <2> USE DEF Running
  <2>1. ASSUME NEW st, NEW rl, NEW hd, Switch(st, rl, hd) PROVE process' # "crash"
    BY <2>1 DEF Switch
  <2>2. ASSUME NEW a \in Tcb, lib_init(a) \/ thread_create(a) PROVE process' # "crash"
    BY <2>2 DEF lib_init, thread_create, NewThread
  <2>3. CASE thread_yield BY <2>1, <2>3 DEF thread_yield
  <2>4. ASSUME NEW k, thread_join(k) PROVE process' # "crash"
    <3>1. ASSUME NEW t \in all_threads PROVE ~WalkFaults([observer EXCEPT ![t] = self])
      <4> DEFINE obs == [observer EXCEPT ![t] = self]
      <4>1. \A u \in Tcb : obs[u] \in Tcb \cup {NULL} BY <1>0, <1>1 DEF TypeOK, self
      <4> HIDE DEF obs
      <4>2. ~WalkFaults(obs) BY <1>0, <4>1, NoFault
      <4> QED BY <4>2 DEF obs
    <3> QED BY <2>1, <2>4, <3>1 DEF thread_join, Return
  <2>5. ASSUME NEW m, thread_mutex_init(m) \/ thread_mutex_unlock(m) PROVE process' # "crash"
    BY <2>5 DEF thread_mutex_init, thread_mutex_unlock, Return
  <2>6. ASSUME NEW m, thread_mutex_lock(m) PROVE process' # "crash"
    BY <2>1, <2>6 DEF thread_mutex_lock, Return
  <2>7. ASSUME NEW m, NEW c, thread_cond_wait(c, m) PROVE process' # "crash"
    BY <2>1, <2>7 DEF thread_cond_wait, Return
  <2>8. ASSUME NEW c, thread_cond_init(c) \/ thread_cond_signal(c) PROVE process' # "crash"
    BY <2>8 DEF thread_cond_init, thread_cond_signal, Return
  <2>9. CASE thread_terminate
    <3>1. observer[self] # Garbage BY <1>0 DEF self
    <3>2. ToDestroy \in allocated \cup {NULL} BY DEF InUse, HeapPart, ToDestroy
    <3>3. \E st, rl, hd : Switch(st, rl, hd) BY <2>9, <3>1, <3>2 DEF thread_terminate
    <3> QED BY <2>1, <3>3
  <2>10. CASE thread_cleanup BY <2>10 DEF thread_cleanup, Return
  <2>11. CASE Exited BY <2>11 DEF Exited, vars, schedVars
  <2> QED BY <2>2, <2>3, <2>4, <2>5, <2>6, <2>7, <2>8, <2>9, <2>10, <2>11 DEF Next
<1> QED BY <1>2, <1>3, <1>4
-----------------------------------------------------------------------------
\* A step that changes nothing.
LEMMA UnchangedFull ==
    ASSUME FullInv, UNCHANGED vars
    PROVE  FullInv'
<1> USE DEF vars, libVars, tableVars, mutexVars, condVars, schedVars
<1>1. IInv' BY UnchangedSafe DEF FullInv
<1>2. TableSound' /\ (CleanSound => CleanSound') BY DEF FullInv, TableSound, CleanSound
<1>3. Live' = Live /\ inits' = inits /\ process' = process /\ status' = status /\ Running' = Running
  BY DEF Live, Running
<1>4. PlacePart => PlacePart' BY <1>3 DEF PlacePart
<1>5. OwnerPart => OwnerPart' BY DEF OwnerPart, Wants
<1>6. TargetPart /\ DonePart => TargetPart' /\ DonePart' BY <1>3 DEF TargetPart, DonePart
<1>7. JoinAcyclic => JoinAcyclic'
  <2>1. \A u \in Tcb : Joiner(u)' \subseteq Joiner(u) BY <1>3 DEF Joiner
  <2> QED BY <1>3, <2>1, FewerJoins DEF JoinAcyclic
<1> QED BY <1>1, <1>2, <1>3, <1>4, <1>5, <1>6, <1>7 DEF FullInv, Orderly

\* The first init(), and the second.
LEMMA LibInitFull ==
    ASSUME FullInv, IInv', NEW a \in Tcb, lib_init(a)
    PROVE  FullInv'
<1>0. TypeOK /\ TypeOK' BY DEF FullInv, IInv
<1>1. Next BY DEF Next
<1>2. TableSound' BY <1>0, <1>1, TableStep DEF FullInv
<1>3. Orderly' BY <1>0, LibInitOrderly
<1>4. inits \in Nat /\ inits' = inits + 1 /\ process' # "deadlock"
  BY <1>0 DEF TypeOK, lib_init, NewThread
<1>5. inits' <= 1 => inits = 0 BY <1>4
<1>6. inits = 0 => JoinAcyclic'
  <2>1. inits = 0 => (\A u \in Tcb : observer[u] \notin Tcb)'
    BY DEF FullInv, IInv, Fresh, lib_init
  <2>2. (\A u \in Tcb : observer[u] \notin Tcb)' => JoinAcyclic' BY NoObservers, PTL
  <2> QED BY <2>1, <2>2
<1>7. CleanSound => CleanSound' BY <1>0 DEF CleanSound, lib_init, NewThread, TypeOK
<1> QED BY <1>2, <1>3, <1>4, <1>5, <1>6, <1>7 DEF FullInv

\* A call while the library is in use.
LEMMA CallFull ==
    ASSUME FullInv, IInv', Running, Next
    PROVE  FullInv'
<1>0. TypeOK /\ TypeOK' BY DEF FullInv, IInv
<1>1. TableSound' BY <1>0, TableStep DEF FullInv
<1>2. inits' = inits /\ inits # 0 /\ inits \in Nat
  BY <1>0, CallFrame DEF FullInv, IInv, Fresh, Running, TypeOK
<1>3. CASE inits # 1 BY <1>1, <1>2, <1>3 DEF FullInv
<1>4. CASE inits = 1
  <2>1. InUse /\ Orderly /\ JoinAcyclic BY <1>4 DEF FullInv, IInv
  <2>2. Running' => Orderly' BY <1>0, <2>1, CallOrderly DEF Running
  <2>3. process' = "deadlock" => \A t \in Live' : status'[t] = "WAITING"
    BY <1>0, <2>1, DeadlockReal
  <2>4. CleanSound => CleanSound' BY <1>0, <2>1, CleanStep
  <2>5. JoinAcyclic' BY <1>0, <2>1, CallAcyclic
  <2> QED BY <1>1, <1>2, <1>4, <2>2, <2>3, <2>4, <2>5 DEF FullInv
<1> QED BY <1>3, <1>4

\* FullInv holds in every state of every execution.
THEOREM InvariantFull == Spec => []FullInv
<1>1. Init => FullInv
  <2> SUFFICES ASSUME Init PROVE FullInv OBVIOUS
  <2>1. \A u \in Tcb : observer[u] \in {NULL, Garbage} BY ConstantsAssumption DEF Init
  <2>2. IInv
    <3>1. TypeOK BY InitType
    <3>2. Fresh BY <2>1, ConstantsAssumption DEF Init, Fresh
    <3> QED BY <3>1, <3>2 DEF IInv, Fresh, Running
  <2>3. TableSound BY DEF TableSound, Init
  <2>4. inits = 0 /\ process = "running" BY DEF Init
  <2>5. HeapContent \subseteq {NULL} => CleanSound
    <3> SUFFICES ASSUME HeapContent \subseteq {NULL} PROVE CleanSound OBVIOUS
    <3>1. Garbage \notin HeapContent BY ConstantsAssumption
    <3> QED BY <2>4, <3>1 DEF CleanSound, Init
  <2>6. JoinAcyclic BY DEF Init, JoinAcyclic, Running
  <2> QED BY <2>2, <2>3, <2>4, <2>5, <2>6 DEF FullInv
<1>2. FullInv /\ IInv' /\ [Next]_vars => FullInv'
  <2> SUFFICES ASSUME FullInv, IInv', Next PROVE FullInv' BY UnchangedFull
  <2>1. CASE Running BY <2>1, CallFull
  <2>2. CASE ~Running BY <2>2, OutsideCall, LibInitFull, UnchangedFull
  <2> QED BY <2>1, <2>2
<1> QED BY <1>1, <1>2, Invariant, PTL DEF Spec
-----------------------------------------------------------------------------
(***************************************************************************)
(* What FullInv says of the library's calls, in the terms of Threads.      *)
(***************************************************************************)
LEMMA FirstUse ==
    ASSUME FullInv, inits <= 1, Running
    PROVE  inits = 1 /\ TypeOK /\ InUse /\ Orderly /\ JoinAcyclic
<1>1. inits = 0 \/ inits = 1 BY DEF FullInv, IInv, TypeOK
<1>2. inits = 1 BY <1>1 DEF FullInv, IInv, Fresh, Running
<1> QED BY <1>2 DEF FullInv, IInv

\* The places of a thread, one kind after the other.
LEMMA PlaceKinds ==
    ASSUME NEW t, NEW p
    PROVE  p \in Places(t) <=>
             \/ t = current_thread /\ p = <<"running", t>>
             \/ \E i \in DOMAIN ready_list : ready_list[i] = t /\ p = <<"ready", i>>
             \/ \E u \in Live : observer[u] = t /\ p = <<"join", u>>
             \/ \E m \in mutexes : \E i \in DOMAIN mq[m] :
                  mq[m][i] = t /\ p = <<"mutex", m, i>>
             \/ \E c \in conds : \E i \in DOMAIN cq[c] :
                  cq[c][i].thread = t /\ p = <<"cond", c, i>>
<1> DEFINE Run == {<<"running", r>> : r \in {current_thread} \cap {t}}
           Rdy == {<<"ready", i>> : i \in {j \in DOMAIN ready_list : ready_list[j] = t}}
           Joins == {<<"join", u>> : u \in {v \in Live : observer[v] = t}}
           InMutex(m) == {<<"mutex", m, i>> : i \in {j \in DOMAIN mq[m] : mq[m][j] = t}}
           InCond(c) == {<<"cond", c, i>> : i \in {j \in DOMAIN cq[c] : cq[c][j].thread = t}}
<1>1. p \in Run <=> t = current_thread /\ p = <<"running", t>> OBVIOUS
<1>2. p \in Rdy <=> \E i \in DOMAIN ready_list : ready_list[i] = t /\ p = <<"ready", i>> OBVIOUS
<1>3. p \in Joins <=> \E u \in Live : observer[u] = t /\ p = <<"join", u>> OBVIOUS
<1>4. \A m \in mutexes : p \in InMutex(m) <=>
        \E i \in DOMAIN mq[m] : mq[m][i] = t /\ p = <<"mutex", m, i>>
  OBVIOUS
<1>5. \A c \in conds : p \in InCond(c) <=>
        \E i \in DOMAIN cq[c] : cq[c][i].thread = t /\ p = <<"cond", c, i>>
  OBVIOUS
<1> DEFINE Ms == UNION {InMutex(m) : m \in mutexes}
           Cs == UNION {InCond(c) : c \in conds}
<1>6. Places(t) = Run \cup Rdy \cup Joins \cup Ms \cup Cs BY DEF Places
<1> HIDE DEF Run, Rdy, Joins, InMutex, InCond
<1>7. p \in Ms <=> \E m \in mutexes : p \in InMutex(m) OBVIOUS
<1>8. p \in Cs <=> \E c \in conds : p \in InCond(c) OBVIOUS
<1> HIDE DEF Ms, Cs
<1>9. p \in Places(t) <=> p \in Run \/ p \in Rdy \/ p \in Joins \/ p \in Ms \/ p \in Cs BY <1>6
<1>10. (\E m \in mutexes : p \in InMutex(m)) <=>
         \E m \in mutexes : \E i \in DOMAIN mq[m] : mq[m][i] = t /\ p = <<"mutex", m, i>>
  BY <1>4
<1>11. (\E c \in conds : p \in InCond(c)) <=>
         \E c \in conds : \E i \in DOMAIN cq[c] : cq[c][i].thread = t /\ p = <<"cond", c, i>>
  BY <1>5
<1> QED BY <1>1, <1>2, <1>3, <1>7, <1>8, <1>9, <1>10, <1>11

\* A thread is where its status says.
LEMMA OnePlace ==
    ASSUME TypeOK, InUse, Orderly, NEW t \in Live
    PROVE  \E p \in Places(t) : Places(t) = {p}
<1> SUFFICES /\ \E p : p \in Places(t)
             /\ \A p, q : p \in Places(t) /\ q \in Places(t) => p = q
  OBVIOUS
<1>0. t \in Tcb /\ t \in all_threads BY DEF Live, TypeOK
<1>1. /\ \A s \in ToSet(ready_list) : s # current_thread /\ status[s] = "WORKING"
      /\ status[current_thread] = "WORKING"
  BY DEF InUse, ReadyPart
<1>2. \A i \in DOMAIN ready_list : ready_list[i] \in ToSet(ready_list) BY DEF ToSet
<1>3. \A m \in mutexes : \A i \in DOMAIN mq[m] :
        mq[m][i] \in ToSet(mq[m]) /\ status[mq[m][i]] = "WAITING"
  BY DEF InUse, MutexPart, ToSet
<1>4. \A c \in conds : \A i \in DOMAIN cq[c] : status[cq[c][i].thread] = "WAITING"
  BY DEF InUse, CondPart
<1>5. \A u \in Live : observer[u] = t => status[t] = "WAITING"
  BY <1>0 DEF InUse, JoinPart, Live, TypeOK
<1>6. CASE status[t] = "WORKING"
  <2>1. \A p : p \in Places(t) =>
          \/ t = current_thread /\ p = <<"running", t>>
          \/ \E i \in DOMAIN ready_list : ready_list[i] = t /\ p = <<"ready", i>>
    BY <1>3, <1>4, <1>5, <1>6, PlaceKinds
  <2>2. t = current_thread \/ t \in ToSet(ready_list) BY <1>6 DEF Orderly, PlacePart
  <2>3. CASE t = current_thread
    <3>1. \A i \in DOMAIN ready_list : ready_list[i] # t BY <1>1, <1>2, <2>3
    <3>2. <<"running", t>> \in Places(t) BY <2>3, PlaceKinds
    <3> QED BY <2>1, <3>1, <3>2
  <2>4. CASE t # current_thread
    <3>1. PICK i \in DOMAIN ready_list : ready_list[i] = t BY <2>2, <2>4 DEF ToSet
    <3>2. \A j \in DOMAIN ready_list : ready_list[j] = t => j = i
      BY <3>1 DEF InUse, ReadyPart, IsInjective
    <3>3. <<"ready", i>> \in Places(t) BY <3>1, PlaceKinds
    <3> QED BY <2>1, <2>4, <3>2, <3>3
  <2> QED BY <2>3, <2>4
<1>7. CASE status[t] = "WAITING"
  <2>1. \A p : p \in Places(t) =>
          \/ \E u \in Live : observer[u] = t /\ p = <<"join", u>>
          \/ \E m \in mutexes : \E i \in DOMAIN mq[m] : mq[m][i] = t /\ p = <<"mutex", m, i>>
          \/ \E c \in conds : \E i \in DOMAIN cq[c] :
               cq[c][i].thread = t /\ p = <<"cond", c, i>>
    BY <1>1, <1>2, <1>7, PlaceKinds
  <2>2. \A m \in mutexes : \A i \in DOMAIN mq[m] : mq[m][i] = t =>
          /\ \A u \in Live : observer[u] # t
          /\ \A c \in conds : \A j \in DOMAIN cq[c] : cq[c][j].thread # t
          /\ \A l \in mutexes : \A j \in DOMAIN mq[l] : mq[l][j] = t => l = m /\ j = i
    <3> SUFFICES ASSUME NEW m \in mutexes, NEW i \in DOMAIN mq[m], mq[m][i] = t
                 PROVE  /\ \A u \in Live : observer[u] # t
                        /\ \A c \in conds : \A j \in DOMAIN cq[c] : cq[c][j].thread # t
                        /\ \A l \in mutexes : \A j \in DOMAIN mq[l] :
                             mq[l][j] = t => l = m /\ j = i
      OBVIOUS
    <3>1. t \in ToSet(mq[m]) BY <1>3
    <3>2. \A u \in Live : observer[u] # t BY <3>1, Apart DEF Live, TypeOK
    <3>3. \A c \in conds : \A j \in DOMAIN cq[c] : cq[c][j].thread # t
      BY <3>1 DEF InUse, CondPart
    <3>4. \A l \in mutexes : \A j \in DOMAIN mq[l] : mq[l][j] = t => l = m
      BY <1>3, <3>1, Apart
    <3>5. \A j \in DOMAIN mq[m] : mq[m][j] = t => j = i
      BY DEF InUse, MutexPart, IsInjective
    <3> QED BY <3>2, <3>3, <3>4, <3>5
  <2>3. \A c \in conds : \A i \in DOMAIN cq[c] : cq[c][i].thread = t =>
          /\ \A u \in Live : observer[u] # t
          /\ \A d \in conds : \A j \in DOMAIN cq[d] : cq[d][j].thread = t => d = c /\ j = i
    <3>1. \A c \in conds : \A i \in DOMAIN cq[c] : \A u \in Live : observer[u] # cq[c][i].thread
      BY Apart DEF Live, TypeOK
    <3> QED BY <3>1 DEF InUse, CondPart
  <2>4. \A u, v \in Live : observer[u] = t /\ observer[v] = t => u = v
    BY <1>0 DEF InUse, JoinPart, Live, TypeOK
  <2>5. \A p, q : p \in Places(t) /\ q \in Places(t) => p = q
    <3> SUFFICES ASSUME NEW p, NEW q, p \in Places(t), q \in Places(t) PROVE p = q OBVIOUS
    <3>1. CASE \E u \in Live : observer[u] = t /\ p = <<"join", u>>
      BY <2>1, <2>2, <2>3, <2>4, <3>1
    <3>2. CASE \E m \in mutexes : \E i \in DOMAIN mq[m] : mq[m][i] = t /\ p = <<"mutex", m, i>>
      <4>0. PICK m \in mutexes : \E i \in DOMAIN mq[m] : mq[m][i] = t /\ p = <<"mutex", m, i>>
        BY <3>2
      <4>1. PICK i \in DOMAIN mq[m] : mq[m][i] = t /\ p = <<"mutex", m, i>> BY <4>0
      <4>2. \E l \in mutexes : \E j \in DOMAIN mq[l] : mq[l][j] = t /\ q = <<"mutex", l, j>>
        BY <2>1, <2>2, <4>1
      <4> QED BY <2>2, <4>1, <4>2
    <3>3. CASE \E c \in conds : \E i \in DOMAIN cq[c] :
                 cq[c][i].thread = t /\ p = <<"cond", c, i>>
      <4>0. PICK c \in conds : \E i \in DOMAIN cq[c] :
              cq[c][i].thread = t /\ p = <<"cond", c, i>>
        BY <3>3
      <4>1. PICK i \in DOMAIN cq[c] : cq[c][i].thread = t /\ p = <<"cond", c, i>> BY <4>0
      <4>2. \E d \in conds : \E j \in DOMAIN cq[d] : cq[d][j].thread = t /\ q = <<"cond", d, j>>
        BY <2>1, <2>2, <2>3, <4>1
      <4> QED BY <2>3, <4>1, <4>2
    <3> QED BY <2>1, <3>1, <3>2, <3>3
  <2>6. \E p : p \in Places(t)
    <3>1. CASE \E u \in Live : observer[u] = t BY <3>1, PlaceKinds
    <3>2. CASE \E m \in mutexes : t \in ToSet(mq[m])
      <4>1. \E m \in mutexes : \E i \in DOMAIN mq[m] : mq[m][i] = t BY <3>2 DEF ToSet
      <4> QED BY <4>1, PlaceKinds
    <3>3. CASE \E c \in conds : \E i \in DOMAIN cq[c] : cq[c][i].thread = t
      <4>1. PICK c \in conds : \E i \in DOMAIN cq[c] : cq[c][i].thread = t BY <3>3
      <4>2. PICK i \in DOMAIN cq[c] : cq[c][i].thread = t BY <4>1
      <4>3. <<"cond", c, i>> \in Places(t) BY <4>2, PlaceKinds
      <4> QED BY <4>3
    <3> QED BY <1>7, <3>1, <3>2, <3>3 DEF Orderly, PlacePart
  <2> QED BY <2>5, <2>6
<1> QED BY <1>0, <1>6, <1>7 DEF Live, TypeOK

\* Nothing points to a thread that has terminated.
LEMMA NoPlace ==
    ASSUME TypeOK, InUse, NEW t \in Tcb \ Live
    PROVE  Places(t) = {}
<1>1. t # current_thread /\ \A i \in DOMAIN ready_list : ready_list[i] # t
  BY DEF InUse, ReadyPart, ToSet, Live
<1>2. \A u \in Live : observer[u] # t BY DEF InUse, JoinPart, Live, TypeOK
<1>3. \A m \in mutexes : \A i \in DOMAIN mq[m] : mq[m][i] # t
  BY DEF InUse, MutexPart, ToSet, Live
<1>4. \A c \in conds : \A i \in DOMAIN cq[c] : cq[c][i].thread # t
  BY DEF InUse, CondPart, Live
<1>5. \A p : p \notin Places(t) BY <1>1, <1>2, <1>3, <1>4, PlaceKinds
<1> QED BY <1>5

\* In the first use of the library no thread is lost and none is in two
\* places, whatever the client calls, and nothing points to a thread that
\* has terminated.
THEOREM NoThreadLost == Spec => [](inits <= 1 => ThreadPlacement)
<1>1. FullInv => (inits <= 1 => ThreadPlacement)
  <2> SUFFICES ASSUME FullInv, inits <= 1, Running PROVE ThreadPlacement
    BY DEF ThreadPlacement
  <2>1. TypeOK /\ InUse /\ Orderly BY FirstUse
  <2>2. \A t \in Live : \E p \in Places(t) : Places(t) = {p} BY <2>1, OnePlace
  <2>3. \A t \in Tcb \ Live : Places(t) = {} BY <2>1, NoPlace
  <2>4. \A t \in Live : (status[t] = "WORKING")
                           <=> (t = current_thread \/ t \in ToSet(ready_list))
    BY <2>1 DEF InUse, ReadyPart, Orderly, PlacePart
  <2> QED BY <2>2, <2>3, <2>4 DEF ThreadPlacement
<1> QED BY <1>1, InvariantFull, PTL

\* In the first use nobody waits in the queue of a mutex that is free, or
\* that it owns itself.
THEOREM NoForgottenWaiter == Spec => [](inits <= 1 => MutexQueueSound)
<1>1. FullInv => (inits <= 1 => MutexQueueSound)
  <2> SUFFICES ASSUME FullInv, inits <= 1, Running,
                      NEW m \in mutexes, mq[m] # <<>>, NEW t \in ToSet(mq[m])
               PROVE  locked[m] = 1 /\ tid[t] # owner[m]
    <3>1. ASSUME FullInv, inits <= 1, Running, NEW m \in mutexes, mq[m] # <<>>
          PROVE  locked[m] = 1
      BY <3>1, FirstUse DEF Orderly, OwnerPart
    <3> QED BY <3>1 DEF MutexQueueSound
  <2>1. TypeOK /\ InUse /\ Orderly BY FirstUse
  <2>2. t \in all_threads /\ Wants(t, m) BY <2>1 DEF InUse, MutexPart, Wants
  <2> QED BY <2>1, <2>2 DEF Orderly, OwnerPart
<1> QED BY <1>1, InvariantFull, PTL

\* In the first use the process exits with "deadlock" only when all its
\* threads wait.
THEOREM DeadlockExit == Spec => [](inits <= 1 => DeadlockIsReal)
<1>1. FullInv => (inits <= 1 => DeadlockIsReal)
  <2> SUFFICES ASSUME FullInv, inits <= 1, process = "deadlock", NEW t \in Live
               PROVE  status[t] = "WAITING"
    BY DEF DeadlockIsReal
  <2>1. inits = 0 \/ inits = 1 BY DEF FullInv, IInv, TypeOK
  <2>2. inits # 0 BY DEF FullInv, IInv, Fresh, TableSound, Live
  <2> QED BY <2>1, <2>2 DEF FullInv
<1> QED BY <1>1, InvariantFull, PTL

\* In the first use threads never join each other in a circle, and a join is
\* refused exactly when it would close one.
THEOREM JoinsExact == Spec => [](inits <= 1 => JoinsSound)
<1>1. FullInv => (inits <= 1 => JoinsSound)
  <2> SUFFICES ASSUME FullInv, inits <= 1 PROVE JoinAcyclic /\ DetectionExact
    BY DEF JoinsSound
  <2>1. DetectionExact BY FirstUse, Detection DEF DetectionExact
  <2> QED BY <2>1 DEF FullInv
<1> QED BY <1>1, InvariantFull, PTL

\* In the first use thread_join returns 0 only after its target has
\* terminated.
THEOREM JoinWaits == Spec => [](inits <= 1 => JoinedIsDone)
<1>1. FullInv => (inits <= 1 => JoinedIsDone)
  BY FirstUse DEF JoinedIsDone, self, InUse, ReadyPart, Orderly, TargetPart
<1> QED BY <1>1, InvariantFull, PTL

\* In the first use the table and the memory agree, and at most the thread
\* that terminated last is still in them.
THEOREM HeapExact == Spec => [](inits <= 1 => HeapAccounted)
<1>1. FullInv => (inits <= 1 => HeapAccounted)
  <2> SUFFICES ASSUME FullInv, inits <= 1
               PROVE  Running => all_threads \ Live = {next_to_destroy} \ {NULL}
    BY DEF HeapAccounted, FullInv, TableSound
  <2> SUFFICES ASSUME Running PROVE all_threads \ Live = {next_to_destroy} \ {NULL} OBVIOUS
  <2>1. TypeOK /\ InUse /\ DonePart BY FirstUse DEF Orderly
  <2>2. NULL \notin all_threads BY <2>1, ConstantsAssumption DEF TypeOK
  <2> QED BY <2>1, <2>2 DEF InUse, HeapPart, DonePart, Live
<1> QED BY <1>1, InvariantFull, PTL

\* If memory that was never used holds no garbage, no call of the first use
\* follows a dangling or a wild pointer.
THEOREM NoWildPointer ==
    HeapContent \subseteq {NULL} => (Spec => [](inits <= 1 => NoCrash))
<1> SUFFICES ASSUME HeapContent \subseteq {NULL} PROVE Spec => [](inits <= 1 => NoCrash) OBVIOUS
<1>1. FullInv => (inits <= 1 => NoCrash) BY DEF FullInv, CleanSound, NoCrash
<1> QED BY <1>1, InvariantFull, PTL
-----------------------------------------------------------------------------
\* The beginning of a list that grows twice.
LEMMA PrefixAppendTwice ==
    ASSUME NEW S, NEW s \in Seq(S), NEW e \in S, NEW f \in S
    PROVE  IsPrefix(s, Append(Append(s, e), f))
<1> DEFINE a == Append(s, e)
           b == Append(a, f)
<1>1. /\ a \in Seq(S) /\ Len(s) \in Nat /\ DOMAIN s = 1 .. Len(s)
      /\ \A j \in 1 .. Len(s) : a[j] = s[j]
  BY AppendEffect
<1>2. Len(a) = Len(s) + 1 /\ \A j \in 1 .. Len(s) : j \in 1 .. Len(a) BY <1>1
<1> HIDE DEF a
<1>3. /\ b \in Seq(S) /\ Len(b) = Len(a) + 1 /\ \A j \in 1 .. Len(a) : b[j] = a[j]
  BY <1>1, AppendEffect
<1> HIDE DEF b
<1>4. Len(s) <= Len(b) /\ \A j \in 1 .. Len(s) : s[j] = b[j] BY <1>1, <1>2, <1>3
<1> QED BY <1>1, <1>3, <1>4 DEF IsPrefix, a, b

\* The list with one more thread at its end begins as before.
LEMMA AppendedEnds ==
    ASSUME NEW S, NEW s \in Seq(S), s # <<>>, NEW e \in S
    PROVE  Append(s, e) # <<>> /\ Head(Append(s, e)) = Head(s)
           /\ Tail(Append(s, e)) = Append(Tail(s), e)
OBVIOUS

\* What SchedulingIsFifo says of a step.
Served ==
    \/ current_thread' = current_thread /\ IsPrefix(ready_list, ready_list')
    \/ ready_list = <<>>
    \/ /\ ready_list # <<>>
       /\ current_thread' = Head(ready_list)
       /\ IsPrefix(Tail(ready_list), ready_list')

\* thread_yield serves the ready list in order, also when its caller has put
\* a thread that it woke up at the end.
LEMMA SwitchServes ==
    ASSUME TypeOK, Running, NEW st \in [Tcb -> Status], NEW rl \in Seq(Tcb), NEW hd,
           \A t \in ToSet(rl) : st[t] = "WORKING",
           rl = ready_list \/ \E h \in Tcb : rl = Append(ready_list, h),
           Switch(st, rl, hd)
    PROVE  Served
<1> SUFFICES ASSUME ready_list # <<>> PROVE Served BY DEF Served
<1>0. PICK me \in Tcb : me = current_thread BY DEF TypeOK, Running
<1>1. PICK s \in Seq(Tcb) : s = ready_list BY DEF TypeOK
<1>2. Tail(s) \in Seq(Tcb) BY <1>1, TailEffect
<1>3. rl # <<>> /\ Head(rl) = Head(s) BY <1>1, AppendedEnds
<1>4. current_thread' = Head(s) /\ (ready_list' = Append(Tail(rl), me) \/ ready_list' = Tail(rl))
  BY <1>0, <1>3, SwitchOrder
<1>5. IsPrefix(Tail(s), Tail(rl)) /\ IsPrefix(Tail(s), Append(Tail(rl), me))
  <2>1. CASE rl = s
    <3> DEFINE r == Tail(s)
    <3> HIDE DEF r
    <3>1. r \in Seq(Tcb) BY <1>2 DEF r
    <3>2. IsPrefix(r, r) /\ IsPrefix(r, Append(r, me)) BY <3>1, PrefixAppend
    <3> QED BY <2>1, <3>2 DEF r
  <2>2. ASSUME NEW h \in Tcb, rl = Append(s, h)
        PROVE  IsPrefix(Tail(s), Tail(rl)) /\ IsPrefix(Tail(s), Append(Tail(rl), me))
    <3> DEFINE r == Tail(s)
    <3>1. r \in Seq(Tcb) /\ Tail(rl) = Append(r, h) BY <1>1, <1>2, <2>2, AppendedEnds
    <3> HIDE DEF r
    <3>2. IsPrefix(r, Append(r, h)) /\ IsPrefix(r, Append(Append(r, h), me))
      BY <3>1, PrefixAppend, PrefixAppendTwice
    <3> QED BY <3>1, <3>2 DEF r
  <2> QED BY <1>1, <2>1, <2>2
<1> QED BY <1>1, <1>4, <1>5 DEF Served

\* Every call of the first use serves the ready list in order.
LEMMA CallServes ==
    ASSUME TypeOK, TypeOK', InUse, Running, Running', Next
    PROVE  Served
<1> DEFINE Quiet == current_thread' = current_thread /\ ready_list' = ready_list
<1>0. /\ current_thread \in Tcb /\ ready_list \in Seq(Tcb) /\ status \in [Tcb -> Status]
      /\ \A t \in ToSet(ready_list) : t \in Tcb /\ t # current_thread /\ status[t] = "WORKING"
  BY Start
<1>1. PICK s \in Seq(Tcb) : s = ready_list BY <1>0
<1>2. ASSUME current_thread' = current_thread, NEW h \in Tcb, ready_list' = Append(s, h)
      PROVE  Served
  BY <1>1, <1>2, PrefixAppend DEF Served
<1>3. CASE Quiet BY <1>1, <1>3, PrefixAppend DEF Served
<1>4. Blocked(status) \in [Tcb -> Status] /\ \A t \in Tcb : t # current_thread =>
        Blocked(status)[t] = status[t]
  BY <1>0 DEF Blocked, self, Status
<1>5. ASSUME NEW hd, Switch(status, ready_list, hd) \/ Switch(Blocked(status), ready_list, hd)
      PROVE  Served
  <2>1. CASE Switch(status, ready_list, hd) BY <1>0, <2>1, SwitchServes
  <2>2. CASE Switch(Blocked(status), ready_list, hd) BY <1>0, <1>4, <2>2, SwitchServes
  <2> QED BY <1>5, <2>1, <2>2
<1>6. ASSUME NEW a \in Tcb, lib_init(a) PROVE FALSE BY <1>6 DEF lib_init, Running
<1>7. ASSUME NEW a \in Tcb, thread_create(a) PROVE Served
  BY <1>1, <1>2, <1>7 DEF thread_create
<1>8. CASE thread_yield BY <1>5, <1>8 DEF thread_yield
<1>9. ASSUME NEW k, thread_join(k) PROVE Served
  BY <1>3, <1>5, <1>9 DEF thread_join, Return, Crash
<1>10. ASSUME NEW m, thread_mutex_init(m) PROVE Served
  BY <1>3, <1>10 DEF thread_mutex_init, Return
<1>11. ASSUME NEW m, thread_mutex_lock(m) PROVE Served
  BY <1>3, <1>5, <1>11 DEF thread_mutex_lock, Return
<1>12. ASSUME NEW m \in mutexes
       PROVE  \/ ReadyAfterRelease(m) = s
              \/ \E h \in Tcb : ReadyAfterRelease(m) = Append(s, h)
  <2>1. mq[m] \in Seq(Tcb) BY DEF TypeOK
  <2>2. mq[m] # <<>> => Head(mq[m]) \in Tcb BY <2>1
  <2> QED BY <1>1, <2>2 DEF ReadyAfterRelease
<1>13. ASSUME NEW m, thread_mutex_unlock(m) PROVE Served
  <2>1. CASE Return("none", NULL, 0) BY <1>3, <2>1 DEF Return
  <2>2. CASE Owns(m) /\ ready_list' = ReadyAfterRelease(m) /\ current_thread' = current_thread
    BY <1>1, <1>2, <1>3, <1>12, <2>2 DEF Owns
  <2> QED BY <1>13, <2>1, <2>2 DEF thread_mutex_unlock
<1>14. ASSUME NEW m, NEW c, thread_cond_wait(c, m) PROVE Served
  <2>1. CASE Return("none", NULL, 0) BY <1>3, <2>1 DEF Return
  <2>2. CASE Owns(m) /\ Release(m) /\ \E hd : Switch(Blocked(StatusAfterRelease(m)),
                                                    ReadyAfterRelease(m), hd)
    <3>1. m \in mutexes BY <2>2 DEF Owns
    <3>2. PICK h \in all_threads : Handed(m, h, StatusAfterRelease(m), ReadyAfterRelease(m))
      BY <2>2, <3>1, ReleaseHands
    <3>3. PICK st : st = StatusAfterRelease(m) OBVIOUS
    <3>4. PICK rl : rl = ReadyAfterRelease(m) OBVIOUS
    <3>5. /\ st \in [Tcb -> Status] /\ rl \in Seq(Tcb) /\ \A t \in ToSet(rl) : st[t] = "WORKING"
          /\ \A t \in ToSet(rl) : t # current_thread
      BY <1>0, <3>2, <3>3, <3>4 DEF Handed
    <3>6. rl = ready_list \/ \E g \in Tcb : rl = Append(ready_list, g)
      BY <1>1, <1>12, <3>1, <3>4
    <3> DEFINE bl == Blocked(st)
    <3>7. ToSet(rl) \subseteq Tcb BY <1>0, <3>2, <3>4 DEF Handed, TypeOK
    <3>8. bl \in [Tcb -> Status] /\ \A t \in ToSet(rl) : bl[t] = "WORKING"
      BY <1>0, <3>5, <3>7 DEF Blocked, self, Status
    <3>9. \E hd : Switch(bl, rl, hd) BY <2>2, <3>3, <3>4
    <3> HIDE DEF bl
    <3> QED BY <3>5, <3>6, <3>8, <3>9, SwitchServes
  <2> QED BY <1>14, <2>1, <2>2 DEF thread_cond_wait
<1>15. ASSUME NEW c, thread_cond_init(c) PROVE Served
  BY <1>3, <1>15 DEF thread_cond_init, Return
<1>16. ASSUME NEW c, thread_cond_signal(c) PROVE Served
  <2>1. CASE Quiet BY <1>3, <2>1
  <2>2. CASE /\ c \in conds /\ cq[c] # <<>> /\ current_thread' = current_thread
             /\ ready_list' = Append(ready_list, Head(cq[c]).thread)
    <3> DEFINE E == [thread : Tcb, mutex : Mutex]
    <3>1. cq[c] \in Seq(E) BY <2>2 DEF TypeOK
    <3>2. Head(cq[c]) \in E
      <4> HIDE DEF E
      <4> QED BY <2>2, <3>1, TailEffect
    <3>3. Head(cq[c]).thread \in Tcb BY <3>2
    <3> QED BY <1>1, <1>2, <2>2, <3>3
  <2> QED BY <1>16, <2>1, <2>2 DEF thread_cond_signal, Return
<1>17. CASE thread_terminate
  <2> DEFINE o == observer[self]
             st == IF o = NULL THEN [status EXCEPT ![self] = "DONE"]
                   ELSE [status EXCEPT ![self] = "DONE", ![o] = "WORKING"]
             rl == IF o = NULL THEN ready_list ELSE Append(ready_list, o)
  <2>1. o # Garbage /\ Switch(st, rl, holds) BY <1>17 DEF thread_terminate, Crash, Running
  <2>2. o \in Tcb \cup {NULL} BY <1>0, <2>1 DEF TypeOK, self
  <2>3. o # current_thread BY <1>0, Apart DEF self
  <2>4. rl \in Seq(Tcb) /\ (rl = ready_list \/ \E h \in Tcb : rl = Append(ready_list, h))
    BY <1>0, <2>2
  <2>5. \A t \in ToSet(rl) : t \in Tcb /\ t # current_thread /\ (status[t] = "WORKING" \/ t = o)
    <3>1. CASE o = NULL BY <1>0, <3>1
    <3>2. CASE o # NULL
      <4>1. ToSet(rl) = ToSet(ready_list) \cup {o}
        <5>1. PICK p \in Tcb : p = o BY <2>2, <3>2
        <5>2. ToSet(Append(s, p)) = ToSet(s) \cup {p} BY AppendEffect
        <5> QED BY <1>1, <3>2, <5>1, <5>2
      <4> QED BY <1>0, <2>2, <2>3, <3>2, <4>1
    <3> QED BY <3>1, <3>2
  <2>6. st \in [Tcb -> Status] BY <1>0, <2>2 DEF Status, self
  <2>7. \A t \in ToSet(rl) : st[t] = "WORKING"
    <3>1. \A t \in Tcb : t # current_thread =>
            st[t] = IF o # NULL /\ t = o THEN "WORKING" ELSE status[t]
      BY <1>0, <2>2 DEF self
    <3>2. NULL \notin Tcb BY ConstantsAssumption
    <3> HIDE DEF st, rl, o
    <3> QED BY <2>5, <3>1, <3>2
  <2> HIDE DEF st, rl
  <2> QED BY <2>1, <2>4, <2>6, <2>7, SwitchServes
<1>18. CASE thread_cleanup BY <1>3, <1>18 DEF thread_cleanup, Return, Running
<1>19. CASE Exited BY <1>19 DEF Exited, Running
<1> QED
  BY <1>6, <1>7, <1>8, <1>9, <1>10, <1>11, <1>13, <1>14, <1>15, <1>16, <1>17, <1>18, <1>19
  DEF Next

\* If the library is used once, the ready list is served in order: nobody
\* gets in front of a thread that is already in it.
THEOREM ReadyListInOrder == MaxInits <= 1 => (Spec => SchedulingIsFifo)
<1> SUFFICES ASSUME MaxInits <= 1 PROVE Spec => SchedulingIsFifo OBVIOUS
<1>1. FullInv /\ FullInv' /\ [Next]_vars => [Running /\ Running' => Served]_vars
  <2> SUFFICES ASSUME FullInv, FullInv', Next, Running, Running' PROVE Served OBVIOUS
  <2>1. TypeOK /\ TypeOK' BY DEF FullInv, IInv
  <2>2. inits <= 1 BY <2>1, ConstantsAssumption DEF TypeOK
  <2> QED BY <2>1, <2>2, FirstUse, CallServes
<1> QED BY <1>1, InvariantFull, PTL DEF Spec, SchedulingIsFifo, Served

\* The mutex m passes to the first of its queue, and is not free before.
PassedOn(m) ==
    mq[m] # <<>> =>
        /\ locked'[m] = 1
        /\ \/ owner'[m] = owner[m] /\ IsPrefix(mq[m], mq'[m])
           \/ owner'[m] = tid[Head(mq[m])] /\ IsPrefix(Tail(mq[m]), mq'[m])

\* Every call of the first use keeps to the order of the queues.
LEMMA CallPassesOn ==
    ASSUME TypeOK, InUse, Orderly, Running, Running', Next
    PROVE  \A m \in mutexes : PassedOn(m)
<1> SUFFICES ASSUME NEW l \in mutexes, mq[l] # <<>> PROVE PassedOn(l) BY DEF PassedOn
<1>0. mq[l] \in Seq(Tcb) /\ l \in Mutex /\ locked[l] = 1 BY DEF TypeOK, Orderly, OwnerPart
<1>1. PICK s \in Seq(Tcb) : s = mq[l] BY <1>0
<1>2. IsPrefix(s, s) /\ \A e \in Tcb : IsPrefix(s, Append(s, e))
  <2>1. ASSUME NEW e \in Tcb PROVE IsPrefix(s, s) /\ IsPrefix(s, Append(s, e))
    BY <2>1, PrefixAppend
  <2>2. \E e : e \in Tcb BY DEF Running, TypeOK
  <2> QED BY <2>1, <2>2
<1>3. ASSUME locked'[l] = locked[l], owner'[l] = owner[l],
             mq'[l] = mq[l] \/ \E e \in Tcb : mq'[l] = Append(mq[l], e)
      PROVE  PassedOn(l)
  BY <1>0, <1>1, <1>2, <1>3 DEF PassedOn
<1>4. CASE UNCHANGED <<locked, owner, mq>> BY <1>3, <1>4
<1>5. ASSUME NEW m \in mutexes, Release(m) PROVE PassedOn(l)
  <2>1. CASE m # l
    <3>1. locked'[l] = locked[l] /\ owner'[l] = owner[l] /\ mq'[l] = mq[l]
      BY <1>0, <1>5, <2>1 DEF Release, TypeOK
    <3> QED BY <1>3, <3>1
  <2>2. CASE m = l
    <3>1. locked'[l] = 1 /\ owner'[l] = tid[Head(mq[l])] /\ mq'[l] = Tail(mq[l])
      BY <1>0, <1>5, <2>2 DEF Release, TypeOK
    <3>2. PICK r \in Seq(Tcb) : r = Tail(s) BY <1>1, TailEffect
    <3>3. IsPrefix(r, r)
      <4>1. PICK e \in Tcb : TRUE BY DEF Running, TypeOK
      <4> QED BY PrefixAppend
    <3> QED BY <1>1, <3>1, <3>2, <3>3 DEF PassedOn
  <2> QED BY <2>1, <2>2
<1>6. ASSUME NEW m, thread_mutex_init(m) PROVE PassedOn(l)
  <2>1. CASE Return("none", NULL, 0) BY <1>4, <2>1 DEF Return, mutexVars
  <2>2. CASE m \in Mutex \ mutexes
    <3>1. m # l /\ m # NULL BY <2>2, ConstantsAssumption
    <3>2. locked'[l] = locked[l] /\ owner'[l] = owner[l] /\ mq'[l] = mq[l]
      BY <1>0, <1>6, <3>1 DEF thread_mutex_init, TypeOK
    <3> QED BY <1>3, <3>2
  <2> QED BY <1>6, <2>1, <2>2 DEF thread_mutex_init
<1>7. ASSUME NEW m, thread_mutex_lock(m) PROVE PassedOn(l)
  <2>1. CASE Return("none", NULL, 0) BY <1>4, <2>1 DEF Return, mutexVars
  <2>2. CASE /\ m \in mutexes /\ locked[m] = 0 /\ mq' = mq
             /\ locked' = [locked EXCEPT ![m] = 1] /\ owner' = [owner EXCEPT ![m] = tid[self]]
    <3>1. m # l BY <1>0, <2>2
    <3>2. locked'[l] = locked[l] /\ owner'[l] = owner[l] /\ mq'[l] = mq[l]
      BY <1>0, <2>2, <3>1 DEF TypeOK
    <3> QED BY <1>3, <3>2
  <2>3. CASE m \in mutexes /\ mq' = [mq EXCEPT ![m] = Append(@, self)] /\ UNCHANGED <<locked, owner>>
    <3>1. self \in Tcb BY DEF Running, TypeOK, self
    <3>2. mq'[l] = mq[l] \/ mq'[l] = Append(mq[l], self) BY <1>0, <2>3 DEF TypeOK
    <3> QED BY <1>3, <2>3, <3>1, <3>2
  <2> QED BY <1>7, <2>1, <2>2, <2>3 DEF thread_mutex_lock
<1>8. ASSUME NEW m, thread_mutex_unlock(m) PROVE PassedOn(l)
  BY <1>4, <1>5, <1>8 DEF thread_mutex_unlock, Owns, Return, mutexVars
<1>9. ASSUME NEW m, NEW c, thread_cond_wait(c, m) PROVE PassedOn(l)
  BY <1>4, <1>5, <1>9 DEF thread_cond_wait, Owns, Return, mutexVars
<1>10. ASSUME NEW c, thread_cond_signal(c) PROVE PassedOn(l)
  <2>1. CASE Return("none", NULL, 0) BY <1>4, <2>1 DEF Return, mutexVars
  <2>2. CASE c \in conds /\ cq[c] # <<>>
    <3> DEFINE w == Head(cq[c])
               E == [thread : Tcb, mutex : Mutex]
    <3>1. w \in E
      <4>1. cq[c] \in Seq(E) BY <2>2 DEF TypeOK
      <4> HIDE DEF E
      <4> QED BY <2>2, <4>1, TailEffect
    <3>2. w.thread \in Tcb /\ w.mutex \in Mutex BY <3>1
    <3> HIDE DEF w, E
    <3>3. CASE /\ locked[w.mutex] = 0 /\ locked' = [locked EXCEPT ![w.mutex] = 1]
               /\ owner' = [owner EXCEPT ![w.mutex] = tid[w.thread]] /\ mq' = mq
      <4>1. w.mutex # l BY <1>0, <3>3
      <4>2. locked'[l] = locked[l] /\ owner'[l] = owner[l] /\ mq'[l] = mq[l]
        BY <1>0, <3>3, <4>1 DEF TypeOK
      <4> QED BY <1>3, <4>2
    <3>4. CASE mq' = [mq EXCEPT ![w.mutex] = Append(@, w.thread)] /\ UNCHANGED <<locked, owner>>
      <4>1. mq'[l] = mq[l] \/ mq'[l] = Append(mq[l], w.thread) BY <1>0, <3>4 DEF TypeOK
      <4> QED BY <1>3, <3>2, <3>4, <4>1
    <3> QED BY <1>4, <1>10, <3>3, <3>4 DEF thread_cond_signal, Return, mutexVars, w
  <2> QED BY <1>10, <2>1, <2>2, SMTT(40) DEF thread_cond_signal
<1>11. ASSUME NEW a \in Tcb, lib_init(a) \/ thread_create(a) PROVE PassedOn(l)
  BY <1>4, <1>11 DEF lib_init, thread_create, Running, mutexVars
<1>12. ASSUME NEW k, thread_join(k) PROVE PassedOn(l)
  BY <1>4, <1>12 DEF thread_join, Return, Crash, mutexVars
<1>13. ASSUME NEW c, thread_cond_init(c) PROVE PassedOn(l)
  BY <1>4, <1>13 DEF thread_cond_init, Return, mutexVars
<1>14. CASE thread_yield \/ thread_terminate \/ thread_cleanup \/ Exited
  BY <1>4, <1>14 DEF thread_yield, thread_terminate, thread_cleanup, Exited, Return, Crash,
     vars, mutexVars
<1> QED
  BY <1>6, <1>7, <1>8, <1>9, <1>10, <1>11, <1>12, <1>13, <1>14 DEF Next

\* If the library is used once, a mutex that is waited for passes to the
\* thread that has waited longest and is never free in between.
THEOREM MutexInOrder == MaxInits <= 1 => (Spec => HandoffIsFifo)
<1> SUFFICES ASSUME MaxInits <= 1 PROVE Spec => HandoffIsFifo OBVIOUS
<1>1. FullInv /\ [Next]_vars => [Running /\ Running' => \A m \in mutexes : PassedOn(m)]_vars
  <2> SUFFICES ASSUME FullInv, Next, Running, Running' PROVE \A m \in mutexes : PassedOn(m)
    OBVIOUS
  <2>1. TypeOK BY DEF FullInv, IInv
  <2>2. inits <= 1 BY <2>1, ConstantsAssumption DEF TypeOK
  <2> QED BY <2>1, <2>2, FirstUse, CallPassesOn
<1> QED BY <1>1, InvariantFull, PTL DEF Spec, HandoffIsFifo, PassedOn
=============================================================================
