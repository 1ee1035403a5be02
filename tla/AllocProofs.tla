---------------------------- MODULE AllocProofs ----------------------------
(***************************************************************************)
(* The heap of alloc.c stays whole: its blocks tile it, freed neighbours   *)
(* are merged, and each finalizer is owed for exactly the allocated blocks *)
(* it was given for.                                                       *)
(***************************************************************************)
EXTENDS Alloc, PointerWalks

\* Powers of two are as they are, for words of ten bits and more; the areas of
\* memory are apart, the heap lies among the addresses that are no info words,
\* and it has room for a header.
AllocConstants ==
    /\ MARK_BIT \in Nat /\ MARK_BIT >= 256
    /\ ALLOC_BIT = 2 * MARK_BIT /\ 2^WordBits = 2 * ALLOC_BIT
    /\ \A n \in InitSizes : n \in Nat /\ (n = 0 \/ (n >= 3 /\ HeapStart + 2 * n <= MARK_BIT))
    /\ \A q \in Requests : q[1] < 2^WordBits
    /\ Behind \in Nat /\ Offsets \subseteq Nat
    /\ 3 * MaxDepth + NumGlobals < 47
-----------------------------------------------------------------------------
(***************************************************************************)
(* The heap as a function of memory m and the set B of its blocks.         *)
(***************************************************************************)
WordSet == 0 .. 2^WordBits - 1
End == HeapStart + total_heap_size

SizeW(w) == w % MARK_BIT
MarkedW(w) == (w \div MARK_BIT) % 2 = 1
AllocW(w) == w \div ALLOC_BIT = 1

\* Each block ends where the next one begins, and the last where the heap ends.
Tiling(m, e, B) ==
    /\ B \subseteq HeapStart .. e - 1 /\ HeapStart \in B
    /\ \A b \in B : \/ m[b + 1] = 0 /\ b + 3 + SizeW(m[b]) = e
                    \/ m[b + 1] \in B /\ b + 3 + SizeW(m[b]) = m[b + 1]
    /\ \A b, c \in B : b < c => b + 3 + SizeW(m[b]) <= c

\* The allocated blocks with finalizer f.
Owing(m, B, f) == {b \in B : AllocW(m[b]) /\ m[b + 2] = f}

\* A heap with blocks B in which the calls o of finalizers are owed.
Sound(m, e, B, o) ==
    /\ Tiling(m, e, B)
    /\ \A b \in B : MarkedW(m[b]) => AllocW(m[b])
    /\ \A b \in B : AllocW(m[b]) => m[b + 2] \in 0 .. 2
    /\ o \in [Finalizers -> Nat]
    /\ \A f \in Finalizers : o[f] = Cardinality(Owing(m, B, f))

\* The free blocks that are followed by another one.
Unmerged(m, B) == {b \in B : ~AllocW(m[b]) /\ m[b + 1] # 0 /\ ~AllocW(m[m[b + 1]])}

\* The sweep is at cur: what lies before is merged, and prev is the free block
\* just before, if there is one.
SweepAt(m, B, cur, prev) ==
    /\ cur = 0 \/ cur \in B
    /\ prev = 0 \/ (prev \in B /\ ~AllocW(m[prev]) /\ m[prev + 1] = cur)
    /\ \A b \in Unmerged(m, B) : cur # 0 /\ m[b + 1] >= cur
    /\ cur # 0 => \A b \in B : ~AllocW(m[b]) /\ m[b + 1] = cur => prev = b

\* A block that nextBlockOfSize may take.
Usable(m, B, size) == {b \in B : SizeW(m[b]) >= Wrap(size - BLOCK_SIZE) /\ ~AllocW(m[b])}

Stages == {"take", "globals", "stack", "heap", "sweep"}
Calls == [at : Stages, size : WordSet, finalize : 0 .. 2, into : Roots,
          cur : Nat, prev : Nat, words_freed : Int]
-----------------------------------------------------------------------------
\* Memory has the areas and, once there is one, the heap.
MemTyped ==
    /\ mem \in [DOMAIN mem -> WordSet]
    /\ Areas \subseteq DOMAIN mem
    /\ initialized = 1 => HeapStart .. End - 1 \subseteq DOMAIN mem /\ heap = HeapStart

\* The variables of the allocator and the client.
ScalarsTyped ==
    /\ initialized \in {-1, 0, 1} /\ depth \in 1 .. MaxDepth
    /\ total_heap_size \in Nat
    /\ initialized = 1 => total_heap_size >= 3 /\ End <= MARK_BIT
    /\ initialized # 1 => owed = [f \in Finalizers |-> 0]

\* Where memAllocate is, if it runs.
GcTyped ==
    \/ gc \in [at : {"client", "exit", "crash", "hang"}]
    \/ gc \in Calls /\ initialized = 1

\* The heap between two steps.
HeapKept ==
    initialized = 1 =>
        /\ Sound(mem, End, Blocks, owed)
        /\ gc.at \in {"client", "take", "globals", "stack", "heap"} => Unmerged(mem, Blocks) = {}
        /\ gc.at \in {"globals", "stack", "heap"} => gc.prev = 0
        /\ gc.at = "take" => Usable(mem, Blocks, gc.size) # {}
        /\ gc.at = "sweep" => SweepAt(mem, Blocks, gc.cur, gc.prev)

\* The inductive invariant of the allocator.
AllocInv == MemTyped /\ ScalarsTyped /\ GcTyped /\ HeapKept

\* The chain of saved frame pointers, and the range of the stack, are in the stack.
Slots == {SavedRbp(d) : d \in 1 .. MaxDepth + 1}
Tops == {Local(d) : d \in 1 .. MaxDepth + 1}
FramesKept ==
    /\ \A a \in Slots : mem[a] \in Slots \union {0}
    /\ initialized = 1 => _frame_bottom \in Slots /\ _stack_top \in Tops

\* The block that is taken is as large as the request.
TakesFitting == take => Size(nextBlockOfSize(gc.size)) >= gc.size
-----------------------------------------------------------------------------
(***************************************************************************)
(* Info words.                                                             *)
(***************************************************************************)
\* There is one way to divide.
LEMMA Division ==
    ASSUME NEW m \in Nat \ {0}, NEW q \in Int, NEW r \in 0 .. m - 1
    PROVE  (q * m + r) \div m = q /\ (q * m + r) % m = r
<1> DEFINE x == q * m + r
           d == x \div m
           e == x % m
<1>1. x \in Int /\ d \in Int /\ e \in 0 .. m - 1 /\ x = m * d + e BY Z3
<1>2. m * (d - q) = r - e BY <1>1, Z3
<1> HIDE DEF x, d, e
<1>3. CASE d = q BY <1>1, <1>2, <1>3, Z3 DEF x, d, e
<1>4. CASE d >= q + 1 
  <2>1. m * (d - q) >= m BY <1>1, <1>4, Z3
  <2> QED BY <1>1, <1>2, <2>1
<1>5. CASE d <= q - 1
  <2>1. m * (d - q) <= -m BY <1>1, <1>5, Z3
  <2> QED BY <1>1, <1>2, <2>1
<1> QED BY <1>1, <1>3, <1>4, <1>5

\* A word of two bits q and a size r.
LEMMA Parts ==
    ASSUME NEW m \in Nat \ {0}, NEW q \in 0 .. 3, NEW r \in 0 .. m - 1
    PROVE  /\ (q * m + r) \in 0 .. 4 * m - 1
           /\ (q * m + r) % m = r /\ (q * m + r) \div m = q
           /\ (q * m + r) \div (2 * m) = IF q >= 2 THEN 1 ELSE 0
           /\ (q * m + r) % (4 * m) = q * m + r
           /\ (q * m + r - 4 * m) % (4 * m) = q * m + r
<1>1. (q * m + r) % m = r /\ (q * m + r) \div m = q BY Division
<1>2. q = 0 \/ q = 1 \/ q = 2 \/ q = 3 OBVIOUS
<1>3. (q * m + r) \in 0 .. 4 * m - 1 BY <1>2, Z3
<1>4. PICK n : n = 2 * m OBVIOUS
<1>5. n \in Nat \ {0} /\ r \in 0 .. n - 1 /\ m + r \in 0 .. n - 1 BY <1>4
<1>6. (q * m + r) \div n = IF q >= 2 THEN 1 ELSE 0
  <2>1. CASE q = 0
    <3>1. (0 * n + r) \div n = 0 BY <1>5, Division
    <3> QED BY <1>5, <2>1, <3>1
  <2>2. CASE q = 1
    <3>1. (0 * n + (m + r)) \div n = 0 BY <1>5, Division
    <3> QED BY <1>5, <2>2, <3>1
  <2>3. CASE q = 2
    <3>1. (1 * n + r) \div n = 1 BY <1>5, Division
    <3> QED BY <1>4, <1>5, <2>3, <3>1
  <2>4. CASE q = 3
    <3>1. (1 * n + (m + r)) \div n = 1 BY <1>5, Division
    <3> QED BY <1>4, <1>5, <2>4, <3>1
  <2> QED BY <1>2, <2>1, <2>2, <2>3, <2>4
<1>7. PICK k : k = 4 * m OBVIOUS
<1>8. PICK x : x = q * m + r OBVIOUS
<1>9. k \in Nat \ {0} /\ x \in 0 .. k - 1 BY <1>3, <1>7, <1>8
<1>10. (0 * k + x) % k = x /\ (-1 * k + x) % k = x BY <1>9, Division
<1>11. 0 * k + x = x /\ -1 * k + x = x - k BY <1>9
<1> QED BY <1>1, <1>3, <1>4, <1>6, <1>7, <1>8, <1>10, <1>11

\* A word and its fields.
InfoOf(w, alloc, mark, size) ==
    /\ w \in WordSet /\ SizeW(w) = size /\ (AllocW(w) <=> alloc) /\ (MarkedW(w) <=> mark)

\* The four kinds of words.
LEMMA InfoKinds ==
    ASSUME AllocConstants, NEW r \in 0 .. MARK_BIT - 1
    PROVE  /\ InfoOf(r, FALSE, FALSE, r)
           /\ InfoOf(r + MARK_BIT, FALSE, TRUE, r)
           /\ InfoOf(r + ALLOC_BIT, TRUE, FALSE, r)
           /\ InfoOf(r + ALLOC_BIT + MARK_BIT, TRUE, TRUE, r)
<1>1. PICK m \in Nat \ {0} : m = MARK_BIT BY DEF AllocConstants
<1>2. ALLOC_BIT = 2 * m /\ 2^WordBits = 4 * m BY <1>1 DEF AllocConstants
<1>3. ASSUME NEW q \in 0 .. 3 PROVE InfoOf(q * m + r, q >= 2, q = 1 \/ q = 3, r)
  <2>0. r \in 0 .. m - 1 BY <1>1
  <2>1. PICK x : x = q * m + r OBVIOUS
  <2>2. x \in 0 .. 4 * m - 1 /\ x % m = r /\ x \div m = q /\ x \div (2 * m) = IF q >= 2 THEN 1 ELSE 0
    BY <2>0, <2>1, Parts, ZenonT(60)
  <2>3. x \in WordSet /\ SizeW(x) = r BY <1>1, <1>2, <2>2 DEF WordSet, SizeW
  <2>4. AllocW(x) <=> q >= 2 BY <1>2, <2>2 DEF AllocW
  <2>5. MarkedW(x) <=> q = 1 \/ q = 3 BY <1>1, <2>2 DEF MarkedW
  <2> QED BY <2>1, <2>3, <2>4, <2>5 DEF InfoOf
<1>4. InfoOf(0 * m + r, FALSE, FALSE, r)
  <2>1. InfoOf(0 * m + r, 0 >= 2, 0 = 1 \/ 0 = 3, r) BY <1>3
  <2> QED BY <2>1, SMT DEF InfoOf
<1>5. InfoOf(1 * m + r, FALSE, TRUE, r)
  <2>1. InfoOf(1 * m + r, 1 >= 2, 1 = 1 \/ 1 = 3, r) BY <1>3
  <2> QED BY <2>1, SMT DEF InfoOf
<1>6. InfoOf(2 * m + r, TRUE, FALSE, r)
  <2>1. InfoOf(2 * m + r, 2 >= 2, 2 = 1 \/ 2 = 3, r) BY <1>3
  <2> QED BY <2>1, SMT DEF InfoOf
<1>7. InfoOf(3 * m + r, TRUE, TRUE, r)
  <2>1. InfoOf(3 * m + r, 3 >= 2, 3 = 1 \/ 3 = 3, r) BY <1>3
  <2> QED BY <2>1, SMT DEF InfoOf
<1>8. 0 * m + r = r /\ 1 * m + r = r + MARK_BIT /\ 2 * m + r = r + ALLOC_BIT
      /\ 3 * m + r = r + ALLOC_BIT + MARK_BIT
  BY <1>1, <1>2
<1> QED BY <1>4, <1>5, <1>6, <1>7, <1>8

\* Every word is of one of them.
LEMMA InfoParts ==
    ASSUME AllocConstants, NEW w \in WordSet
    PROVE  /\ SizeW(w) \in 0 .. MARK_BIT - 1
           /\ w = SizeW(w) + (IF AllocW(w) THEN ALLOC_BIT ELSE 0) + (IF MarkedW(w) THEN MARK_BIT ELSE 0)
<1>1. PICK m \in Nat \ {0} : m = MARK_BIT BY DEF AllocConstants
<1>2. ALLOC_BIT = 2 * m /\ w \in 0 .. 4 * m - 1 BY <1>1 DEF AllocConstants, WordSet
<1> DEFINE Split == \E q \in 0 .. 3, r \in 0 .. m - 1 : w = q * m + r
<1>10. Split
  <2>1. CASE w < m
    <3>1. w \in 0 .. m - 1 /\ w = 0 * m + w BY <1>2, <2>1
    <3> QED BY <3>1
  <2>2. CASE m <= w /\ w < 2 * m
    <3>1. 1 \in 0 .. 3 /\ w - m \in 0 .. m - 1 /\ w = 1 * m + (w - m) BY <1>2, <2>2
    <3> QED BY <3>1, Zenon
  <2>3. CASE 2 * m <= w /\ w < 3 * m
    <3>1. w - 2 * m \in 0 .. m - 1 /\ w = 2 * m + (w - 2 * m) BY <1>2, <2>3
    <3> QED BY <3>1
  <2>4. CASE 3 * m <= w
    <3>1. w - 3 * m \in 0 .. m - 1 /\ w = 3 * m + (w - 3 * m) BY <1>2, <2>4
    <3> QED BY <3>1
  <2> HIDE DEF Split
  <2>5. w \in Int /\ w >= 0 /\ m \in Int BY <1>2
  <2> QED BY <2>1, <2>2, <2>3, <2>4, <2>5
<1>3. PICK q \in 0 .. 3, r \in 0 .. m - 1 : w = q * m + r BY <1>10
<1>4. w % m = r /\ w \div m = q /\ w \div (2 * m) = IF q >= 2 THEN 1 ELSE 0
  BY <1>3, Parts, ZenonT(60)
<1>5. SizeW(w) = r /\ (AllocW(w) <=> q >= 2) /\ (MarkedW(w) <=> q % 2 = 1)
  BY <1>1, <1>2, <1>4 DEF SizeW, AllocW, MarkedW
<1>6. CASE q = 0 BY <1>1, <1>2, <1>3, <1>5, <1>6
<1>7. CASE q = 1 BY <1>1, <1>2, <1>3, <1>5, <1>7
<1>8. CASE q = 2 BY <1>1, <1>2, <1>3, <1>5, <1>8
<1>9. CASE q = 3 BY <1>1, <1>2, <1>3, <1>5, <1>9
<1> QED BY <1>6, <1>7, <1>8, <1>9

\* Setting and clearing the mark.
LEMMA InfoMarks ==
    ASSUME AllocConstants, NEW w \in WordSet
    PROVE  /\ ~MarkedW(w) => InfoOf(w + MARK_BIT, AllocW(w), TRUE, SizeW(w))
           /\ MarkedW(w) => InfoOf(w - MARK_BIT, AllocW(w), FALSE, SizeW(w))
           /\ ~AllocW(w) /\ ~MarkedW(w) => w = SizeW(w)
<1>1. PICK r \in 0 .. MARK_BIT - 1 : r = SizeW(w) BY InfoParts
<1>2. w = r + (IF AllocW(w) THEN ALLOC_BIT ELSE 0) + (IF MarkedW(w) THEN MARK_BIT ELSE 0)
  BY <1>1, InfoParts
<1>3. r \in Int /\ MARK_BIT \in Int /\ ALLOC_BIT \in Int BY DEF AllocConstants
<1>4. ASSUME ~MarkedW(w) PROVE InfoOf(w + MARK_BIT, AllocW(w), TRUE, SizeW(w))
  <2>1. CASE AllocW(w)
    <3>1. w + MARK_BIT = r + ALLOC_BIT + MARK_BIT BY <1>2, <1>3, <1>4, <2>1
    <3> QED BY <1>1, <2>1, <3>1, InfoKinds DEF InfoOf
  <2>2. CASE ~AllocW(w)
    <3>1. w + MARK_BIT = r + MARK_BIT BY <1>2, <1>3, <1>4, <2>2
    <3> QED BY <1>1, <2>2, <3>1, InfoKinds DEF InfoOf
  <2> QED BY <2>1, <2>2
<1>5. ASSUME MarkedW(w) PROVE InfoOf(w - MARK_BIT, AllocW(w), FALSE, SizeW(w))
  <2>1. CASE AllocW(w)
    <3>1. w - MARK_BIT = r + ALLOC_BIT BY <1>2, <1>3, <1>5, <2>1
    <3> QED BY <1>1, <2>1, <3>1, InfoKinds DEF InfoOf
  <2>2. CASE ~AllocW(w)
    <3>1. w - MARK_BIT = r BY <1>2, <1>3, <1>5, <2>2
    <3> QED BY <1>1, <2>2, <3>1, InfoKinds DEF InfoOf
  <2> QED BY <2>1, <2>2
<1>6. ~AllocW(w) /\ ~MarkedW(w) => w = SizeW(w) BY <1>1, <1>2, <1>3
<1> QED BY <1>4, <1>5, <1>6

\* Unsigned subtraction.
LEMMA Wraps ==
    ASSUME AllocConstants, NEW x \in Int
    PROVE  /\ x \in WordSet => Wrap(x) = x
           /\ x < 0 /\ x + 2^WordBits >= 0 => Wrap(x) = x + 2^WordBits
<1>1. PICK k \in Nat \ {0} : k = 2^WordBits BY DEF AllocConstants
<1>2. CASE x \in 0 .. k - 1
  <2>1. (0 * k + x) % k = x BY <1>2, Division
  <2> QED BY <1>1, <1>2, <2>1 DEF Wrap, WordSet
<1>3. CASE x < 0 /\ x + k >= 0
  <2>1. PICK y \in 0 .. k - 1 : y = x + k BY <1>3
  <2>2. (-1 * k + y) % k = y BY Division
  <2>3. -1 * k + y = x BY <2>1
  <2> QED BY <1>1, <1>3, <2>1, <2>2, <2>3 DEF Wrap, WordSet
<1> QED BY <1>1, <1>2, <1>3 DEF WordSet
-----------------------------------------------------------------------------
(***************************************************************************)
(* Recursive functions over an interval, and the list of blocks.           *)
(***************************************************************************)
\* c is the fold of f over 1 .. n, from x.
Folds(c, n, x, f) == c = [k \in 0 .. n |-> IF k = 0 THEN x ELSE f[<<k, c[k - 1]>>]]

\* There is a fold, and it keeps to the set that f keeps to.
LEMMA FoldExists ==
    ASSUME NEW n \in Nat, NEW S, NEW x \in S, NEW f \in [(1 .. n) \X S -> S]
    PROVE  \E c \in [0 .. n -> S] : Folds(c, n, x, f)
<1> DEFINE Eq(m, c) == c = [k \in 0 .. m |-> IF k = 0 THEN x ELSE f[<<k, c[k - 1]>>]]
           T == {m \in Nat : m <= n => \E c \in [0 .. m -> S] : Eq(m, c)}
<1>1. 0 \in T
  <2> DEFINE c == [k \in 0 .. 0 |-> x]
  <2>1. c \in [0 .. 0 -> S] /\ Eq(0, c) OBVIOUS
  <2> QED BY <2>1
<1>2. ASSUME NEW m \in Nat, m \in T PROVE m + 1 \in T
  <2> SUFFICES ASSUME m + 1 <= n PROVE \E c \in [0 .. m + 1 -> S] : Eq(m + 1, c) OBVIOUS
  <2>1. PICK c \in [0 .. m -> S] : Eq(m, c) BY <1>2
  <2>2. <<m + 1, c[m]>> \in (1 .. n) \X S BY <2>1
  <2>3. PICK y \in S : y = f[<<m + 1, c[m]>>] BY <2>2
  <2> DEFINE d == [k \in 0 .. m + 1 |-> IF k = m + 1 THEN y ELSE c[k]]
  <2>4. d \in [0 .. m + 1 -> S] BY <2>1, <2>3
  <2>5. ASSUME NEW k \in 0 .. m + 1
        PROVE  d[k] = IF k = 0 THEN x ELSE f[<<k, d[k - 1]>>]
    <3>1. CASE k = m + 1
      <4>1. k # 0 /\ k - 1 = m /\ d[k] = y /\ d[m] = c[m] BY <3>1
      <4> QED BY <2>3, <3>1, <4>1
    <3>2. CASE k \in 0 .. m
      <4>1. d[k] = c[k] BY <3>2
      <4>2. k # 0 => k - 1 \in 0 .. m /\ d[k - 1] = c[k - 1] BY <3>2
      <4>3. c[k] = IF k = 0 THEN x ELSE f[<<k, c[k - 1]>>] BY <2>1, <3>2
      <4> QED BY <4>1, <4>2, <4>3
    <3> QED BY <3>1, <3>2
  <2>6. d = [k \in 0 .. m + 1 |-> d[k]] OBVIOUS
  <2> HIDE DEF d
  <2>7. Eq(m + 1, d) BY <2>5, <2>6
  <2> QED BY <2>4, <2>7
<1>3. n \in T
  <2> HIDE DEF T
  <2> QED BY <1>1, <1>2, NatSetInduction
<1>4. \E c \in [0 .. n -> S] : Eq(n, c) BY <1>3
<1> QED BY <1>4 DEF Folds

\* The list with the next block, and the list of all, for memory m.
Longer(m, list) == IF m[Last(list) + 1] = 0 THEN list ELSE Append(list, m[Last(list) + 1])
ListsWithin(w, m, n) == w = [k \in 0 .. n |-> IF k = 0 THEN <<m[HeapVar]>> ELSE Longer(m, w[k - 1])]
ListOf(m, t) == LET n == t \div 3 IN (CHOOSE w : ListsWithin(w, m, n))[n]

\* In a tiled heap the list has exactly the blocks.
LEMMA ListIsTiling ==
    ASSUME NEW m, NEW t \in Nat, NEW B, m[HeapVar] = HeapStart, Tiling(m, HeapStart + t, B),
           \A b \in B : SizeW(m[b]) \in Nat
    PROVE  ListOf(m, t) \in Seq(B) /\ {ListOf(m, t)[i] : i \in 1 .. Len(ListOf(m, t))} = B
<1> DEFINE n == t \div 3
           e == HeapStart + t
           S == {l \in Seq(B) : l # <<>>}
           f == [p \in (1 .. n) \X S |-> Longer(m, p[2])]
           In(l) == {l[i] : i \in 1 .. Len(l)}
           w == CHOOSE c : ListsWithin(c, m, n)
<1>1. n \in Nat /\ 3 * n + 3 > t BY SMT
<1>2. /\ \A b \in B : b \in Nat /\ b >= HeapStart /\ b < e
      /\ \A b \in B : m[b + 1] # 0 => m[b + 1] \in B /\ m[b + 1] = b + 3 + SizeW(m[b])
      /\ \A b \in B : m[b + 1] = 0 => b + 3 + SizeW(m[b]) = e
      /\ \A b, c \in B : b < c => b + 3 + SizeW(m[b]) <= c
      /\ HeapStart \in B
  BY DEF Tiling, HeapStart
<1> HIDE DEF n, e
<1>3. ASSUME NEW l \in S
      PROVE  /\ Len(l) \in Nat \ {0} /\ Last(l) \in B /\ Last(l) \in In(l)
             /\ Longer(m, l) \in S
             /\ m[Last(l) + 1] # 0 => /\ Last(Longer(m, l)) = m[Last(l) + 1]
                                      /\ In(Longer(m, l)) = In(l) \union {m[Last(l) + 1]}
             /\ m[Last(l) + 1] = 0 => Longer(m, l) = l
  <2>1. l \in Seq(B) /\ Len(l) \in Nat \ {0} OBVIOUS
  <2>2. Last(l) = l[Len(l)] /\ l[Len(l)] \in B BY <2>1 DEF Last
  <2>3. Last(l) \in In(l) BY <2>1, <2>2
  <2>4. CASE m[Last(l) + 1] = 0 BY <2>1, <2>2, <2>3, <2>4 DEF Longer
  <2>5. CASE m[Last(l) + 1] # 0
    <3>1. PICK x \in B : x = m[Last(l) + 1] BY <1>2, <2>2, <2>5
    <3>20. Append(l, x) \in Seq(B) BY <2>1
    <3>2. PICK a \in Seq(B) : a = Append(l, x) BY <3>20
    <3>3. Longer(m, l) = a BY <2>5, <3>1, <3>2 DEF Longer
    <3>4. /\ Len(a) = Len(l) + 1 /\ a[Len(l) + 1] = x
          /\ \A i \in 1 .. Len(l) : a[i] = l[i]
      BY <2>1, <3>2
    <3>5. a # <<>> /\ Last(a) = x BY <2>1, <3>4 DEF Last
    <3>6. In(a) = In(l) \union {x}
      <4>1. \A i \in 1 .. Len(a) : i \in 1 .. Len(l) \/ i = Len(l) + 1 BY <2>1, <3>4
      <4>2. \A i \in 1 .. Len(l) : i \in 1 .. Len(a) BY <2>1, <3>4
      <4>3. Len(l) + 1 \in 1 .. Len(a) BY <2>1, <3>4
      <4> QED BY <3>4, <4>1, <4>2, <4>3
    <3> HIDE DEF In
    <3> QED BY <2>1, <2>2, <2>3, <2>5, <3>1, <3>2, <3>3, <3>5, <3>6
  <2> QED BY <2>4, <2>5
<1>4. <<HeapStart>> \in S /\ In(<<HeapStart>>) = {HeapStart} /\ Last(<<HeapStart>>) = HeapStart
  BY <1>2 DEF Last
<1> HIDE DEF S, In
<1>5. ListsWithin(w, m, n)
  <2>1. f \in [(1 .. n) \X S -> S]
    <3>1. \A p \in (1 .. n) \X S : p[2] \in S OBVIOUS
    <3>2. \A p \in (1 .. n) \X S : Longer(m, p[2]) \in S BY <1>3, <3>1
    <3> QED BY <3>2
  <2> HIDE DEF f
  <2>2. PICK c \in [0 .. n -> S] : Folds(c, n, <<HeapStart>>, f) BY <1>1, <1>4, <2>1, FoldExists
  <2>3. ASSUME NEW k \in 0 .. n
        PROVE  c[k] = IF k = 0 THEN <<m[HeapVar]>> ELSE Longer(m, c[k - 1])
    <3>1. c[k] = IF k = 0 THEN <<HeapStart>> ELSE f[<<k, c[k - 1]>>] BY <2>2 DEF Folds
    <3>2. k # 0 => k - 1 \in 0 .. n /\ k \in 1 .. n BY <1>1
    <3>3. k # 0 => <<k, c[k - 1]>> \in (1 .. n) \X S BY <2>2, <3>2
    <3>4. k # 0 => f[<<k, c[k - 1]>>] = Longer(m, c[k - 1]) BY <3>3 DEF f
    <3> QED BY <3>1, <3>4
  <2>4. c = [k \in 0 .. n |-> c[k]] BY <2>2
  <2>5. ListsWithin(c, m, n) BY <2>3, <2>4 DEF ListsWithin
  <2> QED BY <2>5
<1> HIDE DEF w
<1> DEFINE Good(k) == /\ w[k] \in S
                      /\ m[Last(w[k]) + 1] = 0 \/ Last(w[k]) >= HeapStart + 3 * k
                      /\ \A b \in B : b \in In(w[k]) \/ b > Last(w[k])
                      /\ In(w[k]) \subseteq B
           T == {k \in Nat : k <= n => Good(k)}
<1>6. n \in T
  <2>1. \A k \in 0 .. n : w[k] = IF k = 0 THEN <<m[HeapVar]>> ELSE Longer(m, w[k - 1])
    BY <1>5 DEF ListsWithin
  <2>2. 0 \in T
    <3>1. w[0] = <<HeapStart>> BY <1>1, <2>1
    <3>2. HeapStart \in Nat BY DEF HeapStart
    <3> QED BY <1>2, <1>4, <3>1, <3>2
  <2>3. ASSUME NEW k \in Nat, k \in T PROVE k + 1 \in T
    <3> SUFFICES ASSUME k + 1 <= n PROVE Good(k + 1) OBVIOUS
    <3>1. Good(k) BY <1>1, <2>3
    <3>2. PICK l \in S : l = w[k] BY <3>1
    <3>3. w[k + 1] = Longer(m, l)
      <4>1. k + 1 \in 0 .. n /\ k + 1 # 0 /\ k + 1 - 1 = k BY <1>1
      <4> QED BY <2>1, <3>2, <4>1
    <3>4. CASE m[Last(l) + 1] = 0 BY <1>3, <3>1, <3>2, <3>3, <3>4
    <3>5. CASE m[Last(l) + 1] # 0
      <4>1. PICK x \in B : x = m[Last(l) + 1] BY <1>2, <1>3, <3>5
      <4>2. PICK y \in B : y = Last(l) BY <1>3
      <4>3. x = y + 3 + SizeW(m[y]) BY <1>2, <3>5, <4>1, <4>2
      <4>4. /\ w[k + 1] \in S /\ Last(w[k + 1]) = x /\ In(w[k + 1]) = In(l) \union {x}
        BY <1>3, <3>3, <3>5, <4>1
      <4>5. y >= HeapStart + 3 * k BY <3>1, <3>2, <3>5, <4>2
      <4>6. x >= HeapStart + 3 * (k + 1)
        <5>1. SizeW(m[y]) \in Nat /\ y \in Nat /\ HeapStart \in Nat BY <1>2, <4>2 DEF HeapStart
        <5> QED BY <4>3, <4>5, <5>1
      <4>7. ASSUME NEW b \in B PROVE b \in In(l) \union {x} \/ b > x
        <5>1. CASE b \in In(l) BY <5>1
        <5>2. CASE b > y
          <6>1. y + 3 + SizeW(m[y]) <= b BY <1>2, <5>2
          <6>2. b \in Nat /\ x \in Nat BY <1>2
          <6> QED BY <4>3, <6>1, <6>2
        <5> QED BY <3>1, <3>2, <4>2, <5>1, <5>2
      <4> QED BY <3>1, <3>2, <4>1, <4>4, <4>6, <4>7
    <3> QED BY <3>4, <3>5
  <2> HIDE DEF T
  <2> QED BY <1>1, <2>2, <2>3, NatSetInduction
<1>7. Good(n) BY <1>1, <1>6
<1>8. PICK l \in S : l = w[n] BY <1>7
<1>9. ListOf(m, t) = l BY <1>8 DEF ListOf, w, n
<1>10. PICK y \in B : y = Last(l) BY <1>3
<1>11. y \in Nat /\ SizeW(m[y]) \in Nat /\ HeapStart \in Nat BY <1>2 DEF HeapStart
<1>12. m[y + 1] = 0
  <2> SUFFICES ASSUME m[y + 1] # 0 PROVE FALSE OBVIOUS
  <2>1. y >= HeapStart + 3 * n BY <1>7, <1>8, <1>10
  <2>2. m[y + 1] \in B /\ m[y + 1] = y + 3 + SizeW(m[y]) BY <1>2
  <2>3. m[y + 1] < e BY <1>2, <2>2
  <2> QED BY <1>1, <1>11, <2>1, <2>2, <2>3 DEF e
<1>13. In(l) = B
  <2>1. ASSUME NEW b \in B PROVE b \in In(l)
    <3> SUFFICES ASSUME b > y PROVE FALSE BY <1>7, <1>8, <1>10
    <3>1. y + 3 + SizeW(m[y]) <= b /\ y + 3 + SizeW(m[y]) = e /\ b < e /\ b \in Nat BY <1>2, <1>12
    <3> QED BY <1>11, <3>1
  <2> QED BY <1>7, <1>8, <2>1
<1> QED BY <1>8, <1>9, <1>13 DEF S, In

\* The range of a sequence.
LEMMA RangeOfList ==
    ASSUME NEW B, NEW l \in Seq(B)
    PROVE  Range(l) = {l[i] : i \in 1 .. Len(l)}
BY DEF Range

\* The list of the model, in a state and in the next one.
LEMMA BlockLists ==
    /\ initialized = 1 => BlockList = ListOf(mem, total_heap_size)
    /\ initialized' = 1 => BlockList' = ListOf(mem', total_heap_size')
<1>1. BlocksWithin = CHOOSE w : ListsWithin(w, mem, total_heap_size \div 3)
  BY DEF BlocksWithin, ListsWithin, Longer, next, heap, BLOCK_SIZE
<1>2. BlocksWithin' = CHOOSE w : ListsWithin(w, mem', total_heap_size' \div 3)
  BY DEF BlocksWithin, ListsWithin, Longer, next, heap, BLOCK_SIZE
<1> QED BY <1>1, <1>2 DEF BlockList, ListOf, BLOCK_SIZE

\* The blocks of a tiled heap.
LEMMA BlocksNow ==
    ASSUME initialized = 1, total_heap_size \in Nat, NEW B, heap = HeapStart,
           Tiling(mem, HeapStart + total_heap_size, B), \A b \in B : SizeW(mem[b]) \in Nat
    PROVE  BlockList \in Seq(B) /\ Blocks = B
<1>1. BlockList = ListOf(mem, total_heap_size) BY BlockLists
<1>2. BlockList \in Seq(B) /\ {BlockList[i] : i \in 1 .. Len(BlockList)} = B
  BY <1>1, ListIsTiling, SMTT(30) DEF heap
<1>3. Range(BlockList) = B BY <1>2, RangeOfList
<1> QED BY <1>2, <1>3 DEF Blocks

\* The same for the state after a step.
LEMMA BlocksNext ==
    ASSUME initialized' = 1, total_heap_size' \in Nat, NEW B, mem'[HeapVar] = HeapStart,
           Tiling(mem', HeapStart + total_heap_size', B), \A b \in B : SizeW(mem'[b]) \in Nat
    PROVE  Blocks' = B
<1>1. BlockList' = ListOf(mem', total_heap_size') BY BlockLists
<1>2. BlockList' \in Seq(B) /\ {BlockList'[i] : i \in 1 .. Len(BlockList')} = B
  BY <1>1, ListIsTiling, SMTT(30)
<1>3. Range(BlockList') = B BY <1>2, RangeOfList
<1> QED BY <1>3 DEF Blocks
-----------------------------------------------------------------------------
(***************************************************************************)
(* What can happen to a heap.                                              *)
(***************************************************************************)
\* The blocks as numbers.
Sized(m, B) == \A b \in B : SizeW(m[b]) \in Nat
SameHead(m, new, b) == new[b] = m[b] /\ new[b + 1] = m[b + 1] /\ new[b + 2] = m[b + 2]

\* The facts of a tiling one by one.
LEMMA TilingGives ==
    ASSUME NEW m, NEW e \in Int, NEW B, Tiling(m, e, B), Sized(m, B)
    PROVE  /\ \A b \in B : b \in Nat /\ b > 0 /\ b >= HeapStart /\ SizeW(m[b]) \in Nat
           /\ \A b \in B : b + 3 + SizeW(m[b]) <= e
           /\ \A b \in B : m[b + 1] # 0 =>
                m[b + 1] \in B /\ m[b + 1] = b + 3 + SizeW(m[b]) /\ m[b + 1] > b
           /\ \A b \in B : m[b + 1] = 0 => b + 3 + SizeW(m[b]) = e
           /\ \A b, c \in B : b < c => b + 3 + SizeW(m[b]) <= c
           /\ \A b, c \in B : m[b + 1] = m[c + 1] => b = c
           /\ HeapStart \in B /\ HeapStart = 160 /\ IsFiniteSet(B)
<1>1. \A b \in B : b \in HeapStart .. e - 1 /\ SizeW(m[b]) \in Nat BY DEF Tiling, Sized
<1>2. HeapStart = 160 /\ HeapStart \in B BY DEF HeapStart, Tiling
<1>3. \A b \in B : b \in Nat /\ b > 0 /\ b >= HeapStart /\ b < e BY <1>1, <1>2
<1>4. \A b \in B : m[b + 1] # 0 =>
                m[b + 1] \in B /\ m[b + 1] = b + 3 + SizeW(m[b])
  BY <1>3 DEF Tiling
<1>5. \A b \in B : m[b + 1] = 0 => b + 3 + SizeW(m[b]) = e
  <2> SUFFICES ASSUME NEW b \in B, m[b + 1] = 0 PROVE b + 3 + SizeW(m[b]) = e OBVIOUS
  <2>1. 0 \notin B BY <1>3
  <2> QED BY <2>1 DEF Tiling
<1>6. \A b, c \in B : b < c => b + 3 + SizeW(m[b]) <= c BY DEF Tiling
<1>7. ASSUME NEW b \in B, NEW c \in B, m[b + 1] = m[c + 1] PROVE b = c
  <2>1. b + 3 + SizeW(m[b]) = c + 3 + SizeW(m[c]) BY <1>4, <1>5, <1>7
  <2>2. ~(b < c) BY <1>1, <1>3, <1>6, <2>1
  <2>3. ~(c < b) BY <1>1, <1>3, <1>6, <2>1
  <2> QED BY <1>3, <2>2, <2>3
<1>8. IsFiniteSet(B)
  <2>1. B \subseteq HeapStart .. e - 1 /\ HeapStart \in Int /\ e - 1 \in Int BY <1>1, <1>2
  <2>2. IsFiniteSet(HeapStart .. e - 1)
    <3>1. PICK d \in Int : d = e - 1 BY <2>1
    <3> QED BY <2>1, <3>1, FS_Interval
  <2> QED BY <2>1, <2>2, FS_Subset
<1>9. \A b \in B : m[b + 1] # 0 => m[b + 1] > b BY <1>1, <1>3, <1>4
<1>10. \A b \in B : b + 3 + SizeW(m[b]) <= e BY <1>1, <1>3, <1>4, <1>5
<1> QED BY <1>1, <1>2, <1>3, <1>4, <1>5, <1>6, <1>7, <1>8, <1>9, <1>10

\* Sizes, links, finalizers and allocation stay as they are.
LEMMA SameBlocks ==
    ASSUME NEW m, NEW e \in Int, NEW B, NEW o, Sound(m, e, B, o), Sized(m, B), NEW new,
           \A b \in B : /\ SizeW(new[b]) = SizeW(m[b]) /\ (AllocW(new[b]) <=> AllocW(m[b]))
                        /\ MarkedW(new[b]) => AllocW(m[b])
                        /\ new[b + 1] = m[b + 1] /\ new[b + 2] = m[b + 2]
    PROVE  /\ Sound(new, e, B, o)
           /\ Unmerged(new, B) = Unmerged(m, B)
           /\ \A size : Usable(new, B, size) = Usable(m, B, size)
           /\ \A cur, prev : SweepAt(m, B, cur, prev) => SweepAt(new, B, cur, prev)
<1>1. Tiling(m, e, B) BY DEF Sound
<1>2. \A b \in B : m[b + 1] # 0 => m[b + 1] \in B BY <1>1, TilingGives
<1>3. Tiling(new, e, B) BY <1>1 DEF Tiling
<1>4. \A f : Owing(new, B, f) = Owing(m, B, f) BY DEF Owing
<1>5. Sound(new, e, B, o) BY <1>3, <1>4 DEF Sound
<1>6. Unmerged(new, B) = Unmerged(m, B) BY <1>2 DEF Unmerged
<1>7. \A size : Usable(new, B, size) = Usable(m, B, size) BY DEF Usable
<1>8. ASSUME NEW cur, NEW prev, SweepAt(m, B, cur, prev) PROVE SweepAt(new, B, cur, prev)
  <2>1. \A b \in Unmerged(new, B) : b \in B BY DEF Unmerged
  <2> QED BY <1>6, <1>8, <2>1 DEF SweepAt
<1> QED BY <1>5, <1>6, <1>7, <1>8

\* The calls owed once a block with finalizer f is allocated.
OwedWith(o, f) == IF f = 0 THEN o ELSE [o EXCEPT ![f] = @ + 1]

\* A free block is allocated with finalizer f.
LEMMA Allocated ==
    ASSUME NEW m, NEW e \in Int, NEW B, NEW o, Sound(m, e, B, o), Sized(m, B),
           NEW b \in B, ~AllocW(m[b]), NEW f \in 0 .. 2, NEW new,
           SizeW(new[b]) = SizeW(m[b]), AllocW(new[b]), new[b + 1] = m[b + 1], new[b + 2] = f,
           \A c \in B \ {b} : SameHead(m, new, c)
    PROVE  /\ Sound(new, e, B, OwedWith(o, f))
           /\ Unmerged(new, B) \subseteq Unmerged(m, B) \ {b}
<1>1. Tiling(m, e, B) BY DEF Sound
<1>2. IsFiniteSet(B) /\ \A c \in B : m[c + 1] # 0 => m[c + 1] \in B BY <1>1, TilingGives
<1>3. Tiling(new, e, B) BY <1>1 DEF Tiling, SameHead
<1>4. \A c \in B : MarkedW(new[c]) => AllocW(new[c]) BY DEF Sound, SameHead
<1>5. \A c \in B : AllocW(new[c]) => new[c + 2] \in 0 .. 2 BY DEF Sound, SameHead
<1>6. \A g : g # f => Owing(new, B, g) = Owing(m, B, g) BY DEF Owing, SameHead
<1>7. Owing(new, B, f) = Owing(m, B, f) \union {b} /\ b \notin Owing(m, B, f)
  BY DEF Owing, SameHead
<1>8. \A g : IsFiniteSet(Owing(m, B, g)) BY <1>2, FS_Subset DEF Owing
<1>9. Cardinality(Owing(new, B, f)) = Cardinality(Owing(m, B, f)) + 1
  <2>1. PICK S : S = Owing(m, B, f) OBVIOUS
  <2>2. IsFiniteSet(S) /\ b \notin S BY <1>7, <1>8, <2>1
  <2>3. Cardinality(S \union {b}) = Cardinality(S) + 1 BY <2>2, FS_AddElement
  <2> QED BY <1>7, <2>1, <2>3
<1>10. o \in [Finalizers -> Nat] /\ \A g \in Finalizers : o[g] = Cardinality(Owing(m, B, g))
  BY DEF Sound
<1>11. f = 0 \/ f \in Finalizers BY DEF Finalizers
<1>12. CASE f = 0
  <2>1. \A g \in Finalizers : g # f BY <1>12 DEF Finalizers
  <2>2. \A g \in Finalizers : o[g] = Cardinality(Owing(new, B, g)) BY <1>6, <1>10, <2>1
  <2>3. Sound(new, e, B, o) BY <1>3, <1>4, <1>5, <1>10, <2>2 DEF Sound
  <2> QED BY <1>2, <1>12, <2>3 DEF Unmerged, SameHead, OwedWith
<1>13. CASE f \in Finalizers
  <2>1. PICK o2 : o2 = [o EXCEPT ![f] = @ + 1] OBVIOUS
  <2>2. o2 \in [Finalizers -> Nat] /\ o2[f] = o[f] + 1
        /\ \A g \in Finalizers : g # f => o2[g] = o[g]
    BY <1>10, <1>13, <2>1
  <2>3. \A g \in Finalizers : o2[g] = Cardinality(Owing(new, B, g))
    BY <1>6, <1>9, <1>10, <2>2
  <2>4. Sound(new, e, B, o2) BY <1>3, <1>4, <1>5, <2>2, <2>3 DEF Sound
  <2>5. f # 0 BY <1>13 DEF Finalizers
  <2>6. Unmerged(new, B) \subseteq Unmerged(m, B) \ {b} BY <1>2 DEF Unmerged, SameHead
  <2> QED BY <2>1, <2>4, <2>5, <2>6 DEF OwedWith
<1> QED BY <1>11, <1>12, <1>13

\* The calls owed once block b of memory m is free.
OwedAfter(m, b, o) ==
    IF AllocW(m[b]) /\ m[b + 2] # 0 THEN [o EXCEPT ![m[b + 2]] = @ - 1] ELSE o

\* A block is freed, or stays free.
LEMMA Released ==
    ASSUME NEW m, NEW e \in Int, NEW B, NEW o, Sound(m, e, B, o), Sized(m, B),
           NEW b \in B, NEW new,
           SizeW(new[b]) = SizeW(m[b]), ~AllocW(new[b]), ~MarkedW(new[b]),
           new[b + 1] = m[b + 1], new[b + 2] = m[b + 2],
           \A c \in B \ {b} : SameHead(m, new, c)
    PROVE  Sound(new, e, B, OwedAfter(m, b, o))
<1>1. Tiling(m, e, B) BY DEF Sound
<1>2. IsFiniteSet(B) BY <1>1, TilingGives
<1>3. Tiling(new, e, B) BY <1>1 DEF Tiling, SameHead
<1>4. \A c \in B : MarkedW(new[c]) => AllocW(new[c]) BY DEF Sound, SameHead
<1>5. \A c \in B : AllocW(new[c]) => new[c + 2] \in 0 .. 2 BY DEF Sound, SameHead
<1>6. o \in [Finalizers -> Nat] /\ \A g \in Finalizers : o[g] = Cardinality(Owing(m, B, g))
  BY DEF Sound
<1>7. \A g : IsFiniteSet(Owing(m, B, g)) BY <1>2, FS_Subset DEF Owing
<1>8. CASE AllocW(m[b]) /\ m[b + 2] # 0
  <2>1. PICK f \in Finalizers : f = m[b + 2]
    <3>1. m[b + 2] \in 0 .. 2 BY <1>8 DEF Sound
    <3> QED BY <1>8, <3>1 DEF Finalizers
  <2>2. \A g : g # f => Owing(new, B, g) = Owing(m, B, g) BY <2>1 DEF Owing, SameHead
  <2>3. Owing(new, B, f) = Owing(m, B, f) \ {b} /\ b \in Owing(m, B, f)
    BY <1>8, <2>1 DEF Owing, SameHead
  <2>4. Cardinality(Owing(new, B, f)) = Cardinality(Owing(m, B, f)) - 1
    BY <1>7, <2>3, FS_RemoveElement
  <2>5. Cardinality(Owing(new, B, f)) \in Nat
    <3>1. IsFiniteSet(Owing(new, B, f)) BY <1>2, FS_Subset DEF Owing
    <3> QED BY <3>1, FS_CardinalityType
  <2>6. PICK o2 : o2 = [o EXCEPT ![f] = @ - 1] OBVIOUS
  <2>7. o[f] - 1 \in Nat BY <1>6, <2>4, <2>5
  <2>8. o2 \in [Finalizers -> Nat] /\ o2[f] = o[f] - 1
        /\ \A g \in Finalizers : g # f => o2[g] = o[g]
    BY <1>6, <2>6, <2>7
  <2>9. \A g \in Finalizers : o2[g] = Cardinality(Owing(new, B, g))
    BY <1>6, <2>2, <2>4, <2>8
  <2>10. Sound(new, e, B, o2) BY <1>3, <1>4, <1>5, <2>8, <2>9 DEF Sound
  <2> QED BY <1>8, <2>1, <2>6, <2>10 DEF OwedAfter
<1>9. CASE ~(AllocW(m[b]) /\ m[b + 2] # 0)
  <2>1. \A g \in Finalizers : g # 0 BY DEF Finalizers
  <2>2. \A g \in Finalizers : Owing(new, B, g) = Owing(m, B, g)
    BY <1>9, <2>1 DEF Owing, SameHead
  <2>3. Sound(new, e, B, o) BY <1>3, <1>4, <1>5, <1>6, <2>2 DEF Sound
  <2> QED BY <1>9, <2>3 DEF OwedAfter
<1> QED BY <1>8, <1>9

\* A free block b is split: the rest is a new one.
LEMMA SplitBlock ==
    ASSUME NEW m, NEW e \in Int, NEW B, NEW o, Sound(m, e, B, o), Sized(m, B),
           NEW b \in B, ~AllocW(m[b]), NEW size \in Nat, size + 3 <= SizeW(m[b]),
           NEW x, x = b + 3 + size, NEW new,
           SizeW(new[b]) = size, ~AllocW(new[b]), ~MarkedW(new[b]), new[b + 1] = x,
           SizeW(new[x]) = SizeW(m[b]) - size - 3, ~AllocW(new[x]), ~MarkedW(new[x]),
           new[x + 1] = m[b + 1],
           \A c \in B \ {b} : SameHead(m, new, c)
    PROVE  /\ Sound(new, e, B \union {x}, o)
           /\ Sized(new, B \union {x})
           /\ Unmerged(m, B) = {} => Unmerged(new, B \union {x}) \subseteq {b}
<1>1. Tiling(m, e, B) BY DEF Sound
<1> DEFINE s == SizeW(m[b])
           C == B \union {x}
<1>2. /\ \A c \in B : c \in Nat /\ c > 0 /\ c >= HeapStart /\ SizeW(m[c]) \in Nat
      /\ \A c \in B : c + 3 + SizeW(m[c]) <= e
      /\ \A c \in B : m[c + 1] # 0 =>
           m[c + 1] \in B /\ m[c + 1] = c + 3 + SizeW(m[c]) /\ m[c + 1] > c
      /\ \A c \in B : m[c + 1] = 0 => c + 3 + SizeW(m[c]) = e
      /\ \A c, d \in B : c < d => c + 3 + SizeW(m[c]) <= d
      /\ HeapStart \in B /\ HeapStart = 160
  BY <1>1, TilingGives
<1>3. s \in Nat /\ b \in Nat /\ x \in Nat /\ x > b /\ x + 3 <= b + 3 + s BY <1>2
<1>4. x \notin B
  <2> SUFFICES ASSUME x \in B PROVE FALSE OBVIOUS
  <2>1. b + 3 + s <= x BY <1>2, <1>3
  <2> QED BY <1>3, <2>1
<1>5. \A c \in B : c # b => SizeW(new[c]) = SizeW(m[c]) /\ new[c + 1] = m[c + 1] BY DEF SameHead
<1>6. x + 3 + SizeW(new[x]) = b + 3 + s BY <1>3
<1>7. \A c \in C : SizeW(new[c]) \in Nat BY <1>2, <1>3, <1>5
<1>8. Tiling(new, e, C)
  <2>1. C \subseteq HeapStart .. e - 1
    <3>1. B \subseteq HeapStart .. e - 1 BY <1>1 DEF Tiling
    <3>2. b + 3 + s <= e /\ b >= HeapStart BY <1>2
    <3>3. x \in HeapStart .. e - 1 BY <1>2, <1>3, <3>2
    <3> QED BY <3>1, <3>3
  <2>2. ASSUME NEW c \in C
        PROVE  \/ new[c + 1] = 0 /\ c + 3 + SizeW(new[c]) = e
               \/ new[c + 1] \in C /\ c + 3 + SizeW(new[c]) = new[c + 1]
    <3>1. CASE c = x
      <4>1. \/ m[b + 1] = 0 /\ b + 3 + s = e
            \/ m[b + 1] \in B /\ b + 3 + s = m[b + 1]
        BY <1>2
      <4> QED BY <1>6, <3>1, <4>1
    <3>2. CASE c = b BY <3>2
    <3>3. CASE c \in B /\ c # b
      <4>1. \/ m[c + 1] = 0 /\ c + 3 + SizeW(m[c]) = e
            \/ m[c + 1] \in B /\ c + 3 + SizeW(m[c]) = m[c + 1]
        BY <1>2, <3>3
      <4> QED BY <1>5, <3>3, <4>1
    <3> QED BY <3>1, <3>2, <3>3
  <2>3. ASSUME NEW c \in C, NEW d \in C, c < d PROVE c + 3 + SizeW(new[c]) <= d
    <3>1. CASE c \in B /\ d \in B /\ c # b BY <1>2, <1>5, <2>3, <3>1
    <3>2. CASE c = b /\ d \in B
      <4>0. \A k, l \in B : k < l => k + 3 + SizeW(m[k]) <= l BY <1>2
      <4>1. b < d => b + 3 + s <= d BY <3>2, <4>0
      <4> QED BY <1>2, <1>3, <2>3, <3>2, <4>1
    <3>3. CASE c = b /\ d = x BY <1>3, <3>3
    <3>4. CASE c = x /\ d \in B
      <4>1. b < d BY <1>2, <1>3, <2>3, <3>4
      <4>3. \A k, l \in B : k < l => k + 3 + SizeW(m[k]) <= l BY <1>2
      <4>2. b + 3 + s <= d BY <3>4, <4>1, <4>3
      <4> QED BY <1>6, <3>4, <4>2
    <3>5. CASE c \in B /\ c # b /\ d = x
      <4>1. CASE c < b
        <5>1. c + 3 + SizeW(m[c]) <= b BY <1>2, <4>1
        <5> QED BY <1>2, <1>3, <1>5, <3>5, <5>1
      <4>2. CASE c > b
        <5>0. \A k, l \in B : k < l => k + 3 + SizeW(m[k]) <= l BY <1>2
        <5>1. b < c => b + 3 + s <= c BY <3>5, <5>0
        <5> QED BY <1>2, <1>3, <2>3, <3>5, <4>2, <5>1
      <4> QED BY <1>2, <3>5, <4>1, <4>2
    <3>6. ~(c = x /\ d = x) BY <1>3, <2>3
    <3> QED BY <3>1, <3>2, <3>3, <3>4, <3>5, <3>6
  <2> HIDE DEF C
  <2>4. HeapStart \in C BY <1>2 DEF C
  <2> QED BY <2>1, <2>2, <2>3, <2>4 DEF Tiling
<1>9. \A g : Owing(new, C, g) = Owing(m, B, g) BY <1>4 DEF Owing, SameHead
<1>10. Sound(new, e, C, o)
  <2>1. \A c \in C : MarkedW(new[c]) => AllocW(new[c]) BY DEF Sound, SameHead
  <2>2. \A c \in C : AllocW(new[c]) => new[c + 2] \in 0 .. 2 BY DEF Sound, SameHead
  <2> HIDE DEF C
  <2> QED BY <1>8, <1>9, <2>1, <2>2 DEF Sound
<1>11. ASSUME Unmerged(m, B) = {}, NEW c \in Unmerged(new, C) PROVE c = b
  <2>1. c \in C /\ ~AllocW(new[c]) /\ new[c + 1] # 0 /\ ~AllocW(new[new[c + 1]])
    BY <1>11 DEF Unmerged
  <2>2. \A d \in B : ~AllocW(m[d]) /\ m[d + 1] # 0 => AllocW(m[m[d + 1]])
    BY <1>11 DEF Unmerged
  <2>3. CASE c = x
    <3>1. m[b + 1] \in B /\ m[b + 1] > b BY <1>2, <2>1, <2>3
    <3>2. new[m[b + 1]] = m[m[b + 1]] BY <1>2, <3>1 DEF SameHead
    <3> QED BY <2>1, <2>2, <2>3, <3>1, <3>2
  <2>4. CASE c \in B /\ c # b
    <3>1. new[c] = m[c] /\ new[c + 1] = m[c + 1] /\ m[c + 1] \in B BY <1>2, <2>1, <2>4 DEF SameHead
    <3>2. AllocW(m[m[c + 1]]) BY <2>1, <2>2, <2>4, <3>1
    <3>3. CASE m[c + 1] = b BY <3>2, <3>3
    <3>4. CASE m[c + 1] # b
      <4>1. new[m[c + 1]] = m[m[c + 1]] BY <3>1, <3>4 DEF SameHead
      <4> QED BY <2>1, <3>1, <3>2, <4>1
    <3> QED BY <3>3, <3>4
  <2> QED BY <2>1, <2>3, <2>4
<1> QED BY <1>7, <1>10, <1>11 DEF Sized

\* The free block b behind the free block p becomes part of it.
LEMMA MergedBlock ==
    ASSUME NEW m, NEW e \in Int, NEW B, NEW o, Sound(m, e, B, o), Sized(m, B),
           NEW p \in B, NEW b \in B, m[p + 1] = b, ~AllocW(m[p]), ~AllocW(m[b]), NEW new,
           SizeW(new[p]) = SizeW(m[p]) + 3 + SizeW(m[b]), ~AllocW(new[p]), ~MarkedW(new[p]),
           new[p + 1] = m[b + 1],
           \A c \in B \ {p, b} : SameHead(m, new, c)
    PROVE  /\ Sound(new, e, B \ {b}, o)
           /\ Sized(new, B \ {b})
           /\ p \in B \ {b}
<1>1. Tiling(m, e, B) BY DEF Sound
<1> DEFINE C == B \ {b}
<1>2. /\ \A c \in B : c \in Nat /\ c > 0 /\ c >= HeapStart /\ SizeW(m[c]) \in Nat
      /\ \A c \in B : c + 3 + SizeW(m[c]) <= e
      /\ \A c \in B : m[c + 1] # 0 =>
           m[c + 1] \in B /\ m[c + 1] = c + 3 + SizeW(m[c]) /\ m[c + 1] > c
      /\ \A c \in B : m[c + 1] = 0 => c + 3 + SizeW(m[c]) = e
      /\ \A c, d \in B : m[c + 1] = m[d + 1] => c = d
      /\ HeapStart \in B /\ HeapStart = 160
  BY <1>1, TilingGives
<1>3. \A k, l \in B : k < l => k + 3 + SizeW(m[k]) <= l BY <1>1, TilingGives
<1>4. /\ b = p + 3 + SizeW(m[p]) /\ b > p /\ p \in Nat /\ b \in Nat
      /\ SizeW(m[p]) \in Nat /\ SizeW(m[b]) \in Nat
  BY <1>2
<1>5. p + 3 + SizeW(new[p]) = b + 3 + SizeW(m[b]) BY <1>4
<1>6. \A c \in C : c # p => SizeW(new[c]) = SizeW(m[c]) /\ new[c + 1] = m[c + 1] BY DEF SameHead
<1>7. \A c \in C : SizeW(new[c]) \in Nat BY <1>2, <1>4, <1>6
<1>8. p \in C BY <1>4
<1>9. \A c \in B : m[c + 1] = b => c = p BY <1>2
<1>10. Tiling(new, e, C)
  <2>1. C \subseteq HeapStart .. e - 1 BY <1>1 DEF Tiling
  <2>2. HeapStart \in C BY <1>2, <1>4
  <2>3. ASSUME NEW c \in C
        PROVE  \/ new[c + 1] = 0 /\ c + 3 + SizeW(new[c]) = e
               \/ new[c + 1] \in C /\ c + 3 + SizeW(new[c]) = new[c + 1]
    <3>1. CASE c = p
      <4>1. \/ m[b + 1] = 0 /\ b + 3 + SizeW(m[b]) = e
            \/ m[b + 1] \in B /\ m[b + 1] # b /\ b + 3 + SizeW(m[b]) = m[b + 1]
        BY <1>2, <1>4
      <4> QED BY <1>5, <3>1, <4>1
    <3>2. CASE c # p
      <4>1. \/ m[c + 1] = 0 /\ c + 3 + SizeW(m[c]) = e
            \/ m[c + 1] \in B /\ m[c + 1] # b /\ c + 3 + SizeW(m[c]) = m[c + 1]
        BY <1>2, <1>9, <3>2
      <4> QED BY <1>6, <3>2, <4>1
    <3> QED BY <3>1, <3>2
  <2>4. ASSUME NEW c \in C, NEW d \in C, c < d PROVE c + 3 + SizeW(new[c]) <= d
    <3>1. CASE c # p BY <1>3, <1>6, <2>4, <3>1
    <3>2. CASE c = p
      <4>1. p < d BY <2>4, <3>2
      <4>2. b <= d BY <1>3, <1>4, <4>1
      <4>3. d \in Nat /\ d # b BY <1>2
      <4>4. b < d BY <1>4, <4>2, <4>3
      <4>5. b + 3 + SizeW(m[b]) <= d BY <1>3, <4>4
      <4> QED BY <1>5, <3>2, <4>5
    <3> QED BY <3>1, <3>2
  <2> HIDE DEF C
  <2> QED BY <2>1, <2>2, <2>3, <2>4 DEF Tiling
<1>11. \A g : Owing(new, C, g) = Owing(m, B, g) BY DEF Owing, SameHead
<1>12. Sound(new, e, C, o)
  <2>1. \A c \in C : MarkedW(new[c]) => AllocW(new[c]) BY DEF Sound, SameHead
  <2>2. \A c \in C : AllocW(new[c]) => new[c + 2] \in 0 .. 2 BY DEF Sound, SameHead
  <2> HIDE DEF C
  <2> QED BY <1>10, <1>11, <2>1, <2>2 DEF Sound
<1> QED BY <1>7, <1>8, <1>12 DEF Sized
-----------------------------------------------------------------------------
(***************************************************************************)
(* The steps of the sweep.                                                 *)
(***************************************************************************)
\* It starts at the first block of a merged heap, and ends with one.
LEMMA SweepEnds ==
    ASSUME NEW m, NEW e \in Int, NEW B, Tiling(m, e, B), Sized(m, B)
    PROVE  /\ Unmerged(m, B) = {} => SweepAt(m, B, HeapStart, 0)
           /\ \A prev : SweepAt(m, B, 0, prev) => Unmerged(m, B) = {}
<1>1. /\ HeapStart \in B /\ \A b \in B : b >= HeapStart /\ b \in Nat
      /\ \A b \in B : m[b + 1] # 0 => m[b + 1] > b /\ m[b + 1] \in B
      /\ HeapStart = 160
  BY TilingGives
<1>2. \A b \in B : m[b + 1] # HeapStart BY <1>1
<1>3. Unmerged(m, B) = {} => SweepAt(m, B, HeapStart, 0) BY <1>1, <1>2 DEF SweepAt
<1>4. \A prev : SweepAt(m, B, 0, prev) => Unmerged(m, B) = {} BY DEF SweepAt
<1> QED BY <1>3, <1>4

\* An allocated block is passed.
LEMMA SweepPasses ==
    ASSUME NEW m, NEW e \in Int, NEW B, Tiling(m, e, B), Sized(m, B),
           NEW b \in B, NEW prev, SweepAt(m, B, b, prev), AllocW(m[b])
    PROVE  SweepAt(m, B, m[b + 1], 0)
<1>1. /\ \A c \in B : c \in Nat /\ c > 0
      /\ \A c \in B : m[c + 1] # 0 =>
           m[c + 1] \in B /\ m[c + 1] = c + 3 + SizeW(m[c]) /\ m[c + 1] > c
      /\ \A c, d \in B : m[c + 1] = m[d + 1] => c = d
      /\ \A c \in B : m[c + 1] = 0 => c + 3 + SizeW(m[c]) = e
      /\ \A c \in B : c + 3 + SizeW(m[c]) <= e /\ SizeW(m[c]) \in Nat
  BY TilingGives
<1>2. \A c, d \in B : c < d => c + 3 + SizeW(m[c]) <= d BY DEF Tiling
<1>3. ASSUME NEW c \in Unmerged(m, B) PROVE m[b + 1] # 0 /\ m[c + 1] >= m[b + 1]
  <2>1. c \in B /\ ~AllocW(m[c]) /\ m[c + 1] # 0 /\ ~AllocW(m[m[c + 1]]) BY DEF Unmerged
  <2>2. m[c + 1] >= b BY DEF SweepAt
  <2>3. PICK d \in B : d = m[c + 1] BY <1>1, <2>1
  <2>4. d # b /\ d \in Nat /\ b \in Nat BY <1>1, <2>1, <2>3
  <2>5. b < d BY <2>2, <2>3, <2>4
  <2>6. b + 3 + SizeW(m[b]) <= d BY <1>2, <2>5
  <2>7. d + 3 + SizeW(m[d]) <= e /\ SizeW(m[d]) \in Nat BY <1>1
  <2>8. m[b + 1] # 0 BY <1>1, <2>4, <2>6, <2>7
  <2> QED BY <1>1, <2>3, <2>6, <2>8
<1>4. \A c \in B : ~AllocW(m[c]) /\ m[c + 1] = m[b + 1] => FALSE BY <1>1
<1>5. m[b + 1] = 0 \/ m[b + 1] \in B BY <1>1
<1> QED BY <1>3, <1>4, <1>5 DEF SweepAt

\* What is unmerged behind block b lies behind the next one.
LEMMA BehindNext ==
    ASSUME NEW m, NEW e \in Int, NEW B, Tiling(m, e, B), Sized(m, B),
           NEW b \in B, NEW d \in B, d >= b, d # b
    PROVE  m[b + 1] # 0 /\ d >= m[b + 1]
<1>1. /\ \A c \in B : c \in Nat /\ SizeW(m[c]) \in Nat
      /\ \A c \in B : m[c + 1] # 0 => m[c + 1] = c + 3 + SizeW(m[c])
      /\ \A c \in B : m[c + 1] = 0 => c + 3 + SizeW(m[c]) = e
      /\ \A c \in B : c + 3 + SizeW(m[c]) <= e
  BY TilingGives
<1>2. b < d BY <1>1
<1>3. b + 3 + SizeW(m[b]) <= d BY <1>2 DEF Tiling
<1>4. d + 3 + SizeW(m[d]) <= e /\ SizeW(m[d]) \in Nat /\ d \in Nat BY <1>1
<1>5. m[b + 1] # 0 BY <1>1, <1>3, <1>4
<1> QED BY <1>1, <1>3, <1>5

\* A block is freed that no free one lies before.
LEMMA SweepFrees ==
    ASSUME NEW m, NEW e \in Int, NEW B, Tiling(m, e, B), Sized(m, B),
           NEW b \in B, SweepAt(m, B, b, 0), NEW new,
           ~AllocW(new[b]), new[b + 1] = m[b + 1],
           \A c \in B \ {b} : SameHead(m, new, c)
    PROVE  SweepAt(new, B, m[b + 1], b)
<1>1. /\ \A c \in B : c \in Nat /\ c > 0
      /\ \A c \in B : m[c + 1] # 0 => m[c + 1] \in B /\ m[c + 1] > c
      /\ \A c, d \in B : m[c + 1] = m[d + 1] => c = d
  BY TilingGives
<1>2. \A c \in B : new[c + 1] = m[c + 1] BY DEF SameHead
<1>3. ASSUME NEW c \in Unmerged(new, B) PROVE m[b + 1] # 0 /\ new[c + 1] >= m[b + 1]
  <2>1. c \in B /\ ~AllocW(new[c]) /\ m[c + 1] # 0 /\ ~AllocW(new[m[c + 1]])
    BY <1>2 DEF Unmerged
  <2>2. PICK d \in B : d = m[c + 1] BY <1>1, <2>1
  <2>3. CASE c = b
    <3>1. m[b + 1] \in Nat BY <1>1, <2>1, <2>3
    <3> QED BY <1>2, <2>1, <2>3, <3>1
  <2>4. CASE c # b
    <3>1. ~AllocW(m[c]) BY <2>1, <2>4 DEF SameHead
    <3>2. d # b
      <4> SUFFICES ASSUME d = b PROVE FALSE OBVIOUS
      <4>1. c = 0 BY <1>1, <2>1, <2>2, <3>1 DEF SweepAt
      <4> QED BY <1>1, <2>1, <4>1
    <3>3. ~AllocW(m[d]) BY <2>1, <2>2, <3>2 DEF SameHead
    <3>4. c \in Unmerged(m, B) BY <2>1, <2>2, <3>1, <3>3 DEF Unmerged
    <3>5. d >= b BY <2>2, <3>4 DEF SweepAt
    <3>6. m[b + 1] # 0 /\ d >= m[b + 1] BY <3>2, <3>5, BehindNext
    <3> QED BY <1>2, <2>1, <2>2, <3>6
  <2> QED BY <2>3, <2>4
<1>4. m[b + 1] = 0 \/ m[b + 1] \in B BY <1>1
<1>5. \A c \in B : new[c + 1] = m[b + 1] => b = c BY <1>1, <1>2
<1> QED BY <1>2, <1>3, <1>4, <1>5 DEF SweepAt

\* A block is freed and merged with the free one before it.
LEMMA SweepMerges ==
    ASSUME NEW m, NEW e \in Int, NEW B, Tiling(m, e, B), Sized(m, B),
           NEW b \in B, NEW p \in B, SweepAt(m, B, b, p), NEW new,
           ~AllocW(new[p]), new[p + 1] = m[b + 1],
           \A c \in B \ {p, b} : SameHead(m, new, c)
    PROVE  SweepAt(new, B \ {b}, m[b + 1], p)
<1>1. /\ \A c \in B : c \in Nat /\ c > 0
      /\ \A c \in B : m[c + 1] # 0 => m[c + 1] \in B /\ m[c + 1] > c
      /\ \A c, d \in B : m[c + 1] = m[d + 1] => c = d
  BY TilingGives
<1>2. m[p + 1] = b /\ ~AllocW(m[p]) /\ p < b
  <2>1. p # 0 BY <1>1
  <2>2. m[p + 1] = b /\ ~AllocW(m[p]) BY <2>1 DEF SweepAt
  <2>3. m[p + 1] # 0 BY <1>1, <2>2
  <2> QED BY <1>1, <2>2, <2>3
<1>3. \A c \in B : m[c + 1] = b => c = p BY <1>1, <1>2
<1>4. ASSUME NEW c \in Unmerged(new, B \ {b}) PROVE m[b + 1] # 0 /\ new[c + 1] >= m[b + 1]
  <2>1. c \in B /\ c # b /\ ~AllocW(new[c]) /\ new[c + 1] # 0 /\ ~AllocW(new[new[c + 1]])
    BY DEF Unmerged
  <2>2. CASE c = p
    <3>1. m[b + 1] \in Nat BY <1>1, <2>1, <2>2
    <3> QED BY <2>1, <2>2, <3>1
  <2>3. CASE c # p
    <3>1. new[c] = m[c] /\ new[c + 1] = m[c + 1] BY <2>1, <2>3 DEF SameHead
    <3>2. PICK d \in B : d = m[c + 1] BY <1>1, <2>1, <3>1
    <3>3. d # b BY <1>3, <2>1, <2>3, <3>2
    <3>4. ~AllocW(m[d])
      <4>1. CASE d = p BY <1>2, <4>1
      <4>2. CASE d # p BY <2>1, <3>1, <3>2, <3>3, <4>2 DEF SameHead
      <4> QED BY <4>1, <4>2
    <3>5. c \in Unmerged(m, B) BY <2>1, <3>1, <3>2, <3>4 DEF Unmerged
    <3>6. d >= b BY <3>2, <3>5 DEF SweepAt
    <3>7. m[b + 1] # 0 /\ d >= m[b + 1] BY <3>3, <3>6, BehindNext
    <3> QED BY <3>1, <3>2, <3>7
  <2> QED BY <2>2, <2>3
<1>5. m[b + 1] = 0 \/ m[b + 1] \in B \ {b}
  <2>1. m[b + 1] # 0 => m[b + 1] \in B /\ m[b + 1] > b /\ b \in Nat BY <1>1
  <2> QED BY <2>1
<1>6. ASSUME NEW c \in B \ {b}, new[c + 1] = m[b + 1] PROVE p = c
  <2> SUFFICES ASSUME c # p PROVE FALSE OBVIOUS
  <2>1. m[c + 1] = m[b + 1] BY <1>6 DEF SameHead
  <2> QED BY <1>1, <2>1
<1>7. p \in B \ {b} BY <1>1, <1>2
<1> QED BY <1>4, <1>5, <1>6, <1>7 DEF SweepAt
-----------------------------------------------------------------------------
(***************************************************************************)
(* The state.                                                              *)
(***************************************************************************)
\* Where the areas are.
LEMMA Places ==
    ASSUME AllocConstants
    PROVE  /\ HeapVar = 100 /\ HeapStart = 160 /\ HeapVar \in Areas
           /\ \A a \in Areas : a \in Nat /\ a < HeapStart /\ a \in WordSet
           /\ StackTopVar \in Areas \ {HeapVar} /\ FrameBottomVar \in Areas \ {HeapVar}
           /\ ClientGlobals \subseteq Areas \ {HeapVar}
           /\ \A d \in 1 .. MaxDepth + 1 :
                SavedRbp(d) \in Areas \ {HeapVar} /\ Local(d) \in Areas \ {HeapVar}
           /\ WordSet = 0 .. 4 * MARK_BIT - 1 /\ MARK_BIT \in Nat /\ MARK_BIT >= 256
           /\ 0 \in WordSet /\ 1 \in WordSet
<1>1. NumGlobals \in Nat /\ MaxDepth \in Nat \ {0} /\ 3 * MaxDepth + NumGlobals < 47
  BY AllocAssumption DEF AllocConstants
<1>2. MARK_BIT \in Nat /\ MARK_BIT >= 256 /\ WordSet = 0 .. 4 * MARK_BIT - 1
  BY DEF AllocConstants, WordSet
<1>3. HeapVar = 100 /\ HeapStart = 160 /\ StackTopVar = 101 /\ FrameBottomVar = 102
      /\ ClientGlobals = 103 .. 102 + NumGlobals
  BY DEF HeapVar, HeapStart, StackTopVar, FrameBottomVar, __data_start, ClientGlobals
<1>4. Areas = (100 .. 102 + NumGlobals) \union (149 - 3 * MaxDepth .. 150)
  BY <1>1, <1>3 DEF Areas, SavedRbp, __data_start, _end
<1>5. \A d \in 1 .. MaxDepth + 1 : SavedRbp(d) = 153 - 3 * d /\ Local(d) = 152 - 3 * d
  BY <1>1 DEF SavedRbp, Local
<1>6. ASSUME NEW d \in 1 .. MaxDepth + 1
      PROVE SavedRbp(d) \in Areas \ {HeapVar} /\ Local(d) \in Areas \ {HeapVar}
  BY <1>1, <1>3, <1>4, <1>5
<1>7. \A a \in Areas : a \in Nat /\ a < HeapStart /\ a \in WordSet BY <1>1, <1>2, <1>3, <1>4
<1> QED BY <1>1, <1>2, <1>3, <1>4, <1>6, <1>7

\* What the invariant says of the blocks.
LEMMA InvGives ==
    ASSUME AllocConstants, AllocInv
    PROVE  /\ mem \in [DOMAIN mem -> WordSet] /\ Areas \subseteq DOMAIN mem
           /\ Roots \subseteq Areas \ {HeapVar}
           /\ End = HeapStart + total_heap_size /\ End \in Int
           /\ initialized = 1 =>
                /\ Sized(mem, Blocks) /\ heap = HeapStart /\ BlockList \in Seq(Blocks)
                /\ Sound(mem, End, Blocks, owed) /\ Tiling(mem, End, Blocks) /\ End <= MARK_BIT
                /\ \A b \in Blocks : /\ b \in Nat /\ b >= HeapStart
                                     /\ {b, b + 1, b + 2} \subseteq DOMAIN mem
                                     /\ SizeW(mem[b]) \in 0 .. MARK_BIT - 1
                                     /\ b + 3 + SizeW(mem[b]) <= End
<1>1. mem \in [DOMAIN mem -> WordSet] /\ Areas \subseteq DOMAIN mem BY DEF AllocInv, MemTyped
<1>2. Roots \subseteq Areas \ {HeapVar}
  <2>1. depth \in 1 .. MaxDepth + 1 BY AllocAssumption DEF AllocInv, ScalarsTyped
  <2> QED BY <2>1, Places DEF Roots
<1>3. End = HeapStart + total_heap_size /\ End \in Int
  BY DEF End, HeapStart, AllocInv, ScalarsTyped
<1>4. ASSUME initialized = 1
      PROVE  /\ Sized(mem, Blocks) /\ heap = HeapStart /\ BlockList \in Seq(Blocks)
             /\ Sound(mem, End, Blocks, owed) /\ Tiling(mem, End, Blocks) /\ End <= MARK_BIT
             /\ \A b \in Blocks : /\ b \in Nat /\ b >= HeapStart
                                  /\ {b, b + 1, b + 2} \subseteq DOMAIN mem
                                  /\ SizeW(mem[b]) \in 0 .. MARK_BIT - 1
                                  /\ b + 3 + SizeW(mem[b]) <= End
  <2>1. /\ Sound(mem, End, Blocks, owed) /\ heap = HeapStart /\ End <= MARK_BIT
        /\ HeapStart .. End - 1 \subseteq DOMAIN mem
    BY <1>4 DEF AllocInv, HeapKept, MemTyped, ScalarsTyped
  <2>2. Tiling(mem, End, Blocks) /\ Blocks \subseteq HeapStart .. End - 1 BY <2>1 DEF Sound, Tiling
  <2>3. \A b \in Blocks : SizeW(mem[b]) \in 0 .. MARK_BIT - 1
    BY <1>1, <2>1, <2>2, InfoParts
  <2>4. Sized(mem, Blocks) BY <2>3, Places DEF Sized
  <2>5. \A b \in Blocks : b \in Nat /\ b >= HeapStart /\ b + 3 + SizeW(mem[b]) <= End
    BY <1>3, <2>2, <2>4, TilingGives
  <2>6. \A b \in Blocks : {b, b + 1, b + 2} \subseteq DOMAIN mem
    <3> SUFFICES ASSUME NEW b \in Blocks PROVE {b, b + 1, b + 2} \subseteq HeapStart .. End - 1
      BY <2>1
    <3>1. SizeW(mem[b]) \in Nat /\ HeapStart \in Nat BY <2>4 DEF Sized, HeapStart
    <3> QED BY <1>3, <2>5, <3>1
  <2>7. BlockList \in Seq(Blocks)
    <3>1. total_heap_size \in Nat BY DEF AllocInv, ScalarsTyped
    <3>2. PICK B : B = Blocks OBVIOUS
    <3> QED BY <1>3, <1>4, <2>1, <2>2, <2>4, <3>1, <3>2, BlocksNow DEF Sized
  <2> QED BY <2>1, <2>2, <2>3, <2>4, <2>5, <2>6, <2>7
<1> QED BY <1>1, <1>2, <1>3, <1>4

\* A step that leaves sizes, links, finalizers and allocation as they are.
Keeps(b) ==
    /\ SizeW(mem'[b]) = SizeW(mem[b]) /\ (AllocW(mem'[b]) <=> AllocW(mem[b]))
    /\ MarkedW(mem'[b]) => AllocW(mem[b])
    /\ mem'[b + 1] = mem[b + 1] /\ mem'[b + 2] = mem[b + 2]
Quiet ==
    /\ mem' \in [DOMAIN mem -> WordSet] /\ mem'[HeapVar] = mem[HeapVar]
    /\ UNCHANGED <<initialized, total_heap_size, owed>>
    /\ initialized = 1 => \A b \in Blocks : Keeps(b)

\* What remains of the invariant then.
LEMMA QuietKeeps ==
    ASSUME AllocConstants, AllocInv, Quiet
    PROVE  /\ MemTyped'
           /\ initialized = 1 =>
                /\ Blocks' = Blocks /\ Sound(mem', End', Blocks', owed')
                /\ Unmerged(mem', Blocks') = Unmerged(mem, Blocks)
                /\ \A size : Usable(mem', Blocks', size) = Usable(mem, Blocks, size)
                /\ \A cur, prev :
                     SweepAt(mem, Blocks, cur, prev) => SweepAt(mem', Blocks', cur, prev)
<1>1. End' = End BY DEF Quiet, End
<1>2. DOMAIN mem' = DOMAIN mem BY DEF Quiet
<1>3. MemTyped' BY <1>1, <1>2 DEF Quiet, AllocInv, MemTyped, heap
<1>4. ASSUME initialized = 1
      PROVE  /\ Blocks' = Blocks /\ Sound(mem', End', Blocks', owed')
             /\ Unmerged(mem', Blocks') = Unmerged(mem, Blocks)
             /\ \A size : Usable(mem', Blocks', size) = Usable(mem, Blocks, size)
             /\ \A cur, prev :
                  SweepAt(mem, Blocks, cur, prev) => SweepAt(mem', Blocks', cur, prev)
  <2>1. PICK B : B = Blocks OBVIOUS
  <2>2. PICK new : new = mem' OBVIOUS
  <2>3. /\ Sized(mem, B) /\ Sound(mem, End, B, owed) /\ End \in Int
        /\ \A b \in B : b \in Nat /\ b >= HeapStart
    BY <1>4, <2>1, InvGives
  <2>4. \A b \in B : /\ SizeW(new[b]) = SizeW(mem[b]) /\ (AllocW(new[b]) <=> AllocW(mem[b]))
                     /\ MarkedW(new[b]) => AllocW(mem[b])
                     /\ new[b + 1] = mem[b + 1] /\ new[b + 2] = mem[b + 2]
    BY <1>4, <2>1, <2>2 DEF Quiet, Keeps
  <2>5. /\ Sound(new, End, B, owed)
        /\ Unmerged(new, B) = Unmerged(mem, B)
        /\ \A size : Usable(new, B, size) = Usable(mem, B, size)
        /\ \A cur, prev : SweepAt(mem, B, cur, prev) => SweepAt(new, B, cur, prev)
    BY <2>3, <2>4, SameBlocks
  <2>6. Blocks' = B
    <3>1. Tiling(new, End, B) /\ \A b \in B : SizeW(new[b]) \in Nat
      BY <2>3, <2>4, <2>5 DEF Sound, Sized
    <3>2. initialized' = 1 /\ total_heap_size' = total_heap_size /\ total_heap_size \in Nat
          /\ mem'[HeapVar] = HeapStart
      BY <1>4, InvGives DEF Quiet, AllocInv, ScalarsTyped, heap
    <3> QED BY <2>2, <3>1, <3>2, BlocksNext DEF End
  <2>7. owed' = owed BY DEF Quiet
  <2> QED BY <1>1, <2>1, <2>2, <2>5, <2>6, <2>7
<1> QED BY <1>3, <1>4

\* Writing elsewhere than in the heap.
LEMMA OutsideKeeps ==
    ASSUME AllocConstants, AllocInv, mem' \in [DOMAIN mem -> WordSet],
           \A a \in DOMAIN mem : a \notin Areas \/ a = HeapVar => mem'[a] = mem[a],
           UNCHANGED <<initialized, total_heap_size, owed>>
    PROVE  Quiet
<1>1. mem'[HeapVar] = mem[HeapVar] BY Places, InvGives
<1>2. ASSUME initialized = 1, NEW b \in Blocks PROVE Keeps(b)
  <2>1. b \in Nat /\ b >= HeapStart /\ {b, b + 1, b + 2} \subseteq DOMAIN mem BY <1>2, InvGives
  <2>2. b \notin Areas /\ b + 1 \notin Areas /\ b + 2 \notin Areas BY <2>1, Places, SMTT(30)
  <2>3. mem'[b] = mem[b] /\ mem'[b + 1] = mem[b + 1] /\ mem'[b + 2] = mem[b + 2] BY <2>1, <2>2
  <2>4. MarkedW(mem[b]) => AllocW(mem[b]) BY <1>2, InvGives DEF Sound
  <2> QED BY <2>3, <2>4 DEF Keeps
<1> QED BY <1>1, <1>2 DEF Quiet

\* The frame of a call.
LEMMA FrameEffect ==
    ASSUME AllocConstants, depth \in 1 .. MaxDepth, NEW m, m \in [DOMAIN m -> WordSet],
           Areas \subseteq DOMAIN m
    PROVE  /\ FrameOf(m) \in [DOMAIN m -> WordSet]
           /\ \A a \in DOMAIN m : a \notin Areas \/ a = HeapVar => FrameOf(m)[a] = m[a]
<1>1. depth \in 1 .. MaxDepth + 1 /\ depth + 1 \in 1 .. MaxDepth + 1 BY AllocAssumption
<1>2. /\ SavedRbp(depth + 1) \in Areas \ {HeapVar} /\ Local(depth + 1) \in Areas
      /\ SavedRbp(depth) \in Areas
      /\ StackTopVar \in Areas \ {HeapVar} /\ FrameBottomVar \in Areas \ {HeapVar}
  BY <1>1, Places
<1>3. SavedRbp(depth) \in WordSet /\ SavedRbp(depth + 1) \in WordSet /\ Local(depth + 1) \in WordSet
  BY <1>2, Places
<1> QED BY <1>2, <1>3 DEF FrameOf
-----------------------------------------------------------------------------
(***************************************************************************)
(* The steps.                                                              *)
(***************************************************************************)
\* A client runs, or the program has ended, or memAllocate runs.
LEMMA GcKinds ==
    ASSUME GcTyped
    PROVE  /\ gc.at \in {"client", "exit", "crash", "hang"} =>
                gc \in [at : {"client", "exit", "crash", "hang"}]
           /\ gc.at \in Stages => gc \in Calls /\ initialized = 1
BY DEF GcTyped, Calls, Stages

\* The blocks a step adds are in C.
Adds(C) == initialized' = 1 => Blocks' \subseteq Blocks \union C

\* A quiet step keeps the invariant if memAllocate goes on as it should.
LEMMA QuietStep ==
    ASSUME AllocConstants, AllocInv, Quiet, GcTyped', depth' \in 1 .. MaxDepth,
           initialized = 1 =>
             /\ gc'.at \in {"client", "take", "globals", "stack", "heap"} =>
                    Unmerged(mem, Blocks) = {}
             /\ gc'.at \in {"globals", "stack", "heap"} => gc'.prev = 0
             /\ gc'.at = "take" => Usable(mem, Blocks, gc'.size) # {}
             /\ gc'.at = "sweep" => SweepAt(mem, Blocks, gc'.cur, gc'.prev)
    PROVE  AllocInv' /\ Adds({})
<1>1. ScalarsTyped' BY DEF Quiet, AllocInv, ScalarsTyped, End
<1>2. MemTyped' BY QuietKeeps
<1>3. HeapKept'
  <2> SUFFICES ASSUME initialized = 1 PROVE HeapKept' BY DEF HeapKept, Quiet
  <2>1. PICK g : g = gc' OBVIOUS
  <2>2. PICK m, B : m = mem' /\ B = Blocks' OBVIOUS
  <2>3. /\ Sound(m, End', B, owed')
        /\ Unmerged(m, B) = Unmerged(mem, Blocks)
        /\ \A size : Usable(m, B, size) = Usable(mem, Blocks, size)
        /\ \A cur, prev : SweepAt(mem, Blocks, cur, prev) => SweepAt(m, B, cur, prev)
    BY <2>2, QuietKeeps
  <2>4. /\ Sound(m, End', B, owed')
        /\ g.at \in {"client", "take", "globals", "stack", "heap"} => Unmerged(m, B) = {}
        /\ g.at \in {"globals", "stack", "heap"} => g.prev = 0
        /\ g.at = "take" => Usable(m, B, g.size) # {}
        /\ g.at = "sweep" => SweepAt(m, B, g.cur, g.prev)
    BY <2>1, <2>3
  <2> QED BY <2>1, <2>2, <2>4 DEF HeapKept
<1>4. Adds({})
  <2> SUFFICES ASSUME initialized = 1 PROVE Blocks' = Blocks BY DEF Quiet, Adds
  <2> QED BY QuietKeeps
<1> QED BY <1>1, <1>2, <1>3, <1>4 DEF AllocInv

\* At first there is no heap.
LEMMA InitKept ==
    ASSUME AllocConstants, Init
    PROVE  AllocInv
<1>1. MemTyped BY Places DEF Init, MemTyped
<1>2. ScalarsTyped BY AllocAssumption DEF Init, ScalarsTyped
<1>3. GcTyped BY DEF Init, GcTyped, Idle
<1>4. HeapKept BY DEF Init, HeapKept
<1> QED BY <1>1, <1>2, <1>3, <1>4 DEF AllocInv

\* The first block.
LEMMA FirstBlock ==
    ASSUME AllocConstants, NEW m, NEW e \in Int, NEW s \in 0 .. MARK_BIT - 1,
           e = HeapStart + 3 + s, m[HeapStart] = s, m[HeapStart + 1] = 0
    PROVE  /\ Sound(m, e, {HeapStart}, [f \in Finalizers |-> 0])
           /\ Sized(m, {HeapStart}) /\ Unmerged(m, {HeapStart}) = {}
<1>1. SizeW(s) = s /\ ~AllocW(s) /\ ~MarkedW(s) BY InfoKinds DEF InfoOf
<1>2. s \in Nat /\ HeapStart = 160 BY DEF HeapStart, AllocConstants
<1>3. Tiling(m, e, {HeapStart}) BY <1>1, <1>2 DEF Tiling
<1>4. \A f : Owing(m, {HeapStart}, f) = {} BY <1>1 DEF Owing
<1>5. \A f : Cardinality(Owing(m, {HeapStart}, f)) = 0 BY <1>4, FS_EmptySet
<1>6. Sound(m, e, {HeapStart}, [f \in Finalizers |-> 0]) BY <1>1, <1>3, <1>5 DEF Sound
<1> QED BY <1>1, <1>2, <1>6 DEF Sized, Unmerged

\* memInitialize.
LEMMA InitializeKept ==
    ASSUME AllocConstants, AllocInv, NEW n \in InitSizes, memInitialize(n)
    PROVE  AllocInv' /\ Adds({HeapStart})
<1>1. gc.at = "client" /\ UNCHANGED <<depth, gc, owed>> BY DEF memInitialize
<1>2. gc \in [at : {"client", "exit", "crash", "hang"}] BY <1>1, GcKinds DEF AllocInv
<1>3. GcTyped' BY <1>1, <1>2 DEF GcTyped
<1>4. depth' \in 1 .. MaxDepth BY <1>1 DEF AllocInv, ScalarsTyped
<1>5. CASE UNCHANGED <<mem, initialized, total_heap_size>>
  <2>1. mem' \in [DOMAIN mem -> WordSet] /\ \A a \in DOMAIN mem : mem'[a] = mem[a]
    BY <1>5, InvGives
  <2>2. Quiet BY <1>1, <1>5, <2>1, OutsideKeeps
  <2> QED BY <1>1, <1>2, <1>3, <1>4, <2>2, QuietStep DEF AllocInv, HeapKept, Adds
<1>6. CASE initialized = 0 /\ initialized' = -1 /\ UNCHANGED <<mem, total_heap_size>>
  BY <1>1, <1>3, <1>4, <1>6 DEF AllocInv, MemTyped, ScalarsTyped, HeapKept, Adds
<1>7. CASE /\ initialized = 0 /\ n > 0 /\ initialized' = 1
           /\ total_heap_size' = Wrap(n * 6) \div 5
           /\ mem' = FrameOf([a \in Areas \union HeapStart .. HeapStart + (Wrap(n * 6) \div 5) + Behind |->
                                IF a = HeapVar THEN HeapStart
                                ELSE IF a = HeapStart THEN infoMake(0, 0, Wrap((Wrap(n * 6) \div 5) - BLOCK_SIZE))
                                ELSE IF a \in Areas THEN mem[a] ELSE 0])
  <2>1. PICK t : t = Wrap(n * 6) \div 5 OBVIOUS
  <2>2. /\ n \in Nat /\ n >= 3 /\ 160 + 2 * n <= MARK_BIT /\ WordSet = 0 .. 4 * MARK_BIT - 1
        /\ MARK_BIT \in Nat \ {0}
    BY <1>7, Places, SMTT(30) DEF AllocConstants
  <2>3. t = (n * 6) \div 5
    <3>1. n * 6 \in WordSet /\ n * 6 \in Int BY <2>2
    <3> QED BY <2>1, <3>1, Wraps
  <2>4. t \in Nat /\ t >= 3 /\ t <= 2 * n BY <2>2, <2>3
  <2>5. infoMake(0, 0, Wrap(t - BLOCK_SIZE)) = t - 3 /\ t - 3 \in 0 .. MARK_BIT - 1
    <3>1. t - 3 \in 0 .. MARK_BIT - 1 /\ t - 3 \in WordSet BY <2>2, <2>4
    <3>2. Wrap(t - 3) = t - 3 BY <3>1, Wraps
    <3>6. PICK k \in Nat \ {0} : k = MARK_BIT BY <2>2
    <3>7. PICK r \in 0 .. k - 1 : r = t - 3 BY <3>1, <3>6
    <3>8. (0 * k + r) % k = r BY Division
    <3>3. (t - 3) % MARK_BIT = t - 3 BY <3>6, <3>7, <3>8
    <3>5. ALLOC_BIT \in Int BY DEF AllocConstants
    <3> QED BY <2>2, <2>4, <3>1, <3>2, <3>3, <3>5 DEF infoMake, BLOCK_SIZE
  <2> DEFINE base == [a \in Areas \union HeapStart .. HeapStart + t + Behind |->
                        IF a = HeapVar THEN HeapStart
                        ELSE IF a = HeapStart THEN t - 3
                        ELSE IF a \in Areas THEN mem[a] ELSE 0]
  <2>6. mem' = FrameOf(base) BY <1>7, <2>1, <2>5
  <2>7. base \in [DOMAIN base -> WordSet]
    <3>1. \A a \in Areas : mem[a] \in WordSet BY InvGives
    <3>2. HeapStart \in WordSet /\ t - 3 \in WordSet /\ 0 \in WordSet BY <2>2, <2>5, Places
    <3> QED BY <3>1, <3>2
  <2>8. /\ Areas \subseteq DOMAIN base /\ HeapStart .. HeapStart + t - 1 \subseteq DOMAIN base
        /\ HeapStart \in DOMAIN base /\ HeapStart + 1 \in DOMAIN base
    <3>1. Behind \in Nat BY DEF AllocConstants
    <3> QED BY <2>4, <3>1, Places
  <2>9. base[HeapVar] = HeapStart /\ base[HeapStart] = t - 3 /\ base[HeapStart + 1] = 0
    BY <2>8, Places
  <2> HIDE DEF base
  <2>10. depth \in 1 .. MaxDepth BY DEF AllocInv, ScalarsTyped
  <2>11. PICK m : m = mem' OBVIOUS
  <2>12. /\ m \in [DOMAIN base -> WordSet]
         /\ \A a \in DOMAIN base : a \notin Areas \/ a = HeapVar => m[a] = base[a]
    BY <2>6, <2>7, <2>8, <2>10, <2>11, FrameEffect
  <2>13. m[HeapVar] = HeapStart /\ m[HeapStart] = t - 3 /\ m[HeapStart + 1] = 0
    <3>1. HeapVar \in DOMAIN base /\ HeapStart \notin Areas /\ HeapStart + 1 \notin Areas
      BY <2>8, Places
    <3> QED BY <2>8, <2>9, <2>12, <3>1
  <2>14. PICK e \in Int : e = HeapStart + t BY <2>4, Places
  <2>15. total_heap_size' = t /\ End' = e BY <1>7, <2>1, <2>14 DEF End
  <2>16. MemTyped'
    <3>1. DOMAIN m = DOMAIN base BY <2>12
    <3>4. HeapStart + t - 1 = e - 1 BY <2>4, <2>14, Places
    <3>2. HeapStart .. e - 1 \subseteq DOMAIN m BY <2>8, <3>1, <3>4
    <3>3. m \in [DOMAIN m -> WordSet] /\ Areas \subseteq DOMAIN m BY <2>8, <2>12, <3>1
    <3> QED BY <2>13, <3>3, <2>11, <2>15, <3>2 DEF MemTyped, heap
  <2>17. ScalarsTyped'
    BY <1>1, <1>4, <1>7, <2>2, <2>4, <2>14, <2>15, Places DEF ScalarsTyped
  <2>18. PICK o : o = owed OBVIOUS
  <2>19. o = [f \in Finalizers |-> 0] BY <1>7, <2>18 DEF AllocInv, ScalarsTyped
  <2>20. /\ Sound(m, e, {HeapStart}, o) /\ Sized(m, {HeapStart})
         /\ Unmerged(m, {HeapStart}) = {}
    <3>1. e = HeapStart + 3 + (t - 3) BY <2>4, <2>14, Places
    <3> QED BY <2>5, <2>13, <2>14, <2>19, <3>1, FirstBlock
  <2>21. Blocks' = {HeapStart}
    <3>1. Tiling(m, HeapStart + t, {HeapStart}) /\ \A b \in {HeapStart} : SizeW(m[b]) \in Nat
      BY <2>14, <2>20 DEF Sound, Sized
    <3> QED BY <1>7, <2>4, <2>11, <2>13, <2>15, <3>1, BlocksNext
  <2>22. HeapKept'
    BY <1>1, <2>11, <2>15, <2>18, <2>20, <2>21 DEF HeapKept
  <2> QED BY <1>3, <2>16, <2>17, <2>21, <2>22 DEF AllocInv, Adds
<1>8. initialized \in {-1, 0, 1} BY DEF AllocInv, ScalarsTyped
<1> QED BY <1>5, <1>6, <1>7 DEF memInitialize

\* The least number of a set.
LEMMA MinIsLeast ==
    ASSUME NEW S \in SUBSET Nat, S # {}
    PROVE  Min(S) \in S /\ \A y \in S : Min(S) <= y
<1> DEFINE R == OpToRel(<, Nat)
<1>1. IsWellFoundedOn(R, Nat) BY NatLessThanWellFounded
<1>2. PICK x \in S : \A y \in S : ~(<<y, x>> \in R)
  <2> HIDE DEF R
  <2> QED BY <1>1, WFMin
<1>3. ASSUME NEW y \in S PROVE x <= y
  <2>1. x \in Nat /\ y \in Nat OBVIOUS
  <2>2. y < x => <<y, x>> \in R BY <2>1 DEF OpToRel
  <2>3. ~(y < x) BY <1>2, <2>2
  <2> HIDE DEF R
  <2> QED BY <2>1, <2>3
<1> QED BY <1>3 DEF Min

\* nextBlockOfSize finds a usable block if there is one.
LEMMA NextBlock ==
    ASSUME AllocConstants, AllocInv, initialized = 1, NEW size
    PROVE  IF Usable(mem, Blocks, size) = {} THEN nextBlockOfSize(size) = 0
           ELSE nextBlockOfSize(size) \in Usable(mem, Blocks, size)
<1> DEFINE U == Usable(mem, Blocks, size)
           found == {k \in DOMAIN BlockList : BlockList[k] \in U}
<1>1. PICK l \in Seq(Blocks) : l = BlockList BY InvGives
<1>2. Blocks = {l[i] : i \in 1 .. Len(l)} BY <1>1, RangeOfList DEF Blocks
<1>3. found \subseteq Nat /\ (found = {} <=> U = {})
  <2>1. DOMAIN l = 1 .. Len(l) /\ Len(l) \in Nat BY <1>1
  <2>2. U \subseteq Blocks BY DEF Usable
  <2> HIDE DEF U
  <2> QED BY <1>1, <1>2, <2>1, <2>2
<1>4. \A k \in DOMAIN BlockList : BlockList[k] \in Blocks BY <1>1
<1>5. nextBlockOfSize(size) = IF found = {} THEN 0 ELSE BlockList[Min(found)]
  <2>1. \A k \in DOMAIN BlockList :
          BlockList[k] \in U <=> /\ Size(BlockList[k]) >= Wrap(size - BLOCK_SIZE)
                                 /\ ~IsAlloc(BlockList[k])
    BY <1>4 DEF Usable, SizeW, AllocW, Size, IsAlloc, info
  <2>2. found = {k \in DOMAIN BlockList : /\ Size(BlockList[k]) >= Wrap(size - BLOCK_SIZE)
                                          /\ ~IsAlloc(BlockList[k])}
    BY <2>1
  <2> HIDE DEF found
  <2> QED BY <2>2 DEF nextBlockOfSize
<1>6. CASE U = {} BY <1>3, <1>5, <1>6
<1>7. CASE U # {}
  <2>1. Min(found) \in found
    <3> HIDE DEF found
    <3> QED BY <1>3, <1>7, MinIsLeast
  <2>2. BlockList[Min(found)] \in U BY <2>1
  <2> QED BY <1>3, <1>5, <1>7, <2>2
<1> QED BY <1>6, <1>7

\* The call of memAllocate.
LEMMA AllocateKept ==
    ASSUME AllocConstants, AllocInv, NEW q \in Requests, NEW r \in Roots, memAllocate(q[1], q[2], r)
    PROVE  AllocInv' /\ Adds({})
<1>1. gc.at = "client" /\ UNCHANGED <<initialized, total_heap_size, depth, owed>> BY DEF memAllocate
<1>2. gc \in [at : {"client", "exit", "crash", "hang"}] BY <1>1, GcKinds DEF AllocInv
<1>3. depth \in 1 .. MaxDepth /\ depth' \in 1 .. MaxDepth BY <1>1 DEF AllocInv, ScalarsTyped
<1>4. mem \in [DOMAIN mem -> WordSet] /\ Areas \subseteq DOMAIN mem /\ r \in Areas \ {HeapVar}
  BY InvGives
<1>5. CASE initialized # 1 /\ mem' = [mem EXCEPT ![r] = 0] /\ UNCHANGED gc
  <2>1. /\ mem' \in [DOMAIN mem -> WordSet]
        /\ \A a \in DOMAIN mem : a \notin Areas \/ a = HeapVar => mem'[a] = mem[a]
    BY <1>4, <1>5, Places
  <2>2. Quiet BY <1>1, <2>1, OutsideKeeps
  <2>3. GcTyped' BY <1>2, <1>5 DEF GcTyped
  <2> QED BY <1>3, <1>5, <2>2, <2>3, QuietStep
<1>6. CASE /\ initialized = 1 /\ mem' = FrameOf(mem)
           /\ gc' = [at |-> IF nextBlockOfSize(q[1]) # 0 THEN "take" ELSE "globals",
                     size |-> q[1], finalize |-> q[2], into |-> r,
                     cur |-> 0, prev |-> 0, words_freed |-> 0]
  <2>1. /\ mem' \in [DOMAIN mem -> WordSet]
        /\ \A a \in DOMAIN mem : a \notin Areas \/ a = HeapVar => mem'[a] = mem[a]
    BY <1>3, <1>4, <1>6, FrameEffect
  <2>2. Quiet BY <1>1, <2>1, OutsideKeeps
  <2>3. GcTyped'
    <3>1. q[1] \in WordSet /\ q[2] \in 0 .. 2
      <4>1. q[1] \in Nat /\ q[1] < 2^WordBits /\ q[2] \in 0 .. 2 BY AllocAssumption DEF AllocConstants
      <4>2. PICK k \in Nat : k = 2^WordBits BY DEF AllocConstants
      <4> QED BY <4>1, <4>2 DEF WordSet
    <3>2. Roots' = Roots BY <1>1 DEF Roots, Local, SavedRbp
    <3>3. gc'.at \in Stages BY <1>6 DEF Stages
    <3>4. gc' \in [at : Stages, size : WordSet, finalize : 0 .. 2, into : Roots,
                   cur : Nat, prev : Nat, words_freed : Int]
      BY <1>6, <3>1, <3>3
    <3> QED BY <1>1, <1>6, <3>2, <3>4 DEF GcTyped, Calls
  <2>4. Unmerged(mem, Blocks) = {} BY <1>1, <1>6 DEF AllocInv, HeapKept
  <2>5. gc'.at = "take" => Usable(mem, Blocks, gc'.size) # {}
    <3>1. gc'.at = "take" => nextBlockOfSize(q[1]) # 0 BY <1>6
    <3>2. gc'.size = q[1] BY <1>6
    <3> QED BY <1>6, <3>1, <3>2, NextBlock
  <2>6. gc'.at # "sweep" /\ gc'.prev = 0 BY <1>6
  <2> QED BY <1>3, <2>2, <2>3, <2>4, <2>5, <2>6, QuietStep
<1> QED BY <1>5, <1>6 DEF memAllocate

\* The info words the allocator writes.
LEMMA Made ==
    ASSUME AllocConstants, NEW s \in 0 .. MARK_BIT - 1
    PROVE  infoMake(0, 0, s) = s /\ infoMake(1, 0, s) = s + ALLOC_BIT
<1>1. PICK k \in Nat \ {0} : k = MARK_BIT BY DEF AllocConstants
<1>2. PICK r \in 0 .. k - 1 : r = s BY <1>1
<1>3. (0 * k + r) % k = r BY Division
<1>4. s % MARK_BIT = s BY <1>1, <1>2, <1>3
<1>5. ALLOC_BIT \in Int /\ MARK_BIT \in Int /\ s \in Int BY DEF AllocConstants
<1> QED BY <1>4, <1>5 DEF infoMake

\* A step after which the heap has the blocks B.
LEMMA HeapStep ==
    ASSUME AllocConstants, AllocInv, initialized = 1,
           mem' \in [DOMAIN mem -> WordSet], mem'[HeapVar] = mem[HeapVar],
           UNCHANGED <<initialized, total_heap_size, depth>>,
           NEW B, Sound(mem', End, B, owed')
    PROVE  MemTyped' /\ ScalarsTyped' /\ Blocks' = B /\ End' = End
<1>1. End' = End BY DEF End
<1>2. DOMAIN mem' = DOMAIN mem OBVIOUS
<1>3. MemTyped' BY <1>1, <1>2 DEF AllocInv, MemTyped, heap
<1>4. ScalarsTyped' BY <1>1 DEF AllocInv, ScalarsTyped
<1>5. Blocks' = B
  <2>1. PICK m : m = mem' OBVIOUS
  <2>2. Tiling(m, End, B) /\ B \subseteq HeapStart .. End - 1 BY <2>1 DEF Sound, Tiling
  <2>3. HeapStart .. End - 1 \subseteq DOMAIN mem BY DEF AllocInv, MemTyped
  <2>4. \A b \in B : m[b] \in WordSet BY <2>1, <2>2, <2>3
  <2>5. \A b \in B : SizeW(m[b]) \in 0 .. MARK_BIT - 1 BY <2>4, InfoParts
  <2>6. \A b \in B : SizeW(m[b]) \in Nat BY <2>5, Places
  <2>7. mem'[HeapVar] = HeapStart BY InvGives DEF heap
  <2>8. total_heap_size' \in Nat /\ initialized' = 1 /\ HeapStart + total_heap_size' = End
    BY DEF AllocInv, ScalarsTyped, End
  <2> QED BY <2>1, <2>2, <2>6, <2>7, <2>8, BlocksNext
<1> QED BY <1>1, <1>3, <1>4, <1>5

\* How a split block and its rest are written.
SplitWritten(m, b, x, i0, i1, n, f, l, r, p) ==
    [[m EXCEPT ![x] = i0, ![x + 1] = n, ![x + 2] = 0, ![b] = i1, ![b + 1] = x, ![b + 2] = f, ![l] = x]
       EXCEPT ![r] = p]

\* What memory is then, for a word i0 of the rest and i1 of the block.
SplitEffect(m, b, x, i0, i1, n, f, new) ==
    /\ new \in [DOMAIN m -> WordSet]
    /\ new[b] = i1 /\ new[b + 1] = x /\ new[b + 2] = f
    /\ new[x] = i0 /\ new[x + 1] = n /\ new[x + 2] = 0
    /\ \A a \in DOMAIN m : (a \notin Areas \/ a = HeapVar)
         /\ a \notin {b, b + 1, b + 2, x, x + 1, x + 2} => new[a] = m[a]

\* They are written so.
LEMMA TakeWrites ==
    ASSUME AllocConstants, NEW m, m \in [DOMAIN m -> WordSet], NEW b \in Nat, NEW x \in Nat,
           NEW l, NEW r, NEW i0 \in WordSet, NEW i1 \in WordSet, NEW f \in WordSet,
           NEW n \in WordSet, NEW p \in WordSet,
           {b, b + 1, b + 2, x, x + 1, x + 2} \subseteq DOMAIN m, x >= b + 3, x \in WordSet,
           l \in Areas, r \in Areas \ {HeapVar}, l # HeapVar, b >= HeapStart,
           NEW new,
           new = SplitWritten(m, b, x, i0, i1, n, f, l, r, p)
    PROVE  SplitEffect(m, b, x, i0, i1, n, f, new)
<1>1. \A a \in Areas : a < HeapStart /\ a \in Nat BY Places
<1>2. HeapStart = 160 /\ 0 \in WordSet BY Places
<1>3. {b, b + 1, b + 2, x, x + 1, x + 2} \intersect {l, r} = {} BY <1>1, <1>2
<1>4. new \in [DOMAIN m -> WordSet] BY <1>2 DEF SplitWritten
<1>5. new[b] = i1 /\ new[b + 1] = x /\ new[b + 2] = f BY <1>3 DEF SplitWritten
<1>6. new[x] = i0 /\ new[x + 1] = n /\ new[x + 2] = 0 BY <1>3 DEF SplitWritten
<1>7. \A a \in DOMAIN m : (a \notin Areas \/ a = HeapVar)
                /\ a \notin {b, b + 1, b + 2, x, x + 1, x + 2} => new[a] = m[a]
  BY DEF SplitWritten
<1> QED BY <1>4, <1>5, <1>6, <1>7 DEF SplitEffect

\* The block that is taken.
LEMMA TakeFacts ==
    ASSUME AllocConstants, AllocInv, gc.at = "take", NEW b, b = nextBlockOfSize(gc.size)
    PROVE  /\ initialized = 1 /\ gc \in Calls /\ gc.into \in Areas \ {HeapVar}
           /\ gc.size \in WordSet /\ gc.finalize \in 0 .. 2 /\ gc.finalize \in WordSet
           /\ b \in Blocks /\ ~AllocW(mem[b]) /\ Unmerged(mem, Blocks) = {}
           /\ b \in Nat /\ b >= HeapStart /\ {b, b + 1, b + 2} \subseteq DOMAIN mem
           /\ Size(b) = SizeW(mem[b]) /\ Size(b) \in 0 .. MARK_BIT - 1 /\ Size(b) \in WordSet
           /\ b + 3 + Size(b) <= End /\ End <= MARK_BIT /\ End \in Int /\ b + 3 \in WordSet
           /\ next(b) = mem[b + 1] /\ next(b) \in WordSet
<1>1. gc \in Calls /\ initialized = 1
  <2>1. gc.at \in Stages BY DEF Stages
  <2> QED BY <2>1, GcKinds DEF AllocInv
<1>2. gc.size \in WordSet /\ gc.finalize \in 0 .. 2 /\ gc.into \in Roots BY <1>1 DEF Calls
<1>3. gc.into \in Areas \ {HeapVar} BY <1>2, InvGives
<1>4. gc.finalize \in WordSet BY <1>2, Places
<1>5. Usable(mem, Blocks, gc.size) # {} /\ Unmerged(mem, Blocks) = {} BY <1>1 DEF AllocInv, HeapKept
<1>6. b \in Usable(mem, Blocks, gc.size) BY <1>1, <1>5, NextBlock
<1>7. b \in Blocks /\ ~AllocW(mem[b]) BY <1>6 DEF Usable
<1>8. /\ b \in Nat /\ b >= HeapStart /\ {b, b + 1, b + 2} \subseteq DOMAIN mem
      /\ SizeW(mem[b]) \in 0 .. MARK_BIT - 1 /\ b + 3 + SizeW(mem[b]) <= End
      /\ End <= MARK_BIT /\ End \in Int /\ mem \in [DOMAIN mem -> WordSet]
  BY <1>1, <1>7, InvGives
<1>9. Size(b) = SizeW(mem[b]) /\ next(b) = mem[b + 1] BY DEF Size, SizeW, info, next
<1>10. next(b) \in WordSet BY <1>8, <1>9
<1>11. Size(b) \in WordSet /\ b + 3 \in WordSet
  <2>1. PICK s : s = Size(b) OBVIOUS
  <2>2. s \in 0 .. MARK_BIT - 1 /\ b + 3 + s <= MARK_BIT /\ MARK_BIT \in Nat
    <3>1. s = SizeW(mem[b]) BY <1>9, <2>1
    <3>2. s \in 0 .. MARK_BIT - 1 /\ b + 3 + s <= End BY <1>8, <3>1
    <3>3. s \in Nat /\ MARK_BIT \in Nat BY <3>2, Places
    <3> QED BY <1>8, <3>2, <3>3
  <2>3. b + 3 \in 0 .. MARK_BIT /\ s \in 0 .. MARK_BIT BY <1>8, <2>2
  <2>4. \A a \in 0 .. MARK_BIT : a \in WordSet BY <2>2, Places
  <2> QED BY <2>1, <2>3, <2>4
<1> QED BY <1>1, <1>2, <1>3, <1>4, <1>5, <1>7, <1>8, <1>9, <1>10, <1>11

\* What the invariant says after a call has returned.
LEMMA TakeEnds ==
    ASSUME AllocConstants, AllocInv, initialized = 1,
           mem' \in [DOMAIN mem -> WordSet], mem'[HeapVar] = mem[HeapVar],
           UNCHANGED <<initialized, total_heap_size, depth>>, gc' = Idle,
           NEW B, Sound(mem', End, B, owed'), Unmerged(mem', B) = {}
    PROVE  AllocInv' /\ (\A C : B \subseteq Blocks \union C => Adds(C))
<1>1. MemTyped' /\ ScalarsTyped' /\ Blocks' = B /\ End' = End BY HeapStep
<1>2. GcTyped' BY DEF GcTyped, Idle
<1>3. gc'.at = "client" BY DEF Idle
<1>4. PICK m : m = mem' OBVIOUS
<1>5. Sound(m, End', Blocks', owed') /\ Unmerged(m, Blocks') = {} BY <1>1, <1>4
<1>6. HeapKept' BY <1>3, <1>4, <1>5 DEF HeapKept
<1> QED BY <1>1, <1>2, <1>6 DEF AllocInv, Adds

\* The calls owed after it.
OwedTaken == OwedWith(owed, gc.finalize)

\* A block is taken as it is.
LEMMA TakeWhole ==
    ASSUME AllocConstants, AllocInv, gc.at = "take", NEW b, b = nextBlockOfSize(gc.size),
           mem' = [[mem EXCEPT ![b] = infoMake(1, 0, Size(b)), ![b + 2] = gc.finalize]
                     EXCEPT ![gc.into] = b + BLOCK_SIZE],
           gc' = Idle, owed' = OwedTaken, UNCHANGED <<initialized, total_heap_size, depth>>
    PROVE  AllocInv' /\ Adds({b + BLOCK_SIZE + gc.size})
<1>1. /\ initialized = 1 /\ gc.into \in Areas \ {HeapVar}
      /\ gc.finalize \in 0 .. 2 /\ gc.finalize \in WordSet
      /\ b \in Blocks /\ ~AllocW(mem[b]) /\ Unmerged(mem, Blocks) = {}
      /\ b \in Nat /\ b >= HeapStart /\ {b, b + 1, b + 2} \subseteq DOMAIN mem
      /\ Size(b) = SizeW(mem[b]) /\ Size(b) \in 0 .. MARK_BIT - 1
      /\ b + 3 \in WordSet /\ End \in Int
  BY TakeFacts
<1>2. PICK s \in 0 .. MARK_BIT - 1 : s = Size(b) BY <1>1
<1>3. PICK w : w = s + ALLOC_BIT OBVIOUS
<1>4. w \in WordSet /\ SizeW(w) = s /\ AllocW(w) /\ infoMake(1, 0, Size(b)) = w
  BY <1>2, <1>3, InfoKinds, Made DEF InfoOf
<1>5. PICK m : m = mem' OBVIOUS
<1>6. PICK r, f : r = gc.into /\ f = gc.finalize OBVIOUS
<1>7. m = [[mem EXCEPT ![b] = w, ![b + 2] = f] EXCEPT ![r] = b + 3]
  BY <1>4, <1>5, <1>6 DEF BLOCK_SIZE
<1>8. \A a \in Areas : a < HeapStart /\ a \in Nat BY Places
<1>9. r \in Areas /\ r # HeapVar /\ r \notin {b, b + 1, b + 2}
  <2>1. r \in Areas /\ r # HeapVar BY <1>1, <1>6
  <2>2. r < HeapStart /\ r \in Nat /\ HeapStart = 160 BY <1>8, <2>1, Places
  <2>3. b >= HeapStart /\ b \in Nat BY <1>1
  <2> QED BY <2>1, <2>2, <2>3
<1>10. mem \in [DOMAIN mem -> WordSet] /\ Areas \subseteq DOMAIN mem BY InvGives
<1>11. m \in [DOMAIN mem -> WordSet] BY <1>1, <1>4, <1>6, <1>7, <1>10
<1>12. m[b] = w /\ m[b + 1] = mem[b + 1] /\ m[b + 2] = f BY <1>1, <1>7, <1>9
<1>13. \A a \in DOMAIN mem : a \notin {b, b + 2, r} => m[a] = mem[a] BY <1>7
<1>14. m[HeapVar] = mem[HeapVar]
  <2>1. HeapVar \in DOMAIN mem /\ HeapVar = 100 /\ HeapStart = 160 BY <1>10, Places
  <2>2. b >= HeapStart /\ b \in Nat BY <1>1
  <2>3. HeapVar \notin {b, b + 2, r} BY <1>9, <2>1, <2>2
  <2> QED BY <1>13, <2>1, <2>3
<1>15. PICK B : B = Blocks OBVIOUS
<1>16. /\ Sized(mem, B) /\ Sound(mem, End, B, owed) /\ Tiling(mem, End, B)
       /\ \A c \in B : c \in Nat /\ c >= HeapStart /\ {c, c + 1, c + 2} \subseteq DOMAIN mem
  BY <1>1, <1>15, InvGives
<1>17. \A c \in B \ {b} : SameHead(mem, m, c)
  <2> SUFFICES ASSUME NEW c \in B \ {b} PROVE SameHead(mem, m, c) OBVIOUS
  <2>1. c \in Nat /\ c >= HeapStart /\ {c, c + 1, c + 2} \subseteq DOMAIN mem BY <1>16
  <2>2. r \notin {c, c + 1, c + 2} BY <1>8, <1>9, <2>1, Places, SMTT(30)
  <2>3. c + 3 <= b \/ b + 3 <= c
    <3>1. /\ \A d \in B : SizeW(mem[d]) \in Nat /\ d \in Nat
          /\ \A d, k \in B : d < k => d + 3 + SizeW(mem[d]) <= k
      BY <1>1, <1>16, TilingGives
    <3>2. b \in B /\ c \in B BY <1>1, <1>15
    <3>3. c < b \/ b < c BY <1>1, <2>1
    <3>4. c < b => c + 3 + SizeW(mem[c]) <= b BY <3>1, <3>2
    <3>5. b < c => b + 3 + SizeW(mem[b]) <= c BY <3>1, <3>2
    <3>6. SizeW(mem[c]) \in Nat /\ SizeW(mem[b]) \in Nat BY <3>1, <3>2
    <3> QED BY <1>1, <2>1, <3>3, <3>4, <3>5, <3>6
  <2>4. {c, c + 1, c + 2} \intersect {b, b + 2} = {} BY <1>1, <2>1, <2>3
  <2>5. m[c] = mem[c] /\ m[c + 1] = mem[c + 1] /\ m[c + 2] = mem[c + 2]
    BY <1>13, <2>1, <2>2, <2>4
  <2> QED BY <2>5 DEF SameHead
<1>18. PICK o : o = OwedWith(owed, f) OBVIOUS
<1>19. Sound(m, End, B, o) /\ Unmerged(m, B) \subseteq Unmerged(mem, B) \ {b}
  <2>1. b \in B /\ SizeW(m[b]) = SizeW(mem[b]) /\ AllocW(m[b]) /\ f \in 0 .. 2
    BY <1>1, <1>2, <1>4, <1>6, <1>12, <1>15
  <2>2. PICK m0, e, o0 : m0 = mem /\ e = End /\ o0 = owed OBVIOUS
  <2>3. /\ Sound(m0, e, B, o0) /\ Sized(m0, B) /\ b \in B /\ ~AllocW(m0[b]) /\ f \in 0 .. 2
        /\ SizeW(m[b]) = SizeW(m0[b]) /\ AllocW(m[b]) /\ m[b + 1] = m0[b + 1] /\ m[b + 2] = f
        /\ \A c \in B \ {b} : SameHead(m0, m, c)
        /\ e \in Int
    BY <1>1, <1>12, <1>16, <1>17, <2>1, <2>2
  <2>4. /\ Sound(m, e, B, OwedWith(o0, f))
        /\ Unmerged(m, B) \subseteq Unmerged(m0, B) \ {b}
    BY <2>3, Allocated
  <2> QED BY <1>18, <2>2, <2>4
<1>20. owed' = o BY <1>6, <1>18 DEF OwedTaken
<1>21. Unmerged(m, B) = {} BY <1>1, <1>15, <1>19
<1>22. PICK N : N = {b + BLOCK_SIZE + gc.size} OBVIOUS
<1>23. B \subseteq Blocks \union N BY <1>15
<1>24. /\ mem' \in [DOMAIN mem -> WordSet] /\ mem'[HeapVar] = mem[HeapVar]
       /\ Sound(mem', End, B, owed') /\ Unmerged(mem', B) = {}
  BY <1>5, <1>11, <1>14, <1>19, <1>20, <1>21
<1>25. AllocInv' /\ \A K : B \subseteq Blocks \union K => Adds(K) BY <1>1, <1>24, TakeEnds
<1>26. Adds(N) BY <1>23, <1>25
<1> QED BY <1>22, <1>25, <1>26

\* A block is split, its first part taken.
LEMMA TakeSplit ==
    ASSUME AllocConstants, AllocInv, gc.at = "take", NEW b, b = nextBlockOfSize(gc.size),
           NEW rest, rest = Size(b) - gc.size, rest >= 4,
           NEW x, x = b + BLOCK_SIZE + gc.size,
           mem' = [[mem EXCEPT ![x] = infoMake(0, 0, Wrap(rest - BLOCK_SIZE)),
                               ![x + 1] = next(b), ![x + 2] = 0,
                               ![b] = infoMake(1, 0, gc.size), ![b + 1] = x,
                               ![b + 2] = gc.finalize,
                               ![Local(depth + 1)] = x]
                     EXCEPT ![gc.into] = b + BLOCK_SIZE],
           gc' = Idle, owed' = OwedTaken, UNCHANGED <<initialized, total_heap_size, depth>>
    PROVE  AllocInv' /\ Adds({b + BLOCK_SIZE + gc.size})
<1>1. /\ initialized = 1 /\ gc.into \in Areas \ {HeapVar} /\ gc.size \in WordSet
      /\ gc.finalize \in 0 .. 2 /\ gc.finalize \in WordSet
      /\ b \in Blocks /\ ~AllocW(mem[b]) /\ Unmerged(mem, Blocks) = {}
      /\ b \in Nat /\ b >= HeapStart /\ {b, b + 1, b + 2} \subseteq DOMAIN mem
      /\ Size(b) = SizeW(mem[b]) /\ Size(b) \in 0 .. MARK_BIT - 1
      /\ b + 3 + Size(b) <= End /\ End <= MARK_BIT
      /\ b + 3 \in WordSet /\ End \in Int /\ next(b) = mem[b + 1] /\ next(b) \in WordSet
  BY TakeFacts
<1>2. PICK s, z : s = Size(b) /\ z = gc.size OBVIOUS
<1>3. /\ z \in Nat /\ s \in Nat /\ rest = s - z /\ rest >= 4 /\ x = b + 3 + z /\ s < MARK_BIT
      /\ MARK_BIT \in Nat /\ WordSet = 0 .. 4 * MARK_BIT - 1
  <2>1. MARK_BIT \in Nat /\ WordSet = 0 .. 4 * MARK_BIT - 1 BY Places
  <2>2. z \in WordSet /\ s \in 0 .. MARK_BIT - 1 BY <1>1, <1>2
  <2>3. rest = s - z /\ x = b + 3 + z BY <1>2 DEF BLOCK_SIZE
  <2>4. z \in Nat /\ s \in Nat /\ s < MARK_BIT BY <2>1, <2>2
  <2> QED BY <2>1, <2>3, <2>4
<1>4. /\ z \in 0 .. MARK_BIT - 1 /\ rest - 3 \in 0 .. MARK_BIT - 1 /\ rest - 3 \in WordSet
      /\ x \in Nat /\ x >= b + 3 /\ x + 3 <= End /\ x \in WordSet /\ x + 3 <= b + 3 + s
  <2>1. b + 3 + s <= End /\ End <= MARK_BIT /\ b \in Nat /\ End \in Int BY <1>1, <1>2
  <2>2. PICK k \in Nat : k = MARK_BIT /\ WordSet = 0 .. 4 * k - 1 BY <1>3
  <2>3. z \in Nat /\ s \in Nat /\ rest = s - z /\ rest >= 4 /\ x = b + 3 + z /\ s < k
    BY <1>3, <2>2
  <2>4. z \in 0 .. k - 1 /\ rest - 3 \in 0 .. k - 1 BY <2>3
  <2>5. x \in Nat /\ x >= b + 3 /\ x + 3 <= b + 3 + s BY <2>1, <2>3
  <2>6. x + 3 <= End /\ x <= k
    <3>1. PICK y \in Int : y = End BY <2>1
    <3>2. b + 3 + s <= y /\ y <= k BY <2>1, <2>2, <3>1
    <3>3. b + 3 + s \in Int /\ x + 3 \in Int BY <2>1, <2>3, <2>5
    <3>4. x + 3 <= y BY <2>2, <2>5, <3>1, <3>2, <3>3
    <3> QED BY <2>2, <2>5, <3>1, <3>2, <3>4
  <2>7. x \in WordSet /\ rest - 3 \in WordSet BY <2>2, <2>4, <2>5, <2>6
  <2> QED BY <2>2, <2>4, <2>5, <2>6, <2>7
<1>5. PICK i0 : i0 = rest - 3 OBVIOUS
<1>6. PICK i1 : i1 = z + ALLOC_BIT OBVIOUS
<1>7. /\ i0 \in WordSet /\ SizeW(i0) = rest - 3 /\ ~AllocW(i0) /\ ~MarkedW(i0)
      /\ infoMake(0, 0, Wrap(rest - BLOCK_SIZE)) = i0
  <2>1. Wrap(rest - 3) = rest - 3 BY <1>3, <1>4, Wraps
  <2> QED BY <1>4, <1>5, <2>1, InfoKinds, Made DEF InfoOf, BLOCK_SIZE
<1>8. i1 \in WordSet /\ SizeW(i1) = z /\ AllocW(i1) /\ infoMake(1, 0, gc.size) = i1
  BY <1>2, <1>4, <1>6, InfoKinds, Made DEF InfoOf
<1>9. SizeW(z) = z /\ ~AllocW(z) /\ ~MarkedW(z) BY <1>4, InfoKinds DEF InfoOf
<1>10. PICK m, M : m = mem' /\ M = mem OBVIOUS
<1>11. PICK r, f, l, n, p, e : /\ r = gc.into /\ f = gc.finalize /\ l = Local(depth + 1)
                               /\ n = mem[b + 1] /\ p = b + 3 /\ e = End
  OBVIOUS
<1>12. m = SplitWritten(M, b, x, i0, i1, n, f, l, r, p)
  BY <1>1, <1>7, <1>8, <1>10, <1>11 DEF BLOCK_SIZE, SplitWritten
<1>13. M \in [DOMAIN M -> WordSet] /\ Areas \subseteq DOMAIN M /\ HeapStart .. e - 1 \subseteq DOMAIN M
  BY <1>1, <1>10, <1>11, InvGives DEF AllocInv, MemTyped
<1>14. {b, b + 1, b + 2, x, x + 1, x + 2} \subseteq DOMAIN M
  <2>1. x \in HeapStart .. e - 1 /\ x + 1 \in HeapStart .. e - 1 /\ x + 2 \in HeapStart .. e - 1
    <3>1. HeapStart = 160 BY Places
    <3> QED BY <1>1, <1>4, <1>11, <3>1
  <2> QED BY <1>1, <1>10, <1>13, <2>1
<1>15. l \in Areas /\ l # HeapVar
  <2>1. depth + 1 \in 1 .. MaxDepth + 1
    BY AllocAssumption DEF AllocInv, ScalarsTyped
  <2> QED BY <1>11, <2>1, Places
<1>16. /\ m \in [DOMAIN M -> WordSet]
       /\ m[b] = i1 /\ m[b + 1] = x /\ m[b + 2] = f
       /\ m[x] = i0 /\ m[x + 1] = n /\ m[x + 2] = 0
       /\ \A a \in DOMAIN M : (a \notin Areas \/ a = HeapVar)
            /\ a \notin {b, b + 1, b + 2, x, x + 1, x + 2} => m[a] = M[a]
  <2>1. /\ n \in WordSet /\ p \in WordSet /\ f \in WordSet /\ r \in Areas \ {HeapVar}
    BY <1>1, <1>11
  <2>2. /\ b \in Nat /\ x \in Nat /\ i0 \in WordSet /\ i1 \in WordSet /\ x >= b + 3
        /\ x \in WordSet /\ b >= HeapStart
    BY <1>1, <1>4, <1>7, <1>8
  <2>3. M \in [DOMAIN M -> WordSet] BY <1>13
  <2>4. SplitEffect(M, b, x, i0, i1, n, f, m)
    BY <1>12, <1>14, <1>15, <2>1, <2>2, <2>3, TakeWrites
  <2> QED BY <2>4 DEF SplitEffect
<1>17. m[HeapVar] = M[HeapVar]
  <2>1. HeapVar \in DOMAIN M /\ HeapVar = 100 /\ HeapStart = 160 BY <1>13, Places
  <2>2. HeapVar \notin {b, b + 1, b + 2, x, x + 1, x + 2} BY <1>1, <1>4, <2>1
  <2> QED BY <1>16, <2>1, <2>2
<1>18. PICK B, o0 : B = Blocks /\ o0 = owed OBVIOUS
<1>19. /\ Sized(M, B) /\ Sound(M, e, B, o0) /\ Tiling(M, e, B) /\ e \in Int
       /\ \A c \in B : c \in Nat /\ c >= HeapStart /\ {c, c + 1, c + 2} \subseteq DOMAIN M
  BY <1>1, <1>10, <1>11, <1>18, InvGives
<1>20. ASSUME NEW c \in B \ {b}
       PROVE  /\ {c, c + 1, c + 2} \intersect {b, b + 1, b + 2, x, x + 1, x + 2} = {}
              /\ {c, c + 1, c + 2} \subseteq DOMAIN M
              /\ {c, c + 1, c + 2} \intersect Areas = {}
  <2>1. c \in Nat /\ c >= HeapStart /\ {c, c + 1, c + 2} \subseteq DOMAIN M BY <1>19
  <2>2. {c, c + 1, c + 2} \intersect Areas = {}
    <3>1. \A a \in Areas : a < HeapStart /\ a \in Nat BY Places
    <3>2. HeapStart = 160 BY Places
    <3> QED BY <2>1, <3>1, <3>2
  <2>3. c + 3 <= b \/ b + 3 + s <= c
    <3>1. /\ \A d \in B : SizeW(M[d]) \in Nat /\ d \in Nat
          /\ \A d, k \in B : d < k => d + 3 + SizeW(M[d]) <= k
      BY <1>19, TilingGives
    <3>2. b \in B /\ c \in B /\ SizeW(M[b]) = s BY <1>1, <1>2, <1>10, <1>18
    <3>3. c < b \/ b < c BY <1>1, <2>1
    <3>4. c < b => c + 3 + SizeW(M[c]) <= b BY <3>1, <3>2
    <3>5. b < c => b + 3 + SizeW(M[b]) <= c BY <3>1, <3>2
    <3>6. PICK k \in Nat : k = SizeW(M[c]) BY <3>1, <3>2
    <3>7. c + 3 + k <= b \/ b + 3 + s <= c BY <3>2, <3>3, <3>4, <3>5, <3>6
    <3> QED BY <1>1, <1>3, <2>1, <3>7
  <2>4. x + 3 <= b + 3 + s BY <1>4
  <2>5. {c, c + 1, c + 2} \intersect {b, b + 1, b + 2, x, x + 1, x + 2} = {}
    BY <1>1, <1>3, <1>4, <2>1, <2>3, <2>4
  <2> QED BY <2>1, <2>2, <2>5
<1> DEFINE split == [a \in DOMAIN M |-> IF a = b THEN z ELSE IF a = b + 1 THEN x
                                       ELSE IF a = x THEN i0 ELSE IF a = x + 1 THEN n
                                       ELSE IF a = x + 2 THEN 0 ELSE M[a]]
<1>21. PICK mid : mid = split OBVIOUS
<1>22. /\ mid[b] = z /\ mid[b + 1] = x /\ mid[x] = i0 /\ mid[x + 1] = n /\ mid[x + 2] = 0
       /\ \A a \in DOMAIN M : a \notin {b, b + 1, x, x + 1, x + 2} => mid[a] = M[a]
  BY <1>1, <1>4, <1>14, <1>21
<1> HIDE DEF split
<1>23. PICK C : C = B \union {x} OBVIOUS
<1>24. /\ Sound(mid, e, C, o0) /\ Sized(mid, C) /\ Unmerged(mid, C) \subseteq {b}
  <2>1. \A c \in B \ {b} : SameHead(M, mid, c)
    <3> SUFFICES ASSUME NEW c \in B \ {b} PROVE SameHead(M, mid, c) OBVIOUS
    <3>1. {c, c + 1, c + 2} \intersect {b, b + 1, b + 2, x, x + 1, x + 2} = {}
          /\ {c, c + 1, c + 2} \subseteq DOMAIN M
      BY <1>20
    <3> QED BY <1>22, <3>1 DEF SameHead
  <2>2. /\ b \in B /\ ~AllocW(M[b]) /\ z + 3 <= SizeW(M[b])
        /\ SizeW(mid[b]) = z /\ ~AllocW(mid[b]) /\ ~MarkedW(mid[b]) /\ mid[b + 1] = x
        /\ SizeW(mid[x]) = SizeW(M[b]) - z - 3 /\ ~AllocW(mid[x]) /\ ~MarkedW(mid[x])
        /\ mid[x + 1] = M[b + 1] /\ Unmerged(M, B) = {}
    <3>1. SizeW(M[b]) = s BY <1>1, <1>2, <1>10
    <3>2. z + 3 <= s /\ rest - 3 = s - z - 3 BY <1>3
    <3> QED BY <1>1, <1>7, <1>9, <1>10, <1>11, <1>18, <1>22, <3>1, <3>2
  <2>3. /\ Sound(mid, e, B \union {x}, o0) /\ Sized(mid, B \union {x})
        /\ Unmerged(M, B) = {} => Unmerged(mid, B \union {x}) \subseteq {b}
    <3>1. Sound(M, e, B, o0) /\ Sized(M, B) /\ e \in Int BY <1>19
    <3>2. z \in Nat /\ x = b + 3 + z BY <1>3
    <3> QED BY <2>1, <2>2, <3>1, <3>2, SplitBlock, SMTT(30)
  <2> QED BY <1>23, <2>2, <2>3
<1>25. Sound(m, e, C, OwedWith(o0, f)) /\ Unmerged(m, C) \subseteq Unmerged(mid, C) \ {b}
  <2>1. \A c \in C \ {b} : SameHead(mid, m, c)
    <3> SUFFICES ASSUME NEW c \in C \ {b} PROVE SameHead(mid, m, c) OBVIOUS
    <3>1. CASE c = x BY <1>16, <1>22, <3>1 DEF SameHead
    <3>2. CASE c \in B \ {b}
      <4>1. /\ {c, c + 1, c + 2} \intersect {b, b + 1, b + 2, x, x + 1, x + 2} = {}
            /\ {c, c + 1, c + 2} \subseteq DOMAIN M
            /\ {c, c + 1, c + 2} \intersect Areas = {}
        BY <1>20, <3>2
      <4>2. \A a \in {c, c + 1, c + 2} : m[a] = M[a] /\ mid[a] = M[a] BY <1>16, <1>22, <4>1
      <4> QED BY <4>2 DEF SameHead
    <3> QED BY <1>23, <3>1, <3>2
  <2>2. /\ b \in C /\ ~AllocW(mid[b]) /\ f \in 0 .. 2
        /\ SizeW(m[b]) = SizeW(mid[b]) /\ AllocW(m[b]) /\ m[b + 1] = mid[b + 1] /\ m[b + 2] = f
    BY <1>1, <1>8, <1>9, <1>11, <1>16, <1>18, <1>22, <1>23
  <2> QED BY <1>19, <1>24, <2>1, <2>2, Allocated
<1>26. Unmerged(m, C) = {} BY <1>24, <1>25, SMTT(30)
<1>27. /\ mem' \in [DOMAIN mem -> WordSet] /\ mem'[HeapVar] = mem[HeapVar]
       /\ Sound(mem', End, C, owed') /\ Unmerged(mem', C) = {}
  <2>1. owed' = OwedWith(o0, f) BY <1>11, <1>18 DEF OwedTaken
  <2> QED BY <1>10, <1>11, <1>16, <1>17, <1>25, <1>26, <2>1
<1>28. PICK N : N = {b + BLOCK_SIZE + gc.size} OBVIOUS
<1>29. C \subseteq Blocks \union N BY <1>18, <1>23, <1>28
<1>30. AllocInv' /\ \A K : C \subseteq Blocks \union K => Adds(K) BY <1>1, <1>27, TakeEnds
<1>31. Adds(N) BY <1>29, <1>30
<1> QED BY <1>28, <1>30, <1>31

\* A block is taken, or what is left of it is split off.
LEMMA TakeKept ==
    ASSUME AllocConstants, AllocInv, take, Size(nextBlockOfSize(gc.size)) >= gc.size
    PROVE  AllocInv' /\ Adds({nextBlockOfSize(gc.size) + BLOCK_SIZE + gc.size})
<1>1. PICK b : b = nextBlockOfSize(gc.size) OBVIOUS
<1>2. gc.at = "take" BY DEF take
<1>3. gc.size \in WordSet /\ Size(b) \in 0 .. MARK_BIT - 1 /\ Size(b) \in WordSet
  BY <1>1, <1>2, TakeFacts
<1>4. PICK s, z : s = Size(b) /\ z = gc.size OBVIOUS
<1>5. s - z \in WordSet /\ s - z \in Int
  <2>1. WordSet = 0 .. 4 * MARK_BIT - 1 /\ MARK_BIT \in Nat BY Places
  <2>2. s \in WordSet /\ z \in WordSet /\ s >= z BY <1>1, <1>3, <1>4
  <2> QED BY <2>1, <2>2
<1>6. PICK rest : rest = s - z OBVIOUS
<1>7. Wrap(Size(b) - gc.size) = rest BY <1>4, <1>5, <1>6, Wraps
<1>8. PICK x : x = b + BLOCK_SIZE + gc.size OBVIOUS
<1>9. owed' = OwedTaken /\ UNCHANGED <<initialized, total_heap_size, depth>>
  BY DEF take, OwedTaken, OwedWith
<1>10. gc' = Idle BY DEF take, Return
<1>11. CASE rest >= BLOCK_SIZE + 1
  <2>1. mem' = [[mem EXCEPT ![x] = infoMake(0, 0, Wrap(rest - BLOCK_SIZE)),
                            ![x + 1] = next(b), ![x + 2] = 0,
                            ![b] = infoMake(1, 0, gc.size), ![b + 1] = x,
                            ![b + 2] = gc.finalize,
                            ![Local(depth + 1)] = x]
                  EXCEPT ![gc.into] = b + BLOCK_SIZE]
    <3>1. ~(rest < BLOCK_SIZE + 1) BY <1>5, <1>6, <1>11 DEF BLOCK_SIZE
    <3> QED BY <1>1, <1>7, <1>8, <3>1 DEF take, Return
  <2>2. rest >= 4 /\ rest = Size(b) - gc.size BY <1>4, <1>6, <1>11 DEF BLOCK_SIZE
  <2> QED BY <1>1, <1>2, <1>8, <1>9, <1>10, <2>1, <2>2, TakeSplit
<1>12. CASE ~(rest >= BLOCK_SIZE + 1)
  <2>1. mem' = [[mem EXCEPT ![b] = infoMake(1, 0, Size(b)), ![b + 2] = gc.finalize]
                  EXCEPT ![gc.into] = b + BLOCK_SIZE]
    BY <1>1, <1>7, <1>12 DEF take, Return
  <2> QED BY <1>1, <1>2, <1>9, <1>10, <2>1, TakeWhole
<1> QED BY <1>11, <1>12
-----------------------------------------------------------------------------
(***************************************************************************)
(* Marking.                                                                *)
(***************************************************************************)
\* The greatest number of a set.
LEMMA MaxIsGreatest ==
    ASSUME NEW n \in Nat, NEW S \in SUBSET (0 .. n), S # {}
    PROVE  Max(S) \in S
<1> DEFINE T == {n - s : s \in S}
<1>1. T \in SUBSET Nat /\ T # {}
  <2>1. \A s \in S : s \in 0 .. n OBVIOUS
  <2>2. \A s \in S : n - s \in Nat BY <2>1
  <2> QED BY <2>2
<1>2. PICK k : k = Min(T) OBVIOUS
<1>3. k \in T /\ \A y \in T : k <= y
  <2> HIDE DEF T
  <2> QED BY <1>1, <1>2, MinIsLeast
<1>4. PICK x \in S : k = n - x BY <1>3
<1>5. \A y \in S : x >= y
  <2> SUFFICES ASSUME NEW y \in S PROVE x >= y OBVIOUS
  <2>1. n - y \in T OBVIOUS
  <2>2. n - x <= n - y BY <1>3, <1>4, <2>1
  <2>3. x \in 0 .. n /\ y \in 0 .. n OBVIOUS
  <2> HIDE DEF T
  <2> QED BY <2>2, <2>3
<1> QED BY <1>5 DEF Max

\* The words that a chase reads are there.
LEMMA RangesThere ==
    ASSUME AllocConstants, AllocInv, FramesKept, initialized = 1
    PROVE  /\ \A x \in Int : inHeapRange(x) \/ inGlobalRange(x) \/ inStackRange(x) => x \in DOMAIN mem
           /\ \A x \in Int : inHeapRange(x) => x \in heap .. heap + total_heap_size - 1
           /\ __data_start .. _end - 1 \subseteq DOMAIN mem
           /\ \A c \in Slots : c \in Areas /\ c \in Nat /\ _stack_top .. c \subseteq DOMAIN mem
           /\ _stack_top \in Nat
<1>1. NumGlobals \in Nat /\ MaxDepth \in Nat \ {0} /\ 3 * MaxDepth + NumGlobals < 47
  BY AllocAssumption DEF AllocConstants
<1>2. Areas \subseteq DOMAIN mem /\ HeapStart .. End - 1 \subseteq DOMAIN mem /\ heap = HeapStart
  BY InvGives DEF AllocInv, MemTyped
<1>3. total_heap_size \in Nat /\ End = heap + total_heap_size /\ HeapStart = 160
  BY <1>2, Places DEF AllocInv, ScalarsTyped, End
<1>4. Areas = (100 .. 102 + NumGlobals) \union (149 - 3 * MaxDepth .. 150)
      /\ __data_start = 100 /\ _end = 103 + NumGlobals
  BY <1>1 DEF Areas, SavedRbp, __data_start, _end, FrameBottomVar
<1>5. \A d \in 1 .. MaxDepth + 1 : SavedRbp(d) = 153 - 3 * d /\ Local(d) = 152 - 3 * d
  BY <1>1 DEF SavedRbp, Local
<1>6. \A c \in Slots : c \in 150 - 3 * MaxDepth .. 150 BY <1>1, <1>5 DEF Slots
<1>7. \A c \in Tops : c \in 149 - 3 * MaxDepth .. 149 BY <1>1, <1>5 DEF Tops
<1>8. _stack_top \in 149 - 3 * MaxDepth .. 149 /\ _frame_bottom \in 150 - 3 * MaxDepth .. 150
  BY <1>6, <1>7 DEF FramesKept
<1>9. \A x \in Int : inHeapRange(x) => x \in heap .. heap + total_heap_size - 1
  BY <1>2, <1>3 DEF inHeapRange
<1>10. \A x \in Int : inHeapRange(x) => x \in DOMAIN mem BY <1>2, <1>3, <1>9
<1>11. \A x \in Int : inGlobalRange(x) => x \in DOMAIN mem BY <1>1, <1>2, <1>4 DEF inGlobalRange
<1>12. \A x \in Int : inStackRange(x) => x \in DOMAIN mem
  <2> SUFFICES ASSUME NEW x \in Int, inStackRange(x) PROVE x \in DOMAIN mem OBVIOUS
  <2>1. PICK t, b : t = _stack_top /\ b = _frame_bottom OBVIOUS
  <2>2. b > x /\ x >= t BY <2>1 DEF inStackRange
  <2>3. x \in 149 - 3 * MaxDepth .. 150 BY <1>1, <1>8, <2>1, <2>2
  <2> QED BY <1>2, <1>4, <2>3
<1>13. __data_start .. _end - 1 \subseteq DOMAIN mem BY <1>1, <1>2, <1>4
<1>14. ASSUME NEW c \in Slots
       PROVE  c \in Areas /\ c \in Nat /\ _stack_top .. c \subseteq DOMAIN mem
  <2>1. PICK t : t = _stack_top OBVIOUS
  <2>2. c \in 150 - 3 * MaxDepth .. 150 /\ t \in 149 - 3 * MaxDepth .. 149 BY <1>6, <1>8, <2>1
  <2>3. c \in Areas /\ c \in Nat BY <1>1, <1>4, <2>2
  <2>4. t .. c \subseteq 149 - 3 * MaxDepth .. 150 BY <1>1, <2>2
  <2> QED BY <1>2, <1>4, <2>1, <2>3, <2>4
<1>15. _stack_top \in Nat BY <1>1, <1>8
<1> QED BY <1>9, <1>10, <1>11, <1>12, <1>13, <1>14, <1>15

\* getBlock returns a block or NULL.
LEMMA GetBlockGives ==
    ASSUME AllocConstants, AllocInv, initialized = 1, NEW x \in Int
    PROVE  BlockIn(Blocks, x) \in Blocks \union {0}
<1> DEFINE before == {b \in Blocks : b < x}
<1>1. /\ heap = HeapStart /\ HeapStart \in Blocks /\ End \in Int
      /\ \A b \in Blocks : b \in Nat /\ b < End
  <2>1. PICK B : B = Blocks OBVIOUS
  <2>2. /\ heap = HeapStart /\ Tiling(mem, End, B) /\ Sized(mem, B) /\ End \in Int
    BY <2>1, InvGives
  <2>3. B \subseteq HeapStart .. End - 1 /\ HeapStart \in B /\ HeapStart = 160
    BY <2>2, Places DEF Tiling
  <2> QED BY <2>1, <2>2, <2>3
<1>2. before # {} => Max(before) \in before
  <2>1. HeapStart \in Nat /\ HeapStart < End BY <1>1
  <2>3. End \in Nat BY <1>1, <2>1
  <2>4. \A b \in Blocks : b \in 0 .. End BY <1>1, <2>3
  <2>2. before \in SUBSET (0 .. End) /\ End \in Nat BY <2>3, <2>4
  <2> HIDE DEF before
  <2> QED BY <2>2, MaxIsGreatest
<1> QED BY <1>1, <1>2 DEF BlockIn

\* What a map from addresses to blocks has to be.
IsBlockMap(blockOf) ==
    \A x \in heap .. heap + total_heap_size - 1 : blockOf[x] \in Blocks \union {0}
AllocatedBlocks == {b \in Blocks : IsAlloc(b)}

\* That of the scans is one.
LEMMA BlockOfMaps ==
    ASSUME AllocConstants, AllocInv, initialized = 1
    PROVE  IsBlockMap(BlockOf)
<1>1. heap \in Int /\ total_heap_size \in Int
  BY InvGives, Places DEF AllocInv, ScalarsTyped
<1> QED BY <1>1, GetBlockGives DEF IsBlockMap, BlockOf

\* A chase that stops does so at 0 or an address of an allocated block, or of none.
LEMMA ChaseGives ==
    ASSUME AllocConstants, AllocInv, FramesKept, initialized = 1, NEW blockOf, IsBlockMap(blockOf),
           NEW w \in WordSet, NEW marked, NEW limited \in BOOLEAN
    PROVE  LET c == Chase(blockOf, w, marked, limited)
           IN c.stopped /\ c.word # 0 => blockOf[c.word] \in AllocatedBlocks \union {0}
<1> DEFINE stops(x) == \/ x = 0
                       \/ /\ inHeapRange(x)
                          /\ blockOf[x] = 0 \/ (IsAlloc(blockOf[x]) /\ blockOf[x] \notin marked)
           step(x) == IF stops(x) THEN x
                      ELSE IF inHeapRange(x) \/ inGlobalRange(x) \/ inStackRange(x) THEN mem[x]
                      ELSE IF limited THEN x ELSE 0
           IsChase(v) == v = [k \in 0 .. ChaseLimit |-> IF k = 0 THEN w ELSE step(v[k - 1])]
           word == CHOOSE v : IsChase(v)
           f == [p \in (1 .. ChaseLimit) \X WordSet |-> step(p[2])]
<1>1. \A x \in WordSet : x \in Int BY Places
<1>2. \A x \in WordSet : step(x) \in WordSet
  <2> SUFFICES ASSUME NEW x \in WordSet PROVE step(x) \in WordSet OBVIOUS
  <2>1. inHeapRange(x) \/ inGlobalRange(x) \/ inStackRange(x) => x \in DOMAIN mem
    BY <1>1, RangesThere
  <2>2. 0 \in WordSet /\ mem \in [DOMAIN mem -> WordSet] BY Places, InvGives
  <2> HIDE DEF stops
  <2> QED BY <2>1, <2>2
<1>3. ChaseLimit \in Nat BY AllocAssumption
<1> HIDE DEF step
<1>4. f \in [(1 .. ChaseLimit) \X WordSet -> WordSet] BY <1>2
<1>5. PICK v \in [0 .. ChaseLimit -> WordSet] : Folds(v, ChaseLimit, w, f)
  <2> HIDE DEF f
  <2> QED BY <1>3, <1>4, FoldExists
<1>6. IsChase(v)
  <2>1. ASSUME NEW k \in 0 .. ChaseLimit PROVE v[k] = IF k = 0 THEN w ELSE step(v[k - 1])
    <3>1. v[k] = IF k = 0 THEN w ELSE f[<<k, v[k - 1]>>] BY <1>5 DEF Folds
    <3>2. k # 0 => k - 1 \in 0 .. ChaseLimit /\ k \in 1 .. ChaseLimit BY <1>3
    <3>3. k # 0 => <<k, v[k - 1]>> \in (1 .. ChaseLimit) \X WordSet BY <1>5, <3>2
    <3>4. k # 0 => f[<<k, v[k - 1]>>] = step(v[k - 1]) BY <3>3
    <3> QED BY <3>1, <3>4
  <2>2. v = [k \in 0 .. ChaseLimit |-> v[k]] BY <1>5
  <2> QED BY <2>1, <2>2
<1>7. IsChase(word) BY <1>6
<1> HIDE DEF word
<1>8. word[ChaseLimit] \in WordSet
  <2> DEFINE T == {k \in Nat : k <= ChaseLimit => word[k] \in WordSet}
  <2>1. \A k \in 0 .. ChaseLimit : word[k] = IF k = 0 THEN w ELSE step(word[k - 1]) BY <1>7
  <2>2. 0 \in T
    <3>1. word[0] = w BY <1>3, <2>1
    <3> QED BY <3>1
  <2>3. ASSUME NEW k \in Nat, k \in T PROVE k + 1 \in T
    <3> SUFFICES ASSUME k + 1 <= ChaseLimit PROVE word[k + 1] \in WordSet OBVIOUS
    <3>1. word[k] \in WordSet BY <1>3, <2>3
    <3>2. k + 1 \in 0 .. ChaseLimit /\ k + 1 # 0 /\ k + 1 - 1 = k BY <1>3
    <3>3. word[k + 1] = step(word[k]) BY <2>1, <3>2
    <3> QED BY <1>2, <3>1, <3>3
  <2> HIDE DEF T
  <2>4. \A k \in Nat : k \in T BY <2>2, <2>3, NatSetInduction
  <2> QED BY <1>3, <2>4 DEF T
<1>9. PICK x \in WordSet : x = word[ChaseLimit] BY <1>8
<1>10. Chase(blockOf, w, marked, limited) = [word |-> x, stopped |-> stops(x)]
  BY <1>9 DEF Chase, word, step
<1>11. ASSUME stops(x), x # 0 PROVE blockOf[x] \in AllocatedBlocks \union {0}
  <2>1. inHeapRange(x) /\ (blockOf[x] = 0 \/ IsAlloc(blockOf[x])) BY <1>11
  <2>2. x \in heap .. heap + total_heap_size - 1 BY <1>1, <2>1, RangesThere
  <2>3. blockOf[x] \in Blocks \union {0} BY <2>2 DEF IsBlockMap
  <2> QED BY <2>1, <2>3 DEF AllocatedBlocks
<1> HIDE DEF stops
<1> QED BY <1>10, <1>11

\* What a scan comes to.
Ends == {"", "hang", "crash", "exit"}
Results == [marked : SUBSET AllocatedBlocks, end : Ends]

\* One word of it.
LEMMA ScanWordGives ==
    ASSUME AllocConstants, AllocInv, FramesKept, initialized = 1, NEW blockOf, IsBlockMap(blockOf),
           NEW acc \in Results, NEW w \in WordSet, NEW limited \in BOOLEAN
    PROVE  ScanWord(blockOf, acc, w, limited) \in Results
<1>1. PICK c : c = Chase(blockOf, w, acc.marked, limited) OBVIOUS
<1>2. c.stopped /\ c.word # 0 => blockOf[c.word] \in AllocatedBlocks \union {0}
  BY <1>1, ChaseGives
<1>3. ScanWord(blockOf, acc, w, limited) =
        CASE acc.end # ""               -> acc
          [] ~c.stopped                 -> IF limited THEN acc ELSE [acc EXCEPT !.end = "hang"]
          [] c.stopped /\ c.word = 0    -> acc
          [] blockOf[c.word] = 0        -> [acc EXCEPT !.end = IF limited THEN "crash" ELSE "exit"]
          [] OTHER                      -> [acc EXCEPT !.marked = @ \union {blockOf[c.word]}]
  BY <1>1 DEF ScanWord
<1>4. /\ \A e \in Ends : [acc EXCEPT !.end = e] \in Results
      /\ \A b \in AllocatedBlocks : [acc EXCEPT !.marked = @ \union {b}] \in Results
  BY DEF Results
<1>5. "hang" \in Ends /\ "crash" \in Ends /\ "exit" \in Ends BY DEF Ends
<1>6. PICK x : x = c.word OBVIOUS
<1>7. PICK h : h = [acc EXCEPT !.end = "hang"] OBVIOUS
<1>8. PICK g : g = [acc EXCEPT !.end = IF limited THEN "crash" ELSE "exit"] OBVIOUS
<1>9. PICK m : m = [acc EXCEPT !.marked = @ \union {blockOf[x]}] OBVIOUS
<1>10. h \in Results /\ g \in Results BY <1>4, <1>5, <1>7, <1>8
<1>11. c.stopped /\ x # 0 /\ blockOf[x] # 0 => m \in Results
  <2> SUFFICES ASSUME c.stopped, x # 0, blockOf[x] # 0 PROVE m \in Results OBVIOUS
  <2>1. blockOf[x] \in AllocatedBlocks BY <1>2, <1>6
  <2> QED BY <1>4, <1>9, <2>1
<1>12. ScanWord(blockOf, acc, w, limited) =
        CASE acc.end # ""         -> acc
          [] ~c.stopped           -> IF limited THEN acc ELSE h
          [] c.stopped /\ x = 0   -> acc
          [] blockOf[x] = 0       -> g
          [] OTHER                -> m
  BY <1>3, <1>6, <1>7, <1>8, <1>9
<1> QED BY <1>10, <1>11, <1>12

\* The whole scan.
LEMMA ScanGives ==
    ASSUME AllocConstants, AllocInv, FramesKept, initialized = 1,
           NEW addresses \in Seq(DOMAIN mem), NEW ignored, NEW limited \in BOOLEAN
    PROVE  Scan(addresses, ignored, limited) \in Results
<1> DEFINE n == Len(addresses)
           blockOf == BlockOf
           first == [marked |-> Marked, end |-> ""]
           step(k, acc) == IF mem[addresses[k]] \in ignored THEN acc
                           ELSE ScanWord(blockOf, acc, mem[addresses[k]], limited)
           IsScan(v) == v = [k \in 0 .. n |-> IF k = 0 THEN first ELSE step(k, v[k - 1])]
           result == CHOOSE v : IsScan(v)
           f == [p \in (1 .. n) \X Results |-> step(p[1], p[2])]
<1>1. n \in Nat /\ \A k \in 1 .. n : addresses[k] \in DOMAIN mem OBVIOUS
<1>2. first \in Results
  <2>1. PICK B : B = Blocks OBVIOUS
  <2>2. \A b \in B : MarkedW(mem[b]) => AllocW(mem[b]) BY <2>1, InvGives DEF Sound
  <2>3. Marked \subseteq AllocatedBlocks
    BY <2>1, <2>2 DEF Marked, AllocatedBlocks, IsMarked, IsAlloc, info, MarkedW, AllocW
  <2> QED BY <2>3 DEF Results, Ends
<1>3. IsBlockMap(blockOf) BY BlockOfMaps
<1> HIDE DEF n, blockOf, first
<1>4. \A k \in 1 .. n : \A acc \in Results : step(k, acc) \in Results
  <2> SUFFICES ASSUME NEW k \in 1 .. n, NEW acc \in Results PROVE step(k, acc) \in Results
    OBVIOUS
  <2>1. mem[addresses[k]] \in WordSet BY <1>1, InvGives
  <2>2. ScanWord(blockOf, acc, mem[addresses[k]], limited) \in Results BY <1>3, <2>1, ScanWordGives
  <2> QED BY <2>2
<1> HIDE DEF step
<1>5. f \in [(1 .. n) \X Results -> Results]
  <2>1. \A p \in (1 .. n) \X Results : p[1] \in 1 .. n /\ p[2] \in Results OBVIOUS
  <2> QED BY <1>4, <2>1
<1>6. PICK v \in [0 .. n -> Results] : Folds(v, n, first, f)
  <2> HIDE DEF f
  <2> QED BY <1>1, <1>2, <1>5, FoldExists
<1>7. IsScan(v)
  <2>1. ASSUME NEW k \in 0 .. n PROVE v[k] = IF k = 0 THEN first ELSE step(k, v[k - 1])
    <3>1. v[k] = IF k = 0 THEN first ELSE f[<<k, v[k - 1]>>] BY <1>6 DEF Folds
    <3>2. k # 0 => k - 1 \in 0 .. n /\ k \in 1 .. n BY <1>1
    <3>3. k # 0 => <<k, v[k - 1]>> \in (1 .. n) \X Results BY <1>6, <3>2
    <3>4. k # 0 => f[<<k, v[k - 1]>>] = step(k, v[k - 1]) BY <3>3
    <3> QED BY <3>1, <3>4
  <2>2. v = [k \in 0 .. n |-> v[k]] BY <1>6
  <2> QED BY <2>1, <2>2
<1>8. IsScan(result) BY <1>7
<1> HIDE DEF result
<1>9. result[n] \in Results
  <2> DEFINE T == {k \in Nat : k <= n => result[k] \in Results}
  <2>1. \A k \in 0 .. n : result[k] = IF k = 0 THEN first ELSE step(k, result[k - 1]) BY <1>8
  <2>2. 0 \in T
    <3>1. result[0] = first BY <1>1, <2>1
    <3> QED BY <1>2, <3>1
  <2>3. ASSUME NEW k \in Nat, k \in T PROVE k + 1 \in T
    <3> SUFFICES ASSUME k + 1 <= n PROVE result[k + 1] \in Results OBVIOUS
    <3>1. result[k] \in Results BY <1>1, <2>3
    <3>2. k + 1 \in 0 .. n /\ k + 1 # 0 /\ k + 1 - 1 = k /\ k + 1 \in 1 .. n BY <1>1
    <3>3. result[k + 1] = step(k + 1, result[k]) BY <2>1, <3>2
    <3> QED BY <1>4, <3>1, <3>2, <3>3
  <2> HIDE DEF T
  <2>4. \A k \in Nat : k \in T BY <2>2, <2>3, NatSetInduction
  <2> QED BY <1>1, <2>4 DEF T
<1>10. Scan(addresses, ignored, limited) = result[n]
  BY DEF Scan, result, step, first, blockOf, n
<1> QED BY <1>9, <1>10

\* The addresses from low to high.
LEMMA AddressesIn ==
    ASSUME NEW low \in Int, NEW high \in Int, NEW D, low .. high \subseteq D
    PROVE  Addresses(low, high) \in Seq(D)
<1>1. \A k \in 1 .. high - low + 1 : low + k - 1 \in D
  <2> SUFFICES ASSUME NEW k \in 1 .. high - low + 1 PROVE low + k - 1 \in low .. high OBVIOUS
  <2> QED OBVIOUS
<1>2. CASE high - low + 1 >= 0
  <2>1. PICK n \in Nat : n = high - low + 1 BY <1>2
  <2> QED BY <1>1, <2>1 DEF Addresses
<1>3. CASE high - low + 1 < 0
  <2>1. 1 .. high - low + 1 = 1 .. 0 BY <1>3
  <2> QED BY <2>1 DEF Addresses
<1> QED BY <1>2, <1>3

\* Sequences one after the other.
LEMMA FlattenIn ==
    ASSUME NEW D, NEW s, s \in Seq(Seq(D))
    PROVE  FlattenSeq(s) \in Seq(D)
<1>1. Len(s) \in Nat /\ \A i \in 1 .. Len(s) : s[i] \in Seq(D) OBVIOUS
<1>2. CASE Len(s) = 0
  <2>1. s = <<>> BY <1>2
  <2> QED BY <1>2, <2>1 DEF FlattenSeq
<1>3. CASE Len(s) # 0
  <2>1. PICK n : n = Len(s) OBVIOUS
  <2> DEFINE S == Seq(D)
             IsFlat(v) == v = [i \in 1 .. n |-> IF i = 1 THEN s[i] ELSE v[i - 1] \o s[i]]
             flatten == CHOOSE v : IsFlat(v)
             f == [p \in (1 .. n - 1) \X S |-> p[2] \o s[p[1] + 1]]
  <2>2. n \in Nat /\ n - 1 \in Nat /\ s[1] \in S /\ \A i \in 1 .. n : s[i] \in S BY <1>1, <1>3, <2>1
  <2>3. \A u, v \in S : u \o v \in S OBVIOUS
  <2> HIDE DEF S
  <2>4. f \in [(1 .. n - 1) \X S -> S]
    <3>1. \A p \in (1 .. n - 1) \X S : p[2] \in S /\ p[1] + 1 \in 1 .. n BY <2>2
    <3> QED BY <2>2, <2>3, <3>1
  <2>5. PICK c \in [0 .. n - 1 -> S] : Folds(c, n - 1, s[1], f)
    <3> HIDE DEF f
    <3>1. PICK k \in Nat : k = n - 1 BY <2>2
    <3> QED BY <2>2, <2>4, <3>1, FoldExists
  <2> DEFINE d == [i \in 1 .. n |-> c[i - 1]]
  <2>6. IsFlat(d)
    <3>1. ASSUME NEW i \in 1 .. n PROVE d[i] = IF i = 1 THEN s[i] ELSE d[i - 1] \o s[i]
      <4>1. i - 1 \in 0 .. n - 1 /\ d[i] = c[i - 1] BY <2>2, SMTT(30)
      <4>2. c[i - 1] = IF i - 1 = 0 THEN s[1] ELSE f[<<i - 1, c[i - 1 - 1]>>] BY <2>5, <4>1 DEF Folds
      <4>3. CASE i = 1
        <5>1. i - 1 = 0 BY <4>3
        <5> HIDE DEF d, f
        <5> QED BY <4>1, <4>2, <4>3, <5>1
      <4>4. CASE i # 1
        <5>1. i - 1 \in 1 .. n - 1 /\ i - 1 - 1 \in 0 .. n - 1 /\ i - 1 \in 1 .. n /\ i - 1 + 1 = i
          BY <2>2, <4>4
        <5>2. d[i - 1] = c[i - 1 - 1] /\ c[i - 1 - 1] \in S BY <2>5, <5>1
        <5>3. <<i - 1, c[i - 1 - 1]>> \in (1 .. n - 1) \X S BY <5>1, <5>2
        <5>4. f[<<i - 1, c[i - 1 - 1]>>] = c[i - 1 - 1] \o s[i] BY <5>1, <5>3
        <5>5. i - 1 # 0 BY <5>1
        <5> HIDE DEF d, f
        <5>6. d[i] = f[<<i - 1, c[i - 1 - 1]>>] BY <4>1, <4>2, <5>5
        <5>7. d[i] = c[i - 1 - 1] \o s[i] BY <5>4, <5>6
        <5>8. d[i] = d[i - 1] \o s[i] BY <5>2, <5>7
        <5> QED BY <4>4, <5>8
      <4> HIDE DEF d, f
      <4> QED BY <4>3, <4>4
    <3>2. d = [i \in 1 .. n |-> d[i]] BY SMTT(30)
    <3> HIDE DEF d
    <3> QED BY <3>1, <3>2
  <2>7. IsFlat(flatten) BY <2>6
  <2> HIDE DEF flatten
  <2> DEFINE T == {k \in Nat : k + 1 <= n => flatten[k + 1] \in S}
  <2>8. \A i \in 1 .. n : flatten[i] = IF i = 1 THEN s[i] ELSE flatten[i - 1] \o s[i] BY <2>7
  <2>9. 0 \in T
    <3>1. 1 \in 1 .. n BY <1>3, <2>1, <2>2
    <3>2. flatten[1] = s[1] BY <2>8, <3>1
    <3> QED BY <2>2, <3>2
  <2>10. ASSUME NEW k \in Nat, k \in T PROVE k + 1 \in T
    <3> SUFFICES ASSUME k + 2 <= n PROVE flatten[k + 2] \in S BY <2>2
    <3>1. flatten[k + 1] \in S BY <2>2, <2>10
    <3>2. PICK j : j = k + 2 OBVIOUS
    <3>3. j \in 1 .. n /\ j # 1 /\ j - 1 = k + 1 BY <2>2, <3>2
    <3>4. flatten[j] = flatten[j - 1] \o s[j] BY <2>8, <3>3
    <3> QED BY <2>2, <2>3, <3>1, <3>2, <3>3, <3>4
  <2>11. n - 1 \in T
    <3> HIDE DEF T
    <3> QED BY <2>2, <2>9, <2>10, NatSetInduction
  <2>12. flatten[n] \in S
    <3>1. n - 1 + 1 = n BY <2>2
    <3> QED BY <2>2, <2>11, <3>1
  <2>13. FlattenSeq(s) = flatten[n] BY <1>3, <2>1 DEF FlattenSeq, flatten
  <2> QED BY <2>12, <2>13 DEF S
<1> QED BY <1>2, <1>3

\* The chain of frames stays in the stack.
LEMMA LastFrameThere ==
    ASSUME AllocConstants, AllocInv, FramesKept, initialized = 1
    PROVE  LastFrame \in Slots
<1> DEFINE n == MaxDepth + 1
           step(x) == IF mem[x] > x THEN mem[x] ELSE x
           IsChain(v) == v = [k \in 0 .. n |-> IF k = 0 THEN _frame_bottom ELSE step(v[k - 1])]
           f == [p \in (1 .. n) \X Slots |-> step(p[2])]
<1>1. n \in Nat BY AllocAssumption
<1>2. _frame_bottom \in Slots BY DEF FramesKept
<1>3. \A x \in Slots : step(x) \in Slots
  <2> SUFFICES ASSUME NEW x \in Slots PROVE step(x) \in Slots OBVIOUS
  <2>1. x \in Nat BY RangesThere
  <2>2. mem[x] \in Slots \union {0} BY DEF FramesKept
  <2>3. mem[x] > x => mem[x] # 0 BY <2>1
  <2> QED BY <2>2, <2>3
<1> HIDE DEF n, step
<1>4. f \in [(1 .. n) \X Slots -> Slots]
  <2>1. \A p \in (1 .. n) \X Slots : p[2] \in Slots OBVIOUS
  <2> QED BY <1>3, <2>1
<1>5. PICK v \in [0 .. n -> Slots] : Folds(v, n, _frame_bottom, f)
  <2> HIDE DEF f
  <2> QED BY <1>1, <1>2, <1>4, FoldExists
<1>6. IsChain(v)
  <2>1. ASSUME NEW k \in 0 .. n PROVE v[k] = IF k = 0 THEN _frame_bottom ELSE step(v[k - 1])
    <3>1. v[k] = IF k = 0 THEN _frame_bottom ELSE f[<<k, v[k - 1]>>] BY <1>5 DEF Folds
    <3>2. k # 0 => k - 1 \in 0 .. n /\ k \in 1 .. n BY <1>1
    <3>3. k # 0 => <<k, v[k - 1]>> \in (1 .. n) \X Slots BY <1>5, <3>2
    <3>4. k # 0 => f[<<k, v[k - 1]>>] = step(v[k - 1]) BY <3>3
    <3> QED BY <3>1, <3>4
  <2>2. v = [k \in 0 .. n |-> v[k]] BY <1>5
  <2> QED BY <2>1, <2>2
<1>7. FrameAt = CHOOSE u : IsChain(u) BY DEF FrameAt, step, n
<1>8. IsChain(FrameAt) BY <1>6, <1>7
<1>9. PICK g : g = FrameAt OBVIOUS
<1>10. \A k \in 0 .. n : g[k] = IF k = 0 THEN _frame_bottom ELSE step(g[k - 1]) BY <1>8, <1>9
<1> DEFINE T == {k \in Nat : k <= n => g[k] \in Slots}
<1>11. 0 \in T
  <2>1. g[0] = _frame_bottom BY <1>1, <1>10
  <2> QED BY <1>2, <2>1
<1>12. ASSUME NEW k \in Nat, k \in T PROVE k + 1 \in T
  <2> SUFFICES ASSUME k + 1 <= n PROVE g[k + 1] \in Slots OBVIOUS
  <2>1. g[k] \in Slots BY <1>1, <1>12
  <2>2. k + 1 \in 0 .. n /\ k + 1 # 0 /\ k + 1 - 1 = k BY <1>1
  <2>3. g[k + 1] = step(g[k]) BY <1>10, <2>2
  <2> QED BY <1>3, <2>1, <2>3
<1>13. n \in T
  <2> HIDE DEF T
  <2> QED BY <1>1, <1>11, <1>12, NatSetInduction
<1>14. g[n] \in Slots BY <1>1, <1>13
<1> QED BY <1>9, <1>14 DEF LastFrame, n

\* What the three scans search.
LEMMA SearchedThere ==
    ASSUME AllocConstants, AllocInv, FramesKept, initialized = 1
    PROVE  /\ Addresses(__data_start, _end - 1) \in Seq(DOMAIN mem)
           /\ Addresses(_stack_top, LastFrame) \in Seq(DOMAIN mem)
           /\ AllData \in Seq(DOMAIN mem)
<1>1. Addresses(__data_start, _end - 1) \in Seq(DOMAIN mem)
  <2>1. __data_start \in Int /\ _end - 1 \in Int
    BY AllocAssumption DEF __data_start, _end, FrameBottomVar
  <2>2. __data_start .. _end - 1 \subseteq DOMAIN mem BY RangesThere
  <2> QED BY <2>1, <2>2, AddressesIn
<1>2. Addresses(_stack_top, LastFrame) \in Seq(DOMAIN mem)
  <2>1. PICK low, high : low = _stack_top /\ high = LastFrame OBVIOUS
  <2>2. low \in Int /\ high \in Int /\ low .. high \subseteq DOMAIN mem
    BY <2>1, LastFrameThere, RangesThere
  <2> QED BY <2>1, <2>2, AddressesIn
<1>3. AllData \in Seq(DOMAIN mem)
  <2>1. PICK l \in Seq(Blocks) : l = BlockList BY InvGives
  <2>2. ASSUME NEW b \in Blocks PROVE DataOf(b) \in Seq(DOMAIN mem)
    <3>1. /\ b \in Nat /\ b >= HeapStart /\ SizeW(mem[b]) \in 0 .. MARK_BIT - 1
          /\ b + 3 + SizeW(mem[b]) <= End /\ End \in Int
      BY InvGives
    <3>2. PICK s : s = Size(b) OBVIOUS
    <3>3. s = SizeW(mem[b]) BY <3>2 DEF Size, SizeW, info
    <3>4. s \in Nat /\ HeapStart = 160 BY <3>1, <3>3, Places
    <3>5. PICK low, high : low = b + 3 /\ high = b + 3 + s - 1 OBVIOUS
    <3>6. low \in Int /\ high \in Int /\ low >= HeapStart /\ high <= End - 1
      BY <3>1, <3>3, <3>4, <3>5
    <3>7. low .. high \subseteq HeapStart .. End - 1 BY <3>1, <3>4, <3>6
    <3>8. low .. high \subseteq DOMAIN mem BY <3>7 DEF AllocInv, MemTyped
    <3>9. DataOf(b) = Addresses(low, high) BY <3>2, <3>5 DEF DataOf, BLOCK_SIZE
    <3> QED BY <3>6, <3>8, <3>9, AddressesIn
  <2>3. PICK s : s = [k \in DOMAIN l |-> DataOf(l[k])] OBVIOUS
  <2>4. s \in Seq(Seq(DOMAIN mem))
    <3>1. DOMAIN l = 1 .. Len(l) /\ Len(l) \in Nat /\ \A k \in DOMAIN l : l[k] \in Blocks BY <2>1
    <3>2. \A k \in 1 .. Len(l) : s[k] \in Seq(DOMAIN mem) BY <2>2, <2>3, <3>1
    <3>3. s = [k \in 1 .. Len(l) |-> s[k]] BY <2>3, <3>1
    <3> QED BY <3>1, <3>2, <3>3
  <2>5. FlattenSeq(s) \in Seq(DOMAIN mem) BY <2>4, FlattenIn
  <2> QED BY <2>1, <2>3, <2>5 DEF AllData
<1> QED BY <1>1, <1>2, <1>3

\* Blocks lie apart.
LEMMA BlocksApart ==
    ASSUME AllocConstants, AllocInv, initialized = 1, NEW b \in Blocks, NEW c \in Blocks, b # c
    PROVE  /\ c + 3 + SizeW(mem[c]) <= b \/ b + 3 + SizeW(mem[b]) <= c
           /\ {c, c + 1, c + 2} \intersect {b, b + 1, b + 2} = {}
<1>1. PICK B : B = Blocks OBVIOUS
<1>2. /\ \A d \in B : SizeW(mem[d]) \in Nat /\ d \in Nat
      /\ \A d, k \in B : d < k => d + 3 + SizeW(mem[d]) <= k
  <2>1. Tiling(mem, End, B) /\ Sized(mem, B) /\ End \in Int BY <1>1, InvGives
  <2> QED BY <2>1, TilingGives
<1>3. b \in B /\ c \in B BY <1>1
<1>4. c < b \/ b < c BY <1>2, <1>3
<1>5. c < b => c + 3 + SizeW(mem[c]) <= b BY <1>2, <1>3
<1>6. b < c => b + 3 + SizeW(mem[b]) <= c BY <1>2, <1>3
<1>7. PICK s \in Nat : s = SizeW(mem[b]) BY <1>2, <1>3
<1>8. PICK t \in Nat : t = SizeW(mem[c]) BY <1>2, <1>3
<1>9. c + 3 + t <= b \/ b + 3 + s <= c BY <1>4, <1>5, <1>6, <1>7, <1>8
<1>10. b \in Nat /\ c \in Nat BY <1>2, <1>3
<1>11. {c, c + 1, c + 2} \intersect {b, b + 1, b + 2} = {} BY <1>9, <1>10
<1> QED BY <1>7, <1>8, <1>9, <1>11

\* Setting marks of allocated blocks.
LEMMA MarksQuiet ==
    ASSUME AllocConstants, AllocInv, initialized = 1, NEW marked \in SUBSET AllocatedBlocks,
           SetMarks(marked), UNCHANGED <<initialized, total_heap_size, owed>>
    PROVE  Quiet /\ \A a \in Areas : mem'[a] = mem[a]
<1> DEFINE new == marked \ Marked
<1>1. mem' = [a \in DOMAIN mem |-> IF a \in new THEN mem[a] + MARK_BIT ELSE mem[a]]
  BY DEF SetMarks
<1>2. ASSUME NEW b \in new
      PROVE  b \in Blocks /\ AllocW(mem[b]) /\ ~MarkedW(mem[b])
  BY DEF AllocatedBlocks, Marked, IsMarked, IsAlloc, info, MarkedW, AllocW
<1> HIDE DEF new
<1>3. mem \in [DOMAIN mem -> WordSet] /\ Areas \subseteq DOMAIN mem BY InvGives
<1>4. \A b \in Blocks : /\ b \in Nat /\ b >= HeapStart /\ {b, b + 1, b + 2} \subseteq DOMAIN mem
                        /\ MarkedW(mem[b]) => AllocW(mem[b])
  <2>1. PICK B : B = Blocks OBVIOUS
  <2>2. \A b \in B : MarkedW(mem[b]) => AllocW(mem[b]) BY <2>1, InvGives DEF Sound
  <2> QED BY <2>1, <2>2, InvGives
<1>5. \A a \in Areas : a \notin new
  <2>1. \A a \in Areas : a \in Nat /\ a < HeapStart BY Places
  <2> QED BY <1>2, <1>4, <2>1, Places
<1>6. \A a \in Areas : mem'[a] = mem[a] BY <1>1, <1>3, <1>5
<1>7. ASSUME NEW b \in new PROVE InfoOf(mem[b] + MARK_BIT, AllocW(mem[b]), TRUE, SizeW(mem[b]))
  <2>1. mem[b] \in WordSet /\ ~MarkedW(mem[b]) BY <1>2, <1>3, <1>4
  <2> QED BY <2>1, InfoMarks
<1>8. mem' \in [DOMAIN mem -> WordSet]
  <2>1. \A b \in new : mem[b] + MARK_BIT \in WordSet BY <1>7 DEF InfoOf
  <2> QED BY <1>1, <1>3, <2>1
<1>9. ASSUME NEW b \in Blocks PROVE Keeps(b)
  <2>1. b \in Nat /\ {b, b + 1, b + 2} \subseteq DOMAIN mem BY <1>4
  <2>2. b + 1 \notin new /\ b + 2 \notin new
    <3> SUFFICES ASSUME NEW c \in Blocks PROVE c # b + 1 /\ c # b + 2 BY <1>2
    <3>1. CASE c = b BY <2>1, <3>1
    <3>2. CASE c # b
      <4>1. {c, c + 1, c + 2} \intersect {b, b + 1, b + 2} = {} BY <3>2, BlocksApart
      <4>2. c \in {c, c + 1, c + 2} /\ b + 1 \in {b, b + 1, b + 2} /\ b + 2 \in {b, b + 1, b + 2}
        OBVIOUS
      <4> QED BY <4>1, <4>2
    <3> QED BY <3>1, <3>2
  <2>3. mem'[b + 1] = mem[b + 1] /\ mem'[b + 2] = mem[b + 2] BY <1>1, <2>1, <2>2
  <2>4. CASE b \in new
    <3>1. mem'[b] = mem[b] + MARK_BIT BY <1>1, <2>1, <2>4
    <3>2. InfoOf(mem'[b], AllocW(mem[b]), TRUE, SizeW(mem[b])) BY <1>7, <2>4, <3>1
    <3> QED BY <1>2, <2>3, <2>4, <3>2 DEF Keeps, InfoOf
  <2>5. CASE b \notin new
    <3>1. mem'[b] = mem[b] BY <1>1, <2>1, <2>5
    <3> QED BY <1>4, <2>3, <3>1 DEF Keeps
  <2> QED BY <2>4, <2>5
<1>10. mem'[HeapVar] = mem[HeapVar] BY <1>6, Places
<1> QED BY <1>6, <1>8, <1>9, <1>10 DEF Quiet

\* The words that hold the frames.
FrameWords == Slots \union {StackTopVar, FrameBottomVar}

\* None of them is a variable of the client, or in the heap.
LEMMA FrameWordsApart ==
    ASSUME AllocConstants, AllocInv
    PROVE  /\ FrameWords \subseteq Areas \ {HeapVar}
           /\ \A r \in Roots : r \notin FrameWords
           /\ \A d \in 1 .. MaxDepth + 1 : Local(d) \notin FrameWords
           /\ \A a \in FrameWords : a \in Nat /\ a < HeapStart
<1>1. NumGlobals \in Nat /\ MaxDepth \in Nat \ {0} /\ 3 * MaxDepth + NumGlobals < 47
  BY AllocAssumption DEF AllocConstants
<1>2. StackTopVar = 101 /\ FrameBottomVar = 102 /\ ClientGlobals = 103 .. 102 + NumGlobals
  BY DEF StackTopVar, FrameBottomVar, __data_start, ClientGlobals
<1>3. \A d \in 1 .. MaxDepth + 1 : SavedRbp(d) = 153 - 3 * d /\ Local(d) = 152 - 3 * d
  BY <1>1 DEF SavedRbp, Local
<1>4. FrameWords \subseteq Areas \ {HeapVar} BY Places DEF FrameWords, Slots
<1>5. ASSUME NEW d \in 1 .. MaxDepth + 1 PROVE Local(d) \notin FrameWords
  <2>1. Local(d) = 152 - 3 * d /\ Local(d) > 102 BY <1>1, <1>3
  <2>2. \A c \in 1 .. MaxDepth + 1 : SavedRbp(c) # Local(d) BY <1>1, <1>3
  <2> QED BY <1>2, <2>1, <2>2 DEF FrameWords, Slots
<1>6. ASSUME NEW r \in ClientGlobals PROVE r \notin FrameWords
  <2>1. r > 102 /\ r <= 102 + NumGlobals /\ r \in Int BY <1>1, <1>2
  <2>2. \A c \in 1 .. MaxDepth + 1 : SavedRbp(c) > 102 + NumGlobals /\ SavedRbp(c) \in Int
    BY <1>1, <1>3
  <2>3. \A c \in 1 .. MaxDepth + 1 : SavedRbp(c) # r BY <1>1, <2>1, <2>2
  <2>4. r \notin Slots BY <2>3 DEF Slots
  <2> QED BY <1>2, <2>1, <2>4 DEF FrameWords
<1>7. depth \in 1 .. MaxDepth + 1 BY <1>1 DEF AllocInv, ScalarsTyped
<1>8. \A a \in FrameWords : a \in Nat /\ a < HeapStart BY <1>4, Places
<1> QED BY <1>4, <1>5, <1>6, <1>7, <1>8 DEF Roots

\* They stay as they are.
LEMMA FramesSame ==
    ASSUME FramesKept, \A a \in FrameWords : mem'[a] = mem[a], initialized' = initialized
    PROVE  FramesKept'
<1>1. \A a \in Slots : mem'[a] = mem[a] BY DEF FrameWords
<1>2. mem'[StackTopVar] = mem[StackTopVar] /\ mem'[FrameBottomVar] = mem[FrameBottomVar]
  BY DEF FrameWords
<1> QED BY <1>1, <1>2 DEF FramesKept, _stack_top, _frame_bottom

\* The two scans that stop.
LEMMA ContinueKept ==
    ASSUME AllocConstants, AllocInv, FramesKept, gc.at \in {"globals", "stack"},
           NEW acc \in Results, NEW at \in {"stack", "heap"}, Continue(acc, at)
    PROVE  AllocInv' /\ FramesKept' /\ Adds({})
<1>1. gc \in Calls /\ initialized = 1
  <2>1. gc.at \in Stages BY DEF Stages
  <2> QED BY <2>1, GcKinds DEF AllocInv
<1>2. acc.marked \in SUBSET AllocatedBlocks /\ acc.end \in Ends BY DEF Results
<1>3. UNCHANGED <<initialized, total_heap_size, depth, owed>> /\ SetMarks(acc.marked)
  BY DEF Continue
<1>4. Quiet /\ \A a \in Areas : mem'[a] = mem[a] BY <1>1, <1>2, <1>3, MarksQuiet
<1>5. FramesKept' BY <1>3, <1>4, FramesSame, FrameWordsApart
<1>6. depth' \in 1 .. MaxDepth BY <1>3 DEF AllocInv, ScalarsTyped
<1>7. gc.prev = 0 /\ Unmerged(mem, Blocks) = {} BY <1>1 DEF AllocInv, HeapKept
<1>8. CASE acc.end # ""
  <2>1. gc' = [at |-> acc.end] BY <1>8 DEF Continue
  <2>2. gc' \in [at : {"client", "exit", "crash", "hang"}] BY <1>2, <1>8, <2>1 DEF Ends
  <2>3. GcTyped' BY <2>2 DEF GcTyped
  <2>4. gc'.at \in {"exit", "crash", "hang"} BY <1>2, <1>8, <2>1 DEF Ends
  <2> QED BY <1>4, <1>5, <1>6, <2>3, <2>4, QuietStep
<1>9. CASE acc.end = ""
  <2>1. gc' = [gc EXCEPT !.at = at] BY <1>9 DEF Continue
  <2>2. Roots' = Roots BY <1>3 DEF Roots, Local, SavedRbp
  <2>3. gc' \in Calls BY <1>1, <2>1 DEF Calls, Stages
  <2>4. GcTyped' BY <1>1, <1>3, <2>2, <2>3 DEF GcTyped, Calls
  <2>5. gc'.at = at /\ gc'.prev = gc.prev BY <1>1, <2>1 DEF Calls
  <2>6. gc'.at \in {"stack", "heap"} /\ gc'.prev = 0 BY <1>7, <2>5
  <2> QED BY <1>4, <1>5, <1>6, <1>7, <2>4, <2>6, QuietStep
<1> QED BY <1>8, <1>9

\* The globals are searched.
LEMMA GlobalsKept ==
    ASSUME AllocConstants, AllocInv, FramesKept, markGlobals
    PROVE  AllocInv' /\ FramesKept' /\ Adds({})
<1>1. gc.at = "globals" /\ initialized = 1
  <2>1. gc.at = "globals" BY DEF markGlobals
  <2>2. gc.at \in Stages BY <2>1 DEF Stages
  <2> QED BY <2>1, <2>2, GcKinds DEF AllocInv
<1>2. PICK acc : acc = Scan(Addresses(__data_start, _end - 1), {0, HeapVar}, TRUE) OBVIOUS
<1>3. acc \in Results BY <1>1, <1>2, SearchedThere, ScanGives
<1>4. Continue(acc, "stack") BY <1>2 DEF markGlobals
<1> QED BY <1>1, <1>3, <1>4, ContinueKept

\* The stack is searched.
LEMMA StackKept ==
    ASSUME AllocConstants, AllocInv, FramesKept, markStack
    PROVE  AllocInv' /\ FramesKept' /\ Adds({})
<1>1. gc.at = "stack" /\ initialized = 1
  <2>1. gc.at = "stack" BY DEF markStack
  <2>2. gc.at \in Stages BY <2>1 DEF Stages
  <2> QED BY <2>1, <2>2, GcKinds DEF AllocInv
<1>2. PICK acc : acc = Scan(Addresses(_stack_top, LastFrame), {0}, TRUE) OBVIOUS
<1>3. acc \in Results BY <1>1, <1>2, SearchedThere, ScanGives
<1>4. Continue(acc, "heap") BY <1>2 DEF markStack
<1> QED BY <1>1, <1>3, <1>4, ContinueKept

\* The heap is searched; after the last time the sweep begins.
LEMMA HeapScanKept ==
    ASSUME AllocConstants, AllocInv, FramesKept, markHeap
    PROVE  AllocInv' /\ FramesKept' /\ Adds({})
<1>1. gc.at = "heap" BY DEF markHeap
<1>2. gc \in Calls /\ initialized = 1
  <2>1. gc.at \in Stages BY <1>1 DEF Stages
  <2> QED BY <2>1, GcKinds DEF AllocInv
<1>3. PICK acc : acc = Scan(AllData, {0}, FALSE) OBVIOUS
<1>4. acc \in Results BY <1>2, <1>3, SearchedThere, ScanGives
<1>5. acc.marked \in SUBSET AllocatedBlocks /\ acc.end \in Ends BY <1>4 DEF Results
<1>6. UNCHANGED <<initialized, total_heap_size, depth, owed>> /\ SetMarks(acc.marked)
  BY <1>3 DEF markHeap
<1>7. Quiet /\ \A a \in Areas : mem'[a] = mem[a] BY <1>2, <1>5, <1>6, MarksQuiet
<1>8. FramesKept' BY <1>6, <1>7, FramesSame, FrameWordsApart
<1>9. depth' \in 1 .. MaxDepth BY <1>6 DEF AllocInv, ScalarsTyped
<1>10. gc.prev = 0 /\ Unmerged(mem, Blocks) = {} BY <1>1, <1>2 DEF AllocInv, HeapKept
<1>11. Roots' = Roots BY <1>6 DEF Roots, Local, SavedRbp
<1>12. CASE acc.end # ""
  <2>1. gc' = [at |-> acc.end] BY <1>3, <1>12 DEF markHeap
  <2>2. gc' \in [at : {"client", "exit", "crash", "hang"}] BY <1>5, <1>12, <2>1 DEF Ends
  <2>3. GcTyped' BY <2>2 DEF GcTyped
  <2>4. gc'.at \in {"exit", "crash", "hang"} BY <1>5, <1>12, <2>1 DEF Ends
  <2> QED BY <1>7, <1>8, <1>9, <2>3, <2>4, QuietStep
<1>13. CASE acc.end = "" /\ AnotherPass(acc.marked)
  <2>1. gc' = gc BY <1>3, <1>13 DEF markHeap
  <2>2. GcTyped' BY <1>2, <1>6, <1>11, <2>1 DEF GcTyped, Calls
  <2> QED BY <1>1, <1>7, <1>8, <1>9, <1>10, <2>1, <2>2, QuietStep
<1>14. CASE acc.end = "" /\ ~AnotherPass(acc.marked)
  <2>1. gc' = [gc EXCEPT !.at = "sweep", !.cur = heap] BY <1>3, <1>14 DEF markHeap
  <2>2. heap = HeapStart /\ HeapStart \in Nat BY <1>2, InvGives, Places
  <2>3. gc' \in Calls BY <1>2, <2>1, <2>2 DEF Calls, Stages
  <2>4. GcTyped' BY <1>2, <1>6, <1>11, <2>3 DEF GcTyped, Calls
  <2>5. gc'.at = "sweep" /\ gc'.cur = HeapStart /\ gc'.prev = 0
    BY <1>2, <1>10, <2>1, <2>2 DEF Calls
  <2>6. SweepAt(mem, Blocks, HeapStart, 0)
    <3>1. PICK B : B = Blocks OBVIOUS
    <3>2. Tiling(mem, End, B) /\ Sized(mem, B) /\ End \in Int BY <1>2, <3>1, InvGives
    <3>3. Unmerged(mem, B) = {} BY <1>10, <3>1
    <3> QED BY <3>1, <3>2, <3>3, SweepEnds
  <2> QED BY <1>7, <1>8, <1>9, <2>4, <2>5, <2>6, QuietStep
<1> QED BY <1>12, <1>13, <1>14
-----------------------------------------------------------------------------
(***************************************************************************)
(* The sweep.                                                              *)
(***************************************************************************)
\* Where it is.
LEMMA SweepFacts ==
    ASSUME AllocConstants, AllocInv, gc.at = "sweep"
    PROVE  /\ initialized = 1 /\ gc \in Calls /\ SweepAt(mem, Blocks, gc.cur, gc.prev)
           /\ Tiling(mem, End, Blocks) /\ Sized(mem, Blocks) /\ End \in Int
           /\ Sound(mem, End, Blocks, owed)
           /\ gc.cur # 0 => gc.cur \in Blocks
<1>1. gc \in Calls /\ initialized = 1
  <2>1. gc.at \in Stages BY DEF Stages
  <2> QED BY <2>1, GcKinds DEF AllocInv
<1>2. SweepAt(mem, Blocks, gc.cur, gc.prev) BY <1>1 DEF AllocInv, HeapKept
<1>3. gc.cur # 0 => gc.cur \in Blocks BY <1>2 DEF SweepAt
<1> QED BY <1>1, <1>2, <1>3, InvGives

\* A marked block is kept.
LEMMA KeepKept ==
    ASSUME AllocConstants, AllocInv, FramesKept, sweepKeep
    PROVE  AllocInv' /\ FramesKept' /\ Adds({})
<1>1. PICK b : b = gc.cur OBVIOUS
<1>2. gc.at = "sweep" /\ b # 0 /\ MarkedW(mem[b]) BY <1>1 DEF sweepKeep, IsMarked, info, MarkedW
<1>3. /\ initialized = 1 /\ gc \in Calls /\ SweepAt(mem, Blocks, b, gc.prev)
      /\ Tiling(mem, End, Blocks) /\ Sized(mem, Blocks) /\ End \in Int
      /\ Sound(mem, End, Blocks, owed) /\ b \in Blocks
  BY <1>1, <1>2, SweepFacts
<1>4. /\ mem' = [mem EXCEPT ![b] = @ - MARK_BIT]
      /\ gc' = [gc EXCEPT !.cur = mem[b + 1], !.prev = 0]
      /\ UNCHANGED <<initialized, total_heap_size, depth, owed>>
  BY <1>1 DEF sweepKeep, next
<1>5. /\ mem \in [DOMAIN mem -> WordSet] /\ {b, b + 1, b + 2} \subseteq DOMAIN mem
      /\ b \in Nat /\ b >= HeapStart
  BY <1>3, InvGives
<1>6. InfoOf(mem[b] - MARK_BIT, AllocW(mem[b]), FALSE, SizeW(mem[b]))
  <2>1. mem[b] \in WordSet BY <1>5
  <2> QED BY <1>2, <2>1, InfoMarks
<1>7. mem' \in [DOMAIN mem -> WordSet] BY <1>4, <1>5, <1>6 DEF InfoOf
<1>8. \A a \in Areas : mem'[a] = mem[a]
  <2>1. \A a \in Areas : a \in Nat /\ a < HeapStart /\ a \in DOMAIN mem BY Places, InvGives
  <2>2. \A a \in Areas : a # b BY <1>5, <2>1, Places
  <2> QED BY <1>4, <2>1, <2>2
<1>9. ASSUME NEW c \in Blocks PROVE Keeps(c)
  <2>1. /\ c \in Nat /\ {c, c + 1, c + 2} \subseteq DOMAIN mem
        /\ MarkedW(mem[c]) => AllocW(mem[c])
    <3>1. PICK B : B = Blocks OBVIOUS
    <3>2. \A d \in B : MarkedW(mem[d]) => AllocW(mem[d]) BY <1>3, <3>1 DEF Sound
    <3> QED BY <1>3, <3>1, <3>2, InvGives
  <2>2. CASE c = b
    <3>1. mem'[c] = mem[b] - MARK_BIT BY <1>4, <1>5, <2>2
    <3>2. mem'[c + 1] = mem[c + 1] /\ mem'[c + 2] = mem[c + 2] BY <1>4, <1>5, <2>1, <2>2
    <3>3. InfoOf(mem'[c], AllocW(mem[c]), FALSE, SizeW(mem[c])) BY <1>6, <2>2, <3>1
    <3> QED BY <3>2, <3>3 DEF Keeps, InfoOf
  <2>3. CASE c # b
    <3>1. {c, c + 1, c + 2} \intersect {b, b + 1, b + 2} = {} BY <1>3, <2>3, BlocksApart
    <3>2. b # c /\ b # c + 1 /\ b # c + 2 BY <3>1
    <3>3. mem'[c] = mem[c] /\ mem'[c + 1] = mem[c + 1] /\ mem'[c + 2] = mem[c + 2]
      BY <1>4, <2>1, <3>2
    <3> QED BY <2>1, <3>3 DEF Keeps
  <2> QED BY <2>2, <2>3
<1>10. Quiet BY <1>4, <1>7, <1>8, <1>9, Places DEF Quiet
<1>11. FramesKept' BY <1>4, <1>8, FramesSame, FrameWordsApart
<1>12. AllocW(mem[b])
  <2>1. PICK B : B = Blocks OBVIOUS
  <2> QED BY <1>2, <1>3, <2>1 DEF Sound
<1>13. SweepAt(mem, Blocks, mem[b + 1], 0)
  <2>1. PICK B, p : B = Blocks /\ p = gc.prev OBVIOUS
  <2>2. Tiling(mem, End, B) /\ Sized(mem, B) /\ b \in B /\ SweepAt(mem, B, b, p) BY <1>3, <2>1
  <2> QED BY <1>3, <1>12, <2>1, <2>2, SweepPasses
<1>14. mem[b + 1] \in Nat
  <2>1. mem[b + 1] \in WordSet BY <1>5
  <2> QED BY <2>1, Places
<1>15. gc' \in Calls /\ gc'.at = "sweep" /\ gc'.cur = mem[b + 1] /\ gc'.prev = 0
  BY <1>2, <1>3, <1>4, <1>14 DEF Calls
<1>16. GcTyped'
  <2>1. Roots' = Roots BY <1>4 DEF Roots, Local, SavedRbp
  <2> QED BY <1>3, <1>4, <1>15, <2>1 DEF GcTyped, Calls
<1>17. depth' \in 1 .. MaxDepth BY <1>4 DEF AllocInv, ScalarsTyped
<1> QED BY <1>10, <1>11, <1>13, <1>15, <1>16, <1>17, QuietStep

\* What the invariant says after a block has been swept.
LEMMA SweepGoesOn ==
    ASSUME AllocConstants, AllocInv, initialized = 1,
           mem' \in [DOMAIN mem -> WordSet], mem'[HeapVar] = mem[HeapVar],
           UNCHANGED <<initialized, total_heap_size, depth>>, GcTyped',
           NEW B \in SUBSET Blocks, Sound(mem', End, B, owed'),
           \/ gc'.at = "exit"
           \/ gc'.at = "sweep" /\ SweepAt(mem', B, gc'.cur, gc'.prev)
    PROVE  AllocInv' /\ Adds({})
<1>1. MemTyped' /\ ScalarsTyped' /\ Blocks' = B /\ End' = End BY HeapStep
<1>2. PICK m, g : m = mem' /\ g = gc' OBVIOUS
<1>3. /\ Sound(m, End', Blocks', owed')
      /\ g.at = "exit" \/ (g.at = "sweep" /\ SweepAt(m, Blocks', g.cur, g.prev))
  BY <1>1, <1>2
<1>4. HeapKept' BY <1>2, <1>3 DEF HeapKept
<1> QED BY <1>1, <1>4 DEF AllocInv, Adds

\* What is known when block b has been written as free: memory is then mid.
Freed(b, mid) ==
    /\ b \in Blocks /\ b \in Nat /\ b >= HeapStart /\ {b, b + 1, b + 2} \subseteq DOMAIN mem
    /\ Size(b) = SizeW(mem[b]) /\ Size(b) \in Nat
    /\ mid \in [DOMAIN mem -> WordSet] /\ mid[b] = Size(b)
    /\ \A a \in DOMAIN mem : a # b => mid[a] = mem[a]
    /\ \A a \in Areas : mid[a] = mem[a] /\ a # b
    /\ SizeW(mid[b]) = SizeW(mem[b]) /\ ~AllocW(mid[b]) /\ ~MarkedW(mid[b])
    /\ \A c \in Blocks \ {b} : SameHead(mem, mid, c)
    /\ mid[b + 1] = mem[b + 1]
    /\ Sound(mid, End, Blocks, OwedAfter(mem, b, owed))
    /\ Sized(mid, Blocks)

\* The block at which the sweep is, as it is freed.
LEMMA FreedBlock ==
    ASSUME AllocConstants, AllocInv, gc.at = "sweep", NEW b, b = gc.cur, b # 0, ~MarkedW(mem[b]),
           NEW mid, mid = [mem EXCEPT ![b] = Size(b)]
    PROVE  Freed(b, mid)
<1>1. PICK B : B = Blocks OBVIOUS
<1>2. /\ initialized = 1 /\ Tiling(mem, End, B) /\ Sized(mem, B) /\ End \in Int
      /\ Sound(mem, End, B, owed) /\ b \in B
  BY <1>1, SweepFacts
<1>3. /\ mem \in [DOMAIN mem -> WordSet] /\ b \in Nat /\ b >= HeapStart
      /\ \A c \in B : c \in Nat /\ {c, c + 1, c + 2} \subseteq DOMAIN mem
                      /\ SizeW(mem[c]) \in 0 .. MARK_BIT - 1
  BY <1>1, <1>2, InvGives
<1>4. PICK s : s = Size(b) OBVIOUS
<1>5. s = SizeW(mem[b]) /\ s \in 0 .. MARK_BIT - 1
  BY <1>2, <1>3, <1>4 DEF Size, SizeW, info
<1>6. s \in WordSet /\ s \in Nat /\ SizeW(s) = s /\ ~AllocW(s) /\ ~MarkedW(s)
  BY <1>5, InfoKinds, Places DEF InfoOf
<1>7. mid = [mem EXCEPT ![b] = s] BY <1>4
<1>8. {b, b + 1, b + 2} \subseteq DOMAIN mem BY <1>2, <1>3
<1>9. mid \in [DOMAIN mem -> WordSet] BY <1>3, <1>6, <1>7
<1>10. mid[b] = s /\ \A a \in DOMAIN mem : a # b => mid[a] = mem[a] BY <1>7, <1>8
<1>11. \A a \in Areas : mid[a] = mem[a] /\ a # b
  <2>1. \A a \in Areas : a \in Nat /\ a < HeapStart /\ a \in DOMAIN mem BY Places, InvGives
  <2>2. \A a \in Areas : a # b BY <1>3, <2>1, Places
  <2> QED BY <1>10, <2>1, <2>2
<1>12. ASSUME NEW c \in B \ {b} PROVE SameHead(mem, mid, c)
  <2>1. {c, c + 1, c + 2} \intersect {b, b + 1, b + 2} = {} BY <1>1, <1>2, BlocksApart
  <2>2. b # c /\ b # c + 1 /\ b # c + 2 BY <2>1
  <2>3. {c, c + 1, c + 2} \subseteq DOMAIN mem BY <1>3
  <2> QED BY <1>10, <2>2, <2>3 DEF SameHead
<1>13. mid[b + 1] = mem[b + 1] /\ mid[b + 2] = mem[b + 2] BY <1>3, <1>8, <1>10
<1>14. Sound(mid, End, B, OwedAfter(mem, b, owed))
  <2>1. PICK m, e, o : m = mem /\ e = End /\ o = owed OBVIOUS
  <2>2. /\ Sound(m, e, B, o) /\ Sized(m, B) /\ b \in B /\ e \in Int
        /\ SizeW(mid[b]) = SizeW(m[b]) /\ ~AllocW(mid[b]) /\ ~MarkedW(mid[b])
        /\ mid[b + 1] = m[b + 1] /\ mid[b + 2] = m[b + 2]
        /\ \A c \in B \ {b} : SameHead(m, mid, c)
    BY <1>2, <1>5, <1>6, <1>10, <1>12, <1>13, <2>1
  <2>3. Sound(mid, e, B, OwedAfter(m, b, o)) BY <2>2, Released
  <2> QED BY <2>1, <2>3
<1>15. Sized(mid, B)
  <2>1. \A c \in B \ {b} : mid[c] = mem[c] BY <1>12 DEF SameHead
  <2> QED BY <1>2, <1>6, <1>10, <2>1 DEF Sized
<1>16. /\ \A c \in Blocks \ {b} : SameHead(mem, mid, c)
       /\ Sound(mid, End, Blocks, OwedAfter(mem, b, owed)) /\ Sized(mid, Blocks) /\ b \in Blocks
  BY <1>1, <1>2, <1>12, <1>14, <1>15
<1>17. Size(b) = SizeW(mem[b]) /\ Size(b) \in Nat /\ mid[b] = Size(b) BY <1>4, <1>5, <1>6, <1>10
<1>18. SizeW(mid[b]) = SizeW(mem[b]) /\ ~AllocW(mid[b]) /\ ~MarkedW(mid[b])
  BY <1>5, <1>6, <1>10
<1>19. b \in Nat /\ b >= HeapStart BY <1>3
<1> QED BY <1>8, <1>9, <1>10, <1>11, <1>13, <1>16, <1>17, <1>18, <1>19 DEF Freed

\* An unmarked block is freed.
LEMMA FreeKept ==
    ASSUME AllocConstants, AllocInv, FramesKept, sweepFree
    PROVE  AllocInv' /\ FramesKept' /\ Adds({})
<1>1. PICK b : b = gc.cur OBVIOUS
<1>2. gc.at = "sweep" /\ b # 0 /\ ~MarkedW(mem[b]) BY <1>1 DEF sweepFree, IsMarked, info, MarkedW
<1>3. UNCHANGED <<initialized, total_heap_size, depth>> BY DEF sweepFree
<1>4. PICK mid : mid = [mem EXCEPT ![b] = Size(b)] OBVIOUS
<1>50. Freed(b, mid) BY <1>1, <1>2, <1>4, FreedBlock
<1>5. /\ b \in Blocks /\ b \in Nat /\ b >= HeapStart /\ {b, b + 1, b + 2} \subseteq DOMAIN mem
      /\ Size(b) = SizeW(mem[b]) /\ Size(b) \in Nat
      /\ mid \in [DOMAIN mem -> WordSet] /\ mid[b] = Size(b)
      /\ \A a \in DOMAIN mem : a # b => mid[a] = mem[a]
      /\ \A a \in Areas : mid[a] = mem[a] /\ a # b
      /\ SizeW(mid[b]) = SizeW(mem[b]) /\ ~AllocW(mid[b]) /\ ~MarkedW(mid[b])
      /\ \A c \in Blocks \ {b} : SameHead(mem, mid, c)
      /\ mid[b + 1] = mem[b + 1]
      /\ Sound(mid, End, Blocks, OwedAfter(mem, b, owed))
      /\ Sized(mid, Blocks)
  BY <1>50 DEF Freed
<1>6. /\ initialized = 1 /\ gc \in Calls /\ SweepAt(mem, Blocks, b, gc.prev)
      /\ Tiling(mem, End, Blocks) /\ Sized(mem, Blocks) /\ End \in Int
      /\ Sound(mem, End, Blocks, owed)
  BY <1>1, <1>2, SweepFacts
<1>7. mem \in [DOMAIN mem -> WordSet] /\ Areas \subseteq DOMAIN mem BY InvGives
<1>8. owed' = OwedAfter(mem, b, owed)
  <2>1. CallsFinalizer(b) <=> AllocW(mem[b]) /\ mem[b + 2] # 0
    BY DEF CallsFinalizer, IsAlloc, finalizer, info, AllocW
  <2> QED BY <1>1, <2>1 DEF sweepFree, OwedAfter, finalizer
<1>9. HeapVar \in Areas BY Places
<1>10. CASE mem' = mid /\ gc' = [at |-> "exit"]
  <2>1. Sound(mem', End, Blocks, owed') BY <1>5, <1>8, <1>10
  <2>2. GcTyped' BY <1>10 DEF GcTyped
  <2>3. gc'.at = "exit" BY <1>10
  <2>4. mem' \in [DOMAIN mem -> WordSet] /\ mem'[HeapVar] = mem[HeapVar] BY <1>5, <1>9, <1>10
  <2>5. AllocInv' /\ Adds({}) BY <1>3, <1>6, <2>1, <2>2, <2>3, <2>4, SweepGoesOn
  <2>6. \A a \in FrameWords : mem'[a] = mem[a] BY <1>5, <1>10, FrameWordsApart
  <2> QED BY <1>3, <2>5, <2>6, FramesSame
<1>11. CASE /\ mem' = Swept(b)
            /\ gc' = [gc EXCEPT !.cur = next(b),
                                !.prev = IF gc.prev = 0 THEN b ELSE @,
                                !.words_freed = @ + (IF IsAlloc(b) THEN Size(b) ELSE 0)
                                                  + (IF gc.prev # 0 THEN BLOCK_SIZE ELSE 0)]
  <2>1. PICK p, n, w : /\ p = gc.prev /\ n = mem[b + 1]
                       /\ w = gc.words_freed + (IF IsAlloc(b) THEN Size(b) ELSE 0)
                                             + (IF gc.prev # 0 THEN BLOCK_SIZE ELSE 0)
    OBVIOUS
  <2>2. gc' = [gc EXCEPT !.cur = n, !.prev = IF p = 0 THEN b ELSE p, !.words_freed = w]
    BY <1>11, <2>1 DEF next
  <2>3. w \in Int
    <3>1. gc.words_freed \in Int /\ BLOCK_SIZE \in Int BY <1>6 DEF Calls, BLOCK_SIZE
    <3> QED BY <1>5, <2>1, <3>1
  <2>4. n \in Nat
    <3>1. n \in WordSet BY <1>5, <1>7, <2>1
    <3> QED BY <3>1, Places
  <2>5. p \in Nat BY <1>6, <2>1 DEF Calls
  <2>6. /\ gc' \in Calls /\ gc'.at = "sweep" /\ gc'.cur = n
        /\ gc'.prev = IF p = 0 THEN b ELSE p
    <3>1. PICK q : q = IF p = 0 THEN b ELSE p OBVIOUS
    <3>2. q \in Nat BY <1>5, <2>5, <3>1
    <3>3. gc' = [gc EXCEPT !.cur = n, !.prev = q, !.words_freed = w] BY <2>2, <3>1
    <3> QED BY <1>2, <1>6, <2>3, <2>4, <3>1, <3>2, <3>3 DEF Calls
  <2>7. GcTyped'
    <3>1. Roots' = Roots BY <1>3 DEF Roots, Local, SavedRbp
    <3> QED BY <1>3, <1>6, <2>6, <3>1 DEF GcTyped, Calls
  <2>8. PICK B, m, e : B = Blocks /\ m = mem /\ e = End OBVIOUS
  <2>9. CASE p = 0
    <3>1. mem' = mid BY <1>4, <1>11, <2>1, <2>9 DEF Swept, MergeTarget
    <3>2. Sound(mem', End, Blocks, owed') BY <1>5, <1>8, <3>1
    <3>3. SweepAt(mid, B, n, b)
      <4>1. /\ Tiling(m, e, B) /\ Sized(m, B) /\ e \in Int /\ b \in B /\ SweepAt(m, B, b, 0)
            /\ ~AllocW(mid[b]) /\ mid[b + 1] = m[b + 1]
            /\ \A c \in B \ {b} : SameHead(m, mid, c)
        BY <1>5, <1>6, <2>1, <2>8, <2>9
      <4>2. SweepAt(mid, B, m[b + 1], b) BY <4>1, SweepFrees
      <4> QED BY <2>1, <2>8, <4>2
    <3>4. SweepAt(mem', Blocks, gc'.cur, gc'.prev) BY <2>6, <2>8, <2>9, <3>1, <3>3
    <3>5. mem' \in [DOMAIN mem -> WordSet] /\ mem'[HeapVar] = mem[HeapVar] BY <1>5, <1>9, <3>1
    <3>6. AllocInv' /\ Adds({}) BY <1>3, <1>6, <2>6, <2>7, <3>2, <3>4, <3>5, SweepGoesOn
    <3>7. \A a \in FrameWords : mem'[a] = mem[a] BY <1>5, <3>1, FrameWordsApart
    <3> QED BY <1>3, <3>6, <3>7, FramesSame
  <2>10. CASE p # 0
    <3>1. p \in B /\ ~AllocW(m[p]) /\ m[p + 1] = b BY <1>6, <2>1, <2>8, <2>10 DEF SweepAt
    <3>2. /\ p \in Nat /\ p >= HeapStart /\ {p, p + 1, p + 2} \subseteq DOMAIN mem
          /\ SizeW(m[p]) \in 0 .. MARK_BIT - 1 /\ b + 3 + SizeW(m[b]) <= e /\ e <= MARK_BIT
      BY <1>5, <1>6, <2>8, <3>1, InvGives
    <3>3. b = p + 3 + SizeW(m[p]) /\ p < b
      <4>1. Tiling(m, e, B) /\ Sized(m, B) /\ e \in Int BY <1>6, <2>8
      <4>2. \A c \in B : m[c + 1] # 0 =>
                m[c + 1] \in B /\ m[c + 1] = c + 3 + SizeW(m[c]) /\ m[c + 1] > c
        BY <4>1, TilingGives
      <4> QED BY <1>2, <3>1, <4>2
    <3>4. PICK sp, sb : sp = SizeW(m[p]) /\ sb = SizeW(m[b]) OBVIOUS
    <3>5. sp \in Nat /\ sb \in Nat /\ sb = Size(b) BY <1>5, <2>8, <3>2, <3>4, Places
    <3>6. PICK r : r = sp + 3 + sb OBVIOUS
    <3>7. r \in 0 .. MARK_BIT - 1
      <4>1. PICK k, h : k = MARK_BIT /\ h = e OBVIOUS
      <4>2. k \in Nat /\ h \in Int /\ h <= k /\ b + 3 + sb <= h /\ b = p + 3 + sp
        BY <1>6, <2>8, <3>2, <3>3, <3>4, <4>1, Places
      <4>3. r \in 0 .. k - 1 BY <3>2, <3>5, <3>6, <4>2
      <4> QED BY <4>1, <4>3
    <3>8. SizeW(r) = r /\ ~AllocW(r) /\ ~MarkedW(r) /\ r \in WordSet BY <3>7, InfoKinds DEF InfoOf
    <3>9. mem' = [mem EXCEPT ![b] = sb, ![p] = r, ![p + 1] = n]
      <4>1. ~MarkedW(m[p]) /\ m[p] \in WordSet
        BY <1>6, <1>7, <2>8, <3>1, <3>2 DEF Sound
      <4>2. info(p) = sp /\ Size(p) = sp BY <2>8, <3>1, <3>4, <4>1, InfoMarks DEF info, Size, SizeW
      <4>3. MergedSize(p, b) = r BY <3>5, <3>6, <4>2 DEF MergedSize, BLOCK_SIZE
      <4>4. r % MARK_BIT = r BY <3>8 DEF SizeW
      <4>5. info(p) - Size(p) + (MergedSize(p, b) % MARK_BIT) = r
        BY <3>5, <3>6, <4>2, <4>3, <4>4
      <4>6. mem' = [mem EXCEPT ![b] = Size(b),
                        ![p] = info(p) - Size(p) + (MergedSize(p, b) % MARK_BIT),
                        ![p + 1] = next(b)]
        BY <1>11, <2>1, <2>10 DEF Swept, MergeTarget
      <4> QED BY <2>1, <3>5, <4>5, <4>6 DEF next
    <3>10. PICK new : new = mem' OBVIOUS
    <3>11. n \in WordSet /\ sb \in WordSet
      BY <1>5, <1>7, <2>1, <3>5
    <3>12. /\ new \in [DOMAIN mem -> WordSet] /\ new[p] = r /\ new[p + 1] = n
           /\ \A a \in DOMAIN mem : a # p /\ a # p + 1 => new[a] = mid[a]
      <4>1. p # b /\ p + 1 # b /\ p # p + 1 BY <1>5, <3>2, <3>3, <3>5, <3>4
      <4>2. new \in [DOMAIN mem -> WordSet] BY <1>7, <3>8, <3>9, <3>10, <3>11
      <4>3. new[p] = r /\ new[p + 1] = n BY <3>2, <3>9, <3>10, <4>1
      <4>4. \A a \in DOMAIN mem : a # p /\ a # p + 1 => new[a] = mid[a]
        BY <1>4, <3>5, <3>9, <3>10
      <4> QED BY <4>2, <4>3, <4>4
    <3>13. \A c \in B \ {p, b} : SameHead(mid, new, c) /\ SameHead(m, new, c)
      <4> SUFFICES ASSUME NEW c \in B \ {p, b} PROVE SameHead(mid, new, c) /\ SameHead(m, new, c)
        OBVIOUS
      <4>1. {c, c + 1, c + 2} \intersect {p, p + 1, p + 2} = {}
        BY <1>6, <2>8, <3>1, BlocksApart
      <4>2. {c, c + 1, c + 2} \subseteq DOMAIN mem BY <1>6, <2>8, InvGives
      <4>3. \A a \in {c, c + 1, c + 2} : a # p /\ a # p + 1 BY <4>1
      <4>4. SameHead(mid, new, c) BY <3>12, <4>2, <4>3 DEF SameHead
      <4>5. SameHead(m, mid, c) BY <1>5, <2>8
      <4> QED BY <4>4, <4>5 DEF SameHead
    <3>14. PICK o : o = OwedAfter(mem, b, owed) OBVIOUS
    <3>15. Sound(new, e, B \ {b}, o)
      <4>1. mid[p + 1] = b /\ mid[p] = m[p]
        <5>1. p \in B \ {b} BY <3>1, <3>2, <3>3
        <5>2. SameHead(m, mid, p) BY <1>5, <2>8, <5>1
        <5> QED BY <3>1, <5>2 DEF SameHead
      <4>2. SizeW(new[p]) = SizeW(mid[p]) + 3 + SizeW(mid[b])
        BY <1>5, <2>8, <3>4, <3>6, <3>8, <3>12, <4>1
      <4>3. new[p + 1] = mid[b + 1] BY <1>5, <2>1, <3>12
      <4>4. /\ Sound(mid, e, B, o) /\ Sized(mid, B) /\ e \in Int /\ p \in B /\ b \in B
            /\ ~AllocW(mid[p]) /\ ~AllocW(mid[b]) /\ ~AllocW(new[p]) /\ ~MarkedW(new[p])
            /\ \A c \in B \ {p, b} : SameHead(mid, new, c)
        BY <1>5, <1>6, <2>8, <3>1, <3>8, <3>12, <3>13, <3>14, <4>1
      <4> QED BY <4>1, <4>2, <4>3, <4>4, MergedBlock
    <3>16. SweepAt(new, B \ {b}, n, p)
      <4>1. /\ Tiling(m, e, B) /\ Sized(m, B) /\ e \in Int /\ b \in B /\ p \in B /\ SweepAt(m, B, b, p)
            /\ ~AllocW(new[p]) /\ new[p + 1] = m[b + 1]
            /\ \A c \in B \ {p, b} : SameHead(m, new, c)
        BY <1>5, <1>6, <2>1, <2>8, <3>1, <3>8, <3>12, <3>13
      <4>2. SweepAt(new, B \ {b}, m[b + 1], p) BY <4>1, SweepMerges
      <4> QED BY <2>1, <2>8, <4>2
    <3>17. \A a \in Areas : mem'[a] = mem[a]
      <4>1. \A a \in Areas : a \in Nat /\ a < HeapStart /\ a \in DOMAIN mem BY <1>7, Places
      <4>2. \A a \in Areas : a # p /\ a # p + 1 BY <3>2, <4>1, Places
      <4> QED BY <1>5, <3>10, <3>12, <4>1, <4>2
    <3>18. PICK C : C = B \ {b} OBVIOUS
    <3>19. /\ Sound(mem', End, C, owed')
           /\ gc'.at = "sweep" /\ SweepAt(mem', C, gc'.cur, gc'.prev)
      BY <1>8, <2>6, <2>8, <2>10, <3>10, <3>14, <3>15, <3>16, <3>18
    <3>20. mem' \in [DOMAIN mem -> WordSet] /\ mem'[HeapVar] = mem[HeapVar]
      BY <1>9, <3>10, <3>12, <3>17
    <3>21. C \in SUBSET Blocks BY <2>8, <3>18
    <3>22. AllocInv' /\ Adds({}) BY <1>3, <1>6, <2>7, <3>19, <3>20, <3>21, SweepGoesOn
    <3>23. \A a \in FrameWords : mem'[a] = mem[a] BY <3>17, FrameWordsApart
    <3> QED BY <1>3, <3>22, <3>23, FramesSame
  <2> QED BY <2>9, <2>10
<1> QED BY <1>1, <1>4, <1>10, <1>11 DEF sweepFree

\* After the sweep the request is met, or memAllocate returns 0.
LEMMA RetryKept ==
    ASSUME AllocConstants, AllocInv, FramesKept, retry
    PROVE  AllocInv' /\ FramesKept' /\ Adds({})
<1>1. gc.at = "sweep" /\ gc.cur = 0 /\ UNCHANGED <<initialized, total_heap_size, depth, owed>>
  BY DEF retry
<1>2. PICK B, p, e : B = Blocks /\ p = gc.prev /\ e = End OBVIOUS
<1>3. /\ initialized = 1 /\ gc \in Calls /\ SweepAt(mem, B, 0, p)
      /\ Tiling(mem, e, B) /\ Sized(mem, B) /\ e \in Int
  BY <1>1, <1>2, SweepFacts
<1>4. Unmerged(mem, B) = {} BY <1>3, SweepEnds
<1>5. depth' \in 1 .. MaxDepth BY <1>1 DEF AllocInv, ScalarsTyped
<1>6. mem \in [DOMAIN mem -> WordSet] /\ Areas \subseteq DOMAIN mem BY InvGives
<1>7. CASE nextBlockOfSize(gc.size) # 0 /\ gc' = [gc EXCEPT !.at = "take"] /\ UNCHANGED mem
  <2>1. Quiet BY <1>1, <1>6, <1>7, OutsideKeeps
  <2>2. gc' \in Calls BY <1>3, <1>7 DEF Calls, Stages
  <2>3. GcTyped'
    <3>1. Roots' = Roots BY <1>1 DEF Roots, Local, SavedRbp
    <3> QED BY <1>1, <1>3, <2>2, <3>1 DEF GcTyped, Calls
  <2>4. gc'.at = "take" /\ gc'.size = gc.size BY <1>3, <1>7 DEF Calls
  <2>5. Usable(mem, Blocks, gc'.size) # {} BY <1>3, <1>7, <2>4, NextBlock
  <2>6. AllocInv' /\ Adds({}) BY <1>2, <1>4, <1>5, <2>1, <2>3, <2>4, <2>5, QuietStep
  <2> QED BY <1>1, <1>7, <2>6, FramesSame
<1>8. CASE mem' = [mem EXCEPT ![gc.into] = 0] /\ gc' = Idle
  <2>1. gc.into \in Roots BY <1>3 DEF Calls
  <2>2. PICK r : r = gc.into OBVIOUS
  <2>3. r \in Areas \ {HeapVar} /\ r \notin FrameWords
    BY <2>1, <2>2, InvGives, FrameWordsApart
  <2>4. /\ mem' \in [DOMAIN mem -> WordSet]
        /\ \A a \in DOMAIN mem : a # r => mem'[a] = mem[a]
    BY <1>6, <1>8, <2>2, Places
  <2>5. Quiet BY <1>1, <2>3, <2>4, OutsideKeeps
  <2>6. GcTyped' /\ gc'.at = "client" BY <1>8 DEF GcTyped, Idle
  <2>7. AllocInv' /\ Adds({}) BY <1>2, <1>4, <1>5, <2>5, <2>6, QuietStep
  <2>8. \A a \in FrameWords : mem'[a] = mem[a] BY <1>6, <2>3, <2>4, FrameWordsApart
  <2> QED BY <1>1, <2>7, <2>8, FramesSame
<1> QED BY <1>7, <1>8 DEF retry, Return
-----------------------------------------------------------------------------
(***************************************************************************)
(* The client.                                                             *)
(***************************************************************************)
\* Between two calls only words outside the headers and the frames change.
LEMMA ClientKept ==
    ASSUME AllocConstants, AllocInv, FramesKept, gc.at = "client",
           UNCHANGED <<initialized, total_heap_size, gc, owed>>, depth' \in 1 .. MaxDepth,
           NEW a \in DOMAIN mem, a # HeapVar, a \notin FrameWords,
           initialized = 1 => \A b \in Blocks : a \notin {b, b + 1, b + 2},
           NEW w \in WordSet, mem' = [mem EXCEPT ![a] = w]
    PROVE  AllocInv' /\ FramesKept' /\ Adds({})
<1>1. mem \in [DOMAIN mem -> WordSet] /\ Areas \subseteq DOMAIN mem BY InvGives
<1>2. mem' \in [DOMAIN mem -> WordSet] /\ \A x \in DOMAIN mem : x # a => mem'[x] = mem[x]
  BY <1>1
<1>3. mem'[HeapVar] = mem[HeapVar] BY <1>1, <1>2, Places
<1>4. ASSUME initialized = 1, NEW b \in Blocks PROVE Keeps(b)
  <2>1. {b, b + 1, b + 2} \subseteq DOMAIN mem /\ a \notin {b, b + 1, b + 2} BY <1>4, InvGives
  <2>2. mem'[b] = mem[b] /\ mem'[b + 1] = mem[b + 1] /\ mem'[b + 2] = mem[b + 2]
    BY <1>2, <2>1
  <2>3. PICK B : B = Blocks OBVIOUS
  <2>4. MarkedW(mem[b]) => AllocW(mem[b]) BY <1>4, <2>3, InvGives DEF Sound
  <2> QED BY <2>2, <2>4 DEF Keeps
<1>5. Quiet BY <1>2, <1>3, <1>4 DEF Quiet
<1>6. gc' \in [at : {"client", "exit", "crash", "hang"}] BY GcKinds DEF AllocInv
<1>7. GcTyped' BY <1>6 DEF GcTyped
<1>8. initialized = 1 => Unmerged(mem, Blocks) = {} BY DEF AllocInv, HeapKept
<1>9. AllocInv' /\ Adds({}) BY <1>5, <1>7, <1>8, QuietStep
<1>10. \A x \in FrameWords : mem'[x] = mem[x]
  <2>1. \A x \in FrameWords : x \in Areas BY FrameWordsApart
  <2> QED BY <1>1, <1>2, <2>1
<1> QED BY <1>9, <1>10, FramesSame

\* A variable of the client is written.
LEMMA AssignKept ==
    ASSUME AllocConstants, AllocInv, FramesKept, NEW r \in Roots, NEW w \in WordSet, Assign(r, w)
    PROVE  AllocInv' /\ FramesKept' /\ Adds({})
<1>1. /\ gc.at = "client" /\ UNCHANGED <<initialized, total_heap_size, gc, owed, depth>>
      /\ mem' = [mem EXCEPT ![r] = w]
  BY DEF Assign, ClientStep
<1>2. r \in Areas \ {HeapVar} /\ r \in DOMAIN mem /\ r \notin FrameWords BY InvGives, FrameWordsApart
<1>3. initialized = 1 => \A b \in Blocks : r \notin {b, b + 1, b + 2}
  <2>1. r \in Nat /\ r < HeapStart BY <1>2, Places
  <2>2. initialized = 1 => \A b \in Blocks : b \in Nat /\ b >= HeapStart BY InvGives
  <2> QED BY <2>1, <2>2, Places
<1>4. depth' \in 1 .. MaxDepth BY <1>1 DEF AllocInv, ScalarsTyped
<1> QED BY <1>1, <1>2, <1>3, <1>4, ClientKept

\* A word of a block is written.
LEMMA StoreKept ==
    ASSUME AllocConstants, AllocInv, FramesKept, NEW r \in Roots, NEW o \in Offsets,
           NEW w \in WordSet, StoreWord(r, o, w)
    PROVE  AllocInv' /\ FramesKept' /\ Adds({})
<1>1. /\ gc.at = "client" /\ UNCHANGED <<initialized, total_heap_size, gc, owed, depth>>
      /\ mem' = [mem EXCEPT ![mem[r] + o] = w]
  BY DEF StoreWord, ClientStep
<1>2. PICK b : b = mem[r] - 3 OBVIOUS
<1>3. PICK a : a = mem[r] + o OBVIOUS
<1>4. b \in Blocks /\ a \in DOMAIN mem /\ o < SizeW(mem[b])
  BY <1>2, <1>3 DEF StoreWord, IsPointer, BLOCK_SIZE, Size, SizeW, info
<1>5. initialized = 1 BY <1>4 DEF Blocks, BlockList, Range
<1>6. /\ b \in Nat /\ b >= HeapStart /\ SizeW(mem[b]) \in 0 .. MARK_BIT - 1 /\ HeapStart = 160
      /\ MARK_BIT \in Nat
  BY <1>4, <1>5, InvGives, Places
<1>7. PICK s \in Nat : s = SizeW(mem[b]) BY <1>6
<1>8. o \in Nat BY DEF AllocConstants
<1>9. mem[r] \in Int
  <2>1. r \in DOMAIN mem /\ mem \in [DOMAIN mem -> WordSet] BY InvGives
  <2>2. mem[r] \in WordSet BY <2>1
  <2> QED BY <2>2, Places
<1>10. a = b + 3 + o /\ a \in Nat BY <1>2, <1>3, <1>6, <1>8, <1>9
<1>11. ASSUME NEW c \in Blocks PROVE a \notin {c, c + 1, c + 2}
  <2>1. CASE c = b BY <1>6, <1>8, <1>10, <2>1
  <2>2. CASE c # b
    <3>1. c + 3 + SizeW(mem[c]) <= b \/ b + 3 + SizeW(mem[b]) <= c
      BY <1>4, <1>5, <2>2, BlocksApart
    <3>2. c \in Nat /\ SizeW(mem[c]) \in 0 .. MARK_BIT - 1 BY <1>5, InvGives
    <3>3. PICK t \in Nat : t = SizeW(mem[c]) BY <1>6, <3>2
    <3>4. c + 3 + t <= b \/ b + 3 + s <= c BY <1>7, <3>1, <3>3
    <3> QED BY <1>4, <1>6, <1>7, <1>8, <1>10, <3>2, <3>4
  <2> QED BY <2>1, <2>2
<1>12. a # HeapVar /\ a \notin FrameWords
  <2>1. a >= HeapStart BY <1>6, <1>8, <1>10
  <2>2. \A x \in FrameWords : x \in Nat /\ x < HeapStart BY FrameWordsApart
  <2> QED BY <1>6, <1>10, <2>1, <2>2, Places
<1>13. depth' \in 1 .. MaxDepth BY <1>1 DEF AllocInv, ScalarsTyped
<1>14. mem' = [mem EXCEPT ![a] = w] BY <1>1, <1>3
<1> QED BY <1>1, <1>4, <1>11, <1>12, <1>13, <1>14, ClientKept

\* Where frames are.
LEMMA SlotsThere ==
    ASSUME AllocConstants, AllocInv
    PROVE  /\ depth \in 1 .. MaxDepth /\ depth + 1 \in 1 .. MaxDepth + 1
           /\ SavedRbp(depth) \in Slots /\ SavedRbp(depth + 1) \in Slots
           /\ Local(depth + 1) \in Tops /\ Local(depth + 1) \notin Slots
           /\ StackTopVar \notin Slots /\ FrameBottomVar \notin Slots
           /\ StackTopVar # FrameBottomVar /\ Slots \subseteq Areas \ {HeapVar}
           /\ Slots \subseteq WordSet /\ Tops \subseteq WordSet
           /\ {StackTopVar, FrameBottomVar, Local(depth + 1)} \subseteq Areas \ {HeapVar}
           /\ Local(depth + 1) # StackTopVar /\ Local(depth + 1) # FrameBottomVar
<1>1. NumGlobals \in Nat /\ MaxDepth \in Nat \ {0} /\ 3 * MaxDepth + NumGlobals < 47
  BY AllocAssumption DEF AllocConstants
<1>2. depth \in 1 .. MaxDepth /\ depth + 1 \in 1 .. MaxDepth + 1 /\ depth \in 1 .. MaxDepth + 1
  BY <1>1 DEF AllocInv, ScalarsTyped
<1>3. StackTopVar = 101 /\ FrameBottomVar = 102 BY DEF StackTopVar, FrameBottomVar, __data_start
<1>4. \A d \in 1 .. MaxDepth + 1 : SavedRbp(d) = 153 - 3 * d /\ Local(d) = 152 - 3 * d
  BY <1>1 DEF SavedRbp, Local
<1>5. SavedRbp(depth) \in Slots /\ SavedRbp(depth + 1) \in Slots /\ Local(depth + 1) \in Tops
  BY <1>2 DEF Slots, Tops
<1>6. StackTopVar \notin Slots /\ FrameBottomVar \notin Slots BY <1>1, <1>3, <1>4 DEF Slots
<1>7. Slots \subseteq Areas \ {HeapVar} BY Places DEF Slots
<1>8. Slots \subseteq WordSet /\ Tops \subseteq WordSet
  <2>1. \A a \in Areas : a \in WordSet BY Places
  <2>2. Tops \subseteq Areas BY Places DEF Tops
  <2> QED BY <1>7, <2>1, <2>2
<1>9. {StackTopVar, FrameBottomVar, Local(depth + 1)} \subseteq Areas \ {HeapVar} BY <1>2, Places
<1>10. Local(depth + 1) \notin FrameWords BY <1>2, FrameWordsApart
<1>11. Local(depth + 1) \notin Slots /\ Local(depth + 1) # StackTopVar
       /\ Local(depth + 1) # FrameBottomVar
  BY <1>10 DEF FrameWords
<1>12. StackTopVar # FrameBottomVar BY <1>3
<1> QED BY <1>2, <1>5, <1>6, <1>7, <1>8, <1>9, <1>11, <1>12

\* A function is called.
LEMMA CallKept ==
    ASSUME AllocConstants, AllocInv, FramesKept, CallFunction
    PROVE  AllocInv' /\ FramesKept' /\ Adds({})
<1>1. /\ gc.at = "client" /\ UNCHANGED <<initialized, total_heap_size, gc, owed>>
      /\ depth' = depth + 1 /\ depth < MaxDepth
  BY DEF CallFunction, ClientStep
<1>2. PICK s, t, l : s = SavedRbp(depth + 1) /\ t = SavedRbp(depth) /\ l = Local(depth + 1) OBVIOUS
<1>3. mem' = [mem EXCEPT ![s] = t, ![l] = 0] BY <1>2 DEF CallFunction
<1>4. /\ s \in Slots /\ t \in Slots /\ s \in Areas \ {HeapVar} /\ l \in Areas \ {HeapVar}
      /\ t \in WordSet /\ l \notin Slots /\ l # StackTopVar /\ l # FrameBottomVar
      /\ s # StackTopVar /\ s # FrameBottomVar
  BY <1>2, SlotsThere
<1>5. mem \in [DOMAIN mem -> WordSet] /\ Areas \subseteq DOMAIN mem BY InvGives
<1>6. /\ mem' \in [DOMAIN mem -> WordSet] /\ mem'[s] = t
      /\ \A a \in DOMAIN mem : a # s /\ a # l => mem'[a] = mem[a]
  <2>1. s # l /\ s \in DOMAIN mem /\ l \in DOMAIN mem /\ 0 \in WordSet BY <1>4, <1>5, Places
  <2>2. mem' \in [DOMAIN mem -> WordSet] BY <1>3, <1>4, <1>5, <2>1
  <2>3. mem'[s] = t BY <1>3, <2>1
  <2>4. \A a \in DOMAIN mem : a # s /\ a # l => mem'[a] = mem[a] BY <1>3
  <2> QED BY <2>2, <2>3, <2>4
<1>7. Quiet BY <1>1, <1>4, <1>6, OutsideKeeps
<1>8. gc' \in [at : {"client", "exit", "crash", "hang"}] BY <1>1, GcKinds DEF AllocInv
<1>9. GcTyped' BY <1>8 DEF GcTyped
<1>10. initialized = 1 => Unmerged(mem, Blocks) = {} BY <1>1 DEF AllocInv, HeapKept
<1>11. depth' \in 1 .. MaxDepth BY <1>1, SlotsThere, AllocAssumption
<1>12. AllocInv' /\ Adds({}) BY <1>1, <1>7, <1>9, <1>10, <1>11, QuietStep
<1>13. \A a \in Slots : mem'[a] \in Slots \union {0}
  <2> SUFFICES ASSUME NEW a \in Slots PROVE mem'[a] \in Slots \union {0} OBVIOUS
  <2>1. a \in DOMAIN mem /\ a # l BY <1>4, <1>5, SlotsThere
  <2> QED BY <1>4, <1>6, <2>1 DEF FramesKept
<1>14. mem'[StackTopVar] = mem[StackTopVar] /\ mem'[FrameBottomVar] = mem[FrameBottomVar]
  BY <1>4, <1>5, <1>6, SlotsThere
<1>15. FramesKept' BY <1>1, <1>13, <1>14 DEF FramesKept, _stack_top, _frame_bottom
<1> QED BY <1>12, <1>15

\* A function returns, or nothing happens.
LEMMA ReturnKept ==
    ASSUME AllocConstants, AllocInv, FramesKept, ReturnFunction \/ UNCHANGED vars
    PROVE  AllocInv' /\ FramesKept' /\ Adds({})
<1>1. UNCHANGED <<mem, initialized, total_heap_size, gc, owed>>
  BY DEF ReturnFunction, ClientStep, vars
<1>2. mem' \in [DOMAIN mem -> WordSet] BY <1>1, InvGives
<1>3. Quiet BY <1>1, <1>2, OutsideKeeps
<1>4. depth' \in 1 .. MaxDepth
  <2>1. depth \in 1 .. MaxDepth BY DEF AllocInv, ScalarsTyped
  <2> QED BY <2>1, AllocAssumption DEF ReturnFunction, vars
<1>5. GcTyped'
  <2>1. CASE ReturnFunction
    <3>1. gc' \in [at : {"client", "exit", "crash", "hang"}]
      BY <1>1, <2>1, GcKinds DEF AllocInv, ReturnFunction, ClientStep
    <3> QED BY <3>1 DEF GcTyped
  <2>2. CASE UNCHANGED vars
    <3>1. depth' = depth BY <2>2 DEF vars
    <3>2. Roots' = Roots BY <3>1 DEF Roots, Local, SavedRbp
    <3> QED BY <1>1, <3>2 DEF AllocInv, GcTyped, Calls
  <2> QED BY <2>1, <2>2
<1>6. initialized = 1 =>
        /\ gc'.at \in {"client", "take", "globals", "stack", "heap"} => Unmerged(mem, Blocks) = {}
        /\ gc'.at \in {"globals", "stack", "heap"} => gc'.prev = 0
        /\ gc'.at = "take" => Usable(mem, Blocks, gc'.size) # {}
        /\ gc'.at = "sweep" => SweepAt(mem, Blocks, gc'.cur, gc'.prev)
  BY <1>1 DEF AllocInv, HeapKept
<1>7. AllocInv' /\ Adds({}) BY <1>3, <1>4, <1>5, <1>6, QuietStep
<1> QED BY <1>1, <1>7, FramesSame

\* A call has a frame.
LEMMA FrameFrames ==
    ASSUME AllocConstants, AllocInv, NEW m, m \in [DOMAIN m -> WordSet], Areas \subseteq DOMAIN m,
           \A a \in Slots : m[a] \in Slots \union {0}, mem' = FrameOf(m)
    PROVE  FramesKept'
<1>1. PICK s, t, l : s = SavedRbp(depth + 1) /\ t = SavedRbp(depth) /\ l = Local(depth + 1) OBVIOUS
<1>2. mem' = [m EXCEPT ![s] = t, ![StackTopVar] = l, ![FrameBottomVar] = s]
  BY <1>1 DEF FrameOf
<1>3. /\ s \in Slots /\ t \in Slots /\ l \in Tops /\ StackTopVar \notin Slots
      /\ FrameBottomVar \notin Slots /\ StackTopVar # FrameBottomVar
      /\ Slots \subseteq Areas /\ StackTopVar \in Areas /\ FrameBottomVar \in Areas
  BY <1>1, SlotsThere
<1>4. mem'[StackTopVar] = l /\ mem'[FrameBottomVar] = s BY <1>2, <1>3
<1>5. \A a \in Slots : mem'[a] \in Slots \union {0}
  <2> SUFFICES ASSUME NEW a \in Slots PROVE mem'[a] \in Slots \union {0} OBVIOUS
  <2>1. a \in DOMAIN m /\ a # StackTopVar /\ a # FrameBottomVar BY <1>3
  <2>2. mem'[a] = IF a = s THEN t ELSE m[a] BY <1>2, <2>1
  <2> QED BY <1>3, <2>2
<1> QED BY <1>3, <1>4, <1>5 DEF FramesKept, _stack_top, _frame_bottom

\* At first there are no frames.
LEMMA FramesAtFirst ==
    ASSUME AllocConstants, Init
    PROVE  FramesKept
<1>1. Slots \subseteq Areas BY Places DEF Slots
<1>2. initialized # 1 /\ \A a \in Slots : mem[a] = 0 BY <1>1 DEF Init
<1> QED BY <1>2 DEF FramesKept

\* The frames after memInitialize.
LEMMA InitializeFrames ==
    ASSUME AllocConstants, AllocInv, FramesKept, NEW n \in InitSizes, memInitialize(n)
    PROVE  FramesKept'
<1>1. CASE UNCHANGED mem /\ initialized' # 1
  <2>1. \A a \in Slots : mem'[a] \in Slots \union {0} BY <1>1 DEF FramesKept
  <2> QED BY <1>1, <2>1 DEF FramesKept
<1>2. CASE UNCHANGED <<mem, initialized>> BY <1>2, FramesSame
<1>3. CASE mem' = FrameOf([a \in Areas \union HeapStart .. HeapStart + (Wrap(n * 6) \div 5) + Behind |->
                             IF a = HeapVar THEN HeapStart
                             ELSE IF a = HeapStart THEN infoMake(0, 0, Wrap((Wrap(n * 6) \div 5) - BLOCK_SIZE))
                             ELSE IF a \in Areas THEN mem[a] ELSE 0])
  <2>1. PICK h : h = Wrap((Wrap(n * 6) \div 5) - BLOCK_SIZE) OBVIOUS
  <2>2. PICK i : i = infoMake(0, 0, h) OBVIOUS
  <2>3. PICK D : D = Areas \union HeapStart .. HeapStart + (Wrap(n * 6) \div 5) + Behind OBVIOUS
  <2> DEFINE base == [a \in D |-> IF a = HeapVar THEN HeapStart
                                  ELSE IF a = HeapStart THEN i
                                  ELSE IF a \in Areas THEN mem[a] ELSE 0]
  <2>4. mem' = FrameOf(base) BY <1>3, <2>1, <2>2, <2>3
  <2>5. PICK s, t, l : s = SavedRbp(depth + 1) /\ t = SavedRbp(depth) /\ l = Local(depth + 1) OBVIOUS
  <2>6. mem' = [base EXCEPT ![s] = t, ![StackTopVar] = l, ![FrameBottomVar] = s]
    BY <2>4, <2>5 DEF FrameOf
  <2>7. /\ s \in Slots /\ t \in Slots /\ l \in Tops /\ StackTopVar \notin Slots
        /\ FrameBottomVar \notin Slots /\ StackTopVar # FrameBottomVar
        /\ Slots \subseteq Areas \ {HeapVar}
        /\ StackTopVar \in Areas /\ FrameBottomVar \in Areas
    BY <2>5, SlotsThere
  <2>8. HeapStart \notin Slots
    <3>1. \A a \in Areas : a # HeapStart BY Places
    <3> QED BY <2>7, <3>1
  <2>9. \A a \in Slots : a \in D /\ base[a] = mem[a] BY <2>3, <2>7, <2>8
  <2>10. DOMAIN base = D OBVIOUS
  <2> HIDE DEF base
  <2>11. mem'[StackTopVar] = l /\ mem'[FrameBottomVar] = s BY <2>3, <2>6, <2>7, <2>10
  <2>12. \A a \in Slots : mem'[a] \in Slots \union {0}
    <3> SUFFICES ASSUME NEW a \in Slots PROVE mem'[a] \in Slots \union {0} OBVIOUS
    <3>1. a \in DOMAIN base /\ a # StackTopVar /\ a # FrameBottomVar BY <2>7, <2>9, <2>10
    <3>2. mem'[a] = IF a = s THEN t ELSE base[a] BY <2>6, <3>1
    <3> QED BY <2>7, <2>9, <3>2 DEF FramesKept
  <2> QED BY <2>7, <2>11, <2>12 DEF FramesKept, _stack_top, _frame_bottom
<1> QED BY <1>1, <1>2, <1>3 DEF memInitialize

\* The frames after the call of memAllocate.
LEMMA AllocateFrames ==
    ASSUME AllocConstants, AllocInv, FramesKept, NEW q \in Requests, NEW r \in Roots,
           memAllocate(q[1], q[2], r)
    PROVE  FramesKept'
<1>1. mem \in [DOMAIN mem -> WordSet] /\ Areas \subseteq DOMAIN mem BY InvGives
<1>2. CASE mem' = [mem EXCEPT ![r] = 0] /\ UNCHANGED initialized
  <2>1. \A a \in FrameWords : a # r /\ a \in DOMAIN mem BY <1>1, FrameWordsApart
  <2>2. \A a \in FrameWords : mem'[a] = mem[a] BY <1>2, <2>1
  <2> QED BY <1>2, <2>2, FramesSame
<1>3. CASE mem' = FrameOf(mem)
  <2>1. \A a \in Slots : mem[a] \in Slots \union {0} BY DEF FramesKept
  <2> QED BY <1>1, <1>3, <2>1, FrameFrames
<1> QED BY <1>2, <1>3 DEF memAllocate

\* The return of memAllocate leaves the frames as they are.
LEMMA TakeFrames ==
    ASSUME AllocConstants, AllocInv, FramesKept, take
    PROVE  FramesKept'
<1>1. gc.at = "take" /\ UNCHANGED initialized BY DEF take
<1>2. PICK b : b = nextBlockOfSize(gc.size) OBVIOUS
<1>3. b \in Nat /\ b >= HeapStart /\ gc.size \in WordSet /\ gc \in Calls BY <1>1, <1>2, TakeFacts
<1>4. PICK x : x = b + BLOCK_SIZE + gc.size OBVIOUS
<1>5. x \in Nat /\ x >= HeapStart /\ HeapStart = 160
  <2>1. PICK z : z = gc.size OBVIOUS
  <2>2. z \in Nat
    <3>1. z \in WordSet BY <1>3, <2>1
    <3> QED BY <3>1, Places
  <2>3. x = b + 3 + z BY <1>4, <2>1 DEF BLOCK_SIZE
  <2> QED BY <1>3, <2>2, <2>3, Places
<1>6. PICK l, r : l = Local(depth + 1) /\ r = gc.into OBVIOUS
<1>7. l \notin FrameWords /\ r \notin FrameWords
  <2>1. r \in Roots BY <1>3, <1>6 DEF Calls
  <2>2. depth + 1 \in 1 .. MaxDepth + 1 BY SlotsThere
  <2> QED BY <1>6, <2>1, <2>2, FrameWordsApart
<1>8. \A a \in FrameWords : a \notin {b, b + 1, b + 2, x, x + 1, x + 2, l, r}
  <2>1. \A a \in FrameWords : a \in Nat /\ a < HeapStart BY FrameWordsApart
  <2> QED BY <1>3, <1>5, <1>7, <2>1
<1>9. PICK i0, i1, i2, n, f : /\ i0 = infoMake(0, 0, Wrap(Wrap(Size(b) - gc.size) - BLOCK_SIZE))
                              /\ i1 = infoMake(1, 0, gc.size) /\ i2 = infoMake(1, 0, Size(b))
                              /\ n = next(b) /\ f = gc.finalize
  OBVIOUS
<1>10. PICK p : p = b + BLOCK_SIZE OBVIOUS
<1>11. \/ mem' = [[mem EXCEPT ![x] = i0, ![x + 1] = n, ![x + 2] = 0, ![b] = i1, ![b + 1] = x,
                              ![b + 2] = f, ![l] = x] EXCEPT ![r] = p]
       \/ mem' = [[mem EXCEPT ![b] = i2, ![b + 2] = f] EXCEPT ![r] = p]
  BY <1>2, <1>4, <1>6, <1>9, <1>10 DEF take, Return
<1>12. \A a \in FrameWords : a \in DOMAIN mem BY InvGives, FrameWordsApart
<1>13. \A a \in FrameWords : mem'[a] = mem[a]
  <2> SUFFICES ASSUME NEW a \in FrameWords PROVE mem'[a] = mem[a] OBVIOUS
  <2>1. a \in DOMAIN mem /\ a \notin {b, b + 1, b + 2, x, x + 1, x + 2, l, r} BY <1>8, <1>12
  <2> QED BY <1>11, <2>1
<1> QED BY <1>1, <1>13, FramesSame
-----------------------------------------------------------------------------
(***************************************************************************)
(* The theorems.                                                           *)
(***************************************************************************)
\* Every step keeps the invariant, if the block that is taken is large enough.
LEMMA StepKept ==
    ASSUME AllocConstants, AllocInv, FramesKept, [Next]_vars, TakesFitting \/ UNCHANGED vars
    PROVE  AllocInv' /\ FramesKept'
<1>1. \A s \in Roots : mem[s] \in WordSet BY InvGives
<1>2. 0 \in WordSet BY Places
<1>3. CASE Client
  <2>5. Local(depth) \in Roots BY DEF Roots
  <2>1. ASSUME NEW n \in InitSizes, memInitialize(n) PROVE AllocInv' /\ FramesKept'
    BY <2>1, InitializeKept, InitializeFrames
  <2>2. ASSUME NEW q \in Requests, NEW r \in Roots, memAllocate(q[1], q[2], r)
        PROVE  AllocInv' /\ FramesKept'
    BY <2>2, AllocateKept, AllocateFrames
  <2>3. ASSUME NEW r \in Roots, NEW w \in WordSet, Assign(r, w) PROVE AllocInv' /\ FramesKept'
    BY <2>3, AssignKept
  <2>4. ASSUME NEW r \in Roots, NEW o \in Offsets, NEW w \in WordSet, StoreWord(r, o, w)
        PROVE  AllocInv' /\ FramesKept'
    BY <2>4, StoreKept
  <2> QED BY <1>1, <1>2, <1>3, <2>1, <2>2, <2>3, <2>4, <2>5, CallKept, ReturnKept DEF Client
<1>4. CASE take
  <2>1. CASE UNCHANGED vars BY <2>1, ReturnKept
  <2>2. CASE TakesFitting BY <1>4, <2>2, TakeKept, TakeFrames DEF TakesFitting
  <2> QED BY <2>1, <2>2
<1>5. CASE UNCHANGED vars BY <1>5, ReturnKept
<1> QED BY <1>3, <1>4, <1>5, GlobalsKept, StackKept, HeapScanKept, KeepKept, FreeKept, RetryKept
        DEF Next

\* A heap with the invariant is whole.
LEMMA InvSound ==
    ASSUME AllocConstants, AllocInv
    PROVE  HeapSound
<1>1. PICK B, m, e : B = Blocks /\ m = mem /\ e = End OBVIOUS
<1>2. m \in [DOMAIN m -> WordSet] /\ e \in Int /\ e = HeapStart + total_heap_size BY <1>1, InvGives
<1>3. initialized = 1 =>
        /\ Tiling(m, e, B) /\ Sized(m, B) /\ heap = HeapStart /\ Sound(m, e, B, owed)
        /\ \A b \in B : Size(b) = SizeW(m[b]) /\ next(b) = m[b + 1]
                        /\ (IsAlloc(b) <=> AllocW(m[b])) /\ finalizer(b) = m[b + 2]
  <2>1. \A b \in B : Size(b) = SizeW(m[b]) /\ next(b) = m[b + 1]
                        /\ (IsAlloc(b) <=> AllocW(m[b])) /\ finalizer(b) = m[b + 2]
    BY <1>1 DEF Size, SizeW, next, IsAlloc, AllocW, finalizer, info
  <2> QED BY <1>1, <2>1, InvGives
<1>4. TypeOK
  <2>1. \A a \in DOMAIN mem : mem[a] \in 0 .. 2^WordBits - 1 BY <1>1, <1>2 DEF WordSet
  <2>2. initialized \in {-1, 0, 1} /\ depth \in 1 .. MaxDepth BY DEF AllocInv, ScalarsTyped
  <2>3. gc.at \in {"client", "take", "globals", "stack", "heap", "sweep", "exit", "crash", "hang"}
    BY DEF AllocInv, GcTyped, Calls, Stages
  <2>4. \A f \in Finalizers : owed[f] \in Nat
    BY <1>3 DEF Sound, AllocInv, ScalarsTyped
  <2> QED BY <2>1, <2>2, <2>3, <2>4 DEF TypeOK
<1>5. HeapTiled
  <2> SUFFICES ASSUME initialized = 1, NEW b \in Blocks
               PROVE  /\ b + BLOCK_SIZE + Size(b) = IF next(b) = 0 THEN heap + total_heap_size ELSE next(b)
                      /\ next(b) = 0 \/ next(b) > b
    BY DEF HeapTiled
  <2>1. b \in B /\ Size(b) = SizeW(m[b]) /\ next(b) = m[b + 1] BY <1>1, <1>3
  <2>2. /\ \A c \in B : m[c + 1] # 0 => m[c + 1] = c + 3 + SizeW(m[c]) /\ m[c + 1] > c
        /\ \A c \in B : m[c + 1] = 0 => c + 3 + SizeW(m[c]) = e
    BY <1>2, <1>3, TilingGives
  <2>3. e = heap + total_heap_size BY <1>2, <1>3
  <2> QED BY <2>1, <2>2, <2>3 DEF BLOCK_SIZE
<1>6. FreeIsMerged
  <2> SUFFICES ASSUME initialized = 1, gc.at \in {"client", "take"}, NEW b \in Blocks,
                      ~IsAlloc(b), next(b) # 0
               PROVE  IsAlloc(next(b))
    BY DEF FreeIsMerged
  <2>1. Unmerged(m, B) = {} BY <1>1 DEF AllocInv, HeapKept
  <2>2. b \in B /\ ~AllocW(m[b]) /\ next(b) = m[b + 1] BY <1>1, <1>3
  <2>3. AllocW(m[m[b + 1]]) BY <2>1, <2>2 DEF Unmerged
  <2> QED BY <1>1, <2>2, <2>3 DEF IsAlloc, AllocW, info
<1>7. FinalizedOnce
  <2> SUFFICES ASSUME initialized = 1, NEW f \in Finalizers
               PROVE  owed[f] = Cardinality({b \in Blocks : IsAlloc(b) /\ finalizer(b) = f})
    BY DEF FinalizedOnce
  <2>1. owed[f] = Cardinality(Owing(m, B, f)) BY <1>3 DEF Sound
  <2>2. {b \in Blocks : IsAlloc(b) /\ finalizer(b) = f} = Owing(m, B, f)
    BY <1>1, <1>3 DEF Owing
  <2> QED BY <2>1, <2>2
<1> QED BY <1>4, <1>5, <1>6, <1>7 DEF HeapSound

\* Whatever the client does, the heap stays whole, as long as every block that
\* is taken is at least as large as the request: nextBlockOfSize asks for
\* size - BLOCK_SIZE words only.
THEOREM WholeIfFitting ==
    ASSUME AllocConstants
    PROVE  Spec /\ [][TakesFitting]_vars => []HeapSound
<1> DEFINE Inv == AllocInv /\ FramesKept
<1>1. Init => Inv BY InitKept, FramesAtFirst
<1>2. Inv /\ [Next]_vars /\ [TakesFitting]_vars => Inv' BY StepKept
<1>3. Inv => HeapSound BY InvSound
<1> HIDE DEF Inv
<1> QED BY <1>1, <1>2, <1>3, PTL DEF Spec
-----------------------------------------------------------------------------
(***************************************************************************)
(* A client whose requests, with a header each, are multiples of some unit *)
(* of four or more words, in a heap that is one too.                       *)
(***************************************************************************)
AlignedTo(u) ==
    /\ \A q \in Requests : (q[1] + 3) % u = 0
    /\ \A n \in InitSizes : ((n * 6) \div 5) % u = 0

\* Then the blocks lie on a grid.
Grid(u) ==
    /\ initialized = 1 => /\ total_heap_size % u = 0
                          /\ \A b \in Blocks : (b - HeapStart) % u = 0
    /\ gc.at \in Stages => (gc.size + 3) % u = 0

\* Multiples of u.
LEMMA Multiples ==
    ASSUME NEW u \in Nat \ {0}, NEW x \in Int, NEW y \in Int, x % u = 0, y % u = 0
    PROVE  (x + y) % u = 0 /\ (x - y) % u = 0 /\ (x > y => x - y >= u)
<1> DEFINE j == x \div u
           k == y \div u
<1>1. j \in Int /\ k \in Int /\ x = u * j /\ y = u * k BY Z3
<1> HIDE DEF j, k
<1>2. PICK p \in Int, d \in Int : p = j + k /\ d = j - k BY <1>1
<1>3. x + y = p * u + 0 /\ x - y = d * u + 0 BY <1>1, <1>2, Z3
<1>4. 0 \in 0 .. u - 1 OBVIOUS
<1>5. (p * u + 0) % u = 0 /\ (d * u + 0) % u = 0 BY <1>2, <1>4, Division
<1>6. ASSUME x > y PROVE x - y >= u
  <2>1. d >= 1
    <3>1. CASE d <= 0
      <4>1. d * u <= 0 BY <1>2, <3>1, Z3
      <4> QED BY <1>3, <1>6, <4>1
    <3> QED BY <1>2, <3>1
  <2>2. d * u >= u BY <1>2, <2>1, Z3
  <2> QED BY <1>2, <1>3, <2>2
<1> QED BY <1>3, <1>5, <1>6

\* Then a block that is taken is large enough.
LEMMA GridFits ==
    ASSUME AllocConstants, AllocInv, NEW u \in Nat, u >= 4, Grid(u), gc.at = "take"
    PROVE  Size(nextBlockOfSize(gc.size)) >= gc.size
<1>1. PICK b : b = nextBlockOfSize(gc.size) OBVIOUS
<1>2. /\ initialized = 1 /\ gc.size \in WordSet /\ b \in Blocks /\ Size(b) = SizeW(mem[b])
      /\ Size(b) \in 0 .. MARK_BIT - 1
  BY <1>1, TakeFacts
<1>3. PICK s, z : s = Size(b) /\ z = gc.size OBVIOUS
<1>4. PICK k \in Nat : k = MARK_BIT /\ k >= 256 BY Places
<1>5. s \in Nat /\ s < k /\ z \in 0 .. 4 * k - 1 BY <1>2, <1>3, <1>4, Places
<1>6. s >= Wrap(z - 3)
  <2>1. Usable(mem, Blocks, gc.size) # {} BY <1>2 DEF AllocInv, HeapKept
  <2>2. b \in Usable(mem, Blocks, gc.size) BY <1>1, <1>2, <2>1, NextBlock
  <2> QED BY <1>2, <1>3, <2>2 DEF Usable, BLOCK_SIZE
<1>7. (z + 3) % u = 0 BY <1>3 DEF Grid, Stages
<1>8. (s + 3) % u = 0
  <2>1. PICK B, m, e : B = Blocks /\ m = mem /\ e = End OBVIOUS
  <2>2. Tiling(m, e, B) /\ Sized(m, B) /\ e \in Int /\ e = HeapStart + total_heap_size
    BY <1>2, <2>1, InvGives
  <2>3. /\ \A c \in B : c \in Nat
        /\ \A c \in B : m[c + 1] # 0 => m[c + 1] \in B /\ m[c + 1] = c + 3 + SizeW(m[c])
        /\ \A c \in B : m[c + 1] = 0 => c + 3 + SizeW(m[c]) = e
    BY <2>2, TilingGives
  <2>4. PICK y : y = b + 3 + s OBVIOUS
  <2>5. y \in B \/ y = e BY <1>2, <1>3, <2>1, <2>3, <2>4
  <2>6. b \in Nat /\ y \in Int /\ HeapStart \in Int BY <1>2, <1>5, <2>1, <2>3, <2>4, Places
  <2>7. total_heap_size \in Nat /\ total_heap_size % u = 0
    BY <1>2 DEF AllocInv, ScalarsTyped, Grid
  <2>8. (y - HeapStart) % u = 0
    <3>1. CASE y \in B BY <1>2, <2>1, <3>1 DEF Grid
    <3>2. CASE y = e
      <4>1. y - HeapStart = total_heap_size BY <2>2, <2>6, <2>7, <3>2
      <4> QED BY <2>7, <4>1
    <3> QED BY <2>5, <3>1, <3>2
  <2>9. (b - HeapStart) % u = 0 BY <1>2 DEF Grid
  <2>10. PICK p, q : p = y - HeapStart /\ q = b - HeapStart OBVIOUS
  <2>11. p \in Int /\ q \in Int /\ p % u = 0 /\ q % u = 0 BY <2>6, <2>8, <2>9, <2>10
  <2>12. u \in Nat \ {0} OBVIOUS
  <2>13. (p - q) % u = 0 BY <2>11, <2>12, Multiples, Zenon
  <2>14. p - q = s + 3 BY <1>5, <2>4, <2>6, <2>10
  <2> QED BY <2>13, <2>14
<1>9. ASSUME s < z PROVE FALSE
  <2>1. z + 3 > s + 3 /\ z + 3 \in Int /\ s + 3 \in Int BY <1>5, <1>9
  <2>2. (z + 3) - (s + 3) >= u BY <1>7, <1>8, <2>1, Multiples
  <2>3. z - 3 > s /\ z - 3 \in 0 .. 4 * k - 1 /\ z - 3 \in Int BY <1>5, <2>2
  <2>4. z - 3 \in WordSet BY <1>4, <2>3, Places
  <2>5. Wrap(z - 3) = z - 3 BY <2>3, <2>4, Wraps
  <2> QED BY <1>5, <1>6, <2>3, <2>5
<1>10. s >= z BY <1>5, <1>9
<1> QED BY <1>1, <1>3, <1>10

\* A request stays as it is.
SameRequest == gc'.at \in Stages => gc.at \in Stages /\ gc'.size = gc.size

\* The heap's size and the request in the steps that are no calls.
LEMMA OtherSteps ==
    ASSUME AllocConstants, AllocInv, FramesKept,
           \/ markGlobals \/ markStack \/ markHeap \/ sweepKeep \/ sweepFree \/ retry \/ take
    PROVE  SameRequest /\ UNCHANGED <<initialized, total_heap_size>>
<1>1. UNCHANGED <<initialized, total_heap_size>>
  BY DEF markGlobals, markStack, markHeap, Continue, sweepKeep, sweepFree, retry, take
<1>2. gc.at \in Stages
  BY DEF markGlobals, markStack, markHeap, sweepKeep, sweepFree, retry, take, Stages
<1>3. gc \in Calls /\ initialized = 1 BY <1>2, GcKinds DEF AllocInv
<1>4. ASSUME NEW acc \in Results, acc.end # "", gc' = [at |-> acc.end] PROVE SameRequest
  <2>1. gc'.at \in {"hang", "crash", "exit"} BY <1>4 DEF Results, Ends
  <2> QED BY <2>1 DEF SameRequest, Stages
<1>5. ASSUME NEW at, gc' = [gc EXCEPT !.at = at] PROVE SameRequest
  BY <1>2, <1>3, <1>5 DEF SameRequest, Calls
<1>6. CASE markGlobals
  <2>1. PICK acc : acc = Scan(Addresses(__data_start, _end - 1), {0, HeapVar}, TRUE) OBVIOUS
  <2>2. acc \in Results BY <1>3, <2>1, SearchedThere, ScanGives
  <2> QED BY <1>4, <1>5, <1>6, <2>1, <2>2 DEF markGlobals, Continue
<1>7. CASE markStack
  <2>1. PICK acc : acc = Scan(Addresses(_stack_top, LastFrame), {0}, TRUE) OBVIOUS
  <2>2. acc \in Results BY <1>3, <2>1, SearchedThere, ScanGives
  <2> QED BY <1>4, <1>5, <1>7, <2>1, <2>2 DEF markStack, Continue
<1>8. CASE markHeap
  <2>1. PICK acc : acc = Scan(AllData, {0}, FALSE) OBVIOUS
  <2>2. acc \in Results BY <1>3, <2>1, SearchedThere, ScanGives
  <2>3. \/ acc.end # "" /\ gc' = [at |-> acc.end]
        \/ gc' = gc
        \/ gc' = [gc EXCEPT !.at = "sweep", !.cur = heap]
    BY <1>8, <2>1 DEF markHeap
  <2> QED BY <1>1, <1>2, <1>3, <1>4, <2>2, <2>3 DEF SameRequest, Calls
<1>9. CASE sweepKeep BY <1>2, <1>3, <1>9 DEF sweepKeep, SameRequest, Calls
<1>10. CASE sweepFree
  <2>1. PICK b, n, p, w : /\ b = gc.cur /\ n = next(b)
                          /\ p = IF gc.prev = 0 THEN b ELSE gc.prev
                          /\ w = gc.words_freed + (IF IsAlloc(b) THEN Size(b) ELSE 0)
                                                + (IF gc.prev # 0 THEN BLOCK_SIZE ELSE 0)
    OBVIOUS
  <2>2. \/ gc' = [at |-> "exit"]
        \/ gc' = [gc EXCEPT !.cur = n, !.prev = p, !.words_freed = w]
    BY <1>10, <2>1 DEF sweepFree
  <2>3. gc' = [at |-> "exit"] => SameRequest BY DEF SameRequest, Stages
  <2>4. gc' = [gc EXCEPT !.cur = n, !.prev = p, !.words_freed = w] => SameRequest
    BY <1>2, <1>3 DEF SameRequest, Calls
  <2> QED BY <1>1, <2>2, <2>3, <2>4
<1>11. CASE retry BY <1>2, <1>3, <1>5, <1>11 DEF retry, Return, Idle, SameRequest, Stages
<1>12. CASE take BY <1>12 DEF take, Return, Idle, SameRequest, Stages
<1> QED BY <1>1, <1>6, <1>7, <1>8, <1>9, <1>10, <1>11, <1>12

\* What has to be on the grid after a step that adds the blocks C.
LEMMA GridGrows ==
    ASSUME NEW u, Grid(u), NEW C, Adds(C), UNCHANGED <<initialized, total_heap_size>>,
           initialized = 1 => \A c \in C : (c - HeapStart) % u = 0,
           gc'.at \in Stages => (gc'.size + 3) % u = 0
    PROVE  Grid(u)'
<1>1. initialized' = 1 => \A b \in Blocks' : b \in Blocks \/ b \in C BY DEF Adds
<1>2. initialized' = 1 => \A b \in Blocks' : (b - HeapStart) % u = 0 BY <1>1 DEF Grid
<1>3. initialized' = 1 => total_heap_size' % u = 0 BY DEF Grid
<1> QED BY <1>2, <1>3 DEF Grid, HeapStart

\* Every step keeps to the grid.
LEMMA GridKept ==
    ASSUME AllocConstants, NEW u \in Nat, u >= 4, AlignedTo(u), AllocInv, FramesKept, Grid(u),
           [Next]_vars
    PROVE  AllocInv' /\ FramesKept' /\ Grid(u)' /\ [TakesFitting]_vars
<1>1. TakesFitting
  <2>1. take => gc.at = "take" BY DEF take
  <2> QED BY <2>1, GridFits DEF TakesFitting
<1>2. AllocInv' /\ FramesKept' BY <1>1, StepKept
<1>3. \A s \in Roots : mem[s] \in WordSet BY InvGives
<1>4. 0 \in WordSet BY Places
<1>5. SameRequest => (gc'.at \in Stages => (gc'.size + 3) % u = 0) BY DEF SameRequest, Grid
<1> DEFINE Steady == Adds({}) /\ UNCHANGED <<initialized, total_heap_size>>
                     /\ (gc'.at \in Stages => (gc'.size + 3) % u = 0)
<1>6. Steady => Grid(u)'
  <2>1. PICK C : C = {} OBVIOUS
  <2>2. \A c \in C : (c - HeapStart) % u = 0 BY <2>1
  <2> QED BY <2>1, <2>2, GridGrows
<1>7. ASSUME Client PROVE Grid(u)'
  <2>1. ASSUME NEW n \in InitSizes, memInitialize(n) PROVE Grid(u)'
    <3>1. Adds({HeapStart}) BY <2>1, InitializeKept
    <3>2. gc' = gc BY <2>1 DEF memInitialize
    <3>3. gc'.at \in Stages => (gc'.size + 3) % u = 0 BY <3>2 DEF Grid
    <3>4. initialized' = 1 => total_heap_size' % u = 0
      <4>1. CASE initialized = 1 /\ UNCHANGED total_heap_size BY <4>1 DEF Grid
      <4>2. CASE n > 0 /\ total_heap_size' = Wrap(n * 6) \div 5
        <5>1. n \in Nat /\ n >= 3 /\ 160 + 2 * n <= MARK_BIT /\ WordSet = 0 .. 4 * MARK_BIT - 1
              /\ MARK_BIT \in Nat
          BY <4>2, Places, SMTT(30) DEF AllocConstants
        <5>2. n * 6 \in WordSet /\ n * 6 \in Int BY <5>1
        <5>3. Wrap(n * 6) = n * 6 BY <5>2, Wraps
        <5> QED BY <4>2, <5>3 DEF AlignedTo
      <4> QED BY <2>1, <4>1, <4>2 DEF memInitialize
    <3>5. initialized # 1 => Blocks = {} BY DEF Blocks, BlockList, Range
    <3>6. \A b \in Blocks : (b - HeapStart) % u = 0 BY <3>5 DEF Grid
    <3>7. (HeapStart - HeapStart) % u = 0
      <4>1. (0 * u + 0) % u = 0 BY Division
      <4>2. HeapStart - HeapStart = 0 * u + 0 BY Places
      <4> QED BY <4>1, <4>2
    <3>8. initialized' = 1 => \A b \in Blocks' : (b - HeapStart) % u = 0
      BY <3>1, <3>6, <3>7 DEF Adds
    <3> QED BY <3>3, <3>4, <3>8 DEF Grid, HeapStart
  <2>2. ASSUME NEW q \in Requests, NEW r \in Roots, memAllocate(q[1], q[2], r) PROVE Steady
    <3>1. Adds({}) BY <2>2, AllocateKept
    <3>2. UNCHANGED <<initialized, total_heap_size>> BY <2>2 DEF memAllocate
    <3>3. gc' = gc \/ gc'.size = q[1] BY <2>2 DEF memAllocate
    <3>4. gc'.at \in Stages => (gc'.size + 3) % u = 0 BY <3>3 DEF Grid, AlignedTo
    <3> QED BY <3>1, <3>2, <3>4
  <2>3. ASSUME NEW r \in Roots, NEW w \in WordSet, Assign(r, w) PROVE Steady
    <3>1. UNCHANGED <<initialized, total_heap_size, gc>> BY <2>3 DEF Assign, ClientStep
    <3> QED BY <2>3, <3>1, AssignKept DEF Grid
  <2>4. ASSUME NEW r \in Roots, NEW o \in Offsets, NEW w \in WordSet, StoreWord(r, o, w)
        PROVE  Steady
    <3>1. UNCHANGED <<initialized, total_heap_size, gc>> BY <2>4 DEF StoreWord, ClientStep
    <3> QED BY <2>4, <3>1, StoreKept DEF Grid
  <2>5. ASSUME CallFunction PROVE Steady
    <3>1. UNCHANGED <<initialized, total_heap_size, gc>> BY <2>5 DEF CallFunction, ClientStep
    <3> QED BY <2>5, <3>1, CallKept DEF Grid
  <2>6. ASSUME ReturnFunction PROVE Steady
    <3>1. UNCHANGED <<initialized, total_heap_size, gc>> BY <2>6 DEF ReturnFunction, ClientStep
    <3> QED BY <2>6, <3>1, ReturnKept DEF Grid
  <2>7. Local(depth) \in Roots BY DEF Roots
  <2> HIDE DEF Steady
  <2> QED BY <1>3, <1>4, <1>6, <1>7, <2>1, <2>2, <2>3, <2>4, <2>5, <2>6, <2>7 DEF Client
<1>8. ASSUME markGlobals \/ markStack \/ markHeap \/ sweepKeep \/ sweepFree \/ retry PROVE Grid(u)'
  <2>1. SameRequest /\ UNCHANGED <<initialized, total_heap_size>> BY <1>8, OtherSteps
  <2>2. Adds({}) BY <1>8, GlobalsKept, StackKept, HeapScanKept, KeepKept, FreeKept, RetryKept
  <2> QED BY <1>5, <1>6, <2>1, <2>2
<1>9. ASSUME take PROVE Grid(u)'
  <2>1. SameRequest /\ UNCHANGED <<initialized, total_heap_size>> BY <1>9, OtherSteps
  <2>2. gc.at = "take" BY <1>9 DEF take
  <2>3. PICK b, z : b = nextBlockOfSize(gc.size) /\ z = gc.size OBVIOUS
  <2>4. Size(b) >= gc.size BY <2>2, <2>3, GridFits
  <2>5. Adds({b + 3 + z}) BY <1>9, <2>3, <2>4, TakeKept DEF BLOCK_SIZE
  <2>6. initialized = 1 /\ b \in Blocks /\ b \in Nat /\ z \in WordSet BY <2>2, <2>3, TakeFacts
  <2>7. z \in Nat /\ HeapStart \in Int
    <3>1. \A w \in WordSet : w \in Nat BY Places
    <3> QED BY <2>6, <3>1, Places
  <2>8. PICK p, q : p = b - HeapStart /\ q = z + 3 OBVIOUS
  <2>9. p \in Int /\ q \in Int /\ p % u = 0 /\ q % u = 0
    BY <2>2, <2>3, <2>6, <2>7, <2>8 DEF Grid, Stages
  <2>10. u \in Nat \ {0} OBVIOUS
  <2>11. (p + q) % u = 0 BY <2>9, <2>10, Multiples, Zenon
  <2>12. PICK x : x = b + 3 + z OBVIOUS
  <2>13. x - HeapStart = p + q BY <2>6, <2>7, <2>8, <2>12
  <2>14. PICK C : C = {x} OBVIOUS
  <2>15. Adds(C) /\ \A c \in C : (c - HeapStart) % u = 0 BY <2>5, <2>11, <2>12, <2>13, <2>14
  <2> QED BY <1>5, <2>1, <2>15, GridGrows
<1>10. ASSUME UNCHANGED vars PROVE Grid(u)'
  <2>1. UNCHANGED <<initialized, total_heap_size, gc>> BY <1>10 DEF vars
  <2> QED BY <1>6, <1>10, <2>1, ReturnKept DEF Grid
<1>11. Grid(u)' BY <1>7, <1>8, <1>9, <1>10 DEF Next
<1> QED BY <1>1, <1>2, <1>11

\* A client with such requests, of any unit u of four words or more, finds the
\* heap whole for ever, whatever else it does.
THEOREM WholeIfAligned ==
    ASSUME AllocConstants, NEW u \in Nat, u >= 4, AlignedTo(u)
    PROVE  Spec => []HeapSound
<1> DEFINE Inv == AllocInv /\ FramesKept /\ Grid(u)
<1>1. Init => Inv
  <2>1. Init => Grid(u) BY DEF Init, Grid, Idle, Stages
  <2> QED BY <2>1, InitKept, FramesAtFirst
<1>2. Inv /\ [Next]_vars => Inv' BY GridKept
<1>3. Inv => HeapSound BY InvSound
<1> HIDE DEF Inv
<1> QED BY <1>1, <1>2, <1>3, PTL DEF Spec
=============================================================================
