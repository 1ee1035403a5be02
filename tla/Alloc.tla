------------------------------- MODULE Alloc -------------------------------
(***************************************************************************)
(* The mark-and-sweep allocator A4/alloc.c and a client program.           *)
(*                                                                         *)
(* Memory is one array of words, as the collector sees it: the globals     *)
(* (the allocator's own static variables and the client's), the stack,     *)
(* which grows downward, and the heap of blocks, each a header of three    *)
(* words (info, next, finalizer) and its data.  Addresses count words; the *)
(* areas are placed so that no size or info word looks like an address.    *)
(* A stack frame is a return address, one local and the saved rbp; the     *)
(* frame of memAllocate has its variable new in the place of the local.    *)
(***************************************************************************)
EXTENDS Integers, Sequences, SequencesExt, FiniteSetsExt

CONSTANTS
    WordBits,       \* width of a word; 64 in the code
    InitSizes,      \* the sizes the client may call memInitialize with
    Requests,       \* its calls of memAllocate: pairs of a size, in words, and a
                    \* finalizer or 0
    Offsets,        \* the words of a block in which it stores pointers
    NumGlobals,     \* its global variables
    MaxDepth,       \* bound: its nested calls
    ChaseLimit      \* the limit on iterations in two of the scans; 100

ASSUME AllocAssumption ==
    /\ WordBits \in Nat \ {0} /\ ChaseLimit \in Nat \ {0}
    /\ \A q \in Requests : q[1] \in Nat /\ q[2] \in 0 .. 2
    /\ NumGlobals \in Nat /\ MaxDepth \in Nat \ {0}

VARIABLES
    mem,          \* the words
    initialized,  \* 0: no, 1: yes, -1: failed
    total_heap_size,
    depth,        \* the client's nested calls
    gc,           \* where memAllocate and markAndSweep are
    owed          \* finalizer calls the client still expects, by finalizer

vars == <<mem, initialized, total_heap_size, depth, gc, owed>>

Finalizers == 1 .. 2      \* the client's; 2 is one that calls memAllocate

ALLOC_BIT == 2^(WordBits-1)
MARK_BIT == 2^(WordBits-2)
SIZE_MASK == MARK_BIT - 1
BLOCK_SIZE == 3
Wrap(x) == x % 2^WordBits

__data_start == 100
HeapVar == __data_start
StackTopVar == __data_start + 1
FrameBottomVar == __data_start + 2
ClientGlobals == FrameBottomVar + 1 .. FrameBottomVar + NumGlobals
_end == FrameBottomVar + NumGlobals + 1
SavedRbp(d) == 150 - 3 * (d - 1)     \* frame d of the stack; main's is 1
Local(d) == SavedRbp(d) - 1
HeapStart == 160

heap == mem[HeapVar]
_stack_top == mem[StackTopVar]
_frame_bottom == mem[FrameBottomVar]

infoMake(alloc, mark, size) == alloc * ALLOC_BIT + mark * MARK_BIT + (size % MARK_BIT)
info(b) == mem[b]
next(b) == mem[b + 1]
finalizer(b) == mem[b + 2]
Size(b) == info(b) % MARK_BIT
IsMarked(b) == (info(b) \div MARK_BIT) % 2 = 1
IsAlloc(b) == info(b) \div ALLOC_BIT = 1

inGlobalRange(w) == __data_start <= w /\ w < _end
inStackRange(w) == _frame_bottom > w /\ w >= _stack_top
inHeapRange(w) == heap <= w /\ w < heap + total_heap_size

\* The words next to the heap, which are not part of it.
Behind == BLOCK_SIZE + Max({q[1] : q \in Requests})
Areas == __data_start .. _end - 1 \union SavedRbp(MaxDepth + 1) - 1 .. SavedRbp(1)
Idle == [at |-> "client"]

Init ==
    /\ mem = [a \in Areas |-> 0]
    /\ initialized = 0 /\ total_heap_size = 0
    /\ depth = 1
    /\ gc = Idle
    /\ owed = [f \in Finalizers |-> 0]
-----------------------------------------------------------------------------
(***************************************************************************)
(* The list of blocks, in its order, and the searches along it.  A list    *)
(* without end is cut off after as many headers as fit into the heap.      *)
(***************************************************************************)
BlocksWithin[k \in 0 .. total_heap_size \div BLOCK_SIZE] ==
    IF k = 0 THEN <<heap>>
    ELSE LET list == BlocksWithin[k - 1]
         IN IF next(Last(list)) = 0 THEN list ELSE Append(list, next(Last(list)))
BlockList == IF initialized = 1 THEN BlocksWithin[total_heap_size \div BLOCK_SIZE] ELSE <<>>
Blocks == Range(BlockList)

\* The walk stops at the first block that is not below ptr and returns the one
\* before it: NULL, written 0, if there is none.
BlockIn(blocks, ptr) ==
    LET before == {b \in blocks : b < ptr}
    IN IF ~inHeapRange(ptr) \/ before = blocks THEN 0
       ELSE IF before = {} THEN heap ELSE Max(before)
getBlock(ptr) == BlockIn(Blocks, ptr)

pointsToAllocatedData(ptr) == LET b == getBlock(ptr) IN b # 0 /\ IsAlloc(b)

\* size - BLOCK_SIZE is unsigned: for small sizes it wraps around.
nextBlockOfSize(size) ==
    LET fits(b) == Size(b) >= Wrap(size - BLOCK_SIZE) /\ ~IsAlloc(b)
        found == {k \in DOMAIN BlockList : fits(BlockList[k])}
    IN IF found = {} THEN 0 ELSE BlockList[Min(found)]

\* A call pushes the frame of its caller; it notes its own as the stack range.
FrameOf(m) == [m EXCEPT ![SavedRbp(depth + 1)] = SavedRbp(depth),
                        ![StackTopVar] = Local(depth + 1), ![FrameBottomVar] = SavedRbp(depth + 1)]

memInitialize(size) ==
    LET total == Wrap(size * 6) \div 5
    IN /\ gc.at = "client"
       /\ \/ /\ initialized # 0
             /\ UNCHANGED <<mem, initialized, total_heap_size>>
          \/ /\ initialized = 0      \* a size that is refused, or calloc fails
             /\ initialized' = -1 /\ UNCHANGED <<mem, total_heap_size>>
          \/ /\ initialized = 0 /\ size > 0 /\ size <= SIZE_MASK
             /\ total_heap_size' = total
             /\ mem' = FrameOf([a \in Areas \union HeapStart .. HeapStart + total + Behind |->
                                  IF a = HeapVar THEN HeapStart
                                  ELSE IF a = HeapStart THEN infoMake(0, 0, Wrap(total - BLOCK_SIZE))
                                  ELSE IF a \in Areas THEN mem[a] ELSE 0])
             /\ initialized' = 1
       /\ UNCHANGED <<depth, gc, owed>>
-----------------------------------------------------------------------------
(***************************************************************************)
(* memAllocate: into is the variable of the client that gets the result.   *)
(* What memInitialize returns is whether it has set initialized to 1.      *)
(***************************************************************************)
Return(m, value) ==
    /\ mem' = [m EXCEPT ![gc.into] = value]
    /\ gc' = Idle

memAllocate(size, finalize, into) ==
    /\ gc.at = "client"
    /\ \/ /\ initialized # 1
          /\ mem' = [mem EXCEPT ![into] = 0] /\ UNCHANGED gc
       \/ /\ initialized = 1
          /\ mem' = FrameOf(mem)      \* new is not initialised
          /\ gc' = [at |-> IF nextBlockOfSize(size) # 0 THEN "take" ELSE "globals",
                    size |-> size, finalize |-> finalize, into |-> into,
                    cur |-> 0, prev |-> 0, words_freed |-> 0]
    /\ UNCHANGED <<initialized, total_heap_size, depth, owed>>

\* The block found is split if what is left is more than a header; the
\* difference is unsigned.
take ==
    LET b == nextBlockOfSize(gc.size)
        rest == Wrap(Size(b) - gc.size)
        new == b + BLOCK_SIZE + gc.size
    IN /\ gc.at = "take"
       /\ \/ /\ rest >= BLOCK_SIZE + 1
             /\ Return([mem EXCEPT ![new] = infoMake(0, 0, Wrap(rest - BLOCK_SIZE)),
                                   ![new + 1] = next(b), ![new + 2] = 0,
                                   ![b] = infoMake(1, 0, gc.size), ![b + 1] = new,
                                   ![b + 2] = gc.finalize,
                                   ![Local(depth + 1)] = new], b + BLOCK_SIZE)
          \/ /\ rest < BLOCK_SIZE + 1
             /\ Return([mem EXCEPT ![b] = infoMake(1, 0, Size(b)), ![b + 2] = gc.finalize],
                       b + BLOCK_SIZE)
       /\ owed' = IF gc.finalize = 0 THEN owed ELSE [owed EXCEPT ![gc.finalize] = @ + 1]
       /\ UNCHANGED <<initialized, total_heap_size, depth>>
-----------------------------------------------------------------------------
(***************************************************************************)
(* Marking.  A word that is an address is followed until it leads to an    *)
(* allocated block that is not marked yet; the scans of globals and stack  *)
(* give up after ChaseLimit steps, the scan of the heap does not.          *)
(***************************************************************************)
BlockOf == LET blocks == Blocks
           IN [x \in heap .. heap + total_heap_size - 1 |-> BlockIn(blocks, x)]
Chase(blockOf, w, marked, limited) ==
    LET stops(x) == \/ x = 0
                    \/ /\ inHeapRange(x)
                       /\ blockOf[x] = 0 \/ (IsAlloc(blockOf[x]) /\ blockOf[x] \notin marked)
        step(x) == IF stops(x) THEN x
                      ELSE IF inHeapRange(x) \/ inGlobalRange(x) \/ inStackRange(x) THEN mem[x]
                      ELSE IF limited THEN x ELSE 0
        word[k \in 0 .. ChaseLimit] == IF k = 0 THEN w ELSE step(word[k - 1])
    IN [word |-> word[ChaseLimit], stopped |-> stops(word[ChaseLimit])]

\* Scanning word w with the result so far; end tells how the scan ends the
\* program, if it does.  No chase without a limit that has run for more steps
\* than there are words comes to an end.
ScanWord(blockOf, acc, w, limited) ==
    LET c == Chase(blockOf, w, acc.marked, limited)
    IN CASE acc.end # ""               -> acc
         [] ~c.stopped                 -> IF limited THEN acc ELSE [acc EXCEPT !.end = "hang"]
         [] c.stopped /\ c.word = 0    -> acc
         [] blockOf[c.word] = 0        -> [acc EXCEPT !.end = IF limited THEN "crash" ELSE "exit"]
         [] OTHER                      -> [acc EXCEPT !.marked = @ \union {blockOf[c.word]}]

Marked == {b \in Blocks : IsMarked(b)}
Scan(addresses, ignored, limited) ==
    LET blockOf == BlockOf
        result[k \in 0 .. Len(addresses)] ==
            IF k = 0 THEN [marked |-> Marked, end |-> ""]
            ELSE IF mem[addresses[k]] \in ignored THEN result[k - 1]
            ELSE ScanWord(blockOf, result[k - 1], mem[addresses[k]], limited)
    IN result[Len(addresses)]

SetMarks(marked) ==
    LET new == marked \ Marked
    IN mem' = [a \in DOMAIN mem |-> IF a \in new THEN mem[a] + MARK_BIT ELSE mem[a]]

Addresses(low, high) == [k \in 1 .. high - low + 1 |-> low + k - 1]

Continue(acc, at) ==
    /\ SetMarks(acc.marked)
    /\ gc' = IF acc.end # "" THEN [at |-> acc.end] ELSE [gc EXCEPT !.at = at]
    /\ UNCHANGED <<initialized, total_heap_size, depth, owed>>

\* 1a.  A global that holds the address of the variable heap is ignored; the
\* variable itself, which holds the address of the first block, is not.
markGlobals ==
    /\ gc.at = "globals"
    /\ Continue(Scan(Addresses(__data_start, _end - 1), {0, HeapVar}, TRUE), "stack")

\* Mutant: only the frame of memAllocate itself is searched.
LastFrameOwn == _frame_bottom
\* Every frame's bottom is the rbp saved at the bottom of the one before, until
\* that is not above it.
FrameAt[k \in 0 .. MaxDepth + 1] ==
    IF k = 0 THEN _frame_bottom
    ELSE IF mem[FrameAt[k-1]] > FrameAt[k-1] THEN mem[FrameAt[k-1]] ELSE FrameAt[k-1]
LastFrame == FrameAt[MaxDepth + 1]

\* 1b.  From the top of each frame to its bottom, both included.
markStack ==
    /\ gc.at = "stack"
    /\ Continue(Scan(Addresses(_stack_top, LastFrame), {0}, TRUE), "heap")

\* 1c.  All blocks, free and unmarked ones too, again until nothing is marked.
AnotherPass(marked) == marked # Marked

DataOf(b) == Addresses(b + BLOCK_SIZE, b + BLOCK_SIZE + Size(b) - 1)
AllData == FlattenSeq([k \in DOMAIN BlockList |-> DataOf(BlockList[k])])

markHeap ==
    /\ gc.at = "heap"
    /\ LET acc == Scan(AllData, {0}, FALSE)
       IN /\ SetMarks(acc.marked)
          /\ gc' = IF acc.end # "" THEN [at |-> acc.end]
                   ELSE IF AnotherPass(acc.marked) THEN gc
                   ELSE [gc EXCEPT !.at = "sweep", !.cur = heap]
    /\ UNCHANGED <<initialized, total_heap_size, depth, owed>>
-----------------------------------------------------------------------------
\* One block of the sweep.  A marked one is kept.
sweepKeep ==
    /\ gc.at = "sweep" /\ gc.cur # 0 /\ IsMarked(gc.cur)
    /\ mem' = [mem EXCEPT ![gc.cur] = @ - MARK_BIT]
    /\ gc' = [gc EXCEPT !.cur = next(gc.cur), !.prev = 0]
    /\ UNCHANGED <<initialized, total_heap_size, depth, owed>>

\* Mutant: blocks are not merged.
MergeTargetNone == 0
\* The free block just before, if there is one.
MergeTarget == gc.prev

MergedSize(p, b) == Size(p) + BLOCK_SIZE + Size(b)

Swept(b) ==
    IF MergeTarget = 0 THEN [mem EXCEPT ![b] = Size(b)]
    ELSE LET p == MergeTarget
         IN [mem EXCEPT ![b] = Size(b),
                        ![p] = info(p) - Size(p) + (MergedSize(p, b) % MARK_BIT),
                        ![p + 1] = next(b)]

\* Mutant: a free block's finalizer is called too.
CallsFinalizerAlways(b) == finalizer(b) # 0
CallsFinalizer(b) == IsAlloc(b) /\ finalizer(b) # 0

\* An unmarked one is freed, its finalizer called, and it joins the free block
\* before it.  A finalizer that calls memAllocate ends the program.
sweepFree ==
    LET b == gc.cur
        calls == CallsFinalizer(b)
    IN /\ gc.at = "sweep" /\ b # 0 /\ ~IsMarked(b)
       /\ owed' = IF calls THEN [owed EXCEPT ![finalizer(b)] = @ - 1] ELSE owed
       /\ \/ /\ calls /\ finalizer(b) = 2
             /\ mem' = [mem EXCEPT ![b] = Size(b)]
             /\ gc' = [at |-> "exit"]
          \/ /\ ~(calls /\ finalizer(b) = 2)
             /\ mem' = Swept(b)
             /\ gc' = [gc EXCEPT !.cur = next(b),
                                 !.prev = IF gc.prev = 0 THEN b ELSE @,
                                 !.words_freed = @ + (IF IsAlloc(b) THEN Size(b) ELSE 0)
                                                   + (IF gc.prev # 0 THEN BLOCK_SIZE ELSE 0)]
       /\ UNCHANGED <<initialized, total_heap_size, depth>>

\* The second attempt, if anything was freed.
retry ==
    LET found == gc.words_freed # 0 /\ nextBlockOfSize(gc.size) # 0
    IN /\ gc.at = "sweep" /\ gc.cur = 0
       /\ \/ found /\ gc' = [gc EXCEPT !.at = "take"] /\ UNCHANGED mem
          \/ ~found /\ Return(mem, 0)
       /\ UNCHANGED <<initialized, total_heap_size, depth, owed>>
-----------------------------------------------------------------------------
(***************************************************************************)
(* The client: any program that keeps pointers to blocks in its globals,   *)
(* in the local of the function it is in, which is what it gets the result *)
(* of a call in, and in words of the blocks.                               *)
(***************************************************************************)
Roots == ClientGlobals \union {Local(depth)}
ClientStep == gc.at = "client" /\ UNCHANGED <<initialized, total_heap_size, gc, owed>>

Assign(r, value) ==
    /\ ClientStep /\ mem' = [mem EXCEPT ![r] = value]
    /\ UNCHANGED depth
IsPointer(w) == w - BLOCK_SIZE \in Blocks /\ IsAlloc(w - BLOCK_SIZE)
StoreWord(r, o, value) ==
    /\ IsPointer(mem[r]) /\ mem[r] + o \in DOMAIN mem /\ o < Size(mem[r] - BLOCK_SIZE)
    /\ ClientStep /\ mem' = [mem EXCEPT ![mem[r] + o] = value]
    /\ UNCHANGED depth

CallFunction ==
    /\ ClientStep /\ depth < MaxDepth
    /\ depth' = depth + 1
    /\ mem' = [mem EXCEPT ![SavedRbp(depth + 1)] = SavedRbp(depth), ![Local(depth + 1)] = 0]
ReturnFunction ==
    /\ ClientStep /\ depth > 1
    /\ depth' = depth - 1 /\ UNCHANGED mem

Client ==
    \/ \E n \in InitSizes : memInitialize(n)
    \/ \E q \in Requests : memAllocate(q[1], q[2], Local(depth))
    \/ \E r \in Roots, s \in Roots : Assign(r, mem[s])
    \/ \E r \in Roots : Assign(r, 0)
    \/ \E r \in Roots, o \in Offsets, s \in Roots : StoreWord(r, o, mem[s])
    \/ \E r \in Roots, o \in Offsets : StoreWord(r, o, 0)
    \/ CallFunction \/ ReturnFunction

(***************************************************************************)
(* memDump prints the data of an allocated block word by word, a star at   *)
(* pointers; of a row of more than two zeros only the first and the last,  *)
(* with the number of those between.                                       *)
(***************************************************************************)
Data(b) == [k \in 1 .. Size(b) |-> mem[b + BLOCK_SIZE + k - 1]]
ZeroRow(d, k) ==      \* the end of the row of zeros that starts at k
    Max({j \in k .. Len(d) : \A i \in k .. j : d[i] = 0})
\* Mutant: the last zero of a row is counted too.
SkippedAlso(first, last) == last - first
Skipped(first, last) == last - first - 1

DumpLines(d) ==
    LET line(k) == [word |-> d[k], star |-> pointsToAllocatedData(d[k]), skipped |-> 0]
        rowAt(k) == LET last == ZeroRow(d, k)
                    IN IF last = k THEN <<line(k)>>
                       ELSE IF last = k + 1 THEN <<line(k), line(last)>>
                       ELSE << line(k), [word |-> 0, star |-> FALSE, skipped |-> Skipped(k, last)],
                               line(last) >>
        startsRow(k) == d[k] = 0 /\ (k = 1 \/ d[k - 1] # 0)
    IN FlattenSeq([k \in 1 .. Len(d) |->
            IF d[k] # 0 THEN <<line(k)>> ELSE IF startsRow(k) THEN rowAt(k) ELSE <<>>])

\* First the globals and the frames of the stack, as the last call left them.
DumpedAddresses == Range(Addresses(__data_start, _end - 1)) \union Range(Addresses(_stack_top, LastFrame))
memDump == [roots  |-> [a \in DumpedAddresses |-> [word |-> mem[a], star |-> pointsToAllocatedData(mem[a])]],
            blocks |-> [b \in {c \in Blocks : IsAlloc(c)} |-> DumpLines(Data(b))]]

Next == Client \/ take \/ markGlobals \/ markStack \/ markHeap \/ sweepKeep \/ sweepFree \/ retry
Spec == Init /\ [][Next]_vars
-----------------------------------------------------------------------------
\* Every word of memory fits into WordBits bits, also after the unsigned
\* subtractions of memAllocate, and no finalizer is called that is not owed.
TypeOK ==
    /\ \A a \in DOMAIN mem : mem[a] \in 0 .. 2^WordBits - 1
    /\ initialized \in {-1, 0, 1} /\ depth \in 1 .. MaxDepth
    /\ gc.at \in {"client", "take", "globals", "stack", "heap", "sweep", "exit", "crash", "hang"}
    /\ \A f \in Finalizers : owed[f] \in Nat

\* Following next through the headers, each block ends where the next begins and
\* the last one where the heap ends: no word is lost, none is in two blocks
\* ("(long *)alloced + BLOCK_SIZE + alloced->size => alloced->next").
HeapTiled ==
    initialized = 1 =>
        \A b \in Blocks :
            /\ b + BLOCK_SIZE + Size(b) = IF next(b) = 0 THEN heap + total_heap_size ELSE next(b)
            /\ next(b) = 0 \/ next(b) > b

\* Two free blocks never lie next to each other, except while the sweep is at
\* them: freed space can be used for requests larger than the blocks it was.
FreeIsMerged ==
    initialized = 1 /\ gc.at \in {"client", "take"} =>
        \A b \in Blocks : ~IsAlloc(b) /\ next(b) # 0 => IsAlloc(next(b))

\* The blocks the client can still get to: pointers in its globals and in the
\* locals of all functions it is in, and pointers in such blocks.
Pointees(w) == {b \in Blocks : /\ IsAlloc(b)
                               /\ b + BLOCK_SIZE <= w /\ w < b + BLOCK_SIZE + Size(b)}
ClientBlocks == UNION {Pointees(mem[a]) : a \in ClientGlobals \union {Local(d) : d \in 1 .. depth}}
ReachableFrom(blocks) ==
    LET found[k \in 0 .. Cardinality(Blocks)] ==
            IF k = 0 THEN blocks
            ELSE found[k - 1] \union
                 UNION {Pointees(mem[a]) : a \in UNION {Range(DataOf(b)) : b \in found[k - 1]}}
    IN found[Cardinality(Blocks)]

\* The collector never frees a block the client can still get to, nor hands out
\* a word of one.
ReachableSurvives ==
    [][/\ sweepFree /\ IsAlloc(gc.cur) => gc.cur \notin ReachableFrom(ClientBlocks)
       /\ take => \A b \in ReachableFrom(ClientBlocks) :
                     LET ptr == mem'[gc.into]
                     IN Range(DataOf(b)) \intersect (ptr .. ptr + gc.size - 1) = {}]_vars

\* Every finalizer is called once for every block it was given for, when that
\* block is freed: the calls still owed are those of the allocated blocks.
FinalizedOnce ==
    initialized = 1 => \A f \in Finalizers :
        owed[f] = Cardinality({b \in Blocks : IsAlloc(b) /\ finalizer(b) = f})

\* memDump leaves out no word: the lines of a block stand for all its words, and
\* in the function that made the last call every variable that refers to a block
\* is listed, with a star unless the block is the last of the list: that one
\* getBlock does not find.
DumpIsComplete ==
    initialized = 1 /\ gc.at = "client" =>
        LET dump == memDump
            expand(line) == [k \in 1 .. (IF line.skipped = 0 THEN 1 ELSE line.skipped) |-> line.word]
            starred(a) == IsPointer(mem[a]) /\ next(mem[a] - BLOCK_SIZE) # 0
        IN /\ \A b \in DOMAIN dump.blocks :
                LET lines == dump.blocks[b]
                IN FlattenSeq([k \in DOMAIN lines |-> expand(lines[k])]) = Data(b)
           /\ \A b \in Blocks : IsAlloc(b) => b \in DOMAIN dump.blocks
           /\ _stack_top = Local(depth + 1) =>
                \A a \in ClientGlobals \union {Local(d) : d \in 1 .. depth} :
                    a \in DOMAIN dump.roots /\ (starred(a) => dump.roots[a].star)

\* After every call and every step of a sweep the heap is whole: its blocks tile
\* it, freed neighbours have been merged, and the finalizers still owed are those
\* of the allocated blocks.
HeapSound == TypeOK /\ HeapTiled /\ FreeIsMerged /\ FinalizedOnce
=============================================================================
