# Formal model of the unh-cs720 programs

TLA+ modules for the programs of this repository, TLC configurations that check
them on small instances, and TLAPS proofs for every size. The core is the
user-level threads library of `A3`; the virtual machine of `A2` with its linker
and driver, the allocator of `A4` and the tools of `A1` are modelled and checked
beside it.

## The system

The repository holds independent C programs written around one small processor
(the "x20") and around memory and threads.

| Part | Source | State | Operations | Hard because |
|------|--------|-------|------------|--------------|
| threads library | `A3/thread.c`, `thread_asm.s` | globals (`ready`, `all_threads`, `ready_list`, `mutexes`, `conds`, `next_to_destroy`, `current_thread`), one TCB per thread, the client's mutexes and condition variables | `thread_create/yield/join/self/terminate/cleanup`, `thread_mutex_*`, `thread_cond_*` | any interleaving at the calls; hand-over of mutexes; deferred freeing of TCBs; reuse of memory that `malloc` does not clear |
| thread table | `A3/thread_table.c` | stack of handles, `max_id`, `size` | `init_table`, `put_tcb`, `get_tcb(_by_id)`, `pop_tcb`, `remove_tcb`, `destroy_table` | the search ends early and needs a sorted list |
| queue | `A3/queue.c` | linked items, `front`, `back` | `queue_push/pop/peek/remove`, `iterator`/`next`, `destroy_queue` | two ends, removal in the middle, bare pointers as iterators |
| test drivers | `A3/test*.c` | shared variables, one stack per thread | the programs themselves | they rely on the library at every yield |
| virtual machine | `A2/P2/vmx20.c` | word memory, symbols, one register file per core | `initVm`, `loadExecutableFile`, `getAddress`, `getWord`, `putWord`, `execute`, `disassemble`, `cleanup`, the instructions | cores interleave on one memory; bounds checks; failures half way through a load or a start |
| its driver | `A2/P2/testvm.c` | options, arguments | `main` | arguments that act before, and after, the run |
| linker | `A2/P1/linkx20.c` | object files, symbol tables | `extract_symbols`, `generate_output_file` | offsets that three loops must agree on; output that is input again |
| allocator | `A4/alloc.c` | heap of blocks, allocation and mark bits; the client's globals and stack | `memInitialize`, `memAllocate`, `markAndSweep`, `memDump` | conservative marking, unsigned sizes, coalescing and finalizing while sweeping |
| disassembler | `A1/P2/dsx20.c` | words marked code or data | `parse_code`, `print_code` | a walk that goes back |
| linear disassembler | `A1/P2/dsx20_linear.c` | none | `read_code` | must agree with the other |
| ELF printer | `A1/P1/binary_info.c` | the file, places found in it | five options | offsets computed in five places |

The threads library uses the table for its TCBs and a queue each for the ready
list and for every mutex and condition variable. The linker's output is the
virtual machine's input, through the driver. Both disassemblers read the same
files. The other programs share nothing.

What makes each part correct:

* threads: no thread is lost or in two places; mutual exclusion; hand-over in
  order; `thread_join` waits for its target and refuses exactly the cycles; the
  "deadlock" exit is taken only in a deadlock; nobody's memory is freed early,
  twice or never; everyone who is ready runs;
* table and queue: they implement a map and a first-in first-out sequence, and
  where they do not, they do no harm to what they hold;
* virtual machine: a cmpxchg lock excludes and what it guards is atomic, calls
  return, stacks get into the program only through two known gaps in the checks, a
  load that succeeds runs the one file, whatever had failed before;
* linker: every resolved reference reaches its symbol's word, linking in stages
  changes nothing, only complete programs become executables;
* allocator: blocks tile the heap, what can be reached is never freed, finalizers
  run once;
* disassembler: the words marked as code are those control flow reaches;
* ELF printer: what it shows is what the file says, with three exceptions.

## Modules

| Module | Stands for |
|--------|------------|
| `Threads` | the threads library: every call is an action |
| `ThreadsInvariant` | the inductive invariants `IInv` and `FullInv`, as named parts |
| `ThreadsSafetyProofs` | proofs: types, `IInv`, mutual exclusion and destruction |
| `ThreadsOrderProofs` | proofs: cycle detection, `FullInv` and the other properties of `Threads` |
| `PointerWalks` | lemmas: what following pointers comes to, in graphs and in linked lists |
| `ThreadTests` | the eight test drivers as programs on `Threads` |
| `Queue`, refining `Fifo` | `queue.c`, and what its comments promise |
| `ThreadTable`, refining `Directory` | `thread_table.c`, and what its comments promise |
| `LinkedList` | a linked list read as a sequence, used by the two above |
| `ThreadTableProofs`, `ContainersProofs` | proofs: the table; the queue, and the client of both |
| `X20` | the instruction words: opcodes, fields, mnemonics, operands as they are listed |
| `Vmx20`, whose lock program refines `AtomicCounter` | `vmx20.c`: library calls, and cores that execute instructions |
| `Vmx20Proofs` | proofs: the machine and its loader; the lock program and its refinement |
| `Testvm`, which extends `Vmx20` | `testvm.c` |
| `LinkX20` | `linkx20.c` |
| `Toolchain`, which extends the last two | scripts that link and run |
| `Dsx20`, `Dsx20Linear` | the disassemblers |
| `Dsx20Proofs` | proofs: the marking is exact, the two listings agree |
| `Alloc` | `alloc.c` and its client |
| `AllocProofs` | proofs: the heap stays whole |
| `Elf`, `BinaryInfo` | the constants of `elf.h` that are used, and `binary_info.c` |
| `MC*` | instances for TLC: symmetry sets, programs, files, scripts |

A definition that says *Mutant* in its comment is a plausible mistake in the
definition below it. It is not part of any specification; replacing the original
by it must break a property, which shows that the property can fail.

### Threads

Scheduling is cooperative: the running thread keeps the processor until a call
gives it away, so a call up to the context switch it ends in is one step, and the
interleavings are all the orders in which the threads can make calls.

* **TCBs are heap chunks** (`Tcb`). `NewThread` takes any free chunk and writes
  only the fields that `thread_create`/`init` and `put_tcb` write. `observer` is
  not among them and keeps what the chunk held; `put_tcb` frees the `handle` it
  finds there. `HeapContent` says what memory holds that was never a TCB:
  `{NULL}` for a process whose heap is clean, with `Garbage` added otherwise.
  Following `Garbage` or freeing a chunk that is not allocated ends the process
  with `process = "crash"`.
* **Queues are sequences and the table is a set** of TCBs with unique ids, which
  is what `Queue` and `ThreadTable` are shown to implement.
* **`Switch(st, rl, hd)`** is `thread_yield` from statuses `st` and ready list
  `rl`: threads at the head that are not `WORKING` are dropped (the recursion at
  `thread.c:129-134`), the first `WORKING` one is switched in and the yielding
  thread goes to the back if it is `WORKING`. If nobody can work, the process goes
  on with the current thread or exits with "deadlock".
* **`call[t]`** stands for the stack of `t`: the call it is blocked in, or the
  last one it made, with its result. When `t` is switched in, that call returns.
* **`detect_deadlock`** follows the observers with a slow and a fast pointer, as
  the code does; `HeldUpBy` is the reference it is compared with.
* **History.** `holds[m]` collects the ids of the threads that were told that they
  have `m`; `inits` counts the starts of the library.

Contract of the client, taken from the header and the tests: a mutex or condition
variable is initialised once before it is used, and only a thread that runs makes
calls. Everything else is allowed, such as locking twice, unlocking what one does
not own, passing `NULL`, terminating with a mutex, or joining any id.

### Queue and ThreadTable

Both keep the pointer structure: chunks, `next` fields, the freed chunks with the
values they keep. The abstract modules work on the sequence, or the function, that
the list stands for, and compare every result (`res`). The client is taken to drop
its iterator when it takes an item out, since the iterator is a bare pointer that
may be to that item. It may do everything else, and two things it may do go wrong:

* `queue_remove` of the last item frees it and leaves `back` pointing to it
  (`Dangling`). `queue_push` only asks `back`, so what is pushed then is linked
  behind the freed chunk, or to itself when `malloc` returns that very chunk, and
  gets into no list; `lost` collects these items, which leak. The queue recovers
  when it is emptied by popping, or made anew. `Fifo` says so in its own terms: the
  sequence is `cut` and takes nothing in. What the refinement shows is that this is
  all that happens: results, order and iterators stay right for what is in the
  queue.
* `put_tcb` of a TCB that has a handle frees the old one without taking it out of
  the stack. From then on (`stale`, in `Directory` `broken`) every call walks over
  freed memory, and none is modelled.

`queue_peek` returns the item where its comment promises the value. The model
returns the item too; the refinement looks at the data in it (`Seen`), so it shows
that the item is the first, not that the comment is right.

### ThreadTests

Each driver is a record of the instruction lists of its functions; a step of a
test is a call of `Threads` together with what the driver does around it. `test4`
increments its counter by a read, possibly a yield, and a write. The loop counts
and numbers of threads are constants.

### Vmx20, Testvm

One client thread makes the library calls. `execute` is `execute` (checks),
`createCore` per core, and `joinAll`; cores run from their creation on. An
instruction is two steps, `fetch`, which the code does without a lock, and the
instruction itself, with at most one access under `memLock`; with tracing the
printing is a third. Words have `WordBits` bits and wrap around; fields have the
widths of the code less the bits a word is shorter by. Float instructions apply
`FloatOp` to the bits of their operands. The allocations, mutex initialisations
and thread creations the code tests for may fail; when a core cannot be started,
the records of those that run are freed, and from then on each of them goes on or
ends the process at any fetch. Reading outside memory by `PC`
is a crash; so is dividing the least word by -1 (`Traps`), and so is following `vm->symbols` before any load has set it, when the
fresh structure did not happen to contain zeros (`HeapContent`).

`Testvm` adds `main` of the driver: one action per kind of argument and per phase,
with the stack pointers the driver really passes, which lie beyond memory.

### LinkX20, Toolchain

One action per iteration of each of the linker's loops over the files, in the
order of its list, which is the reverse of the command line. Symbols are records,
code is words of `X20`, and relocation rewrites the address field of a word as the
code does. `Toolchain` has a disk and a script of commands; testvm reads what the
linker wrote (`Readable`).

### Dsx20, Dsx20Linear, BinaryInfo

The marking and the printing loop of `dsx20.c` are one action per iteration;
`dsx20_linear.c` has no state worth it and is a function of the file. An ELF file
is a record of header fields and of partial functions from file offsets to section
headers, symbols and characters, so that an offset computed wrongly finds nothing
or something else. Where the program takes something else for a header, it ends in
`pc = "undefined"`. A field of two bytes of a big-endian file is read with its
bytes swapped; a longer one is some number outside the file.

### Alloc

Memory is one array of words: the globals, with the allocator's own static
variables among them, the stack with its saved frame pointers, and the heap.
Marking goes through the globals, the frames and the heap, each scan one step;
sweeping is one step per block (`sweepKeep`, `sweepFree`, with the finalizer's
call and the merging). The client assigns between its roots, stores pointers in
blocks, calls functions and returns from them; what `memAllocate` returns goes to
the local of the function that called it. Left out are registers and pointers
that are not aligned.

## Runs

| Run | Instance | Shows |
|-----|----------|-------|
| `monitor` | 3 chunks, 4 ids, 2 mutexes, 1 condition variable | placement, exclusion, hand-over, scheduling order, real deadlocks |
| `join` | 4 chunks, 5 ids | exact cycle detection, joins, destruction, no stale pointers |
| `round_robin` | 3 chunks, 4 ids, 1 mutex, 1 condition variable, garbage in memory | every ready thread runs, under `FairSpec`; `FullInv` holds in spite of garbage and of what earlier threads left in their memory |
| `containers` | 3 chunks, 2 values; 3 handles, 3 TCBs, 4 ids | `queue.c` implements `Fifo`, `thread_table.c` implements `Directory`, whatever is called; what leaks is what was pushed after a removal of the last item |
| `drivers` | all eight drivers, 3 workers, 4 rounds | what the drivers show, that no update is lost, how they end |
| `machine` | 28 words, 2 cores, 30 programs, 5 files that do not load | the lock, the counter with and without it, stack, calls, results, loads, listing and trace |
| `toolchain` | 125 triples of object files in two stages, `addi` in all orders, up to 4 arguments | references, staged linking, what is loadable, arguments and results, ending |
| `disassembler` | all 10000 programs of 4 words from 10 kinds; one of every kind | exact marking, equal listings, ending |
| `alloc` | heaps of 28 and 32 words, 2 kinds of request, 2 frames, a global | tiling, merging, finalizers, survival, dumps |
| `elf` | 432 small files of both classes and byte orders, and 7 broken ones | header, names, sections, symbols, and what is missing of some |
| `reinit`, `alloc_large` | small | the findings below |

Some properties are conjunctions of named parts: `JoinsSound` of `JoinAcyclic` and
`DetectionExact`; `NothingLeaks` of `ListWellFormed` and `TableWellFormed`;
`OutputRight` of `ShownAsAnnounced` and `NoLostUpdate`; `FinalWords` of `LossBounded` and `EachHasItsNumber`;
`ProgramsEnd` of `AllCounted` and `OverflowStops`; `StacksSound` of `CallsReturn`
and `StackAboveProgram`; `ListingIsTrue` of `TargetsAsListed` and
`TraceShowsInstruction`; `LinkedFilesSound` of `LinkIsIncremental` and
`FilesSound`; `ResultsShown` of `ShownIsFinal` and `ResultOfArguments`;
`HeapSound` of `TypeOK`, `HeapTiled`, `FreeIsMerged` and `FinalizedOnce`;
`ShownIsInFile` of `HeaderShown`, `NamesShown`, `SectionsListed`, `SymbolsShown`
and `BigEndianLost`.

### Bounds

* *Threads.* Three threads are the least for a mutex with an owner, a waiter that
  gets it and one that comes later, and for a signal that moves a waiter behind
  another; two mutexes let a condition wait release one while a thread waits for
  another. One id more than chunks makes the memory of a destroyed thread be used
  again, with what it left there. Four threads give join cycles and chains of every length up to four, in
  which the two pointers of `detect_deadlock` meet after different numbers of
  rounds.
* *Containers.* Three items allow removals at the head, in the middle and at the
  end of a list and reuse of each, among them pushes into the freed chunk `back` points
  to and into another; four ids with three handles make ids of removed
  TCBs come between others. Chunks and TCBs are interchangeable, hence the
  symmetry sets; runs with liveness use none.
* *Machine.* Two cores that increment twice give every order of two critical
  sections and the worst loss without a lock. Memory has room for a program and
  two stacks of seven words, so recursion overflows. Programs are executed with a
  trace when there is one core. `WordBits` is 30, less than the 32 of the code,
  because TLC computes with 32-bit integers; opcodes and registers keep their
  widths. The programs between them execute every instruction and end in every
  way; those of the tests are translated from `A2/P2/test`. The programs `Meant` end as
  the instructions and the statuses of `vmx20.h` say, those of `Deviating` as the code
  makes them. The file that cannot be loaded because of its second `mainx20` leaves
  the label of another program behind.
* *Toolchain.* The pieces define, use and share labels in both directions, have a
  duplicate and an empty file; every triple is linked in stages and at once.
  Memory has 9 words, as many as the largest program.
* *Disassembler.* Four words are enough for a jump back to data behind which lies
  another jump forward. Displacements of every size to words of the program occur,
  zero included.
* *Allocator.* Requests of 5 and 13 words take blocks of 8 and 16, so up to four
  blocks exist. Free ones have 29, 25, 21, 17, 13, 9, 5 or 1 words: they are split,
  filled exactly, merged from two or three, and refused. The allocator keeps the
  first block alive itself (`alloc.c:126`), and a scan that meets a pointer to the
  last one ends the process, so freed neighbours and a kept block behind a freed one
  are among the second to the fourth; that kept block is held by a global or by a
  local, of the current function or of an outer one. In the heap of 32 words the last
  block can be allocated, in that of 28 it cannot. A block that only another block
  holds occurs as well, but not behind a freed one, which takes a larger heap. A pointer
  is stored in the eleventh word of a block of 13, so that dumps have rows of ten and
  of two zeros. No request is up to three words larger than a free block (run
  `alloc_large` has that), and none is below three words. The heap is at least as large
  as a header. Pointers are not stored in the first word of a block: the scan of the
  heap may then run for ever. See *Divergences* for all three.
* *ELF.* Section headers in two orders, with and without each symbol table, of
  the size of the structure and 8 bytes larger; names that share their ends.

### Fairness

* `FairSpec` of `Threads` adds weak fairness of `thread_yield` only: the running
  thread yields in the end. The library cannot enforce this. It is the client's
  part of every cooperative scheduler, and `RoundRobin` is what the library gives
  in return. No fairness of locks, signals or terminations is assumed.
* `ThreadTests`: the one processor goes on executing the running thread.
* `Vmx20` and `Toolchain`: every core is a pthread, which the system schedules, and
  so is the thread inside `execute`; the shell, the linker and `main` go on. That
  a core's spin loop ends follows from nothing more.
* `Dsx20`: a sequential program that is run.

`CHECK_DEADLOCK FALSE` stands in the configurations of programs that end
(`machine`, `toolchain`, `disassembler`, `alloc`, where the process may exit), and in
that of `containers`, where nothing more is modelled once the table is `stale`.

## Findings

1. `thread_cleanup` leaves `next_to_destroy` behind; when the library is started
   again, the first termination frees a live thread (`reinit`).
2. `nextBlockOfSize` takes a free block that is up to three words too small, since
   it compares with `size - BLOCK_SIZE` (`alloc.c:368`), though the comment at
   `alloc.c:421` says that `size` is not larger. The remainder is negative and taken
   without a sign, so the block is split all the same, and the header of the rest is
   written behind it: in the run `alloc_large`, where the block is the last one,
   behind the end of the heap.

## Divergences

Where the code does something else than its comments say, the models do what the
code does. The properties are then stated for the cases that remain, as said in
their comments.

| Where | What the code does | In the models |
|-------|--------------------|---------------|
| `thread.c:189` | joining a terminated thread (`:166`: "returns immediately") fails with -3 once another thread has terminated | `thread_join` returns -3; no property promises 0 |
| `thread.c:74`, `:201` | `observer` of a new TCB is not written; in reused memory a join can be refused with -2 although nobody waits | `HeapContent` with `Garbage`; from a clean heap `NoCrash` |
| `queue.c:121` | `queue_remove` of the last item leaves `back` on freed memory, and what is pushed next is lost; `A3` does not call it | `Dangling`, `lost`; `cut` in `Fifo` |
| `queue.c:66` | `queue_peek` returns the item, not "the value" (`:56`) | `queue_peek` returns the item; `Seen` looks at its data |
| `thread_table.c:49` | `put_tcb` frees a handle the TCB already has and leaves it in the stack | `stale`; `broken` in `Directory` |
| `vmx20.h:47` | labels of a load that failed stay in the machine, and `getAddress` finds them | `LoadedIsWhole` says which labels are found |
| `vmx20.c:364` | `stind` checks the register's number instead of its content; a store beyond memory is dropped | program `writeLost` of `Deviating` |
| `vmx20.c:417` | `divi` of the least word by -1 traps, which ends the process | `Traps`; one of the files of `machine` |
| `vmx20.c:424` | `call` computes `SP - 3` without a sign; with `SP` below 3 the check passes, and the words below `SP` are overwritten | `CallWraps` in `StackAboveProgram`; program `callLow` |
| `vmx20.c:525` | `push` checks `SP` before it is decremented; at the end of the program it overwrites its last word | `PushAtEnd` in `StackAboveProgram`; program `pushAtEnd` |
| `vmx20.c:551` | `pop` has no `break`: it sets the register, then ends the core with ILLEGAL_INSTRUCTION | program `popped` of `Deviating` |
| `vmx20.c:620` | when a core cannot be started, the records of those that run are freed; they go on with freed memory | `freed`, `fetch`; no property says anything else |
| `vmx20.c:233` | the length of the program is not compared with the size of memory | the files of the runs are shorter; hypothesis `FilesFit` of `LoadIsWhole` |
| `vmx20.c:278` | `getAddress`, and the first load, follow `symbols`, which `initVm` (180-207) does not set | `HeapContent` with `"wild"` in `toolchain` |
| `testvm.c:129` | the initial `SP` is outside memory, so a call's return address is lost | `initialSP`; `CallsReturn` is checked with stacks inside memory only, and no program of `toolchain` calls or pushes |
| `testvm.c:127` | more processors than 16 overrun `initialSP` before `execute` refuses them | `mainExecute` may crash |
| `dsx20.c:361` | a displacement of 0 is taken for an undefined label, though a jump to the next word has it | `Target`; the reference of `ClassifiedExactly` follows that rule |
| `dsx20_linear.c:338` | negative constants of `ldimm` are shown without sign | `SameListing` compares without it, so it says nothing about the sign |
| `dsx20.c:272` | a word of opcode 32 is listed as `NOP`, by `dsx20_linear.c` as unknown | hypothesis `Listable` of `ListingsAgree` |
| `alloc.c:126` | the allocator's variable `heap`, a global, keeps the first block alive, since the test at `:126` compares its value | in the model; survival is what is checked |
| `alloc.c:368` | requests of less than three words wrap around and are refused | requests have at least three |
| `alloc.c:87` | `getBlock` does not find the last block of the list: a scan that meets a pointer to it exits or crashes, and `memDump` shows no star | in the model and in the run `alloc`; `DumpIsComplete` asks for no star there |
| `alloc.c:223` | words of blocks that are free or unreachable count as references (`:214` says they do not) | in the model; it only keeps more |
| `alloc.c:233` | the scan of the heap has no limit on its chase, unlike the other two | pointers are stored in other words of a block only (`Offsets`) |
| `alloc.c:343` | a heap of one or two words is accepted and its size wraps around | `InitSizes` |
| `binary_info.c:389` | every line of the section list of a 32-bit file is about section 0 | `SectionsListed` says so |
| `binary_info.c:502`, `:558` | symbol tables are searched by the size of the structure, not `e_shentsize`; with larger headers nothing of the file is shown | `SymbolsShown` says so |
| `binary_info.c:203` | big-endian files are accepted and read as little-endian: `-h` ends at the type, the other options show nothing | `BigEndianLost` |

## Proofs

Every theorem holds for all values of the constants that satisfy the named
assumptions: `ConstantsAssumption` of `Threads` (the set of chunks is finite, model
values differ from each other, bounds are natural numbers), the assumptions of
`Queue`, `TableAssumption` of `MCContainers`, `WordAssumption` of `X20`,
`VmAssumption` of `Vmx20` and `AllocAssumption` of `Alloc`. TLC evaluates each of
them in the runs. Other hypotheses
stand in the statements:

* `MachineConstants`: words have 21 to 32 bits (with less the fields of an
  instruction would have none); memory is smaller than the positive words; files
  consist of words and symbols whose addresses are words; `execute` is called with
  as many stack pointers as cores; `FloatOp` returns a number.
* `FilesFit`: no program is longer than memory (see *Divergences*, `vmx20.c:233`).
* `LockConstants`: the lock program fits into memory, its count into a word, and it
  is the only file of its length, which is how the properties know what is loaded.
* `AllocConstants`: words have at least ten bits, and the powers of two that are
  used stand to each other as they do; a heap has room for a header and ends below
  the words that are info words; requests fit into a word; globals and stack do not
  reach into the heap, given the addresses the model puts them at. Every heap of one
  or two words is excluded (see *Divergences*, `alloc.c:343`).
* `AlignedTo(u)`: with a header each, requests are multiples of `u` words, and so is
  the heap.

The constants of `MCVmx20.cfg` satisfy the first three, those of `MCAlloc.cfg` the
last two with `u = 4`.

| Theorem | States |
|---------|--------|
| `TypeCorrect`, `Invariant`, `InvariantFull` | `Spec => []TypeOK`, `[]IInv`, `[]FullInv` |
| `MutexSafe` | `MutualExclusion` in the first use |
| `DestructionDeferred` | `DeferredDestruction`, if there is one use |
| `NoThreadLost` | `ThreadPlacement` in the first use |
| `NoForgottenWaiter` | `MutexQueueSound` in the first use |
| `DeadlockExit` | `DeadlockIsReal` in the first use |
| `JoinsExact` | `JoinsSound`: no cycle of joins, and `detect_deadlock` refuses exactly what would close one |
| `JoinWaits` | `JoinedIsDone` in the first use |
| `HeapExact` | `HeapAccounted` in the first use |
| `NoWildPointer` | `NoCrash` in the first use, from a heap without garbage |
| `ReadyListInOrder`, `MutexInOrder` | `SchedulingIsFifo`, `HandoffIsFifo`, if there is one use |
| `QueueWellFormed`, `QueueIsFifo` | `ListWellFormed`; `queue.c` implements `Fifo` |
| `TableSound`, `TableIsDirectory` | `TableWellFormed`; `thread_table.c` implements `Directory` |
| `NoLeaks`, `TableKeepsDirectory` | `NothingLeaks`, and `Directory` implemented, for the client of `MCContainers` |
| `ClassifiedRight` | `ClassifiedExactly`, for programs whose jumps stay inside (`Valid`) |
| `ListingsAgree` | `SameListing`, for files without opcode 32 (`Listable`) |
| `MachineSafe` | `TypeOK`, for all programs (`MachineConstants`) |
| `StacksGuarded` | `StackAboveProgram`, for all programs (`MachineConstants`) |
| `LoadIsWhole` | `LoadedIsWhole`, for files that fit (`MachineConstants`, `FilesFit`) |
| `LockWorks`, `CounterImplemented` | `LockExclusive`; the lock program implements `AtomicCounter` (`LockConstants`) |
| `WholeIfAligned` | `HeapSound`, for clients with `AlignedTo(u)`, `u >= 4` (`AllocConstants`) |
| `WholeIfFitting` | `HeapSound` of every client, while `nextBlockOfSize` answers with blocks as large as the request (`AllocConstants`, `TakesFitting`) |

"In the first use" is `inits <= 1`, "if there is one use" `MaxInits <= 1`: finding
1 breaks these properties after the library has been started again, and an action
property cannot say which use it is about as shortly as an invariant can. The heap
may be clean or dirty (`HeapContent`) except in `NoWildPointer`, since `observer`
of a new TCB is read before it is written (see *Divergences*).

### Threads

**Why `IInv`.** `MutualExclusion` speaks of threads that came back from a call. A
thread comes back when it is switched in, so its mutex must already be its own
while it is still in the ready list (`HandoffPart`). It gets there from a mutex
queue at an unlock or from a condition queue at a signal, so the threads in those
queues must be blocked in a call for that very mutex (`MutexPart`, `CondPart`), be
in one queue only, and not be woken up by something else, in particular not as
the observer of a terminating thread (`JoinPart`). An unlock must not take the
mutex from a thread in the ready list that was just given it: owners are known by
id, ids are unique in the table, and the running thread is not in the ready list
(`HeapPart`, `ReadyPart`). Finally the thread that `thread_terminate` destroys
must be in no queue, which holds since it is `DONE` (`HeapPart`).

**Why `FullInv`.** `IInv` says of a thread in a queue that it belongs there; that
every thread is somewhere is the converse (`PlacePart`), and it is what makes the
deadlock exit real: if nobody is ready, everybody waits. A mutex with waiters must
be locked, or nobody would hand it over, and its owner must not be among those who
want it, also not while it waits for a condition (`OwnerPart`). That a join came
back with 0 says that its target has terminated needs the target to be remembered
from the call to the wake-up (`TargetPart`). At most one terminated thread is in
memory (`DonePart`), which gives the exact heap. `TableSound` and `CleanSound` also
survive `thread_cleanup`; the latter is the absence of garbage. `JoinAcyclic` is
part of the invariant because it is kept only if detection is exact, and detection
is exact only if there was no cycle before: the new edge closes a cycle if and only
if the walk from the target comes to the caller.

**Cycle detection.** `detect_deadlock` follows observers with a slow and a fast
pointer. `PointerWalks` proves what such a walk comes to when each thread has one
observer and observes one thread: if it comes to where it was before, it came back
to its start (`WalkBack`); then the fast pointer does so too (`WalkRound`); if it
does not, it ends after at most as many steps as there are threads (`WalkEnds`).
Hence the two pointers meet if and only if there is a cycle, for every number of
threads.
Induction over the steps of a walk is done with sets of numbers: a set that has 0,
and with a number the next, is all of `Nat` (`NatSetInduction`, from the
well-foundedness of `<`); the library's induction rules have an operator as a
parameter, which the provers cannot instantiate.

**Layout.** `Switched` states what a context switch does and is proved once
(`SwitchEffect`); `Kept(h)` says that every blocked thread but `h` stays as it is,
and one frame lemma per part of the invariant turns it into that part after the
step. `Woken` is the same for the release of a mutex, shared by unlock and wait.
Each call has its lemma (`LockSafe`, `SignalSafe`, ...), with one step per part.

### Containers

`IsList(s, x, f, ...)` says that the sequence `s` is what one meets following `f`
from `x` to `NULL`, without repetition. `NodesOf` shows that the operator `Nodes`
of the models then returns `s`, and `ListPush`, `ListAppend`, `ListTail` and
`ListUnlink` what the list is after a push at either end, a pop and a removal in
the middle. With these the invariants are short. `QueueInv`: the list from `front`
is a list, its members are the allocated chunks but for those in `lost`, `back` is
its last one or no member of it (`Anchored`), and the list from the client's
iterator is also one, with the same last item. A push while `back` is no member
changes no pointer in the list, which is why it does no harm. For the table, as long
as it is not `stale`: the stack is sorted by falling id, without duplicates, and
each TCB and its handle point at each other; that it is sorted is why ending the
search at the first smaller id finds everything. No step follows the one that makes
it `stale`. Refinement follows step by step: each operation does
to the sequence, or to the map, what the abstract action does, and answers the
same.

`ThreadTableProofs` carries its assumption as a hypothesis, since `MCContainers`
reaches `ThreadTable` through an instance; `ContainersProofs` discharges it from
`TableAssumption`.

### Disassembler

`MarkInv`: only reachable words are marked, that is, words in every set of words
that contains 0 and is closed under control flow; and what an instruction *before*
the loop variable leads to is marked. A new mark before the loop variable is
exactly the case in which `parse_code` goes back, to that word. At the end the
marked words are themselves such a closed set, so they are all the reachable ones.
Neither half needs an induction over paths. `ListInv` follows `print_code` line by
line; that a line is the same in both programs is `SameLine`.

### Virtual machine

**Why `MachineInv`.** That types are kept looks like a matter of one instruction at
a time, but two facts come from earlier steps. An instruction computes with the
address after its own: that is a word only because its word was fetched from inside
memory (`FetchedInside`), and memory ends below the largest word. And a core acts
only between its creation and the join of `execute`: there are no cores before
`execute` and none beyond those it has started (`NoneYet`). Every instruction then is one of three things, shown once for all
26: it goes on with new registers and memory (`Goes`), it branches, or it ends the
core (`Ends`). Nothing is assumed of the programs: cores may overwrite the
program, each other's stacks and the words they have just fetched.

**Stacks.** `StacksGuarded` is arithmetic without a sign. `SP - 3`, if it does not wrap
around, is the lowest of the three words `call` writes, so the check covers all of
them; if it does, the words that lie below zero are outside memory and dropped, and
the others are below `SP` (`CallWraps`). `push` writes one word below the one it has
checked (`PushAtEnd`), or none where `SP` wraps around (`WordBelowLeast`).

**Loading.** `SymbolsAfter` and `Mains` are sets over positions in the file;
`LoadIsWhole` needs that a file with exactly one `mainx20` has one smallest
position, and that reading `length` words ends where the file says. Labels of
earlier loads stand behind those of the file in the list `getAddress` searches
(`FoundBehind`), so they are found exactly if the file has none of that name.

**Why `LockInv`.** While the lock program is loaded:

* the program is in place (`CodeInPlace`); all its stores go to words 0 and 1, and a
  core that has fetched a word has the instruction of its place;
* each core is at one of the program's places, with the registers that place
  promises (`CoreLock`): what it compares with, its number, what it has loaded, and
  how many rounds are left;
* the lock word is -1 or the number of exactly the core that has the lock
  (`OwnerInWord`). A core owns it from the `cmpxchg` on, one instruction before it
  can tell, so ownership is read off place and register 9 together;
* the counter is the number of increments made, counted as pairs of a core and a
  round (`Counted`), and the value an owner has loaded is still in memory. This is
  the absence of lost updates; as a cardinality it is at most `MaxProcessors *
  Rounds`, hence no addition wraps around.

`Decodes` shows that the fields of an assembled word are what was assembled, by
arithmetic on `%` and `\div`; `LockDecode` that executing the instruction at each
place is one of the moves of `LockMove`; `MoveLocal` what a move does to the core
that makes it; and the frame lemmas that the others do not notice. `CounterSteps`
maps the store of the counter to the increment of `AtomicCounter` and every other
step, of cores and of the client, to a stutter.

### Allocator

`HeapSound` does not hold of `alloc.c` as it is: finding 2 breaks it. It is proved
for the behaviours in which that does not happen (`WholeIfFitting`, whose hypothesis
`TakesFitting` is about the step `take` alone), which says that the comparison of
`nextBlockOfSize` is the only thing in the allocator that can break the heap. And it
is proved of all behaviours of a class of clients (`WholeIfAligned`), with no
hypothesis about what the allocator does.

**Why `AllocInv`.** The properties read the heap through the list of blocks.
`Tiling(m, e, B)` says of any set of blocks `B` that each ends where the next
begins; one lemma per change of the heap gives the new set of blocks (a split adds
one, a merge takes one away, marks and data change none), and another that the
list then found in memory is that set. `Sound` adds what the finalizers need: only
allocated blocks are marked, so that the sweep never counts a free block as kept,
and what is owed is the number of allocated blocks with that finalizer. `SweepAt`
is the sweep in the middle of its walk: free neighbours lie only from the current
block on, and `prev` is the free block just before it, if and only if there is one.
That is what makes one pass enough to merge everything.

**Why `FramesKept`.** Marking writes only to the info words of blocks it has found,
so the scans cannot harm the heap as long as they read words of memory. For the scan
of the stack this needs the chain of saved frame pointers to stay in the stack; it
does so from function to function, also below the frame of the function the client
is in, where the frames of earlier calls still lie.

**Why `Grid`.** The blocks of an aligned client begin at multiples of `u`, hence the
size of a block and a request differ by a multiple of `u`: a block that is within
three words of a request is at least as large.

The scans, the frames and the list of blocks are recursive functions over numbers.
That each is defined at every number comes from one lemma on such functions
(`FoldExists`), and what they keep is shown with `NatSetInduction`.

### Only model-checked

* Liveness (`RoundRobin`, `ProgramsEnd`, `Terminates`, `EndsAsAnnounced` and the
  like) and what needs `ENABLED`: outside the prover.
* `FinalWords`, `CallsReturn`, `ListingIsTrue` and `ProgramResults` of `Vmx20`:
  they are about the given programs, and most have no counterpart for all: a program
  may overwrite its own code, and return to wherever it likes. The same holds of `Toolchain`, whose scripts, sources and results
  are given.
* `DumpIsComplete` of `Alloc`, which computes with flattened sequences, and
  `ReachableSurvives`: that a chain of pointers through blocks is marked to its end
  is an induction over the passes of the scan, for heaps in which no block's first
  word is a pointer.
* `BinaryInfo`, whose properties are about the layouts of files a linker writes,
  and `ThreadTests`, whose properties compare with given outputs.

## Not modelled

* Failure of `malloc` in the threads library, which does not test for it.
* Registers, stacks and the trampoline of `asm_yield`: abstracted to `call`.
* Stack overflow by the recursion of `thread_yield`; the statuses in the ready
  list are all `WORKING` (`ReadyPart`), so it never recurses.
* The client's own use of the heap between the library's calls, in the runs with a
  clean heap.
* `A3/thread copy.c` and `A2/P2backup`: earlier versions that nothing builds.
* The drivers of `A4`: clients of `alloc.c`, which `Alloc` quantifies over.
* `testDisassemble` of `testvm.c`, which nothing calls.
* `elf.h` beyond the constants and structures `binary_info.c` uses: the vendored
  system header.
* Symbol names of 16 characters, which fill their field without a final zero;
  names are abstract. Displacements too large for their field, which the linker
  does not check for: the instances are far smaller.
* Failures to write the linker's output.

## Plan

1. *(done)* `Threads`, `Queue`, `ThreadTable` with their abstract specifications;
   `IInv` and the first theorems.
2. *(done)* The test drivers; the virtual machine with its driver, the linker and
   their composition; the disassemblers; the allocator; the ELF printer.
3. *(done)* Theorems about `Threads`: every safety property the runs check, with
   the additions to `IInv` they need; the refinements of `Fifo` and `Directory`;
   the disassemblers.
4. *(done)* Theorems about `Vmx20`: the machine under any program, the loader, and
   the lock program for any number of cores and rounds; about `Alloc`: the heap
   stays whole.
5. Theorems still worth proving: `FinalWords` for the programs without a lock, along
   the lines of `LockInv`; `FilesSound` of what the linker writes;
   `ReachableSurvives`, from `AllocInv`.
