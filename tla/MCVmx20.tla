------------------------------ MODULE MCVmx20 ------------------------------
(***************************************************************************)
(* The programs the virtual machine is checked with: the repository's own  *)
(* tests (A2/P2/test), with small loop counts, and a few of one purpose.   *)
(***************************************************************************)
EXTENDS Vmx20

CONSTANT Rounds   \* bound: how often a core increments the counter (10000)

File(insymbols, code) ==
    [found |-> TRUE, insymbols |-> insymbols, outwords |-> 0,
     length |-> Len(code), code |-> code]
Sym(name, address) == [name |-> name, address |-> address]

\* test_counter_lock.asm
LockCode ==
    << 0, -1,
       Asm("ldimm", 4, 0, Rounds), Asm("ldimm", 1, 0, 1), Asm("getpid", 10, 0, 0),
       Asm("jmp", 0, 0, 0),
       Asm("ldimm", 8, 0, -1), Asm("ldimm", 9, 0, -1), Asm("cmpxchg", 9, 10, -8),
       Asm("beq", 8, 9, 1), Asm("jmp", 0, 0, -5),
       Asm("load", 0, 0, -12), Asm("addi", 0, 1, 0), Asm("store", 0, 0, -14),
       Asm("subi", 4, 1, 0), Asm("ldimm", 9, 0, -1), Asm("store", 9, 0, -16),
       Asm("bgt", 4, 5, -12), Asm("halt", 0, 0, 0) >>
LockFile == File(<<Sym("count", 0), Sym("mainx20", 2)>>, LockCode)

\* test_counter_no_lock.asm
NoLockCode ==
    << 0, Asm("ldimm", 4, 0, Rounds), Asm("ldimm", 1, 0, 1), Asm("jmp", 0, 0, 0),
       Asm("load", 0, 0, -5), Asm("addi", 0, 1, 0), Asm("store", 0, 0, -7),
       Asm("subi", 4, 1, 0), Asm("bgt", 4, 5, -5), Asm("halt", 0, 0, 0) >>
NoLockFile == File(<<Sym("count", 0), Sym("mainx20", 1)>>, NoLockCode)

\* test_stack_overflow.asm: a function that calls itself for ever.
OverflowCode ==
    << 0, 0, Asm("store", SP, 0, -3), Asm("call", 0, 0, 1), Asm("halt", 0, 0, 0),
       Asm("store", SP, 0, -5), Asm("call", 0, 0, -2) >>
OverflowFile == File(<<Sym("initialSP", 0), Sym("lastSP", 1), Sym("mainx20", 2)>>, OverflowCode)

\* main42.exe: result becomes the sum of two calls of get42.
Main42Code ==
    << Asm("addi", FP, SP, 0), Asm("ldimm", 0, 0, 4), Asm("subi", SP, 0, 0),
       Asm("call", 0, 0, 7), Asm("ldind", 0, FP, -1), Asm("call", 0, 0, 5),
       Asm("ldind", 1, FP, -1), Asm("addi", 0, 1, 0), Asm("store", 0, 0, 1),
       Asm("halt", 0, 0, 0), 0,
       Asm("ldimm", 7, 0, 42), Asm("stind", 7, FP, -1), Asm("ret", 0, 0, 0) >>
Main42File == File(<<Sym("result", 10), Sym("mainx20", 0), Sym("get42", 11)>>, Main42Code)

\* test_getpid.asm, with as many words as there are processors.
GetpidCode ==
    [k \in 1 .. MaxProcessors |-> -1] \o
    << Asm("getpid", 5, 0, 0), Asm("ldaddr", 0, 0, -MaxProcessors - 2),
       Asm("addi", 0, 5, 0), Asm("stind", 5, 0, 0), Asm("halt", 0, 0, 0) >>
GetpidFile == File(<<Sym("t0", 0), Sym("mainx20", MaxProcessors)>>, GetpidCode)

(***************************************************************************)
(* Programs for one core that between them execute every instruction and   *)
(* end in every way.  Each ends with status and the word at result set to  *)
(* value: those of Meant by the meaning of the instructions and the        *)
(* statuses of vmx20.h, those of Deviating because of the code.            *)
(***************************************************************************)
I(op, r1, r2, k) == Asm(op, r1, r2, k)
End == I("halt", 0, 0, 0)
Prog(status, value, code) == [status |-> status, value |-> value, code |-> <<-9>> \o code]
StoreAt(r, a) == I("store", r, 0, -(a + 1))     \* at address a, to result

Meant ==
    [ arithmetic |-> Prog(0, -2,            \* (7 - 3 * 4) / 2
        << I("ldimm", 1, 0, 7), I("ldimm", 2, 0, 3), I("ldimm", 3, 0, 4), I("muli", 2, 3, 0),
           I("subi", 1, 2, 0), I("ldimm", 4, 0, 2), I("divi", 1, 4, 0), StoreAt(1, 8), End >>),
      wraps |-> Prog(0, -8192,              \* 2 * (2^17 - 1) * 2^12 in 30 bits
        << I("ldimm", 1, 0, 131071), I("ldimm", 2, 0, 4096), I("muli", 1, 2, 0),
           I("addi", 1, 1, 0), StoreAt(1, 5), End >>),
      floats |-> Prog(0, 1,
        << I("ldimm", 1, 0, 2), I("ldimm", 2, 0, 4), I("addf", 1, 2, 0), I("mulf", 1, 2, 0),
           I("subf", 1, 2, 0), I("divf", 1, 2, 0), I("subf", 1, 2, 0), StoreAt(1, 8), End >>),
      divide |-> Prog(DIVIDE_BY_ZERO, -9, << I("divi", 1, 2, 0), StoreAt(1, 2), End >>),
      divideFloat |-> Prog(DIVIDE_BY_ZERO, -9, << I("divf", 1, 2, 0), StoreAt(1, 2), End >>),
      branches |-> Prog(0, 2,
        << I("ldimm", 1, 0, 1), I("blt", 1, 2, 5), I("bgt", 2, 1, 4), I("beq", 1, 2, 3),
           I("blt", 2, 1, 1), End, I("ldimm", 3, 0, 1), I("bgt", 1, 2, 1), End,
           I("addi", 1, 3, 0), StoreAt(1, 11), End >>),
      indirect |-> Prog(0, 5,
        << I("ldimm", 1, 0, 5), I("ldaddr", 2, 0, -3), I("stind", 1, 2, 0), I("load", 3, 0, -5),
           I("ldind", 4, 2, 0), I("cmpxchg", 4, 3, -7), StoreAt(4, 7), End >>),
      readOutside |-> Prog(ADDRESS_OUT_OF_RANGE, -9,
        << I("ldimm", 2, 0, -1), I("ldind", 1, 2, 0), StoreAt(1, 3), End >>),
      writeOutside |-> Prog(ADDRESS_OUT_OF_RANGE, -9,
        << I("stind", 1, 2, MemSize), I("ldimm", 1, 0, 1), StoreAt(1, 3), End >>),
      missed |-> Prog(0, -9,
        << I("ldimm", 4, 0, 3), I("cmpxchg", 4, 4, -3), StoreAt(4, 3), End >>),
      numbers |-> Prog(0, 1,
        << I("getpid", 1, 0, 0), I("getpn", 2, 0, 0), I("addi", 1, 2, 0), StoreAt(1, 4), End >>),
      pushed |-> Prog(0, 8,
        << I("ldimm", 1, 0, 8), I("push", 1, 0, 0), I("ldind", 2, SP, 0), StoreAt(2, 4), End >>),
      pushLow |-> Prog(ADDRESS_OUT_OF_RANGE, -9, << I("ldimm", SP, 0, 1), I("push", 1, 0, 0), End >>),
      popHigh |-> Prog(ADDRESS_OUT_OF_RANGE, -9,
        << I("ldimm", SP, 0, MemSize + 1), I("pop", 1, 0, 0), End >>),
      returns |-> Prog(ADDRESS_OUT_OF_RANGE, -9, << I("ret", 0, 0, 0), End >>),
      called |-> Prog(0, -9, << I("call", 0, 0, 1), End, I("ret", 0, 0, 0) >>),
      calls |-> Prog(ADDRESS_OUT_OF_RANGE, -9, << I("ldimm", SP, 0, 3), I("call", 0, 0, 0), End >>),
      noOperation |-> Prog(ILLEGAL_INSTRUCTION, -9, << 32, End >>),
      data |-> Prog(ILLEGAL_INSTRUCTION, -9, << 255, End >>) ]

\* popped should go on to its halt, and the others should be stopped with
\* ADDRESS_OUT_OF_RANGE: stind does not check the register (vmx20.c:364), push
\* checks SP before it moves it (:525), call's check wraps around (:424).
Deviating ==
    [ popped |-> Prog(ILLEGAL_INSTRUCTION, -9, << I("pop", 1, 0, 0), End >>),
      writeLost |-> Prog(0, -9, << I("ldimm", 2, 0, MemSize), I("stind", 1, 2, 0), End >>),
      pushAtEnd |-> Prog(0, 0,              \* the 7 behind the code is overwritten
        << I("ldimm", SP, 0, 7), I("push", 1, 0, 0), I("load", 2, 0, 2), StoreAt(2, 4), End, 7 >>),
      callLow |-> Prog(0, 0,                \* result is where FP is saved
        << I("ldimm", SP, 0, 2), I("call", 0, 0, 0), End >>) ]

Programs == Meant @@ Deviating

\* A file for each program, two that end the process, and those that cannot be
\* loaded: one has a label of every other file in another place.
ProgramFiles ==
    {File(<<Sym("mainx20", 1), Sym(name, 0)>>, Programs[name].code) : name \in DOMAIN Programs}
      \union {File(<<Sym("mainx20", 0)>>, <<I("jmp", 0, 0, MemSize)>>),
              File(<<Sym("mainx20", 0)>>,   \* the least word divided by -1
                   << I("ldimm", 1, 0, -131072), I("ldimm", 2, 0, 4096), I("muli", 1, 2, 0),
                      I("ldimm", 2, 0, -1), I("divi", 1, 2, 0), End >>)}
Unloadable ==
    LET good == File(<<Sym("result", 0), Sym("mainx20", 1)>>, <<0, End>>)
    IN { [good EXCEPT !.found = FALSE], [good EXCEPT !.outwords = 6],
         [good EXCEPT !.length = 3], [good EXCEPT !.insymbols = <<Sym("arithmetic", 1)>>],
         [good EXCEPT !.insymbols = <<Sym("mainx20", 1), Sym("mainx20", 0), Sym("late", 1)>>] }
AllFiles == ProgramFiles \union Unloadable
              \union {LockFile, NoLockFile, OverflowFile, Main42File, GetpidFile}

\* What is checked of float instructions is which operands they take.
SmallFloat(op, x, y) ==
    CASE op = "+" -> x + y [] op = "-" -> x - y [] op = "*" -> x * y
      [] OTHER -> IF y > 0 THEN x \div y ELSE (-x) \div (-y)

\* One core with a trace, two with a stack each, and one more than there are.
Calls == {[n |-> n, stacks |-> [c \in 1 .. n |-> MemSize - 7 * (c - 1)], trace |-> n = 1]
            : n \in 1 .. MaxProcessors + 1}

\* The vm has loaded f, whatever symbols an earlier load has left behind.
Loaded(f) ==
    /\ vm.phase \notin {"none", "ready"} /\ vm.progEnd = f.length
    /\ IsPrefix(Reverse(f.insymbols), vm.symbols)
Started == 0 .. vm.numProcessors - 1
Executing(f) == Loaded(f) /\ main.at = "create"
Finished(f) == Loaded(f) /\ vm.phase = "done"
Count == memory[0]

\* Where core c goes on; printing a trace comes before PC moves.
GoesOnAt(c) == IF cpu[c].state = "trace" THEN cpu[c].next ELSE Reg(c, PC)

\* The cores that have acquired the lock and not yet stored -1 to it: on the
\* way from a cmpxchg that succeeded to the end of the critical section.
Owners == {c \in Core : /\ cpu[c].state \in {"fetch", "execute", "trace"}
                        /\ \/ GoesOnAt(c) \in 11 .. 16
                           \/ GoesOnAt(c) = 9 /\ Reg(c, 9) = -1}

\* The lock built from cmpxchg: one core at a time is in the critical section
\* and the lock word is that core's number; memLock only covers single words.
LockExclusive ==
    Loaded(LockFile) =>
        /\ Cardinality(Owners) <= 1
        /\ \A c \in Owners : memory[1] = c

\* The increments made under the lock look atomic: the program implements a
\* counter that each core increments Rounds times.
Left(c) == IF cpu[c].state \in {"none", "start"} \/ GoesOnAt(c) = 2 THEN Rounds
           ELSE Reg(c, 4) - (IF GoesOnAt(c) = 14 THEN 1 ELSE 0)
Counter == INSTANCE AtomicCounter
    WITH count <- IF Loaded(LockFile) THEN Count ELSE 0,
         left <- [c \in Core |-> IF Loaded(LockFile) THEN Left(c) ELSE Rounds]
ImplementsCounter == Counter!Spec

\* Every increment is made in the end, unless a core cannot be started:
\* spinning cores do not keep the owner of the lock from going on.
AllCounted ==
    Executing(LockFile) ~>
        (main.at = "idle" /\ (Finished(LockFile) => Count = vm.numProcessors * Rounds))

\* Without the lock increments get lost, but not below two: the last store of
\* a core is of a value it loaded after some core had stored.
LossBounded == Finished(NoLockFile) => Count \in 2 .. vm.numProcessors * Rounds

\* The cores run test_stack_overflow to its end: every one of them stops with
\* VMX20_ADDRESS_OUT_OF_RANGE, and none calls once too often.
OverflowStops ==
    Executing(OverflowFile) ~>
        (main.at = "idle" /\ (Finished(OverflowFile) =>
             \A c \in Started : cpu[c].status = ADDRESS_OUT_OF_RANGE))

\* Cores that call the same functions at the same time on stacks of their own
\* do not disturb each other: each return goes to just behind a call, and the
\* program's result is that of one core.
CallsReturn ==
    [][Executing(Main42File) =>
         /\ \A c \in Core : ret_(c) =>
              /\ cpu'[c].status = Working
              /\ Op(memory[GoesOnAt(c)' - 1]) = "call"
              /\ Reg(c, FP)' = cpu[c].stack
         /\ joinAll => memory[10] = 84 /\ \A c \in Started : cpu[c].status = 0]_vars

\* test_getpid: every core writes its own number to its own word, whatever the
\* order the cores run in.
EachHasItsNumber == Finished(GetpidFile) => \A c \in Started : memory[c] = c

\* Alone on the machine, every program of Meant ends with the status and the
\* result its instructions mean, and those of Deviating with what the code makes
\* of them, however often loading other files had failed before.
ProgramResults ==
    [][joinAll /\ vm.numProcessors = 1 =>
         \A name \in DOMAIN Programs : Head(vm.symbols).name = name =>
            cpu[0].status = Programs[name].status /\ memory[0] = Programs[name].value]_vars

\* What several cores leave in memory without a lock is bounded by what each of
\* them stored: counts between two and the sum, and every core's own number.
FinalWords == LossBounded /\ EachHasItsNumber

\* The programs of several cores come to their end, with all increments made or
\* with the overflow reported.
ProgramsEnd == AllCounted /\ OverflowStops

\* call, ret and push keep to the stack: no frame gets into the program but
\* through the two gaps of StackAboveProgram, and each return goes to behind a
\* call with the caller's frame pointer.
StacksSound == CallsReturn /\ StackAboveProgram

\* What disassemble lists is what cores do: jumps go to the targets in the
\* listing, and the trace shows the instruction that was executed.
ListingIsTrue == TargetsAsListed /\ TraceShowsInstruction
=============================================================================
