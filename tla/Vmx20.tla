------------------------------- MODULE Vmx20 -------------------------------
(***************************************************************************)
(* The multi-core virtual machine A2/P2/vmx20.c: the library calls of      *)
(* vmx20.h, made by one client, and the cores execute() starts, one        *)
(* pthread each, on one word memory.                                       *)
(*                                                                         *)
(* A core fetches without a lock; an instruction that accesses memory does *)
(* so under one hold of memLock, so fetching a word and executing it are   *)
(* two steps, and printing its trace under traceLock is a third.           *)
(***************************************************************************)
EXTENDS X20, SequencesExt, FiniteSetsExt

CONSTANTS
    MemSize,          \* MEM_SIZE, in words
    MaxProcessors,    \* VMX20_MAX_PROCESSORS
    Files,            \* the files the client may try to load
    Labels,           \* the labels the client asks for
    MaxSymbols,       \* bound: symbols left by failed loads before another try
    MemoryFill,       \* what each word of fresh memory may contain
    HeapContent,      \* what vm->symbols may be in a fresh struct VM: a set
                      \* of "null" and "wild"
    Requests,         \* the ways the client may call execute(): records of the
                      \* number of processors n, the initial stacks and trace
    MayFail,          \* the calls of the system that may fail, a subset of
                      \* {"malloc", "mutex", "create"}
    FloatOp(_, _, _)  \* float arithmetic on the bits of its operands

ASSUME VmAssumption ==
    /\ MemSize \in Nat \ {0} /\ MaxProcessors \in Nat \ {0}
    /\ HeapContent \subseteq {"null", "wild"} /\ HeapContent # {}
    /\ MayFail \subseteq {"malloc", "mutex", "create"}

VARIABLES
    memory,   \* vm->memory
    vm,       \* the other fields of struct VM, and how far the client is
    cpu,      \* the core_t records
    freed,    \* the cores whose record has been freed
    main,     \* where the client's thread is inside execute()
    ret,      \* what its last call returned: value and error number
    traced,   \* the last line each core has traced
    process   \* "running", "exit" or "crash"

vars == <<memory, vm, cpu, freed, main, ret, traced, process>>

FP == 13
SP == 14
PC == 15
Core == 0 .. MaxProcessors - 1
NORMAL_TERMINATION     == 0
INITIALIZE_FAILURE     == -1
FILE_NOT_FOUND         == -2
FILE_IS_NOT_VALID      == -3
FILE_CONTAINS_OUTSYMBOLS == -4
DIVIDE_BY_ZERO         == -5
ADDRESS_OUT_OF_RANGE   == -6
ILLEGAL_INSTRUCTION    == -7
Working == 1     \* core->status until the core ends

NoCore == [reg |-> [r \in 0 .. 15 |-> 0], stack |-> 0, status |-> 0,
           state |-> "none", ir |-> 0, next |-> 0]

Init ==
    /\ memory = <<>>
    /\ vm = [phase |-> "none", symbols |-> <<>>, tail |-> "null", entryPoint |-> 0,
             progEnd |-> 0, numProcessors |-> 0, trace |-> FALSE]
    /\ cpu = [c \in Core |-> NoCore]
    /\ freed = {}
    /\ main = [at |-> "idle", i |-> 0, stacks |-> <<>>]
    /\ ret = [value |-> 1, err |-> 0]
    /\ traced = [c \in Core |-> <<>>]
    /\ process = "running"

\* The client sets its errorNumber to 0 before each call.
Returns(value, err) == ret' = [value |-> value, err |-> err]
Idle(phase) == process = "running" /\ main.at = "idle" /\ vm.phase = phase
-----------------------------------------------------------------------------
initVm ==
    /\ Idle("none")
    /\ \/ "malloc" \in MayFail /\ Returns(0, INITIALIZE_FAILURE) /\ UNCHANGED <<memory, vm, process>>
       \/ "mutex" \in MayFail /\ process' = "exit" /\ UNCHANGED <<memory, vm, ret>>
       \/ /\ \E w \in MemoryFill : memory' = [a \in 0 .. MemSize - 1 |-> w]
          /\ \E t \in HeapContent : vm' = [vm EXCEPT !.phase = "ready", !.tail = t]
          /\ Returns(1, NORMAL_TERMINATION)
          /\ UNCHANGED process
    /\ UNCHANGED <<cpu, freed, main, traced>>

(***************************************************************************)
(* A file f: whether it exists, its insymbols, the words of its outsymbol  *)
(* section, the code length its header states and the code words it has.   *)
(* Memory, progEnd and the symbols are replaced before all is verified.    *)
(***************************************************************************)
Mains(f) == {k \in DOMAIN f.insymbols : f.insymbols[k].name = "mainx20"}

OneMain(f) == Cardinality(Mains(f)) = 1

\* Reading the insymbols stops at a second mainx20.
SymbolsRead(f) ==
    IF Cardinality(Mains(f)) > 1
    THEN SubSeq(f.insymbols, 1, Min(Mains(f) \ {Min(Mains(f))}))
    ELSE f.insymbols

\* Mutant: new symbols are put behind those of an earlier, failed load.
SymbolsAppended(f) == vm.symbols \o Reverse(SymbolsRead(f))
SymbolsAfter(f) == Reverse(SymbolsRead(f)) \o vm.symbols

\* initVm failed and the client goes on with the NULL it returned.
NullHandle == Idle("none") /\ ret.err = INITIALIZE_FAILURE

loadExecutableFile(f) ==
    /\ Idle("ready") \/ NullHandle
    /\ Len(vm.symbols) <= MaxSymbols
    /\ UNCHANGED <<cpu, freed, main, traced, process>>
    /\ \/ ~f.found /\ Returns(0, FILE_NOT_FOUND) /\ UNCHANGED <<memory, vm>>
       \/ f.found /\ NullHandle /\ Returns(0, -99) /\ UNCHANGED <<memory, vm>>
       \/ /\ f.found /\ ~NullHandle /\ f.outwords # 0
          /\ Returns(0, FILE_CONTAINS_OUTSYMBOLS) /\ UNCHANGED <<memory, vm>>
       \/ /\ f.found /\ ~NullHandle /\ f.outwords = 0
          /\ LET read == Min({f.length, Len(f.code)})
             IN /\ memory' = [a \in DOMAIN memory |->
                                 IF a < read THEN f.code[a + 1] ELSE memory[a]]
                /\ \/ /\ read # f.length
                      /\ Returns(0, FILE_IS_NOT_VALID)
                      /\ vm' = [vm EXCEPT !.progEnd = read]
                   \/ /\ read = f.length
                      /\ Returns(IF OneMain(f) THEN 1 ELSE 0,
                                 IF OneMain(f) THEN 0 ELSE FILE_IS_NOT_VALID)
                      /\ vm' = [vm EXCEPT !.progEnd = read,
                                   !.phase = IF OneMain(f) THEN "loaded" ELSE @,
                                   !.symbols = SymbolsAfter(f),
                                   !.entryPoint = IF Mains(f) = {} THEN @
                                       ELSE f.insymbols[Min(Mains(f))].address]

\* getAddress: the newest symbol of that name; without one the walk runs to
\* the end of the list, wherever that leads.
getAddress(label) ==
    LET hits == {k \in DOMAIN vm.symbols : vm.symbols[k].name = label}
    IN IF hits # {} THEN [found |-> 1, addr |-> vm.symbols[Min(hits)].address]
       ELSE [found |-> IF vm.tail = "null" THEN 0 ELSE -1, addr |-> 0]

\* The client asks for a label; -1 in found is a walk into wild memory.
AskAddress(label) ==
    /\ Idle("loaded")
    /\ Returns(getAddress(label).found, 0)
    /\ process' = IF getAddress(label).found = -1 THEN "crash" ELSE process
    /\ UNCHANGED <<memory, vm, cpu, freed, main, traced>>

\* The word at address a; outside memory the result variable keeps what it had.
getWord(a, old) == IF Unsigned(a) < MemSize THEN memory[Unsigned(a)] ELSE old

\* mem with word w at address a; outside memory nothing is written.
putWord(mem, a, w) ==
    IF Unsigned(a) < MemSize THEN [mem EXCEPT ![Unsigned(a)] = w] ELSE mem
-----------------------------------------------------------------------------
(***************************************************************************)
(* execute() starts the cores one after the other; each runs as soon as it *)
(* exists.  If one cannot be started, the records of the others are freed. *)
(***************************************************************************)
execute(n, stacks, trace) ==
    /\ Idle("loaded") /\ freed = {}     \* the client gives up after a failure
    /\ \/ n > MaxProcessors /\ UNCHANGED <<vm, main>>
       \/ /\ n <= MaxProcessors
          /\ vm' = [vm EXCEPT !.numProcessors = n, !.trace = trace]
          /\ main' = [at |-> "create", i |-> 0, stacks |-> stacks]
    /\ Returns(0, 0)                    \* unless a later step sets it
    /\ UNCHANGED <<memory, cpu, freed, traced, process>>

createCore ==
    /\ process = "running" /\ main.at = "create" /\ main.i < vm.numProcessors
    /\ \/ /\ cpu' = [cpu EXCEPT ![main.i] =
                        [NoCore EXCEPT !.stack = main.stacks[main.i + 1],
                                       !.reg[SP] = Signed(main.stacks[main.i + 1]),
                                       !.status = Working, !.state = "start"]]
          /\ main' = [main EXCEPT !.i = @ + 1]
          /\ UNCHANGED <<freed, ret>>
       \/ /\ "create" \in MayFail
          /\ freed' = 0 .. main.i - 1
          /\ main' = [main EXCEPT !.at = "idle"]
          /\ Returns(0, 0)
          /\ UNCHANGED cpu
    /\ UNCHANGED <<memory, vm, traced, process>>

\* All cores have been joined: their statuses go to the caller, the records
\* are freed.
joinAll ==
    /\ process = "running" /\ main.at = "create" /\ main.i = vm.numProcessors
    /\ \A c \in 0 .. vm.numProcessors - 1 : cpu[c].state = "ended"
    /\ main' = [main EXCEPT !.at = "idle"]
    /\ vm' = [vm EXCEPT !.phase = "done"]
    /\ freed' = 0 .. vm.numProcessors - 1
    /\ Returns(1, 0)
    /\ UNCHANGED <<memory, cpu, traced, process>>

\* fetchDecodeExecute up to its loop.
startCore(c) ==
    /\ process = "running" /\ cpu[c].state = "start"
    /\ cpu' = [cpu EXCEPT ![c].reg[PC] = vm.entryPoint, ![c].state = "fetch"]
    /\ UNCHANGED <<memory, vm, freed, main, ret, traced, process>>

Reg(c, r) == cpu[c].reg[r]

\* The loop's read of the instruction: neither locked nor checked.  In a record
\* that has been freed a core may find any PC.
fetch(c) ==
    /\ process = "running" /\ cpu[c].state = "fetch"
    /\ \/ /\ Unsigned(cpu[c].reg[PC]) < MemSize
          /\ cpu' = [cpu EXCEPT ![c].ir = memory[Unsigned(Reg(c, PC))], ![c].state = "execute"]
          /\ UNCHANGED process
       \/ /\ Unsigned(cpu[c].reg[PC]) >= MemSize \/ c \in freed
          /\ process' = "crash"
          /\ UNCHANGED cpu
    /\ UNCHANGED <<memory, vm, freed, main, ret, traced>>
-----------------------------------------------------------------------------
(***************************************************************************)
(* executeInstruction for core c, one action per instruction.  Retire is   *)
(* its end: the trace, if any, and then the new PC; the loop goes on while *)
(* the status stays Working.                                               *)
(***************************************************************************)
Word(c) == cpu[c].ir
R1(c) == Reg1(Word(c))
R2(c) == Reg2(Word(c))
tPC(c) == cpu[c].reg[PC] + 1
\* Mutant: what does not fit into a register is kept.
SetWide(c, r, v) == [cpu[c].reg EXCEPT ![r] = v]
\* A register holds WordBits bits; what does not fit wraps around.
Set(c, r, v) == [cpu[c].reg EXCEPT ![r] = Signed(v)]

Executes(c, op) == process = "running" /\ cpu[c].state = "execute" /\ Op(Word(c)) = op

AfterPC(core, pc) ==
    [core EXCEPT !.reg[PC] = Signed(pc),
                 !.state = IF core.status = Working THEN "fetch" ELSE "ended"]

Retire(c, reg, mem, pc, code) ==
    LET core == [cpu[c] EXCEPT !.reg = reg, !.status = code]
    IN /\ memory' = mem
       /\ cpu' = [cpu EXCEPT ![c] = IF vm.trace
                     THEN [core EXCEPT !.state = "trace", !.next = pc]
                     ELSE AfterPC(core, pc)]
       /\ UNCHANGED <<vm, freed, main, ret, traced, process>>

Goes(c, reg, mem, pc) == Retire(c, reg, mem, pc, Working)
Ends(c, code) == Retire(c, cpu[c].reg, memory, tPC(c), code)

halt(c) == Executes(c, "halt") /\ Ends(c, NORMAL_TERMINATION)

load(c) ==
    /\ Executes(c, "load")
    /\ Goes(c, Set(c, R1(c), getWord(tPC(c) + Addr20(Word(c)), Reg(c, R1(c)))), memory, tPC(c))

store(c) ==
    /\ Executes(c, "store")
    /\ Goes(c, cpu[c].reg, putWord(memory, tPC(c) + Addr20(Word(c)), Reg(c, R1(c))), tPC(c))

ldimm(c) == Executes(c, "ldimm") /\ Goes(c, Set(c, R1(c), Addr20(Word(c))), memory, tPC(c))

ldaddr(c) ==
    /\ Executes(c, "ldaddr")
    /\ Goes(c, Set(c, R1(c), tPC(c) + Addr20(Word(c))), memory, tPC(c))

\* The check widens to 64 bits: a negative sum is out of range too.
InMemory(a) == 0 <= a /\ a < MemSize

ldind(c) ==
    LET a == Reg(c, R2(c)) + Addr16(Word(c))
    IN /\ Executes(c, "ldind")
       /\ \/ ~InMemory(a) /\ Ends(c, ADDRESS_OUT_OF_RANGE)
          \/ InMemory(a) /\ Goes(c, Set(c, R1(c), getWord(a, Reg(c, R1(c)))), memory, tPC(c))

\* The check adds the offset to the NUMBER of the register.
stind(c) ==
    /\ Executes(c, "stind")
    /\ \/ ~InMemory(R2(c) + Addr16(Word(c))) /\ Ends(c, ADDRESS_OUT_OF_RANGE)
       \/ /\ InMemory(R2(c) + Addr16(Word(c)))
          /\ Goes(c, cpu[c].reg,
                  putWord(memory, Reg(c, R2(c)) + Addr16(Word(c)), Reg(c, R1(c))), tPC(c))

Arith(c, v) == Goes(c, Set(c, R1(c), v), memory, tPC(c))
A(c) == Reg(c, R1(c))
B(c) == Reg(c, R2(c))

addf(c) == Executes(c, "addf") /\ Arith(c, FloatOp("+", A(c), B(c)))
subf(c) == Executes(c, "subf") /\ Arith(c, FloatOp("-", A(c), B(c)))
\* Both zeros of the float format, 0 and the sign bit alone, equal 0.0f.
divf(c) ==
    LET zero == B(c) \in {0, -2^(WordBits-1)}
    IN /\ Executes(c, "divf")
       /\ \/ zero /\ Ends(c, DIVIDE_BY_ZERO)
          \/ ~zero /\ Arith(c, FloatOp("/", A(c), B(c)))
mulf(c) == Executes(c, "mulf") /\ Arith(c, FloatOp("*", A(c), B(c)))
addi(c) == Executes(c, "addi") /\ Arith(c, A(c) + B(c))
subi(c) == Executes(c, "subi") /\ Arith(c, A(c) - B(c))

Abs(x) == IF x < 0 THEN -x ELSE x
\* Mutant: the quotient is rounded down.
QuotientDown(x, y) == IF y < 0 THEN (-x) \div (-y) ELSE x \div y
\* C's division rounds toward zero.
Quotient(x, y) == (IF (x < 0) = (y < 0) THEN 1 ELSE -1) * (Abs(x) \div Abs(y))

\* The quotient that is no word traps, and the trap ends the process.
Traps(x, y) == x = -2^(WordBits-1) /\ y = -1
divi(c) ==
    /\ Executes(c, "divi")
    /\ \/ B(c) = 0 /\ Ends(c, DIVIDE_BY_ZERO)
       \/ B(c) # 0 /\ ~Traps(A(c), B(c)) /\ Arith(c, Quotient(A(c), B(c)))
       \/ /\ Traps(A(c), B(c))
          /\ process' = "crash"
          /\ UNCHANGED <<memory, vm, cpu, freed, main, ret, traced>>
muli(c) == Executes(c, "muli") /\ Arith(c, A(c) * B(c))

\* The comparisons with stack and progEnd are unsigned.
SpU(c, offset) == Unsigned(Reg(c, SP) + offset)

ReturnAddress(c) == tPC(c)

\* Mutant: the check looks at SP before the three words are pushed.
CallBadBefore(c) == SpU(c, 0) > cpu[c].stack \/ SpU(c, 0) < vm.progEnd
CallBad(c) == SpU(c, 0) > cpu[c].stack \/ SpU(c, -3) < vm.progEnd

call(c) ==
    LET s == Reg(c, SP)
    IN /\ Executes(c, "call")
       /\ \/ CallBad(c) /\ Ends(c, ADDRESS_OUT_OF_RANGE)
          \/ /\ ~CallBad(c)
             /\ Goes(c, [cpu[c].reg EXCEPT ![SP] = Signed(s - 3), ![FP] = Signed(s - 2)],
                     putWord(putWord(putWord(memory, s - 1, ReturnAddress(c)),
                                     s - 2, Reg(c, FP)),
                             s - 3, 0),
                     tPC(c) + Addr20(Word(c)))

ret_(c) ==
    LET bad == SpU(c, 3) > cpu[c].stack \/ SpU(c, 0) < vm.progEnd
        s == Reg(c, SP)
        fp == getWord(s + 1, Reg(c, FP))
    IN /\ Executes(c, "ret")
       /\ \/ bad /\ Ends(c, ADDRESS_OUT_OF_RANGE)
          \/ /\ ~bad
             /\ Goes(c, [cpu[c].reg EXCEPT ![SP] = Signed(s + 3), ![FP] = fp],
                     putWord(memory, fp - 1, getWord(s, Word(c))),
                     getWord(s + 2, tPC(c)))

Branch(c, taken) ==
    Goes(c, cpu[c].reg, memory, IF taken THEN tPC(c) + Addr16(Word(c)) ELSE tPC(c))

blt(c) == Executes(c, "blt") /\ Branch(c, A(c) < B(c))
\* Mutant: the branch is taken on equality too.
bgtOrEqual(c) == Executes(c, "bgt") /\ Branch(c, A(c) >= B(c))
bgt(c) == Executes(c, "bgt") /\ Branch(c, A(c) > B(c))
beq(c) == Executes(c, "beq") /\ Branch(c, A(c) = B(c))

jmp(c) == Executes(c, "jmp") /\ Goes(c, cpu[c].reg, memory, tPC(c) + Addr20(Word(c)))

\* Mutant: the store is made whether or not the comparison succeeded.
cmpxchgAlwaysStores(c) ==
    LET a == tPC(c) + Addr16(Word(c))
    IN /\ Executes(c, "cmpxchg")
       /\ Goes(c, Set(c, R1(c), getWord(a, A(c))), putWord(memory, a, B(c)), tPC(c))
\* Mutant: on failure the word found is not loaded back.
cmpxchgNoLoad(c) ==
    LET a == tPC(c) + Addr16(Word(c))
    IN /\ Executes(c, "cmpxchg")
       /\ Goes(c, cpu[c].reg,
               IF A(c) = getWord(a, 0) THEN putWord(memory, a, B(c)) ELSE memory, tPC(c))
cmpxchg(c) ==
    LET a == tPC(c) + Addr16(Word(c))
    IN /\ Executes(c, "cmpxchg")
       /\ \/ A(c) = getWord(a, 0) /\ Goes(c, cpu[c].reg, putWord(memory, a, B(c)), tPC(c))
          \/ A(c) # getWord(a, 0) /\ Goes(c, Set(c, R1(c), getWord(a, A(c))), memory, tPC(c))

\* Mutant: every core is told the same number.
getpidZero(c) == Executes(c, "getpid") /\ Arith(c, 0)
getpid(c) == Executes(c, "getpid") /\ Arith(c, c)
getpn(c) == Executes(c, "getpn") /\ Arith(c, vm.numProcessors)

StackBad(c) == SpU(c, 0) > cpu[c].stack \/ SpU(c, 0) < vm.progEnd

\* The register pushed is read after SP has moved.
push(c) ==
    LET reg == Set(c, SP, Reg(c, SP) - 1)
    IN /\ Executes(c, "push")
       /\ \/ StackBad(c) /\ Ends(c, ADDRESS_OUT_OF_RANGE)
          \/ ~StackBad(c) /\ Goes(c, reg, putWord(memory, reg[SP], reg[R1(c)]), tPC(c))

\* pop has no break: it falls into the default case.
pop(c) ==
    LET loaded == Set(c, R1(c), getWord(Reg(c, SP), A(c)))
    IN /\ Executes(c, "pop")
       /\ \/ StackBad(c) /\ Ends(c, ADDRESS_OUT_OF_RANGE)
          \/ ~StackBad(c) /\ Retire(c, [loaded EXCEPT ![SP] = Signed(@ + 1)], memory,
                                    tPC(c), ILLEGAL_INSTRUCTION)

illegal(c) ==
    /\ Executes(c, "NOP") \/ Executes(c, "unknown")
    /\ Ends(c, ILLEGAL_INSTRUCTION)
-----------------------------------------------------------------------------
\* What disassemble puts into the buffer for the word at address a, and the
\* error number it sets.
disassemble(a) ==
    IF a >= vm.progEnd \/ a >= MemSize THEN [err |-> ADDRESS_OUT_OF_RANGE, op |-> "", args |-> <<>>]
    ELSE LET w == memory[a]
             format == op_format(Op(w))
         IN [err |-> IF format = "INVALID" THEN ILLEGAL_INSTRUCTION ELSE 0,
             op |-> Op(w), args |-> Operands(w, format, a)]

\* Mutant: the trace is printed after the PC has moved.
TracedAddressNext(c) == Unsigned(cpu[c].next)
\* The trace is printed while PC still is the instruction's address.
TracedAddress(c) == Unsigned(cpu[c].reg[PC])

printTrace(c) ==
    /\ process = "running" /\ cpu[c].state = "trace"
    /\ traced' = [traced EXCEPT ![c] = <<disassemble(TracedAddress(c))>>]
    /\ cpu' = [cpu EXCEPT ![c] = AfterPC(cpu[c], cpu[c].next)]
    /\ UNCHANGED <<memory, vm, freed, main, ret, process>>

cleanup ==
    /\ Idle("done")
    /\ process' = IF vm.tail = "null" THEN process ELSE "crash"
    /\ vm' = [vm EXCEPT !.phase = "gone"]
    /\ UNCHANGED <<memory, cpu, freed, main, ret, traced>>

executeInstruction(c) ==
    \/ halt(c) \/ load(c) \/ store(c) \/ ldimm(c) \/ ldaddr(c) \/ ldind(c) \/ stind(c)
    \/ addf(c) \/ subf(c) \/ divf(c) \/ mulf(c) \/ addi(c) \/ subi(c) \/ divi(c) \/ muli(c)
    \/ call(c) \/ ret_(c) \/ blt(c) \/ bgt(c) \/ beq(c) \/ jmp(c) \/ cmpxchg(c)
    \/ getpid(c) \/ getpn(c) \/ push(c) \/ pop(c) \/ illegal(c)

CoreStep(c) == startCore(c) \/ fetch(c) \/ executeInstruction(c) \/ printTrace(c)

ClientStep ==
    \/ initVm \/ createCore \/ joinAll \/ cleanup
    \/ \E f \in Files : loadExecutableFile(f)
    \/ \E l \in Labels : AskAddress(l)
    \/ \E q \in Requests : execute(q.n, q.stacks, q.trace)

Next == ClientStep \/ \E c \in Core : CoreStep(c)

Spec == Init /\ [][Next]_vars

\* The system runs every thread: the client's, which goes on to execute and
\* to the joins, and every core's.
FairSpec ==
    /\ Spec
    /\ WF_vars(initVm) /\ WF_vars(createCore) /\ WF_vars(joinAll)
    /\ WF_vars(\E f \in Files : loadExecutableFile(f))
    /\ WF_vars(\E q \in Requests : execute(q.n, q.stacks, q.trace))
    /\ \A c \in Core : WF_vars(CoreStep(c))
-----------------------------------------------------------------------------
\* Every word of memory and every register holds WordBits bits, however the
\* instructions wrap around.
TypeOK ==
    /\ \A a \in DOMAIN memory : memory[a] = Signed(memory[a])
    /\ \A c \in Core : /\ cpu[c].state \in {"none", "start", "fetch", "execute", "trace", "ended"}
                       /\ cpu[c].status \in {1, 0, DIVIDE_BY_ZERO, ADDRESS_OUT_OF_RANGE,
                                             ILLEGAL_INSTRUCTION}
                       /\ \A r \in 0 .. 15 : Reg(c, r) = Signed(Reg(c, r))
    /\ freed \subseteq Core
    /\ process \in {"running", "exit", "crash"}

\* What disassemble() shows is what executeInstruction() does: a jump, a call
\* and a taken branch go to the address shown, and load, store, ldaddr and
\* cmpxchg work on it.
Shown(c) == Last(disassemble(Unsigned(Reg(c, PC))).args)
TargetsAsListed ==
    [][\A c \in Core :
         (cpu[c].state = "execute" /\ Unsigned(Reg(c, PC)) < vm.progEnd
            /\ memory[Unsigned(Reg(c, PC))] = Word(c) /\ ~vm.trace) =>
         /\ jmp(c) => Reg(c, PC)' = Shown(c)
         /\ call(c) => Reg(c, PC)' = Shown(c) \/ cpu[c].state' = "ended"
         /\ blt(c) \/ bgt(c) \/ beq(c) => Reg(c, PC)' \in {Shown(c), tPC(c)}
         /\ load(c) => Reg(c, R1(c))' = memory[Shown(c)]
         /\ ldaddr(c) => Reg(c, R1(c))' = Shown(c)
         /\ store(c) => memory' = [memory EXCEPT ![Shown(c)] = A(c)]
         /\ cmpxchg(c) => \/ memory'[Shown(c)] = B(c) /\ memory[Shown(c)] = A(c)
                          \/ memory' = memory /\ Reg(c, R1(c))' = memory[Shown(c)]
      ]_vars

\* The line a core traces is the instruction it has just executed, unless
\* that is not a word of the program.
TraceShowsInstruction ==
    [][\A c \in Core : printTrace(c) /\ traced'[c][1].err = 0 =>
          /\ traced'[c][1].op = Op(Word(c))
          /\ traced'[c][1].args = Operands(Word(c), op_format(Op(Word(c))), Reg(c, PC))]_vars

\* A stack that overflows does not destroy the program, but for two gaps in the
\* checks: push looks at SP before it moves it (vmx20.c:525), so with SP at
\* progEnd it overwrites the last word of the program; and call's SP - 3
\* (vmx20.c:424) is unsigned, so with SP below 3 the check passes, and the words
\* below SP are overwritten.  There is no third.
PushAtEnd(c, a) == push(c) /\ SpU(c, 0) = vm.progEnd /\ a = vm.progEnd - 1
CallWraps(c, a) == call(c) /\ SpU(c, 0) < 3 /\ a < SpU(c, 0)
StackAboveProgram ==
    [][\A c \in Core : call(c) \/ push(c) =>
          \A a \in 0 .. vm.progEnd - 1 :
              memory'[a] = memory[a] \/ PushAtEnd(c, a) \/ CallWraps(c, a)]_vars

\* Whatever was tried before, after a load that succeeds the vm runs that one
\* file: memory has its words, the entry point is its mainx20, and each of its
\* labels is found at an address the file gives it.  A label it does not have is
\* not unknown, as vmx20.h:47 has it: what failed loads left is still found.
LoadedIsWhole ==
    [][\A f \in Files : loadExecutableFile(f) /\ ret'.value = 1 =>
          /\ vm'.entryPoint \in {s.address : s \in {t \in Range(f.insymbols) : t.name = "mainx20"}}
          /\ Cardinality(Mains(f)) = 1
          /\ \A a \in 0 .. f.length - 1 : memory'[a] = f.code[a + 1]
          /\ \A k \in DOMAIN f.insymbols : LET s == f.insymbols[k]
                IN getAddress(s.name)'.addr \in {t.address : t \in
                        {t \in Range(f.insymbols) : t.name = s.name}}
          /\ \A l \in Labels : (\A k \in DOMAIN f.insymbols : f.insymbols[k].name # l)
                => getAddress(l)' = getAddress(l)]_vars
=============================================================================
