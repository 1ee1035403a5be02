---------------------------- MODULE Vmx20Proofs ----------------------------
(***************************************************************************)
(* The virtual machine of vmx20.c, whatever programs it executes, on any   *)
(* number of cores.                                                        *)
(***************************************************************************)
EXTENDS MCVmx20, FiniteSetTheorems, SequenceTheorems, WellFoundedInduction, TLAPS

\* The words of the machine.
Half == 2^(WordBits - 1)
Words == -Half .. Half - 1

\* Words of up to 32 bits, files made of them, and execute() called with an
\* array of at least n stacks.
MachineConstants ==
    /\ WordBits \in 21 .. 32
    /\ MemSize < Half
    /\ MemoryFill \subseteq Words
    /\ \A f \in Files :
        /\ f.code \in Seq(Words) /\ f.length \in Nat
        /\ f.insymbols \in Seq([name : STRING, address : Words])
    /\ \A q \in Requests :
        q.n \in Nat /\ q.stacks \in Seq(Int) /\ q.n <= Len(q.stacks) /\ q.trace \in BOOLEAN
    /\ \A x, y \in Words :
        /\ FloatOp("+", x, y) \in Int /\ FloatOp("-", x, y) \in Int /\ FloatOp("*", x, y) \in Int
        /\ y # 0 => FloatOp("/", x, y) \in Int
-----------------------------------------------------------------------------
\* The powers of two that occur; the prover knows them only as numbers.
LEMMA PowersOfTwo ==
    ASSUME WordBits \in 21 .. 32
    PROVE  Half \in Nat \ {0} /\ 2^WordBits = 2 * Half /\ Half > 3
<1>1. CASE WordBits = 21 BY <1>1, SMT DEF Half
<1>2. CASE WordBits = 22 BY <1>2, SMT DEF Half
<1>3. CASE WordBits = 23 BY <1>3, SMT DEF Half
<1>4. CASE WordBits = 24 BY <1>4, SMT DEF Half
<1>5. CASE WordBits = 25 BY <1>5, SMT DEF Half
<1>6. CASE WordBits = 26 BY <1>6, SMT DEF Half
<1>7. CASE WordBits = 27 BY <1>7, SMT DEF Half
<1>8. CASE WordBits = 28 BY <1>8, SMT DEF Half
<1>9. CASE WordBits = 29 BY <1>9, SMT DEF Half
<1>10. CASE WordBits = 30 BY <1>10, SMT DEF Half
<1>11. CASE WordBits = 31 BY <1>11, SMT DEF Half
<1>12. CASE WordBits = 32 BY <1>12, SMT DEF Half
<1> QED BY <1>1, <1>2, <1>3, <1>4, <1>5, <1>6, <1>7, <1>8, <1>9, <1>10, <1>11, <1>12, SMT

\* The part that most proofs need.
LEMMA Powers ==
    ASSUME WordBits \in 21 .. 32
    PROVE  Half \in Nat \ {0} /\ 2^WordBits = 2 * Half
BY PowersOfTwo

\* Remainders of numbers around zero.
LEMMA Remainder ==
    ASSUME NEW m \in Nat \ {0}
    PROVE  /\ \A x \in Int : x % m \in 0 .. m - 1
           /\ \A x \in 0 .. m - 1 : x % m = x
           /\ \A x \in -m .. -1 : x % m = x + m
BY SMT

\* Signed cuts a number down to a word and leaves a word as it is.
LEMMA SignedWord ==
    ASSUME MachineConstants
    PROVE  /\ \A x \in Int : Signed(x) \in Words
           /\ \A x \in Words : Signed(x) = x
<1>1. Half \in Nat \ {0} /\ 2^WordBits = 2 * Half BY Powers, SMT DEF MachineConstants
<1>2. PICK h : h = Half OBVIOUS
<1>3. PICK m : m = 2 * h OBVIOUS
<1>4. h \in Nat \ {0} /\ m \in Nat \ {0} BY <1>1, <1>2, <1>3
<1>5. \A x : Signed(x) = ((x + h) % m) - h BY <1>1, <1>2, <1>3 DEF Signed, Half
<1>6. Words = -h .. h - 1 BY <1>2 DEF Words
<1>7. /\ \A x \in Int : x % m \in 0 .. m - 1
      /\ \A x \in 0 .. m - 1 : x % m = x
  BY <1>4, Remainder
<1>8. ASSUME NEW x \in Int PROVE Signed(x) \in Words
  <2>1. x + h \in Int BY <1>4
  <2>2. (x + h) % m \in 0 .. m - 1 BY <2>1, <1>7
  <2>3. PICK y : y = (x + h) % m OBVIOUS
  <2>4. y \in 0 .. m - 1 /\ Signed(x) = y - h BY <2>2, <2>3, <1>5
  <2> QED BY <1>3, <1>4, <1>6, <2>4
<1>9. ASSUME NEW x \in Words PROVE Signed(x) = x
  <2>1. x \in Int /\ x + h \in 0 .. m - 1 BY <1>3, <1>4, <1>6
  <2>2. (x + h) % m = x + h BY <2>1, <1>7
  <2> QED BY <1>4, <1>5, <2>1, <2>2
<1> QED BY <1>8, <1>9

\* Read without its sign, a word is less than MemSize only if it is an address.
LEMMA UnsignedWord ==
    ASSUME MachineConstants
    PROVE  /\ \A x \in Int : Unsigned(x) \in Nat
           /\ \A x \in 0 .. MemSize : Unsigned(x) = x
           /\ \A x \in Words : Unsigned(x) < MemSize <=> x \in 0 .. MemSize - 1
<1>1. Half \in Nat \ {0} /\ 2^WordBits = 2 * Half BY Powers, SMT DEF MachineConstants
<1>2. PICK h : h = Half OBVIOUS
<1>3. PICK m : m = 2 * h OBVIOUS
<1>4. h \in Nat \ {0} /\ m \in Nat \ {0} /\ MemSize \in Nat /\ MemSize < h
  BY <1>1, <1>2, <1>3, VmAssumption DEF MachineConstants
<1>5. \A x : Unsigned(x) = x % m BY <1>1, <1>2, <1>3 DEF Unsigned
<1>6. Words = -h .. h - 1 BY <1>2 DEF Words
<1>7. /\ \A x \in Int : x % m \in 0 .. m - 1
      /\ \A x \in 0 .. m - 1 : x % m = x
      /\ \A x \in -m .. -1 : x % m = x + m
  BY <1>4, Remainder
<1>8. \A x \in Int : Unsigned(x) \in Nat BY <1>4, <1>5, <1>7
<1>9. \A x \in 0 .. MemSize : Unsigned(x) = x
  <2>1. \A x \in 0 .. MemSize : x \in 0 .. m - 1 BY <1>3, <1>4
  <2> QED BY <2>1, <1>5, <1>7
<1>10. ASSUME NEW x \in Words PROVE Unsigned(x) < MemSize <=> x \in 0 .. MemSize - 1
  <2>1. CASE x >= 0
    <3>1. x \in 0 .. m - 1 BY <1>3, <1>4, <1>6, <2>1
    <3>2. x % m = x BY <3>1, <1>7
    <3> QED BY <1>4, <1>5, <2>1, <3>1, <3>2
  <2>2. CASE x < 0
    <3>1. x \in -m .. -1 /\ x >= -h BY <1>3, <1>4, <1>6, <2>2
    <3>2. x % m = x + m BY <3>1, <1>7
    <3> QED BY <1>3, <1>4, <1>5, <2>2, <3>1, <3>2
  <2> QED BY <1>4, <1>6, <2>1, <2>2
<1> QED BY <1>8, <1>9, <1>10

\* The fields of a word.
LEMMA Fields ==
    ASSUME NEW w \in Int
    PROVE  Reg1(w) \in 0 .. 15 /\ Reg2(w) \in 0 .. 15 /\ Addr20(w) \in Int /\ Addr16(w) \in Int
BY SMT DEF Reg1, Reg2, Addr20, Addr16
-----------------------------------------------------------------------------
(***************************************************************************)
(* What holds of the machine at every step.                                *)
(***************************************************************************)
Registers == [0 .. 15 -> Words]
Memories == [0 .. MemSize - 1 -> Words]
States == {"none", "start", "fetch", "execute", "trace", "ended"}
Statuses == {1, 0, DIVIDE_BY_ZERO, ADDRESS_OUT_OF_RANGE, ILLEGAL_INSTRUCTION}
CoreRecords == [reg : Registers, stack : Int, status : Statuses, state : States,
                ir : Words, next : Int]

\* The fields of struct VM.
VmTyped ==
    vm \in [phase : {"none", "ready", "loaded", "done", "gone"},
            symbols : Seq([name : STRING, address : Words]),
            tail : {"null", "wild"}, entryPoint : Words, progEnd : Nat,
            numProcessors : 0 .. MaxProcessors, trace : BOOLEAN]

\* Memory exists once initVm has made it.
MemoryTyped ==
    /\ vm.phase # "none" => memory \in Memories
    /\ vm.phase = "none" => memory = <<>>

\* The core_t records.
CoresTyped == cpu \in [Core -> CoreRecords]

\* The client's place in execute(), and what has been freed.
OthersTyped ==
    /\ main \in [at : {"idle", "create"}, i : Nat, stacks : Seq(Int)]
    /\ process \in {"running", "exit", "crash"}
    /\ freed \subseteq Core

\* A core about to execute has fetched its instruction from memory.
FetchedInside == \A c \in Core : cpu[c].state = "execute" => cpu[c].reg[PC] \in 0 .. MemSize - 1

\* There are no cores before execute(), and none that it has not yet started.
NoneYet ==
    /\ vm.phase \in {"none", "ready"} => main.at = "idle"
    /\ freed = {} /\ main.at = "idle" /\ vm.phase \in {"none", "ready", "loaded"} =>
          \A c \in Core : cpu[c].state = "none"
    /\ vm.phase \in {"none", "ready"} => freed = {}
    /\ main.at = "create" =>
          /\ freed = {} /\ vm.phase = "loaded"
          /\ main.i <= vm.numProcessors /\ vm.numProcessors <= Len(main.stacks)
          /\ \A c \in Core : c >= main.i => cpu[c].state = "none"

\* The inductive invariant of the machine.
MachineInv ==
    /\ VmTyped /\ MemoryTyped /\ CoresTyped /\ OthersTyped
    /\ FetchedInside /\ NoneYet

\* The machine starts with it.
LEMMA MachineInit ==
    ASSUME MachineConstants, Init
    PROVE  MachineInv
<1>1. 0 \in Words /\ 0 \in Nat /\ 0 \in 0 .. MaxProcessors
  BY Powers, VmAssumption, SMT DEF MachineConstants, Words
<1>2. VmTyped BY <1>1 DEF Init, VmTyped
<1>3. MemoryTyped BY DEF Init, MemoryTyped
<1>4. NoCore \in CoreRecords BY <1>1 DEF NoCore, CoreRecords, Registers, States, Statuses
<1>5. CoresTyped BY <1>4 DEF Init, CoresTyped
<1>6. OthersTyped BY DEF Init, OthersTyped
<1>7. FetchedInside /\ NoneYet
  BY DEF Init, FetchedInside, NoneYet, NoCore
<1> QED BY <1>2, <1>3, <1>5, <1>6, <1>7 DEF MachineInv

\* The invariant and what a run checks of it.
LEMMA MachineGives ==
    ASSUME MachineConstants, MachineInv
    PROVE  TypeOK
<1>1. ASSUME NEW a \in DOMAIN memory PROVE memory[a] = Signed(memory[a])
  <2>1. vm.phase # "none" BY <1>1 DEF MachineInv, MemoryTyped
  <2> QED BY <1>1, <2>1, SignedWord DEF MachineInv, MemoryTyped, Memories
<1>2. ASSUME NEW c \in Core
      PROVE  /\ cpu[c].state \in States /\ cpu[c].status \in Statuses
             /\ \A r \in 0 .. 15 : Reg(c, r) = Signed(Reg(c, r))
  BY <1>2, SignedWord DEF MachineInv, CoresTyped, CoreRecords, Registers, Reg
<1> QED BY <1>1, <1>2 DEF TypeOK, MachineInv, OthersTyped, States, Statuses

\* What getWord reads and putWord writes are words.
LEMMA GetWordType ==
    ASSUME MachineConstants, memory \in Memories, NEW a \in Int, NEW S, Words \subseteq S, NEW old \in S
    PROVE  getWord(a, old) \in S
BY UnsignedWord, VmAssumption DEF getWord, Memories

\* What putWord leaves is memory.
LEMMA PutWordType ==
    ASSUME MachineConstants, NEW mem \in Memories, NEW a \in Int, NEW w \in Words
    PROVE  putWord(mem, a, w) \in Memories
BY UnsignedWord, VmAssumption DEF putWord, Memories

\* A register that is set holds a word.
LEMMA SetType ==
    ASSUME MachineConstants, MachineInv, NEW c \in Core, NEW r \in 0 .. 15, NEW v \in Int
    PROVE  Set(c, r, v) \in Registers
BY SignedWord DEF Set, MachineInv, CoresTyped, CoreRecords, Registers

\* A core that runs, and the memory it runs on.
LEMMA CoreFacts ==
    ASSUME MachineConstants, MachineInv, NEW c \in Core
    PROVE  /\ cpu[c] \in CoreRecords /\ Words \subseteq Int
           /\ cpu[c].reg \in Registers /\ \A r \in 0 .. 15 : Reg(c, r) \in Words
           /\ Word(c) \in Words /\ cpu[c].next \in Int
           /\ cpu[c].state # "none" => vm.phase \notin {"none", "ready"} /\ memory \in Memories
           /\ cpu[c].state = "execute" => tPC(c) \in Words
<1>1. Words \subseteq Int BY Powers DEF MachineConstants, Words
<1>2. cpu[c] \in CoreRecords BY DEF MachineInv, CoresTyped
<1>3. /\ cpu[c].reg \in Registers /\ \A r \in 0 .. 15 : Reg(c, r) \in Words
      /\ Word(c) \in Words /\ cpu[c].next \in Int
  BY <1>2 DEF CoreRecords, Registers, Reg, Word
<1>4. cpu[c].state # "none" => vm.phase \notin {"none", "ready"} BY DEF MachineInv, NoneYet
<1>5. ASSUME cpu[c].state = "execute" PROVE tPC(c) \in Words
  <2>1. cpu[c].reg[PC] \in 0 .. MemSize - 1 BY <1>5 DEF MachineInv, FetchedInside
  <2> QED BY <2>1, Powers, VmAssumption DEF MachineConstants, Words, tPC
<1> QED BY <1>1, <1>2, <1>3, <1>4, <1>5 DEF MachineInv, MemoryTyped

\* A step of one core keeps the invariant if the core's record stays typed.
LEMMA CoreChange ==
    ASSUME MachineConstants, MachineInv, NEW c \in Core, NEW core \in CoreRecords,
           cpu[c].state \notin {"none", "ended"}, core.state # "none",
           core.state = "execute" => core.reg[PC] \in 0 .. MemSize - 1,
           memory' \in Memories, cpu' = [cpu EXCEPT ![c] = core],
           process' \in {"running", "exit", "crash"},
           UNCHANGED <<vm, freed, main>>
    PROVE  MachineInv'
<1>1. VmTyped' BY DEF MachineInv, VmTyped
<1>2. MemoryTyped' BY CoreFacts DEF MemoryTyped
<1>3. CoresTyped' BY DEF MachineInv, CoresTyped
<1>4. OthersTyped' BY DEF MachineInv, OthersTyped
<1>5. \A d \in Core : d # c => cpu'[d] = cpu[d] BY DEF MachineInv, CoresTyped
<1>6. cpu'[c] = core BY DEF MachineInv, CoresTyped
<1>7. FetchedInside' BY <1>5, <1>6 DEF MachineInv, FetchedInside
<1>8. NoneYet' BY <1>5, <1>6 DEF MachineInv, NoneYet
<1> QED BY <1>1, <1>2, <1>3, <1>4, <1>7, <1>8 DEF MachineInv

\* The record of a core after its PC has moved.
LEMMA AfterPCType ==
    ASSUME MachineConstants, NEW core \in CoreRecords, NEW pc \in Int
    PROVE  /\ AfterPC(core, pc) \in CoreRecords
           /\ AfterPC(core, pc).state \in {"fetch", "ended"}
BY SignedWord DEF AfterPC, CoreRecords, Registers, States, PC

\* The end of an instruction that has computed words.
LEMMA RetireKeeps ==
    ASSUME MachineConstants, MachineInv, NEW c \in Core, cpu[c].state = "execute",
           process = "running",
           NEW reg \in Registers, NEW mem \in Memories, NEW pc \in Int, NEW code \in Statuses,
           Retire(c, reg, mem, pc, code)
    PROVE  MachineInv'
<1> DEFINE core == [cpu[c] EXCEPT !.reg = reg, !.status = code]
           after == IF vm.trace THEN [core EXCEPT !.state = "trace", !.next = pc]
                    ELSE AfterPC(core, pc)
<1>1. core \in CoreRecords BY CoreFacts DEF CoreRecords
<1>2. CASE vm.trace
  <2>1. after \in CoreRecords /\ after.state = "trace" BY <1>1, <1>2 DEF CoreRecords, States
  <2> QED BY <2>1, CoreChange DEF Retire
<1>3. CASE ~vm.trace
  <2> HIDE DEF core
  <2>1. after \in CoreRecords /\ after.state \in {"fetch", "ended"} BY <1>1, <1>3, AfterPCType
  <2> QED BY <2>1, CoreChange DEF Retire, core
<1> QED BY <1>2, <1>3

\* Each instruction computes words and goes on, or ends the core.
LEMMA InstructionKeeps ==
    ASSUME MachineConstants, MachineInv, NEW c \in Core, executeInstruction(c)
    PROVE  MachineInv'
<1>1. cpu[c].state = "execute" /\ process = "running"
  BY DEF executeInstruction, Executes, halt, load, store, ldimm, ldaddr, ldind, stind,
         addf, subf, divf, mulf, addi, subi, divi, muli, call, ret_, blt, bgt, beq, jmp,
         cmpxchg, getpid, getpn, push, pop, illegal
<1>2. /\ cpu[c].reg \in Registers /\ \A r \in 0 .. 15 : Reg(c, r) \in Words
      /\ Words \subseteq Int /\ memory \in Memories /\ Word(c) \in Words
      /\ tPC(c) \in Words
  BY <1>1, CoreFacts
<1>3. /\ R1(c) \in 0 .. 15 /\ R2(c) \in 0 .. 15 /\ A(c) \in Words /\ B(c) \in Words
      /\ Addr20(Word(c)) \in Int /\ Addr16(Word(c)) \in Int
  BY <1>2, Fields DEF R1, R2, A, B
<1>4. SP \in 0 .. 15 /\ FP \in 0 .. 15 /\ SP # FP /\ PC \in 0 .. 15 BY DEF SP, FP, PC
<1>35. /\ tPC(c) \in Int /\ A(c) \in Int /\ B(c) \in Int
       /\ Reg(c, R1(c)) \in Int /\ Reg(c, R2(c)) \in Int /\ Reg(c, SP) \in Int
       /\ A(c) = Reg(c, R1(c)) /\ B(c) = Reg(c, R2(c))
  <2>1. \A r \in 0 .. 15 : Reg(c, r) \in Int BY <1>2
  <2>2. A(c) = Reg(c, R1(c)) /\ B(c) = Reg(c, R2(c)) BY DEF A, B
  <2>3. tPC(c) \in Int BY <1>2
  <2> QED BY <1>3, <1>4, <2>1, <2>2, <2>3
<1>36. /\ tPC(c) + Addr20(Word(c)) \in Int /\ tPC(c) + Addr16(Word(c)) \in Int
       /\ Reg(c, R2(c)) + Addr16(Word(c)) \in Int
  <2>1. \A x, y \in Int : x + y \in Int OBVIOUS
  <2> QED BY <1>3, <1>35, <2>1
<1>5. ASSUME NEW reg \in Registers, NEW mem \in Memories, NEW pc \in Int, Goes(c, reg, mem, pc)
      PROVE  MachineInv'
  BY <1>1, <1>5, RetireKeeps DEF Goes, Working, Statuses
<1>6. ASSUME NEW code \in Statuses, Ends(c, code) PROVE MachineInv'
  BY <1>1, <1>2, <1>6, RetireKeeps DEF Ends
<1>7. ASSUME NEW v \in Int, Arith(c, v) PROVE MachineInv'
  BY <1>2, <1>3, <1>5, <1>7, SetType DEF Arith
<1>8. {NORMAL_TERMINATION, DIVIDE_BY_ZERO, ADDRESS_OUT_OF_RANGE, ILLEGAL_INSTRUCTION}
        \subseteq Statuses
  BY DEF Statuses, NORMAL_TERMINATION
<1>9. ASSUME NEW taken, Branch(c, taken) PROVE MachineInv'
  <2>1. (IF taken THEN tPC(c) + Addr16(Word(c)) ELSE tPC(c)) \in Int BY <1>35, <1>36
  <2> QED BY <1>2, <1>5, <1>9, <2>1 DEF Branch
<1>10. CASE halt(c) BY <1>6, <1>8, <1>10 DEF halt
<1>11. CASE load(c)
  <2>1. getWord(tPC(c) + Addr20(Word(c)), Reg(c, R1(c))) \in Int
    BY <1>2, <1>3, <1>35, <1>36, GetWordType
  <2> QED BY <1>7, <1>11, <2>1 DEF load, Arith
<1>12. CASE store(c)
  <2>1. putWord(memory, tPC(c) + Addr20(Word(c)), Reg(c, R1(c))) \in Memories
    BY <1>2, <1>3, <1>35, <1>36, PutWordType
  <2> QED BY <1>2, <1>5, <1>12, <2>1 DEF store
<1>13. CASE ldimm(c) BY <1>3, <1>7, <1>13 DEF ldimm, Arith
<1>14. CASE ldaddr(c)
  <2>1. tPC(c) + Addr20(Word(c)) \in Int BY <1>36
  <2> QED BY <1>7, <1>14, <2>1 DEF ldaddr, Arith
<1>15. CASE ldind(c)
  <2>1. CASE Ends(c, ADDRESS_OUT_OF_RANGE) BY <1>6, <1>8, <2>1
  <2>2. CASE ~Ends(c, ADDRESS_OUT_OF_RANGE)
    <3>2. getWord(Reg(c, R2(c)) + Addr16(Word(c)), Reg(c, R1(c))) \in Int
      BY <1>2, <1>3, <1>35, <1>36, GetWordType
    <3> QED BY <1>7, <1>15, <2>2, <3>2 DEF ldind, Arith
  <2> QED BY <2>1, <2>2
<1>16. CASE stind(c)
  <2>1. CASE Ends(c, ADDRESS_OUT_OF_RANGE) BY <1>6, <1>8, <2>1
  <2>2. CASE ~Ends(c, ADDRESS_OUT_OF_RANGE)
    <3>2. putWord(memory, Reg(c, R2(c)) + Addr16(Word(c)), Reg(c, R1(c))) \in Memories
      BY <1>2, <1>3, <1>35, <1>36, PutWordType
    <3> QED BY <1>2, <1>5, <1>16, <2>2, <3>2 DEF stind
  <2> QED BY <2>1, <2>2
<1>17. CASE addf(c) \/ subf(c) \/ mulf(c)
  <2>1. /\ FloatOp("+", A(c), B(c)) \in Int /\ FloatOp("-", A(c), B(c)) \in Int
        /\ FloatOp("*", A(c), B(c)) \in Int
    BY <1>3 DEF MachineConstants
  <2> QED BY <1>7, <1>17, <2>1 DEF addf, subf, mulf
<1>18. CASE divf(c)
  <2>1. CASE Ends(c, DIVIDE_BY_ZERO) BY <1>6, <1>8, <2>1
  <2>2. CASE ~Ends(c, DIVIDE_BY_ZERO)
    <3>1. Arith(c, FloatOp("/", A(c), B(c))) /\ B(c) # 0 BY <1>18, <2>2 DEF divf
    <3>2. FloatOp("/", A(c), B(c)) \in Int BY <1>3, <3>1 DEF MachineConstants
    <3> QED BY <1>7, <3>1, <3>2
  <2> QED BY <2>1, <2>2
<1>19. CASE addi(c)
  <2>1. A(c) + B(c) \in Int BY <1>35
  <2> QED BY <1>7, <1>19, <2>1 DEF addi
<1>20. CASE subi(c)
  <2>1. A(c) - B(c) \in Int BY <1>35
  <2> QED BY <1>7, <1>20, <2>1 DEF subi
<1>21. CASE divi(c)
  <2>1. CASE Ends(c, DIVIDE_BY_ZERO) BY <1>6, <1>8, <2>1
  <2>3. CASE Traps(A(c), B(c)) /\ process' = "crash"
             /\ UNCHANGED <<memory, vm, cpu, freed, main, ret, traced>>
    <3>1. cpu' = [cpu EXCEPT ![c] = cpu[c]] /\ cpu[c] \in CoreRecords
      BY <2>3 DEF MachineInv, CoresTyped
    <3>2. cpu[c].reg[PC] \in 0 .. MemSize - 1 BY <1>1 DEF MachineInv, FetchedInside
    <3>3. memory' \in Memories /\ UNCHANGED <<vm, freed, main>> BY <1>2, <2>3
    <3> QED BY <1>1, <2>3, <3>1, <3>2, <3>3, CoreChange
  <2>2. CASE ~Ends(c, DIVIDE_BY_ZERO) /\ ~Traps(A(c), B(c))
    <3>1. Arith(c, Quotient(A(c), B(c))) /\ B(c) # 0 BY <1>21, <2>2 DEF divi
    <3>2. A(c) \in Int /\ B(c) \in Int BY <1>2, <1>3
    <3>3. Quotient(A(c), B(c)) \in Int
      <4>1. Abs(A(c)) \in Nat /\ Abs(B(c)) \in Nat \ {0} BY <3>1, <3>2 DEF Abs
      <4>2. Abs(A(c)) \div Abs(B(c)) \in Int BY <4>1
      <4>3. \A q \in Int : 1 * q \in Int /\ (-1) * q \in Int OBVIOUS
      <4> QED BY <4>2, <4>3 DEF Quotient
    <3> QED BY <1>7, <3>1, <3>3
  <2> QED BY <1>21, <2>1, <2>2, <2>3 DEF divi
<1>22. CASE muli(c)
  <2>1. A(c) * B(c) \in Int BY <1>35
  <2> QED BY <1>7, <1>22, <2>1 DEF muli
<1>23. CASE call(c)
  <2>1. CASE Ends(c, ADDRESS_OUT_OF_RANGE) BY <1>6, <1>8, <2>1
  <2>2. CASE ~Ends(c, ADDRESS_OUT_OF_RANGE)
    <3> DEFINE s == Reg(c, SP)
               one == putWord(memory, s - 1, ReturnAddress(c))
               two == putWord(one, s - 2, Reg(c, FP))
               three == putWord(two, s - 3, 0)
    <3>1. s \in Int /\ s - 1 \in Int /\ s - 2 \in Int /\ s - 3 \in Int BY <1>35
    <3>2. 0 \in Words BY Powers DEF MachineConstants, Words
    <3>3. one \in Memories BY <1>2, <3>1, PutWordType DEF ReturnAddress
    <3>4. two \in Memories
      <4> HIDE DEF one, s
      <4> QED BY <1>2, <1>4, <3>1, <3>3, PutWordType
    <3>5. three \in Memories
      <4> HIDE DEF two, s
      <4> QED BY <3>1, <3>2, <3>4, PutWordType
    <3>6. [cpu[c].reg EXCEPT ![SP] = Signed(s - 3), ![FP] = Signed(s - 2)] \in Registers
      BY <1>2, <1>4, <3>1, SignedWord DEF Registers
    <3>7. tPC(c) + Addr20(Word(c)) \in Int BY <1>36
    <3>8. Goes(c, [cpu[c].reg EXCEPT ![SP] = Signed(s - 3), ![FP] = Signed(s - 2)],
               three, tPC(c) + Addr20(Word(c)))
      BY <1>23, <2>2 DEF call
    <3> HIDE DEF s, three
    <3> QED BY <1>5, <3>5, <3>6, <3>7, <3>8
  <2> QED BY <2>1, <2>2
<1>24. CASE ret_(c)
  <2>1. CASE Ends(c, ADDRESS_OUT_OF_RANGE) BY <1>6, <1>8, <2>1
  <2>2. CASE ~Ends(c, ADDRESS_OUT_OF_RANGE)
    <3> DEFINE s == Reg(c, SP)
               fp == getWord(s + 1, Reg(c, FP))
               reg == [cpu[c].reg EXCEPT ![SP] = Signed(s + 3), ![FP] = fp]
               mem == putWord(memory, fp - 1, getWord(s, Word(c)))
               pc == getWord(s + 2, tPC(c))
    <3>1. s \in Int /\ s + 1 \in Int /\ s + 2 \in Int /\ s + 3 \in Int BY <1>35
    <3>2. fp \in Words BY <1>2, <1>4, <3>1, GetWordType
    <3>3. reg \in Registers
      <4> HIDE DEF fp
      <4> QED BY <1>2, <1>4, <3>1, <3>2, SignedWord DEF Registers
    <3>4. fp - 1 \in Int
      <4> HIDE DEF fp
      <4> QED BY <1>2, <3>2
    <3>5. getWord(s, Word(c)) \in Words BY <1>2, <3>1, GetWordType
    <3>6. mem \in Memories
      <4> HIDE DEF fp, s
      <4> QED BY <1>2, <3>4, <3>5, PutWordType
    <3>7. pc \in Int BY <1>2, <3>1, GetWordType
    <3>8. Goes(c, reg, mem, pc) BY <1>24, <2>2 DEF ret_
    <3> HIDE DEF reg, mem, pc
    <3> QED BY <1>5, <3>3, <3>6, <3>7, <3>8
  <2> QED BY <2>1, <2>2
<1>25. CASE blt(c) BY <1>9, <1>25 DEF blt
<1>26. CASE bgt(c) BY <1>9, <1>26 DEF bgt
<1>27. CASE beq(c) BY <1>9, <1>27 DEF beq
<1>28. CASE jmp(c)
  <2>1. tPC(c) + Addr20(Word(c)) \in Int BY <1>36
  <2> QED BY <1>2, <1>5, <1>28, <2>1 DEF jmp
<1>29. CASE cmpxchg(c)
  <2> DEFINE a == tPC(c) + Addr16(Word(c))
  <2>1. a \in Int BY <1>36
  <2>2. putWord(memory, a, B(c)) \in Memories BY <1>2, <1>3, <2>1, PutWordType
  <2>3. getWord(a, A(c)) \in Int BY <1>2, <1>3, <2>1, GetWordType
  <2>4. \/ Goes(c, cpu[c].reg, putWord(memory, a, B(c)), tPC(c))
        \/ Arith(c, getWord(a, A(c)))
    BY <1>29 DEF cmpxchg, Arith
  <2> HIDE DEF a
  <2> QED BY <1>2, <1>5, <1>7, <2>2, <2>3, <2>4
<1>30. CASE getpid(c)
  <2>1. c \in Int BY VmAssumption DEF Core
  <2> QED BY <1>7, <1>30, <2>1 DEF getpid
<1>31. CASE getpn(c)
  <2>1. vm.numProcessors \in Int BY VmAssumption DEF MachineInv, VmTyped
  <2> QED BY <1>7, <1>31, <2>1 DEF getpn
<1>32. CASE push(c)
  <2>1. CASE Ends(c, ADDRESS_OUT_OF_RANGE) BY <1>6, <1>8, <2>1
  <2>2. CASE ~Ends(c, ADDRESS_OUT_OF_RANGE)
    <3> DEFINE reg == Set(c, SP, Reg(c, SP) - 1)
    <3>1. Reg(c, SP) - 1 \in Int BY <1>35
    <3>2. reg \in Registers BY <1>4, <3>1, SetType
    <3>3. Goes(c, reg, putWord(memory, reg[SP], reg[R1(c)]), tPC(c)) BY <1>32, <2>2 DEF push
    <3> HIDE DEF reg
    <3>4. reg[SP] \in Int /\ reg[R1(c)] \in Words BY <1>2, <1>3, <1>4, <3>2 DEF Registers
    <3>5. putWord(memory, reg[SP], reg[R1(c)]) \in Memories BY <1>2, <3>4, PutWordType
    <3> QED BY <1>2, <1>5, <3>2, <3>3, <3>5
  <2> QED BY <2>1, <2>2
<1>33. CASE pop(c)
  <2>1. CASE Ends(c, ADDRESS_OUT_OF_RANGE) BY <1>6, <1>8, <2>1
  <2>2. CASE ~Ends(c, ADDRESS_OUT_OF_RANGE)
    <3> DEFINE loaded == Set(c, R1(c), getWord(Reg(c, SP), A(c)))
               reg == [loaded EXCEPT ![SP] = Signed(@ + 1)]
    <3>1. Reg(c, SP) \in Int BY <1>2, <1>4
    <3>2. getWord(Reg(c, SP), A(c)) \in Int BY <1>2, <1>3, <3>1, GetWordType
    <3>3. loaded \in Registers BY <1>3, <3>2, SetType
    <3>4. Retire(c, reg, memory, tPC(c), ILLEGAL_INSTRUCTION) BY <1>33, <2>2 DEF pop
    <3> HIDE DEF loaded
    <3>8. loaded[SP] \in Int BY <1>2, <1>4, <3>3 DEF Registers
    <3>5. loaded[SP] + 1 \in Int BY <3>8
    <3>6. Signed(loaded[SP] + 1) \in Words BY <3>5, SignedWord
    <3>7. reg \in Registers BY <1>4, <3>3, <3>6 DEF Registers
    <3> HIDE DEF reg
    <3> QED BY <1>1, <1>2, <1>8, <3>4, <3>7, RetireKeeps
  <2> QED BY <2>1, <2>2
<1>34. CASE illegal(c) BY <1>6, <1>8, <1>34 DEF illegal
<1> QED
  BY <1>10, <1>11, <1>12, <1>13, <1>14, <1>15, <1>16, <1>17, <1>18, <1>19, <1>20, <1>21,
     <1>22, <1>23, <1>24, <1>25, <1>26, <1>27, <1>28, <1>29, <1>30, <1>31, <1>32, <1>33,
     <1>34
  DEF executeInstruction
-----------------------------------------------------------------------------
\* The least number of a set.
LEMMA MinIsLeast ==
    ASSUME NEW S \in SUBSET Nat, S # {}
    PROVE  Min(S) \in S /\ \A y \in S : Min(S) <= y
<1> DEFINE R == OpToRel(<, Nat)
<1>1. IsWellFoundedOn(R, Nat) BY NatLessThanWellFounded
<1>2. PICK x \in S : \A y \in S : ~(<<y, x>> \in R)
  <2> HIDE DEF R
  <2> QED BY <1>1, WFMin
<1>3. ASSUME NEW y \in S PROVE x <= y
  <2>1. x \in Nat /\ y \in Nat OBVIOUS
  <2>2. y < x => <<y, x>> \in R BY <2>1 DEF OpToRel
  <2>3. ~(y < x) BY <1>2, <2>2
  <2> HIDE DEF R
  <2> QED BY <2>1, <2>3
<1> QED BY <1>3 DEF Min

\* The symbols a load reads, and its entry point.
LEMMA MainsFinite ==
    ASSUME NEW f, f.insymbols \in Seq([name : STRING, address : Words])
    PROVE  /\ Mains(f) \in SUBSET Nat /\ Mains(f) \subseteq 1 .. Len(f.insymbols)
           /\ IsFiniteSet(Mains(f)) /\ Cardinality(Mains(f)) \in Nat
           /\ Mains(f) # {} => f.insymbols[Min(Mains(f))].address \in Words
<1>1. Mains(f) \in SUBSET (1 .. Len(f.insymbols)) /\ Len(f.insymbols) \in Nat BY DEF Mains
<1>2. IsFiniteSet(Mains(f))
  <2>1. IsFiniteSet(1 .. Len(f.insymbols)) BY <1>1, FS_Interval
  <2> QED BY <1>1, <2>1, FS_Subset
<1>3. Cardinality(Mains(f)) \in Nat BY <1>2, FS_CardinalityType
<1>4. ASSUME Mains(f) # {} PROVE f.insymbols[Min(Mains(f))].address \in Words
  <2>1. Mains(f) \in SUBSET Nat BY <1>1
  <2>2. Min(Mains(f)) \in Mains(f) BY <1>4, <2>1, MinIsLeast
  <2>3. PICK k : k = Min(Mains(f)) OBVIOUS
  <2>4. k \in 1 .. Len(f.insymbols) BY <1>1, <2>2, <2>3
  <2>5. PICK s, S : s = f.insymbols /\ S = [name : STRING, address : Words] OBVIOUS
  <2>6. s \in Seq(S) /\ k \in 1 .. Len(s) BY <2>4, <2>5
  <2>7. s[k] \in S BY <2>6
  <2>8. s[k].address \in Words BY <2>5, <2>7
  <2> QED BY <2>3, <2>5, <2>8
<1> QED BY <1>1, <1>2, <1>3, <1>4

\* The symbols read are symbols of the file.
LEMMA SymbolsReadType ==
    ASSUME NEW f, f.insymbols \in Seq([name : STRING, address : Words])
    PROVE  SymbolsRead(f) \in Seq([name : STRING, address : Words])
<1>1. CASE Cardinality(Mains(f)) > 1
  <2> DEFINE T == Mains(f) \ {Min(Mains(f))}
  <2>1. T # {}
    <3>1. Mains(f) # {Min(Mains(f))}
      <4>1. SUFFICES ASSUME Mains(f) = {Min(Mains(f))} PROVE FALSE OBVIOUS
      <4>2. PICK k : k = Min(Mains(f)) OBVIOUS
      <4>3. Cardinality({k}) = 1 BY FS_Singleton
      <4>4. Cardinality(Mains(f)) = 1 BY <4>1, <4>2, <4>3
      <4> QED BY <1>1, <4>4
    <3>2. Mains(f) # {}
      <4>1. Cardinality({}) = 0 BY FS_EmptySet
      <4>2. ~(0 > 1) OBVIOUS
      <4> QED BY <1>1, <4>1, <4>2
    <3> QED BY <3>1, <3>2
  <2>2. T \in SUBSET Nat /\ T \subseteq 1 .. Len(f.insymbols) BY MainsFinite
  <2>3. Min(T) \in 1 .. Len(f.insymbols)
    <3> HIDE DEF T
    <3> QED BY <2>1, <2>2, MinIsLeast
  <2> HIDE DEF T
  <2>5. PICK s, k : s = f.insymbols /\ k = Min(T) OBVIOUS
  <2>6. PICK S : S = [name : STRING, address : Words] OBVIOUS
  <2>7. s \in Seq(S) /\ k \in 1 .. Len(s) BY <2>3, <2>5, <2>6
  <2>8. SubSeq(s, 1, k) \in Seq(S)
    <3>1. \A i \in 1 .. k : s[i] \in S BY <2>7
    <3> QED BY <2>7, <3>1, SubSeqProperties
  <2>4. SubSeq(f.insymbols, 1, Min(T)) \in Seq([name : STRING, address : Words])
    BY <2>5, <2>6, <2>8
  <2> QED BY <1>1, <2>4 DEF SymbolsRead, T
<1>2. CASE ~(Cardinality(Mains(f)) > 1) BY <1>2 DEF SymbolsRead
<1> QED BY <1>1, <1>2

\* The symbols of a file, the last one first.
LEMMA ReverseType ==
    ASSUME NEW T, NEW s \in Seq(T)
    PROVE  /\ Reverse(s) \in Seq(T) /\ Len(Reverse(s)) = Len(s)
           /\ \A k \in 1 .. Len(s) : Reverse(s)[k] = s[(Len(s) - k) + 1]
BY DEF Reverse

\* What a call of loadExecutableFile leaves is typed, whether it succeeds or not.
LEMMA LoadKeeps ==
    ASSUME MachineConstants, MachineInv, NEW f \in Files, loadExecutableFile(f)
    PROVE  MachineInv'
<1>1. UNCHANGED <<cpu, freed, main, process>> BY DEF loadExecutableFile
<1>2. CASE UNCHANGED <<memory, vm>>
  BY <1>1, <1>2
  DEF MachineInv, VmTyped, MemoryTyped, CoresTyped, OthersTyped, FetchedInside, NoneYet
<1>3. CASE ~UNCHANGED <<memory, vm>>
  <2> DEFINE read == Min({f.length, Len(f.code)})
  <2>1. Idle("ready") BY <1>3 DEF loadExecutableFile
  <2>2. /\ memory' = [a \in DOMAIN memory |-> IF a < read THEN f.code[a + 1] ELSE memory[a]]
        /\ \/ vm' = [vm EXCEPT !.progEnd = read]
           \/ vm' = [vm EXCEPT !.progEnd = read,
                               !.phase = IF OneMain(f) THEN "loaded" ELSE @,
                               !.symbols = SymbolsAfter(f),
                               !.entryPoint = IF Mains(f) = {} THEN @
                                   ELSE f.insymbols[Min(Mains(f))].address]
    BY <1>3 DEF loadExecutableFile
  <2>3. f.code \in Seq(Words) /\ f.length \in Nat
        /\ f.insymbols \in Seq([name : STRING, address : Words])
    BY DEF MachineConstants
  <2>4. read \in Nat /\ read <= f.length /\ read <= Len(f.code)
    <3>1. {f.length, Len(f.code)} \in SUBSET Nat BY <2>3
    <3> QED BY <3>1, MinIsLeast
  <2> HIDE DEF read
  <2>5. memory \in Memories /\ main.at = "idle" /\ vm.phase = "ready" /\ freed = {}
        /\ \A c \in Core : cpu[c].state = "none"
    BY <2>1 DEF Idle, MachineInv, MemoryTyped, NoneYet
  <2>6. memory' \in Memories
    <3>1. DOMAIN memory = 0 .. MemSize - 1 BY <2>5 DEF Memories
    <3>2. ASSUME NEW a \in 0 .. MemSize - 1
          PROVE  (IF a < read THEN f.code[a + 1] ELSE memory[a]) \in Words
      <4>1. CASE a < read
        <5>1. a + 1 \in 1 .. Len(f.code) BY <2>3, <2>4, <4>1, VmAssumption
        <5> QED BY <2>3, <4>1, <5>1
      <4>2. CASE ~(a < read) BY <2>5, <4>2 DEF Memories
      <4> QED BY <4>1, <4>2
    <3> QED BY <2>2, <3>1, <3>2 DEF Memories
  <2>7. vm.symbols \in Seq([name : STRING, address : Words]) /\ vm.entryPoint \in Words
    BY DEF MachineInv, VmTyped
  <2>8. SymbolsAfter(f) \in Seq([name : STRING, address : Words])
    <3>1. Reverse(SymbolsRead(f)) \in Seq([name : STRING, address : Words])
      BY <2>3, SymbolsReadType, ReverseType
    <3> QED BY <2>7, <3>1 DEF SymbolsAfter
  <2>9. (IF Mains(f) = {} THEN vm.entryPoint ELSE f.insymbols[Min(Mains(f))].address) \in Words
    BY <2>3, <2>7, MainsFinite
  <2>10. VmTyped' /\ vm'.phase \in {"ready", "loaded"} /\ vm'.numProcessors = vm.numProcessors
    BY <2>2, <2>4, <2>5, <2>8, <2>9 DEF MachineInv, VmTyped
  <2>11. MemoryTyped' BY <2>6, <2>10 DEF MemoryTyped
  <2>12. CoresTyped' /\ OthersTyped' BY <1>1 DEF MachineInv, CoresTyped, OthersTyped
  <2>13. FetchedInside' /\ NoneYet'
    BY <1>1, <2>5, <2>10 DEF FetchedInside, NoneYet
  <2> QED BY <2>10, <2>11, <2>12, <2>13 DEF MachineInv
<1> QED BY <1>2, <1>3

\* The other calls of the client.
LEMMA ClientKeeps ==
    ASSUME MachineConstants, MachineInv, ClientStep
    PROVE  MachineInv'
<1> USE DEF MachineInv, VmTyped, MemoryTyped, CoresTyped, OthersTyped, FetchedInside, NoneYet
<1>1. CASE initVm
  <2>1. UNCHANGED <<cpu, freed, main>> /\ Idle("none") BY <1>1 DEF initVm
  <2>2. CASE UNCHANGED <<memory, vm>> BY <1>1, <2>1, <2>2, ZenonT(60) DEF initVm
  <2>3. CASE ~UNCHANGED <<memory, vm>>
    <3>1. PICK w \in MemoryFill : memory' = [a \in 0 .. MemSize - 1 |-> w]
      BY <1>1, <2>3 DEF initVm
    <3>2. PICK t \in HeapContent : vm' = [vm EXCEPT !.phase = "ready", !.tail = t]
      BY <1>1, <2>3 DEF initVm
    <3>3. process' = process BY <1>1, <2>3 DEF initVm
    <3>4. memory' \in Memories BY <3>1 DEF MachineConstants, Memories
    <3>5. t \in {"null", "wild"} BY VmAssumption
    <3>6. /\ main.at = "idle" /\ freed = {} /\ \A c \in Core : cpu[c].state = "none"
      BY <2>1 DEF Idle
    <3> QED BY <2>1, <3>2, <3>3, <3>4, <3>5, <3>6
  <2> QED BY <2>2, <2>3
<1>2. CASE createCore
  <2>1. /\ main.at = "create" /\ main.i < vm.numProcessors /\ main.i \in Nat
        /\ freed = {} /\ vm.phase = "loaded" /\ vm.numProcessors <= Len(main.stacks)
        /\ vm.numProcessors \in 0 .. MaxProcessors
        /\ \A c \in Core : c >= main.i => cpu[c].state = "none"
    BY <1>2 DEF createCore
  <2>2. main.i \in Core BY <2>1, VmAssumption DEF Core
  <2>3. UNCHANGED <<memory, vm, process>> BY <1>2 DEF createCore
  <2>6. main \in [at : {"idle", "create"}, i : Nat, stacks : Seq(Int)] OBVIOUS
  <2>4. CASE /\ freed' = 0 .. main.i - 1 /\ main' = [main EXCEPT !.at = "idle"]
             /\ UNCHANGED cpu
    <3>1. /\ freed' = 0 .. main.i - 1 /\ main' = [main EXCEPT !.at = "idle"] BY <2>4
    <3>2. freed' \subseteq Core BY <2>1, <3>1, VmAssumption DEF Core
    <3>3. main' \in [at : {"idle", "create"}, i : Nat, stacks : Seq(Int)]
          /\ main'.at = "idle" /\ main'.i = main.i
      BY <3>1
    <3>4. freed' = {} => main.i = 0
      <4>1. \A i \in Nat : i # 0 => 0 \in 0 .. i - 1 OBVIOUS
      <4> QED BY <2>1, <3>1, <4>1
    <3>5. freed' = {} => \A c \in Core : cpu[c].state = "none"
      BY <2>1, <3>4, VmAssumption DEF Core
    <3> QED BY <2>1, <2>3, <2>4, <3>2, <3>3, <3>5
  <2>5. CASE ~(/\ freed' = 0 .. main.i - 1 /\ main' = [main EXCEPT !.at = "idle"]
               /\ UNCHANGED cpu)
    <3> DEFINE stack == main.stacks[main.i + 1]
               core == [NoCore EXCEPT !.stack = stack, !.reg[SP] = Signed(stack),
                                      !.status = Working, !.state = "start"]
    <3>1. cpu' = [cpu EXCEPT ![main.i] = core] /\ main' = [main EXCEPT !.i = @ + 1]
          /\ UNCHANGED freed
      BY <1>2, <2>5 DEF createCore
    <3>2. stack \in Int BY <2>1
    <3>3. Signed(stack) \in Words /\ 0 \in Words
      <4> HIDE DEF stack
      <4>1. Signed(stack) \in Words BY <3>2, SignedWord
      <4>2. 0 \in Words BY Powers DEF MachineConstants, Words
      <4> QED BY <4>1, <4>2
    <3>14. NoCore \in CoreRecords
      BY <3>3 DEF NoCore, CoreRecords, Registers, States, Statuses
    <3>4. core \in CoreRecords /\ core.state = "start"
      <4> HIDE DEF stack
      <4> QED BY <3>2, <3>3, <3>14 DEF CoreRecords, Registers, Statuses, States, Working, SP
    <3>5. main' \in [at : {"idle", "create"}, i : Nat, stacks : Seq(Int)]
          /\ main'.at = "create" /\ main'.i = main.i + 1 /\ main'.stacks = main.stacks
      <4>1. main.i + 1 \in Nat BY <2>1
      <4>2. PICK i : i = main.i + 1 OBVIOUS
      <4> QED BY <2>1, <2>6, <3>1, <4>1, <4>2
    <3> HIDE DEF core
    <3>6. cpu' \in [Core -> CoreRecords] BY <3>1, <3>4
    <3>7. cpu'[main.i].state = "start" /\ \A c \in Core : c # main.i => cpu'[c] = cpu[c]
      BY <2>2, <3>1, <3>4
    <3>8. \A c \in Core : c >= main.i + 1 => c >= main.i /\ c # main.i
      BY <2>1, VmAssumption DEF Core
    <3>9. \A c \in Core : c >= main.i + 1 => cpu'[c].state = "none" BY <2>1, <3>7, <3>8
    <3>10. main.i + 1 <= vm.numProcessors BY <2>1
    <3>11. FetchedInside' BY <2>2, <3>7
    <3>12. NoneYet' BY <2>1, <2>3, <3>1, <3>5, <3>9, <3>10
    <3> QED BY <2>3, <3>1, <3>5, <3>6, <3>11, <3>12
  <2> QED BY <2>4, <2>5
<1>3. CASE joinAll
  <2>1. /\ main.at = "create" /\ vm.phase = "loaded" /\ main.i = vm.numProcessors
        /\ \A c \in 0 .. vm.numProcessors - 1 : cpu[c].state = "ended"
        /\ main' = [main EXCEPT !.at = "idle"]
        /\ vm' = [vm EXCEPT !.phase = "done"]
        /\ freed' = 0 .. vm.numProcessors - 1
        /\ UNCHANGED <<memory, cpu, process>>
    BY <1>3 DEF joinAll
  <2>2. freed' \subseteq Core BY <2>1, VmAssumption DEF Core
  <2>3. main' \in [at : {"idle", "create"}, i : Nat, stacks : Seq(Int)] /\ main'.at = "idle"
    BY <2>1
  <2>4. VmTyped' /\ vm'.phase = "done" /\ vm'.numProcessors = vm.numProcessors BY <2>1
  <2> QED BY <2>1, <2>2, <2>3, <2>4
<1>4. CASE cleanup
  <2>1. vm.phase = "done" /\ UNCHANGED <<memory, cpu, freed, main>>
        /\ process' \in {"running", "exit", "crash"}
    BY <1>4 DEF cleanup, Idle
  <2>2. VmTyped' /\ vm'.phase = "gone" /\ vm'.numProcessors = vm.numProcessors
    BY <1>4 DEF cleanup
  <2>3. main.at # "create" BY <2>1
  <2> QED BY <2>1, <2>2, <2>3
<1>5. ASSUME NEW f \in Files, loadExecutableFile(f) PROVE MachineInv'
  <2> USE DEF MachineConstants
  <2> HIDE DEF MachineInv
  <2> QED BY <1>5, LoadKeeps
<1>6. ASSUME NEW l \in Labels, AskAddress(l) PROVE MachineInv' BY <1>6 DEF AskAddress
<1>7. ASSUME NEW q \in Requests, execute(q.n, q.stacks, q.trace) PROVE MachineInv'
  <2>1. q.n \in Nat /\ q.stacks \in Seq(Int) /\ q.n <= Len(q.stacks) /\ q.trace \in BOOLEAN
    BY DEF MachineConstants
  <2>2. Idle("loaded") /\ freed = {} /\ UNCHANGED <<memory, cpu, freed, process>>
    BY <1>7 DEF execute
  <2>3. \A c \in Core : cpu[c].state = "none" BY <2>2 DEF Idle
  <2>4. CASE UNCHANGED <<vm, main>> BY <2>2, <2>4
  <2>5. CASE ~UNCHANGED <<vm, main>>
    <3>1. /\ q.n <= MaxProcessors
          /\ vm' = [vm EXCEPT !.numProcessors = q.n, !.trace = q.trace]
          /\ main' = [at |-> "create", i |-> 0, stacks |-> q.stacks]
      BY <1>7, <2>5 DEF execute
    <3>5. q.n \in 0 .. MaxProcessors BY <2>1, <3>1, VmAssumption
    <3>2. VmTyped' /\ vm'.phase = "loaded" /\ vm'.numProcessors = q.n
      BY <2>1, <2>2, <3>1, <3>5 DEF Idle
    <3>3. main' \in [at : {"idle", "create"}, i : Nat, stacks : Seq(Int)]
          /\ main'.at = "create" /\ main'.i = 0 /\ main'.stacks = q.stacks
      BY <2>1, <3>1
    <3>4. memory' \in Memories BY <2>2 DEF Idle
    <3> QED BY <2>1, <2>2, <2>3, <3>2, <3>3, <3>4
  <2> QED BY <2>4, <2>5
<1> QED BY <1>1, <1>2, <1>3, <1>4, <1>5, <1>6, <1>7 DEF ClientStep

\* The steps of a core outside executeInstruction.
LEMMA LoopKeeps ==
    ASSUME MachineConstants, MachineInv, NEW c \in Core,
           startCore(c) \/ fetch(c) \/ printTrace(c)
    PROVE  MachineInv'
<1>1. cpu[c] \in CoreRecords /\ cpu[c].reg \in Registers /\ Reg(c, PC) \in Words
  BY CoreFacts DEF PC
<1>2. CASE startCore(c)
  <2> DEFINE core == [cpu[c] EXCEPT !.reg[PC] = vm.entryPoint, !.state = "fetch"]
  <2>1. core \in CoreRecords /\ core.state = "fetch"
    BY <1>1 DEF MachineInv, VmTyped, CoreRecords, Registers, States, PC
  <2>2. memory' \in Memories BY <1>2, CoreFacts DEF startCore
  <2>3. cpu' = [cpu EXCEPT ![c] = core]
    BY <1>2 DEF startCore, MachineInv, CoresTyped, CoreRecords, Registers
  <2> HIDE DEF core
  <2>4. process' \in {"running", "exit", "crash"} /\ UNCHANGED <<vm, freed, main>>
    BY <1>2 DEF startCore
  <2>5. cpu[c].state = "start" BY <1>2 DEF startCore
  <2> QED BY <2>1, <2>2, <2>3, <2>4, <2>5, CoreChange
<1>3. CASE fetch(c)
  <2>1. cpu[c].state = "fetch" /\ memory \in Memories /\ UNCHANGED <<memory, vm, freed, main>>
    BY <1>3, CoreFacts DEF fetch
  <2>2. CASE UNCHANGED cpu
    <3>1. cpu' = [cpu EXCEPT ![c] = cpu[c]] BY <2>2 DEF MachineInv, CoresTyped
    <3>2. process' \in {"running", "exit", "crash"} BY <1>3 DEF fetch
    <3> QED BY <1>1, <2>1, <3>1, <3>2, CoreChange
  <2>3. CASE ~UNCHANGED cpu
    <3>1. Unsigned(Reg(c, PC)) < MemSize BY <1>3, <2>3 DEF fetch, Reg
    <3>2. Reg(c, PC) \in 0 .. MemSize - 1 BY <1>1, <3>1, UnsignedWord
    <3>3. Unsigned(Reg(c, PC)) = Reg(c, PC) BY <3>2, UnsignedWord, VmAssumption
    <3> DEFINE core == [cpu[c] EXCEPT !.ir = memory[Unsigned(Reg(c, PC))], !.state = "execute"]
    <3>4. core \in CoreRecords /\ core.state = "execute" /\ core.reg = cpu[c].reg
      BY <1>1, <2>1, <3>2, <3>3 DEF CoreRecords, Memories, States
    <3>5. cpu' = [cpu EXCEPT ![c] = core]
      BY <1>3, <2>3 DEF fetch, MachineInv, CoresTyped, CoreRecords
    <3> HIDE DEF core
    <3>6. process' \in {"running", "exit", "crash"} BY <1>3, <2>3 DEF fetch
    <3>7. core.reg[PC] \in 0 .. MemSize - 1 BY <3>2, <3>4 DEF Reg
    <3> QED BY <2>1, <3>4, <3>5, <3>6, <3>7, CoreChange
  <2> QED BY <2>2, <2>3
<1>4. CASE printTrace(c)
  <2> DEFINE core == AfterPC(cpu[c], cpu[c].next)
  <2>1. core \in CoreRecords /\ core.state \in {"fetch", "ended"}
    BY <1>1, CoreFacts, AfterPCType
  <2>2. /\ cpu[c].state = "trace" /\ memory' \in Memories /\ UNCHANGED <<vm, freed, main>>
        /\ process' \in {"running", "exit", "crash"} /\ cpu' = [cpu EXCEPT ![c] = core]
    BY <1>4, CoreFacts DEF printTrace
  <2> HIDE DEF core
  <2> QED BY <2>1, <2>2, CoreChange
<1> QED BY <1>2, <1>3, <1>4

\* Every step of the client and of the cores keeps the invariant.
LEMMA MachineStep ==
    ASSUME MachineConstants, MachineInv, [Next]_vars
    PROVE  MachineInv'
<1>1. CASE ClientStep BY <1>1, ClientKeeps
<1>2. ASSUME NEW c \in Core, CoreStep(c) PROVE MachineInv'
  BY <1>2, InstructionKeeps, LoopKeeps DEF CoreStep
<1>3. CASE UNCHANGED vars
  BY <1>3
  DEF vars, MachineInv, VmTyped, MemoryTyped, CoresTyped, OthersTyped, FetchedInside, NoneYet
<1> QED BY <1>1, <1>2, <1>3 DEF Next

\* Whatever the programs are, however the cores take turns, and whichever start
\* fails, the words of memory and the registers stay words, however instructions
\* wrap around (vmx20.c's int32_t, executeInstruction).
THEOREM MachineSafe ==
    ASSUME MachineConstants PROVE Spec => []TypeOK
<1>1. Init => MachineInv BY MachineInit
<1>2. MachineInv /\ [Next]_vars => MachineInv' BY MachineStep
<1>3. MachineInv => TypeOK BY MachineGives
<1> QED BY <1>1, <1>2, <1>3, PTL DEF Spec
-----------------------------------------------------------------------------
\* A few words below an address, read without the sign: below zero lies outside
\* memory.
LEMMA WordsBelow ==
    ASSUME MachineConstants, NEW s \in Words, NEW k \in 0 .. 3
    PROVE  /\ Unsigned(s) \in Nat
           /\ Unsigned(s) >= k => Unsigned(s - k) = Unsigned(s) - k
           /\ Unsigned(s) < k => Unsigned(s - k) >= MemSize
<1>1. Half \in Nat \ {0} /\ 2^WordBits = 2 * Half /\ Half > 3 BY PowersOfTwo DEF MachineConstants
<1>2. PICK h : h = Half OBVIOUS
<1>3. PICK m : m = 2 * h OBVIOUS
<1>4. h \in Nat \ {0} /\ h > 3 /\ m \in Nat \ {0} /\ MemSize \in Nat /\ MemSize < h
  BY <1>1, <1>2, <1>3, VmAssumption DEF MachineConstants
<1>5. \A x : Unsigned(x) = x % m BY <1>1, <1>2, <1>3 DEF Unsigned
<1>6. s \in -h .. h - 1 BY <1>2 DEF Words
<1>7. /\ \A x \in 0 .. m - 1 : x % m = x
      /\ \A x \in -m .. -1 : x % m = x + m
  BY <1>4, Remainder
<1>8. CASE s >= k
  <2>1. s \in 0 .. m - 1 /\ s - k \in 0 .. m - 1 BY <1>3, <1>4, <1>6, <1>8
  <2>2. s % m = s /\ (s - k) % m = s - k BY <2>1, <1>7
  <2> QED BY <1>5, <1>6, <1>8, <2>2
<1>9. CASE 0 <= s /\ s < k
  <2>1. s \in 0 .. m - 1 /\ s - k \in -m .. -1 BY <1>3, <1>4, <1>6, <1>9
  <2>2. s % m = s /\ (s - k) % m = (s - k) + m BY <2>1, <1>7
  <2> QED BY <1>3, <1>4, <1>5, <1>6, <1>9, <2>2
<1>10. CASE s < 0
  <2>1. s \in -m .. -1 /\ s - k \in -m .. -1 BY <1>3, <1>4, <1>6, <1>10
  <2>2. s % m = s + m /\ (s - k) % m = (s - k) + m BY <2>1, <1>7
  <2> QED BY <1>3, <1>4, <1>5, <1>6, <1>10, <2>2
<1> QED BY <1>6, <1>8, <1>9, <1>10

\* SP after a push, where it is not just one less.
LEMMA WordBelowLeast ==
    ASSUME MachineConstants, NEW s \in Words, s - 1 \notin Words
    PROVE  Unsigned(Signed(s - 1)) >= MemSize
<1>1. Half \in Nat \ {0} /\ 2^WordBits = 2 * Half BY Powers DEF MachineConstants
<1>2. PICK h : h = Half OBVIOUS
<1>3. PICK m : m = 2 * h OBVIOUS
<1>4. h \in Nat \ {0} /\ m \in Nat \ {0} /\ MemSize \in Nat /\ MemSize < h
  BY <1>1, <1>2, <1>3, VmAssumption DEF MachineConstants
<1>5. \A x : Signed(x) = ((x + h) % m) - h BY <1>1, <1>2, <1>3 DEF Signed, Half
<1>6. s = -h BY <1>2, <1>4 DEF Words
<1>7. (s - 1) + h = -1 /\ -1 \in -m .. -1 BY <1>4, <1>6
<1>8. ((s - 1) + h) % m = m - 1 BY <1>4, <1>7, Remainder
<1>9. Signed(s - 1) = h - 1 BY <1>3, <1>4, <1>5, <1>8
<1>10. h - 1 \in 0 .. m - 1 BY <1>3, <1>4
<1>11. \A x : Unsigned(x) = x % m BY <1>1, <1>2, <1>3 DEF Unsigned
<1>12. Unsigned(h - 1) = h - 1 BY <1>4, <1>10, <1>11, Remainder
<1> QED BY <1>4, <1>9, <1>12

\* putWord writes one word.
LEMMA PutWordElsewhere ==
    ASSUME MachineConstants, NEW mem, NEW x \in Int, NEW w, NEW a \in Nat,
           a = Unsigned(x) => a >= MemSize
    PROVE  putWord(mem, x, w)[a] = mem[a]
<1>1. Unsigned(x) < MemSize => Unsigned(x) # a BY UnsignedWord, VmAssumption
<1> QED BY <1>1 DEF putWord

\* The words that call writes.
LEMMA CallWrites ==
    ASSUME MachineConstants, MachineInv, NEW c \in Core, call(c), NEW a \in 0 .. vm.progEnd - 1
    PROVE  memory'[a] = memory[a] \/ CallWraps(c, a)
<1>1. CASE CallBad(c) /\ Ends(c, ADDRESS_OUT_OF_RANGE) BY <1>1 DEF Ends, Retire
<1>2. CASE ~CallBad(c)
  <2>1. PICK s : s = Reg(c, SP) OBVIOUS
  <2>2. s \in Words /\ Words \subseteq Int /\ s \in Int BY <2>1, CoreFacts DEF SP
  <2>3. PICK ra, fp : memory' = putWord(putWord(putWord(memory, s - 1, ra), s - 2, fp), s - 3, 0)
    BY <1>2, <2>1 DEF call, Goes, Retire
  <2>4. Unsigned(s - 3) >= vm.progEnd /\ vm.progEnd \in Nat /\ a \in Nat /\ a < vm.progEnd
    <3>1. vm.progEnd \in Nat BY DEF MachineInv, VmTyped
    <3>2. s + -3 = s - 3 BY <2>2
    <3> QED BY <1>2, <2>1, <2>2, <3>1, <3>2, UnsignedWord DEF CallBad, SpU
  <2>5. ASSUME ~CallWraps(c, a), NEW k \in 1 .. 3 PROVE a = Unsigned(s - k) => a >= MemSize
    <3>1. s + 0 = s BY <2>2
    <3>2. Unsigned(s) >= 3 \/ a >= Unsigned(s)
      BY <2>1, <2>2, <2>4, <2>5, <3>1, UnsignedWord DEF CallWraps, SpU
    <3>3. /\ Unsigned(s) \in Nat
          /\ Unsigned(s) >= k => Unsigned(s - k) = Unsigned(s) - k
          /\ Unsigned(s) < k => Unsigned(s - k) >= MemSize
      BY <2>2, WordsBelow
    <3>4. Unsigned(s) >= 3 => Unsigned(s - 3) = Unsigned(s) - 3 BY <2>2, WordsBelow
    <3> QED BY <2>4, <3>2, <3>3, <3>4
  <2>6. ASSUME ~CallWraps(c, a) PROVE memory'[a] = memory[a]
    <3> DEFINE m1 == putWord(memory, s - 1, ra)
               m2 == putWord(m1, s - 2, fp)
    <3>1. s - 1 \in Int /\ s - 2 \in Int /\ s - 3 \in Int BY <2>2
    <3>2. m1[a] = memory[a] BY <2>4, <2>5, <2>6, <3>1, PutWordElsewhere
    <3>3. m2[a] = m1[a]
      <4> HIDE DEF m1
      <4> QED BY <2>4, <2>5, <2>6, <3>1, PutWordElsewhere
    <3>4. putWord(m2, s - 3, 0)[a] = m2[a]
      <4> HIDE DEF m2
      <4> QED BY <2>4, <2>5, <2>6, <3>1, PutWordElsewhere
    <3> QED BY <2>3, <3>2, <3>3, <3>4
  <2> QED BY <2>6
<1> QED BY <1>1, <1>2 DEF call

\* The word that push writes.
LEMMA PushWrites ==
    ASSUME MachineConstants, MachineInv, NEW c \in Core, push(c), NEW a \in 0 .. vm.progEnd - 1
    PROVE  memory'[a] = memory[a] \/ PushAtEnd(c, a)
<1>1. CASE StackBad(c) /\ Ends(c, ADDRESS_OUT_OF_RANGE) BY <1>1 DEF Ends, Retire
<1>2. CASE ~StackBad(c)
  <2>1. PICK s : s = Reg(c, SP) OBVIOUS
  <2>2. s \in Words /\ Words \subseteq Int /\ s \in Int /\ cpu[c].reg \in Registers
    BY <2>1, CoreFacts DEF SP
  <2>3. PICK t : t = Signed(s - 1) OBVIOUS
  <2>4. t \in Int
    <3>1. s - 1 \in Int BY <2>2
    <3>2. Signed(s - 1) \in Words BY <3>1, SignedWord
    <3> QED BY <2>2, <2>3, <3>2
  <2>5. Set(c, SP, Reg(c, SP) - 1)[SP] = t BY <2>1, <2>2, <2>3 DEF Set, Registers, SP
  <2>6. PICK w : memory' = putWord(memory, t, w)
    BY <1>2, <2>5 DEF push, Goes, Retire
  <2>7. Unsigned(s) >= vm.progEnd /\ vm.progEnd \in Nat /\ a \in Nat /\ a < vm.progEnd
    <3>1. vm.progEnd \in Nat BY DEF MachineInv, VmTyped
    <3>2. s + 0 = s BY <2>2
    <3> QED BY <1>2, <2>1, <2>2, <3>1, <3>2, UnsignedWord DEF StackBad, SpU
  <2>8. ASSUME ~PushAtEnd(c, a) PROVE a = Unsigned(t) => a >= MemSize
    <3>1. s + 0 = s BY <2>2
    <3>2. Unsigned(s) # vm.progEnd \/ a # vm.progEnd - 1
      BY <2>1, <2>8, <3>1 DEF PushAtEnd, SpU
    <3>3. CASE s - 1 \in Words
      <4>1. t = s - 1 BY <2>3, <3>3, SignedWord
      <4>2. /\ Unsigned(s) \in Nat
            /\ Unsigned(s) >= 1 => Unsigned(s - 1) = Unsigned(s) - 1
            /\ Unsigned(s) < 1 => Unsigned(s - 1) >= MemSize
        BY <2>2, WordsBelow
      <4> QED BY <2>7, <3>2, <4>1, <4>2
    <3>4. CASE s - 1 \notin Words BY <2>2, <2>3, <3>4, WordBelowLeast
    <3> QED BY <3>3, <3>4
  <2> QED BY <2>4, <2>6, <2>7, <2>8, PutWordElsewhere
<1> QED BY <1>1, <1>2 DEF push

\* Whatever the programs are and wherever SP has got to, call and push overwrite
\* words of the program only through the two gaps in their checks (vmx20.c:424
\* and :525).
THEOREM StacksGuarded ==
    ASSUME MachineConstants PROVE Spec => StackAboveProgram
<1>1. Init => MachineInv BY MachineInit
<1>2. MachineInv /\ [Next]_vars => MachineInv' BY MachineStep
<1>3. ASSUME MachineInv, NEW c \in Core, call(c) \/ push(c), NEW a \in 0 .. vm.progEnd - 1
      PROVE  memory'[a] = memory[a] \/ PushAtEnd(c, a) \/ CallWraps(c, a)
  BY <1>3, CallWrites, PushWrites
<1>4. MachineInv /\ [Next]_vars =>
        [\A c \in Core : call(c) \/ push(c) =>
           \A a \in 0 .. vm.progEnd - 1 :
               memory'[a] = memory[a] \/ PushAtEnd(c, a) \/ CallWraps(c, a)]_vars
  BY <1>3
<1> QED BY <1>1, <1>2, <1>4, PTL DEF Spec, StackAboveProgram
-----------------------------------------------------------------------------
\* The files fit into memory.
FilesFit == \A f \in Files : f.length <= MemSize

\* What the vm has after a load that succeeded.
LEMMA LoadSucceeds ==
    ASSUME MachineConstants, FilesFit, MachineInv, NEW f \in Files,
           loadExecutableFile(f), ret'.value = 1
    PROVE  /\ Cardinality(Mains(f)) = 1
           /\ \A a \in 0 .. f.length - 1 : memory'[a] = f.code[a + 1]
           /\ vm'.entryPoint = f.insymbols[Min(Mains(f))].address
           /\ vm'.symbols = Reverse(f.insymbols) \o vm.symbols /\ vm'.tail = vm.tail
<1> DEFINE read == Min({f.length, Len(f.code)})
<1>10. \A e : ~Returns(0, e) BY DEF Returns
<1>1. \A e : Returns(IF OneMain(f) THEN 1 ELSE 0, e) => OneMain(f) BY <1>10
<1>2. /\ Idle("ready") /\ read = f.length /\ OneMain(f)
      /\ memory' = [a \in DOMAIN memory |-> IF a < read THEN f.code[a + 1] ELSE memory[a]]
      /\ vm' = [vm EXCEPT !.progEnd = read,
                          !.phase = IF OneMain(f) THEN "loaded" ELSE @,
                          !.symbols = SymbolsAfter(f),
                          !.entryPoint = IF Mains(f) = {} THEN @
                              ELSE f.insymbols[Min(Mains(f))].address]
  BY <1>1, <1>10, Zenon DEF loadExecutableFile
<1> HIDE DEF read
<1>3. Cardinality(Mains(f)) = 1 BY <1>2 DEF OneMain
<1>4. Mains(f) # {}
  <2>1. Cardinality({}) = 0 /\ 0 # 1 BY FS_EmptySet
  <2> QED BY <1>3, <2>1
<1>5. SymbolsRead(f) = f.insymbols
  <2>1. ~(1 > 1) OBVIOUS
  <2> QED BY <1>3, <2>1 DEF SymbolsRead
<1>6. /\ vm'.entryPoint = f.insymbols[Min(Mains(f))].address
      /\ vm'.symbols = Reverse(f.insymbols) \o vm.symbols /\ vm'.tail = vm.tail
  BY <1>2, <1>4, <1>5 DEF MachineInv, VmTyped, SymbolsAfter
<1>7. DOMAIN memory = 0 .. MemSize - 1
  BY <1>2 DEF Idle, MachineInv, MemoryTyped, Memories
<1>8. f.length \in Nat /\ f.length <= MemSize BY DEF MachineConstants, FilesFit
<1>9. \A a \in 0 .. f.length - 1 : memory'[a] = f.code[a + 1]
  BY <1>2, <1>7, <1>8, VmAssumption
<1> QED BY <1>3, <1>6, <1>9

\* The symbols with a name.
Hits(symbols, name) == {j \in DOMAIN symbols : symbols[j].name = name}

\* The newest symbol named like the k-th of file symbols s is one of s.
FoundIn(s, older, k) ==
    /\ Hits(Reverse(s) \o older, s[k].name) # {}
    /\ \E j \in DOMAIN s :
          /\ (Reverse(s) \o older)[Min(Hits(Reverse(s) \o older, s[k].name))] = s[j]
          /\ s[j].name = s[k].name

\* The newest symbol with a name a file has is one of that file.
LEMMA NewestFirst ==
    ASSUME NEW T, NEW s \in Seq(T), NEW older \in Seq(T), NEW k \in DOMAIN s
    PROVE  FoundIn(s, older, k)
<1> DEFINE both == Reverse(s) \o older
           hits == Hits(both, s[k].name)
<1>1. /\ Len(s) \in Nat /\ Len(older) \in Nat /\ Reverse(s) \in Seq(T)
      /\ Len(Reverse(s)) = Len(s) /\ DOMAIN s = 1 .. Len(s)
      /\ \A j \in 1 .. Len(s) : Reverse(s)[j] = s[(Len(s) - j) + 1]
  BY ReverseType
<1>2. /\ both \in Seq(T) /\ Len(both) = Len(s) + Len(older)
      /\ \A j \in 1 .. Len(s) : both[j] = Reverse(s)[j]
  <2>1. PICK r : r = Reverse(s) OBVIOUS
  <2>2. r \in Seq(T) /\ Len(r) = Len(s) BY <1>1, <2>1
  <2>3. /\ r \o older \in Seq(T) /\ Len(r \o older) = Len(r) + Len(older)
        /\ \A i \in 1 .. Len(r) + Len(older) :
              (r \o older)[i] = IF i <= Len(r) THEN r[i] ELSE older[i - Len(r)]
    BY <2>2, ConcatProperties
  <2>4. \A j \in 1 .. Len(s) : (r \o older)[j] = r[j] BY <1>1, <2>2, <2>3
  <2> QED BY <2>1, <2>2, <2>3, <2>4
<1>3. \A j \in 1 .. Len(s) : both[j] = s[(Len(s) - j) + 1] BY <1>1, <1>2
<1> HIDE DEF both
<1>4. DOMAIN both = 1 .. Len(s) + Len(older) BY <1>2
<1>5. PICK top : top = (Len(s) - k) + 1 OBVIOUS
<1>6. top \in 1 .. Len(s) /\ (Len(s) - top) + 1 = k BY <1>1, <1>5
<1>7. both[top] = s[k] BY <1>3, <1>6
<1>8. hits = {j \in DOMAIN both : both[j].name = s[k].name} BY DEF Hits
<1> HIDE DEF hits
<1>9. top \in hits BY <1>1, <1>4, <1>6, <1>7, <1>8
<1>10. hits \in SUBSET Nat BY <1>1, <1>4, <1>8
<1>11. PICK least : least = Min(hits) OBVIOUS
<1>12. least \in hits /\ least <= top BY <1>9, <1>10, <1>11, MinIsLeast
<1>13. least \in 1 .. Len(s) BY <1>1, <1>4, <1>6, <1>8, <1>12
<1>14. (Len(s) - least) + 1 \in DOMAIN s BY <1>1, <1>13
<1>15. both[least] = s[(Len(s) - least) + 1] /\ both[least].name = s[k].name
  BY <1>3, <1>8, <1>12, <1>13
<1> QED BY <1>9, <1>11, <1>14, <1>15 DEF both, hits, FoundIn

\* The newest symbol with a name file symbols s have not is what it was without
\* them.
FoundBehind(s, older, l) ==
    /\ Hits(Reverse(s) \o older, l) = {} <=> Hits(older, l) = {}
    /\ Hits(older, l) # {} =>
          (Reverse(s) \o older)[Min(Hits(Reverse(s) \o older, l))] = older[Min(Hits(older, l))]

LEMMA BehindFound ==
    ASSUME NEW T, NEW s \in Seq(T), NEW older \in Seq(T), NEW l,
           \A k \in DOMAIN s : s[k].name # l
    PROVE  FoundBehind(s, older, l)
<1> DEFINE both == Reverse(s) \o older
           all == Hits(both, l)
           old == Hits(older, l)
           n == Len(s)
<1>1. /\ n \in Nat /\ Len(older) \in Nat /\ Reverse(s) \in Seq(T) /\ Len(Reverse(s)) = n
      /\ DOMAIN s = 1 .. n /\ DOMAIN older = 1 .. Len(older)
      /\ \A j \in 1 .. n : Reverse(s)[j] = s[(n - j) + 1]
  BY ReverseType
<1>2. /\ DOMAIN both = 1 .. n + Len(older)
      /\ \A j \in 1 .. n : both[j] = s[(n - j) + 1]
      /\ \A j \in 1 .. Len(older) : both[j + n] = older[j]
  <2>1. PICK r : r = Reverse(s) OBVIOUS
  <2>2. r \in Seq(T) /\ Len(r) = n BY <1>1, <2>1
  <2>3. /\ r \o older \in Seq(T) /\ Len(r \o older) = Len(r) + Len(older)
        /\ \A i \in 1 .. Len(r) + Len(older) :
              (r \o older)[i] = IF i <= Len(r) THEN r[i] ELSE older[i - Len(r)]
    BY <2>2, ConcatProperties
  <2> HIDE DEF n
  <2>4. \A j \in 1 .. n : (r \o older)[j] = r[j] BY <1>1, <2>2, <2>3
  <2>5. ASSUME NEW j \in 1 .. Len(older) PROVE (r \o older)[j + n] = older[j]
    <3>1. j + n \in 1 .. n + Len(older) /\ ~(j + n <= n) /\ (j + n) - n = j BY <1>1
    <3> QED BY <2>2, <2>3, <3>1
  <2>6. DOMAIN (r \o older) = 1 .. n + Len(older) BY <2>2, <2>3
  <2> QED BY <1>1, <2>1, <2>4, <2>5, <2>6
<1> HIDE DEF both, n
<1>3. ASSUME NEW i \in all PROVE i \in Nat /\ i - n \in old /\ both[i] = older[i - n]
  <2>1. i \in 1 .. n + Len(older) /\ both[i].name = l BY <1>2 DEF Hits
  <2>2. i \notin 1 .. n
    <3> SUFFICES ASSUME i \in 1 .. n PROVE FALSE OBVIOUS
    <3>1. (n - i) + 1 \in 1 .. n BY <1>1
    <3> QED BY <1>1, <1>2, <2>1, <3>1
  <2>3. i - n \in 1 .. Len(older) /\ (i - n) + n = i BY <1>1, <2>1, <2>2
  <2>4. both[i] = older[i - n] BY <1>2, <2>3
  <2> QED BY <1>1, <2>1, <2>3, <2>4 DEF Hits
<1>4. ASSUME NEW j \in old PROVE j \in Nat /\ j + n \in all
  <2>1. j \in 1 .. Len(older) /\ older[j].name = l BY <1>1 DEF Hits
  <2>2. j + n \in 1 .. n + Len(older) BY <1>1, <2>1
  <2> QED BY <1>2, <2>1, <2>2 DEF Hits
<1> HIDE DEF all, old
<1>5. all \in SUBSET Nat /\ old \in SUBSET Nat BY <1>3, <1>4
<1>6. all = {} <=> old = {} BY <1>3, <1>4
<1>7. ASSUME old # {} PROVE both[Min(all)] = older[Min(old)]
  <2>1. PICK a, o : a = Min(all) /\ o = Min(old) OBVIOUS
  <2>2. a \in all /\ o \in old /\ (\A i \in all : a <= i) /\ \A j \in old : o <= j
    BY <1>5, <1>6, <1>7, <2>1, MinIsLeast
  <2>3. a <= o + n /\ o <= a - n BY <1>3, <1>4, <2>2
  <2>4. a \in Nat /\ o \in Nat /\ a - n = o BY <1>1, <1>3, <1>4, <2>2, <2>3
  <2> QED BY <1>3, <2>1, <2>2, <2>4
<1> QED BY <1>6, <1>7 DEF FoundBehind, all, old, both

\* After a load that succeeds the vm runs that file, however many loads failed
\* before: loadExecutableFile replaces code and entry point, and getAddress
\* finds the file's own symbols before those failed loads left behind, which it
\* still finds when the file has none of the name.
THEOREM LoadIsWhole ==
    ASSUME MachineConstants, FilesFit PROVE Spec => LoadedIsWhole
<1> DEFINE Whole ==
        \A f \in Files : loadExecutableFile(f) /\ ret'.value = 1 =>
          /\ vm'.entryPoint \in {s.address : s \in {t \in Range(f.insymbols) : t.name = "mainx20"}}
          /\ Cardinality(Mains(f)) = 1
          /\ \A a \in 0 .. f.length - 1 : memory'[a] = f.code[a + 1]
          /\ \A k \in DOMAIN f.insymbols : LET s == f.insymbols[k]
                IN getAddress(s.name)'.addr \in {t.address : t \in
                        {t \in Range(f.insymbols) : t.name = s.name}}
          /\ \A l \in Labels : (\A k \in DOMAIN f.insymbols : f.insymbols[k].name # l)
                => getAddress(l)' = getAddress(l)
<1>1. ASSUME MachineInv PROVE Whole
  <2> SUFFICES ASSUME NEW f \in Files, loadExecutableFile(f), ret'.value = 1
      PROVE /\ vm'.entryPoint \in {s.address : s \in {t \in Range(f.insymbols) : t.name = "mainx20"}}
            /\ Cardinality(Mains(f)) = 1
            /\ \A a \in 0 .. f.length - 1 : memory'[a] = f.code[a + 1]
            /\ \A k \in DOMAIN f.insymbols : LET s == f.insymbols[k]
                  IN getAddress(s.name)'.addr \in {t.address : t \in
                          {t \in Range(f.insymbols) : t.name = s.name}}
            /\ \A l \in Labels : (\A k \in DOMAIN f.insymbols : f.insymbols[k].name # l)
                  => getAddress(l)' = getAddress(l)
    OBVIOUS
  <2>1. /\ Cardinality(Mains(f)) = 1
        /\ \A a \in 0 .. f.length - 1 : memory'[a] = f.code[a + 1]
        /\ vm'.entryPoint = f.insymbols[Min(Mains(f))].address
        /\ vm'.symbols = Reverse(f.insymbols) \o vm.symbols /\ vm'.tail = vm.tail
    BY <1>1, LoadSucceeds
  <2>2. PICK ins : ins = f.insymbols OBVIOUS
  <2>3. ins \in Seq([name : STRING, address : Words]) BY <2>2 DEF MachineConstants
  <2>4. PICK m : m = Min(Mains(f)) OBVIOUS
  <2>5. m \in DOMAIN ins /\ ins[m].name = "mainx20"
    <3>1. Mains(f) # {}
      <4>1. Cardinality({}) = 0 /\ 0 # 1 BY FS_EmptySet
      <4> QED BY <2>1, <4>1
    <3>2. Mains(f) \in SUBSET Nat BY <2>2, <2>3, MainsFinite
    <3>3. m \in Mains(f) BY <2>4, <3>1, <3>2, MinIsLeast
    <3> QED BY <2>2, <3>3 DEF Mains
  <2>6. vm'.entryPoint = ins[m].address BY <2>1, <2>2, <2>4
  <2>7. vm'.entryPoint \in {s.address : s \in {t \in Range(ins) : t.name = "mainx20"}}
    BY <2>5, <2>6 DEF Range
  <2>8. ASSUME NEW k \in DOMAIN ins
        PROVE  getAddress(ins[k].name)'.addr \in {t.address : t \in
                        {t \in Range(ins) : t.name = ins[k].name}}
    <3> DEFINE hits == Hits(vm'.symbols, ins[k].name)
    <3>1. vm.symbols \in Seq([name : STRING, address : Words]) BY <1>1 DEF MachineInv, VmTyped
    <3>2. PICK older : older = vm.symbols OBVIOUS
    <3>3. vm'.symbols = Reverse(ins) \o older BY <2>1, <2>2, <3>2
    <3>4. older \in Seq([name : STRING, address : Words]) BY <3>1, <3>2
    <3>5. hits = Hits(Reverse(ins) \o older, ins[k].name)
      BY <3>3
    <3>6. getAddress(ins[k].name)' =
            IF hits # {} THEN [found |-> 1, addr |-> vm'.symbols[Min(hits)].address]
            ELSE [found |-> IF vm'.tail = "null" THEN 0 ELSE -1, addr |-> 0]
      BY DEF getAddress, Hits
    <3>10. PICK T : T = [name : STRING, address : Words] OBVIOUS
    <3> HIDE DEF hits
    <3>7. /\ hits # {}
          /\ \E j \in DOMAIN ins : /\ (Reverse(ins) \o older)[Min(hits)] = ins[j]
                                   /\ ins[j].name = ins[k].name
      <4>1. ins \in Seq(T) /\ older \in Seq(T) BY <2>3, <3>4, <3>10
      <4>2. FoundIn(ins, older, k) BY <4>1, NewestFirst
      <4> QED BY <3>5, <4>2, Zenon DEF FoundIn
    <3>8. PICK j \in DOMAIN ins : vm'.symbols[Min(hits)] = ins[j] /\ ins[j].name = ins[k].name
      BY <3>3, <3>7
    <3>9. getAddress(ins[k].name)'.addr = ins[j].address BY <3>6, <3>7, <3>8
    <3> QED BY <3>8, <3>9 DEF Range
  <2>9. ASSUME NEW l \in Labels, \A k \in DOMAIN ins : ins[k].name # l
        PROVE  getAddress(l)' = getAddress(l)
    <3> DEFINE all == Hits(vm'.symbols, l)
               old == Hits(vm.symbols, l)
    <3>1. PICK older : older = vm.symbols OBVIOUS
    <3>2. PICK T : T = [name : STRING, address : Words] OBVIOUS
    <3>3. vm'.symbols = Reverse(ins) \o older BY <2>1, <2>2, <3>1
    <3>4. ins \in Seq(T) /\ older \in Seq(T)
      BY <1>1, <2>3, <3>1, <3>2 DEF MachineInv, VmTyped
    <3>5. FoundBehind(ins, older, l) BY <2>9, <3>4, BehindFound
    <3>6. /\ all = {} <=> old = {}
          /\ old # {} => vm'.symbols[Min(all)] = vm.symbols[Min(old)]
      BY <3>1, <3>3, <3>5 DEF FoundBehind
    <3>7. /\ getAddress(l)' = IF all # {} THEN [found |-> 1, addr |-> vm'.symbols[Min(all)].address]
                              ELSE [found |-> IF vm'.tail = "null" THEN 0 ELSE -1, addr |-> 0]
          /\ getAddress(l) = IF old # {} THEN [found |-> 1, addr |-> vm.symbols[Min(old)].address]
                             ELSE [found |-> IF vm.tail = "null" THEN 0 ELSE -1, addr |-> 0]
      BY DEF getAddress, Hits
    <3>8. vm'.tail = vm.tail BY <2>1
    <3> HIDE DEF all, old
    <3>9. CASE old = {} BY <3>6, <3>7, <3>8, <3>9
    <3>10. CASE old # {}
      <4>1. /\ getAddress(l)' = [found |-> 1, addr |-> vm'.symbols[Min(all)].address]
            /\ getAddress(l) = [found |-> 1, addr |-> vm.symbols[Min(old)].address]
        BY <3>6, <3>7, <3>10
      <4>2. vm'.symbols[Min(all)] = vm.symbols[Min(old)] BY <3>6, <3>10
      <4> QED BY <4>1, <4>2, Zenon
    <3> QED BY <3>9, <3>10
  <2> QED BY <2>1, <2>2, <2>7, <2>8, <2>9
<1>2. Init => MachineInv BY MachineInit
<1>3. MachineInv /\ [Next]_vars => MachineInv' BY MachineStep
<1>4. MachineInv /\ [Next]_vars => [Whole]_vars BY <1>1
<1> QED BY <1>2, <1>3, <1>4, PTL DEF Spec, LoadedIsWhole
-----------------------------------------------------------------------------
(***************************************************************************)
(* test_counter_lock.asm on any number of cores: the lock made of cmpxchg  *)
(* keeps the cores apart, and the program implements an atomic counter.    *)
(***************************************************************************)
\* The counter fits a word, the program fits memory, and it is known by its
\* length.
LockConstants ==
    /\ MachineConstants
    /\ 19 <= MemSize
    /\ Rounds \in Nat \ {0}
    /\ MaxProcessors * Rounds < Half
    /\ \A f \in Files : f.length = 19 => f = LockFile
-----------------------------------------------------------------------------
\* Words with an offset of 20 and of 16 bits.
Word20(code, r1, k) == code + 256 * r1 + 4096 * k
Word16(code, r1, r2, k) == code + 256 * r1 + 4096 * r2 + 65536 * k

\* The parts of a word with two registers.
Splits16(w, code, r1, r2, k) ==
    w % 256 = code /\ Reg1(w) = r1 /\ Reg2(w) = r2 /\ Addr16(w) = k

\* Parts of a number next to each other.
LEMMA Shifts ==
    ASSUME NEW x \in Int, 0 <= x, NEW q \in Int
    PROVE  /\ x < 256 => (x + 256 * q) \div 256 = q
           /\ x < 256 => (x + 256 * q) % 256 = x
           /\ x < 4096 => (x + 4096 * q) \div 4096 = q
           /\ x < 65536 => (x + 65536 * q) \div 65536 = q
           /\ x < 16 => (x + 16 * q) % 16 = x
<1>1. x < 256 => (x + 256 * q) \div 256 = q BY SMT
<1>2. x < 256 => (x + 256 * q) % 256 = x BY SMT
<1>3. x < 4096 => (x + 4096 * q) \div 4096 = q BY SMT
<1>4. x < 65536 => (x + 65536 * q) \div 65536 = q BY SMT
<1>5. x < 16 => (x + 16 * q) % 16 = x BY SMT
<1> QED BY <1>1, <1>2, <1>3, <1>4, <1>5, SMT

\* The fields of an assembled word.
LEMMA FieldsOf16 ==
    ASSUME NEW code \in 0 .. 25, NEW r1 \in 0 .. 15, NEW r2 \in 0 .. 15, NEW k \in Int
    PROVE  Splits16(Word16(code, r1, r2, k), code, r1, r2, k)
<1>1. PICK q \in Int : q = r1 + 16 * (r2 + 16 * k) BY SMT
<1>2. Word16(code, r1, r2, k) = code + 256 * q BY <1>1, SMT DEF Word16
<1>3. (code + 256 * q) % 256 = code /\ (code + 256 * q) \div 256 = q BY Shifts, SMT
<1>4. q % 16 = r1
  <2>1. PICK s \in Int : s = r2 + 16 * k BY SMT
  <2>2. q = r1 + 16 * s BY <1>1, <2>1, SMT
  <2>3. (r1 + 16 * s) % 16 = r1 BY Shifts, SMT
  <2> QED BY <2>2, <2>3, SMT
<1>5. PICK s \in Int : s = r2 + 16 * k BY SMT
<1>6. PICK x \in Int : x = code + 256 * r1 /\ 0 <= x /\ x < 4096 BY SMT
<1>7. Word16(code, r1, r2, k) = x + 4096 * s BY <1>5, <1>6, SMT DEF Word16
<1>8. (x + 4096 * s) \div 4096 = s BY <1>6, Shifts, SMT
<1>9. s % 16 = r2
  <2>1. (r2 + 16 * k) % 16 = r2 BY Shifts, SMT
  <2> QED BY <1>5, <2>1, SMT
<1>10. PICK y \in Int : y = code + 256 * r1 + 4096 * r2 /\ 0 <= y /\ y < 65536 BY SMT
<1>11. Word16(code, r1, r2, k) = y + 65536 * k BY <1>10, SMT DEF Word16
<1>12. (y + 65536 * k) \div 65536 = k BY <1>10, Shifts, SMT
<1>13. Word16(code, r1, r2, k) % 256 = code /\ Word16(code, r1, r2, k) \div 256 = q
  BY <1>2, <1>3, SMT
<1>14. Word16(code, r1, r2, k) \div 4096 = s BY <1>7, <1>8, SMT
<1>15. Word16(code, r1, r2, k) \div 65536 = k BY <1>11, <1>12, SMT
<1> QED BY <1>4, <1>9, <1>13, <1>14, <1>15, SMT DEF Reg1, Reg2, Addr16, Splits16

\* The fields of a word with one register.
LEMMA FieldsOf20 ==
    ASSUME NEW code \in 0 .. 25, NEW r1 \in 0 .. 15, NEW k \in Int
    PROVE  /\ Word20(code, r1, k) % 256 = code /\ Reg1(Word20(code, r1, k)) = r1
           /\ Addr20(Word20(code, r1, k)) = k
<1>1. PICK q \in Int : q = r1 + 16 * k BY SMT
<1>2. Word20(code, r1, k) = code + 256 * q BY <1>1, SMT DEF Word20
<1>3. (code + 256 * q) % 256 = code /\ (code + 256 * q) \div 256 = q BY Shifts, SMT
<1>4. q % 16 = r1
  <2>1. (r1 + 16 * k) % 16 = r1 BY Shifts, SMT
  <2> QED BY <1>1, <2>1, SMT
<1>5. PICK x \in Int : x = code + 256 * r1 /\ 0 <= x /\ x < 4096 BY SMT
<1>6. Word20(code, r1, k) = x + 4096 * k BY <1>5, SMT DEF Word20
<1>7. (x + 4096 * k) \div 4096 = k BY <1>5, Shifts, SMT
<1>8. Word20(code, r1, k) % 256 = code /\ Word20(code, r1, k) \div 256 = q BY <1>2, <1>3, SMT
<1>9. Word20(code, r1, k) \div 4096 = k BY <1>6, <1>7, SMT
<1> QED BY <1>4, <1>8, <1>9, SMT DEF Reg1, Addr20

\* The numbers of the mnemonics of the program.
LEMMA Codes ==
    /\ Len(Mnemonics) = 26
    /\ \A k \in 1 .. 26 :
        /\ Mnemonics[k] = "halt" <=> k = 1
        /\ Mnemonics[k] = "load" <=> k = 2
        /\ Mnemonics[k] = "store" <=> k = 3
        /\ Mnemonics[k] = "ldimm" <=> k = 4
        /\ Mnemonics[k] = "addi" <=> k = 12
        /\ Mnemonics[k] = "subi" <=> k = 13
        /\ Mnemonics[k] = "bgt" <=> k = 19
        /\ Mnemonics[k] = "beq" <=> k = 20
        /\ Mnemonics[k] = "jmp" <=> k = 21
        /\ Mnemonics[k] = "cmpxchg" <=> k = 22
        /\ Mnemonics[k] = "getpid" <=> k = 23
BY SMTT(60) DEF Mnemonics

\* The n-th mnemonic, and no other, is op.
Short(op) == op_format(op) \in {"ADDR", "REGCONST", "REGADDR"}
Number(op, n) == \A j \in 1 .. 26 : Mnemonics[j] = op <=> j = n

\* An assembled word, by the number of its mnemonic.
LEMMA AsmWord ==
    ASSUME NEW op, NEW n \in 1 .. 26, Number(op, n),
           NEW r1 \in 0 .. 15, NEW r2 \in 0 .. 15, NEW k \in Int
    PROVE  /\ Short(op) => Asm(op, r1, 0, k) = Word20(n - 1, r1, k)
           /\ ~Short(op) => Asm(op, r1, r2, k) = Word16(n - 1, r1, r2, k)
<1> DEFINE code == CHOOSE j \in 1 .. Len(Mnemonics) : Mnemonics[j] = op
<1>1. code = n BY Codes DEF Number
<1>2. \A s \in {0, r2} : Asm(op, r1, s, k) =
          (code - 1) + 256 * r1 + 4096 * s + (IF Short(op) THEN 4096 ELSE 65536) * k
  BY DEF Asm, Short
<1> HIDE DEF code
<1>3. Short(op) => Asm(op, r1, 0, k) = Word20(n - 1, r1, k) BY <1>1, <1>2, SMT DEF Word20
<1>4. ~Short(op) => Asm(op, r1, r2, k) = Word16(n - 1, r1, r2, k) BY <1>1, <1>2, SMT DEF Word16
<1> QED BY <1>3, <1>4

\* Word w is instruction op with these fields.
Is20(w, op, r1, k) == Op(w) = op /\ Reg1(w) = r1 /\ Addr20(w) = k
Is16(w, op, r1, r2, k) == Op(w) = op /\ Reg1(w) = r1 /\ Reg2(w) = r2 /\ Addr16(w) = k

\* The machine takes a word apart as the assembler has put it together.
LEMMA Decodes ==
    ASSUME NEW op, NEW n \in 1 .. 26, Number(op, n),
           NEW r1 \in 0 .. 15, NEW r2 \in 0 .. 15, NEW k \in Int
    PROVE  /\ Short(op) => Is20(Asm(op, r1, 0, k), op, r1, k)
           /\ ~Short(op) => Is16(Asm(op, r1, r2, k), op, r1, r2, k)
<1>1. PICK code \in 0 .. 25 : code = n - 1 BY SMT
<1>2. op_name(code) = op BY <1>1, Codes, SMT DEF op_name, Number
<1>3. ASSUME Short(op)
      PROVE  Is20(Asm(op, r1, 0, k), op, r1, k)
  <2>1. PICK w : w = Word20(code, r1, k) BY ZenonT(60)
  <2>2. Asm(op, r1, 0, k) = w BY <1>1, <1>3, <2>1, AsmWord
  <2>3. w % 256 = code /\ Reg1(w) = r1 /\ Addr20(w) = k BY <2>1, FieldsOf20, SMT
  <2>4. Op(w) = op BY <1>2, <2>3, SMT DEF Op
  <2> QED BY <2>2, <2>3, <2>4, SMT DEF Is20
<1>4. ASSUME ~Short(op)
      PROVE  Is16(Asm(op, r1, r2, k), op, r1, r2, k)
  <2>1. PICK w : w = Word16(code, r1, r2, k) BY Zenon
  <2>5. Asm(op, r1, r2, k) = Word16(n - 1, r1, r2, k) BY <1>4, AsmWord, ZenonT(60)
  <2>2. Asm(op, r1, r2, k) = w BY <1>1, <2>1, <2>5
  <2>6. Splits16(Word16(code, r1, r2, k), code, r1, r2, k) BY FieldsOf16, Zenon
  <2>3. w % 256 = code /\ Reg1(w) = r1 /\ Reg2(w) = r2 /\ Addr16(w) = k
    BY <2>1, <2>6, SMT DEF Splits16
  <2>4. Op(w) = op BY <1>2, <2>3, SMT DEF Op
  <2> QED BY <2>2, <2>3, <2>4, SMT DEF Is16
<1> QED BY <1>3, <1>4

\* The same for the program's mnemonics.
LEMMA DecodesOps ==
    ASSUME NEW r1 \in 0 .. 15, NEW r2 \in 0 .. 15, NEW k \in Int
    PROVE  /\ Is20(Asm("load", r1, 0, k), "load", r1, k)
           /\ Is20(Asm("store", r1, 0, k), "store", r1, k)
           /\ Is20(Asm("ldimm", r1, 0, k), "ldimm", r1, k)
           /\ Is20(Asm("jmp", r1, 0, k), "jmp", r1, k)
           /\ Is16(Asm("addi", r1, r2, k), "addi", r1, r2, k)
           /\ Is16(Asm("subi", r1, r2, k), "subi", r1, r2, k)
           /\ Is16(Asm("bgt", r1, r2, k), "bgt", r1, r2, k)
           /\ Is16(Asm("beq", r1, r2, k), "beq", r1, r2, k)
           /\ Is16(Asm("cmpxchg", r1, r2, k), "cmpxchg", r1, r2, k)
           /\ Is16(Asm("getpid", r1, r2, k), "getpid", r1, r2, k)
           /\ Is16(Asm("halt", r1, r2, k), "halt", r1, r2, k)
<1>1. /\ Number("load", 2) /\ Number("store", 3) /\ Number("ldimm", 4) /\ Number("jmp", 21)
      /\ Number("addi", 12) /\ Number("subi", 13) /\ Number("bgt", 19) /\ Number("beq", 20)
      /\ Number("cmpxchg", 22) /\ Number("getpid", 23) /\ Number("halt", 1)
  BY Codes DEF Number
<1>2. \A op \in {"load", "store", "ldimm", "jmp"} : Short(op) BY DEF op_format, Short
<1>3. \A op \in {"addi", "subi", "bgt", "beq", "cmpxchg", "getpid", "halt"} :
          ~Short(op)
  BY DEF op_format, Short
<1>4. ASSUME NEW op \in {"load", "store", "ldimm", "jmp"}, NEW n \in 1 .. 26, Number(op, n)
      PROVE  Is20(Asm(op, r1, 0, k), op, r1, k)
  BY <1>2, <1>4, Decodes, ZenonT(60)
<1>5. ASSUME NEW op \in {"addi", "subi", "bgt", "beq", "cmpxchg", "getpid", "halt"},
             NEW n \in 1 .. 26, Number(op, n)
      PROVE  Is16(Asm(op, r1, r2, k), op, r1, r2, k)
  BY <1>3, <1>5, Decodes
<1>6. \A n \in {1, 2, 3, 4, 12, 13, 19, 20, 21, 22, 23} : n \in 1 .. 26 OBVIOUS
<1> QED BY <1>1, <1>4, <1>5, <1>6

\* The words of test_counter_lock.asm.
LEMMA LockWords ==
    ASSUME Rounds \in Int
    PROVE  /\ Len(LockCode) = 19 /\ LockCode[1] = 0 /\ LockCode[2] = -1
           /\ Is20(LockCode[3], "ldimm", 4, Rounds) /\ Is20(LockCode[4], "ldimm", 1, 1)
           /\ Is16(LockCode[5], "getpid", 10, 0, 0) /\ Is20(LockCode[6], "jmp", 0, 0)
           /\ Is20(LockCode[7], "ldimm", 8, -1) /\ Is20(LockCode[8], "ldimm", 9, -1)
           /\ Is16(LockCode[9], "cmpxchg", 9, 10, -8) /\ Is16(LockCode[10], "beq", 8, 9, 1)
           /\ Is20(LockCode[11], "jmp", 0, -5) /\ Is20(LockCode[12], "load", 0, -12)
           /\ Is16(LockCode[13], "addi", 0, 1, 0) /\ Is20(LockCode[14], "store", 0, -14)
           /\ Is16(LockCode[15], "subi", 4, 1, 0) /\ Is20(LockCode[16], "ldimm", 9, -1)
           /\ Is20(LockCode[17], "store", 9, -16) /\ Is16(LockCode[18], "bgt", 4, 5, -12)
           /\ Is16(LockCode[19], "halt", 0, 0, 0)
<1>1. /\ LockCode[3] = Asm("ldimm", 4, 0, Rounds) /\ LockCode[4] = Asm("ldimm", 1, 0, 1)
      /\ LockCode[5] = Asm("getpid", 10, 0, 0) /\ LockCode[6] = Asm("jmp", 0, 0, 0)
      /\ LockCode[7] = Asm("ldimm", 8, 0, -1) /\ LockCode[8] = Asm("ldimm", 9, 0, -1)
      /\ LockCode[9] = Asm("cmpxchg", 9, 10, -8) /\ LockCode[10] = Asm("beq", 8, 9, 1)
      /\ LockCode[11] = Asm("jmp", 0, 0, -5) /\ LockCode[12] = Asm("load", 0, 0, -12)
      /\ LockCode[13] = Asm("addi", 0, 1, 0) /\ LockCode[14] = Asm("store", 0, 0, -14)
      /\ LockCode[15] = Asm("subi", 4, 1, 0) /\ LockCode[16] = Asm("ldimm", 9, 0, -1)
      /\ LockCode[17] = Asm("store", 9, 0, -16) /\ LockCode[18] = Asm("bgt", 4, 5, -12)
      /\ LockCode[19] = Asm("halt", 0, 0, 0)
      /\ Len(LockCode) = 19 /\ LockCode[1] = 0 /\ LockCode[2] = -1
  BY DEF LockCode
<1>2. {0, 1, 4, 5, 8, 9, 10} \subseteq 0 .. 15 BY SMT
<1>3. {0, 1, -1, -5, -8, -12, -14, -16} \subseteq Int BY SMT
<1>4. ASSUME NEW r1 \in 0 .. 15, NEW k \in Int
      PROVE  /\ Is20(Asm("load", r1, 0, k), "load", r1, k)
             /\ Is20(Asm("store", r1, 0, k), "store", r1, k)
             /\ Is20(Asm("ldimm", r1, 0, k), "ldimm", r1, k)
             /\ Is20(Asm("jmp", r1, 0, k), "jmp", r1, k)
  <2>1. 0 \in 0 .. 15 OBVIOUS
  <2> QED BY <2>1, DecodesOps
<1>5. /\ Is20(LockCode[3], "ldimm", 4, Rounds) /\ Is20(LockCode[4], "ldimm", 1, 1)
      /\ Is20(LockCode[6], "jmp", 0, 0) /\ Is20(LockCode[7], "ldimm", 8, -1)
      /\ Is20(LockCode[8], "ldimm", 9, -1)
      /\ Is20(LockCode[11], "jmp", 0, -5) /\ Is20(LockCode[12], "load", 0, -12)
      /\ Is20(LockCode[14], "store", 0, -14) /\ Is20(LockCode[16], "ldimm", 9, -1)
      /\ Is20(LockCode[17], "store", 9, -16)
  BY <1>1, <1>2, <1>3, <1>4
<1>6. /\ Is16(LockCode[5], "getpid", 10, 0, 0) /\ Is16(LockCode[9], "cmpxchg", 9, 10, -8)
      /\ Is16(LockCode[10], "beq", 8, 9, 1) /\ Is16(LockCode[13], "addi", 0, 1, 0)
      /\ Is16(LockCode[15], "subi", 4, 1, 0) /\ Is16(LockCode[18], "bgt", 4, 5, -12)
      /\ Is16(LockCode[19], "halt", 0, 0, 0)
  BY <1>1, <1>2, <1>3, DecodesOps
<1> QED BY <1>1, <1>5, <1>6, SMTT(60)
-----------------------------------------------------------------------------
\* The numbers of the program are words.
LEMMA LockNumbers ==
    ASSUME LockConstants
    PROVE  /\ \A x \in -1 .. 19 : x \in Words
           /\ \A x \in 0 .. Rounds : x \in Words
           /\ \A c \in Core : c \in Words /\ c \in Nat
           /\ Words \subseteq Int /\ Rounds \in Nat \ {0} /\ MemSize \in Nat /\ MemSize >= 19
           /\ MachineConstants
<1>1. /\ Half \in Nat \ {0} /\ Rounds \in Nat \ {0} /\ MaxProcessors \in Nat \ {0}
      /\ MaxProcessors * Rounds < Half /\ MemSize \in Nat /\ 19 <= MemSize /\ MemSize < Half
  BY Powers, VmAssumption DEF LockConstants, MachineConstants
<1>2. \A m, n \in Nat \ {0} : m <= m * n /\ n <= m * n BY SMT
<1>3. Rounds <= MaxProcessors * Rounds /\ MaxProcessors <= MaxProcessors * Rounds BY <1>1, <1>2
<1>4. PICK t : t = MaxProcessors * Rounds OBVIOUS
<1>5. t \in Nat BY <1>1, <1>4, SMT
<1>6. Rounds < Half /\ MaxProcessors < Half BY <1>1, <1>3, <1>4, <1>5
<1>7. \A x \in -1 .. 19 : x \in Words BY <1>1 DEF Words
<1>8. \A x \in 0 .. Rounds : x \in Words BY <1>1, <1>6 DEF Words
<1>9. \A c \in Core : c \in Words /\ c \in Nat BY <1>1, <1>6 DEF Words, Core
<1>10. Words \subseteq Int BY <1>1 DEF Words
<1> QED BY <1>1, <1>7, <1>8, <1>9, <1>10 DEF LockConstants

\* What the end of an instruction shows of a core.
Retired(c, reg, mem, pc, code) ==
    /\ memory' = mem /\ UNCHANGED <<vm, freed, main, process>>
    /\ \A d \in Core : d # c => cpu'[d] = cpu[d]
    /\ \A r \in 0 .. 14 : cpu'[c].reg[r] = reg[r]
    /\ GoesOnAt(c)' = pc /\ cpu'[c].status = code
    /\ cpu'[c].state \in {"trace", "fetch", "ended"}
    /\ cpu'[c].state = "fetch" => code = Working
    /\ cpu'[c].state = "ended" => code # Working

\* Retire ends an instruction in this way.
LEMMA RetireView ==
    ASSUME MachineConstants, MachineInv, NEW c \in Core, cpu[c].state = "execute",
           NEW reg \in Registers, NEW mem, NEW pc \in Words, NEW code \in Statuses,
           Retire(c, reg, mem, pc, code)
    PROVE  Retired(c, reg, mem, pc, code)
<1> DEFINE core == [cpu[c] EXCEPT !.reg = reg, !.status = code]
           after == IF vm.trace THEN [core EXCEPT !.state = "trace", !.next = pc]
                    ELSE AfterPC(core, pc)
<1>1. /\ memory' = mem /\ UNCHANGED <<vm, freed, main, process>>
      /\ cpu' = [cpu EXCEPT ![c] = after]
  BY DEF Retire
<1>2. cpu \in [Core -> CoreRecords] /\ core \in CoreRecords
  BY CoreFacts DEF MachineInv, CoresTyped, CoreRecords
<1>3. cpu'[c] = after /\ \A d \in Core : d # c => cpu'[d] = cpu[d]
  <2> HIDE DEF after
  <2> QED BY <1>1, <1>2
<1>4. CASE vm.trace
  <2>1. /\ after.reg = reg /\ after.status = code /\ after.state = "trace" /\ after.next = pc
    BY <1>2, <1>4 DEF CoreRecords
  <2> HIDE DEF after
  <2> QED BY <1>1, <1>3, <2>1 DEF GoesOnAt, Retired
<1>5. CASE ~vm.trace
  <2>1. core.reg = reg /\ core.status = code BY CoreFacts DEF CoreRecords
  <2>2. Signed(pc) = pc BY SignedWord
  <2>3. after = AfterPC(core, pc) BY <1>5
  <2> HIDE DEF core, after
  <2>4. /\ after.reg = [reg EXCEPT ![PC] = pc] /\ after.status = code
        /\ after.state = IF code = Working THEN "fetch" ELSE "ended"
    BY <1>2, <2>1, <2>2, <2>3 DEF AfterPC, CoreRecords
  <2>5. after.reg[PC] = pc /\ \A r \in 0 .. 14 : after.reg[r] = reg[r]
    BY <2>4 DEF Registers, PC
  <2> QED BY <1>1, <1>3, <2>4, <2>5 DEF GoesOnAt, Reg, Retired
<1> QED BY <1>4, <1>5

\* The instruction a core executes is the one of its word.
LEMMA ByOp ==
    ASSUME NEW c, executeInstruction(c)
    PROVE  /\ cpu[c].state = "execute"
           /\ Op(Word(c)) = "halt" => halt(c)
           /\ Op(Word(c)) = "load" => load(c)
           /\ Op(Word(c)) = "store" => store(c)
           /\ Op(Word(c)) = "ldimm" => ldimm(c)
           /\ Op(Word(c)) = "addi" => addi(c)
           /\ Op(Word(c)) = "subi" => subi(c)
           /\ Op(Word(c)) = "bgt" => bgt(c)
           /\ Op(Word(c)) = "beq" => beq(c)
           /\ Op(Word(c)) = "jmp" => jmp(c)
           /\ Op(Word(c)) = "cmpxchg" => cmpxchg(c)
           /\ Op(Word(c)) = "getpid" => getpid(c)
<1>1. \A op : Executes(c, op) => cpu[c].state = "execute" /\ Op(Word(c)) = op BY DEF Executes
<1>2. (halt(c) => Executes(c, "halt")) /\ (load(c) => Executes(c, "load")) BY DEF halt, load
<1>3. (store(c) => Executes(c, "store")) /\ (ldimm(c) => Executes(c, "ldimm")) BY DEF store, ldimm
<1>4. (ldaddr(c) => Executes(c, "ldaddr")) /\ (ldind(c) => Executes(c, "ldind"))
  BY DEF ldaddr, ldind
<1>5. (stind(c) => Executes(c, "stind")) /\ (addf(c) => Executes(c, "addf")) BY DEF stind, addf
<1>6. (subf(c) => Executes(c, "subf")) /\ (divf(c) => Executes(c, "divf")) BY DEF subf, divf
<1>7. (mulf(c) => Executes(c, "mulf")) /\ (addi(c) => Executes(c, "addi")) BY DEF mulf, addi
<1>8. (subi(c) => Executes(c, "subi")) /\ (divi(c) => Executes(c, "divi")) BY DEF subi, divi
<1>9. (muli(c) => Executes(c, "muli")) /\ (call(c) => Executes(c, "call")) BY DEF muli, call
<1>10. (ret_(c) => Executes(c, "ret")) /\ (blt(c) => Executes(c, "blt")) BY DEF ret_, blt
<1>11. (bgt(c) => Executes(c, "bgt")) /\ (beq(c) => Executes(c, "beq")) BY DEF bgt, beq
<1>12. (jmp(c) => Executes(c, "jmp")) /\ (cmpxchg(c) => Executes(c, "cmpxchg"))
  BY DEF jmp, cmpxchg
<1>13. (getpid(c) => Executes(c, "getpid")) /\ (getpn(c) => Executes(c, "getpn"))
  BY DEF getpid, getpn
<1>14. (push(c) => Executes(c, "push")) /\ (pop(c) => Executes(c, "pop")) BY DEF push, pop
<1>15. illegal(c) => Executes(c, "NOP") \/ Executes(c, "unknown") BY DEF illegal
<1> QED
  BY <1>1, <1>2, <1>3, <1>4, <1>5, <1>6, <1>7, <1>8, <1>9, <1>10, <1>11, <1>12, <1>13, <1>14, <1>15
  DEF executeInstruction

\* f with v at x.
Put(f, x, v) == [f EXCEPT ![x] = v]

\* What the instructions of the program do, by their fields.
LEMMA LdimmDoes ==
    ASSUME MachineConstants, NEW c, executeInstruction(c), NEW r1, NEW k \in Words,
           Is20(Word(c), "ldimm", r1, k)
    PROVE  Goes(c, Put(cpu[c].reg, r1, k), memory, tPC(c))
BY ByOp, SignedWord DEF Is20, ldimm, Set, R1, Put

\* getpid.
LEMMA GetpidDoes ==
    ASSUME MachineConstants, NEW c \in Words, executeInstruction(c), NEW r1, NEW r2, NEW k,
           Is16(Word(c), "getpid", r1, r2, k)
    PROVE  Goes(c, Put(cpu[c].reg, r1, c), memory, tPC(c))
BY ByOp, SignedWord DEF Is16, getpid, Arith, Set, R1, Put

\* jmp.
LEMMA JmpDoes ==
    ASSUME NEW c, executeInstruction(c), NEW r1, NEW k, Is20(Word(c), "jmp", r1, k)
    PROVE  Goes(c, cpu[c].reg, memory, tPC(c) + k)
BY ByOp DEF Is20, jmp

\* addi.
LEMMA AddiDoes ==
    ASSUME NEW c, executeInstruction(c), NEW r1, NEW r2, NEW k,
           Is16(Word(c), "addi", r1, r2, k)
    PROVE  Goes(c, Put(cpu[c].reg, r1, Signed(cpu[c].reg[r1] + cpu[c].reg[r2])), memory, tPC(c))
BY ByOp DEF Is16, addi, Arith, A, B, R1, R2, Set, Put, Reg

\* subi.
LEMMA SubiDoes ==
    ASSUME NEW c, executeInstruction(c), NEW r1, NEW r2, NEW k,
           Is16(Word(c), "subi", r1, r2, k)
    PROVE  Goes(c, Put(cpu[c].reg, r1, Signed(cpu[c].reg[r1] - cpu[c].reg[r2])), memory, tPC(c))
BY ByOp DEF Is16, subi, Arith, A, B, R1, R2, Set, Put, Reg

\* bgt and beq.
LEMMA BranchDoes ==
    ASSUME NEW c, executeInstruction(c), NEW r1, NEW r2, NEW k
    PROVE  /\ Is16(Word(c), "beq", r1, r2, k) =>
                 Goes(c, cpu[c].reg, memory,
                      IF cpu[c].reg[r1] = cpu[c].reg[r2] THEN tPC(c) + k ELSE tPC(c))
           /\ Is16(Word(c), "bgt", r1, r2, k) =>
                 Goes(c, cpu[c].reg, memory,
                      IF cpu[c].reg[r1] > cpu[c].reg[r2] THEN tPC(c) + k ELSE tPC(c))
BY ByOp DEF Is16, beq, bgt, Branch, A, B, R1, R2, Reg

\* halt.
LEMMA HaltDoes ==
    ASSUME NEW c, executeInstruction(c), NEW r1, NEW r2, NEW k, Is16(Word(c), "halt", r1, r2, k)
    PROVE  Retire(c, cpu[c].reg, memory, tPC(c), NORMAL_TERMINATION)
BY ByOp DEF Is16, halt, Ends

\* load from an address inside memory.
LEMMA LoadDoes ==
    ASSUME MachineConstants, NEW c, executeInstruction(c), memory \in Memories,
           NEW r1, NEW k, NEW a \in 0 .. MemSize - 1, tPC(c) + k = a, Is20(Word(c), "load", r1, k)
    PROVE  Goes(c, Put(cpu[c].reg, r1, memory[a]), memory, tPC(c))
<1>1. Unsigned(a) = a /\ a < MemSize BY UnsignedWord, VmAssumption
<1>2. \A old : getWord(a, old) = memory[a] BY <1>1 DEF getWord
<1>3. memory[a] \in Words BY DEF Memories
<1>4. Set(c, r1, memory[a]) = Put(cpu[c].reg, r1, memory[a]) BY <1>3, SignedWord DEF Set, Put
<1> QED BY <1>2, <1>4, ByOp DEF Is20, load, R1

\* store to an address inside memory.
LEMMA StoreDoes ==
    ASSUME MachineConstants, NEW c, executeInstruction(c),
           NEW r1, NEW k, NEW a \in 0 .. MemSize - 1, tPC(c) + k = a, Is20(Word(c), "store", r1, k)
    PROVE  Goes(c, cpu[c].reg, Put(memory, a, cpu[c].reg[r1]), tPC(c))
<1>1. Unsigned(a) = a /\ a < MemSize BY UnsignedWord, VmAssumption
<1>2. \A w : putWord(memory, a, w) = Put(memory, a, w) BY <1>1 DEF putWord, Put
<1> QED BY <1>2, ByOp DEF Is20, store, R1, Reg

\* cmpxchg on an address inside memory.
LEMMA CmpxchgDoes ==
    ASSUME MachineConstants, NEW c, executeInstruction(c), memory \in Memories,
           NEW r1, NEW r2, NEW k, NEW a \in 0 .. MemSize - 1, tPC(c) + k = a,
           Is16(Word(c), "cmpxchg", r1, r2, k)
    PROVE  \/ /\ cpu[c].reg[r1] = memory[a]
              /\ Goes(c, cpu[c].reg, Put(memory, a, cpu[c].reg[r2]), tPC(c))
           \/ /\ cpu[c].reg[r1] # memory[a]
              /\ Goes(c, Put(cpu[c].reg, r1, memory[a]), memory, tPC(c))
<1>1. Unsigned(a) = a /\ a < MemSize BY UnsignedWord, VmAssumption
<1>2. \A old : getWord(a, old) = memory[a] BY <1>1 DEF getWord
<1>3. memory[a] \in Words BY DEF Memories
<1>4. Set(c, r1, memory[a]) = Put(cpu[c].reg, r1, memory[a]) BY <1>3, SignedWord DEF Set, Put
<1>5. \A w : putWord(memory, a, w) = Put(memory, a, w) BY <1>1 DEF putWord, Put
<1> QED BY <1>2, <1>4, <1>5, ByOp DEF Is16, cmpxchg, A, B, R1, R2, Reg
-----------------------------------------------------------------------------
(***************************************************************************)
(* The invariant of the program: what the registers of a core hold by the  *)
(* place p it is at, who holds the lock, and what has been counted.        *)
(***************************************************************************)
LockLoaded == vm.phase \notin {"none", "ready"} /\ vm.progEnd = 19

\* Core c has entered the program.
Runs(c) == cpu[c].state \notin {"none", "start"}

\* At place p, a core with these registers has the lock.
Holds(reg, p) == p \in 11 .. 16 \/ (p = 9 /\ reg[9] = -1)

\* What the registers of core c hold when it is at place p.
RegsAt(c, reg, p, count) ==
    /\ reg[5] = 0
    /\ p \in 3 .. 14 => reg[4] \in 1 .. Rounds
    /\ p \in 15 .. 19 => reg[4] \in 0 .. Rounds
    /\ p >= 4 => reg[1] = 1
    /\ p >= 5 => reg[10] = c
    /\ p >= 7 => reg[8] = -1
    /\ p \in {8, 16} => reg[9] = -1
    /\ p = 12 => reg[0] = count
    /\ p = 13 => reg[0] = count + 1

\* Where core c can be, and the word it executes there.
PlaceOK(c) ==
    /\ GoesOnAt(c) \in 2 .. 19
    /\ cpu[c].state \in {"fetch", "execute"} => GoesOnAt(c) <= 18 /\ cpu[c].status = Working
    /\ cpu[c].state = "trace" => (GoesOnAt(c) = 19 <=> cpu[c].status # Working)
    /\ cpu[c].state = "ended" => GoesOnAt(c) = 19
    /\ cpu[c].state = "execute" => Word(c) = LockCode[GoesOnAt(c) + 1]

\* Both, for a core that runs.
CoreLock(c) ==
    /\ cpu[c].state = "start" => cpu[c].reg[5] = 0 /\ cpu[c].status = Working
    /\ Runs(c) => PlaceOK(c) /\ RegsAt(c, cpu[c].reg, GoesOnAt(c), memory[0])

\* Nobody has written to the instructions.
CodeInPlace == vm.entryPoint = 2 /\ \A a \in 2 .. 18 : memory[a] = LockCode[a + 1]

\* Core c has the lock.
Owner(c) == Runs(c) /\ Holds(cpu[c].reg, GoesOnAt(c))

\* The lock word is the number of the core that has it, or -1.
OwnerInWord ==
    /\ memory[1] \in Core \union {-1}
    /\ \A c \in Core : Owner(c) <=> memory[1] = c

\* The increments made when left[c] are left: pairs of a core and a number.
Made(left) == {m \in Core \X (1 .. Rounds) : m[2] > left[m[1]]}

\* What the cores have left to add.
LeftNow == [c \in Core |-> Left(c)]

\* The counter is the number of increments made.
Counted == memory[0] = Cardinality(Made(LeftNow))

\* The inductive invariant of the program.
LockInv == LockLoaded =>
    CodeInPlace /\ (\A c \in Core : CoreLock(c)) /\ OwnerInWord /\ Counted

\* The steps of the program: core c goes from its place p to p2.
LockMove(c, reg2, mem2, p2) ==
    LET reg == cpu[c].reg
        p == GoesOnAt(c)
        Loads(r, v, q) == reg2 = Put(reg, r, v) /\ mem2 = memory /\ p2 = q
        Stores(a, v, q) == reg2 = reg /\ mem2 = Put(memory, a, v) /\ p2 = q
        Jumps(q) == reg2 = reg /\ mem2 = memory /\ p2 = q
    IN \/ p = 2 /\ Loads(4, Rounds, 3)
       \/ p = 3 /\ Loads(1, 1, 4)
       \/ p = 4 /\ Loads(10, c, 5)
       \/ p = 5 /\ Jumps(6)
       \/ p = 6 /\ Loads(8, -1, 7)
       \/ p = 7 /\ Loads(9, -1, 8)
       \/ p = 8 /\ reg[9] = memory[1] /\ Stores(1, reg[10], 9)
       \/ p = 8 /\ reg[9] # memory[1] /\ Loads(9, memory[1], 9)
       \/ p = 9 /\ Jumps(IF reg[8] = reg[9] THEN 11 ELSE 10)
       \/ p = 10 /\ Jumps(6)
       \/ p = 11 /\ Loads(0, memory[0], 12)
       \/ p = 12 /\ Loads(0, Signed(reg[0] + reg[1]), 13)
       \/ p = 13 /\ Stores(0, reg[0], 14)
       \/ p = 14 /\ Loads(4, Signed(reg[4] - reg[1]), 15)
       \/ p = 15 /\ Loads(9, -1, 16)
       \/ p = 16 /\ Stores(1, reg[9], 17)
       \/ p = 17 /\ Jumps(IF reg[4] > reg[5] THEN 6 ELSE 18)
       \/ p = 18 /\ Jumps(19)

\* A step of core c is one of these.
Moves(c) ==
    \E reg2 \in Registers, mem2 \in Memories, p2 \in Words :
        /\ LockMove(c, reg2, mem2, p2)
        /\ Retire(c, reg2, mem2, p2, IF p2 = 19 THEN NORMAL_TERMINATION ELSE Working)

\* The machine executes the program.
LEMMA LockDecode ==
    ASSUME LockConstants, MachineInv, LockInv, LockLoaded, NEW c \in Core, executeInstruction(c)
    PROVE  Moves(c)
<1>1. cpu[c].state = "execute" BY ByOp
<1>2. PICK p : p = GoesOnAt(c) OBVIOUS
<1>3. /\ Runs(c) /\ p \in 2 .. 18 /\ Word(c) = LockCode[p + 1] /\ p = Reg(c, PC)
  <2>1. Runs(c) /\ CoreLock(c) BY <1>1 DEF Runs, LockInv
  <2>2. /\ GoesOnAt(c) \in 2 .. 19 /\ GoesOnAt(c) <= 18 /\ Word(c) = LockCode[GoesOnAt(c) + 1]
    BY <1>1, <2>1 DEF CoreLock, PlaceOK
  <2> QED BY <1>1, <1>2, <2>1, <2>2 DEF GoesOnAt
<1>4. tPC(c) = p + 1 BY <1>3 DEF tPC, Reg
<1>5. MachineConstants /\ Rounds \in Int BY LockNumbers
<1>6. cpu[c].reg \in Registers /\ memory \in Memories BY <1>1, <1>5, CoreFacts
<1>7. /\ \A r \in 0 .. 15 : cpu[c].reg[r] \in Words
      /\ memory[0] \in Words /\ memory[1] \in Words /\ 0 \in 0 .. MemSize - 1 /\ 1 \in 0 .. MemSize - 1
  <2>1. 0 \in 0 .. MemSize - 1 /\ 1 \in 0 .. MemSize - 1 BY LockNumbers
  <2> QED BY <1>6, <2>1 DEF Registers, Memories
<1>8. /\ \A r \in 0 .. 15, v \in Words : Put(cpu[c].reg, r, v) \in Registers
      /\ \A v \in Words : Put(cpu[c].reg, 0, v) \in Registers
      /\ \A v \in Words : Put(memory, 0, v) \in Memories /\ Put(memory, 1, v) \in Memories
  BY <1>6, LockNumbers DEF Registers, Memories, Put
<1>9. /\ \A x \in -1 .. 19 : x \in Words
      /\ Rounds \in Words /\ c \in Words /\ Words \subseteq Int
  BY LockNumbers
<1>10. ASSUME NEW reg2 \in Registers, NEW mem2 \in Memories, NEW p2 \in 3 .. 18,
              LockMove(c, reg2, mem2, p2), Goes(c, reg2, mem2, p2)
       PROVE  Moves(c)
  <2>1. p2 \in Words /\ p2 # 19 BY <1>9
  <2>2. Retire(c, reg2, mem2, p2, IF p2 = 19 THEN NORMAL_TERMINATION ELSE Working)
    BY <1>10, <2>1 DEF Goes
  <2> QED BY <1>10, <2>1, <2>2 DEF Moves
<1>12. /\ cpu[c].reg[0] \in Words /\ cpu[c].reg[1] \in Words /\ cpu[c].reg[4] \in Words
       /\ cpu[c].reg[9] \in Words /\ cpu[c].reg[10] \in Words
  <2>1. {0, 1, 4, 9, 10} \subseteq 0 .. 15 OBVIOUS
  <2> QED BY <1>7, <2>1
<1>11. Signed(cpu[c].reg[0] + cpu[c].reg[1]) \in Words /\ Signed(cpu[c].reg[4] - cpu[c].reg[1]) \in Words
  <2>1. cpu[c].reg[0] \in Int /\ cpu[c].reg[1] \in Int /\ cpu[c].reg[4] \in Int BY <1>9, <1>12
  <2>2. cpu[c].reg[0] + cpu[c].reg[1] \in Int /\ cpu[c].reg[4] - cpu[c].reg[1] \in Int BY <2>1
  <2> QED BY <1>5, <2>2, SignedWord
<1>13. CASE p = 2
  <2>1. Is20(Word(c), "ldimm", 4, Rounds) BY <1>3, <1>5, <1>13, LockWords
  <2>2. tPC(c) = 3 BY <1>4, <1>13
  <2>3. Goes(c, Put(cpu[c].reg, 4, Rounds), memory, 3)
    BY <1>5, <1>6, <1>7, <1>9, <2>1, <2>2, LdimmDoes
  <2>4. LockMove(c, Put(cpu[c].reg, 4, Rounds), memory, 3) BY <1>2, <1>13, Zenon DEF LockMove
  <2>6. Put(cpu[c].reg, 4, Rounds) \in Registers /\ memory \in Memories /\ 3 \in 3 .. 18
    BY <1>6, <1>7, <1>8, <1>9, <1>12
  <2> QED BY <1>10, <2>3, <2>4, <2>6
<1>14. CASE p = 3
  <2>1. Is20(Word(c), "ldimm", 1, 1) BY <1>3, <1>5, <1>14, LockWords
  <2>2. tPC(c) = 4 BY <1>4, <1>14
  <2>3. Goes(c, Put(cpu[c].reg, 1, 1), memory, 4)
    BY <1>5, <1>6, <1>7, <1>9, <2>1, <2>2, LdimmDoes
  <2>4. LockMove(c, Put(cpu[c].reg, 1, 1), memory, 4) BY <1>2, <1>14, Zenon DEF LockMove
  <2>6. Put(cpu[c].reg, 1, 1) \in Registers /\ memory \in Memories /\ 4 \in 3 .. 18
    BY <1>6, <1>7, <1>8, <1>9, <1>12
  <2> QED BY <1>10, <2>3, <2>4, <2>6
<1>15. CASE p = 4
  <2>1. Is16(Word(c), "getpid", 10, 0, 0) BY <1>3, <1>5, <1>15, LockWords
  <2>2. tPC(c) = 5 BY <1>4, <1>15
  <2>3. Goes(c, Put(cpu[c].reg, 10, c), memory, 5)
    BY <1>5, <1>6, <1>7, <1>9, <2>1, <2>2, GetpidDoes
  <2>4. LockMove(c, Put(cpu[c].reg, 10, c), memory, 5) BY <1>2, <1>15, Zenon DEF LockMove
  <2>6. Put(cpu[c].reg, 10, c) \in Registers /\ memory \in Memories /\ 5 \in 3 .. 18
    BY <1>6, <1>7, <1>8, <1>9, <1>12
  <2> QED BY <1>10, <2>3, <2>4, <2>6
<1>16. CASE p = 5
  <2>1. Is20(Word(c), "jmp", 0, 0) BY <1>3, <1>5, <1>16, LockWords
  <2>2. tPC(c) = 6 BY <1>4, <1>16
  <2>3. Goes(c, cpu[c].reg, memory, 6)
    BY <1>5, <1>6, <1>7, <1>9, <2>1, <2>2, JmpDoes
  <2>4. LockMove(c, cpu[c].reg, memory, 6) BY <1>2, <1>16, Zenon DEF LockMove
  <2>6. cpu[c].reg \in Registers /\ memory \in Memories /\ 6 \in 3 .. 18
    BY <1>6, <1>7, <1>8, <1>9, <1>12
  <2> QED BY <1>10, <2>3, <2>4, <2>6
<1>17. CASE p = 6
  <2>1. Is20(Word(c), "ldimm", 8, -1) BY <1>3, <1>5, <1>17, LockWords
  <2>2. tPC(c) = 7 BY <1>4, <1>17
  <2>3. Goes(c, Put(cpu[c].reg, 8, -1), memory, 7)
    BY <1>5, <1>6, <1>7, <1>9, <2>1, <2>2, LdimmDoes
  <2>4. LockMove(c, Put(cpu[c].reg, 8, -1), memory, 7) BY <1>2, <1>17, Zenon DEF LockMove
  <2>6. Put(cpu[c].reg, 8, -1) \in Registers /\ memory \in Memories /\ 7 \in 3 .. 18
    BY <1>6, <1>7, <1>8, <1>9, <1>12
  <2> QED BY <1>10, <2>3, <2>4, <2>6
<1>18. CASE p = 7
  <2>1. Is20(Word(c), "ldimm", 9, -1) BY <1>3, <1>5, <1>18, LockWords
  <2>2. tPC(c) = 8 BY <1>4, <1>18
  <2>3. Goes(c, Put(cpu[c].reg, 9, -1), memory, 8)
    BY <1>5, <1>6, <1>7, <1>9, <2>1, <2>2, LdimmDoes
  <2>4. LockMove(c, Put(cpu[c].reg, 9, -1), memory, 8) BY <1>2, <1>18, Zenon DEF LockMove
  <2>6. Put(cpu[c].reg, 9, -1) \in Registers /\ memory \in Memories /\ 8 \in 3 .. 18
    BY <1>6, <1>7, <1>8, <1>9, <1>12
  <2> QED BY <1>10, <2>3, <2>4, <2>6
<1>19. CASE p = 8
  <2>1. Is16(Word(c), "cmpxchg", 9, 10, -8) BY <1>3, <1>5, <1>19, LockWords
  <2>2. tPC(c) = 9 /\ 9 + -8 = 1 BY <1>4, <1>19
  <2>3. \/ /\ cpu[c].reg[9] = memory[1]
           /\ Goes(c, cpu[c].reg, Put(memory, 1, cpu[c].reg[10]), 9)
        \/ /\ cpu[c].reg[9] # memory[1]
           /\ Goes(c, Put(cpu[c].reg, 9, memory[1]), memory, 9)
    BY <1>5, <1>6, <1>7, <2>1, <2>2, CmpxchgDoes
  <2>4. CASE cpu[c].reg[9] = memory[1]
    <3>1. LockMove(c, cpu[c].reg, Put(memory, 1, cpu[c].reg[10]), 9)
      BY <1>2, <1>19, <2>4 DEF LockMove
    <3> QED BY <1>6, <1>7, <1>8, <1>10, <2>3, <2>4, <3>1
  <2>5. CASE cpu[c].reg[9] # memory[1]
    <3>1. LockMove(c, Put(cpu[c].reg, 9, memory[1]), memory, 9)
      BY <1>2, <1>19, <2>5 DEF LockMove
    <3> QED BY <1>6, <1>7, <1>8, <1>10, <2>3, <2>5, <3>1
  <2> QED BY <2>4, <2>5
<1>20. CASE p = 9
  <2>1. Is16(Word(c), "beq", 8, 9, 1) BY <1>3, <1>5, <1>20, LockWords
  <2>2. tPC(c) = 10 BY <1>4, <1>20
  <2>5. 10 + 1 = 11 OBVIOUS
  <2>3. Goes(c, cpu[c].reg, memory, (IF cpu[c].reg[8] = cpu[c].reg[9] THEN 11 ELSE 10))
    BY <1>5, <1>6, <1>7, <1>9, <2>1, <2>2, <2>5, BranchDoes
  <2>4. LockMove(c, cpu[c].reg, memory, (IF cpu[c].reg[8] = cpu[c].reg[9] THEN 11 ELSE 10)) BY <1>2, <1>20, Zenon DEF LockMove
  <2>6. cpu[c].reg \in Registers /\ memory \in Memories /\ (IF cpu[c].reg[8] = cpu[c].reg[9] THEN 11 ELSE 10) \in 3 .. 18
    BY <1>6, <1>7, <1>8, <1>9, <1>12
  <2> QED BY <1>10, <2>3, <2>4, <2>6
<1>21. CASE p = 10
  <2>1. Is20(Word(c), "jmp", 0, -5) BY <1>3, <1>5, <1>21, LockWords
  <2>2. tPC(c) = 11 BY <1>4, <1>21
  <2>5. 11 + (-5) = 6 OBVIOUS
  <2>3. Goes(c, cpu[c].reg, memory, 6)
    BY <1>5, <1>6, <1>7, <1>9, <2>1, <2>2, <2>5, JmpDoes
  <2>4. LockMove(c, cpu[c].reg, memory, 6) BY <1>2, <1>21, Zenon DEF LockMove
  <2>6. cpu[c].reg \in Registers /\ memory \in Memories /\ 6 \in 3 .. 18
    BY <1>6, <1>7, <1>8, <1>9, <1>12
  <2> QED BY <1>10, <2>3, <2>4, <2>6
<1>22. CASE p = 11
  <2>1. Is20(Word(c), "load", 0, -12) BY <1>3, <1>5, <1>22, LockWords
  <2>2. tPC(c) = 12 BY <1>4, <1>22
  <2>5. 12 + (-12) = 0 OBVIOUS
  <2>3. Goes(c, Put(cpu[c].reg, 0, memory[0]), memory, 12)
    BY <1>5, <1>6, <1>7, <1>9, <2>1, <2>2, <2>5, LoadDoes
  <2>4. LockMove(c, Put(cpu[c].reg, 0, memory[0]), memory, 12) BY <1>2, <1>22, Zenon DEF LockMove
  <2>7. Put(cpu[c].reg, 0, memory[0]) \in Registers BY <1>7, <1>8, <1>12, Zenon
  <2>6. Put(cpu[c].reg, 0, memory[0]) \in Registers /\ memory \in Memories /\ 12 \in 3 .. 18 BY <1>6, <2>7
  <2> QED BY <1>10, <2>3, <2>4, <2>6
<1>23. CASE p = 12
  <2>1. Is16(Word(c), "addi", 0, 1, 0) BY <1>3, <1>5, <1>23, LockWords
  <2>2. tPC(c) = 13 BY <1>4, <1>23
  <2>3. Goes(c, Put(cpu[c].reg, 0, Signed(cpu[c].reg[0] + cpu[c].reg[1])), memory, 13)
    BY <1>5, <1>6, <1>7, <1>9, <2>1, <2>2, AddiDoes
  <2>4. LockMove(c, Put(cpu[c].reg, 0, Signed(cpu[c].reg[0] + cpu[c].reg[1])), memory, 13) BY <1>2, <1>23, Zenon DEF LockMove
  <2>7. PICK v \in Words : v = Signed(cpu[c].reg[0] + cpu[c].reg[1]) BY <1>11, Zenon
  <2>8. 0 \in 0 .. 15 OBVIOUS
  <2>9. Put(cpu[c].reg, 0, v) \in Registers BY <1>8, <2>8, Zenon
  <2>6. /\ Put(cpu[c].reg, 0, Signed(cpu[c].reg[0] + cpu[c].reg[1])) \in Registers
        /\ memory \in Memories /\ 13 \in 3 .. 18
    <3>1. 13 \in 3 .. 18 OBVIOUS
    <3> QED BY <1>6, <2>7, <2>9, <3>1, Zenon
  <2> QED BY <1>10, <2>3, <2>4, <2>6
<1>24. CASE p = 13
  <2>1. Is20(Word(c), "store", 0, -14) BY <1>3, <1>5, <1>24, LockWords
  <2>2. tPC(c) = 14 BY <1>4, <1>24
  <2>5. 14 + (-14) = 0 OBVIOUS
  <2>3. Goes(c, cpu[c].reg, Put(memory, 0, cpu[c].reg[0]), 14)
    BY <1>5, <1>6, <1>7, <1>9, <2>1, <2>2, <2>5, StoreDoes
  <2>4. LockMove(c, cpu[c].reg, Put(memory, 0, cpu[c].reg[0]), 14) BY <1>2, <1>24, Zenon DEF LockMove
  <2>7. Put(memory, 0, cpu[c].reg[0]) \in Memories BY <1>7, <1>8, <1>12, Zenon
  <2>6. cpu[c].reg \in Registers /\ Put(memory, 0, cpu[c].reg[0]) \in Memories /\ 14 \in 3 .. 18 BY <1>6, <2>7
  <2> QED BY <1>10, <2>3, <2>4, <2>6
<1>25. CASE p = 14
  <2>1. Is16(Word(c), "subi", 4, 1, 0) BY <1>3, <1>5, <1>25, LockWords
  <2>2. tPC(c) = 15 BY <1>4, <1>25
  <2>3. Goes(c, Put(cpu[c].reg, 4, Signed(cpu[c].reg[4] - cpu[c].reg[1])), memory, 15)
    BY <1>5, <1>6, <1>7, <1>9, <2>1, <2>2, SubiDoes
  <2>4. LockMove(c, Put(cpu[c].reg, 4, Signed(cpu[c].reg[4] - cpu[c].reg[1])), memory, 15) BY <1>2, <1>25, Zenon DEF LockMove
  <2>7. PICK v \in Words : v = Signed(cpu[c].reg[4] - cpu[c].reg[1]) BY <1>11, Zenon
  <2>8. 4 \in 0 .. 15 OBVIOUS
  <2>9. Put(cpu[c].reg, 4, v) \in Registers BY <1>8, <2>8, Zenon
  <2>6. /\ Put(cpu[c].reg, 4, Signed(cpu[c].reg[4] - cpu[c].reg[1])) \in Registers
        /\ memory \in Memories /\ 15 \in 3 .. 18
    <3>1. 15 \in 3 .. 18 OBVIOUS
    <3> QED BY <1>6, <2>7, <2>9, <3>1, Zenon
  <2> QED BY <1>10, <2>3, <2>4, <2>6
<1>26. CASE p = 15
  <2>1. Is20(Word(c), "ldimm", 9, -1) BY <1>3, <1>5, <1>26, LockWords
  <2>2. tPC(c) = 16 BY <1>4, <1>26
  <2>3. Goes(c, Put(cpu[c].reg, 9, -1), memory, 16)
    BY <1>5, <1>6, <1>7, <1>9, <2>1, <2>2, LdimmDoes
  <2>4. LockMove(c, Put(cpu[c].reg, 9, -1), memory, 16) BY <1>2, <1>26, Zenon DEF LockMove
  <2>6. Put(cpu[c].reg, 9, -1) \in Registers /\ memory \in Memories /\ 16 \in 3 .. 18
    BY <1>6, <1>7, <1>8, <1>9, <1>12
  <2> QED BY <1>10, <2>3, <2>4, <2>6
<1>27. CASE p = 16
  <2>1. Is20(Word(c), "store", 9, -16) BY <1>3, <1>5, <1>27, LockWords
  <2>2. tPC(c) = 17 BY <1>4, <1>27
  <2>5. 17 + (-16) = 1 OBVIOUS
  <2>3. Goes(c, cpu[c].reg, Put(memory, 1, cpu[c].reg[9]), 17)
    BY <1>5, <1>6, <1>7, <1>9, <2>1, <2>2, <2>5, StoreDoes
  <2>4. LockMove(c, cpu[c].reg, Put(memory, 1, cpu[c].reg[9]), 17) BY <1>2, <1>27, Zenon DEF LockMove
  <2>7. Put(memory, 1, cpu[c].reg[9]) \in Memories BY <1>7, <1>8, <1>12, Zenon
  <2>6. cpu[c].reg \in Registers /\ Put(memory, 1, cpu[c].reg[9]) \in Memories /\ 17 \in 3 .. 18 BY <1>6, <2>7
  <2> QED BY <1>10, <2>3, <2>4, <2>6
<1>28. CASE p = 17
  <2>1. Is16(Word(c), "bgt", 4, 5, -12) BY <1>3, <1>5, <1>28, LockWords
  <2>2. tPC(c) = 18 BY <1>4, <1>28
  <2>5. 18 + (-12) = 6 OBVIOUS
  <2>3. Goes(c, cpu[c].reg, memory, (IF cpu[c].reg[4] > cpu[c].reg[5] THEN 6 ELSE 18))
    BY <1>5, <1>6, <1>7, <1>9, <2>1, <2>2, <2>5, BranchDoes
  <2>4. LockMove(c, cpu[c].reg, memory, (IF cpu[c].reg[4] > cpu[c].reg[5] THEN 6 ELSE 18)) BY <1>2, <1>28, Zenon DEF LockMove
  <2>6. cpu[c].reg \in Registers /\ memory \in Memories /\ (IF cpu[c].reg[4] > cpu[c].reg[5] THEN 6 ELSE 18) \in 3 .. 18
    BY <1>6, <1>7, <1>8, <1>9, <1>12
  <2> QED BY <1>10, <2>3, <2>4, <2>6
<1>29. CASE p = 18
  <2>1. Is16(Word(c), "halt", 0, 0, 0) BY <1>3, <1>5, <1>29, LockWords
  <2>2. tPC(c) = 19 BY <1>4, <1>29
  <2>3. Retire(c, cpu[c].reg, memory, 19, NORMAL_TERMINATION)
    BY <2>1, <2>2, HaltDoes
  <2>4. LockMove(c, cpu[c].reg, memory, 19) BY <1>2, <1>29 DEF LockMove
  <2>5. 19 \in Words BY <1>9
  <2> QED BY <1>6, <2>3, <2>4, <2>5 DEF Moves
<1> QED
  BY <1>3, <1>13, <1>14, <1>15, <1>16, <1>17, <1>18, <1>19, <1>20, <1>21, <1>22, <1>23, <1>24, <1>25, <1>26, <1>27, <1>28, <1>29

\* What a core at place p still has to add.
Remaining(reg, p) == IF p = 2 THEN Rounds ELSE reg[4] - (IF p = 14 THEN 1 ELSE 0)

\* What a step of core c does to the lock and to the counter.
LockEffect(c, reg, p, mem, reg2, p2, mem2) ==
    /\ \A a \in 2 .. 18 : mem2[a] = mem[a]
    /\ \/ p = 8 /\ mem[1] = -1 /\ mem2[1] = c /\ ~Holds(reg, p) /\ Holds(reg2, p2)
       \/ p = 16 /\ mem2[1] = -1 /\ Holds(reg, p) /\ ~Holds(reg2, p2)
       \/ mem2[1] = mem[1] /\ (Holds(reg2, p2) <=> Holds(reg, p))
    /\ \/ /\ p = 13 /\ mem2[0] = mem[0] + 1
          /\ Remaining(reg, p) \in 1 .. Rounds /\ Remaining(reg2, p2) = Remaining(reg, p) - 1
       \/ p # 13 /\ mem2[0] = mem[0] /\ Remaining(reg2, p2) = Remaining(reg, p)

\* A step keeps what the registers hold at the places of the program.
LEMMA MoveLocal ==
    ASSUME LockConstants, NEW c \in Core, NEW p \in 2 .. 18, p = GoesOnAt(c),
           NEW reg \in Registers, reg = cpu[c].reg, NEW mem \in Memories, mem = memory,
           RegsAt(c, reg, p, mem[0]), p = 12 => mem[0] + 1 \in Words,
           NEW reg2, NEW mem2, NEW p2, LockMove(c, reg2, mem2, p2)
    PROVE  /\ p2 \in 3 .. 19 /\ RegsAt(c, reg2, p2, mem2[0])
           /\ LockEffect(c, reg, p, mem, reg2, p2, mem2)
<1>1. /\ \A r \in 0 .. 15 : reg[r] \in Int
      /\ \A a \in 0 .. 18 : a \in 0 .. MemSize - 1 /\ mem[a] \in Int
  <2>1. \A a \in 0 .. 18 : a \in 0 .. MemSize - 1 BY LockNumbers
  <2> QED BY <2>1, LockNumbers DEF Registers, Memories
<1>2. ASSUME NEW r \in 0 .. 15, NEW v, reg2 = Put(reg, r, v)
      PROVE  /\ reg2[r] = v
             /\ r # 0 => reg2[0] = reg[0]
             /\ r # 1 => reg2[1] = reg[1]
             /\ r # 4 => reg2[4] = reg[4]
             /\ r # 5 => reg2[5] = reg[5]
             /\ r # 8 => reg2[8] = reg[8]
             /\ r # 9 => reg2[9] = reg[9]
             /\ r # 10 => reg2[10] = reg[10]
  <2>1. \A j \in 0 .. 15 : reg2[j] = IF j = r THEN v ELSE reg[j] BY <1>2 DEF Registers, Put
  <2> QED BY <2>1
<1>3. ASSUME NEW a \in 0 .. 18, NEW v
      PROVE  Put(mem, a, v)[a] = v /\ \A j \in 0 .. 18 : j # a => Put(mem, a, v)[j] = mem[j]
  BY <1>1 DEF Memories, Put
<1>4. Rounds \in Nat \ {0} BY LockNumbers
<1>5. c \in Nat BY LockNumbers
<1>6. CASE p = 2
  <2>1. reg2 = Put(reg, 4, Rounds) /\ mem2 = mem /\ p2 = 3
    BY <1>6, SMTT(60) DEF LockMove
  <2>2. reg2[0] = reg[0] /\ reg2[1] = reg[1] /\ reg2[4] = Rounds /\ reg2[5] = reg[5] /\ reg2[8] = reg[8] /\ reg2[9] = reg[9] /\ reg2[10] = reg[10]
    BY <1>2, <2>1
  <2>3. mem2 = mem BY <1>3, <2>1
  <2>4. p2 = 3 BY <2>1
  <2>5. p2 \in 3 .. 19 /\ RegsAt(c, reg2, p2, mem2[0])
    BY <1>1, <1>4, <1>5, <1>6, <2>2, <2>3, <2>4 DEF RegsAt
  <2>6. LockEffect(c, reg, p, mem, reg2, p2, mem2)
    BY <1>1, <1>4, <1>5, <1>6, <2>2, <2>3, <2>4 DEF RegsAt, LockEffect, Holds, Remaining
  <2> QED BY <2>5, <2>6
<1>7. CASE p = 3
  <2>1. reg2 = Put(reg, 1, 1) /\ mem2 = mem /\ p2 = 4
    BY <1>7, SMTT(60) DEF LockMove
  <2>2. reg2[0] = reg[0] /\ reg2[1] = 1 /\ reg2[4] = reg[4] /\ reg2[5] = reg[5] /\ reg2[8] = reg[8] /\ reg2[9] = reg[9] /\ reg2[10] = reg[10]
    BY <1>2, <2>1
  <2>3. mem2 = mem BY <1>3, <2>1
  <2>4. p2 = 4 BY <2>1
  <2>5. p2 \in 3 .. 19 /\ RegsAt(c, reg2, p2, mem2[0])
    BY <1>1, <1>4, <1>5, <1>7, <2>2, <2>3, <2>4 DEF RegsAt
  <2>6. LockEffect(c, reg, p, mem, reg2, p2, mem2)
    BY <1>1, <1>4, <1>5, <1>7, <2>2, <2>3, <2>4 DEF RegsAt, LockEffect, Holds, Remaining
  <2> QED BY <2>5, <2>6
<1>8. CASE p = 4
  <2>1. reg2 = Put(reg, 10, c) /\ mem2 = mem /\ p2 = 5
    BY <1>8, SMTT(60) DEF LockMove
  <2>2. reg2[0] = reg[0] /\ reg2[1] = reg[1] /\ reg2[4] = reg[4] /\ reg2[5] = reg[5] /\ reg2[8] = reg[8] /\ reg2[9] = reg[9] /\ reg2[10] = c
    BY <1>2, <2>1
  <2>3. mem2 = mem BY <1>3, <2>1
  <2>4. p2 = 5 BY <2>1
  <2>5. p2 \in 3 .. 19 /\ RegsAt(c, reg2, p2, mem2[0])
    BY <1>1, <1>4, <1>5, <1>8, <2>2, <2>3, <2>4 DEF RegsAt
  <2>6. LockEffect(c, reg, p, mem, reg2, p2, mem2)
    BY <1>1, <1>4, <1>5, <1>8, <2>2, <2>3, <2>4 DEF RegsAt, LockEffect, Holds, Remaining
  <2> QED BY <2>5, <2>6
<1>9. CASE p = 5
  <2>1. reg2 = reg /\ mem2 = mem /\ p2 = 6
    BY <1>9, SMTT(60) DEF LockMove
  <2>2. reg2 = reg
    BY <2>1
  <2>3. mem2 = mem BY <1>3, <2>1
  <2>4. p2 = 6 BY <2>1
  <2>5. p2 \in 3 .. 19 /\ RegsAt(c, reg2, p2, mem2[0])
    BY <1>1, <1>4, <1>5, <1>9, <2>2, <2>3, <2>4 DEF RegsAt
  <2>6. LockEffect(c, reg, p, mem, reg2, p2, mem2)
    BY <1>1, <1>4, <1>5, <1>9, <2>2, <2>3, <2>4 DEF RegsAt, LockEffect, Holds, Remaining
  <2> QED BY <2>5, <2>6
<1>10. CASE p = 6
  <2>1. reg2 = Put(reg, 8, -1) /\ mem2 = mem /\ p2 = 7
    BY <1>10, SMTT(60) DEF LockMove
  <2>2. reg2[0] = reg[0] /\ reg2[1] = reg[1] /\ reg2[4] = reg[4] /\ reg2[5] = reg[5] /\ reg2[8] = -1 /\ reg2[9] = reg[9] /\ reg2[10] = reg[10]
    BY <1>2, <2>1
  <2>3. mem2 = mem BY <1>3, <2>1
  <2>4. p2 = 7 BY <2>1
  <2>5. p2 \in 3 .. 19 /\ RegsAt(c, reg2, p2, mem2[0])
    BY <1>1, <1>4, <1>5, <1>10, <2>2, <2>3, <2>4 DEF RegsAt
  <2>6. LockEffect(c, reg, p, mem, reg2, p2, mem2)
    BY <1>1, <1>4, <1>5, <1>10, <2>2, <2>3, <2>4 DEF RegsAt, LockEffect, Holds, Remaining
  <2> QED BY <2>5, <2>6
<1>11. CASE p = 7
  <2>1. reg2 = Put(reg, 9, -1) /\ mem2 = mem /\ p2 = 8
    BY <1>11, SMTT(60) DEF LockMove
  <2>2. reg2[0] = reg[0] /\ reg2[1] = reg[1] /\ reg2[4] = reg[4] /\ reg2[5] = reg[5] /\ reg2[8] = reg[8] /\ reg2[9] = -1 /\ reg2[10] = reg[10]
    BY <1>2, <2>1
  <2>3. mem2 = mem BY <1>3, <2>1
  <2>4. p2 = 8 BY <2>1
  <2>5. p2 \in 3 .. 19 /\ RegsAt(c, reg2, p2, mem2[0])
    BY <1>1, <1>4, <1>5, <1>11, <2>2, <2>3, <2>4 DEF RegsAt
  <2>6. LockEffect(c, reg, p, mem, reg2, p2, mem2)
    BY <1>1, <1>4, <1>5, <1>11, <2>2, <2>3, <2>4 DEF RegsAt, LockEffect, Holds, Remaining
  <2> QED BY <2>5, <2>6
<1>12. CASE p = 8 /\ reg[9] = mem[1]
  <2>1. reg2 = reg /\ mem2 = Put(mem, 1, reg[10]) /\ p2 = 9
    BY <1>12, SMTT(60) DEF LockMove
  <2>2. reg2 = reg
    BY <2>1
  <2>3. mem2[1] = reg[10] /\ \A j \in 0 .. 18 : j # 1 => mem2[j] = mem[j] BY <1>3, <2>1
  <2>4. p2 = 9 BY <2>1
  <2>5. p2 \in 3 .. 19 /\ RegsAt(c, reg2, p2, mem2[0])
    BY <1>1, <1>4, <1>5, <1>12, <2>2, <2>3, <2>4 DEF RegsAt
  <2>6. LockEffect(c, reg, p, mem, reg2, p2, mem2)
    BY <1>1, <1>4, <1>5, <1>12, <2>2, <2>3, <2>4 DEF RegsAt, LockEffect, Holds, Remaining
  <2> QED BY <2>5, <2>6
<1>13. CASE p = 8 /\ reg[9] # mem[1]
  <2>1. reg2 = Put(reg, 9, mem[1]) /\ mem2 = mem /\ p2 = 9
    BY <1>13, SMTT(60) DEF LockMove
  <2>2. reg2[0] = reg[0] /\ reg2[1] = reg[1] /\ reg2[4] = reg[4] /\ reg2[5] = reg[5] /\ reg2[8] = reg[8] /\ reg2[9] = mem[1] /\ reg2[10] = reg[10]
    BY <1>2, <2>1
  <2>3. mem2 = mem BY <1>3, <2>1
  <2>4. p2 = 9 BY <2>1
  <2>5. p2 \in 3 .. 19 /\ RegsAt(c, reg2, p2, mem2[0])
    BY <1>1, <1>4, <1>5, <1>13, <2>2, <2>3, <2>4 DEF RegsAt
  <2>6. LockEffect(c, reg, p, mem, reg2, p2, mem2)
    BY <1>1, <1>4, <1>5, <1>13, <2>2, <2>3, <2>4 DEF RegsAt, LockEffect, Holds, Remaining
  <2> QED BY <2>5, <2>6
<1>14. CASE p = 9 /\ reg[8] = reg[9]
  <2>1. reg2 = reg /\ mem2 = mem /\ p2 = 11
    BY <1>14, SMTT(60) DEF LockMove
  <2>2. reg2 = reg
    BY <2>1
  <2>3. mem2 = mem BY <1>3, <2>1
  <2>4. p2 = 11 BY <2>1
  <2>5. p2 \in 3 .. 19 /\ RegsAt(c, reg2, p2, mem2[0])
    BY <1>1, <1>4, <1>5, <1>14, <2>2, <2>3, <2>4 DEF RegsAt
  <2>6. LockEffect(c, reg, p, mem, reg2, p2, mem2)
    BY <1>1, <1>4, <1>5, <1>14, <2>2, <2>3, <2>4 DEF RegsAt, LockEffect, Holds, Remaining
  <2> QED BY <2>5, <2>6
<1>15. CASE p = 9 /\ reg[8] # reg[9]
  <2>1. reg2 = reg /\ mem2 = mem /\ p2 = 10
    BY <1>15, SMTT(60) DEF LockMove
  <2>2. reg2 = reg
    BY <2>1
  <2>3. mem2 = mem BY <1>3, <2>1
  <2>4. p2 = 10 BY <2>1
  <2>5. p2 \in 3 .. 19 /\ RegsAt(c, reg2, p2, mem2[0])
    BY <1>1, <1>4, <1>5, <1>15, <2>2, <2>3, <2>4 DEF RegsAt
  <2>6. LockEffect(c, reg, p, mem, reg2, p2, mem2)
    BY <1>1, <1>4, <1>5, <1>15, <2>2, <2>3, <2>4 DEF RegsAt, LockEffect, Holds, Remaining
  <2> QED BY <2>5, <2>6
<1>16. CASE p = 10
  <2>1. reg2 = reg /\ mem2 = mem /\ p2 = 6
    BY <1>16, SMTT(60) DEF LockMove
  <2>2. reg2 = reg
    BY <2>1
  <2>3. mem2 = mem BY <1>3, <2>1
  <2>4. p2 = 6 BY <2>1
  <2>5. p2 \in 3 .. 19 /\ RegsAt(c, reg2, p2, mem2[0])
    BY <1>1, <1>4, <1>5, <1>16, <2>2, <2>3, <2>4 DEF RegsAt
  <2>6. LockEffect(c, reg, p, mem, reg2, p2, mem2)
    BY <1>1, <1>4, <1>5, <1>16, <2>2, <2>3, <2>4 DEF RegsAt, LockEffect, Holds, Remaining
  <2> QED BY <2>5, <2>6
<1>17. CASE p = 11
  <2>1. reg2 = Put(reg, 0, mem[0]) /\ mem2 = mem /\ p2 = 12
    BY <1>17, SMTT(60) DEF LockMove
  <2>2. reg2[0] = mem[0] /\ reg2[1] = reg[1] /\ reg2[4] = reg[4] /\ reg2[5] = reg[5] /\ reg2[8] = reg[8] /\ reg2[9] = reg[9] /\ reg2[10] = reg[10]
    BY <1>2, <2>1
  <2>3. mem2 = mem BY <1>3, <2>1
  <2>4. p2 = 12 BY <2>1
  <2>5. p2 \in 3 .. 19 /\ RegsAt(c, reg2, p2, mem2[0])
    BY <1>1, <1>4, <1>5, <1>17, <2>2, <2>3, <2>4 DEF RegsAt
  <2>6. LockEffect(c, reg, p, mem, reg2, p2, mem2)
    BY <1>1, <1>4, <1>5, <1>17, <2>2, <2>3, <2>4 DEF RegsAt, LockEffect, Holds, Remaining
  <2> QED BY <2>5, <2>6
<1>18. CASE p = 12
  <2>1. reg2 = Put(reg, 0, Signed(reg[0] + reg[1])) /\ mem2 = mem /\ p2 = 13
    BY <1>18, SMTT(60) DEF LockMove
  <2>0. Signed(reg[0] + reg[1]) = mem[0] + 1
    <3>1. reg[0] + reg[1] = mem[0] + 1 BY <1>1, <1>18 DEF RegsAt
    <3>2. Signed(mem[0] + 1) = mem[0] + 1 BY <1>18, LockNumbers, SignedWord
    <3> QED BY <3>1, <3>2
  <2>7. PICK v : v = Signed(reg[0] + reg[1]) OBVIOUS
  <2>8. reg2 = Put(reg, 0, v) BY <2>1, <2>7, Zenon
  <2>9. reg2[0] = v /\ reg2[1] = reg[1] /\ reg2[4] = reg[4] /\ reg2[5] = reg[5] /\ reg2[8] = reg[8] /\ reg2[9] = reg[9] /\ reg2[10] = reg[10]
    BY <1>2, <2>8
  <2>2. reg2[0] = Signed(reg[0] + reg[1]) /\ reg2[1] = reg[1] /\ reg2[4] = reg[4] /\ reg2[5] = reg[5] /\ reg2[8] = reg[8] /\ reg2[9] = reg[9] /\ reg2[10] = reg[10]
    BY <2>7, <2>9
  <2>3. mem2 = mem BY <1>3, <2>1
  <2>4. p2 = 13 BY <2>1
  <2>5. p2 \in 3 .. 19 /\ RegsAt(c, reg2, p2, mem2[0])
    BY <1>1, <1>4, <1>5, <1>18, <2>2, <2>3, <2>4, <2>0 DEF RegsAt
  <2>6. LockEffect(c, reg, p, mem, reg2, p2, mem2)
    BY <1>1, <1>4, <1>5, <1>18, <2>2, <2>3, <2>4, <2>0 DEF RegsAt, LockEffect, Holds, Remaining
  <2> QED BY <2>5, <2>6
<1>19. CASE p = 13
  <2>1. reg2 = reg /\ mem2 = Put(mem, 0, reg[0]) /\ p2 = 14
    BY <1>19, SMTT(60) DEF LockMove
  <2>2. reg2 = reg
    BY <2>1
  <2>3. mem2[0] = reg[0] /\ \A j \in 0 .. 18 : j # 0 => mem2[j] = mem[j] BY <1>3, <2>1
  <2>4. p2 = 14 BY <2>1
  <2>5. p2 \in 3 .. 19 /\ RegsAt(c, reg2, p2, mem2[0])
    BY <1>1, <1>4, <1>5, <1>19, <2>2, <2>3, <2>4 DEF RegsAt
  <2>6. LockEffect(c, reg, p, mem, reg2, p2, mem2)
    BY <1>1, <1>4, <1>5, <1>19, <2>2, <2>3, <2>4 DEF RegsAt, LockEffect, Holds, Remaining
  <2> QED BY <2>5, <2>6
<1>20. CASE p = 14
  <2>1. reg2 = Put(reg, 4, Signed(reg[4] - reg[1])) /\ mem2 = mem /\ p2 = 15
    BY <1>20, SMTT(60) DEF LockMove
  <2>0. Signed(reg[4] - reg[1]) = reg[4] - 1 /\ reg[4] \in 1 .. Rounds
    <3>1. reg[4] - reg[1] = reg[4] - 1 /\ reg[4] \in 1 .. Rounds BY <1>1, <1>20 DEF RegsAt
    <3>2. reg[4] - 1 \in 0 .. Rounds BY <1>4, <3>1
    <3>3. Signed(reg[4] - 1) = reg[4] - 1 BY <3>2, LockNumbers, SignedWord
    <3> QED BY <3>1, <3>3
  <2>7. PICK v : v = Signed(reg[4] - reg[1]) OBVIOUS
  <2>8. reg2 = Put(reg, 4, v) BY <2>1, <2>7, Zenon
  <2>9. reg2[0] = reg[0] /\ reg2[1] = reg[1] /\ reg2[4] = v /\ reg2[5] = reg[5] /\ reg2[8] = reg[8] /\ reg2[9] = reg[9] /\ reg2[10] = reg[10]
    BY <1>2, <2>8
  <2>2. reg2[0] = reg[0] /\ reg2[1] = reg[1] /\ reg2[4] = Signed(reg[4] - reg[1]) /\ reg2[5] = reg[5] /\ reg2[8] = reg[8] /\ reg2[9] = reg[9] /\ reg2[10] = reg[10]
    BY <2>7, <2>9
  <2>3. mem2 = mem BY <1>3, <2>1
  <2>4. p2 = 15 BY <2>1
  <2>5. p2 \in 3 .. 19 /\ RegsAt(c, reg2, p2, mem2[0])
    BY <1>1, <1>4, <1>5, <1>20, <2>2, <2>3, <2>4, <2>0 DEF RegsAt
  <2>6. LockEffect(c, reg, p, mem, reg2, p2, mem2)
    BY <1>1, <1>4, <1>5, <1>20, <2>2, <2>3, <2>4, <2>0 DEF RegsAt, LockEffect, Holds, Remaining
  <2> QED BY <2>5, <2>6
<1>21. CASE p = 15
  <2>1. reg2 = Put(reg, 9, -1) /\ mem2 = mem /\ p2 = 16
    BY <1>21, SMTT(60) DEF LockMove
  <2>2. reg2[0] = reg[0] /\ reg2[1] = reg[1] /\ reg2[4] = reg[4] /\ reg2[5] = reg[5] /\ reg2[8] = reg[8] /\ reg2[9] = -1 /\ reg2[10] = reg[10]
    BY <1>2, <2>1
  <2>3. mem2 = mem BY <1>3, <2>1
  <2>4. p2 = 16 BY <2>1
  <2>5. p2 \in 3 .. 19 /\ RegsAt(c, reg2, p2, mem2[0])
    BY <1>1, <1>4, <1>5, <1>21, <2>2, <2>3, <2>4 DEF RegsAt
  <2>6. LockEffect(c, reg, p, mem, reg2, p2, mem2)
    BY <1>1, <1>4, <1>5, <1>21, <2>2, <2>3, <2>4 DEF RegsAt, LockEffect, Holds, Remaining
  <2> QED BY <2>5, <2>6
<1>22. CASE p = 16
  <2>1. reg2 = reg /\ mem2 = Put(mem, 1, reg[9]) /\ p2 = 17
    BY <1>22, SMTT(60) DEF LockMove
  <2>2. reg2 = reg
    BY <2>1
  <2>3. mem2[1] = reg[9] /\ \A j \in 0 .. 18 : j # 1 => mem2[j] = mem[j] BY <1>3, <2>1
  <2>4. p2 = 17 BY <2>1
  <2>5. p2 \in 3 .. 19 /\ RegsAt(c, reg2, p2, mem2[0])
    BY <1>1, <1>4, <1>5, <1>22, <2>2, <2>3, <2>4 DEF RegsAt
  <2>6. LockEffect(c, reg, p, mem, reg2, p2, mem2)
    BY <1>1, <1>4, <1>5, <1>22, <2>2, <2>3, <2>4 DEF RegsAt, LockEffect, Holds, Remaining
  <2> QED BY <2>5, <2>6
<1>23. CASE p = 17 /\ reg[4] > reg[5]
  <2>1. reg2 = reg /\ mem2 = mem /\ p2 = 6
    BY <1>23, SMTT(60) DEF LockMove
  <2>2. reg2 = reg
    BY <2>1
  <2>3. mem2 = mem BY <1>3, <2>1
  <2>4. p2 = 6 BY <2>1
  <2>5. p2 \in 3 .. 19 /\ RegsAt(c, reg2, p2, mem2[0])
    BY <1>1, <1>4, <1>5, <1>23, <2>2, <2>3, <2>4 DEF RegsAt
  <2>6. LockEffect(c, reg, p, mem, reg2, p2, mem2)
    BY <1>1, <1>4, <1>5, <1>23, <2>2, <2>3, <2>4 DEF RegsAt, LockEffect, Holds, Remaining
  <2> QED BY <2>5, <2>6
<1>24. CASE p = 17 /\ ~(reg[4] > reg[5])
  <2>1. reg2 = reg /\ mem2 = mem /\ p2 = 18
    BY <1>24, SMTT(60) DEF LockMove
  <2>2. reg2 = reg
    BY <2>1
  <2>3. mem2 = mem BY <1>3, <2>1
  <2>4. p2 = 18 BY <2>1
  <2>5. p2 \in 3 .. 19 /\ RegsAt(c, reg2, p2, mem2[0])
    BY <1>1, <1>4, <1>5, <1>24, <2>2, <2>3, <2>4 DEF RegsAt
  <2>6. LockEffect(c, reg, p, mem, reg2, p2, mem2)
    BY <1>1, <1>4, <1>5, <1>24, <2>2, <2>3, <2>4 DEF RegsAt, LockEffect, Holds, Remaining
  <2> QED BY <2>5, <2>6
<1>25. CASE p = 18
  <2>1. reg2 = reg /\ mem2 = mem /\ p2 = 19
    BY <1>25, SMTT(60) DEF LockMove
  <2>2. reg2 = reg
    BY <2>1
  <2>3. mem2 = mem BY <1>3, <2>1
  <2>4. p2 = 19 BY <2>1
  <2>5. p2 \in 3 .. 19 /\ RegsAt(c, reg2, p2, mem2[0])
    BY <1>1, <1>4, <1>5, <1>25, <2>2, <2>3, <2>4 DEF RegsAt
  <2>6. LockEffect(c, reg, p, mem, reg2, p2, mem2)
    BY <1>1, <1>4, <1>5, <1>25, <2>2, <2>3, <2>4 DEF RegsAt, LockEffect, Holds, Remaining
  <2> QED BY <2>5, <2>6
<1> QED
  BY <1>6, <1>7, <1>8, <1>9, <1>10, <1>11, <1>12, <1>13, <1>14, <1>15, <1>16, <1>17, <1>18, <1>19, <1>20, <1>21, <1>22, <1>23, <1>24, <1>25

\* There are at most Rounds increments for each core.
LEMMA MadeFinite ==
    ASSUME LockConstants, NEW left
    PROVE  /\ IsFiniteSet(Made(left)) /\ Cardinality(Made(left)) \in Nat
           /\ Cardinality(Made(left)) <= MaxProcessors * Rounds
<1>1. MaxProcessors \in Nat /\ Rounds \in Nat BY VmAssumption DEF LockConstants
<1>2. IsFiniteSet(Core) /\ Cardinality(Core) = MaxProcessors
  <2>1. 0 \in Int /\ MaxProcessors - 1 \in Int BY <1>1
  <2>2. IsFiniteSet(0 .. MaxProcessors - 1)
        /\ Cardinality(0 .. MaxProcessors - 1) =
              IF 0 > MaxProcessors - 1 THEN 0 ELSE (MaxProcessors - 1) - 0 + 1
    BY <2>1, FS_Interval
  <2> QED BY <1>1, <2>2 DEF Core
<1>3. IsFiniteSet(1 .. Rounds) /\ Cardinality(1 .. Rounds) = Rounds
  <2>1. 1 \in Int /\ Rounds \in Int BY <1>1
  <2>2. IsFiniteSet(1 .. Rounds)
        /\ Cardinality(1 .. Rounds) = IF 1 > Rounds THEN 0 ELSE Rounds - 1 + 1
    BY <2>1, FS_Interval
  <2> QED BY <1>1, <2>2
<1>4. /\ IsFiniteSet(Core \X (1 .. Rounds))
      /\ Cardinality(Core \X (1 .. Rounds)) = MaxProcessors * Rounds
  BY <1>2, <1>3, FS_Product
<1>5. Made(left) \in SUBSET (Core \X (1 .. Rounds)) BY DEF Made
<1> QED BY <1>4, <1>5, FS_Subset, FS_CardinalityType

\* One more increment of core c.
LEMMA MadeMore ==
    ASSUME LockConstants, NEW left \in [Core -> 0 .. Rounds], NEW c \in Core, left[c] >= 1,
           NEW left2, left2 = [left EXCEPT ![c] = @ - 1]
    PROVE  /\ Cardinality(Made(left2)) = Cardinality(Made(left)) + 1
           /\ Cardinality(Made(left)) + 1 <= MaxProcessors * Rounds
<1> DEFINE new == <<c, left[c]>>
<1>1. Rounds \in Nat BY DEF LockConstants
<1>2. left[c] \in 1 .. Rounds BY <1>1
<1>3. new \in Core \X (1 .. Rounds) BY <1>2
<1>4. new \notin Made(left) BY <1>2 DEF Made
<1>5. Made(left2) = Made(left) \union {new}
  <2>1. left2[c] = left[c] - 1 /\ \A d \in Core : d # c => left2[d] = left[d] OBVIOUS
  <2>2. ASSUME NEW d \in Core, NEW k \in 1 .. Rounds
        PROVE  <<d, k>> \in Made(left2) <=> <<d, k>> \in Made(left) \union {new}
    <3>1. (<<d, k>> \in Made(left2) <=> k > left2[d]) /\ (<<d, k>> \in Made(left) <=> k > left[d])
      BY DEF Made
    <3>2. CASE d = c
      <4>1. k > left2[c] <=> k > left[c] \/ k = left[c] BY <1>1, <1>2, <2>1
      <4> QED BY <3>1, <3>2, <4>1
    <3>3. CASE d # c BY <2>1, <3>1, <3>3
    <3> QED BY <3>2, <3>3
  <2>3. /\ Made(left2) \subseteq Core \X (1 .. Rounds)
        /\ Made(left) \union {new} \subseteq Core \X (1 .. Rounds)
    BY <1>3 DEF Made
  <2>4. ASSUME NEW m \in Core \X (1 .. Rounds)
        PROVE  m \in Made(left2) <=> m \in Made(left) \union {new}
    <3>1. PICK d \in Core, k \in 1 .. Rounds : m = <<d, k>> OBVIOUS
    <3> HIDE DEF new
    <3> QED BY <2>2, <3>1
  <2>5. PICK all, old, now : /\ all = Core \X (1 .. Rounds) /\ now = Made(left2)
                             /\ old = Made(left) \union {new}
    OBVIOUS
  <2> HIDE DEF new
  <2>6. now \subseteq all /\ old \subseteq all /\ \A m \in all : m \in now <=> m \in old
    BY <2>3, <2>4, <2>5, Zenon
  <2>7. now = old BY <2>6
  <2> QED BY <2>5, <2>7
<1> HIDE DEF new
<1>6. IsFiniteSet(Made(left)) BY MadeFinite
<1>7. Cardinality(Made(left) \union {new}) = Cardinality(Made(left)) + 1
  BY <1>4, <1>6, FS_AddElement
<1>8. Cardinality(Made(left2)) <= MaxProcessors * Rounds BY MadeFinite
<1> QED BY <1>5, <1>7, <1>8

\* The increments left, by the places of the cores.
LEMMA LeftType ==
    ASSUME LockConstants, \A c \in Core : CoreLock(c)
    PROVE  /\ LeftNow \in [Core -> 0 .. Rounds]
           /\ \A c \in Core : LeftNow[c] = IF Runs(c) THEN Remaining(cpu[c].reg, GoesOnAt(c))
                                           ELSE Rounds
<1>1. Rounds \in Nat \ {0} BY LockNumbers
<1>2. \A c \in Core : LeftNow[c] = IF Runs(c) THEN Remaining(cpu[c].reg, GoesOnAt(c)) ELSE Rounds
  BY DEF LeftNow, Left, Runs, Remaining, Reg
<1>3. ASSUME NEW c \in Core, Runs(c) PROVE Remaining(cpu[c].reg, GoesOnAt(c)) \in 0 .. Rounds
  <2>1. PICK reg, p : reg = cpu[c].reg /\ p = GoesOnAt(c) OBVIOUS
  <2>2. p \in 2 .. 19 /\ RegsAt(c, reg, p, memory[0]) BY <1>3, <2>1 DEF CoreLock, PlaceOK
  <2>3. Remaining(reg, p) \in 0 .. Rounds BY <1>1, <2>2 DEF RegsAt, Remaining
  <2> QED BY <2>1, <2>3
<1>4. \A c \in Core : LeftNow[c] \in 0 .. Rounds BY <1>1, <1>2, <1>3
<1> QED BY <1>2, <1>4 DEF LeftNow

\* What a step does to the counter: core c adds one to it, or nobody does.
AddsOne(c) ==
    /\ memory'[0] = memory[0] + 1 /\ LeftNow[c] >= 1
    /\ LeftNow' = [LeftNow EXCEPT ![c] = @ - 1]
AddsNone == memory'[0] = memory[0] /\ LeftNow' = LeftNow

\* An instruction keeps the invariant, and adds to the counter only where the
\* program stores it.
LEMMA InstructionLock ==
    ASSUME LockConstants, MachineInv, LockInv, LockLoaded, NEW c \in Core, executeInstruction(c)
    PROVE  LockInv' /\ (AddsOne(c) \/ AddsNone)
<1>1. cpu[c].state = "execute" BY ByOp
<1>2. CodeInPlace /\ (\A d \in Core : CoreLock(d)) /\ OwnerInWord /\ Counted BY DEF LockInv
<1>3. Moves(c) BY LockDecode
<1>4. PICK reg2 \in Registers, mem2 \in Memories, p2 \in Words :
        /\ LockMove(c, reg2, mem2, p2)
        /\ Retire(c, reg2, mem2, p2, IF p2 = 19 THEN NORMAL_TERMINATION ELSE Working)
  BY <1>3 DEF Moves
<1>5. MachineConstants BY LockNumbers
<1>6. PICK code : code = IF p2 = 19 THEN NORMAL_TERMINATION ELSE Working OBVIOUS
<1>7. code \in Statuses /\ (code = Working <=> p2 # 19)
  BY <1>6 DEF Statuses, Working, NORMAL_TERMINATION
<1>8. /\ memory' = mem2 /\ vm' = vm
      /\ \A d \in Core : d # c => cpu'[d] = cpu[d]
      /\ \A r \in 0 .. 14 : cpu'[c].reg[r] = reg2[r]
      /\ GoesOnAt(c)' = p2 /\ cpu'[c].status = code
      /\ cpu'[c].state \in {"trace", "fetch", "ended"}
      /\ cpu'[c].state = "fetch" => code = Working
      /\ cpu'[c].state = "ended" => code # Working
  <2>1. Retire(c, reg2, mem2, p2, code) BY <1>4, <1>6
  <2>2. Retired(c, reg2, mem2, p2, code) BY <1>1, <1>5, <1>7, <2>1, RetireView
  <2> QED BY <2>2 DEF Retired
<1>9. PICK reg, mem, p : reg = cpu[c].reg /\ mem = memory /\ p = GoesOnAt(c) OBVIOUS
<1>10. Runs(c) /\ p \in 2 .. 18 /\ RegsAt(c, reg, p, mem[0])
  <2>1. Runs(c) BY <1>1 DEF Runs
  <2>2. PlaceOK(c) /\ RegsAt(c, cpu[c].reg, GoesOnAt(c), memory[0]) BY <1>2, <2>1 DEF CoreLock
  <2>3. GoesOnAt(c) \in 2 .. 19 /\ GoesOnAt(c) <= 18 BY <1>1, <2>2 DEF PlaceOK
  <2> QED BY <1>9, <2>1, <2>2, <2>3
<1>11. reg \in Registers /\ mem \in Memories BY <1>1, <1>5, <1>9, CoreFacts
<1>12. /\ LeftNow \in [Core -> 0 .. Rounds] /\ LeftNow[c] = Remaining(reg, p)
       /\ \A d \in Core : LeftNow[d] = IF Runs(d) THEN Remaining(cpu[d].reg, GoesOnAt(d)) ELSE Rounds
  BY <1>2, <1>9, <1>10, LeftType
<1>13. mem[0] = Cardinality(Made(LeftNow)) BY <1>2, <1>9 DEF Counted
<1>14. p = 12 => mem[0] + 1 \in Words
  <2> SUFFICES ASSUME p = 12 PROVE mem[0] + 1 \in Words OBVIOUS
  <2>1. LeftNow[c] >= 1 BY <1>10, <1>12, LockNumbers DEF RegsAt, Remaining
  <2>2. PICK left, left2 : left = LeftNow /\ left2 = [left EXCEPT ![c] = @ - 1] OBVIOUS
  <2>3. left \in [Core -> 0 .. Rounds] /\ left[c] >= 1 BY <1>12, <2>1, <2>2
  <2>4. Cardinality(Made(left)) + 1 <= MaxProcessors * Rounds BY <2>2, <2>3, MadeMore
  <2>5. Cardinality(Made(left)) \in Nat BY MadeFinite
  <2>6. PICK t : t = MaxProcessors * Rounds OBVIOUS
  <2>7. t \in Nat /\ t < Half /\ Half \in Nat
    BY <1>5, <2>6, Powers, LockNumbers, VmAssumption, SMT DEF LockConstants, MachineConstants
  <2>8. mem[0] \in Nat /\ mem[0] + 1 <= t BY <1>13, <2>2, <2>4, <2>5, <2>6
  <2> QED BY <2>7, <2>8 DEF Words
<1>15. /\ p2 \in 3 .. 19 /\ RegsAt(c, reg2, p2, mem2[0])
       /\ LockEffect(c, reg, p, mem, reg2, p2, mem2)
  BY <1>4, <1>9, <1>10, <1>11, <1>14, MoveLocal
<1>16. PICK regn : regn = cpu'[c].reg OBVIOUS
<1>17. /\ RegsAt(c, regn, p2, mem2[0]) /\ (Holds(regn, p2) <=> Holds(reg2, p2))
       /\ Remaining(regn, p2) = Remaining(reg2, p2)
  <2>1. /\ regn[0] = reg2[0] /\ regn[1] = reg2[1] /\ regn[4] = reg2[4] /\ regn[5] = reg2[5]
        /\ regn[8] = reg2[8] /\ regn[9] = reg2[9] /\ regn[10] = reg2[10]
    BY <1>8, <1>16
  <2> QED BY <1>15, <2>1 DEF RegsAt, Holds, Remaining
<1>18. Runs(c)' /\ GoesOnAt(c)' = p2 BY <1>8 DEF Runs
<1>19. CoreLock(c)'
  <2>1. PlaceOK(c)' BY <1>7, <1>8, <1>15 DEF PlaceOK
  <2>2. RegsAt(c, cpu'[c].reg, GoesOnAt(c)', memory'[0]) BY <1>8, <1>16, <1>17
  <2> QED BY <1>8, <2>1, <2>2 DEF CoreLock
<1>20. \A d \in Core : d # c => /\ Runs(d)' <=> Runs(d)
                                /\ GoesOnAt(d)' = GoesOnAt(d)
                                /\ Owner(d)' <=> Owner(d)
  BY <1>8 DEF Runs, GoesOnAt, Owner, Reg
<1>21. Owner(c) <=> Holds(reg, p) BY <1>9, <1>10 DEF Owner
<1>22. Owner(c)' <=> Holds(reg2, p2) BY <1>16, <1>17, <1>18 DEF Owner
<1>23. \A d \in Core : Owner(d) <=> mem[1] = d BY <1>2, <1>9 DEF OwnerInWord
<1>24. ASSUME NEW d \in Core, d # c PROVE CoreLock(d)'
  <2>1. cpu'[d] = cpu[d] BY <1>8, <1>24
  <2>2. CASE Runs(d)
    <3>1. PlaceOK(d) /\ RegsAt(d, cpu[d].reg, GoesOnAt(d), mem[0]) BY <1>2, <1>9, <2>2 DEF CoreLock
    <3>2. PICK regd, q : regd = cpu[d].reg /\ q = GoesOnAt(d) OBVIOUS
    <3>3. PlaceOK(d)' BY <1>20, <1>24, <2>1, <3>1 DEF PlaceOK, Word
    <3>4. RegsAt(d, regd, q, mem2[0])
      <4>1. CASE mem2[0] = mem[0] BY <3>1, <3>2, <4>1
      <4>2. CASE mem2[0] # mem[0]
        <5>1. p = 13 BY <1>15, <4>2 DEF LockEffect
        <5>2. mem[1] = c BY <1>21, <1>23, <5>1 DEF Holds
        <5>3. ~Holds(regd, q) BY <1>23, <1>24, <2>2, <3>2, <5>2 DEF Owner
        <5>4. q # 12 /\ q # 13 BY <5>3 DEF Holds
        <5> QED BY <3>1, <3>2, <5>4 DEF RegsAt
      <4> QED BY <4>1, <4>2
    <3>5. RegsAt(d, cpu'[d].reg, GoesOnAt(d)', memory'[0]) BY <1>8, <1>20, <1>24, <2>1, <3>2, <3>4
    <3> QED BY <2>1, <2>2, <3>3, <3>5 DEF CoreLock, Runs
  <2>3. CASE ~Runs(d) BY <1>2, <2>1, <2>3 DEF CoreLock, Runs
  <2> QED BY <2>2, <2>3
<1>25. CodeInPlace'
  <2>1. \A a \in 2 .. 18 : mem2[a] = mem[a] BY <1>15 DEF LockEffect
  <2> QED BY <1>2, <1>8, <1>9, <2>1 DEF CodeInPlace
<1>26. OwnerInWord'
  <2>1. mem2[1] \in Core \union {-1} /\ \A d \in Core : Owner(d)' <=> mem2[1] = d
    <3>1. mem[1] \in Core \union {-1} BY <1>2, <1>9 DEF OwnerInWord
    <3>2. -1 \notin Core BY LockNumbers
    <3>3. CASE mem[1] = -1 /\ mem2[1] = c /\ ~Holds(reg, p) /\ Holds(reg2, p2)
      BY <1>20, <1>22, <1>23, <3>2, <3>3
    <3>4. CASE mem2[1] = -1 /\ Holds(reg, p) /\ ~Holds(reg2, p2)
      BY <1>20, <1>21, <1>22, <1>23, <3>2, <3>4
    <3>5. CASE mem2[1] = mem[1] /\ (Holds(reg2, p2) <=> Holds(reg, p))
      BY <1>20, <1>21, <1>22, <1>23, <3>1, <3>5
    <3> QED BY <1>15, <3>3, <3>4, <3>5 DEF LockEffect
  <2> QED BY <1>8, <2>1 DEF OwnerInWord
<1>27. /\ LeftNow' = [d \in Core |-> Left(d)'] /\ Left(c)' = Remaining(reg2, p2)
       /\ \A d \in Core : d # c => Left(d)' = LeftNow[d]
  <2>1. LeftNow' = [d \in Core |-> Left(d)'] BY DEF LeftNow
  <2>2. \A d \in Core : d # c => Left(d)' = Left(d) BY <1>8 DEF Left, GoesOnAt, Reg
  <2>3. Left(c)' = Remaining(regn, p2)
    BY <1>16, <1>18 DEF Left, Remaining, Runs, Reg
  <2> QED BY <1>17, <2>1, <2>2, <2>3 DEF LeftNow
<1>28. CASE p = 13
  <2>1. /\ mem2[0] = mem[0] + 1 /\ Remaining(reg, p) \in 1 .. Rounds
        /\ Remaining(reg2, p2) = Remaining(reg, p) - 1
    BY <1>15, <1>28 DEF LockEffect
  <2>2. LeftNow' = [LeftNow EXCEPT ![c] = @ - 1] BY <1>12, <1>27, <2>1
  <2>3. LeftNow[c] >= 1 BY <1>12, <2>1, LockNumbers
  <2>4. AddsOne(c) BY <1>8, <1>9, <2>1, <2>2, <2>3 DEF AddsOne
  <2>5. PICK left, left2 : left = LeftNow /\ left2 = [left EXCEPT ![c] = @ - 1] OBVIOUS
  <2>6. left \in [Core -> 0 .. Rounds] /\ left[c] >= 1 /\ left2 = LeftNow' BY <1>12, <2>2, <2>3, <2>5
  <2>7. Cardinality(Made(left2)) = Cardinality(Made(left)) + 1 BY <2>5, <2>6, MadeMore
  <2>8. memory'[0] = Cardinality(Made(LeftNow')) BY <1>8, <1>13, <2>1, <2>5, <2>6, <2>7
  <2>9. Counted' BY <2>8 DEF Counted, Made
  <2> QED BY <1>2, <1>19, <1>24, <1>25, <1>26, <2>4, <2>9 DEF LockInv
<1>29. CASE p # 13
  <2>1. mem2[0] = mem[0] /\ Remaining(reg2, p2) = Remaining(reg, p) BY <1>15, <1>29 DEF LockEffect
  <2>2. LeftNow' = LeftNow BY <1>12, <1>27, <2>1
  <2>3. AddsNone BY <1>8, <1>9, <2>1, <2>2 DEF AddsNone
  <2>4. memory'[0] = Cardinality(Made(LeftNow')) BY <1>8, <1>13, <2>1, <2>2
  <2>5. Counted' BY <2>4 DEF Counted, Made
  <2> QED BY <1>2, <1>19, <1>24, <1>25, <1>26, <2>3, <2>5 DEF LockInv
<1> QED BY <1>28, <1>29

\* A step that leaves memory alone, and every core where it is.
LEMMA QuietStep ==
    ASSUME LockInv, LockLoaded, memory' = memory, vm'.entryPoint = vm.entryPoint,
           \A d \in Core : CoreLock(d)' /\ (Owner(d)' <=> Owner(d)) /\ Left(d)' = Left(d)
    PROVE  LockInv' /\ AddsNone
<1>1. CodeInPlace /\ OwnerInWord /\ Counted BY DEF LockInv
<1>2. LeftNow' = LeftNow BY DEF LeftNow
<1>3. CodeInPlace' BY <1>1 DEF CodeInPlace
<1>4. OwnerInWord' BY <1>1 DEF OwnerInWord
<1>5. Counted' BY <1>1, <1>2 DEF Counted, Made
<1>6. AddsNone BY <1>2 DEF AddsNone
<1> QED BY <1>3, <1>4, <1>5, <1>6 DEF LockInv

\* The steps that change no core.
LEMMA SameCores ==
    ASSUME LockInv, LockLoaded, UNCHANGED <<memory, cpu>>, vm'.entryPoint = vm.entryPoint
    PROVE  LockInv' /\ AddsNone
<1>1. \A d \in Core : CoreLock(d) BY DEF LockInv
<1>2. \A d \in Core : CoreLock(d)' /\ (Owner(d)' <=> Owner(d)) /\ Left(d)' = Left(d)
  BY <1>1 DEF CoreLock, Owner, Left, Runs, PlaceOK, GoesOnAt, Reg, Word
<1> QED BY <1>2, QuietStep

\* The steps of one core that change only its record.
LEMMA OneCore ==
    ASSUME LockInv, LockLoaded, NEW c \in Core, memory' = memory, vm'.entryPoint = vm.entryPoint,
           \A d \in Core : d # c => cpu'[d] = cpu[d],
           CoreLock(c)', Owner(c)' <=> Owner(c), Left(c)' = Left(c)
    PROVE  LockInv' /\ AddsNone
<1>1. \A d \in Core : CoreLock(d) BY DEF LockInv
<1>2. \A d \in Core : d # c => CoreLock(d)' /\ (Owner(d)' <=> Owner(d)) /\ Left(d)' = Left(d)
  BY <1>1 DEF CoreLock, Owner, Left, Runs, PlaceOK, GoesOnAt, Reg, Word
<1>3. \A d \in Core : CoreLock(d)' /\ (Owner(d)' <=> Owner(d)) /\ Left(d)' = Left(d) BY <1>2
<1> QED BY <1>3, QuietStep

\* A core starts at the program's first instruction.
LEMMA StartLock ==
    ASSUME LockConstants, MachineInv, LockInv, LockLoaded, NEW c \in Core, startCore(c)
    PROVE  LockInv' /\ AddsNone
<1>1. vm.entryPoint = 2 /\ CoreLock(c) BY DEF LockInv, CodeInPlace
<1>2. cpu[c].state = "start" /\ UNCHANGED <<memory, vm>> BY DEF startCore
<1>3. cpu \in [Core -> CoreRecords] /\ cpu[c] \in CoreRecords BY DEF MachineInv, CoresTyped
<1>4. /\ cpu'[c].state = "fetch" /\ cpu'[c].status = cpu[c].status
      /\ cpu'[c].reg = [cpu[c].reg EXCEPT ![PC] = vm.entryPoint]
      /\ \A d \in Core : d # c => cpu'[d] = cpu[d]
  BY <1>3 DEF startCore, CoreRecords
<1>5. cpu'[c].reg[PC] = 2 /\ cpu'[c].reg[5] = cpu[c].reg[5]
  BY <1>1, <1>3, <1>4 DEF CoreRecords, Registers, PC
<1>6. GoesOnAt(c)' = 2 /\ Runs(c)' /\ ~Runs(c) BY <1>2, <1>4, <1>5 DEF GoesOnAt, Reg, Runs
<1>7. cpu[c].reg[5] = 0 /\ cpu[c].status = Working BY <1>1, <1>2 DEF CoreLock
<1>8. RegsAt(c, cpu'[c].reg, 2, memory'[0]) BY <1>5, <1>7 DEF RegsAt
<1>9. PlaceOK(c)' BY <1>4, <1>6, <1>7 DEF PlaceOK
<1>10. CoreLock(c)' BY <1>4, <1>6, <1>8, <1>9 DEF CoreLock
<1>11. Owner(c)' <=> Owner(c) BY <1>6 DEF Owner, Holds
<1>12. Left(c)' = Left(c) BY <1>2, <1>6 DEF Left
<1>13. vm'.entryPoint = vm.entryPoint BY <1>2
<1> QED BY <1>2, <1>4, <1>10, <1>11, <1>12, <1>13, OneCore

\* A core fetches the word of the program it is at.
LEMMA FetchLock ==
    ASSUME LockConstants, MachineInv, LockInv, LockLoaded, NEW c \in Core, fetch(c)
    PROVE  LockInv' /\ AddsNone
<1>1. CoreLock(c) /\ \A a \in 2 .. 18 : memory[a] = LockCode[a + 1] BY DEF LockInv, CodeInPlace
<1>2. cpu[c].state = "fetch" /\ UNCHANGED <<memory, vm>> BY DEF fetch
<1>3. CASE UNCHANGED cpu BY <1>2, <1>3, SameCores
<1>4. CASE ~UNCHANGED cpu
  <2>1. cpu \in [Core -> CoreRecords] /\ cpu[c] \in CoreRecords BY DEF MachineInv, CoresTyped
  <2>2. PICK p : p = cpu[c].reg[PC] OBVIOUS
  <2>3. GoesOnAt(c) = p /\ Runs(c) BY <1>2, <2>2 DEF GoesOnAt, Reg, Runs
  <2>4. /\ p \in 2 .. 18 /\ cpu[c].status = Working /\ RegsAt(c, cpu[c].reg, p, memory[0])
    BY <1>1, <1>2, <2>3 DEF CoreLock, PlaceOK
  <2>5. Unsigned(p) = p /\ p < MemSize
    <3>1. MachineConstants /\ p \in 0 .. MemSize /\ p < MemSize BY <2>4, LockNumbers
    <3> QED BY <3>1, UnsignedWord
  <2>6. cpu' = [cpu EXCEPT ![c].ir = memory[p], ![c].state = "execute"]
    <3>1. ~(Unsigned(cpu[c].reg[PC]) >= MemSize) BY <2>2, <2>4, <2>5, LockNumbers
    <3> QED BY <1>4, <2>2, <2>5, <3>1 DEF fetch, Reg
  <2>7. /\ cpu'[c].state = "execute" /\ cpu'[c].status = cpu[c].status /\ cpu'[c].ir = memory[p]
        /\ cpu'[c].reg = cpu[c].reg /\ \A d \in Core : d # c => cpu'[d] = cpu[d]
    BY <2>1, <2>6 DEF CoreRecords
  <2>8. GoesOnAt(c)' = p /\ Runs(c)' BY <2>2, <2>7 DEF GoesOnAt, Reg, Runs
  <2>9. PlaceOK(c)' BY <1>1, <2>4, <2>7, <2>8 DEF PlaceOK, Word
  <2>10. CoreLock(c)' BY <1>2, <2>4, <2>7, <2>8, <2>9 DEF CoreLock
  <2>11. Owner(c)' <=> Owner(c) BY <2>3, <2>7, <2>8 DEF Owner
  <2>12. Left(c)' = Left(c) BY <1>2, <2>3, <2>7, <2>8 DEF Left, Reg
  <2>13. vm'.entryPoint = vm.entryPoint BY <1>2
  <2> QED BY <1>2, <2>7, <2>10, <2>11, <2>12, <2>13, OneCore
<1> QED BY <1>3, <1>4

\* After its trace a core is where it was to go on.
LEMMA TraceLock ==
    ASSUME LockConstants, MachineInv, LockInv, LockLoaded, NEW c \in Core, printTrace(c)
    PROVE  LockInv' /\ AddsNone
<1>1. CoreLock(c) BY DEF LockInv
<1>2. cpu[c].state = "trace" /\ UNCHANGED <<memory, vm>> BY DEF printTrace
<1>3. cpu \in [Core -> CoreRecords] /\ cpu[c] \in CoreRecords BY DEF MachineInv, CoresTyped
<1>4. PICK p : p = cpu[c].next OBVIOUS
<1>5. GoesOnAt(c) = p /\ Runs(c) BY <1>2, <1>4 DEF GoesOnAt, Runs
<1>6. /\ p \in 2 .. 19 /\ (p = 19 <=> cpu[c].status # Working)
      /\ RegsAt(c, cpu[c].reg, p, memory[0])
  BY <1>1, <1>2, <1>5 DEF CoreLock, PlaceOK
<1>7. Signed(p) = p
  <2>1. MachineConstants /\ p \in Words BY <1>6, LockNumbers
  <2> QED BY <2>1, SignedWord
<1>8. PICK core : core = AfterPC(cpu[c], p) OBVIOUS
<1>9. /\ core.state = IF cpu[c].status = Working THEN "fetch" ELSE "ended"
      /\ core.status = cpu[c].status /\ core.reg = [cpu[c].reg EXCEPT ![PC] = p]
  BY <1>3, <1>7, <1>8 DEF AfterPC, CoreRecords
<1>10. cpu'[c] = core /\ \A d \in Core : d # c => cpu'[d] = cpu[d]
  BY <1>3, <1>4, <1>8 DEF printTrace
<1>11. cpu'[c].reg[PC] = p /\ \A r \in 0 .. 14 : cpu'[c].reg[r] = cpu[c].reg[r]
  BY <1>3, <1>9, <1>10 DEF CoreRecords, Registers, PC
<1>12. GoesOnAt(c)' = p /\ Runs(c)' BY <1>9, <1>10, <1>11 DEF GoesOnAt, Reg, Runs
<1>13. PICK reg, regn : reg = cpu[c].reg /\ regn = cpu'[c].reg OBVIOUS
<1>14. /\ regn[0] = reg[0] /\ regn[1] = reg[1] /\ regn[4] = reg[4] /\ regn[5] = reg[5]
       /\ regn[8] = reg[8] /\ regn[9] = reg[9] /\ regn[10] = reg[10]
  BY <1>11, <1>13
<1>15. RegsAt(c, regn, p, memory'[0]) BY <1>2, <1>6, <1>13, <1>14 DEF RegsAt
<1>16. PlaceOK(c)' BY <1>6, <1>9, <1>10, <1>12 DEF PlaceOK
<1>17. CoreLock(c)' BY <1>9, <1>10, <1>12, <1>13, <1>15, <1>16 DEF CoreLock
<1>18. Owner(c)' <=> Owner(c) BY <1>5, <1>12, <1>13, <1>14 DEF Owner, Holds
<1>19. Left(c)' = Left(c)
  <2>1. Left(c) = Remaining(reg, p) BY <1>5, <1>13 DEF Left, Reg, Runs, Remaining
  <2>2. Left(c)' = Remaining(regn, p) BY <1>12, <1>13 DEF Left, Reg, Runs, Remaining
  <2> QED BY <1>14, <2>1, <2>2 DEF Remaining
<1>20. vm'.entryPoint = vm.entryPoint BY <1>2
<1> QED BY <1>2, <1>10, <1>17, <1>18, <1>19, <1>20, OneCore

\* A core that has just been created has not yet entered the program.
LEMMA CreateLock ==
    ASSUME LockConstants, MachineInv, LockInv, LockLoaded, createCore
    PROVE  LockInv' /\ AddsNone
<1>1. UNCHANGED <<memory, vm>> BY DEF createCore
<1>2. vm'.entryPoint = vm.entryPoint BY <1>1
<1>3. CASE UNCHANGED cpu BY <1>1, <1>2, <1>3, SameCores
<1>4. CASE ~UNCHANGED cpu
  <2>1. PICK c : c = main.i OBVIOUS
  <2>2. PICK stack : stack = main.stacks[c + 1] OBVIOUS
  <2>3. PICK core : core = [NoCore EXCEPT !.stack = stack, !.reg[SP] = Signed(stack),
                                          !.status = Working, !.state = "start"]
    OBVIOUS
  <2>4. cpu' = [cpu EXCEPT ![c] = core] BY <1>4, <2>1, <2>2, <2>3 DEF createCore
  <2>5. core.state = "start" /\ core.status = Working /\ core.reg[5] = 0
    <3>1. core.reg = [NoCore.reg EXCEPT ![SP] = Signed(stack)] /\ core.state = "start"
          /\ core.status = Working
      BY <2>3 DEF NoCore
    <3> QED BY <3>1 DEF NoCore, SP
  <2>6. c \in Core /\ cpu[c].state = "none"
    <3>1. main.i \in Nat /\ main.i < vm.numProcessors /\ vm.numProcessors \in 0 .. MaxProcessors
      BY DEF createCore, MachineInv, VmTyped, OthersTyped
    <3>2. c \in Core /\ c >= main.i BY <2>1, <3>1, VmAssumption DEF Core
    <3> QED BY <2>1, <3>2 DEF createCore, MachineInv, NoneYet
  <2>7. cpu'[c] = core /\ \A d \in Core : d # c => cpu'[d] = cpu[d]
    BY <2>4, <2>6 DEF MachineInv, CoresTyped
  <2>8. ~Runs(c)' /\ ~Runs(c) BY <2>5, <2>6, <2>7 DEF Runs
  <2>9. CoreLock(c)' BY <2>5, <2>7, <2>8 DEF CoreLock
  <2>10. Owner(c)' <=> Owner(c) BY <2>8 DEF Owner
  <2>11. Left(c)' = Left(c) BY <2>5, <2>6, <2>7 DEF Left
  <2> QED BY <1>1, <1>2, <2>6, <2>7, <2>9, <2>10, <2>11, OneCore
<1> QED BY <1>3, <1>4

\* The file of the program.
LEMMA LockFileFacts ==
    ASSUME LockConstants
    PROVE  /\ LockFile.length = 19 /\ LockFile.code = LockCode
           /\ Mains(LockFile) # {} /\ LockFile.insymbols[Min(Mains(LockFile))].address = 2
<1>1. Len(LockCode) = 19 BY LockWords DEF LockConstants
<1>2. PICK code : code = LockCode OBVIOUS
<1>3. PICK ins : ins = <<Sym("count", 0), Sym("mainx20", 2)>> OBVIOUS
<1>4. LockFile.length = Len(code) /\ LockFile.code = code /\ LockFile.insymbols = ins
  BY <1>2, <1>3 DEF LockFile, File
<1>5. DOMAIN ins = 1 .. 2 /\ ins[1].name # "mainx20" /\ ins[2].name = "mainx20" /\ ins[2].address = 2
  BY <1>3 DEF Sym
<1>6. Mains(LockFile) = {2} BY <1>4, <1>5 DEF Mains
<1>7. Min({2}) = 2
  <2>1. {2} \in SUBSET Nat OBVIOUS
  <2> QED BY <2>1, MinIsLeast
<1> QED BY <1>1, <1>2, <1>4, <1>5, <1>6, <1>7

\* The program as loadExecutableFile leaves it: nothing counted, no core.
JustLoaded == memory'[0] = 0 /\ LeftNow' = [c \in Core |-> Rounds]

\* loadExecutableFile establishes the invariant.
LEMMA LoadLock ==
    ASSUME LockConstants, MachineInv, NEW f \in Files, loadExecutableFile(f), LockLoaded'
    PROVE  ~LockLoaded /\ LockInv' /\ JustLoaded
<1> DEFINE read == Min({f.length, Len(f.code)})
<1>1. vm.phase \in {"none", "ready"} /\ UNCHANGED <<cpu, main, freed>>
  BY DEF loadExecutableFile, Idle, NullHandle
<1>2. vm'.phase \notin {"none", "ready"} /\ vm'.progEnd = 19 BY DEF LockLoaded
<1>3. vm' # vm BY <1>1, <1>2
<1>4. /\ Idle("ready")
      /\ memory' = [a \in DOMAIN memory |-> IF a < read THEN f.code[a + 1] ELSE memory[a]]
      /\ \/ vm' = [vm EXCEPT !.progEnd = read]
         \/ /\ read = f.length
            /\ vm' = [vm EXCEPT !.progEnd = read,
                                !.phase = IF OneMain(f) THEN "loaded" ELSE @,
                                !.symbols = SymbolsAfter(f),
                                !.entryPoint = IF Mains(f) = {} THEN @
                                    ELSE f.insymbols[Min(Mains(f))].address]
  BY <1>3 DEF loadExecutableFile
<1> HIDE DEF read
<1>5. vm' # [vm EXCEPT !.progEnd = read] BY <1>1, <1>2 DEF MachineInv, VmTyped
<1>6. /\ read = f.length /\ vm'.progEnd = read
      /\ vm'.entryPoint = IF Mains(f) = {} THEN vm.entryPoint
                          ELSE f.insymbols[Min(Mains(f))].address
  BY <1>4, <1>5 DEF MachineInv, VmTyped
<1>7. f = LockFile /\ read = 19 BY <1>2, <1>6 DEF LockConstants
<1>8. vm'.entryPoint = 2 /\ f.code = LockCode BY <1>6, <1>7, LockFileFacts
<1>9. \A a \in 0 .. 18 : memory'[a] = LockCode[a + 1]
  <2>1. DOMAIN memory = 0 .. MemSize - 1 BY <1>4 DEF Idle, MachineInv, MemoryTyped, Memories
  <2>2. \A a \in 0 .. 18 : a \in 0 .. MemSize - 1 /\ a < 19 BY LockNumbers
  <2> QED BY <1>4, <1>7, <1>8, <2>1, <2>2
<1>10. CodeInPlace' BY <1>8, <1>9 DEF CodeInPlace
<1>11. memory'[0] = 0 /\ memory'[1] = -1
  <2>1. LockCode[1] = 0 /\ LockCode[2] = -1 BY LockWords DEF LockConstants
  <2>2. 0 \in 0 .. 18 /\ 1 \in 0 .. 18 /\ 0 + 1 = 1 /\ 1 + 1 = 2 OBVIOUS
  <2> QED BY <1>9, <2>1, <2>2
<1>12. \A c \in Core : cpu'[c].state = "none" BY <1>1 DEF MachineInv, NoneYet
<1>13. \A c \in Core : ~Runs(c)' BY <1>12 DEF Runs
<1>14. \A c \in Core : CoreLock(c)' BY <1>12, <1>13 DEF CoreLock
<1>15. OwnerInWord'
  <2>1. \A c \in Core : c # -1 BY LockNumbers
  <2> QED BY <1>11, <1>13, <2>1 DEF OwnerInWord, Owner
<1>16. LeftNow' = [c \in Core |-> Rounds]
  <2>1. \A c \in Core : Left(c)' = Rounds BY <1>12 DEF Left
  <2> QED BY <2>1 DEF LeftNow
<1>17. Counted'
  <2>1. PICK left : left = [c \in Core |-> Rounds] OBVIOUS
  <2>2. Made(left) = {} BY <2>1, LockNumbers DEF Made
  <2>3. Cardinality(Made(left)) = 0 BY <2>2, FS_EmptySet
  <2>4. memory'[0] = Cardinality(Made(LeftNow')) BY <1>11, <1>16, <2>1, <2>3
  <2> QED BY <2>4 DEF Counted, Made
<1>18. LockInv' BY <1>10, <1>14, <1>15, <1>17 DEF LockInv
<1> QED BY <1>1, <1>11, <1>16, <1>18 DEF LockLoaded, JustLoaded

\* A step that loads nothing.
SameProgram ==
    /\ vm'.phase \in {"none", "ready"} <=> vm.phase \in {"none", "ready"}
    /\ vm'.progEnd = vm.progEnd /\ vm'.symbols = vm.symbols /\ vm'.entryPoint = vm.entryPoint

\* A client's call other than loadExecutableFile.
LEMMA CallLock ==
    ASSUME LockConstants, MachineInv, LockInv, ClientStep,
           ~\E f \in Files : loadExecutableFile(f)
    PROVE  SameProgram /\ LockInv' /\ (LockLoaded => AddsNone)
<1>0. VmTyped BY DEF MachineInv
<1>1. CASE initVm
  <2>1. vm.phase = "none"
    <3>1. Idle("none") BY <1>1, Zenon DEF initVm
    <3> QED BY <3>1 DEF Idle
  <2>2. CASE vm' = vm BY <2>1, <2>2 DEF SameProgram, LockInv, LockLoaded
  <2>3. CASE vm' # vm
    <3>1. PICK t : vm' = [vm EXCEPT !.phase = "ready", !.tail = t] 
      BY <1>1, <2>3, Zenon DEF initVm
    <3>2. /\ vm'.phase = "ready" /\ vm'.progEnd = vm.progEnd /\ vm'.symbols = vm.symbols
          /\ vm'.entryPoint = vm.entryPoint
      BY <1>0, <3>1 DEF VmTyped
    <3> QED BY <2>1, <3>2 DEF SameProgram, LockInv, LockLoaded
  <2> QED BY <2>2, <2>3
<1>2. CASE createCore
  <2>1. UNCHANGED vm BY <1>2 DEF createCore
  <2>2. CASE LockLoaded BY <1>2, <2>1, <2>2, CreateLock DEF SameProgram
  <2>3. CASE ~LockLoaded BY <2>1, <2>3 DEF SameProgram, LockInv, LockLoaded
  <2> QED BY <2>2, <2>3
<1>3. ASSUME UNCHANGED <<memory, cpu>>, SameProgram
      PROVE  SameProgram /\ LockInv' /\ (LockLoaded => AddsNone)
  <2>1. CASE LockLoaded BY <1>3, <2>1, SameCores DEF SameProgram
  <2>2. CASE ~LockLoaded BY <1>3, <2>2 DEF SameProgram, LockInv, LockLoaded
  <2> QED BY <2>1, <2>2
<1>4. CASE joinAll
  <2>1. UNCHANGED <<memory, cpu>> /\ vm' = [vm EXCEPT !.phase = "done"] /\ main.at = "create"
    BY <1>4 DEF joinAll
  <2>2. vm.phase = "loaded" BY <2>1 DEF MachineInv, NoneYet
  <2>3. SameProgram BY <1>0, <2>1, <2>2 DEF SameProgram, VmTyped
  <2> QED BY <1>3, <2>1, <2>3
<1>5. CASE cleanup
  <2>1. UNCHANGED <<memory, cpu>> /\ vm' = [vm EXCEPT !.phase = "gone"] /\ vm.phase = "done"
    BY <1>5 DEF cleanup, Idle
  <2>2. SameProgram BY <1>0, <2>1 DEF SameProgram, VmTyped
  <2> QED BY <1>3, <2>1, <2>2
<1>6. ASSUME NEW l \in Labels, AskAddress(l)
      PROVE  SameProgram /\ LockInv' /\ (LockLoaded => AddsNone)
  BY <1>3, <1>6 DEF AskAddress, SameProgram
<1>7. ASSUME NEW q \in Requests, execute(q.n, q.stacks, q.trace)
      PROVE  SameProgram /\ LockInv' /\ (LockLoaded => AddsNone)
  <2>1. UNCHANGED <<memory, cpu>> BY <1>7 DEF execute
  <2>2. vm' = vm \/ vm' = [vm EXCEPT !.numProcessors = q.n, !.trace = q.trace]
    BY <1>7, Zenon DEF execute
  <2>3. SameProgram BY <1>0, <2>2 DEF SameProgram, VmTyped
  <2> QED BY <1>3, <2>1, <2>3
<1> QED BY <1>1, <1>2, <1>4, <1>5, <1>6, <1>7 DEF ClientStep

\* An instruction changes memory and the core that executes it.
LEMMA InstructionVm ==
    ASSUME NEW c, executeInstruction(c)
    PROVE  vm' = vm
<1>1. \A reg, mem, pc, code : Retire(c, reg, mem, pc, code) => vm' = vm BY DEF Retire
<1>2. \A reg, mem, pc : Goes(c, reg, mem, pc) => vm' = vm BY <1>1 DEF Goes
<1>3. \A code : Ends(c, code) => vm' = vm BY <1>1 DEF Ends
<1>4. \A v : Arith(c, v) => vm' = vm BY <1>2 DEF Arith
<1>5. \A taken : Branch(c, taken) => vm' = vm BY <1>2 DEF Branch
<1>6. CASE halt(c) \/ load(c) \/ store(c) \/ ldimm(c) \/ ldaddr(c)
  BY <1>2, <1>3, <1>6, Zenon DEF halt, load, store, ldimm, ldaddr
<1>7. CASE ldind(c) \/ stind(c) \/ jmp(c) \/ cmpxchg(c)
  BY <1>2, <1>3, <1>7, Zenon DEF ldind, stind, jmp, cmpxchg
<1>8. CASE addf(c) \/ subf(c) \/ divf(c) \/ mulf(c)
  BY <1>3, <1>4, <1>8, Zenon DEF addf, subf, divf, mulf
<1>9. CASE addi(c) \/ subi(c) \/ divi(c) \/ muli(c) \/ getpid(c) \/ getpn(c)
  BY <1>3, <1>4, <1>9, Zenon DEF addi, subi, divi, muli, getpid, getpn
<1>10. CASE call(c) \/ ret_(c) \/ push(c) \/ pop(c) \/ illegal(c)
  BY <1>1, <1>2, <1>3, <1>10, Zenon DEF call, ret_, push, pop, illegal
<1>11. CASE blt(c) \/ bgt(c) \/ beq(c) BY <1>5, <1>11, Zenon DEF blt, bgt, beq
<1> QED BY <1>6, <1>7, <1>8, <1>9, <1>10, <1>11 DEF executeInstruction

\* A step, by what it does to the counter.
CounterStep ==
    \/ SameProgram /\ (LockLoaded => AddsNone \/ \E c \in Core : AddsOne(c))
    \/ ~LockLoaded /\ (LockLoaded' => JustLoaded)

\* Every step keeps the invariant and adds at most one.
LEMMA LockStep ==
    ASSUME LockConstants, MachineInv, LockInv, [Next]_vars
    PROVE  LockInv' /\ CounterStep
<1>1. ASSUME NEW f \in Files, loadExecutableFile(f) PROVE LockInv' /\ CounterStep
  <2>1. ~LockLoaded BY <1>1 DEF loadExecutableFile, Idle, NullHandle, LockLoaded
  <2>2. CASE LockLoaded' BY <1>1, <2>1, <2>2, LoadLock DEF CounterStep
  <2>3. CASE ~LockLoaded' BY <2>1, <2>3 DEF CounterStep, LockInv
  <2> QED BY <2>2, <2>3
<1>2. CASE ClientStep /\ ~\E f \in Files : loadExecutableFile(f) BY <1>2, CallLock DEF CounterStep
<1>3. ASSUME NEW c \in Core, CoreStep(c) PROVE LockInv' /\ CounterStep
  <2>1. vm' = vm BY <1>3, InstructionVm DEF CoreStep, startCore, fetch, printTrace
  <2>2. SameProgram BY <2>1 DEF SameProgram
  <2>3. CASE ~LockLoaded BY <2>1, <2>2, <2>3 DEF CounterStep, LockInv, LockLoaded
  <2>4. CASE LockLoaded
    <3>1. LockInv' /\ (AddsOne(c) \/ AddsNone)
      BY <1>3, <2>4, StartLock, FetchLock, TraceLock, InstructionLock DEF CoreStep
    <3> QED BY <2>2, <3>1 DEF CounterStep
  <2> QED BY <2>3, <2>4
<1>4. CASE UNCHANGED vars
  <2>1. UNCHANGED <<memory, cpu, vm>> BY <1>4 DEF vars
  <2>2. SameProgram BY <2>1 DEF SameProgram
  <2>3. CASE LockLoaded BY <2>1, <2>2, <2>3, SameCores DEF CounterStep
  <2>4. CASE ~LockLoaded BY <2>1, <2>2, <2>4 DEF CounterStep, LockInv, LockLoaded
  <2> QED BY <2>3, <2>4
<1>5. CASE ClientStep BY <1>1, <1>2, <1>5
<1> QED BY <1>3, <1>4, <1>5 DEF Next

\* Nothing is loaded when the machine starts.
LEMMA LockInit == ASSUME Init PROVE LockInv
BY DEF Init, LockInv, LockLoaded

\* The program is the loaded one only when its length is.
LEMMA LoadedIsLock == ASSUME LockConstants, Loaded(LockFile) PROVE LockLoaded
BY LockFileFacts DEF Loaded, LockLoaded

\* Two cores in the critical section would both be the one in the lock word.
LEMMA LockGives ==
    ASSUME LockConstants, LockInv
    PROVE  LockExclusive
<1> SUFFICES ASSUME Loaded(LockFile)
             PROVE  Cardinality(Owners) <= 1 /\ \A c \in Owners : memory[1] = c
  BY DEF LockExclusive
<1>1. \A c \in Core : Owner(c) <=> memory[1] = c BY LoadedIsLock DEF LockInv, OwnerInWord
<1>2. \A c \in Owners : c \in Core /\ Owner(c) BY DEF Owners, Owner, Runs, Holds, Reg
<1>3. \A c \in Owners : memory[1] = c BY <1>1, <1>2
<1>4. PICK w : w = memory[1] OBVIOUS
<1>5. Owners \in SUBSET {w} BY <1>3, <1>4
<1>6. IsFiniteSet({w}) /\ Cardinality({w}) = 1 BY FS_Singleton
<1>7. Cardinality(Owners) <= 1 BY <1>5, <1>6, FS_Subset
<1> QED BY <1>3, <1>7

\* The lock of test_counter_lock.asm excludes, on any number of cores and for
\* any number of rounds: cmpxchg compares and stores in one hold of memLock, so
\* one core at a time is between a cmpxchg that succeeded and the store of -1,
\* and the lock word is its number.
THEOREM LockWorks ==
    ASSUME LockConstants PROVE Spec => []LockExclusive
<1>1. MachineConstants BY LockNumbers
<1>2. Init => MachineInv /\ LockInv BY <1>1, MachineInit, LockInit
<1>3. MachineInv /\ LockInv /\ [Next]_vars => MachineInv' /\ LockInv'
  BY <1>1, MachineStep, LockStep
<1>4. LockInv => LockExclusive BY LockGives
<1> QED BY <1>2, <1>3, <1>4, PTL DEF Spec
-----------------------------------------------------------------------------
\* The state of the counter that the program implements.
CountNow == IF Loaded(LockFile) THEN Count ELSE 0
LeftMapped == [c \in Core |-> IF Loaded(LockFile) THEN Left(c) ELSE Rounds]

\* The program starts like the counter.
LEMMA CounterInit == ASSUME Init PROVE Counter!Init
<1>1. ~Loaded(LockFile) BY DEF Init, Loaded
<1> QED BY <1>1 DEF Counter!Init

\* The increments left, as the counter sees them.
LEMMA LeftIsMapped ==
    /\ Loaded(LockFile) => CountNow = memory[0] /\ LeftMapped = LeftNow
    /\ ~Loaded(LockFile) => CountNow = 0 /\ LeftMapped = [c \in Core |-> Rounds]
    /\ Loaded(LockFile)' => CountNow' = memory'[0] /\ LeftMapped' = LeftNow'
    /\ ~Loaded(LockFile)' => CountNow' = 0 /\ LeftMapped' = [c \in Core |-> Rounds]
BY DEF CountNow, LeftMapped, LeftNow, Count

\* Every step of the machine is an increment by one core or no step.
LEMMA CounterSteps ==
    ASSUME LockConstants, MachineInv, LockInv, [Next]_vars
    PROVE  [Counter!Next]_(Counter!vars)
<1>1. CounterStep BY LockStep
<1>2. Counter!vars = <<CountNow, LeftMapped>> BY DEF Counter!vars, CountNow, LeftMapped
<1>3. Counter!vars' = <<CountNow', LeftMapped'>> BY DEF Counter!vars, CountNow, LeftMapped
<1>4. CASE SameProgram /\ (LockLoaded => AddsNone \/ \E c \in Core : AddsOne(c))
  <2>1. Loaded(LockFile)' <=> Loaded(LockFile) BY <1>4 DEF SameProgram, Loaded
  <2>2. CASE ~Loaded(LockFile) BY <1>2, <1>3, <2>1, <2>2, LeftIsMapped
  <2>3. CASE Loaded(LockFile)
    <3>1. LockLoaded BY <2>3, LoadedIsLock
    <3>2. CASE AddsNone BY <1>2, <1>3, <2>1, <2>3, <3>2, LeftIsMapped DEF AddsNone
    <3>3. ASSUME NEW c \in Core, AddsOne(c) PROVE Counter!Next
      <4>1. /\ CountNow' = CountNow + 1 /\ LeftMapped[c] >= 1
            /\ LeftMapped' = [LeftMapped EXCEPT ![c] = @ - 1]
        BY <2>1, <2>3, <3>3, LeftIsMapped DEF AddsOne
      <4>2. LeftMapped[c] \in 0 .. Rounds
        <5>1. \A d \in Core : CoreLock(d) BY <3>1 DEF LockInv
        <5> QED BY <2>3, <5>1, LeftType, LeftIsMapped
      <4>3. LeftMapped[c] > 0 BY <4>1, <4>2, LockNumbers
      <4>4. Counter!Increment(c) BY <4>1, <4>3 DEF Counter!Increment, CountNow, LeftMapped
      <4> QED BY <4>4 DEF Counter!Next
    <3> QED BY <1>4, <3>1, <3>2, <3>3
  <2> QED BY <2>2, <2>3
<1>5. CASE ~LockLoaded /\ (LockLoaded' => JustLoaded)
  <2>1. ~Loaded(LockFile) BY <1>5, LoadedIsLock
  <2>2. Loaded(LockFile)' => LockLoaded' BY LockFileFacts DEF Loaded, LockLoaded
  <2>3. CASE ~Loaded(LockFile)' BY <1>2, <1>3, <2>1, <2>3, LeftIsMapped
  <2>4. CASE Loaded(LockFile)'
    <3>1. JustLoaded BY <1>5, <2>2, <2>4
    <3> QED BY <1>2, <1>3, <2>1, <2>4, <3>1, LeftIsMapped DEF JustLoaded
  <2> QED BY <2>3, <2>4
<1> QED BY <1>1, <1>4, <1>5 DEF CounterStep

\* test_counter_lock.asm counts: seen from outside, each increment (the load,
\* addi and store of one round) is one indivisible step, whatever the cores do
\* between them, and no core makes more than Rounds of them.
THEOREM CounterImplemented ==
    ASSUME LockConstants PROVE Spec => ImplementsCounter
<1>1. MachineConstants BY LockNumbers
<1>2. Init => MachineInv /\ LockInv /\ Counter!Init BY <1>1, MachineInit, LockInit, CounterInit
<1>3. MachineInv /\ LockInv /\ [Next]_vars => MachineInv' /\ LockInv' BY <1>1, MachineStep, LockStep
<1>4. MachineInv /\ LockInv /\ [Next]_vars => [Counter!Next]_(Counter!vars) BY CounterSteps
<1> QED BY <1>2, <1>3, <1>4, PTL DEF Spec, ImplementsCounter, Counter!Spec
=============================================================================
