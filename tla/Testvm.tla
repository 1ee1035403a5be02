------------------------------ MODULE Testvm -------------------------------
(***************************************************************************)
(* The driver A2/P2/testvm.c, composed with the virtual machine it calls:  *)
(* load the file, go through the arguments (options, labels to print,      *)
(* label=value to set), execute, report the cores that failed, print the   *)
(* words at the labels.  A command line has a file and args, each a record *)
(* of kind "trace", "procs" (n), "invalid", "print" (label) or "set"       *)
(* (label, value, float: written with a point or an f).                    *)
(***************************************************************************)
EXTENDS Vmx20

CONSTANT StackSize      \* STACK_SIZE, in words

VARIABLES
    client,     \* main's position and local variables
    exitCode,   \* the exit status; -100 while main runs
    shown       \* what main has printed: failing cores, then results

tvars == <<memory, vm, cpu, freed, main, ret, traced, process, client, exitCode, shown>>
Running == -100

TInit ==
    /\ Init
    /\ client = [at |-> "shell"]
    /\ exitCode = Running
    /\ shown = <<>>

MainAt(label) == process = "running" /\ client.at = label
Goto(label) == client' = [client EXCEPT !.at = label]
MainExit(code) == exitCode' = code /\ Goto("exit")
Args == client.line.args
Arg == Args[client.i]
NextArg == client' = [client EXCEPT !.i = @ + 1]

\* The shell starts testvm.
mainStart(line) ==
    /\ MainAt("shell")
    /\ client' = [at |-> "init", line |-> line, i |-> 1, processors |-> 1, trace |-> FALSE]
    /\ UNCHANGED <<vars, exitCode, shown>>

mainInit ==
    /\ MainAt("init") /\ initVm
    /\ \/ ret'.err = 0 /\ Goto("load") /\ UNCHANGED exitCode
       \/ ret'.err # 0 /\ MainExit(ret'.err)
    /\ UNCHANGED shown

mainLoad ==
    /\ MainAt("load") /\ loadExecutableFile(client.line.file)
    /\ \/ ret'.value = 1 /\ Goto("args") /\ UNCHANGED exitCode
       \/ ret'.value = 0 /\ MainExit(ret'.err)
    /\ UNCHANGED shown

AtArg(kind) == MainAt("args") /\ client.i <= Len(Args) /\ Arg.kind = kind

optionTrace ==
    /\ AtArg("trace")
    /\ client' = [client EXCEPT !.trace = TRUE, !.i = @ + 1]
    /\ UNCHANGED <<vars, exitCode, shown>>

optionProcessors ==
    /\ AtArg("procs")
    /\ \/ Arg.n > 0 /\ client' = [client EXCEPT !.processors = Arg.n, !.i = @ + 1]
                    /\ UNCHANGED exitCode
       \/ Arg.n <= 0 /\ MainExit(50)
    /\ UNCHANGED <<vars, shown>>

optionInvalid == AtArg("invalid") /\ MainExit(50) /\ UNCHANGED <<vars, shown>>

\* Mutant: the loop stays at the argument.
argPrintStays == AtArg("print") /\ UNCHANGED tvars
\* The label is looked up after execution.
argPrint == AtArg("print") /\ NextArg /\ UNCHANGED <<vars, exitCode, shown>>

WordOf(arg) == IF arg.float THEN FloatOp("bits", arg.value, 0) ELSE Signed(arg.value)

\* A label that is not found is reported and skipped.
argSet ==
    LET a == getAddress(Arg.label)
    IN /\ AtArg("set")
       /\ memory' = IF a.found = 1 THEN putWord(memory, a.addr, WordOf(Arg)) ELSE memory
       /\ process' = IF a.found = -1 THEN "crash" ELSE process
       /\ NextArg
       /\ UNCHANGED <<vm, cpu, freed, main, ret, traced, exitCode, shown>>

\* 0xfffff less a stack for each core before: memory has MEM_SIZE = 0xfffff / 4
\* words, so this is an address outside it.
initialSP(i) == 4 * MemSize + 3 - StackSize * i

\* More processors than the arrays have elements: the loop writes past the end
\* of initialSP before execute() refuses the number.
mainExecute ==
    /\ MainAt("args") /\ client.i > Len(Args)
    /\ \/ /\ execute(client.processors,
                     [k \in 1 .. client.processors |-> initialSP(k - 1)], client.trace)
          /\ Goto("execute")
       \/ /\ client.processors > MaxProcessors
          /\ process' = "crash"
          /\ UNCHANGED <<memory, vm, cpu, freed, main, ret, traced, client>>
    /\ UNCHANGED <<exitCode, shown>>

\* Mutant: the error codes, which are negative, are not noticed.
FailedPositive(line) == line[3] > 0
Failed(line) == line[3] # 0

\* execute() has returned: the statuses that are not 0 are reported.
mainReport ==
    /\ MainAt("execute") /\ main.at = "idle"
    /\ \/ ret.value = 0 /\ MainExit(50) /\ UNCHANGED shown
       \/ /\ ret.value = 1
          /\ shown' = SelectSeq([k \in 1 .. client.processors |-> <<"core", k - 1, cpu[k-1].status>>],
                                Failed)
          /\ client' = [client EXCEPT !.at = "results", !.i = 1]
          /\ UNCHANGED exitCode
    /\ UNCHANGED vars

\* One result line for each label found, in the order of the arguments.
mainResult ==
    LET a == getAddress(Arg.label)
        line == <<"word", Arg.label, getWord(a.addr, 0)>>
    IN /\ MainAt("results") /\ client.i <= Len(Args)
       /\ \/ Arg.kind # "print" /\ UNCHANGED <<process, shown>>
          \/ /\ Arg.kind = "print"
             /\ shown' = IF a.found = 1 /\ a.addr < MemSize THEN Append(shown, line) ELSE shown
             /\ process' = IF a.found = -1 THEN "crash" ELSE process
       /\ NextArg
       /\ UNCHANGED <<memory, vm, cpu, freed, main, ret, traced, exitCode>>

mainCleanup == MainAt("results") /\ client.i > Len(Args) /\ cleanup /\ MainExit(0) /\ UNCHANGED shown

\* exit() and the return from main end the process, its cores with it.
LibraryStep ==
    /\ client.at = "execute"
    /\ createCore \/ joinAll \/ \E c \in Core : CoreStep(c)
    /\ UNCHANGED <<client, exitCode, shown>>

MainStep ==
    \/ mainInit \/ mainLoad \/ optionTrace \/ optionProcessors \/ optionInvalid \/ argPrint
    \/ argSet \/ mainExecute \/ mainReport \/ mainResult \/ mainCleanup
-----------------------------------------------------------------------------
\* What is printed for a label after a run that ended well is the word the
\* cores left there, and every core that did not end normally is reported.
ShownIsFinal ==
    exitCode = 0 =>
        /\ \A k \in DOMAIN shown : shown[k][1] = "word" =>
              shown[k][3] = memory[getAddress(shown[k][2]).addr]
        /\ \A k \in DOMAIN Args : Args[k].kind = "print" /\ getAddress(Args[k].label).found = 1 =>
              \E j \in DOMAIN shown : shown[j][1] = "word" /\ shown[j][2] = Args[k].label
        /\ \A c \in 0 .. client.processors - 1 : cpu[c].status # 0 =>
              <<"core", c, cpu[c].status>> \in Range(shown)
=============================================================================
