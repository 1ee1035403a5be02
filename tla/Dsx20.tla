------------------------------- MODULE Dsx20 -------------------------------
(***************************************************************************)
(* The disassembler A1/P2/dsx20.c.  With -r, parse_code first finds out    *)
(* which words are instructions: from word 0 on, along the jumps; a jump   *)
(* back to a word it took for data makes it go back and start again from   *)
(* there.  Then print_code lists every word, data words as NOP.            *)
(***************************************************************************)
EXTENDS X20, SequencesExt, FiniteSets

CONSTANTS
    Inputs,   \* the object files: readable, insyms, outsyms and code
    Options   \* the command lines: "" (plain), "-r" or "bad"

VARIABLES
    file, option,   \* the input
    at,             \* where main is
    pc,             \* the loop variable of parse_code or print_code
    data,           \* data[a] = D_INS: word a is an instruction
    lines,          \* the listing so far
    status          \* the exit status, -1 before

dvars == <<file, option, at, pc, data, lines, status>>

D_DATA == 0
D_INS == 1
Count == Len(file.code)

DInit ==
    /\ file \in Inputs /\ option \in Options
    /\ at = "main" /\ pc = 0 /\ data = <<>> /\ lines = <<>> /\ status = -1

\* read_file exits with 1 if one of its steps fails; the symbol sections are
\* printed as they are in the file.
ds_read_file == file.readable
ds_read_insymbols == file.insyms
ds_read_outsymbols == file.outsyms

start ==
    /\ at = "main"
    /\ \/ /\ option = "bad" \/ ~ds_read_file
          /\ at' = "exit" /\ status' = 1 /\ UNCHANGED <<data, lines>>
       \/ /\ option # "bad" /\ ds_read_file
          /\ at' = IF option = "-r" THEN "parse" ELSE "print"
          /\ data' = IF option = "-r"
                     THEN [a \in 0 .. Count |-> IF a = 0 THEN D_INS ELSE D_DATA] ELSE <<>>
          /\ lines' = <<ds_read_insymbols, ds_read_outsymbols>>
          /\ UNCHANGED status
    /\ UNCHANGED <<file, option, pc>>

Word(a) == file.code[a + 1]
Jumps == {"jmp", "beq", "blt", "bgt", "call"}

\* The target of the jump at a, or -1: a displacement of 0 is taken for that
\* of an undefined label.
Target(a) ==
    LET word == Word(a)
        format == op_format(Op(word))
    IN CASE format \in {"ADDR", "REGADDR"} -> IF Addr20(word) = 0 THEN -1 ELSE Addr20(word) + a + 1
         [] format = "REGREGADDR" -> IF Addr16(word) = 0 THEN -1 ELSE Addr16(word) + a + 1
         [] OTHER -> -1

\* Mutant: the parser does not go back.
GoesBackNever(a, marked) == FALSE
\* Mutant: it goes back whether or not the target is known already.
GoesBackAlways(a, marked) == Target(a) < a
GoesBack(a, marked) == Target(a) < a /\ marked[Target(a)] = D_DATA

\* One iteration of parse_code's loop.
parse_code ==
    /\ at = "parse" /\ pc < Count
    /\ \/ /\ data[pc] # D_INS
          /\ pc' = pc + 1 /\ UNCHANGED data
       \/ /\ data[pc] = D_INS
          /\ LET falls == Op(Word(pc)) \notin {"jmp", "halt", "ret"}
                 marked == IF falls THEN [data EXCEPT ![pc + 1] = D_INS] ELSE data
                 jumps == Op(Word(pc)) \in Jumps /\ Target(pc) # -1
             IN \/ ~jumps /\ data' = marked /\ pc' = pc + 1
                \/ /\ jumps
                   /\ data' = [marked EXCEPT ![Target(pc)] = D_INS]
                   /\ pc' = IF GoesBack(pc, marked) THEN Target(pc) ELSE pc + 1
    /\ UNCHANGED <<file, option, at, lines, status>>

parsed ==
    /\ at = "parse" /\ pc >= Count
    /\ at' = "print" /\ pc' = 0
    /\ UNCHANGED <<file, option, data, lines, status>>

\* The tables of names and formats are those of the virtual machine.
ds_op_name(op) == op_name(op)
ds_op_format(op) == op_format(ds_op_name(op))

\* Mutant: the word behind the instruction is looked up.
is_outsymbolNext(a) == \E k \in DOMAIN file.outsyms : file.outsyms[k].address = a + 1
is_outsymbol(a) == \E k \in DOMAIN file.outsyms : file.outsyms[k].address = a

\* A reference to an outsymbol is printed as [undefined].
Line(a) ==
    LET code == IF data # <<>> /\ data[a] = D_DATA THEN 32 ELSE Word(a) % 256
        format == ds_op_format(code)
        shown == Operands(Word(a), format, a)
        open == format \in {"ADDR", "REGADDR", "REGREGADDR"} /\ is_outsymbol(a)
    IN [op |-> ds_op_name(code), args |-> IF open THEN Front(shown) ELSE shown, undefined |-> open]

print_code ==
    /\ at = "print"
    /\ \/ pc < Count /\ lines' = Append(lines, Line(pc)) /\ pc' = pc + 1 /\ UNCHANGED <<at, status>>
       \/ pc >= Count /\ at' = "exit" /\ status' = 0 /\ UNCHANGED <<lines, pc>>
    /\ UNCHANGED <<file, option, data>>

DNext == start \/ parse_code \/ parsed \/ print_code
\* A sequential program that is run to its end.
DSpec == DInit /\ [][DNext]_dvars /\ WF_dvars(DNext)
-----------------------------------------------------------------------------
\* dsx20 ends: parse_code goes back only finitely often.
Terminates == <>(at = "exit")

(***************************************************************************)
(* The reference: the words an execution from word 0 can reach, where a    *)
(* call returns and leads(a) are the targets of the jump at a.             *)
(***************************************************************************)
Closed(set, leads(_)) ==
    \A a \in set \cap 0 .. Count - 1 :
        /\ Op(Word(a)) \notin {"jmp", "halt", "ret"} => a + 1 \in set
        /\ leads(a) \subseteq set
Reached(leads(_)) ==
    {a \in 0 .. Count - 1 : \A set \in SUBSET (0 .. Count) :
         0 \in set /\ Closed(set, leads) => a \in set}
Instructions == {a \in 0 .. Count - 1 : data[a] = D_INS}

FollowedTargets(a) == IF Op(Word(a)) \in Jumps /\ Target(a) # -1 THEN {Target(a)} ELSE {}

\* What parse_code marks is exactly what can be reached ("jmp/beq/etc. x -> x is
\* an instruction"), in whatever order the pieces of code lie; only a jump to the
\* next word, whose displacement of 0 it takes for an undefined label
\* (dsx20.c:361), is not followed.
ClassifiedExactly ==
    at = "print" /\ option = "-r" /\ pc = 0 => Instructions = Reached(FollowedTargets)
=============================================================================
