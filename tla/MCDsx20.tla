------------------------------ MODULE MCDsx20 ------------------------------
(***************************************************************************)
(* Every program of four words made of a few instructions, with jumps to   *)
(* every word of it, and some files for the plain listing.                 *)
(***************************************************************************)
EXTENDS Dsx20, Dsx20Linear

Input(code, outsyms) == [readable |-> TRUE, insyms |-> <<[name |-> "f", address |-> 0]>>,
                         outsyms |-> outsyms, code |-> code]
Goto(op, a, target) == Asm(op, 0, 0, target - (a + 1))
WordsAt(a) == {Asm("halt", 0, 0, 0), Asm("addi", 1, 2, 0)}
    \union {Goto(op, a, t) : op \in {"jmp", "call"}, t \in 0 .. 3}
Codes == {<<u, v, w, x>> : u \in WordsAt(0), v \in WordsAt(1), w \in WordsAt(2), x \in WordsAt(3)}
AllPrograms == {Input(c, <<>>) : c \in Codes}

\* One word of every kind, with and without outsymbols.
Kinds == << Asm("halt", 0, 0, 0), Asm("load", 1, 0, 3), Asm("ldimm", 5, 0, 5), Asm("ldimm", 5, 0, -5),
            Asm("stind", 1, 2, -1), Asm("beq", 1, 2, -2), Asm("jmp", 0, 0, -6), Asm("push", 3, 0, 0),
            Asm("subf", 1, 2, 0), 77 >>
Listings == {Input(Kinds, o) : o \in {<<>>} \union {<<[name |-> "g", address |-> a]>> : a \in 0 .. 9}}
    \union {[Input(<<>>, <<>>) EXCEPT !.readable = FALSE]}
AllInputs == AllPrograms \union Listings

\* The first disassembler and the one with recursion give the same plain listing,
\* except that the first shows a negative constant without its sign
\* (dsx20_linear.c:338), unlike A1/P2/PartB/alloc_jmp.dis:10, and that it knows
\* no NOP (dsx20.c:272), which no file of these inputs contains.
Unsigned20(line) ==
    IF line.op = "ldimm" THEN [line EXCEPT !.args[2] = @ % 2^(WordBits - 12)] ELSE line
SameListing ==
    at = "exit" /\ option = "" =>
        LET first == linear_main(file)
        IN /\ first.exit = status
           /\ status = 0 =>
                /\ SubSeq(lines, 1, 2) = first.symbols
                /\ [k \in 1 .. Count |-> Unsigned20(lines[k + 2])] = first.lines
                /\ Len(lines) = Count + 2
=============================================================================
