---------------------------- MODULE Dsx20Linear ----------------------------
(***************************************************************************)
(* The first disassembler, A1/P2/dsx20_linear.c: a program without state   *)
(* that matters, so a function of its input.  Every word of the code is    *)
(* one line, whether or not it is an instruction.                          *)
(***************************************************************************)
EXTENDS X20, SequencesExt

\* Its table ends before NOP.
linear_op_name(op) == IF op < Len(Mnemonics) THEN op_name(op) ELSE "unknown"
linear_op_format(op) == op_format(linear_op_name(op))

linear_is_outsymbol(file, pc) == \E k \in DOMAIN file.outsyms : file.outsyms[k].address = pc

\* The constant of ldimm is printed without its sign.
WithoutSign(word) == Addr20(word) % 2^(WordBits - 12)

linear_line(file, pc) ==
    LET word == file.code[pc + 1]
        format == linear_op_format(word % 256)
        shown == Operands(word, format, pc)
        open == format \in {"ADDR", "REGADDR", "REGREGADDR"} /\ linear_is_outsymbol(file, pc)
    IN [op |-> linear_op_name(word % 256),
        args |-> IF open THEN Front(shown)
                 ELSE IF format = "REGCONST" THEN <<Reg1(word), WithoutSign(word)>> ELSE shown,
        undefined |-> open]

\* The exit status, and the listing: symbols as they are in the file, then the
\* lines.
read_insymbols(file) == file.insyms
read_outsymbols(file) == file.outsyms
read_code(file) == [k \in 1 .. Len(file.code) |-> linear_line(file, k - 1)]

linear_read_file(file) == file.readable

linear_main(file) ==
    IF ~linear_read_file(file) THEN [exit |-> 1, lines |-> <<>>, symbols |-> <<>>]
    ELSE [exit |-> 0, lines |-> read_code(file),
          symbols |-> <<read_insymbols(file), read_outsymbols(file)>>]
=============================================================================
