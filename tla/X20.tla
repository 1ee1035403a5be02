-------------------------------- MODULE X20 --------------------------------
(***************************************************************************)
(* The x20 instruction word, as the virtual machine (A2/P2/vmx20.c), the   *)
(* disassemblers (A1/P2) and the linker (A2/P1) take it apart:             *)
(*                                                                         *)
(*     bits 0-7 opcode, 8-11 reg1, 12-15 reg2, then an offset: 16 bits     *)
(*     wide, or 20 bits wide where the format has no second register.      *)
(*                                                                         *)
(* A word is a signed integer of WordBits bits, as int32_t is one of 32.   *)
(* TLC's own integers have 32 bits, so its runs use a smaller WordBits,    *)
(* which only narrows the offset fields.                                   *)
(***************************************************************************)
EXTENDS Integers, Sequences

CONSTANT WordBits   \* width of a word; 32 in the code

ASSUME WordAssumption == WordBits \in Nat /\ WordBits > 20

Unsigned(x) == x % 2^WordBits
Signed(x) == ((x + 2^(WordBits-1)) % 2^WordBits) - 2^(WordBits-1)
-----------------------------------------------------------------------------
Mnemonics == << "halt", "load", "store", "ldimm", "ldaddr", "ldind", "stind",
                "addf", "subf", "divf", "mulf", "addi", "subi", "divi", "muli",
                "call", "ret", "blt", "bgt", "beq", "jmp", "cmpxchg", "getpid",
                "getpn", "push", "pop" >>

op_name(op) == IF op < Len(Mnemonics) THEN Mnemonics[op + 1]
               ELSE IF op = 32 THEN "NOP" ELSE "unknown"

op_format(name) ==
    CASE name \in {"halt", "ret", "NOP"}             -> "OP"
      [] name \in {"call", "jmp"}                    -> "ADDR"
      [] name \in {"getpid", "getpn", "push", "pop"} -> "REG"
      [] name = "ldimm"                              -> "REGCONST"
      [] name \in {"load", "store", "ldaddr"}        -> "REGADDR"
      [] name \in {"addf", "subf", "divf", "mulf",
                   "addi", "subi", "divi", "muli"}   -> "REGREG"
      [] name \in {"ldind", "stind"}                 -> "REGOFF"
      [] name \in {"blt", "bgt", "beq", "cmpxchg"}   -> "REGREGADDR"
      [] OTHER                                       -> "INVALID"

Op(word) == op_name(word % 256)
Reg1(word) == (word \div 256) % 16
Reg2(word) == (word \div 4096) % 16
\* EXTENDSIGN20(word >> 12) and EXTENDSIGN16(word >> 16): the shift of a
\* negative word rounds down.
Addr20(word) == word \div 4096
Addr16(word) == word \div 65536

\* The operands of the word at address a as a listing shows them:
\* PC-relative addresses made absolute.
Operands(word, format, a) ==
    CASE format = "ADDR"       -> <<Addr20(word) + a + 1>>
      [] format = "REG"        -> <<Reg1(word)>>
      [] format = "REGCONST"   -> <<Reg1(word), Addr20(word)>>
      [] format = "REGADDR"    -> <<Reg1(word), Addr20(word) + a + 1>>
      [] format = "REGREG"     -> <<Reg1(word), Reg2(word)>>
      [] format = "REGOFF"     -> <<Reg1(word), Addr16(word), Reg2(word)>>
      [] format = "REGREGADDR" -> <<Reg1(word), Reg2(word), Addr16(word) + a + 1>>
      [] OTHER                 -> <<>>

(***************************************************************************)
(* The assembler asx20 (a binary in the repository): the word of mnemonic  *)
(* op, with the fields its format has; the others are 0.                   *)
(***************************************************************************)
Asm(op, r1, r2, offset) ==
    LET code == CHOOSE k \in 1 .. Len(Mnemonics) : Mnemonics[k] = op
        field == IF op_format(op) \in {"ADDR", "REGCONST", "REGADDR"}
                 THEN 4096 ELSE 65536
    IN (code - 1) + 256 * r1 + 4096 * r2 + field * offset
=============================================================================
