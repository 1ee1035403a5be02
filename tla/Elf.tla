-------------------------------- MODULE Elf --------------------------------
(***************************************************************************)
(* The part of the ELF format (A1/P1/elf.h) that binary_info.c reads.      *)
(*                                                                         *)
(* A file is its header and what lies at its offsets: section headers,     *)
(* symbols and the characters of string tables.  The tables give the       *)
(* values of the constants by the text they are shown with.                *)
(***************************************************************************)
EXTENDS Integers, Sequences

ELFCLASS32 == 1
ELFCLASS64 == 2
ELFDATA2LSB == 1
ELFDATA2MSB == 2
EV_CURRENT == 1

ET == [NONE |-> 0, REL |-> 1, EXEC |-> 2, DYN |-> 3, CORE |-> 4]

SHT == [ NULL |-> 0, PROGBITS |-> 1, SYMTAB |-> 2, STRTAB |-> 3, RELA |-> 4, HASH |-> 5,
         DYNAMIC |-> 6, NOTE |-> 7, NOBITS |-> 8, REL |-> 9, SHLIB |-> 10, DYNSYM |-> 11,
         INIT_ARRAY |-> 14, FINI_ARRAY |-> 15, PREINIT_ARRAY |-> 16, GROUP |-> 17, SHNDX |-> 18,
         GNU_ATTRIBUTES |-> \h6ffffff5, GNU_HASH |-> \h6ffffff6, GNU_LIBLIST |-> \h6ffffff7,
         CHECKSUM |-> \h6ffffff8, MOVE |-> \h6ffffffa, COMDAT |-> \h6ffffffb,
         SYMINFO |-> \h6ffffffc, VERDEF |-> \h6ffffffd, VERNEED |-> \h6ffffffe,
         VERSYM |-> \h6fffffff ]

STB == [LOCAL |-> 0, GLOBAL |-> 1, WEAK |-> 2, UNIQUE |-> 10]
STT == [NOTYPE |-> 0, OBJECT |-> 1, FUNC |-> 2, SECTION |-> 3, FILE |-> 4, COMMON |-> 5,
        TLS |-> 6, IFUNC |-> 10]
STV == [DEFAULT |-> 0, INTERNAL |-> 1, HIDDEN |-> 2, PROTECTED |-> 3]
SHN_UNDEF == 0
SHN_ABS == \hfff1

ELF32_ST_INFO(bind, type) == bind * 16 + (type % 16)
ELF32_ST_BIND(val) == (val % 256) \div 16
ELF32_ST_TYPE(val) == val % 16
ELF32_ST_VISIBILITY(o) == o % 4

\* sizeof of the structures of the two classes
sizeofShdr(class) == IF class = ELFCLASS32 THEN 40 ELSE 64
sizeofEhdr(class) == IF class = ELFCLASS32 THEN 52 ELSE 64
sizeofPhdr(class) == IF class = ELFCLASS32 THEN 32 ELSE 56
sizeofSym(class) == IF class = ELFCLASS32 THEN 16 ELSE 24

\* The text a table has for a value, or other.
TextOf(table, value, other) ==
    IF \E t \in DOMAIN table : table[t] = value
    THEN CHOOSE t \in DOMAIN table : table[t] = value ELSE other
=============================================================================
