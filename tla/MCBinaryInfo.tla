--------------------------- MODULE MCBinaryInfo ---------------------------
(***************************************************************************)
(* Small ELF files.  The string tables are at fixed offsets; the name of   *)
(* the symbol table is the end of that of the dynamic one, as linkers lay  *)
(* them out.  Characters are numbers.                                      *)
(***************************************************************************)
EXTENDS BinaryInfo

CONSTANTS Classes, Data, Extra   \* Extra: by how much headers exceed the structure

SectionNames == <<0, 1, 0, 2, 3, 4, 0, 5, 0, 6, 0>>
SymbolNames == <<0, 7, 0, 8, 9, 0>>
ShstrtabAt == 1000
StrtabAt == 1100
SymtabAt == 1200
DynsymAt == 1400
ShoffAt == 2000

Chars == [o \in ShstrtabAt .. ShstrtabAt + Len(SectionNames) - 1
                \union StrtabAt .. StrtabAt + Len(SymbolNames) - 1 |->
            IF o < StrtabAt THEN SectionNames[o - ShstrtabAt + 1] ELSE SymbolNames[o - StrtabAt + 1]]

Symbol(bind, type, vis, ndx, at, name) ==
    [bind |-> bind, type |-> type, vis |-> vis, ndx |-> ndx, at |-> at, name |-> name, value |-> at * 10,
     size |-> at + 1]
Symbols == << Symbol("LOCAL", "NOTYPE", "DEFAULT", <<"UND", 0>>, 0, <<>>),
              Symbol("GLOBAL", "FUNC", "HIDDEN", <<"", 1>>, 1, <<7>>),
              Symbol("WEAK", "OBJECT", "PROTECTED", <<"ABS", 0>>, 3, <<8, 9>>),
              Symbol("UNIQUE", "IFUNC", "INTERNAL", <<"", 2>>, 4, <<9>>) >>

Section(kind, type, symbols, class) ==
    LET is(k, at, len, name) ==
            [kind |-> k, type |-> type, addr |-> at * 2, offset |-> at, size |-> len, name |-> name]
        bytes == Len(symbols) * sizeofSym(class)
    IN CASE kind = "null"     -> is(kind, 0, 0, <<>>)
         [] kind = "text"     -> is(kind, 64, 16, <<1>>)
         [] kind = "symtab"   -> is(kind, SymtabAt, bytes, <<3, 4>>)
         [] kind = "dynsym"   -> is(kind, DynsymAt, bytes, <<2, 3, 4>>)
         [] kind = "strtab"   -> is(kind, StrtabAt, Len(SymbolNames), <<5>>)
         [] kind = "shstrtab" -> is(kind, ShstrtabAt, Len(SectionNames), <<6>>)
NameOffset(kind) ==
    CASE kind = "null" -> 0 [] kind = "text" -> 1 [] kind = "dynsym" -> 3 [] kind = "symtab" -> 4
      [] kind = "strtab" -> 7 [] kind = "shstrtab" -> 9
TypeOf(kind, text) ==
    CASE kind = "null" -> "NULL" [] kind = "text" -> text [] kind = "dynsym" -> "DYNSYM"
      [] kind = "symtab" -> "SYMTAB" [] OTHER -> "STRTAB"

SymbolsAt(base, symbols, class) ==
    [o \in {base + k * sizeofSym(class) : k \in 0 .. Len(symbols) - 1} |->
        LET s == symbols[(o - base) \div sizeofSym(class) + 1]
        IN [name |-> s.at, value |-> s.value, size |-> s.size, info |-> ELF32_ST_INFO(STB[s.bind], STT[s.type]),
            other |-> STV[s.vis],
            shndx |-> CASE s.ndx[1] = "UND" -> SHN_UNDEF [] s.ndx[1] = "ABS" -> SHN_ABS
                       [] OTHER -> s.ndx[2]]]

ElfFile(class, data, extra, type, kinds, text, symbols) ==
    LET sections == [k \in DOMAIN kinds |-> Section(kinds[k], TypeOf(kinds[k], text), symbols, class)]
        index(kind) == (CHOOSE k \in DOMAIN kinds : kinds[k] = kind) - 1
        entry == sizeofShdr(class) + extra
        header(k) == LET s == sections[k]
                     IN [name |-> NameOffset(s.kind), type |-> SHT[s.type], addr |-> s.addr,
                         offset |-> s.offset, size |-> s.size, link |-> index("strtab"),
                         entsize |-> sizeofSym(class)]
        has(kind) == \E k \in DOMAIN kinds : kinds[k] = kind
    IN [size |-> 4096, magic |-> TRUE, class |-> class, data |-> data, version |-> EV_CURRENT,
        type |-> type, entry |-> 66, phoff |-> sizeofEhdr(class), shoff |-> ShoffAt, flags |-> 5,
        ehsize |-> sizeofEhdr(class), phentsize |-> sizeofPhdr(class), phnum |-> 2,
        shentsize |-> entry, shnum |-> Len(kinds),
        shstrndx |-> index("shstrtab"),
        headers |-> [o \in {ShoffAt + entry * (k - 1) : k \in DOMAIN kinds} |->
                        header((o - ShoffAt) \div entry + 1)],
        symbols |-> SymbolsAt(SymtabAt, symbols, class) @@ SymbolsAt(DynsymAt, symbols, class),
        chars |-> Chars, sections |-> sections,
        symtab |-> IF has("symtab") THEN symbols ELSE <<>>,
        dynsym |-> IF has("dynsym") THEN symbols ELSE <<>>]

Layouts == { <<"null", "text", "symtab", "strtab", "shstrtab">>,
             <<"null", "shstrtab", "strtab", "dynsym", "symtab", "text">>,
             <<"null", "text", "strtab", "shstrtab">> }

Proper == {ElfFile(c, d, e, t, l, x, y) :
             c \in Classes, d \in Data, e \in Extra, t \in {ET.REL, ET.EXEC, ET.DYN}, l \in Layouts,
             x \in {"PROGBITS", "VERSYM"}, y \in {<<>>, SubSeq(Symbols, 1, 2), Symbols}}

\* Files that are empty, not ELF, of no known type, or without section headers.
Others ==
    LET f == CHOOSE x \in Proper : TRUE
    IN { [f EXCEPT !.size = 0], [f EXCEPT !.magic = FALSE], [f EXCEPT !.class = 3],
         [f EXCEPT !.data = 0], [f EXCEPT !.version = 0], [f EXCEPT !.type = 7],
         [f EXCEPT !.shoff = 0, !.shnum = 0, !.shstrndx = 0, !.headers = <<>>, !.sections = <<>>,
                   !.symtab = <<>>, !.dynsym = <<>>] }
MCFiles == Proper \union Others
=============================================================================
