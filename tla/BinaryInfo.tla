---------------------------- MODULE BinaryInfo ----------------------------
(***************************************************************************)
(* A1/P1/binary_info.c: it shows the header, the section names, the        *)
(* sections or a symbol table of an ELF file.  The machine is little       *)
(* endian, and so is every field it reads.                                 *)
(***************************************************************************)
EXTENDS Elf, SequencesExt, FiniteSetsExt

CONSTANT Files      \* the files it may be called with

Options == {"-h", "-sn", "-sec", "-sym", "-dyn"}

VARIABLES
    opt,      \* argv[1]; "usage" when the number of arguments is wrong
    file,     \* what argv[2] names
    pc,       \* where the program is; "undefined" after it took for a
              \* header what is none
    code,     \* its exit status
    names,    \* section_name_table_offset and _size
    table,    \* the header of the symbol table, and of its strings
    i,        \* the loop variable
    out       \* the lines shown so far

vars == <<opt, file, pc, code, names, table, i, out>>

Init ==
    /\ opt \in Options \union {"usage", "-x"}
    /\ file \in Files
    /\ pc = "options" /\ code = 0
    /\ names = [offset |-> -1, size |-> 0]
    /\ table = <<>> /\ i = 0 /\ out = <<>>

Exit(c) == pc' = "done" /\ code' = c
Undefined == pc' = "undefined" /\ UNCHANGED code
Goto(where) == pc' = where /\ UNCHANGED code
Finish == Goto("done")
-----------------------------------------------------------------------------
options ==
    /\ pc = "options"
    /\ IF opt \in Options THEN Goto("read") ELSE Exit(1)
    /\ UNCHANGED <<opt, file, names, table, i, out>>

\* Opening, measuring, allocating, seeking and reading may each fail.
readFile ==
    /\ pc = "read"
    /\ \/ file.size > 0 /\ Goto("identify")
       \/ Exit(1)
    /\ UNCHANGED <<opt, file, names, table, i, out>>

IsElf(f) ==
    /\ f.magic /\ f.class \in {ELFCLASS32, ELFCLASS64}
    /\ f.data \in {ELFDATA2LSB, ELFDATA2MSB} /\ f.version = EV_CURRENT
identify ==
    /\ pc = "identify"
    /\ IF ~IsElf(file) THEN Exit(2)
       ELSE Goto(CASE opt = "-h" -> "header" [] opt \in {"-sn", "-sec"} -> "names"
                   [] OTHER -> "find")
    /\ UNCHANGED <<opt, file, names, table, i, out>>

\* A field of two bytes, and a longer one, as the program reads it.  A longer one
\* of the other byte order is some number that is no offset in the file.
Half(v) == IF file.data = ELFDATA2MSB THEN (v % 256) * 256 + v \div 256 ELSE v
Outside == -1
Offset(v) == IF file.data = ELFDATA2MSB /\ v # 0 THEN Outside ELSE v

\* The program ends in the middle of the header when it does not know the type.
print_header ==
    /\ pc = "header"
    /\ LET type == TextOf(ET, Half(file.type), "illegal")
           ident == [class |-> file.class, data |-> file.data]
           rest == [type |-> type, entry |-> Offset(file.entry), phoff |-> Offset(file.phoff),
                    shoff |-> Offset(file.shoff), flags |-> Offset(file.flags),
                    ehsize |-> Half(file.ehsize), phentsize |-> Half(file.phentsize),
                    phnum |-> Half(file.phnum), shentsize |-> Half(file.shentsize),
                    shnum |-> Half(file.shnum), shstrndx |-> Half(file.shstrndx)]
       IN IF type = "illegal" THEN out' = <<ident>> /\ Exit(3)
          ELSE out' = <<ident, rest>> /\ Finish
    /\ UNCHANGED <<opt, file, names, table, i>>
-----------------------------------------------------------------------------
\* Mutant: section headers have the size of the structure.
SectionAtPacked(n) == Offset(file.shoff) + sizeofShdr(file.class) * n
\* Section headers are found through the size the file says they have ...
SectionAt(n) == Offset(file.shoff) + Half(file.shentsize) * n

\* The characters from an offset to the next zero.
StringAt(o) ==
    LET end == Min({k \in DOMAIN file.chars : k >= o /\ file.chars[k] = 0})
    IN [k \in 1 .. end - o |-> file.chars[o + k - 1]]

\* The characters of the table after its first, each zero a new line; without
\* print only the place of the table is noted.
string_dump ==
    /\ pc = "names"
    /\ IF SectionAt(Half(file.shstrndx)) \notin DOMAIN file.headers
       THEN Undefined /\ UNCHANGED <<names, out>>
       ELSE LET h == file.headers[SectionAt(Half(file.shstrndx))]
            IN /\ names' = [offset |-> h.offset, size |-> h.size]
               /\ out' = IF opt = "-sn" THEN [k \in 1 .. h.size - 1 |-> file.chars[h.offset + k]]
                                        ELSE out
               /\ IF opt = "-sn" THEN Finish ELSE Goto("sections")
    /\ UNCHANGED <<opt, file, table, i>>

get_type_str(type) == TextOf(SHT, type, "ILLEGAL_TYPE")

\* ... except in the listing of a 32-bit file, which reads the first one.
ListedAt(n) == IF file.class = ELFCLASS32 THEN Offset(file.shoff) ELSE SectionAt(n)

SectionLine(h, n) ==
    [index |-> n, name |-> StringAt(names.offset + h.name), type |-> get_type_str(h.type),
     addr |-> h.addr, offset |-> h.offset, size |-> h.size]

list_sect_headers ==
    /\ pc = "sections"
    /\ IF i < Half(file.shnum)
       THEN /\ out' = Append(out, SectionLine(file.headers[ListedAt(i)], i))
            /\ i' = i + 1 /\ UNCHANGED <<pc, code>>
       ELSE Finish /\ UNCHANGED <<out, i>>
    /\ UNCHANGED <<opt, file, names, table>>
-----------------------------------------------------------------------------
(***************************************************************************)
(* symbol_dump and dynsym_dump: the first header of the type is looked for *)
(* one structure after the other, whatever size the file says.             *)
(***************************************************************************)
SearchedAt(n) == Offset(file.shoff) + sizeofShdr(file.class) * n
findTable(type) ==
    /\ pc = "find"
    /\ IF i >= Half(file.shnum) THEN Finish /\ UNCHANGED <<i, table>>      \* "Failed to find"
       ELSE IF SearchedAt(i) \notin DOMAIN file.headers
       THEN Undefined /\ UNCHANGED <<i, table>>
       ELSE IF file.headers[SearchedAt(i)].type # type
       THEN i' = i + 1 /\ UNCHANGED <<pc, code, table>>
       ELSE LET h == file.headers[SearchedAt(i)]
            IN /\ table' = [head |-> h, strings |-> file.headers[SectionAt(h.link)].offset]
               /\ i' = 1 /\ Goto("symbols")
    /\ UNCHANGED <<opt, file, names, out>>

st_type_text(st_info) == TextOf(STT, ELF32_ST_TYPE(st_info), "ILLEGAL")
st_bind_text(st_info) == TextOf(STB, ELF32_ST_BIND(st_info), "ILLEGL")
st_other_text(st_other) == TextOf(STV, ELF32_ST_VISIBILITY(st_other), "ILLEGAL")
ndx_text(ndx) == CASE ndx = SHN_UNDEF -> <<"UND", 0>> [] ndx = SHN_ABS -> <<"ABS", 0>>
                   [] OTHER -> <<"", ndx>>

SymbolLine(s, n) ==
    [num |-> n, value |-> s.value, size |-> s.size, type |-> st_type_text(s.info), bind |-> st_bind_text(s.info),
     vis |-> st_other_text(s.other), ndx |-> ndx_text(s.shndx),
     name |-> StringAt(table.strings + s.name)]

Entries(h) == h.size \div h.entsize

listSymbols ==
    /\ pc = "symbols"
    /\ IF i <= Entries(table.head)
       THEN /\ out' = Append(out, SymbolLine(file.symbols[table.head.offset
                                                         + (i - 1) * table.head.entsize], i))
            /\ i' = i + 1 /\ UNCHANGED <<pc, code>>
       ELSE Finish /\ UNCHANGED <<out, i>>
    /\ UNCHANGED <<opt, file, names, table>>

symbol_dump == opt = "-sym" /\ (findTable(SHT.SYMTAB) \/ listSymbols)
dynsym_dump == opt = "-dyn" /\ (findTable(SHT.DYNSYM) \/ listSymbols)

Ended == pc \in {"done", "undefined"} /\ UNCHANGED vars
Step == \/ options \/ readFile \/ identify \/ print_header \/ string_dump
        \/ list_sect_headers \/ symbol_dump \/ dynsym_dump
Next == Step \/ Ended
Spec == Init /\ [][Next]_vars
-----------------------------------------------------------------------------
\* The program has read the file and is done with it, or has lost its way in it.
Over == pc \in {"done", "undefined"} /\ code # 1
LittleEndian == IsElf(file) /\ file.data = ELFDATA2LSB
\* It reads section headers where the file says they are; only the search for a
\* symbol table takes them to have the size of the structure (binary_info.c:502
\* and 558).
Packed == file.shentsize = sizeofShdr(file.class)

\* What is shown under -h is what the header of a little-endian file says:
\* "Prints the basic header information."
HeaderShown ==
    Over /\ opt = "-h" /\ LittleEndian /\ (\E t \in DOMAIN ET : ET[t] = file.type) =>
        /\ code = 0
        /\ out = << [class |-> file.class, data |-> file.data],
                    [type |-> TextOf(ET, file.type, "illegal"), entry |-> file.entry,
                     phoff |-> file.phoff, shoff |-> file.shoff, flags |-> file.flags,
                     ehsize |-> file.ehsize, phentsize |-> file.phentsize, phnum |-> file.phnum,
                     shentsize |-> file.shentsize, shnum |-> file.shnum,
                     shstrndx |-> file.shstrndx] >>

\* Under -sn the name of every section of a little-endian file is shown, up to the
\* end of a line: "String dump of all names in the .shstrtab section".
NamesShown ==
    Over /\ opt = "-sn" /\ LittleEndian => \A s \in Range(file.sections) :
        s.name = <<>> \/ \E a \in DOMAIN out : a + Len(s.name) \in DOMAIN out /\
                             SubSeq(out, a, a + Len(s.name)) = s.name \o <<0>>

\* Under -sec there is one line for each section of a little-endian file.  Of a
\* 64-bit file it is what the file says of that section: "Lists all section
\* headers with name, type, address, offset, size"; of a 32-bit file all lines
\* are those of the first section (binary_info.c:389).
SectionsListed ==
    Over /\ opt = "-sec" /\ LittleEndian =>
        out = [k \in DOMAIN file.sections |->
                 LET s == file.sections[IF file.class = ELFCLASS64 THEN k ELSE 1]
                 IN [index |-> k - 1, name |-> s.name, type |-> s.type, addr |-> s.addr,
                     offset |-> s.offset, size |-> s.size]]

\* Under -sym and -dyn every symbol of a little-endian file's table is shown, in
\* order, with what the file says of it; nothing without such a table, and
\* nothing that is the file's if its headers are larger than the structure.
SymbolsShown ==
    Over /\ opt \in {"-sym", "-dyn"} /\ LittleEndian =>
        LET symbols == IF opt = "-sym" THEN file.symtab ELSE file.dynsym
        IN out = [k \in IF Packed THEN DOMAIN symbols ELSE {} |->
                    [num |-> k, value |-> symbols[k].value, size |-> symbols[k].size,
                     type |-> symbols[k].type, bind |-> symbols[k].bind, vis |-> symbols[k].vis,
                     ndx |-> symbols[k].ndx, name |-> symbols[k].name]]

\* Big-endian files are accepted, but their fields are read without turning them:
\* -h gives up at the type, and no other option shows a line of one.
BigEndianLost ==
    Over /\ IsElf(file) /\ file.data = ELFDATA2MSB /\ file.type # ET.NONE =>
        IF opt = "-h" THEN code = 3 /\ Len(out) = 1 ELSE out = <<>>

\* What each option of binary_info shows of a file: of a little-endian one what
\* the file says, but for the listing of sections of 32-bit files and for symbols
\* behind larger section headers; of a big-endian one nothing.
ShownIsInFile == HeaderShown /\ NamesShown /\ SectionsListed /\ SymbolsShown /\ BigEndianLost
=============================================================================
