------------------------------ MODULE LinkX20 ------------------------------
(***************************************************************************)
(* The linker A2/P1/linkx20.c, one invocation after the other on a disk of *)
(* object files.  An object file has insymbols (labels it exports),        *)
(* outsymbols (places that refer to labels of other files) and code words. *)
(* Every file read is put in front of the list of headers and every symbol *)
(* in front of its list, so the output has the files in the reverse order  *)
(* of the command line.  A step is the work on one file.                   *)
(***************************************************************************)
EXTENDS X20, SequencesExt, FiniteSetsExt

CONSTANTS
    Objects,   \* the disk at the start: object files by name and extension
    Scripts    \* the sequences of commands; one that runs the linker is a record
               \* of args, the names of the files, and out, the name after -o

VARIABLES
    disk,      \* files by <<name, extension>>
    script,    \* the commands left, the current one first
    headers,   \* file_headers: newest first, with the extracted symbol lists
    link,      \* where the current invocation is, with its local variables
    exits      \* the exit status of every invocation that has ended

lvars == <<disk, script, headers, link, exits>>

Fresh == [at |-> "read", i |-> 1, found |-> FALSE, is_object |-> FALSE,
          insyms |-> <<>>, outsyms |-> <<>>, code |-> <<>>, pc_offset |-> 0]

LInit ==
    /\ disk = Objects
    /\ script \in Scripts
    /\ headers = <<>>
    /\ link = Fresh
    /\ exits = <<>>

Invocation == Head(script)
At(label) == script # <<>> /\ "out" \in DOMAIN Invocation /\ link.at = label
Exit(status) ==
    /\ exits' = Append(exits, status)
    /\ script' = Tail(script)
    /\ link' = Fresh
    /\ headers' = <<>>

Listed(header) == <<header>> \o headers

readFile ==
    /\ At("read") /\ link.i <= Len(Invocation.args)
    /\ LET name == Invocation.args[link.i]
       IN \/ name \notin DOMAIN disk /\ Exit(1)
          \/ /\ name \in DOMAIN disk
             /\ headers' = Listed([data |-> disk[name], insyms |-> <<>>, outsyms |-> <<>>])
             /\ link' = [link EXCEPT !.i = @ + 1]
             /\ UNCHANGED <<script, exits>>
    /\ UNCHANGED disk

\* Each loop over the files starts at the front of the list, offset 0.
StartLoop(label) == [link EXCEPT !.at = label, !.i = 1, !.pc_offset = 0]
AtFile(label) == At(label) /\ link.i <= Len(headers)
Cur == headers[link.i]
LoopEnds(label) == At(label) /\ link.i > (IF label = "read" THEN Len(Invocation.args) ELSE Len(headers))

allRead ==
    /\ LoopEnds("read") /\ link' = StartLoop("extract")
    /\ UNCHANGED <<disk, script, headers, exits>>

extract_symbols ==
    /\ AtFile("extract")
    /\ headers' = [headers EXCEPT ![link.i].insyms = Reverse(Cur.data.insyms),
                                  ![link.i].outsyms = Reverse(Cur.data.outsyms)]
    /\ link' = [link EXCEPT !.i = @ + 1,
                            !.found = @ \/ \E s \in Range(Cur.data.insyms) : s.name = "mainx20"]
    /\ UNCHANGED <<disk, script, exits>>

\* Without mainx20 the output is an object file; without any code main exits.
sizeOutput ==
    /\ LoopEnds("extract")
    /\ \/ /\ \A k \in DOMAIN headers : headers[k].data.code = <<>>
          /\ Exit(50)
       \/ /\ \E k \in DOMAIN headers : headers[k].data.code # <<>>
          /\ link' = [StartLoop("insert") EXCEPT !.is_object = ~link.found]
          /\ UNCHANGED <<script, headers, exits>>
    /\ UNCHANGED disk

Moved(s, offset) == [s EXCEPT !.address = @ + offset]
Names(syms) == {s.name : s \in Range(syms)}

\* A name that is already in the table, also one of the same file, is fatal.
Duplicate(syms, table) ==
    Cardinality(Names(syms)) # Len(syms) \/ Names(syms) \cap Names(table) # {}

insertFile ==
    /\ AtFile("insert")
    /\ \/ Duplicate(Cur.insyms, link.insyms) /\ Exit(1)
       \/ /\ ~Duplicate(Cur.insyms, link.insyms)
          /\ link' = [link EXCEPT !.i = @ + 1,
                        !.insyms = @ \o [k \in DOMAIN Cur.insyms |->
                                            Moved(Cur.insyms[k], link.pc_offset)],
                        !.code = @ \o Cur.data.code,
                        !.pc_offset = @ + Len(Cur.data.code)]
          /\ UNCHANGED <<script, headers, exits>>
    /\ UNCHANGED disk

allInserted ==
    /\ LoopEnds("insert") /\ link' = StartLoop("resolve")
    /\ UNCHANGED <<disk, script, headers, exits>>

\* Mutant: the displacement is counted from the instruction itself.
DisplacementFromPc(target, pc) == target - pc
Displacement(target, pc) == target - (pc + 1)

\* The word at pc made to refer to target; what does not fit the field is cut
\* off, and words of other formats stay.
Rewritten(word, pc, target) ==
    LET d == Displacement(target, pc)
    IN CASE op_format(Op(word)) \in {"ADDR", "REGADDR"} -> Signed(d * 4096 + (word % 4096))
         [] op_format(Op(word)) = "REGREGADDR" -> Signed(d * 65536 + (word % 65536))
         [] OTHER -> word

\* Mutant: an outsymbol that stays unresolved keeps its address.
UnresolvedInPlace(s) == s
Unresolved(s) == Moved(s, link.pc_offset)

Definition(name) == CHOOSE a \in {s.address : s \in {t \in Range(link.insyms) : t.name = name}} : TRUE

resolveFile ==
    LET defined == {s \in Range(Cur.outsyms) : s.name \in Names(link.insyms)}
        left == SelectSeq(Cur.outsyms, LAMBDA s : s \notin defined)
        refers(pc) == {s \in defined : link.pc_offset + s.address = pc}
    IN /\ AtFile("resolve")
       /\ link' = [link EXCEPT !.i = @ + 1,
                     !.code = [k \in DOMAIN @ |->
                         IF refers(k - 1) = {} THEN @[k]
                         ELSE Rewritten(@[k], k - 1,
                                        Definition((CHOOSE s \in refers(k - 1) : TRUE).name))],
                     !.outsyms = @ \o [k \in DOMAIN left |-> Unresolved(left[k])],
                     !.is_object = @ \/ left # <<>>,
                     !.pc_offset = @ + Len(Cur.data.code)]
       /\ UNCHANGED <<disk, script, headers, exits>>

\* Mutant: unresolved outsymbols do not make the output an object file.
IsObjectWithoutMain == ~link.found
IsObject == link.is_object

\* The extension tells what the output is.  Then free_all.
writeOutput ==
    LET name == <<Invocation.out, IF IsObject THEN "obj" ELSE "exe">>
        file == [insyms |-> link.insyms, outsyms |-> link.outsyms, code |-> link.code]
    IN /\ LoopEnds("resolve")
       /\ disk' = [n \in DOMAIN disk \union {name} |-> IF n = name THEN file ELSE disk[n]]
       /\ Exit(0)

LNext == \/ readFile \/ allRead \/ extract_symbols \/ sizeOutput \/ insertFile
         \/ allInserted \/ resolveFile \/ writeOutput

LSpec == LInit /\ [][LNext]_lvars
-----------------------------------------------------------------------------
(***************************************************************************)
(* The reference: where the words of the k-th argument are in the output.  *)
(***************************************************************************)
Input(k) == disk[Invocation.args[k]]
Arguments == 1 .. Len(Invocation.args)
BaseOf(k) == FoldSet(LAMBDA j, n : n + Len(Input(j).code), 0, (k + 1) .. Len(Invocation.args))

\* The program that is written means what the files together mean: every label
\* is at its word, every reference to a label that any of the files defines
\* leads to that definition, the other references are still listed, all other
\* words are unchanged.
ReferencesReach ==
    [][writeOutput =>
        LET out == CHOOSE f \in {disk'[<<Invocation.out, x>>] :
                         x \in {y \in {"obj", "exe"} : /\ <<Invocation.out, y>> \in DOMAIN disk'
                                                       /\ (y = "obj") = link.is_object}} : TRUE
            labels == UNION {{Moved(s, BaseOf(k)) : s \in Range(Input(k).insyms)} : k \in Arguments}
            refs == UNION {{Moved(s, BaseOf(k)) : s \in Range(Input(k).outsyms)} : k \in Arguments}
            resolved == {r \in refs : \E d \in labels : d.name = r.name}
        IN /\ Range(out.insyms) = labels
           /\ Range(out.outsyms) = refs \ resolved
           /\ \A r \in resolved : \E d \in labels :
                 /\ d.name = r.name
                 /\ LET w == out.code[r.address + 1]
                    IN Last(Operands(w, op_format(Op(w)), r.address)) = d.address
           /\ \A k \in Arguments : \A a \in 1 .. Len(Input(k).code) :
                 BaseOf(k) + a - 1 \notin {r.address : r \in resolved} =>
                    out.code[BaseOf(k) + a] = Input(k).code[a]]_lvars
=============================================================================
