---------------------------- MODULE MCToolchain ----------------------------
(***************************************************************************)
(* Scripts for the tools: small object files, each with a reference or two *)
(* to labels of others, linked three at a time, in two steps and in one;   *)
(* the repository's link test test1 in every order of its files, with one  *)
(* left out or given twice, and run; and command lines of testvm for it.   *)
(***************************************************************************)
EXTENDS Toolchain

Sym(name, address) == [name |-> name, address |-> address]
Object(insyms, outsyms, code) == [insyms |-> insyms, outsyms |-> outsyms, code |-> code]

\* A program with calls and a branch out of it, functions and data they share,
\* a file that defines a label again, and one without code.
Pieces ==
    [ main |-> Object(<<Sym("mainx20", 0), Sym("result", 3)>>,
                      <<Sym("f", 0), Sym("g", 1)>>,
                      <<Asm("call", 0, 0, 0), Asm("beq", 1, 2, 0), Asm("halt", 0, 0, 0), 0>>),
      f    |-> Object(<<Sym("f", 1)>>, <<Sym("x", 0), Sym("result", 1)>>,
                      <<Asm("load", 1, 0, 0), Asm("cmpxchg", 3, 4, 0)>>),
      g    |-> Object(<<Sym("g", 0), Sym("x", 1)>>, <<Sym("f", 0)>>,
                      <<Asm("jmp", 0, 0, 0), 77>>),
      twin |-> Object(<<Sym("x", 0)>>, <<>>, <<Asm("ret", 0, 0, 0)>>),
      none |-> Object(<<>>, <<>>, <<>>) ]

\* Two files are linked, the result with a third, and then all three at once.
Obj(n) == <<n, "obj">>
Exe(n) == <<n, "exe">>
Link(files, out) == [args |-> files, out |-> out]
TwoSteps ==
    {<< Link(<<Obj(a), Obj(b)>>, "part"), Link(<<<<"part", x>>, Obj(c)>>, "two"),
        Link(<<Obj(a), Obj(b), Obj(c)>>, "one") >> :
          a, b, c \in DOMAIN Pieces, x \in {"obj", "exe"}}

\* addi.asm and addi_result.asm, the same with a division, and both linked.
Addi == Object(<<Sym("word2", 7), Sym("word1", 6), Sym("result", 5), Sym("mainx20", 0)>>,
               <<Sym("resultx", 3)>>,
    << Asm("load", 1, 0, 5), Asm("load", 2, 0, 5), Asm("addi", 1, 2, 0),
       Asm("store", 1, 0, 0), Asm("halt", 0, 0, 0), 0, 12, 15 >>)
AddiResult == Object(<<Sym("resultx", 0)>>, <<>>, <<0>>)
AddiLinked == Object(Addi.insyms \o <<Sym("resultx", 8)>>, <<>>,
                     [Addi.code EXCEPT ![4] = Asm("store", 1, 0, 4)] \o <<0>>)
DiviLinked == [AddiLinked EXCEPT !.code[3] = Asm("divi", 1, 2, 0)]

Disk == [n \in (DOMAIN Pieces) \X {"obj"} |-> Pieces[n[1]]]
        @@ Obj("addi") :> Addi @@ Obj("addi_result") :> AddiResult
        @@ Exe("addi") :> AddiLinked @@ Exe("divi") :> DiviLinked

Show(l) == [kind |-> "print", label |-> l]
SetTo(l, v, f) == [kind |-> "set", label |-> l, value |-> v, float |-> f]
Procs(n) == [kind |-> "procs", n |-> n]
Options == {[kind |-> "trace"], [kind |-> "invalid"], Procs(2), Procs(0), Procs(MaxProcessors + 1)}
Values == {Show("resultx"), Show("nothing"), SetTo("word1", 3, FALSE), SetTo("word2", 0, FALSE),
           SetTo("word2", 2, TRUE), SetTo("nothing", 1, FALSE)}
Test(name, args) == [program |-> name, args |-> args]

LinkAndRun ==
    {<< Link(files, "prog"), Test(<<"prog", x>>, <<Show("resultx")>>) >> :
        x \in {"obj", "exe"},
        files \in UNION {[1 .. n -> {Obj("addi"), Obj("addi_result")}] : n \in 1 .. 3}}
TestOnly ==
    {<<Test(Exe("addi"), a)>> : a \in UNION {[1 .. n -> Options \union Values] : n \in 0 .. 2}}
    \union {<<Test(Exe(f), <<Show("resultx"), a, b, c>>)>> : f \in {"addi", "divi"}, a, b, c \in Values}
    \union {<<Test(Exe("missing"), <<>>)>>}
AllScripts == TwoSteps \union LinkAndRun \union TestOnly

\* The bits of a float are not those of the integer.
FloatBits(op, x, y) == IF op = "bits" THEN x + 1000 ELSE x

\* Linking in two steps gives the program that linking at once gives: the same
\* words, labels, open references and kind of file.
LinkIsIncremental ==
    \A x \in {"obj", "exe"} :
        script = <<>> /\ exits = <<0, 0, 0>> /\ <<"two", x>> \in DOMAIN disk =>
            LET two == disk[<<"two", x>>]
                one == disk[<<"one", x>>]
            IN /\ <<"one", x>> \in DOMAIN disk
               /\ two.code = one.code
               /\ Range(two.insyms) = Range(one.insyms)
               /\ Range(two.outsyms) = Range(one.outsyms)

\* The labels of any file on the disk are unique, its open references are to
\* labels it does not define, and an executable has none.
FilesSound ==
    \A n \in DOMAIN disk :
        /\ Cardinality(Names(disk[n].insyms)) = Len(disk[n].insyms)
        /\ Names(disk[n].insyms) \cap Names(disk[n].outsyms) = {}
        /\ n[2] = "exe" => disk[n].outsyms = <<>> /\ "mainx20" \in Names(disk[n].insyms)

\* However it was linked, the program works with the values set last on the
\* command line: the result shown is the sum (quotient) of those of its words.
LastSet(l, default) ==
    LET sets == {k \in DOMAIN Args : Args[k].kind = "set" /\ Args[k].label = l}
    IN IF sets = {} THEN default ELSE WordOf(Args[Max(sets)])
ResultOfArguments ==
    exitCode = 0 =>
        LET x == LastSet("word1", 12)
            y == LastSet("word2", 15)
            divides == \E w \in Range(client.line.file.code) : Op(w) = "divi"
            wanted == IF ~divides THEN x + y ELSE IF y = 0 THEN 0 ELSE x \div y
        IN \A k \in DOMAIN shown : shown[k][1] = "word" => shown[k][3] = wanted

\* What linkx20 writes is sound and does not depend on the stages it was linked in.
LinkedFilesSound == LinkIsIncremental /\ FilesSound

\* What testvm shows is what the program leaves in memory, from the values that
\* were set on the command line.
ResultsShown == ShownIsFinal /\ ResultOfArguments
=============================================================================
