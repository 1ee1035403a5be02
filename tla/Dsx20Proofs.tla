----------------------------- MODULE Dsx20Proofs -----------------------------
(***************************************************************************)
(* Two results about dsx20.c, for programs of any length: parse_code marks *)
(* exactly the words that control flow reaches from word 0, and the plain  *)
(* listing is that of dsx20_linear.c.                                      *)
(*                                                                         *)
(* The words before the loop variable are finished: what an instruction    *)
(* among them leads to is marked.  Going back to a word that was taken for *)
(* data makes fewer words finished, and never one that is not.             *)
(***************************************************************************)
EXTENDS MCDsx20, TLAPS

\* Files whose jumps stay in the program, as the assembler makes them; the
\* array that parse_code writes has one word more than the program.
Valid ==
    /\ Count \in Nat
    /\ \A a \in 0 .. Count - 1 : Op(Word(a)) \in Jumps => Target(a) \in -1 .. Count

Falls(a) == Op(Word(a)) \notin {"jmp", "halt", "ret"}
Leads(a) == Op(Word(a)) \in Jumps /\ Target(a) # -1

\* What the instruction at a leads to is marked in m.
Finished(a, m) ==
    /\ Falls(a) => m[a + 1] = D_INS
    /\ Leads(a) => m[Target(a)] = D_INS
FinishedTo(n, m) == \A a \in 0 .. Count - 1 : a < n /\ m[a] = D_INS => Finished(a, m)

\* A set of words that control flow does not leave; only reachable words are
\* marked, that is, words that are in all such sets.
Closes(set) == set \in SUBSET (0 .. Count) /\ 0 \in set /\ Closed(set, FollowedTargets)
Reachable(m) == \A set : Closes(set) => \A a \in 0 .. Count : m[a] = D_INS => a \in set

Marking ==
    /\ data \in [0 .. Count -> {D_DATA, D_INS}] /\ data[0] = D_INS
    /\ Reachable(data)
    /\ at = "parse" => pc \in 0 .. Count /\ FinishedTo(pc, data)
    /\ at = "print" => FinishedTo(Count, data)

MarkInv ==
    /\ at = "main" => pc = 0
    /\ Valid /\ option = "-r" /\ at \in {"parse", "print"} => Marking

\* A closed set contains what its instructions lead to.
LEMMA ClosesStep ==
    ASSUME NEW set, Closes(set), NEW a \in 0 .. Count - 1, a \in set
    PROVE  (Falls(a) => a + 1 \in set) /\ (Leads(a) => Target(a) \in set)
BY DEF Closes, Closed, Falls, Leads, FollowedTargets

\* The file does not change.
LEMMA SameFile ==
    ASSUME file' = file
    PROVE  /\ Count' = Count /\ Valid' = Valid
           /\ \A m : Reachable(m)' <=> Reachable(m)
           /\ \A m, n : FinishedTo(n, m)' <=> FinishedTo(n, m)
<1>1. Count' = Count /\ \A a : Word(a)' = Word(a) BY DEF Count, Word
<1>2. \A a : Target(a)' = Target(a) BY DEF Target, Word
<1>3. Valid' = Valid BY <1>1, <1>2 DEF Valid, Word, Count, Target
<1>4. \A set : Closes(set)' <=> Closes(set)
  BY <1>1, <1>2 DEF Closes, Closed, FollowedTargets, Count, Word, Target
<1>5. \A m : Reachable(m)' <=> Reachable(m) BY <1>1, <1>4 DEF Reachable, Count
<1>6. \A m, n : FinishedTo(n, m)' <=> FinishedTo(n, m)
  BY <1>1, <1>2 DEF FinishedTo, Finished, Falls, Leads, Word, Count, Target
<1> QED BY <1>1, <1>3, <1>5, <1>6

\* Marking more words leaves an instruction finished.
LEMMA StaysFinished ==
    ASSUME Valid, NEW m, NEW n, \A b \in 0 .. Count : m[b] = D_INS => n[b] = D_INS,
           NEW a \in 0 .. Count - 1, Finished(a, m)
    PROVE  Finished(a, n)
<1>1. a + 1 \in 0 .. Count BY DEF Valid
<1>2. Leads(a) => Target(a) \in 0 .. Count BY DEF Valid, Leads
<1> QED BY <1>1, <1>2 DEF Finished

\* Nothing is marked before the input is read.
LEMMA InitMark == DInit => MarkInv
BY DEF DInit, MarkInv

\* main marks word 0, and no other.
LEMMA StartMark == MarkInv /\ start => MarkInv'
<1> SUFFICES ASSUME MarkInv, start PROVE MarkInv' OBVIOUS
<1>1. file' = file /\ option' = option /\ pc' = pc /\ at = "main" /\ pc = 0 BY DEF start, MarkInv
<1>2. at' \in {"exit", "parse", "print"} BY DEF start
<1>3. ASSUME Valid, option = "-r", at' \in {"parse", "print"} PROVE Marking'
  <2>1. at' = "parse" /\ data' = [a \in 0 .. Count |-> IF a = 0 THEN D_INS ELSE D_DATA]
    BY <1>3 DEF start
  <2> DEFINE m == [a \in 0 .. Count |-> IF a = 0 THEN D_INS ELSE D_DATA]
  <2>2. Count \in Nat /\ 0 \in 0 .. Count BY <1>3 DEF Valid
  <2>3. m \in [0 .. Count -> {D_DATA, D_INS}] /\ m[0] = D_INS BY <2>2
  <2>4. Reachable(m) BY <2>2 DEF Reachable, Closes, D_DATA, D_INS
  <2> HIDE DEF m
  <2>7. Count' = Count BY <1>1 DEF Count
  <2>8. Reachable(data)' BY <1>1, <2>1, <2>4, SameFile DEF m, Reachable, Closes
  <2>9. FinishedTo(pc, data)' BY <1>1, <2>2, <2>7 DEF FinishedTo
  <2> QED BY <1>1, <2>1, <2>2, <2>3, <2>7, <2>8, <2>9 DEF Marking, m, D_DATA, D_INS
<1>4. Valid' = Valid BY <1>1, SameFile
<1> QED BY <1>1, <1>2, <1>3, <1>4 DEF MarkInv

\* One iteration of parse_code: whatever it marks is reachable, and a word that
\* it marks behind itself is where it goes on.
LEMMA ParseMark ==
    ASSUME Valid, Marking, at = "parse", parse_code
    PROVE  \E m : /\ data' = m
                  /\ m \in [0 .. Count -> {D_DATA, D_INS}] /\ m[0] = D_INS
                  /\ Reachable(m)
                  /\ pc' \in 0 .. Count /\ FinishedTo(pc', m)
<1>1. Count \in Nat /\ pc \in 0 .. Count - 1 /\ pc + 1 \in 0 .. Count /\ 0 \in 0 .. Count
  BY DEF Valid, Marking, parse_code
<1>2. data \in [0 .. Count -> {D_DATA, D_INS}] /\ data[0] = D_INS /\ Reachable(data)
      /\ FinishedTo(pc, data)
  BY DEF Marking
<1>3. CASE data[pc] # D_INS
  <2>1. data' = data /\ pc' = pc + 1 BY <1>3 DEF parse_code
  <2>2. FinishedTo(pc + 1, data) BY <1>1, <1>2, <1>3 DEF FinishedTo
  <2> QED BY <1>1, <1>2, <2>1, <2>2
<1>4. CASE data[pc] = D_INS
  <2> DEFINE marked == IF Falls(pc) THEN [data EXCEPT ![pc + 1] = D_INS] ELSE data
             t == Target(pc)
             m == IF Leads(pc) THEN [marked EXCEPT ![t] = D_INS] ELSE marked
  <2>1. data' = m /\ pc' = IF Leads(pc) /\ GoesBack(pc, marked) THEN t ELSE pc + 1
    BY <1>4 DEF parse_code, Falls, Leads
  <2>2. Leads(pc) => t \in 0 .. Count BY <1>1 DEF Valid, Leads
  <2>3. marked \in [0 .. Count -> {D_DATA, D_INS}] BY <1>1, <1>2
  <2>4. m \in [0 .. Count -> {D_DATA, D_INS}] BY <2>2, <2>3
  <2>5. \A a \in 0 .. Count : marked[a] = D_INS <=> data[a] = D_INS \/ (Falls(pc) /\ a = pc + 1)
    BY <1>1, <1>2
  <2>6. \A a \in 0 .. Count : m[a] = D_INS <=> marked[a] = D_INS \/ (Leads(pc) /\ a = t)
    BY <2>2, <2>3
  <2> HIDE DEF m, marked, t
  <2>7. Leads(pc) => (GoesBack(pc, marked) <=> (t < pc /\ marked[t] # D_INS))
    <3>1. Leads(pc) => marked[t] \in {D_DATA, D_INS} BY <2>2, <2>3
    <3> QED BY <3>1 DEF GoesBack, t, D_DATA, D_INS
  <2>8. m[0] = D_INS BY <1>1, <1>2, <2>5, <2>6
  <2>9. Reachable(m)
    <3> SUFFICES ASSUME NEW set, Closes(set), NEW a \in 0 .. Count, m[a] = D_INS PROVE a \in set
      BY DEF Reachable
    <3>1. \A b \in 0 .. Count : data[b] = D_INS => b \in set BY <1>2 DEF Reachable
    <3>2. pc \in set BY <1>1, <1>4, <3>1
    <3>3. (Falls(pc) => pc + 1 \in set) /\ (Leads(pc) => t \in set)
      BY <1>1, <3>2, ClosesStep DEF t
    <3> QED BY <2>5, <2>6, <3>1, <3>3
  <2>10. pc' \in 0 .. Count BY <1>1, <2>1, <2>2
  <2>11. Finished(pc, m) BY <1>1, <2>2, <2>5, <2>6 DEF Finished, t
  <2>12. \A a \in 0 .. Count - 1 : Finished(a, data) => Finished(a, m)
    BY <2>5, <2>6, StaysFinished
  <2>13. FinishedTo(pc', m)
    <3> SUFFICES ASSUME NEW a \in 0 .. Count - 1, a < pc', m[a] = D_INS PROVE Finished(a, m)
      BY DEF FinishedTo
    <3>1. a \in 0 .. Count BY <1>1
    <3>2. a <= pc BY <1>1, <2>1, <2>2, <2>7
    <3>3. a # pc => data[a] = D_INS
      <4>1. ~(Falls(pc) /\ a = pc + 1) BY <1>1, <3>2
      <4>2. CASE Leads(pc) /\ t < pc /\ marked[t] # D_INS
        <5>1. a # t BY <2>1, <2>2, <2>7, <4>2
        <5> QED BY <2>5, <2>6, <3>1, <4>1, <5>1
      <4>3. CASE ~(Leads(pc) /\ t < pc /\ marked[t] # D_INS)
        BY <1>1, <2>2, <2>5, <2>6, <3>1, <3>2, <4>1, <4>3
      <4> QED BY <4>2, <4>3
    <3>4. a # pc => Finished(a, data) BY <1>1, <1>2, <3>2, <3>3 DEF FinishedTo
    <3> QED BY <2>11, <2>12, <3>4
  <2> QED BY <2>1, <2>4, <2>8, <2>9, <2>10, <2>13
<1> QED BY <1>3, <1>4

\* The invariant is kept by every step.
LEMMA NextMark == MarkInv /\ [DNext]_dvars => MarkInv'
<1> SUFFICES ASSUME MarkInv, [DNext]_dvars PROVE MarkInv' OBVIOUS
<1>1. CASE start BY <1>1, StartMark
<1>2. CASE parse_code
  <2>1. file' = file /\ option' = option /\ at = "parse" /\ at' = at BY <1>2 DEF parse_code
  <2>2. Valid' = Valid BY <2>1, SameFile
  <2>3. ASSUME Valid, option = "-r" PROVE Marking'
    <3>1. Marking BY <2>1, <2>3 DEF MarkInv
    <3>2. PICK m : /\ data' = m
                   /\ m \in [0 .. Count -> {D_DATA, D_INS}] /\ m[0] = D_INS
                   /\ Reachable(m)
                   /\ pc' \in 0 .. Count /\ FinishedTo(pc', m)
      BY <1>2, <2>1, <2>3, <3>1, ParseMark
    <3>3. Count' = Count BY <2>1, SameFile
    <3>4. Reachable(m)' BY <2>1, <3>2, SameFile
    <3>5. Reachable(data)' BY <3>2, <3>4 DEF Reachable, Closes
    <3>6. FinishedTo(pc, data)'
      BY <2>1, <3>2, <3>3 DEF FinishedTo, Finished, Falls, Leads, Word, Target
    <3> QED BY <2>1, <3>2, <3>3, <3>5, <3>6 DEF Marking, D_DATA, D_INS
  <2> QED BY <2>1, <2>2, <2>3 DEF MarkInv
<1>3. CASE parsed \/ print_code \/ UNCHANGED dvars
  <2>1. file' = file /\ option' = option /\ data' = data BY <1>3 DEF parsed, print_code, dvars
  <2>2. Valid' = Valid /\ Count' = Count BY <2>1, SameFile
  <2>3. at' = "main" => at = "main" /\ pc' = pc BY <1>3 DEF parsed, print_code, dvars
  <2>4. ASSUME Valid, option = "-r", at' \in {"parse", "print"} PROVE Marking'
    <3>1. at \in {"parse", "print"} BY <1>3, <2>4 DEF parsed, print_code, dvars
    <3>2. Marking BY <2>4, <3>1 DEF MarkInv
    <3>3. Reachable(data)' BY <2>1, <3>2, SameFile DEF Marking, Reachable, Closes
    <3>4. at' = "parse" => pc' = pc /\ at = "parse" BY <1>3, <2>4 DEF parsed, print_code, dvars
    <3>5. at' = "print" => FinishedTo(Count, data)
      BY <1>3, <2>4, <3>2 DEF parsed, print_code, dvars, Marking, Valid
    <3>6. /\ at' = "print" => FinishedTo(Count, data)'
          /\ at' = "parse" => FinishedTo(pc, data)'
      BY <2>1, <2>2, <3>2, <3>4, <3>5
         DEF Marking, FinishedTo, Finished, Falls, Leads, Word, Target
    <3> QED BY <2>1, <2>2, <3>2, <3>3, <3>4, <3>6 DEF Marking, D_DATA, D_INS
  <2> QED BY <2>1, <2>2, <2>3, <2>4 DEF MarkInv
<1> QED BY <1>1, <1>2, <1>3 DEF DNext
-----------------------------------------------------------------------------
\* When parse_code has finished, the marked words are a closed set, so they are
\* all the reachable ones.
LEMMA MarkedIsReached ==
    ASSUME Valid, Marking, at = "print"
    PROVE  Instructions = Reached(FollowedTargets)
<1> DEFINE set == {a \in 0 .. Count : data[a] = D_INS}
<1>1. Count \in Nat /\ 0 \in set BY DEF Valid, Marking
<1>2. \A a \in set \cap 0 .. Count - 1 : Finished(a, data) BY <1>1 DEF Marking, FinishedTo
<1>3. Closed(set, FollowedTargets)
  <2> SUFFICES ASSUME NEW a \in set \cap 0 .. Count - 1
               PROVE  /\ Op(Word(a)) \notin {"jmp", "halt", "ret"} => a + 1 \in set
                      /\ FollowedTargets(a) \subseteq set
    BY DEF Closed
  <2>1. a + 1 \in 0 .. Count BY <1>1
  <2>2. Leads(a) => Target(a) \in 0 .. Count BY <1>1 DEF Valid, Leads
  <2> QED BY <1>2, <2>1, <2>2 DEF Finished, Falls, Leads, FollowedTargets
<1>4. Closes(set) BY <1>1, <1>3 DEF Closes
<1>5. ASSUME NEW a \in Instructions PROVE a \in Reached(FollowedTargets)
  <2>1. a \in 0 .. Count - 1 /\ a \in 0 .. Count /\ data[a] = D_INS BY <1>1 DEF Instructions
  <2>2. \A s : Closes(s) => a \in s BY <2>1 DEF Marking, Reachable
  <2> QED BY <2>1, <2>2 DEF Reached, Closes
<1>6. ASSUME NEW a \in Reached(FollowedTargets) PROVE a \in Instructions
  <2>1. a \in 0 .. Count - 1 /\ a \in set BY <1>4 DEF Reached, Closes
  <2> QED BY <2>1 DEF Instructions
<1> QED BY <1>5, <1>6

\* parse_code (dsx20.c:342) classifies the words of every program whose jumps
\* stay in it as control flow does: marked is what can be reached from word 0,
\* however often it had to go back.
THEOREM ClassifiedRight == DSpec => [](Valid => ClassifiedExactly)
<1>1. MarkInv => (Valid => ClassifiedExactly)
  BY MarkedIsReached DEF MarkInv, ClassifiedExactly
<1> QED BY InitMark, NextMark, <1>1, PTL DEF DSpec
-----------------------------------------------------------------------------
\* Programs without a word of opcode 32, which dsx20.c lists as NOP and
\* dsx20_linear.c as unknown.
Listable ==
    /\ file.code \in Seq(Int)
    /\ \A a \in 0 .. Count - 1 : Word(a) % 256 # 32

\* Line k of the plain listing of the file.
Shown(k) == IF k = 1 THEN file.insyms ELSE IF k = 2 THEN file.outsyms ELSE Line(k - 3)
Listed(n) == [k \in 1 .. n + 2 |-> Shown(k)]

\* Without -r.  Z3 loses its arithmetic where it meets the empty string, so the
\* comparison stays folded up.
Plain == option = ""

\* The listing up to the loop variable of print_code.
ListInv ==
    Plain /\ Listable =>
        /\ at \in {"main", "print", "exit"}
        /\ data = <<>>
        /\ at = "main" => pc = 0 /\ status = -1
        /\ at = "print" => file.readable /\ pc \in 0 .. Count /\ lines = Listed(pc) /\ status = -1
        /\ at = "exit" => \/ ~file.readable /\ status = 1
                          \/ file.readable /\ status = 0 /\ lines = Listed(Count)

\* ldimm is the only instruction with a constant ...
LEMMA LdimmFormat == \A name : op_format(name) = "REGCONST" <=> name = "ldimm"
BY Zenon DEF op_format

\* ... and shows its register and that constant.
LEMMA ConstOperands == \A w, a : Operands(w, "REGCONST", a) = <<Reg1(w), Addr20(w)>>
BY Zenon DEF Operands

\* One more line.
LEMMA AppendListed ==
    ASSUME NEW n \in Nat
    PROVE  Append(Listed(n), Shown(n + 3)) = Listed(n + 1)
BY DEF Listed

\* The listing starts with the symbols.
LEMMA FirstTwo == Listed(0) = <<file.insyms, file.outsyms>>
BY DEF Listed, Shown

\* Without -r parse_code is not called.
LEMMA PlainOption == Plain => option # "-r" /\ option # "bad"
BY Zenon DEF Plain

\* The options do not change.
LEMMA SamePlain == option' = option => Plain' = Plain
BY Zenon DEF Plain

\* Nothing is listed yet.
LEMMA InitList == DInit => ListInv
BY DEF DInit, ListInv

\* A program has a length.
LEMMA CountNat == Listable => Count \in Nat
<1> SUFFICES ASSUME file.code \in Seq(Int) PROVE Len(file.code) \in Nat BY DEF Listable, Count
<1> QED OBVIOUS

\* The listing is a function of the file.
LEMMA SameListed ==
    ASSUME file' = file, data' = data
    PROVE  /\ Count' = Count /\ Listable' = Listable
           /\ \A n : Listed(n)' = Listed(n)
<1>1. Count' = Count /\ \A a : Word(a)' = Word(a) BY DEF Count, Word
<1>2. \A a : Line(a)' = Line(a) BY DEF Line, is_outsymbol, Word
<1> QED BY <1>1, <1>2 DEF Listable, Listed, Shown, Count, Word

\* main shows the symbols, or gives up.
LEMMA StartList == ListInv /\ start => ListInv'
<1> SUFFICES ASSUME ListInv, start, Plain, Listable PROVE ListInv'
  BY SamePlain DEF ListInv, start, Listable, Count, Word
<1>1. /\ file' = file /\ option' = option /\ pc' = pc /\ pc = 0 /\ at = "main"
      /\ data' = data /\ data = <<>> /\ status = -1
  BY PlainOption DEF start, ListInv
<1>2. Count' = Count /\ Listable' = Listable /\ \A n : Listed(n)' = Listed(n)
  BY <1>1, SameListed
<1>3. CASE ~file.readable
  BY <1>1, <1>3, PlainOption, SamePlain DEF start, ListInv, ds_read_file
<1>4. CASE file.readable
  <2>1. at' = "print" /\ lines' = <<file.insyms, file.outsyms>> /\ status' = -1
    BY <1>1, <1>4, PlainOption DEF start, ds_read_file, ds_read_insymbols, ds_read_outsymbols
  <2>2. lines' = Listed(0) BY <2>1, FirstTwo
  <2>3. Listed(pc)' = Listed(0) BY <1>1, <1>2
  <2> QED BY <1>1, <1>2, <1>4, <2>1, <2>2, <2>3, CountNat DEF ListInv
<1> QED BY <1>3, <1>4

\* print_code shows the next word, or ends.
LEMMA PrintList == ListInv /\ print_code => ListInv'
<1> SUFFICES ASSUME ListInv, print_code, Plain, Listable PROVE ListInv'
  BY SamePlain DEF ListInv, print_code, Listable, Count, Word
<1>1. /\ file' = file /\ option' = option /\ data' = data
      /\ at = "print" /\ pc \in 0 .. Count /\ lines = Listed(pc) /\ status = -1
  BY DEF print_code, ListInv
<1>6. file.readable /\ data = <<>> BY <1>1 DEF ListInv
<1>2. Count' = Count /\ Listable' = Listable /\ \A n : Listed(n)' = Listed(n)
  BY <1>1, SameListed
<1>3. Count \in Nat BY CountNat
<1>4. CASE pc < Count
  <2>1. lines' = Append(lines, Line(pc)) /\ pc' = pc + 1 /\ at' = at /\ status' = status
    BY <1>1, <1>3, <1>4 DEF print_code
  <2>2. Shown(pc + 3) = Line(pc)
    <3>1. pc + 3 # 1 /\ pc + 3 # 2 /\ (pc + 3) - 3 = pc BY <1>1, <1>3
    <3> QED BY <3>1 DEF Shown
  <2>3. lines' = Listed(pc + 1)
    <3>1. Append(Listed(pc), Shown(pc + 3)) = Listed(pc + 1)
      <4>1. pc \in Nat BY <1>1, <1>3
      <4> QED BY <4>1, AppendListed, Zenon
    <3> QED BY <1>1, <2>1, <2>2, <3>1, Zenon
  <2>4. Listed(pc)' = Listed(pc + 1) BY <1>2, <2>1
  <2> QED BY <1>1, <1>2, <1>3, <1>4, <1>6, <2>1, <2>3, <2>4 DEF ListInv
<1>5. CASE pc = Count
  <2>1. lines' = lines /\ at' = "exit" /\ status' = 0 BY <1>1, <1>3, <1>5 DEF print_code
  <2>2. Listed(Count)' = Listed(Count) BY <1>2
  <2> QED BY <1>1, <1>2, <1>5, <1>6, <2>1, <2>2 DEF ListInv
<1> QED BY <1>1, <1>3, <1>4, <1>5

\* The invariant is kept by every step.
LEMMA NextList == ListInv /\ [DNext]_dvars => ListInv'
<1> SUFFICES ASSUME ListInv, [DNext]_dvars PROVE ListInv' OBVIOUS
<1>1. CASE start BY <1>1, StartList
<1>2. CASE parse_code \/ parsed BY <1>2, SamePlain DEF ListInv, parse_code, parsed, Listable, Count, Word
<1>3. CASE print_code BY <1>3, PrintList
<1>4. CASE UNCHANGED dvars
  <2>1. file' = file /\ data' = data BY <1>4 DEF dvars
  <2>2. Count' = Count /\ Listable' = Listable /\ \A n : Listed(n)' = Listed(n)
    BY <2>1, SameListed
  <2>3. Listed(pc)' = Listed(pc) /\ Listed(Count)' = Listed(Count) BY <1>4, <2>2 DEF dvars
  <2> QED BY <1>4, <2>2, <2>3, SamePlain DEF ListInv, dvars
<1> QED BY <1>1, <1>2, <1>3, <1>4 DEF DNext

\* Both disassemblers make the same line of a word, but for the sign of a
\* constant (dsx20_linear.c:338).
LEMMA SameLine ==
    ASSUME NEW a \in 0 .. Count - 1, Word(a) % 256 # 32, data = <<>>
    PROVE  Unsigned20(Line(a)) = linear_line(file, a)
<1> DEFINE word == Word(a)
           name == ds_op_name(word % 256)
           format == op_format(name)
           shown == Operands(word, format, a)
           open == format \in {"ADDR", "REGADDR", "REGREGADDR"} /\ is_outsymbol(a)
<1>1. Line(a) = [op |-> name, args |-> IF open THEN Front(shown) ELSE shown, undefined |-> open]
  BY DEF Line, ds_op_format
<1>2. name = linear_op_name(word % 256) BY DEF ds_op_name, linear_op_name, op_name
<1>3. linear_line(file, a) =
        [op |-> name,
         args |-> IF open THEN Front(shown)
                  ELSE IF format = "REGCONST" THEN <<Reg1(word), WithoutSign(word)>> ELSE shown,
         undefined |-> open]
  BY <1>2 DEF linear_line, linear_op_format, linear_is_outsymbol, is_outsymbol, Word
<1> HIDE DEF word, name, format, shown, open
<1>4. format = "REGCONST" <=> name = "ldimm" BY LdimmFormat DEF format
<1>5. CASE name # "ldimm"
  <2>1. Line(a).op = name BY <1>1
  <2>2. Unsigned20(Line(a)) = Line(a) BY <1>5, <2>1 DEF Unsigned20
  <2> QED BY <1>1, <1>3, <1>4, <1>5, <2>2
<1>6. CASE name = "ldimm"
  <2>1. format = "REGCONST" /\ ~open BY <1>4, <1>6 DEF open
  <2>2. shown = <<Reg1(word), Addr20(word)>> BY <2>1, ConstOperands DEF shown
  <2>3. Line(a) = [op |-> name, args |-> <<Reg1(word), Addr20(word)>>, undefined |-> open]
    BY <1>1, <2>1, <2>2
  <2>4. linear_line(file, a)
          = [op |-> name, args |-> <<Reg1(word), WithoutSign(word)>>, undefined |-> open]
    BY <1>3, <2>1
  <2>5. Unsigned20(Line(a))
          = [op |-> name, args |-> <<Reg1(word), Addr20(word) % 2^(WordBits - 12)>>, undefined |-> open]
    BY <1>6, <2>3 DEF Unsigned20
  <2> QED BY <2>4, <2>5 DEF WithoutSign
<1> QED BY <1>5, <1>6

\* dsx20.c without -r and dsx20_linear.c show the same of every file, line by
\* line, and exit with the same status, but for the sign of constants and for
\* words of opcode 32, which only the former has a name for (dsx20.c:272).
THEOREM ListingsAgree == DSpec => [](Listable => SameListing)
<1>1. ASSUME ListInv, Listable, at = "exit", Plain
      PROVE  LET first == linear_main(file)
             IN /\ first.exit = status
                /\ status = 0 =>
                     /\ SubSeq(lines, 1, 2) = first.symbols
                     /\ [k \in 1 .. Count |-> Unsigned20(lines[k + 2])] = first.lines
                     /\ Len(lines) = Count + 2
  <2>1. CASE ~file.readable
    BY <1>1, <2>1 DEF ListInv, linear_main, linear_read_file
  <2>2. CASE file.readable
    <3>1. status = 0 /\ lines = Listed(Count) /\ data = <<>> BY <1>1, <2>2 DEF ListInv
    <3>2. Count \in Nat BY <1>1, CountNat
    <3>3. Len(lines) = Count + 2 BY <3>1, <3>2 DEF Listed
    <3>4. lines[1] = file.insyms /\ lines[2] = file.outsyms BY <3>1, <3>2 DEF Listed, Shown
    <3>5. SubSeq(lines, 1, 2) = <<file.insyms, file.outsyms>> 
      <4>1. SubSeq(lines, 1, 2) = [k \in 1 .. 2 |-> Shown(k)]
        BY <3>1, <3>2 DEF Listed
      <4>2. [k \in 1 .. 2 |-> Shown(k)] = <<file.insyms, file.outsyms>> BY DEF Shown
      <4> QED BY <4>1, <4>2, Zenon
    <3>6. \A k \in 1 .. Count : Unsigned20(lines[k + 2]) = linear_line(file, k - 1)
      <4> SUFFICES ASSUME NEW k \in 1 .. Count
                   PROVE  Unsigned20(lines[k + 2]) = linear_line(file, k - 1)
        OBVIOUS
      <4>1. k - 1 \in 0 .. Count - 1 /\ k + 2 \in 1 .. Count + 2 /\ k + 2 # 1 /\ k + 2 # 2
            /\ (k + 2) - 3 = k - 1
        BY <3>2
      <4>2. lines[k + 2] = Line(k - 1) BY <3>1, <4>1 DEF Listed, Shown
      <4>3. Word(k - 1) % 256 # 32 BY <1>1, <4>1 DEF Listable
      <4> QED BY <3>1, <4>1, <4>2, <4>3, SameLine
    <3>7. read_code(file) = [k \in 1 .. Count |-> linear_line(file, k - 1)] BY DEF read_code, Count
    <3>8. [k \in 1 .. Count |-> Unsigned20(lines[k + 2])] = read_code(file) BY <3>6, <3>7
    <3>9. linear_main(file) = [exit |-> 0, lines |-> read_code(file),
                               symbols |-> <<file.insyms, file.outsyms>>]
      BY <2>2 DEF linear_main, linear_read_file, read_insymbols, read_outsymbols
    <3> QED BY <3>1, <3>3, <3>5, <3>8, <3>9
  <2> QED BY <2>1, <2>2
<1>2. ListInv => (Listable => SameListing) BY <1>1, Zenon DEF SameListing, Plain
<1> QED BY InitList, NextList, <1>2, PTL DEF DSpec
=============================================================================
