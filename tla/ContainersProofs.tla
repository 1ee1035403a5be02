-------------------------- MODULE ContainersProofs --------------------------
(***************************************************************************)
(* The containers of the threads library do what they promise, for lists   *)
(* of any length.                                                          *)
(*                                                                         *)
(* First queue.c, which implements the first-in first-out queue of module  *)
(* Fifo: the items from front along next are the chunks in memory but for  *)
(* the lost ones, back is the last of them or points outside the list, and *)
(* the client's iterator is on the way from one of them to the last.       *)
(* Then, with ThreadTableProofs, the client of both.                       *)
(***************************************************************************)
EXTENDS MCContainers, PointerWalks, SequenceTheorems

\* The items that the client's iterator has not given yet.
Ahead == Nodes(it, next, Item, NULL)

QueueType ==
    /\ made \in BOOLEAN
    /\ front \in Item \cup {NULL} /\ back \in Item \cup {NULL} /\ it \in Item \cup {NULL}
    /\ next \in [Item -> Item \cup {NULL}]
    /\ data \in [Item -> Data \cup {NULL}]
    /\ allocated \in SUBSET Item /\ lost \in SUBSET allocated

\* The last node of a list.
Ends(s, x) == x = IF s = <<>> THEN NULL ELSE s[Len(s)]

\* b is the last node of s, and of what the iterator has left of it, or
\* points to an item that is not in s.
Anchored(s, r, b) ==
    /\ Ends(s, b) /\ r # <<>> => Ends(r, b)
    /\ ~Ends(s, b) => b \in Item \ Members(s)

Linked ==
    /\ IsList(List, front, next, Item, NULL)
    /\ Members(List) = allocated \ lost /\ Anchored(List, Ahead, back)
    /\ IsList(Ahead, it, next, Item, NULL)
    /\ Members(Ahead) \subseteq Members(List)

QueueInv ==
    /\ QueueType
    /\ Linked
    /\ ~made => front = NULL /\ it = NULL
    /\ \A i \in allocated : data[i] \in Data

\* The lists after a step, and that they are what Linked asks for.
LEMMA LinkedNow ==
    ASSUME NEW s, NEW r, IsList(s, front, next, Item, NULL), IsList(r, it, next, Item, NULL),
           Members(s) = allocated \ lost, Anchored(s, r, back), Members(r) \subseteq Members(s)
    PROVE  Linked /\ List = s /\ Ahead = r
<1>1. NULL \notin Item /\ IsFiniteSet(Item) BY ConstantsAssumption
<1>2. List = s BY <1>1, NodesOf DEF List
<1>3. Ahead = r BY <1>1, NodesOf DEF Ahead
<1> QED BY <1>2, <1>3 DEF Linked

\* The same for the state after a step.
LEMMA LinkedNext ==
    ASSUME NEW s, NEW r, IsList(s, front', next', Item, NULL), IsList(r, it', next', Item, NULL),
           Members(s) = allocated' \ lost', Anchored(s, r, back'), Members(r) \subseteq Members(s)
    PROVE  Linked' /\ List' = s /\ Ahead' = r /\ Dangling' = ~Ends(s, back')
<1>1. NULL \notin Item /\ IsFiniteSet(Item) BY ConstantsAssumption
<1>2. List' = s BY <1>1, NodesOf DEF List
<1>3. Ahead' = r BY <1>1, NodesOf DEF Ahead
<1>4. Dangling' = ~Ends(s, back') BY <1>2 DEF Dangling, Ends, Last
<1> QED BY <1>2, <1>3, <1>4 DEF Linked
-----------------------------------------------------------------------------
\* What a list of items gives when the items hold f.
Read(s, f) == [i \in 1 .. Len(s) |-> f[s[i]]]
Values(f, S) == {f[x] : x \in S}

\* The abstract queue and the rest of the iteration are what the lists hold.
LEMMA ContentsRead ==
    Linked => Contents(front) = Read(List, data) /\ Contents(it) = Read(Ahead, data)
<1> SUFFICES ASSUME Linked
             PROVE  Contents(front) = Read(List, data) /\ Contents(it) = Read(Ahead, data)
  OBVIOUS
<1>1. DOMAIN List = 1 .. Len(List) /\ DOMAIN Ahead = 1 .. Len(Ahead)
  BY ListEmpty, ConstantsAssumption DEF Linked
<1> QED BY <1>1 DEF Contents, Read, List, Ahead

\* As many values as items, each where its item is.
LEMMA ReadLength ==
    ASSUME NEW S, NEW s \in Seq(S), NEW f
    PROVE  /\ Read(s, f) \in Seq(Values(f, S)) /\ Len(Read(s, f)) = Len(s)
           /\ \A i \in 1 .. Len(s) : Read(s, f)[i] = f[s[i]]
           /\ Read(s, f) = <<>> <=> s = <<>>
<1> DEFINE t == Read(s, f)
           V == Values(f, S)
           l == Len(s)
<1>1. l \in Nat /\ \A i \in 1 .. l : s[i] \in S OBVIOUS
<1>2. t = [i \in 1 .. l |-> f[s[i]]] BY DEF Read
<1>3. t \in [1 .. l -> V] BY <1>1, <1>2 DEF Values
<1>4. s = <<>> <=> l = 0 OBVIOUS
<1>5. \A i \in 1 .. l : t[i] = f[s[i]] BY <1>2
<1> HIDE DEF t, V, l
<1>6. t \in Seq(V) /\ Len(t) = l BY <1>1, <1>3
<1>7. t = <<>> <=> l = 0 BY <1>6
<1> QED BY <1>4, <1>5, <1>6, <1>7 DEF t, V, l

\* Equal lists of equal length.
LEMMA SameSequence ==
    ASSUME NEW S, NEW s \in Seq(S), NEW T, NEW t \in Seq(T), Len(s) = Len(t),
           \A i \in 1 .. Len(s) : s[i] = t[i]
    PROVE  s = t
<1>1. s = [i \in 1 .. Len(s) |-> s[i]] /\ t = [i \in 1 .. Len(t) |-> t[i]] OBVIOUS
<1> QED BY <1>1

\* f and g give the items of s the same values.
Agree(s, f, g) == \A i \in 1 .. Len(s) : g[s[i]] = f[s[i]]

\* Reading a list to which an item was appended.
LEMMA ReadAppend ==
    ASSUME NEW s \in Seq(Item), NEW x \in Item, NEW f, NEW g,
           Agree(s, f, g)
    PROVE  Read(Append(s, x), g) = Append(Read(s, f), g[x])
<1>0. \A i \in 1 .. Len(s) : g[s[i]] = f[s[i]] BY DEF Agree
<1> DEFINE a == Append(s, x)
           b == Read(s, f)
           V == Values(f, Item) \cup {g[x]}
<1>1. /\ a \in Seq(Item) /\ Len(s) \in Nat /\ Len(a) = Len(s) + 1 /\ a[Len(s) + 1] = x
      /\ \A i \in 1 .. Len(s) : a[i] = s[i]
  OBVIOUS
<1>2. /\ b \in Seq(Values(f, Item)) /\ Len(b) = Len(s) /\ \A i \in 1 .. Len(s) : b[i] = f[s[i]]
  BY ReadLength
<1> HIDE DEF a, b
<1>3. b \in Seq(V)
  <2>1. \A i \in 1 .. Len(s) : s[i] \in Item OBVIOUS
  <2>2. b \in [1 .. Len(s) -> V] BY <1>2, <2>1 DEF Values
  <2> HIDE DEF V
  <2> QED BY <1>1, <2>2
<1>4. g[x] \in V OBVIOUS
<1> HIDE DEF V
<1> DEFINE c == Append(b, g[x])
<1>5. /\ c \in Seq(V) /\ Len(c) = Len(s) + 1 /\ c[Len(s) + 1] = g[x]
      /\ \A i \in 1 .. Len(s) : c[i] = b[i]
  BY <1>1, <1>2, <1>3, <1>4
<1> HIDE DEF c
<1> DEFINE d == Read(a, g)
<1>6. /\ d \in Seq(Values(g, Item)) /\ Len(d) = Len(a) /\ \A i \in 1 .. Len(a) : d[i] = g[a[i]]
  BY <1>1, ReadLength
<1> HIDE DEF d
<1>7. ASSUME NEW i \in 1 .. Len(d) PROVE d[i] = c[i]
  <2>0. i \in 1 .. Len(a) /\ d[i] = g[a[i]] BY <1>6
  <2>1. i \in 1 .. Len(s) \/ i = Len(s) + 1 BY <1>1, <2>0
  <2>2. CASE i \in 1 .. Len(s) BY <1>0, <1>1, <1>2, <1>5, <2>0, <2>2
  <2>3. CASE i = Len(s) + 1 BY <1>1, <1>5, <2>0, <2>3
  <2> QED BY <2>1, <2>2, <2>3
<1>8. d = c BY <1>1, <1>5, <1>6, <1>7, SameSequence
<1> QED BY <1>8 DEF a, b, c, d

\* Reading a list without its first item.
LEMMA ReadTail ==
    ASSUME NEW S, NEW s \in Seq(S), s # <<>>, NEW f
    PROVE  /\ Read(Tail(s), f) = Tail(Read(s, f)) /\ Read(s, f) # <<>>
           /\ Head(Read(s, f)) = f[s[1]]
<1> DEFINE a == Tail(s)
           b == Read(s, f)
           V == Values(f, S)
           l == Len(s)
<1>1. /\ l \in Nat /\ l # 0 /\ 1 \in 1 .. l
      /\ a \in Seq(S) /\ Len(a) = l - 1 /\ \A i \in 1 .. l - 1 : a[i] = s[i + 1]
  OBVIOUS
<1>2. b \in Seq(V) /\ Len(b) = l /\ (\A i \in 1 .. l : b[i] = f[s[i]]) /\ b # <<>> BY ReadLength
<1> HIDE DEF a, b, V, l
<1> DEFINE c == Tail(b)
           d == Read(a, f)
<1>3. c \in Seq(V) /\ Len(c) = l - 1 /\ \A i \in 1 .. l - 1 : c[i] = b[i + 1] BY <1>1, <1>2
<1>4. d \in Seq(V) /\ Len(d) = l - 1 /\ \A i \in 1 .. l - 1 : d[i] = f[a[i]]
  BY <1>1, ReadLength DEF V
<1>5. Head(b) = f[s[1]] BY <1>1, <1>2
<1> HIDE DEF c, d
<1>6. ASSUME NEW i \in 1 .. Len(d) PROVE d[i] = c[i]
  <2>1. i \in 1 .. l - 1 /\ i + 1 \in 1 .. l BY <1>1, <1>4
  <2> QED BY <1>1, <1>2, <1>3, <1>4, <2>1
<1>7. d = c BY <1>3, <1>4, <1>6, SameSequence
<1> QED BY <1>2, <1>5, <1>7 DEF a, b, c, d

\* RemoveFirst takes out the place where the value is first.
LEMMA FirstRemoved ==
    ASSUME NEW V, NEW c \in Seq(V), NEW p \in 1 .. Len(c), NEW e, c[p] = e,
           \A j \in 1 .. p - 1 : c[j] # e
    PROVE  RemoveFirst(c, e) = Without(c, p)
<1> DEFINE I == {i \in 1 .. Len(c) : c[i] = e}
           l == Len(c)
<1>1. l \in Nat /\ p \in 1 .. l /\ \A i \in 1 .. l : c[i] \in V OBVIOUS
<1>2. p \in I /\ \A i \in I : p <= i
  <2>1. ASSUME NEW i \in I, i < p PROVE FALSE
    <3>1. i \in 1 .. p - 1 BY <1>1, <2>1
    <3> QED BY <2>1, <3>1
  <2> QED BY <1>1, <2>1
<1>3. Min(I) = p
  <2>1. \A i \in I : i \in Int OBVIOUS
  <2> HIDE DEF I
  <2>2. \A x \in I : (\A y \in I : x <= y) => x = p BY <1>2, <2>1
  <2> QED BY <1>2, <2>2 DEF Min
<1>4. RemoveFirst(c, e) = RemoveAt(c, p)
  <2>1. SelectInSeq(c, LAMBDA v : v = e) = p
    BY <1>2, <1>3 DEF SelectInSeq
  <2> QED BY <2>1 DEF RemoveFirst
<1> DEFINE a == SubSeq(c, 1, p - 1)
           b == SubSeq(c, p + 1, l)
           d == a \o b
           w == Without(c, p)
<1> HIDE DEF l
<1>5. /\ a \in Seq(V) /\ Len(a) = p - 1 /\ \A i \in 1 .. p - 1 : a[i] = c[i]
  BY <1>1 DEF l
<1>6. /\ b \in Seq(V) /\ Len(b) = l - p /\ \A i \in 1 .. l - p : b[i] = c[i + p]
  BY <1>1 DEF l
<1> HIDE DEF a, b
<1>7. /\ d \in Seq(V) /\ Len(d) = l - 1
      /\ \A i \in 1 .. l - 1 : d[i] = IF i <= p - 1 THEN a[i] ELSE b[i - (p - 1)]
  <2>1. p - 1 + (l - p) = l - 1 BY <1>1
  <2>2. /\ d \in Seq(V) /\ Len(d) = Len(a) + Len(b)
        /\ \A i \in 1 .. Len(a) + Len(b) : d[i] = IF i <= Len(a) THEN a[i] ELSE b[i - Len(a)]
    BY <1>5, <1>6, ConcatProperties
  <2> QED BY <1>5, <1>6, <2>1, <2>2
<1>8. w \in Seq(V) /\ Len(w) = l - 1 /\ \A i \in 1 .. l - 1 : w[i] = IF i < p THEN c[i] ELSE c[i + 1]
  <2>1. w = [k \in 1 .. l - 1 |-> IF k < p THEN c[k] ELSE c[k + 1]] BY DEF Without, l
  <2>2. \A k \in 1 .. l - 1 : k \in 1 .. l /\ k + 1 \in 1 .. l BY <1>1
  <2>3. w \in [1 .. l - 1 -> V] BY <1>1, <2>1, <2>2
  <2>4. l - 1 \in Nat BY <1>1
  <2>5. \A i \in 1 .. l - 1 : w[i] = IF i < p THEN c[i] ELSE c[i + 1] BY <2>1
  <2> HIDE DEF w
  <2> QED BY <2>3, <2>4, <2>5
<1> HIDE DEF d, w
<1>9. ASSUME NEW i \in 1 .. Len(d) PROVE d[i] = w[i]
  <2>0. i \in 1 .. l - 1 BY <1>7
  <2>1. CASE i < p
    <3>1. i <= p - 1 /\ i \in 1 .. p - 1 BY <1>1, <2>0, <2>1
    <3> QED BY <1>5, <1>7, <1>8, <2>0, <2>1, <3>1
  <2>2. CASE ~(i < p)
    <3>1. ~(i <= p - 1) /\ i - (p - 1) \in 1 .. l - p /\ i - (p - 1) + p = i + 1
      BY <1>1, <2>0, <2>2
    <3>2. b[i - (p - 1)] = c[i - (p - 1) + p] BY <1>6, <3>1
    <3> QED BY <1>7, <1>8, <2>0, <2>2, <3>1, <3>2
  <2> QED BY <2>1, <2>2
<1>10. d = w BY <1>7, <1>8, <1>9, SameSequence
<1> QED BY <1>4, <1>10 DEF RemoveAt, a, b, d, w, l

\* Reading and taking out commute.
LEMMA ReadWithout ==
    ASSUME NEW S, NEW s \in Seq(S), NEW p \in 1 .. Len(s), NEW f
    PROVE  Read(Without(s, p), f) = Without(Read(s, f), p)
<1> DEFINE l == Len(s)
           w == Without(s, p)
           c == Read(s, f)
<1>1. l \in Nat /\ \A k \in 1 .. l - 1 : k \in 1 .. l /\ k + 1 \in 1 .. l OBVIOUS
<1>2. w = [k \in 1 .. l - 1 |-> IF k < p THEN s[k] ELSE s[k + 1]] BY DEF Without
<1>3. Len(w) = l - 1
  <2>1. l - 1 \in Nat OBVIOUS
  <2>2. w \in [1 .. l - 1 -> S] BY <1>1, <1>2
  <2> HIDE DEF w, l
  <2>3. w \in Seq(S) /\ Len(w) = l - 1 BY <2>1, <2>2
  <2> QED BY <2>3
<1>4. Len(c) = l /\ \A k \in 1 .. l : c[k] = f[s[k]] BY ReadLength
<1> HIDE DEF w, c, l
<1>5. Read(w, f) = [k \in 1 .. l - 1 |-> IF k < p THEN f[s[k]] ELSE f[s[k + 1]]]
  BY <1>2, <1>3 DEF Read
<1>6. Without(c, p) = [k \in 1 .. l - 1 |-> IF k < p THEN f[s[k]] ELSE f[s[k + 1]]]
  BY <1>1, <1>4 DEF Without
<1> QED BY <1>5, <1>6 DEF w, c
-----------------------------------------------------------------------------
\* Lists s and r stand for the queue and for what its iterator has left.
Shape(s, r) ==
    /\ IsList(s, front, next, Item, NULL) /\ Members(s) = allocated \ lost
    /\ Anchored(s, r, back)
    /\ IsList(r, it, next, Item, NULL) /\ Members(r) \subseteq Members(s)

\* The empty list.
LEMMA NoItems == Members(<<>>) = {} /\ Ends(<<>>, NULL) /\ Anchored(<<>>, <<>>, NULL)
<1>1. Len(<<>>) = 0 /\ 1 .. 0 = {} OBVIOUS
<1> QED BY <1>1 DEF Members, Ends, Anchored

\* The last node of a list is one of its members.
LEMMA LastIsMember ==
    ASSUME NEW s \in Seq(Item), NEW b, Ends(s, b)
    PROVE  IF s = <<>> THEN b = NULL ELSE b \in Members(s) /\ b = s[Len(s)]
<1>1. s # <<>> => Len(s) \in 1 .. Len(s) OBVIOUS
<1> QED BY <1>1 DEF Ends, Members

\* Without an iterator, a pointer to an item outside the list is anchored.
LEMMA Outside ==
    ASSUME NEW s \in Seq(Item), NEW r, NEW b \in Item \ Members(s)
    PROVE  Anchored(s, r, b) /\ ~Ends(s, b)
<1>1. ~Ends(s, b) BY LastIsMember, ConstantsAssumption
<1> QED BY <1>1 DEF Anchored

\* What the operations find.
LEMMA QueueFacts ==
    ASSUME QueueInv
    PROVE  \E s, r \in Seq(Item) :
             /\ Shape(s, r) /\ List = s
             /\ Contents(front) = Read(s, data) /\ Contents(it) = Read(r, data)
             /\ front = NULL <=> s = <<>>
             /\ it = NULL <=> r = <<>>
             /\ Dangling = ~Ends(s, back)
             /\ ~Dangling => (back = NULL <=> s = <<>>)
             /\ Dangling => back \in Item \ Members(s)
<1>1. Linked BY DEF QueueInv
<1>2. Shape(List, Ahead) BY <1>1 DEF Linked, Shape
<1>3. List \in Seq(Item) /\ Ahead \in Seq(Item)
      /\ (front = NULL <=> List = <<>>) /\ (it = NULL <=> Ahead = <<>>)
  BY <1>1, ListEmpty, ConstantsAssumption DEF Linked
<1>4. Dangling = ~Ends(List, back) BY DEF Dangling, Ends, Last
<1>5. ~Dangling => (back = NULL <=> List = <<>>)
  <2>1. List # <<>> => List[Len(List)] \in Item BY <1>3
  <2> QED BY <1>4, <2>1, ConstantsAssumption DEF Ends
<1>6. Dangling => back \in Item \ Members(List) BY <1>1, <1>4 DEF Linked, Anchored
<1> QED BY <1>1, <1>2, <1>3, <1>4, <1>5, <1>6, ContentsRead

\* What they leave.
LEMMA QueueLeft ==
    ASSUME NEW s, NEW r, QueueType', IsList(s, front', next', Item, NULL),
           IsList(r, it', next', Item, NULL), Members(s) = allocated' \ lost',
           Anchored(s, r, back'), Members(r) \subseteq Members(s),
           made' \/ (front' = NULL /\ it' = NULL), \A i \in allocated' : data'[i] \in Data
    PROVE  /\ QueueInv' /\ (Contents(front))' = Read(s, data') /\ (Contents(it))' = Read(r, data')
           /\ Dangling' = ~Ends(s, back')
<1>1. Linked' /\ List' = s /\ Ahead' = r /\ Dangling' = ~Ends(s, back') BY LinkedNext
<1>2. Linked' => (Contents(front) = Read(List, data) /\ Contents(it) = Read(Ahead, data))'
  BY ContentsRead, PTL
<1>3. (Contents(front))' = Read(s, data') /\ (Contents(it))' = Read(r, data') BY <1>1, <1>2
<1> QED BY <1>1, <1>3 DEF QueueInv

\* The empty list gives nothing.
LEMMA ReadNothing == ASSUME NEW f PROVE Read(<<>>, f) = <<>>
BY DEF Read

\* The client has no queue yet.
LEMMA InitQueue == Init => QueueInv /\ Abstract!Init
<1> SUFFICES ASSUME Init PROVE QueueInv /\ Abstract!Init OBVIOUS
<1>1. QueueType BY DEF Init, QueueType
<1>2. IsList(<<>>, NULL, next, Item, NULL) BY NullList
<1>3. Linked /\ List = <<>> /\ Ahead = <<>> BY <1>2, NoItems, LinkedNow DEF Init
<1>4. Contents(front) = <<>> /\ Contents(it) = <<>> BY <1>3, ContentsRead, ReadNothing
<1>5. Seen = Answer("none", NULL) BY DEF Init, Seen, Answer
<1>6. QueueInv BY <1>1, <1>3 DEF QueueInv, Init
<1>7. Dangling = FALSE BY <1>3 DEF Dangling, Init
<1> QED BY <1>4, <1>5, <1>6, <1>7 DEF Init, Abstract!Init, Abstract!Answer, Answer

\* init_queue makes an empty queue.
LEMMA InitQueueStep ==
    ASSUME QueueInv, init_queue
    PROVE  QueueInv' /\ Abstract!Make
<1>1. PICK s, r \in Seq(Item) : Shape(s, r) /\ (front = NULL <=> s = <<>>) BY QueueFacts
<1>2. front = NULL /\ ~made BY DEF QueueInv, init_queue
<1>3. allocated \ lost = {} BY <1>1, <1>2, NoItems DEF Shape
<1>4. QueueType' /\ \A i \in allocated' : data'[i] \in Data
  BY DEF QueueInv, QueueType, init_queue
<1>5. IsList(<<>>, NULL, next', Item, NULL) BY NullList
<1>6. QueueInv' /\ (Contents(front))' = <<>> /\ (Contents(it))' = <<>> /\ Dangling' = FALSE
  BY <1>3, <1>4, <1>5, NoItems, QueueLeft, ReadNothing DEF init_queue
<1>7. Seen' = Answer("init", 0) BY DEF init_queue, Seen, Answer
<1> QED BY <1>2, <1>6, <1>7 DEF init_queue, Abstract!Make, Abstract!Answer, Answer

\* queue_not_empty, queue_peek, and a step that changes nothing.
LEMMA QuietStep ==
    ASSUME QueueInv, UNCHANGED <<made, front, back, next, data, allocated, it, lost>>
    PROVE  /\ QueueInv' /\ (Contents(front))' = Contents(front) /\ (Contents(it))' = Contents(it)
           /\ Dangling' = Dangling
<1>1. QueueType' BY DEF QueueInv, QueueType
<1>2. Linked' BY DEF QueueInv, Linked, List, Ahead
<1> QED BY <1>1, <1>2 DEF QueueInv, Contents, Dangling, List

\* queue_not_empty tells whether the sequence is empty.
LEMMA NotEmptyStep ==
    ASSUME QueueInv, queue_not_empty
    PROVE  QueueInv' /\ Abstract!NotEmpty
<1>1. PICK s, r \in Seq(Item) : Contents(front) = Read(s, data) /\ (front = NULL <=> s = <<>>)
  BY QueueFacts
<1>2. Contents(front) = <<>> <=> front = NULL BY <1>1, ReadLength
<1>3. /\ QueueInv' /\ (Contents(front))' = Contents(front) /\ (Contents(it))' = Contents(it)
      /\ Dangling' = Dangling
  BY QuietStep DEF queue_not_empty
<1>4. Seen' = res' BY DEF queue_not_empty, Seen, Answer
<1> QED BY <1>2, <1>3, <1>4 DEF queue_not_empty, Abstract!NotEmpty, Abstract!Answer, Answer

\* queue_peek leads to the first value.
LEMMA PeekStep ==
    ASSUME QueueInv, queue_peek
    PROVE  QueueInv' /\ Abstract!Peek
<1>1. PICK s, r \in Seq(Item) :
        Shape(s, r) /\ Contents(front) = Read(s, data) /\ (front = NULL <=> s = <<>>)
  BY QueueFacts
<1>2. /\ QueueInv' /\ (Contents(front))' = Contents(front) /\ (Contents(it))' = Contents(it)
      /\ Dangling' = Dangling
  BY QuietStep DEF queue_peek
<1>3. CASE s = <<>>
  <2>1. Contents(front) = <<>> /\ Seen' = Answer("peek", NULL)
    BY <1>1, <1>3, ReadNothing DEF queue_peek, Seen, Answer
  <2> QED BY <1>2, <2>1 DEF queue_peek, Abstract!Peek, Abstract!Answer, Answer
<1>4. CASE s # <<>>
  <2>1. front = s[1] BY <1>1, <1>4 DEF Shape, IsList
  <2>2. Contents(front) # <<>> /\ Head(Contents(front)) = data[front]
    BY <1>1, <1>4, <2>1, ReadTail
  <2>3. Seen' = Answer("peek", data[front])
    BY <1>1, <1>4 DEF queue_peek, Seen, Answer
  <2> QED BY <1>2, <2>2, <2>3 DEF queue_peek, Abstract!Peek, Abstract!Answer, Answer
<1> QED BY <1>3, <1>4

\* The items after one is appended.
LEMMA MembersAppend ==
    ASSUME NEW s \in Seq(Item), NEW i \in Item
    PROVE  Members(Append(s, i)) = Members(s) \cup {i} /\ Ends(Append(s, i), i)
<1> DEFINE a == Append(s, i)
           l == Len(s)
<1>1. /\ l \in Nat /\ Len(a) = l + 1 /\ a[l + 1] = i /\ a # <<>>
      /\ \A j \in 1 .. l : a[j] = s[j]
  OBVIOUS
<1> HIDE DEF a, l
<1>2. 1 .. l + 1 = (1 .. l) \cup {l + 1} BY <1>1
<1>3. Members(a) = {a[j] : j \in 1 .. l} \cup {i} BY <1>1, <1>2 DEF Members
<1>4. {a[j] : j \in 1 .. l} = {s[j] : j \in 1 .. l} BY <1>1
<1> QED BY <1>1, <1>3, <1>4 DEF Members, Ends, a, l

\* A list that ends in back goes on to the item that is pushed.
LEMMA PushedList ==
    ASSUME QueueType, NEW i \in Item \ allocated, NEW first, NEW l \in Seq(Item),
           IsList(l, first, next, Item, NULL), l # <<>>, Members(l) \subseteq allocated,
           Ends(l, back), next' = [next EXCEPT ![i] = NULL, ![back] = i]
    PROVE  IsList(Append(l, i), first, next', Item, NULL)
<1>1. /\ Len(l) \in Nat /\ Len(l) \in 1 .. Len(l)
      /\ \A j, k \in 1 .. Len(l) : l[j] = l[k] => j = k
  BY ListEmpty, ConstantsAssumption
<1>2. \A j \in 1 .. Len(l) : l[j] \in allocated /\ l[j] \in Item /\ l[j] # i
  BY DEF Members, QueueType
<1>3. back = l[Len(l)] BY DEF Ends
<1>4. next'[i] = NULL /\ next'[back] = i BY <1>1, <1>2, <1>3 DEF QueueType
<1>5. \A j \in 1 .. Len(l) : j # Len(l) => next'[l[j]] = next[l[j]]
  BY <1>1, <1>2, <1>3 DEF QueueType
<1> DEFINE new == next'
<1>6. new[i] = NULL /\ new[l[Len(l)]] = i /\ \A j \in 1 .. Len(l) : j # Len(l) => new[l[j]] = next[l[j]]
  BY <1>3, <1>4, <1>5
<1> HIDE DEF new
<1>7. NULL \notin Item /\ i \in Item BY ConstantsAssumption
<1>8. IsList(Append(l, i), first, new, Item, NULL)
  BY <1>2, <1>6, <1>7, ListAppend
<1> QED BY <1>8 DEF new

\* Values of items that are not written.
LEMMA ReadSame ==
    ASSUME NEW s \in Seq(Item), NEW f, NEW g, Agree(s, f, g)
    PROVE  Read(s, g) = Read(s, f)
BY DEF Read, Agree

\* While back points outside the list, queue_push leaves the list alone.
LEMMA PushLost ==
    ASSUME QueueInv, NEW i \in Item, NEW d \in Data, queue_push(i, d), Dangling
    PROVE  QueueInv' /\ Abstract!Push(d)
<1>1. PICK s, r \in Seq(Item) :
        /\ Shape(s, r) /\ Contents(front) = Read(s, data) /\ Contents(it) = Read(r, data)
        /\ Dangling = ~Ends(s, back) /\ back \in Item \ Members(s)
  BY QueueFacts
<1>2. /\ QueueType /\ i \notin allocated /\ made /\ made' = made /\ it' = it /\ back' = i
      /\ allocated' = allocated \cup {i} /\ lost' = lost \cup {i} /\ data' = [data EXCEPT ![i] = d]
      /\ front' = front /\ next' = [next EXCEPT ![i] = NULL, ![back] = i]
  BY <1>1, ConstantsAssumption DEF QueueInv, queue_push
<1>3. QueueType' BY <1>1, <1>2 DEF QueueType
<1>4. i \notin Members(s) /\ Members(s) \subseteq allocated /\ Members(r) \subseteq Members(s)
  BY <1>1, <1>2 DEF Shape
<1>5. \A x \in Members(s) : data'[x] = data[x] /\ next'[x] = next[x]
  BY <1>1, <1>2, <1>4 DEF QueueType
<1>6. \A j \in 1 .. Len(s) : s[j] \in Members(s) BY DEF Members
<1>7. \A j \in 1 .. Len(r) : r[j] \in Members(s) BY <1>4 DEF Members
<1>8. IsList(s, front', next', Item, NULL) /\ IsList(r, it', next', Item, NULL)
  <2> DEFINE new == next'
  <2>1. (\A j \in 1 .. Len(s) : new[s[j]] = next[s[j]]) /\ \A j \in 1 .. Len(r) : new[r[j]] = next[r[j]]
    BY <1>5, <1>6, <1>7
  <2> HIDE DEF new
  <2>2. IsList(s, front, new, Item, NULL) /\ IsList(r, it, new, Item, NULL)
    BY <1>1, <2>1, ListFrame DEF Shape
  <2> QED BY <1>2, <2>2 DEF new
<1>9. Anchored(s, r, back') /\ ~Ends(s, back') BY <1>2, <1>4, Outside
<1>10. \A x \in allocated' : data'[x] \in Data
  BY <1>2 DEF QueueInv, QueueType
<1>11. Members(s) = allocated' \ lost' BY <1>1, <1>2, <1>4 DEF Shape
<1>12. /\ QueueInv' /\ (Contents(front))' = Read(s, data') /\ (Contents(it))' = Read(r, data')
       /\ Dangling' = ~Ends(s, back')
  BY <1>2, <1>3, <1>4, <1>8, <1>9, <1>10, <1>11, QueueLeft
<1>13. Read(s, data') = Read(s, data) /\ Read(r, data') = Read(r, data)
  <2> DEFINE g == data'
  <2>1. Agree(s, data, g) /\ Agree(r, data, g) BY <1>5, <1>6, <1>7 DEF Agree
  <2> HIDE DEF g
  <2>2. Read(s, g) = Read(s, data) /\ Read(r, g) = Read(r, data) BY <2>1, ReadSame
  <2> QED BY <2>2 DEF g
<1>14. Seen' = Answer("push", NULL) BY DEF queue_push, Seen, Answer
<1>15. Dangling' = Dangling BY <1>1, <1>9, <1>12
<1> QED BY <1>1, <1>2, <1>12, <1>13, <1>14, <1>15 DEF Abstract!Push, Abstract!Answer, Answer

\* queue_push appends to the sequence and to what the iterator has left.
LEMMA PushStep ==
    ASSUME QueueInv, NEW i \in Item, NEW d \in Data, queue_push(i, d), ~Dangling
    PROVE  QueueInv' /\ Abstract!Push(d)
<1>1. PICK s, r \in Seq(Item) :
        /\ Shape(s, r) /\ Contents(front) = Read(s, data) /\ Contents(it) = Read(r, data)
        /\ front = NULL <=> s = <<>>
        /\ it = NULL <=> r = <<>>
        /\ back = NULL <=> s = <<>>
        /\ Ends(s, back) /\ (r # <<>> => Ends(r, back)) /\ Members(s) \subseteq allocated
  <2>1. PICK s, r \in Seq(Item) :
          /\ Shape(s, r) /\ Contents(front) = Read(s, data) /\ Contents(it) = Read(r, data)
          /\ front = NULL <=> s = <<>>
          /\ it = NULL <=> r = <<>>
          /\ Dangling = ~Ends(s, back)
          /\ ~Dangling => (back = NULL <=> s = <<>>)
    BY QueueFacts
  <2>2. Ends(s, back) /\ (r # <<>> => Ends(r, back)) /\ Members(s) \subseteq allocated
    BY <2>1 DEF Shape, Anchored
  <2> QED BY <2>1, <2>2
<1>2. QueueType /\ i \notin allocated /\ made /\ made' /\ made' = made /\ it' = it /\ back' = i
      /\ allocated' = allocated \cup {i} /\ data' = [data EXCEPT ![i] = d] /\ lost' = lost
  BY DEF QueueInv, QueueType, queue_push
<1>3. QueueType'
  BY <1>2 DEF QueueType, queue_push
<1>4. data'[i] = d /\ \A j \in allocated : data'[j] = data[j] BY <1>2 DEF QueueType
<1>5. \A j \in allocated' : data'[j] \in Data BY <1>2, <1>4 DEF QueueInv
<1> DEFINE q == IF r = <<>> THEN <<>> ELSE Append(r, i)
<1>6. IsList(Append(s, i), front', next', Item, NULL) /\ IsList(q, it', next', Item, NULL)
  <2>1. CASE s = <<>>
    <3>1. front' = i /\ next'[i] = NULL BY <1>1, <1>2, <2>1 DEF queue_push, QueueType
    <3>2. Append(s, i) = <<i>> BY <2>1
    <3>3. IsList(Append(s, i), front', next', Item, NULL)
      <4> DEFINE new == next'
      <4>1. new[i] = NULL BY <3>1
      <4> HIDE DEF new
      <4>2. IsList(<<i>>, i, new, Item, NULL) BY <4>1, ListOne
      <4> QED BY <3>1, <3>2, <4>2 DEF new
    <3>4. r = <<>>
      <4>1. Members(r) = {} BY <1>1, <2>1, NoItems DEF Shape
      <4>2. r # <<>> => 1 \in 1 .. Len(r) OBVIOUS
      <4> QED BY <4>1, <4>2 DEF Members
    <3>5. IsList(q, it', next', Item, NULL) BY <1>1, <1>2, <3>4, NullList
    <3> QED BY <3>3, <3>5
  <2>2. CASE s # <<>>
    <3>1. front' = front /\ next' = [next EXCEPT ![i] = NULL, ![back] = i]
      BY <1>1, <2>2 DEF queue_push
    <3>2. IsList(Append(s, i), front', next', Item, NULL)
      BY <1>1, <1>2, <2>2, <3>1, PushedList DEF Shape
    <3>3. r # <<>> => IsList(Append(r, i), it', next', Item, NULL)
      BY <1>1, <1>2, <3>1, PushedList DEF Shape
    <3> QED BY <1>1, <1>2, <3>2, <3>3, NullList
  <2> QED BY <2>1, <2>2
<1>7. /\ Members(Append(s, i)) = allocated' \ lost' /\ Anchored(Append(s, i), q, back')
      /\ Members(q) \subseteq Members(Append(s, i)) /\ Ends(Append(s, i), back')
  <2>1. /\ Members(Append(s, i)) = Members(s) \cup {i} /\ Ends(Append(s, i), i)
        /\ Members(Append(r, i)) = Members(r) \cup {i} /\ Ends(Append(r, i), i)
    BY MembersAppend
  <2>2. i \notin lost BY <1>2 DEF QueueType
  <2> QED BY <1>1, <1>2, <2>1, <2>2, NoItems DEF Shape, Anchored
<1>8. /\ QueueInv' /\ (Contents(front))' = Read(Append(s, i), data') /\ (Contents(it))' = Read(q, data')
      /\ Dangling' = FALSE
  <2> HIDE DEF q
  <2> DEFINE a == Append(s, i)
  <2> HIDE DEF a
  <2>1. /\ IsList(a, front', next', Item, NULL) /\ IsList(q, it', next', Item, NULL)
        /\ Members(a) = allocated' \ lost' /\ Anchored(a, q, back')
        /\ Members(q) \subseteq Members(a) /\ Ends(a, back')
    BY <1>6, <1>7 DEF a
  <2>2. /\ QueueInv' /\ (Contents(front))' = Read(a, data') /\ (Contents(it))' = Read(q, data')
        /\ Dangling' = FALSE
    BY <1>2, <1>3, <1>5, <2>1, QueueLeft
  <2> QED BY <2>2 DEF a
<1>9. \A k \in 1 .. Len(s) : data'[s[k]] = data[s[k]] BY <1>1, <1>4 DEF Shape, Members
<1>10. \A k \in 1 .. Len(r) : data'[r[k]] = data[r[k]] BY <1>1, <1>4 DEF Shape, Members
<1>11. Read(Append(s, i), data') = Append(Read(s, data), d)
  <2> DEFINE g == data'
  <2>1. g[i] = d /\ Agree(s, data, g) BY <1>4, <1>9 DEF Agree
  <2> HIDE DEF g
  <2>2. Read(Append(s, i), g) = Append(Read(s, data), g[i])
    BY <2>1, ReadAppend
  <2> QED BY <2>1, <2>2 DEF g
<1>12. Read(q, data') = IF Read(r, data) = <<>> THEN <<>> ELSE Append(Read(r, data), d)
  <2> DEFINE g == data'
  <2>1. g[i] = d /\ Agree(r, data, g) BY <1>4, <1>10 DEF Agree
  <2> HIDE DEF g
  <2>2. Read(Append(r, i), g) = Append(Read(r, data), g[i])
    BY <2>1, ReadAppend
  <2>3. Read(r, data) = <<>> <=> r = <<>> BY ReadLength
  <2>4. Read(q, g) = IF r = <<>> THEN <<>> ELSE Append(Read(r, data), d)
    BY <2>1, <2>2, ReadNothing
  <2> QED BY <2>3, <2>4 DEF g
<1>13. Seen' = Answer("push", NULL) BY DEF queue_push, Seen, Answer
<1>14. (Contents(front))' = Append(Contents(front), d) BY <1>1, <1>8, <1>11
<1>15. (Contents(it))' = IF Contents(it) = <<>> THEN <<>> ELSE Append(Contents(it), d)
  BY <1>1, <1>8, <1>12
<1>16. Dangling' = Dangling
  <2>1. Dangling = FALSE BY DEF Dangling
  <2> QED BY <1>8, <2>1
<1> QED BY <1>2, <1>8, <1>13, <1>14, <1>15, <1>16 DEF Abstract!Push, Abstract!Answer, Answer

\* The last node stays the last, unless it is the one that is taken out.
LEMMA EndsWithout ==
    ASSUME NEW s \in Seq(Item), \A i, j \in 1 .. Len(s) : s[i] = s[j] => i = j,
           NEW p \in 1 .. Len(s)
    PROVE  /\ Members(Without(s, p)) = Members(s) \ {s[p]}
           /\ p # Len(s) => Ends(Without(s, p), s[Len(s)])
           /\ Len(s) = 1 => Without(s, p) = <<>>
<1> DEFINE t == Without(s, p)
<1>1. /\ Len(t) = Len(s) - 1 /\ Members(t) = Members(s) \ {s[p]}
      /\ p # Len(s) => t # <<>> /\ t[Len(s) - 1] = s[Len(s)]
      /\ Len(s) = 1 => t = <<>>
  BY MembersWithout
<1> HIDE DEF t
<1>2. p # Len(s) => Ends(t, s[Len(s)]) BY <1>1 DEF Ends
<1> QED BY <1>1, <1>2 DEF t

LEMMA EmptyLength ==
    ASSUME NEW S, NEW t \in Seq(S), NEW l, l = Len(t)
    PROVE  t = <<>> <=> l = 0
OBVIOUS

LEMMA TailLength ==
    ASSUME NEW s \in Seq(Item), s # <<>>
    PROVE  /\ Tail(s) \in Seq(Item) /\ Len(Tail(s)) = Len(s) - 1
           /\ Tail(s) = <<>> <=> Len(Tail(s)) = 0
<1> DEFINE t == Tail(s)
<1>1. t \in Seq(Item) /\ Len(t) = Len(s) - 1 OBVIOUS
<1> HIDE DEF t
<1>2. t = <<>> <=> Len(t) = 0 BY <1>1, EmptyLength
<1> QED BY <1>1, <1>2 DEF t

\* queue_pop takes the first value.
LEMMA PopStep ==
    ASSUME QueueInv, queue_pop
    PROVE  QueueInv' /\ Abstract!Pop
<1>1. PICK s, r \in Seq(Item) :
        /\ Shape(s, r) /\ Contents(front) = Read(s, data)
        /\ front = NULL <=> s = <<>>
        /\ Dangling = ~Ends(s, back)
  BY QueueFacts
<1>2. /\ QueueType /\ made /\ made' /\ made' = made /\ it' = NULL /\ next' = next /\ data' = data
      /\ lost' = lost
  BY DEF QueueInv, queue_pop
<1>3. IsList(<<>>, it', next', Item, NULL) BY <1>2, NullList
<1>4. CASE s = <<>>
  <2>1. front = NULL /\ front' = front /\ back' = back /\ allocated' = allocated
    BY <1>1, <1>4 DEF queue_pop
  <2>2. QueueType' BY <1>2, <2>1 DEF QueueType
  <2>3. \A i \in allocated' : data'[i] \in Data BY <1>2, <2>1 DEF QueueInv
  <2>4. /\ QueueInv' /\ (Contents(front))' = Read(s, data') /\ (Contents(it))' = Read(<<>>, data')
        /\ Dangling' = Dangling
    <3>1. Anchored(s, <<>>, back') BY <1>1, <2>1 DEF Shape, Anchored
    <3>2. Members(<<>>) \subseteq Members(s) BY NoItems
    <3> QED BY <1>1, <1>2, <1>3, <2>1, <2>2, <2>3, <3>1, <3>2, QueueLeft DEF Shape
  <2>5. Seen' = Answer("pop", NULL) BY <2>1 DEF queue_pop, Seen, Answer
  <2>6. Contents(front) = <<>> /\ (Contents(front))' = <<>> /\ (Contents(it))' = <<>>
    BY <1>1, <1>4, <2>4, ReadNothing
  <2> QED BY <1>2, <2>4, <2>5, <2>6 DEF Abstract!Pop, Abstract!Answer, Answer
<1>5. CASE s # <<>>
  <2> DEFINE t == Tail(s)
  <2>1. /\ front # NULL /\ front' = next[front] /\ allocated' = allocated \ {front}
        /\ back' = IF next[front] = NULL THEN NULL ELSE back
    BY <1>1, <1>5 DEF queue_pop
  <2>2. IsList(s, front, next, Item, NULL) /\ NULL \notin Item
    BY <1>1, ConstantsAssumption DEF Shape
  <2>3. /\ Len(s) \in Nat /\ 1 \in 1 .. Len(s) /\ front = s[1] /\ front \in Item
        /\ \A i, j \in 1 .. Len(s) : s[i] = s[j] => i = j
    BY <1>5, <2>2, ListEmpty
  <2>4. IsList(t, front', next', Item, NULL) /\ (next[front] = NULL <=> Len(s) = 1)
    BY <1>2, <1>5, <2>1, <2>2, ListTail
  <2>5. t = Without(s, 1) BY <1>5, TailWithout
  <2>6. /\ Members(t) = Members(s) \ {s[1]}
        /\ 1 # Len(s) => Ends(t, s[Len(s)])
        /\ Len(s) = 1 => t = <<>>
    BY <2>3, <2>5, EndsWithout
  <2>7. Members(t) = allocated' \ lost' /\ front \notin lost
    <3>1. front \in Members(s) BY <2>3 DEF Members
    <3>2. Members(s) = allocated \ lost BY <1>1 DEF Shape
    <3> QED BY <1>2, <2>1, <2>3, <2>6, <3>1, <3>2
  <2>8. Anchored(t, <<>>, back') /\ (~Ends(t, back') <=> Dangling /\ Len(s) # 1)
    <3>1. CASE Len(s) = 1
      <4>1. t = <<>> /\ back' = NULL BY <2>1, <2>4, <2>6, <3>1
      <4> QED BY <3>1, <4>1, NoItems
    <3>2. CASE Len(s) # 1 /\ Ends(s, back)
      <4>1. back' = s[Len(s)] BY <1>5, <2>1, <2>4, <3>2 DEF Ends
      <4>2. Ends(t, back') BY <2>6, <3>2, <4>1
      <4> QED BY <1>1, <3>2, <4>2 DEF Anchored
    <3>3. CASE Len(s) # 1 /\ ~Ends(s, back)
      <4>1. back' = back BY <2>1, <2>4, <3>3
      <4>2. back \in Item \ Members(t) BY <1>1, <2>6, <3>3 DEF Shape, Anchored
      <4>3. t \in Seq(Item) BY <1>5
      <4> HIDE DEF t
      <4> QED BY <1>1, <3>3, <4>1, <4>2, <4>3, Outside
    <3> QED BY <3>1, <3>2, <3>3
  <2>9. QueueType'
    BY <1>2, <2>1, <2>3, <2>7 DEF QueueType
  <2>10. \A i \in allocated' : data'[i] \in Data BY <1>2, <2>1 DEF QueueInv
  <2> HIDE DEF t
  <2>11. /\ QueueInv' /\ (Contents(front))' = Read(t, data') /\ (Contents(it))' = Read(<<>>, data')
         /\ Dangling' = ~Ends(t, back')
    <3>1. Members(<<>>) \subseteq Members(t) BY NoItems
    <3> QED BY <1>2, <1>3, <2>4, <2>7, <2>8, <2>9, <2>10, <3>1, QueueLeft
  <2>12. Read(t, data) = Tail(Read(s, data)) /\ Read(s, data) # <<>> /\ Head(Read(s, data)) = data[s[1]]
    BY <1>5, ReadTail DEF t
  <2>13. /\ Contents(front) # <<>> /\ Head(Contents(front)) = data[front]
         /\ (Contents(front))' = Tail(Contents(front)) /\ (Contents(it))' = <<>>
    BY <1>1, <1>2, <2>3, <2>11, <2>12, ReadNothing
  <2>14. Seen' = Answer("pop", data[front]) BY <2>1 DEF queue_pop, Seen, Answer
  <2>15. Tail(Contents(front)) # <<>> <=> Len(s) # 1
    <3>1. /\ Tail(s) \in Seq(Item) /\ Len(Tail(s)) = Len(s) - 1
          /\ Tail(s) = <<>> <=> Len(Tail(s)) = 0
      BY <1>5, TailLength
    <3>2. Read(Tail(s), data) = <<>> <=> Len(Tail(s)) = 0 BY <3>1, ReadLength
    <3>3. Len(s) - 1 = 0 <=> Len(s) = 1 BY <2>3
    <3>4. Tail(Contents(front)) = Read(Tail(s), data) BY <1>1, <2>12 DEF t
    <3> QED BY <3>1, <3>2, <3>3, <3>4
  <2>16. Dangling' = (Dangling /\ Tail(Contents(front)) # <<>>) BY <2>8, <2>11, <2>15
  <2> QED BY <1>2, <2>11, <2>13, <2>14, <2>16 DEF Abstract!Pop, Abstract!Answer, Answer
<1> QED BY <1>4, <1>5

\* iterator starts at the first value.
LEMMA IteratorStep ==
    ASSUME QueueInv, iterator
    PROVE  QueueInv' /\ Abstract!Iterate
<1>1. PICK s, r \in Seq(Item) :
        Shape(s, r) /\ Contents(front) = Read(s, data) /\ Dangling = ~Ends(s, back)
  BY QueueFacts
<1>2. /\ QueueType /\ made /\ made' /\ made' = made /\ it' = front /\ front' = front /\ back' = back
      /\ next' = next /\ data' = data /\ allocated' = allocated /\ lost' = lost
  BY DEF QueueInv, iterator
<1>3. QueueType' BY <1>2 DEF QueueType
<1>4. \A i \in allocated' : data'[i] \in Data BY <1>2 DEF QueueInv
<1>5. /\ QueueInv' /\ (Contents(front))' = Read(s, data') /\ (Contents(it))' = Read(s, data')
      /\ Dangling' = Dangling
  <2>1. Anchored(s, s, back') BY <1>1, <1>2 DEF Shape, Anchored
  <2> QED BY <1>1, <1>2, <1>3, <1>4, <2>1, QueueLeft DEF Shape
<1>6. Seen' = Answer("iterator", NULL) BY DEF iterator, Seen, Answer
<1> QED BY <1>1, <1>2, <1>5, <1>6 DEF Abstract!Iterate, Abstract!Answer, Answer

\* next gives the first value that is left.
LEMMA NextElementStep ==
    ASSUME QueueInv, next_element
    PROVE  QueueInv' /\ Abstract!NextElement
<1>1. PICK s, r \in Seq(Item) :
        /\ Shape(s, r) /\ Contents(front) = Read(s, data) /\ Contents(it) = Read(r, data)
        /\ it = NULL <=> r = <<>>
        /\ Dangling = ~Ends(s, back)
  BY QueueFacts
<1>2. /\ QueueType /\ made /\ made' /\ made' = made /\ front' = front /\ back' = back
      /\ next' = next /\ data' = data /\ allocated' = allocated /\ lost' = lost
  BY DEF QueueInv, next_element
<1>3. \A i \in allocated' : data'[i] \in Data BY <1>2 DEF QueueInv
<1>4. CASE r = <<>>
  <2>1. it = NULL /\ it' = it BY <1>1, <1>4 DEF next_element
  <2>2. QueueType' BY <1>2, <2>1 DEF QueueType
  <2>3. /\ QueueInv' /\ (Contents(front))' = Read(s, data') /\ (Contents(it))' = Read(r, data')
        /\ Dangling' = Dangling
    BY <1>1, <1>2, <1>3, <2>1, <2>2, QueueLeft DEF Shape
  <2>4. Contents(it) = <<>> BY <1>1, <1>4, ReadNothing
  <2>5. Seen' = Answer("next", NULL) BY <2>1 DEF next_element, Seen, Answer
  <2> QED BY <1>1, <1>2, <2>3, <2>4, <2>5 DEF Abstract!NextElement, Abstract!Answer, Answer
<1>5. CASE r # <<>>
  <2> DEFINE t == Tail(r)
  <2>1. it # NULL /\ it' = next[it] BY <1>1, <1>5 DEF next_element
  <2>2. IsList(r, it, next, Item, NULL) /\ NULL \notin Item
    BY <1>1, ConstantsAssumption DEF Shape
  <2>3. /\ Len(r) \in Nat /\ 1 \in 1 .. Len(r) /\ it = r[1] /\ it \in Item
        /\ \A i, j \in 1 .. Len(r) : r[i] = r[j] => i = j
    BY <1>5, <2>2, ListEmpty
  <2>4. IsList(t, it', next', Item, NULL) BY <1>2, <1>5, <2>1, <2>2, ListTail
  <2>5. t = Without(r, 1) BY <1>5, TailWithout
  <2>6. /\ Members(t) = Members(r) \ {r[1]}
        /\ 1 # Len(r) => Ends(t, r[Len(r)])
        /\ Len(r) = 1 => t = <<>>
    BY <2>3, <2>5, EndsWithout
  <2>7. Ends(s, back) => back = r[Len(r)] BY <1>1, <1>5 DEF Shape, Anchored, Ends
  <2>8. Members(t) \subseteq Members(s) /\ Anchored(s, t, back')
    <3>1. t # <<>> => Len(r) # 1 BY <2>6
    <3>2. Ends(s, back) /\ t # <<>> => Ends(t, back) BY <2>6, <2>7, <3>1
    <3> HIDE DEF t
    <3> QED BY <1>1, <1>2, <2>6, <3>2 DEF Shape, Anchored
  <2>9. QueueType' BY <1>2, <2>1, <2>3 DEF QueueType
  <2> HIDE DEF t
  <2>10. /\ QueueInv' /\ (Contents(front))' = Read(s, data') /\ (Contents(it))' = Read(t, data')
         /\ Dangling' = Dangling
    BY <1>1, <1>2, <1>3, <2>4, <2>8, <2>9, QueueLeft DEF Shape
  <2>11. Read(t, data) = Tail(Read(r, data)) /\ Read(r, data) # <<>> /\ Head(Read(r, data)) = data[r[1]]
    BY <1>5, ReadTail DEF t
  <2>12. /\ Contents(it) # <<>> /\ Head(Contents(it)) = data[it]
         /\ (Contents(it))' = Tail(Contents(it)) /\ (Contents(front))' = Contents(front)
    BY <1>1, <1>2, <2>3, <2>10, <2>11
  <2>13. Seen' = Answer("next", data[it]) BY <2>1 DEF next_element, Seen, Answer
  <2> QED BY <1>2, <2>10, <2>12, <2>13 DEF Abstract!NextElement, Abstract!Answer, Answer
<1> QED BY <1>4, <1>5

\* destroy_queue frees all items that are in the list.
LEMMA DestroyStep ==
    ASSUME QueueInv, destroy_queue
    PROVE  QueueInv' /\ Abstract!Destroy
<1>1. PICK s, r \in Seq(Item) : Shape(s, r) /\ List = s BY QueueFacts
<1>2. /\ QueueType /\ made /\ ~made' /\ front' = NULL /\ back' = NULL /\ it' = NULL
      /\ next' = next /\ data' = data /\ allocated' = allocated \ ToSet(List) /\ lost' = lost
  BY DEF QueueInv, QueueType, destroy_queue
<1>3. ToSet(List) = allocated \ lost
  <2>1. DOMAIN s = 1 .. Len(s) OBVIOUS
  <2> QED BY <1>1, <2>1 DEF ToSet, Shape, Members
<1>4. allocated' = lost BY <1>2, <1>3 DEF QueueType
<1>5. QueueType' BY <1>2, <1>4 DEF QueueType, destroy_queue
<1>6. IsList(<<>>, NULL, next', Item, NULL) BY NullList
<1>7. QueueInv' /\ (Contents(front))' = <<>> /\ (Contents(it))' = <<>> /\ Dangling' = FALSE
  <2>1. allocated' \ lost' = {} /\ \A i \in allocated' : data'[i] \in Data
    BY <1>2, <1>4 DEF QueueInv, QueueType
  <2> QED BY <1>2, <1>5, <1>6, <2>1, NoItems, QueueLeft, ReadNothing
<1>8. Seen' = Answer("destroy", NULL) BY DEF destroy_queue, Seen, Answer
<1> QED BY <1>2, <1>7, <1>8 DEF destroy_queue, Abstract!Destroy, Abstract!Answer, Answer

\* A value that is in a sequence has a first place there.
LEMMA FirstPlace ==
    ASSUME NEW V, NEW c \in Seq(V), NEW e, \E i \in 1 .. Len(c) : c[i] = e
    PROVE  \E p \in 1 .. Len(c) : c[p] = e /\ \A j \in 1 .. p - 1 : c[j] # e
<1> DEFINE S == {n \in Nat : n <= Len(c) => \A i \in 1 .. n : c[i] # e}
<1> SUFFICES ASSUME \A p \in 1 .. Len(c) : ~(c[p] = e /\ \A j \in 1 .. p - 1 : c[j] # e)
             PROVE  FALSE
  OBVIOUS
<1>0. Len(c) \in Nat OBVIOUS
<1>1. 0 \in S OBVIOUS
<1>2. ASSUME NEW n \in Nat, n \in S PROVE n + 1 \in S
  <2> SUFFICES ASSUME n + 1 <= Len(c) PROVE \A i \in 1 .. n + 1 : c[i] # e OBVIOUS
  <2>1. n + 1 \in 1 .. Len(c) /\ n + 1 - 1 = n /\ n <= Len(c) BY <1>0
  <2>2. \A i \in 1 .. n : c[i] # e BY <1>2, <2>1
  <2>3. c[n + 1] # e BY <2>1, <2>2
  <2>4. \A i \in 1 .. n + 1 : i \in 1 .. n \/ i = n + 1 OBVIOUS
  <2> QED BY <2>2, <2>3, <2>4
<1>3. \A n \in Nat : n \in S
  <2> HIDE DEF S
  <2> QED BY <1>1, <1>2, NatSetInduction
<1>4. \A i \in 1 .. Len(c) : c[i] # e BY <1>0, <1>3
<1> QED BY <1>4

\* What queue_remove finds in the list is what is first in the contents.
LEMMA FoundFirst ==
    ASSUME NEW s \in Seq(Item), List = s, NEW d, NEW i \in 1 .. Len(s)
    PROVE  FirstAt(d, i) <=> /\ Read(s, data)[i] = d
                             /\ \A j \in 1 .. i - 1 : Read(s, data)[j] # d
<1>1. Len(s) \in Nat /\ \A j \in 1 .. i - 1 : j \in 1 .. Len(s) OBVIOUS
<1>2. \A j \in 1 .. Len(s) : Read(s, data)[j] = data[s[j]] BY ReadLength
<1> QED BY <1>1, <1>2 DEF FirstAt

\* The operators that Fifo takes from SequencesExt.
LEMMA SameOperators ==
    ASSUME NEW c, NEW e
    PROVE  Abstract!RemoveFirst(c, e) = RemoveFirst(c, e) /\ Abstract!Contains(c, e) = Contains(c, e)
BY DEF Abstract!RemoveFirst, RemoveFirst, Abstract!RemoveAt, RemoveAt, Abstract!SelectInSeq, SelectInSeq,
       Abstract!Min, Min, Abstract!Contains, Contains

\* queue_remove takes out the first of the values asked for; if it is in the
\* last item, back points outside the list from then on.
LEMMA RemoveStep ==
    ASSUME QueueInv, NEW d \in Data, queue_remove(d)
    PROVE  QueueInv' /\ Abstract!TakeOut(d)
<1>1. PICK s, r \in Seq(Item) :
        /\ Shape(s, r) /\ List = s /\ Contents(front) = Read(s, data)
        /\ Dangling = ~Ends(s, back)
  BY QueueFacts
<1>2. /\ QueueType /\ made /\ made' /\ made' = made /\ it' = NULL /\ back' = back /\ data' = data
      /\ lost' = lost
  BY DEF QueueInv, queue_remove
<1>3. IsList(<<>>, it', next', Item, NULL) BY <1>2, NullList
<1>4. DOMAIN List = 1 .. Len(s) BY <1>1
<1> DEFINE c == Read(s, data)
<1>5. c \in Seq(Values(data, Item)) /\ Len(c) = Len(s) BY ReadLength
<1> HIDE DEF c
<1>6. CASE \A i \in DOMAIN List : ~FirstAt(d, i)
  <2>1. \A i \in DOMAIN List : ~FirstAt(d, i) BY <1>6
  <2>2. front' = front /\ next' = next /\ allocated' = allocated /\ res' = Answer("remove", 1)
    BY <1>6 DEF queue_remove
  <2>3. ~\E i \in 1 .. Len(c) : c[i] = d
    <3> SUFFICES ASSUME \E i \in 1 .. Len(c) : c[i] = d PROVE FALSE OBVIOUS
    <3>1. PICK p \in 1 .. Len(c) : c[p] = d /\ \A j \in 1 .. p - 1 : c[j] # d
      BY <1>5, FirstPlace
    <3>2. FirstAt(d, p) BY <1>1, <1>5, <3>1, FoundFirst DEF c
    <3> QED BY <1>4, <1>5, <2>1, <3>2
  <2>4. RemoveFirst(c, d) = c /\ ~Contains(c, d) BY <2>3 DEF RemoveFirst, Contains
  <2>5. QueueType' BY <1>2, <2>2 DEF QueueType
  <2>6. \A i \in allocated' : data'[i] \in Data BY <1>2, <2>2 DEF QueueInv
  <2>7. /\ QueueInv' /\ (Contents(front))' = Read(s, data') /\ (Contents(it))' = Read(<<>>, data')
        /\ Dangling' = Dangling
    <3>1. Anchored(s, <<>>, back') BY <1>1, <1>2 DEF Shape, Anchored
    <3>2. Members(<<>>) \subseteq Members(s) BY NoItems
    <3> QED BY <1>1, <1>2, <1>3, <2>2, <2>5, <2>6, <3>1, <3>2, QueueLeft DEF Shape
  <2>8. Seen' = Answer("remove", 1) BY <2>2 DEF Seen, Answer
  <2>9. (Contents(front))' = c /\ (Contents(it))' = <<>> /\ Contents(front) = c
    BY <1>1, <1>2, <2>7, ReadNothing DEF c
  <2>10. c # <<>> => ~Abstract!IsAt(d, Len(c))
    <3>1. c # <<>> => Len(c) \in 1 .. Len(c) BY <1>5
    <3> QED BY <2>3, <2>9, <3>1 DEF Abstract!IsAt
  <2>11. Dangling' = (Dangling \/ (Contents(front) # <<>> /\ Abstract!IsAt(d, Len(Contents(front)))))
    <3>1. Dangling \in BOOLEAN BY DEF Dangling
    <3> QED BY <2>7, <2>9, <2>10, <3>1
  <2> QED BY <1>2, <2>4, <2>7, <2>8, <2>9, <2>11, SameOperators
          DEF Abstract!TakeOut, Abstract!Answer, Answer
<1>7. CASE \E i \in DOMAIN List : FirstAt(d, i)
  <2>1. PICK p \in 1 .. Len(s) :
          /\ FirstAt(d, p)
          /\ \/ p = 1 /\ front' = next[s[1]] /\ next' = next
             \/ p > 1 /\ next' = [next EXCEPT ![s[p-1]] = next[s[p]]] /\ front' = front
          /\ allocated' = allocated \ {s[p]}
          /\ res' = Answer("remove", 0)
    BY <1>1, <1>4, <1>7 DEF queue_remove
  <2> DEFINE t == Without(s, p)
  <2>2. IsList(s, front, next, Item, NULL) /\ NULL \notin Item
    BY <1>1, ConstantsAssumption DEF Shape
  <2>3. /\ Len(s) \in Nat /\ s # <<>> /\ front = s[1] /\ front \in Item
        /\ \A i \in 1 .. Len(s) : s[i] \in Item
        /\ \A i, j \in 1 .. Len(s) : s[i] = s[j] => i = j
        /\ \A i \in 1 .. Len(s) : next[s[i]] \in Item \cup {NULL}
    <3>1. s # <<>> OBVIOUS
    <3> QED BY <1>2, <2>2, <3>1, ListEmpty DEF QueueType
  <2>4. /\ Members(t) = Members(s) \ {s[p]} /\ (p # Len(s) => Ends(t, s[Len(s)]))
        /\ s[p] \in Members(s) /\ t \in Seq(Item)
    <3>1. s[p] \in Members(s) BY DEF Members
    <3>2. \A k \in 1 .. Len(s) - 1 : k \in 1 .. Len(s) /\ k + 1 \in 1 .. Len(s) BY <2>3
    <3>3. t = [k \in 1 .. Len(s) - 1 |-> IF k < p THEN s[k] ELSE s[k + 1]] BY DEF Without
    <3>4. t \in [1 .. Len(s) - 1 -> Item] /\ Len(s) - 1 \in Nat BY <2>3, <3>2, <3>3
    <3> HIDE DEF t
    <3>5. t \in Seq(Item) BY <3>4
    <3> QED BY <2>3, <3>1, <3>5, EndsWithout DEF t
  <2> HIDE DEF t
  <2>5. Members(t) = allocated' \ lost' /\ s[p] \notin lost
    BY <1>1, <1>2, <2>1, <2>4 DEF Shape
  <2>7. Anchored(t, <<>>, back') /\ (~Ends(t, back') <=> Dangling \/ p = Len(s))
    <3>1. CASE ~Ends(s, back)
      <4>1. back \in Item \ Members(t) BY <1>1, <2>4, <3>1 DEF Shape, Anchored
      <4> QED BY <1>1, <1>2, <2>4, <3>1, <4>1, Outside
    <3>2. CASE Ends(s, back) /\ p = Len(s)
      <4>1. back = s[p] BY <2>3, <3>2 DEF Ends
      <4>2. back \in Item \ Members(t) BY <2>3, <2>4, <4>1
      <4> QED BY <1>2, <2>4, <3>2, <4>2, Outside
    <3>3. CASE Ends(s, back) /\ p # Len(s)
      <4>1. back = s[Len(s)] BY <2>3, <3>3 DEF Ends
      <4>2. Ends(t, back') BY <1>2, <2>4, <3>3, <4>1
      <4> QED BY <1>1, <3>3, <4>2 DEF Anchored
    <3> QED BY <3>1, <3>2, <3>3
  <2>8. IsList(t, front', next', Item, NULL)
    <3>1. CASE p = 1
      <4>1. front' = next[front] /\ next' = next BY <2>1, <2>3, <3>1
      <4>2. IsList(Tail(s), next[front], next, Item, NULL) BY <2>2, <2>3, ListTail
      <4>3. t = Tail(s) BY <2>3, <3>1, TailWithout DEF t
      <4> QED BY <4>1, <4>2, <4>3
    <3>2. CASE p # 1
      <4>1. next' = [next EXCEPT ![s[p-1]] = next[s[p]]] /\ front' = front BY <2>1, <3>2
      <4>2. p \in 2 .. Len(s) /\ p - 1 \in 1 .. Len(s) BY <2>3, <3>2
      <4> DEFINE new == next'
      <4>3. new[s[p - 1]] = next[s[p]] BY <1>2, <2>3, <4>1, <4>2 DEF QueueType
      <4>4. \A i \in 1 .. Len(s) : i # p - 1 => new[s[i]] = next[s[i]]
        BY <1>2, <2>3, <4>1, <4>2 DEF QueueType
      <4> HIDE DEF new
      <4>5. IsList(t, front, new, Item, NULL) BY <2>2, <4>2, <4>3, <4>4, ListUnlink DEF t
      <4> QED BY <4>1, <4>5 DEF new
    <3> QED BY <3>1, <3>2
  <2>9. QueueType'
    <3>1. front' \in Item \cup {NULL} /\ next' \in [Item -> Item \cup {NULL}]
      BY <1>2, <2>1, <2>3 DEF QueueType
    <3> QED BY <1>2, <2>1, <2>5, <3>1 DEF QueueType
  <2>10. \A i \in allocated' : data'[i] \in Data BY <1>2, <2>1 DEF QueueInv
  <2>11. /\ QueueInv' /\ (Contents(front))' = Read(t, data') /\ (Contents(it))' = Read(<<>>, data')
         /\ Dangling' = ~Ends(t, back')
    <3>1. Members(<<>>) \subseteq Members(t) BY NoItems
    <3> QED BY <1>2, <1>3, <2>5, <2>7, <2>8, <2>9, <2>10, <3>1, QueueLeft
  <2>12. p \in 1 .. Len(c) /\ c[p] = d /\ \A j \in 1 .. p - 1 : c[j] # d
    BY <1>1, <1>5, <2>1, FoundFirst DEF c
  <2>13. RemoveFirst(c, d) = Without(c, p) /\ Contains(c, d)
    BY <1>5, <2>12, FirstRemoved DEF Contains
  <2>14. Read(t, data) = Without(c, p) BY ReadWithout DEF c, t
  <2>15. Seen' = Answer("remove", 0) BY <2>1 DEF Seen, Answer
  <2>16. (Contents(front))' = RemoveFirst(c, d) /\ (Contents(it))' = <<>> /\ Contents(front) = c
    BY <1>1, <1>2, <2>11, <2>13, <2>14, ReadNothing DEF c
  <2>17. Abstract!IsAt(d, Len(c)) <=> p = Len(s)
    <3>1. Len(s) \in Nat /\ (p # Len(s) => p \in 1 .. Len(s) - 1) BY <2>3
    <3> QED BY <1>5, <2>12, <2>16, <3>1 DEF Abstract!IsAt
  <2>18. c # <<>> BY <1>5, <2>12
  <2>19. Dangling' = (Dangling \/ (Contents(front) # <<>> /\ Abstract!IsAt(d, Len(Contents(front)))))
    BY <2>7, <2>11, <2>16, <2>17, <2>18
  <2> QED BY <1>2, <2>11, <2>13, <2>15, <2>16, <2>19, SameOperators
          DEF Abstract!TakeOut, Abstract!Answer, Answer
<1> QED BY <1>6, <1>7

-----------------------------------------------------------------------------
\* Every step of the queue is a step of the sequence.
LEMMA QueueStep ==
    QueueInv /\ [Next]_vars => QueueInv' /\ [Abstract!Next]_(Abstract!vars)
<1> SUFFICES ASSUME QueueInv, [Next]_vars
             PROVE  QueueInv' /\ [Abstract!Next]_(Abstract!vars)
  OBVIOUS
<1>1. CASE init_queue BY <1>1, InitQueueStep DEF Abstract!Next
<1>2. CASE queue_not_empty BY <1>2, NotEmptyStep DEF Abstract!Next
<1>3. CASE queue_peek BY <1>3, PeekStep DEF Abstract!Next
<1>4. CASE queue_pop BY <1>4, PopStep DEF Abstract!Next
<1>5. CASE iterator BY <1>5, IteratorStep DEF Abstract!Next
<1>6. CASE next_element BY <1>6, NextElementStep DEF Abstract!Next
<1>7. CASE destroy_queue BY <1>7, DestroyStep DEF Abstract!Next
<1>8. CASE \E i \in Item, d \in Data : queue_push(i, d)
  BY <1>8, PushLost, PushStep DEF Abstract!Next
<1>9. CASE \E d \in Data : queue_remove(d) BY <1>9, RemoveStep DEF Abstract!Next
<1>10. CASE UNCHANGED vars
  <2>1. /\ QueueInv' /\ (Contents(front))' = Contents(front) /\ (Contents(it))' = Contents(it)
        /\ Dangling' = Dangling
    BY <1>10, QuietStep DEF vars
  <2>2. Seen' = Seen /\ made' = made BY <1>10 DEF vars, Seen, Answer
  <2> QED BY <2>1, <2>2 DEF Abstract!vars
<1> QED BY <1>1, <1>2, <1>3, <1>4, <1>5, <1>6, <1>7, <1>8, <1>9, <1>10 DEF Next

\* The list of queue.c is the items in memory, each once, but for those pushed
\* between a removal of the last item and the next time the queue was emptied
\* by popping or made anew; back is the last item or points outside the list:
\* after any sequence of calls, for any number of chunks and any data.
THEOREM QueueWellFormed == Spec => []ListWellFormed
<1>1. Init => QueueInv BY InitQueue
<1>2. QueueInv /\ [Next]_vars => QueueInv' BY QueueStep
<1>3. QueueInv => ListWellFormed
  <2> SUFFICES ASSUME QueueInv PROVE ListWellFormed OBVIOUS
  <2>1. PICK s, r \in Seq(Item) :
          Shape(s, r) /\ List = s /\ (Dangling => back \in Item \ Members(s))
    BY QueueFacts
  <2>2. DOMAIN s = 1 .. Len(s) /\ Len(s) \in Nat OBVIOUS
  <2>3. ToSet(List) = Members(s) BY <2>1, <2>2 DEF ToSet, Members
  <2>4. Cardinality(Members(s)) = Len(s) BY <2>1, MembersCount DEF Shape, IsList
  <2>5. Dangling => back \in Item \ Members(s) BY <2>1
  <2> QED BY <2>1, <2>3, <2>4, <2>5, ConstantsAssumption DEF ListWellFormed, Shape
<1> QED BY <1>1, <1>2, <1>3, PTL DEF Spec

\* queue.c implements Fifo: after any sequence of calls, what an operation
\* returns, and what the client gets from the iterator, is what the sequence of
\* the data gives, which takes nothing in from a removal of its last element
\* until it is emptied by popping or made anew.  Of the item that queue_peek
\* returns it says that its data is the first element.
THEOREM QueueIsFifo == Spec => ImplementsFifo
<1>1. Init => QueueInv /\ Abstract!Init BY InitQueue
<1>2. QueueInv /\ [Next]_vars => QueueInv' /\ [Abstract!Next]_(Abstract!vars) BY QueueStep
<1> QED BY <1>1, <1>2, PTL DEF Spec, ImplementsFifo, Abstract!Spec
-----------------------------------------------------------------------------
P == INSTANCE ThreadTableProofs WITH
    made <- t_made, next <- t_next, allocated <- t_allocated, res <- t_res

\* ThreadTableProofs speaks of the same table as MCContainers.
LEMMA SameInit == Table!Init => P!Init
BY DEF Table!Init, P!Init, Table!Answer, P!Answer

\* The same steps ...
LEMMA SameNext == [Table!Next]_tvars => [P!Next]_(P!vars)
BY DEF tvars, Table!init_table, P!init_table, Table!put_tcb, P!put_tcb, Table!pop_tcb,
       P!pop_tcb, Table!destroy_table, P!destroy_table, Table!get_tcb, P!get_tcb,
       Table!remove_tcb, P!remove_tcb, Table!get_tcb_by_id, P!get_tcb_by_id, Table!Lookup,
       P!Lookup, Table!Unlink, P!Unlink, Table!FoundAt, P!FoundAt, Table!StopsAt,
       P!StopsAt, Table!Answer, P!Answer, Table!List, P!List, Table!Nodes, P!Nodes,
       Table!Cardinality, P!Cardinality, Table!ToSet, P!ToSet, Table!Next, P!Next,
       Table!vars, P!vars

\* ... the same well-formed stacks ...
LEMMA SameWellFormed == P!TableWellFormed => Table!TableWellFormed
BY DEF Table!TableWellFormed, P!TableWellFormed, Table!List, P!List, Table!Nodes, P!Nodes,
       Table!Cardinality, P!Cardinality, Table!ToSet, P!ToSet

\* ... and the same map, at the start ...
LEMMA SameAbstractInit == P!Abstract!Init => Table!Abstract!Init
BY DEF Table!Abstract!Init, P!Abstract!Init, Table!Abstract!Empty, P!Abstract!Empty,
       Table!Abstract!Answer, P!Abstract!Answer, Table!Entry, P!Entry, Table!List, P!List,
       Table!Nodes, P!Nodes, Table!Cardinality, P!Cardinality, Table!ToSet, P!ToSet

\* ... and in every step.
LEMMA SameAbstractNext ==
    [P!Abstract!Next]_(P!Abstract!vars) => [Table!Abstract!Next]_(Table!Abstract!vars)
BY DEF Table!Abstract!Next, P!Abstract!Next, Table!Abstract!vars, P!Abstract!vars,
       Table!Abstract!Make, P!Abstract!Make, Table!Abstract!Put, P!Abstract!Put,
       Table!Abstract!PutTwice, P!Abstract!PutTwice,
       Table!Abstract!Find, P!Abstract!Find, Table!Abstract!FindTcb, P!Abstract!FindTcb,
       Table!Abstract!Pop, P!Abstract!Pop, Table!Abstract!Delete, P!Abstract!Delete,
       Table!Abstract!Destroy, P!Abstract!Destroy, Table!Abstract!Answer,
       P!Abstract!Answer, Table!Abstract!Empty, P!Abstract!Empty, Table!Abstract!Known,
       P!Abstract!Known, Table!Entry, P!Entry, Table!List, P!List, Table!Nodes, P!Nodes,
       Table!Cardinality, P!Cardinality, Table!ToSet, P!ToSet
-----------------------------------------------------------------------------
\* A client of both containers uses the queue as Queue says ...
LEMMA UsesQueue == MCSpec => Spec
<1>1. MCInit => Init BY DEF MCInit
<1>2. [UseQueue \/ UseTable]_<<subject, vars, tvars>> => [Next]_vars
  BY DEF UseQueue, UseTable
<1> QED BY <1>1, <1>2, PTL DEF MCSpec, Spec

\* ... and the table as ThreadTable says.
LEMMA UsesTable == MCSpec => P!Spec
<1>1. MCInit => P!Init BY SameInit DEF MCInit
<1>2. [UseQueue \/ UseTable]_<<subject, vars, tvars>> => [Table!Next]_tvars
  BY DEF UseQueue, UseTable
<1> QED BY <1>1, <1>2, SameNext, PTL DEF MCSpec, P!Spec

\* The constants are what ThreadTableProofs asks for.
LEMMA TableConstantsHold == P!TableConstants
BY TableAssumption DEF P!TableConstants, IsFiniteSet, P!IsFiniteSet

\* The list of queue.c is the items in memory, but for those pushed between a
\* removal of the last item and the next time the queue was emptied, and back is
\* the last item or outside; the stack of thread_table.c is the handles in
\* memory, which point at their TCBs and back, until a TCB is put twice: for any
\* number of chunks, TCBs and ids.
THEOREM NoLeaks == MCSpec => []NothingLeaks
<1>1. Spec => []ListWellFormed BY QueueWellFormed
<1>2. P!Spec => []P!TableWellFormed BY TableConstantsHold, P!TableSound
<1>3. ListWellFormed /\ P!TableWellFormed => NothingLeaks BY SameWellFormed DEF NothingLeaks
<1> QED BY <1>1, <1>2, <1>3, UsesQueue, UsesTable, PTL

\* thread_table.c implements Directory: get_tcb_by_id, which stops at the
\* first smaller id, finds a TCB exactly as long as it is in the table, until
\* some TCB is put a second time.
THEOREM TableKeepsDirectory == MCSpec => ImplementsDirectory
<1>1. P!Spec => P!ImplementsDirectory BY TableConstantsHold, P!TableIsDirectory
<1>2. P!ImplementsDirectory => Table!ImplementsDirectory
  BY SameAbstractInit, SameAbstractNext, PTL
  DEF P!ImplementsDirectory, Table!ImplementsDirectory, P!Abstract!Spec, Table!Abstract!Spec
<1> QED BY <1>1, <1>2, UsesTable, PTL DEF ImplementsDirectory
=============================================================================
