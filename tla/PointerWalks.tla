---------------------------- MODULE PointerWalks ----------------------------
(***************************************************************************)
(* Following pointers: what the walks along the observers of the threads   *)
(* library and along the links of its lists come to.                       *)
(***************************************************************************)
EXTENDS Integers, Sequences, FiniteSets, LinkedList, FiniteSetTheorems,
        WellFoundedInduction, TLAPS

\* Induction: a set that has 0, and with a number the next, has them all.
LEMMA NatSetInduction ==
    ASSUME NEW S, 0 \in S, \A n \in Nat : n \in S => n + 1 \in S
    PROVE  \A n \in Nat : n \in S
<1> SUFFICES ASSUME NEW n \in Nat, n \notin S PROVE FALSE OBVIOUS
<1> DEFINE T == Nat \ S
           R == OpToRel(<, Nat)
<1>1. IsWellFoundedOn(R, Nat) BY NatLessThanWellFounded
<1>2. T \subseteq Nat /\ T # {} OBVIOUS
<1>3. PICK x \in T : \A y \in T : ~(<<y, x>> \in R)
  <2> HIDE DEF T, R
  <2> QED BY <1>1, <1>2, WFMin
<1>4. x - 1 \in Nat /\ x - 1 + 1 = x OBVIOUS
<1>5. x - 1 \in T BY <1>4
<1>6. <<x - 1, x>> \in R BY <1>4 DEF OpToRel
<1> QED BY <1>3, <1>5, <1>6

\* c[0], ..., c[n] is the walk from x along the pointers f of the objects T;
\* it stays where there is no object to go on from.
IsWalk(c, n, x, f, T) ==
    /\ c[0] = x
    /\ \A k \in 0 .. n - 1 : c[k + 1] = IF c[k] \in T THEN f[c[k]] ELSE c[k]

\* The same as a recursive function.
Walks(c, n, x, f, T) ==
    c = [k \in 0 .. n |-> IF k = 0 THEN x ELSE IF c[k-1] \in T THEN f[c[k-1]] ELSE c[k-1]]

\* There is such a walk of every length.
LEMMA WalkExists ==
    ASSUME NEW n \in Nat, NEW x, NEW f, NEW T
    PROVE  \E c : Walks(c, n, x, f, T)
<1> DEFINE Eq(m, c) == c = [k \in 0 .. m |-> IF k = 0 THEN x
                                            ELSE IF c[k-1] \in T THEN f[c[k-1]] ELSE c[k-1]]
           S == {m \in Nat : \E c : Eq(m, c)}
<1>1. 0 \in S
  <2> DEFINE c == [k \in 0 .. 0 |-> x]
  <2>1. Eq(0, c) OBVIOUS
  <2> QED BY <2>1
<1>2. ASSUME NEW m \in Nat, m \in S PROVE m + 1 \in S
  <2>1. PICK c : Eq(m, c) BY <1>2
  <2> DEFINE d == [k \in 0 .. m + 1 |-> IF k = m + 1
                                       THEN IF c[m] \in T THEN f[c[m]] ELSE c[m] ELSE c[k]]
  <2>2. Eq(m + 1, d)
    <3>1. \A k \in 0 .. m : d[k] = c[k] OBVIOUS
    <3>2. ASSUME NEW k \in 0 .. m + 1
          PROVE  d[k] = IF k = 0 THEN x ELSE IF d[k-1] \in T THEN f[d[k-1]] ELSE d[k-1]
      <4>1. CASE k = m + 1 BY <4>1
      <4>2. CASE k \in 0 .. m
        <5>1. k # 0 => k - 1 \in 0 .. m BY <4>2
        <5> QED BY <2>1, <3>1, <4>2, <5>1
      <4> QED BY <4>1, <4>2
    <3>3. d = [k \in 0 .. m + 1 |-> d[k]] OBVIOUS
    <3> HIDE DEF d
    <3> QED BY <3>2, <3>3
  <2> HIDE DEF d
  <2> QED BY <2>2
<1>3. n \in S
  <2> HIDE DEF S
  <2> QED BY <1>1, <1>2, NatSetInduction
<1> QED BY <1>3 DEF Walks

\* No object of T is pointed to by two.
PointedOnce(f, T) == \A u, v \in T : f[u] \in T /\ f[u] = f[v] => u = v

\* A walk that is at an object has been at objects all the time.
LEMMA WalkInside ==
    ASSUME NEW c, NEW n \in Nat, NEW x, NEW f, NEW T, IsWalk(c, n, x, f, T)
    PROVE  \A i, j \in 0 .. n : i <= j /\ c[j] \in T => c[i] \in T
<1> DEFINE S == {d \in Nat : \A i \in 0 .. n : i + d <= n /\ c[i + d] \in T => c[i] \in T}
<1>1. 0 \in S OBVIOUS
<1>2. ASSUME NEW d \in Nat, d \in S PROVE d + 1 \in S
  <2> SUFFICES ASSUME NEW i \in 0 .. n, i + (d + 1) <= n, c[i + (d + 1)] \in T PROVE c[i] \in T
    OBVIOUS
  <2>1. i + d \in 0 .. n - 1 /\ (i + d) + 1 = i + (d + 1) OBVIOUS
  <2>2. c[i + d] \in T BY <2>1 DEF IsWalk
  <2> QED BY <1>2, <2>1, <2>2
<1>3. \A d \in Nat : d \in S
  <2> HIDE DEF S
  <2> QED BY <1>1, <1>2, NatSetInduction
<1> SUFFICES ASSUME NEW i \in 0 .. n, NEW j \in 0 .. n, i <= j, c[j] \in T PROVE c[i] \in T
  OBVIOUS
<1>4. j - i \in Nat /\ i + (j - i) = j OBVIOUS
<1>5. j - i \in S BY <1>3, <1>4
<1> QED BY <1>4, <1>5

\* A walk that comes to where it was before came back to its start.
LEMMA WalkBack ==
    ASSUME NEW c, NEW n \in Nat, NEW x, NEW f, NEW T, IsWalk(c, n, x, f, T), PointedOnce(f, T)
    PROVE  \A i, j \in 0 .. n : i <= j /\ c[j] \in T /\ c[i] = c[j] => c[j - i] = x
<1> DEFINE S == {i \in Nat : \A j \in 0 .. n : i <= j /\ c[j] \in T /\ c[i] = c[j] => c[j - i] = x}
<1>1. 0 \in S BY DEF IsWalk
<1>2. ASSUME NEW i \in Nat, i \in S PROVE i + 1 \in S
  <2> SUFFICES ASSUME NEW j \in 0 .. n, i + 1 <= j, c[j] \in T, c[i + 1] = c[j]
               PROVE  c[j - (i + 1)] = x
    OBVIOUS
  <2>1. /\ i \in 0 .. n - 1 /\ i \in 0 .. n /\ j - 1 \in 0 .. n - 1 /\ j - 1 \in 0 .. n
        /\ (j - 1) + 1 = j /\ i <= j - 1 /\ j - (i + 1) = (j - 1) - i /\ i + 1 \in 0 .. n
        /\ i <= i + 1 /\ j - 1 <= j
    OBVIOUS
  <2>2. c[i] \in T /\ c[j - 1] \in T BY <2>1, WalkInside
  <2>3. c[i + 1] = f[c[i]] /\ c[j] = f[c[j - 1]] BY <2>1, <2>2 DEF IsWalk
  <2>4. c[i] = c[j - 1] BY <2>2, <2>3 DEF PointedOnce
  <2> QED BY <1>2, <2>1, <2>2, <2>4
<1>3. \A i \in Nat : i \in S
  <2> HIDE DEF S
  <2> QED BY <1>1, <1>2, NatSetInduction
<1> SUFFICES ASSUME NEW i \in 0 .. n, NEW j \in 0 .. n, i <= j, c[j] \in T, c[i] = c[j]
             PROVE  c[j - i] = x
  OBVIOUS
<1>4. i \in S BY <1>3
<1> QED BY <1>4

\* A walk that comes back to its start goes round.
LEMMA WalkRound ==
    ASSUME NEW c, NEW n \in Nat, NEW x, NEW f, NEW T, IsWalk(c, n, x, f, T),
           NEW k \in Nat, 2 * k <= n, c[k] = x
    PROVE  c[2 * k] = x
<1> DEFINE S == {i \in Nat : i <= k => c[k + i] = c[i]}
<1>1. 0 \in S BY DEF IsWalk
<1>2. ASSUME NEW i \in Nat, i \in S PROVE i + 1 \in S
  <2> SUFFICES ASSUME i + 1 <= k PROVE c[k + (i + 1)] = c[i + 1] OBVIOUS
  <2>1. i \in 0 .. n - 1 /\ k + i \in 0 .. n - 1 /\ (k + i) + 1 = k + (i + 1) /\ i <= k OBVIOUS
  <2>2. c[k + i] = c[i] BY <1>2, <2>1
  <2>3. c[(k + i) + 1] = IF c[k + i] \in T THEN f[c[k + i]] ELSE c[k + i] BY <2>1 DEF IsWalk
  <2>4. c[i + 1] = IF c[i] \in T THEN f[c[i]] ELSE c[i] BY <2>1 DEF IsWalk
  <2> QED BY <2>1, <2>2, <2>3, <2>4
<1>3. \A i \in Nat : i \in S
  <2> HIDE DEF S
  <2> QED BY <1>1, <1>2, NatSetInduction
<1>4. k \in S /\ k + k = 2 * k BY <1>3
<1> QED BY <1>4

\* A walk that does not come back to its start leaves the objects: there are
\* not enough of them.
LEMMA WalkEnds ==
    ASSUME NEW c, NEW x, NEW f, NEW T, IsFiniteSet(T), IsWalk(c, Cardinality(T), x, f, T),
           PointedOnce(f, T), \A k \in 1 .. Cardinality(T) : c[k] # x
    PROVE  c[Cardinality(T)] \notin T
<1> DEFINE n == Cardinality(T)
<1>0. n \in Nat BY FS_CardinalityType
<1> SUFFICES ASSUME c[n] \in T PROVE FALSE OBVIOUS
<1> DEFINE g == [k \in 0 .. n |-> c[k]]
<1>1. \A k \in 0 .. n : c[k] \in T
  <2> HIDE DEF n
  <2>1. \A k \in 0 .. n : k <= n /\ n \in 0 .. n BY <1>0
  <2>2. IsWalk(c, n, x, f, T) BY DEF n
  <2> QED BY <1>0, <2>1, <2>2, WalkInside
<1>2. g \in [0 .. n -> T] BY <1>1
<1>3. IsFiniteSet(0 .. n) /\ Cardinality(0 .. n) = n + 1
  <2> HIDE DEF n
  <2> QED BY <1>0, FS_Interval
<1>4. Cardinality(T) < Cardinality(0 .. n) BY <1>0, <1>3
<1>5. \E i, j \in 0 .. n : i # j /\ g[i] = g[j]
  <2> HIDE DEF n, g
  <2> QED BY <1>2, <1>3, <1>4, FS_PigeonHole
<1>6. PICK i \in 0 .. n, j \in 0 .. n : i < j /\ c[i] = c[j]
  <2> HIDE DEF n
  <2>1. PICK i \in 0 .. n, j \in 0 .. n : i # j /\ c[i] = c[j] BY <1>5
  <2>2. i < j \/ j < i BY <1>0, <2>1
  <2> QED BY <2>1, <2>2
<1>7. c[j - i] = x
  <2> HIDE DEF n
  <2>1. IsWalk(c, n, x, f, T) BY DEF n
  <2>2. i <= j /\ c[j] \in T BY <1>0, <1>1, <1>6
  <2> QED BY <1>0, <1>6, <2>1, <2>2, WalkBack
<1>8. j - i \in 1 .. n
  <2> HIDE DEF n
  <2> QED BY <1>0, <1>6
<1> QED BY <1>7, <1>8
-----------------------------------------------------------------------------
\* The nodes s are linked from head along next up to the null pointer.
IsList(s, head, next, Node, null) ==
    /\ s \in Seq(Node)
    /\ \A i, j \in 1 .. Len(s) : s[i] = s[j] => i = j
    /\ head = IF s = <<>> THEN null ELSE s[1]
    /\ \A i \in 1 .. Len(s) : next[s[i]] = IF i = Len(s) THEN null ELSE s[i + 1]

\* A list has no more nodes than there are.
LEMMA ListFits ==
    ASSUME NEW Node, IsFiniteSet(Node), NEW s \in Seq(Node),
           \A i, j \in 1 .. Len(s) : s[i] = s[j] => i = j
    PROVE  Cardinality(Node) \in Nat /\ Len(s) \in Nat /\ Len(s) <= Cardinality(Node)
<1>1. Cardinality(Node) \in Nat /\ Len(s) \in Nat BY FS_CardinalityType
<1>2. IsFiniteSet(1 .. Len(s)) /\ Cardinality(1 .. Len(s)) = Len(s)
  <2> DEFINE l == Len(s)
  <2> HIDE DEF l
  <2>1. l \in Nat BY <1>1 DEF l
  <2>2. IsFiniteSet(1 .. l) /\ Cardinality(1 .. l) = l BY <2>1, FS_Interval
  <2> QED BY <2>2 DEF l
<1> SUFFICES ASSUME Cardinality(Node) < Cardinality(1 .. Len(s)) PROVE FALSE BY <1>1, <1>2
<1>3. s \in [1 .. Len(s) -> Node] OBVIOUS
<1> DEFINE D == 1 .. Len(s)
<1> HIDE DEF D
<1>4. \E i, j \in D : i # j /\ s[i] = s[j] BY <1>2, <1>3, FS_PigeonHole DEF D
<1> QED BY <1>4 DEF D

\* Nodes reads a list back.
LEMMA NodesOf ==
    ASSUME NEW Node, IsFiniteSet(Node), NEW null, null \notin Node, NEW head, NEW next,
           NEW s, IsList(s, head, next, Node, null)
    PROVE  Nodes(head, next, Node, null) = s
<1> DEFINE n == Cardinality(Node)
           l == Len(s)
           Step(g, k) == IF g[k-1] = null THEN null ELSE next[g[k-1]]
           Eq(g) == g = [k \in 0 .. n |-> IF k = 0 THEN head ELSE Step(g, k)]
           w == [k \in 0 .. n |-> IF k < l THEN s[k + 1] ELSE null]
           walk == CHOOSE g : Eq(g)
<1>1. /\ s \in Seq(Node) /\ head = IF s = <<>> THEN null ELSE s[1]
      /\ \A i \in 1 .. l : next[s[i]] = IF i = l THEN null ELSE s[i + 1]
  BY DEF IsList
<1>2. n \in Nat /\ l \in Nat /\ l <= n BY <1>1, ListFits DEF IsList
<1>3. (s = <<>>) <=> (l = 0) BY <1>1
<1>4. \A i \in 1 .. l : s[i] \in Node BY <1>1
<1> HIDE DEF n, l
<1>5. ASSUME NEW k \in 0 .. n PROVE w[k] = IF k = 0 THEN head ELSE Step(w, k)
  <2>1. CASE k = 0 BY <1>1, <1>2, <1>3, <2>1
  <2>2. CASE k # 0
    <3>1. k - 1 \in 0 .. n /\ k - 1 + 1 = k BY <1>2, <2>2
    <3>2. CASE k - 1 < l
      <4>1. k \in 1 .. l /\ w[k - 1] = s[k] BY <1>2, <3>1, <3>2
      <4>2. w[k - 1] # null BY <1>4, <4>1
      <4>3. w[k] = IF k = l THEN null ELSE s[k + 1] BY <1>2, <3>1, <4>1
      <4> QED BY <1>1, <2>2, <4>1, <4>2, <4>3
    <3>3. CASE ~(k - 1 < l)
      <4>1. w[k - 1] = null /\ w[k] = null BY <1>2, <3>1, <3>3
      <4> QED BY <2>2, <4>1
    <3> QED BY <3>2, <3>3
  <2> QED BY <2>1, <2>2
<1>6. \E g : Eq(g)
  <2>1. w = [k \in 0 .. n |-> w[k]] OBVIOUS
  <2> HIDE DEF w
  <2>2. Eq(w) BY <1>5, <2>1
  <2> QED BY <2>2
<1>7. Eq(walk)
  <2> HIDE DEF Eq
  <2> QED BY <1>6
<1> HIDE DEF w, walk
<1>8. \A k \in 0 .. n : walk[k] = w[k]
  <2> DEFINE S == {k \in Nat : k <= n => walk[k] = w[k]}
  <2>0. \A k \in 0 .. n : walk[k] = IF k = 0 THEN head ELSE Step(walk, k) BY <1>7
  <2>1. 0 \in S BY <1>2, <1>5, <2>0
  <2>2. ASSUME NEW k \in Nat, k \in S PROVE k + 1 \in S
    <3> SUFFICES ASSUME k + 1 <= n PROVE walk[k + 1] = w[k + 1] OBVIOUS
    <3>1. k + 1 \in 0 .. n /\ k + 1 # 0 /\ k + 1 - 1 = k /\ k <= n BY <1>2
    <3> QED BY <1>5, <2>0, <2>2, <3>1
  <2>3. \A k \in Nat : k \in S
    <3> HIDE DEF S
    <3> QED BY <2>1, <2>2, NatSetInduction
  <2> QED BY <1>2, <2>3
<1>9. {k \in 0 .. n - 1 : walk[k] # null} = 0 .. l - 1
  <2>1. ASSUME NEW k \in 0 .. n - 1 PROVE walk[k] # null <=> k < l
    <3>1. k \in 0 .. n BY <1>2
    <3>2. walk[k] = IF k < l THEN s[k + 1] ELSE null BY <1>8, <3>1 DEF w
    <3>3. k < l => k + 1 \in 1 .. l BY <1>2
    <3> QED BY <1>4, <3>2, <3>3
  <2>2. \A k \in 0 .. l - 1 : k \in 0 .. n - 1 /\ k < l BY <1>2
  <2>3. \A k \in 0 .. n - 1 : k < l => k \in 0 .. l - 1 BY <1>2
  <2> QED BY <2>1, <2>2, <2>3
<1>10. Cardinality(0 .. l - 1) = l
  <2>1. Cardinality(0 .. l - 1) = IF 0 > l - 1 THEN 0 ELSE (l - 1) - 0 + 1
    <3> DEFINE e == l - 1
    <3>1. e \in Int BY <1>2
    <3> HIDE DEF e
    <3>2. Cardinality(0 .. e) = IF 0 > e THEN 0 ELSE e - 0 + 1 BY <3>1, FS_Interval
    <3> QED BY <3>2 DEF e
  <2> QED BY <1>2, <2>1
<1>11. [k \in 1 .. l |-> walk[k - 1]] = s
  <2>1. ASSUME NEW k \in 1 .. l PROVE walk[k - 1] = s[k]
    <3>1. k - 1 \in 0 .. n /\ k - 1 < l /\ k - 1 + 1 = k BY <1>2
    <3> QED BY <1>8, <3>1 DEF w
  <2>2. s = [k \in 1 .. l |-> s[k]] BY <1>1 DEF l
  <2> QED BY <2>1, <2>2
<1>12. Nodes(head, next, Node, null)
         = [k \in 1 .. Cardinality({k \in 0 .. n - 1 : walk[k] # null}) |-> walk[k - 1]]
  BY DEF Nodes, walk, n
<1> QED BY <1>9, <1>10, <1>11, <1>12

\* The list without its node number p.
Without(s, p) == [k \in 1 .. Len(s) - 1 |-> IF k < p THEN s[k] ELSE s[k + 1]]

\* The nodes of a list.
Members(s) == {s[i] : i \in 1 .. Len(s)}

\* No node: no list.
LEMMA ListEmpty ==
    ASSUME NEW Node, NEW null, null \notin Node, NEW head, NEW next, NEW s,
           IsList(s, head, next, Node, null)
    PROVE  /\ s \in Seq(Node) /\ Len(s) \in Nat /\ DOMAIN s = 1 .. Len(s)
           /\ \A i \in 1 .. Len(s) : s[i] \in Node
           /\ head = null <=> s = <<>>
           /\ s = <<>> <=> Len(s) = 0
           /\ s # <<>> => head = s[1] /\ head \in Node /\ 1 \in 1 .. Len(s)
           /\ \A i, j \in 1 .. Len(s) : s[i] = s[j] => i = j
           /\ \A i \in 1 .. Len(s) : next[s[i]] = IF i = Len(s) THEN null ELSE s[i + 1]
<1>1. s \in Seq(Node) BY DEF IsList
<1>2. Len(s) \in Nat /\ DOMAIN s = 1 .. Len(s) /\ \A i \in 1 .. Len(s) : s[i] \in Node
  BY <1>1
<1>3. (s = <<>>) <=> (Len(s) = 0) BY <1>1
<1>4. s # <<>> => 1 \in 1 .. Len(s) BY <1>2, <1>3
<1> QED BY <1>1, <1>2, <1>3, <1>4 DEF IsList

\* The empty list.
LEMMA NullList ==
    ASSUME NEW Node, NEW null, NEW next
    PROVE  IsList(<<>>, null, next, Node, null)
<1>1. <<>> \in Seq(Node) /\ Len(<<>>) = 0 OBVIOUS
<1>2. 1 .. 0 = {} OBVIOUS
<1> QED BY <1>1, <1>2 DEF IsList

\* Links of other nodes do not matter.
LEMMA ListFrame ==
    ASSUME NEW Node, NEW null, NEW head, NEW next, NEW new, NEW s,
           IsList(s, head, next, Node, null),
           \A i \in 1 .. Len(s) : new[s[i]] = next[s[i]]
    PROVE  IsList(s, head, new, Node, null)
BY DEF IsList

\* One more node at the end.
LEMMA ListAppend ==
    ASSUME NEW Node, NEW null, null \notin Node, NEW head, NEW next, NEW new, NEW s,
           IsList(s, head, next, Node, null), s # <<>>,
           NEW x \in Node, \A i \in 1 .. Len(s) : s[i] # x,
           new[x] = null, new[s[Len(s)]] = x,
           \A i \in 1 .. Len(s) : i # Len(s) => new[s[i]] = next[s[i]]
    PROVE  IsList(Append(s, x), head, new, Node, null)
<1> DEFINE t == Append(s, x)
           l == Len(s)
<1>1. /\ s \in Seq(Node) /\ l \in Nat /\ l # 0
      /\ head = s[1] /\ 1 \in 1 .. l
      /\ \A i, j \in 1 .. l : s[i] = s[j] => i = j
      /\ \A i \in 1 .. l : next[s[i]] = IF i = l THEN null ELSE s[i + 1]
  BY ListEmpty
<1>2. /\ t \in Seq(Node) /\ Len(t) = l + 1 /\ t # <<>> /\ t[l + 1] = x
      /\ \A i \in 1 .. l : t[i] = s[i]
  BY <1>1
<1>3. \A i \in 1 .. l + 1 : i \in 1 .. l \/ i = l + 1 BY <1>1
<1> HIDE DEF t, l
<1>4. ASSUME NEW i \in 1 .. l + 1 PROVE new[t[i]] = IF i = l + 1 THEN null ELSE t[i + 1]
  <2>1. CASE i = l + 1 BY <1>2, <2>1
  <2>2. CASE i = l BY <1>1, <1>2, <2>2 DEF l
  <2>3. CASE i \in 1 .. l /\ i # l
    <3>1. i + 1 \in 1 .. l /\ i # l + 1 BY <1>1, <2>3
    <3> QED BY <1>1, <1>2, <2>3, <3>1 DEF l
  <2> QED BY <1>3, <2>1, <2>2, <2>3
<1>5. ASSUME NEW i \in 1 .. l + 1, NEW j \in 1 .. l + 1, t[i] = t[j] PROVE i = j
  BY <1>1, <1>2, <1>3, <1>5 DEF l
<1>6. head = t[1] BY <1>1, <1>2
<1>7. IsList(t, head, new, Node, null) BY <1>2, <1>4, <1>5, <1>6 DEF IsList
<1> QED BY <1>7 DEF t

\* A list of one node.
LEMMA ListOne ==
    ASSUME NEW Node, NEW null, NEW new, NEW x \in Node, new[x] = null
    PROVE  IsList(<<x>>, x, new, Node, null)
<1>1. <<x>> \in Seq(Node) /\ Len(<<x>>) = 1 /\ <<x>> # <<>> /\ <<x>>[1] = x OBVIOUS
<1>2. \A i \in 1 .. 1 : i = 1 OBVIOUS
<1> QED BY <1>1, <1>2 DEF IsList

\* One more node in front.
LEMMA ListPush ==
    ASSUME NEW Node, NEW null, null \notin Node, NEW head, NEW next, NEW new, NEW s,
           IsList(s, head, next, Node, null),
           NEW x \in Node, \A i \in 1 .. Len(s) : s[i] # x /\ new[s[i]] = next[s[i]],
           new[x] = head, NEW t \in Seq(Node), Len(t) = Len(s) + 1, t[1] = x,
           \A i \in 1 .. Len(s) : t[i + 1] = s[i]
    PROVE  IsList(t, x, new, Node, null)
<1> DEFINE l == Len(s)
<1>1. /\ s \in Seq(Node) /\ l \in Nat
      /\ head = null <=> l = 0
      /\ l # 0 => head = s[1] /\ 1 \in 1 .. l
      /\ \A i, j \in 1 .. l : s[i] = s[j] => i = j
      /\ \A i \in 1 .. l : next[s[i]] = IF i = l THEN null ELSE s[i + 1]
  BY ListEmpty
<1> HIDE DEF l
<1>2. Len(t) = l + 1 /\ t # <<>> BY <1>1 DEF l
<1>3. \A i \in 1 .. l + 1 : i = 1 \/ (i - 1 \in 1 .. l /\ i - 1 + 1 = i) BY <1>1
<1>4. ASSUME NEW i \in 1 .. l + 1 PROVE new[t[i]] = IF i = l + 1 THEN null ELSE t[i + 1]
  <2>1. CASE i = 1
    <3>1. CASE l = 0 BY <1>1, <2>1, <3>1
    <3>2. CASE l # 0 BY <1>1, <2>1, <3>2 DEF l
    <3> QED BY <3>1, <3>2
  <2>2. CASE i # 1
    <3>1. i - 1 \in 1 .. l /\ t[i] = s[i - 1] /\ (i - 1 = l <=> i = l + 1)
      BY <1>1, <1>3, <2>2 DEF l
    <3>2. i # l + 1 => i \in 1 .. l /\ t[i + 1] = s[i] BY <1>1 DEF l
    <3>3. new[t[i]] = IF i - 1 = l THEN null ELSE s[i - 1 + 1] BY <1>1, <3>1 DEF l
    <3> QED BY <1>3, <2>2, <3>1, <3>2, <3>3
  <2> QED BY <2>1, <2>2
<1>5. ASSUME NEW i \in 1 .. l + 1, NEW j \in 1 .. l + 1, t[i] = t[j] PROVE i = j
  <2>1. \A k \in 1 .. l + 1 : k # 1 => k - 1 \in 1 .. l /\ t[k] = s[k - 1] /\ t[k] # x
    <3>1. ASSUME NEW k \in 1 .. l + 1, k # 1
          PROVE  k - 1 \in 1 .. l /\ t[k] = s[k - 1] /\ t[k] # x
      <4>1. k - 1 \in 1 .. l /\ k - 1 + 1 = k BY <1>3, <3>1
      <4>2. t[k - 1 + 1] = s[k - 1] /\ s[k - 1] # x BY <4>1 DEF l
      <4> QED BY <4>1, <4>2
    <3> QED BY <3>1
  <2>2. CASE i = 1 \/ j = 1 BY <1>5, <2>1, <2>2
  <2>3. CASE i # 1 /\ j # 1
    <3>1. i - 1 = j - 1 BY <1>1, <1>5, <2>1, <2>3
    <3> QED BY <3>1
  <2> QED BY <2>2, <2>3
<1> QED BY <1>2, <1>4, <1>5 DEF IsList

\* The first node taken away.
LEMMA ListTail ==
    ASSUME NEW Node, NEW null, null \notin Node, NEW head, NEW next, NEW s,
           IsList(s, head, next, Node, null), s # <<>>
    PROVE  /\ IsList(Tail(s), next[head], next, Node, null)
           /\ Len(Tail(s)) = Len(s) - 1
           /\ \A i \in 1 .. Len(s) - 1 : Tail(s)[i] = s[i + 1]
           /\ (next[head] = null) <=> (Len(s) = 1)
<1> DEFINE t == Tail(s)
           l == Len(s)
<1>1. /\ s \in Seq(Node) /\ l \in Nat /\ l # 0 /\ head = s[1] /\ 1 \in 1 .. l
      /\ \A i \in 1 .. l : s[i] \in Node
      /\ \A i, j \in 1 .. l : s[i] = s[j] => i = j
      /\ \A i \in 1 .. l : next[s[i]] = IF i = l THEN null ELSE s[i + 1]
  BY ListEmpty
<1>2. t \in Seq(Node) /\ Len(t) = l - 1 /\ \A i \in 1 .. l - 1 : t[i] = s[i + 1] BY <1>1
<1>3. (t = <<>>) <=> (l - 1 = 0) BY <1>2
<1>4. \A i \in 1 .. l - 1 : i + 1 \in 1 .. l BY <1>1
<1> HIDE DEF t, l
<1>5. ASSUME NEW i \in 1 .. l - 1 PROVE next[t[i]] = IF i = l - 1 THEN null ELSE t[i + 1]
  <2>1. i + 1 \in 1 .. l /\ t[i] = s[i + 1] /\ (i + 1 = l <=> i = l - 1) BY <1>1, <1>2, <1>4
  <2>2. i # l - 1 => i + 1 \in 1 .. l - 1 BY <1>1
  <2>3. next[s[i + 1]] = IF i + 1 = l THEN null ELSE s[i + 1 + 1] BY <1>1, <2>1
  <2>4. i # l - 1 => t[i + 1] = s[i + 1 + 1] BY <1>2, <2>2
  <2> QED BY <2>1, <2>3, <2>4
<1>6. ASSUME NEW i \in 1 .. l - 1, NEW j \in 1 .. l - 1, t[i] = t[j] PROVE i = j
  <2>1. i + 1 = j + 1 BY <1>1, <1>2, <1>4, <1>6
  <2> QED BY <2>1
<1>7. next[head] = IF t = <<>> THEN null ELSE t[1]
  <2>1. CASE l = 1 BY <1>1, <1>3, <2>1
  <2>2. CASE l # 1
    <3>1. 1 \in 1 .. l - 1 BY <1>1, <2>2
    <3>2. t[1] = s[1 + 1] BY <1>2, <3>1
    <3> QED BY <1>1, <1>3, <2>2, <3>2
  <2> QED BY <2>1, <2>2
<1>8. IsList(t, next[head], next, Node, null) BY <1>2, <1>5, <1>6, <1>7 DEF IsList
<1>9. (next[head] = null) <=> (l = 1)
  <2>1. l # 1 => 1 + 1 \in 1 .. l BY <1>1
  <2> QED BY <1>1, <2>1
<1> QED BY <1>2, <1>8, <1>9 DEF t, l

\* A node in the middle taken away: the one before it is linked to the one
\* after it.
LEMMA ListUnlink ==
    ASSUME NEW Node, NEW null, null \notin Node, NEW head, NEW next, NEW new, NEW s,
           IsList(s, head, next, Node, null), NEW p \in 2 .. Len(s),
           new[s[p - 1]] = next[s[p]],
           \A i \in 1 .. Len(s) : i # p - 1 => new[s[i]] = next[s[i]]
    PROVE  IsList(Without(s, p), head, new, Node, null)
<1> DEFINE t == Without(s, p)
           l == Len(s)
<1>1. /\ s \in Seq(Node) /\ l \in Nat /\ \A i \in 1 .. l : s[i] \in Node
      /\ s # <<>> => head = s[1]
      /\ s = <<>> <=> l = 0
      /\ \A i, j \in 1 .. l : s[i] = s[j] => i = j
      /\ \A i \in 1 .. l : next[s[i]] = IF i = l THEN null ELSE s[i + 1]
  BY ListEmpty
<1> HIDE DEF l
<1>2. p \in 2 .. l /\ l # 0 /\ l - 1 # 0 /\ p - 1 \in 1 .. l - 1 /\ 1 \in 1 .. l - 1 /\ 1 < p
  BY <1>1 DEF l
<1>3. t = [k \in 1 .. l - 1 |-> IF k < p THEN s[k] ELSE s[k + 1]] BY DEF Without, l
<1>4. \A k \in 1 .. l - 1 : k \in 1 .. l /\ k + 1 \in 1 .. l BY <1>1
<1>5. \A k \in 1 .. l - 1 : t[k] = IF k < p THEN s[k] ELSE s[k + 1] BY <1>3
<1>6. l - 1 \in Nat BY <1>1, <1>2
<1>7. t \in Seq(Node) /\ Len(t) = l - 1 /\ t # <<>>
  <2>1. t \in [1 .. l - 1 -> Node] BY <1>1, <1>3, <1>4
  <2> HIDE DEF t
  <2> QED BY <1>2, <1>6, <2>1
<1> HIDE DEF t
<1>8. head = t[1] BY <1>1, <1>2, <1>5
<1>9. ASSUME NEW i \in 1 .. l - 1, NEW j \in 1 .. l - 1, t[i] = t[j] PROVE i = j
  <2> DEFINE At(k) == IF k < p THEN k ELSE k + 1
  <2>1. At(i) \in 1 .. l /\ At(j) \in 1 .. l BY <1>4
  <2>2. t[i] = s[At(i)] /\ t[j] = s[At(j)] BY <1>5
  <2>3. At(i) = At(j)
    <3> HIDE DEF At
    <3> QED BY <1>1, <1>9, <2>1, <2>2
  <2> QED BY <1>2, <2>3
<1>10. ASSUME NEW i \in 1 .. l - 1 PROVE new[t[i]] = IF i = l - 1 THEN null ELSE t[i + 1]
  <2>0. i \in 1 .. l /\ i + 1 \in 1 .. l /\ (i # l - 1 => i + 1 \in 1 .. l - 1) BY <1>1, <1>4
  <2>1. CASE i = p - 1
    <3>1. i < p /\ ~(i + 1 < p) /\ i + 1 = p /\ (p = l <=> i = l - 1) BY <1>1, <2>1
    <3>2. t[i] = s[i] /\ new[s[i]] = next[s[p]] BY <1>5, <2>1, <3>1
    <3>3. next[s[p]] = IF p = l THEN null ELSE s[p + 1] BY <1>1, <2>0, <3>1
    <3>4. i # l - 1 => t[i + 1] = s[p + 1] BY <1>5, <2>0, <3>1
    <3> QED BY <3>1, <3>2, <3>3, <3>4
  <2>2. CASE i < p - 1
    <3>1. i < p /\ i + 1 < p /\ i # l /\ i # l - 1 BY <1>1, <1>2, <2>2
    <3>2. t[i] = s[i] /\ t[i + 1] = s[i + 1] BY <1>5, <2>0, <3>1
    <3>3. new[s[i]] = next[s[i]] BY <2>0, <2>2 DEF l
    <3>4. next[s[i]] = s[i + 1] BY <1>1, <2>0, <3>1
    <3> QED BY <3>1, <3>2, <3>3, <3>4
  <2>3. CASE i > p - 1
    <3>1. ~(i < p) /\ ~(i + 1 < p) /\ i + 1 # p - 1 /\ (i + 1 = l <=> i = l - 1)
      BY <1>1, <1>2, <2>3
    <3>2. t[i] = s[i + 1] /\ (i # l - 1 => t[i + 1] = s[i + 1 + 1]) BY <1>5, <2>0, <3>1
    <3>3. new[s[i + 1]] = next[s[i + 1]] BY <2>0, <3>1 DEF l
    <3>4. next[s[i + 1]] = IF i + 1 = l THEN null ELSE s[i + 1 + 1] BY <1>1, <2>0
    <3> QED BY <3>1, <3>2, <3>3, <3>4
  <2> QED BY <1>1, <1>2, <2>1, <2>2, <2>3
<1>11. IsList(t, head, new, Node, null) BY <1>7, <1>8, <1>9, <1>10 DEF IsList
<1> QED BY <1>11 DEF t

\* The first node is taken out of a list.
LEMMA TailWithout ==
    ASSUME NEW S, NEW s \in Seq(S), s # <<>>
    PROVE  Tail(s) = Without(s, 1)
<1> DEFINE l == Len(s)
           t == Tail(s)
<1>1. l \in Nat /\ l # 0 /\ t \in Seq(S) /\ Len(t) = l - 1 /\ \A i \in 1 .. l - 1 : t[i] = s[i + 1]
  OBVIOUS
<1> HIDE DEF t
<1>2. t = [i \in 1 .. l - 1 |-> t[i]] BY <1>1
<1>3. Without(s, 1) = [i \in 1 .. l - 1 |-> s[i + 1]]
  <2>1. \A i \in 1 .. l - 1 : ~(i < 1) BY <1>1
  <2> QED BY <2>1 DEF Without
<1> QED BY <1>1, <1>2, <1>3 DEF t

\* A node is taken out of a list.
LEMMA MembersWithout ==
    ASSUME NEW S, NEW s \in Seq(S), \A i, j \in 1 .. Len(s) : s[i] = s[j] => i = j,
           NEW p \in 1 .. Len(s)
    PROVE  /\ Without(s, p) \in Seq(S) /\ Len(Without(s, p)) = Len(s) - 1
           /\ Members(Without(s, p)) = Members(s) \ {s[p]}
           /\ p # Len(s) => Without(s, p) # <<>> /\ Without(s, p)[Len(s) - 1] = s[Len(s)]
           /\ Len(s) = 1 => Without(s, p) = <<>>
<1> DEFINE l == Len(s)
           t == Without(s, p)
<1>1. l \in Nat /\ p \in 1 .. l /\ (\A i \in 1 .. l : s[i] \in S)
      /\ \A i, j \in 1 .. l : s[i] = s[j] => i = j
  OBVIOUS
<1>2. t = [k \in 1 .. l - 1 |-> IF k < p THEN s[k] ELSE s[k + 1]] BY DEF Without
<1> HIDE DEF t, l
<1>3. l - 1 \in Nat /\ \A k \in 1 .. l - 1 : k \in 1 .. l /\ k + 1 \in 1 .. l BY <1>1
<1>4. t \in [1 .. l - 1 -> S] BY <1>1, <1>2, <1>3
<1>5. t \in Seq(S) /\ Len(t) = l - 1 BY <1>3, <1>4
<1>6. \A k \in 1 .. l - 1 : t[k] = IF k < p THEN s[k] ELSE s[k + 1] BY <1>2
<1>7. Members(t) = Members(s) \ {s[p]}
  <2>1. ASSUME NEW k \in 1 .. l - 1 PROVE \E i \in 1 .. l : t[k] = s[i] /\ i # p
    <3>1. CASE k < p BY <1>1, <1>3, <1>6, <3>1
    <3>2. CASE ~(k < p)
      <4>1. k + 1 \in 1 .. l /\ k + 1 # p BY <1>1, <1>3, <3>2
      <4> QED BY <1>6, <3>2, <4>1
    <3> QED BY <3>1, <3>2
  <2>2. ASSUME NEW i \in 1 .. l, i # p PROVE \E k \in 1 .. l - 1 : t[k] = s[i]
    <3>1. CASE i < p
      <4>1. i \in 1 .. l - 1 BY <1>1, <3>1
      <4> QED BY <1>6, <3>1, <4>1
    <3>2. CASE ~(i < p)
      <4>1. i - 1 \in 1 .. l - 1 /\ ~(i - 1 < p) /\ i - 1 + 1 = i BY <1>1, <2>2, <3>2
      <4> QED BY <1>6, <4>1
    <3> QED BY <3>1, <3>2
  <2>3. \A i \in 1 .. l : i # p <=> s[i] # s[p] BY <1>1
  <2>4. Members(t) = {t[k] : k \in 1 .. l - 1} /\ Members(s) = {s[k] : k \in 1 .. l}
    BY <1>5 DEF Members, l
  <2> QED BY <2>1, <2>2, <2>3, <2>4
<1>8. ASSUME p # l PROVE t # <<>> /\ t[l - 1] = s[l]
  <2>1. l - 1 \in 1 .. l - 1 /\ ~(l - 1 < p) /\ l - 1 + 1 = l BY <1>1, <1>8
  <2> QED BY <1>5, <1>6, <2>1
<1>9. l = 1 => t = <<>> BY <1>5
<1> QED BY <1>5, <1>7, <1>8, <1>9 DEF t, l

\* A list has as many nodes as places.
LEMMA MembersCount ==
    ASSUME NEW S, NEW s \in Seq(S), \A i, j \in 1 .. Len(s) : s[i] = s[j] => i = j
    PROVE  Cardinality(Members(s)) = Len(s)
<1> DEFINE M == Members(s)
           l == Len(s)
<1>1. /\ s \in [1 .. l -> M] /\ (\A i, j \in 1 .. l : s[i] = s[j] => i = j)
      /\ (\A m \in M : \E i \in 1 .. l : s[i] = m) /\ l \in Nat
  <2>1. s = [i \in 1 .. Len(s) |-> s[i]] /\ Len(s) \in Nat OBVIOUS
  <2> QED BY <2>1 DEF Members
<1> HIDE DEF M, l
<1>2. s \in Bijection(1 .. l, M)
  BY <1>1 DEF Bijection, Injection, Surjection, IsInjective
<1>3. ExistsBijection(1 .. l, M) BY <1>2 DEF ExistsBijection
<1> QED BY <1>1, <1>3, FS_CountingElements DEF M, l
=============================================================================
