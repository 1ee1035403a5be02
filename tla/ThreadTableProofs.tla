-------------------------- MODULE ThreadTableProofs --------------------------
(***************************************************************************)
(* thread_table.c implements the map from ids to TCBs of module Directory, *)
(* for tables of any size: the stack stays sorted by falling id, so that a *)
(* search that gives up at the first smaller id has not passed what it is  *)
(* looking for.                                                            *)
(***************************************************************************)
EXTENDS ThreadTable, PointerWalks

\* What the proofs need to know of the constants.
TableConstants ==
    IsFiniteSet(Handle) /\ NULL \notin Handle /\ NULL \notin Tcb /\ MaxId \in Nat

TableType ==
    /\ made \in BOOLEAN /\ head \in Handle \cup {NULL} /\ max_id \in 0 .. MaxId
    /\ next \in [Handle -> Handle \cup {NULL}]
    /\ id \in [Handle -> Nat]
    /\ tcb \in [Handle -> Tcb \cup {NULL}]
    /\ allocated \in SUBSET Handle
    /\ handle \in [Tcb -> Handle \cup {NULL}]

\* The handles from head on are the allocated ones, by falling id.
Falling(s, f) == \A i, j \in 1 .. Len(s) : i < j => f[s[i]] > f[s[j]]
Stacked(s) ==
    /\ IsList(s, head, next, Handle, NULL) /\ Members(s) = allocated
    /\ size = Len(s) /\ Falling(s, id)

\* A handle in use has an id that was given out, and a TCB that points to it.
Paired ==
    /\ \A h \in allocated : id[h] < max_id /\ tcb[h] \in Tcb /\ handle[tcb[h]] = h
    /\ \A t \in Tcb : handle[t] # NULL => handle[t] \in allocated /\ tcb[handle[t]] = t

TableInv ==
    /\ TableType
    /\ Stacked(List)
    /\ Paired
    /\ ~made => head = NULL

Entries == [k \in 0 .. MaxId - 1 |-> Entry(k)]

\* f gives the TCB of every handle under its id, and nothing else.
Directs(f) ==
    /\ f = [k \in 0 .. MaxId - 1 |-> f[k]]
    /\ \A h \in allocated : f[id[h]] = tcb[h]
    /\ \A k \in 0 .. MaxId - 1 : (\A h \in allocated : id[h] # k) => f[k] = NULL
-----------------------------------------------------------------------------
\* What the operations find: the stack, and ids that tell the handles apart.
LEMMA TableFacts ==
    ASSUME TableConstants, TableInv
    PROVE  \E s \in Seq(Handle) :
             /\ List = s /\ Stacked(s) /\ ToSet(List) = allocated /\ DOMAIN List = 1 .. Len(s)
             /\ head = NULL <=> s = <<>>
             /\ s # <<>> => head = s[1] /\ 1 \in 1 .. Len(s)
             /\ \A i, j \in 1 .. Len(s) : s[i] = s[j] => i = j
             /\ \A i \in 1 .. Len(s) : s[i] \in allocated /\ s[i] \in Handle
             /\ \A h \in allocated : \E i \in 1 .. Len(s) : s[i] = h
<1> DEFINE s == List
<1>1. Stacked(s) /\ IsList(s, head, next, Handle, NULL) /\ NULL \notin Handle
  BY DEF TableInv, Stacked, TableConstants
<1> HIDE DEF s
<1>2. /\ s \in Seq(Handle) /\ DOMAIN s = 1 .. Len(s)
      /\ \A i \in 1 .. Len(s) : s[i] \in Handle
      /\ head = NULL <=> s = <<>>
      /\ s # <<>> => head = s[1] /\ 1 \in 1 .. Len(s)
      /\ \A i, j \in 1 .. Len(s) : s[i] = s[j] => i = j
  BY <1>1, ListEmpty
<1>3. /\ ToSet(s) = allocated
      /\ \A i \in 1 .. Len(s) : s[i] \in allocated
      /\ \A h \in allocated : \E i \in 1 .. Len(s) : s[i] = h
  BY <1>1, <1>2 DEF Stacked, Members, ToSet
<1> QED BY <1>1, <1>2, <1>3 DEF s

\* No two handles have the same id.
LEMMA IdsDiffer ==
    ASSUME TableConstants, TableInv, NEW g \in allocated, NEW h \in allocated, id[g] = id[h]
    PROVE  g = h
<1>1. PICK s \in Seq(Handle) :
        /\ Stacked(s)
        /\ \A i \in 1 .. Len(s) : s[i] \in Handle
        /\ \A x \in allocated : \E i \in 1 .. Len(s) : s[i] = x
  BY TableFacts
<1>2. PICK i \in 1 .. Len(s) : s[i] = g BY <1>1
<1>3. PICK j \in 1 .. Len(s) : s[j] = h BY <1>1
<1>4. id[g] \in Nat /\ id[h] \in Nat BY <1>1, <1>2, <1>3 DEF TableInv, TableType
<1>5. i = j
  <2>1. i < j => id[g] > id[h] BY <1>1, <1>2, <1>3 DEF Stacked, Falling
  <2>2. j < i => id[h] > id[g] BY <1>1, <1>2, <1>3 DEF Stacked, Falling
  <2> QED BY <1>4, <2>1, <2>2
<1> QED BY <1>2, <1>3, <1>5

\* All ids were given out by put_tcb.
LEMMA IdsKnown ==
    ASSUME TableConstants, TableInv, NEW h \in allocated
    PROVE  id[h] \in 0 .. MaxId - 1 /\ id[h] \in 0 .. max_id - 1
BY DEF TableInv, TableType, Paired, TableConstants

\* The abstract map is what the handles say.
LEMMA EntriesFound == TableConstants /\ TableInv => Directs(Entries)
<1> SUFFICES ASSUME TableConstants, TableInv PROVE Directs(Entries) OBVIOUS
<1>1. ToSet(List) = allocated BY TableFacts
<1>2. ASSUME NEW h \in allocated PROVE Entries[id[h]] = tcb[h]
  <2>1. id[h] \in 0 .. MaxId - 1 BY <1>2, IdsKnown
  <2>2. \A g \in ToSet(List) : id[g] = id[h] => g = h BY <1>1, <1>2, IdsDiffer
  <2>3. Entry(id[h]) = tcb[h] BY <1>1, <2>2 DEF Entry
  <2> QED BY <2>1, <2>3 DEF Entries
<1>3. ASSUME NEW k \in 0 .. MaxId - 1, \A h \in allocated : id[h] # k PROVE Entries[k] = NULL
  BY <1>1, <1>3 DEF Entries, Entry
<1>4. Entries = [k \in 0 .. MaxId - 1 |-> Entries[k]] BY DEF Entries
<1> QED BY <1>2, <1>3, <1>4 DEF Directs

\* What a step leaves, in terms of the next state.
LEMMA TableLeft ==
    ASSUME TableConstants, NEW s, NEW f, TableType', IsList(s, head', next', Handle, NULL),
           Members(s) = allocated', size' = Len(s), Falling(s, id'), Paired',
           made' \/ head' = NULL,
           f = [k \in 0 .. MaxId - 1 |-> f[k]],
           \A h \in allocated' : f[id'[h]] = tcb'[h],
           \A k \in 0 .. MaxId - 1 : (\A h \in allocated' : id'[h] # k) => f[k] = NULL
    PROVE  TableInv' /\ Entries' = f
<1>1. NULL \notin Handle /\ IsFiniteSet(Handle) BY DEF TableConstants
<1>2. List' = s BY <1>1, NodesOf DEF List
<1>3. TableInv' BY <1>2 DEF TableInv, Stacked
<1>4. TableConstants' BY DEF TableConstants
<1>5. (TableConstants /\ TableInv => Directs(Entries))' BY EntriesFound, PTL
<1> DEFINE e == Entries'
<1>6. /\ e = [k \in 0 .. MaxId - 1 |-> e[k]]
      /\ \A h \in allocated' : e[id'[h]] = tcb'[h]
      /\ \A k \in 0 .. MaxId - 1 : (\A h \in allocated' : id'[h] # k) => e[k] = NULL
  BY <1>3, <1>4, <1>5 DEF Directs
<1> HIDE DEF e
<1>7. ASSUME NEW k \in 0 .. MaxId - 1 PROVE e[k] = f[k]
  <2>1. CASE \E h \in allocated' : id'[h] = k BY <1>6, <2>1
  <2>2. CASE \A h \in allocated' : id'[h] # k BY <1>6, <2>2
  <2> QED BY <2>1, <2>2
<1>8. e = f BY <1>6, <1>7
<1> QED BY <1>3, <1>8 DEF e

-----------------------------------------------------------------------------
\* The empty stack.
LEMMA EmptyStack ==
    /\ Members(<<>>) = {} /\ Len(<<>>) = 0
    /\ \A f : Falling(<<>>, f)
<1>1. Len(<<>>) = 0 /\ 1 .. 0 = {} OBVIOUS
<1> QED BY <1>1 DEF Members, Falling

\* Nothing is in the table.
LEMMA EmptyTable ==
    ASSUME TableConstants, TableType', head' = NULL, size' = 0, allocated' = {},
           \A t \in Tcb : handle'[t] = NULL
    PROVE  TableInv' /\ Entries' = Abstract!Empty
<1> DEFINE f == Abstract!Empty
<1>1. f = [k \in 0 .. MaxId - 1 |-> f[k]] /\ \A k \in 0 .. MaxId - 1 : f[k] = NULL
  BY DEF Abstract!Empty
<1>2. Paired' BY DEF Paired
<1>3. IsList(<<>>, head', next', Handle, NULL) BY NullList
<1> HIDE DEF f
<1>4. TableInv' /\ Entries' = f BY <1>1, <1>2, <1>3, EmptyStack, TableLeft
<1> QED BY <1>4 DEF f

\* At first there is no table.
LEMMA InitTable == ASSUME TableConstants PROVE Init => TableInv /\ stale = FALSE /\ Abstract!Init
<1> SUFFICES ASSUME Init PROVE TableInv /\ stale = FALSE /\ Abstract!Init OBVIOUS
<1>0. NULL \notin Handle /\ IsFiniteSet(Handle) BY DEF TableConstants
<1>1. TableType
  <2>1. 0 \in 0 .. MaxId /\ 0 \in Nat BY DEF TableConstants
  <2> QED BY <2>1 DEF Init, TableType
<1>2. IsList(<<>>, head, next, Handle, NULL) BY NullList DEF Init
<1>3. List = <<>> BY <1>0, <1>2, NodesOf DEF List
<1>4. Stacked(List) BY <1>2, <1>3, EmptyStack DEF Stacked, Init
<1>5. TableInv BY <1>1, <1>4 DEF TableInv, Paired, Init
<1>6. ToSet(List) = {} BY <1>3 DEF ToSet
<1>7. Entries = Abstract!Empty BY <1>6 DEF Entries, Entry, Abstract!Empty
<1> QED BY <1>5, <1>7 DEF Abstract!Init, Abstract!Answer, Answer, Init, Entries

\* init_table makes an empty one.
LEMMA InitTableStep ==
    ASSUME TableConstants, TableInv, init_table
    PROVE  TableInv' /\ Abstract!Make
<1>1. PICK s \in Seq(Handle) : Stacked(s) /\ (head = NULL <=> s = <<>>) BY TableFacts
<1>2. allocated = {} BY <1>1, EmptyStack DEF TableInv, init_table, Stacked
<1>3. \A t \in Tcb : handle[t] = NULL BY <1>2 DEF TableInv, Paired
<1>4. TableType'
  <2>1. 0 \in 0 .. MaxId BY DEF TableConstants
  <2> QED BY <2>1 DEF TableInv, TableType, init_table
<1>5. TableInv' /\ Entries' = Abstract!Empty BY <1>2, <1>3, <1>4, EmptyTable DEF init_table
<1> QED BY <1>5 DEF Entries, init_table, Abstract!Make, Abstract!Answer, Answer

\* destroy_table frees all handles and resets the TCBs.
LEMMA DestroyStep ==
    ASSUME TableConstants, TableInv, destroy_table
    PROVE  TableInv' /\ Abstract!Destroy
<1>1. ToSet(List) = allocated BY TableFacts
<1>2. allocated' = {} BY <1>1 DEF destroy_table, TableInv, TableType
<1>3. \A t \in Tcb : handle'[t] = NULL BY <1>1 DEF TableInv, Paired, destroy_table
<1>4. TableType'
  <2>1. handle' \in [Tcb -> Handle \cup {NULL}] BY DEF TableInv, TableType, destroy_table
  <2>2. 0 \in 0 .. MaxId BY DEF TableConstants
  <2> QED BY <1>2, <2>1, <2>2 DEF TableInv, TableType, destroy_table
<1>5. TableInv' /\ Entries' = Abstract!Empty BY <1>2, <1>3, <1>4, EmptyTable DEF destroy_table
<1> QED BY <1>5 DEF Entries, destroy_table, Abstract!Destroy, Abstract!Answer, Answer

\* The ids that are in use.
LEMMA KnownIds ==
    ASSUME TableConstants, TableInv
    PROVE  /\ Entries = [k \in 0 .. MaxId - 1 |-> Entries[k]]
           /\ \A h \in allocated : /\ id[h] \in 0 .. MaxId - 1 /\ Entries[id[h]] = tcb[h]
                                   /\ tcb[h] # NULL /\ id[h] \in Abstract!Known
           /\ \A k \in Abstract!Known : \E h \in allocated : id[h] = k /\ Entries[k] = tcb[h]
<1>1. Directs(Entries) BY EntriesFound
<1>2. \A h \in allocated : id[h] \in 0 .. MaxId - 1 BY IdsKnown
<1>3. \A h \in allocated : tcb[h] # NULL BY DEF TableInv, Paired, TableConstants
<1>4. Abstract!Known = {k \in 0 .. MaxId - 1 : Entries[k] # NULL}
  BY DEF Abstract!Known, Entries
<1> QED BY <1>1, <1>2, <1>3, <1>4 DEF Directs

\* One more handle in front, with the largest id.
OneMore(r, s, h) ==
    /\ Len(r) = Len(s) + 1 /\ r[1] = h
    /\ \A i \in 1 .. Len(s) : r[i + 1] = s[i]
    /\ Members(r) = Members(s) \cup {h}

\* There is such a stack.
LEMMA PushedStack ==
    ASSUME NEW s \in Seq(Handle), NEW h \in Handle
    PROVE  \E r \in Seq(Handle) : OneMore(r, s, h)
<1> DEFINE l == Len(s)
           r == [i \in 1 .. l + 1 |-> IF i = 1 THEN h ELSE s[i - 1]]
<1>1. l \in Nat /\ \A i \in 1 .. l : s[i] \in Handle OBVIOUS
<1> HIDE DEF l
<1>2. \A i \in 1 .. l + 1 : i = 1 \/ i - 1 \in 1 .. l BY <1>1
<1>3. r \in [1 .. l + 1 -> Handle] BY <1>1, <1>2
<1>4. r[1] = h /\ \A i \in 1 .. l : r[i + 1] = s[i] BY <1>1
<1> HIDE DEF r
<1>5. r \in Seq(Handle) /\ Len(r) = l + 1 BY <1>1, <1>3
<1>6. Members(r) = Members(s) \cup {h}
  <2>1. Members(r) = {r[i] : i \in 1 .. l + 1} /\ Members(s) = {s[i] : i \in 1 .. l}
    BY <1>5 DEF Members, l
  <2>2. ASSUME NEW i \in 1 .. l + 1 PROVE r[i] = h \/ \E j \in 1 .. l : r[i] = s[j]
    <3>1. CASE i = 1 BY <1>4, <3>1
    <3>2. CASE i - 1 \in 1 .. l
      <4>1. i - 1 + 1 = i BY <1>1
      <4> QED BY <1>4, <3>2, <4>1
    <3> QED BY <1>2, <3>1, <3>2
  <2>3. \A j \in 1 .. l : \E i \in 1 .. l + 1 : r[i] = s[j] BY <1>1, <1>4
  <2>4. \E i \in 1 .. l + 1 : r[i] = h BY <1>1, <1>4
  <2> QED BY <2>1, <2>2, <2>3, <2>4
<1> QED BY <1>4, <1>5, <1>6 DEF l, OneMore

\* put_tcb enters a TCB that is not in the table under the next id.
LEMMA PutStep ==
    ASSUME TableConstants, TableInv, stale = FALSE, NEW h \in Handle, NEW t \in Tcb, put_tcb(h, t),
           handle[t] = NULL
    PROVE  TableInv' /\ Abstract!Put(t)
<1>1. PICK s \in Seq(Handle) :
        /\ Stacked(s)
        /\ \A i \in 1 .. Len(s) : s[i] \in allocated /\ s[i] \in Handle
  BY TableFacts
<1>2. /\ TableType /\ Paired /\ made /\ made' /\ max_id < MaxId /\ handle[t] = NULL /\ h \notin allocated
      /\ allocated' = allocated \cup {h} /\ head' = h /\ size' = size + 1 /\ max_id' = max_id + 1
      /\ max_id \in 0 .. MaxId - 1 /\ NULL \notin Handle /\ NULL \notin Tcb
  BY DEF TableInv, TableType, put_tcb, TableConstants
<1>16. stale' = stale BY DEF put_tcb
<1>3. TableType' BY <1>2 DEF TableType, put_tcb, TableConstants
<1>4. /\ tcb'[h] = t /\ id'[h] = max_id /\ next'[h] = head /\ handle'[t] = h
      /\ \A g \in allocated : tcb'[g] = tcb[g] /\ id'[g] = id[g] /\ next'[g] = next[g]
      /\ \A u \in Tcb : u # t => handle'[u] = handle[u]
  BY <1>2 DEF put_tcb, TableType
<1>0. PICK r \in Seq(Handle) : OneMore(r, s, h) BY PushedStack
<1>5. /\ Len(r) = Len(s) + 1 /\ r[1] = h
      /\ \A i \in 1 .. Len(s) : r[i + 1] = s[i]
      /\ Members(r) = Members(s) \cup {h}
  BY <1>0 DEF OneMore
<1>6. IsList(r, head', next', Handle, NULL)
  <2> DEFINE new == next'
  <2>1. \A i \in 1 .. Len(s) : s[i] # h /\ new[s[i]] = next[s[i]] BY <1>1, <1>2, <1>4
  <2>2. new[h] = head BY <1>4
  <2>3. IsList(s, head, next, Handle, NULL) BY <1>1 DEF Stacked
  <2> HIDE DEF new
  <2>4. IsList(r, h, new, Handle, NULL) BY <1>2, <1>5, <2>1, <2>2, <2>3, ListPush
  <2> QED BY <1>2, <2>4 DEF new
<1>7. Members(r) = allocated' /\ size' = Len(r) BY <1>1, <1>2, <1>5 DEF Stacked
<1>8. Falling(r, id')
  <2> SUFFICES ASSUME NEW i \in 1 .. Len(r), NEW j \in 1 .. Len(r), i < j
               PROVE  id'[r[i]] > id'[r[j]]
    BY DEF Falling
  <2>1. Len(s) \in Nat OBVIOUS
  <2>2. j - 1 \in 1 .. Len(s) /\ j - 1 + 1 = j BY <1>5, <2>1
  <2>3. r[j] = s[j - 1] /\ id'[r[j]] = id[s[j - 1]]
    <3>1. r[j - 1 + 1] = s[j - 1] /\ s[j - 1] \in allocated BY <1>1, <1>5, <2>2
    <3> QED BY <1>4, <2>2, <3>1
  <2>4. CASE i = 1
    <3>1. id'[r[i]] = max_id BY <1>4, <1>5, <2>4
    <3>2. id[s[j - 1]] < max_id /\ id[s[j - 1]] \in Nat BY <1>1, <1>2, <2>2 DEF Paired, TableType
    <3> QED BY <1>2, <2>3, <3>1, <3>2
  <2>5. CASE i # 1
    <3>1. i - 1 \in 1 .. Len(s) /\ i - 1 + 1 = i /\ i - 1 < j - 1 BY <1>5, <2>1, <2>5
    <3>2. r[i - 1 + 1] = s[i - 1] /\ s[i - 1] \in allocated BY <1>1, <1>5, <3>1
    <3>3. r[i] = s[i - 1] /\ id'[r[i]] = id[s[i - 1]] BY <1>4, <3>1, <3>2
    <3> QED BY <1>1, <2>2, <2>3, <3>1, <3>3 DEF Stacked, Falling
  <2> QED BY <2>4, <2>5
<1>9. Paired'
  <2>1. ASSUME NEW g \in allocated'
        PROVE  id'[g] < max_id' /\ tcb'[g] \in Tcb /\ handle'[tcb'[g]] = g
    <3>1. CASE g = h BY <1>2, <1>4, <3>1
    <3>2. CASE g \in allocated
      <4>1. id[g] < max_id /\ tcb[g] \in Tcb /\ handle[tcb[g]] = g /\ id[g] \in Nat /\ g # NULL
        BY <1>2, <3>2 DEF Paired, TableType
      <4>2. tcb[g] # t BY <1>2, <4>1
      <4> QED BY <1>2, <1>4, <3>2, <4>1, <4>2
    <3> QED BY <1>2, <2>1, <3>1, <3>2
  <2>2. ASSUME NEW u \in Tcb, handle'[u] # NULL PROVE handle'[u] \in allocated' /\ tcb'[handle'[u]] = u
    <3>1. CASE u = t BY <1>2, <1>4, <3>1
    <3>2. CASE u # t BY <1>2, <1>4, <2>2, <3>2 DEF Paired
    <3> QED BY <3>1, <3>2
  <2> QED BY <2>1, <2>2 DEF Paired
<1> DEFINE f == [Entries EXCEPT ![max_id] = t]
<1>10. /\ Entries = [k \in 0 .. MaxId - 1 |-> Entries[k]]
       /\ \A g \in allocated : id[g] \in 0 .. MaxId - 1 /\ Entries[id[g]] = tcb[g]
       /\ \A k \in Abstract!Known : \E g \in allocated : id[g] = k /\ Entries[k] = tcb[g]
  BY KnownIds
<1>11. /\ f = [k \in 0 .. MaxId - 1 |-> f[k]] /\ f[max_id] = t
       /\ \A k \in 0 .. MaxId - 1 : k # max_id => f[k] = Entries[k]
  BY <1>2, <1>10
<1> HIDE DEF f
<1>12. \A g \in allocated' : f[id'[g]] = tcb'[g]
  <2> SUFFICES ASSUME NEW g \in allocated' PROVE f[id'[g]] = tcb'[g] OBVIOUS
  <2>1. CASE g = h BY <1>4, <1>11, <2>1
  <2>2. CASE g \in allocated
    <3>1. id[g] < max_id /\ id[g] \in Nat BY <1>2, <2>2 DEF Paired, TableType
    <3>2. id[g] # max_id BY <1>2, <3>1
    <3> QED BY <1>4, <1>10, <1>11, <2>2, <3>2
  <2> QED BY <1>2, <2>1, <2>2
<1>13. ASSUME NEW k \in 0 .. MaxId - 1, \A g \in allocated' : id'[g] # k PROVE f[k] = NULL
  <2>1. k # max_id BY <1>2, <1>4, <1>13
  <2>2. \A g \in allocated : id[g] # k BY <1>2, <1>4, <1>13
  <2>3. Directs(Entries) BY EntriesFound
  <2> QED BY <1>11, <2>1, <2>2, <2>3 DEF Directs
<1>14. TableInv' /\ Entries' = f
  BY <1>2, <1>3, <1>6, <1>7, <1>8, <1>9, <1>11, <1>12, <1>13, TableLeft
<1>15. \A k \in Abstract!Known : Entries[k] # t
  BY <1>2, <1>10 DEF Paired, TableType
<1> QED BY <1>2, <1>14, <1>15, <1>16 DEF f, Entries, put_tcb, Abstract!Put, Abstract!Answer, Answer

\* Putting a TCB that is in the table frees its handle, which stays in the stack.
LEMMA PutTwiceStep ==
    ASSUME TableConstants, TableInv, NEW h \in Handle, NEW t \in Tcb, put_tcb(h, t),
           handle[t] # NULL
    PROVE  stale' = TRUE /\ Abstract!PutTwice(t)
<1>1. handle[t] \in allocated /\ tcb[handle[t]] = t BY DEF TableInv, Paired
<1>2. id[handle[t]] \in Abstract!Known /\ Entries[id[handle[t]]] = t BY <1>1, KnownIds
<1> QED BY <1>2 DEF put_tcb, Entries, Abstract!PutTwice

-----------------------------------------------------------------------------
\* The early end of the search does no harm: what it finds is the handle with
\* the id, wherever in the stack it is.
LEMMA SearchFinds ==
    ASSUME TableConstants, TableInv, NEW s \in Seq(Handle), List = s, Stacked(s), NEW k \in Nat
    PROVE  FoundAt(k) = {i \in 1 .. Len(s) : id[s[i]] = k}
<1>1. DOMAIN s = 1 .. Len(s) /\ Len(s) \in Nat /\ \A i \in 1 .. Len(s) : s[i] \in Handle OBVIOUS
<1>2. ASSUME NEW i \in 1 .. Len(s), id[s[i]] = k
      PROVE  id[s[i]] <= k /\ \A j \in 1 .. i - 1 : id[s[j]] > k
  <2>1. \A j \in 1 .. i - 1 : j \in 1 .. Len(s) /\ j < i BY <1>1
  <2>2. \A j \in 1 .. i - 1 : id[s[j]] > id[s[i]] BY <2>1 DEF Stacked, Falling
  <2> QED BY <1>2, <2>2
<1> QED BY <1>1, <1>2 DEF FoundAt, StopsAt

\* Looking up the id k gives the entry for k.
LEMMA LookupStep ==
    ASSUME TableConstants, TableInv, NEW k \in Nat, Lookup(k)
    PROVE  /\ TableInv' /\ Entries' = Entries /\ made' = made /\ max_id' = max_id
           /\ stale' = stale
           /\ res' = Answer("get", IF k \in Abstract!Known THEN Entries[k] ELSE NULL)
<1>1. PICK s \in Seq(Handle) :
        /\ List = s /\ Stacked(s)
        /\ \A i \in 1 .. Len(s) : s[i] \in allocated
        /\ \A h \in allocated : \E i \in 1 .. Len(s) : s[i] = h
  BY TableFacts
<1>2. FoundAt(k) = {i \in 1 .. Len(s) : id[s[i]] = k} BY <1>1, SearchFinds
<1>3. /\ \A h \in allocated : Entries[id[h]] = tcb[h] /\ id[h] \in Abstract!Known
      /\ \A j \in Abstract!Known : \E h \in allocated : id[h] = j /\ Entries[j] = tcb[h]
  BY KnownIds
<1>4. TableInv' /\ Entries' = Entries
  BY DEF Lookup, TableInv, TableType, Stacked, Paired, List, Entries, Entry
<1>5. CASE FoundAt(k) = {}
  <2>1. k \notin Abstract!Known BY <1>1, <1>2, <1>3, <1>5
  <2>2. res' = Answer("get", NULL) BY <1>5 DEF Lookup
  <2> QED BY <1>4, <2>1, <2>2 DEF Lookup
<1>6. CASE FoundAt(k) # {}
  <2>1. PICK i \in FoundAt(k) : res' = Answer("get", tcb[s[i]]) BY <1>1, <1>6 DEF Lookup
  <2>2. i \in 1 .. Len(s) /\ id[s[i]] = k /\ s[i] \in allocated BY <1>1, <1>2, <2>1
  <2>3. k \in Abstract!Known /\ Entries[k] = tcb[s[i]] BY <1>3, <2>2
  <2> QED BY <1>4, <2>1, <2>3 DEF Lookup
<1> QED BY <1>5, <1>6

\* get_tcb_by_id gives the entry.
LEMMA GetByIdStep ==
    ASSUME TableConstants, TableInv, NEW k \in 0 .. MaxId, get_tcb_by_id(k)
    PROVE  TableInv' /\ Abstract!Find(k)
<1>1. k \in Nat /\ made /\ Lookup(k) BY DEF get_tcb_by_id, TableConstants
<1>2. /\ TableInv' /\ Entries' = Entries /\ made' = made /\ max_id' = max_id /\ stale' = stale
      /\ res' = Answer("get", IF k \in Abstract!Known THEN Entries[k] ELSE NULL)
  BY <1>1, LookupStep
<1> QED BY <1>1, <1>2 DEF Entries, Abstract!Find, Abstract!Answer, Answer

\* get_tcb gives the TCB itself if it is in the table.
LEMMA GetStep ==
    ASSUME TableConstants, TableInv, NEW t \in Tcb, get_tcb(t)
    PROVE  TableInv' /\ Abstract!FindTcb(t)
<1>1. /\ \A h \in allocated : Entries[id[h]] = tcb[h] /\ id[h] \in Abstract!Known
      /\ \A j \in Abstract!Known : \E h \in allocated : id[h] = j /\ Entries[j] = tcb[h]
  BY KnownIds
<1>2. made /\ Paired /\ TableType /\ NULL \notin Handle BY DEF get_tcb, TableInv, TableConstants
<1>3. CASE handle[t] = NULL
  <2>1. ~\E k \in Abstract!Known : Entries[k] = t BY <1>1, <1>2, <1>3 DEF Paired, TableType
  <2>2. /\ res' = Answer("get", NULL)
        /\ UNCHANGED <<made, head, max_id, size, next, id, tcb, allocated, handle, stale>>
    BY <1>3 DEF get_tcb
  <2>3. TableInv' /\ Entries' = Entries
    BY <2>2 DEF TableInv, TableType, Stacked, Paired, List, Entries, Entry
  <2> QED BY <1>2, <2>1, <2>2, <2>3 DEF Entries, Abstract!FindTcb, Abstract!Answer, Answer
<1>4. CASE handle[t] # NULL
  <2> DEFINE h == handle[t]
  <2>1. h \in allocated /\ tcb[h] = t /\ id[h] \in Nat BY <1>2, <1>4 DEF Paired, TableType
  <2>2. Lookup(id[h]) BY <1>4 DEF get_tcb
  <2> HIDE DEF h
  <2>3. /\ TableInv' /\ Entries' = Entries /\ made' = made /\ max_id' = max_id /\ stale' = stale
        /\ res' = Answer("get", IF id[h] \in Abstract!Known THEN Entries[id[h]] ELSE NULL)
    BY <2>1, <2>2, LookupStep
  <2>4. id[h] \in Abstract!Known /\ Entries[id[h]] = t BY <1>1, <2>1
  <2>5. res' = Answer("get", t) BY <2>3, <2>4
  <2> QED BY <1>2, <2>3, <2>4, <2>5 DEF Entries, Abstract!FindTcb, Abstract!Answer, Answer
<1> QED BY <1>3, <1>4

-----------------------------------------------------------------------------
\* The handle at place p is taken out.
LEMMA TakenOut ==
    ASSUME TableConstants, TableInv, NEW s \in Seq(Handle), Stacked(s), NEW p \in 1 .. Len(s),
           IsList(Without(s, p), head', next', Handle, NULL), TableType', made',
           allocated' = allocated \ {s[p]}, size' = size - 1,
           handle' = [handle EXCEPT ![tcb[s[p]]] = NULL],
           id' = id, tcb' = tcb, max_id' = max_id
    PROVE  TableInv' /\ Entries' = [Entries EXCEPT ![id[s[p]]] = NULL]
<1> DEFINE r == Without(s, p)
           x == s[p]
           f == [Entries EXCEPT ![id[x]] = NULL]
<1>1. /\ \A i, j \in 1 .. Len(s) : s[i] = s[j] => i = j
      /\ Members(s) = allocated /\ size = Len(s) /\ Len(s) \in Nat
  BY DEF Stacked, IsList
<1>2. Len(r) = Len(s) - 1 /\ Members(r) = Members(s) \ {x} BY <1>1, MembersWithout
<1>3. Members(r) = allocated' /\ size' = Len(r) BY <1>1, <1>2
<1>4. x \in allocated /\ x \in Handle /\ tcb[x] \in Tcb /\ handle[tcb[x]] = x /\ x # NULL
  BY <1>1 DEF Members, TableInv, Paired, TableType, TableConstants
<1>5. Falling(r, id')
  <2> SUFFICES ASSUME NEW i \in 1 .. Len(r), NEW j \in 1 .. Len(r), i < j
               PROVE  id'[r[i]] > id'[r[j]]
    BY DEF Falling
  <2> DEFINE At(k) == IF k < p THEN k ELSE k + 1
  <2>1. i \in 1 .. Len(s) - 1 /\ j \in 1 .. Len(s) - 1 BY <1>2
  <2>2. r[i] = s[At(i)] /\ r[j] = s[At(j)] BY <2>1 DEF Without
  <2>3. At(i) \in 1 .. Len(s) /\ At(j) \in 1 .. Len(s) /\ At(i) < At(j) BY <1>1, <2>1
  <2> HIDE DEF At
  <2> QED BY <2>2, <2>3 DEF Stacked, Falling
<1>6. \A u \in Tcb : handle'[u] = IF u = tcb[x] THEN NULL ELSE handle[u]
  BY <1>4 DEF TableInv, TableType
<1> HIDE DEF r, x
<1>7. allocated' = allocated \ {x} BY DEF x
<1>8. Paired'
  <2>1. ASSUME NEW g \in allocated' PROVE id'[g] < max_id' /\ tcb'[g] \in Tcb /\ handle'[tcb'[g]] = g
    <3>1. g \in allocated /\ g # x BY <1>7, <2>1
    <3>2. id[g] < max_id /\ tcb[g] \in Tcb /\ handle[tcb[g]] = g BY <3>1 DEF TableInv, Paired
    <3>3. tcb[g] # tcb[x] BY <1>4, <3>1, <3>2
    <3> QED BY <1>6, <3>2, <3>3
  <2>2. ASSUME NEW u \in Tcb, handle'[u] # NULL
        PROVE  handle'[u] \in allocated' /\ tcb'[handle'[u]] = u
    <3>1. u # tcb[x] /\ handle'[u] = handle[u] BY <1>6, <2>2
    <3>2. handle[u] \in allocated /\ tcb[handle[u]] = u BY <2>2, <3>1 DEF TableInv, Paired
    <3>3. handle[u] # x BY <3>1, <3>2
    <3> QED BY <1>7, <3>1, <3>2, <3>3
  <2> QED BY <2>1, <2>2 DEF Paired
<1>9. Directs(Entries) BY EntriesFound
<1>10. \A g \in allocated : id[g] \in 0 .. MaxId - 1 BY IdsKnown
<1>11. \A g \in allocated : id[g] = id[x] => g = x BY <1>4, IdsDiffer
<1>12. /\ f = [k \in 0 .. MaxId - 1 |-> f[k]] /\ f[id[x]] = NULL
       /\ \A k \in 0 .. MaxId - 1 : k # id[x] => f[k] = Entries[k]
  BY <1>4, <1>9, <1>10 DEF Directs
<1> HIDE DEF f
<1>13. \A g \in allocated' : f[id'[g]] = tcb'[g]
  BY <1>7, <1>9, <1>10, <1>11, <1>12 DEF Directs
<1>14. ASSUME NEW k \in 0 .. MaxId - 1, \A g \in allocated' : id'[g] # k PROVE f[k] = NULL
  <2>1. CASE k = id[x] BY <1>12, <2>1
  <2>2. CASE k # id[x]
    <3>1. \A g \in allocated : id[g] # k BY <1>7, <1>14, <2>2
    <3> QED BY <1>9, <1>12, <2>2, <3>1 DEF Directs
  <2> QED BY <2>1, <2>2
<1>15. IsList(r, head', next', Handle, NULL) BY DEF r
<1>16. TableInv' /\ Entries' = f
  BY <1>3, <1>5, <1>8, <1>12, <1>13, <1>14, <1>15, TableLeft
<1> QED BY <1>16 DEF f, x

\* pop_tcb takes the entry with the largest id.
LEMMA PopStep ==
    ASSUME TableConstants, TableInv, pop_tcb
    PROVE  TableInv' /\ Abstract!Pop
<1>1. PICK s \in Seq(Handle) :
        /\ Stacked(s) /\ (head = NULL <=> s = <<>>)
        /\ s # <<>> => head = s[1] /\ 1 \in 1 .. Len(s)
        /\ \A i \in 1 .. Len(s) : s[i] \in allocated /\ s[i] \in Handle
        /\ \A h \in allocated : \E i \in 1 .. Len(s) : s[i] = h
  BY TableFacts
<1>2. /\ made /\ made' /\ max_id' = max_id /\ next' = next /\ id' = id /\ tcb' = tcb /\ made' = made
      /\ stale' = stale /\ TableType /\ Paired /\ NULL \notin Handle
  BY DEF pop_tcb, TableInv, TableConstants
<1>3. /\ \A h \in allocated : id[h] \in 0 .. MaxId - 1 /\ Entries[id[h]] = tcb[h] /\ id[h] \in Abstract!Known
      /\ \A k \in Abstract!Known : \E h \in allocated : id[h] = k
  BY KnownIds
<1>4. CASE s = <<>>
  <2>1. /\ res' = Answer("pop", NULL)
        /\ UNCHANGED <<made, head, max_id, size, next, id, tcb, allocated, handle, stale>>
    BY <1>1, <1>2, <1>4 DEF pop_tcb
  <2>2. TableInv' /\ Entries' = Entries
    BY <2>1 DEF TableInv, TableType, Stacked, Paired, List, Entries, Entry
  <2>3. allocated = {} BY <1>1, <1>4, EmptyStack DEF Stacked
  <2>4. Abstract!Known = {} BY <1>3, <2>3
  <2> QED BY <1>2, <2>1, <2>2, <2>4 DEF Entries, Abstract!Pop, Abstract!Answer, Answer
<1>5. CASE s # <<>>
  <2>1. head = s[1] /\ 1 \in 1 .. Len(s) /\ head # NULL /\ head \in allocated /\ head \in Handle
    BY <1>1, <1>5
  <2>2. /\ head' = next[head] /\ size' = size - 1 /\ allocated' = allocated \ {s[1]}
        /\ handle' = [handle EXCEPT ![tcb[s[1]]] = NULL] /\ res' = Answer("pop", tcb[head])
    BY <2>1 DEF pop_tcb
  <2>3. TableType' BY <1>2, <2>1, <2>2 DEF TableType
  <2>4. IsList(Without(s, 1), head', next', Handle, NULL)
    <3>1. IsList(s, head, next, Handle, NULL) BY <1>1 DEF Stacked
    <3>2. IsList(Tail(s), next[head], next, Handle, NULL) BY <1>2, <1>5, <3>1, ListTail
    <3> QED BY <1>2, <1>5, <2>2, <3>2, TailWithout
  <2>5. TableInv' /\ Entries' = [Entries EXCEPT ![id[s[1]]] = NULL]
    BY <1>1, <1>2, <2>1, <2>2, <2>3, <2>4, TakenOut
  <2> DEFINE k == id[head]
  <2>6. k \in Abstract!Known /\ Entries[k] = tcb[head] BY <1>3, <2>1
  <2>7. ASSUME NEW j \in Abstract!Known PROVE j <= k
    <3>1. PICK h \in allocated : id[h] = j BY <1>3, <2>7
    <3>2. PICK i \in 1 .. Len(s) : s[i] = h BY <1>1, <3>1
    <3>3. id[h] \in Nat /\ k \in Nat BY <1>2, <2>1, <3>1 DEF TableType
    <3>4. CASE i = 1 BY <2>1, <3>1, <3>2, <3>3, <3>4
    <3>5. CASE i # 1
      <4>1. 1 < i BY <3>5
      <4>2. id[s[1]] > id[s[i]] BY <1>1, <2>1, <4>1 DEF Stacked, Falling
      <4> QED BY <2>1, <3>1, <3>2, <3>3, <4>2
    <3> QED BY <3>4, <3>5
  <2>8. res' = Answer("pop", Entries[k]) /\ Entries' = [Entries EXCEPT ![k] = NULL]
    BY <2>1, <2>2, <2>5, <2>6
  <2> HIDE DEF k
  <2> QED BY <1>2, <2>5, <2>6, <2>7, <2>8 DEF Entries, Abstract!Pop, Abstract!Answer, Answer
<1> QED BY <1>4, <1>5

\* The two ways to take a handle out of the stack.
LEMMA Unlinked ==
    ASSUME TableConstants, TableInv, NEW s \in Seq(Handle), List = s, Stacked(s),
           NEW p \in 1 .. Len(s), Unlink(p)
    PROVE  /\ IsList(Without(s, p), head', next', Handle, NULL)
           /\ head' \in Handle \cup {NULL} /\ next' \in [Handle -> Handle \cup {NULL}]
           /\ allocated' = allocated \ {s[p]}
<1>1. IsList(s, head, next, Handle, NULL) /\ NULL \notin Handle /\ TableType
  BY DEF Stacked, TableConstants, TableInv
<1>2. /\ Len(s) \in Nat /\ s # <<>> /\ head = s[1] /\ \A i \in 1 .. Len(s) : s[i] \in Handle
      /\ \A i, j \in 1 .. Len(s) : s[i] = s[j] => i = j
  <2>1. s # <<>> OBVIOUS
  <2> QED BY <1>1, <2>1, ListEmpty
<1>3. CASE p = 1
  <2>1. head' = next[head] /\ next' = next /\ allocated' = allocated \ {s[p]}
    BY <1>2, <1>3 DEF Unlink
  <2>2. IsList(Tail(s), next[head], next, Handle, NULL) BY <1>1, <1>2, ListTail
  <2>3. Without(s, p) = Tail(s) BY <1>2, <1>3, TailWithout
  <2>4. head \in Handle BY <1>2, <1>3
  <2> QED BY <1>1, <2>1, <2>2, <2>3, <2>4 DEF TableType
<1>4. CASE p # 1
  <2>1. p \in 2 .. Len(s) /\ p - 1 \in 1 .. Len(s) /\ p > 1 BY <1>2, <1>4
  <2>2. /\ next' = [next EXCEPT ![s[p-1]] = next[s[p]]] /\ head' = head
        /\ allocated' = allocated \ {s[p]}
    BY <1>4 DEF Unlink
  <2> DEFINE new == next'
  <2>3. new[s[p - 1]] = next[s[p]] BY <1>1, <1>2, <2>1, <2>2 DEF TableType
  <2>4. \A i \in 1 .. Len(s) : i # p - 1 => new[s[i]] = next[s[i]]
    BY <1>1, <1>2, <2>1, <2>2 DEF TableType
  <2> HIDE DEF new
  <2>5. IsList(Without(s, p), head, new, Handle, NULL) BY <1>1, <2>1, <2>3, <2>4, ListUnlink
  <2>6. s[p] \in Handle /\ s[p - 1] \in Handle BY <1>2, <2>1
  <2>7. next' \in [Handle -> Handle \cup {NULL}] BY <1>1, <2>2, <2>6 DEF TableType
  <2> QED BY <1>1, <2>2, <2>5, <2>7 DEF new, TableType
<1> QED BY <1>3, <1>4

\* remove_tcb takes the entry of the TCB.
LEMMA RemoveStep ==
    ASSUME TableConstants, TableInv, NEW t \in Tcb, remove_tcb(t)
    PROVE  TableInv' /\ Abstract!Delete(t)
<1>1. /\ \A h \in allocated : Entries[id[h]] = tcb[h] /\ id[h] \in Abstract!Known
      /\ \A j \in Abstract!Known : \E h \in allocated : id[h] = j /\ Entries[j] = tcb[h]
  BY KnownIds
<1>2. /\ made /\ made' /\ made' = made /\ max_id' = max_id /\ id' = id /\ tcb' = tcb /\ stale' = stale
      /\ Paired /\ TableType /\ NULL \notin Handle
  BY DEF remove_tcb, TableInv, TableConstants
<1>3. CASE handle[t] = NULL
  <2>1. \A k \in Abstract!Known : Entries[k] # t BY <1>1, <1>2, <1>3 DEF Paired, TableType
  <2>2. /\ res' = Answer("remove", -1)
        /\ UNCHANGED <<made, head, max_id, size, next, id, tcb, allocated, handle, stale>>
    BY <1>2, <1>3 DEF remove_tcb
  <2>3. TableInv' /\ Entries' = Entries
    BY <2>2 DEF TableInv, TableType, Stacked, Paired, List, Entries, Entry
  <2> QED BY <1>2, <2>1, <2>2, <2>3 DEF Entries, Abstract!Delete, Abstract!Answer, Answer
<1>4. CASE handle[t] # NULL
  <2> DEFINE h == handle[t]
             k == id[h]
  <2>1. h \in allocated /\ tcb[h] = t /\ k \in Nat BY <1>2, <1>4 DEF Paired, TableType
  <2>2. PICK s \in Seq(Handle) :
          /\ List = s /\ Stacked(s)
          /\ \A i \in 1 .. Len(s) : s[i] \in allocated
          /\ \A g \in allocated : \E i \in 1 .. Len(s) : s[i] = g
    BY TableFacts
  <2>3. FoundAt(k) = {i \in 1 .. Len(s) : id[s[i]] = k}
    <3> HIDE DEF k
    <3> QED BY <2>1, <2>2, SearchFinds
  <2>4. FoundAt(k) # {} BY <2>1, <2>2, <2>3
  <2>5. /\ \E i \in FoundAt(k) : Unlink(i)
        /\ handle' = [handle EXCEPT ![t] = NULL] /\ size' = size - 1 /\ res' = Answer("remove", 0)
    BY <1>4, <2>4 DEF remove_tcb
  <2>6. PICK p \in 1 .. Len(s) : id[s[p]] = k /\ Unlink(p) BY <2>3, <2>5
  <2> HIDE DEF h, k
  <2>7. s[p] = h BY <2>1, <2>2, <2>6, IdsDiffer DEF k
  <2>8. /\ IsList(Without(s, p), head', next', Handle, NULL)
        /\ head' \in Handle \cup {NULL} /\ next' \in [Handle -> Handle \cup {NULL}]
        /\ allocated' = allocated \ {s[p]}
    BY <2>2, <2>6, Unlinked
  <2>9. TableType' BY <1>2, <2>5, <2>8 DEF TableType
  <2>10. handle' = [handle EXCEPT ![tcb[s[p]]] = NULL] BY <2>1, <2>5, <2>7
  <2>11. TableInv' /\ Entries' = [Entries EXCEPT ![id[s[p]]] = NULL]
    BY <1>2, <2>2, <2>5, <2>8, <2>9, <2>10, TakenOut
  <2>12. k \in Abstract!Known /\ Entries[k] = t BY <1>1, <2>1 DEF k
  <2>13. Entries' = [Entries EXCEPT ![k] = NULL] BY <2>6, <2>11
  <2> QED BY <1>2, <2>5, <2>11, <2>12, <2>13 DEF Entries, Abstract!Delete, Abstract!Answer, Answer
<1> QED BY <1>3, <1>4

-----------------------------------------------------------------------------
\* Until a TCB is put a second time.
UntilStale == stale \in BOOLEAN /\ (stale = FALSE => TableInv)

\* Every step of the table is a step of the map.
LEMMA TableStep ==
    ASSUME TableConstants
    PROVE  UntilStale /\ [Next]_vars => UntilStale' /\ [Abstract!Next]_(Abstract!vars)
<1> SUFFICES ASSUME UntilStale, [Next]_vars
             PROVE  UntilStale' /\ [Abstract!Next]_(Abstract!vars)
  OBVIOUS
<1>1. CASE UNCHANGED vars
  <2>1. stale' = stale /\ (TableInv => TableInv') /\ Entries' = Entries
    BY <1>1 DEF vars, TableInv, TableType, Stacked, Paired, List, Entries, Entry
  <2> QED BY <1>1, <2>1 DEF UntilStale, vars, Entries, Abstract!vars
<1>2. CASE Next
  <2>0. stale = FALSE /\ TableInv BY <1>2 DEF Next, UntilStale
  <2>1. CASE init_table
    BY <2>0, <2>1, InitTableStep DEF Abstract!Next, UntilStale, init_table
  <2>2. CASE pop_tcb BY <2>0, <2>2, PopStep DEF Abstract!Next, UntilStale, pop_tcb
  <2>3. CASE destroy_table
    BY <2>0, <2>3, DestroyStep DEF Abstract!Next, UntilStale, destroy_table
  <2>4. ASSUME NEW h \in Handle, NEW t \in Tcb, put_tcb(h, t)
        PROVE  UntilStale' /\ Abstract!Next
    <3>1. CASE handle[t] = NULL
      <4>1. stale' = FALSE BY <2>4, <3>1 DEF put_tcb
      <4> QED BY <2>0, <2>4, <3>1, <4>1, PutStep DEF Abstract!Next, UntilStale
    <3>2. CASE handle[t] # NULL
      BY <2>0, <2>4, <3>2, PutTwiceStep DEF Abstract!Next, UntilStale
    <3> QED BY <3>1, <3>2
  <2>5. ASSUME NEW t \in Tcb, get_tcb(t) PROVE UntilStale' /\ Abstract!Next
    <3>1. stale' = stale BY <2>5 DEF get_tcb, Lookup
    <3> QED BY <2>0, <2>5, <3>1, GetStep DEF Abstract!Next, UntilStale
  <2>6. ASSUME NEW t \in Tcb, remove_tcb(t) PROVE UntilStale' /\ Abstract!Next
    BY <2>0, <2>6, RemoveStep DEF Abstract!Next, UntilStale, remove_tcb
  <2>7. ASSUME NEW k \in 0 .. MaxId, get_tcb_by_id(k) PROVE UntilStale' /\ Abstract!Next
    BY <2>0, <2>7, GetByIdStep DEF Abstract!Next, UntilStale, get_tcb_by_id, Lookup
  <2> QED BY <1>2, <2>1, <2>2, <2>3, <2>4, <2>5, <2>6, <2>7 DEF Next
<1> QED BY <1>1, <1>2

\* The stack holds exactly the handles in memory, each once and size of them,
\* and a TCB and its handle point at each other, after any sequence of calls
\* that puts no TCB while it is in the table (put_tcb would free its handle),
\* and for any number of handles and TCBs.
THEOREM TableSound == ASSUME TableConstants PROVE Spec => []TableWellFormed
<1>1. Init => UntilStale BY InitTable DEF UntilStale
<1>2. UntilStale /\ [Next]_vars => UntilStale' BY TableStep
<1>3. UntilStale => TableWellFormed
  <2> SUFFICES ASSUME TableInv PROVE TableWellFormed BY DEF TableWellFormed, UntilStale
  <2>1. PICK s \in Seq(Handle) :
          /\ List = s /\ Stacked(s) /\ ToSet(List) = allocated
          /\ \A i, j \in 1 .. Len(s) : s[i] = s[j] => i = j
    BY TableFacts
  <2>2. Cardinality(Members(s)) = Len(s) BY <2>1, MembersCount
  <2> QED BY <2>1, <2>2 DEF TableWellFormed, Stacked, TableInv, Paired
<1> QED BY <1>1, <1>2, <1>3, PTL DEF Spec

\* thread_table.c implements Directory: a TCB is found by its id, and by
\* itself, exactly as long as it is in the table, although the search ends
\* at the first smaller id; all this until some TCB is put a second time.
THEOREM TableIsDirectory == ASSUME TableConstants PROVE Spec => ImplementsDirectory
<1>1. Init => UntilStale /\ Abstract!Init BY InitTable DEF UntilStale
<1>2. UntilStale /\ [Next]_vars => UntilStale' /\ [Abstract!Next]_(Abstract!vars) BY TableStep
<1> QED BY <1>1, <1>2, PTL DEF Spec, ImplementsDirectory, Abstract!Spec
=============================================================================
