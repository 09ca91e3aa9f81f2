--------------------------- MODULE FIFOMapProofs ---------------------------
(***************************************************************************)
(* That the two structures of a FIFOMap never disagree, for every set of   *)
(* maps, keys and values: the inductive invariant Inv and its consequences;*)
(* and then that it implements an ordered dictionary.                      *)
(***************************************************************************)
EXTENDS FIFOMap, TLAPS, SequenceTheorems

\* None of the parts is inductive alone: an erase finds the item of its key
\* because of Coherent, frees a node no other entry uses because of Ownership,
\* and takes the client's reference with it because of HeldEntry.
Inv == TypeOK /\ Coherent /\ Ownership /\ HeldEntry

\* What the list of a map looks like to the provers.
LEMMA ListType ==
  ASSUME TypeOK, NEW m \in Maps
  PROVE  /\ insertOrder[m] \in Seq(FIFOItem)
         /\ Len(insertOrder[m]) \in Nat
         /\ DOMAIN insertOrder[m] = 1 .. Len(insertOrder[m])
         /\ End(m) = Len(insertOrder[m]) + 1
         /\ \A i \in DOMAIN insertOrder[m] :
              /\ insertOrder[m][i] \in FIFOItem
              /\ insertOrder[m][i].first \in Keys
              /\ insertOrder[m][i].second \in Nodes
<1>1. insertOrder[m] \in Seq(FIFOItem)
  BY DEF TypeOK
<1>2. /\ Len(insertOrder[m]) \in Nat
      /\ DOMAIN insertOrder[m] = 1 .. Len(insertOrder[m])
  BY <1>1, LenProperties
<1>3. \A i \in DOMAIN insertOrder[m] : insertOrder[m][i] \in FIFOItem
  BY <1>1, <1>2, ElementOfSeq
<1> QED  BY <1>1, <1>2, <1>3 DEF End, FIFOItem

\* The tree of a map is a function from some of the keys to nodes.
LEMMA TreeType ==
  ASSUME TypeOK, NEW m \in Maps
  PROVE  /\ DOMAIN table[m] \subseteq Keys
         /\ table[m] \in [DOMAIN table[m] -> Nodes]
         /\ table[m] \in Trees
         /\ \A k \in DOMAIN table[m] : table[m][k] \in Nodes
<1>1. table[m] \in Trees
  BY DEF TypeOK
<1>2. PICK S \in SUBSET Keys : table[m] \in [S -> Nodes]
  BY <1>1 DEF Trees
<1> QED  BY <1>1, <1>2

\* A list without its items at first .. last - 1.
LEMMA UnlinkLemma ==
  ASSUME NEW S, NEW list \in Seq(S),
         NEW first \in 1 .. Len(list) + 1, NEW last \in first .. Len(list) + 1
  PROVE  /\ Unlink(list, first, last) \in Seq(S)
         /\ Len(Unlink(list, first, last)) = Len(list) - (last - first)
         /\ \A i \in 1 .. first - 1 : Unlink(list, first, last)[i] = list[i]
         /\ \A i \in first .. Len(list) - (last - first) :
              Unlink(list, first, last)[i] = list[i + (last - first)]
<1> DEFINE p == SubSeq(list, 1, first - 1)
           q == SubSeq(list, last, Len(list))
<1>0. Len(list) \in Nat
  BY LenProperties
<1>1. /\ Len(list) \in Nat
      /\ first \in Nat /\ last \in Nat /\ 1 <= first /\ first <= last
      /\ last <= Len(list) + 1
      /\ \A i \in 1 .. Len(list) : list[i] \in S
  BY <1>0, ElementOfSeq
<1>2. /\ p \in Seq(S)
      /\ Len(p) = first - 1
      /\ \A i \in 1 .. first - 1 : p[i] = list[i]
  <2>1. \A i \in 1 .. first - 1 : list[i] \in S
    BY <1>1
  <2>2. /\ p \in Seq(S)
        /\ Len(p) = IF 1 <= first - 1 THEN first - 1 - 1 + 1 ELSE 0
        /\ \A i \in 1 .. first - 1 - 1 + 1 : p[i] = list[1 + i - 1]
    BY <1>1, <2>1, SubSeqProperties
  <2> HIDE DEF p
  <2> QED  BY <1>1, <2>2
<1>3. /\ q \in Seq(S)
      /\ Len(q) = Len(list) - last + 1
      /\ \A i \in 1 .. Len(list) - last + 1 : q[i] = list[last + i - 1]
  <2>1. \A i \in last .. Len(list) : list[i] \in S
    BY <1>1
  <2>2. /\ q \in Seq(S)
        /\ Len(q) = IF last <= Len(list) THEN Len(list) - last + 1 ELSE 0
        /\ \A i \in 1 .. Len(list) - last + 1 : q[i] = list[last + i - 1]
    BY <1>1, <2>1, SubSeqProperties
  <2> HIDE DEF q
  <2>3. CASE last <= Len(list)
    BY <2>2, <2>3
  <2>4. CASE last = Len(list) + 1
    BY <1>1, <2>2, <2>4
  <2> QED  BY <1>1, <2>3, <2>4
<1>4. Unlink(list, first, last) = p \o q
  BY DEF Unlink
<1> HIDE DEF p, q
<1>5. /\ p \o q \in Seq(S)
      /\ Len(p \o q) = Len(p) + Len(q)
      /\ \A i \in 1 .. Len(p) + Len(q) :
           (p \o q)[i] = IF i <= Len(p) THEN p[i] ELSE q[i - Len(p)]
  BY <1>2, <1>3, ConcatProperties
<1>6. Len(p) + Len(q) = Len(list) - (last - first)
  BY <1>1, <1>2, <1>3
<1>7. ASSUME NEW i \in 1 .. first - 1
      PROVE  (p \o q)[i] = list[i]
  <2>1. i \in 1 .. Len(p) + Len(q) /\ i <= Len(p)
    BY <1>1, <1>2, <1>6
  <2>2. (p \o q)[i] = p[i]
    BY <1>5, <2>1
  <2> QED  BY <1>2, <2>2
<1>8. ASSUME NEW i \in first .. Len(list) - (last - first)
      PROVE  (p \o q)[i] = list[i + (last - first)]
  <2>1. /\ i - Len(p) \in 1 .. Len(list) - last + 1
        /\ last + (i - Len(p)) - 1 = i + (last - first)
    BY <1>1, <1>2
  <2>2. (p \o q)[i] = q[i - Len(p)]
    BY <1>1, <1>2, <1>5, <1>6, SMTT(30)
  <2>3. q[i - Len(p)] = list[last + (i - Len(p)) - 1]
    BY <1>3, <2>1
  <2> QED  BY <2>1, <2>2, <2>3
<1> QED  BY <1>4, <1>5, <1>6, <1>7, <1>8

\* The agreement of list and tree survives the steps of the modifiers.
LEMMA AgreeAppend ==
  ASSUME NEW list \in Seq(FIFOItem), NEW tree, NEW tree2, NEW item \in FIFOItem,
         Agree(list, tree), item.first \notin DOMAIN tree,
         DOMAIN tree2 = DOMAIN tree \cup {item.first},
         tree2[item.first] = item.second,
         \A x \in DOMAIN tree : tree2[x] = tree[x]
  PROVE  Agree(Append(list, item), tree2)
<1> DEFINE list2 == Append(list, item)
           n == Len(list) + 1
<1>1. /\ list2 \in Seq(FIFOItem)
      /\ Len(list2) = n
      /\ \A i \in 1 .. Len(list) : list2[i] = list[i]
      /\ list2[n] = item
  BY AppendProperties
<1> HIDE DEF list2
<1>2. /\ DOMAIN list = 1 .. Len(list) /\ Len(list) \in Nat
      /\ DOMAIN list2 = 1 .. n
  BY <1>1, LenProperties
<1>3. /\ DOMAIN list2 = DOMAIN list \cup {n} /\ n \notin DOMAIN list
      /\ \A i \in DOMAIN list : list2[i] = list[i]
      /\ list2[n] = item
  BY <1>1, <1>2
<1> HIDE DEF n
<1>4. \A x \in DOMAIN tree2 : \E i \in DOMAIN list2 : list2[i].first = x
  BY <1>3 DEF Agree
<1>5. \A i \in DOMAIN list2 :
        list2[i].first \in DOMAIN tree2 /\ list2[i].second = tree2[list2[i].first]
  BY <1>3 DEF Agree
<1>6. \A i, j \in DOMAIN list2 : list2[i].first = list2[j].first => i = j
  BY <1>3 DEF Agree
<1>7. Agree(list2, tree2)
  BY <1>4, <1>5, <1>6 DEF Agree
<1> QED  BY <1>7 DEF list2

\* tree2 is tree without the keys of the items at first .. last - 1.
Trimmed(tree2, tree, list, first, last) ==
  /\ \A x : x \in DOMAIN tree2 <=>
            x \in DOMAIN tree /\ \A i \in first .. last - 1 : list[i].first # x
  /\ \A x \in DOMAIN tree2 : tree2[x] = tree[x]

\* List and tree still agree when a part of the list and its keys in the tree go.
LEMMA AgreeUnlink ==
  ASSUME NEW list \in Seq(FIFOItem), NEW tree, NEW tree2,
         NEW first \in 1 .. Len(list) + 1, NEW last \in first .. Len(list) + 1,
         Agree(list, tree), Trimmed(tree2, tree, list, first, last)
  PROVE  Agree(Unlink(list, first, last), tree2)
<1> DEFINE list2 == Unlink(list, first, last)
           n == Len(list) - (last - first)
<1>1. Len(list) \in Nat /\ DOMAIN list = 1 .. Len(list)
  BY LenProperties
<1>2. /\ list2 \in Seq(FIFOItem)
      /\ Len(list2) = n
      /\ \A i \in 1 .. first - 1 : list2[i] = list[i]
      /\ \A i \in first .. n : list2[i] = list[i + (last - first)]
  BY UnlinkLemma
<1> HIDE DEF list2
<1>3. DOMAIN list2 = 1 .. n
  BY <1>2, LenProperties
<1>4. \A i \in 1 .. n : \E j \in DOMAIN list :
        /\ j \notin first .. last - 1
        /\ list2[i] = list[j]
        /\ j = IF i < first THEN i ELSE i + (last - first)
  <2> TAKE i \in 1 .. n
  <2>1. CASE i < first
    BY <1>1, <1>2, <2>1
  <2>2. CASE i >= first
    <3>1. i \in first .. n /\ i + (last - first) \in DOMAIN list
      BY <1>1, <2>2
    <3>2. list2[i] = list[i + (last - first)]
      BY <1>2, <3>1
    <3>3. i + (last - first) \notin first .. last - 1 /\ ~(i < first)
      BY <1>1, <2>2
    <3> QED  BY <3>1, <3>2, <3>3
  <2> QED  BY <1>1, <2>1, <2>2
<1>5. \A j \in DOMAIN list : j \notin first .. last - 1 =>
        \E i \in 1 .. n : list2[i] = list[j]
  <2> SUFFICES ASSUME NEW j \in DOMAIN list, j \notin first .. last - 1
               PROVE  \E i \in 1 .. n : list2[i] = list[j]
    OBVIOUS
  <2>1. CASE j < first
    <3>1. j \in 1 .. n /\ j \in 1 .. first - 1
      BY <1>1, <2>1
    <3> QED  BY <1>2, <3>1
  <2>2. CASE j >= last
    <3>1. j - (last - first) \in 1 .. n /\ j - (last - first) \in first .. n
      BY <1>1, <2>2
    <3>2. list2[j - (last - first)] = list[(j - (last - first)) + (last - first)]
      BY <1>2, <3>1
    <3>3. (j - (last - first)) + (last - first) = j
      BY <1>1, <2>2
    <3> QED  BY <3>1, <3>2, <3>3
  <2> QED  BY <1>1, <2>1, <2>2
<1>6. \A x \in DOMAIN tree2 : \E i \in DOMAIN list2 : list2[i].first = x
  <2> TAKE x \in DOMAIN tree2
  <2>1. PICK j \in DOMAIN list : list[j].first = x
    BY DEF Agree, Trimmed
  <2>2. j \notin first .. last - 1
    BY <2>1 DEF Trimmed
  <2> QED  BY <1>3, <1>5, <2>1, <2>2
<1>7. \A i \in DOMAIN list2 :
        list2[i].first \in DOMAIN tree2 /\ list2[i].second = tree2[list2[i].first]
  <2> TAKE i \in DOMAIN list2
  <2>1. PICK j \in DOMAIN list : j \notin first .. last - 1 /\ list2[i] = list[j]
    BY <1>3, <1>4
  <2>2. first .. last - 1 \subseteq DOMAIN list
    BY <1>1
  <2>3. list[j].first \in DOMAIN tree2
    BY <2>1, <2>2, SMTT(30) DEF Agree, Trimmed
  <2> QED  BY <2>1, <2>3 DEF Agree, Trimmed
<1>8. \A i, j \in DOMAIN list2 : list2[i].first = list2[j].first => i = j
  <2> TAKE i, j \in DOMAIN list2
  <2> HAVE list2[i].first = list2[j].first
  <2>1. PICK p \in DOMAIN list : /\ list2[i] = list[p]
                                 /\ p = IF i < first THEN i ELSE i + (last - first)
    BY <1>3, <1>4
  <2>2. PICK q \in DOMAIN list : /\ list2[j] = list[q]
                                 /\ q = IF j < first THEN j ELSE j + (last - first)
    BY <1>3, <1>4
  <2>3. p = q
    BY <2>1, <2>2 DEF Agree
  <2> QED  BY <1>1, <1>3, <2>1, <2>2, <2>3
<1>9. Agree(list2, tree2)
  BY <1>6, <1>7, <1>8 DEF Agree
<1> QED  BY <1>9 DEF list2

\* The list is searched for a key the tree has: its one item is found.
LEMMA FindLemma ==
  ASSUME TypeOK, Coherent, NEW m \in Maps, NEW k \in Keys, Has(m, k)
  PROVE  Find(m, k) \in DOMAIN insertOrder[m] /\ insertOrder[m][Find(m, k)].first = k
<1> DEFINE P(i) == /\ insertOrder[m][i].first = k
                   /\ \A j \in 1 .. i - 1 : insertOrder[m][j].first # k
<1>1. k \in ListKeys(m)
  BY DEF Coherent, Agree, Has, ListKeys
<1>2. PICK i \in DOMAIN insertOrder[m] : insertOrder[m][i].first = k
  BY <1>1 DEF ListKeys
<1>3. \A j \in DOMAIN insertOrder[m] : insertOrder[m][j].first = k => j = i
  BY <1>2 DEF Coherent, Agree
<1>4. DOMAIN insertOrder[m] = 1 .. Len(insertOrder[m]) /\ Len(insertOrder[m]) \in Nat
  BY ListType
<1>5. P(i)
  BY <1>2, <1>3, <1>4
<1>6. Find(m, k) = CHOOSE j \in DOMAIN insertOrder[m] : P(j)
  BY <1>1 DEF Find
<1> HIDE DEF P
<1>7. Find(m, k) \in DOMAIN insertOrder[m] /\ P(Find(m, k))
  BY <1>2, <1>5, <1>6
<1> QED  BY <1>7 DEF P

-----------------------------------------------------------------------------
\* A new key: one node, one item, both at once.
LEMMA NewEntryStep ==
  ASSUME Inv, NEW m \in Maps, NEW k \in Keys, NEW a \in Nodes, NEW v \in Vals,
         ~Has(m, k), NewEntry(m, k, a, v),
         held' = held \/ held' = [map |-> m, key |-> k, node |-> a],
         loop' \in [dst : Maps, src : Maps, pos : Nat \ {0}] \cup {Idle}
  PROVE  /\ Inv'
         /\ DOMAIN table'[m] = DOMAIN table[m] \cup {k} /\ table'[m][k] = a
         /\ \A x \in DOMAIN table[m] : table'[m][x] = table[m][x]
         /\ \A n \in Maps \ {m} : insertOrder'[n] = insertOrder[n]
<1> DEFINE item == [first |-> k, second |-> a]
           list == insertOrder[m]
<1> USE DEF Inv
<1>1. /\ table' = [table EXCEPT ![m] = [x \in DOMAIN table[m] \cup {k} |->
                                         IF x = k THEN a ELSE table[m][x]]]
      /\ mem' = [mem EXCEPT ![a] = v]
      /\ insertOrder' = [insertOrder EXCEPT ![m] = Append(list, item)]
      /\ mem[a] = Free
  BY DEF NewEntry
<1>2. /\ table[m]' = [x \in DOMAIN table[m] \cup {k} |-> IF x = k THEN a ELSE table[m][x]]
      /\ \A n \in Maps \ {m} : table[n]' = table[n]
      /\ insertOrder[m]' = Append(list, item)
      /\ \A n \in Maps \ {m} : insertOrder[n]' = insertOrder[n]
      /\ mem[a]' = v
      /\ \A b \in Nodes \ {a} : mem[b]' = mem[b]
  BY <1>1 DEF TypeOK
<1>3. /\ list \in Seq(FIFOItem) /\ item \in FIFOItem
      /\ Append(list, item) \in Seq(FIFOItem)
      /\ Len(list) \in Nat
      /\ DOMAIN list = 1 .. Len(list)
      /\ DOMAIN Append(list, item) = 1 .. Len(list) + 1
      /\ \A i \in 1 .. Len(list) : Append(list, item)[i] = list[i]
      /\ Append(list, item)[Len(list) + 1] = item
  <2>1. list \in Seq(FIFOItem) /\ item \in FIFOItem /\ Len(list) \in Nat
    BY ListType DEF FIFOItem
  <2> HIDE DEF list, item
  <2>2. /\ Append(list, item) \in Seq(FIFOItem)
        /\ Len(Append(list, item)) = Len(list) + 1
        /\ \A i \in 1 .. Len(list) : Append(list, item)[i] = list[i]
        /\ Append(list, item)[Len(list) + 1] = item
    BY <2>1, AppendProperties
  <2> QED  BY <2>1, <2>2, LenProperties
<1>4. TypeOK'
  <2>1. table[m]' \in Trees
    <3> DEFINE D == DOMAIN table[m] \cup {k}
    <3>1. D \in SUBSET Keys
      BY TreeType
    <3>2. \A x \in DOMAIN table[m] : table[m][x] \in Nodes
      BY TreeType
    <3>3. [x \in D |-> IF x = k THEN a ELSE table[m][x]] \in [D -> Nodes]
      BY <3>2
    <3> QED  BY <1>2, <3>1, <3>3 DEF Trees
  <2>2. table' \in [Maps -> Trees]
    BY <1>1, <1>2, <2>1 DEF TypeOK
  <2>3. mem' \in [Nodes -> Vals \cup {Free}]
    BY <1>1 DEF TypeOK
  <2>4. insertOrder' \in [Maps -> Seq(FIFOItem)]
    BY <1>1, <1>3 DEF TypeOK
  <2>5. held' \in [map : Maps, key : Keys, node : Nodes] \cup {NoRef}
    BY DEF TypeOK
  <2> QED  BY <2>2, <2>3, <2>4, <2>5 DEF TypeOK
<1>5. Coherent'
  <2> SUFFICES ASSUME NEW n \in Maps
               PROVE  Agree(insertOrder[n]', table[n]')
    BY DEF Coherent
  <2>1. CASE n # m
    BY <1>2, <2>1 DEF Coherent
  <2>2. CASE n = m
    <3>1. Agree(list, table[m]) /\ k \notin DOMAIN table[m]
      BY DEF Coherent, Has
    <3>2. /\ DOMAIN table[m]' = DOMAIN table[m] \cup {k}
          /\ table[m]'[k] = a
          /\ \A x \in DOMAIN table[m] : table[m]'[x] = table[m][x]
      BY <1>2, <3>1
    <3>3. item.first = k /\ item.second = a
      OBVIOUS
    <3> HIDE DEF item, list
    <3>4. Agree(Append(list, item), table[m]')
      BY <1>3, <3>1, <3>2, <3>3, AgreeAppend
    <3> QED  BY <1>2, <2>2, <3>4
  <2> QED  BY <2>1, <2>2
<1>6. \A n \in Maps, x \in Keys, b \in Nodes :
        Owns(n, x, b)' <=> Owns(n, x, b) \/ (n = m /\ x = k /\ b = a)
  BY <1>2 DEF Owns, Has
<1>7. \A n \in Maps, x \in Keys : ~Owns(n, x, a)
  BY <1>1 DEF Ownership
<1>8. Ownership'
  BY <1>2, <1>6, <1>7, FreeAssumption DEF Ownership
<1>9. HeldEntry'
  BY <1>6 DEF HeldEntry, TypeOK
<1> QED  BY <1>2, <1>4, <1>5, <1>8, <1>9 DEF Has

\* Keys leave the tree with their nodes, and the list with their items.
LEMMA EraseStep ==
  ASSUME Inv, NEW m \in Maps, NEW K,
         NEW first \in 1 .. End(m), NEW last \in first .. End(m),
         \A x \in DOMAIN table[m] :
           x \in K <=> \E i \in first .. last - 1 : insertOrder[m][i].first = x,
         FreeNodes(m, K),
         insertOrder' = [insertOrder EXCEPT ![m] = Unlink(insertOrder[m], first, last)],
         loop' = loop
  PROVE  Inv'
<1> DEFINE list == insertOrder[m]
           list2 == Unlink(list, first, last)
           gone == {table[m][k] : k \in K \cap DOMAIN table[m]}
<1> USE DEF Inv
<1>1. /\ table' = [table EXCEPT ![m] = Restrict(table[m], DOMAIN table[m] \ K)]
      /\ mem' = [a \in Nodes |-> IF a \in gone THEN Free ELSE mem[a]]
      /\ held' = IF held # NoRef /\ held.map = m /\ held.key \in K THEN NoRef ELSE held
  BY DEF FreeNodes, Invalidate
<1>2. /\ list \in Seq(FIFOItem) /\ Len(list) \in Nat /\ End(m) = Len(list) + 1
      /\ DOMAIN list = 1 .. Len(list)
  BY ListType
<1>3. list2 \in Seq(FIFOItem)
  BY <1>2, UnlinkLemma
<1>4. /\ DOMAIN table[m]' = DOMAIN table[m] \ K
      /\ \A x \in DOMAIN table[m] \ K : table[m]'[x] = table[m][x]
      /\ \A n \in Maps \ {m} : table[n]' = table[n]
      /\ insertOrder[m]' = list2
      /\ \A n \in Maps \ {m} : insertOrder[n]' = insertOrder[n]
  BY <1>1 DEF TypeOK, Restrict
<1>5. TypeOK'
  <2>1. Restrict(table[m], DOMAIN table[m] \ K) \in Trees
    <3>1. /\ DOMAIN table[m] \ K \in SUBSET Keys
          /\ Restrict(table[m], DOMAIN table[m] \ K) \in [DOMAIN table[m] \ K -> Nodes]
      BY TreeType DEF Restrict
    <3> QED  BY <3>1 DEF Trees
  <2>2. table' \in [Maps -> Trees]
    BY <1>1, <2>1 DEF TypeOK
  <2>3. mem' \in [Nodes -> Vals \cup {Free}]
    BY <1>1 DEF TypeOK
  <2>4. insertOrder' \in [Maps -> Seq(FIFOItem)]
    BY <1>3 DEF TypeOK
  <2>5. held' \in [map : Maps, key : Keys, node : Nodes] \cup {NoRef}
    BY <1>1 DEF TypeOK
  <2> QED  BY <2>2, <2>3, <2>4, <2>5 DEF TypeOK
<1>6. Coherent'
  <2> SUFFICES ASSUME NEW n \in Maps
               PROVE  Agree(insertOrder[n]', table[n]')
    BY DEF Coherent
  <2>1. CASE n # m
    BY <1>4, <2>1 DEF Coherent
  <2>2. CASE n = m
    <3>1. Agree(list, table[m])
      BY DEF Coherent
    <3>2. Trimmed(table[m]', table[m], list, first, last)
      BY <1>4 DEF Trimmed
    <3> HIDE DEF list, list2
    <3>3. insertOrder[m]' = list2
      BY <1>4
    <3>4. /\ list \in Seq(FIFOItem)
          /\ first \in 1 .. Len(list) + 1 /\ last \in first .. Len(list) + 1
      BY <1>2
    <3>5. Agree(list2, table[m]')
      BY <3>1, <3>2, <3>4, AgreeUnlink DEF list2
    <3> QED  BY <2>2, <3>3, <3>5
  <2> QED  BY <2>1, <2>2
<1>7. \A n \in Maps, x \in Keys, b \in Nodes :
        Owns(n, x, b)' <=> Owns(n, x, b) /\ ~(n = m /\ x \in K)
  BY <1>4 DEF Owns, Has
<1>8. \A b \in Nodes : b \in gone <=> \E x \in Keys : x \in K /\ Owns(m, x, b)
  BY TreeType DEF Owns, Has
<1>9. Ownership'
  <2> SUFFICES ASSUME NEW b \in Nodes
               PROVE  /\ mem[b]' # Free <=> \E n \in Maps, x \in Keys : Owns(n, x, b)'
                      /\ \A n, o \in Maps, x, y \in Keys :
                           Owns(n, x, b)' /\ Owns(o, y, b)' => n = o /\ x = y
    BY DEF Ownership
  <2>1. mem[b]' # Free <=> \E n \in Maps, x \in Keys : Owns(n, x, b)'
    <3>1. mem[b]' = IF b \in gone THEN Free ELSE mem[b]
      BY <1>1
    <3> HIDE DEF gone
    <3> QED  BY <1>7, <1>8, <3>1 DEF Ownership
  <2> QED  BY <1>7, <2>1 DEF Ownership
<1>10. HeldEntry'
  BY <1>1, <1>7 DEF HeldEntry, TypeOK
<1> QED  BY <1>5, <1>6, <1>9, <1>10

\* erase(iterator), erase(key), erase(first, last) and clear() are such steps.
LEMMA EraseAtStep ==
  ASSUME Inv, NEW m \in Maps, NEW i \in DOMAIN insertOrder[m], EraseAt(m, i)
  PROVE  Inv'
<1> DEFINE K == {insertOrder[m][i].first}
<1>1. /\ Len(insertOrder[m]) \in Nat /\ i \in 1 .. Len(insertOrder[m])
      /\ End(m) = Len(insertOrder[m]) + 1
  BY ListType DEF Inv
<1>2. i \in 1 .. End(m) /\ i + 1 \in i .. End(m) /\ i .. (i + 1) - 1 = {i}
  BY <1>1
<1>3. \A x \in DOMAIN table[m] :
        x \in K <=> \E j \in i .. (i + 1) - 1 : insertOrder[m][j].first = x
  BY <1>2
<1>4. /\ FreeNodes(m, K)
      /\ insertOrder' = [insertOrder EXCEPT ![m] = Unlink(insertOrder[m], i, i + 1)]
      /\ loop' = loop
  BY DEF EraseAt
<1> HIDE DEF K
<1> QED  BY <1>2, <1>3, <1>4, EraseStep

\* erase(key), which looks for the item of the key in the list.
LEMMA EraseKeyStep ==
  ASSUME Inv, NEW m \in Maps, NEW k \in Keys, EraseKey(m, k)
  PROVE  Inv'
<1> DEFINE i == Find(m, k)
<1>1. i \in DOMAIN insertOrder[m] /\ insertOrder[m][i].first = k
  BY FindLemma DEF Inv, EraseKey
<1>2. /\ Len(insertOrder[m]) \in Nat /\ i \in 1 .. Len(insertOrder[m])
      /\ End(m) = Len(insertOrder[m]) + 1
  BY <1>1, ListType DEF Inv
<1>3. /\ FreeNodes(m, {k})
      /\ insertOrder' = [insertOrder EXCEPT ![m] = Unlink(insertOrder[m], i, i + 1)]
      /\ loop' = loop
  BY DEF EraseKey
<1> HIDE DEF i
<1>4. i \in 1 .. End(m) /\ i + 1 \in i .. End(m) /\ i .. (i + 1) - 1 = {i}
  BY <1>2
<1>5. \A x \in DOMAIN table[m] :
        x \in {k} <=> \E j \in i .. (i + 1) - 1 : insertOrder[m][j].first = x
  BY <1>1, <1>4
<1> QED  BY <1>3, <1>4, <1>5, EraseStep

\* erase(first, last).
LEMMA EraseRangeStep ==
  ASSUME Inv, NEW m \in Maps, NEW first \in DOMAIN insertOrder[m],
         NEW last \in 1 .. End(m), EraseRange(m, first, last)
  PROVE  Inv'
<1> DEFINE K == {insertOrder[m][i].first : i \in first .. last - 1}
<1>1. /\ Len(insertOrder[m]) \in Nat /\ first \in 1 .. Len(insertOrder[m])
      /\ End(m) = Len(insertOrder[m]) + 1
  BY ListType DEF Inv
<1>2. /\ first < last
      /\ FreeNodes(m, K)
      /\ insertOrder' = [insertOrder EXCEPT ![m] = Unlink(insertOrder[m], first, last)]
      /\ loop' = loop
  BY DEF EraseRange
<1>3. first \in 1 .. End(m) /\ last \in first .. End(m)
  BY <1>1, <1>2
<1>4. \A x \in DOMAIN table[m] :
        x \in K <=> \E i \in first .. last - 1 : insertOrder[m][i].first = x
  OBVIOUS
<1> HIDE DEF K
<1> QED  BY <1>2, <1>3, <1>4, EraseStep

\* clear().
LEMMA ClearStep ==
  ASSUME Inv, NEW m \in Maps, Clear(m)
  PROVE  Inv'
<1> DEFINE list == insertOrder[m]
<1>1. /\ list \in Seq(FIFOItem) /\ Len(list) \in Nat /\ DOMAIN list = 1 .. Len(list)
      /\ End(m) = Len(list) + 1
  BY ListType DEF Inv
<1>2. 1 \in 1 .. End(m) /\ End(m) \in 1 .. End(m) /\ 1 .. End(m) - 1 = DOMAIN list
  BY <1>1
<1>3. Unlink(list, 1, End(m)) = << >>
  <2> HIDE DEF list
  <2>1. /\ 1 \in 1 .. Len(list) + 1 /\ End(m) \in 1 .. Len(list) + 1
        /\ Len(list) - (End(m) - 1) = 0
    BY <1>1
  <2>2. /\ Unlink(list, 1, End(m)) \in Seq(FIFOItem)
        /\ Len(Unlink(list, 1, End(m))) = Len(list) - (End(m) - 1)
    BY <1>1, <2>1, UnlinkLemma
  <2> QED  BY <2>1, <2>2, EmptySeq
<1>4. \A x \in DOMAIN table[m] :
        x \in Keys <=> \E i \in 1 .. End(m) - 1 : list[i].first = x
  BY <1>2, TreeType DEF Inv, Coherent, Agree
<1>5. /\ FreeNodes(m, Keys)
      /\ insertOrder' = [insertOrder EXCEPT ![m] = Unlink(list, 1, End(m))]
      /\ loop' = loop
  BY <1>3 DEF Clear
<1> QED  BY <1>2, <1>4, <1>5, EraseStep

\* m = n: the copy has nodes of its own and the agreement of its original.
LEMMA CopyAssignStep ==
  ASSUME Inv, NEW m \in Maps, NEW n \in Maps, CopyAssign(m, n)
  PROVE  Inv'
<1> DEFINE old == {table[m][k] : k \in DOMAIN table[m]}
           keys == DOMAIN table[n] \cup ListKeys(n)
           val(k) == IF Has(n, k) THEN mem[table[n][k]] ELSE Default
           copy(tree) == [i \in DOMAIN insertOrder[n] |->
                            [first |-> insertOrder[n][i].first,
                             second |-> tree[insertOrder[n][i].first]]]
<1> USE DEF Inv
<1>1. PICK tree \in Injection(keys, {a \in Nodes : mem[a] = Free} \cup old) :
        /\ table' = [table EXCEPT ![m] = tree]
        /\ mem' = [a \in Nodes |->
                     IF \E k \in keys : tree[k] = a
                     THEN val(CHOOSE k \in keys : tree[k] = a)
                     ELSE IF a \in old THEN Free ELSE mem[a]]
        /\ insertOrder' = [insertOrder EXCEPT ![m] = copy(tree)]
  BY DEF CopyAssign
<1>2. m # n /\ loop' = loop /\ held' = IF held # NoRef /\ held.map = m /\ held.key \in Keys
                                       THEN NoRef ELSE held
  BY DEF CopyAssign, Invalidate
<1>3. keys = DOMAIN table[n] /\ keys \subseteq Keys
  BY TreeType DEF Coherent, Agree, ListKeys
<1>4. \A a \in old : a \in Nodes /\ \E k \in Keys : Owns(m, k, a)
  BY TreeType DEF Owns, Has
<1>5. /\ tree \in [keys -> Nodes]
      /\ \A k \in keys : tree[k] \in Nodes /\ (mem[tree[k]] = Free \/ tree[k] \in old)
      /\ \A k, l \in keys : tree[k] = tree[l] => k = l
  BY <1>4 DEF Injection, IsInjective
<1>6. \A k \in keys : val(k) \in Vals
  <2> SUFFICES ASSUME NEW k \in keys PROVE mem[table[n][k]] \in Vals
    BY DefaultAssumption
  <2>1. table[n][k] \in Nodes /\ Owns(n, k, table[n][k])
    BY <1>3, TreeType DEF Owns, Has
  <2> QED  BY <1>3, <2>1 DEF Ownership, TypeOK
<1> HIDE DEF keys, val, old
<1>7. \A k \in keys : mem[tree[k]]' = val(k)
  <2> TAKE k \in keys
  <2>1. (CHOOSE l \in keys : tree[l] = tree[k]) = k
    BY <1>5
  <2> QED  BY <1>1, <1>5, <2>1
<1>8. \A a \in Nodes : (\A k \in keys : tree[k] # a) =>
                       mem[a]' = IF a \in old THEN Free ELSE mem[a]
  BY <1>1
<1>9. /\ table[m]' = tree /\ insertOrder[m]' = copy(tree)
      /\ \A o \in Maps \ {m} : table[o]' = table[o] /\ insertOrder[o]' = insertOrder[o]
  BY <1>1 DEF TypeOK
<1>10. TypeOK'
  <2>1. tree \in Trees
    BY <1>3, <1>5 DEF Trees
  <2>2. table' \in [Maps -> Trees]
    BY <1>1, <2>1 DEF TypeOK
  <2>3. \A a \in Nodes : mem[a]' \in Vals \cup {Free}
    BY <1>6, <1>7, <1>8 DEF TypeOK
  <2>4. mem' \in [Nodes -> Vals \cup {Free}]
    BY <1>1, <2>3
  <2>5. copy(tree) \in Seq(FIFOItem)
    <3>1. /\ Len(insertOrder[n]) \in Nat
          /\ DOMAIN insertOrder[n] = 1 .. Len(insertOrder[n])
      BY ListType
    <3>2. \A i \in DOMAIN insertOrder[n] : insertOrder[n][i].first \in keys
      BY <1>3 DEF Coherent, Agree
    <3>3. \A i \in DOMAIN insertOrder[n] :
            [first |-> insertOrder[n][i].first,
             second |-> tree[insertOrder[n][i].first]] \in FIFOItem
      BY <1>3, <1>5, <3>2 DEF FIFOItem
    <3> QED  BY <3>1, <3>3
  <2>6. insertOrder' \in [Maps -> Seq(FIFOItem)]
    BY <1>1, <2>5 DEF TypeOK
  <2>7. held' \in [map : Maps, key : Keys, node : Nodes] \cup {NoRef}
    BY <1>2 DEF TypeOK
  <2> QED  BY <1>2, <2>2, <2>4, <2>6, <2>7 DEF TypeOK
<1>11. Coherent'
  <2> SUFFICES ASSUME NEW o \in Maps
               PROVE  Agree(insertOrder[o]', table[o]')
    BY DEF Coherent
  <2>1. CASE o # m
    BY <1>9, <2>1 DEF Coherent
  <2>2. CASE o = m
    <3>1. Agree(insertOrder[n], table[n])
      BY DEF Coherent
    <3>2. /\ DOMAIN copy(tree) = DOMAIN insertOrder[n]
          /\ \A i \in DOMAIN insertOrder[n] :
               /\ copy(tree)[i].first = insertOrder[n][i].first
               /\ copy(tree)[i].second = tree[insertOrder[n][i].first]
      OBVIOUS
    <3>3. DOMAIN tree = DOMAIN table[n]
      BY <1>3, <1>5
    <3>4. insertOrder[m]' = copy(tree)
      BY <1>9
    <3> HIDE DEF copy
    <3>5. Agree(copy(tree), tree)
      BY <3>1, <3>2, <3>3 DEF Agree
    <3> QED  BY <1>9, <2>2, <3>4, <3>5
  <2> QED  BY <2>1, <2>2
<1>12. /\ \A o \in Maps \ {m}, x \in Keys, b \in Nodes : Owns(o, x, b)' <=> Owns(o, x, b)
       /\ \A x \in Keys, b \in Nodes : Owns(m, x, b)' <=> x \in keys /\ tree[x] = b
  <2>1. \A o \in Maps \ {m}, x \in Keys, b \in Nodes : Owns(o, x, b)' <=> Owns(o, x, b)
    BY <1>9 DEF Owns, Has
  <2>2. DOMAIN tree = keys /\ table[m]' = tree
    BY <1>5, <1>9
  <2>3. \A x \in Keys, b \in Nodes : Owns(m, x, b)' <=> x \in keys /\ tree[x] = b
    BY <2>2 DEF Owns, Has
  <2> QED  BY <2>1, <2>3
<1>13. \A b \in Nodes : b \in old <=> \E x \in Keys : Owns(m, x, b)
  BY TreeType DEF Owns, Has, old
<1>14. Ownership'
  <2> SUFFICES ASSUME NEW b \in Nodes
               PROVE  /\ mem[b]' # Free <=> \E o \in Maps, x \in Keys : Owns(o, x, b)'
                      /\ \A o, p \in Maps, x, y \in Keys :
                           Owns(o, x, b)' /\ Owns(p, y, b)' => o = p /\ x = y
    BY DEF Ownership
  <2>1. CASE \E k \in keys : tree[k] = b
    <3>1. PICK k \in keys : tree[k] = b
      BY <2>1
    <3>2. \A o \in Maps \ {m}, x \in Keys : ~Owns(o, x, b)
      BY <1>5, <1>13, <3>1 DEF Ownership
    <3>3. mem[b]' # Free
      BY <1>6, <1>7, <3>1, FreeAssumption
    <3> QED  BY <1>3, <1>5, <1>12, <3>1, <3>2, <3>3
  <2>2. CASE ~\E k \in keys : tree[k] = b
    <3>1. mem[b]' = IF b \in old THEN Free ELSE mem[b]
      BY <1>8, <2>2
    <3>2. /\ \A o \in Maps \ {m}, x \in Keys : Owns(o, x, b)' <=> Owns(o, x, b)
          /\ \A x \in Keys : ~Owns(m, x, b)'
      BY <1>12, <2>2
    <3> QED  BY <1>13, <3>1, <3>2 DEF Ownership
  <2> QED  BY <2>1, <2>2
<1>15. HeldEntry'
  BY <1>2, <1>12 DEF HeldEntry, TypeOK
<1> QED  BY <1>10, <1>11, <1>14, <1>15

\* swap: the owners of the nodes change, and the map of the client's reference.
LEMMA SwapStep ==
  ASSUME Inv, NEW m \in Maps, NEW n \in Maps, Swap(m, n)
  PROVE  Inv'
<1> DEFINE other(o) == IF o = m THEN n ELSE IF o = n THEN m ELSE o
<1> USE DEF Inv
<1>1. /\ m # n /\ mem' = mem /\ loop' = loop
      /\ \A o \in Maps : /\ other(o) \in Maps
                         /\ other(other(o)) = o
                         /\ table[o]' = table[other(o)]
                         /\ insertOrder[o]' = insertOrder[other(o)]
  BY DEF Swap, TypeOK
<1>2. TypeOK'
  BY DEF Swap, TypeOK
<1>3. Coherent'
  BY <1>1 DEF Coherent
<1>4. \A o \in Maps, x \in Keys, b \in Nodes : Owns(o, x, b)' <=> Owns(other(o), x, b)
  BY <1>1 DEF Owns, Has
<1>5. held' = IF held = NoRef THEN held ELSE [held EXCEPT !.map = other(held.map)]
  BY DEF Swap, TypeOK
<1> HIDE DEF other
<1>6. Ownership'
  BY <1>1, <1>4 DEF Ownership
<1>7. HeldEntry'
  BY <1>1, <1>4, <1>5, NoRefAssumption DEF HeldEntry, TypeOK
<1> QED  BY <1>2, <1>3, <1>6, <1>7

\* Every item of a list refers to a value that its map owns.
LEMMA ItemOwned ==
  ASSUME Inv, NEW m \in Maps, NEW i \in DOMAIN insertOrder[m],
         NEW k, NEW a, k = insertOrder[m][i].first, a = insertOrder[m][i].second
  PROVE  /\ k \in Keys /\ a \in Nodes
         /\ Has(m, k) /\ table[m][k] = a /\ Owns(m, k, a)
         /\ mem[a] \in Vals /\ mem[a] # Free
<1> USE DEF Inv
<1>1. k \in Keys /\ a \in Nodes
  BY ListType
<1>2. Has(m, k) /\ table[m][k] = a /\ Owns(m, k, a)
  BY DEF Coherent, Agree, Owns, Has
<1> QED  BY <1>1, <1>2, FreeAssumption DEF Ownership, TypeOK

\* The loop's item: the target's entry of its key gets the item's value, and the
\* values of the keys that were copied before stay what they are.
LEMMA AppendItemStep ==
  ASSUME Inv, AppendProgress, AppendItem
  PROVE  Inv' /\ AppendProgress'
<1> USE DEF Inv
<1>1. PICK m \in Maps, s \in Maps, p \in Nat \ {0} : loop = [dst |-> m, src |-> s, pos |-> p]
  BY DEF AppendItem, TypeOK
<1>2. loop.dst = m /\ loop.src = s /\ loop.pos = p
  BY <1>1
<1>3. /\ loop' = [dst |-> m, src |-> s, pos |-> p + 1] /\ held' = held
      /\ loop # Idle /\ p # End(s) /\ p <= End(s)
  BY <1>1, <1>2 DEF AppendItem, AppendProgress
<1>4. /\ loop'.dst = m /\ loop'.src = s /\ loop'.pos = p + 1
      /\ loop' \in [dst : Maps, src : Maps, pos : Nat \ {0}]
  BY <1>3
<1>5. /\ Len(insertOrder[s]) \in Nat
      /\ DOMAIN insertOrder[s] = 1 .. Len(insertOrder[s])
      /\ End(s) = Len(insertOrder[s]) + 1
  BY ListType
<1>6. p \in DOMAIN insertOrder[s] /\ 1 .. p - 1 \subseteq DOMAIN insertOrder[s]
  BY <1>3, <1>5
<1>7. PICK k, b : k = insertOrder[s][p].first /\ b = insertOrder[s][p].second
  OBVIOUS
<1>8. /\ k \in Keys /\ b \in Nodes /\ Has(s, k) /\ table[s][k] = b
      /\ mem[b] \in Vals /\ mem[b] # Free
  BY <1>6, <1>7, ItemOwned
<1>9. ASSUME insertOrder'[s] = insertOrder[s],
             \A i \in 1 .. p :
               LET it == insertOrder[s][i]
               IN  it.first \in DOMAIN table'[m] /\ mem'[table'[m][it.first]] = mem'[it.second]
      PROVE  AppendProgress'
  <2>1. End(s)' = Len(insertOrder[s]) + 1 /\ p + 1 <= Len(insertOrder[s]) + 1
    BY <1>3, <1>5, <1>9 DEF End
  <2>2. (p + 1) - 1 = p
    OBVIOUS
  <2> QED  BY <1>4, <1>9, <2>1, <2>2 DEF AppendProgress, Has
\* What the loop has copied so far, of the items it has passed.
<1>10. ASSUME NEW i \in 1 .. p - 1, NEW x, NEW c,
              x = insertOrder[s][i].first, c = insertOrder[s][i].second
       PROVE  /\ x \in Keys /\ c \in Nodes /\ Owns(s, x, c) /\ mem[c] # Free /\ x # k
              /\ Has(m, x) /\ table[m][x] \in Nodes /\ Owns(m, x, table[m][x])
              /\ mem[table[m][x]] = mem[c]
  <2>1. i \in DOMAIN insertOrder[s] /\ i # p
    BY <1>6
  <2>2. x \in Keys /\ c \in Nodes /\ Owns(s, x, c) /\ mem[c] # Free
    BY <1>10, <2>1, ItemOwned
  <2>3. x # k
    BY <1>6, <1>7, <1>10, <2>1 DEF Coherent, Agree
  <2>4. Has(m, x) /\ mem[table[m][x]] = mem[c]
    BY <1>2, <1>3, <1>10 DEF AppendProgress
  <2>5. table[m][x] \in Nodes /\ Owns(m, x, table[m][x])
    BY <2>4, TreeType DEF Owns, Has
  <2> QED  BY <2>2, <2>3, <2>4, <2>5
<1>11. 1 .. p = (1 .. p - 1) \cup {p}
  OBVIOUS
<1>12. CASE Has(m, k)
  <2>1. PICK d \in Nodes : d = table[m][k] /\ Owns(m, k, d)
    BY <1>8, <1>12, TreeType DEF Owns, Has
  <2>2. /\ mem' = [mem EXCEPT ![d] = mem[b]]
        /\ table' = table /\ insertOrder' = insertOrder
    BY <1>2, <1>7, <1>12, <2>1 DEF AppendItem, Put
  <2>3. mem'[d] = mem[b] /\ mem'[b] = mem[b] /\ \A a \in Nodes \ {d} : mem'[a] = mem[a]
    BY <1>8, <2>2 DEF TypeOK
  <2>4. TypeOK'
    BY <1>3, <1>4, <1>8, <2>2 DEF TypeOK
  <2>5. Coherent'
    BY <2>2 DEF Coherent
  <2>6. \A o \in Maps, x \in Keys, a \in Nodes : Owns(o, x, a)' <=> Owns(o, x, a)
    BY <2>2 DEF Owns, Has
  <2>7. \A a \in Nodes : mem[a]' # Free <=> mem[a] # Free
    BY <1>8, <2>1, <2>3 DEF Ownership
  <2>8. Ownership'
    BY <2>6, <2>7 DEF Ownership
  <2>9. HeldEntry'
    BY <1>3, <2>6 DEF HeldEntry, TypeOK
  <2>10. ASSUME NEW i \in 1 .. p
         PROVE  LET it == insertOrder[s][i]
                IN  it.first \in DOMAIN table'[m] /\ mem'[table'[m][it.first]] = mem'[it.second]
    <3>1. CASE i = p
      BY <1>7, <1>12, <2>1, <2>2, <2>3, <3>1 DEF Has
    <3>2. CASE i \in 1 .. p - 1
      <4>1. PICK x, c : x = insertOrder[s][i].first /\ c = insertOrder[s][i].second
        OBVIOUS
      <4>2. /\ x \in Keys /\ c \in Nodes /\ Owns(s, x, c) /\ mem[c] # Free /\ x # k
            /\ Has(m, x) /\ table[m][x] \in Nodes /\ Owns(m, x, table[m][x])
            /\ mem[table[m][x]] = mem[c]
        BY <1>10, <3>2, <4>1
      <4>3. table[m][x] # d
        BY <1>8, <2>1, <4>2 DEF Ownership
      <4>4. c # d
        BY <1>8, <2>1, <4>2 DEF Ownership
      <4>5. x \in DOMAIN table'[m] /\ mem'[table'[m][x]] = mem'[c]
        BY <2>2, <2>3, <4>2, <4>3, <4>4 DEF Has
      <4> QED  BY <4>1, <4>5
    <3> QED  BY <1>11, <3>1, <3>2
  <2> QED  BY <1>9, <2>2, <2>4, <2>5, <2>8, <2>9, <2>10
<1>13. CASE ~Has(m, k)
  <2>1. PICK a \in Nodes : NewEntry(m, k, a, mem[b])
    BY <1>2, <1>7, <1>13 DEF AppendItem, Put
  <2>2. /\ Inv'
        /\ DOMAIN table'[m] = DOMAIN table[m] \cup {k} /\ table'[m][k] = a
        /\ \A x \in DOMAIN table[m] : table'[m][x] = table[m][x]
        /\ \A n \in Maps \ {m} : insertOrder'[n] = insertOrder[n]
    <3> HIDE DEF Inv
    <3> QED  BY <1>3, <1>4, <1>8, <1>13, <2>1, NewEntryStep
  <2>3. mem[a] = Free /\ mem'[a] = mem[b] /\ \A c \in Nodes \ {a} : mem'[c] = mem[c]
    BY <2>1 DEF NewEntry, TypeOK
  <2>4. insertOrder'[s] = insertOrder[s]
    BY <1>8, <1>13, <2>2
  <2>6. ASSUME NEW i \in 1 .. p
         PROVE  LET it == insertOrder[s][i]
                IN  it.first \in DOMAIN table'[m] /\ mem'[table'[m][it.first]] = mem'[it.second]
    <3>1. CASE i = p
      <4>1. mem'[b] = mem[b]
        BY <1>8, <2>3
      <4> QED  BY <1>7, <2>2, <2>3, <3>1, <4>1
    <3>2. CASE i \in 1 .. p - 1
      <4>1. PICK x, c : x = insertOrder[s][i].first /\ c = insertOrder[s][i].second
        OBVIOUS
      <4>2. /\ x \in Keys /\ c \in Nodes /\ Owns(s, x, c) /\ mem[c] # Free /\ x # k
            /\ Has(m, x) /\ table[m][x] \in Nodes /\ Owns(m, x, table[m][x])
            /\ mem[table[m][x]] = mem[c]
        BY <1>10, <3>2, <4>1
      <4>3. table[m][x] # a /\ c # a
        BY <2>3, <4>2
      <4>5. x \in DOMAIN table'[m] /\ mem'[table'[m][x]] = mem'[c]
        BY <2>2, <2>3, <4>2, <4>3 DEF Has
      <4> QED  BY <4>1, <4>5
    <3> QED  BY <1>11, <3>1, <3>2
  <2> QED  BY <1>9, <2>2, <2>4, <2>6
<1> QED  BY <1>12, <1>13

-----------------------------------------------------------------------------
\* The inductive invariant, with the progress of the loop of append.
IInv == Inv /\ AppendProgress

\* Empty maps, no reference, no loop.
LEMMA IInvInit == Init => IInv
<1> SUFFICES ASSUME Init PROVE IInv
  OBVIOUS
<1> USE DEF Init
<1>1. [k \in {} |-> Free] \in Trees
  BY DEF Trees
<1>2. TypeOK
  <2>1. table \in [Maps -> Trees]
    BY <1>1
  <2>2. << >> \in Seq(FIFOItem)
    BY EmptySeq
  <2>3. insertOrder \in [Maps -> Seq(FIFOItem)]
    BY <2>2
  <2> QED  BY <2>1, <2>3 DEF TypeOK
<1>3. Coherent
  <2> SUFFICES ASSUME NEW m \in Maps PROVE Agree(insertOrder[m], table[m])
    BY DEF Coherent
  <2>1. DOMAIN insertOrder[m] = {} /\ DOMAIN table[m] = {}
    OBVIOUS
  <2> QED  BY <2>1 DEF Agree
<1>4. Ownership
  BY DEF Ownership, Owns, Has
<1> QED  BY <1>2, <1>3, <1>4 DEF IInv, Inv, HeldEntry, AppendProgress

\* Steps that leave the maps and the reference alone: the loop's begin and end.
LEMMA InvStutter ==
  ASSUME Inv, UNCHANGED << table, mem, insertOrder, held >>,
         loop' \in [dst : Maps, src : Maps, pos : Nat \ {0}] \cup {Idle}
  PROVE  Inv'
<1>1. \A o \in Maps, x \in Keys, b \in Nodes : Owns(o, x, b)' <=> Owns(o, x, b)
  BY DEF Owns, Has
<1> QED  BY <1>1 DEF Inv, TypeOK, Coherent, Ownership, HeldEntry

\* T &r = m[k], of a key that is there and of a new one.
LEMMA IndexStep ==
  ASSUME Inv, NEW m \in Maps, NEW k \in Keys, Index(m, k)
  PROVE  Inv'
<1>1. loop' = loop /\ loop \in [dst : Maps, src : Maps, pos : Nat \ {0}] \cup {Idle}
  BY DEF Index, Inv, TypeOK
<1>2. CASE Has(m, k)
  <2>1. /\ UNCHANGED << table, mem, insertOrder >>
        /\ held' = [map |-> m, key |-> k, node |-> table[m][k]]
    BY <1>2 DEF Index
  <2>2. \A o \in Maps, x \in Keys, b \in Nodes : Owns(o, x, b)' <=> Owns(o, x, b)
    BY <2>1 DEF Owns, Has
  <2>3. table[m][k] \in Nodes /\ Owns(m, k, table[m][k])
    BY <1>2, TreeType DEF Inv, Owns, Has
  <2> QED  BY <1>1, <2>1, <2>2, <2>3 DEF Inv, TypeOK, Coherent, Ownership, HeldEntry
<1>3. CASE ~Has(m, k)
  <2>1. PICK a \in Nodes : /\ NewEntry(m, k, a, Default)
                           /\ held' = [map |-> m, key |-> k, node |-> a]
    BY <1>3 DEF Index
  <2> QED  BY <1>1, <1>3, <2>1, NewEntryStep, DefaultAssumption
<1> QED  BY <1>2, <1>3

\* r = v: a node that is allocated stays allocated.
LEMMA AssignStep ==
  ASSUME Inv, NEW v \in Vals, Assign(v)
  PROVE  Inv'
<1> USE DEF Inv
<1>1. /\ held \in [map : Maps, key : Keys, node : Nodes]
      /\ held # NoRef
      /\ mem' = [mem EXCEPT ![held.node] = v]
      /\ UNCHANGED << table, insertOrder, held, loop >>
  BY DEF Assign, TypeOK
<1>2. \A o \in Maps, x \in Keys, b \in Nodes : Owns(o, x, b)' <=> Owns(o, x, b)
  BY <1>1 DEF Owns, Has
<1>3. \A b \in Nodes : mem[b]' # Free <=> mem[b] # Free
  <2>1. mem[held.node] # Free
    BY <1>1 DEF HeldEntry, Ownership
  <2> QED  BY <1>1, <2>1, FreeAssumption DEF TypeOK
<1>4. TypeOK' /\ Coherent'
  BY <1>1 DEF TypeOK, Coherent
<1> QED  BY <1>1, <1>2, <1>3, <1>4 DEF Ownership, HeldEntry

\* Every operation preserves the inductive invariant; outside of a loop
\* AppendProgress has nothing to say.
LEMMA InvNext ==
  ASSUME IInv, [Next]_vars
  PROVE  IInv'
<1> USE DEF IInv
<1>1. loop \in [dst : Maps, src : Maps, pos : Nat \ {0}] \cup {Idle}
  BY DEF Inv, TypeOK
<1>2. ASSUME Inv', loop' = Idle
      PROVE  IInv'
  BY <1>2 DEF AppendProgress
<1>3. ASSUME NEW m \in Maps, NEW k \in Keys, Index(m, k)
      PROVE  IInv'
  BY <1>2, <1>3, IndexStep DEF Index
<1>4. ASSUME NEW m \in Maps, NEW k \in Keys, NEW v \in Vals, Emplace(m, k, v)
      PROVE  IInv'
  BY <1>1, <1>2, <1>4, NewEntryStep DEF Emplace
<1>5. ASSUME NEW v \in Vals, Assign(v)
      PROVE  IInv'
  BY <1>2, <1>5, AssignStep DEF Assign
<1>6. ASSUME NEW m \in Maps, Erase(m)
      PROVE  IInv'
  <2>1. loop' = Idle
    BY <1>6 DEF Erase, EraseAt, EraseKey, EraseRange, Clear
  <2>2. Inv'
    BY <1>6, EraseAtStep, EraseKeyStep, EraseRangeStep, ClearStep DEF Erase
  <2> QED  BY <1>2, <2>1, <2>2
<1>7. ASSUME NEW m \in Maps, NEW n \in Maps, CopyAssign(m, n)
      PROVE  IInv'
  BY <1>2, <1>7, CopyAssignStep DEF CopyAssign
<1>8. ASSUME NEW m \in Maps, NEW n \in Maps, Swap(m, n)
      PROVE  IInv'
  BY <1>2, <1>8, SwapStep DEF Swap
<1>9. ASSUME NEW m \in Maps, NEW n \in Maps, AppendBegin(m, n)
      PROVE  IInv'
  <2>1. /\ loop' = [dst |-> m, src |-> n, pos |-> 1]
        /\ UNCHANGED << table, mem, insertOrder, held >>
    BY <1>9 DEF AppendBegin
  <2>2. Inv'
    BY <2>1, InvStutter
  <2>3. 1 <= End(n)'
    BY <2>1, ListType DEF End, Inv
  <2>4. loop'.pos = 1 /\ loop'.src = n /\ loop'.dst = m /\ 1 .. 1 - 1 = {}
    BY <2>1
  <2> QED  BY <2>2, <2>3, <2>4 DEF AppendProgress
<1>10. CASE AppendItem
  BY <1>10, AppendItemStep
<1>11. CASE AppendEnd
  BY <1>2, <1>11, InvStutter DEF AppendEnd
<1>12. CASE UNCHANGED vars
  <2>1. Inv'
    BY <1>1, <1>12, InvStutter DEF vars
  <2> QED  BY <1>12, <2>1 DEF AppendProgress, Has, End, vars
<1> QED  BY <1>3, <1>4, <1>5, <1>6, <1>7, <1>8, <1>9, <1>10, <1>11, <1>12 DEF Next

\* The inductive invariant holds in every reachable state.
THEOREM Invariance == Spec => []IInv
<1> QED  BY IInvInit, InvNext, PTL DEF Spec

\* The variables keep their types.
THEOREM TypeCorrect == Spec => []TypeOK
<1>1. IInv => TypeOK
  BY DEF IInv, Inv
<1> QED  BY <1>1, Invariance, PTL

\* Tree and list of a FIFOMap never disagree: emplace and find never meet a key
\* that is in one of them only.
THEOREM Coherence == Spec => []Coherent
<1>1. IInv => Coherent
  BY DEF IInv, Inv
<1> QED  BY <1>1, Invariance, PTL

\* Every allocated node is owned by exactly one entry: no leak, no sharing.
THEOREM NodesAreOwned == Spec => []Ownership
<1>1. IInv => Ownership
  BY DEF IInv, Inv
<1> QED  BY <1>1, Invariance, PTL

\* A reference returned by operator[] outlives every operation that does not
\* erase its own entry.
THEOREM ReferencesStayValid == Spec => []HeldEntry
<1>1. IInv => HeldEntry
  BY DEF IInv, Inv
<1> QED  BY <1>1, Invariance, PTL

\* append gives the target every entry of its source, with the source's value.
THEOREM AppendCopies == Spec => []AppendProgress
<1>1. IInv => AppendProgress
  BY DEF IInv
<1> QED  BY <1>1, Invariance, PTL

\* A map appended to itself is what it was, for a T whose assignment to itself changes
\* nothing, which that of a ConfigItem does.
THEOREM SelfAppend == Spec => SelfAppendChangesNothing
<1>1. ASSUME IInv, [Next]_vars, loop # Idle, loop.dst = loop.src
      PROVE  UNCHANGED << table, mem, insertOrder >>
  <2> USE <1>1 DEF IInv
  <2>1. CASE AppendItem
    <3>1. PICK m \in Maps, p \in Nat \ {0} : loop.dst = m /\ loop.src = m /\ loop.pos = p
      BY DEF Inv, TypeOK
    <3>2. p \in DOMAIN insertOrder[m]
      BY <2>1, <3>1, ListType, SMTT(30) DEF AppendItem, Put, AppendProgress, Inv
    <3>3. PICK k, a : k = insertOrder[m][p].first /\ a = insertOrder[m][p].second
      OBVIOUS
    <3>4. Has(m, k) /\ table[m][k] = a /\ a \in Nodes
      BY <3>2, <3>3, ItemOwned
    <3>5. /\ UNCHANGED << table, insertOrder >>
          /\ mem' = [mem EXCEPT ![a] = mem[a]]
      BY <2>1, <3>1, <3>3, <3>4 DEF AppendItem, Put
    <3> QED  BY <3>4, <3>5 DEF Inv, TypeOK
  <2>2. CASE AppendEnd
    BY <2>2 DEF AppendEnd
  <2>3. CASE UNCHANGED vars
    BY <2>3 DEF vars
  <2> QED
    BY <2>1, <2>2, <2>3 DEF Next, Index, Emplace, Assign, Erase, EraseAt, EraseKey,
       EraseRange, Clear, CopyAssign, Swap, AppendBegin
<1> QED  BY <1>1, Invariance, PTL DEF Spec, SelfAppendChangesNothing
-----------------------------------------------------------------------------
(***************************************************************************)
(* That a FIFOMap is an ordered dictionary: Spec => DictSpec.  Each        *)
(* operation changes the dictionary of one map (swap: of two) as           *)
(* OrderedDict.tla says, and none of another map, because no two entries   *)
(* share a node.                                                           *)
(***************************************************************************)
\* The dictionary of a map, and those of all: what DictSpec has for dict.
DictOf(m) ==
  [i \in DOMAIN insertOrder[m] |->
     [key |-> insertOrder[m][i].first, val |-> mem[insertOrder[m][i].second]]]

AllDicts == [m \in Maps |->
            [i \in DOMAIN insertOrder[m] |->
               [key |-> insertOrder[m][i].first, val |-> mem[insertOrder[m][i].second]]]]

\* What the dictionaries look like to the provers.
LEMMA DictType ==
  ASSUME TypeOK
  PROVE  /\ \A m \in Maps : AllDicts[m] = DictOf(m) /\ Len(DictOf(m)) = Len(insertOrder[m])
         /\ \A m \in Maps : DOMAIN DictOf(m) = DOMAIN insertOrder[m]
<1>1. \A m \in Maps : AllDicts[m] = DictOf(m)
  BY DEF AllDicts, DictOf
<1>2. ASSUME NEW m \in Maps
      PROVE  /\ DOMAIN DictOf(m) = DOMAIN insertOrder[m]
             /\ Len(DictOf(m)) = Len(insertOrder[m])
  <2>1. DOMAIN insertOrder[m] = 1 .. Len(insertOrder[m]) /\ Len(insertOrder[m]) \in Nat
    BY ListType
  <2> QED  BY <2>1 DEF DictOf
<1> QED  BY <1>1, <1>2

\* A map whose list is what it was and whose nodes keep their values.
LEMMA SameDict ==
  ASSUME NEW m \in Maps, insertOrder'[m] = insertOrder[m],
         \A i \in DOMAIN insertOrder[m] :
           mem'[insertOrder[m][i].second] = mem[insertOrder[m][i].second]
  PROVE  DictOf(m)' = DictOf(m)
BY DEF DictOf

\* All dictionaries but that of m stay; then it is enough to know the new one of m.
LEMMA OneDict ==
  ASSUME NEW m \in Maps, \A n \in Maps \ {m} : DictOf(n)' = DictOf(n)
  PROVE  AllDicts' = [AllDicts EXCEPT ![m] = DictOf(m)']
BY DEF AllDicts, DictOf

\* A dictionary has a key exactly when the tree of the map has it.
LEMMA HasKeyLemma ==
  ASSUME Inv, NEW m \in Maps, NEW k
  PROVE  Dict!HasKey(DictOf(m), k) <=> Has(m, k)
<1>1. Agree(insertOrder[m], table[m])
  BY DEF Inv, Coherent
<1>2. /\ DOMAIN DictOf(m) = DOMAIN insertOrder[m]
      /\ \A i \in DOMAIN insertOrder[m] : DictOf(m)[i].key = insertOrder[m][i].first
  BY DEF DictOf
<1>3. Dict!HasKey(DictOf(m), k) <=> \E i \in DOMAIN insertOrder[m] : insertOrder[m][i].first = k
  BY <1>2 DEF Dict!HasKey
<1> QED  BY <1>1, <1>3 DEF Agree, Has

\* A new node, with an item at the end of the list, is a store of a new key.
LEMMA NewEntryRefines ==
  ASSUME Inv, NEW m \in Maps, NEW k \in Keys, NEW a \in Nodes, NEW v \in Vals,
         ~Has(m, k), NewEntry(m, k, a, v)
  PROVE  Dict!Put(m, k, v)
<1> DEFINE list == insertOrder[m]
           item == [first |-> k, second |-> a]
<1>1. /\ insertOrder' = [insertOrder EXCEPT ![m] = Append(list, item)]
      /\ mem' = [mem EXCEPT ![a] = v] /\ mem[a] = Free
  BY DEF NewEntry
<1>2. \A n \in Maps : \A i \in DOMAIN insertOrder[n] :
        /\ insertOrder[n][i].second \in Nodes
        /\ mem'[insertOrder[n][i].second] = mem[insertOrder[n][i].second]
  <2> TAKE n \in Maps
  <2> TAKE i \in DOMAIN insertOrder[n]
  <2>1. PICK x, b : x = insertOrder[n][i].first /\ b = insertOrder[n][i].second
    OBVIOUS
  <2>2. b \in Nodes /\ mem[b] # Free
    BY <2>1, ItemOwned
  <2> QED  BY <1>1, <2>1, <2>2 DEF Inv, TypeOK
<1>3. \A n \in Maps \ {m} : DictOf(n)' = DictOf(n)
  BY <1>1, <1>2, SameDict DEF Inv, TypeOK
<1>4. /\ list \in Seq(FIFOItem) /\ Len(list) \in Nat /\ DOMAIN list = 1 .. Len(list)
      /\ insertOrder'[m] = Append(list, item) /\ mem'[a] = v
  BY <1>1, ListType DEF Inv, TypeOK
<1>5. DictOf(m)' = Append(DictOf(m), [key |-> k, val |-> v])
  <2>1. /\ DOMAIN insertOrder'[m] = 1 .. Len(list) + 1
        /\ \A i \in 1 .. Len(list) : insertOrder'[m][i] = list[i]
        /\ insertOrder'[m][Len(list) + 1] = item
    BY <1>4
  <2>2. DOMAIN DictOf(m) = 1 .. Len(list) /\ Len(DictOf(m)) = Len(list)
    BY <1>4, DictType DEF Inv
  <2>3. Append(DictOf(m), [key |-> k, val |-> v]) =
          [i \in 1 .. Len(list) + 1 |->
             IF i = Len(list) + 1 THEN [key |-> k, val |-> v] ELSE DictOf(m)[i]]
    BY <1>4, <2>2
  <2>4. DictOf(m)' = [i \in 1 .. Len(list) + 1 |->
             [key |-> insertOrder'[m][i].first, val |-> mem'[insertOrder'[m][i].second]]]
    BY <2>1 DEF DictOf
  <2>5. \A i \in 1 .. Len(list) :
          [key |-> insertOrder'[m][i].first, val |-> mem'[insertOrder'[m][i].second]]
          = DictOf(m)[i]
    BY <1>2, <1>4, <2>1 DEF DictOf
  <2> QED  BY <1>4, <2>1, <2>3, <2>4, <2>5
<1>6. ~Dict!HasKey(DictOf(m), k)
  BY HasKeyLemma
<1>7. AllDicts' = [AllDicts EXCEPT ![m] = DictOf(m)'] /\ AllDicts[m] = DictOf(m)
  BY <1>3, OneDict, DictType DEF Inv
<1>8. AllDicts' = [AllDicts EXCEPT ![m] = Dict!Store(@, k, v)]
  BY <1>5, <1>6, <1>7 DEF Dict!Store, Dict!Entry
<1> QED  BY <1>8 DEF Dict!Put, AllDicts

\* An assignment to the value of an entry is a store of its key.
LEMMA StoreRefines ==
  ASSUME Inv, NEW m \in Maps, NEW k \in Keys, NEW a \in Nodes, NEW v \in Vals,
         Owns(m, k, a), mem' = [mem EXCEPT ![a] = v], UNCHANGED insertOrder
  PROVE  Dict!Put(m, k, v)
<1>1. ASSUME NEW n \in Maps, NEW i \in DOMAIN insertOrder[n],
             NEW x, NEW b, x = insertOrder[n][i].first, b = insertOrder[n][i].second
      PROVE  /\ b = a <=> (n = m /\ x = k)
             /\ mem'[b] = IF n = m /\ x = k THEN v ELSE mem[b]
  <2>1. b \in Nodes /\ x \in Keys /\ Owns(n, x, b)
    BY <1>1, ItemOwned
  <2>2. b = a <=> (n = m /\ x = k)
    BY <2>1 DEF Inv, Ownership, Owns
  <2> QED  BY <2>1, <2>2 DEF Inv, TypeOK
<1>2. \A n \in Maps \ {m} : DictOf(n)' = DictOf(n)
  <2> TAKE n \in Maps \ {m}
  <2>1. \A i \in DOMAIN insertOrder[n] :
          mem'[insertOrder[n][i].second] = mem[insertOrder[n][i].second]
    BY <1>1
  <2> QED  BY <2>1, SameDict
<1>3. Dict!HasKey(DictOf(m), k)
  BY HasKeyLemma DEF Owns
<1>4. \A i \in DOMAIN insertOrder[m] :
        mem'[insertOrder[m][i].second] =
          IF insertOrder[m][i].first = k THEN v ELSE mem[insertOrder[m][i].second]
  BY <1>1
<1>5. /\ DOMAIN DictOf(m) = DOMAIN insertOrder[m]
      /\ \A i \in DOMAIN insertOrder[m] :
           DictOf(m)[i] = [key |-> insertOrder[m][i].first, val |-> mem[insertOrder[m][i].second]]
      /\ DictOf(m)' = [i \in DOMAIN insertOrder[m] |->
           [key |-> insertOrder[m][i].first, val |-> mem'[insertOrder[m][i].second]]]
  BY DEF DictOf
<1>6. DictOf(m)' = [i \in DOMAIN DictOf(m) |->
                      IF DictOf(m)[i].key = k THEN [key |-> k, val |-> v] ELSE DictOf(m)[i]]
  <2>1. ASSUME NEW i \in DOMAIN insertOrder[m],
               NEW x, NEW b, x = insertOrder[m][i].first, b = insertOrder[m][i].second
        PROVE  [key |-> x, val |-> mem'[b]] =
                 IF DictOf(m)[i].key = k THEN [key |-> k, val |-> v] ELSE DictOf(m)[i]
    <3>1. DictOf(m)[i] = [key |-> x, val |-> mem[b]] /\ mem'[b] = IF x = k THEN v ELSE mem[b]
      BY <1>4, <1>5, <2>1
    <3>2. DictOf(m)[i].key = x
      BY <3>1
    <3> QED  BY <3>1, <3>2
  <2> QED  BY <1>5, <2>1
<1>7. AllDicts' = [AllDicts EXCEPT ![m] = DictOf(m)'] /\ AllDicts[m] = DictOf(m)
  BY <1>2, OneDict, DictType DEF Inv
<1>8. AllDicts' = [AllDicts EXCEPT ![m] = Dict!Store(@, k, v)]
  BY <1>3, <1>6, <1>7 DEF Dict!Store, Dict!Entry
<1> QED  BY <1>8 DEF Dict!Put, AllDicts

\* Items go with the nodes of their keys: the dictionary is cut.
LEMMA EraseRefines ==
  ASSUME Inv, NEW m \in Maps, NEW K,
         NEW first \in 1 .. End(m), NEW last \in first .. End(m),
         \A x \in DOMAIN table[m] :
           x \in K <=> \E i \in first .. last - 1 : insertOrder[m][i].first = x,
         FreeNodes(m, K),
         insertOrder' = [insertOrder EXCEPT ![m] = Unlink(insertOrder[m], first, last)]
  PROVE  AllDicts' = [AllDicts EXCEPT ![m] = Dict!Cut(@, first, last)]
<1> DEFINE list == insertOrder[m]
           list2 == Unlink(list, first, last)
           gone == {table[m][k] : k \in K \cap DOMAIN table[m]}
           n2 == Len(list) - (last - first)
<1>1. mem' = [a \in Nodes |-> IF a \in gone THEN Free ELSE mem[a]]
  BY DEF FreeNodes
<1>2. /\ list \in Seq(FIFOItem) /\ Len(list) \in Nat /\ DOMAIN list = 1 .. Len(list)
      /\ End(m) = Len(list) + 1
      /\ insertOrder'[m] = list2
      /\ \A n \in Maps \ {m} : insertOrder'[n] = insertOrder[n]
  BY ListType DEF Inv, TypeOK
<1>3. ASSUME NEW n \in Maps, NEW i \in DOMAIN insertOrder[n], n = m => i \notin first .. last - 1
      PROVE  mem'[insertOrder[n][i].second] = mem[insertOrder[n][i].second]
  <2>1. PICK x, b : x = insertOrder[n][i].first /\ b = insertOrder[n][i].second
    OBVIOUS
  <2>2. b \in Nodes /\ x \in Keys /\ Owns(n, x, b)
    BY <2>1, ItemOwned
  <2>3. b \notin gone
    <3> SUFFICES ASSUME NEW k \in K \cap DOMAIN table[m], table[m][k] = b  PROVE FALSE
      OBVIOUS
    <3>1. k \in Keys /\ Owns(m, k, b)
      BY TreeType DEF Inv, Owns, Has
    <3>2. n = m /\ k = x
      BY <2>2, <3>1 DEF Inv, Ownership
    <3>3. PICK j \in first .. last - 1 : insertOrder[m][j].first = x
      BY <3>2
    <3>4. j \in DOMAIN list
      BY <1>2
    <3>5. j = i
      BY <2>1, <3>2, <3>3, <3>4 DEF Inv, Coherent, Agree
    <3> QED  BY <1>3, <3>2, <3>3, <3>5
  <2> HIDE DEF gone
  <2> QED  BY <1>1, <2>1, <2>2, <2>3
<1> HIDE DEF gone
<1>4. \A n \in Maps \ {m} : DictOf(n)' = DictOf(n)
  <2> TAKE n \in Maps \ {m}
  <2>1. \A i \in DOMAIN insertOrder[n] :
          mem'[insertOrder[n][i].second] = mem[insertOrder[n][i].second]
    BY <1>3
  <2> QED  BY <1>2, <2>1, SameDict
<1>5. /\ list2 \in Seq(FIFOItem) /\ Len(list2) = n2 /\ DOMAIN list2 = 1 .. n2
      /\ \A i \in 1 .. first - 1 : list2[i] = list[i]
      /\ \A i \in first .. n2 : list2[i] = list[i + (last - first)]
  <2> HIDE DEF list
  <2> QED  BY <1>2, UnlinkLemma, LenProperties
<1> DEFINE d == DictOf(m)
<1>6. /\ DOMAIN d = 1 .. Len(list) /\ Len(d) = Len(list)
      /\ \A i \in 1 .. Len(list) : d[i] = [key |-> list[i].first, val |-> mem[list[i].second]]
      /\ d \in Seq([key : Keys, val : Vals])
  <2>1. DOMAIN d = 1 .. Len(list) /\ Len(d) = Len(list)
    BY <1>2, DictType DEF Inv
  <2>2. \A i \in 1 .. Len(list) : d[i] = [key |-> list[i].first, val |-> mem[list[i].second]]
    BY <1>2 DEF DictOf
  <2>3. ASSUME NEW i \in 1 .. Len(list)  PROVE d[i] \in [key : Keys, val : Vals]
    <3>1. PICK x, b : x = insertOrder[m][i].first /\ b = insertOrder[m][i].second
      OBVIOUS
    <3>2. x \in Keys /\ mem[b] \in Vals
      BY <1>2, <3>1, ItemOwned
    <3>3. d[i] = [key |-> x, val |-> mem[b]]
      BY <2>2, <3>1
    <3> HIDE DEF d
    <3> QED  BY <3>2, <3>3
  <2> HIDE DEF list
  <2>4. d = [i \in 1 .. Len(list) |-> d[i]]
    BY <1>2, <2>1 DEF DictOf, list
  <2> HIDE DEF d
  <2> QED  BY <1>2, <2>1, <2>2, <2>3, <2>4
<1>7. Dict!Cut(d, first, last) = Unlink(d, first, last)
  BY DEF Dict!Cut, Unlink
<1>8. /\ Unlink(d, first, last) \in Seq([key : Keys, val : Vals])
      /\ Len(Unlink(d, first, last)) = n2 /\ DOMAIN Unlink(d, first, last) = 1 .. n2
      /\ \A i \in 1 .. first - 1 : Unlink(d, first, last)[i] = d[i]
      /\ \A i \in first .. n2 : Unlink(d, first, last)[i] = d[i + (last - first)]
  <2> HIDE DEF d
  <2> DEFINE S == [key : Keys, val : Vals]
             u == Unlink(d, first, last)
  <2> HIDE DEF S
  <2>1. first \in 1 .. Len(d) + 1 /\ last \in first .. Len(d) + 1 /\ d \in Seq(S)
    BY <1>2, <1>6 DEF S
  <2>2. /\ u \in Seq(S)
        /\ Len(u) = Len(d) - (last - first)
        /\ \A i \in 1 .. first - 1 : u[i] = d[i]
        /\ \A i \in first .. Len(d) - (last - first) : u[i] = d[i + (last - first)]
    BY <2>1, UnlinkLemma
  <2> HIDE DEF u
  <2>3. DOMAIN u = 1 .. Len(u)
    BY <2>2, LenProperties
  <2> QED  BY <1>6, <2>2, <2>3 DEF S, u
<1>9. DictOf(m)' = [i \in 1 .. n2 |-> [key |-> list2[i].first, val |-> mem'[list2[i].second]]]
  BY <1>2, <1>5 DEF DictOf
<1>10. ASSUME NEW i \in 1 .. n2
       PROVE  [key |-> list2[i].first, val |-> mem'[list2[i].second]]
                = Unlink(d, first, last)[i]
  <2> HIDE DEF d, list2, list
  <2>1. CASE i < first
    <3>1. i \in 1 .. first - 1 /\ i \in 1 .. Len(list) /\ i \notin first .. last - 1
      BY <1>2, <2>1
    <3>2. mem'[list[i].second] = mem[list[i].second]
      BY <1>2, <1>3, <3>1 DEF list
    <3> QED  BY <1>5, <1>6, <1>8, <3>1, <3>2
  <2>2. CASE i >= first
    <3>1. PICK j \in Int : j = i + (last - first)
      BY <1>2
    <3>2. i \in first .. n2 /\ j \in 1 .. Len(list) /\ j \notin first .. last - 1
      BY <1>2, <2>2, <3>1
    <3>3. mem'[list[j].second] = mem[list[j].second]
      BY <1>2, <1>3, <3>2 DEF list
    <3> QED  BY <1>5, <1>6, <1>8, <3>1, <3>2, <3>3
  <2> QED  BY <1>2, <2>1, <2>2
<1>11. DictOf(m)' = Dict!Cut(d, first, last)
  <2> HIDE DEF d, list2
  <2>1. Unlink(d, first, last) = [i \in 1 .. n2 |-> Unlink(d, first, last)[i]]
    BY <1>8
  <2> QED  BY <1>7, <1>9, <1>10, <2>1
<1> QED  BY <1>4, <1>11, OneDict, DictType DEF Inv

-----------------------------------------------------------------------------
\* T &r = m[k] leaves the dictionary of a map that has k, and stores T() in any other.
LEMMA IndexRefines ==
  ASSUME Inv, NEW m \in Maps, NEW k \in Keys, Index(m, k)
  PROVE  Dict!Put(m, k, Default) \/ UNCHANGED AllDicts
<1>1. CASE Has(m, k)
  BY <1>1 DEF Index, AllDicts
<1>2. CASE ~Has(m, k)
  <2>1. PICK a \in Nodes : NewEntry(m, k, a, Default)
    BY <1>2 DEF Index
  <2> QED  BY <1>2, <2>1, NewEntryRefines, DefaultAssumption
<1> QED  BY <1>1, <1>2

\* r = v stores v under the key the reference was taken of.
LEMMA AssignRefines ==
  ASSUME Inv, NEW v \in Vals, Assign(v)
  PROVE  \E m \in Maps, k \in Keys : Dict!Put(m, k, v)
<1>1. /\ held \in [map : Maps, key : Keys, node : Nodes] /\ held # NoRef
      /\ mem' = [mem EXCEPT ![held.node] = v] /\ UNCHANGED insertOrder
  BY DEF Assign, Inv, TypeOK
<1>2. /\ held.map \in Maps /\ held.key \in Keys /\ held.node \in Nodes
      /\ Owns(held.map, held.key, held.node)
  BY <1>1 DEF Inv, HeldEntry
<1>3. PICK m \in Maps, k \in Keys, a \in Nodes :
        Owns(m, k, a) /\ mem' = [mem EXCEPT ![a] = v]
  BY <1>1, <1>2
<1>4. Dict!Put(m, k, v)
  BY <1>1, <1>3, StoreRefines
<1> QED  BY <1>4

\* operator[](k) = v in the loop of append.
LEMMA PutRefines ==
  ASSUME Inv, NEW m \in Maps, NEW k \in Keys, NEW v \in Vals, Put(m, k, v)
  PROVE  Dict!Put(m, k, v)
<1>1. CASE Has(m, k)
  <2>1. PICK a \in Nodes : a = table[m][k] /\ Owns(m, k, a)
    BY <1>1, TreeType DEF Inv, Owns, Has
  <2>2. mem' = [mem EXCEPT ![a] = v] /\ UNCHANGED insertOrder
    BY <1>1, <2>1 DEF Put
  <2> QED  BY <2>1, <2>2, StoreRefines
<1>2. CASE ~Has(m, k)
  <2>1. PICK a \in Nodes : NewEntry(m, k, a, v)
    BY <1>2 DEF Put
  <2> QED  BY <1>2, <2>1, NewEntryRefines
<1> QED  BY <1>1, <1>2

\* The loop's turn stores the item's key and value.
LEMMA AppendItemRefines ==
  ASSUME Inv, AppendProgress, AppendItem
  PROVE  \E m \in Maps, k \in Keys, v \in Vals : Dict!Put(m, k, v)
<1>1. PICK m \in Maps, s \in Maps, p \in Nat \ {0} : loop = [dst |-> m, src |-> s, pos |-> p]
  BY DEF AppendItem, Inv, TypeOK
<1>2. loop.dst = m /\ loop.src = s /\ loop.pos = p /\ p <= End(s) /\ p # End(s)
  BY <1>1 DEF AppendItem, AppendProgress
<1>3. p \in DOMAIN insertOrder[s]
  BY <1>2, ListType DEF Inv
<1>4. PICK k, b : k = insertOrder[s][p].first /\ b = insertOrder[s][p].second
  OBVIOUS
<1>5. k \in Keys /\ mem[b] \in Vals
  BY <1>3, <1>4, ItemOwned
<1>6. PICK v \in Vals : Put(m, k, v)
  <2>1. Put(m, k, mem[b])
    BY <1>2, <1>4 DEF AppendItem
  <2> QED  BY <1>5, <2>1 DEF Put, NewEntry
<1>7. Dict!Put(m, k, v)
  BY <1>5, <1>6, PutRefines
<1> QED  BY <1>5, <1>7

\* The abstract dictionary of a map has the length of its list.
LEMMA RemoveRefines ==
  ASSUME Inv, NEW m \in Maps, NEW first \in DOMAIN insertOrder[m],
         NEW last \in first + 1 .. End(m),
         AllDicts' = [AllDicts EXCEPT ![m] = Dict!Cut(@, first, last)]
  PROVE  \E f \in 1 .. Len(AllDicts[m]), l \in 1 .. Len(AllDicts[m]) + 1 :
           Dict!Remove(m, f, l)
<1>1. /\ Len(AllDicts[m]) = Len(insertOrder[m]) /\ End(m) = Len(insertOrder[m]) + 1
      /\ DOMAIN insertOrder[m] = 1 .. Len(insertOrder[m]) /\ Len(insertOrder[m]) \in Nat
  BY DictType, ListType DEF Inv
<1>2. /\ first \in 1 .. Len(AllDicts[m]) /\ last \in 1 .. Len(AllDicts[m]) + 1
      /\ first < last
  BY <1>1
<1>3. Dict!Remove(m, first, last)
  BY <1>2 DEF Dict!Remove, AllDicts
<1> QED  BY <1>2, <1>3

\* erase, in its three forms, removes entries that follow each other; clear all.
LEMMA ErasesRefine ==
  ASSUME Inv, NEW m \in Maps, Erase(m)
  PROVE  \/ \E f \in 1 .. Len(AllDicts[m]), l \in 1 .. Len(AllDicts[m]) + 1 :
              Dict!Remove(m, f, l)
         \/ Dict!Empty(m)
<1> DEFINE list == insertOrder[m]
<1>1. /\ list \in Seq(FIFOItem) /\ Len(list) \in Nat /\ DOMAIN list = 1 .. Len(list)
      /\ End(m) = Len(list) + 1 /\ \A i \in DOMAIN list : list[i].first \in Keys
  BY ListType DEF Inv
<1>2. \A i, j \in DOMAIN list : list[i].first = list[j].first => i = j
  BY DEF Inv, Coherent, Agree
<1>3. ASSUME NEW i \in DOMAIN list, NEW k, k = list[i].first,
             FreeNodes(m, {k}),
             insertOrder' = [insertOrder EXCEPT ![m] = Unlink(list, i, i + 1)]
      PROVE  \E f \in 1 .. Len(AllDicts[m]), l \in 1 .. Len(AllDicts[m]) + 1 :
               Dict!Remove(m, f, l)
  <2>1. i \in 1 .. End(m) /\ i + 1 \in i .. End(m) /\ i .. (i + 1) - 1 = {i}
        /\ i + 1 \in i + 1 .. End(m)
    BY <1>1
  <2>2. \A x \in DOMAIN table[m] :
          x \in {k} <=> \E j \in i .. (i + 1) - 1 : insertOrder[m][j].first = x
    BY <1>3, <2>1
  <2>3. AllDicts' = [AllDicts EXCEPT ![m] = Dict!Cut(@, i, i + 1)]
    BY <1>3, <2>1, <2>2, EraseRefines
  <2> QED  BY <2>1, <2>3, RemoveRefines
<1>4. ASSUME NEW i \in DOMAIN list, EraseAt(m, i)
      PROVE  \E f \in 1 .. Len(AllDicts[m]), l \in 1 .. Len(AllDicts[m]) + 1 :
               Dict!Remove(m, f, l)
  BY <1>3, <1>4 DEF EraseAt
<1>5. ASSUME NEW k \in Keys, EraseKey(m, k)
      PROVE  \E f \in 1 .. Len(AllDicts[m]), l \in 1 .. Len(AllDicts[m]) + 1 :
               Dict!Remove(m, f, l)
  <2>1. Find(m, k) \in DOMAIN list /\ list[Find(m, k)].first = k
    BY <1>5, FindLemma DEF EraseKey, Inv
  <2> QED  BY <1>3, <1>5, <2>1 DEF EraseKey
<1>6. ASSUME NEW first \in DOMAIN list, NEW last \in 1 .. End(m), EraseRange(m, first, last)
      PROVE  \E f \in 1 .. Len(AllDicts[m]), l \in 1 .. Len(AllDicts[m]) + 1 :
               Dict!Remove(m, f, l)
  <2> DEFINE K == {list[i].first : i \in first .. last - 1}
  <2>1. /\ first < last /\ FreeNodes(m, K)
        /\ insertOrder' = [insertOrder EXCEPT ![m] = Unlink(list, first, last)]
    BY <1>6 DEF EraseRange
  <2>2. first \in 1 .. End(m) /\ last \in first .. End(m) /\ last \in first + 1 .. End(m)
    BY <1>1, <2>1
  <2>3. \A x \in DOMAIN table[m] :
          x \in K <=> \E i \in first .. last - 1 : insertOrder[m][i].first = x
    OBVIOUS
  <2> HIDE DEF K
  <2>4. AllDicts' = [AllDicts EXCEPT ![m] = Dict!Cut(@, first, last)]
    BY <2>1, <2>2, <2>3, EraseRefines, ZenonT(60)
  <2> QED  BY <2>2, <2>4, RemoveRefines
<1>7. ASSUME Clear(m)
      PROVE  Dict!Empty(m)
  <2>1. FreeNodes(m, Keys) /\ insertOrder' = [insertOrder EXCEPT ![m] = << >>]
    BY <1>7 DEF Clear
  <2>2. \A n \in Maps \ {m} : DictOf(n)' = DictOf(n)
    <3> TAKE n \in Maps \ {m}
    <3>1. ASSUME NEW i \in DOMAIN insertOrder[n]
          PROVE  mem'[insertOrder[n][i].second] = mem[insertOrder[n][i].second]
      <4>1. PICK x, b : x = insertOrder[n][i].first /\ b = insertOrder[n][i].second
        OBVIOUS
      <4>2. b \in Nodes /\ x \in Keys /\ Owns(n, x, b)
        BY <4>1, ItemOwned
      <4>3. \A k \in DOMAIN table[m] : k \in Keys /\ table[m][k] # b
        BY <4>2, TreeType DEF Inv, Ownership, Owns, Has
      <4> QED  BY <2>1, <4>1, <4>2, <4>3 DEF FreeNodes
    <3>2. insertOrder'[n] = insertOrder[n]
      BY <2>1 DEF Inv, TypeOK
    <3> QED  BY <3>1, <3>2, SameDict
  <2>3. DictOf(m)' = << >>
    BY <2>1 DEF DictOf, Inv, TypeOK
  <2>4. AllDicts' = [AllDicts EXCEPT ![m] = << >>]
    BY <2>2, <2>3, OneDict
  <2> QED  BY <2>4 DEF Dict!Empty, AllDicts
<1> QED  BY <1>4, <1>5, <1>6, <1>7 DEF Erase

\* m = n gives m the entries of n: the nodes are new, the values are not.
LEMMA CopyAssignRefines ==
  ASSUME Inv, NEW m \in Maps, NEW n \in Maps, CopyAssign(m, n)
  PROVE  Dict!Copy(m, n)
<1> DEFINE old == {table[m][k] : k \in DOMAIN table[m]}
           keys == DOMAIN table[n] \cup ListKeys(n)
           val(k) == IF Has(n, k) THEN mem[table[n][k]] ELSE Default
           copy(tree) == [i \in DOMAIN insertOrder[n] |->
                            [first |-> insertOrder[n][i].first,
                             second |-> tree[insertOrder[n][i].first]]]
<1>1. PICK tree \in Injection(keys, {a \in Nodes : mem[a] = Free} \cup old) :
        /\ mem' = [a \in Nodes |->
                     IF \E k \in keys : tree[k] = a
                     THEN val(CHOOSE k \in keys : tree[k] = a)
                     ELSE IF a \in old THEN Free ELSE mem[a]]
        /\ insertOrder' = [insertOrder EXCEPT ![m] = copy(tree)]
  BY DEF CopyAssign
<1>2. m # n
  BY DEF CopyAssign
<1>3. keys = DOMAIN table[n]
  BY DEF Inv, Coherent, Agree, ListKeys
<1>4. \A a \in old : a \in Nodes /\ \E k \in Keys : Owns(m, k, a)
  BY TreeType DEF Inv, Owns, Has
<1>5. /\ \A k \in keys : tree[k] \in Nodes /\ (mem[tree[k]] = Free \/ tree[k] \in old)
      /\ \A k, l \in keys : tree[k] = tree[l] => k = l
  BY <1>4 DEF Injection, IsInjective
<1>6. /\ insertOrder'[m] = copy(tree)
      /\ \A o \in Maps \ {m} : insertOrder'[o] = insertOrder[o]
  BY <1>1 DEF Inv, TypeOK
<1> HIDE DEF keys, val, old
<1>7. \A k \in keys : mem'[tree[k]] = val(k)
  <2> TAKE k \in keys
  <2>1. (CHOOSE l \in keys : tree[l] = tree[k]) = k
    BY <1>5
  <2> QED  BY <1>1, <1>5, <2>1
<1>8. \A o \in Maps \ {m} : DictOf(o)' = DictOf(o)
  <2> TAKE o \in Maps \ {m}
  <2>1. ASSUME NEW i \in DOMAIN insertOrder[o]
        PROVE  mem'[insertOrder[o][i].second] = mem[insertOrder[o][i].second]
    <3>1. PICK x, b : x = insertOrder[o][i].first /\ b = insertOrder[o][i].second
      OBVIOUS
    <3>2. b \in Nodes /\ x \in Keys /\ Owns(o, x, b) /\ mem[b] # Free
      BY <3>1, ItemOwned
    <3>3. b \notin old
      BY <1>4, <3>2 DEF Inv, Ownership
    <3>4. \A k \in keys : tree[k] # b
      BY <1>5, <3>2, <3>3
    <3> QED  BY <1>1, <3>1, <3>2, <3>3, <3>4
  <2> QED  BY <1>6, <2>1, SameDict
<1>9. DictOf(m)' = DictOf(n)
  <2>1. ASSUME NEW i \in DOMAIN insertOrder[n],
               NEW x, NEW b, x = insertOrder[n][i].first, b = insertOrder[n][i].second
        PROVE  x \in keys /\ mem'[tree[x]] = mem[b]
    <3>1. Has(n, x) /\ table[n][x] = b
      BY <2>1, ItemOwned
    <3>2. x \in keys /\ val(x) = mem[b]
      BY <1>3, <3>1 DEF Has, val
    <3> QED  BY <1>7, <3>2
  <2>2. /\ DOMAIN copy(tree) = DOMAIN insertOrder[n]
        /\ \A i \in DOMAIN insertOrder[n] :
             /\ copy(tree)[i].first = insertOrder[n][i].first
             /\ copy(tree)[i].second = tree[insertOrder[n][i].first]
    OBVIOUS
  <2> HIDE DEF copy
  <2>3. DictOf(m)' = [i \in DOMAIN copy(tree) |->
                        [key |-> copy(tree)[i].first, val |-> mem'[copy(tree)[i].second]]]
    BY <1>6 DEF DictOf
  <2>4. \A i \in DOMAIN insertOrder[n] :
          /\ copy(tree)[i].first = insertOrder[n][i].first
          /\ mem'[copy(tree)[i].second] = mem[insertOrder[n][i].second]
    BY <2>1, <2>2
  <2> QED  BY <2>2, <2>3, <2>4 DEF DictOf
<1>10. AllDicts' = [AllDicts EXCEPT ![m] = AllDicts[n]]
  BY <1>8, <1>9, OneDict, DictType DEF Inv
<1> QED  BY <1>10 DEF Dict!Copy, AllDicts

\* swap moves no value: each of the two maps gets the other's list.
LEMMA SwapRefines ==
  ASSUME Inv, NEW m \in Maps, NEW n \in Maps, Swap(m, n)
  PROVE  Dict!Exchange(m, n)
<1>1. /\ m # n /\ mem' = mem
      /\ insertOrder' = [insertOrder EXCEPT ![m] = insertOrder[n], ![n] = insertOrder[m]]
  BY DEF Swap
<1>2. AllDicts' = [AllDicts EXCEPT ![m] = AllDicts[n], ![n] = AllDicts[m]]
  <2> DEFINE other(o) == IF o = n THEN m ELSE IF o = m THEN n ELSE o
  <2>1. \A o \in Maps : other(o) \in Maps /\ insertOrder'[o] = insertOrder[other(o)]
    BY <1>1 DEF Inv, TypeOK
  <2>2. \A o \in Maps : DictOf(o)' = DictOf(other(o))
    <3> TAKE o \in Maps
    <3>1. PICK p \in Maps : p = other(o)
      BY <2>1
    <3>2. insertOrder'[o] = insertOrder[p]
      BY <2>1, <3>1
    <3> HIDE DEF other
    <3>3. DictOf(o)' = DictOf(p)
      BY <1>1, <3>2 DEF DictOf
    <3> QED  BY <3>1, <3>3
  <2>3. AllDicts = [o \in Maps |-> DictOf(o)] /\ AllDicts' = [o \in Maps |-> DictOf(o)']
    BY DEF AllDicts, DictOf
  <2> QED  BY <2>2, <2>3
<1> QED  BY <1>2 DEF Dict!Exchange, AllDicts

-----------------------------------------------------------------------------
\* Empty lists are empty dictionaries.
LEMMA DictInit == Init => Dict!Init
BY DEF Init, Dict!Init

\* A step of the list and the tree is a step of the dictionary, or changes none.
LEMMA DictNext ==
  ASSUME IInv, [Next]_vars
  PROVE  Dict!Next \/ UNCHANGED AllDicts
<1>1. Inv /\ AppendProgress
  BY DEF IInv
<1>2. ASSUME NEW m \in Maps, NEW k \in Keys, NEW v \in Vals, Dict!Put(m, k, v)
      PROVE  Dict!Next
  BY <1>2 DEF Dict!Next
<1>3. ASSUME NEW m \in Maps, NEW k \in Keys, Index(m, k)
      PROVE  Dict!Next \/ UNCHANGED AllDicts
  BY <1>1, <1>2, <1>3, IndexRefines, DefaultAssumption
<1>4. ASSUME NEW m \in Maps, NEW k \in Keys, NEW v \in Vals, Emplace(m, k, v)
      PROVE  Dict!Next
  BY <1>1, <1>2, <1>4, NewEntryRefines DEF Emplace
<1>5. ASSUME NEW v \in Vals, Assign(v)
      PROVE  Dict!Next
  BY <1>1, <1>2, <1>5, AssignRefines
<1>6. ASSUME NEW m \in Maps, Erase(m)
      PROVE  Dict!Next
  BY <1>1, <1>6, ErasesRefine DEF Dict!Next, AllDicts
<1>7. ASSUME NEW m \in Maps, NEW n \in Maps, CopyAssign(m, n) \/ Swap(m, n)
      PROVE  Dict!Next
  BY <1>1, <1>7, CopyAssignRefines, SwapRefines DEF Dict!Next
<1>8. CASE AppendItem
  BY <1>1, <1>2, <1>8, AppendItemRefines
<1>9. ASSUME UNCHANGED << mem, insertOrder >>
      PROVE  UNCHANGED AllDicts
  BY <1>9 DEF AllDicts
<1>10. ASSUME NEW m \in Maps, NEW n \in Maps, AppendBegin(m, n)
       PROVE  UNCHANGED AllDicts
  BY <1>9, <1>10 DEF AppendBegin
<1>11. CASE AppendEnd
  BY <1>9, <1>11 DEF AppendEnd
<1>12. CASE UNCHANGED vars
  BY <1>9, <1>12 DEF vars
<1> QED
  BY <1>3, <1>4, <1>5, <1>6, <1>7, <1>8, <1>10, <1>11, <1>12 DEF Next

\* A FIFOMap, with its search tree, its order list and the references between
\* them, implements an ordered dictionary.
THEOREM Refinement == Spec => DictSpec
<1>1. IInv /\ [Next]_vars => [Dict!Next]_AllDicts
  BY DictNext
<1>2. IInv /\ [Next]_vars => [Dict!Next]_([m \in Maps |->
             [i \in DOMAIN insertOrder[m] |->
                [key |-> insertOrder[m][i].first, val |-> mem[insertOrder[m][i].second]]]])
  BY <1>1 DEF AllDicts
<1> QED  BY <1>2, DictInit, Invariance, PTL DEF Spec, DictSpec, Dict!Spec
=============================================================================
