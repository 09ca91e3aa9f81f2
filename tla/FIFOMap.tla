------------------------------ MODULE FIFOMap ------------------------------
(***************************************************************************)
(* The FIFOMap template of FIFOMap.h: a std::map (table) whose nodes hold  *)
(* the values, and a std::list (insertOrder) of FIFOItems, each a copy of  *)
(* a key and a C++ reference (second) to the value in that key's node.     *)
(* The two structures are updated one after the other by every modifier,   *)
(* and nothing but the code of these modifiers keeps them in step.         *)
(*                                                                         *)
(* A node of a std::map stays where it is until its key is erased; mem     *)
(* says which nodes are allocated and what value each holds.  The client   *)
(* may keep one reference to a value (held), as in T &r = m[k].            *)
(***************************************************************************)
EXTENDS Naturals, Sequences, FiniteSets, Functions

CONSTANTS Maps,     \* the FIFOMap objects of a program
          Keys,
          Vals,     \* values of the mapped type T
          Default,  \* T()
          Nodes,    \* addresses of tree nodes
          Free,     \* content of an address that is not allocated
          NoRef,    \* the client keeps no reference
          Idle      \* no append is running

ASSUME DefaultAssumption == Default \in Vals
ASSUME FreeAssumption == Free \notin Vals
ASSUME NoRefAssumption == NoRef \notin [map : Maps, key : Keys, node : Nodes]
ASSUME IdleAssumption == Idle \notin [dst : Maps, src : Maps, pos : Nat]

VARIABLES table,        \* table[m] : the keys of m's tree, each with its node
          mem,          \* mem[a] : the value in node a, or Free
          insertOrder,  \* insertOrder[m] : the list of m's FIFOItems
          held,         \* the client's reference and the entry it was taken of
          loop          \* the running append: target, source, list iterator

vars == << table, mem, insertOrder, held, loop >>

FIFOItem == [first : Keys, second : Nodes]
Trees == UNION {[S -> Nodes] : S \in SUBSET Keys}

\* The variables keep their types; the loop's iterator is never before the first
\* item of its list.
TypeOK ==
  /\ table \in [Maps -> Trees]
  /\ mem \in [Nodes -> Vals \cup {Free}]
  /\ insertOrder \in [Maps -> Seq(FIFOItem)]
  /\ held \in [map : Maps, key : Keys, node : Nodes] \cup {NoRef}
  /\ loop \in [dst : Maps, src : Maps, pos : Nat \ {0}] \cup {Idle}

Has(m, k) == k \in DOMAIN table[m]

ListKeys(m) == {insertOrder[m][i].first : i \in DOMAIN insertOrder[m]}

\* find: the tree decides whether the key is there, std::find walks the list
\* for its item, and the result is the list's end() when either fails.
End(m) == Len(insertOrder[m]) + 1

Find(m, k) ==
  IF Has(m, k) /\ k \in ListKeys(m)
  THEN CHOOSE i \in DOMAIN insertOrder[m] :
         /\ insertOrder[m][i].first = k
         /\ \A j \in 1 .. i - 1 : insertOrder[m][j].first # k
  ELSE End(m)

\* A list without its items at first .. last - 1 (std::list::erase).
Unlink(list, first, last) == SubSeq(list, 1, first - 1) \o SubSeq(list, last, Len(list))

\* References to the values of K's nodes in m end with the nodes.
Invalidate(m, K) ==
  held' = IF held # NoRef /\ held.map = m /\ held.key \in K THEN NoRef ELSE held

\* std::map::erase of the keys K: their nodes are returned to the allocator.
FreeNodes(m, K) ==
  LET gone == {table[m][k] : k \in K \cap DOMAIN table[m]}
  IN  /\ table' = [table EXCEPT ![m] = Restrict(@, DOMAIN @ \ K)]
      /\ mem' = [a \in Nodes |-> IF a \in gone THEN Free ELSE mem[a]]
      /\ Invalidate(m, K)

\* Fault: the list is extended at its front.
NewEntryFirst(m, k, a, v) ==
  /\ mem[a] = Free
  /\ table' = [table EXCEPT ![m] = [x \in DOMAIN @ \cup {k} |-> IF x = k THEN a ELSE @[x]]]
  /\ mem' = [mem EXCEPT ![a] = v]
  /\ insertOrder' = [insertOrder EXCEPT ![m] = << [first |-> k, second |-> a] >> \o @]

\* The key is new: the tree gets a node for it and the list an item at its end
\* that refers to this node.
NewEntry(m, k, a, v) ==
  /\ mem[a] = Free
  /\ table' = [table EXCEPT ![m] = [x \in DOMAIN @ \cup {k} |-> IF x = k THEN a ELSE @[x]]]
  /\ mem' = [mem EXCEPT ![a] = v]
  /\ insertOrder' = [insertOrder EXCEPT ![m] = Append(@, [first |-> k, second |-> a])]

Init ==
  /\ table = [m \in Maps |-> [k \in {} |-> Free]]
  /\ mem = [a \in Nodes |-> Free]
  /\ insertOrder = [m \in Maps |-> << >>]
  /\ held = NoRef
  /\ loop = Idle
-----------------------------------------------------------------------------
\* T &r = m[k]: a missing key is created with T().
Index(m, k) ==
  /\ loop = Idle
  /\ \/ /\ Has(m, k)
        /\ held' = [map |-> m, key |-> k, node |-> table[m][k]]
        /\ UNCHANGED << table, mem, insertOrder >>
     \/ /\ ~Has(m, k)
        /\ \E a \in Nodes :
             /\ NewEntry(m, k, a, Default)
             /\ held' = [map |-> m, key |-> k, node |-> a]
  /\ UNCHANGED loop

\* The client assigns through the reference it keeps: r = v.
Assign(v) ==
  /\ loop = Idle
  /\ held # NoRef
  /\ mem' = [mem EXCEPT ![held.node] = v]
  /\ UNCHANGED << table, insertOrder, held, loop >>

\* Fault: the key is not looked up.
EmplaceAgain(m, k, v) ==
  /\ loop = Idle
  /\ \E a \in Nodes : NewEntry(m, k, a, v)
  /\ UNCHANGED << held, loop >>

\* emplace(k, v) of a key that is not there; for a key that is there the code
\* changes nothing and returns Find(m, k).
Emplace(m, k, v) ==
  /\ loop = Idle
  /\ ~Has(m, k)
  /\ \E a \in Nodes : NewEntry(m, k, a, v)
  /\ UNCHANGED << held, loop >>

\* erase(iterator): the tree by the item's key, the list by the iterator.
EraseAt(m, i) ==
  /\ loop = Idle
  /\ FreeNodes(m, {insertOrder[m][i].first})
  /\ insertOrder' = [insertOrder EXCEPT ![m] = Unlink(@, i, i + 1)]
  /\ UNCHANGED loop

\* Fault: the list keeps the item of the key.
EraseKeyInTree(m, k) ==
  /\ loop = Idle
  /\ Has(m, k)
  /\ FreeNodes(m, {k})
  /\ UNCHANGED << insertOrder, loop >>

\* erase(key): when the tree had the key, the list is searched for its item.
EraseKey(m, k) ==
  /\ loop = Idle
  /\ Has(m, k)
  /\ FreeNodes(m, {k})
  /\ insertOrder' = [insertOrder EXCEPT ![m] = Unlink(@, Find(m, k), Find(m, k) + 1)]
  /\ UNCHANGED loop

\* erase(first, last)
EraseRange(m, first, last) ==
  /\ loop = Idle
  /\ first < last
  /\ FreeNodes(m, {insertOrder[m][i].first : i \in first .. last - 1})
  /\ insertOrder' = [insertOrder EXCEPT ![m] = Unlink(@, first, last)]
  /\ UNCHANGED loop

Clear(m) ==
  /\ loop = Idle
  /\ FreeNodes(m, Keys)
  /\ insertOrder' = [insertOrder EXCEPT ![m] = << >>]
  /\ UNCHANGED loop

\* Fault: the copy takes the nodes of its original.
CopyAssignShared(m, n) ==
  /\ loop = Idle
  /\ m # n
  /\ table' = [table EXCEPT ![m] = table[n]]
  /\ insertOrder' = [insertOrder EXCEPT ![m] = insertOrder[n]]
  /\ mem' = [a \in Nodes |-> IF \E k \in DOMAIN table[m] : table[m][k] = a THEN Free ELSE mem[a]]
  /\ Invalidate(m, Keys)
  /\ UNCHANGED loop

\* m = n: clear(), then a copy of n's tree in new nodes, then an item for every
\* item of n; an item whose key n's tree lacks would make a T() in m's tree.
CopyAssign(m, n) ==
  LET old == {table[m][k] : k \in DOMAIN table[m]}
      keys == DOMAIN table[n] \cup ListKeys(n)
      val(k) == IF Has(n, k) THEN mem[table[n][k]] ELSE Default
  IN  /\ loop = Idle
      /\ m # n
      /\ \E tree \in Injection(keys, {a \in Nodes : mem[a] = Free} \cup old) :
           /\ table' = [table EXCEPT ![m] = tree]
           /\ mem' = [a \in Nodes |->
                        IF \E k \in keys : tree[k] = a
                        THEN val(CHOOSE k \in keys : tree[k] = a)
                        ELSE IF a \in old THEN Free ELSE mem[a]]
           /\ insertOrder' = [insertOrder EXCEPT ![m] =
                [i \in DOMAIN insertOrder[n] |->
                   [first |-> insertOrder[n][i].first,
                    second |-> tree[insertOrder[n][i].first]]]]
      /\ Invalidate(m, Keys)
      /\ UNCHANGED loop

\* m.swap(n): both structures are exchanged, the nodes stay where they are.
Swap(m, n) ==
  /\ loop = Idle
  /\ m # n
  /\ table' = [table EXCEPT ![m] = table[n], ![n] = table[m]]
  /\ insertOrder' = [insertOrder EXCEPT ![m] = insertOrder[n], ![n] = insertOrder[m]]
  /\ held' = IF held = NoRef \/ held.map \notin {m, n} THEN held
             ELSE [held EXCEPT !.map = IF @ = m THEN n ELSE m]
  /\ UNCHANGED << mem, loop >>

\* operator[](k) = v; the fault gives a key that is there T().
PutDefault(m, k, v) ==
  \/ /\ Has(m, k)
     /\ mem' = [mem EXCEPT ![table[m][k]] = Default]
     /\ UNCHANGED << table, insertOrder >>
  \/ /\ ~Has(m, k)
     /\ \E a \in Nodes : NewEntry(m, k, a, v)

Put(m, k, v) ==
  \/ /\ Has(m, k)
     /\ mem' = [mem EXCEPT ![table[m][k]] = v]
     /\ UNCHANGED << table, insertOrder >>
  \/ /\ ~Has(m, k)
     /\ \E a \in Nodes : NewEntry(m, k, a, v)

\* Fault: the loop starts before the first item.
AppendBeginEarly(dst, src) ==
  /\ loop = Idle
  /\ loop' = [dst |-> dst, src |-> src, pos |-> 0]
  /\ UNCHANGED << table, mem, insertOrder, held >>

\* dst.append(src), one action per turn of its loop over src's list: begin(),
\* operator[](it->first) = it->second (Put), and the exit at the current end().  The
\* target may be the source.
AppendBegin(dst, src) ==
  /\ loop = Idle
  /\ loop' = [dst |-> dst, src |-> src, pos |-> 1]
  /\ UNCHANGED << table, mem, insertOrder, held >>

\* Fault: the loop stays at its item.
AppendItemStuck ==
  /\ loop # Idle
  /\ loop.pos # End(loop.src)
  /\ LET it == insertOrder[loop.src][loop.pos]
     IN  Put(loop.dst, it.first, mem[it.second])
  /\ UNCHANGED << held, loop >>

AppendItem ==
  /\ loop # Idle
  /\ loop.pos # End(loop.src)
  /\ LET it == insertOrder[loop.src][loop.pos]
     IN  Put(loop.dst, it.first, mem[it.second])
  /\ loop' = [loop EXCEPT !.pos = @ + 1]
  /\ UNCHANGED held

AppendEnd ==
  /\ loop # Idle
  /\ loop.pos = End(loop.src)
  /\ loop' = Idle
  /\ UNCHANGED << table, mem, insertOrder, held >>

Erase(m) ==
  \/ \E i \in DOMAIN insertOrder[m] : EraseAt(m, i)
  \/ \E k \in Keys : EraseKey(m, k)
  \/ \E first \in DOMAIN insertOrder[m], last \in 1 .. End(m) : EraseRange(m, first, last)
  \/ Clear(m)

Next ==
  \/ \E m \in Maps, k \in Keys : Index(m, k) \/ \E v \in Vals : Emplace(m, k, v)
  \/ \E v \in Vals : Assign(v)
  \/ \E m \in Maps : Erase(m)
  \/ \E m, n \in Maps : CopyAssign(m, n) \/ Swap(m, n) \/ AppendBegin(m, n)
  \/ AppendItem
  \/ AppendEnd

Spec == Init /\ [][Next]_vars

\* A loop of a sequential program that is not at its end takes its next turn.
FairSpec == Spec /\ WF_vars(AppendItem \/ AppendEnd)
-----------------------------------------------------------------------------
\* One item for every key of the tree, each referring to the value of its own key.
Agree(list, tree) ==
  /\ \A k \in DOMAIN tree : \E i \in DOMAIN list : list[i].first = k
  /\ \A i \in DOMAIN list :
       list[i].first \in DOMAIN tree /\ list[i].second = tree[list[i].first]
  /\ \A i, j \in DOMAIN list : list[i].first = list[j].first => i = j

\* The list and the tree of a map agree, though every modifier changes them one
\* after the other; emplace throws "FIFO Map structure corrupted" otherwise.
Coherent == \A m \in Maps : Agree(insertOrder[m], table[m])

Owns(m, k, a) == Has(m, k) /\ table[m][k] = a

\* A node is allocated exactly while one entry of one map owns it: nothing is
\* leaked by erase, clear or an assignment, and a copy shares no value with its
\* original.
Ownership ==
  \A a \in Nodes :
    /\ mem[a] # Free <=> \E m \in Maps, k \in Keys : Owns(m, k, a)
    /\ \A m, n \in Maps, k, l \in Keys :
         Owns(m, k, a) /\ Owns(n, l, a) => m = n /\ k = l

\* A reference that m[k] returned stays a reference to the value of that entry,
\* whatever happens to other entries and other maps, until the entry is erased.
HeldEntry == held # NoRef => Owns(held.map, held.key, held.node)

\* The entries the loop of append has passed are in the target with the value
\* they have in the source; at the end of the loop these are all of them.
AppendProgress ==
  loop # Idle =>
    /\ loop.pos <= End(loop.src)
    /\ \A i \in 1 .. loop.pos - 1 :
         LET it == insertOrder[loop.src][i]
         IN  /\ Has(loop.dst, it.first)
             /\ mem[table[loop.dst][it.first]] = mem[it.second]

\* m.append(m) walks the list it would append to; it changes no entry, if a T may be
\* assigned to itself. A ConfigItem may not: it deletes its body before it copies it
\* (ConfigItem.cpp:93-111), which AssignedFromApart of Bodies.tla is about.
SelfAppendChangesNothing ==
  [][loop # Idle /\ loop.dst = loop.src => UNCHANGED << table, mem, insertOrder >>]_vars

\* The list, with the values its items refer to, as a dictionary.
Dict == INSTANCE OrderedDict WITH
  dict <- [m \in Maps |->
             [i \in DOMAIN insertOrder[m] |->
                [key |-> insertOrder[m][i].first, val |-> mem[insertOrder[m][i].second]]]]

\* Every modifier does to that dictionary, which remembers insertion order, what
\* OrderedDict.tla says of it.
DictSpec == Dict!Spec

\* append ends, the append of a map to itself included: the end() that the loop
\* compares with is that of a list the loop may be extending.
AppendEnds == loop # Idle ~> loop = Idle
=============================================================================
