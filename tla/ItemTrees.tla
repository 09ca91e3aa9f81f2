----------------------------- MODULE ItemTrees -----------------------------
(***************************************************************************)
(* Items as trees: the way down from an item by keys and positions, and the*)
(* accesses that go down by themselves.  What is defined by recursion over *)
(* an item is a function on the items of at most MaxLevels levels.         *)
(***************************************************************************)
EXTENDS ConfigItems

CONSTANTS Keys,      \* the keys of maps
          Atoms,     \* what an atom can be
          MaxLevels  \* bound on the levels of an item

ASSUME MaxLevelsAssumption == MaxLevels \in Nat \ {0}

\* The items of at most n levels.
ItemsOf[n \in 0 .. MaxLevels] ==
  IF n = 0 THEN {}
  ELSE LET parts == ItemsOf[n - 1]
       IN  {None} \cup [kind : {"atom"}, atom : Atoms]
             \cup [kind : {"vector"}, items : Seq(parts)]
             \cup [kind : {"map"}, entries : Seq([key : Keys, val : parts])]

Items == ItemsOf[MaxLevels]
Maps == {x \in Items : IsMap(x)}

\* An item and all that is below it.
PartsOfItem[x \in Items] == {x} \cup UNION {PartsOfItem[y] : y \in Range(Children(x))}
-----------------------------------------------------------------------------
\* One step down, by a key or a position; the item with another one there.
HasChild(x, step) ==
  \/ IsMap(x) /\ HasKey(x.entries, step)
  \/ IsVector(x) /\ step \in DOMAIN x.items

Child(x, step) == IF IsMap(x) THEN At(x.entries, step) ELSE x.items[step]

WithChild(x, step, y) ==
  IF IsMap(x) THEN Map(Store(x.entries, step, y)) ELSE Vector([x.items EXCEPT ![step] = y])

\* The items that a path comes through, from x itself to the item of the path.
Trail(x, path) ==
  LET at[n \in 0 .. Len(path)] == IF n = 0 THEN x ELSE Child(at[n - 1], path[n])
  IN  at

ItemOf(x, path) == Trail(x, path)[Len(path)]

LeadsSomewhere(x, path) ==
  \A n \in 1 .. Len(path) : HasChild(Trail(x, path)[n - 1], path[n])

\* x with y as the item of the path, and what it then comes through.
NewTrail(x, path, y) ==
  LET at[n \in 0 .. Len(path)] ==
        IF n = Len(path) THEN y ELSE WithChild(Trail(x, path)[n], path[n + 1], at[n + 1])
  IN  at

Replace(x, path, y) == NewTrail(x, path, y)[0]
-----------------------------------------------------------------------------
\* A vector stands for its first element, and so on; the path to what x stands for.
FirstPath[x \in Items] ==
  IF IsVector(x) /\ x.items # << >> THEN << 1 >> \o FirstPath[x.items[1]] ELSE << >>

FirstOf(x) == ItemOf(x, FirstPath[x])

\* getOrCreateAtom: an empty item becomes the new atom a.  A map throws; the first
\* element of an empty vector is memory that was never an item.
CanBeAtom(x) == IsNone(FirstOf(x)) \/ IsAtom(FirstOf(x))

AtomOf(x, a) == IF IsNone(FirstOf(x)) THEN a ELSE FirstOf(x).atom

WithAtom(x, b) == Replace(x, FirstPath[x], Atom(b))

\* dumpToYamlEmitter and dumpToJsonValue: an empty item in a map throws; one in a
\* vector is a null pointer that is followed.
CanDump(x) == \A y \in PartsOfItem[x] : ~IsNone(y)
=============================================================================
