-------------------------- MODULE ConfigTreeProofs --------------------------
(***************************************************************************)
(* That accesses lose no value, updateMap merges deeply, only lookups that *)
(* are not followed up spoil a configuration, and YAML and JSON give back  *)
(* what was saved, for items of any shape and any number of levels.        *)
(*                                                                         *)
(* What ConfigTree defines by recursion over items is unfolded one level   *)
(* at a time (ItemInduction, YamlInduction, JsonInduction): the property   *)
(* to be shown is a set, that has an item whenever it has its parts.       *)
(***************************************************************************)
EXTENDS ConfigTree, EntryProofs

\* The items whose parts are some of these.
Over(parts) ==
  {None} \cup [kind : {"atom"}, atom : Atoms] \cup [kind : {"vector"}, items : Seq(parts)]
    \cup [kind : {"map"}, entries : Seq([key : Keys, val : parts])]

\* ItemsOf is defined by recursion over the number of levels: as there is such a function up
\* to each number, there is the one that the definition chooses.
LEMMA ItemsOfIs ==
  /\ ItemsOf[0] = {}
  /\ \A n \in 1 .. MaxLevels : ItemsOf[n] = Over(ItemsOf[n - 1])
<1> DEFINE next(f, n) == IF n = 0 THEN {} ELSE Over(f[n - 1])
<1>1. ItemsOf = CHOOSE f : f = [n \in 0 .. MaxLevels |-> next(f, n)]
  BY Zenon DEF ItemsOf, Over
<1> DEFINE T == {k \in Nat : \E f : f = [n \in 0 .. k |-> next(f, n)]}
<1>2. 0 \in T
  <2> DEFINE f == [n \in 0 .. 0 |-> {}]
  <2>1. f = [n \in 0 .. 0 |-> next(f, n)]
    OBVIOUS
  <2> HIDE DEF f
  <2> QED  BY <2>1
<1>3. ASSUME NEW k \in Nat, k \in T  PROVE k + 1 \in T
  <2>1. PICK f : f = [n \in 0 .. k |-> next(f, n)]
    BY <1>3
  <2> DEFINE g == [n \in 0 .. k + 1 |-> next(f, n)]
  <2> HIDE DEF next
  <2>2. \A n \in 0 .. k : g[n] = f[n]
    BY <2>1
  <2> HIDE DEF g
  <2>3. \A n \in 0 .. k + 1 : next(f, n) = next(g, n)
    <3>1. ASSUME NEW n \in 0 .. k + 1, n # 0  PROVE f[n - 1] = g[n - 1]
      <4>1. n - 1 \in 0 .. k
        BY <3>1
      <4> QED  BY <2>2, <4>1
    <3> QED  BY <3>1 DEF next
  <2>4. g = [n \in 0 .. k + 1 |-> next(g, n)]
    BY <2>3 DEF g
  <2> QED  BY <2>4
<1> HIDE DEF T
<1>4. MaxLevels \in T
  BY <1>2, <1>3, Induction, MaxLevelsAssumption
<1>5. ItemsOf = [n \in 0 .. MaxLevels |-> next(ItemsOf, n)]
  BY <1>1, <1>4, Zenon DEF T
<1>6. ASSUME NEW n \in 0 .. MaxLevels  PROVE ItemsOf[n] = next(ItemsOf, n)
  <2> HIDE DEF next
  <2> QED  BY <1>5
<1>7. ASSUME NEW n \in 1 .. MaxLevels  PROVE ItemsOf[n] = Over(ItemsOf[n - 1])
  BY <1>6
<1> QED  BY <1>6, <1>7, MaxLevelsAssumption

\* What an item is, and that these are all.
IsOver(x, parts) ==
  \/ x = None
  \/ x = Atom(x.atom) /\ x.atom \in Atoms
  \/ x = Vector(x.items) /\ x.items \in Seq(parts)
  \/ x = Map(x.entries) /\ x.entries \in Seq([key : Keys, val : parts])

\* Over is these four kinds, and has all of each.
LEMMA OverIs ==
  ASSUME NEW parts
  PROVE  /\ \A x \in Over(parts) : IsOver(x, parts)
         /\ None \in Over(parts)
         /\ \A a \in Atoms : Atom(a) \in Over(parts)
         /\ \A s \in Seq(parts) : Vector(s) \in Over(parts)
         /\ \A s \in Seq([key : Keys, val : parts]) : Map(s) \in Over(parts)
<1>1. ASSUME NEW x \in Over(parts)  PROVE IsOver(x, parts)
  <2>1. CASE x = None
    BY <2>1 DEF IsOver
  <2>2. CASE x \in [kind : {"atom"}, atom : Atoms]
    BY <2>2 DEF IsOver, Atom
  <2>3. CASE x \in [kind : {"vector"}, items : Seq(parts)]
    BY <2>3 DEF IsOver, Vector
  <2>4. CASE x \in [kind : {"map"}, entries : Seq([key : Keys, val : parts])]
    BY <2>4 DEF IsOver, Map
  <2> QED  BY <2>1, <2>2, <2>3, <2>4 DEF Over
<1>2. ASSUME NEW s \in Seq([key : Keys, val : parts])
      PROVE  Map(s) \in [kind : {"map"}, entries : Seq([key : Keys, val : parts])]
  BY DEF Map
<1>3. ASSUME NEW s \in Seq(parts)
      PROVE  Vector(s) \in [kind : {"vector"}, items : Seq(parts)]
  BY DEF Vector
<1>4. ASSUME NEW a \in Atoms  PROVE Atom(a) \in [kind : {"atom"}, atom : Atoms]
  BY DEF Atom
<1> QED  BY <1>1, <1>2, <1>3, <1>4 DEF Over

\* One kind excludes the others.
LEMMA KindsAre ==
  ASSUME NEW P, NEW x, IsOver(x, P)
  PROVE  /\ \/ IsNone(x) /\ ~IsAtom(x) /\ ~IsVector(x) /\ ~IsMap(x)
            \/ ~IsNone(x) /\ IsAtom(x) /\ ~IsVector(x) /\ ~IsMap(x)
            \/ ~IsNone(x) /\ ~IsAtom(x) /\ IsVector(x) /\ ~IsMap(x)
            \/ ~IsNone(x) /\ ~IsAtom(x) /\ ~IsVector(x) /\ IsMap(x)
         /\ IsNone(x) => x = None
         /\ IsAtom(x) => x = Atom(x.atom) /\ x.atom \in Atoms
         /\ IsVector(x) => x = Vector(x.items) /\ x.items \in Seq(P)
         /\ IsMap(x) => x = Map(x.entries) /\ x.entries \in Seq([key : Keys, val : P])
<1>1. CASE x = None
  BY <1>1 DEF None, IsNone, IsAtom, IsVector, IsMap
<1>2. CASE x = Atom(x.atom) /\ x.atom \in Atoms
  <2>1. x.kind = "atom"
    BY <1>2 DEF Atom
  <2> QED  BY <1>2, <2>1 DEF IsNone, IsAtom, IsVector, IsMap
<1>3. CASE x = Vector(x.items) /\ x.items \in Seq(P)
  <2>1. x.kind = "vector"
    BY <1>3 DEF Vector
  <2> QED  BY <1>3, <2>1 DEF IsNone, IsAtom, IsVector, IsMap
<1>4. CASE x = Map(x.entries) /\ x.entries \in Seq([key : Keys, val : P])
  <2>1. x.kind = "map"
    BY <1>4 DEF Map
  <2> QED  BY <1>4, <2>1 DEF IsNone, IsAtom, IsVector, IsMap
<1> QED  BY <1>1, <1>2, <1>3, <1>4 DEF IsOver

\* None, Atom, Vector and Map are of their kinds, and have what was put in.
LEMMA ConstructorsAre ==
  /\ IsNone(None)
  /\ \A a : IsAtom(Atom(a)) /\ Atom(a).atom = a
  /\ \A s : IsVector(Vector(s)) /\ Vector(s).items = s
  /\ \A s : IsMap(Map(s)) /\ Map(s).entries = s
BY DEF None, Atom, Vector, Map, IsNone, IsAtom, IsVector, IsMap

\* What is directly below an item of each kind.
LEMMA ChildrenAre ==
  ASSUME NEW P, NEW x, IsOver(x, P)
  PROVE  /\ Children(x) \in Seq(P)
         /\ Range(Children(x)) \subseteq P
         /\ IsNone(x) \/ IsAtom(x) => Children(x) = << >>
         /\ IsVector(x) => Children(x) = x.items
         /\ IsMap(x) =>
              /\ Len(Children(x)) = Len(x.entries) /\ DOMAIN Children(x) = DOMAIN x.entries
              /\ \A i \in DOMAIN x.entries : Children(x)[i] = x.entries[i].val
<1>1. Children(x) \in Seq(P)
      /\ (IsNone(x) \/ IsAtom(x) => Children(x) = << >>)
      /\ (IsVector(x) => Children(x) = x.items)
      /\ (IsMap(x) =>
            /\ Len(Children(x)) = Len(x.entries) /\ DOMAIN Children(x) = DOMAIN x.entries
            /\ \A i \in DOMAIN x.entries : Children(x)[i] = x.entries[i].val)
  <2>1. CASE IsMap(x)
    <3> DEFINE s == x.entries
    <3>1. s \in Seq([key : Keys, val : P])
      BY <2>1, KindsAre
    <3>2. ~IsNone(x) /\ ~IsAtom(x) /\ ~IsVector(x)
      BY <2>1, KindsAre
    <3> DEFINE v == [i \in DOMAIN s |-> s[i].val]
    <3>3. Children(x) = v
      <4>1. Children(x) = CASE IsMap(x) -> v [] IsVector(x) -> x.items [] OTHER -> << >>
        BY Zenon DEF Children
      <4> HIDE DEF v
      <4> QED  BY <2>1, <3>2, <4>1
    <3> HIDE DEF s
    <3>4. ASSUME NEW i \in DOMAIN s  PROVE s[i].val \in P
      <4>1. s[i] \in [key : Keys, val : P]
        BY <3>1, Zenon, ElementOfSeq, LenProperties
      <4> QED  BY <4>1
    <3>5. DOMAIN s = 1 .. Len(s) /\ Len(s) \in Nat
      BY <3>1, LenProperties
    <3>6. Children(x) \in Seq(P) /\ Len(Children(x)) = Len(s)
      BY <3>3, <3>4, <3>5
    <3> QED  BY <2>1, <3>3, <3>6, <3>2 DEF s
  <2>2. CASE IsVector(x)
    <3>1. x.items \in Seq(P) /\ ~IsMap(x) /\ ~IsNone(x) /\ ~IsAtom(x)
      BY <2>2, KindsAre
    <3> QED  BY <2>2, <3>1 DEF Children
  <2>3. CASE ~IsMap(x) /\ ~IsVector(x)
    BY <2>3 DEF Children
  <2> QED  BY <2>1, <2>2, <2>3
<1>2. Range(Children(x)) \subseteq P
  BY <1>1, IsSeqOfRange
<1> QED  BY <1>1, <1>2

\* More parts make more items.
LEMMA OverGrows ==
  ASSUME NEW P, NEW Q, P \subseteq Q, NEW x, IsOver(x, P)
  PROVE  IsOver(x, Q)
<1>1. \A s \in Seq(P) : s \in Seq(Q)
  OBVIOUS
<1>2. \A s \in Seq([key : Keys, val : P]) : s \in Seq([key : Keys, val : Q])
  <2> DEFINE E == [key : Keys, val : P]
  <2> DEFINE F == [key : Keys, val : Q]
  <2>1. E \subseteq F
    OBVIOUS
  <2> HIDE DEF E, F
  <2>2. \A s \in Seq(E) : s \in Seq(F)
    BY <2>1
  <2> QED  BY <2>2 DEF E, F
<1> QED  BY <1>1, <1>2 DEF IsOver

\* What looks like an item with such parts is in the set of them.
LEMMA IsOverIsIn ==
  ASSUME NEW P, NEW x, IsOver(x, P)
  PROVE  x \in Over(P)
BY OverIs, Zenon DEF IsOver

\* Levels that start with nothing and grow with those below them.
LEMMA Levels ==
  ASSUME NEW L, L[0] = {},
         \A n \in Nat : (n + 1) + 1 <= MaxLevels /\ L[n] \subseteq L[n + 1]
                          => L[n + 1] \subseteq L[(n + 1) + 1]
  PROVE  /\ \A n \in 1 .. MaxLevels : L[n - 1] \subseteq L[n]
         /\ \A n \in 0 .. MaxLevels : L[n] \subseteq L[MaxLevels]
<1> DEFINE T == {n \in Nat : n + 1 <= MaxLevels => L[n] \subseteq L[n + 1]}
<1>1. 0 \in T
  OBVIOUS
<1>2. ASSUME NEW n \in Nat, n \in T  PROVE n + 1 \in T
  <2> SUFFICES ASSUME (n + 1) + 1 <= MaxLevels  PROVE L[n + 1] \subseteq L[(n + 1) + 1]
    OBVIOUS
  <2>1. L[n] \subseteq L[n + 1]
    BY <1>2, MaxLevelsAssumption
  <2> QED  BY <2>1
<1> HIDE DEF T
<1>3. Nat \subseteq T
  BY <1>1, <1>2, Induction
<1>4. ASSUME NEW n \in 1 .. MaxLevels  PROVE L[n - 1] \subseteq L[n]
  <2>1. n - 1 \in Nat /\ (n - 1) + 1 = n
    BY MaxLevelsAssumption
  <2> QED  BY <1>3, <2>1, MaxLevelsAssumption DEF T
<1> DEFINE U == {k \in Nat : k <= MaxLevels => L[MaxLevels - k] \subseteq L[MaxLevels]}
<1>5. 0 \in U
  BY MaxLevelsAssumption
<1>6. ASSUME NEW k \in Nat, k \in U  PROVE k + 1 \in U
  <2> SUFFICES ASSUME k + 1 <= MaxLevels
               PROVE  L[MaxLevels - (k + 1)] \subseteq L[MaxLevels]
    OBVIOUS
  <2>1. MaxLevels - k \in 1 .. MaxLevels /\ (MaxLevels - k) - 1 = MaxLevels - (k + 1)
    BY MaxLevelsAssumption
  <2>2. L[MaxLevels - k] \subseteq L[MaxLevels]
    BY <1>6, MaxLevelsAssumption
  <2> QED  BY <1>4, <2>1, <2>2
<1> HIDE DEF U
<1>7. Nat \subseteq U
  BY <1>5, <1>6, Induction
<1>8. ASSUME NEW n \in 0 .. MaxLevels  PROVE L[n] \subseteq L[MaxLevels]
  <2>1. MaxLevels - n \in Nat /\ MaxLevels - (MaxLevels - n) = n /\ MaxLevels - n <= MaxLevels
    BY MaxLevelsAssumption
  <2> QED  BY <1>7, <2>1 DEF U
<1> QED  BY <1>4, <1>8

\* An item of few levels is an item of more levels.
LEMMA LevelsGrow ==
  /\ \A n \in 1 .. MaxLevels : ItemsOf[n - 1] \subseteq ItemsOf[n]
  /\ \A n \in 0 .. MaxLevels : ItemsOf[n] \subseteq Items
<1>1. ASSUME NEW n \in Nat, (n + 1) + 1 <= MaxLevels, ItemsOf[n] \subseteq ItemsOf[n + 1]
      PROVE  ItemsOf[n + 1] \subseteq ItemsOf[(n + 1) + 1]
  <2>1. /\ n + 1 \in 1 .. MaxLevels /\ (n + 1) - 1 = n
        /\ (n + 1) + 1 \in 1 .. MaxLevels /\ ((n + 1) + 1) - 1 = n + 1
    BY <1>1, MaxLevelsAssumption
  <2>2. ItemsOf[n + 1] = Over(ItemsOf[n]) /\ ItemsOf[(n + 1) + 1] = Over(ItemsOf[n + 1])
    BY <2>1, ItemsOfIs
  <2>3. ASSUME NEW x \in Over(ItemsOf[n])  PROVE x \in Over(ItemsOf[n + 1])
    BY <1>1, OverIs, OverGrows, IsOverIsIn
  <2> QED  BY <2>2, <2>3
<1> QED  BY <1>1, ItemsOfIs, Levels DEF Items

\* What an item of one level more adds.
LEMMA NextLevel ==
  ASSUME NEW n \in Nat, n + 1 <= MaxLevels
  PROVE  /\ n <= MaxLevels
         /\ ItemsOf[n] \subseteq ItemsOf[n + 1] /\ ItemsOf[n + 1] \subseteq Items
         /\ \A x \in ItemsOf[n + 1] :
              IsOver(x, ItemsOf[n]) /\ Range(Children(x)) \subseteq ItemsOf[n]
<1>1. n + 1 \in 1 .. MaxLevels /\ (n + 1) - 1 = n /\ n + 1 \in 0 .. MaxLevels /\ n <= MaxLevels
  BY MaxLevelsAssumption
<1>2. ItemsOf[n + 1] = Over(ItemsOf[n])
  BY <1>1, ItemsOfIs
<1>3. ASSUME NEW x \in ItemsOf[n + 1]
      PROVE  IsOver(x, ItemsOf[n]) /\ Range(Children(x)) \subseteq ItemsOf[n]
  <2>1. IsOver(x, ItemsOf[n])
    BY <1>2, OverIs, Zenon
  <2> QED  BY <2>1, ChildrenAre, Zenon
<1> QED  BY <1>1, <1>3, LevelsGrow

\* The parts of an item are items.
LEMMA ItemIs ==
  ASSUME NEW x \in Items
  PROVE  IsOver(x, Items)
<1>1. MaxLevels \in 1 .. MaxLevels /\ MaxLevels - 1 \in 0 .. MaxLevels
  BY MaxLevelsAssumption
<1>2. x \in Over(ItemsOf[MaxLevels - 1])
  BY <1>1, ItemsOfIs DEF Items
<1>3. IsOver(x, ItemsOf[MaxLevels - 1])
  BY <1>2, OverIs
<1> QED  BY <1>1, <1>3, LevelsGrow, OverGrows

\* What holds of an item whenever it holds of its parts, holds of every item: induction
\* over items, with the property as a set.
LEMMA ItemInduction ==
  ASSUME NEW S, \A x \in Items : Range(Children(x)) \subseteq S => x \in S
  PROVE  Items \subseteq S
<1> DEFINE T == {n \in Nat : n <= MaxLevels => ItemsOf[n] \subseteq S}
<1>1. 0 \in T
  BY ItemsOfIs
<1>2. ASSUME NEW n \in Nat, n \in T  PROVE n + 1 \in T
  <2> SUFFICES ASSUME n + 1 <= MaxLevels, NEW x \in ItemsOf[n + 1]  PROVE x \in S
    OBVIOUS
  <2>1. n + 1 \in 1 .. MaxLevels /\ (n + 1) - 1 = n /\ n + 1 \in 0 .. MaxLevels /\ n <= MaxLevels
    BY MaxLevelsAssumption
  <2>2. x \in Over(ItemsOf[n]) /\ x \in Items
    BY <2>1, ItemsOfIs, LevelsGrow
  <2>3. Range(Children(x)) \subseteq ItemsOf[n]
    BY <2>2, OverIs, ChildrenAre
  <2>4. ItemsOf[n] \subseteq S
    BY <1>2, <2>1
  <2> QED  BY <2>2, <2>3, <2>4
<1> HIDE DEF T
<1>3. MaxLevels \in T
  BY <1>1, <1>2, Induction, MaxLevelsAssumption
<1> QED  BY <1>3, MaxLevelsAssumption DEF T, Items
-----------------------------------------------------------------------------
\* What the functions on items are.  Each is defined as a choice among the functions
\* that satisfy its definition; that there is one is shown level by level.
LEMMA PartsAre ==
  \A x \in Items : PartsOfItem[x] = {x} \cup UNION {PartsOfItem[y] : y \in Range(Children(x))}
<1> DEFINE of(f, x) == {x} \cup UNION {f[y] : y \in Range(Children(x))}
<1>1. PartsOfItem = CHOOSE f : f = [x \in Items |-> of(f, x)]
  BY Zenon DEF PartsOfItem
<1>2. ASSUME NEW f, NEW g, NEW x, \A y \in Range(Children(x)) : f[y] = g[y]
      PROVE  of(f, x) = of(g, x)
  BY <1>2
<1> HIDE DEF of
<1> DEFINE T == {n \in Nat : n <= MaxLevels => \E f : f = [x \in ItemsOf[n] |-> of(f, x)]}
<1>3. 0 \in T
  <2> DEFINE f == [x \in {} |-> {}]
  <2>1. f = [x \in ItemsOf[0] |-> of(f, x)]
    BY ItemsOfIs
  <2> HIDE DEF f
  <2> QED  BY <2>1
<1>4. ASSUME NEW n \in Nat, n \in T  PROVE n + 1 \in T
  <2> SUFFICES ASSUME n + 1 <= MaxLevels
               PROVE  \E f : f = [x \in ItemsOf[n + 1] |-> of(f, x)]
    OBVIOUS
  <2>1. n <= MaxLevels
    BY NextLevel
  <2>2. PICK f : f = [x \in ItemsOf[n] |-> of(f, x)]
    BY <1>4, <2>1
  <2> DEFINE g == [x \in ItemsOf[n + 1] |-> of(f, x)]
  <2>3. \A x \in ItemsOf[n + 1] : \A y \in Range(Children(x)) : y \in ItemsOf[n] /\ y \in ItemsOf[n + 1]
    BY NextLevel
  <2>4. \A y \in ItemsOf[n] : f[y] = of(f, y)
    BY <2>2
  <2>5. \A y \in ItemsOf[n + 1] : g[y] = of(f, y)
    OBVIOUS
  <2> HIDE DEF g
  <2>6. ASSUME NEW x \in ItemsOf[n + 1]  PROVE of(f, x) = of(g, x)
    <3>1. \A y \in Range(Children(x)) : f[y] = g[y]
      BY <2>3, <2>4, <2>5
    <3> QED  BY <1>2, <3>1
  <2>7. g = [x \in ItemsOf[n + 1] |-> of(g, x)]
    BY <2>6 DEF g
  <2> QED  BY <2>7
<1> HIDE DEF T
<1>5. MaxLevels \in T
  BY <1>3, <1>4, Induction, MaxLevelsAssumption
<1>6. \E f : f = [x \in Items |-> of(f, x)]
  BY <1>5 DEF T, Items
<1>7. PartsOfItem = [x \in Items |-> of(PartsOfItem, x)]
  BY <1>1, <1>6, Zenon
<1>8. ASSUME NEW x \in Items  PROVE PartsOfItem[x] = of(PartsOfItem, x)
  BY <1>7
<1> QED  BY <1>8 DEF of

\* Contents is what its recursive definition says, by existence level by level.
LEMMA ContentsAre ==
  \A x \in Items : Contents[x] = 
    IF IsAtom(x) /\ x.atom # Empty THEN << x.atom >>
    ELSE FlattenSeq([i \in DOMAIN Children(x) |-> Contents[Children(x)[i]]])
<1> DEFINE of(f, x) == 
    IF IsAtom(x) /\ x.atom # Empty THEN << x.atom >>
    ELSE FlattenSeq([i \in DOMAIN Children(x) |-> f[Children(x)[i]]])
<1>1. Contents = CHOOSE f : f = [x \in Items |-> of(f, x)]
  BY Zenon DEF Contents
<1>2. ASSUME NEW f, NEW g, NEW x \in Items, \A y \in Range(Children(x)) : f[y] = g[y]
      PROVE  of(f, x) = of(g, x)
  <2>1. \A i \in DOMAIN Children(x) : f[Children(x)[i]] = g[Children(x)[i]]
    BY <1>2 DEF Range
  <2>2. [i \in DOMAIN Children(x) |-> f[Children(x)[i]]] = [i \in DOMAIN Children(x) |-> g[Children(x)[i]]]
    BY <2>1
  <2> QED  BY <2>2
<1> HIDE DEF of
<1> DEFINE T == {n \in Nat : n <= MaxLevels => \E f : f = [x \in ItemsOf[n] |-> of(f, x)]}
<1>3. 0 \in T
  <2> DEFINE f == [x \in {} |-> {}]
  <2>1. f = [x \in ItemsOf[0] |-> of(f, x)]
    BY ItemsOfIs
  <2> HIDE DEF f
  <2> QED  BY <2>1
<1>4. ASSUME NEW n \in Nat, n \in T  PROVE n + 1 \in T
  <2> SUFFICES ASSUME n + 1 <= MaxLevels
               PROVE  \E f : f = [x \in ItemsOf[n + 1] |-> of(f, x)]
    OBVIOUS
  <2>1. n <= MaxLevels
    BY NextLevel
  <2>2. PICK f : f = [x \in ItemsOf[n] |-> of(f, x)]
    BY <1>4, <2>1
  <2> DEFINE g == [x \in ItemsOf[n + 1] |-> of(f, x)]
  <2>3. \A x \in ItemsOf[n + 1] :
          x \in Items /\ \A y \in Range(Children(x)) : y \in ItemsOf[n] /\ y \in ItemsOf[n + 1]
    BY NextLevel
  <2>4. \A y \in ItemsOf[n] : f[y] = of(f, y)
    BY <2>2
  <2>5. \A y \in ItemsOf[n + 1] : g[y] = of(f, y)
    OBVIOUS
  <2> HIDE DEF g
  <2>6. ASSUME NEW x \in ItemsOf[n + 1]  PROVE of(f, x) = of(g, x)
    <3>1. \A y \in Range(Children(x)) : f[y] = g[y]
      BY <2>3, <2>4, <2>5
    <3> QED  BY <1>2, <2>3, <3>1
  <2>7. g = [x \in ItemsOf[n + 1] |-> of(g, x)]
    BY <2>6 DEF g
  <2> QED  BY <2>7
<1> HIDE DEF T
<1>5. MaxLevels \in T
  BY <1>3, <1>4, Induction, MaxLevelsAssumption
<1>6. \E f : f = [x \in Items |-> of(f, x)]
  BY <1>5 DEF T, Items
<1>7. Contents = [x \in Items |-> of(Contents, x)]
  BY <1>1, <1>6, Zenon
<1>8. ASSUME NEW x \in Items  PROVE Contents[x] = of(Contents, x)
  BY <1>7
<1> QED  BY <1>8 DEF of

\* FirstPath is what its recursive definition says, by existence level by level.
LEMMA FirstPathIs ==
  \A x \in Items : FirstPath[x] = 
    IF IsVector(x) /\ x.items # << >> THEN << 1 >> \o FirstPath[x.items[1]] ELSE << >>
<1> DEFINE of(f, x) == 
    IF IsVector(x) /\ x.items # << >> THEN << 1 >> \o f[x.items[1]] ELSE << >>
<1>1. FirstPath = CHOOSE f : f = [x \in Items |-> of(f, x)]
  BY Zenon DEF FirstPath
<1>2. ASSUME NEW f, NEW g, NEW x \in Items, \A y \in Range(Children(x)) : f[y] = g[y]
      PROVE  of(f, x) = of(g, x)
  <2>1. CASE IsVector(x) /\ x.items # << >>
    <3>1. IsOver(x, Items)
      BY ItemIs
    <3>2. x.items \in Seq(Items) /\ Children(x) = x.items
      BY <2>1, <3>1, KindsAre, ChildrenAre
    <3>3. x.items[1] \in Range(Children(x))
      BY <2>1, <3>2 DEF Range
    <3> QED  BY <1>2, <3>3
  <2>2. CASE ~(IsVector(x) /\ x.items # << >>)
    BY <2>2
  <2> QED  BY <2>1, <2>2
<1> HIDE DEF of
<1> DEFINE T == {n \in Nat : n <= MaxLevels => \E f : f = [x \in ItemsOf[n] |-> of(f, x)]}
<1>3. 0 \in T
  <2> DEFINE f == [x \in {} |-> {}]
  <2>1. f = [x \in ItemsOf[0] |-> of(f, x)]
    BY ItemsOfIs
  <2> HIDE DEF f
  <2> QED  BY <2>1
<1>4. ASSUME NEW n \in Nat, n \in T  PROVE n + 1 \in T
  <2> SUFFICES ASSUME n + 1 <= MaxLevels
               PROVE  \E f : f = [x \in ItemsOf[n + 1] |-> of(f, x)]
    OBVIOUS
  <2>1. n <= MaxLevels
    BY NextLevel
  <2>2. PICK f : f = [x \in ItemsOf[n] |-> of(f, x)]
    BY <1>4, <2>1
  <2> DEFINE g == [x \in ItemsOf[n + 1] |-> of(f, x)]
  <2>3. \A x \in ItemsOf[n + 1] :
          x \in Items /\ \A y \in Range(Children(x)) : y \in ItemsOf[n] /\ y \in ItemsOf[n + 1]
    BY NextLevel
  <2>4. \A y \in ItemsOf[n] : f[y] = of(f, y)
    BY <2>2
  <2>5. \A y \in ItemsOf[n + 1] : g[y] = of(f, y)
    OBVIOUS
  <2> HIDE DEF g
  <2>6. ASSUME NEW x \in ItemsOf[n + 1]  PROVE of(f, x) = of(g, x)
    <3>1. \A y \in Range(Children(x)) : f[y] = g[y]
      BY <2>3, <2>4, <2>5
    <3> QED  BY <1>2, <2>3, <3>1
  <2>7. g = [x \in ItemsOf[n + 1] |-> of(g, x)]
    BY <2>6 DEF g
  <2> QED  BY <2>7
<1> HIDE DEF T
<1>5. MaxLevels \in T
  BY <1>3, <1>4, Induction, MaxLevelsAssumption
<1>6. \E f : f = [x \in Items |-> of(f, x)]
  BY <1>5 DEF T, Items
<1>7. FirstPath = [x \in Items |-> of(FirstPath, x)]
  BY <1>1, <1>6, Zenon
<1>8. ASSUME NEW x \in Items  PROVE FirstPath[x] = of(FirstPath, x)
  BY <1>7
<1> QED  BY <1>8 DEF of

-----------------------------------------------------------------------------
\* The way down a path, from the front, and the items it comes through when another is
\* put at its end, from there.
LEMMA TrailIs ==
  ASSUME NEW x, NEW path, Len(path) \in Nat
  PROVE  /\ Trail(x, path)[0] = x
         /\ \A n \in 1 .. Len(path) : Trail(x, path)[n] = Child(Trail(x, path)[n - 1], path[n])
<1> DEFINE next(f, n) == IF n = 0 THEN x ELSE Child(f[n - 1], path[n])
<1>1. Trail(x, path) = CHOOSE f : f = [n \in 0 .. Len(path) |-> next(f, n)]
  BY Zenon DEF Trail
<1> DEFINE L == Len(path)
<1> DEFINE T == {k \in Nat : \E f : f = [n \in 0 .. k |-> next(f, n)]}
<1>2. 0 \in T
  <2> DEFINE f == [n \in 0 .. 0 |-> x]
  <2>1. f = [n \in 0 .. 0 |-> next(f, n)]
    OBVIOUS
  <2> HIDE DEF f
  <2> QED  BY <2>1
<1>3. ASSUME NEW k \in Nat, k \in T  PROVE k + 1 \in T
  <2>1. PICK f : f = [n \in 0 .. k |-> next(f, n)]
    BY <1>3
  <2> DEFINE g == [n \in 0 .. k + 1 |-> next(f, n)]
  <2> HIDE DEF next
  <2>2. \A n \in 0 .. k : g[n] = f[n]
    BY <2>1
  <2> HIDE DEF g
  <2>3. \A n \in 0 .. k + 1 : next(f, n) = next(g, n)
    <3>1. ASSUME NEW n \in 0 .. k + 1, n # 0  PROVE f[n - 1] = g[n - 1]
      <4>1. n - 1 \in 0 .. k
        BY <3>1
      <4> QED  BY <2>2, <4>1
    <3> QED  BY <3>1 DEF next
  <2>4. g = [n \in 0 .. k + 1 |-> next(g, n)]
    BY <2>3 DEF g
  <2> QED  BY <2>4
<1> HIDE DEF T
<1>4. L \in T
  BY <1>2, <1>3, Induction
<1> DEFINE t == Trail(x, path)
<1>5. t = [n \in 0 .. L |-> next(t, n)]
  BY <1>1, <1>4, Zenon DEF T
<1> HIDE DEF L, t
<1>6. ASSUME NEW n \in 0 .. L  PROVE t[n] = next(t, n)
  <2> HIDE DEF next
  <2> QED  BY <1>5
<1>7. ASSUME NEW n \in 1 .. L  PROVE t[n] = Child(t[n - 1], path[n])
  <2>1. n \in 0 .. L /\ n # 0
    BY DEF L
  <2> QED  BY <1>6, <2>1
<1>8. t[0] = x
  BY <1>6 DEF L
<1> QED  BY <1>7, <1>8 DEF t, L

\* NewTrail goes up the path: at its end the new item, above it what the step below left.
LEMMA NewTrailIs ==
  ASSUME NEW x, NEW path, Len(path) \in Nat, NEW y
  PROVE  /\ NewTrail(x, path, y)[Len(path)] = y
         /\ \A n \in 0 .. Len(path) - 1 :
              NewTrail(x, path, y)[n]
                = WithChild(Trail(x, path)[n], path[n + 1], NewTrail(x, path, y)[n + 1])
<1> DEFINE L == Len(path)
<1> DEFINE next(f, n) == IF n = L THEN y ELSE WithChild(Trail(x, path)[n], path[n + 1], f[n + 1])
<1>1. NewTrail(x, path, y) = CHOOSE f : f = [n \in 0 .. L |-> next(f, n)]
  BY Zenon DEF NewTrail
<1> HIDE DEF L
<1>2. L \in Nat
  BY DEF L
<1> DEFINE T == {k \in Nat : k <= L => \E f : f = [n \in L - k .. L |-> next(f, n)]}
<1>3. 0 \in T
  <2> DEFINE f == [n \in L .. L |-> y]
  <2>1. f = [n \in L .. L |-> next(f, n)]
    BY <1>2
  <2> HIDE DEF f
  <2>2. L - 0 = L
    BY <1>2
  <2> QED  BY <2>1, <2>2
<1>4. ASSUME NEW k \in Nat, k \in T  PROVE k + 1 \in T
  <2> SUFFICES ASSUME k + 1 <= L  PROVE \E f : f = [n \in L - (k + 1) .. L |-> next(f, n)]
    OBVIOUS
  <2>1. PICK f : f = [n \in L - k .. L |-> next(f, n)]
    BY <1>2, <1>4
  <2> DEFINE g == [n \in L - (k + 1) .. L |-> next(f, n)]
  <2> HIDE DEF next
  <2>2. \A n \in L - k .. L : g[n] = f[n]
    <3>1. \A n \in L - k .. L : n \in L - (k + 1) .. L
      BY <1>2
    <3>2. \A n \in L - k .. L : f[n] = next(f, n)
      BY <2>1
    <3> QED  BY <3>1, <3>2
  <2> HIDE DEF g
  <2>3. \A n \in L - (k + 1) .. L : next(f, n) = next(g, n)
    <3>1. ASSUME NEW n \in L - (k + 1) .. L, n # L  PROVE f[n + 1] = g[n + 1]
      <4>1. n + 1 \in L - k .. L
        BY <1>2, <3>1
      <4> QED  BY <2>2, <4>1
    <3> QED  BY <3>1 DEF next
  <2>4. g = [n \in L - (k + 1) .. L |-> next(g, n)]
    BY <2>3 DEF g
  <2> QED  BY <2>4
<1> HIDE DEF T
<1>5. L \in T
  BY <1>2, <1>3, <1>4, Induction
<1>6. L - L = 0 /\ L <= L
  BY <1>2
<1>7. \E f : f = [n \in 0 .. L |-> next(f, n)]
  BY <1>5, <1>6 DEF T
<1> DEFINE t == NewTrail(x, path, y)
<1>8. t = [n \in 0 .. L |-> next(t, n)]
  BY <1>1, <1>7, Zenon
<1> HIDE DEF t
<1>9. ASSUME NEW n \in 0 .. L  PROVE t[n] = next(t, n)
  <2> HIDE DEF next
  <2> QED  BY <1>8
<1>10. ASSUME NEW n \in 0 .. L - 1
       PROVE  t[n] = WithChild(Trail(x, path)[n], path[n + 1], t[n + 1])
  <2>1. n \in 0 .. L /\ n # L
    BY <1>2
  <2> QED  BY <1>9, <2>1
<1>11. t[L] = y
  BY <1>2, <1>9
<1> QED  BY <1>10, <1>11 DEF t, L

-----------------------------------------------------------------------------
\* A key leads to the first entry that has it.
LEMMA AtIsFirst ==
  ASSUME NEW E, NEW s, s \in Seq(E), NEW k, HasKey(s, k)
  PROVE  \E i \in 1 .. Len(s) : s[i].key = k /\ At(s, k) = s[i].val
<1> DEFINE first(i) == s[i].key = k /\ \A j \in 1 .. i - 1 : s[j].key # k
<1> DEFINE T == {i \in 1 .. Len(s) : s[i].key = k}
<1>1. DOMAIN s = 1 .. Len(s) /\ Len(s) \in Nat
  BY LenProperties
<1>2. T \subseteq Nat /\ T # {}
  BY <1>1 DEF HasKey
<1>3. PICK n \in T : \A m \in T : n <= m
  BY <1>2, LeastNumber
<1>4. ASSUME NEW j \in 1 .. n - 1  PROVE s[j].key # k
  <2>1. n \in 1 .. Len(s) /\ j \in 1 .. Len(s) /\ ~(n <= j)
    BY <1>1, <1>3
  <2> QED  BY <1>3, <2>1
<1>5. n \in DOMAIN s /\ first(n)
  BY <1>1, <1>3, <1>4
<1> DEFINE c == CHOOSE i \in DOMAIN s : first(i)
<1>6. c \in DOMAIN s /\ first(c)
  BY <1>5
<1>7. At(s, k) = s[c].val
  BY DEF At
<1> HIDE DEF c
<1> QED  BY <1>1, <1>6, <1>7

\* Unique keys make the entries of an item a dictionary.
LEMMA DictOfItem ==
  ASSUME NEW P, NEW s, s \in Seq([key : Keys, val : P])
  PROVE  IsInjective(KeysOf(s)) <=> IsDict(s)
<1> DEFINE E == [key : Keys, val : P]
<1>1. \A i \in DOMAIN s : s[i] \in E
  <2> HIDE DEF E
  <2> QED  BY LenProperties, ElementOfSeq DEF E
<1>2. \A e \in E : e = Entry(e.key, e.val)
  BY DEF Entry
<1>3. s \in Seq(Range(s))
  BY IsSeqOfRange
<1>4. \A i \in DOMAIN s : s[i] = Entry(s[i].key, s[i].val)
  BY <1>1, <1>2
<1>5. DOMAIN KeysOf(s) = DOMAIN s /\ \A i \in DOMAIN s : KeysOf(s)[i] = s[i].key
  BY DEF KeysOf
<1> QED  BY <1>3, <1>4, <1>5 DEF IsDict, IsInjective

\* Of an item and its children.
LEMMA WellFormedIs ==
  ASSUME NEW x \in Items
  PROVE  WellFormed(x) <=> /\ IsMap(x) => IsDict(x.entries)
                           /\ \A i \in DOMAIN Children(x) : WellFormed(Children(x)[i])
<1>1. IsOver(x, Items)
  BY ItemIs
<1>2. PartsOfItem[x] = {x} \cup UNION {PartsOfItem[y] : y \in Range(Children(x))}
  BY PartsAre
<1>3. IsMap(x) => (IsInjective(KeysOf(x.entries)) <=> IsDict(x.entries))
  BY <1>1, KindsAre, DictOfItem
<1>4. \A y \in Range(Children(x)) : \E i \in DOMAIN Children(x) : y = Children(x)[i]
  BY DEF Range
<1>5. \A i \in DOMAIN Children(x) : Children(x)[i] \in Range(Children(x))
  BY DEF Range
<1> DEFINE unique(y) == IsMap(y) => IsInjective(KeysOf(y.entries))
<1>6. \A y : WellFormed(y) <=> \A z \in PartsOfItem[y] : unique(z)
  BY DEF WellFormed
<1>7. IsMap(x) => (unique(x) <=> IsDict(x.entries))
  BY <1>3
<1>8. ~IsMap(x) => unique(x)
  OBVIOUS
<1> HIDE DEF unique
<1> QED  BY <1>2, <1>4, <1>5, <1>6, <1>7, <1>8

\* An item can be saved if it is not empty and all below it can be.
LEMMA CanDumpIs ==
  ASSUME NEW x \in Items
  PROVE  CanDump(x) <=> ~IsNone(x) /\ \A i \in DOMAIN Children(x) : CanDump(Children(x)[i])
<1>1. PartsOfItem[x] = {x} \cup UNION {PartsOfItem[y] : y \in Range(Children(x))}
  BY PartsAre
<1>2. \A y \in Range(Children(x)) : \E i \in DOMAIN Children(x) : y = Children(x)[i]
  BY DEF Range
<1>3. \A i \in DOMAIN Children(x) : Children(x)[i] \in Range(Children(x))
  BY DEF Range
<1>4. \A y : CanDump(y) <=> \A z \in PartsOfItem[y] : ~IsNone(z)
  BY DEF CanDump
<1> QED  BY <1>1, <1>2, <1>3, <1>4

\* a and b are vectors, or maps with the same keys, that differ at most in child i.
SameBut(a, b, i) ==
  /\ (IsVector(a) /\ IsVector(b)) \/ (IsMap(a) /\ IsMap(b))
  /\ IsMap(a) => \A j \in DOMAIN a.entries : b.entries[j].key = a.entries[j].key
  /\ IsMap(a) => IsDict(b.entries)
  /\ DOMAIN Children(b) = DOMAIN Children(a) /\ Len(Children(b)) = Len(Children(a))
  /\ i \in DOMAIN Children(a)
  /\ \A j \in DOMAIN Children(a) : j # i => Children(b)[j] = Children(a)[j]

\* The entries of a dictionary in which one has another value.
StoredAt(s, t, i, y) ==
  /\ IsDict(t) /\ DOMAIN t = DOMAIN s /\ Len(t) = Len(s)
  /\ t[i] = Entry(s[i].key, y)
  /\ \A j \in DOMAIN s : j # i => t[j] = s[j]

\* A store under a key that is there changes the value of that entry and no other.
LEMMA StoreIs ==
  ASSUME NEW s, IsDict(s), NEW i \in DOMAIN s, NEW y, NEW t, t = Store(s, s[i].key, y)
  PROVE  StoredAt(s, t, i, y)
<1> DEFINE k == s[i].key
<1>1. t = [j \in DOMAIN s |-> IF s[j].key = k THEN Entry(k, y) ELSE s[j]]
  BY DEF Store, HasKey
<1>2. DOMAIN s = 1 .. Len(s) /\ Len(s) \in Nat
  BY DictShape
<1>3. \A j \in DOMAIN s : s[j].key = k <=> j = i
  BY DEF IsDict
<1>4. t[i] = Entry(k, y) /\ \A j \in DOMAIN s : j # i => t[j] = s[j]
  BY <1>1, <1>3
<1>5. DOMAIN t = DOMAIN s /\ Len(t) = Len(s)
  BY <1>1, <1>2
<1>6. t \in Seq(Range(t))
  <2>1. \A j \in 1 .. Len(s) : t[j] \in Range(t)
    BY <1>2, <1>5 DEF Range
  <2>2. t = [j \in 1 .. Len(s) |-> t[j]]
    BY <1>1, <1>2
  <2> QED  BY <1>2, <2>1, <2>2
<1>7. \A j \in DOMAIN s : t[j].key = s[j].key /\ t[j] = Entry(t[j].key, t[j].val)
  <2> TAKE j \in DOMAIN s
  <2>1. CASE j = i
    <3>1. t[j] = Entry(k, y)
      BY <1>4, <2>1
    <3> QED  BY <2>1, <3>1 DEF Entry
  <2>2. CASE j # i
    BY <1>4, <2>2 DEF IsDict
  <2> QED  BY <2>1, <2>2
<1>8. \A j, l \in DOMAIN s : s[j].key = s[l].key => j = l
  BY DEF IsDict
<1>9. IsDict(t)
  BY <1>5, <1>6, <1>7, <1>8 DEF IsDict
<1> QED  BY <1>4, <1>5, <1>9 DEF StoredAt

\* What one step down is, and what it changes to put another item there.
Stepped(a, b, step, y) ==
  /\ \E i : SameBut(a, b, i) /\ Children(a)[i] = Child(a, step) /\ Children(b)[i] = y
  /\ HasChild(b, step) /\ Child(b, step) = y
  /\ Child(a, step) \in Items /\ y \in Items
  /\ WellFormed(Child(a, step))

\* WithChild changes one child, to which the same step then leads.
LEMMA OneChild ==
  ASSUME NEW a \in Items, WellFormed(a), NEW step, HasChild(a, step),
         NEW y, NEW b \in Items, b = WithChild(a, step, y)
  PROVE  Stepped(a, b, step, y)
<1>1. IsOver(a, Items) /\ IsOver(b, Items)
  BY ItemIs
<1>2. \A j \in DOMAIN Children(a) : WellFormed(Children(a)[j])
  BY WellFormedIs
<1>3. /\ \A j \in DOMAIN Children(a) : Children(a)[j] \in Items
      /\ \A j \in DOMAIN Children(b) : Children(b)[j] \in Items
  <2>1. /\ \A j \in DOMAIN Children(a) : Children(a)[j] \in Range(Children(a))
        /\ \A j \in DOMAIN Children(b) : Children(b)[j] \in Range(Children(b))
    BY DEF Range
  <2> QED  BY <1>1, <2>1, ChildrenAre
<1>4. CASE IsMap(a)
  <2> DEFINE s == a.entries
  <2> DEFINE t == Store(s, step, y)
  <2> DEFINE E == [key : Keys, val : Items]
  <2>1. ~IsVector(a) /\ s \in Seq(E) /\ IsDict(s)
    BY <1>1, <1>4, KindsAre, WellFormedIs
  <2> HIDE DEF E
  <2>2. HasKey(s, step)
    BY <2>1 DEF HasChild
  <2>3. PICK i \in 1 .. Len(s) : s[i].key = step /\ At(s, step) = s[i].val
    BY <2>1, <2>2, AtIsFirst
  <2>4. DOMAIN s = 1 .. Len(s)
    BY <2>1, DictShape
  <2>5. b = Map(t)
    BY <1>4 DEF WithChild
  <2>6. IsMap(b) /\ b.entries = t
    BY <2>5, ConstructorsAre
  <2>7. Child(a, step) = s[i].val
    BY <1>4, <2>3 DEF Child
  <2> HIDE DEF s, t
  <2>8. StoredAt(s, t, i, y)
    <3>1. t = Store(s, s[i].key, y)
      BY <2>3 DEF t
    <3>2. i \in DOMAIN s
      BY <2>3, <2>4
    <3> QED  BY <2>1, <3>1, <3>2, StoreIs
  <2>9. /\ IsDict(t) /\ DOMAIN t = DOMAIN s /\ Len(t) = Len(s)
         /\ t[i] = Entry(s[i].key, y)
         /\ \A j \in DOMAIN s : j # i => t[j] = s[j]
    BY <2>8 DEF StoredAt
  <2>10. t[i].key = s[i].key /\ t[i].val = y
    BY <2>9 DEF Entry
  <2>11. /\ Len(Children(a)) = Len(s) /\ DOMAIN Children(a) = DOMAIN s
         /\ \A j \in DOMAIN s : Children(a)[j] = s[j].val
    BY <1>1, <1>4, ChildrenAre DEF s
  <2>12. /\ Len(Children(b)) = Len(t) /\ DOMAIN Children(b) = DOMAIN t
         /\ \A j \in DOMAIN t : Children(b)[j] = t[j].val
    BY <1>1, <2>6, ChildrenAre
  <2>13. \A j \in DOMAIN s : t[j].key = s[j].key
    BY <2>9, <2>10
  <2>14. SameBut(a, b, i)
    BY <1>4, <2>3, <2>4, <2>6, <2>9, <2>11, <2>12, <2>13 DEF SameBut, s
  <2>15. HasKey(t, step) /\ At(t, step) = y
    BY <2>3, <2>4, <2>9, <2>10, AtIs
  <2>16. HasChild(b, step) /\ Child(b, step) = y
    BY <2>6, <2>15 DEF HasChild, Child
  <2> QED  BY <1>2, <1>3, <2>3, <2>4, <2>7, <2>9, <2>10, <2>11, <2>12, <2>14, <2>16 DEF Stepped
<1>5. CASE IsVector(a)
  <2> DEFINE s == a.items
  <2> DEFINE t == [s EXCEPT ![step] = y]
  <2>1. ~IsMap(a) /\ s \in Seq(Items)
    BY <1>1, <1>5, KindsAre
  <2>2. step \in DOMAIN s /\ DOMAIN s = 1 .. Len(s)
    BY <2>1 DEF HasChild
  <2>3. b = Vector(t)
    BY <2>1 DEF WithChild
  <2>4. IsVector(b) /\ b.items = t
    BY <2>3, ConstructorsAre
  <2>5. Child(a, step) = s[step] /\ Children(a) = s
    BY <1>1, <1>5, <2>1, ChildrenAre DEF Child
  <2>6. ~IsMap(b) /\ Children(b) = t
    BY <1>1, <2>4, KindsAre, ChildrenAre
  <2>7. DOMAIN t = DOMAIN s /\ t[step] = y /\ \A j \in DOMAIN s : j # step => t[j] = s[j]
    BY <2>2
  <2> HIDE DEF s, t
  <2>8. t \in Seq(Items)
    <3>1. Children(b) \in Seq(Items)
      BY <1>1, ChildrenAre
    <3> QED  BY <2>6, <3>1
  <2>9. Len(t) = Len(s)
    BY <2>1, <2>7, <2>8
  <2>10. SameBut(a, b, step)
    <3>1. DOMAIN Children(b) = DOMAIN Children(a) /\ Len(Children(b)) = Len(Children(a))
      BY <2>5, <2>6, <2>7, <2>9
    <3>2. \A j \in DOMAIN Children(a) : j # step => Children(b)[j] = Children(a)[j]
      BY <2>5, <2>6, <2>7
    <3> QED  BY <1>5, <2>1, <2>2, <2>4, <2>5, <3>1, <3>2 DEF SameBut
  <2>11. HasChild(b, step) /\ Child(b, step) = y
    BY <2>2, <2>4, <2>6, <2>7 DEF HasChild, Child
  <2> QED  BY <1>2, <1>3, <2>2, <2>5, <2>6, <2>7, <2>10, <2>11 DEF Stepped
<1> QED  BY <1>4, <1>5 DEF HasChild

\* To put y at the end of a path changes only the items the path comes through, each of
\* them in the one child that is next, and the path then leads to y.
OnPath(x, path, y) ==
  LET t == NewTrail(x, path, y)
  IN  /\ y \in Items /\ ItemOf(x, path) \in Items /\ WellFormed(ItemOf(x, path))
      /\ t[0] = Replace(x, path, y)
      /\ \A n \in 0 .. Len(path) :
           /\ Trail(x, path)[n] \in Items /\ WellFormed(Trail(x, path)[n]) /\ t[n] \in Items
           /\ Trail(Replace(x, path, y), path)[n] = t[n]
      /\ \A n \in 1 .. Len(path) :
           /\ HasChild(t[n - 1], path[n])
           /\ \E i : /\ SameBut(Trail(x, path)[n - 1], t[n - 1], i)
                     /\ Children(Trail(x, path)[n - 1])[i] = Trail(x, path)[n]
                     /\ Children(t[n - 1])[i] = t[n]

\* Going up a path, every replaced item is one that has changed in one child.
LEMMA ReplaceIs ==
  ASSUME NEW x \in Items, WellFormed(x), NEW path, Len(path) \in Nat, LeadsSomewhere(x, path),
         NEW y, Replace(x, path, y) \in Items
  PROVE  OnPath(x, path, y)
<1> DEFINE L == Len(path)
<1> DEFINE at == Trail(x, path)
<1> DEFINE t == NewTrail(x, path, y)
<1> DEFINE w == Replace(x, path, y)
<1>1. at[0] = x /\ \A n \in 1 .. L : at[n] = Child(at[n - 1], path[n])
  BY TrailIs
<1>2. t[L] = y /\ \A n \in 0 .. L - 1 : t[n] = WithChild(at[n], path[n + 1], t[n + 1])
  BY NewTrailIs
<1>3. t[0] = w /\ at[L] = ItemOf(x, path)
  BY DEF Replace, ItemOf
<1>4. \A n \in 1 .. L : HasChild(at[n - 1], path[n])
  BY DEF LeadsSomewhere
<1> HIDE DEF L, at, t, w
<1>5. L \in Nat /\ w \in Items
  BY DEF L, w
<1> DEFINE good(n) == at[n] \in Items /\ WellFormed(at[n]) /\ t[n] \in Items
<1> DEFINE step(n) == \E i : /\ SameBut(at[n], t[n], i)
                             /\ Children(at[n])[i] = at[n + 1] /\ Children(t[n])[i] = t[n + 1]
<1>6. ASSUME NEW n \in 0 .. L - 1, good(n)
      PROVE  good(n + 1) /\ step(n) /\ HasChild(t[n], path[n + 1]) /\ Child(t[n], path[n + 1]) = t[n + 1]
  <2>1. n + 1 \in 1 .. L /\ (n + 1) - 1 = n
    BY <1>5
  <2>2. HasChild(at[n], path[n + 1]) /\ at[n + 1] = Child(at[n], path[n + 1])
    BY <1>1, <1>4, <2>1
  <2>3. t[n] = WithChild(at[n], path[n + 1], t[n + 1])
    BY <1>2
  <2>4. Stepped(at[n], t[n], path[n + 1], t[n + 1])
    BY <1>6, <2>2, <2>3, OneChild
  <2> QED  BY <2>2, <2>4 DEF Stepped
<1> HIDE DEF step
<1> DEFINE T == {n \in Nat : n <= L => good(n)}
<1>7. 0 \in T
  BY <1>1, <1>3, <1>5
<1>8. ASSUME NEW n \in Nat, n \in T  PROVE n + 1 \in T
  <2> SUFFICES ASSUME n + 1 <= L  PROVE good(n + 1)
    OBVIOUS
  <2>1. n \in 0 .. L - 1 /\ good(n)
    BY <1>5, <1>8
  <2> HIDE DEF good
  <2> QED  BY <1>6, <2>1
<1>9. \A n \in 0 .. L : good(n)
  <2> HIDE DEF good
  <2>1. Nat \subseteq T
    <3> HIDE DEF T
    <3> QED  BY <1>7, <1>8, Induction
  <2> QED  BY <1>5, <2>1
<1> DEFINE new == Trail(w, path)
<1>10. new[0] = w /\ \A n \in 1 .. L : new[n] = Child(new[n - 1], path[n])
  BY TrailIs DEF L
<1> HIDE DEF new
<1>11. \A n \in 0 .. L - 1 : step(n) /\ HasChild(t[n], path[n + 1]) /\ Child(t[n], path[n + 1]) = t[n + 1]
  <2>1. \A n \in 0 .. L - 1 : n \in 0 .. L
    BY <1>5
  <2> HIDE DEF good
  <2> QED  BY <1>6, <1>9, <2>1
<1> DEFINE U == {n \in Nat : n <= L => new[n] = t[n]}
<1>12. 0 \in U
  BY <1>3, <1>10
<1>13. ASSUME NEW n \in Nat, n \in U  PROVE n + 1 \in U
  <2> SUFFICES ASSUME n + 1 <= L  PROVE new[n + 1] = t[n + 1]
    OBVIOUS
  <2>1. n \in 0 .. L - 1 /\ n + 1 \in 1 .. L /\ (n + 1) - 1 = n
    BY <1>5
  <2>2. new[n] = t[n]
    BY <1>5, <1>13
  <2>3. new[n + 1] = Child(new[n], path[n + 1])
    BY <1>10, <2>1
  <2> QED  BY <1>11, <2>1, <2>2, <2>3
<1> HIDE DEF U
<1>14. \A n \in 0 .. L : new[n] = t[n]
  <2>1. Nat \subseteq U
    BY <1>12, <1>13, Induction
  <2> QED  BY <1>5, <2>1 DEF U
<1>15. ASSUME NEW n \in 1 .. L
       PROVE  /\ HasChild(t[n - 1], path[n])
              /\ \E i : /\ SameBut(at[n - 1], t[n - 1], i)
                        /\ Children(at[n - 1])[i] = at[n] /\ Children(t[n - 1])[i] = t[n]
  <2>1. n - 1 \in 0 .. L - 1 /\ (n - 1) + 1 = n
    BY <1>5
  <2>2. step(n - 1) /\ HasChild(t[n - 1], path[(n - 1) + 1])
    BY <1>11, <2>1
  <2> QED  BY <2>1, <2>2 DEF step
<1>16. L \in 0 .. L
  BY <1>5
<1>17. y \in Items /\ ItemOf(x, path) \in Items /\ WellFormed(ItemOf(x, path))
  BY <1>2, <1>3, <1>9, <1>16
<1>18. \A n \in 0 .. L : at[n] \in Items /\ WellFormed(at[n]) /\ t[n] \in Items /\ new[n] = t[n]
  BY <1>9, <1>14
<1> QED  BY <1>3, <1>15, <1>17, <1>18 DEF L, at, t, w, new, OnPath

\* What is true of the two items at the end, and remains true above them, is true of the
\* whole: R is the set of pairs of an item and what may take its place.
LEMMA ReplaceKeeps ==
  ASSUME NEW x \in Items, WellFormed(x), NEW path, Len(path) \in Nat, LeadsSomewhere(x, path),
         NEW y, Replace(x, path, y) \in Items,
         NEW R, << ItemOf(x, path), y >> \in R,
         \A a, b \in Items : \A i :
           /\ WellFormed(a) /\ SameBut(a, b, i)
           /\ << Children(a)[i], Children(b)[i] >> \in R
           => << a, b >> \in R
  PROVE  << x, Replace(x, path, y) >> \in R
<1> DEFINE L == Len(path)
<1> DEFINE at == Trail(x, path)
<1> DEFINE t == NewTrail(x, path, y)
<1>1. OnPath(x, path, y)
  BY ReplaceIs
<1>2. at[0] = x /\ t[L] = y /\ at[L] = ItemOf(x, path) /\ t[0] = Replace(x, path, y)
  BY TrailIs, NewTrailIs DEF Replace, ItemOf
<1>3. /\ \A n \in 0 .. L : at[n] \in Items /\ WellFormed(at[n]) /\ t[n] \in Items
      /\ \A n \in 1 .. L : \E i : /\ SameBut(at[n - 1], t[n - 1], i)
                                  /\ Children(at[n - 1])[i] = at[n]
                                  /\ Children(t[n - 1])[i] = t[n]
  BY <1>1 DEF OnPath
<1> HIDE DEF L, at, t
<1>4. L \in Nat
  BY DEF L
<1> DEFINE T == {k \in Nat : k <= L => << at[L - k], t[L - k] >> \in R}
<1>5. 0 \in T
  <2>1. L - 0 = L
    BY <1>4
  <2> QED  BY <1>2, <2>1
<1>6. ASSUME NEW k \in Nat, k \in T  PROVE k + 1 \in T
  <2> SUFFICES ASSUME k + 1 <= L  PROVE << at[L - (k + 1)], t[L - (k + 1)] >> \in R
    OBVIOUS
  <2>1. L - k \in 1 .. L /\ (L - k) - 1 = L - (k + 1) /\ L - (k + 1) \in 0 .. L /\ k <= L
    BY <1>4
  <2>2. PICK i : /\ SameBut(at[L - (k + 1)], t[L - (k + 1)], i)
                 /\ Children(at[L - (k + 1)])[i] = at[L - k]
                 /\ Children(t[L - (k + 1)])[i] = t[L - k]
    BY <1>3, <2>1
  <2>3. << at[L - k], t[L - k] >> \in R
    BY <1>6, <2>1
  <2>4. /\ at[L - (k + 1)] \in Items /\ WellFormed(at[L - (k + 1)]) /\ t[L - (k + 1)] \in Items
    BY <1>3, <2>1
  <2> QED  BY <2>2, <2>3, <2>4
<1> HIDE DEF T
<1>7. L \in T
  BY <1>4, <1>5, <1>6, Induction
<1>8. L <= L /\ L - L = 0
  BY <1>4
<1> QED  BY <1>2, <1>7, <1>8 DEF T

\* A path of two parts leads to where the second leads from the end of the first.
Joined(x, p, q) ==
  /\ \A n \in 0 .. Len(p) : Trail(x, p \o q)[n] = Trail(x, p)[n]
  /\ \A n \in 0 .. Len(q) : Trail(x, p \o q)[Len(p) + n] = Trail(ItemOf(x, p), q)[n]
  /\ ItemOf(x, p \o q) = ItemOf(ItemOf(x, p), q)

\* A path that goes on is the way down, and then further from there.
LEMMA TwoTrails ==
  ASSUME NEW P, NEW x, NEW p \in Seq(P), NEW q \in Seq(P)
  PROVE  Joined(x, p, q)
<1> DEFINE L == Len(p)
<1> DEFINE M == Len(q)
<1> DEFINE c == p \o q
<1>1. L \in Nat /\ M \in Nat /\ Len(c) = L + M
  BY ConcatProperties
<1>2. /\ \A n \in 1 .. L : c[n] = p[n]
      /\ \A n \in 1 .. M : c[L + n] = q[n]
  <2>1. \A i \in 1 .. L + M : c[i] = IF i <= L THEN p[i] ELSE q[i - L]
    BY ConcatProperties
  <2> HIDE DEF c, L, M
  <2>2. \A n \in 1 .. L : n \in 1 .. L + M /\ n <= L
    BY <1>1
  <2>3. \A n \in 1 .. M : L + n \in 1 .. L + M /\ ~(L + n <= L) /\ (L + n) - L = n
    BY <1>1
  <2> QED  BY <2>1, <2>2, <2>3
<1> DEFINE t == Trail(x, c)
<1> DEFINE a == Trail(x, p)
<1> DEFINE z == ItemOf(x, p)
<1> DEFINE b == Trail(z, q)
<1>3. t[0] = x /\ \A n \in 1 .. L + M : t[n] = Child(t[n - 1], c[n])
  <2> HIDE DEF c
  <2>1. Len(c) \in Nat
    BY <1>1
  <2>2. t[0] = x /\ \A n \in 1 .. Len(c) : t[n] = Child(t[n - 1], c[n])
    BY <2>1, TrailIs
  <2> QED  BY <1>1, <2>2
<1>4. a[0] = x /\ \A n \in 1 .. L : a[n] = Child(a[n - 1], p[n])
  BY <1>1, TrailIs
<1>5. b[0] = z /\ \A n \in 1 .. M : b[n] = Child(b[n - 1], q[n])
  BY <1>1, TrailIs
<1>6. z = a[L]
  BY DEF ItemOf
<1>7. ItemOf(z, q) = b[M] /\ ItemOf(x, c) = t[L + M]
  BY <1>1 DEF ItemOf
<1> HIDE DEF L, M, c, t, a, b, z
<1> DEFINE T == {n \in Nat : n <= L => t[n] = a[n]}
<1>8. 0 \in T
  BY <1>3, <1>4
<1>9. ASSUME NEW n \in Nat, n \in T  PROVE n + 1 \in T
  <2> SUFFICES ASSUME n + 1 <= L  PROVE t[n + 1] = a[n + 1]
    OBVIOUS
  <2>1. n + 1 \in 1 .. L /\ n + 1 \in 1 .. L + M /\ (n + 1) - 1 = n /\ n <= L
    BY <1>1
  <2> QED  BY <1>2, <1>3, <1>4, <1>9, <2>1
<1> HIDE DEF T
<1>10. \A n \in 0 .. L : t[n] = a[n]
  <2>1. Nat \subseteq T
    BY <1>8, <1>9, Induction
  <2> QED  BY <1>1, <2>1 DEF T
<1> DEFINE U == {n \in Nat : n <= M => t[L + n] = b[n]}
<1>11. 0 \in U
  <2>1. L + 0 = L /\ L \in 0 .. L
    BY <1>1
  <2> QED  BY <1>5, <1>6, <1>10, <2>1
<1>12. ASSUME NEW n \in Nat, n \in U  PROVE n + 1 \in U
  <2> SUFFICES ASSUME n + 1 <= M  PROVE t[L + (n + 1)] = b[n + 1]
    OBVIOUS
  <2>1. /\ n + 1 \in 1 .. M /\ (n + 1) - 1 = n /\ n <= M
        /\ L + (n + 1) \in 1 .. L + M /\ (L + (n + 1)) - 1 = L + n
    BY <1>1
  <2>2. t[L + n] = b[n]
    BY <1>12, <2>1
  <2>3. t[L + (n + 1)] = Child(t[L + n], c[L + (n + 1)])
    BY <1>3, <2>1
  <2>4. b[n + 1] = Child(b[n], q[n + 1])
    BY <1>5, <2>1
  <2> QED  BY <1>2, <2>1, <2>2, <2>3, <2>4
<1> HIDE DEF U
<1>13. \A n \in 0 .. M : t[L + n] = b[n]
  <2>1. Nat \subseteq U
    BY <1>11, <1>12, Induction
  <2> QED  BY <1>1, <2>1 DEF U
<1>14. M \in 0 .. M
  BY <1>1
<1> QED  BY <1>7, <1>10, <1>13, <1>14 DEF L, M, c, t, a, b, z, Joined



\* Two paths that lead somewhere, one after the other, do.
LEMMA LeadsOn ==
  ASSUME NEW P, NEW x, NEW p \in Seq(P), NEW q \in Seq(P),
         LeadsSomewhere(x, p), LeadsSomewhere(ItemOf(x, p), q)
  PROVE  LeadsSomewhere(x, p \o q)
<1> DEFINE L == Len(p)
<1> DEFINE M == Len(q)
<1> DEFINE c == p \o q
<1> DEFINE t == Trail(x, c)
<1>1. L \in Nat /\ M \in Nat /\ Len(c) = L + M
  BY ConcatProperties
<1>2. /\ \A n \in 0 .. L : t[n] = Trail(x, p)[n]
      /\ \A n \in 0 .. M : t[L + n] = Trail(ItemOf(x, p), q)[n]
  BY TwoTrails DEF Joined
<1>3. \A n \in 1 .. L : HasChild(Trail(x, p)[n - 1], p[n])
  BY DEF LeadsSomewhere
<1>4. \A n \in 1 .. M : HasChild(Trail(ItemOf(x, p), q)[n - 1], q[n])
  BY DEF LeadsSomewhere
<1>5. \A i \in 1 .. L + M : c[i] = IF i <= L THEN p[i] ELSE q[i - L]
  BY ConcatProperties
<1> SUFFICES ASSUME NEW n \in 1 .. L + M  PROVE HasChild(t[n - 1], c[n])
  BY <1>1 DEF LeadsSomewhere
<1> HIDE DEF L, M, c, t
<1>6. CASE n <= L
  <2>1. n \in 1 .. L /\ n - 1 \in 0 .. L
    BY <1>1, <1>6
  <2> QED  BY <1>2, <1>3, <1>5, <1>6, <2>1
<1>7. CASE ~(n <= L)
  <2>1. n - L \in 1 .. M /\ (n - L) - 1 \in 0 .. M /\ L + ((n - L) - 1) = n - 1
    BY <1>1, <1>7
  <2>2. t[L + ((n - L) - 1)] = Trail(ItemOf(x, p), q)[(n - L) - 1]
    BY <1>2, <2>1
  <2> QED  BY <1>4, <1>5, <1>7, <2>1, <2>2
<1> QED  BY <1>6, <1>7

\* After a replacement the path still leads somewhere: to the new item.
LEMMA NewLeads ==
  ASSUME NEW x \in Items, WellFormed(x), NEW path, Len(path) \in Nat, LeadsSomewhere(x, path),
         NEW y, Replace(x, path, y) \in Items
  PROVE  LeadsSomewhere(Replace(x, path, y), path) /\ ItemOf(Replace(x, path, y), path) = y
<1> DEFINE w == Replace(x, path, y)
<1> DEFINE t == NewTrail(x, path, y)
<1>1. OnPath(x, path, y)
  BY ReplaceIs
<1>2. /\ \A n \in 0 .. Len(path) : Trail(w, path)[n] = t[n]
      /\ \A n \in 1 .. Len(path) : HasChild(t[n - 1], path[n])
      /\ t[Len(path)] = y
  BY <1>1, NewTrailIs DEF OnPath
<1> HIDE DEF w, t
<1>3. \A n \in 1 .. Len(path) : HasChild(Trail(w, path)[n - 1], path[n])
  <2>1. \A n \in 1 .. Len(path) : n - 1 \in 0 .. Len(path)
    OBVIOUS
  <2> QED  BY <1>2, <2>1
<1>4. Len(path) \in 0 .. Len(path)
  OBVIOUS
<1> QED  BY <1>2, <1>3, <1>4 DEF LeadsSomewhere, ItemOf, w

\* Whatever is put at the end of a path of a well-formed item, if it is well-formed.
LEMMA ReplaceWellFormed ==
  ASSUME NEW x \in Items, WellFormed(x), NEW path, Len(path) \in Nat, LeadsSomewhere(x, path),
         NEW y, Replace(x, path, y) \in Items, WellFormed(y)
  PROVE  WellFormed(Replace(x, path, y))
<1> DEFINE R == {p \in Items \X Items : WellFormed(p[2])}
<1>1. OnPath(x, path, y)
  BY ReplaceIs
<1>2. << ItemOf(x, path), y >> \in R
  BY <1>1 DEF OnPath
<1>3. ASSUME NEW a \in Items, NEW b \in Items, NEW i, WellFormed(a), SameBut(a, b, i),
             << Children(a)[i], Children(b)[i] >> \in R
      PROVE  << a, b >> \in R
  <2>1. WellFormed(Children(b)[i])
    BY <1>3
  <2>2. IsMap(b) => IsDict(b.entries)
    <3>1. IsOver(a, Items) /\ IsOver(b, Items)
      BY ItemIs
    <3>2. IsMap(b) => IsMap(a)
      BY <1>3, <3>1, KindsAre DEF SameBut
    <3> QED  BY <1>3, <3>2 DEF SameBut
  <2>3. ASSUME NEW j \in DOMAIN Children(b)  PROVE WellFormed(Children(b)[j])
    <3>1. j \in DOMAIN Children(a) /\ (j # i => Children(b)[j] = Children(a)[j])
      BY <1>3 DEF SameBut
    <3>2. WellFormed(Children(a)[j])
      BY <1>3, <3>1, WellFormedIs
    <3> QED  BY <2>1, <3>1, <3>2
  <2> QED  BY <2>2, <2>3, WellFormedIs
<1> HIDE DEF R
<1>4. << x, Replace(x, path, y) >> \in R
  BY <1>2, <1>3, ReplaceKeeps
<1> QED  BY <1>4 DEF R

\* What a call that puts y where r refers to needs to know.
LEMMA LeaveIs ==
  ASSUME TypeOK, NEW y, NEW path, Leave(y, path)
  PROVE  /\ y \in Items /\ r \in Items /\ WellFormed(r) /\ IsOver(r, Items) /\ IsOver(y, Items)
         /\ root' = Replace(root, ref, y) /\ root' \in Items /\ Bounded(root')
         /\ LeadsSomewhere(root', ref) /\ ItemOf(root', ref) = y
<1>1. root \in Items /\ WellFormed(root) /\ Len(ref) \in Nat /\ LeadsSomewhere(root, ref)
  BY LenProperties DEF TypeOK, Bounded
<1>2. root' = Replace(root, ref, y) /\ root' \in Items /\ Bounded(root')
  BY DEF Leave, Bounded
<1>3. OnPath(root, ref, y)
  BY <1>1, <1>2, ReplaceIs
<1>4. y \in Items /\ r \in Items /\ WellFormed(r)
  BY <1>3 DEF OnPath, r
<1>5. LeadsSomewhere(root', ref) /\ ItemOf(root', ref) = y
  BY <1>1, <1>2, NewLeads
<1> QED  BY <1>2, <1>4, <1>5, ItemIs

\* A call keeps the tree well-formed if what it leaves at r is, and its path leads on there.
LEMMA LeaveKeepsType ==
  ASSUME TypeOK, NEW y, NEW path \in Seq(Keys \cup 1 .. MaxItems), Leave(y, path),
         WellFormed(y), LeadsSomewhere(y, path)
  PROVE  TypeOK'
<1>1. root \in Items /\ WellFormed(root) /\ Len(ref) \in Nat /\ LeadsSomewhere(root, ref)
      /\ ref \in Seq(Keys \cup 1 .. MaxItems)
  BY LenProperties DEF TypeOK, Bounded
<1>2. /\ root' = Replace(root, ref, y) /\ root' \in Items /\ Bounded(root')
      /\ LeadsSomewhere(root', ref) /\ ItemOf(root', ref) = y
  BY LeaveIs
<1>3. WellFormed(root')
  BY <1>1, <1>2, ReplaceWellFormed
<1>4. ref' = ref \o path
  BY DEF Leave
<1>5. LeadsSomewhere(root', ref')
  BY <1>1, <1>2, <1>4, LeadsOn
<1>6. ref' \in Seq(Keys \cup 1 .. MaxItems)
  BY <1>1, <1>4, ConcatProperties
<1> QED  BY <1>2, <1>3, <1>5, <1>6 DEF TypeOK

-----------------------------------------------------------------------------
\* Short paths.
LEMMA NoStep ==
  ASSUME NEW x
  PROVE  LeadsSomewhere(x, << >>) /\ ItemOf(x, << >>) = x
<1>1. Len(<< >>) = 0
  OBVIOUS
<1>2. Trail(x, << >>)[0] = x
  BY <1>1, TrailIs
<1> QED  BY <1>1, <1>2 DEF LeadsSomewhere, ItemOf

\* A path of one step leads to a child.
LEMMA OneStep ==
  ASSUME NEW x, NEW k
  PROVE  (LeadsSomewhere(x, << k >>) <=> HasChild(x, k)) /\ ItemOf(x, << k >>) = Child(x, k)
<1> DEFINE p == << k >>
<1>1. Len(p) = 1 /\ p[1] = k /\ Len(p) \in Nat
  OBVIOUS
<1> HIDE DEF p
<1>2. Trail(x, p)[0] = x /\ \A n \in 1 .. Len(p) : Trail(x, p)[n] = Child(Trail(x, p)[n - 1], p[n])
  BY <1>1, TrailIs
<1>3. 1 \in 1 .. Len(p) /\ 1 - 1 = 0 /\ \A n \in 1 .. Len(p) : n = 1
  BY <1>1
<1>4. Trail(x, p)[1] = Child(x, k)
  BY <1>1, <1>2, <1>3
<1> QED  BY <1>1, <1>2, <1>3, <1>4 DEF LeadsSomewhere, ItemOf, p

\* Items and what is in them.
LEMMA SmallItems ==
  None \in Items /\ \A a \in Atoms : Atom(a) \in Items
<1>1. MaxLevels \in 1 .. MaxLevels
  BY MaxLevelsAssumption
<1>2. Items = Over(ItemsOf[MaxLevels - 1])
  BY <1>1, ItemsOfIs DEF Items
<1> QED  BY <1>2, OverIs, Zenon

\* What is known of an item that is a map.
LEMMA EntriesAre ==
  ASSUME NEW x \in Items, IsMap(x)
  PROVE  /\ x.entries \in Seq([key : Keys, val : Items]) /\ x = Map(x.entries)
         /\ \A i \in DOMAIN x.entries : x.entries[i].key \in Keys /\ x.entries[i].val \in Items
         /\ WellFormed(x) <=> /\ IsDict(x.entries)
                              /\ \A i \in DOMAIN x.entries : WellFormed(x.entries[i].val)
<1> DEFINE s == x.entries
<1>1. IsOver(x, Items)
  BY ItemIs
<1>2. s \in Seq([key : Keys, val : Items]) /\ x = Map(s)
  BY <1>1, KindsAre
<1>3. DOMAIN Children(x) = DOMAIN s /\ \A i \in DOMAIN s : Children(x)[i] = s[i].val
  BY <1>1, ChildrenAre
<1>4. ASSUME NEW i \in DOMAIN s  PROVE s[i].key \in Keys /\ s[i].val \in Items
  <2> DEFINE E == [key : Keys, val : Items]
  <2> HIDE DEF E, s
  <2>1. s[i] \in E
    BY <1>2, <1>4, LenProperties, ElementOfSeq DEF E
  <2> QED  BY <2>1 DEF E
<1>5. WellFormed(x) <=> /\ IsMap(x) => IsDict(s)
                        /\ \A i \in DOMAIN Children(x) : WellFormed(Children(x)[i])
  BY WellFormedIs
<1> HIDE DEF s
<1> QED  BY <1>2, <1>3, <1>4, <1>5 DEF s

\* What is known of an item that is a vector.
LEMMA ElementsAre ==
  ASSUME NEW x \in Items, IsVector(x)
  PROVE  /\ x.items \in Seq(Items) /\ x = Vector(x.items) /\ Children(x) = x.items
         /\ \A i \in DOMAIN x.items : x.items[i] \in Items
         /\ WellFormed(x) <=> \A i \in DOMAIN x.items : WellFormed(x.items[i])
<1>1. IsOver(x, Items)
  BY ItemIs
<1>2. x.items \in Seq(Items) /\ x = Vector(x.items) /\ ~IsMap(x) /\ Children(x) = x.items
  BY <1>1, KindsAre, ChildrenAre
<1>3. \A i \in DOMAIN x.items : x.items[i] \in Items
  BY <1>2, LenProperties, ElementOfSeq
<1> QED  BY <1>2, <1>3, WellFormedIs

\* An empty item and an atom have nothing below them.
LEMMA NothingIn ==
  ASSUME NEW x \in Items, IsNone(x) \/ IsAtom(x)
  PROVE  WellFormed(x) /\ Children(x) = << >> /\ (IsAtom(x) => x = Atom(x.atom) /\ x.atom \in Atoms)
<1>1. IsOver(x, Items)
  BY ItemIs
<1>2. Children(x) = << >> /\ ~IsMap(x)
  BY <1>1, KindsAre, ChildrenAre
<1>3. DOMAIN Children(x) = {}
  BY <1>2
<1>4. IsAtom(x) => x = Atom(x.atom) /\ x.atom \in Atoms
  BY <1>1, KindsAre
<1> QED  BY <1>2, <1>3, <1>4, WellFormedIs

\* A key that is looked up is there afterwards: as it was, or at the end and empty.
LEMMA WithKeyIs ==
  ASSUME NEW s, IsDict(s), NEW k
  PROVE  /\ IsDict(WithKey(s, k)) /\ HasKey(WithKey(s, k), k)
         /\ At(WithKey(s, k), k) = ItemAt(s, k)
         /\ ~HasKey(s, k) => WithKey(s, k) = Append(s, Entry(k, None))
         /\ HasKey(s, k) => WithKey(s, k) = s
<1>1. CASE HasKey(s, k)
  BY <1>1 DEF WithKey, ItemAt
<1>2. CASE ~HasKey(s, k)
  <2> DEFINE e == Entry(k, None)
  <2> DEFINE t == Append(s, e)
  <2>1. e.key = k /\ e.val = None /\ e = Entry(e.key, e.val)
    BY DEF Entry
  <2> HIDE DEF e
  <2>2. s \in Seq(Range(s)) /\ Len(s) \in Nat /\ DOMAIN s = 1 .. Len(s)
    BY DictShape DEF IsDict
  <2>3. /\ t \in Seq(Range(s) \cup {e}) /\ Len(t) = Len(s) + 1 /\ t[Len(s) + 1] = e
        /\ \A j \in 1 .. Len(s) : t[j] = s[j]
    BY <2>2
  <2> HIDE DEF t
  <2>4. t \in Seq(Range(t)) /\ DOMAIN t = 1 .. Len(s) + 1
    BY <2>3, IsSeqOfRange
  <2>5. \A j \in DOMAIN t : j \in DOMAIN s \/ j = Len(s) + 1
    BY <2>2, <2>4
  <2>6. \A j \in DOMAIN s : s[j].key # k
    BY <1>2 DEF HasKey
  <2>7. \A j \in DOMAIN t : t[j] = Entry(t[j].key, t[j].val)
    BY <2>1, <2>2, <2>3, <2>5 DEF IsDict
  <2>8. \A i, j \in DOMAIN t : t[i].key = t[j].key => i = j
    <3>1. \A i, j \in DOMAIN s : s[i].key = s[j].key => i = j
      BY DEF IsDict
    <3> QED  BY <2>1, <2>2, <2>3, <2>5, <2>6, <3>1
  <2>9. IsDict(t)
    BY <2>4, <2>7, <2>8 DEF IsDict
  <2>10. Len(s) + 1 \in DOMAIN t
    BY <2>2, <2>4
  <2>11. HasKey(t, k) /\ At(t, k) = None
    BY <2>1, <2>3, <2>9, <2>10, AtIs
  <2>12. WithKey(s, k) = t
    BY <1>2 DEF WithKey, t, e
  <2> QED  BY <1>2, <2>9, <2>11, <2>12 DEF ItemAt, t, e
<1> QED  BY <1>1, <1>2

\* The path to what an item stands for leads there, by first elements.
LEMMA FirstPathLeads ==
  ASSUME NEW x \in Items
  PROVE  FirstPath[x] \in Seq({1}) /\ LeadsSomewhere(x, FirstPath[x])
<1> DEFINE S == {y \in Items : FirstPath[y] \in Seq({1}) /\ LeadsSomewhere(y, FirstPath[y])}
<1>1. ASSUME NEW y \in Items, Range(Children(y)) \subseteq S  PROVE y \in S
  <2>1. CASE IsVector(y) /\ y.items # << >>
    <3> DEFINE c == y.items[1]
    <3>1. y.items \in Seq(Items) /\ Children(y) = y.items
      BY <2>1, ElementsAre
    <3>2. 1 \in DOMAIN y.items
      BY <2>1, <3>1
    <3>3. c \in Range(Children(y))
      BY <3>1, <3>2 DEF Range
    <3>4. FirstPath[c] \in Seq({1}) /\ LeadsSomewhere(c, FirstPath[c])
      BY <1>1, <3>3
    <3>5. FirstPath[y] = << 1 >> \o FirstPath[c]
      BY <2>1, FirstPathIs
    <3>6. ~IsMap(y)
      BY <2>1, ItemIs, KindsAre
    <3>7. HasChild(y, 1) /\ Child(y, 1) = c
      BY <2>1, <3>2, <3>6 DEF HasChild, Child
    <3> HIDE DEF c
    <3>8. LeadsSomewhere(y, << 1 >>) /\ ItemOf(y, << 1 >>) = c
      BY <3>7, OneStep
    <3>9. << 1 >> \in Seq({1})
      OBVIOUS
    <3>10. LeadsSomewhere(y, << 1 >> \o FirstPath[c])
      BY <3>4, <3>8, <3>9, LeadsOn
    <3>11. << 1 >> \o FirstPath[c] \in Seq({1})
      BY <3>4, <3>9, ConcatProperties
    <3> QED  BY <3>5, <3>10, <3>11
  <2>2. CASE ~(IsVector(y) /\ y.items # << >>)
    <3>1. FirstPath[y] = << >>
      BY <2>2, FirstPathIs
    <3> QED  BY <3>1, NoStep, EmptySeq
  <2> QED  BY <2>1, <2>2
<1> HIDE DEF S
<1>2. Items \subseteq S
  BY <1>1, ItemInduction
<1> QED  BY <1>2 DEF S

\* What a vector stands for is in it, and what replaces it there keeps it well-formed.
LEMMA FirstIs ==
  ASSUME NEW x \in Items, WellFormed(x), NEW y, Replace(x, FirstPath[x], y) \in Items
  PROVE  LET w == Replace(x, FirstPath[x], y)
         IN  /\ y \in Items /\ FirstOf(x) \in Items /\ WellFormed(FirstOf(x))
             /\ WellFormed(y) => WellFormed(w)
             /\ LeadsSomewhere(w, FirstPath[x]) /\ ItemOf(w, FirstPath[x]) = y
<1>1. FirstPath[x] \in Seq({1}) /\ LeadsSomewhere(x, FirstPath[x]) /\ Len(FirstPath[x]) \in Nat
  BY FirstPathLeads, LenProperties
<1>2. OnPath(x, FirstPath[x], y)
  BY <1>1, ReplaceIs
<1>3. y \in Items /\ FirstOf(x) \in Items /\ WellFormed(FirstOf(x))
  BY <1>2 DEF OnPath, FirstOf
<1>4. WellFormed(y) => WellFormed(Replace(x, FirstPath[x], y))
  BY <1>1, ReplaceWellFormed
<1>5. /\ LeadsSomewhere(Replace(x, FirstPath[x], y), FirstPath[x])
      /\ ItemOf(Replace(x, FirstPath[x], y), FirstPath[x]) = y
  BY <1>1, NewLeads
<1> QED  BY <1>3, <1>4, <1>5

\* getOrCreateVector: a new vector, the one that is there, or one around what is there.
LEMMA AsVectorIs ==
  ASSUME NEW x \in Items, WellFormed(x)
  PROVE  LET v == AsVector(x).items
         IN  /\ v \in Seq(Items) /\ \A i \in DOMAIN v : v[i] \in Items /\ WellFormed(v[i])
             /\ AsVector(x) = Vector(v)
             /\ \/ IsNone(x) /\ v = << >>
                \/ IsVector(x) /\ v = x.items
                \/ (IsAtom(x) \/ IsMap(x)) /\ v = << x >>
<1>1. IsOver(x, Items)
  BY ItemIs
<1>2. CASE IsNone(x)
  <2>1. AsVector(x) = Vector(<< >>) /\ AsVector(x).items = << >>
    BY <1>1, <1>2, KindsAre, ConstructorsAre DEF AsVector
  <2>2. << >> \in Seq(Items) /\ \A i \in DOMAIN << >> : FALSE
    OBVIOUS
  <2> QED  BY <1>2, <2>1, <2>2
<1>3. CASE IsVector(x)
  <2>1. AsVector(x) = x
    BY <1>1, <1>3, KindsAre DEF AsVector
  <2> QED  BY <1>3, <2>1, ElementsAre
<1>4. CASE IsAtom(x) \/ IsMap(x)
  <2>1. AsVector(x) = Vector(<< x >>)
    BY <1>1, <1>4, KindsAre DEF AsVector
  <2>2. AsVector(x).items = << x >>
    BY <2>1, ConstructorsAre
  <2>3. << x >> \in Seq(Items) /\ \A i \in DOMAIN << x >> : << x >>[i] = x
    OBVIOUS
  <2> QED  BY <1>4, <2>1, <2>2, <2>3
<1> QED  BY <1>1, <1>2, <1>3, <1>4, KindsAre

\* operator ConfigMap &: a new map, or the one that is there.
LEMMA AsMapIs ==
  ASSUME NEW x \in Items, WellFormed(x), CanBeMap(x)
  PROVE  LET s == AsMap(x).entries
         IN  /\ AsMap(x) = Map(s) /\ IsMap(AsMap(x)) /\ IsDict(s)
             /\ \A i \in DOMAIN s : WellFormed(s[i].val) /\ s[i].val \in Items
             /\ \/ IsNone(x) /\ s = << >>
                \/ IsMap(x) /\ s = x.entries
<1>1. IsOver(x, Items)
  BY ItemIs
<1>2. CASE IsNone(x)
  <2>1. AsMap(x) = Map(<< >>) /\ AsMap(x).entries = << >> /\ IsMap(AsMap(x))
    BY <1>2, ConstructorsAre DEF AsMap
  <2>2. IsDict(<< >>)
    BY EmptySeq DEF IsDict
  <2> QED  BY <1>2, <2>1, <2>2
<1>3. CASE IsMap(x)
  <2>1. AsMap(x) = x
    BY <1>1, <1>3, KindsAre DEF AsMap
  <2> QED  BY <1>3, <2>1, EntriesAre
<1> QED  BY <1>2, <1>3 DEF CanBeMap

-----------------------------------------------------------------------------
\* The paths below r that the calls leave.
LEMMA PathsAre ==
  /\ << >> \in Seq(Keys \cup 1 .. MaxItems)
  /\ \A p \in Seq({1}) : p \in Seq(Keys \cup 1 .. MaxItems)
  /\ \A k \in Keys : << k >> \in Seq(Keys \cup 1 .. MaxItems)
  /\ \A i \in 1 .. MaxItems : << i >> \in Seq(Keys \cup 1 .. MaxItems)
<1> DEFINE P == Keys \cup 1 .. MaxItems
<1>1. {1} \subseteq P
  BY MaxItemsAssumption
<1>2. \A k \in Keys : k \in P
  OBVIOUS
<1>3. \A i \in 1 .. MaxItems : i \in P
  OBVIOUS
<1> HIDE DEF P
<1>4. \A p \in Seq({1}) : p \in Seq(P)
  BY <1>1, SeqMonotonic
<1>5. \A e \in P : << e >> \in Seq(P)
  OBVIOUS
<1>6. << >> \in Seq(P)
  OBVIOUS
<1> QED  BY <1>2, <1>3, <1>4, <1>5, <1>6 DEF P

\* operator[] of a key.
LEMMA KeyIs ==
  ASSUME TypeOK, NEW k \in Keys, Key(k)
  PROVE  LET s == AsMap(FirstOf(r)).entries
             z == Map(WithKey(s, k))
             y == Replace(r, FirstPath[r], z)
         IN  /\ Leave(y, FirstPath[r] \o << k >>) /\ FirstPath[r] \in Seq({1})
             /\ r \in Items /\ WellFormed(r) /\ y \in Items /\ WellFormed(y) /\ z \in Items
             /\ FirstOf(r) \in Items /\ WellFormed(FirstOf(r)) /\ CanBeMap(FirstOf(r))
             /\ LeadsSomewhere(y, FirstPath[r] \o << k >>)
             /\ ItemOf(y, FirstPath[r] \o << k >>) = ItemAt(s, k)
<1> DEFINE path == FirstPath[r]
<1> DEFINE s == AsMap(FirstOf(r)).entries
<1> DEFINE z == Map(WithKey(s, k))
<1> DEFINE y == Replace(r, path, z)
<1>1. CanBeMap(FirstOf(r)) /\ Leave(y, path \o << k >>)
  BY DEF Key
<1>2. r \in Items /\ WellFormed(r) /\ y \in Items
  BY <1>1, LeaveIs
<1>3. path \in Seq({1})
  BY <1>2, FirstPathLeads
<1>4. /\ z \in Items /\ FirstOf(r) \in Items /\ WellFormed(FirstOf(r))
      /\ WellFormed(z) => WellFormed(y)
      /\ LeadsSomewhere(y, path) /\ ItemOf(y, path) = z
  BY <1>2, FirstIs
<1>5. IsDict(s) /\ \A i \in DOMAIN s : WellFormed(s[i].val)
  BY <1>1, <1>4, AsMapIs
<1>6. IsMap(z) /\ z.entries = WithKey(s, k)
  BY ConstructorsAre
<1> HIDE DEF path, s, y
<1>7. IsDict(WithKey(s, k)) /\ HasKey(WithKey(s, k), k) /\ At(WithKey(s, k), k) = ItemAt(s, k)
  BY <1>5, WithKeyIs
<1>8. ASSUME NEW i \in DOMAIN WithKey(s, k)  PROVE WellFormed(WithKey(s, k)[i].val)
  <2>1. WellFormed(None)
    BY SmallItems, NothingIn, ConstructorsAre
  <2>2. CASE HasKey(s, k)
    BY <1>5, <1>8, <2>2, WithKeyIs
  <2>3. CASE ~HasKey(s, k)
    <3> DEFINE e == Entry(k, None)
    <3>1. e.val = None
      BY DEF Entry
    <3>2. WithKey(s, k) = Append(s, e)
      BY <2>3 DEF WithKey
    <3> HIDE DEF e
    <3>3. s \in Seq(Range(s))
      BY <1>5 DEF IsDict
    <3>4. (i \in DOMAIN s /\ WithKey(s, k)[i] = s[i]) \/ WithKey(s, k)[i] = e
      BY <1>8, <3>2, <3>3
    <3> QED  BY <1>5, <2>1, <3>1, <3>4
  <2> QED  BY <2>2, <2>3
<1>9. WellFormed(z)
  BY <1>4, <1>6, <1>7, <1>8, EntriesAre
<1>10. HasChild(z, k) /\ Child(z, k) = ItemAt(s, k)
  BY <1>6, <1>7 DEF HasChild, Child
<1> HIDE DEF z
<1>11. LeadsSomewhere(z, << k >>) /\ ItemOf(z, << k >>) = ItemAt(s, k)
  BY <1>10, OneStep
<1>12. path \in Seq(Keys \cup 1 .. MaxItems) /\ << k >> \in Seq(Keys \cup 1 .. MaxItems)
  BY <1>3, PathsAre
<1>13. LeadsSomewhere(y, path \o << k >>)
  BY <1>4, <1>11, <1>12, LeadsOn
<1>14. ItemOf(y, path \o << k >>) = ItemOf(ItemOf(y, path), << k >>)
  <2>1. Joined(y, path, << k >>)
    BY <1>12, TwoTrails
  <2> QED  BY <2>1 DEF Joined
<1> QED  BY <1>1, <1>2, <1>3, <1>4, <1>9, <1>11, <1>13, <1>14 DEF path, s, z, y

\* operator[](std::string) keeps the tree well-formed and its reference valid.
LEMMA KeyKeepsType ==
  ASSUME TypeOK, NEW k \in Keys, Key(k)
  PROVE  TypeOK'
<1> DEFINE path == FirstPath[r] \o << k >>
<1> DEFINE y == Replace(r, FirstPath[r], Map(WithKey(AsMap(FirstOf(r)).entries, k)))
<1>1. /\ Leave(y, path) /\ FirstPath[r] \in Seq({1})
      /\ WellFormed(y) /\ LeadsSomewhere(y, path)
  BY KeyIs
<1>2. path \in Seq(Keys \cup 1 .. MaxItems)
  BY <1>1, PathsAre, ConcatProperties
<1> HIDE DEF path, y
<1> QED  BY <1>1, <1>2, LeaveKeepsType

\* What puts y where r refers to, and leaves r there or goes one step on.
LEMMA LeaveHere ==
  ASSUME TypeOK, NEW y, Leave(y, << >>), y \in Items => WellFormed(y)
  PROVE  TypeOK'
<1>1. WellFormed(y)
  BY LeaveIs
<1> QED  BY <1>1, NoStep, PathsAre, LeaveKeepsType

\* A call that leaves a vector and goes on at one of its elements keeps the types.
LEMMA LeaveToElement ==
  ASSUME TypeOK, NEW v, NEW i \in 1 .. MaxItems, Leave(Vector(v), << i >>), i \in DOMAIN v,
         v \in Seq(Items), \A j \in DOMAIN v : WellFormed(v[j])
  PROVE  TypeOK'
<1> DEFINE y == Vector(v)
<1>1. IsVector(y) /\ y.items = v
  BY ConstructorsAre
<1>2. y \in Items
  BY LeaveIs
<1>3. ~IsMap(y)
  BY <1>1, <1>2, ItemIs, KindsAre
<1>4. WellFormed(y)
  BY <1>1, <1>2, ElementsAre
<1>5. HasChild(y, i)
  BY <1>1 DEF HasChild
<1> DEFINE path == << i >>
<1>6. LeadsSomewhere(y, path) /\ path \in Seq(Keys \cup 1 .. MaxItems)
  BY <1>5, OneStep, PathsAre
<1>7. Leave(y, path)
  OBVIOUS
<1> HIDE DEF y, path
<1> QED  BY <1>4, <1>6, <1>7, LeaveKeepsType

\* The elements of a vector, of which some are new.
LEMMA VectorWellFormed ==
  ASSUME NEW y \in Items, NEW v, y = Vector(v), \A j \in DOMAIN v : WellFormed(v[j])
  PROVE  WellFormed(y)
<1>1. IsVector(y) /\ y.items = v
  BY ConstructorsAre
<1> QED  BY <1>1, ElementsAre

\* operator[](size_t), also behind the end of the vector.
LEMMA IndexKeepsType ==
  ASSUME TypeOK, NEW i \in 1 .. MaxItems, Index(i)
  PROVE  TypeOK'
<1> DEFINE v == AsVector(r).items
<1>1. root \in Items /\ WellFormed(root) /\ Len(ref) \in Nat /\ LeadsSomewhere(root, ref)
  BY LenProperties DEF TypeOK, Bounded
<1>2. ASSUME r \in Items, WellFormed(r)
      PROVE  v \in Seq(Items) /\ \A j \in DOMAIN v : v[j] \in Items /\ WellFormed(v[j])
  BY <1>2, AsVectorIs
<1> DEFINE longer == Vector(Append(v, None))
<1> DEFINE converted == Replace(root, ref, Vector(v))
<1>3. \/ i <= Len(v) /\ Leave(Vector(v), << i >>)
      \/ i = Len(v) + 1 /\ Leave(longer, << i >>)
      \/ root' = converted /\ Bounded(root') /\ ref' = << >>
  BY DEF Index
<1>4. CASE i <= Len(v) /\ Leave(Vector(v), << i >>)
  <2>1. v \in Seq(Items) /\ \A j \in DOMAIN v : WellFormed(v[j])
    BY <1>2, <1>4, LeaveIs
  <2> HIDE DEF v
  <2>2. i \in DOMAIN v
    BY <1>4, <2>1
  <2> QED  BY <1>4, <2>1, <2>2, LeaveToElement
<1>5. CASE i = Len(v) + 1 /\ Leave(longer, << i >>)
  <2> DEFINE u == Append(v, None)
  <2>1. v \in Seq(Items) /\ \A j \in DOMAIN v : WellFormed(v[j])
    BY <1>2, <1>5, LeaveIs
  <2>2. None \in Items /\ WellFormed(None)
    BY SmallItems, NothingIn, ConstructorsAre
  <2> HIDE DEF v
  <2>3. u \in Seq(Items) /\ i \in DOMAIN u
    BY <1>5, <2>1, <2>2
  <2>4. \A j \in DOMAIN u : (j \in DOMAIN v /\ u[j] = v[j]) \/ u[j] = None
    BY <2>1
  <2>5. \A j \in DOMAIN u : WellFormed(u[j])
    BY <2>1, <2>2, <2>4
  <2>6. Leave(Vector(u), << i >>)
    BY <1>5
  <2> HIDE DEF u
  <2> QED  BY <2>3, <2>5, <2>6, LeaveToElement
<1>6. CASE root' = converted /\ Bounded(root') /\ ref' = << >>
  <2>1. converted \in Items
    BY <1>6 DEF Bounded
  <2>2. OnPath(root, ref, Vector(v))
    BY <1>1, <2>1, ReplaceIs
  <2>3. r \in Items /\ WellFormed(r) /\ Vector(v) \in Items
    BY <2>2 DEF OnPath, r
  <2>4. \A j \in DOMAIN v : WellFormed(v[j])
    BY <1>2, <2>3
  <2> HIDE DEF v
  <2>5. WellFormed(Vector(v))
    BY <2>3, <2>4, VectorWellFormed
  <2>6. WellFormed(converted)
    BY <1>1, <2>1, <2>5, ReplaceWellFormed
  <2> QED  BY <1>6, <2>6, NoStep, PathsAre DEF TypeOK
<1> QED  BY <1>3, <1>4, <1>5, <1>6

\* An atom has no keys that could be there twice.
LEMMA WithAtomWellFormed ==
  ASSUME NEW x \in Items, WellFormed(x), NEW b, WithAtom(x, b) \in Items
  PROVE  WellFormed(WithAtom(x, b)) /\ Atom(b) \in Items
<1>1. Atom(b) \in Items /\ (WellFormed(Atom(b)) => WellFormed(WithAtom(x, b)))
  BY FirstIs DEF WithAtom
<1>2. WellFormed(Atom(b))
  BY <1>1, NothingIn, ConstructorsAre
<1> QED  BY <1>1, <1>2

\* Maps of which one entry is stored.
LEMMA StoreWellFormed ==
  ASSUME NEW s, IsDict(s), \A i \in DOMAIN s : WellFormed(s[i].val), NEW k,
         NEW v, WellFormed(v), NEW y \in Items, y = Map(Store(s, k, v))
  PROVE  WellFormed(y)
<1> DEFINE t == Store(s, k, v)
<1>1. IsMap(y) /\ y.entries = t
  BY ConstructorsAre
<1>2. IsDict(t) /\ \A i \in DOMAIN t : WellFormed(t[i].val)
  <2>1. CASE HasKey(s, k)
    <3>1. PICK i \in DOMAIN s : s[i].key = k
      BY <2>1 DEF HasKey
    <3>2. StoredAt(s, t, i, v)
      BY <3>1, StoreIs
    <3>3. t[i].val = v
      BY <3>2 DEF StoredAt, Entry
    <3> HIDE DEF t
    <3> QED  BY <3>2, <3>3 DEF StoredAt
  <2>2. CASE ~HasKey(s, k)
    <3> DEFINE e == Entry(k, v)
    <3> DEFINE none == WithKey(s, k)
    <3>1. t = Append(s, e) /\ e.val = v /\ e.key = k
      BY <2>2 DEF Store, Entry
    <3>2. none = Append(s, Entry(k, None)) /\ IsDict(none)
      BY <2>2, WithKeyIs DEF WithKey
    <3>3. s \in Seq(Range(s)) /\ Len(s) \in Nat /\ DOMAIN s = 1 .. Len(s)
      BY DictShape DEF IsDict
    <3>4. e = Entry(e.key, e.val) /\ Entry(k, None).key = k
      BY <3>1 DEF Entry
    <3> HIDE DEF e, t, none
    <3>5. /\ t \in Seq(Range(s) \cup {e}) /\ DOMAIN t = 1 .. Len(s) + 1 /\ t[Len(s) + 1] = e
          /\ \A j \in 1 .. Len(s) : t[j] = s[j]
      BY <3>1, <3>3
    <3>6. /\ DOMAIN none = 1 .. Len(s) + 1 /\ none[Len(s) + 1] = Entry(k, None)
          /\ \A j \in 1 .. Len(s) : none[j] = s[j]
      BY <3>2, <3>3
    <3>7. \A j \in DOMAIN t : none[j].key = t[j].key
      BY <3>1, <3>4, <3>5, <3>6
    <3>8. t \in Seq(Range(t))
      BY <3>5, IsSeqOfRange
    <3>9. \A j \in DOMAIN t : t[j] = Entry(t[j].key, t[j].val) /\ WellFormed(t[j].val)
      BY <3>1, <3>3, <3>4, <3>5 DEF IsDict
    <3> QED  BY <3>2, <3>5, <3>6, <3>7, <3>8, <3>9 DEF IsDict
  <2> QED  BY <2>1, <2>2
<1> QED  BY <1>1, <1>2, EntriesAre

\* A read or an assignment of a value.
LEMMA ReadKeepsType ==
  ASSUME TypeOK, NEW b, Leave(WithAtom(r, b), << >>)
  PROVE  TypeOK'
<1>1. r \in Items /\ WellFormed(r)
  BY LeaveIs
<1> QED  BY <1>1, WithAtomWellFormed, LeaveHere

\* An assignment of an empty map, vector or item.
LEMMA AssignNewKeepsType ==
  ASSUME TypeOK, AssignNew
  PROVE  TypeOK'
<1>1. PICK y \in {Map(<< >>), Vector(<< >>), None} : Leave(y, << >>)
  BY DEF AssignNew
<1>2. ASSUME y \in Items  PROVE WellFormed(y)
  <2>1. CASE y = Map(<< >>)
    <3>1. IsMap(y) /\ y.entries = << >>
      BY <2>1, ConstructorsAre
    <3>2. IsDict(<< >>)
      BY EmptySeq DEF IsDict
    <3> QED  BY <1>2, <3>1, <3>2, EntriesAre
  <2>2. CASE y = Vector(<< >>)
    <3>1. \A j \in DOMAIN << >> : FALSE
      OBVIOUS
    <3> QED  BY <1>2, <2>2, <3>1, VectorWellFormed
  <2>3. CASE y = None
    BY <1>2, <2>3, NothingIn, ConstructorsAre
  <2> QED  BY <2>1, <2>2, <2>3
<1> QED  BY <1>1, <1>2, LeaveHere

\* hasKey, find and beginMap.
LEMMA AskMapKeepsType ==
  ASSUME TypeOK, AskMap
  PROVE  TypeOK'
<1>1. CanBeMap(r) /\ Leave(AsMap(r), << >>)
  BY DEF AskMap
<1>2. r \in Items /\ WellFormed(r) /\ AsMap(r) \in Items
  BY <1>1, LeaveIs
<1>3. WellFormed(AsMap(r))
  BY <1>1, <1>2, AsMapIs, EntriesAre
<1> QED  BY <1>1, <1>3, LeaveHere

\* begin and end.
LEMMA AskVectorKeepsType ==
  ASSUME TypeOK, AskVector
  PROVE  TypeOK'
<1> DEFINE v == AsVector(r).items
<1>1. Leave(AsVector(r), << >>)
  BY DEF AskVector
<1>2. r \in Items /\ WellFormed(r) /\ AsVector(r) \in Items
  BY <1>1, LeaveIs
<1>3. AsVector(r) = Vector(v) /\ \A i \in DOMAIN v : WellFormed(v[i])
  BY <1>2, AsVectorIs
<1> HIDE DEF v
<1>4. WellFormed(AsVector(r))
  BY <1>2, <1>3, VectorWellFormed
<1> QED  BY <1>1, <1>4, LeaveHere

\* append and operator+=.
LEMMA AppendValueKeepsType ==
  ASSUME TypeOK, NEW a \in Vals, AppendValue(a)
  PROVE  TypeOK'
<1> DEFINE v == AsVector(r).items
<1> DEFINE u == Append(v, Atom(a))
<1>1. Leave(Vector(u), << >>)
  BY DEF AppendValue
<1>2. r \in Items /\ WellFormed(r) /\ Vector(u) \in Items
  BY <1>1, LeaveIs
<1>3. v \in Seq(Items) /\ \A i \in DOMAIN v : WellFormed(v[i])
  BY <1>2, AsVectorIs
<1>4. WellFormed(Atom(a))
  BY SmallItems, NothingIn, ConstructorsAre, ValsAssumption
<1> HIDE DEF v
<1>5. \A j \in DOMAIN u : (j \in DOMAIN v /\ u[j] = v[j]) \/ u[j] = Atom(a)
  BY <1>3
<1> HIDE DEF u
<1>6. WellFormed(Vector(u))
  BY <1>2, <1>3, <1>4, <1>5, VectorWellFormed
<1> QED  BY <1>1, <1>6, LeaveHere

\* What is stored under a key that is there.
StoredIn(x, y, z, v) ==
  /\ z \in Items /\ WellFormed(z) /\ v \in Items
  /\ WellFormed(v) => WellFormed(y)
  /\ \E i : SameBut(x, y, i) /\ Children(x)[i] = z /\ Children(y)[i] = v

\* A store under a key of a map changes one child.
LEMMA StoredIs ==
  ASSUME NEW x \in Items, WellFormed(x), IsMap(x), NEW k, HasKey(x.entries, k), NEW v,
         NEW y \in Items, y = Map(Store(x.entries, k, v))
  PROVE  StoredIn(x, y, At(x.entries, k), v)
<1>1. HasChild(x, k) /\ Child(x, k) = At(x.entries, k)
  BY DEF HasChild, Child
<1>2. y = WithChild(x, k, v)
  BY DEF WithChild
<1>3. Stepped(x, y, k, v)
  BY <1>1, <1>2, OneChild
<1>4. IsDict(x.entries) /\ \A i \in DOMAIN x.entries : WellFormed(x.entries[i].val)
  BY EntriesAre
<1>5. WellFormed(v) => WellFormed(y)
  BY <1>4, StoreWellFormed
<1> QED  BY <1>1, <1>3, <1>5 DEF Stepped, StoredIn

\* ConfigMap::get leaves the map with the item of the key read, and nothing else changed.
LEMMA GetIs ==
  ASSUME TypeOK, NEW k \in Keys, Get(k)
  PROVE  LET x == At(r.entries, k)
             z == WithAtom(x, AtomOf(x, Empty))
             y == Map(Store(r.entries, k, z))
         IN  /\ Leave(y, << >>) /\ CanBeAtom(x) /\ r \in Items /\ WellFormed(r) /\ IsMap(r)
             /\ x \in Items /\ WellFormed(x) /\ z \in Items /\ y \in Items /\ WellFormed(y)
             /\ \E i : SameBut(r, y, i) /\ Children(r)[i] = x /\ Children(y)[i] = z
<1> DEFINE x == At(r.entries, k)
<1> DEFINE z == WithAtom(x, AtomOf(x, Empty))
<1> DEFINE y == Map(Store(r.entries, k, z))
<1>1. IsMap(r) /\ HasKey(r.entries, k) /\ CanBeAtom(x) /\ Leave(y, << >>)
  BY DEF Get
<1>2. r \in Items /\ WellFormed(r) /\ y \in Items
  BY <1>1, LeaveIs
<1>3. /\ x \in Items /\ WellFormed(x) /\ z \in Items
      /\ WellFormed(z) => WellFormed(y)
      /\ \E i : SameBut(r, y, i) /\ Children(r)[i] = x /\ Children(y)[i] = z
  <2>1. StoredIn(r, y, x, z)
    BY <1>1, <1>2, StoredIs
  <2> QED  BY <2>1 DEF StoredIn
<1>4. WellFormed(z)
  BY <1>3, WithAtomWellFormed
<1> QED  BY <1>1, <1>2, <1>3, <1>4

\* ConfigMap::get keeps the types.
LEMMA GetKeepsType ==
  ASSUME TypeOK, NEW k \in Keys, Get(k)
  PROVE  TypeOK'
BY GetIs, LeaveHere

\* ConfigMap::getOrCreate keeps the types.
LEMMA GetOrCreateKeepsType ==
  ASSUME TypeOK, NEW k \in Keys, NEW d \in Vals, GetOrCreate(k, d)
  PROVE  TypeOK'
<1>1. CASE Get(k)
  BY <1>1, GetKeepsType
<1>2. CASE IsMap(r) /\ Leave(Map(Store(r.entries, k, Atom(d))), << >>)
  <2> DEFINE y == Map(Store(r.entries, k, Atom(d)))
  <2>1. r \in Items /\ WellFormed(r) /\ y \in Items
    BY <1>2, LeaveIs
  <2>2. WellFormed(Atom(d))
    BY SmallItems, NothingIn, ConstructorsAre, ValsAssumption
  <2>3. IsDict(r.entries) /\ \A i \in DOMAIN r.entries : WellFormed(r.entries[i].val)
    BY <1>2, <2>1, EntriesAre
  <2>4. WellFormed(y)
    BY <2>1, <2>2, <2>3, StoreWellFormed
  <2> QED  BY <1>2, <2>4, LeaveHere
<1> QED  BY <1>1, <1>2 DEF GetOrCreate

\* erase of a key and of an element.
LEMMA EraseKeepsType ==
  ASSUME TypeOK
  PROVE  /\ \A k \in Keys : EraseKey(k) => TypeOK'
         /\ \A i \in 1 .. MaxItems : EraseElement(i) => TypeOK'
<1>1. ASSUME NEW k \in Keys, EraseKey(k)  PROVE TypeOK'
  <2> DEFINE s == r.entries
  <2> DEFINE i == CHOOSE j \in DOMAIN s : s[j].key = k
  <2> DEFINE t == Cut(s, i, i + 1)
  <2>1. IsMap(r) /\ HasKey(s, k) /\ Leave(Map(t), << >>)
    BY <1>1 DEF EraseKey
  <2>2. r \in Items /\ WellFormed(r) /\ Map(t) \in Items
    BY <2>1, LeaveIs
  <2>3. IsDict(s) /\ \A j \in DOMAIN s : WellFormed(s[j].val)
    BY <2>1, <2>2, EntriesAre
  <2>4. i \in DOMAIN s
    BY <2>1 DEF HasKey
  <2> HIDE DEF s, i
  <2>5. s \in Seq(Range(s)) /\ DOMAIN s = 1 .. Len(s) /\ Len(s) \in Nat
    BY <2>3, DictShape DEF IsDict
  <2>6. IsDict(t)
    BY <2>3, <2>4, <2>5, CutKeepsDict
  <2>7. /\ Len(t) = Len(s) - 1
        /\ \A j \in 1 .. Len(s) - 1 : t[j] = IF j < i THEN s[j] ELSE s[j + 1]
    BY <2>4, <2>5, CutIs
  <2>8. DOMAIN t = 1 .. Len(s) - 1
    BY <2>6, <2>7, DictShape
  <2> HIDE DEF t
  <2>9. \A j \in DOMAIN t : \E l \in DOMAIN s : t[j] = s[l]
    BY <2>5, <2>7, <2>8
  <2>10. IsMap(Map(t)) /\ Map(t).entries = t
    BY ConstructorsAre
  <2>11. \A j \in DOMAIN t : WellFormed(t[j].val)
    BY <2>3, <2>9
  <2>12. WellFormed(Map(t))
    BY <2>2, <2>6, <2>10, <2>11, EntriesAre
  <2> QED  BY <2>1, <2>12, LeaveHere
<1>2. ASSUME NEW i \in 1 .. MaxItems, EraseElement(i)  PROVE TypeOK'
  <2> DEFINE s == r.items
  <2> DEFINE t == Cut(s, i, i + 1)
  <2>1. IsVector(r) /\ i \in DOMAIN s /\ Leave(Vector(t), << >>)
    BY <1>2 DEF EraseElement
  <2>2. r \in Items /\ WellFormed(r) /\ Vector(t) \in Items
    BY <2>1, LeaveIs
  <2>3. s \in Seq(Items) /\ \A j \in DOMAIN s : WellFormed(s[j])
    BY <2>1, <2>2, ElementsAre
  <2> HIDE DEF s
  <2>4. DOMAIN s = 1 .. Len(s) /\ Len(s) \in Nat
    BY <2>3
  <2>5. /\ t \in Seq(Items) /\ Len(t) = Len(s) - 1
        /\ \A j \in 1 .. Len(s) - 1 : t[j] = IF j < i THEN s[j] ELSE s[j + 1]
    BY <2>1, <2>3, <2>4, CutIs
  <2> HIDE DEF t
  <2>6. DOMAIN t = 1 .. Len(s) - 1
    BY <2>5
  <2>7. ASSUME NEW j \in DOMAIN t  PROVE \E l \in DOMAIN s : t[j] = s[l]
    <3>1. j \in 1 .. Len(s) - 1
      BY <2>6
    <3>2. CASE j < i
      <4>1. t[j] = s[j] /\ j \in DOMAIN s
        BY <2>4, <2>5, <3>1, <3>2
      <4> QED  BY <4>1
    <3>3. CASE ~(j < i)
      <4>1. t[j] = s[j + 1] /\ j + 1 \in DOMAIN s
        BY <2>4, <2>5, <3>1, <3>3
      <4> QED  BY <4>1
    <3> QED  BY <3>2, <3>3
  <2>8. WellFormed(Vector(t))
    BY <2>2, <2>3, <2>7, VectorWellFormed
  <2> QED  BY <2>1, <2>8, LeaveHere
<1> QED  BY <1>1, <1>2

\* The entries of two maps merged: each value is one of theirs.
LEMMA MergedValues ==
  ASSUME NEW s, IsDict(s), NEW u, IsDict(u), NEW m, m = Merged(s, u)
  PROVE  /\ IsDict(m)
         /\ \A j \in DOMAIN m : \/ \E i \in DOMAIN s : m[j].val = s[i].val
                                \/ \E i \in DOMAIN u : m[j].val = u[i].val
<1> DEFINE new == NewEntries(u, s)
<1>1. /\ IsDict(m) /\ Len(m) = Len(s) + Len(new)
      /\ \A j \in 1 .. Len(s) :
           m[j] = Entry(s[j].key, IF HasKey(u, s[j].key) THEN At(u, s[j].key) ELSE s[j].val)
      /\ \A j \in 1 .. Len(new) : m[Len(s) + j] = new[j]
  BY MergedIs
<1>2. IsDict(new) /\ \A j \in DOMAIN new : \E i \in DOMAIN u : new[j] = u[i] /\ ~HasKey(s, u[i].key)
  BY NewEntriesAre
<1> HIDE DEF new
<1>3. /\ DOMAIN s = 1 .. Len(s) /\ Len(s) \in Nat /\ DOMAIN new = 1 .. Len(new) /\ Len(new) \in Nat
      /\ DOMAIN m = 1 .. Len(m) /\ DOMAIN u = 1 .. Len(u)
  BY <1>1, <1>2, DictShape
<1>4. ASSUME NEW j \in 1 .. Len(s)
      PROVE  m[j].val = s[j].val \/ \E i \in DOMAIN u : m[j].val = u[i].val
  <2> DEFINE v == IF HasKey(u, s[j].key) THEN At(u, s[j].key) ELSE s[j].val
  <2>1. m[j] = Entry(s[j].key, v)
    BY <1>1
  <2>2. m[j].val = v
    <3> HIDE DEF v
    <3> QED  BY <2>1 DEF Entry
  <2>3. ASSUME HasKey(u, s[j].key)  PROVE \E i \in DOMAIN u : At(u, s[j].key) = u[i].val
    <3>1. PICK i \in DOMAIN u : u[i].key = s[j].key
      BY <2>3 DEF HasKey
    <3>2. At(u, u[i].key) = u[i].val
      BY <3>1, AtIs
    <3> QED  BY <3>1, <3>2
  <2> QED  BY <2>2, <2>3
<1>5. \A j \in 1 .. Len(new) : \E i \in DOMAIN u : m[Len(s) + j].val = u[i].val
  BY <1>1, <1>2, <1>3
<1>6. \A j \in DOMAIN m :
        j \in 1 .. Len(s) \/ (j - Len(s) \in 1 .. Len(new) /\ j = Len(s) + (j - Len(s)))
  BY <1>1, <1>3
<1>7. ASSUME NEW j \in DOMAIN m
      PROVE  \/ \E i \in DOMAIN s : m[j].val = s[i].val
             \/ \E i \in DOMAIN u : m[j].val = u[i].val
  <2>1. CASE j \in 1 .. Len(s)
    BY <1>3, <1>4, <2>1
  <2>2. CASE j - Len(s) \in 1 .. Len(new) /\ j = Len(s) + (j - Len(s))
    BY <1>5, <2>2
  <2> QED  BY <1>6, <2>1, <2>2
<1> QED  BY <1>1, <1>7

\* A map that is appended to another makes one with unique keys.
LEMMA MergedWellFormed ==
  ASSUME NEW s, IsDict(s), \A i \in DOMAIN s : WellFormed(s[i].val),
         NEW u, IsDict(u), \A i \in DOMAIN u : WellFormed(u[i].val),
         NEW y \in Items, y = Map(Merged(s, u))
  PROVE  WellFormed(y)
<1> DEFINE m == Merged(s, u)
<1>1. IsDict(m) /\ \A j \in DOMAIN m : WellFormed(m[j].val)
  BY MergedValues
<1>2. IsMap(y) /\ y.entries = m
  BY ConstructorsAre
<1> HIDE DEF m
<1> QED  BY <1>1, <1>2, EntriesAre

\* appendMap keeps the types.
LEMMA AppendMapKeepsType ==
  ASSUME TypeOK, NEW u \in Updates, AppendMap(u)
  PROVE  TypeOK'
<1> DEFINE s == AsMap(r).entries
<1> DEFINE y == Map(Merged(s, u.entries))
<1>1. CanBeMap(r) /\ Leave(y, << >>)
  BY DEF AppendMap
<1>2. r \in Items /\ WellFormed(r) /\ y \in Items
  BY <1>1, LeaveIs
<1>3. IsDict(s) /\ \A i \in DOMAIN s : WellFormed(s[i].val)
  BY <1>1, <1>2, AsMapIs
<1>4. IsDict(u.entries) /\ \A i \in DOMAIN u.entries : WellFormed(u.entries[i].val)
  BY UpdatesAssumption, EntriesAre DEF Maps
<1> HIDE DEF s
<1>5. WellFormed(y)
  BY <1>2, <1>3, <1>4, MergedWellFormed
<1> QED  BY <1>1, <1>5, LeaveHere

-----------------------------------------------------------------------------
\* The update of a map, level by level.
UpdateEntries(f, x, u) ==
  [i \in DOMAIN u.entries |->
     LET e == u.entries[i]
     IN  IF AreMaps(x.entries, e) THEN Entry(e.key, f[e.val][At(x.entries, e.key)]) ELSE e]

\* Updated is what its recursive definition says, by existence level by level of the update.
LEMMA UpdatedIs ==
  \A u, x \in Maps : Updated[u][x] = Map(Merged(x.entries, UpdateEntries(Updated, x, u)))
<1> DEFINE of(f, u) == [x \in Maps |-> Map(Merged(x.entries, UpdateEntries(f, x, u)))]
<1>1. Updated = CHOOSE f : f = [u \in Maps |-> of(f, u)]
  BY Zenon DEF Updated, UpdateEntries
<1>2. ASSUME NEW f, NEW g, NEW u \in Maps,
             \A y \in Range(Children(u)) : IsMap(y) => f[y] = g[y]
      PROVE  of(f, u) = of(g, u)
  <2>1. \A i \in DOMAIN u.entries : u.entries[i].val \in Range(Children(u))
    <3>1. u \in Items /\ IsMap(u)
      BY DEF Maps
    <3>2. /\ DOMAIN Children(u) = DOMAIN u.entries
          /\ \A i \in DOMAIN u.entries : Children(u)[i] = u.entries[i].val
      BY <3>1, ItemIs, ChildrenAre
    <3> QED  BY <3>2 DEF Range
  <2>2. ASSUME NEW x \in Maps  PROVE UpdateEntries(f, x, u) = UpdateEntries(g, x, u)
    <3>1. ASSUME NEW i \in DOMAIN u.entries, AreMaps(x.entries, u.entries[i])
          PROVE  f[u.entries[i].val] = g[u.entries[i].val]
      BY <1>2, <2>1, <3>1 DEF AreMaps
    <3> QED  BY <3>1 DEF UpdateEntries
  <2> QED  BY <2>2
<1> HIDE DEF of
<1> DEFINE MapsOf(n) == {u \in ItemsOf[n] : IsMap(u)}
<1> DEFINE T == {n \in Nat : n <= MaxLevels => \E f : f = [u \in MapsOf(n) |-> of(f, u)]}
<1>3. 0 \in T
  <2> DEFINE f == [u \in {} |-> {}]
  <2>1. f = [u \in MapsOf(0) |-> of(f, u)]
    BY ItemsOfIs
  <2> HIDE DEF f
  <2> QED  BY <2>1
<1> HIDE DEF MapsOf
<1>4. ASSUME NEW n \in Nat, n \in T  PROVE n + 1 \in T
  <2> SUFFICES ASSUME n + 1 <= MaxLevels
               PROVE  \E f : f = [u \in MapsOf(n + 1) |-> of(f, u)]
    OBVIOUS
  <2>1. n <= MaxLevels
    BY NextLevel
  <2>2. PICK f : f = [u \in MapsOf(n) |-> of(f, u)]
    BY <1>4, <2>1
  <2> DEFINE g == [u \in MapsOf(n + 1) |-> of(f, u)]
  <2>3. \A u \in MapsOf(n + 1) :
          /\ u \in Maps
          /\ \A y \in Range(Children(u)) : IsMap(y) => y \in MapsOf(n) /\ y \in MapsOf(n + 1)
    BY NextLevel DEF Maps, MapsOf
  <2>4. \A y \in MapsOf(n) : f[y] = of(f, y)
    BY <2>2
  <2>5. \A y \in MapsOf(n + 1) : g[y] = of(f, y)
    OBVIOUS
  <2> HIDE DEF g
  <2>6. ASSUME NEW u \in MapsOf(n + 1)  PROVE of(f, u) = of(g, u)
    <3>1. \A y \in Range(Children(u)) : IsMap(y) => f[y] = g[y]
      BY <2>3, <2>4, <2>5
    <3> QED  BY <1>2, <2>3, <3>1
  <2>7. g = [u \in MapsOf(n + 1) |-> of(g, u)]
    BY <2>6 DEF g
  <2> QED  BY <2>7
<1> HIDE DEF T
<1>5. MaxLevels \in T
  BY <1>3, <1>4, Induction, MaxLevelsAssumption
<1>6. \E f : f = [u \in Maps |-> of(f, u)]
  BY <1>5 DEF T, Maps, MapsOf, Items
<1>7. Updated = [u \in Maps |-> of(Updated, u)]
  BY <1>1, <1>6, Zenon
<1>8. ASSUME NEW u \in Maps  PROVE Updated[u] = of(Updated, u)
  BY <1>7
<1> QED  BY <1>8 DEF of

\* The values of appended maps are the values of both.
LEMMA MergedIn ==
  ASSUME NEW P, NEW s, s \in Seq([key : Keys, val : P]), NEW u, u \in Seq([key : Keys, val : P])
  PROVE  Merged(s, u) \in Seq([key : Keys, val : P])
<1> DEFINE E == [key : Keys, val : P]
<1>1. \A e \in E : Entry(e.key, e.val) = e
  BY DEF Entry
<1> HIDE DEF E
<1>2. s \in Seq(E) /\ u \in Seq(E)
  BY DEF E
<1>3. \A n \in 1 .. Len(u) : u[n] \in E
  BY <1>2, ElementOfSeq
<1>4. \A n \in 1 .. Len(u) : Entry(u[n].key, u[n].val) \in E
  BY <1>1, <1>3
<1>5. PICK f : MergedSoFar(f, E, u, s)
  BY <1>2, <1>4, MergedUnfolds
<1>6. Len(u) \in 0 .. Len(u)
  BY <1>2
<1>7. Merged(s, u) \in Seq(E)
  BY <1>5, <1>6 DEF MergedSoFar
<1> QED  BY <1>7 DEF E

\* What operator ConfigMap & leaves is a well-formed map.
LEMMA AsMapWellFormed ==
  ASSUME NEW x \in Items, WellFormed(x), CanBeMap(x)
  PROVE  AsMap(x) \in Items /\ IsMap(AsMap(x)) /\ WellFormed(AsMap(x))
<1>1. IsMap(AsMap(x)) /\ (AsMap(x) = x \/ AsMap(x) = Map(<< >>))
  BY ConstructorsAre DEF AsMap, CanBeMap
<1>2. Map(<< >>) \in Items
  <2>1. MaxLevels \in 1 .. MaxLevels
    BY MaxLevelsAssumption
  <2>2. Items = Over(ItemsOf[MaxLevels - 1])
    BY <2>1, ItemsOfIs DEF Items
  <2>3. << >> \in Seq([key : Keys, val : ItemsOf[MaxLevels - 1]])
    BY EmptySeq
  <2> QED  BY <2>2, <2>3, OverIs
<1>3. WellFormed(Map(<< >>))
  <2>1. IsMap(Map(<< >>)) /\ Map(<< >>).entries = << >>
    BY ConstructorsAre
  <2>2. IsDict(<< >>)
    BY EmptySeq DEF IsDict
  <2> QED  BY <1>2, <2>1, <2>2, EntriesAre
<1> QED  BY <1>1, <1>2, <1>3

\* What an update makes of a map has no more levels than the two, and what is true of
\* the items in both remains true.
LEMMA UpdatedLevel ==
  ASSUME NEW n \in Nat, n <= MaxLevels, NEW u \in ItemsOf[n], NEW x \in ItemsOf[n],
         IsMap(u), IsMap(x), WellFormed(u), WellFormed(x)
  PROVE  /\ Updated[u][x] \in ItemsOf[n] /\ WellFormed(Updated[u][x])
         /\ CanDump(u) /\ CanDump(x) => CanDump(Updated[u][x])
<1> DEFINE ok(k) ==
      \A v, y \in ItemsOf[k] :
        IsMap(v) /\ IsMap(y) /\ WellFormed(v) /\ WellFormed(y) =>
          /\ Updated[v][y] \in ItemsOf[k] /\ WellFormed(Updated[v][y])
          /\ CanDump(v) /\ CanDump(y) => CanDump(Updated[v][y])
<1> DEFINE T == {k \in Nat : k <= MaxLevels => ok(k)}
<1>1. 0 \in T
  BY ItemsOfIs
<1>2. ASSUME NEW k \in Nat, k \in T  PROVE k + 1 \in T
  <2> SUFFICES ASSUME k + 1 <= MaxLevels, NEW v \in ItemsOf[k + 1], NEW y \in ItemsOf[k + 1],
                      IsMap(v), IsMap(y), WellFormed(v), WellFormed(y)
               PROVE  /\ Updated[v][y] \in ItemsOf[k + 1] /\ WellFormed(Updated[v][y])
                      /\ CanDump(v) /\ CanDump(y) => CanDump(Updated[v][y])
    OBVIOUS
  <2> HIDE DEF ok
  <2> DEFINE P == ItemsOf[k]
  <2> DEFINE s == y.entries
  <2> DEFINE t == v.entries
  <2> DEFINE w == UpdateEntries(Updated, y, v)
  <2> DEFINE m == Merged(s, w)
  <2>1. /\ k <= MaxLevels /\ v \in Items /\ y \in Items
        /\ IsOver(v, P) /\ IsOver(y, P) /\ ItemsOf[k + 1] = Over(P) /\ P \subseteq Items
    <3>1. k + 1 \in 1 .. MaxLevels /\ (k + 1) - 1 = k /\ k \in 0 .. MaxLevels
      BY MaxLevelsAssumption
    <3> QED  BY <3>1, NextLevel, ItemsOfIs, LevelsGrow
  <2>2. ok(k)
    BY <1>2, <2>1
  <2>3. s \in Seq([key : Keys, val : P]) /\ t \in Seq([key : Keys, val : P])
    BY <2>1, KindsAre
  <2>4. /\ IsDict(s) /\ \A i \in DOMAIN s : WellFormed(s[i].val)
        /\ IsDict(t) /\ \A i \in DOMAIN t : WellFormed(t[i].val)
    BY <2>1, EntriesAre
  <2>5. /\ CanDump(y) => \A i \in DOMAIN s : CanDump(s[i].val)
        /\ CanDump(v) => \A i \in DOMAIN t : CanDump(t[i].val)
    <3>1. /\ DOMAIN Children(y) = DOMAIN s /\ \A i \in DOMAIN s : Children(y)[i] = s[i].val
          /\ DOMAIN Children(v) = DOMAIN t /\ \A i \in DOMAIN t : Children(v)[i] = t[i].val
      BY <2>1, ChildrenAre
    <3> HIDE DEF s, t
    <3> QED  BY <2>1, <3>1, CanDumpIs
  <2>6. Updated[v][y] = Map(m)
    BY <2>1, UpdatedIs DEF Maps
  <2>7. /\ DOMAIN w = DOMAIN t
        /\ \A i \in DOMAIN t :
             w[i] = IF AreMaps(s, t[i]) THEN Entry(t[i].key, Updated[t[i].val][At(s, t[i].key)])
                    ELSE t[i]
    BY DEF UpdateEntries
  <2> HIDE DEF P, s, t, w
  <2>8. \A i \in DOMAIN t : t[i].key \in Keys /\ t[i].val \in P
    <3> DEFINE E == [key : Keys, val : P]
    <3> SUFFICES ASSUME NEW i \in DOMAIN t  PROVE t[i].key \in Keys /\ t[i].val \in P
      OBVIOUS
    <3> HIDE DEF E
    <3>1. t[i] \in E
      BY <2>3, LenProperties, ElementOfSeq DEF E
    <3> QED  BY <3>1 DEF E
  <2>9. \A i \in DOMAIN s : s[i].val \in P
    <3> DEFINE E == [key : Keys, val : P]
    <3> SUFFICES ASSUME NEW i \in DOMAIN s  PROVE s[i].val \in P
      OBVIOUS
    <3> HIDE DEF E
    <3>1. s[i] \in E
      BY <2>3, LenProperties, ElementOfSeq DEF E
    <3> QED  BY <3>1 DEF E
  <2>10. ASSUME NEW i \in DOMAIN t
         PROVE  /\ w[i] = Entry(t[i].key, w[i].val) /\ w[i].key = t[i].key
                /\ w[i].val \in P /\ WellFormed(w[i].val)
                /\ CanDump(v) /\ CanDump(y) => CanDump(w[i].val)
    <3>1. CASE ~AreMaps(s, t[i])
      <4>1. w[i] = t[i] /\ t[i] = Entry(t[i].key, t[i].val)
        BY <2>4, <2>7, <3>1 DEF IsDict
      <4> QED  BY <2>4, <2>5, <2>8, <4>1
    <3>2. CASE AreMaps(s, t[i])
      <4> DEFINE z == At(s, t[i].key)
      <4> DEFINE new == Updated[t[i].val][z]
      <4>1. HasKey(s, t[i].key) /\ IsMap(z) /\ IsMap(t[i].val)
        BY <3>2 DEF AreMaps
      <4>2. PICK j \in DOMAIN s : s[j].key = t[i].key
        BY <4>1 DEF HasKey
      <4>3. z = s[j].val
        BY <2>4, <4>2, AtIs
      <4>4. w[i] = Entry(t[i].key, new)
        BY <2>7, <3>2
      <4> HIDE DEF z
      <4>5. z \in P /\ t[i].val \in P /\ WellFormed(z) /\ WellFormed(t[i].val)
        BY <2>4, <2>8, <2>9, <4>3
      <4>6. /\ new \in P /\ WellFormed(new)
            /\ CanDump(t[i].val) /\ CanDump(z) => CanDump(new)
        BY <2>2, <4>1, <4>5 DEF ok, P
      <4> HIDE DEF new
      <4>7. w[i].val = new /\ w[i].key = t[i].key
        BY <4>4 DEF Entry
      <4> QED  BY <2>5, <4>3, <4>4, <4>6, <4>7
    <3> QED  BY <3>1, <3>2
  <2>11. t \in Seq(Range(t)) /\ DOMAIN t = 1 .. Len(t) /\ Len(t) \in Nat
    BY <2>4, DictShape DEF IsDict
  <2>12. w = [i \in 1 .. Len(t) |-> w[i]]
    BY <2>7, <2>11 DEF w, UpdateEntries, t
  <2>13. w \in Seq([key : Keys, val : P])
    <3> DEFINE E == [key : Keys, val : P]
    <3>1. \A a \in Keys, b \in P : Entry(a, b) \in E
      BY DEF Entry
    <3> HIDE DEF E
    <3>2. \A i \in 1 .. Len(t) : w[i] \in E
      BY <2>8, <2>10, <2>11, <3>1
    <3>3. w \in Seq(E)
      BY <2>11, <2>12, <3>2
    <3> QED  BY <3>3 DEF E
  <2>14. IsDict(w)
    <3>1. w \in Seq(Range(w))
      BY <2>13, IsSeqOfRange
    <3>2. \A i, j \in DOMAIN t : t[i].key = t[j].key => i = j
      BY <2>4 DEF IsDict
    <3>3. \A i \in DOMAIN t : w[i].key = t[i].key /\ w[i] = Entry(t[i].key, w[i].val)
      BY <2>10
    <3>4. DOMAIN w = DOMAIN t
      BY <2>7
    <3> QED  BY <3>1, <3>2, <3>3, <3>4 DEF IsDict
  <2>15. m \in Seq([key : Keys, val : P])
    BY <2>3, <2>13, MergedIn
  <2>16. Map(m) \in ItemsOf[k + 1] /\ Map(m) \in Items
    <3>1. Map(m) \in ItemsOf[k + 1]
      BY <2>1, <2>15, OverIs
    <3> QED  BY <3>1, NextLevel
  <2>17. /\ IsDict(m)
         /\ \A j \in DOMAIN m : \/ \E i \in DOMAIN s : m[j].val = s[i].val
                                \/ \E i \in DOMAIN w : m[j].val = w[i].val
    BY <2>4, <2>14, MergedValues
  <2>18. IsMap(Map(m)) /\ Map(m).entries = m
    BY ConstructorsAre
  <2> HIDE DEF m
  <2>19. \A j \in DOMAIN m : WellFormed(m[j].val)
    BY <2>4, <2>7, <2>10, <2>17
  <2>20. WellFormed(Map(m))
    BY <2>16, <2>17, <2>18, <2>19, EntriesAre
  <2>21. ASSUME CanDump(v), CanDump(y)  PROVE CanDump(Map(m))
    <3>1. \A j \in DOMAIN m : CanDump(m[j].val)
      BY <2>5, <2>7, <2>10, <2>17, <2>21
    <3>2. IsOver(Map(m), Items)
      BY <2>16, ItemIs
    <3>3. ~IsNone(Map(m)) /\ DOMAIN Children(Map(m)) = DOMAIN m
          /\ \A j \in DOMAIN m : Children(Map(m))[j] = m[j].val
      <4>1. ~IsNone(Map(m))
        BY <2>18 DEF IsMap, IsNone
      <4> QED  BY <2>18, <3>2, <4>1, ChildrenAre
    <3> QED  BY <2>16, <3>1, <3>3, CanDumpIs
  <2> QED  BY <2>6, <2>16, <2>20, <2>21
<1> HIDE DEF T
<1>3. n \in T
  BY <1>1, <1>2, Induction
<1> QED  BY <1>3 DEF T

\* updateMap keeps the types, however deep it goes.
LEMMA UpdateMapKeepsType ==
  ASSUME TypeOK, NEW u \in Updates, UpdateMap(u)
  PROVE  TypeOK'
<1> DEFINE x == AsMap(r)
<1> DEFINE y == Updated[u][x]
<1>1. CanBeMap(r) /\ Leave(y, << >>)
  BY DEF UpdateMap
<1>2. r \in Items /\ WellFormed(r)
  BY <1>1, LeaveIs
<1>3. u \in Items /\ IsMap(u) /\ WellFormed(u)
  BY UpdatesAssumption DEF Maps
<1>4. x \in Items /\ IsMap(x) /\ WellFormed(x)
  BY <1>1, <1>2, AsMapWellFormed
<1>5. MaxLevels \in Nat /\ MaxLevels <= MaxLevels /\ Items = ItemsOf[MaxLevels]
  BY MaxLevelsAssumption DEF Items
<1> HIDE DEF x
<1>6. WellFormed(y)
  BY <1>3, <1>4, <1>5, UpdatedLevel
<1> QED  BY <1>1, <1>6, LeaveHere

-----------------------------------------------------------------------------
\* The documents, level by level, as the items are.
YamlOver(parts) ==
  {Null} \cup [type : {"scalar"}, text : Atoms] \cup [type : {"sequence"}, items : Seq(parts)]
    \cup [type : {"mapping"}, pairs : Seq([key : Keys, val : parts])]

IsYaml(d, parts) ==
  \/ d = Null
  \/ d = Scalar(d.text) /\ d.text \in Atoms
  \/ d = Sequence(d.items) /\ d.items \in Seq(parts)
  \/ d = Mapping(d.pairs) /\ d.pairs \in Seq([key : Keys, val : parts])

\* The documents in a document.
YamlParts(d) ==
  IF d.type = "sequence" THEN Range(d.items)
  ELSE IF d.type = "mapping" THEN {d.pairs[i].val : i \in DOMAIN d.pairs} ELSE {}

\* YamlOver is these four kinds of documents, and has all of each.
LEMMA YamlOverIs ==
  ASSUME NEW P
  PROVE  /\ \A d \in YamlOver(P) : IsYaml(d, P)
         /\ Null \in YamlOver(P)
         /\ \A a \in Atoms : Scalar(a) \in YamlOver(P)
         /\ \A s \in Seq(P) : Sequence(s) \in YamlOver(P)
         /\ \A s \in Seq([key : Keys, val : P]) : Mapping(s) \in YamlOver(P)
<1>1. ASSUME NEW d \in YamlOver(P)  PROVE IsYaml(d, P)
  <2>1. CASE d = Null
    BY <2>1 DEF IsYaml
  <2>2. CASE d \in [type : {"scalar"}, text : Atoms]
    BY <2>2 DEF IsYaml, Scalar
  <2>3. CASE d \in [type : {"sequence"}, items : Seq(P)]
    BY <2>3 DEF IsYaml, Sequence
  <2>4. CASE d \in [type : {"mapping"}, pairs : Seq([key : Keys, val : P])]
    BY <2>4 DEF IsYaml, Mapping
  <2> QED  BY <2>1, <2>2, <2>3, <2>4 DEF YamlOver
<1>2. ASSUME NEW s \in Seq([key : Keys, val : P])
      PROVE  Mapping(s) \in [type : {"mapping"}, pairs : Seq([key : Keys, val : P])]
  BY DEF Mapping
<1>3. ASSUME NEW s \in Seq(P)
      PROVE  Sequence(s) \in [type : {"sequence"}, items : Seq(P)]
  BY DEF Sequence
<1>4. ASSUME NEW a \in Atoms  PROVE Scalar(a) \in [type : {"scalar"}, text : Atoms]
  BY DEF Scalar
<1> QED  BY <1>1, <1>2, <1>3, <1>4 DEF YamlOver

\* What is known of a YAML document of each kind.
LEMMA YamlKindsAre ==
  ASSUME NEW P, NEW d, IsYaml(d, P)
  PROVE  /\ d.type \in {"null", "scalar", "sequence", "mapping"}
         /\ IsNull(d) <=> d.type = "null"
         /\ d.type = "null" => d = Null
         /\ d.type = "scalar" => d = Scalar(d.text) /\ d.text \in Atoms
         /\ d.type = "sequence" => d = Sequence(d.items) /\ d.items \in Seq(P)
         /\ d.type = "mapping" =>
              d = Mapping(d.pairs) /\ d.pairs \in Seq([key : Keys, val : P])
<1>1. CASE d = Null
  BY <1>1 DEF Null, IsNull
<1>2. CASE d = Scalar(d.text) /\ d.text \in Atoms
  <2>1. d.type = "scalar"
    BY <1>2 DEF Scalar
  <2> QED  BY <1>2, <2>1 DEF IsNull
<1>3. CASE d = Sequence(d.items) /\ d.items \in Seq(P)
  <2>1. d.type = "sequence"
    BY <1>3 DEF Sequence
  <2> QED  BY <1>3, <2>1 DEF IsNull
<1>4. CASE d = Mapping(d.pairs) /\ d.pairs \in Seq([key : Keys, val : P])
  <2>1. d.type = "mapping"
    BY <1>4 DEF Mapping
  <2> QED  BY <1>4, <2>1 DEF IsNull
<1> QED  BY <1>1, <1>2, <1>3, <1>4 DEF IsYaml

\* The keys and values of pairs.
LEMMA PairsAre ==
  ASSUME NEW P, NEW s, s \in Seq([key : Keys, val : P])
  PROVE  \A i \in DOMAIN s : s[i].key \in Keys /\ s[i].val \in P
<1> DEFINE E == [key : Keys, val : P]
<1> SUFFICES ASSUME NEW i \in DOMAIN s  PROVE s[i].key \in Keys /\ s[i].val \in P
  OBVIOUS
<1> HIDE DEF E
<1>1. s[i] \in E
  BY LenProperties, ElementOfSeq DEF E
<1> QED  BY <1>1 DEF E

\* The parts of a document are its parts.
LEMMA YamlPartsAre ==
  ASSUME NEW P, NEW d, IsYaml(d, P)
  PROVE  YamlParts(d) \subseteq P
<1>1. CASE d.type = "sequence"
  <2>1. d.items \in Seq(P)
    BY <1>1, YamlKindsAre
  <2> QED  BY <1>1, <2>1, IsSeqOfRange DEF YamlParts
<1>2. CASE d.type = "mapping"
  <2>1. d.pairs \in Seq([key : Keys, val : P])
    BY <1>2, YamlKindsAre
  <2>2. \A i \in DOMAIN d.pairs : d.pairs[i].val \in P
    BY <2>1, PairsAre
  <2> QED  BY <1>2, <2>2 DEF YamlParts
<1>3. CASE d.type # "sequence" /\ d.type # "mapping"
  BY <1>3 DEF YamlParts
<1> QED  BY <1>1, <1>2, <1>3

\* More parts make more documents.
LEMMA YamlGrows ==
  ASSUME NEW P, NEW Q, P \subseteq Q, NEW d, IsYaml(d, P)
  PROVE  IsYaml(d, Q)
<1>1. \A s \in Seq(P) : s \in Seq(Q)
  OBVIOUS
<1>2. \A s \in Seq([key : Keys, val : P]) : s \in Seq([key : Keys, val : Q])
  <2> DEFINE E == [key : Keys, val : P]
  <2> DEFINE F == [key : Keys, val : Q]
  <2>1. E \subseteq F
    OBVIOUS
  <2> HIDE DEF E, F
  <2>2. \A s \in Seq(E) : s \in Seq(F)
    BY <2>1
  <2> QED  BY <2>2 DEF E, F
<1> QED  BY <1>1, <1>2 DEF IsYaml

\* What looks like a document with such parts is in the set of them.
LEMMA IsYamlIsIn ==
  ASSUME NEW P, NEW d, IsYaml(d, P)
  PROVE  d \in YamlOver(P)
BY YamlOverIs, Zenon DEF IsYaml

\* YamlOf is what its recursive definition says, as for ItemsOf.
LEMMA YamlOfIs ==
  /\ YamlOf[0] = {}
  /\ \A n \in 1 .. MaxLevels : YamlOf[n] = YamlOver(YamlOf[n - 1])
<1> DEFINE next(f, n) == IF n = 0 THEN {} ELSE YamlOver(f[n - 1])
<1>1. YamlOf = CHOOSE f : f = [n \in 0 .. MaxLevels |-> next(f, n)]
  BY Zenon DEF YamlOf, YamlOver
<1> DEFINE T == {k \in Nat : \E f : f = [n \in 0 .. k |-> next(f, n)]}
<1>2. 0 \in T
  <2> DEFINE f == [n \in 0 .. 0 |-> {}]
  <2>1. f = [n \in 0 .. 0 |-> next(f, n)]
    OBVIOUS
  <2> HIDE DEF f
  <2> QED  BY <2>1
<1>3. ASSUME NEW k \in Nat, k \in T  PROVE k + 1 \in T
  <2>1. PICK f : f = [n \in 0 .. k |-> next(f, n)]
    BY <1>3
  <2> DEFINE g == [n \in 0 .. k + 1 |-> next(f, n)]
  <2> HIDE DEF next
  <2>2. \A n \in 0 .. k : g[n] = f[n]
    BY <2>1
  <2> HIDE DEF g
  <2>3. \A n \in 0 .. k + 1 : next(f, n) = next(g, n)
    <3>1. ASSUME NEW n \in 0 .. k + 1, n # 0  PROVE f[n - 1] = g[n - 1]
      <4>1. n - 1 \in 0 .. k
        BY <3>1
      <4> QED  BY <2>2, <4>1
    <3> QED  BY <3>1 DEF next
  <2>4. g = [n \in 0 .. k + 1 |-> next(g, n)]
    BY <2>3 DEF g
  <2> QED  BY <2>4
<1> HIDE DEF T
<1>4. MaxLevels \in T
  BY <1>2, <1>3, Induction, MaxLevelsAssumption
<1>5. YamlOf = [n \in 0 .. MaxLevels |-> next(YamlOf, n)]
  BY <1>1, <1>4, Zenon DEF T
<1>6. ASSUME NEW n \in 0 .. MaxLevels  PROVE YamlOf[n] = next(YamlOf, n)
  <2> HIDE DEF next
  <2> QED  BY <1>5
<1>7. ASSUME NEW n \in 1 .. MaxLevels  PROVE YamlOf[n] = YamlOver(YamlOf[n - 1])
  BY <1>6
<1> QED  BY <1>6, <1>7, MaxLevelsAssumption

\* A document of few levels is a document of more levels.
LEMMA YamlLevelsGrow ==
  /\ \A n \in 1 .. MaxLevels : YamlOf[n - 1] \subseteq YamlOf[n]
  /\ \A n \in 0 .. MaxLevels : YamlOf[n] \subseteq Yaml
<1>1. ASSUME NEW n \in Nat, (n + 1) + 1 <= MaxLevels, YamlOf[n] \subseteq YamlOf[n + 1]
      PROVE  YamlOf[n + 1] \subseteq YamlOf[(n + 1) + 1]
  <2>1. /\ n + 1 \in 1 .. MaxLevels /\ (n + 1) - 1 = n
        /\ (n + 1) + 1 \in 1 .. MaxLevels /\ ((n + 1) + 1) - 1 = n + 1
    BY <1>1, MaxLevelsAssumption
  <2>2. YamlOf[n + 1] = YamlOver(YamlOf[n]) /\ YamlOf[(n + 1) + 1] = YamlOver(YamlOf[n + 1])
    BY <2>1, YamlOfIs
  <2>3. ASSUME NEW d \in YamlOver(YamlOf[n])  PROVE d \in YamlOver(YamlOf[n + 1])
    BY <1>1, YamlOverIs, YamlGrows, IsYamlIsIn
  <2> QED  BY <2>2, <2>3
<1> QED  BY <1>1, YamlOfIs, Levels DEF Yaml

\* The parts of a document have one level less.
LEMMA NextYaml ==
  ASSUME NEW n \in Nat, n + 1 <= MaxLevels
  PROVE  /\ n <= MaxLevels
         /\ YamlOf[n] \subseteq YamlOf[n + 1] /\ YamlOf[n + 1] \subseteq Yaml
         /\ \A d \in YamlOf[n + 1] : IsYaml(d, YamlOf[n]) /\ YamlParts(d) \subseteq YamlOf[n]
<1>1. n + 1 \in 1 .. MaxLevels /\ (n + 1) - 1 = n /\ n + 1 \in 0 .. MaxLevels /\ n <= MaxLevels
  BY MaxLevelsAssumption
<1>2. YamlOf[n + 1] = YamlOver(YamlOf[n])
  BY <1>1, YamlOfIs
<1>3. ASSUME NEW d \in YamlOf[n + 1]
      PROVE  IsYaml(d, YamlOf[n]) /\ YamlParts(d) \subseteq YamlOf[n]
  <2>1. IsYaml(d, YamlOf[n])
    BY <1>2, YamlOverIs, Zenon
  <2> QED  BY <2>1, YamlPartsAre, Zenon
<1> QED  BY <1>1, <1>3, YamlLevelsGrow

\* The parts of a YAML document are YAML documents.
LEMMA YamlIs ==
  ASSUME NEW d \in Yaml
  PROVE  IsYaml(d, Yaml)
<1>1. MaxLevels \in 1 .. MaxLevels /\ MaxLevels - 1 \in 0 .. MaxLevels
  BY MaxLevelsAssumption
<1>2. d \in YamlOver(YamlOf[MaxLevels - 1])
  BY <1>1, YamlOfIs DEF Yaml
<1>3. IsYaml(d, YamlOf[MaxLevels - 1])
  BY <1>2, YamlOverIs
<1> QED  BY <1>1, <1>3, YamlLevelsGrow, YamlGrows

\* A set that has a document whenever it has its parts has all documents.
LEMMA YamlInduction ==
  ASSUME NEW S, \A d \in Yaml : YamlParts(d) \subseteq S => d \in S
  PROVE  Yaml \subseteq S
<1> DEFINE T == {n \in Nat : n <= MaxLevels => YamlOf[n] \subseteq S}
<1>1. 0 \in T
  BY YamlOfIs
<1>2. ASSUME NEW n \in Nat, n \in T  PROVE n + 1 \in T
  <2> SUFFICES ASSUME n + 1 <= MaxLevels, NEW d \in YamlOf[n + 1]  PROVE d \in S
    OBVIOUS
  <2>1. n <= MaxLevels /\ d \in Yaml /\ YamlParts(d) \subseteq YamlOf[n]
    BY NextYaml
  <2>2. YamlOf[n] \subseteq S
    BY <1>2, <2>1
  <2> QED  BY <2>1, <2>2
<1> HIDE DEF T
<1>3. MaxLevels \in T
  BY <1>1, <1>2, Induction, MaxLevelsAssumption
<1> QED  BY <1>3, MaxLevelsAssumption DEF T, Yaml

JsonOver(parts) ==
  {Null} \cup [type : {"boolean"}, is : BOOLEAN] \cup [type : {"string"}, text : Atoms]
    \cup [type : {"array"}, items : Seq(parts)] \cup [type : {"object"}, members : [Keys -> parts]]

IsJson(d, parts) ==
  \/ d = Null
  \/ d = Boolean(d.is) /\ d.is \in BOOLEAN
  \/ d = String(d.text) /\ d.text \in Atoms
  \/ d = Array(d.items) /\ d.items \in Seq(parts)
  \/ d = Object(d.members) /\ d.members \in [Keys -> parts]

JsonParts(d) ==
  IF d.type = "array" THEN Range(d.items)
  ELSE IF d.type = "object" THEN {d.members[k] : k \in Keys} ELSE {}

\* JsonOver is these five kinds of documents, and has all of each.
LEMMA JsonOverIs ==
  ASSUME NEW P
  PROVE  /\ \A d \in JsonOver(P) : IsJson(d, P)
         /\ Null \in JsonOver(P)
         /\ \A b \in BOOLEAN : Boolean(b) \in JsonOver(P)
         /\ \A a \in Atoms : String(a) \in JsonOver(P)
         /\ \A s \in Seq(P) : Array(s) \in JsonOver(P)
         /\ \A f \in [Keys -> P] : Object(f) \in JsonOver(P)
<1>1. ASSUME NEW d \in JsonOver(P)  PROVE IsJson(d, P)
  <2>1. CASE d = Null
    BY <2>1 DEF IsJson
  <2>2. CASE d \in [type : {"boolean"}, is : BOOLEAN]
    BY <2>2 DEF IsJson, Boolean
  <2>3. CASE d \in [type : {"string"}, text : Atoms]
    BY <2>3 DEF IsJson, String
  <2>4. CASE d \in [type : {"array"}, items : Seq(P)]
    BY <2>4 DEF IsJson, Array
  <2>5. CASE d \in [type : {"object"}, members : [Keys -> P]]
    BY <2>5 DEF IsJson, Object
  <2> QED  BY <2>1, <2>2, <2>3, <2>4, <2>5 DEF JsonOver
<1>2. ASSUME NEW f \in [Keys -> P]
      PROVE  Object(f) \in [type : {"object"}, members : [Keys -> P]]
  BY DEF Object
<1>3. ASSUME NEW s \in Seq(P)
      PROVE  Array(s) \in [type : {"array"}, items : Seq(P)]
  BY DEF Array
<1>4. ASSUME NEW a \in Atoms  PROVE String(a) \in [type : {"string"}, text : Atoms]
  BY DEF String
<1>5. ASSUME NEW b \in BOOLEAN  PROVE Boolean(b) \in [type : {"boolean"}, is : BOOLEAN]
  BY DEF Boolean
<1> QED  BY <1>1, <1>2, <1>3, <1>4, <1>5 DEF JsonOver

\* What is known of a JSON document of each kind.
LEMMA JsonKindsAre ==
  ASSUME NEW P, NEW d, IsJson(d, P)
  PROVE  /\ d.type \in {"null", "boolean", "string", "array", "object"}
         /\ IsNull(d) <=> d.type = "null"
         /\ d.type = "string" => d.text \in Atoms
         /\ d.type = "array" => d = Array(d.items) /\ d.items \in Seq(P)
         /\ d.type = "object" => d = Object(d.members) /\ d.members \in [Keys -> P]
<1>1. CASE d = Null
  BY <1>1 DEF Null, IsNull
<1>2. CASE d = Boolean(d.is) /\ d.is \in BOOLEAN
  <2>1. d.type = "boolean"
    BY <1>2 DEF Boolean
  <2> QED  BY <1>2, <2>1 DEF IsNull
<1>3. CASE d = String(d.text) /\ d.text \in Atoms
  <2>1. d.type = "string"
    BY <1>3 DEF String
  <2> QED  BY <1>3, <2>1 DEF IsNull
<1>4. CASE d = Array(d.items) /\ d.items \in Seq(P)
  <2>1. d.type = "array"
    BY <1>4 DEF Array
  <2> QED  BY <1>4, <2>1 DEF IsNull
<1>5. CASE d = Object(d.members) /\ d.members \in [Keys -> P]
  <2>1. d.type = "object"
    BY <1>5 DEF Object
  <2> QED  BY <1>5, <2>1 DEF IsNull
<1> QED  BY <1>1, <1>2, <1>3, <1>4, <1>5 DEF IsJson

\* The parts of a document are its parts.
LEMMA JsonPartsAre ==
  ASSUME NEW P, NEW d, IsJson(d, P)
  PROVE  JsonParts(d) \subseteq P
<1>1. CASE d.type = "array"
  <2>1. d.items \in Seq(P)
    BY <1>1, JsonKindsAre
  <2> QED  BY <1>1, <2>1, IsSeqOfRange DEF JsonParts
<1>2. CASE d.type = "object"
  <2>1. d.members \in [Keys -> P]
    BY <1>2, JsonKindsAre
  <2> QED  BY <1>2, <2>1 DEF JsonParts
<1>3. CASE d.type # "array" /\ d.type # "object"
  BY <1>3 DEF JsonParts
<1> QED  BY <1>1, <1>2, <1>3

\* More parts make more documents.
LEMMA JsonGrows ==
  ASSUME NEW P, NEW Q, P \subseteq Q, NEW d, IsJson(d, P)
  PROVE  IsJson(d, Q)
<1>1. \A s \in Seq(P) : s \in Seq(Q)
  OBVIOUS
<1>2. \A f \in [Keys -> P] : f \in [Keys -> Q]
  OBVIOUS
<1> QED  BY <1>1, <1>2 DEF IsJson

\* What looks like a document with such parts is in the set of them.
LEMMA IsJsonIsIn ==
  ASSUME NEW P, NEW d, IsJson(d, P)
  PROVE  d \in JsonOver(P)
BY JsonOverIs, Zenon DEF IsJson

\* JsonOf is what its recursive definition says, as for ItemsOf.
LEMMA JsonOfIs ==
  /\ JsonOf[0] = {}
  /\ \A n \in 1 .. MaxLevels : JsonOf[n] = JsonOver(JsonOf[n - 1])
<1> DEFINE next(f, n) == IF n = 0 THEN {} ELSE JsonOver(f[n - 1])
<1>1. JsonOf = CHOOSE f : f = [n \in 0 .. MaxLevels |-> next(f, n)]
  BY Zenon DEF JsonOf, JsonOver
<1> DEFINE T == {k \in Nat : \E f : f = [n \in 0 .. k |-> next(f, n)]}
<1>2. 0 \in T
  <2> DEFINE f == [n \in 0 .. 0 |-> {}]
  <2>1. f = [n \in 0 .. 0 |-> next(f, n)]
    OBVIOUS
  <2> HIDE DEF f
  <2> QED  BY <2>1
<1>3. ASSUME NEW k \in Nat, k \in T  PROVE k + 1 \in T
  <2>1. PICK f : f = [n \in 0 .. k |-> next(f, n)]
    BY <1>3
  <2> DEFINE g == [n \in 0 .. k + 1 |-> next(f, n)]
  <2> HIDE DEF next
  <2>2. \A n \in 0 .. k : g[n] = f[n]
    BY <2>1
  <2> HIDE DEF g
  <2>3. \A n \in 0 .. k + 1 : next(f, n) = next(g, n)
    <3>1. ASSUME NEW n \in 0 .. k + 1, n # 0  PROVE f[n - 1] = g[n - 1]
      <4>1. n - 1 \in 0 .. k
        BY <3>1
      <4> QED  BY <2>2, <4>1
    <3> QED  BY <3>1 DEF next
  <2>4. g = [n \in 0 .. k + 1 |-> next(g, n)]
    BY <2>3 DEF g
  <2> QED  BY <2>4
<1> HIDE DEF T
<1>4. MaxLevels \in T
  BY <1>2, <1>3, Induction, MaxLevelsAssumption
<1>5. JsonOf = [n \in 0 .. MaxLevels |-> next(JsonOf, n)]
  BY <1>1, <1>4, Zenon DEF T
<1>6. ASSUME NEW n \in 0 .. MaxLevels  PROVE JsonOf[n] = next(JsonOf, n)
  <2> HIDE DEF next
  <2> QED  BY <1>5
<1>7. ASSUME NEW n \in 1 .. MaxLevels  PROVE JsonOf[n] = JsonOver(JsonOf[n - 1])
  BY <1>6
<1> QED  BY <1>6, <1>7, MaxLevelsAssumption

\* A document of few levels is a document of more levels.
LEMMA JsonLevelsGrow ==
  /\ \A n \in 1 .. MaxLevels : JsonOf[n - 1] \subseteq JsonOf[n]
  /\ \A n \in 0 .. MaxLevels : JsonOf[n] \subseteq Json
<1>1. ASSUME NEW n \in Nat, (n + 1) + 1 <= MaxLevels, JsonOf[n] \subseteq JsonOf[n + 1]
      PROVE  JsonOf[n + 1] \subseteq JsonOf[(n + 1) + 1]
  <2>1. /\ n + 1 \in 1 .. MaxLevels /\ (n + 1) - 1 = n
        /\ (n + 1) + 1 \in 1 .. MaxLevels /\ ((n + 1) + 1) - 1 = n + 1
    BY <1>1, MaxLevelsAssumption
  <2>2. JsonOf[n + 1] = JsonOver(JsonOf[n]) /\ JsonOf[(n + 1) + 1] = JsonOver(JsonOf[n + 1])
    BY <2>1, JsonOfIs
  <2>3. ASSUME NEW d \in JsonOver(JsonOf[n])  PROVE d \in JsonOver(JsonOf[n + 1])
    BY <1>1, JsonOverIs, JsonGrows, IsJsonIsIn
  <2> QED  BY <2>2, <2>3
<1> QED  BY <1>1, JsonOfIs, Levels DEF Json

\* The parts of a document have one level less.
LEMMA NextJson ==
  ASSUME NEW n \in Nat, n + 1 <= MaxLevels
  PROVE  /\ n <= MaxLevels
         /\ JsonOf[n] \subseteq JsonOf[n + 1] /\ JsonOf[n + 1] \subseteq Json
         /\ \A d \in JsonOf[n + 1] : IsJson(d, JsonOf[n]) /\ JsonParts(d) \subseteq JsonOf[n]
<1>1. n + 1 \in 1 .. MaxLevels /\ (n + 1) - 1 = n /\ n + 1 \in 0 .. MaxLevels /\ n <= MaxLevels
  BY MaxLevelsAssumption
<1>2. JsonOf[n + 1] = JsonOver(JsonOf[n])
  BY <1>1, JsonOfIs
<1>3. ASSUME NEW d \in JsonOf[n + 1]
      PROVE  IsJson(d, JsonOf[n]) /\ JsonParts(d) \subseteq JsonOf[n]
  <2>1. IsJson(d, JsonOf[n])
    BY <1>2, JsonOverIs, Zenon
  <2> QED  BY <2>1, JsonPartsAre, Zenon
<1> QED  BY <1>1, <1>3, JsonLevelsGrow

\* The parts of a JSON document are JSON documents.
LEMMA JsonIs ==
  ASSUME NEW d \in Json
  PROVE  IsJson(d, Json)
<1>1. MaxLevels \in 1 .. MaxLevels /\ MaxLevels - 1 \in 0 .. MaxLevels
  BY MaxLevelsAssumption
<1>2. d \in JsonOver(JsonOf[MaxLevels - 1])
  BY <1>1, JsonOfIs DEF Json
<1>3. IsJson(d, JsonOf[MaxLevels - 1])
  BY <1>2, JsonOverIs
<1> QED  BY <1>1, <1>3, JsonLevelsGrow, JsonGrows

\* A set that has a document whenever it has its parts has all documents.
LEMMA JsonInduction ==
  ASSUME NEW S, \A d \in Json : JsonParts(d) \subseteq S => d \in S
  PROVE  Json \subseteq S
<1> DEFINE T == {n \in Nat : n <= MaxLevels => JsonOf[n] \subseteq S}
<1>1. 0 \in T
  BY JsonOfIs
<1>2. ASSUME NEW n \in Nat, n \in T  PROVE n + 1 \in T
  <2> SUFFICES ASSUME n + 1 <= MaxLevels, NEW d \in JsonOf[n + 1]  PROVE d \in S
    OBVIOUS
  <2>1. n <= MaxLevels /\ d \in Json /\ JsonParts(d) \subseteq JsonOf[n]
    BY NextJson
  <2>2. JsonOf[n] \subseteq S
    BY <1>2, <2>1
  <2> QED  BY <2>1, <2>2
<1> HIDE DEF T
<1>3. MaxLevels \in T
  BY <1>1, <1>2, Induction, MaxLevelsAssumption
<1> QED  BY <1>3, MaxLevelsAssumption DEF T, Json

-----------------------------------------------------------------------------
\* What Emplaced goes through.
KeptSoFar(f, E, s) ==
  /\ f \in [0 .. Len(s) -> Seq(E)]
  /\ f[0] = << >>
  /\ \A n \in 1 .. Len(s) :
       f[n] = IF IsNull(s[n].val) \/ HasKey(f[n - 1], s[n].key) THEN f[n - 1]
              ELSE Append(f[n - 1], s[n])
  /\ Emplaced(s) = f[Len(s)]

\* The recursive function inside Emplaced exists and unfolds.
LEMMA EmplacedUnfolds ==
  ASSUME NEW E, NEW s \in Seq(E)
  PROVE  \E f : KeptSoFar(f, E, s)
<1> DEFINE next(n, x) == IF IsNull(s[n].val) \/ HasKey(x, s[n].key) THEN x ELSE Append(x, s[n])
<1> DEFINE step == [n \in 1 .. Len(s) |-> [x \in Seq(E) |-> next(n, x)]]
<1> DEFINE g == CHOOSE f : f = [n \in 0 .. Len(s) |->
                     IF n = 0 THEN << >>
                     ELSE IF IsNull(s[n].val) \/ HasKey(f[n - 1], s[n].key) THEN f[n - 1]
                     ELSE Append(f[n - 1], s[n])]
<1>1. \A n \in 1 .. Len(s) : \A x \in Seq(E) : next(n, x) \in Seq(E)
  OBVIOUS
<1>2. step \in Steps(Len(s), Seq(E))
  BY <1>1 DEF Steps
<1>3. << >> \in Seq(E) /\ Len(s) \in Nat
  OBVIOUS
<1>4. Emplaced(s) = g[Len(s)]
  BY DEF Emplaced
<1> HIDE DEF g
<1>5. \A n \in 1 .. Len(s) : \A x \in Seq(E) : step[n][x] = next(n, x)
  OBVIOUS
<1> HIDE DEF step
<1>6. PICK f : StepFrom(f, << >>, step, Len(s), Seq(E))
  BY <1>2, <1>3, StepByStep
<1> HIDE DEF next
<1>7. f = [n \in 0 .. Len(s) |-> IF n = 0 THEN << >> ELSE next(n, f[n - 1])]
  <2>1. \A n \in 0 .. Len(s) : f[n] = IF n = 0 THEN << >> ELSE next(n, f[n - 1])
    <3>1. \A n \in 1 .. Len(s) : n - 1 \in 0 .. Len(s)
      BY <1>3
    <3>2. \A n \in 1 .. Len(s) : f[n] = next(n, f[n - 1])
      BY <1>5, <1>6, <3>1 DEF StepFrom
    <3> QED  BY <1>3, <1>6, <3>2 DEF StepFrom
  <2>2. f = [n \in 0 .. Len(s) |-> f[n]]
    BY <1>6 DEF StepFrom
  <2> QED  BY <2>1, <2>2
<1>8. g = [n \in 0 .. Len(s) |-> IF n = 0 THEN << >> ELSE next(n, g[n - 1])]
  BY <1>7, Zenon DEF g, next
<1> DEFINE T == {n \in Nat : n <= Len(s) => g[n] \in Seq(E)}
<1>9. Nat \subseteq T
  <2>1. 0 \in T
    BY <1>8
  <2>2. ASSUME NEW n \in Nat, n \in T  PROVE n + 1 \in T
    <3> SUFFICES ASSUME n + 1 <= Len(s)  PROVE g[n + 1] \in Seq(E)
      OBVIOUS
    <3>1. g[n + 1] = next(n + 1, g[n])
      BY <1>8
    <3> QED  BY <1>1, <2>2, <3>1 DEF next
  <2> HIDE DEF T
  <2> QED  BY <2>1, <2>2, Induction
<1>10. g \in [0 .. Len(s) -> Seq(E)]
  <2>1. \A n \in 0 .. Len(s) : g[n] \in Seq(E)
    BY <1>3, <1>9
  <2>2. g = [n \in 0 .. Len(s) |-> g[n]]
    BY <1>8
  <2> QED  BY <2>1, <2>2
<1>11. g[0] = << >> /\ \A n \in 1 .. Len(s) : g[n] = next(n, g[n - 1])
  BY <1>8
<1> QED  BY <1>4, <1>10, <1>11 DEF next, KeptSoFar

\* What a map gets of the entries of a document: some of them, none of them null, and
\* of no key two.
EmplacedOf(y, s) ==
  /\ \A j \in DOMAIN y : \E i \in DOMAIN s : y[j] = s[i] /\ ~IsNull(s[i].val)
  /\ \A i, j \in DOMAIN y : y[i].key = y[j].key => i = j

\* What emplace keeps: entries of the document, each key once, no null, no key lost.
LEMMA EmplacedIs ==
  ASSUME NEW E, NEW s, s \in Seq(E)
  PROVE  Emplaced(s) \in Seq(E) /\ EmplacedOf(Emplaced(s), s)
<1>1. Len(s) \in Nat /\ DOMAIN s = 1 .. Len(s)
  OBVIOUS
<1>2. PICK f : KeptSoFar(f, E, s)
  BY EmplacedUnfolds
<1> DEFINE T == {n \in Nat : n <= Len(s) => EmplacedOf(f[n], s)}
<1>3. 0 \in T
  BY <1>2 DEF KeptSoFar, EmplacedOf
<1>4. ASSUME NEW n \in Nat, n \in T  PROVE n + 1 \in T
  <2> SUFFICES ASSUME n + 1 <= Len(s)  PROVE EmplacedOf(f[n + 1], s)
    OBVIOUS
  <2> DEFINE x == f[n]
  <2>1. x \in Seq(E) /\ EmplacedOf(x, s)
    <3>1. n \in 0 .. Len(s)
      BY <1>1
    <3>2. x \in Seq(E)
      BY <1>2, <3>1 DEF KeptSoFar
    <3> QED  BY <1>4, <3>1, <3>2
  <2>2. n + 1 \in 1 .. Len(s) /\ (n + 1) - 1 = n
    BY <1>1
  <2>3. f[n + 1] = IF IsNull(s[n + 1].val) \/ HasKey(x, s[n + 1].key) THEN x
                   ELSE Append(x, s[n + 1])
    BY <1>2, <2>2 DEF KeptSoFar
  <2> HIDE DEF x
  <2>4. CASE IsNull(s[n + 1].val) \/ HasKey(x, s[n + 1].key)
    BY <2>1, <2>3, <2>4
  <2>5. CASE ~IsNull(s[n + 1].val) /\ ~HasKey(x, s[n + 1].key)
    <3> DEFINE y == Append(x, s[n + 1])
    <3>1. s[n + 1] \in E
      BY <1>1, <2>2
    <3>2. DOMAIN y = 1 .. Len(x) + 1 /\ DOMAIN x = 1 .. Len(x) /\ Len(x) \in Nat
          /\ y[Len(x) + 1] = s[n + 1] /\ \A j \in 1 .. Len(x) : y[j] = x[j]
      BY <2>1, <3>1
    <3> HIDE DEF y
    <3>3. \A j \in 1 .. Len(x) : x[j].key # s[n + 1].key
      BY <2>5, <3>2 DEF HasKey
    <3>4. ASSUME NEW j \in DOMAIN y
          PROVE  \E i \in DOMAIN s : y[j] = s[i] /\ ~IsNull(s[i].val)
      <4>1. CASE j \in 1 .. Len(x)
        BY <2>1, <3>2, <4>1 DEF EmplacedOf
      <4>2. CASE j = Len(x) + 1
        BY <1>1, <2>2, <2>5, <3>2, <4>2
      <4> QED  BY <3>2, <4>1, <4>2
    <3>5. ASSUME NEW i \in DOMAIN y, NEW j \in DOMAIN y, y[i].key = y[j].key  PROVE i = j
      <4>1. CASE i \in 1 .. Len(x) /\ j \in 1 .. Len(x)
        <5>1. x[i].key = x[j].key
          BY <3>2, <3>5, <4>1
        <5> QED  BY <2>1, <3>2, <4>1, <5>1 DEF EmplacedOf
      <4>2. CASE i \in 1 .. Len(x) /\ j = Len(x) + 1
        BY <3>2, <3>3, <3>5, <4>2
      <4>3. CASE i = Len(x) + 1 /\ j \in 1 .. Len(x)
        BY <3>2, <3>3, <3>5, <4>3
      <4>4. CASE i = Len(x) + 1 /\ j = Len(x) + 1
        BY <4>4
      <4> QED  BY <3>2, <4>1, <4>2, <4>3, <4>4
    <3>6. f[n + 1] = y
      BY <2>3, <2>5 DEF y
    <3> QED  BY <3>4, <3>5, <3>6 DEF EmplacedOf
  <2> QED  BY <2>4, <2>5
<1> HIDE DEF T
<1>5. Len(s) \in T
  BY <1>1, <1>3, <1>4, Induction
<1> QED  BY <1>1, <1>2, <1>5 DEF T, KeptSoFar

\* Entries with different keys and without nulls are all emplaced.
LEMMA EmplacedIsAll ==
  ASSUME NEW E, NEW s, s \in Seq(E), \A i \in DOMAIN s : ~IsNull(s[i].val),
         \A i, j \in DOMAIN s : s[i].key = s[j].key => i = j
  PROVE  Emplaced(s) = s
<1>1. Len(s) \in Nat /\ DOMAIN s = 1 .. Len(s)
  OBVIOUS
<1>2. PICK f : KeptSoFar(f, E, s)
  BY EmplacedUnfolds
<1> DEFINE same(n, x) == x \in Seq(E) /\ Len(x) = n /\ \A j \in 1 .. n : x[j] = s[j]
<1> DEFINE T == {n \in Nat : n <= Len(s) => same(n, f[n])}
<1>3. 0 \in T
  BY <1>2 DEF KeptSoFar
<1>4. ASSUME NEW n \in Nat, n \in T  PROVE n + 1 \in T
  <2> SUFFICES ASSUME n + 1 <= Len(s)  PROVE same(n + 1, f[n + 1])
    OBVIOUS
  <2> DEFINE x == f[n]
  <2>1. same(n, x)
    BY <1>1, <1>4
  <2>2. n + 1 \in 1 .. Len(s) /\ (n + 1) - 1 = n
    BY <1>1
  <2>3. f[n + 1] = IF IsNull(s[n + 1].val) \/ HasKey(x, s[n + 1].key) THEN x
                   ELSE Append(x, s[n + 1])
    BY <1>2, <2>2 DEF KeptSoFar
  <2> HIDE DEF x
  <2>4. ~HasKey(x, s[n + 1].key)
    <3>1. \A j \in 1 .. n : s[j].key # s[n + 1].key
      BY <1>1, <2>2
    <3> QED  BY <2>1, <3>1 DEF HasKey
  <2>5. s[n + 1] \in E /\ ~IsNull(s[n + 1].val)
    BY <1>1, <2>2
  <2>6. f[n + 1] = Append(x, s[n + 1])
    BY <2>3, <2>4, <2>5
  <2>7. same(n + 1, Append(x, s[n + 1]))
    BY <2>1, <2>5
  <2> QED  BY <2>6, <2>7
<1> HIDE DEF T
<1>5. same(Len(s), Emplaced(s))
  <2>1. Len(s) \in T
    BY <1>1, <1>3, <1>4, Induction
  <2> QED  BY <1>1, <1>2, <2>1 DEF T, KeptSoFar
<1> QED  BY <1>1, <1>5

-----------------------------------------------------------------------------
\* What the constructors make of a document, and what the dumps make of an item.
LEMMA FromYamlIs ==
  \A x \in Yaml : FromYaml[x] = 
    CASE x.type = "sequence" -> Vector([i \in DOMAIN x.items |-> FromYaml[x.items[i]]])
      [] x.type = "mapping" ->
           LET s == Emplaced(x.pairs)
           IN  Map([i \in DOMAIN s |-> Entry(s[i].key, FromYaml[s[i].val])])
      [] OTHER -> IF IsNull(x) THEN None ELSE Atom(x.text)
<1> DEFINE of(f, x) == 
    CASE x.type = "sequence" -> Vector([i \in DOMAIN x.items |-> f[x.items[i]]])
      [] x.type = "mapping" ->
           LET s == Emplaced(x.pairs)
           IN  Map([i \in DOMAIN s |-> Entry(s[i].key, f[s[i].val])])
      [] OTHER -> IF IsNull(x) THEN None ELSE Atom(x.text)
<1>1. FromYaml = CHOOSE f : f = [x \in Yaml |-> of(f, x)]
  BY Zenon DEF FromYaml
<1>2. ASSUME NEW f, NEW g, NEW x \in Yaml, \A y \in YamlParts(x) : f[y] = g[y]
      PROVE  of(f, x) = of(g, x)
  <2>1. IsYaml(x, Yaml)
    BY YamlIs
  <2>2. CASE x.type = "sequence"
    <3> DEFINE u(h) == [i \in DOMAIN x.items |-> h[x.items[i]]]
    <3>1. \A i \in DOMAIN x.items : f[x.items[i]] = g[x.items[i]]
      BY <1>2, <2>2 DEF YamlParts, Range
    <3>2. u(f) = u(g)
      BY <3>1
    <3>3. of(f, x) = Vector(u(f)) /\ of(g, x) = Vector(u(g))
      BY <2>2
    <3> QED  BY <3>2, <3>3
  <2>3. CASE x.type = "mapping"
    <3> DEFINE s == Emplaced(x.pairs)
    <3> DEFINE u(h) == [i \in DOMAIN s |-> Entry(s[i].key, h[s[i].val])]
    <3>1. x.pairs \in Seq([key : Keys, val : Yaml])
      BY <2>1, <2>3, YamlKindsAre
    <3>2. EmplacedOf(s, x.pairs)
      BY <3>1, EmplacedIs, Zenon
    <3>3. of(f, x) = Map(u(f)) /\ of(g, x) = Map(u(g))
      BY <2>3
    <3> HIDE DEF s
    <3>4. \A i \in DOMAIN s : s[i].val \in YamlParts(x)
      BY <2>3, <3>2 DEF EmplacedOf, YamlParts
    <3>5. u(f) = u(g)
      BY <1>2, <3>4
    <3> QED  BY <3>3, <3>5
  <2>4. CASE x.type \notin {"sequence", "mapping"}
    BY <2>4
  <2> QED  BY <2>2, <2>3, <2>4
<1> HIDE DEF of
<1> DEFINE T == {n \in Nat : n <= MaxLevels => \E f : f = [x \in YamlOf[n] |-> of(f, x)]}
<1>3. 0 \in T
  <2> DEFINE f == [x \in {} |-> {}]
  <2>1. f = [x \in YamlOf[0] |-> of(f, x)]
    BY YamlOfIs
  <2> HIDE DEF f
  <2> QED  BY <2>1
<1>4. ASSUME NEW n \in Nat, n \in T  PROVE n + 1 \in T
  <2> SUFFICES ASSUME n + 1 <= MaxLevels
               PROVE  \E f : f = [x \in YamlOf[n + 1] |-> of(f, x)]
    OBVIOUS
  <2>1. n <= MaxLevels
    BY NextYaml
  <2>2. PICK f : f = [x \in YamlOf[n] |-> of(f, x)]
    BY <1>4, <2>1
  <2> DEFINE g == [x \in YamlOf[n + 1] |-> of(f, x)]
  <2>3. \A x \in YamlOf[n + 1] :
          x \in Yaml /\ \A y \in YamlParts(x) : y \in YamlOf[n] /\ y \in YamlOf[n + 1]
    BY NextYaml
  <2>4. \A y \in YamlOf[n] : f[y] = of(f, y)
    BY <2>2
  <2>5. \A y \in YamlOf[n + 1] : g[y] = of(f, y)
    OBVIOUS
  <2> HIDE DEF g
  <2>6. ASSUME NEW x \in YamlOf[n + 1]  PROVE of(f, x) = of(g, x)
    <3>1. \A y \in YamlParts(x) : f[y] = g[y]
      BY <2>3, <2>4, <2>5
    <3> QED  BY <1>2, <2>3, <3>1
  <2>7. g = [x \in YamlOf[n + 1] |-> of(g, x)]
    BY <2>6 DEF g
  <2> QED  BY <2>7
<1> HIDE DEF T
<1>5. MaxLevels \in T
  BY <1>3, <1>4, Induction, MaxLevelsAssumption
<1>6. \E f : f = [x \in Yaml |-> of(f, x)]
  BY <1>5 DEF T, Yaml
<1>7. FromYaml = [x \in Yaml |-> of(FromYaml, x)]
  BY <1>1, <1>6, Zenon
<1>8. ASSUME NEW x \in Yaml  PROVE FromYaml[x] = of(FromYaml, x)
  BY <1>7
<1> QED  BY <1>8 DEF of

\* The members of an object, in the order in which it has them.
MembersOf(s, d, P) ==
  /\ s \in Seq([key : Keys, val : P])
  /\ DOMAIN s = DOMAIN KeyOrder
  /\ \A i \in DOMAIN s :
       /\ s[i].key = KeyOrder[i] /\ s[i].key \in Keys
       /\ s[i].val = d.members[KeyOrder[i]] /\ s[i].val \in P
  /\ \A i, j \in DOMAIN s : s[i].key = s[j].key => i = j

\* The members of an object are one entry for each key.
LEMMA MembersAre ==
  ASSUME NEW P, NEW d, IsJson(d, P), d.type = "object"
  PROVE  MembersOf(Members(d), d, P)
<1> DEFINE s == Members(d)
<1>1. d.members \in [Keys -> P]
  BY JsonKindsAre
<1>2. KeyOrder \in Seq(Keys) /\ IsInjective(KeyOrder)
  BY KeyOrderAssumption
<1>3. DOMAIN KeyOrder = 1 .. Len(KeyOrder) /\ Len(KeyOrder) \in Nat
      /\ \A i \in DOMAIN KeyOrder : KeyOrder[i] \in Keys
  BY <1>2
<1>4. \A i, j \in DOMAIN KeyOrder : KeyOrder[i] = KeyOrder[j] => i = j
  BY <1>2 DEF IsInjective
<1>5. s = [i \in DOMAIN KeyOrder |-> Entry(KeyOrder[i], d.members[KeyOrder[i]])]
  BY DEF Members
<1> HIDE DEF s
<1>6. \A i \in DOMAIN KeyOrder : d.members[KeyOrder[i]] \in P
  BY <1>1, <1>3
<1>7. DOMAIN s = DOMAIN KeyOrder
      /\ \A i \in DOMAIN s : s[i].key = KeyOrder[i] /\ s[i].val = d.members[KeyOrder[i]]
  BY <1>5 DEF Entry
<1>8. s \in Seq([key : Keys, val : P])
  <2> DEFINE E == [key : Keys, val : P]
  <2>1. \A a \in Keys, b \in P : Entry(a, b) \in E
    BY DEF Entry
  <2> HIDE DEF E
  <2>2. \A i \in 1 .. Len(KeyOrder) : s[i] \in E
    BY <1>3, <1>5, <1>6, <2>1
  <2>3. s = [i \in 1 .. Len(KeyOrder) |-> s[i]]
    BY <1>3, <1>5
  <2>4. s \in Seq(E)
    BY <1>3, <2>2, <2>3
  <2> QED  BY <2>4 DEF E
<1> QED  BY <1>3, <1>4, <1>6, <1>7, <1>8 DEF MembersOf, s

\* FromJson is what its recursive definition says, by existence level by level.
LEMMA FromJsonIs ==
  \A x \in Json : FromJson[x] = 
    CASE x.type = "array" -> Vector([i \in DOMAIN x.items |-> FromJson[x.items[i]]])
      [] x.type = "object" ->
           LET s == Emplaced(Members(x))
           IN  Map([i \in DOMAIN s |-> Entry(s[i].key, FromJson[s[i].val])])
      [] OTHER -> Atom(TextOf(x))
<1> DEFINE of(f, x) == 
    CASE x.type = "array" -> Vector([i \in DOMAIN x.items |-> f[x.items[i]]])
      [] x.type = "object" ->
           LET s == Emplaced(Members(x))
           IN  Map([i \in DOMAIN s |-> Entry(s[i].key, f[s[i].val])])
      [] OTHER -> Atom(TextOf(x))
<1>1. FromJson = CHOOSE f : f = [x \in Json |-> of(f, x)]
  BY Zenon DEF FromJson
<1>2. ASSUME NEW f, NEW g, NEW x \in Json, \A y \in JsonParts(x) : f[y] = g[y]
      PROVE  of(f, x) = of(g, x)
  <2>1. IsJson(x, Json)
    BY JsonIs
  <2>2. CASE x.type = "array"
    <3> DEFINE u(h) == [i \in DOMAIN x.items |-> h[x.items[i]]]
    <3>1. \A i \in DOMAIN x.items : f[x.items[i]] = g[x.items[i]]
      BY <1>2, <2>2 DEF JsonParts, Range
    <3>2. u(f) = u(g)
      BY <3>1
    <3>3. of(f, x) = Vector(u(f)) /\ of(g, x) = Vector(u(g))
      BY <2>2
    <3> QED  BY <3>2, <3>3
  <2>3. CASE x.type = "object"
    <3> DEFINE s == Emplaced(Members(x))
    <3> DEFINE u(h) == [i \in DOMAIN s |-> Entry(s[i].key, h[s[i].val])]
    <3>1. MembersOf(Members(x), x, Json)
      BY <2>1, <2>3, MembersAre
    <3>2. EmplacedOf(s, Members(x))
      BY <3>1, EmplacedIs, Zenon DEF MembersOf
    <3>3. of(f, x) = Map(u(f)) /\ of(g, x) = Map(u(g))
      BY <2>3
    <3> HIDE DEF s
    <3>4. \A i \in DOMAIN s : s[i].val \in JsonParts(x)
      BY <2>3, <3>1, <3>2 DEF EmplacedOf, MembersOf, JsonParts
    <3>5. u(f) = u(g)
      BY <1>2, <3>4
    <3> QED  BY <3>3, <3>5
  <2>4. CASE x.type \notin {"array", "object"}
    BY <2>4
  <2> QED  BY <2>2, <2>3, <2>4
<1> HIDE DEF of
<1> DEFINE T == {n \in Nat : n <= MaxLevels => \E f : f = [x \in JsonOf[n] |-> of(f, x)]}
<1>3. 0 \in T
  <2> DEFINE f == [x \in {} |-> {}]
  <2>1. f = [x \in JsonOf[0] |-> of(f, x)]
    BY JsonOfIs
  <2> HIDE DEF f
  <2> QED  BY <2>1
<1>4. ASSUME NEW n \in Nat, n \in T  PROVE n + 1 \in T
  <2> SUFFICES ASSUME n + 1 <= MaxLevels
               PROVE  \E f : f = [x \in JsonOf[n + 1] |-> of(f, x)]
    OBVIOUS
  <2>1. n <= MaxLevels
    BY NextJson
  <2>2. PICK f : f = [x \in JsonOf[n] |-> of(f, x)]
    BY <1>4, <2>1
  <2> DEFINE g == [x \in JsonOf[n + 1] |-> of(f, x)]
  <2>3. \A x \in JsonOf[n + 1] :
          x \in Json /\ \A y \in JsonParts(x) : y \in JsonOf[n] /\ y \in JsonOf[n + 1]
    BY NextJson
  <2>4. \A y \in JsonOf[n] : f[y] = of(f, y)
    BY <2>2
  <2>5. \A y \in JsonOf[n + 1] : g[y] = of(f, y)
    OBVIOUS
  <2> HIDE DEF g
  <2>6. ASSUME NEW x \in JsonOf[n + 1]  PROVE of(f, x) = of(g, x)
    <3>1. \A y \in JsonParts(x) : f[y] = g[y]
      BY <2>3, <2>4, <2>5
    <3> QED  BY <1>2, <2>3, <3>1
  <2>7. g = [x \in JsonOf[n + 1] |-> of(g, x)]
    BY <2>6 DEF g
  <2> QED  BY <2>7
<1> HIDE DEF T
<1>5. MaxLevels \in T
  BY <1>3, <1>4, Induction, MaxLevelsAssumption
<1>6. \E f : f = [x \in Json |-> of(f, x)]
  BY <1>5 DEF T, Json
<1>7. FromJson = [x \in Json |-> of(FromJson, x)]
  BY <1>1, <1>6, Zenon
<1>8. ASSUME NEW x \in Json  PROVE FromJson[x] = of(FromJson, x)
  BY <1>7
<1> QED  BY <1>8 DEF of

\* ToYaml is what its recursive definition says, by existence level by level.
LEMMA ToYamlIs ==
  \A x \in Items : ToYaml[x] = 
    CASE IsVector(x) -> Sequence([i \in DOMAIN x.items |-> ToYaml[x.items[i]]])
      [] IsMap(x) ->
           Mapping([i \in DOMAIN x.entries |-> Entry(x.entries[i].key, ToYaml[x.entries[i].val])])
      [] OTHER -> IF IsNone(x) THEN Null ELSE Scalar(x.atom)
<1> DEFINE of(f, x) == 
    CASE IsVector(x) -> Sequence([i \in DOMAIN x.items |-> f[x.items[i]]])
      [] IsMap(x) ->
           Mapping([i \in DOMAIN x.entries |-> Entry(x.entries[i].key, f[x.entries[i].val])])
      [] OTHER -> IF IsNone(x) THEN Null ELSE Scalar(x.atom)
<1>1. ToYaml = CHOOSE f : f = [x \in Items |-> of(f, x)]
  BY Zenon DEF ToYaml
<1>2. ASSUME NEW f, NEW g, NEW x \in Items, \A y \in Range(Children(x)) : f[y] = g[y]
      PROVE  of(f, x) = of(g, x)
  <2>1. IsOver(x, Items)
    BY ItemIs
  <2>2. CASE IsVector(x)
    <3> DEFINE u(h) == [i \in DOMAIN x.items |-> h[x.items[i]]]
    <3>1. \A i \in DOMAIN x.items : f[x.items[i]] = g[x.items[i]]
      BY <1>2, <2>1, <2>2, ChildrenAre DEF Range
    <3>2. u(f) = u(g)
      BY <3>1
    <3>3. of(f, x) = Sequence(u(f)) /\ of(g, x) = Sequence(u(g))
      BY <2>1, <2>2, KindsAre
    <3> QED  BY <3>2, <3>3
  <2>3. CASE IsMap(x)
    <3> DEFINE s == x.entries
    <3> DEFINE u(h) == [i \in DOMAIN s |-> Entry(s[i].key, h[s[i].val])]
    <3>1. DOMAIN Children(x) = DOMAIN s /\ \A i \in DOMAIN s : Children(x)[i] = s[i].val
      BY <2>1, <2>3, ChildrenAre
    <3>2. \A i \in DOMAIN s : s[i].val \in Range(Children(x))
      BY <3>1 DEF Range
    <3>3. u(f) = u(g)
      BY <1>2, <3>2
    <3>4. of(f, x) = Mapping(u(f)) /\ of(g, x) = Mapping(u(g))
      BY <2>1, <2>3, KindsAre
    <3> QED  BY <3>3, <3>4
  <2>4. CASE IsNone(x) \/ IsAtom(x)
    BY <2>1, <2>4, KindsAre
  <2> QED  BY <2>1, <2>2, <2>3, <2>4, KindsAre
<1> HIDE DEF of
<1> DEFINE T == {n \in Nat : n <= MaxLevels => \E f : f = [x \in ItemsOf[n] |-> of(f, x)]}
<1>3. 0 \in T
  <2> DEFINE f == [x \in {} |-> {}]
  <2>1. f = [x \in ItemsOf[0] |-> of(f, x)]
    BY ItemsOfIs
  <2> HIDE DEF f
  <2> QED  BY <2>1
<1>4. ASSUME NEW n \in Nat, n \in T  PROVE n + 1 \in T
  <2> SUFFICES ASSUME n + 1 <= MaxLevels
               PROVE  \E f : f = [x \in ItemsOf[n + 1] |-> of(f, x)]
    OBVIOUS
  <2>1. n <= MaxLevels
    BY NextLevel
  <2>2. PICK f : f = [x \in ItemsOf[n] |-> of(f, x)]
    BY <1>4, <2>1
  <2> DEFINE g == [x \in ItemsOf[n + 1] |-> of(f, x)]
  <2>3. \A x \in ItemsOf[n + 1] :
          x \in Items /\ \A y \in Range(Children(x)) : y \in ItemsOf[n] /\ y \in ItemsOf[n + 1]
    BY NextLevel
  <2>4. \A y \in ItemsOf[n] : f[y] = of(f, y)
    BY <2>2
  <2>5. \A y \in ItemsOf[n + 1] : g[y] = of(f, y)
    OBVIOUS
  <2> HIDE DEF g
  <2>6. ASSUME NEW x \in ItemsOf[n + 1]  PROVE of(f, x) = of(g, x)
    <3>1. \A y \in Range(Children(x)) : f[y] = g[y]
      BY <2>3, <2>4, <2>5
    <3> QED  BY <1>2, <2>3, <3>1
  <2>7. g = [x \in ItemsOf[n + 1] |-> of(g, x)]
    BY <2>6 DEF g
  <2> QED  BY <2>7
<1> HIDE DEF T
<1>5. MaxLevels \in T
  BY <1>3, <1>4, Induction, MaxLevelsAssumption
<1>6. \E f : f = [x \in Items |-> of(f, x)]
  BY <1>5 DEF T, Items
<1>7. ToYaml = [x \in Items |-> of(ToYaml, x)]
  BY <1>1, <1>6, Zenon
<1>8. ASSUME NEW x \in Items  PROVE ToYaml[x] = of(ToYaml, x)
  BY <1>7
<1> QED  BY <1>8 DEF of

\* ToJson is what its recursive definition says, by existence level by level.
LEMMA ToJsonIs ==
  \A x \in Items : ToJson[x] = 
    CASE IsVector(x) /\ x.items # << >> -> Array([i \in DOMAIN x.items |-> ToJson[x.items[i]]])
      [] IsMap(x) /\ x.entries # << >> ->
           Object([k \in Keys |->
                     IF HasKey(x.entries, k) THEN ToJson[At(x.entries, k)] ELSE Null])
      [] OTHER -> IF IsAtom(x) THEN TextToJson(x.atom) ELSE Null
<1> DEFINE of(f, x) == 
    CASE IsVector(x) /\ x.items # << >> -> Array([i \in DOMAIN x.items |-> f[x.items[i]]])
      [] IsMap(x) /\ x.entries # << >> ->
           Object([k \in Keys |->
                     IF HasKey(x.entries, k) THEN f[At(x.entries, k)] ELSE Null])
      [] OTHER -> IF IsAtom(x) THEN TextToJson(x.atom) ELSE Null
<1>1. ToJson = CHOOSE f : f = [x \in Items |-> of(f, x)]
  BY Zenon DEF ToJson
<1>2. ASSUME NEW f, NEW g, NEW x \in Items, \A y \in Range(Children(x)) : f[y] = g[y]
      PROVE  of(f, x) = of(g, x)
  <2>1. IsOver(x, Items)
    BY ItemIs
  <2>2. CASE IsVector(x) /\ x.items # << >>
    <3> DEFINE u(h) == [i \in DOMAIN x.items |-> h[x.items[i]]]
    <3>1. \A i \in DOMAIN x.items : f[x.items[i]] = g[x.items[i]]
      BY <1>2, <2>1, <2>2, ChildrenAre DEF Range
    <3>2. u(f) = u(g)
      BY <3>1
    <3>3. of(f, x) = Array(u(f)) /\ of(g, x) = Array(u(g))
      BY <2>1, <2>2, KindsAre
    <3> QED  BY <3>2, <3>3
  <2>3. CASE IsMap(x) /\ x.entries # << >>
    <3> DEFINE s == x.entries
    <3> DEFINE u(h) == [k \in Keys |-> IF HasKey(s, k) THEN h[At(s, k)] ELSE Null]
    <3>1. DOMAIN Children(x) = DOMAIN s /\ \A i \in DOMAIN s : Children(x)[i] = s[i].val
      BY <2>1, <2>3, ChildrenAre
    <3>2. s \in Seq([key : Keys, val : Items])
      BY <2>1, <2>3, KindsAre
    <3>3. ASSUME NEW k \in Keys, HasKey(s, k)  PROVE f[At(s, k)] = g[At(s, k)]
      <4>1. PICK i \in 1 .. Len(s) : At(s, k) = s[i].val
        BY <3>2, <3>3, AtIsFirst
      <4>2. i \in DOMAIN s
        BY <3>2, LenProperties
      <4>3. At(s, k) \in Range(Children(x))
        BY <3>1, <4>1, <4>2 DEF Range
      <4> QED  BY <1>2, <4>3
    <3>4. u(f) = u(g)
      BY <3>3
    <3>5. of(f, x) = Object(u(f)) /\ of(g, x) = Object(u(g))
      BY <2>1, <2>3, KindsAre
    <3> QED  BY <3>4, <3>5
  <2>4. CASE ~(IsVector(x) /\ x.items # << >>) /\ ~(IsMap(x) /\ x.entries # << >>)
    BY <2>4
  <2> QED  BY <2>2, <2>3, <2>4
<1> HIDE DEF of
<1> DEFINE T == {n \in Nat : n <= MaxLevels => \E f : f = [x \in ItemsOf[n] |-> of(f, x)]}
<1>3. 0 \in T
  <2> DEFINE f == [x \in {} |-> {}]
  <2>1. f = [x \in ItemsOf[0] |-> of(f, x)]
    BY ItemsOfIs
  <2> HIDE DEF f
  <2> QED  BY <2>1
<1>4. ASSUME NEW n \in Nat, n \in T  PROVE n + 1 \in T
  <2> SUFFICES ASSUME n + 1 <= MaxLevels
               PROVE  \E f : f = [x \in ItemsOf[n + 1] |-> of(f, x)]
    OBVIOUS
  <2>1. n <= MaxLevels
    BY NextLevel
  <2>2. PICK f : f = [x \in ItemsOf[n] |-> of(f, x)]
    BY <1>4, <2>1
  <2> DEFINE g == [x \in ItemsOf[n + 1] |-> of(f, x)]
  <2>3. \A x \in ItemsOf[n + 1] :
          x \in Items /\ \A y \in Range(Children(x)) : y \in ItemsOf[n] /\ y \in ItemsOf[n + 1]
    BY NextLevel
  <2>4. \A y \in ItemsOf[n] : f[y] = of(f, y)
    BY <2>2
  <2>5. \A y \in ItemsOf[n + 1] : g[y] = of(f, y)
    OBVIOUS
  <2> HIDE DEF g
  <2>6. ASSUME NEW x \in ItemsOf[n + 1]  PROVE of(f, x) = of(g, x)
    <3>1. \A y \in Range(Children(x)) : f[y] = g[y]
      BY <2>3, <2>4, <2>5
    <3> QED  BY <1>2, <2>3, <3>1
  <2>7. g = [x \in ItemsOf[n + 1] |-> of(g, x)]
    BY <2>6 DEF g
  <2> QED  BY <2>7
<1> HIDE DEF T
<1>5. MaxLevels \in T
  BY <1>3, <1>4, Induction, MaxLevelsAssumption
<1>6. \E f : f = [x \in Items |-> of(f, x)]
  BY <1>5 DEF T, Items
<1>7. ToJson = [x \in Items |-> of(ToJson, x)]
  BY <1>1, <1>6, Zenon
<1>8. ASSUME NEW x \in Items  PROVE ToJson[x] = of(ToJson, x)
  BY <1>7
<1> QED  BY <1>8 DEF of

\* CanLoad is what its recursive definition says, by existence level by level.
LEMMA CanLoadIs ==
  \A x \in Yaml : CanLoad[x] = 
    /\ ~IsNull(x)
    /\ x.type = "sequence" => \A i \in DOMAIN x.items : CanLoad[x.items[i]]
    /\ x.type = "mapping" =>
         \A i \in DOMAIN x.pairs : IsNull(x.pairs[i].val) \/ CanLoad[x.pairs[i].val]
<1> DEFINE of(f, x) == 
    /\ ~IsNull(x)
    /\ x.type = "sequence" => \A i \in DOMAIN x.items : f[x.items[i]]
    /\ x.type = "mapping" =>
         \A i \in DOMAIN x.pairs : IsNull(x.pairs[i].val) \/ f[x.pairs[i].val]
<1>1. CanLoad = CHOOSE f : f = [x \in Yaml |-> of(f, x)]
  BY Zenon DEF CanLoad
<1>2. ASSUME NEW f, NEW g, NEW x \in Yaml, \A y \in YamlParts(x) : f[y] = g[y]
      PROVE  of(f, x) = of(g, x)
  <2>1. x.type = "sequence" => \A i \in DOMAIN x.items : f[x.items[i]] = g[x.items[i]]
    BY <1>2 DEF YamlParts, Range
  <2>2. x.type = "mapping" => \A i \in DOMAIN x.pairs : f[x.pairs[i].val] = g[x.pairs[i].val]
    BY <1>2 DEF YamlParts
  <2>3. of(f, x) <=> of(g, x)
    BY <2>1, <2>2
  <2> QED  BY <2>3
<1> HIDE DEF of
<1> DEFINE T == {n \in Nat : n <= MaxLevels => \E f : f = [x \in YamlOf[n] |-> of(f, x)]}
<1>3. 0 \in T
  <2> DEFINE f == [x \in {} |-> {}]
  <2>1. f = [x \in YamlOf[0] |-> of(f, x)]
    BY YamlOfIs
  <2> HIDE DEF f
  <2> QED  BY <2>1
<1>4. ASSUME NEW n \in Nat, n \in T  PROVE n + 1 \in T
  <2> SUFFICES ASSUME n + 1 <= MaxLevels
               PROVE  \E f : f = [x \in YamlOf[n + 1] |-> of(f, x)]
    OBVIOUS
  <2>1. n <= MaxLevels
    BY NextYaml
  <2>2. PICK f : f = [x \in YamlOf[n] |-> of(f, x)]
    BY <1>4, <2>1
  <2> DEFINE g == [x \in YamlOf[n + 1] |-> of(f, x)]
  <2>3. \A x \in YamlOf[n + 1] :
          x \in Yaml /\ \A y \in YamlParts(x) : y \in YamlOf[n] /\ y \in YamlOf[n + 1]
    BY NextYaml
  <2>4. \A y \in YamlOf[n] : f[y] = of(f, y)
    BY <2>2
  <2>5. \A y \in YamlOf[n + 1] : g[y] = of(f, y)
    OBVIOUS
  <2> HIDE DEF g
  <2>6. ASSUME NEW x \in YamlOf[n + 1]  PROVE of(f, x) = of(g, x)
    <3>1. \A y \in YamlParts(x) : f[y] = g[y]
      BY <2>3, <2>4, <2>5
    <3> QED  BY <1>2, <2>3, <3>1
  <2>7. g = [x \in YamlOf[n + 1] |-> of(g, x)]
    BY <2>6 DEF g
  <2> QED  BY <2>7
<1> HIDE DEF T
<1>5. MaxLevels \in T
  BY <1>3, <1>4, Induction, MaxLevelsAssumption
<1>6. \E f : f = [x \in Yaml |-> of(f, x)]
  BY <1>5 DEF T, Yaml
<1>7. CanLoad = [x \in Yaml |-> of(CanLoad, x)]
  BY <1>1, <1>6, Zenon
<1>8. ASSUME NEW x \in Yaml  PROVE CanLoad[x] = of(CanLoad, x)
  BY <1>7
<1> QED  BY <1>8 DEF of

\* Items made of smaller ones.
LEMMA NewVector ==
  ASSUME NEW n \in Nat, n + 1 <= MaxLevels, NEW s, s \in Seq(ItemsOf[n]),
         \A i \in DOMAIN s : WellFormed(s[i])
  PROVE  Vector(s) \in ItemsOf[n + 1] /\ WellFormed(Vector(s))
<1>1. n + 1 \in 1 .. MaxLevels /\ (n + 1) - 1 = n
  BY MaxLevelsAssumption
<1>2. Vector(s) \in ItemsOf[n + 1]
  BY <1>1, ItemsOfIs, OverIs
<1>3. Vector(s) \in Items
  BY <1>2, NextLevel
<1>4. IsVector(Vector(s)) /\ Vector(s).items = s
  BY ConstructorsAre
<1> QED  BY <1>2, <1>3, <1>4, ElementsAre

\* A map of well-formed items of n levels, with unique keys, has one level more.
LEMMA NewMap ==
  ASSUME NEW n \in Nat, n + 1 <= MaxLevels, NEW s, s \in Seq([key : Keys, val : ItemsOf[n]]),
         \A i, j \in DOMAIN s : s[i].key = s[j].key => i = j,
         \A i \in DOMAIN s : WellFormed(s[i].val)
  PROVE  Map(s) \in ItemsOf[n + 1] /\ WellFormed(Map(s))
<1>1. n + 1 \in 1 .. MaxLevels /\ (n + 1) - 1 = n
  BY MaxLevelsAssumption
<1>2. Map(s) \in ItemsOf[n + 1]
  BY <1>1, ItemsOfIs, OverIs
<1>3. Map(s) \in Items
  BY <1>2, NextLevel
<1>4. IsMap(Map(s)) /\ Map(s).entries = s
  BY ConstructorsAre
<1>5. IsInjective(KeysOf(s))
  BY DEF IsInjective, KeysOf
<1>6. IsDict(s)
  BY <1>5, DictOfItem
<1> QED  BY <1>2, <1>3, <1>4, <1>6, EntriesAre

\* An atom and an empty item have one level.
LEMMA NewAtom ==
  ASSUME NEW n \in Nat, n + 1 <= MaxLevels, NEW x, x = None \/ \E a \in Atoms : x = Atom(a)
  PROVE  x \in ItemsOf[n + 1] /\ WellFormed(x)
<1>1. n + 1 \in 1 .. MaxLevels /\ (n + 1) - 1 = n
  BY MaxLevelsAssumption
<1>2. x \in ItemsOf[n + 1]
  BY <1>1, ItemsOfIs, OverIs
<1>3. x \in Items
  BY <1>2, NextLevel
<1>4. IsNone(x) \/ IsAtom(x)
  BY ConstructorsAre
<1> QED  BY <1>2, <1>3, <1>4, NothingIn

\* What a function makes of the elements of a sequence, and of the values of entries.
LEMMA MappedItems ==
  ASSUME NEW P, NEW Q, NEW f, NEW s, s \in Seq(P), \A i \in DOMAIN s : f[s[i]] \in Q,
         NEW t, t = [i \in DOMAIN s |-> f[s[i]]]
  PROVE  t \in Seq(Q) /\ DOMAIN t = DOMAIN s /\ Len(t) = Len(s)
<1>1. DOMAIN s = 1 .. Len(s) /\ Len(s) \in Nat
  BY LenProperties
<1>2. t \in Seq(Q) /\ Len(t) = Len(s)
  BY <1>1
<1> QED  BY <1>1, <1>2

Mapped(t, s, f, P, Q) ==
  /\ s \in Seq([key : Keys, val : P])
  /\ \A i \in DOMAIN s : f[s[i].val] \in Q
  /\ t = [i \in DOMAIN s |-> Entry(s[i].key, f[s[i].val])]

MappedIs(t, s, f, Q) ==
  /\ t \in Seq([key : Keys, val : Q]) /\ DOMAIN t = DOMAIN s /\ Len(t) = Len(s)
  /\ \A i \in DOMAIN s : t[i].key = s[i].key /\ t[i].val = f[s[i].val]

\* Entries whose values are translated keep their keys and places.
LEMMA MappedEntries ==
  ASSUME NEW P, NEW Q, NEW f, NEW s, NEW t, Mapped(t, s, f, P, Q)
  PROVE  MappedIs(t, s, f, Q)
<1> DEFINE E == [key : Keys, val : Q]
<1>1. /\ s \in Seq([key : Keys, val : P]) /\ \A i \in DOMAIN s : f[s[i].val] \in Q
      /\ t = [i \in DOMAIN s |-> Entry(s[i].key, f[s[i].val])]
  BY DEF Mapped
<1>2. DOMAIN s = 1 .. Len(s) /\ Len(s) \in Nat
  BY <1>1, LenProperties
<1>3. \A i \in DOMAIN s : s[i].key \in Keys
  BY <1>1, PairsAre
<1>4. \A k \in Keys, y \in Q : Entry(k, y) \in E
  BY DEF Entry
<1>5. \A i \in DOMAIN s : t[i].key = s[i].key /\ t[i].val = f[s[i].val]
  BY <1>1 DEF Entry
<1> HIDE DEF E
<1>6. \A i \in DOMAIN s : t[i] \in E
  BY <1>3, <1>4, <1>1
<1>7. t \in Seq(E) /\ Len(t) = Len(s)
  BY <1>2, <1>6, <1>1
<1> QED  BY <1>2, <1>5, <1>7 DEF E, MappedIs

\* A document becomes a well-formed item with no more levels.
LEMMA FromYamlLevel ==
  ASSUME NEW n \in Nat, n <= MaxLevels
  PROVE  \A d \in YamlOf[n] : FromYaml[d] \in ItemsOf[n] /\ WellFormed(FromYaml[d])
<1> DEFINE ok(d, k) == FromYaml[d] \in ItemsOf[k] /\ WellFormed(FromYaml[d])
<1> DEFINE T == {k \in Nat : k <= MaxLevels => \A d \in YamlOf[k] : ok(d, k)}
<1>1. 0 \in T
  BY YamlOfIs
<1>2. ASSUME NEW k \in Nat, k \in T  PROVE k + 1 \in T
  <2> SUFFICES ASSUME k + 1 <= MaxLevels, NEW d \in YamlOf[k + 1]  PROVE ok(d, k + 1)
    OBVIOUS
  <2>1. k <= MaxLevels /\ d \in Yaml /\ IsYaml(d, YamlOf[k])
    BY NextYaml
  <2>2. \A e \in YamlOf[k] : ok(e, k)
    BY <1>2, <2>1
  <2>3. CASE d.type = "sequence"
    <3> DEFINE t == [i \in DOMAIN d.items |-> FromYaml[d.items[i]]]
    <3>1. d.items \in Seq(YamlOf[k])
      BY <2>1, <2>3, YamlKindsAre
    <3>2. \A i \in DOMAIN d.items : ok(d.items[i], k)
      BY <2>2, <3>1, LenProperties, ElementOfSeq
    <3>3. t \in Seq(ItemsOf[k]) /\ DOMAIN t = DOMAIN d.items
      <4>1. \A i \in DOMAIN d.items : FromYaml[d.items[i]] \in ItemsOf[k]
        BY <3>2
      <4> QED  BY <3>1, <4>1, MappedItems
    <3>4. \A i \in DOMAIN t : WellFormed(t[i])
      BY <3>2, <3>3
    <3>5. FromYaml[d] = Vector(t)
      BY <2>1, <2>3, FromYamlIs
    <3> HIDE DEF t
    <3> QED  BY <3>3, <3>4, <3>5, NewVector
  <2>4. CASE d.type = "mapping"
    <3> DEFINE s == Emplaced(d.pairs)
    <3> DEFINE t == [i \in DOMAIN s |-> Entry(s[i].key, FromYaml[s[i].val])]
    <3>1. d.pairs \in Seq([key : Keys, val : YamlOf[k]])
      BY <2>1, <2>4, YamlKindsAre
    <3>2. s \in Seq([key : Keys, val : YamlOf[k]]) /\ EmplacedOf(s, d.pairs)
      BY <3>1, EmplacedIs, Zenon
    <3>3. FromYaml[d] = Map(t)
      BY <2>1, <2>4, FromYamlIs
    <3> HIDE DEF s
    <3>4. \A i \in DOMAIN s : ok(s[i].val, k)
      BY <2>2, <3>2, PairsAre
    <3>5. /\ t \in Seq([key : Keys, val : ItemsOf[k]]) /\ DOMAIN t = DOMAIN s
          /\ \A i \in DOMAIN s : t[i].key = s[i].key /\ t[i].val = FromYaml[s[i].val]
      <4>1. Mapped(t, s, FromYaml, YamlOf[k], ItemsOf[k])
        BY <3>2, <3>4 DEF Mapped
      <4> HIDE DEF t
      <4>2. MappedIs(t, s, FromYaml, ItemsOf[k])
        BY <4>1, MappedEntries
      <4> QED  BY <4>2 DEF MappedIs
    <3> HIDE DEF t
    <3>6. \A i, j \in DOMAIN t : t[i].key = t[j].key => i = j
      BY <3>2, <3>5 DEF EmplacedOf
    <3>7. \A i \in DOMAIN t : WellFormed(t[i].val)
      BY <3>4, <3>5
    <3>8. Map(t) \in ItemsOf[k + 1] /\ WellFormed(Map(t))
      BY <3>5, <3>6, <3>7, NewMap, Zenon
    <3> QED  BY <3>3, <3>8
  <2>5. CASE d.type \notin {"sequence", "mapping"}
    <3>1. FromYaml[d] = IF IsNull(d) THEN None ELSE Atom(d.text)
      BY <2>1, <2>5, FromYamlIs
    <3>2. ~IsNull(d) => d.text \in Atoms
      BY <2>1, <2>5, YamlKindsAre
    <3>3. FromYaml[d] = None \/ \E a \in Atoms : FromYaml[d] = Atom(a)
      BY <3>1, <3>2
    <3> QED  BY <3>3, NewAtom
  <2> QED  BY <2>3, <2>4, <2>5
<1> HIDE DEF T
<1>3. n \in T
  BY <1>1, <1>2, Induction
<1> QED  BY <1>3 DEF T

\* asString of a document gives a text that an atom can be.
LEMMA TextIsAtom ==
  ASSUME NEW P, NEW d, IsJson(d, P), d.type \notin {"array", "object"}
  PROVE  TextOf(d) \in Atoms
<1>1. CASE d.type = "null"
  BY <1>1, EmptyAssumption DEF TextOf, IsNull
<1>2. CASE d.type = "boolean"
  BY <1>2, EmptyAssumption DEF TextOf, IsNull
<1>3. CASE d.type = "string"
  BY <1>3, JsonKindsAre DEF TextOf, IsNull
<1> QED  BY <1>1, <1>2, <1>3, JsonKindsAre

\* What is loaded from JSON has no more levels than the document, and unique keys.
LEMMA FromJsonLevel ==
  ASSUME NEW n \in Nat, n <= MaxLevels
  PROVE  \A d \in JsonOf[n] : FromJson[d] \in ItemsOf[n] /\ WellFormed(FromJson[d])
<1> DEFINE ok(d, k) == FromJson[d] \in ItemsOf[k] /\ WellFormed(FromJson[d])
<1> DEFINE T == {k \in Nat : k <= MaxLevels => \A d \in JsonOf[k] : ok(d, k)}
<1>1. 0 \in T
  BY JsonOfIs
<1>2. ASSUME NEW k \in Nat, k \in T  PROVE k + 1 \in T
  <2> SUFFICES ASSUME k + 1 <= MaxLevels, NEW d \in JsonOf[k + 1]  PROVE ok(d, k + 1)
    OBVIOUS
  <2>1. k <= MaxLevels /\ d \in Json /\ IsJson(d, JsonOf[k])
    BY NextJson
  <2>2. \A e \in JsonOf[k] : ok(e, k)
    BY <1>2, <2>1
  <2>3. CASE d.type = "array"
    <3> DEFINE t == [i \in DOMAIN d.items |-> FromJson[d.items[i]]]
    <3>1. d.items \in Seq(JsonOf[k])
      BY <2>1, <2>3, JsonKindsAre
    <3>2. \A i \in DOMAIN d.items : ok(d.items[i], k)
      BY <2>2, <3>1, LenProperties, ElementOfSeq
    <3>3. t \in Seq(ItemsOf[k]) /\ DOMAIN t = DOMAIN d.items
      <4>1. \A i \in DOMAIN d.items : FromJson[d.items[i]] \in ItemsOf[k]
        BY <3>2
      <4> QED  BY <3>1, <4>1, MappedItems
    <3>4. \A i \in DOMAIN t : WellFormed(t[i])
      BY <3>2, <3>3
    <3>5. FromJson[d] = Vector(t)
      BY <2>1, <2>3, FromJsonIs
    <3> HIDE DEF t
    <3> QED  BY <3>3, <3>4, <3>5, NewVector
  <2>4. CASE d.type = "object"
    <3> DEFINE s == Emplaced(Members(d))
    <3> DEFINE t == [i \in DOMAIN s |-> Entry(s[i].key, FromJson[s[i].val])]
    <3>1. Members(d) \in Seq([key : Keys, val : JsonOf[k]])
      BY <2>1, <2>4, MembersAre DEF MembersOf
    <3>2. s \in Seq([key : Keys, val : JsonOf[k]]) /\ EmplacedOf(s, Members(d))
      BY <3>1, EmplacedIs, Zenon
    <3>3. FromJson[d] = Map(t)
      BY <2>1, <2>4, FromJsonIs
    <3> HIDE DEF s
    <3>4. \A i \in DOMAIN s : ok(s[i].val, k)
      BY <2>2, <3>2, PairsAre
    <3>5. /\ t \in Seq([key : Keys, val : ItemsOf[k]]) /\ DOMAIN t = DOMAIN s
          /\ \A i \in DOMAIN s : t[i].key = s[i].key /\ t[i].val = FromJson[s[i].val]
      <4>1. Mapped(t, s, FromJson, JsonOf[k], ItemsOf[k])
        BY <3>2, <3>4 DEF Mapped
      <4> HIDE DEF t
      <4>2. MappedIs(t, s, FromJson, ItemsOf[k])
        BY <4>1, MappedEntries
      <4> QED  BY <4>2 DEF MappedIs
    <3> HIDE DEF t
    <3>6. \A i, j \in DOMAIN t : t[i].key = t[j].key => i = j
      BY <3>2, <3>5 DEF EmplacedOf
    <3>7. \A i \in DOMAIN t : WellFormed(t[i].val)
      BY <3>4, <3>5
    <3>8. Map(t) \in ItemsOf[k + 1] /\ WellFormed(Map(t))
      BY <3>5, <3>6, <3>7, NewMap, Zenon
    <3> QED  BY <3>3, <3>8
  <2>5. CASE d.type \notin {"array", "object"}
    <3>1. FromJson[d] = Atom(TextOf(d))
      BY <2>1, <2>5, FromJsonIs
    <3>2. TextOf(d) \in Atoms
      BY <2>1, <2>5, TextIsAtom
    <3> QED  BY <3>1, <3>2, NewAtom
  <2> QED  BY <2>3, <2>4, <2>5
<1> HIDE DEF T
<1>3. n \in T
  BY <1>1, <1>2, Induction
<1> QED  BY <1>3 DEF T

\* An item becomes a document with no more levels.
LEMMA ToYamlLevel ==
  ASSUME NEW n \in Nat, n <= MaxLevels
  PROVE  \A x \in ItemsOf[n] : ToYaml[x] \in YamlOf[n]
<1> DEFINE T == {k \in Nat : k <= MaxLevels => \A x \in ItemsOf[k] : ToYaml[x] \in YamlOf[k]}
<1>1. 0 \in T
  BY ItemsOfIs
<1>2. ASSUME NEW k \in Nat, k \in T  PROVE k + 1 \in T
  <2> SUFFICES ASSUME k + 1 <= MaxLevels, NEW x \in ItemsOf[k + 1]
               PROVE  ToYaml[x] \in YamlOf[k + 1]
    OBVIOUS
  <2>1. k <= MaxLevels /\ x \in Items /\ IsOver(x, ItemsOf[k])
    BY NextLevel
  <2>2. \A y \in ItemsOf[k] : ToYaml[y] \in YamlOf[k]
    BY <1>2, <2>1
  <2>3. YamlOf[k + 1] = YamlOver(YamlOf[k])
    <3>1. k + 1 \in 1 .. MaxLevels /\ (k + 1) - 1 = k
      BY MaxLevelsAssumption
    <3> QED  BY <3>1, YamlOfIs
  <2>4. CASE IsVector(x)
    <3> DEFINE t == [i \in DOMAIN x.items |-> ToYaml[x.items[i]]]
    <3>1. x.items \in Seq(ItemsOf[k])
      BY <2>1, <2>4, KindsAre
    <3>2. \A i \in DOMAIN x.items : ToYaml[x.items[i]] \in YamlOf[k]
      BY <2>2, <3>1, LenProperties, ElementOfSeq
    <3>3. t \in Seq(YamlOf[k])
      BY <3>1, <3>2, MappedItems
    <3>4. ToYaml[x] = Sequence(t)
      BY <2>1, <2>4, KindsAre, ToYamlIs
    <3> HIDE DEF t
    <3> QED  BY <2>3, <3>3, <3>4, YamlOverIs
  <2>5. CASE IsMap(x)
    <3> DEFINE s == x.entries
    <3> DEFINE t == [i \in DOMAIN s |-> Entry(s[i].key, ToYaml[s[i].val])]
    <3>1. s \in Seq([key : Keys, val : ItemsOf[k]])
      BY <2>1, <2>5, KindsAre
    <3>2. ToYaml[x] = Mapping(t)
      BY <2>1, <2>5, KindsAre, ToYamlIs
    <3> HIDE DEF s
    <3>3. \A i \in DOMAIN s : ToYaml[s[i].val] \in YamlOf[k]
      BY <2>2, <3>1, PairsAre
    <3>4. t \in Seq([key : Keys, val : YamlOf[k]])
      <4>1. Mapped(t, s, ToYaml, ItemsOf[k], YamlOf[k])
        BY <3>1, <3>3 DEF Mapped
      <4> HIDE DEF t
      <4>2. MappedIs(t, s, ToYaml, YamlOf[k])
        BY <4>1, MappedEntries
      <4> QED  BY <4>2 DEF MappedIs
    <3> HIDE DEF t
    <3> QED  BY <2>3, <3>2, <3>4, YamlOverIs
  <2>6. CASE ~IsVector(x) /\ ~IsMap(x)
    <3>1. ToYaml[x] = IF IsNone(x) THEN Null ELSE Scalar(x.atom)
      BY <2>1, <2>6, ToYamlIs
    <3>2. ~IsNone(x) => x.atom \in Atoms
      BY <2>1, <2>6, KindsAre
    <3> QED  BY <2>3, <3>1, <3>2, YamlOverIs
  <2> QED  BY <2>4, <2>5, <2>6
<1> HIDE DEF T
<1>3. n \in T
  BY <1>1, <1>2, Induction
<1> QED  BY <1>3 DEF T

\* What is saved as JSON has no more levels than the item.
LEMMA ToJsonLevel ==
  ASSUME NEW n \in Nat, n <= MaxLevels
  PROVE  \A x \in ItemsOf[n] : ToJson[x] \in JsonOf[n]
<1> DEFINE T == {k \in Nat : k <= MaxLevels => \A x \in ItemsOf[k] : ToJson[x] \in JsonOf[k]}
<1>1. 0 \in T
  BY ItemsOfIs
<1>2. ASSUME NEW k \in Nat, k \in T  PROVE k + 1 \in T
  <2> SUFFICES ASSUME k + 1 <= MaxLevels, NEW x \in ItemsOf[k + 1]
               PROVE  ToJson[x] \in JsonOf[k + 1]
    OBVIOUS
  <2>1. k <= MaxLevels /\ x \in Items /\ IsOver(x, ItemsOf[k])
    BY NextLevel
  <2>2. \A y \in ItemsOf[k] : ToJson[y] \in JsonOf[k]
    BY <1>2, <2>1
  <2>3. JsonOf[k + 1] = JsonOver(JsonOf[k])
    <3>1. k + 1 \in 1 .. MaxLevels /\ (k + 1) - 1 = k
      BY MaxLevelsAssumption
    <3> QED  BY <3>1, JsonOfIs
  <2>4. CASE IsVector(x) /\ x.items # << >>
    <3> DEFINE t == [i \in DOMAIN x.items |-> ToJson[x.items[i]]]
    <3>1. x.items \in Seq(ItemsOf[k])
      BY <2>1, <2>4, KindsAre
    <3>2. \A i \in DOMAIN x.items : ToJson[x.items[i]] \in JsonOf[k]
      BY <2>2, <3>1, LenProperties, ElementOfSeq
    <3>3. t \in Seq(JsonOf[k])
      BY <3>1, <3>2, MappedItems
    <3>4. ToJson[x] = Array(t)
      BY <2>1, <2>4, KindsAre, ToJsonIs
    <3> HIDE DEF t
    <3> QED  BY <2>3, <3>3, <3>4, JsonOverIs
  <2>5. CASE IsMap(x) /\ x.entries # << >>
    <3> DEFINE s == x.entries
    <3> DEFINE t == [a \in Keys |-> IF HasKey(s, a) THEN ToJson[At(s, a)] ELSE Null]
    <3>1. s \in Seq([key : Keys, val : ItemsOf[k]]) /\ s # << >>
      BY <2>1, <2>5, KindsAre
    <3>2. ToJson[x] = Object(t)
      BY <2>1, <2>5, KindsAre, ToJsonIs
    <3> HIDE DEF s
    <3>3. DOMAIN s = 1 .. Len(s) /\ Len(s) \in Nat /\ 1 \in DOMAIN s
      BY <3>1, LenProperties, EmptySeq
    <3>4. \A i \in DOMAIN s : s[i].val \in ItemsOf[k]
      BY <3>1, PairsAre
    <3>5. Null \in JsonOf[k]
      <4>1. k # 0
        BY <3>3, <3>4, ItemsOfIs
      <4>2. k \in 1 .. MaxLevels
        BY <2>1, <4>1, MaxLevelsAssumption
      <4>3. JsonOf[k] = JsonOver(JsonOf[k - 1])
        BY <4>2, JsonOfIs
      <4> QED  BY <4>3, JsonOverIs
    <3>6. ASSUME NEW a \in Keys, HasKey(s, a)  PROVE ToJson[At(s, a)] \in JsonOf[k]
      <4>1. PICK i \in 1 .. Len(s) : At(s, a) = s[i].val
        BY <3>1, <3>6, AtIsFirst
      <4> QED  BY <2>2, <3>3, <3>4, <4>1
    <3>7. t \in [Keys -> JsonOf[k]]
      BY <3>5, <3>6
    <3> HIDE DEF t
    <3> QED  BY <2>3, <3>2, <3>7, JsonOverIs
  <2>6. CASE ~(IsVector(x) /\ x.items # << >>) /\ ~(IsMap(x) /\ x.entries # << >>)
    <3>1. ToJson[x] = IF IsAtom(x) THEN TextToJson(x.atom) ELSE Null
      BY <2>1, <2>6, ToJsonIs
    <3>2. ASSUME NEW a \in Atoms
          PROVE  TextToJson(a) \in {Boolean(TRUE), Boolean(FALSE), String(a)}
      BY DEF TextToJson
    <3>3. IsAtom(x) => x.atom \in Atoms
      BY <2>1, KindsAre
    <3>4. \A a \in Atoms : TextToJson(a) \in JsonOf[k + 1]
      BY <2>3, <3>2, JsonOverIs
    <3>5. Null \in JsonOf[k + 1]
      BY <2>3, JsonOverIs
    <3> QED  BY <3>1, <3>3, <3>4, <3>5
  <2> QED  BY <2>4, <2>5, <2>6
<1> HIDE DEF T
<1>3. n \in T
  BY <1>1, <1>2, Induction
<1> QED  BY <1>3 DEF T

-----------------------------------------------------------------------------
\* One more than the sizes of the children, given the function that has them.
Total(f, x) ==
  LET c == Children(x)
      upTo[n \in 0 .. Len(c)] == IF n = 0 THEN 1 ELSE upTo[n - 1] + f[c[n]]
  IN  upTo[Len(c)]

\* Size is what its recursive definition says, by existence level by level.
LEMMA SizeIs ==
  \A x \in Items : Size[x] = Total(Size, x)
<1> DEFINE of(f, x) == Total(f, x)
<1>1. Size = CHOOSE f : f = [x \in Items |-> of(f, x)]
  BY Zenon DEF Size, Total
<1>2. ASSUME NEW f, NEW g, NEW x \in Items, \A y \in Range(Children(x)) : f[y] = g[y]
      PROVE  of(f, x) = of(g, x)
  <2> DEFINE c == Children(x)
  <2>1. IsOver(x, Items)
    BY ItemIs
  <2>2. Len(c) \in Nat /\ DOMAIN c = 1 .. Len(c)
    BY <2>1, ChildrenAre, LenProperties
  <2>3. \A n \in 1 .. Len(c) : f[c[n]] = g[c[n]]
    BY <1>2, <2>2 DEF Range
  <2> DEFINE up(h, s) == [n \in 0 .. Len(c) |-> IF n = 0 THEN 1 ELSE s[n - 1] + h[c[n]]]
  <2>4. Total(f, x) = (CHOOSE s : s = up(f, s))[Len(c)]
    BY DEF Total
  <2>5. Total(g, x) = (CHOOSE s : s = up(g, s))[Len(c)]
    BY DEF Total
  <2> HIDE DEF c
  <2>6. \A s : up(f, s) = up(g, s)
    <3>1. \A n \in 0 .. Len(c) : n # 0 => f[c[n]] = g[c[n]]
      BY <2>2, <2>3
    <3> QED  BY <3>1
  <2> HIDE DEF up
  <2>7. (CHOOSE s : s = up(f, s)) = CHOOSE s : s = up(g, s)
    BY <2>6
  <2> QED  BY <2>4, <2>5, <2>7
<1> HIDE DEF of
<1> DEFINE T == {n \in Nat : n <= MaxLevels => \E f : f = [x \in ItemsOf[n] |-> of(f, x)]}
<1>3. 0 \in T
  <2> DEFINE f == [x \in {} |-> {}]
  <2>1. f = [x \in ItemsOf[0] |-> of(f, x)]
    BY ItemsOfIs
  <2> HIDE DEF f
  <2> QED  BY <2>1
<1>4. ASSUME NEW n \in Nat, n \in T  PROVE n + 1 \in T
  <2> SUFFICES ASSUME n + 1 <= MaxLevels
               PROVE  \E f : f = [x \in ItemsOf[n + 1] |-> of(f, x)]
    OBVIOUS
  <2>1. n <= MaxLevels
    BY NextLevel
  <2>2. PICK f : f = [x \in ItemsOf[n] |-> of(f, x)]
    BY <1>4, <2>1
  <2> DEFINE g == [x \in ItemsOf[n + 1] |-> of(f, x)]
  <2>3. \A x \in ItemsOf[n + 1] :
          x \in Items /\ \A y \in Range(Children(x)) : y \in ItemsOf[n] /\ y \in ItemsOf[n + 1]
    BY NextLevel
  <2>4. \A y \in ItemsOf[n] : f[y] = of(f, y)
    BY <2>2
  <2>5. \A y \in ItemsOf[n + 1] : g[y] = of(f, y)
    OBVIOUS
  <2> HIDE DEF g
  <2>6. ASSUME NEW x \in ItemsOf[n + 1]  PROVE of(f, x) = of(g, x)
    <3>1. \A y \in Range(Children(x)) : f[y] = g[y]
      BY <2>3, <2>4, <2>5
    <3> QED  BY <1>2, <2>3, <3>1
  <2>7. g = [x \in ItemsOf[n + 1] |-> of(g, x)]
    BY <2>6 DEF g
  <2> QED  BY <2>7
<1> HIDE DEF T
<1>5. MaxLevels \in T
  BY <1>3, <1>4, Induction, MaxLevelsAssumption
<1>6. \E f : f = [x \in Items |-> of(f, x)]
  BY <1>5 DEF T, Items
<1>7. Size = [x \in Items |-> of(Size, x)]
  BY <1>1, <1>6, Zenon
<1>8. ASSUME NEW x \in Items  PROVE Size[x] = of(Size, x)
  BY <1>7
<1> QED  BY <1>8 DEF of

\* What ConfigMap loads, ConfigItem loads as well.
LEMMA LoadingMaps ==
  /\ \A d : LoadYamlMap(d) => LoadYaml(d)
  /\ \A d : LoadJsonMap(d) => LoadJson(d)
  BY DEF LoadYamlMap, LoadJsonMap, LoadMap, LoadYaml, LoadJson

\* The keys of every map stay unique and the reference refers to an item that is there,
\* through every call of ConfigItem, ConfigMap and ConfigVector, and every file loaded.
THEOREM TypeCorrect ==
  Spec => []TypeOK
<1>1. ASSUME Init  PROVE TypeOK
  <2> DEFINE x == Map(<< >>)
  <2>1. root = x /\ ref = << >>
    BY <1>1 DEF Init
  <2>2. 0 \in Nat /\ 0 + 1 <= MaxLevels /\ MaxItems >= 1
    BY MaxLevelsAssumption, MaxItemsAssumption
  <2>3. << >> \in Seq([key : Keys, val : ItemsOf[0]])
    OBVIOUS
  <2>4. x \in Items /\ WellFormed(x)
    <3>1. PICK n \in Nat : n = 0
      OBVIOUS
    <3>2. n + 1 <= MaxLevels /\ << >> \in Seq([key : Keys, val : ItemsOf[n]])
      BY <2>2, <3>1
    <3>3. DOMAIN << >> = {}
      OBVIOUS
    <3>4. x \in ItemsOf[n + 1] /\ WellFormed(x)
      BY <3>2, <3>3, NewMap
    <3> QED  BY <3>2, <3>4, NextLevel
  <2>5. IsMap(x) /\ x.entries = << >>
    BY ConstructorsAre
  <2> HIDE DEF x
  <2>6. Children(x) \in Seq(Items) /\ Len(Children(x)) = 0
    <3>1. IsOver(x, Items)
      BY <2>4, ItemIs
    <3>2. Len(Children(x)) = Len(x.entries)
      BY <2>5, <3>1, ChildrenAre
    <3> QED  BY <2>5, <3>1, <3>2, ChildrenAre
  <2>7. Size[x] = 1
    <3> DEFINE c == Children(x)
    <3> DEFINE up(s) == [n \in 0 .. Len(c) |-> IF n = 0 THEN 1 ELSE s[n - 1] + Size[c[n]]]
    <3>1. Total(Size, x) = (CHOOSE s : s = up(s))[Len(c)]
      BY DEF Total
    <3>2. Size[x] = Total(Size, x)
      BY <2>4, SizeIs
    <3> HIDE DEF c
    <3>3. Len(c) = 0
      BY <2>6 DEF c
    <3>4. \E s : s = up(s)
      <4> DEFINE s == [n \in 0 .. 0 |-> 1]
      <4>1. s = up(s)
        BY <3>3
      <4> HIDE DEF s
      <4> QED  BY <4>1
    <3>5. \A s : s = up(s) => s[0] = 1
      BY <3>3
    <3> HIDE DEF up
    <3> QED  BY <3>1, <3>2, <3>3, <3>4, <3>5
  <2>8. LeadsSomewhere(x, << >>)
    BY NoStep
  <2> QED  BY <2>1, <2>2, <2>4, <2>7, <2>8, EmptySeq DEF TypeOK, Bounded
<1>2. ASSUME TypeOK, [Next]_vars  PROVE TypeOK'
  <2>1. ASSUME NEW x, Load(x), WellFormed(x)  PROVE TypeOK'
    <3>1. root' = x /\ Bounded(x) /\ ref' = << >>
      BY <2>1 DEF Load
    <3>2. LeadsSomewhere(root', << >>)
      BY NoStep
    <3>3. WellFormed(root')
      BY <2>1, <3>1
    <3> QED  BY <3>1, <3>2, <3>3 DEF TypeOK
  <2>2. MaxLevels \in Nat /\ MaxLevels <= MaxLevels
    BY MaxLevelsAssumption
  <2>3. \A d \in Yaml : WellFormed(FromYaml[d])
    BY <2>2, FromYamlLevel DEF Yaml
  <2>4. \A d \in Json : WellFormed(FromJson[d])
    BY <2>2, FromJsonLevel DEF Json
  <2>5. root \in Items
    BY <1>2 DEF TypeOK, Bounded
  <2>6. ToYaml[root] \in Yaml /\ ToJson[root] \in Json
    BY <2>2, <2>5, ToYamlLevel, ToJsonLevel DEF Items, Yaml, Json
  <2>7. ASSUME NEW k \in Keys, Key(k)  PROVE TypeOK'
    BY <1>2, <2>7, KeyKeepsType
  <2>8. ASSUME NEW k \in Keys, Get(k)  PROVE TypeOK'
    BY <1>2, <2>8, GetKeepsType
  <2>9. ASSUME NEW i \in 1 .. MaxItems, Index(i)  PROVE TypeOK'
    BY <1>2, <2>9, IndexKeepsType
  <2>10. CASE Read
    BY <1>2, <2>10, ReadKeepsType DEF Read
  <2>11. CASE AskMap
    BY <1>2, <2>11, AskMapKeepsType
  <2>12. CASE AskVector
    BY <1>2, <2>12, AskVectorKeepsType
  <2>13. ASSUME NEW v \in Vals, AssignValue(v)  PROVE TypeOK'
    BY <1>2, <2>13, ReadKeepsType DEF AssignValue
  <2>14. ASSUME NEW v \in Vals, AppendValue(v)  PROVE TypeOK'
    BY <1>2, <2>14, AppendValueKeepsType
  <2>15. ASSUME NEW v \in Vals, NEW k \in Keys, GetOrCreate(k, v)  PROVE TypeOK'
    BY <1>2, <2>15, GetOrCreateKeepsType
  <2>16. CASE AssignNew
    BY <1>2, <2>16, AssignNewKeepsType
  <2>17. ASSUME NEW k \in Keys, EraseKey(k)  PROVE TypeOK'
    BY <1>2, <2>17, EraseKeepsType
  <2>18. ASSUME NEW i \in 1 .. MaxItems, EraseElement(i)  PROVE TypeOK'
    BY <1>2, <2>18, EraseKeepsType
  <2>19. ASSUME NEW u \in Updates, AppendMap(u)  PROVE TypeOK'
    BY <1>2, <2>19, AppendMapKeepsType
  <2>20. ASSUME NEW u \in Updates, UpdateMap(u)  PROVE TypeOK'
    BY <1>2, <2>20, UpdateMapKeepsType
  <2>21. ASSUME NEW d \in YamlFiles, LoadYaml(d) \/ LoadYamlMap(d)  PROVE TypeOK'
    BY <2>1, <2>3, <2>21, LoadingMaps, YamlFilesAssumption DEF LoadYaml
  <2>22. ASSUME NEW d \in JsonFiles, LoadJson(d) \/ LoadJsonMap(d)  PROVE TypeOK'
    BY <2>1, <2>4, <2>22, LoadingMaps, JsonFilesAssumption DEF LoadJson
  <2>23. CASE ReloadYaml
    BY <2>1, <2>3, <2>6, <2>23, LoadingMaps DEF ReloadYaml, LoadYaml
  <2>24. CASE ReloadJson
    BY <2>1, <2>4, <2>6, <2>24, LoadingMaps DEF ReloadJson, LoadJson
  <2>25. CASE Restart
    <3>1. root' = root /\ ref' = << >>
      BY <2>25 DEF Restart
    <3>2. LeadsSomewhere(root', << >>)
      BY NoStep
    <3> QED  BY <1>2, <3>1, <3>2 DEF TypeOK
  <2>26. CASE UNCHANGED vars
    BY <1>2, <2>26 DEF TypeOK, vars
  <2>27. CASE Access
    BY <2>27, <2>7, <2>8, <2>9, <2>10, <2>11, <2>12 DEF Access
  <2>28. CASE Change
    BY <2>28, <2>13, <2>14, <2>15, <2>16, <2>17, <2>18, <2>19, <2>20 DEF Change
  <2>29. CASE Reload
    BY <2>29, <2>21, <2>22, <2>23, <2>24 DEF Reload
  <2> QED  BY <1>2, <2>25, <2>26, <2>27, <2>28, <2>29 DEF Next
<1> QED  BY <1>1, <1>2, PTL DEF Spec

\* Saving as YAML and loading again, for every item that can be saved.
LEMMA YamlAndBack ==
  ASSUME NEW x \in Items, WellFormed(x), CanDump(x)
  PROVE  CanLoad[ToYaml[x]] /\ FromYaml[ToYaml[x]] = x
<1> DEFINE back(y) == /\ CanLoad[ToYaml[y]] /\ FromYaml[ToYaml[y]] = y
                      /\ ToYaml[y] \in Yaml /\ ~IsNull(ToYaml[y])
<1> DEFINE S == {y \in Items : WellFormed(y) /\ CanDump(y) => back(y)}
<1>1. ASSUME NEW y \in Items, Range(Children(y)) \subseteq S, WellFormed(y), CanDump(y)
      PROVE  back(y)
  <2> DEFINE d == ToYaml[y]
  <2>1. IsOver(y, Items) /\ ~IsNone(y)
    BY <1>1, ItemIs, CanDumpIs
  <2>2. d \in Yaml
    <3>1. MaxLevels \in Nat /\ MaxLevels <= MaxLevels
      BY MaxLevelsAssumption
    <3> QED  BY <3>1, ToYamlLevel DEF Items, Yaml
  <2>3. ASSUME NEW i \in DOMAIN Children(y)  PROVE back(Children(y)[i])
    <3>1. Children(y)[i] \in S
      BY <1>1 DEF Range
    <3>2. WellFormed(Children(y)[i]) /\ CanDump(Children(y)[i])
      BY <1>1, WellFormedIs, CanDumpIs
    <3> QED  BY <3>1, <3>2
  <2> HIDE DEF d
  <2>4. CASE IsVector(y)
    <3> DEFINE s == y.items
    <3> DEFINE t == [i \in DOMAIN s |-> ToYaml[s[i]]]
    <3>1. s \in Seq(Items) /\ y = Vector(s) /\ Children(y) = s /\ ~IsMap(y)
      BY <2>1, <2>4, KindsAre, ChildrenAre
    <3>2. d = Sequence(t)
      BY <2>4, <3>1, ToYamlIs DEF d
    <3>3. d.type = "sequence" /\ d.items = t
      BY <3>2 DEF Sequence
    <3> HIDE DEF s
    <3>4. DOMAIN t = DOMAIN s /\ \A i \in DOMAIN s : t[i] = ToYaml[s[i]] /\ back(s[i])
      BY <2>3, <3>1
    <3>5. ~IsNull(d)
      BY <3>3 DEF IsNull
    <3>6. CanLoad[d]
      <4>1. \A i \in DOMAIN d.items : CanLoad[d.items[i]]
        BY <3>3, <3>4
      <4> HIDE DEF t
      <4> QED  BY <2>2, <3>3, <3>5, <4>1, CanLoadIs
    <3>7. FromYaml[d] = Vector([i \in DOMAIN t |-> FromYaml[t[i]]])
      BY <2>2, <3>3, FromYamlIs
    <3> HIDE DEF t
    <3>8. [i \in DOMAIN t |-> FromYaml[t[i]]] = [i \in DOMAIN s |-> s[i]]
      BY <3>4
    <3>9. s = [i \in DOMAIN s |-> s[i]]
      BY <3>1
    <3> QED  BY <2>2, <3>1, <3>5, <3>6, <3>7, <3>8, <3>9 DEF d
  <2>5. CASE IsMap(y)
    <3> DEFINE s == y.entries
    <3> DEFINE t == [i \in DOMAIN s |-> Entry(s[i].key, ToYaml[s[i].val])]
    <3>1. s \in Seq([key : Keys, val : Items]) /\ y = Map(s) /\ IsDict(s)
      BY <1>1, <2>1, <2>5, KindsAre, WellFormedIs
    <3>2. DOMAIN Children(y) = DOMAIN s /\ \A i \in DOMAIN s : Children(y)[i] = s[i].val
      BY <2>1, <2>5, ChildrenAre
    <3>3. d = Mapping(t)
      BY <2>1, <2>5, KindsAre, ToYamlIs DEF d
    <3>4. d.type = "mapping" /\ d.pairs = t
      BY <3>3 DEF Mapping
    <3> HIDE DEF s
    <3>5. ASSUME NEW i \in DOMAIN s  PROVE back(s[i].val)
      BY <2>3, <3>2
    <3>6. Mapped(t, s, ToYaml, Items, Yaml)
      BY <3>1, <3>5 DEF Mapped
    <3> HIDE DEF t
    <3>7. MappedIs(t, s, ToYaml, Yaml)
      BY <3>6, MappedEntries
    <3>8. \A i \in DOMAIN t : ~IsNull(t[i].val) /\ CanLoad[t[i].val]
      BY <3>5, <3>7 DEF MappedIs
    <3>9. \A i, j \in DOMAIN t : t[i].key = t[j].key => i = j
      BY <3>1, <3>7 DEF MappedIs, IsDict
    <3>10. Emplaced(t) = t
      <4>1. t \in Seq([key : Keys, val : Yaml])
        BY <3>7 DEF MappedIs
      <4>2. \A i \in DOMAIN t : ~IsNull(t[i].val)
        BY <3>8
      <4> QED  BY <3>9, <4>1, <4>2, EmplacedIsAll
    <3>11. ~IsNull(d)
      BY <3>4 DEF IsNull
    <3>12. CanLoad[d]
      BY <2>2, <3>4, <3>8, <3>11, CanLoadIs
    <3>13. FromYaml[d] = Map([i \in DOMAIN t |-> Entry(t[i].key, FromYaml[t[i].val])])
      BY <2>2, <3>4, <3>10, FromYamlIs
    <3>14. [i \in DOMAIN t |-> Entry(t[i].key, FromYaml[t[i].val])] = [i \in DOMAIN s |-> s[i]]
      <4>1. \A i \in DOMAIN s : Entry(t[i].key, FromYaml[t[i].val]) = s[i]
        BY <3>1, <3>5, <3>7 DEF MappedIs, IsDict
      <4> QED  BY <3>7, <4>1 DEF MappedIs
    <3>15. s = [i \in DOMAIN s |-> s[i]]
      BY <3>1
    <3> QED  BY <2>2, <3>1, <3>11, <3>12, <3>13, <3>14, <3>15 DEF d
  <2>6. CASE IsAtom(y)
    <3>1. y = Atom(y.atom) /\ ~IsVector(y) /\ ~IsMap(y)
      BY <2>1, <2>6, KindsAre
    <3>2. d = Scalar(y.atom)
      BY <2>1, <3>1, ToYamlIs DEF d
    <3>3. d.type = "scalar" /\ d.text = y.atom /\ ~IsNull(d)
      BY <3>2 DEF Scalar, IsNull
    <3>4. CanLoad[d]
      BY <2>2, <3>3, CanLoadIs
    <3>5. FromYaml[d] = Atom(d.text)
      BY <2>2, <3>3, FromYamlIs
    <3> QED  BY <2>2, <3>1, <3>3, <3>4, <3>5 DEF d
  <2> QED  BY <2>1, <2>4, <2>5, <2>6, KindsAre
<1> HIDE DEF back
<1>2. \A y \in Items : Range(Children(y)) \subseteq S => y \in S
  BY <1>1
<1> HIDE DEF S
<1>3. Items \subseteq S
  BY <1>2, ItemInduction
<1> QED  BY <1>3 DEF S, back

\* What toYamlFile writes, fromYamlFile can read, and it gives back the same configuration:
\* every key, every value and all of their order, at every depth.
THEOREM NothingLostInYaml ==
  Spec => []YamlKeepsAll
<1>1. TypeOK => YamlKeepsAll
  BY YamlAndBack DEF TypeOK, Bounded, YamlKeepsAll
<1> QED  BY <1>1, TypeCorrect, PTL

-----------------------------------------------------------------------------
\* What FlattenSeq goes through.
FlatSoFar(f, s, V) ==
  /\ f \in [0 .. Len(s) -> Seq(V)]
  /\ f[0] = << >>
  /\ \A n \in 1 .. Len(s) : f[n] = f[n - 1] \o s[n]
  /\ FlattenSeq(s) = f[Len(s)]

\* The recursive function inside FlattenSeq exists and unfolds.
LEMMA FlattenUnfolds ==
  ASSUME NEW V, NEW s \in Seq(Seq(V))
  PROVE  \E f : FlatSoFar(f, s, V)
<1> DEFINE S == Seq(V)
<1> DEFINE L == Len(s)
<1> DEFINE step == [n \in 1 .. L |-> [x \in S |-> x \o s[n]]]
<1>1. L \in Nat /\ DOMAIN s = 1 .. L /\ \A n \in 1 .. L : s[n] \in S
  OBVIOUS
<1>2. << >> \in S /\ (\A x \in S : << >> \o x = x) /\ (\A x, y \in S : x \o y \in S)
  OBVIOUS
<1>3. s \in Seq(S) /\ (L = 0 => s = << >>)
  OBVIOUS
<1> DEFINE body(f) == [i \in 1 .. L |-> IF i = 1 THEN s[i] ELSE f[i - 1] \o s[i]]
<1> DEFINE g == CHOOSE f : f = body(f)
<1>4. FlattenSeq(s) = IF L = 0 THEN s ELSE g[L]
  BY DEF FlattenSeq
<1> HIDE DEF S, L, g
<1>5. step \in Steps(L, S)
  BY <1>1, <1>2 DEF Steps
<1>6. \A n \in 1 .. L : \A x \in S : step[n][x] = x \o s[n]
  OBVIOUS
<1> HIDE DEF step
<1>7. PICK h : StepFrom(h, << >>, step, L, S)
  BY <1>1, <1>2, <1>5, StepByStep
<1>8. h \in [0 .. L -> S] /\ h[0] = << >> /\ \A n \in 1 .. L : h[n] = h[n - 1] \o s[n]
  <2>1. \A n \in 1 .. L : n - 1 \in 0 .. L
    BY <1>1
  <2> QED  BY <1>6, <1>7, <2>1 DEF StepFrom
<1>9. \E f : f = body(f)
  <2> DEFINE f == [i \in 1 .. L |-> h[i]]
  <2>1. ASSUME NEW i \in 1 .. L
        PROVE  h[i] = IF i = 1 THEN s[i] ELSE f[i - 1] \o s[i]
    <3>1. h[i] = h[i - 1] \o s[i]
      BY <1>8
    <3>2. CASE i = 1
      <4>1. i - 1 = 0 /\ s[i] \in S
        BY <1>1, <3>2
      <4> QED  BY <1>2, <1>8, <3>1, <3>2, <4>1
    <3>3. CASE i # 1
      <4>1. i - 1 \in 1 .. L
        BY <1>1, <3>3
      <4> QED  BY <3>1, <3>3, <4>1
    <3> QED  BY <3>2, <3>3
  <2>2. f = body(f)
    BY <2>1
  <2> HIDE DEF f, body
  <2> QED  BY <2>2
<1>10. g = body(g)
  <2> HIDE DEF body
  <2> QED  BY <1>9, Zenon DEF g
<1>11. \A i \in 1 .. L : g[i] = IF i = 1 THEN s[i] ELSE g[i - 1] \o s[i]
  BY <1>10
<1> DEFINE T == {n \in Nat : n + 1 <= L => g[n + 1] = h[n + 1]}
<1>12. 0 \in T
  <2>1. CASE 1 <= L
    <3>1. 1 \in 1 .. L /\ 1 - 1 = 0
      BY <1>1, <2>1
    <3>2. g[1] = s[1] /\ h[1] = << >> \o s[1] /\ s[1] \in S
      BY <1>1, <1>8, <1>11, <3>1
    <3> QED  BY <1>2, <3>2
  <2> QED  BY <1>1, <2>1
<1>13. ASSUME NEW n \in Nat, n \in T  PROVE n + 1 \in T
  <2> SUFFICES ASSUME (n + 1) + 1 <= L  PROVE g[(n + 1) + 1] = h[(n + 1) + 1]
    OBVIOUS
  <2>1. (n + 1) + 1 \in 1 .. L /\ (n + 1) + 1 # 1 /\ ((n + 1) + 1) - 1 = n + 1 /\ n + 1 <= L
    BY <1>1
  <2>2. g[n + 1] = h[n + 1]
    BY <1>13, <2>1
  <2> DEFINE m == (n + 1) + 1
  <2>3. m \in 1 .. L /\ m # 1 /\ m - 1 = n + 1
    BY <2>1
  <2> HIDE DEF m
  <2>4. h[m] = h[m - 1] \o s[m]
    BY <1>8, <2>3
  <2>5. g[m] = g[m - 1] \o s[m]
    BY <1>11, <2>3
  <2>6. g[m] = h[m]
    BY <2>2, <2>3, <2>4, <2>5
  <2> QED  BY <2>6 DEF m
<1> HIDE DEF T
<1>14. L # 0 => g[L] = h[L]
  <2> SUFFICES ASSUME L # 0  PROVE g[L] = h[L]
    OBVIOUS
  <2>1. L - 1 \in Nat /\ (L - 1) + 1 = L
    BY <1>1
  <2>2. L - 1 \in T
    BY <1>12, <1>13, <2>1, Induction
  <2> QED  BY <2>1, <2>2 DEF T
<1>15. FlattenSeq(s) = h[L]
  BY <1>3, <1>4, <1>8, <1>14
<1> QED  BY <1>8, <1>15 DEF FlatSoFar, S, L

\* Flattening goes from left to right.
LEMMA FlattenIs ==
  ASSUME NEW V, NEW s \in Seq(Seq(V)), NEW t \in Seq(V)
  PROVE  /\ FlattenSeq(s) \in Seq(V)
         /\ FlattenSeq(Append(s, t)) = FlattenSeq(s) \o t
<1> DEFINE S == Seq(V)
<1> DEFINE L == Len(s)
<1> DEFINE w == Append(s, t)
<1>1. L \in Nat /\ w \in Seq(S) /\ Len(w) = L + 1 /\ w[L + 1] = t /\ \A n \in 1 .. L : w[n] = s[n]
  OBVIOUS
<1>2. PICK f : FlatSoFar(f, s, V)
  BY FlattenUnfolds
<1>3. PICK g : FlatSoFar(g, w, V)
  BY <1>1, FlattenUnfolds
<1> HIDE DEF w, L
<1> DEFINE T == {n \in Nat : n <= L => g[n] = f[n]}
<1>4. 0 \in T
  BY <1>2, <1>3 DEF FlatSoFar
<1>5. ASSUME NEW n \in Nat, n \in T  PROVE n + 1 \in T
  <2> SUFFICES ASSUME n + 1 <= L  PROVE g[n + 1] = f[n + 1]
    OBVIOUS
  <2>1. n + 1 \in 1 .. L /\ n + 1 \in 1 .. L + 1 /\ (n + 1) - 1 = n /\ n <= L
    BY <1>1
  <2>2. f[n + 1] = f[n] \o s[n + 1]
    BY <1>2, <2>1 DEF FlatSoFar, L
  <2>3. g[n + 1] = g[n] \o w[n + 1]
    BY <1>1, <1>3, <2>1 DEF FlatSoFar
  <2> QED  BY <1>1, <1>5, <2>1, <2>2, <2>3
<1> HIDE DEF T
<1>6. g[L] = f[L]
  <2>1. L \in T
    BY <1>1, <1>4, <1>5, Induction
  <2> QED  BY <1>1, <2>1 DEF T
<1>7. g[L + 1] = g[L] \o t
  <2>1. L + 1 \in 1 .. L + 1 /\ (L + 1) - 1 = L
    BY <1>1
  <2> QED  BY <1>1, <1>3, <2>1 DEF FlatSoFar
<1>8. FlattenSeq(s) = f[L] /\ f[L] \in Seq(V)
  <2>1. f \in [0 .. L -> Seq(V)] /\ FlattenSeq(s) = f[L]
    BY <1>2 DEF FlatSoFar, L
  <2>2. L \in 0 .. L
    BY <1>1
  <2> QED  BY <2>1, <2>2
<1>9. FlattenSeq(w) = g[L + 1]
  BY <1>1, <1>3 DEF FlatSoFar
<1> QED  BY <1>6, <1>7, <1>8, <1>9 DEF w

\* Flattening nothing, and one sequence.
LEMMA FlattenFew ==
  ASSUME NEW V, NEW t \in Seq(V)
  PROVE  FlattenSeq(<< >>) = << >> /\ FlattenSeq(<< t >>) = t
<1> DEFINE e == << >>
<1>1. e \in Seq(Seq(V)) /\ << t >> = Append(e, t) /\ << >> \o t = t
  OBVIOUS
<1>2. FlattenSeq(e) = << >>
  BY DEF FlattenSeq
<1> HIDE DEF e
<1>3. FlattenSeq(Append(e, t)) = FlattenSeq(e) \o t
  BY <1>1, FlattenIs
<1> QED  BY <1>1, <1>2, <1>3 DEF e

\* The contents of items one after the other.
ContentsOfAll(s) == [i \in DOMAIN s |-> Contents[s[i]]]

\* The contents of an item that is no atom are those of its children, one after the other.
LEMMA ContentsIn ==
  ASSUME NEW x \in Items
  PROVE  /\ Contents[x] \in Seq(Atoms)
         /\ Children(x) \in Seq(Items) /\ ContentsOfAll(Children(x)) \in Seq(Seq(Atoms))
         /\ ~IsAtom(x) => Contents[x] = FlattenSeq(ContentsOfAll(Children(x)))
<1> DEFINE S == {y \in Items : Contents[y] \in Seq(Atoms)}
<1> DEFINE c(y) == ContentsOfAll(Children(y))
<1>1. \A y \in Items :
        Contents[y] = IF IsAtom(y) /\ y.atom # Empty THEN << y.atom >> ELSE FlattenSeq(c(y))
  BY ContentsAre DEF ContentsOfAll
<1>2. ASSUME NEW y \in Items, Range(Children(y)) \subseteq S
      PROVE  Children(y) \in Seq(Items) /\ c(y) \in Seq(Seq(Atoms))
  <2>1. Children(y) \in Seq(Items)
    BY ItemIs, ChildrenAre
  <2>2. \A i \in DOMAIN Children(y) : Contents[Children(y)[i]] \in Seq(Atoms)
    BY <1>2 DEF Range
  <2>3. DOMAIN Children(y) = 1 .. Len(Children(y)) /\ Len(Children(y)) \in Nat
    BY <2>1, LenProperties
  <2>4. c(y) \in Seq(Seq(Atoms))
    BY <2>2, <2>3 DEF ContentsOfAll
  <2> QED  BY <2>1, <2>4
<1>3. ASSUME NEW y \in Items, Range(Children(y)) \subseteq S  PROVE y \in S
  <2> DEFINE e == << >>
  <2>1. c(y) \in Seq(Seq(Atoms)) /\ e \in Seq(Atoms)
    BY <1>2, <1>3
  <2>2. FlattenSeq(c(y)) \in Seq(Atoms)
    BY <2>1, FlattenIs
  <2>3. IsAtom(y) => y.atom \in Atoms
    BY ItemIs, KindsAre
  <2>4. \A a \in Atoms : << a >> \in Seq(Atoms)
    OBVIOUS
  <2> HIDE DEF c
  <2> QED  BY <1>1, <2>2, <2>3, <2>4
<1> HIDE DEF S
<1>4. Items \subseteq S
  BY <1>3, ItemInduction
<1>5. Range(Children(x)) \subseteq S
  BY <1>4, ItemIs, ChildrenAre
<1>6. Children(x) \in Seq(Items) /\ c(x) \in Seq(Seq(Atoms))
  BY <1>2, <1>5
<1> QED  BY <1>1, <1>4, <1>6 DEF S

\* The items that hold nothing.
LEMMA EmptyItems ==
  /\ Map(<< >>) \in Items /\ Vector(<< >>) \in Items /\ None \in Items /\ Atom(Empty) \in Items
  /\ \A x \in {Map(<< >>), Vector(<< >>), None, Atom(Empty)} : Contents[x] = << >>
<1>1. PICK n \in Nat : n = 0
  OBVIOUS
<1>2. /\ n + 1 <= MaxLevels
      /\ << >> \in Seq([key : Keys, val : ItemsOf[n]]) /\ << >> \in Seq(ItemsOf[n])
  BY <1>1, MaxLevelsAssumption
<1>3. DOMAIN << >> = {}
  OBVIOUS
<1>4. Map(<< >>) \in Items
  BY <1>2, <1>3, NewMap, NextLevel
<1>5. Vector(<< >>) \in Items
  BY <1>2, <1>3, NewVector, NextLevel
<1>6. None \in Items /\ Atom(Empty) \in Items
  BY SmallItems, EmptyAssumption
<1>7. ASSUME NEW x \in {Map(<< >>), Vector(<< >>), None, Atom(Empty)}  PROVE Contents[x] = << >>
  <2>1. x \in Items
    BY <1>4, <1>5, <1>6
  <2>2. Children(x) \in Seq(Items) /\ Len(Children(x)) = 0
    <3>1. CASE x = Map(<< >>)
      <4>1. IsMap(x) /\ x.entries = << >>
        BY <3>1, ConstructorsAre
      <4>2. Len(Children(x)) = Len(x.entries)
        BY <2>1, <4>1, ItemIs, ChildrenAre
      <4> QED  BY <2>1, <4>1, <4>2, ItemIs, ChildrenAre
    <3>2. CASE x = Vector(<< >>)
      <4>1. IsVector(x) /\ x.items = << >>
        BY <3>2, ConstructorsAre
      <4> QED  BY <2>1, <4>1, ItemIs, ChildrenAre
    <3>3. CASE x = None \/ x = Atom(Empty)
      <4>1. IsNone(x) \/ IsAtom(x)
        BY <3>3, ConstructorsAre
      <4>2. Children(x) = << >>
        BY <2>1, <4>1, NothingIn
      <4> QED  BY <4>2
    <3> QED  BY <3>1, <3>2, <3>3
  <2>3. ~(IsAtom(x) /\ x.atom # Empty)
    <3>1. CASE x = Map(<< >>)
      BY <3>1 DEF Map, IsAtom
    <3>2. CASE x = Vector(<< >>)
      BY <3>2 DEF Vector, IsAtom
    <3>3. CASE x = None
      BY <3>3 DEF None, IsAtom
    <3>4. CASE x = Atom(Empty)
      BY <3>4, ConstructorsAre
    <3> QED  BY <3>1, <3>2, <3>3, <3>4
  <2>4. Contents[x] = FlattenSeq([i \in DOMAIN Children(x) |-> Contents[Children(x)[i]]])
    BY <2>1, <2>3, ContentsAre
  <2>5. Children(x) = << >>
    BY <2>2
  <2>6. [i \in DOMAIN Children(x) |-> Contents[Children(x)[i]]] = << >>
    BY <2>5
  <2>7. FlattenSeq(<< >>) = << >>
    BY DEF FlattenSeq
  <2> QED  BY <2>4, <2>6, <2>7
<1> QED  BY <1>4, <1>5, <1>6, <1>7

\* An empty item more at the end, or one item alone, changes no contents.
LEMMA OneMore ==
  ASSUME NEW a \in Items, NEW b \in Items, ~IsAtom(a), ~IsAtom(b),
         Children(b) = Append(Children(a), None)
  PROVE  Contents[b] = Contents[a]
<1> DEFINE s == Children(a)
<1> DEFINE e == << >>
<1>1. s \in Seq(Items) /\ ContentsOfAll(s) \in Seq(Seq(Atoms))
      /\ Contents[a] = FlattenSeq(ContentsOfAll(s)) /\ Contents[a] \in Seq(Atoms)
  BY ContentsIn
<1>2. Contents[b] = FlattenSeq(ContentsOfAll(Append(s, None)))
  BY ContentsIn
<1>3. Contents[None] = e
  BY EmptyItems
<1> HIDE DEF s
<1>4. ContentsOfAll(Append(s, None)) = Append(ContentsOfAll(s), Contents[None])
  <2>1. Len(s) \in Nat /\ DOMAIN s = 1 .. Len(s)
    BY <1>1
  <2>2. /\ DOMAIN Append(s, None) = 1 .. Len(s) + 1 /\ Append(s, None)[Len(s) + 1] = None
        /\ \A i \in 1 .. Len(s) : Append(s, None)[i] = s[i]
    BY <1>1
  <2>3. Len(ContentsOfAll(s)) = Len(s)
    BY <2>1 DEF ContentsOfAll
  <2>4. \A i \in 1 .. Len(s) + 1 :
          Contents[Append(s, None)[i]] = IF i = Len(s) + 1 THEN Contents[None] ELSE Contents[s[i]]
    BY <2>1, <2>2
  <2> QED  BY <2>1, <2>2, <2>3, <2>4 DEF ContentsOfAll
<1>5. e \in Seq(Atoms) /\ \A t \in Seq(Atoms) : t \o e = t
  OBVIOUS
<1> HIDE DEF e
<1>6. FlattenSeq(Append(ContentsOfAll(s), e)) = FlattenSeq(ContentsOfAll(s)) \o e
  BY <1>1, <1>5, FlattenIs
<1> QED  BY <1>1, <1>2, <1>3, <1>4, <1>5, <1>6

\* An item that is wrapped into a vector has the contents it had.
LEMMA OneAlone ==
  ASSUME NEW x \in Items, Vector(<< x >>) \in Items
  PROVE  Contents[Vector(<< x >>)] = Contents[x]
<1> DEFINE b == Vector(<< x >>)
<1>1. IsVector(b) /\ b.items = << x >>
  BY ConstructorsAre
<1>2. ~IsAtom(b) /\ Children(b) = << x >>
  BY <1>1, ItemIs, KindsAre, ChildrenAre
<1>3. Contents[b] = FlattenSeq(ContentsOfAll(<< x >>))
  BY <1>2, ContentsIn
<1>4. ContentsOfAll(<< x >>) = << Contents[x] >>
  BY DEF ContentsOfAll
<1>5. FlattenSeq(<< Contents[x] >>) = Contents[x]
  BY ContentsIn, FlattenFew
<1> QED  BY <1>3, <1>4, <1>5

\* An item with the same contents in the place of another.
LEMMA ChildContents ==
  ASSUME NEW a \in Items, NEW b \in Items, NEW i, SameBut(a, b, i),
         Contents[Children(a)[i]] = Contents[Children(b)[i]]
  PROVE  Contents[a] = Contents[b]
<1>1. ~IsAtom(a) /\ ~IsAtom(b)
  BY ItemIs, KindsAre DEF SameBut
<1>2. ContentsOfAll(Children(a)) = ContentsOfAll(Children(b))
  BY DEF SameBut, ContentsOfAll
<1> QED  BY <1>1, <1>2, ContentsIn

\* What is replaced by an item of the same contents leaves the contents of the whole.
LEMMA ReplaceContents ==
  ASSUME NEW x \in Items, WellFormed(x), NEW path, Len(path) \in Nat, LeadsSomewhere(x, path),
         NEW y, Replace(x, path, y) \in Items, y \in Items => Contents[y] = Contents[ItemOf(x, path)]
  PROVE  Contents[Replace(x, path, y)] = Contents[x]
<1> DEFINE R == {p \in Items \X Items : Contents[p[1]] = Contents[p[2]]}
<1>1. OnPath(x, path, y)
  BY ReplaceIs
<1>2. << ItemOf(x, path), y >> \in R
  BY <1>1 DEF OnPath
<1>3. ASSUME NEW a \in Items, NEW b \in Items, NEW i, SameBut(a, b, i),
             << Children(a)[i], Children(b)[i] >> \in R
      PROVE  << a, b >> \in R
  BY <1>3, ChildContents
<1> HIDE DEF R
<1>4. << x, Replace(x, path, y) >> \in R
  BY <1>2, <1>3, ReplaceKeeps
<1> QED  BY <1>4 DEF R

\* A call keeps the contents of the tree if it keeps those of the item.
LEMMA LeaveContents ==
  ASSUME TypeOK, NEW y, NEW path, Leave(y, path), y \in Items => Contents[y] = Contents[r]
  PROVE  Contents[root'] = Contents[root]
<1>1. root \in Items /\ WellFormed(root) /\ Len(ref) \in Nat /\ LeadsSomewhere(root, ref)
  BY LenProperties DEF TypeOK, Bounded
<1>2. root' = Replace(root, ref, y) /\ root' \in Items
  BY LeaveIs
<1>3. y \in Items => Contents[y] = Contents[ItemOf(root, ref)]
  BY DEF r
<1> QED  BY <1>1, <1>2, <1>3, ReplaceContents

\* An empty item holds as much as the map, the vector or the atom it becomes.
LEMMA AsMapContents ==
  ASSUME NEW x \in Items, CanBeMap(x)
  PROVE  AsMap(x) \in Items /\ Contents[AsMap(x)] = Contents[x] /\ IsMap(AsMap(x))
<1>1. IsOver(x, Items)
  BY ItemIs
<1>2. CASE IsNone(x)
  <2>1. x = None
    BY <1>1, <1>2, KindsAre
  <2>2. AsMap(x) = Map(<< >>) /\ IsMap(Map(<< >>))
    BY <1>2, ConstructorsAre DEF AsMap
  <2>3. Map(<< >>) \in Items /\ Contents[Map(<< >>)] = << >> /\ Contents[None] = << >>
    BY EmptyItems
  <2> QED  BY <2>1, <2>2, <2>3
<1>3. CASE IsMap(x)
  <2>1. AsMap(x) = x
    BY <1>1, <1>3, KindsAre DEF AsMap
  <2> QED  BY <1>3, <2>1
<1> QED  BY <1>2, <1>3 DEF CanBeMap

\* getOrCreateVector loses no value.
LEMMA AsVectorContents ==
  ASSUME NEW x \in Items, WellFormed(x), NEW y \in Items, y = AsVector(x)
  PROVE  Contents[y] = Contents[x] /\ IsVector(y)
<1> DEFINE v == AsVector(x).items
<1>1. /\ y = Vector(v)
      /\ \/ IsNone(x) /\ v = << >>
         \/ IsVector(x) /\ v = x.items
         \/ (IsAtom(x) \/ IsMap(x)) /\ v = << x >>
  BY AsVectorIs
<1> HIDE DEF v
<1>2. IsVector(y)
  BY <1>1, ConstructorsAre
<1>3. CASE IsNone(x) /\ v = << >>
  <2>1. x = None
    BY <1>3, ItemIs, KindsAre
  <2>2. Contents[Vector(<< >>)] = << >> /\ Contents[None] = << >>
    BY EmptyItems
  <2> QED  BY <1>1, <1>2, <1>3, <2>1, <2>2
<1>4. CASE IsVector(x) /\ v = x.items
  BY <1>1, <1>2, <1>4, ElementsAre
<1>5. CASE v = << x >>
  BY <1>1, <1>2, <1>5, OneAlone
<1> QED  BY <1>1, <1>3, <1>4, <1>5

\* Reading an item as an atom loses no value.
LEMMA WithAtomContents ==
  ASSUME NEW x \in Items, WellFormed(x), CanBeAtom(x), WithAtom(x, AtomOf(x, Empty)) \in Items
  PROVE  Contents[WithAtom(x, AtomOf(x, Empty))] = Contents[x]
<1> DEFINE f == FirstOf(x)
<1> DEFINE y == Atom(AtomOf(x, Empty))
<1>1. FirstPath[x] \in Seq({1}) /\ LeadsSomewhere(x, FirstPath[x]) /\ Len(FirstPath[x]) \in Nat
  BY FirstPathLeads, LenProperties
<1>2. WithAtom(x, AtomOf(x, Empty)) = Replace(x, FirstPath[x], y) /\ f = ItemOf(x, FirstPath[x])
  BY DEF WithAtom, FirstOf
<1>3. f \in Items
  BY <1>2, FirstIs
<1>4. Contents[y] = Contents[f]
  <2>1. CASE IsNone(f)
    <3>1. f = None
      BY <1>3, <2>1, ItemIs, KindsAre
    <3>2. y = Atom(Empty)
      BY <2>1 DEF AtomOf
    <3>3. Contents[Atom(Empty)] = << >> /\ Contents[None] = << >>
      BY EmptyItems
    <3> HIDE DEF y, f
    <3> QED  BY <3>1, <3>2, <3>3
  <2>2. CASE IsAtom(f) /\ ~IsNone(f)
    <3>1. y = f
      BY <1>3, <2>2, NothingIn DEF AtomOf
    <3> QED  BY <3>1
  <2> QED  BY <2>1, <2>2 DEF CanBeAtom
<1> HIDE DEF y, f
<1> QED  BY <1>1, <1>2, <1>4, ReplaceContents

\* A new key holds nothing yet, and so does a new element.
LEMMA WithKeyContents ==
  ASSUME NEW m \in Items, WellFormed(m), IsMap(m), NEW k, NEW y \in Items, y = Map(WithKey(m.entries, k))
  PROVE  Contents[y] = Contents[m]
<1> DEFINE s == m.entries
<1> DEFINE t == WithKey(s, k)
<1>1. IsDict(s) /\ m = Map(s)
  BY EntriesAre
<1>2. IsMap(y) /\ y.entries = t
  BY ConstructorsAre
<1>3. CASE HasKey(s, k)
  BY <1>1, <1>3 DEF WithKey
<1>4. CASE ~HasKey(s, k)
  <2> DEFINE e == Entry(k, None)
  <2>1. t = Append(s, e) /\ e.val = None
    BY <1>4 DEF WithKey, Entry
  <2>2. ~IsAtom(m) /\ ~IsAtom(y)
    BY <1>2, ItemIs, KindsAre
  <2>3. /\ Children(m) \in Seq(Items) /\ Len(Children(m)) = Len(s) /\ DOMAIN Children(m) = DOMAIN s
        /\ \A i \in DOMAIN s : Children(m)[i] = s[i].val
    BY ItemIs, ChildrenAre
  <2>4. /\ Children(y) \in Seq(Items) /\ Len(Children(y)) = Len(t) /\ DOMAIN Children(y) = DOMAIN t
        /\ \A i \in DOMAIN t : Children(y)[i] = t[i].val
    BY <1>2, ItemIs, ChildrenAre
  <2> HIDE DEF e, s, t
  <2>5. s \in Seq(Range(s)) /\ Len(s) \in Nat /\ DOMAIN s = 1 .. Len(s)
    BY <1>1, DictShape DEF IsDict
  <2>6. /\ Len(t) = Len(s) + 1 /\ DOMAIN t = 1 .. Len(s) + 1 /\ t[Len(s) + 1] = e
        /\ \A j \in 1 .. Len(s) : t[j] = s[j]
    BY <2>1, <2>5
  <2> DEFINE a == Children(m)
  <2> DEFINE b == Children(y)
  <2>7. /\ Len(a) = Len(s) /\ a \in Seq(Items) /\ b \in Seq(Items) /\ Len(b) = Len(s) + 1
        /\ b[Len(s) + 1] = None /\ \A j \in 1 .. Len(s) : b[j] = a[j]
    <3>1. Len(a) = Len(s) /\ a \in Seq(Items) /\ b \in Seq(Items) /\ Len(b) = Len(s) + 1
      BY <2>3, <2>4, <2>6
    <3>2. Len(s) + 1 \in DOMAIN t /\ \A j \in 1 .. Len(s) : j \in DOMAIN s /\ j \in DOMAIN t
      BY <2>5, <2>6
    <3>3. b[Len(s) + 1] = None
      BY <2>1, <2>4, <2>6, <3>2
    <3>4. \A j \in 1 .. Len(s) : b[j] = a[j]
      BY <2>3, <2>4, <2>6, <3>2
    <3> QED  BY <3>1, <3>3, <3>4
  <2> HIDE DEF a, b
  <2>8. b = Append(a, None)
    BY <2>5, <2>7
  <2> QED  BY <2>2, <2>8, OneMore DEF a, b
<1> QED  BY <1>3, <1>4

\* A new element of a vector is empty, and adds nothing.
LEMMA NewElementContents ==
  ASSUME NEW x \in Items, IsVector(x), NEW y \in Items, y = Vector(Append(x.items, None))
  PROVE  Contents[y] = Contents[x]
<1>1. IsVector(y) /\ y.items = Append(x.items, None)
  BY ConstructorsAre
<1>2. Children(y) = Append(Children(x), None)
  BY <1>1, ElementsAre
<1>3. ~IsAtom(x) /\ ~IsAtom(y)
  BY <1>1, ItemIs, KindsAre
<1> QED  BY <1>2, <1>3, OneMore

\* A vector of which the last element is taken is an item, too.
LEMMA VectorFront ==
  ASSUME NEW v \in Seq(Items), NEW x, Vector(Append(v, x)) \in Items
  PROVE  Vector(v) \in Items
<1> DEFINE y == Vector(Append(v, x))
<1>1. MaxLevels \in 1 .. MaxLevels
  BY MaxLevelsAssumption
<1> DEFINE P == ItemsOf[MaxLevels - 1]
<1>2. Items = Over(P)
  BY <1>1, ItemsOfIs DEF Items
<1>3. IsVector(y) /\ y.items = Append(v, x)
  BY ConstructorsAre
<1> HIDE DEF P
<1>4. IsOver(y, P)
  BY <1>2, OverIs
<1>5. Append(v, x) \in Seq(P)
  BY <1>3, <1>4, KindsAre
<1>6. Len(v) \in Nat /\ DOMAIN v = 1 .. Len(v) /\ v = [i \in 1 .. Len(v) |-> v[i]]
  BY LenProperties
<1>7. \A i \in 1 .. Len(v) : v[i] \in P
  <2>1. Len(Append(v, x)) = Len(v) + 1 /\ \A i \in 1 .. Len(v) : Append(v, x)[i] = v[i]
    BY <1>6
  <2> DEFINE w == Append(v, x)
  <2> HIDE DEF w
  <2>2. \A i \in 1 .. Len(w) : w[i] \in P
    BY <1>5, ElementOfSeq DEF w
  <2>3. \A i \in 1 .. Len(v) : i \in 1 .. Len(v) + 1
    BY <1>6
  <2> QED  BY <2>1, <2>2, <2>3 DEF w
<1>8. v \in Seq(P)
  BY <1>6, <1>7
<1> QED  BY <1>2, <1>8, OverIs

-----------------------------------------------------------------------------
\* The accesses keep the contents.
LEMMA KeyContents ==
  ASSUME TypeOK, NEW k \in Keys, Key(k)
  PROVE  Contents[root'] = Contents[root]
<1> DEFINE f == FirstOf(r)
<1> DEFINE z == Map(WithKey(AsMap(f).entries, k))
<1> DEFINE y == Replace(r, FirstPath[r], z)
<1>1. /\ Leave(y, FirstPath[r] \o << k >>)
      /\ r \in Items /\ WellFormed(r) /\ y \in Items /\ z \in Items
      /\ f \in Items /\ WellFormed(f) /\ CanBeMap(f)
  BY KeyIs
<1> HIDE DEF f
<1>2. AsMap(f) \in Items /\ Contents[AsMap(f)] = Contents[f] /\ IsMap(AsMap(f))
  BY <1>1, AsMapContents
<1>3. WellFormed(AsMap(f))
  BY <1>1, <1>2, AsMapIs, EntriesAre
<1>4. Contents[z] = Contents[f]
  BY <1>1, <1>2, <1>3, WithKeyContents
<1>5. FirstPath[r] \in Seq({1}) /\ LeadsSomewhere(r, FirstPath[r]) /\ Len(FirstPath[r]) \in Nat
  BY <1>1, FirstPathLeads, LenProperties
<1> HIDE DEF z
<1>6. Contents[y] = Contents[r]
  BY <1>1, <1>4, <1>5, ReplaceContents DEF f, FirstOf
<1> DEFINE path == FirstPath[r] \o << k >>
<1>7. Leave(y, path)
  BY <1>1
<1> HIDE DEF y, path
<1> QED  BY <1>6, <1>7, LeaveContents

\* operator[](size_t) loses no value, also when it throws.
LEMMA IndexContents ==
  ASSUME TypeOK, NEW i \in 1 .. MaxItems, Index(i)
  PROVE  Contents[root'] = Contents[root]
<1> DEFINE v == AsVector(r).items
<1>1. root \in Items /\ WellFormed(root) /\ Len(ref) \in Nat /\ LeadsSomewhere(root, ref)
  BY LenProperties DEF TypeOK, Bounded
<1>2. ASSUME r \in Items, WellFormed(r)
      PROVE  /\ v \in Seq(Items) /\ Vector(v) = AsVector(r)
             /\ Vector(v) \in Items => Contents[Vector(v)] = Contents[r]
  <2>1. v \in Seq(Items) /\ Vector(v) = AsVector(r)
    BY <1>2, AsVectorIs
  <2> HIDE DEF v
  <2> QED  BY <1>2, <2>1, AsVectorContents
<1> DEFINE longer == Vector(Append(v, None))
<1> DEFINE converted == Replace(root, ref, Vector(v))
<1> DEFINE path == << i >>
<1>3. \/ Leave(Vector(v), path)
      \/ Leave(longer, path)
      \/ root' = converted /\ Bounded(root')
  BY DEF Index
<1>4. CASE Leave(Vector(v), path)
  <2>1. r \in Items /\ WellFormed(r)
    BY <1>4, LeaveIs
  <2> HIDE DEF v, path
  <2> QED  BY <1>2, <1>4, <2>1, LeaveContents
<1>5. CASE Leave(longer, path)
  <2>1. r \in Items /\ WellFormed(r) /\ longer \in Items
    BY <1>5, LeaveIs
  <2>2. v \in Seq(Items)
    BY <1>2, <2>1
  <2> HIDE DEF v, path
  <2>3. Vector(v) \in Items
    BY <2>1, <2>2, VectorFront
  <2>4. IsVector(Vector(v)) /\ Vector(v).items = v
    BY ConstructorsAre
  <2>5. Contents[longer] = Contents[Vector(v)]
    BY <2>1, <2>3, <2>4, NewElementContents
  <2>6. Contents[longer] = Contents[r]
    BY <1>2, <2>1, <2>3, <2>5
  <2> HIDE DEF longer
  <2> QED  BY <1>5, <2>6, LeaveContents
<1>6. CASE root' = converted /\ Bounded(root')
  <2>1. converted \in Items
    BY <1>6 DEF Bounded
  <2>2. OnPath(root, ref, Vector(v))
    BY <1>1, <2>1, ReplaceIs
  <2>3. r \in Items /\ WellFormed(r) /\ Vector(v) \in Items
    BY <2>2 DEF OnPath, r
  <2>4. Contents[Vector(v)] = Contents[ItemOf(root, ref)]
    BY <1>2, <2>3 DEF r
  <2> HIDE DEF v
  <2>5. Contents[converted] = Contents[root]
    BY <1>1, <2>1, <2>4, ReplaceContents
  <2> QED  BY <1>6, <2>5
<1> QED  BY <1>3, <1>4, <1>5, <1>6

\* ConfigMap::get loses no value.
LEMMA GetContents ==
  ASSUME TypeOK, NEW k \in Keys, Get(k)
  PROVE  Contents[root'] = Contents[root]
<1> DEFINE x == At(r.entries, k)
<1> DEFINE z == WithAtom(x, AtomOf(x, Empty))
<1> DEFINE y == Map(Store(r.entries, k, z))
<1> DEFINE here == << >>
<1>1. /\ Leave(y, here) /\ CanBeAtom(x) /\ r \in Items
      /\ x \in Items /\ WellFormed(x) /\ z \in Items /\ y \in Items
      /\ \E i : SameBut(r, y, i) /\ Children(r)[i] = x /\ Children(y)[i] = z
  BY GetIs
<1> HIDE DEF y, here, x
<1>2. Contents[z] = Contents[x]
  BY <1>1, WithAtomContents
<1> HIDE DEF z
<1>3. Contents[y] = Contents[r]
  BY <1>1, <1>2, ChildContents
<1> QED  BY <1>1, <1>3, LeaveContents

\* No access loses a value or puts two of them into another order, whatever it creates,
\* wraps and converts on its way: the trees of operator[], of the conversions to an atom,
\* and of the questions to a map or a vector.
THEOREM AccessesKeepValues ==
  Spec => AccessKeepsValues
<1>1. ASSUME TypeOK, Access  PROVE Contents[root'] = Contents[root]
  <2>1. CASE Read
    <3>1. CanBeAtom(r) /\ Leave(WithAtom(r, AtomOf(r, Empty)), << >>)
      BY <2>1 DEF Read
    <3>2. r \in Items /\ WellFormed(r)
      BY <1>1, <3>1, LeaveIs
    <3> QED  BY <1>1, <3>1, <3>2, WithAtomContents, LeaveContents
  <2>2. CASE AskMap
    <3>1. CanBeMap(r) /\ Leave(AsMap(r), << >>)
      BY <2>2 DEF AskMap
    <3>2. r \in Items
      BY <1>1, <3>1, LeaveIs
    <3> QED  BY <1>1, <3>1, <3>2, AsMapContents, LeaveContents
  <2>3. CASE AskVector
    <3>1. Leave(AsVector(r), << >>)
      BY <2>3 DEF AskVector
    <3>2. r \in Items /\ WellFormed(r)
      BY <1>1, <3>1, LeaveIs
    <3> QED  BY <1>1, <3>1, <3>2, AsVectorContents, LeaveContents
  <2> QED  BY <1>1, <2>1, <2>2, <2>3, KeyContents, IndexContents, GetContents DEF Access
<1>2. TypeOK /\ [Next]_vars => [Contents[root'] # Contents[root] => ~Access]_vars
  BY <1>1
<1> QED  BY <1>2, TypeCorrect, PTL DEF Spec, AccessKeepsValues

-----------------------------------------------------------------------------
\* The items that can be saved.
LEMMA DumpOfVector ==
  ASSUME NEW x \in Items, IsVector(x)
  PROVE  CanDump(x) <=> \A i \in DOMAIN x.items : CanDump(x.items[i])
<1>1. ~IsNone(x) /\ Children(x) = x.items
  BY ItemIs, KindsAre, ElementsAre
<1> QED  BY <1>1, CanDumpIs

\* A map can be saved if its values can.
LEMMA DumpOfMap ==
  ASSUME NEW x \in Items, IsMap(x)
  PROVE  CanDump(x) <=> \A i \in DOMAIN x.entries : CanDump(x.entries[i].val)
<1> DEFINE s == x.entries
<1>1. ~IsNone(x)
  BY ItemIs, KindsAre
<1>2. DOMAIN Children(x) = DOMAIN s /\ \A i \in DOMAIN s : Children(x)[i] = s[i].val
  BY ItemIs, ChildrenAre
<1> HIDE DEF s
<1>3. CanDump(x) <=> \A i \in DOMAIN s : CanDump(s[i].val)
  BY <1>1, <1>2, CanDumpIs
<1> QED  BY <1>3 DEF s

\* An atom can be saved.
LEMMA DumpOfAtom ==
  ASSUME NEW x \in Items, IsAtom(x)
  PROVE  CanDump(x)
<1>1. ~IsNone(x) /\ Children(x) = << >>
  BY ItemIs, KindsAre, NothingIn
<1>2. DOMAIN Children(x) = {}
  BY <1>1
<1> QED  BY <1>1, <1>2, CanDumpIs

\* What is below an item that can be saved can be saved.
LEMMA PartsCanDump ==
  ASSUME NEW x \in Items, WellFormed(x), CanDump(x),
         NEW path, Len(path) \in Nat, LeadsSomewhere(x, path)
  PROVE  ItemOf(x, path) \in Items /\ WellFormed(ItemOf(x, path)) /\ CanDump(ItemOf(x, path))
<1> DEFINE L == Len(path)
<1> DEFINE at == Trail(x, path)
<1> DEFINE good(y) == y \in Items /\ WellFormed(y) /\ CanDump(y)
<1>1. at[0] = x /\ \A n \in 1 .. L : at[n] = Child(at[n - 1], path[n])
  BY TrailIs
<1>2. \A n \in 1 .. L : HasChild(at[n - 1], path[n])
  BY DEF LeadsSomewhere
<1>3. at[L] = ItemOf(x, path)
  BY DEF ItemOf
<1> HIDE DEF L, at
<1>4. ASSUME NEW y, good(y), NEW step, HasChild(y, step)  PROVE good(Child(y, step))
  <2>1. CASE IsMap(y)
    <3>1. ~IsVector(y)
      BY <1>4, <2>1, ItemIs, KindsAre
    <3>2. HasKey(y.entries, step) /\ Child(y, step) = At(y.entries, step)
      BY <1>4, <2>1, <3>1 DEF HasChild, Child
    <3>3. IsDict(y.entries)
      BY <1>4, <2>1, EntriesAre
    <3>4. PICK i \in DOMAIN y.entries : y.entries[i].key = step
      BY <3>2 DEF HasKey
    <3>5. Child(y, step) = y.entries[i].val
      BY <3>2, <3>3, <3>4, AtIs
    <3>6. good(y.entries[i].val)
      BY <1>4, <2>1, EntriesAre, DumpOfMap
    <3> QED  BY <3>5, <3>6
  <2>2. CASE ~IsMap(y)
    <3>1. IsVector(y) /\ step \in DOMAIN y.items /\ Child(y, step) = y.items[step]
      BY <1>4, <2>2 DEF HasChild, Child
    <3>2. good(y.items[step])
      BY <1>4, <3>1, ElementsAre, DumpOfVector
    <3> QED  BY <3>1, <3>2
  <2> QED  BY <2>1, <2>2
<1>5. L \in Nat /\ good(at[0])
  BY <1>1 DEF L
<1> HIDE DEF good
<1> DEFINE T == {n \in Nat : n <= L => good(at[n])}
<1>6. 0 \in T
  BY <1>5
<1>7. ASSUME NEW n \in Nat, n \in T  PROVE n + 1 \in T
  <2> SUFFICES ASSUME n + 1 <= L  PROVE good(at[n + 1])
    OBVIOUS
  <2>1. n + 1 \in 1 .. L /\ (n + 1) - 1 = n /\ good(at[n])
    BY <1>5, <1>7
  <2> QED  BY <1>1, <1>2, <1>4, <2>1
<1> HIDE DEF T
<1>8. L \in T
  BY <1>5, <1>6, <1>7, Induction
<1> QED  BY <1>3, <1>5, <1>8 DEF T, good

\* An item that can be saved, in the place of another, leaves a whole that can be saved.
LEMMA ReplaceCanDump ==
  ASSUME NEW x \in Items, WellFormed(x), CanDump(x),
         NEW path, Len(path) \in Nat, LeadsSomewhere(x, path),
         NEW y, Replace(x, path, y) \in Items, y \in Items => CanDump(y)
  PROVE  CanDump(Replace(x, path, y))
<1> DEFINE R == {p \in Items \X Items : CanDump(p[1]) => CanDump(p[2])}
<1>1. OnPath(x, path, y)
  BY ReplaceIs
<1>2. << ItemOf(x, path), y >> \in R
  BY <1>1 DEF OnPath
<1>3. ASSUME NEW a \in Items, NEW b \in Items, NEW i, SameBut(a, b, i),
             << Children(a)[i], Children(b)[i] >> \in R
      PROVE  << a, b >> \in R
  <2> SUFFICES ASSUME CanDump(a)  PROVE CanDump(b)
    OBVIOUS
  <2>1. ~IsNone(b)
    BY <1>3, ItemIs, KindsAre DEF SameBut
  <2>2. ASSUME NEW j \in DOMAIN Children(b)  PROVE CanDump(Children(b)[j])
    <3>1. j \in DOMAIN Children(a) /\ (j # i => Children(b)[j] = Children(a)[j])
      BY <1>3 DEF SameBut
    <3>2. CanDump(Children(a)[j])
      BY <3>1, CanDumpIs
    <3> QED  BY <1>3, <3>1, <3>2
  <2> QED  BY <2>1, <2>2, CanDumpIs
<1> HIDE DEF R
<1>4. << x, Replace(x, path, y) >> \in R
  BY <1>2, <1>3, ReplaceKeeps
<1> QED  BY <1>4 DEF R

\* A call that leaves at r what can be saved leaves a tree that can.
LEMMA LeaveCanDump ==
  ASSUME TypeOK, CanDump(root), NEW y, NEW path, Leave(y, path)
  PROVE  /\ r \in Items /\ WellFormed(r) /\ CanDump(r) /\ y \in Items
         /\ CanDump(y) => CanDump(root')
<1>1. root \in Items /\ WellFormed(root) /\ Len(ref) \in Nat /\ LeadsSomewhere(root, ref)
  BY LenProperties DEF TypeOK, Bounded
<1>2. root' = Replace(root, ref, y) /\ root' \in Items /\ y \in Items
  BY LeaveIs
<1> QED  BY <1>1, <1>2, PartsCanDump, ReplaceCanDump DEF r

\* An assignment or a read leaves what can be saved.
LEMMA WithAtomCanDump ==
  ASSUME NEW x \in Items, WellFormed(x), CanDump(x), NEW b, WithAtom(x, b) \in Items
  PROVE  CanDump(WithAtom(x, b))
<1>1. FirstPath[x] \in Seq({1}) /\ LeadsSomewhere(x, FirstPath[x]) /\ Len(FirstPath[x]) \in Nat
  BY FirstPathLeads, LenProperties
<1>2. Atom(b) \in Items => CanDump(Atom(b))
  BY DumpOfAtom, ConstructorsAre
<1> QED  BY <1>1, <1>2, ReplaceCanDump DEF WithAtom

\* What can be saved is converted to a map only if it is one.
LEMMA AsMapCanDump ==
  ASSUME NEW x \in Items, CanDump(x), CanBeMap(x)
  PROVE  AsMap(x) = x /\ IsMap(x)
BY CanDumpIs DEF AsMap, CanBeMap

\* What can be saved is converted to a vector of such.
LEMMA AsVectorCanDump ==
  ASSUME NEW x \in Items, WellFormed(x), CanDump(x), NEW v, v = AsVector(x).items
  PROVE  v \in Seq(Items) /\ AsVector(x) = Vector(v) /\ \A i \in DOMAIN v : CanDump(v[i])
<1>1. /\ v \in Seq(Items) /\ AsVector(x) = Vector(v)
      /\ \/ IsNone(x) /\ v = << >>
         \/ IsVector(x) /\ v = x.items
         \/ (IsAtom(x) \/ IsMap(x)) /\ v = << x >>
  BY AsVectorIs
<1>2. CASE v = << >>
  BY <1>1, <1>2
<1>3. CASE IsVector(x) /\ v = x.items
  BY <1>1, <1>3, DumpOfVector
<1>4. CASE v = << x >>
  BY <1>1, <1>4
<1> QED  BY <1>1, <1>2, <1>3, <1>4

\* Vectors and maps of items that can be saved.
LEMMA VectorCanDump ==
  ASSUME NEW v, Vector(v) \in Items, \A i \in DOMAIN v : CanDump(v[i])
  PROVE  CanDump(Vector(v))
<1>1. IsVector(Vector(v)) /\ Vector(v).items = v
  BY ConstructorsAre
<1> QED  BY <1>1, DumpOfVector

\* A map of items that can be saved can be.
LEMMA MapCanDump ==
  ASSUME NEW s, Map(s) \in Items, \A i \in DOMAIN s : CanDump(s[i].val)
  PROVE  CanDump(Map(s))
<1>1. IsMap(Map(s)) /\ Map(s).entries = s
  BY ConstructorsAre
<1> QED  BY <1>1, DumpOfMap

\* A store of an item that can be saved leaves a map that can.
LEMMA StoreCanDump ==
  ASSUME NEW E, NEW s, s \in Seq(E), \A i \in DOMAIN s : CanDump(s[i].val), NEW k,
         NEW v, CanDump(v), NEW y \in Items, y = Map(Store(s, k, v))
  PROVE  CanDump(y)
<1> DEFINE t == Store(s, k, v)
<1> DEFINE e == Entry(k, v)
<1>1. e.val = v
  BY DEF Entry
<1>2. \/ t = [i \in DOMAIN s |-> IF s[i].key = k THEN e ELSE s[i]]
      \/ t = Append(s, e)
  BY DEF Store
<1> HIDE DEF e, t
<1>3. \A i \in DOMAIN t : (i \in DOMAIN s /\ t[i] = s[i]) \/ t[i] = e
  BY <1>2
<1>4. \A i \in DOMAIN t : CanDump(t[i].val)
  BY <1>1, <1>3
<1> QED  BY <1>4, MapCanDump DEF t

\* What a document can be loaded into can be saved.
LEMMA FromYamlCanDump ==
  ASSUME NEW d \in Yaml, CanLoad[d]
  PROVE  CanDump(FromYaml[d])
<1> DEFINE S == {e \in Yaml : CanLoad[e] => CanDump(FromYaml[e])}
<1>1. \A e \in Yaml : FromYaml[e] \in Items
  <2>1. MaxLevels \in Nat /\ MaxLevels <= MaxLevels
    BY MaxLevelsAssumption
  <2> QED  BY <2>1, FromYamlLevel DEF Yaml, Items
<1>2. ASSUME NEW e \in Yaml, YamlParts(e) \subseteq S, CanLoad[e]  PROVE CanDump(FromYaml[e])
  <2>1. IsYaml(e, Yaml)
    BY YamlIs
  <2>2. ~IsNull(e)
    BY <1>2, CanLoadIs
  <2>3. FromYaml[e] \in Items
    BY <1>1
  <2>4. CASE e.type = "sequence"
    <3> DEFINE t == [i \in DOMAIN e.items |-> FromYaml[e.items[i]]]
    <3>1. FromYaml[e] = Vector(t)
      BY <2>4, FromYamlIs
    <3>2. \A i \in DOMAIN e.items : CanLoad[e.items[i]] /\ e.items[i] \in S
      <4>1. \A i \in DOMAIN e.items : CanLoad[e.items[i]]
        BY <1>2, <2>4, CanLoadIs
      <4>2. \A i \in DOMAIN e.items : e.items[i] \in S
        BY <1>2, <2>4 DEF YamlParts, Range
      <4> QED  BY <4>1, <4>2
    <3>3. \A i \in DOMAIN t : CanDump(t[i])
      BY <3>2
    <3> HIDE DEF t
    <3> QED  BY <2>3, <3>1, <3>3, VectorCanDump
  <2>5. CASE e.type = "mapping"
    <3> DEFINE s == Emplaced(e.pairs)
    <3> DEFINE t == [i \in DOMAIN s |-> Entry(s[i].key, FromYaml[s[i].val])]
    <3>1. FromYaml[e] = Map(t)
      BY <2>5, FromYamlIs
    <3>2. e.pairs \in Seq([key : Keys, val : Yaml])
      BY <2>1, <2>5, YamlKindsAre
    <3>3. EmplacedOf(s, e.pairs)
      BY <3>2, EmplacedIs, Zenon
    <3> HIDE DEF s
    <3>4. ASSUME NEW j \in DOMAIN s  PROVE CanDump(FromYaml[s[j].val])
      <4>1. PICK i \in DOMAIN e.pairs : s[j] = e.pairs[i] /\ ~IsNull(e.pairs[i].val)
        BY <3>3 DEF EmplacedOf
      <4>2. CanLoad[e.pairs[i].val]
        BY <1>2, <2>5, <4>1, CanLoadIs
      <4>3. e.pairs[i].val \in S
        BY <1>2, <2>5 DEF YamlParts
      <4> QED  BY <4>1, <4>2, <4>3
    <3>5. DOMAIN t = DOMAIN s /\ \A j \in DOMAIN s : t[j].val = FromYaml[s[j].val]
      BY DEF Entry
    <3> HIDE DEF t
    <3>6. \A j \in DOMAIN t : CanDump(t[j].val)
      BY <3>4, <3>5
    <3> QED  BY <2>3, <3>1, <3>6, MapCanDump
  <2>6. CASE e.type \notin {"sequence", "mapping"}
    <3>1. FromYaml[e] = Atom(e.text)
      BY <2>2, <2>6, FromYamlIs
    <3> QED  BY <2>3, <3>1, DumpOfAtom, ConstructorsAre
  <2> QED  BY <2>4, <2>5, <2>6
<1>3. \A e \in Yaml : YamlParts(e) \subseteq S => e \in S
  BY <1>2
<1> HIDE DEF S
<1>4. Yaml \subseteq S
  BY <1>3, YamlInduction
<1> QED  BY <1>4 DEF S

\* Nothing that comes from JSON is empty: a null is left out or is an empty text.
LEMMA FromJsonCanDump ==
  ASSUME NEW d \in Json
  PROVE  CanDump(FromJson[d])
<1> DEFINE S == {e \in Json : CanDump(FromJson[e])}
<1>1. \A e \in Json : FromJson[e] \in Items
  <2>1. MaxLevels \in Nat /\ MaxLevels <= MaxLevels
    BY MaxLevelsAssumption
  <2> QED  BY <2>1, FromJsonLevel DEF Json, Items
<1>2. ASSUME NEW e \in Json, JsonParts(e) \subseteq S  PROVE CanDump(FromJson[e])
  <2>1. IsJson(e, Json)
    BY JsonIs
  <2>2. FromJson[e] \in Items
    BY <1>1
  <2>3. CASE e.type = "array"
    <3> DEFINE t == [i \in DOMAIN e.items |-> FromJson[e.items[i]]]
    <3>1. FromJson[e] = Vector(t)
      BY <2>3, FromJsonIs
    <3>2. \A i \in DOMAIN e.items : e.items[i] \in S
      BY <1>2, <2>3 DEF JsonParts, Range
    <3>3. \A i \in DOMAIN t : CanDump(t[i])
      BY <3>2
    <3> HIDE DEF t
    <3> QED  BY <2>2, <3>1, <3>3, VectorCanDump
  <2>4. CASE e.type = "object"
    <3> DEFINE m == Members(e)
    <3> DEFINE s == Emplaced(m)
    <3> DEFINE t == [i \in DOMAIN s |-> Entry(s[i].key, FromJson[s[i].val])]
    <3>1. FromJson[e] = Map(t)
      BY <2>4, FromJsonIs
    <3>2. MembersOf(m, e, Json)
      BY <2>1, <2>4, MembersAre
    <3>3. EmplacedOf(s, m)
      BY <3>2, EmplacedIs, Zenon DEF MembersOf
    <3> HIDE DEF m, s
    <3>4. ASSUME NEW j \in DOMAIN s  PROVE CanDump(FromJson[s[j].val])
      <4>1. PICK i \in DOMAIN m : s[j] = m[i]
        BY <3>3 DEF EmplacedOf
      <4>2. m[i].val = e.members[KeyOrder[i]] /\ KeyOrder[i] \in Keys
        BY <3>2 DEF MembersOf
      <4>3. m[i].val \in S
        BY <1>2, <2>4, <4>2 DEF JsonParts
      <4> QED  BY <4>1, <4>3
    <3>5. DOMAIN t = DOMAIN s /\ \A j \in DOMAIN s : t[j].val = FromJson[s[j].val]
      BY DEF Entry
    <3> HIDE DEF t
    <3>6. \A j \in DOMAIN t : CanDump(t[j].val)
      BY <3>4, <3>5
    <3> QED  BY <2>2, <3>1, <3>6, MapCanDump
  <2>5. CASE e.type \notin {"array", "object"}
    <3>1. FromJson[e] = Atom(TextOf(e))
      BY <2>5, FromJsonIs
    <3> QED  BY <2>2, <3>1, DumpOfAtom, ConstructorsAre
  <2> QED  BY <2>3, <2>4, <2>5
<1>3. \A e \in Json : JsonParts(e) \subseteq S => e \in S
  BY <1>2
<1> HIDE DEF S
<1>4. Json \subseteq S
  BY <1>3, JsonInduction
<1> QED  BY <1>4 DEF S

-----------------------------------------------------------------------------
\* No call but one that refers the program to an empty item leaves a tree that can no
\* longer be saved.
LEMMA KeyCanDump ==
  ASSUME TypeOK, CanDump(root), NEW k \in Keys, Key(k)
  PROVE  CanDump(root') \/ IsNone(ItemOf(root', ref'))
<1> DEFINE f == FirstOf(r)
<1> DEFINE s == AsMap(f).entries
<1> DEFINE z == Map(WithKey(s, k))
<1> DEFINE y == Replace(r, FirstPath[r], z)
<1> DEFINE path == FirstPath[r] \o << k >>
<1>1. /\ Leave(y, path) /\ FirstPath[r] \in Seq({1})
      /\ r \in Items /\ WellFormed(r) /\ y \in Items /\ z \in Items
      /\ f \in Items /\ WellFormed(f) /\ CanBeMap(f)
      /\ ItemOf(y, path) = ItemAt(s, k)
  BY KeyIs
<1>2. CanDump(r)
  <2> HIDE DEF y, path
  <2> QED  BY <1>1, LeaveCanDump
<1>3. FirstPath[r] \in Seq({1}) /\ LeadsSomewhere(r, FirstPath[r]) /\ Len(FirstPath[r]) \in Nat
  BY <1>1, FirstPathLeads, LenProperties
<1>4. CASE HasKey(s, k)
  <2>1. CanDump(f)
    BY <1>1, <1>2, <1>3, PartsCanDump DEF FirstOf
  <2> HIDE DEF f
  <2>2. AsMap(f) = f /\ IsMap(f)
    BY <1>1, <2>1, AsMapCanDump
  <2>3. z = f
    BY <1>1, <1>4, <2>2, EntriesAre DEF WithKey
  <2> HIDE DEF z
  <2>4. CanDump(y)
    BY <1>1, <1>2, <1>3, <2>1, <2>3, ReplaceCanDump
  <2> HIDE DEF y, path
  <2> QED  BY <1>1, <2>4, LeaveCanDump
<1>5. CASE ~HasKey(s, k)
  <2>1. ItemOf(y, path) = None
    BY <1>1, <1>5 DEF ItemAt
  <2>2. ItemOf(root', ref) = y /\ ref' = ref \o path
    <3>1. Leave(y, path)
      BY <1>1
    <3> HIDE DEF y, path
    <3> QED  BY <3>1, LeaveIs DEF Leave
  <2>3. path \in Seq(Keys \cup 1 .. MaxItems)
    BY <1>1, PathsAre, ConcatProperties
  <2> HIDE DEF y, path
  <2>4. Joined(root', ref, path)
    BY <2>3, TwoTrails DEF TypeOK
  <2>5. ItemOf(root', ref') = None
    BY <2>1, <2>2, <2>4 DEF Joined
  <2> QED  BY <2>5, ConstructorsAre
<1> QED  BY <1>4, <1>5

\* operator[](size_t) spoils a tree only with a new element, which r is then.
LEMMA IndexCanDump ==
  ASSUME TypeOK, CanDump(root), NEW i \in 1 .. MaxItems, Index(i)
  PROVE  CanDump(root') \/ IsNone(ItemOf(root', ref'))
<1> DEFINE v == AsVector(r).items
<1>1. root \in Items /\ WellFormed(root) /\ Len(ref) \in Nat /\ LeadsSomewhere(root, ref)
  BY LenProperties DEF TypeOK, Bounded
<1>2. ASSUME r \in Items, WellFormed(r), CanDump(r)
      PROVE  /\ v \in Seq(Items)
             /\ Vector(v) \in Items => CanDump(Vector(v))
  BY <1>2, AsVectorCanDump, VectorCanDump
<1> DEFINE longer == Vector(Append(v, None))
<1> DEFINE converted == Replace(root, ref, Vector(v))
<1> DEFINE path == << i >>
<1>3. \/ Leave(Vector(v), path)
      \/ i = Len(v) + 1 /\ Leave(longer, path)
      \/ root' = converted /\ Bounded(root')
  BY DEF Index
<1>4. CASE Leave(Vector(v), path)
  <2> HIDE DEF v, path
  <2> QED  BY <1>2, <1>4, LeaveCanDump
<1>5. CASE i = Len(v) + 1 /\ Leave(longer, path)
  <2>1. r \in Items /\ WellFormed(r) /\ CanDump(r) /\ longer \in Items
    <3> HIDE DEF longer, path
    <3> QED  BY <1>5, LeaveCanDump
  <2>2. v \in Seq(Items)
    BY <1>2, <2>1
  <2> HIDE DEF v
  <2>3. Append(v, None)[i] = None
    BY <1>5, <2>2
  <2>4. IsVector(longer) /\ longer.items = Append(v, None)
    BY ConstructorsAre
  <2>5. ItemOf(longer, path) = None
    <3>1. Child(longer, i) = None
      BY <2>1, <2>3, <2>4, ItemIs, KindsAre DEF Child
    <3> QED  BY <3>1, OneStep
  <2> HIDE DEF longer
  <2>6. ItemOf(root', ref) = longer /\ ref' = ref \o path
    <3>1. Leave(longer, path)
      BY <1>5
    <3> HIDE DEF path
    <3> QED  BY <3>1, LeaveIs DEF Leave
  <2>7. path \in Seq(Keys \cup 1 .. MaxItems)
    BY PathsAre
  <2> HIDE DEF path
  <2>8. Joined(root', ref, path)
    BY <2>7, TwoTrails DEF TypeOK
  <2>9. ItemOf(root', ref') = None
    BY <2>5, <2>6, <2>8 DEF Joined
  <2> QED  BY <2>9, ConstructorsAre
<1>6. CASE root' = converted /\ Bounded(root')
  <2>1. converted \in Items
    BY <1>6 DEF Bounded
  <2>2. OnPath(root, ref, Vector(v))
    BY <1>1, <2>1, ReplaceIs
  <2>3. r \in Items /\ WellFormed(r) /\ Vector(v) \in Items
    BY <2>2 DEF OnPath, r
  <2>4. CanDump(r)
    BY <1>1, PartsCanDump DEF r
  <2>5. CanDump(Vector(v))
    BY <1>2, <2>3, <2>4
  <2> HIDE DEF v
  <2>6. CanDump(converted)
    BY <1>1, <2>1, <2>5, ReplaceCanDump
  <2> QED  BY <1>6, <2>6
<1> QED  BY <1>3, <1>4, <1>5, <1>6

\* get and getOrCreate leave no empty item: the new one is assigned to.
LEMMA GetOrCreateCanDump ==
  ASSUME TypeOK, CanDump(root), NEW k \in Keys
  PROVE  /\ Get(k) => CanDump(root')
         /\ \A d \in Vals : GetOrCreate(k, d) => CanDump(root')
<1> DEFINE here == << >>
<1>1. ASSUME Get(k)  PROVE CanDump(root')
  <2> DEFINE x == At(r.entries, k)
  <2> DEFINE z == WithAtom(x, AtomOf(x, Empty))
  <2> DEFINE y == Map(Store(r.entries, k, z))
  <2>1. /\ Leave(y, here) /\ IsMap(r) /\ r \in Items /\ WellFormed(r)
        /\ x \in Items /\ WellFormed(x) /\ z \in Items /\ y \in Items
        /\ HasKey(r.entries, k)
    BY <1>1, GetIs DEF Get
  <2>2. CanDump(r)
    <3> HIDE DEF y, here
    <3> QED  BY <2>1, LeaveCanDump
  <2>3. r.entries \in Seq([key : Keys, val : Items]) /\ IsDict(r.entries)
        /\ \A i \in DOMAIN r.entries : CanDump(r.entries[i].val)
    BY <2>1, <2>2, EntriesAre, DumpOfMap
  <2>4. PICK i \in DOMAIN r.entries : r.entries[i].key = k
    BY <2>1 DEF HasKey
  <2>5. x = r.entries[i].val
    BY <2>3, <2>4, AtIs
  <2> HIDE DEF x
  <2>6. CanDump(z)
    BY <2>1, <2>3, <2>5, WithAtomCanDump
  <2> HIDE DEF z
  <2>7. CanDump(y)
    BY <2>1, <2>3, <2>6, StoreCanDump
  <2> HIDE DEF y, here
  <2> QED  BY <2>1, <2>7, LeaveCanDump
<1>2. ASSUME NEW d \in Vals, GetOrCreate(k, d)  PROVE CanDump(root')
  <2> DEFINE y == Map(Store(r.entries, k, Atom(d)))
  <2>1. CASE IsMap(r) /\ Leave(y, here)
    <3>1. r \in Items /\ WellFormed(r) /\ CanDump(r) /\ y \in Items
      <4> HIDE DEF y, here
      <4> QED  BY <2>1, LeaveCanDump
    <3>2. r.entries \in Seq([key : Keys, val : Items])
          /\ \A i \in DOMAIN r.entries : CanDump(r.entries[i].val)
      BY <2>1, <3>1, EntriesAre, DumpOfMap
    <3>3. CanDump(Atom(d))
      BY SmallItems, DumpOfAtom, ConstructorsAre, ValsAssumption
    <3>4. CanDump(y)
      BY <3>1, <3>2, <3>3, StoreCanDump
    <3> HIDE DEF y, here
    <3> QED  BY <2>1, <3>4, LeaveCanDump
  <2> QED  BY <1>1, <1>2, <2>1 DEF GetOrCreate
<1> QED  BY <1>1, <1>2

\* begin and append leave no empty item.
LEMMA AppendCanDump ==
  ASSUME TypeOK, CanDump(root)
  PROVE  /\ AskVector => CanDump(root')
         /\ \A a \in Vals : AppendValue(a) => CanDump(root')
<1> DEFINE v == AsVector(r).items
<1> DEFINE here == << >>
<1>1. ASSUME AskVector  PROVE CanDump(root')
  <2>1. Leave(AsVector(r), here)
    BY <1>1 DEF AskVector
  <2>2. r \in Items /\ WellFormed(r) /\ CanDump(r) /\ AsVector(r) \in Items
    BY <2>1, LeaveCanDump
  <2>3. AsVector(r) = Vector(v) /\ \A i \in DOMAIN v : CanDump(v[i])
    BY <2>2, AsVectorCanDump
  <2> HIDE DEF v, here
  <2>4. CanDump(AsVector(r))
    BY <2>2, <2>3, VectorCanDump
  <2> QED  BY <2>1, <2>4, LeaveCanDump
<1>2. ASSUME NEW a \in Vals, AppendValue(a)  PROVE CanDump(root')
  <2> DEFINE u == Append(v, Atom(a))
  <2> DEFINE y == Vector(u)
  <2>1. Leave(y, here)
    BY <1>2 DEF AppendValue
  <2>2. r \in Items /\ WellFormed(r) /\ CanDump(r) /\ y \in Items
    <3> HIDE DEF y, here
    <3> QED  BY <2>1, LeaveCanDump
  <2>3. v \in Seq(Items) /\ \A i \in DOMAIN v : CanDump(v[i])
    BY <2>2, AsVectorCanDump
  <2>4. CanDump(Atom(a))
    BY SmallItems, DumpOfAtom, ConstructorsAre, ValsAssumption
  <2> HIDE DEF v
  <2>5. \A j \in DOMAIN u : (j \in DOMAIN v /\ u[j] = v[j]) \/ u[j] = Atom(a)
    BY <2>3
  <2>6. \A j \in DOMAIN u : CanDump(u[j])
    BY <2>3, <2>4, <2>5
  <2> HIDE DEF u
  <2>7. CanDump(y)
    BY <2>2, <2>6, VectorCanDump
  <2> HIDE DEF y, here
  <2> QED  BY <2>1, <2>7, LeaveCanDump
<1> QED  BY <1>1, <1>2

\* Erasing leaves no empty item.
LEMMA EraseCanDump ==
  ASSUME TypeOK, CanDump(root)
  PROVE  /\ \A k \in Keys : EraseKey(k) => CanDump(root')
         /\ \A i \in 1 .. MaxItems : EraseElement(i) => CanDump(root')
<1> DEFINE here == << >>
<1>1. ASSUME NEW E, NEW s, s \in Seq(E), NEW i \in DOMAIN s,
             NEW j \in DOMAIN Cut(s, i, i + 1)
      PROVE  \E l \in DOMAIN s : Cut(s, i, i + 1)[j] = s[l]
  <2> DEFINE t == Cut(s, i, i + 1)
  <2>1. DOMAIN s = 1 .. Len(s) /\ Len(s) \in Nat
    BY <1>1, LenProperties
  <2>2. /\ t \in Seq(E) /\ Len(t) = Len(s) - 1
        /\ \A n \in 1 .. Len(s) - 1 : t[n] = IF n < i THEN s[n] ELSE s[n + 1]
    BY <1>1, <2>1, CutIs
  <2>3. j \in DOMAIN t
    BY <1>1
  <2> HIDE DEF t
  <2>4. j \in 1 .. Len(s) - 1 /\ j \in DOMAIN s /\ j + 1 \in DOMAIN s
    BY <2>1, <2>2, <2>3
  <2>5. \E l \in DOMAIN s : t[j] = s[l]
    BY <2>2, <2>4
  <2> QED  BY <2>5 DEF t
<1>2. ASSUME NEW k \in Keys, EraseKey(k)  PROVE CanDump(root')
  <2> DEFINE s == r.entries
  <2> DEFINE i == CHOOSE j \in DOMAIN s : s[j].key = k
  <2> DEFINE t == Cut(s, i, i + 1)
  <2> DEFINE y == Map(t)
  <2>1. IsMap(r) /\ HasKey(s, k) /\ Leave(y, here)
    BY <1>2 DEF EraseKey
  <2>2. r \in Items /\ WellFormed(r) /\ CanDump(r) /\ y \in Items
    <3> HIDE DEF y, here
    <3> QED  BY <2>1, LeaveCanDump
  <2>3. s \in Seq([key : Keys, val : Items]) /\ \A j \in DOMAIN s : CanDump(s[j].val)
    BY <2>1, <2>2, EntriesAre, DumpOfMap
  <2>4. i \in DOMAIN s
    BY <2>1 DEF HasKey
  <2> HIDE DEF s, i
  <2>5. \A j \in DOMAIN t : \E l \in DOMAIN s : t[j] = s[l]
    BY <1>1, <2>3, <2>4
  <2> HIDE DEF t
  <2>6. \A j \in DOMAIN t : CanDump(t[j].val)
    BY <2>3, <2>5
  <2>7. CanDump(y)
    BY <2>2, <2>6, MapCanDump
  <2> HIDE DEF y, here
  <2> QED  BY <2>1, <2>7, LeaveCanDump
<1>3. ASSUME NEW i \in 1 .. MaxItems, EraseElement(i)  PROVE CanDump(root')
  <2> DEFINE s == r.items
  <2> DEFINE t == Cut(s, i, i + 1)
  <2> DEFINE y == Vector(t)
  <2>1. IsVector(r) /\ i \in DOMAIN s /\ Leave(y, here)
    BY <1>3 DEF EraseElement
  <2>2. r \in Items /\ WellFormed(r) /\ CanDump(r) /\ y \in Items
    <3> HIDE DEF y, here
    <3> QED  BY <2>1, LeaveCanDump
  <2>3. s \in Seq(Items) /\ \A j \in DOMAIN s : CanDump(s[j])
    BY <2>1, <2>2, ElementsAre, DumpOfVector
  <2> HIDE DEF s
  <2>4. \A j \in DOMAIN t : \E l \in DOMAIN s : t[j] = s[l]
    BY <1>1, <2>1, <2>3
  <2> HIDE DEF t
  <2>5. \A j \in DOMAIN t : CanDump(t[j])
    BY <2>3, <2>4
  <2>6. CanDump(y)
    BY <2>2, <2>5, VectorCanDump
  <2> HIDE DEF y, here
  <2> QED  BY <2>1, <2>6, LeaveCanDump
<1> QED  BY <1>2, <1>3

\* appendMap and updateMap leave no empty item unless it was in the update.
LEMMA MergeCanDump ==
  ASSUME TypeOK, CanDump(root), NEW u \in Updates, CanDump(u)
  PROVE  /\ AppendMap(u) => CanDump(root')
         /\ UpdateMap(u) => CanDump(root')
<1> DEFINE here == << >>
<1>1. u \in Items /\ IsMap(u) /\ WellFormed(u)
  BY UpdatesAssumption DEF Maps
<1>2. ASSUME NEW y, Leave(y, here), CanBeMap(r)
      PROVE  /\ r \in Items /\ WellFormed(r) /\ CanDump(r) /\ y \in Items
             /\ AsMap(r) = r /\ IsMap(r)
  <2> HIDE DEF here
  <2>1. r \in Items /\ WellFormed(r) /\ CanDump(r) /\ y \in Items
    BY <1>2, LeaveCanDump
  <2> QED  BY <1>2, <2>1, AsMapCanDump
<1>3. ASSUME AppendMap(u)  PROVE CanDump(root')
  <2> DEFINE s == AsMap(r).entries
  <2> DEFINE m == Merged(s, u.entries)
  <2> DEFINE y == Map(m)
  <2>1. CanBeMap(r) /\ Leave(y, here)
    BY <1>3 DEF AppendMap
  <2>2. y \in Items /\ r \in Items /\ WellFormed(r) /\ CanDump(r) /\ AsMap(r) = r /\ IsMap(r)
    <3> HIDE DEF y, here
    <3> QED  BY <1>2, <2>1
  <2>3. IsDict(s) /\ \A i \in DOMAIN s : CanDump(s[i].val)
    BY <2>2, EntriesAre, DumpOfMap
  <2>4. IsDict(u.entries) /\ \A i \in DOMAIN u.entries : CanDump(u.entries[i].val)
    BY <1>1, EntriesAre, DumpOfMap
  <2> HIDE DEF s
  <2>5. \A j \in DOMAIN m : \/ \E i \in DOMAIN s : m[j].val = s[i].val
                            \/ \E i \in DOMAIN u.entries : m[j].val = u.entries[i].val
    BY <2>3, <2>4, MergedValues
  <2> HIDE DEF m
  <2>6. \A j \in DOMAIN m : CanDump(m[j].val)
    BY <2>3, <2>4, <2>5
  <2>7. CanDump(y)
    BY <2>2, <2>6, MapCanDump
  <2> HIDE DEF y, here
  <2> QED  BY <2>1, <2>7, LeaveCanDump
<1>4. ASSUME UpdateMap(u)  PROVE CanDump(root')
  <2> DEFINE y == Updated[u][AsMap(r)]
  <2>1. CanBeMap(r) /\ Leave(y, here)
    BY <1>4 DEF UpdateMap
  <2>2. r \in Items /\ WellFormed(r) /\ CanDump(r) /\ AsMap(r) = r /\ IsMap(r)
    <3> HIDE DEF y, here
    <3> QED  BY <1>2, <2>1
  <2>3. MaxLevels \in Nat /\ MaxLevels <= MaxLevels /\ Items = ItemsOf[MaxLevels]
    BY MaxLevelsAssumption DEF Items
  <2>4. CanDump(Updated[u][r])
    BY <1>1, <2>2, <2>3, UpdatedLevel
  <2>5. CanDump(y)
    BY <2>2, <2>4
  <2> HIDE DEF y, here
  <2> QED  BY <2>1, <2>5, LeaveCanDump
<1> QED  BY <1>3, <1>4

\* Of the new items only ConfigItem() is empty, and r is it.
LEMMA AssignNewCanDump ==
  ASSUME TypeOK, CanDump(root), AssignNew
  PROVE  CanDump(root') \/ IsNone(ItemOf(root', ref'))
<1> DEFINE here == << >>
<1>1. PICK y \in {Map(<< >>), Vector(<< >>), None} : Leave(y, here)
  BY DEF AssignNew
<1>2. ref \in Seq(Keys \cup 1 .. MaxItems) /\ ref' = ref
  <2>1. ref' = ref \o here
    BY <1>1 DEF Leave
  <2> QED  BY <2>1 DEF TypeOK
<1> HIDE DEF here
<1>3. y \in Items /\ ItemOf(root', ref) = y
  BY <1>1, LeaveIs
<1>4. CASE y = None
  BY <1>2, <1>3, <1>4, ConstructorsAre
<1>5. CASE y = Map(<< >>)
  <2>1. \A i \in DOMAIN << >> : FALSE
    OBVIOUS
  <2>2. CanDump(y)
    BY <1>3, <1>5, <2>1, MapCanDump
  <2> QED  BY <1>1, <2>2, LeaveCanDump
<1>6. CASE y = Vector(<< >>)
  <2>1. \A i \in DOMAIN << >> : FALSE
    OBVIOUS
  <2>2. CanDump(y)
    BY <1>3, <1>6, <2>1, VectorCanDump
  <2> QED  BY <1>1, <2>2, LeaveCanDump
<1> QED  BY <1>1, <1>4, <1>5, <1>6

\* A program whose updates can be saved can save its configuration at any time, but while
\* it refers to an item that is still empty: operator[] of a missing key, the element
\* behind the last one, and the assignment of an empty item are all that spoils a tree.
THEOREM OnlyLookupsSpoil ==
  ASSUME \A u \in Updates : CanDump(u)
  PROVE  Spec => SpoiledOnlyByLookup
<1>1. ASSUME TypeOK, [Next]_vars, CanDump(root), ~CanDump(root')
      PROVE  IsNone(ItemOf(root', ref'))
  <2>1. ASSUME NEW y, Leave(y, << >>), CanDump(y)  PROVE FALSE
    <3> DEFINE here == << >>
    <3>1. Leave(y, here)
      BY <2>1
    <3> HIDE DEF here
    <3> QED  BY <1>1, <2>1, <3>1, LeaveCanDump
  <2>2. ASSUME NEW b, Leave(WithAtom(r, b), << >>)  PROVE FALSE
    <3> DEFINE here == << >>
    <3> DEFINE y == WithAtom(r, b)
    <3>1. Leave(y, here)
      BY <2>2
    <3>2. r \in Items /\ WellFormed(r) /\ CanDump(r) /\ y \in Items
      <4> HIDE DEF y, here
      <4> QED  BY <1>1, <3>1, LeaveCanDump
    <3>3. CanDump(y)
      BY <3>2, WithAtomCanDump
    <3> QED  BY <2>1, <2>2, <3>3
  <2>3. CASE Read
    BY <2>2, <2>3 DEF Read
  <2>4. CASE AskMap
    <3> DEFINE here == << >>
    <3>1. CanBeMap(r) /\ Leave(AsMap(r), here)
      BY <2>4 DEF AskMap
    <3>2. r \in Items /\ CanDump(r)
      <4> HIDE DEF here
      <4> QED  BY <1>1, <3>1, LeaveCanDump
    <3>3. CanDump(AsMap(r))
      BY <3>1, <3>2, AsMapCanDump
    <3> QED  BY <2>1, <3>1, <3>3
  <2>5. CASE Access
    BY <1>1, <2>3, <2>4, <2>5, KeyCanDump, IndexCanDump, GetOrCreateCanDump, AppendCanDump DEF Access
  <2>6. ASSUME NEW v \in Vals, AssignValue(v)  PROVE FALSE
    BY <2>2, <2>6 DEF AssignValue
  <2>7. ASSUME NEW u \in Updates, AppendMap(u) \/ UpdateMap(u)  PROVE FALSE
    BY <1>1, <2>7, MergeCanDump
  <2>8. CASE Change
    BY <1>1, <2>6, <2>7, <2>8, AppendCanDump, GetOrCreateCanDump, EraseCanDump, AssignNewCanDump
       DEF Change
  <2>9. CASE Reload
    <3>1. MaxLevels \in Nat /\ MaxLevels <= MaxLevels /\ root \in Items
      BY <1>1, MaxLevelsAssumption DEF TypeOK, Bounded
    <3>2. ToYaml[root] \in Yaml /\ ToJson[root] \in Json
      BY <3>1, ToYamlLevel, ToJsonLevel DEF Items, Yaml, Json
    <3>3. ASSUME NEW d \in Yaml, LoadYaml(d)  PROVE FALSE
      BY <1>1, <3>3, FromYamlCanDump DEF LoadYaml, Load
    <3>4. ASSUME NEW d \in Json, LoadJson(d)  PROVE FALSE
      BY <1>1, <3>4, FromJsonCanDump DEF LoadJson, Load
    <3> QED  BY <2>9, <3>2, <3>3, <3>4, LoadingMaps, YamlFilesAssumption, JsonFilesAssumption
             DEF Reload, ReloadYaml, ReloadJson
  <2>10. CASE Restart \/ UNCHANGED vars
    BY <1>1, <2>10 DEF Restart, vars
  <2> QED  BY <1>1, <2>5, <2>8, <2>9, <2>10 DEF Next
<1>2. TypeOK /\ [Next]_vars =>
        [CanDump(root) /\ ~CanDump(root') => IsNone(ItemOf(root', ref'))]_vars
  BY <1>1
<1> QED  BY <1>2, TypeCorrect, PTL DEF Spec, SpoiledOnlyByLookup

-----------------------------------------------------------------------------
\* The update of a map is a deep merge.  A path of keys is followed one key at a time.
Behind(k, q) == << k >> \o q

\* A path with one key more in front.
LEMMA BehindIs ==
  ASSUME NEW k \in Keys, NEW q \in Seq(Keys)
  PROVE  /\ Behind(k, q) \in Seq(Keys) /\ Len(Behind(k, q)) = Len(q) + 1 /\ Len(q) \in Nat
         /\ Behind(k, q)[1] = k /\ \A n \in 1 .. Len(q) : Behind(k, q)[n + 1] = q[n]
<1> DEFINE p == << k >>
<1>1. p \in Seq(Keys) /\ Len(p) = 1 /\ p[1] = k
  OBVIOUS
<1> HIDE DEF p
<1>2. Len(q) \in Nat
  OBVIOUS
<1>3. /\ p \o q \in Seq(Keys) /\ Len(p \o q) = 1 + Len(q)
      /\ \A i \in 1 .. 1 + Len(q) : (p \o q)[i] = IF i <= 1 THEN p[i] ELSE q[i - 1]
  <2>1. /\ p \o q \in Seq(Keys) /\ Len(p \o q) = Len(p) + Len(q)
        /\ \A i \in 1 .. Len(p) + Len(q) :
             (p \o q)[i] = IF i <= Len(p) THEN p[i] ELSE q[i - Len(p)]
    BY <1>1, ConcatProperties
  <2> QED  BY <1>1, <2>1
<1>4. (p \o q)[1] = k
  BY <1>1, <1>2, <1>3
<1>5. ASSUME NEW n \in 1 .. Len(q)  PROVE (p \o q)[n + 1] = q[n]
  <2>1. n + 1 \in 1 .. 1 + Len(q) /\ ~(n + 1 <= 1) /\ (n + 1) - 1 = n
    BY <1>2
  <2> QED  BY <1>3, <2>1
<1>6. 1 + Len(q) = Len(q) + 1
  BY <1>2
<1> QED  BY <1>2, <1>3, <1>4, <1>5, <1>6 DEF Behind, p

\* The beginnings of such a path.
LEMMA PrefixIs ==
  ASSUME NEW k \in Keys, NEW q \in Seq(Keys), NEW n \in 1 .. Len(q) + 1
  PROVE  /\ SubSeq(q, 1, n - 1) \in Seq(Keys)
         /\ SubSeq(Behind(k, q), 1, n) = Behind(k, SubSeq(q, 1, n - 1))
<1> DEFINE b == Behind(k, q)
<1> DEFINE p == SubSeq(q, 1, n - 1)
<1>1. /\ b \in Seq(Keys) /\ Len(b) = Len(q) + 1 /\ Len(q) \in Nat
      /\ b[1] = k /\ \A i \in 1 .. Len(q) : b[i + 1] = q[i]
  BY BehindIs
<1>2. p \in Seq(Keys) /\ Len(p) = n - 1 /\ \A i \in 1 .. n - 1 : p[i] = q[i]
  BY <1>1
<1> HIDE DEF b, p
<1> DEFINE c == Behind(k, p)
<1>3. /\ c \in Seq(Keys) /\ Len(c) = Len(p) + 1
      /\ c[1] = k /\ \A i \in 1 .. Len(p) : c[i + 1] = p[i]
  BY <1>2, BehindIs
<1> HIDE DEF c
<1> DEFINE a == SubSeq(b, 1, n)
<1>4. a \in Seq(Keys) /\ Len(a) = n /\ \A i \in 1 .. n : a[i] = b[i]
  BY <1>1
<1> HIDE DEF a
<1>5. Len(c) = n
  BY <1>1, <1>2, <1>3
<1>6. ASSUME NEW i \in 1 .. n  PROVE a[i] = c[i]
  <2>1. CASE i = 1
    BY <1>1, <1>3, <1>4, <2>1
  <2>2. CASE i # 1
    <3>1. i - 1 \in 1 .. n - 1 /\ i - 1 \in 1 .. Len(q) /\ (i - 1) + 1 = i
      BY <1>1, <2>2
    <3>2. b[i] = q[i - 1] /\ c[i] = p[i - 1] /\ p[i - 1] = q[i - 1]
      BY <1>1, <1>2, <1>3, <3>1
    <3> QED  BY <1>4, <3>2
  <2> QED  BY <2>1, <2>2
<1>7. a = c
  BY <1>3, <1>4, <1>5, <1>6
<1> QED  BY <1>2, <1>7 DEF a, b, c, p

\* The empty path leads to the item itself.
LEMMA HasNothing ==
  ASSUME NEW x
  PROVE  Has(x, << >>) /\ ItemOf(x, << >>) = x
<1>1. Len(<< >>) = 0
  OBVIOUS
<1> QED  BY <1>1, NoStep DEF Has

\* What a map has at a path is what the item under its first key has at the rest.
LEMMA HasStep ==
  ASSUME NEW x, NEW k \in Keys, NEW q \in Seq(Keys)
  PROVE  /\ Has(x, Behind(k, q)) <=> /\ IsMap(x) /\ HasKey(x.entries, k)
                                     /\ Has(At(x.entries, k), q)
         /\ IsMap(x) => ItemOf(x, Behind(k, q)) = ItemOf(At(x.entries, k), q)
<1> DEFINE b == Behind(k, q)
<1> DEFINE p == << k >>
<1> DEFINE L == Len(q)
<1> DEFINE c == Child(x, k)
<1>1. Len(b) = L + 1 /\ L \in Nat /\ b[1] = k /\ \A n \in 1 .. L : b[n + 1] = q[n]
  BY BehindIs
<1>2. p \in Seq(Keys) /\ Len(p) = 1
  OBVIOUS
<1>3. ItemOf(x, p) = c
  BY OneStep
<1>4. b = p \o q
  BY DEF Behind
<1> HIDE DEF b, p, c
<1>5. /\ \A n \in 0 .. 1 : Trail(x, b)[n] = Trail(x, p)[n]
      /\ \A n \in 0 .. L : Trail(x, b)[1 + n] = Trail(c, q)[n]
      /\ ItemOf(x, b) = ItemOf(c, q)
  <2>1. Joined(x, p, q)
    BY <1>2, TwoTrails
  <2> QED  BY <1>2, <1>3, <1>4, <2>1 DEF Joined
<1> HIDE DEF L
<1> DEFINE step(y, e) == IsMap(y) /\ HasKey(y.entries, e)
<1>6. Trail(x, b)[0] = x
  BY <1>1, TrailIs
<1>7. Has(x, b) <=> \A n \in 1 .. L + 1 : step(Trail(x, b)[n - 1], b[n])
  BY <1>1 DEF Has
<1>8. Has(c, q) <=> \A n \in 1 .. L : step(Trail(c, q)[n - 1], q[n])
  BY DEF Has, L
<1> HIDE DEF step
<1>9. ASSUME NEW n \in 1 .. L
      PROVE  n + 1 \in 1 .. L + 1 /\ Trail(x, b)[(n + 1) - 1] = Trail(c, q)[n - 1] /\ b[n + 1] = q[n]
  <2>1. n + 1 \in 1 .. L + 1 /\ n - 1 \in 0 .. L /\ (n + 1) - 1 = 1 + (n - 1)
    BY <1>1
  <2>2. Trail(x, b)[1 + (n - 1)] = Trail(c, q)[n - 1]
    BY <1>5, <2>1
  <2> QED  BY <1>1, <2>1, <2>2
<1>10. Has(x, b) <=> step(x, k) /\ Has(c, q)
  <2>1. ASSUME Has(x, b)  PROVE step(x, k) /\ Has(c, q)
    <3>1. 1 \in 1 .. L + 1 /\ 1 - 1 = 0
      BY <1>1
    <3>2. step(x, k)
      BY <1>1, <1>6, <1>7, <2>1, <3>1
    <3> QED  BY <1>7, <1>8, <1>9, <2>1, <3>2
  <2>2. ASSUME step(x, k), Has(c, q)  PROVE Has(x, b)
    <3>1. ASSUME NEW n \in 1 .. L + 1  PROVE step(Trail(x, b)[n - 1], b[n])
      <4>1. CASE n = 1
        BY <1>1, <1>6, <2>2, <4>1
      <4>2. CASE n # 1
        <5>1. n - 1 \in 1 .. L /\ (n - 1) + 1 = n
          BY <1>1, <4>2
        <5>2. step(Trail(c, q)[(n - 1) - 1], q[n - 1])
          BY <1>8, <2>2, <5>1
        <5>3. Trail(x, b)[((n - 1) + 1) - 1] = Trail(c, q)[(n - 1) - 1] /\ b[(n - 1) + 1] = q[n - 1]
          BY <1>9, <5>1
        <5> QED  BY <5>1, <5>2, <5>3
      <4> QED  BY <4>1, <4>2
    <3> QED  BY <1>7, <3>1
  <2> QED  BY <2>1, <2>2
<1>11. IsMap(x) => c = At(x.entries, k)
  BY DEF c, Child
<1> QED  BY <1>5, <1>10, <1>11 DEF step, b

\* The update puts something else than a merged map at a path, or above it.
Replaced(x, u, p) ==
  Has(u, p) /\ ~(IsMap(ItemOf(u, p)) /\ Has(x, p) /\ IsMap(ItemOf(x, p)))

Covered(x, u, path) == \E n \in 1 .. Len(path) - 1 : Replaced(x, u, SubSeq(path, 1, n))

\* y is the deep merge of x and u as far as one path is concerned.
DeepAt(x, u, y, path) ==
  /\ Has(y, path) <=> (Has(u, path) \/ (Has(x, path) /\ ~Covered(x, u, path)))
  /\ Has(u, path) =>
       IF IsMap(ItemOf(u, path)) /\ Has(x, path) /\ IsMap(ItemOf(x, path))
       THEN IsMap(ItemOf(y, path))
       ELSE ItemOf(y, path) = ItemOf(u, path)
  /\ ~Has(u, path) /\ Has(y, path) => ItemOf(y, path) = ItemOf(x, path)

\* When an update covers a path, seen from its first key.
LEMMA CoveredStep ==
  ASSUME NEW x, NEW u, IsMap(x), IsMap(u), NEW k \in Keys, NEW q \in Seq(Keys)
  PROVE  /\ ~HasKey(u.entries, k) => ~Covered(x, u, Behind(k, q))
         /\ /\ HasKey(u.entries, k) /\ q # << >>
            /\ ~(HasKey(x.entries, k) /\ IsMap(At(x.entries, k)) /\ IsMap(At(u.entries, k)))
            => Covered(x, u, Behind(k, q))
         /\ /\ HasKey(u.entries, k) /\ HasKey(x.entries, k)
            /\ IsMap(At(x.entries, k)) /\ IsMap(At(u.entries, k))
            => (Covered(x, u, Behind(k, q)) <=> Covered(At(x.entries, k), At(u.entries, k), q))
<1> DEFINE b == Behind(k, q)
<1> DEFINE L == Len(q)
<1> DEFINE v == At(u.entries, k)
<1> DEFINE y == At(x.entries, k)
<1> DEFINE inU == HasKey(u.entries, k)
<1> DEFINE inX == HasKey(x.entries, k)
<1>1. Len(b) = L + 1 /\ L \in Nat
  BY BehindIs
<1>2. ASSUME NEW n \in 1 .. L + 1
      PROVE  LET p == SubSeq(b, 1, n)
                 t == SubSeq(q, 1, n - 1)
             IN  /\ Has(u, p) <=> inU /\ Has(v, t)
                 /\ Has(x, p) <=> inX /\ Has(y, t)
                 /\ ItemOf(u, p) = ItemOf(v, t) /\ ItemOf(x, p) = ItemOf(y, t)
  <2> DEFINE t == SubSeq(q, 1, n - 1)
  <2>1. t \in Seq(Keys) /\ SubSeq(b, 1, n) = Behind(k, t)
    BY PrefixIs
  <2> HIDE DEF t
  <2>2. /\ Has(u, Behind(k, t)) <=> inU /\ Has(v, t)
        /\ Has(x, Behind(k, t)) <=> inX /\ Has(y, t)
        /\ ItemOf(u, Behind(k, t)) = ItemOf(v, t) /\ ItemOf(x, Behind(k, t)) = ItemOf(y, t)
    BY <2>1, HasStep
  <2> QED  BY <2>1, <2>2 DEF t
<1>3. Covered(x, u, b) <=> \E n \in 1 .. L : Replaced(x, u, SubSeq(b, 1, n))
  BY <1>1 DEF Covered
<1>4. \A n \in 1 .. L : n \in 1 .. L + 1
  BY <1>1
<1>5. Covered(y, v, q) <=> \E n \in 1 .. L - 1 : Replaced(y, v, SubSeq(q, 1, n))
  BY DEF Covered
<1>6. SubSeq(q, 1, 0) = << >>
  OBVIOUS
<1>7. Has(v, << >>) /\ Has(y, << >>) /\ ItemOf(v, << >>) = v /\ ItemOf(y, << >>) = y
  BY HasNothing
<1> HIDE DEF b, v, y, inU, inX, L
<1>8. ASSUME NEW n \in 1 .. L, inU, inX
      PROVE  Replaced(x, u, SubSeq(b, 1, n)) <=> Replaced(y, v, SubSeq(q, 1, n - 1))
  BY <1>2, <1>4, <1>8 DEF Replaced
<1>9. ASSUME ~inU  PROVE ~Covered(x, u, b)
  BY <1>2, <1>3, <1>4, <1>9 DEF Replaced
<1>10. ASSUME inU, q # << >>, ~(inX /\ IsMap(y) /\ IsMap(v))  PROVE Covered(x, u, b)
  <2>1. 1 \in 1 .. L /\ 1 \in 1 .. L + 1 /\ 1 - 1 = 0
    BY <1>1, <1>10 DEF L
  <2> DEFINE p == SubSeq(b, 1, 1)
  <2>2. /\ Has(u, p) <=> inU /\ Has(v, << >>)
        /\ Has(x, p) <=> inX /\ Has(y, << >>)
        /\ ItemOf(u, p) = ItemOf(v, << >>) /\ ItemOf(x, p) = ItemOf(y, << >>)
    BY <1>2, <1>6, <2>1
  <2>3. Replaced(x, u, p)
    BY <1>7, <1>10, <2>2 DEF Replaced
  <2> QED  BY <1>3, <2>1, <2>3
<1>11. ASSUME inU, inX, IsMap(y), IsMap(v)  PROVE Covered(x, u, b) <=> Covered(y, v, q)
  <2>1. ~Replaced(y, v, << >>)
    BY <1>7, <1>11 DEF Replaced
  <2>2. ASSUME Covered(x, u, b)  PROVE Covered(y, v, q)
    <3>1. PICK n \in 1 .. L : Replaced(x, u, SubSeq(b, 1, n))
      BY <1>3, <2>2
    <3>2. Replaced(y, v, SubSeq(q, 1, n - 1))
      BY <1>8, <1>11, <3>1
    <3>3. n # 1
      <4>1. n = 1 => n - 1 = 0
        OBVIOUS
      <4> QED  BY <1>6, <2>1, <3>2, <4>1
    <3>4. n - 1 \in 1 .. L - 1
      BY <1>1, <3>3
    <3> QED  BY <1>5, <3>2, <3>4
  <2>3. ASSUME Covered(y, v, q)  PROVE Covered(x, u, b)
    <3>1. PICK n \in 1 .. L - 1 : Replaced(y, v, SubSeq(q, 1, n))
      BY <1>5, <2>3
    <3>2. n + 1 \in 1 .. L /\ (n + 1) - 1 = n
      BY <1>1
    <3>3. Replaced(x, u, SubSeq(b, 1, n + 1))
      BY <1>8, <1>11, <3>1, <3>2
    <3> QED  BY <1>3, <3>2, <3>3
  <2> QED  BY <2>2, <2>3
<1> QED  BY <1>9, <1>10, <1>11 DEF b, v, y, inU, inX

\* What an update makes of a map, key by key.
UpdatedAtKey(x, u, y, k) ==
  /\ HasKey(y.entries, k) <=> HasKey(x.entries, k) \/ HasKey(u.entries, k)
  /\ ~HasKey(u.entries, k) /\ HasKey(x.entries, k) => At(y.entries, k) = At(x.entries, k)
  /\ HasKey(u.entries, k) =>
       At(y.entries, k) =
         IF HasKey(x.entries, k) /\ IsMap(At(x.entries, k)) /\ IsMap(At(u.entries, k))
         THEN Updated[At(u.entries, k)][At(x.entries, k)] ELSE At(u.entries, k)

\* What is under a key of two maps appended: what the second has, or else the first.
LEMMA MergedAt ==
  ASSUME NEW s, IsDict(s), NEW u, IsDict(u), NEW k
  PROVE  /\ HasKey(Merged(s, u), k) <=> HasKey(s, k) \/ HasKey(u, k)
         /\ HasKey(u, k) => At(Merged(s, u), k) = At(u, k)
         /\ ~HasKey(u, k) /\ HasKey(s, k) => At(Merged(s, u), k) = At(s, k)
         /\ IsPrefix(KeysOf(s), KeysOf(Merged(s, u)))
<1> DEFINE m == Merged(s, u)
<1> DEFINE new == NewEntries(u, s)
<1>1. /\ IsDict(m) /\ Len(m) = Len(s) + Len(new)
      /\ \A j \in 1 .. Len(s) :
           m[j] = Entry(s[j].key, IF HasKey(u, s[j].key) THEN At(u, s[j].key) ELSE s[j].val)
      /\ \A j \in 1 .. Len(new) : m[Len(s) + j] = new[j]
  BY MergedIs
<1>2. IsDict(new) /\ \A j \in DOMAIN new : \E i \in DOMAIN u : new[j] = u[i] /\ ~HasKey(s, u[i].key)
  BY NewEntriesAre
<1>3. \A i \in DOMAIN u : HasKey(s, u[i].key) \/ \E j \in DOMAIN new : new[j] = u[i]
  BY AllNewEntries
<1> HIDE DEF m, new
<1>4. /\ DOMAIN s = 1 .. Len(s) /\ Len(s) \in Nat /\ DOMAIN new = 1 .. Len(new) /\ Len(new) \in Nat
      /\ DOMAIN m = 1 .. Len(m) /\ DOMAIN u = 1 .. Len(u)
  BY <1>1, <1>2, DictShape
<1>5. ASSUME NEW j \in 1 .. Len(s)
      PROVE  j \in DOMAIN m /\ m[j].key = s[j].key
             /\ m[j].val = IF HasKey(u, s[j].key) THEN At(u, s[j].key) ELSE s[j].val
  <2> DEFINE v == IF HasKey(u, s[j].key) THEN At(u, s[j].key) ELSE s[j].val
  <2>1. m[j] = Entry(s[j].key, v)
    BY <1>1
  <2>2. j \in DOMAIN m
    BY <1>1, <1>4
  <2> HIDE DEF v
  <2>3. m[j].key = s[j].key /\ m[j].val = v
    BY <2>1 DEF Entry
  <2> QED  BY <2>2, <2>3 DEF v
<1>6. ASSUME NEW j \in DOMAIN new  PROVE Len(s) + j \in DOMAIN m /\ m[Len(s) + j] = new[j]
  BY <1>1, <1>4
<1>7. ASSUME HasKey(s, k)
      PROVE  HasKey(m, k) /\ At(m, k) = IF HasKey(u, k) THEN At(u, k) ELSE At(s, k)
  <2>1. PICK j \in 1 .. Len(s) : s[j].key = k
    BY <1>4, <1>7 DEF HasKey
  <2>2. At(s, k) = s[j].val
    BY <1>4, <2>1, AtIs
  <2>3. j \in DOMAIN m /\ m[j].key = k /\ m[j].val = IF HasKey(u, k) THEN At(u, k) ELSE s[j].val
    BY <1>5, <2>1
  <2>4. HasKey(m, k) /\ At(m, k) = m[j].val
    BY <1>1, <2>3, AtIs
  <2> QED  BY <2>2, <2>3, <2>4
<1>8. ASSUME ~HasKey(s, k), HasKey(u, k)  PROVE HasKey(m, k) /\ At(m, k) = At(u, k)
  <2>1. PICK i \in DOMAIN u : u[i].key = k
    BY <1>8 DEF HasKey
  <2>2. At(u, k) = u[i].val
    BY <2>1, AtIs
  <2>3. PICK j \in DOMAIN new : new[j] = u[i]
    BY <1>3, <1>8, <2>1
  <2> DEFINE l == Len(s) + j
  <2>4. l \in DOMAIN m /\ m[l] = u[i]
    BY <1>6, <2>3
  <2> HIDE DEF l
  <2>5. HasKey(m, k) /\ At(m, k) = m[l].val
    BY <1>1, <2>1, <2>4, AtIs
  <2> QED  BY <2>2, <2>4, <2>5
<1>9. ASSUME HasKey(m, k)  PROVE HasKey(s, k) \/ HasKey(u, k)
  <2>1. PICK l \in DOMAIN m : m[l].key = k
    BY <1>9 DEF HasKey
  <2>2. CASE l \in 1 .. Len(s)
    BY <1>4, <1>5, <2>1, <2>2 DEF HasKey
  <2>3. CASE l \notin 1 .. Len(s)
    <3>1. l - Len(s) \in DOMAIN new /\ Len(s) + (l - Len(s)) = l
      BY <1>1, <1>4, <2>3
    <3>2. m[l] = new[l - Len(s)]
      BY <1>6, <3>1
    <3>3. PICK i \in DOMAIN u : new[l - Len(s)] = u[i]
      BY <1>2, <3>1
    <3> QED  BY <2>1, <3>2, <3>3 DEF HasKey
  <2> QED  BY <2>2, <2>3
<1>10. IsPrefix(KeysOf(s), KeysOf(m))
  <2> DEFINE a == KeysOf(s)
  <2> DEFINE b == KeysOf(m)
  <2>1. /\ a = [j \in 1 .. Len(s) |-> s[j].key] /\ b = [j \in 1 .. Len(m) |-> m[j].key]
    BY <1>4 DEF KeysOf
  <2>2. Len(m) \in Nat /\ Len(s) <= Len(m)
    BY <1>1, <1>4
  <2> DEFINE K == {s[j].key : j \in DOMAIN s} \cup {m[j].key : j \in DOMAIN m}
  <2>3. (\A j \in 1 .. Len(s) : s[j].key \in K) /\ (\A j \in 1 .. Len(m) : m[j].key \in K)
    BY <1>4
  <2> HIDE DEF K, a, b
  <2>4. a \in Seq(K) /\ b \in Seq(K) /\ Len(a) = Len(s) /\ Len(b) = Len(m)
    BY <1>4, <2>1, <2>2, <2>3
  <2>5. \A j \in 1 .. Len(s) : a[j] = b[j]
    BY <1>4, <1>5, <2>1
  <2>6. SubSeq(a, 1, Len(a)) = SubSeq(b, 1, Len(a))
    <3> DEFINE n == Len(a)
    <3>1. n \in Nat /\ n <= Len(b) /\ \A j \in 1 .. n : a[j] = b[j]
      BY <1>4, <2>2, <2>4, <2>5
    <3> DEFINE c == SubSeq(a, 1, n)
    <3> DEFINE d == SubSeq(b, 1, n)
    <3>2. c \in Seq(K) /\ Len(c) = n /\ \A j \in 1 .. n : c[j] = a[j]
      BY <2>4
    <3>3. d \in Seq(K) /\ Len(d) = n /\ \A j \in 1 .. n : d[j] = b[j]
      BY <2>4, <3>1
    <3> HIDE DEF n, c, d
    <3>4. c = d
      BY <3>1, <3>2, <3>3
    <3> QED  BY <3>4 DEF c, d, n
  <2> QED  BY <2>2, <2>4, <2>6 DEF IsPrefix, a, b
<1> QED  BY <1>7, <1>8, <1>9, <1>10 DEF m


\* The entries of an update, those that meet a map merged already: their keys are the
\* update's.
LEMMA UpdateEntriesAre ==
  ASSUME NEW x \in Maps, NEW u \in Maps, WellFormed(x), WellFormed(u)
  PROVE  LET w == UpdateEntries(Updated, x, u)
             t == u.entries
         IN  /\ IsDict(x.entries) /\ IsDict(t) /\ IsDict(w) /\ DOMAIN w = DOMAIN t
             /\ \A i \in DOMAIN t :
                  /\ w[i].key = t[i].key
                  /\ w[i].val = IF AreMaps(x.entries, t[i])
                                THEN Updated[t[i].val][At(x.entries, t[i].key)] ELSE t[i].val
<1> DEFINE t == u.entries
<1> DEFINE s == x.entries
<1> DEFINE w == UpdateEntries(Updated, x, u)
<1>1. IsDict(s) /\ IsDict(t)
  BY EntriesAre DEF Maps
<1>2. /\ DOMAIN w = DOMAIN t
      /\ \A i \in DOMAIN t :
           w[i] = IF AreMaps(s, t[i]) THEN Entry(t[i].key, Updated[t[i].val][At(s, t[i].key)])
                  ELSE t[i]
  BY DEF UpdateEntries
<1>3. Len(t) \in Nat /\ DOMAIN t = 1 .. Len(t)
  BY <1>1, DictShape
<1>4. w = [i \in 1 .. Len(t) |-> w[i]]
  BY <1>3 DEF UpdateEntries
<1> HIDE DEF s, t, w
<1>5. ASSUME NEW i \in DOMAIN t
      PROVE  /\ w[i].key = t[i].key /\ w[i] = Entry(w[i].key, w[i].val)
             /\ w[i].val = IF AreMaps(s, t[i])
                           THEN Updated[t[i].val][At(s, t[i].key)] ELSE t[i].val
  <2>1. CASE AreMaps(s, t[i])
    BY <1>2, <2>1 DEF Entry
  <2>2. CASE ~AreMaps(s, t[i])
    <3>1. t[i] = Entry(t[i].key, t[i].val)
      BY <1>1 DEF IsDict
    <3> QED  BY <1>2, <2>2, <3>1
  <2> QED  BY <2>1, <2>2
<1>6. IsDict(w)
  <2> DEFINE E == {w[i] : i \in DOMAIN t}
  <2>1. \A i \in 1 .. Len(t) : w[i] \in E
    BY <1>3
  <2> HIDE DEF E
  <2>2. w \in Seq(E)
    BY <1>3, <1>4, <2>1
  <2>3. w \in Seq(Range(w))
    BY <2>2, IsSeqOfRange
  <2>4. \A i, j \in DOMAIN t : t[i].key = t[j].key => i = j
    BY <1>1 DEF IsDict
  <2> QED  BY <1>2, <1>5, <2>3, <2>4 DEF IsDict
<1> QED  BY <1>1, <1>2, <1>5, <1>6 DEF s, t, w

\* What updateMap makes of each key of the map, one level deep.
LEMMA UpdatedAt ==
  ASSUME NEW x \in Maps, NEW u \in Maps, WellFormed(x), WellFormed(u)
  PROVE  /\ Updated[u][x] \in Maps
         /\ IsPrefix(KeysOf(x.entries), KeysOf(Updated[u][x].entries))
         /\ \A k \in Keys : UpdatedAtKey(x, u, Updated[u][x], k)
<1> DEFINE y == Updated[u][x]
<1> DEFINE t == u.entries
<1> DEFINE s == x.entries
<1> DEFINE w == UpdateEntries(Updated, x, u)
<1>1. MaxLevels \in Nat /\ MaxLevels <= MaxLevels
  BY MaxLevelsAssumption
<1>2. y \in Items
  BY <1>1, UpdatedLevel DEF Maps, Items
<1>3. y = Map(Merged(s, w))
  BY UpdatedIs
<1>4. IsMap(y) /\ y.entries = Merged(s, w)
  BY <1>3, ConstructorsAre
<1>5. /\ IsDict(s) /\ IsDict(t) /\ IsDict(w) /\ DOMAIN w = DOMAIN t
      /\ \A i \in DOMAIN t :
           /\ w[i].key = t[i].key
           /\ w[i].val = IF AreMaps(s, t[i])
                         THEN Updated[t[i].val][At(s, t[i].key)] ELSE t[i].val
  BY UpdateEntriesAre
<1> HIDE DEF y, s, t, w
<1>6. IsPrefix(KeysOf(s), KeysOf(Merged(s, w)))
  BY <1>5, MergedAt
<1>7. ASSUME NEW k \in Keys  PROVE UpdatedAtKey(x, u, y, k)
  <2> DEFINE m == Merged(s, w)
  <2>1. /\ HasKey(m, k) <=> HasKey(s, k) \/ HasKey(w, k)
        /\ HasKey(w, k) => At(m, k) = At(w, k)
        /\ ~HasKey(w, k) /\ HasKey(s, k) => At(m, k) = At(s, k)
    BY <1>5, MergedAt
  <2> HIDE DEF m
  <2>2. HasKey(w, k) <=> HasKey(t, k)
    BY <1>5 DEF HasKey
  <2>3. ASSUME HasKey(t, k)
        PROVE  At(w, k) = IF HasKey(s, k) /\ IsMap(At(s, k)) /\ IsMap(At(t, k))
                          THEN Updated[At(t, k)][At(s, k)] ELSE At(t, k)
    <3>1. PICK i \in DOMAIN t : t[i].key = k
      BY <2>3 DEF HasKey
    <3>2. At(t, k) = t[i].val
      BY <1>5, <3>1, AtIs
    <3>3. i \in DOMAIN w /\ w[i].key = k
      BY <1>5, <3>1
    <3>4. At(w, k) = w[i].val
      BY <1>5, <3>3, AtIs
    <3>5. AreMaps(s, t[i]) <=> HasKey(s, k) /\ IsMap(At(s, k)) /\ IsMap(At(t, k))
      BY <3>1, <3>2 DEF AreMaps
    <3> QED  BY <1>5, <3>1, <3>2, <3>4, <3>5
  <2>4. m = y.entries
    BY <1>4 DEF m
  <2> QED  BY <2>1, <2>2, <2>3, <2>4 DEF UpdatedAtKey, s, t
<1> QED  BY <1>2, <1>4, <1>6, <1>7 DEF Maps, y, s

\* What a map without repeated keys holds under a key is an item like it.
LEMMA MapAtKey ==
  ASSUME NEW x \in Items, IsMap(x), WellFormed(x), NEW k, HasKey(x.entries, k)
  PROVE  At(x.entries, k) \in Items /\ WellFormed(At(x.entries, k))
<1> DEFINE s == x.entries
<1>1. IsDict(s) /\ \A i \in DOMAIN s : s[i].val \in Items /\ WellFormed(s[i].val)
  BY EntriesAre
<1> HIDE DEF s
<1>2. PICK i \in DOMAIN s : s[i].key = k
  BY DEF HasKey, s
<1>3. At(s, k) = s[i].val
  BY <1>1, <1>2, AtIs
<1> QED  BY <1>1, <1>2, <1>3 DEF s

\* A path is a key and the path behind it.
LEMMA PathSplits ==
  ASSUME NEW path \in Seq(Keys), path # << >>
  PROVE  /\ path[1] \in Keys /\ Tail(path) \in Seq(Keys) /\ Len(Tail(path)) = Len(path) - 1
         /\ path = Behind(path[1], Tail(path))
<1> DEFINE k == path[1]
<1> DEFINE q == Tail(path)
<1>1. /\ Len(path) \in Nat /\ k \in Keys /\ q \in Seq(Keys) /\ Len(q) = Len(path) - 1
      /\ \A n \in 1 .. Len(path) - 1 : q[n] = path[n + 1]
  OBVIOUS
<1> HIDE DEF k, q
<1> DEFINE b == Behind(k, q)
<1>2. b \in Seq(Keys) /\ Len(b) = Len(q) + 1 /\ b[1] = k /\ \A n \in 1 .. Len(q) : b[n + 1] = q[n]
  BY <1>1, BehindIs
<1> HIDE DEF b
<1>3. Len(b) = Len(path)
  BY <1>1, <1>2
<1>4. ASSUME NEW n \in 1 .. Len(path)  PROVE b[n] = path[n]
  <2>1. CASE n = 1
    BY <1>2, <2>1 DEF k
  <2>2. CASE n # 1
    <3>1. n - 1 \in 1 .. Len(path) - 1 /\ (n - 1) + 1 = n
      BY <1>1, <2>2
    <3>2. b[(n - 1) + 1] = q[n - 1] /\ q[n - 1] = path[(n - 1) + 1]
      BY <1>1, <1>2, <3>1
    <3> QED  BY <3>1, <3>2
  <2> QED  BY <2>1, <2>2
<1>5. b = path
  BY <1>2, <1>3, <1>4
<1> QED  BY <1>1, <1>5 DEF b, k, q

\* One key further down, the update is that of what the two maps hold there.
LEMMA DeepStep ==
  ASSUME NEW x, NEW u, NEW y, IsMap(x), IsMap(u), IsMap(y),
         NEW k \in Keys, NEW q \in Seq(Keys), UpdatedAtKey(x, u, y, k),
         /\ HasKey(x.entries, k) /\ IsMap(At(x.entries, k))
         /\ HasKey(u.entries, k) /\ IsMap(At(u.entries, k))
         => DeepAt(At(x.entries, k), At(u.entries, k), At(y.entries, k), q)
  PROVE  DeepAt(x, u, y, Behind(k, q))
<1> DEFINE b == Behind(k, q)
<1> DEFINE v == At(u.entries, k)
<1> DEFINE a == At(x.entries, k)
<1> DEFINE c == At(y.entries, k)
<1> DEFINE inU == HasKey(u.entries, k)
<1> DEFINE inX == HasKey(x.entries, k)
<1> DEFINE inY == HasKey(y.entries, k)
<1>1. /\ Has(u, b) <=> inU /\ Has(v, q)
      /\ Has(x, b) <=> inX /\ Has(a, q)
      /\ Has(y, b) <=> inY /\ Has(c, q)
      /\ ItemOf(u, b) = ItemOf(v, q) /\ ItemOf(x, b) = ItemOf(a, q) /\ ItemOf(y, b) = ItemOf(c, q)
  BY HasStep
<1>2. /\ ~inU => ~Covered(x, u, b)
      /\ inU /\ q # << >> /\ ~(inX /\ IsMap(a) /\ IsMap(v)) => Covered(x, u, b)
      /\ inU /\ inX /\ IsMap(a) /\ IsMap(v) => (Covered(x, u, b) <=> Covered(a, v, q))
  BY CoveredStep
<1>3. /\ inY <=> inX \/ inU
      /\ ~inU /\ inX => c = a
      /\ inU /\ ~(inX /\ IsMap(a) /\ IsMap(v)) => c = v
  BY DEF UpdatedAtKey
<1>4. inU /\ inX /\ IsMap(a) /\ IsMap(v) => DeepAt(a, v, c, q)
  OBVIOUS
<1>5. q = << >> => Has(v, q)
  BY HasNothing
<1> SUFFICES DeepAt(x, u, y, b)
  OBVIOUS
<1> HIDE DEF b, v, a, c, inU, inX, inY
<1> DEFINE found == Has(y, b) <=> (Has(u, b) \/ (Has(x, b) /\ ~Covered(x, u, b)))
<1> DEFINE both == IsMap(ItemOf(u, b)) /\ Has(x, b) /\ IsMap(ItemOf(x, b))
<1>6. CASE ~inU
  <2>1. ~Has(u, b) /\ ~Covered(x, u, b)
    BY <1>1, <1>2, <1>6
  <2>2. found
    BY <1>1, <1>3, <1>6, <2>1
  <2>3. Has(y, b) => ItemOf(y, b) = ItemOf(x, b)
    BY <1>1, <1>3, <1>6
  <2> QED  BY <2>1, <2>2, <2>3 DEF DeepAt
<1>7. CASE inU /\ inX /\ IsMap(a) /\ IsMap(v)
  <2>1. inY
    BY <1>3, <1>7
  <2>2. /\ Has(c, q) <=> (Has(v, q) \/ (Has(a, q) /\ ~Covered(a, v, q)))
        /\ Has(v, q) /\ IsMap(ItemOf(v, q)) /\ Has(a, q) /\ IsMap(ItemOf(a, q))
             => IsMap(ItemOf(c, q))
        /\ Has(v, q) /\ ~(IsMap(ItemOf(v, q)) /\ Has(a, q) /\ IsMap(ItemOf(a, q)))
             => ItemOf(c, q) = ItemOf(v, q)
        /\ ~Has(v, q) /\ Has(c, q) => ItemOf(c, q) = ItemOf(a, q)
    BY <1>4, <1>7 DEF DeepAt
  <2>3. found
    BY <1>1, <1>2, <1>7, <2>1, <2>2
  <2>4. Has(u, b) /\ both => IsMap(ItemOf(y, b))
    BY <1>1, <1>7, <2>2
  <2>5. Has(u, b) /\ ~both => ItemOf(y, b) = ItemOf(u, b)
    BY <1>1, <1>7, <2>2
  <2>6. ~Has(u, b) /\ Has(y, b) => ItemOf(y, b) = ItemOf(x, b)
    BY <1>1, <1>7, <2>2
  <2> QED  BY <2>3, <2>4, <2>5, <2>6 DEF DeepAt
<1>8. CASE inU /\ ~(inX /\ IsMap(a) /\ IsMap(v))
  <2>1. c = v /\ inY
    BY <1>3, <1>8
  <2>2. Has(y, b) <=> Has(u, b)
    BY <1>1, <1>8, <2>1
  <2>3. ItemOf(y, b) = ItemOf(u, b)
    BY <1>1, <2>1
  <2>4. Has(u, b) \/ Covered(x, u, b)
    BY <1>1, <1>2, <1>5, <1>8
  <2>5. found
    BY <2>2, <2>4
  <2>6. Has(u, b) /\ both => IsMap(ItemOf(y, b))
    BY <2>3
  <2> QED  BY <2>2, <2>3, <2>5, <2>6 DEF DeepAt
<1> QED  BY <1>6, <1>7, <1>8

\* The update of a map is a deep merge along every path of keys, however long.
LEMMA UpdatedIsDeep ==
  ASSUME NEW path \in Seq(Keys), NEW x \in Maps, NEW u \in Maps, WellFormed(x), WellFormed(u)
  PROVE  DeepAt(x, u, Updated[u][x], path)
<1> DEFINE deep(n) ==
      \A a, v \in Maps : WellFormed(a) /\ WellFormed(v) =>
        \A p \in Seq(Keys) : Len(p) = n => DeepAt(a, v, Updated[v][a], p)
<1> DEFINE T == {n \in Nat : deep(n)}
<1>1. 0 \in T
  <2> SUFFICES ASSUME NEW a \in Maps, NEW v \in Maps, WellFormed(a), WellFormed(v),
                      NEW p \in Seq(Keys), Len(p) = 0
               PROVE  DeepAt(a, v, Updated[v][a], p)
    OBVIOUS
  <2>1. p = << >>
    OBVIOUS
  <2> DEFINE c == Updated[v][a]
  <2>2. IsMap(a) /\ IsMap(v) /\ IsMap(c)
    BY UpdatedAt DEF Maps
  <2> HIDE DEF c
  <2>3. /\ Has(a, p) /\ Has(v, p) /\ Has(c, p)
        /\ ItemOf(a, p) = a /\ ItemOf(v, p) = v /\ ItemOf(c, p) = c
    BY <2>1, HasNothing
  <2>4. DeepAt(a, v, c, p)
    BY <2>2, <2>3 DEF DeepAt
  <2> QED  BY <2>4 DEF c
<1>2. ASSUME NEW n \in Nat, n \in T  PROVE n + 1 \in T
  <2> SUFFICES ASSUME NEW a \in Maps, NEW v \in Maps, WellFormed(a), WellFormed(v),
                      NEW p \in Seq(Keys), Len(p) = n + 1
               PROVE  DeepAt(a, v, Updated[v][a], p)
    OBVIOUS
  <2> DEFINE k == p[1]
  <2> DEFINE q == Tail(p)
  <2> DEFINE c == Updated[v][a]
  <2>1. k \in Keys /\ q \in Seq(Keys) /\ Len(q) = n /\ p = Behind(k, q)
    <3>1. Len(p) # 0
      OBVIOUS
    <3>2. p # << >>
      BY <3>1
    <3>3. k \in Keys /\ q \in Seq(Keys) /\ Len(q) = Len(p) - 1 /\ p = Behind(k, q)
      BY <3>2, PathSplits
    <3> HIDE DEF k, q
    <3> QED  BY <3>3
  <2> HIDE DEF k, q
  <2>2. c \in Maps /\ UpdatedAtKey(a, v, c, k)
    BY <2>1, UpdatedAt
  <2>3. ASSUME HasKey(a.entries, k), IsMap(At(a.entries, k)),
               HasKey(v.entries, k), IsMap(At(v.entries, k))
        PROVE  DeepAt(At(a.entries, k), At(v.entries, k), At(c.entries, k), q)
    <3> DEFINE d == At(a.entries, k)
    <3> DEFINE e == At(v.entries, k)
    <3>1. d \in Maps /\ WellFormed(d)
      BY <2>3, MapAtKey DEF Maps
    <3>2. e \in Maps /\ WellFormed(e)
      BY <2>3, MapAtKey DEF Maps
    <3>3. At(c.entries, k) = Updated[e][d]
      BY <2>2, <2>3 DEF UpdatedAtKey
    <3> HIDE DEF d, e, c
    <3>4. deep(n)
      BY <1>2
    <3>5. DeepAt(d, e, Updated[e][d], q)
      BY <2>1, <3>1, <3>2, <3>4
    <3> QED  BY <3>3, <3>5 DEF d, e
  <2>4. IsMap(a) /\ IsMap(v) /\ IsMap(c)
    BY <2>2 DEF Maps
  <2> HIDE DEF c
  <2>5. DeepAt(a, v, c, Behind(k, q))
    BY <2>1, <2>2, <2>3, <2>4, DeepStep
  <2> QED  BY <2>1, <2>5 DEF c
<1> HIDE DEF T
<1>3. Len(path) \in Nat
  OBVIOUS
<1>4. Len(path) \in T
  BY <1>1, <1>2, <1>3, Induction
<1> QED  BY <1>4 DEF T

\* Where the update and the map hold anything at the same path, the result has the
\* update's, or the merge of two maps; all else stays where and what it was.
THEOREM UpdatesAreDeep == Spec => UpdateIsDeep
<1>1. ASSUME TypeOK, NEW u \in Updates, IsMap(r), UpdateMap(u)
      PROVE  MergeOf(r, u, ItemOf(root', ref))
  <2> DEFINE here == << >>
  <2> DEFINE x == r
  <2> DEFINE y == Updated[u][AsMap(r)]
  <2>1. Leave(y, here)
    BY <1>1 DEF UpdateMap
  <2>2. u \in Maps /\ WellFormed(u)
    BY UpdatesAssumption
  <2>3. x \in Items /\ WellFormed(x) /\ IsOver(x, Items) /\ ItemOf(root', ref) = y
    <3> HIDE DEF here, y
    <3> QED  BY <1>1, <2>1, LeaveIs
  <2>4. x \in Maps
    BY <1>1, <2>3 DEF Maps
  <2>5. AsMap(x) = x
    BY <1>1, <2>3, KindsAre DEF AsMap
  <2>6. y = Updated[u][x]
    BY <2>5
  <2> HIDE DEF x, y, here
  <2>7. IsPrefix(KeysOf(x.entries), KeysOf(y.entries))
    BY <2>2, <2>3, <2>4, <2>6, UpdatedAt
  <2>8. ASSUME NEW path \in SeqOf(Keys, 3) \ {<< >>}  PROVE DeepAt(x, u, y, path)
    <3>1. path \in Seq(Keys)
      <4>1. PICK m \in 0 .. 3 : path \in [1 .. m -> Keys]
        BY <2>8 DEF SeqOf
      <4> QED  BY <4>1
    <3> QED  BY <2>2, <2>3, <2>4, <2>6, <3>1, UpdatedIsDeep
  <2>9. MergeOf(x, u, y)
    BY <2>7, <2>8 DEF MergeOf, DeepAt, Covered, Replaced
  <2> QED  BY <2>3, <2>9 DEF x
<1>2. TypeOK /\ [Next]_vars =>
        [\A u \in Updates : IsMap(r) /\ UpdateMap(u) => MergeOf(r, u, ItemOf(root', ref))]_vars
  BY <1>1
<1> QED  BY <1>2, TypeCorrect, PTL DEF Spec, UpdateIsDeep

-----------------------------------------------------------------------------
\* What JSON gives back.  The facts about an item are the one about itself and, moved
\* one step down, those about what is in it.
What(x) == IF IsAtom(x) THEN << "atom", TextOf(TextToJson(x.atom)) >> ELSE << x.kind >>
StepTo(x, i) == IF IsMap(x) THEN x.entries[i].key ELSE i
Moved(s, f) == << << s >> \o f[1], f[2] >>
FactOf(x) == << << >>, What(x) >>

\* Facts is what its recursive definition says, by existence level by level.
LEMMA FactsAre ==
  \A x \in Items : Facts[x] =
    {FactOf(x)} \cup UNION {{Moved(StepTo(x, i), f) : f \in Facts[Children(x)[i]]} :
                            i \in DOMAIN Children(x)}
<1> DEFINE below(h, x, i) == {Moved(StepTo(x, i), f) : f \in h[Children(x)[i]]}
<1> DEFINE of(h, x) == {FactOf(x)} \cup UNION {below(h, x, i) : i \in DOMAIN Children(x)}
<1>1. Facts = CHOOSE f : f = [x \in Items |-> of(f, x)]
  BY Zenon DEF Facts, Moved, StepTo, FactOf, What
<1>2. ASSUME NEW f, NEW g, NEW x \in Items, \A y \in Range(Children(x)) : f[y] = g[y]
      PROVE  of(f, x) = of(g, x)
  <2>1. \A i \in DOMAIN Children(x) : f[Children(x)[i]] = g[Children(x)[i]]
    BY <1>2 DEF Range
  <2>2. \A i \in DOMAIN Children(x) : below(f, x, i) = below(g, x, i)
    BY <2>1
  <2> HIDE DEF below
  <2> QED  BY <2>2
<1> HIDE DEF of
<1> DEFINE T == {n \in Nat : n <= MaxLevels => \E f : f = [x \in ItemsOf[n] |-> of(f, x)]}
<1>3. 0 \in T
  <2> DEFINE f == [x \in {} |-> {}]
  <2>1. f = [x \in ItemsOf[0] |-> of(f, x)]
    BY ItemsOfIs
  <2> HIDE DEF f
  <2> QED  BY <2>1
<1>4. ASSUME NEW n \in Nat, n \in T  PROVE n + 1 \in T
  <2> SUFFICES ASSUME n + 1 <= MaxLevels
               PROVE  \E f : f = [x \in ItemsOf[n + 1] |-> of(f, x)]
    OBVIOUS
  <2>1. n <= MaxLevels
    BY NextLevel
  <2>2. PICK f : f = [x \in ItemsOf[n] |-> of(f, x)]
    BY <1>4, <2>1
  <2> DEFINE g == [x \in ItemsOf[n + 1] |-> of(f, x)]
  <2>3. \A x \in ItemsOf[n + 1] :
          x \in Items /\ \A y \in Range(Children(x)) : y \in ItemsOf[n] /\ y \in ItemsOf[n + 1]
    BY NextLevel
  <2>4. \A y \in ItemsOf[n] : f[y] = of(f, y)
    BY <2>2
  <2>5. \A y \in ItemsOf[n + 1] : g[y] = of(f, y)
    OBVIOUS
  <2> HIDE DEF g
  <2>6. ASSUME NEW x \in ItemsOf[n + 1]  PROVE of(f, x) = of(g, x)
    <3>1. \A y \in Range(Children(x)) : f[y] = g[y]
      BY <2>3, <2>4, <2>5
    <3> QED  BY <1>2, <2>3, <3>1
  <2>7. g = [x \in ItemsOf[n + 1] |-> of(g, x)]
    BY <2>6 DEF g
  <2> QED  BY <2>7
<1> HIDE DEF T
<1>5. MaxLevels \in T
  BY <1>3, <1>4, Induction, MaxLevelsAssumption
<1>6. \E f : f = [x \in Items |-> of(f, x)]
  BY <1>5 DEF T, Items
<1>7. Facts = [x \in Items |-> of(Facts, x)]
  BY <1>1, <1>6, Zenon
<1>8. ASSUME NEW x \in Items  PROVE Facts[x] = of(Facts, x)
  BY <1>7
<1> QED  BY <1>8 DEF of

\* A fact of an item is its own or one of a child, with a step in front.
LEMMA InFacts ==
  ASSUME NEW x \in Items, NEW f
  PROVE  f \in Facts[x] <=>
           \/ f = FactOf(x)
           \/ \E i \in DOMAIN Children(x) :
                \E g \in Facts[Children(x)[i]] : f = Moved(StepTo(x, i), g)
<1> DEFINE below(i) == {Moved(StepTo(x, i), g) : g \in Facts[Children(x)[i]]}
<1>1. Facts[x] = {FactOf(x)} \cup UNION {below(i) : i \in DOMAIN Children(x)}
  BY FactsAre
<1>2. \A i : f \in below(i) <=> \E g \in Facts[Children(x)[i]] : f = Moved(StepTo(x, i), g)
  OBVIOUS
<1> HIDE DEF below
<1>3. f \in Facts[x] <=> f = FactOf(x) \/ \E i \in DOMAIN Children(x) : f \in below(i)
  BY <1>1
<1> QED  BY <1>2, <1>3

\* The steps of a path.
StepsDown == Keys \cup Nat

IsFact(f) == f = << f[1], f[2] >> /\ f[1] \in Seq(StepsDown)

\* A fact with a step in front.
LEMMA MovedIs ==
  ASSUME NEW s \in StepsDown, NEW g, IsFact(g)
  PROVE  /\ IsFact(Moved(s, g)) /\ Moved(s, g)[1] # << >>
         /\ Moved(s, g)[1] = << s >> \o g[1] /\ Moved(s, g)[2] = g[2]
         /\ g[1] = << >> => Front(Moved(s, g)[1]) = << >>
         /\ g[1] # << >> => /\ Front(Moved(s, g)[1]) = << s >> \o Front(g[1])
                            /\ Front(g[1]) \in Seq(StepsDown)
<1> DEFINE p == << s >>
<1> DEFINE q == g[1]
<1> DEFINE c == p \o q
<1>1. p \in Seq(StepsDown) /\ Len(p) = 1 /\ p[1] = s
  OBVIOUS
<1>2. q \in Seq(StepsDown) /\ Len(q) \in Nat
  BY DEF IsFact
<1>3. Moved(s, g) = << c, g[2] >>
  BY DEF Moved
<1> HIDE DEF p, q
<1>4. /\ c \in Seq(StepsDown) /\ Len(c) = 1 + Len(q)
      /\ \A i \in 1 .. 1 + Len(q) : c[i] = IF i <= 1 THEN p[i] ELSE q[i - 1]
  <2>1. /\ p \o q \in Seq(StepsDown) /\ Len(p \o q) = Len(p) + Len(q)
        /\ \A i \in 1 .. Len(p) + Len(q) :
             (p \o q)[i] = IF i <= Len(p) THEN p[i] ELSE q[i - Len(p)]
    BY <1>1, <1>2, ConcatProperties
  <2> QED  BY <1>1, <2>1
<1> HIDE DEF c
<1>5. c # << >>
  BY <1>2, <1>4
<1>6. Moved(s, g)[1] = c /\ Moved(s, g)[2] = g[2] /\ IsFact(Moved(s, g))
  BY <1>3, <1>4 DEF IsFact
<1> DEFINE a == Front(c)
<1>7. a \in Seq(StepsDown) /\ Len(a) = Len(q) /\ \A i \in 1 .. Len(q) : a[i] = c[i]
  BY <1>2, <1>4 DEF Front
<1> HIDE DEF a
<1>8. ASSUME q = << >>  PROVE a = << >>
  BY <1>7, <1>8
<1>9. ASSUME q # << >>  PROVE a = p \o Front(q) /\ Front(q) \in Seq(StepsDown)
  <2> DEFINE t == Front(q)
  <2>1. Len(q) # 0
    BY <1>2, <1>9
  <2>2. t \in Seq(StepsDown) /\ Len(t) = Len(q) - 1 /\ \A i \in 1 .. Len(q) - 1 : t[i] = q[i]
    <3> DEFINE n == Len(q) - 1
    <3>1. n \in Nat /\ n <= Len(q) /\ t = SubSeq(q, 1, n)
      BY <1>2, <2>1 DEF Front
    <3> HIDE DEF n, t
    <3>2. t \in Seq(StepsDown) /\ Len(t) = n /\ \A i \in 1 .. n : t[i] = q[i]
      BY <1>2, <3>1
    <3> QED  BY <3>2 DEF n
  <2> HIDE DEF t
  <2> DEFINE b == p \o t
  <2>3. /\ b \in Seq(StepsDown) /\ Len(b) = 1 + Len(t)
        /\ \A i \in 1 .. 1 + Len(t) : b[i] = IF i <= 1 THEN p[i] ELSE t[i - 1]
    <3>1. /\ p \o t \in Seq(StepsDown) /\ Len(p \o t) = Len(p) + Len(t)
          /\ \A i \in 1 .. Len(p) + Len(t) :
               (p \o t)[i] = IF i <= Len(p) THEN p[i] ELSE t[i - Len(p)]
      BY <1>1, <2>2, ConcatProperties
    <3> QED  BY <1>1, <3>1
  <2> HIDE DEF b
  <2>4. Len(b) = Len(a)
    BY <1>2, <1>7, <2>2, <2>3
  <2>5. ASSUME NEW i \in 1 .. Len(q)  PROVE a[i] = b[i]
    <3>1. CASE i = 1
      BY <1>2, <1>4, <1>7, <2>2, <2>3, <3>1
    <3>2. CASE i # 1
      <4>1. i - 1 \in 1 .. Len(q) - 1 /\ ~(i <= 1) /\ i \in 1 .. 1 + Len(q) /\ i \in 1 .. 1 + Len(t)
        BY <1>2, <2>2, <3>2
      <4>2. c[i] = q[i - 1] /\ b[i] = t[i - 1] /\ t[i - 1] = q[i - 1]
        BY <1>4, <2>2, <2>3, <4>1
      <4> QED  BY <1>7, <4>2
    <3> QED  BY <3>1, <3>2
  <2>6. a = b
    BY <1>7, <2>3, <2>4, <2>5
  <2> QED  BY <2>2, <2>6 DEF b, t
<1> QED  BY <1>5, <1>6, <1>8, <1>9 DEF a, c, p, q

\* The steps to the children of an item.
LEMMA StepsAre ==
  ASSUME NEW x \in Items, NEW i \in DOMAIN Children(x)
  PROVE  /\ StepTo(x, i) \in StepsDown /\ Children(x)[i] \in Items
         /\ WellFormed(x) => Child(x, StepTo(x, i)) = Children(x)[i]
<1>1. IsOver(x, Items)
  BY ItemIs
<1>2. Children(x)[i] \in Items
  BY <1>1, ChildrenAre DEF Range
<1>3. CASE IsMap(x)
  <2> DEFINE s == x.entries
  <2>1. i \in DOMAIN s /\ Children(x)[i] = s[i].val
    BY <1>1, <1>3, ChildrenAre
  <2>2. s[i].key \in Keys /\ (WellFormed(x) => IsDict(s))
    BY <1>3, <2>1, EntriesAre
  <2> HIDE DEF s
  <2>3. WellFormed(x) => At(s, s[i].key) = s[i].val
    BY <2>1, <2>2, AtIs
  <2> QED  BY <1>2, <1>3, <2>1, <2>2, <2>3 DEF StepTo, Child, StepsDown, s
<1>4. CASE ~IsMap(x)
  <2>1. Children(x) \in Seq(Items)
    BY <1>1, ChildrenAre
  <2>2. i \in Nat
    BY <2>1, LenProperties
  <2>3. Children(x) = x.items
    <3>1. Children(x) # << >>
      BY <2>1
    <3> QED  BY <1>1, <1>4, <3>1, KindsAre, ChildrenAre
  <2> QED  BY <1>2, <1>4, <2>2, <2>3 DEF StepTo, Child, StepsDown
<1> QED  BY <1>3, <1>4

\* Facts have a path and a value; the one with the empty path is the item's own.
LEMMA FactsHaveShape ==
  ASSUME NEW x \in Items, NEW f \in Facts[x]
  PROVE  IsFact(f) /\ (f[1] = << >> => f = FactOf(x))
<1> DEFINE S == {y \in Items : \A g \in Facts[y] : IsFact(g)}
<1>1. ASSUME NEW y \in Items, Range(Children(y)) \subseteq S, NEW g \in Facts[y]
      PROVE  IsFact(g)
  <2>1. CASE g = FactOf(y)
    BY <2>1 DEF FactOf, IsFact
  <2>2. ASSUME NEW i \in DOMAIN Children(y), NEW h \in Facts[Children(y)[i]],
               g = Moved(StepTo(y, i), h)
        PROVE  IsFact(g)
    <3>1. IsFact(h)
      BY <1>1 DEF Range
    <3>2. StepTo(y, i) \in StepsDown
      BY StepsAre
    <3> QED  BY <2>2, <3>1, <3>2, MovedIs
  <2> QED  BY <2>1, <2>2, InFacts
<1>2. \A y \in Items : Range(Children(y)) \subseteq S => y \in S
  BY <1>1
<1> HIDE DEF S
<1>3. Items \subseteq S
  BY <1>2, ItemInduction
<1>4. ASSUME f[1] = << >>  PROVE f = FactOf(x)
  <2>1. ASSUME NEW i \in DOMAIN Children(x), NEW h \in Facts[Children(x)[i]],
               f = Moved(StepTo(x, i), h)
        PROVE  FALSE
    <3>1. Children(x)[i] \in Items /\ StepTo(x, i) \in StepsDown
      BY StepsAre
    <3>2. IsFact(h)
      BY <1>3, <3>1 DEF S
    <3> QED  BY <1>4, <2>1, <3>1, <3>2, MovedIs
  <2> QED  BY <2>1, InFacts
<1> QED  BY <1>3, <1>4 DEF S

\* An empty map or vector; a fact about one; and one about one that no key leads to.
IsBare(x) == (IsMap(x) \/ IsVector(x)) /\ Children(x) = << >>
Bare(x, f) == f[2] \in {<< "map" >>, << "vector" >>} /\ Children(ItemOf(x, f[1])) = << >>
Unkeyed(x, f) == f[1] = << >> \/ IsVector(ItemOf(x, Front(f[1])))

\* The fact that JSON has of an empty container, and the facts that it gives back.
Emptied(f) == << f[1], << "atom", Empty >> >>
Kept(x) == {f \in Facts[x] : ~Bare(x, f)} \cup
           {Emptied(f) : f \in {g \in Facts[x] : Bare(x, g) /\ Unkeyed(x, g)}}

\* Only maps and vectors say that they are.
LEMMA WhatIs ==
  ASSUME NEW x \in Items
  PROVE  What(x) \in {<< "map" >>, << "vector" >>} <=> IsMap(x) \/ IsVector(x)
<1>1. IsOver(x, Items)
  BY ItemIs
<1>2. ASSUME NEW t  PROVE << "atom", t >> \notin {<< "map" >>, << "vector" >>}
  <2>1. << "atom", t >>[1] = "atom" /\ << "map" >>[1] = "map" /\ << "vector" >>[1] = "vector"
    OBVIOUS
  <2> QED  BY <2>1
<1>3. /\ << "none" >> \notin {<< "map" >>, << "vector" >>}
      /\ << "map" >> \in {<< "map" >>, << "vector" >>}
      /\ << "vector" >> \in {<< "map" >>, << "vector" >>}
  <2>1. << "none" >>[1] = "none" /\ << "map" >>[1] = "map" /\ << "vector" >>[1] = "vector"
    OBVIOUS
  <2> QED  BY <2>1
<1>4. CASE IsAtom(x)
  BY <1>1, <1>2, <1>4, KindsAre DEF What
<1>5. CASE ~IsAtom(x)
  <2>1. What(x) = << x.kind >>
    BY <1>5 DEF What
  <2>2. x.kind \in {"none", "map", "vector"}
    BY <1>1, <1>5, KindsAre DEF IsNone, IsMap, IsVector
  <2> QED  BY <1>3, <2>1, <2>2 DEF IsMap, IsVector
<1> QED  BY <1>4, <1>5

\* The fact about an item itself.
LEMMA OwnFact ==
  ASSUME NEW x \in Items
  PROVE  /\ FactOf(x) \in Facts[x] /\ FactOf(x)[1] = << >> /\ FactOf(x)[2] = What(x)
         /\ Bare(x, FactOf(x)) <=> IsBare(x)
         /\ Unkeyed(x, FactOf(x))
<1>1. FactOf(x) \in Facts[x]
  BY InFacts
<1>2. FactOf(x)[1] = << >> /\ FactOf(x)[2] = What(x)
  BY DEF FactOf
<1>3. ItemOf(x, << >>) = x
  BY NoStep
<1> QED  BY <1>1, <1>2, <1>3, WhatIs DEF Bare, Unkeyed, IsBare

\* A fact that is moved down from a child says of the item what it says of the child.
LEMMA MovedSays ==
  ASSUME NEW x \in Items, WellFormed(x), NEW i \in DOMAIN Children(x),
         NEW g \in Facts[Children(x)[i]]
  PROVE  LET f == Moved(StepTo(x, i), g)
             c == Children(x)[i]
         IN  /\ f \in Facts[x]
             /\ Bare(x, f) <=> Bare(c, g)
             /\ Unkeyed(x, f) <=> IF g[1] = << >> THEN IsVector(x) ELSE Unkeyed(c, g)
             /\ Emptied(f) = Moved(StepTo(x, i), Emptied(g))
<1> DEFINE c == Children(x)[i]
<1> DEFINE s == StepTo(x, i)
<1> DEFINE f == Moved(s, g)
<1>1. s \in StepsDown /\ c \in Items /\ Child(x, s) = c
  BY StepsAre
<1>2. IsFact(g)
  BY <1>1, FactsHaveShape
<1>3. f \in Facts[x]
  BY InFacts
<1> HIDE DEF c, s
<1> DEFINE p == << s >>
<1>4. /\ f[1] # << >> /\ f[1] = p \o g[1] /\ f[2] = g[2]
      /\ g[1] = << >> => Front(f[1]) = << >>
      /\ g[1] # << >> => Front(f[1]) = p \o Front(g[1]) /\ Front(g[1]) \in Seq(StepsDown)
  BY <1>1, <1>2, MovedIs
<1>5. p \in Seq(StepsDown) /\ ItemOf(x, p) = c
  BY <1>1, OneStep
<1> HIDE DEF p, f
<1>6. ASSUME NEW q \in Seq(StepsDown)  PROVE ItemOf(x, p \o q) = ItemOf(c, q)
  <2>1. Joined(x, p, q)
    BY <1>5, TwoTrails
  <2> QED  BY <1>5, <2>1 DEF Joined
<1>7. ItemOf(x, f[1]) = ItemOf(c, g[1])
  BY <1>2, <1>4, <1>6 DEF IsFact
<1>8. Bare(x, f) <=> Bare(c, g)
  BY <1>4, <1>7 DEF Bare
<1>9. Unkeyed(x, f) <=> IF g[1] = << >> THEN IsVector(x) ELSE Unkeyed(c, g)
  <2>1. CASE g[1] = << >>
    BY <1>4, <2>1, NoStep DEF Unkeyed
  <2>2. CASE g[1] # << >>
    BY <1>4, <1>6, <2>2 DEF Unkeyed
  <2> QED  BY <2>1, <2>2
<1>10. Emptied(f) = Moved(s, Emptied(g))
  BY <1>4 DEF Emptied, Moved, p
<1> QED  BY <1>3, <1>8, <1>9, <1>10 DEF c, s, f

\* A fact is kept as it is, or, of an empty container in a vector, as an empty text.
LEMMA InKept ==
  ASSUME NEW x, NEW h
  PROVE  h \in Kept(x) <=> \/ h \in Facts[x] /\ ~Bare(x, h)
                           \/ \E f \in Facts[x] : Bare(x, f) /\ Unkeyed(x, f) /\ h = Emptied(f)
BY DEF Kept

\* What is kept of an item with something in it: the fact about itself and what is kept
\* of what is in it, but for the empty containers under its keys.
LEMMA KeptIs ==
  ASSUME NEW x \in Items, WellFormed(x), ~IsBare(x), NEW h
  PROVE  h \in Kept(x) <=>
           \/ h = FactOf(x)
           \/ \E i \in DOMAIN Children(x) :
                /\ ~(IsMap(x) /\ IsBare(Children(x)[i]))
                /\ \E g \in Kept(Children(x)[i]) : h = Moved(StepTo(x, i), g)
<1> DEFINE c(i) == Children(x)[i]
<1> DEFINE in(f, i, g) == i \in DOMAIN Children(x) /\ g \in Facts[c(i)] /\ f = Moved(StepTo(x, i), g)
<1> DEFINE kept(i) == /\ i \in DOMAIN Children(x) /\ ~(IsMap(x) /\ IsBare(c(i)))
                      /\ \E g \in Kept(c(i)) : h = Moved(StepTo(x, i), g)
<1>1. \A f : f \in Facts[x] <=> f = FactOf(x) \/ \E i, g : in(f, i, g)
  BY InFacts
<1>2. ASSUME NEW f, NEW i, NEW g, in(f, i, g)
      PROVE  /\ f \in Facts[x] /\ c(i) \in Items /\ i \in DOMAIN Children(x) /\ g \in Facts[c(i)]
             /\ Bare(x, f) <=> Bare(c(i), g)
             /\ Unkeyed(x, f) <=> IF g[1] = << >> THEN IsVector(x) ELSE Unkeyed(c(i), g)
             /\ Emptied(f) = Moved(StepTo(x, i), Emptied(g))
             /\ g[1] = << >> => g = FactOf(c(i))
  <2>1. c(i) \in Items
    BY <1>2, StepsAre
  <2>2. g[1] = << >> => g = FactOf(c(i))
    BY <1>2, <2>1, FactsHaveShape
  <2> QED  BY <1>2, <2>1, <2>2, MovedSays
<1>3. FactOf(x) \in Facts[x] /\ ~Bare(x, FactOf(x))
  BY OwnFact
<1>4. \A i \in DOMAIN Children(x) : c(i) \in Items /\ (IsMap(x) \/ IsVector(x))
  <2>1. IsOver(x, Items)
    BY ItemIs
  <2>2. \A i \in DOMAIN Children(x) : Children(x) # << >>
    OBVIOUS
  <2> QED  BY <2>1, <2>2, KindsAre, ChildrenAre, StepsAre
<1>5. ASSUME NEW i \in DOMAIN Children(x), NEW g \in Facts[c(i)], IsBare(c(i))
      PROVE  g[1] = << >> /\ Bare(c(i), g)
  <2>1. c(i) \in Items /\ Children(c(i)) = << >>
    BY <1>4, <1>5 DEF IsBare
  <2> HIDE DEF c
  <2>2. g = FactOf(c(i))
    BY <2>1, InFacts
  <2> QED  BY <1>5, <2>1, <2>2, OwnFact
<1>6. ASSUME NEW i \in DOMAIN Children(x), NEW g \in Facts[c(i)], g[1] = << >>, Bare(c(i), g)
      PROVE  IsBare(c(i))
  <2>1. c(i) \in Items
    BY <1>4
  <2> HIDE DEF c
  <2>2. g = FactOf(c(i))
    BY <1>6, <2>1, FactsHaveShape
  <2> QED  BY <1>6, <2>1, <2>2, OwnFact
<1>7. \A i \in DOMAIN Children(x) :
        \A g : g \in Kept(c(i)) <=>
          \/ g \in Facts[c(i)] /\ ~Bare(c(i), g)
          \/ \E f \in Facts[c(i)] : Bare(c(i), f) /\ Unkeyed(c(i), f) /\ g = Emptied(f)
  BY InKept
<1> SUFFICES h \in Kept(x) <=> h = FactOf(x) \/ \E i : kept(i)
  OBVIOUS
<1> HIDE DEF c
<1>8. ASSUME h \in Facts[x], ~Bare(x, h)  PROVE h = FactOf(x) \/ \E i : kept(i)
  <2> SUFFICES ASSUME NEW i, NEW g, in(h, i, g)  PROVE kept(i)
    BY <1>1, <1>8
  <2>1. ~Bare(c(i), g)
    BY <1>2, <1>8
  <2>2. g \in Kept(c(i))
    BY <1>7, <2>1
  <2>3. ~IsBare(c(i))
    BY <1>5, <2>1
  <2> QED  BY <2>2, <2>3
<1>9. ASSUME NEW f \in Facts[x], Bare(x, f), Unkeyed(x, f), h = Emptied(f)
      PROVE  \E i : kept(i)
  <2>1. PICK i, g : in(f, i, g)
    BY <1>1, <1>3, <1>9
  <2>2. Bare(c(i), g) /\ h = Moved(StepTo(x, i), Emptied(g))
    BY <1>2, <1>9, <2>1
  <2>3. Unkeyed(c(i), g)
    BY <1>2, <1>9, <2>1 DEF Unkeyed
  <2>4. Emptied(g) \in Kept(c(i))
    BY <1>7, <2>1, <2>2, <2>3
  <2>5. ~(IsMap(x) /\ IsBare(c(i)))
    <3> SUFFICES ASSUME IsMap(x), IsBare(c(i))  PROVE FALSE
      OBVIOUS
    <3>1. g[1] = << >>
      BY <1>5, <2>1
    <3>2. IsVector(x)
      BY <1>2, <1>9, <2>1, <3>1
    <3> QED  BY <3>2 DEF IsMap, IsVector
  <2>6. kept(i)
    BY <2>1, <2>2, <2>4, <2>5
  <2> QED  BY <2>6
<1>10. ASSUME NEW i, kept(i)  PROVE h \in Kept(x)
  <2>1. PICK g \in Kept(c(i)) : h = Moved(StepTo(x, i), g)
    BY <1>10
  <2>2. i \in DOMAIN Children(x) /\ ~(IsMap(x) /\ IsBare(c(i)))
    BY <1>10
  <2>3. CASE g \in Facts[c(i)] /\ ~Bare(c(i), g)
    <3>1. in(h, i, g)
      BY <2>1, <2>2, <2>3
    <3>2. h \in Facts[x] /\ ~Bare(x, h)
      BY <1>2, <2>3, <3>1
    <3> QED  BY <3>2, InKept
  <2>4. ASSUME NEW d \in Facts[c(i)], Bare(c(i), d), Unkeyed(c(i), d), g = Emptied(d)
        PROVE  h \in Kept(x)
    <3> DEFINE f == Moved(StepTo(x, i), d)
    <3>1. in(f, i, d)
      BY <2>2, <2>4
    <3>2. f \in Facts[x] /\ Bare(x, f) /\ h = Emptied(f)
      BY <1>2, <2>1, <2>4, <3>1
    <3>3. d[1] = << >> => IsVector(x)
      BY <1>4, <1>6, <2>2, <2>4
    <3>4. Unkeyed(x, f)
      BY <1>2, <2>4, <3>1, <3>3
    <3> HIDE DEF f
    <3> QED  BY <3>2, <3>4, InKept
  <2> QED  BY <1>7, <2>1, <2>2, <2>3, <2>4
<1>11. FactOf(x) \in Kept(x)
  BY <1>3, InKept
<1>12. h \in Kept(x) => h = FactOf(x) \/ \E i : kept(i)
  BY <1>8, <1>9, InKept
<1> HIDE DEF kept
<1> QED  BY <1>10, <1>11, <1>12

\* Of entries with different keys, all but the nulls are emplaced.
LEMMA EmplacedHas ==
  ASSUME NEW E, NEW s, s \in Seq(E), \A i, j \in DOMAIN s : s[i].key = s[j].key => i = j
  PROVE  \A i \in DOMAIN s :
           IsNull(s[i].val) \/ \E j \in DOMAIN Emplaced(s) : Emplaced(s)[j] = s[i]
<1>1. Len(s) \in Nat /\ DOMAIN s = 1 .. Len(s)
  OBVIOUS
<1>2. PICK f : KeptSoFar(f, E, s)
  BY EmplacedUnfolds
<1> DEFINE all(n, x) == \A i \in 1 .. n : IsNull(s[i].val) \/ \E j \in DOMAIN x : x[j] = s[i]
<1> DEFINE some(n, x) == \A j \in DOMAIN x : \E i \in 1 .. n : x[j] = s[i]
<1> DEFINE T == {n \in Nat : n <= Len(s) => all(n, f[n]) /\ some(n, f[n])}
<1>3. 0 \in T
  BY <1>2 DEF KeptSoFar
<1>4. ASSUME NEW n \in Nat, n \in T  PROVE n + 1 \in T
  <2> SUFFICES ASSUME n + 1 <= Len(s)  PROVE all(n + 1, f[n + 1]) /\ some(n + 1, f[n + 1])
    OBVIOUS
  <2> DEFINE x == f[n]
  <2> DEFINE y == f[n + 1]
  <2>1. n \in 0 .. Len(s) /\ n + 1 \in 1 .. Len(s) /\ (n + 1) - 1 = n
    BY <1>1
  <2>2. x \in Seq(E) /\ all(n, x) /\ some(n, x)
    <3>1. x \in Seq(E)
      BY <1>2, <2>1 DEF KeptSoFar
    <3> QED  BY <1>4, <2>1, <3>1
  <2>3. y = IF IsNull(s[n + 1].val) \/ HasKey(x, s[n + 1].key) THEN x ELSE Append(x, s[n + 1])
    BY <1>2, <2>1 DEF KeptSoFar
  <2> HIDE DEF x, y
  <2>4. ~HasKey(x, s[n + 1].key)
    <3>1. \A i \in 1 .. n : s[i].key # s[n + 1].key
      BY <1>1, <2>1
    <3> QED  BY <2>2, <3>1 DEF HasKey
  <2>5. \A i \in 1 .. n + 1 : i \in 1 .. n \/ i = n + 1
    OBVIOUS
  <2>6. \A i \in 1 .. n : i \in 1 .. n + 1
    OBVIOUS
  <2>7. n + 1 \in 1 .. n + 1
    OBVIOUS
  <2>8. CASE IsNull(s[n + 1].val)
    <3>1. y = x
      BY <2>3, <2>8
    <3>2. all(n + 1, x) /\ some(n + 1, x)
      BY <2>2, <2>5, <2>6, <2>8
    <3> QED  BY <3>1, <3>2 DEF y
  <2>9. CASE ~IsNull(s[n + 1].val)
    <3>1. s[n + 1] \in E
      BY <1>1, <2>1
    <3>2. y = Append(x, s[n + 1])
      BY <2>3, <2>4, <2>9
    <3>3. /\ DOMAIN y = 1 .. Len(x) + 1 /\ DOMAIN x = 1 .. Len(x) /\ Len(x) \in Nat
          /\ y[Len(x) + 1] = s[n + 1] /\ \A j \in 1 .. Len(x) : y[j] = x[j]
      BY <2>2, <3>1, <3>2
    <3> DEFINE L == Len(x)
    <3>4. /\ L + 1 \in DOMAIN y /\ y[L + 1] = s[n + 1]
          /\ \A j \in DOMAIN x : j \in DOMAIN y /\ y[j] = x[j]
          /\ \A j \in DOMAIN y : j \in DOMAIN x \/ j = L + 1
      BY <3>3
    <3> HIDE DEF L
    <3>5. all(n + 1, y)
      BY <2>2, <2>5, <3>4
    <3>6. some(n + 1, y)
      BY <2>2, <2>6, <2>7, <3>4
    <3> QED  BY <3>5, <3>6 DEF y
  <2> QED  BY <2>8, <2>9
<1> HIDE DEF T
<1>5. Len(s) \in T
  BY <1>1, <1>3, <1>4, Induction
<1> QED  BY <1>1, <1>2, <1>5 DEF T, KeptSoFar

\* The empty containers are what JSON has nothing of.
LEMMA BareIsNull ==
  ASSUME NEW x \in Items, ~IsNone(x)
  PROVE  /\ IsBare(x) => ToJson[x] = Null
         /\ IsNull(ToJson[x]) => IsBare(x)
<1>1. IsOver(x, Items)
  BY ItemIs
<1>2. CASE IsAtom(x)
  <2>1. ToJson[x] = TextToJson(x.atom)
    BY <1>1, <1>2, KindsAre, ToJsonIs
  <2>2. ~IsNull(TextToJson(x.atom))
    BY DEF TextToJson, Boolean, String, IsNull
  <2> QED  BY <1>1, <1>2, <2>1, <2>2, KindsAre DEF IsBare
<1>3. CASE IsVector(x)
  <2>1. Children(x) = x.items /\ ~IsMap(x) /\ ~IsAtom(x)
    BY <1>1, <1>3, KindsAre, ChildrenAre
  <2>2. CASE x.items = << >>
    <3>1. ToJson[x] = Null
      BY <2>1, <2>2, ToJsonIs
    <3> QED  BY <1>3, <2>1, <2>2, <3>1 DEF IsBare
  <2>3. CASE x.items # << >>
    <3> DEFINE t == [i \in DOMAIN x.items |-> ToJson[x.items[i]]]
    <3>1. ToJson[x] = Array(t)
      BY <1>3, <2>1, <2>3, ToJsonIs
    <3> HIDE DEF t
    <3>2. ToJson[x].type = "array"
      BY <3>1 DEF Array
    <3> QED  BY <2>1, <2>3, <3>2 DEF IsBare, IsNull
  <2> QED  BY <2>2, <2>3
<1>4. CASE IsMap(x)
  <2>1. ~IsVector(x) /\ ~IsAtom(x) /\ DOMAIN Children(x) = DOMAIN x.entries
    BY <1>1, <1>4, KindsAre, ChildrenAre
  <2>2. x.entries \in Seq([key : Keys, val : Items]) /\ Children(x) \in Seq(Items)
    BY <1>1, <1>4, KindsAre, ChildrenAre
  <2>3. Children(x) = << >> <=> x.entries = << >>
    BY <2>1, <2>2
  <2>4. CASE x.entries = << >>
    <3>1. ToJson[x] = Null
      BY <2>1, <2>4, ToJsonIs
    <3> QED  BY <1>4, <2>3, <2>4, <3>1 DEF IsBare
  <2>5. CASE x.entries # << >>
    <3> DEFINE t == [k \in Keys |-> IF HasKey(x.entries, k) THEN ToJson[At(x.entries, k)] ELSE Null]
    <3>1. ToJson[x] = Object(t)
      BY <1>4, <2>1, <2>5, ToJsonIs
    <3> HIDE DEF t
    <3>2. ToJson[x].type = "object"
      BY <3>1 DEF Object
    <3> QED  BY <2>3, <2>5, <3>2 DEF IsBare, IsNull
  <2> QED  BY <2>4, <2>5
<1> QED  BY <1>1, <1>2, <1>3, <1>4, KindsAre

Back(x) == FromJson[ToJson[x]]

\* z is x, but that what is in x has been to JSON and back, and that what was empty
\* under a key is gone.
BackBelow(x, z) ==
  /\ z \in Items /\ FactOf(z) = FactOf(x)
  /\ \A i \in DOMAIN Children(x) :
       ~(IsMap(x) /\ IsBare(Children(x)[i])) =>
         \E j \in DOMAIN Children(z) :
           StepTo(z, j) = StepTo(x, i) /\ Children(z)[j] = Back(Children(x)[i])
  /\ \A j \in DOMAIN Children(z) :
       \E i \in DOMAIN Children(x) :
         /\ ~(IsMap(x) /\ IsBare(Children(x)[i]))
         /\ StepTo(z, j) = StepTo(x, i) /\ Children(z)[j] = Back(Children(x)[i])

\* What comes back from JSON is an item.
LEMMA BackIsItem ==
  ASSUME NEW x \in Items
  PROVE  ToJson[x] \in Json /\ Back(x) \in Items
<1>1. MaxLevels \in Nat /\ MaxLevels <= MaxLevels
  BY MaxLevelsAssumption
<1>2. ToJson[x] \in Json
  BY <1>1, ToJsonLevel DEF Items, Json
<1> QED  BY <1>1, <1>2, FromJsonLevel DEF Items, Json, Back

\* An atom comes back as what it reads as.
LEMMA AtomAndBack ==
  ASSUME NEW x \in Items, IsAtom(x)
  PROVE  BackBelow(x, Back(x))
<1> DEFINE t(a) == TextOf(TextToJson(a))
<1>1. IsOver(x, Items)
  BY ItemIs
<1>2. \A a : t(a) = CASE a \in {"true", "True", "TRUE"} -> "true"
                      [] a \in {"false", "False", "FALSE"} -> "false"
                      [] OTHER -> a
  BY DEF TextOf, TextToJson, Boolean, String, IsNull
<1>3. \A a : t(t(a)) = t(a)
  BY <1>2
<1>4. ToJson[x] = TextToJson(x.atom)
  BY <1>1, KindsAre, ToJsonIs
<1>5. ToJson[x].type \in {"boolean", "string"}
  BY <1>4 DEF TextToJson, Boolean, String
<1>6. Back(x) = Atom(t(x.atom))
  BY <1>4, <1>5, BackIsItem, FromJsonIs DEF Back
<1> HIDE DEF t
<1>7. IsAtom(Back(x)) /\ Back(x).atom = t(x.atom)
  BY <1>6, ConstructorsAre
<1>8. Back(x) \in Items /\ IsOver(Back(x), Items)
  BY BackIsItem, ItemIs
<1>9. Children(x) = << >> /\ Children(Back(x)) = << >>
  BY <1>1, <1>7, <1>8, ChildrenAre
<1>10. What(Back(x)) = << "atom", t(t(x.atom)) >> /\ What(x) = << "atom", t(x.atom) >>
  BY <1>7 DEF What, t
<1>11. FactOf(Back(x)) = FactOf(x)
  BY <1>3, <1>10 DEF FactOf
<1>12. DOMAIN Children(x) = {} /\ DOMAIN Children(Back(x)) = {}
  BY <1>9
<1> QED  BY <1>8, <1>11, <1>12 DEF BackBelow

\* A vector comes back with its elements in their places.
LEMMA VectorAndBack ==
  ASSUME NEW x \in Items, IsVector(x), ~IsBare(x)
  PROVE  BackBelow(x, Back(x))
<1> DEFINE s == x.items
<1> DEFINE t == [i \in DOMAIN s |-> ToJson[s[i]]]
<1> DEFINE d == ToJson[x]
<1> DEFINE z == Back(x)
<1>1. IsOver(x, Items)
  BY ItemIs
<1>2. s \in Seq(Items) /\ Children(x) = s /\ ~IsMap(x) /\ ~IsAtom(x) /\ x = Vector(s)
  BY <1>1, KindsAre, ChildrenAre
<1>3. s # << >>
  BY <1>2 DEF IsBare
<1>4. d = Array(t)
  BY <1>2, <1>3, ToJsonIs
<1>5. d.type = "array" /\ d.items = t
  BY <1>4 DEF Array
<1>6. d \in Json /\ z \in Items /\ z = FromJson[d]
  BY BackIsItem DEF Back
<1> HIDE DEF d, z, s
<1> DEFINE w == [i \in DOMAIN t |-> FromJson[t[i]]]
<1>7. z = Vector(w)
  BY <1>5, <1>6, FromJsonIs
<1>8. DOMAIN w = DOMAIN s /\ \A i \in DOMAIN s : w[i] = Back(s[i])
  BY DEF Back
<1> HIDE DEF t, w
<1>9. IsVector(z) /\ z.items = w
  BY <1>7, ConstructorsAre
<1>10. IsOver(z, Items)
  BY <1>6, ItemIs
<1>11. Children(z) = w /\ ~IsMap(z) /\ ~IsAtom(z)
  BY <1>9, <1>10, KindsAre, ChildrenAre
<1>12. What(z) = << "vector" >> /\ What(x) = << "vector" >>
  BY <1>2, <1>9, <1>11 DEF What, IsVector
<1>13. FactOf(z) = FactOf(x)
  BY <1>12 DEF FactOf
<1>14. \A i \in DOMAIN s : StepTo(z, i) = StepTo(x, i)
  BY <1>2, <1>11 DEF StepTo
<1> QED  BY <1>2, <1>6, <1>8, <1>11, <1>13, <1>14 DEF BackBelow, z

\* A map comes back with its keys, but for those whose items are empty containers.
LEMMA MapAndBack ==
  ASSUME NEW x \in Items, IsMap(x), ~IsBare(x), WellFormed(x), CanDump(x)
  PROVE  BackBelow(x, Back(x))
<1> DEFINE s == x.entries
<1> DEFINE t == [k \in Keys |-> IF HasKey(s, k) THEN ToJson[At(s, k)] ELSE Null]
<1> DEFINE d == ToJson[x]
<1> DEFINE m == Members(d)
<1> DEFINE e == Emplaced(m)
<1> DEFINE z == Back(x)
<1>1. IsOver(x, Items)
  BY ItemIs
<1>2. /\ s \in Seq([key : Keys, val : Items]) /\ IsDict(s)
      /\ \A i \in DOMAIN s : s[i].key \in Keys /\ s[i].val \in Items
  BY EntriesAre
<1>3. /\ DOMAIN Children(x) = DOMAIN s /\ \A i \in DOMAIN s : Children(x)[i] = s[i].val
      /\ Children(x) \in Seq(Items) /\ ~IsVector(x) /\ ~IsAtom(x)
  <2>1. ~IsVector(x) /\ ~IsAtom(x)
    BY DEF IsMap, IsVector, IsAtom
  <2>2. DOMAIN Children(x) = DOMAIN s /\ \A i \in DOMAIN s : Children(x)[i] = s[i].val
    BY <1>1, ChildrenAre
  <2>3. Children(x) \in Seq(Items)
    BY <1>1, ChildrenAre
  <2> QED  BY <2>1, <2>2, <2>3
<1>4. s # << >>
  <2>1. Children(x) # << >>
    BY DEF IsBare
  <2> QED  BY <1>3, <2>1
<1>5. \A i \in DOMAIN s : ~IsNone(s[i].val)
  BY <1>2, <1>3, CanDumpIs
<1>6. d = Object(t)
  BY <1>3, <1>4, ToJsonIs
<1>7. d.type = "object" /\ d.members = t
  BY <1>6 DEF Object
<1>8. d \in Json /\ z \in Items /\ z = FromJson[d]
  BY BackIsItem DEF Back
<1> HIDE DEF d, z, s
<1>9. IsJson(d, Json)
  BY <1>8, JsonIs
<1>10. MembersOf(m, d, Json)
  BY <1>7, <1>9, MembersAre
<1> DEFINE w == [j \in DOMAIN e |-> Entry(e[j].key, FromJson[e[j].val])]
<1>11. z = Map(w)
  BY <1>7, <1>8, FromJsonIs
<1> HIDE DEF m
<1>12. /\ m \in Seq([key : Keys, val : Json])
       /\ \A i, j \in DOMAIN m : m[i].key = m[j].key => i = j
       /\ DOMAIN m = DOMAIN KeyOrder
       /\ \A i \in DOMAIN m : m[i].key = KeyOrder[i] /\ m[i].key \in Keys
                              /\ m[i].val = t[KeyOrder[i]]
  BY <1>7, <1>10 DEF MembersOf
<1>13. EmplacedOf(e, m)
  BY <1>12, EmplacedIs, Zenon
<1>14. \A i \in DOMAIN m : IsNull(m[i].val) \/ \E j \in DOMAIN e : e[j] = m[i]
  <2> DEFINE E == [key : Keys, val : Json]
  <2>1. m \in Seq(E)
    BY <1>12
  <2>2. \A i, j \in DOMAIN m : m[i].key = m[j].key => i = j
    BY <1>12
  <2> HIDE DEF E
  <2> QED  BY <2>1, <2>2, EmplacedHas
<1> HIDE DEF e
<1>15. DOMAIN w = DOMAIN e /\ \A j \in DOMAIN e : w[j].key = e[j].key /\ w[j].val = FromJson[e[j].val]
  BY DEF Entry
<1> HIDE DEF w
<1>16. IsMap(z) /\ z.entries = w
  BY <1>11, ConstructorsAre
<1>17. IsOver(z, Items)
  BY <1>8, ItemIs
<1>18. /\ DOMAIN Children(z) = DOMAIN w /\ \A j \in DOMAIN w : Children(z)[j] = w[j].val
       /\ ~IsAtom(z)
  <2>1. /\ DOMAIN Children(z) = DOMAIN z.entries
        /\ \A j \in DOMAIN z.entries : Children(z)[j] = z.entries[j].val
    BY <1>16, <1>17, ChildrenAre
  <2>2. ~IsAtom(z)
    BY <1>16, <1>17, KindsAre
  <2> QED  BY <1>16, <2>1, <2>2
<1>19. What(z) = << "map" >> /\ What(x) = << "map" >>
  BY <1>3, <1>16, <1>18 DEF What, IsMap
<1>20. FactOf(z) = FactOf(x)
  BY <1>19 DEF FactOf
<1>21. \A j \in DOMAIN w : StepTo(z, j) = w[j].key
  BY <1>16 DEF StepTo
<1>22. \A i \in DOMAIN s : StepTo(x, i) = s[i].key
  BY DEF StepTo, s
<1>23. ASSUME NEW i \in DOMAIN s
       PROVE  t[s[i].key] = ToJson[s[i].val] /\ HasKey(s, s[i].key)
  <2>1. HasKey(s, s[i].key) /\ s[i].key \in Keys
    BY <1>2 DEF HasKey
  <2>2. At(s, s[i].key) = s[i].val
    BY <1>2, AtIs
  <2> QED  BY <2>1, <2>2
<1>24. \A k \in Keys : ~HasKey(s, k) => t[k] = Null
  OBVIOUS
<1> HIDE DEF t
<1>25. ASSUME NEW i \in DOMAIN s, ~IsBare(s[i].val)
       PROVE  \E j \in DOMAIN w : w[j].key = s[i].key /\ w[j].val = Back(s[i].val)
  <2>1. PICK l \in DOMAIN KeyOrder : KeyOrder[l] = s[i].key
    BY <1>2, KeyOrderAssumption DEF ToSet
  <2>2. l \in DOMAIN m /\ m[l].key = s[i].key /\ m[l].val = ToJson[s[i].val]
    BY <1>12, <1>23, <2>1
  <2>3. ~IsNull(m[l].val)
    BY <1>2, <1>5, <1>25, <2>2, BareIsNull
  <2>4. PICK j \in DOMAIN e : e[j] = m[l]
    BY <1>14, <2>2, <2>3
  <2> QED  BY <1>15, <2>2, <2>4 DEF Back
<1>26. ASSUME NEW j \in DOMAIN w
       PROVE  \E i \in DOMAIN s :
                ~IsBare(s[i].val) /\ w[j].key = s[i].key /\ w[j].val = Back(s[i].val)
  <2>1. PICK l \in DOMAIN m : e[j] = m[l] /\ ~IsNull(m[l].val)
    BY <1>13, <1>15 DEF EmplacedOf
  <2>2. m[l].key = KeyOrder[l] /\ m[l].val = t[KeyOrder[l]] /\ KeyOrder[l] \in Keys
    BY <1>12
  <2>3. HasKey(s, KeyOrder[l])
    <3>1. IsNull(Null)
      BY DEF IsNull, Null
    <3> QED  BY <1>24, <2>1, <2>2, <3>1
  <2>4. PICK i \in DOMAIN s : s[i].key = KeyOrder[l]
    BY <2>3 DEF HasKey
  <2>5. m[l].val = ToJson[s[i].val]
    BY <1>23, <2>2, <2>4
  <2>6. ~IsBare(s[i].val)
    <3>1. IsNull(Null)
      BY DEF IsNull, Null
    <3> QED  BY <1>2, <1>5, <2>1, <2>5, <3>1, BareIsNull
  <2> QED  BY <1>15, <2>1, <2>2, <2>4, <2>5, <2>6 DEF Back
<1> QED  BY <1>3, <1>8, <1>18, <1>20, <1>21, <1>22, <1>25, <1>26 DEF BackBelow, z

\* Saving as JSON and loading again, for every item that can be saved.
LEMMA JsonAndBack ==
  ASSUME NEW x \in Items, WellFormed(x), CanDump(x)
  PROVE  Facts[Back(x)] = Kept(x)
<1> DEFINE S == {y \in Items : WellFormed(y) /\ CanDump(y) => Facts[Back(y)] = Kept(y)}
<1>1. ASSUME NEW y \in Items, Range(Children(y)) \subseteq S, WellFormed(y), CanDump(y)
      PROVE  Facts[Back(y)] = Kept(y)
  <2> DEFINE z == Back(y)
  <2>1. IsOver(y, Items) /\ ~IsNone(y) /\ z \in Items
    BY <1>1, ItemIs, CanDumpIs, BackIsItem
  <2>2. ASSUME NEW i \in DOMAIN Children(y)
        PROVE  Facts[Back(Children(y)[i])] = Kept(Children(y)[i])
    <3>1. Children(y)[i] \in S
      BY <1>1 DEF Range
    <3>2. WellFormed(Children(y)[i]) /\ CanDump(Children(y)[i])
      BY <1>1, WellFormedIs, CanDumpIs
    <3> QED  BY <3>1, <3>2
  <2>3. CASE IsBare(y)
    <3>1. ToJson[y] = Null
      BY <2>1, <2>3, BareIsNull
    <3>2. Null \in Json /\ Null.type = "null" /\ IsNull(Null)
      BY <3>1, BackIsItem DEF Null, IsNull
    <3>3. z = Atom(Empty)
      BY <3>1, <3>2, FromJsonIs DEF TextOf, Back
    <3> HIDE DEF z
    <3>4. IsAtom(z) /\ z.atom = Empty /\ IsOver(z, Items)
      BY <2>1, <3>3, ConstructorsAre, ItemIs
    <3>5. Children(z) = << >> /\ Children(y) = << >>
      BY <2>3, <3>4, ChildrenAre DEF IsBare
    <3>6. What(z) = << "atom", Empty >>
      <4>1. TextOf(TextToJson(Empty)) = Empty
        BY EmptyIsNoTruth DEF TextOf, TextToJson, String, IsNull
      <4> QED  BY <3>4, <4>1 DEF What
    <3>7. FactOf(z) = Emptied(FactOf(y))
      BY <3>6 DEF FactOf, Emptied
    <3>8. \A h : h \in Facts[z] <=> h = FactOf(z)
      BY <2>1, <3>5, InFacts
    <3>9. \A h : h \in Facts[y] <=> h = FactOf(y)
      BY <3>5, InFacts
    <3>10. Bare(y, FactOf(y)) /\ Unkeyed(y, FactOf(y))
      BY <2>3, OwnFact
    <3>11. \A h : h \in Kept(y) <=> h = FactOf(z)
      BY <3>7, <3>9, <3>10, InKept
    <3>12. \A h : h \in Facts[z] <=> h \in Kept(y)
      BY <3>8, <3>11
    <3>13. Facts[z] = Kept(y)
      <4> DEFINE A == Facts[z]
      <4> DEFINE B == Kept(y)
      <4>1. \A h : h \in A <=> h \in B
        BY <3>12
      <4> HIDE DEF A, B
      <4>2. A = B
        BY <4>1
      <4> QED  BY <4>2 DEF A, B
    <3> QED  BY <3>13 DEF z
  <2>4. CASE ~IsBare(y)
    <3>1. BackBelow(y, z)
      BY <1>1, <2>1, <2>4, KindsAre, AtomAndBack, VectorAndBack, MapAndBack
    <3> HIDE DEF z
    <3> DEFINE c(i) == Children(y)[i]
    <3> DEFINE gone(i) == IsMap(y) /\ IsBare(c(i))
    <3> DEFINE is(i, j) == StepTo(z, j) = StepTo(y, i) /\ Children(z)[j] = Back(c(i))
    <3>2. /\ FactOf(z) = FactOf(y)
          /\ \A i \in DOMAIN Children(y) : ~gone(i) => \E j \in DOMAIN Children(z) : is(i, j)
          /\ \A j \in DOMAIN Children(z) : \E i \in DOMAIN Children(y) : ~gone(i) /\ is(i, j)
      BY <3>1 DEF BackBelow
    <3>3. ASSUME NEW h
          PROVE  h \in Facts[z] <=>
                   \/ h = FactOf(z)
                   \/ \E j \in DOMAIN Children(z) :
                        \E g \in Facts[Children(z)[j]] : h = Moved(StepTo(z, j), g)
      BY <2>1, InFacts
    <3>4. ASSUME NEW h
          PROVE  h \in Kept(y) <=>
                   \/ h = FactOf(y)
                   \/ \E i \in DOMAIN Children(y) :
                        /\ ~gone(i)
                        /\ \E g \in Kept(c(i)) : h = Moved(StepTo(y, i), g)
      BY <1>1, <2>4, KeptIs
    <3>5. \A i \in DOMAIN Children(y) : Facts[Back(c(i))] = Kept(c(i))
      BY <2>2
    <3> HIDE DEF c, gone
    <3>6. ASSUME NEW h, h \in Facts[z]  PROVE h \in Kept(y)
      <4>1. CASE h = FactOf(z)
        BY <3>2, <3>4, <4>1
      <4>2. ASSUME NEW j \in DOMAIN Children(z), NEW g \in Facts[Children(z)[j]],
                   h = Moved(StepTo(z, j), g)
            PROVE  h \in Kept(y)
        <5>1. PICK i \in DOMAIN Children(y) : ~gone(i) /\ is(i, j)
          BY <3>2
        <5>2. g \in Kept(c(i)) /\ h = Moved(StepTo(y, i), g)
          BY <3>5, <4>2, <5>1
        <5> QED  BY <3>4, <5>1, <5>2
      <4> QED  BY <3>3, <3>6, <4>1, <4>2
    <3>7. ASSUME NEW h, h \in Kept(y)  PROVE h \in Facts[z]
      <4>1. CASE h = FactOf(y)
        BY <3>2, <3>3, <4>1
      <4>2. ASSUME NEW i \in DOMAIN Children(y), ~gone(i), NEW g \in Kept(c(i)),
                   h = Moved(StepTo(y, i), g)
            PROVE  h \in Facts[z]
        <5>1. PICK j \in DOMAIN Children(z) : is(i, j)
          BY <3>2, <4>2
        <5>2. g \in Facts[Children(z)[j]] /\ h = Moved(StepTo(z, j), g)
          BY <3>5, <4>2, <5>1
        <5> QED  BY <3>3, <5>2
      <4> QED  BY <3>4, <3>7, <4>1, <4>2
    <3>8. Facts[z] = Kept(y)
      <4> DEFINE A == Facts[z]
      <4> DEFINE B == Kept(y)
      <4>1. \A h : h \in A <=> h \in B
        BY <3>6, <3>7
      <4> HIDE DEF A, B
      <4>2. A = B
        BY <4>1
      <4> QED  BY <4>2 DEF A, B
    <3> QED  BY <3>8 DEF z
  <2> QED  BY <2>3, <2>4
<1>2. \A y \in Items : Range(Children(y)) \subseteq S => y \in S
  BY <1>1
<1> HIDE DEF S
<1>3. Items \subseteq S
  BY <1>2, ItemInduction
<1> QED  BY <1>3 DEF S

\* Saved as JSON, a configuration loses its empty containers, or has an empty text where
\* no key is, and nothing else, whatever it is.
THEOREM JsonLosesOnlyTheEmpty ==
  Spec => []JsonKeepsAllButEmpty
<1>1. TypeOK /\ CanDump(root) => Facts[FromJson[ToJson[root]]] = Kept(root)
  BY JsonAndBack DEF TypeOK, Bounded, Back
<1>2. TypeOK => JsonKeepsAllButEmpty
  BY <1>1, Zenon DEF JsonKeepsAllButEmpty, Kept, Bare, Unkeyed, Emptied
<1> QED  BY <1>2, TypeCorrect, PTL
=============================================================================
