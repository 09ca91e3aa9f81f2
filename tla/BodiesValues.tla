---------------------------- MODULE BodiesValues ----------------------------
(***************************************************************************)
(* That configurations are values: a call on an item changes what is below *)
(* that item, and nothing of any other, and an assignment gives an item    *)
(* all that is below the one assigned.  For each change of the heap there  *)
(* is a lemma on what it leaves alone, and one on how the tree of an item  *)
(* may grow: only by bodies that were free.                                *)
(***************************************************************************)
EXTENDS BodiesProofs

\* In k, the item z is where it is in h, with the same body.
SameIn(h, k, z) ==
  /\ k.home[z] = h.home[z] /\ k.item[z] = h.item[z]
  /\ ~Empty(h, z) => k.kind[h.item[z]] = h.kind[h.item[z]]

SameBut(h, k, P) == \A z \in Live(h) \ P : SameIn(h, k, z)

Part(h, x) == {x} \cup Inside(h, Tree(h, x))

\* A part is what it is because it is closed.
LEMMA PartLemma ==
  ASSUME NEW h, Good(h), NEW x \in Items, NEW T \in SUBSET Bodies, Closed(h, T),
         ~Empty(h, x) => h.item[x] \in T
  PROVE  Tree(h, x) \subseteq T /\ Inside(h, Tree(h, x)) \subseteq Inside(h, T)
<1>1. CASE Empty(h, x)
  BY <1>1 DEF Tree, Inside
<1>2. CASE ~Empty(h, x)
  BY <1>2, EmptyTree, BelowLemma DEF Good, Inside
<1> QED  BY <1>1, <1>2

LEMMA TreeClosed ==
  ASSUME NEW h, Good(h), NEW x \in Items
  PROVE  /\ Tree(h, x) \in SUBSET Bodies /\ Closed(h, Tree(h, x))
         /\ ~Empty(h, x) => h.item[x] \in Tree(h, x)
         /\ Tree(h, x) \cap FreeBodies(h) = {}
<1>1. CASE Empty(h, x)
  BY <1>1 DEF Tree, Closed
<1>2. CASE ~Empty(h, x)
  BY <1>2, EmptyTree, BelowLemma, TreeLemma DEF Good
<1> QED  BY <1>1, <1>2

\* A live item is in no free body, and its own is allocated.
LEMMA LiveLemma ==
  ASSUME NEW h, Good(h), NEW z \in Live(h)
  PROVE  /\ z \in Items /\ h.home[z] # Free /\ h.home[z] \notin FreeBodies(h)
         /\ h.item[z] \in (Bodies \ FreeBodies(h)) \cup {Null}
BY HeapType DEF Live, FreeItems, FreeBodies, Good, Typed, Owned, Empty

\* If no item of h gave its body away, an item that had none has now, in k, one from memory
\* that was free.
LEMMA NewBodiesAreNew ==
  ASSUME NEW h, Good(h), NEW k, Good(k), h.lost \subseteq k.lost,
         \A z \in Live(h) : k.item[z] = h.item[z] \/ Empty(h, z) \/ h.item[z] \in k.lost,
         NEW u \in Items, Empty(h, u)
  PROVE  k.item[u] \in FreeBodies(h) \cup {Null}
<1> SUFFICES ASSUME k.item[u] \notin FreeBodies(h), k.item[u] # Null
             PROVE  FALSE
  OBVIOUS
<1>1. k.item[u] \in Bodies \ FreeBodies(h) /\ ~Empty(k, u)
  BY HeapType DEF Good, Empty
<1>2. k.item[u] \notin k.lost
  BY <1>1 DEF Good, Owned
<1>3. PICK z \in Items : h.item[z] = k.item[u]
  BY <1>1, <1>2 DEF Good, Owned
<1>4. ~Empty(h, z) /\ z \in Live(h)
  BY <1>1, <1>3, NullAssumption DEF Good, Typed, Live, FreeItems, Empty
<1>5. k.item[z] = k.item[u]
  BY <1>2, <1>3, <1>4
<1> QED  BY <1>1, <1>3, <1>4, <1>5 DEF Good, Owned, Empty

\* The tree of x grows only by bodies that were free, so no item gets into it that was
\* outside.
LEMMA TreeGrows ==
  ASSUME NEW h, Good(h), NEW k, Good(k), h.lost \subseteq k.lost,
         \A z \in Live(h) : k.home[z] = h.home[z],
         \A z \in Live(h) :
           \/ k.item[z] = h.item[z]
           \/ /\ k.item[z] \in FreeBodies(h) \cup {Null}
              /\ Empty(h, z) \/ h.item[z] \in k.lost,
         NEW x \in Live(h)
  PROVE  Live(h) \cap Inside(k, Tree(k, x)) \subseteq Inside(h, Tree(h, x))
<1> DEFINE T == Tree(h, x) \cup FreeBodies(h)
<1>1. x \in Items
  BY DEF Live
<1>2. Tree(h, x) \in SUBSET Bodies /\ Closed(h, Tree(h, x)) /\ FreeBodies(h) \subseteq Bodies
      /\ (~Empty(h, x) => h.item[x] \in Tree(h, x))
  BY <1>1, TreeClosed DEF FreeBodies
<1>3. Closed(k, T)
  <2> SUFFICES ASSUME NEW z \in Items, k.home[z] \in T
               PROVE  k.item[z] \in T \cup {Null}
    BY DEF Closed
  <2>1. CASE z \in Live(h)
    <3>1. h.home[z] \in Tree(h, x)
      BY <2>1, LiveLemma
    <3>2. h.item[z] \in Tree(h, x) \cup {Null}
      BY <1>2, <3>1 DEF Closed
    <3> QED  BY <2>1, <3>2
  <2>2. CASE z \notin Live(h)
    <3>1. Empty(h, z)
      BY <2>2 DEF Live, FreeItems, Good, Typed
    <3> QED  BY <3>1, NewBodiesAreNew
  <2> QED  BY <2>1, <2>2
<1>4. ~Empty(k, x) => k.item[x] \in T
  BY <1>2 DEF Empty
<1> HIDE DEF T
<1>5. Inside(k, Tree(k, x)) \subseteq Inside(k, T)
  BY <1>1, <1>2, <1>3, <1>4, PartLemma DEF T
<1> SUFFICES ASSUME NEW z \in Live(h), z \in Inside(k, T)
             PROVE  z \in Inside(h, Tree(h, x))
  BY <1>5
<1> QED  BY LiveLemma DEF Inside, T
-----------------------------------------------------------------------------
\* delete and erase change x and what is below.
LEMMA DeletedFrame ==
  ASSUME NEW h, Good(h), NEW x \in Items
  PROVE  /\ SameBut(h, Deleted(h, x), Part(h, x))
         /\ SameBut(h, Destroyed(h, x), Part(h, x))
<1>1. PICK d, e : d = Deleted(h, x) /\ e = Destroyed(h, x)
  OBVIOUS
<1>2. Good(d)
  BY <1>1, DeletedGood
<1>3. e = [d EXCEPT !.home[x] = Free]
  BY <1>1 DEF Destroyed, NewItem
<1>4. e.item = d.item /\ e.kind = d.kind /\ \A z \in Items \ {x} : e.home[z] = d.home[z]
  BY <1>2, <1>3, HeapType DEF Good
<1>5. ASSUME NEW z \in Live(h) \ Part(h, x)
      PROVE  SameIn(h, d, z) /\ SameIn(h, e, z)
  <2>1. z \in Items \ {x} /\ z \notin Inside(h, Tree(h, x))
    BY <1>5 DEF Part, Live
  <2>2. d.home[z] = h.home[z] /\ d.item[z] = h.item[z]
    BY <1>1, <2>1, DeletedGood
  <2>3. ASSUME ~Empty(h, z)  PROVE d.kind[h.item[z]] = h.kind[h.item[z]]
    <3>1. h.item[z] \in Bodies /\ h.kind[h.item[z]] # "free"
      BY <1>5, <2>3, LiveLemma DEF Empty, FreeBodies
    <3>2. d.kind[h.item[z]] # "free"
      BY <1>2, <2>1, <2>2, <2>3, <3>1 DEF Good, Owned, Empty, FreeBodies
    <3> QED  BY <1>1, <3>1, <3>2, DeletedGood
  <2> QED  BY <1>4, <2>1, <2>2, <2>3 DEF SameIn
<1> QED  BY <1>1, <1>5 DEF SameBut

\* operator= changes the target and what was below it.
LEMMA AssignedFrame ==
  ASSUME NEW h, Good(h), NEW x \in Live(h), NEW y \in Items, ~UsesFreed(h, x, h.item[y]),
         NEW k \in Assigned(h, x, h.item[y]), NEW d, d = Deleted(h, x)
  PROVE  /\ SameBut(h, k, Part(h, x))
         /\ \A z \in Live(d) \ {x} : SameIn(d, k, z)
         /\ k.home[x] = d.home[x] /\ k.lost = d.lost
<1>1. PICK b : b = h.item[y]
  OBVIOUS
<1>2. x \in Items /\ h.home[x] \in Bodies \cup {Program}
  BY HeapType DEF Good, Live, FreeItems
<1>3. Good(d) /\ Empty(d, x) /\ d.home[x] = h.home[x]
  BY <1>1, <1>2, DeletedGood
<1>4. b \in (Bodies \ FreeBodies(d)) \cup {Null}
  BY <1>1, HeapType DEF Good, UsesFreed, FreeBodies
<1>5. h.home[x] \in Bodies => d.kind[h.home[x]] \in {"map", "vector"}
  BY <1>2, <1>3 DEF Good, Typed
<1>6. k \in ItemCopies(d, x, h.home[x], b)
  BY <1>1 DEF Assigned
<1>7. /\ \A z \in Live(d) \ {x} : k.home[z] = d.home[z] /\ k.item[z] = d.item[z]
      /\ \A c \in Bodies \ FreeBodies(d) : k.kind[c] = d.kind[c]
      /\ k.lost = d.lost
  BY <1>2, <1>3, <1>4, <1>5, <1>6, ItemCopiesGood
<1>8. \A z \in Live(d) \ {x} : SameIn(d, k, z)
  BY <1>3, <1>7, LiveLemma DEF SameIn, Empty
<1>9. k.home[x] = d.home[x]
  BY <1>2, <1>3, <1>4, <1>5, <1>6, ItemCopiesGood
<1>10. ASSUME NEW z \in Live(h) \ Part(h, x)  PROVE SameIn(h, k, z)
  <2>1. SameIn(h, d, z)
    BY <1>2, <1>10, DeletedFrame DEF SameBut
  <2>2. z \in Live(d) \ {x}
    BY <1>10, <2>1 DEF SameIn, Live, FreeItems, Part
  <2> QED  BY <1>8, <2>1, <2>2 DEF SameIn, Empty
<1> QED  BY <1>7, <1>8, <1>9, <1>10 DEF SameBut

\* A conversion changes x, and puts nothing below it that was elsewhere.
LEMMA MapsFrame ==
  ASSUME NEW h, Good(h), NEW x \in Live(h), NEW k \in Maps(h, x)
  PROVE  SameBut(h, k, {x})
<1>1. CASE Empty(h, x)
  <2>1. PICK b \in FreeBodies(h) : k = NewBody(h, x, b, "map")
    <3>1. ~Holds(h, x, "map")
      BY <1>1 DEF Holds
    <3>2. Maps(h, x) = {NewBody(h, x, b, "map") : b \in FreeBodies(h)}
      BY <1>1, <3>1 DEF Maps
    <3> QED  BY <3>2
  <2>2. /\ k.home = h.home
        /\ \A z \in Items \ {x} : k.item[z] = h.item[z]
        /\ \A c \in Bodies \ FreeBodies(h) : k.kind[c] = h.kind[c]
    BY <1>1, <2>1, NewBodyGood, NewBodyKeeps DEF Kinds, Live
  <2> QED  BY <2>2, LiveLemma DEF SameBut, SameIn, Empty
<1>2. CASE ~Empty(h, x)
  BY <1>2 DEF Maps, SameBut, SameIn
<1> QED  BY <1>1, <1>2

LEMMA VectorsFrame ==
  ASSUME NEW h, Good(h), NEW x \in Live(h), NEW k \in Vectors(h, x)
  PROVE  /\ SameBut(h, k, {x}) /\ k.home[x] = h.home[x]
         /\ Live(h) \cap Inside(k, Tree(k, x)) \subseteq Inside(h, Tree(h, x))
<1>1. x \in Items /\ h.home[x] # Free
  BY DEF Live, FreeItems
<1>2. Good(k)
  BY VectorsGood
<1>3. ASSUME h.lost \subseteq k.lost,
             \A z \in Live(h) : k.home[z] = h.home[z],
             \A z \in Live(h) \ {x} : k.item[z] = h.item[z],
             k.item[x] \in FreeBodies(h), Empty(h, x) \/ h.item[x] \in k.lost,
             \A c \in Bodies \ FreeBodies(h) : k.kind[c] = h.kind[c]
      PROVE  /\ SameBut(h, k, {x}) /\ k.home[x] = h.home[x]
             /\ Live(h) \cap Inside(k, Tree(k, x)) \subseteq Inside(h, Tree(h, x))
  <2>1. SameBut(h, k, {x})
    BY <1>3, LiveLemma DEF SameBut, SameIn, Empty
  <2>2. Live(h) \cap Inside(k, Tree(k, x)) \subseteq Inside(h, Tree(h, x))
    BY <1>2, <1>3, TreeGrows
  <2> QED  BY <1>3, <2>1, <2>2
<1>4. CASE Empty(h, x)
  <2>1. PICK b \in FreeBodies(h) : k = NewBody(h, x, b, "vector")
    <3>1. ~Holds(h, x, "vector")
      BY <1>4 DEF Holds
    <3>2. Vectors(h, x) = {NewBody(h, x, b, "vector") : b \in FreeBodies(h)}
      BY <1>4, <3>1 DEF Vectors
    <3> QED  BY <3>2
  <2>2. /\ k.home = h.home /\ k.item[x] = b /\ k.lost = h.lost
        /\ \A z \in Items \ {x} : k.item[z] = h.item[z]
        /\ \A c \in Bodies \ FreeBodies(h) : k.kind[c] = h.kind[c]
    BY <1>1, <1>4, <2>1, NewBodyGood, NewBodyKeeps DEF Kinds
  <2> QED  BY <1>3, <1>4, <2>2 DEF Live
<1>5. CASE Holds(h, x, "vector")
  <2>1. k = h
    BY <1>5 DEF Vectors, Holds
  <2> QED  BY <2>1 DEF SameBut, SameIn
<1>6. CASE ~Empty(h, x) /\ ~Holds(h, x, "vector")
  <2>1. PICK v \in FreeBodies(h), y \in FreeItems(h) :
          k \in Copies(Wrapped(h, x, v), y, v, h.item[x])
    BY <1>6 DEF Vectors
  <2>2. PICK u : u = Wrapped(h, x, v)
    OBVIOUS
  <2>3. /\ Good(u) /\ u.home = h.home /\ u.item[x] = v /\ u.kind[v] = "vector"
        /\ h.item[x] \in Bodies \ FreeBodies(u)
        /\ \A z \in Items \ {x} : u.item[z] = h.item[z]
        /\ \A c \in Bodies \ FreeBodies(h) : u.kind[c] = h.kind[c]
        /\ u.lost = h.lost \cup {h.item[x]}
    BY <1>6, <2>2, WrappedGood
  <2>4. /\ v \in Bodies \ FreeBodies(u) /\ y \in Items /\ y # x
        /\ Empty(u, y) /\ Live(h) = Live(u) /\ y \notin Live(h)
    BY <1>1, <2>3 DEF FreeBodies, FreeItems, Good, Typed, Live
  <2>5. k \in Copies(u, y, v, h.item[x])
    BY <2>1, <2>2
  <2>6. /\ \A z \in Live(u) \ {y} : k.home[z] = u.home[z] /\ k.item[z] = u.item[z]
        /\ \A c \in Bodies \ FreeBodies(u) : k.kind[c] = u.kind[c]
        /\ k.lost = u.lost
    BY <2>3, <2>4, <2>5, CopiesGood
  <2>7. \A c \in Bodies \ FreeBodies(h) : k.kind[c] = h.kind[c]
    BY <2>3, <2>6 DEF FreeBodies
  <2> QED  BY <1>3, <2>3, <2>4, <2>6, <2>7 DEF Live
<1> QED  BY <1>4, <1>5, <1>6

\* push_back changes what is below the item of the vector: the new element, and those that
\* move.
LEMMA PushedFrame ==
  ASSUME NEW h, Good(h), NEW x \in Live(h), NEW v \in Bodies, h.item[x] = v, h.kind[v] = "vector",
         NEW b \in (Bodies \ FreeBodies(h)) \cup {Null}, Pushed(h, v, b),
         NEW q, q = heap'
  PROVE  SameBut(h, q, Part(h, x))
<1>1. PICK p \in Appended(h, v, b) : q \in {p} \cup Moved(p, Inside(h, {v}))
  BY DEF Pushed
<1>2. PICK y \in FreeItems(h) : p \in ItemCopies(h, y, v, b)
  BY <1>1 DEF Appended
<1>3. y \in Items /\ y \notin Live(h) /\ Empty(h, y)
  BY DEF FreeItems, Good, Typed, Live
<1>4. /\ Good(p) /\ p.lost = h.lost
      /\ \A e \in Live(h) : p.home[e] = h.home[e] /\ p.item[e] = h.item[e]
      /\ \A c \in Bodies \ FreeBodies(h) : p.kind[c] = h.kind[c]
  BY <1>2, <1>3, ItemCopiesGood
<1>5. \A z \in Live(h) : SameIn(h, p, z)
  BY <1>4, LiveLemma DEF SameIn, Empty
<1>6. CASE q = p
  BY <1>5, <1>6 DEF SameBut
<1>7. CASE q \in Moved(p, Inside(h, {v}))
  <2> DEFINE E == Inside(h, {v})
             X == E \cup Inside(p, UNION {Tree(p, e) : e \in E})
  <2>1. \A e \in E : e \in Items /\ e \in Live(h) /\ h.home[e] = v
    BY MarkersAssumption DEF Inside, Live, FreeItems
  <2>2. E \in SUBSET Inside(p, {v})
    BY <1>4, <2>1 DEF Inside
  <2>3. \A z \in Live(p) \ X : SameIn(p, q, z)
    <3>1. q \in Moved(p, E)
      BY <1>7
    <3> HIDE DEF E
    <3>2. \A z \in Live(p) \ (E \cup Inside(p, UNION {Tree(p, e) : e \in E})) :
            /\ q.home[z] = p.home[z] /\ q.item[z] = p.item[z]
            /\ ~Empty(p, z) => q.kind[p.item[z]] = p.kind[p.item[z]]
      BY <1>4, <2>2, <3>1, MovedGood
    <3> QED  BY <3>2 DEF SameIn
  <2>4. x \in Live(h) /\ x \in Items /\ Tree(p, x) \in SUBSET Bodies
        /\ Closed(p, Tree(p, x)) /\ v \in Tree(p, x)
    <3>1. x \in Items /\ ~Empty(p, x) /\ p.item[x] = v
      BY <1>4, NullAssumption DEF Live, Empty
    <3> QED  BY <1>4, <3>1, TreeClosed
  <2>5. ASSUME NEW e \in E  PROVE Tree(p, e) \subseteq Tree(p, x)
    <3>1. ~Empty(p, e) => p.item[e] \in Tree(p, x)
      BY <1>4, <2>1, <2>4 DEF Closed, Empty
    <3> QED  BY <1>4, <2>1, <2>4, <3>1, PartLemma
  <2>6. Live(h) \cap Inside(p, Tree(p, x)) \subseteq Inside(h, Tree(h, x))
    BY <1>4, TreeGrows
  <2>7. E \subseteq Inside(p, Tree(p, x))
    BY <2>2, <2>4 DEF Inside
  <2>8. X \subseteq Inside(p, Tree(p, x))
    BY <2>5, <2>7 DEF Inside
  <2> HIDE DEF E, X
  <2>9. ASSUME NEW z \in Live(h) \ Part(h, x)  PROVE SameIn(h, q, z)
    <3>1. z \in Live(p) \ X
      BY <1>4, <2>6, <2>8, <2>9 DEF Part, Live, FreeItems
    <3> QED  BY <1>5, <2>3, <2>9, <3>1 DEF SameIn, Empty
  <2> QED  BY <2>9 DEF SameBut
<1> QED  BY <1>1, <1>6, <1>7

\* The parts of two elements of one vector are in the part of the item that has it.
LEMMA OwnerPart ==
  ASSUME NEW h, Good(h), NEW x \in Live(h), h.home[x] \in Bodies
  PROVE  \E P \in Parts(h) : \A y \in Items : h.home[y] = h.home[x] => Part(h, y) \subseteq P
<1>1. PICK w \in Bodies \ FreeBodies(h) : w = h.home[x]
  BY LiveLemma
<1>2. ASSUME NEW T \in SUBSET Bodies, w \in T, Closed(h, T),
             NEW y \in Items, h.home[y] = w
      PROVE  Part(h, y) \subseteq Inside(h, T)
  <2>1. ~Empty(h, y) => h.item[y] \in T
    BY <1>2 DEF Closed, Empty
  <2>2. Inside(h, Tree(h, y)) \subseteq Inside(h, T)
    BY <1>2, <2>1, PartLemma
  <2> QED  BY <1>2, <2>2 DEF Part, Inside
<1>3. CASE w \in h.lost
  <2>1. Below(h, w) \in SUBSET Bodies /\ w \in Below(h, w) /\ Closed(h, Below(h, w))
    BY BelowLemma DEF Good
  <2>2. Inside(h, Below(h, w)) \in Parts(h)
    BY <1>3 DEF Parts
  <2> QED  BY <1>1, <1>2, <2>1, <2>2
<1>4. CASE w \notin h.lost
  <2>1. PICK u \in Items : h.item[u] = w
    BY <1>4 DEF Good, Owned
  <2>2. Tree(h, u) \in SUBSET Bodies /\ w \in Tree(h, u) /\ Closed(h, Tree(h, u))
    BY <2>1, TreeClosed, NullAssumption DEF Empty
  <2>3. Part(h, u) \in Parts(h) /\ Inside(h, Tree(h, u)) \subseteq Part(h, u)
    BY DEF Parts, Part
  <2> QED  BY <1>1, <1>2, <2>2, <2>3
<1> QED  BY <1>3, <1>4

\* delete takes nothing into the tree of another item.
LEMMA TreeShrinks ==
  ASSUME NEW h, Good(h), NEW x \in Items, NEW d, d = Deleted(h, x), NEW y \in Items
  PROVE  Inside(d, Tree(d, y)) \subseteq Inside(h, Tree(h, y))
<1>1. Good(d) /\ Empty(d, x)
  BY DeletedGood
<1>2. ASSUME NEW z \in Items
      PROVE  d.home[z] \in {h.home[z], Free} /\ d.item[z] \in {h.item[z], Null}
  <2>1. CASE z \in Inside(h, Tree(h, x))
    BY <2>1, DeletedGood
  <2>2. CASE z \notin Inside(h, Tree(h, x))
    <3>1. d.home[z] = h.home[z] /\ (z # x => d.item[z] = h.item[z])
      BY <2>2, DeletedGood
    <3> QED  BY <1>1, <3>1 DEF Empty
  <2> QED  BY <2>1, <2>2
<1>3. Tree(h, y) \in SUBSET Bodies /\ Closed(h, Tree(h, y))
      /\ (~Empty(h, y) => h.item[y] \in Tree(h, y))
  BY TreeClosed
<1>4. Closed(d, Tree(h, y))
  BY <1>2, <1>3, MarkersAssumption DEF Closed
<1>5. ~Empty(d, y) => d.item[y] \in Tree(h, y)
  BY <1>2, <1>3 DEF Empty
<1>6. Inside(d, Tree(d, y)) \subseteq Inside(d, Tree(h, y))
  BY <1>1, <1>3, <1>4, <1>5, PartLemma
<1> QED  BY <1>2, <1>3, <1>6, MarkersAssumption DEF Inside

\* erase of x with y behind it: y is assigned to x and destroyed.
LEMMA ShiftedFrame ==
  ASSUME NEW h, Good(h), NEW x \in Live(h), NEW y \in Live(h), x # y, h.home[x] = h.home[y],
         ~UsesFreed(h, x, h.item[y]), NEW k \in Assigned(h, x, h.item[y])
  PROVE  SameBut(h, Destroyed(k, y), Part(h, x) \cup Part(h, y))
<1>1. PICK d : d = Deleted(h, x)
  OBVIOUS
<1>2. x \in Items /\ y \in Items
  BY DEF Live
<1>3. Good(d) /\ Empty(d, x) /\ d.home[x] = h.home[x]
  BY <1>1, <1>2, DeletedGood
<1>4. /\ SameBut(h, k, Part(h, x))
      /\ \A z \in Live(d) \ {x} : SameIn(d, k, z)
      /\ k.home[x] = d.home[x] /\ k.lost = d.lost
  BY <1>1, <1>2, AssignedFrame
<1>5. Good(k)
  BY <1>2, AssignedGood
<1>6. y \notin Inside(h, Tree(h, x))
  BY <1>2 DEF Inside, Good, Acyclic
<1>7. y \in Live(d)
  BY <1>1, <1>2, <1>6, DeletedGood DEF Live, FreeItems
<1>8. Live(d) \cap Inside(k, Tree(k, y)) \subseteq Inside(d, Tree(d, y))
  <2>1. \A z \in Live(d) : k.home[z] = d.home[z]
    BY <1>4 DEF SameIn
  <2>2. ~Empty(k, x) => k.item[x] \in FreeBodies(d)
    BY <1>2, <1>3, <1>4, <1>5, NewBodiesAreNew DEF SameIn, Empty
  <2>3. \A z \in Live(d) :
          \/ k.item[z] = d.item[z]
          \/ /\ k.item[z] \in FreeBodies(d) \cup {Null}
             /\ Empty(d, z) \/ d.item[z] \in k.lost
    BY <1>3, <1>4, <2>2 DEF SameIn, Empty
  <2> QED  BY <1>3, <1>4, <1>5, <1>7, <2>1, <2>3, TreeGrows
<1>9. ASSUME NEW z \in Live(h) \ (Part(h, x) \cup Part(h, y))
      PROVE  SameIn(h, Destroyed(k, y), z)
  <2>1. SameIn(h, k, z) /\ z \in Items /\ z # y
    BY <1>4, <1>9 DEF SameBut, Live, Part
  <2>2. z \in Live(d) /\ z \in Live(k)
    BY <1>1, <1>2, <1>9, <2>1, DeletedGood DEF Part, Live, FreeItems, SameIn
  <2>3. z \notin Part(k, y)
    BY <1>1, <1>2, <1>8, <1>9, <2>1, <2>2, TreeShrinks DEF Part
  <2>4. SameIn(k, Destroyed(k, y), z)
    BY <1>2, <1>5, <2>2, <2>3, DeletedFrame DEF SameBut
  <2> QED  BY <2>1, <2>4 DEF SameIn, Empty
<1> QED  BY <1>9 DEF SameBut

-----------------------------------------------------------------------------
\* Every call changes one part.
LEMMA CallFrame ==
  ASSUME NEW x \in Live(heap), Good(heap), Call(x)
  PROVE  \E P \in Parts(heap) : \A z \in Live(heap) \ P : Untouched(z)
<1>1. PICK h, q : h = heap /\ q = heap'
  OBVIOUS
<1>2. Good(h) /\ x \in Live(h) /\ x \in Items
  BY <1>1 DEF Live
<1>3. ASSUME NEW P \in Parts(h), NEW R \in SUBSET P, SameBut(h, q, R)
      PROVE  \E Q \in Parts(heap) : \A z \in Live(heap) \ Q : Untouched(z)
  BY <1>1, <1>3 DEF SameBut, SameIn, Untouched
<1>4. ASSUME NEW y \in Items  PROVE Part(h, y) \in Parts(h)
  BY DEF Parts, Part
<1>5. ASSUME SameBut(h, q, {x}) \/ SameBut(h, q, Part(h, x))
      PROVE  \E Q \in Parts(heap) : \A z \in Live(heap) \ Q : Untouched(z)
  <2>1. {x} \in SUBSET Part(h, x) /\ Part(h, x) \in SUBSET Part(h, x)
    BY DEF Part
  <2> QED  BY <1>2, <1>3, <1>4, <1>5, <2>1
<1>6. CASE SetAtom(x)
  <2>1. PICK b \in FreeBodies(h) : q = NewBody(h, x, b, "atom") /\ Empty(h, x)
    BY <1>1, <1>6 DEF SetAtom
  <2>2. /\ q.home = h.home
        /\ \A z \in Items \ {x} : q.item[z] = h.item[z]
        /\ \A c \in Bodies \ FreeBodies(h) : q.kind[c] = h.kind[c]
    BY <1>2, <2>1, NewBodyGood, NewBodyKeeps DEF Kinds
  <2>3. SameBut(h, q, {x})
    BY <1>2, <2>2, LiveLemma DEF SameBut, SameIn, Empty
  <2> QED  BY <1>5, <2>3
<1>7. CASE AsMap(x)
  BY <1>1, <1>2, <1>5, <1>7, MapsFrame DEF AsMap
<1>8. CASE NewKey(x)
  <2>1. PICK m \in Maps(h, x), y \in FreeItems(h) : q = NewItem(m, y, m.item[x])
    BY <1>1, <1>8 DEF NewKey
  <2>2. SameBut(h, m, {x}) /\ Good(m)
    BY <1>2, MapsFrame, MapsGood
  <2>3. q.item = m.item /\ q.kind = m.kind /\ \A z \in Items \ {y} : q.home[z] = m.home[z]
    BY <2>1, <2>2, HeapType DEF NewItem, Good
  <2>4. SameBut(h, q, {x})
    BY <2>2, <2>3 DEF SameBut, SameIn, Live
  <2> QED  BY <1>5, <2>4
<1>9. CASE AsVector(x)
  BY <1>1, <1>2, <1>5, <1>9, VectorsFrame DEF AsVector
<1>10. ASSUME NEW v \in Vectors(h, x), NEW b \in (Bodies \ FreeBodies(v)) \cup {Null},
              Pushed(v, v.item[x], b)
       PROVE  \E Q \in Parts(heap) : \A z \in Live(heap) \ Q : Untouched(z)
  <2>1. Good(v) /\ v.item[x] \in Bodies /\ v.kind[v.item[x]] = "vector"
    BY <1>2, VectorsGood
  <2>2. /\ SameBut(h, v, {x}) /\ v.home[x] = h.home[x]
        /\ Live(h) \cap Inside(v, Tree(v, x)) \subseteq Inside(h, Tree(h, x))
    BY <1>2, VectorsFrame
  <2>3. Live(h) \subseteq Live(v)
    BY <2>2 DEF SameBut, SameIn, Live, FreeItems
  <2>4. SameBut(v, q, Part(v, x))
    BY <1>1, <1>2, <1>10, <2>1, <2>3, PushedFrame
  <2>5. ASSUME NEW z \in Live(h) \ Part(h, x)  PROVE SameIn(h, q, z)
    <3>1. z # x /\ z \notin Part(v, x)
      BY <2>2, <2>5 DEF Part
    <3> QED  BY <2>2, <2>3, <2>4, <2>5, <3>1 DEF SameBut, SameIn, Empty
  <2> QED  BY <1>5, <2>5 DEF SameBut
<1>11. CASE PushEmpty(x)
  BY <1>1, <1>10, <1>11 DEF PushEmpty
<1>12. ASSUME NEW y \in Live(heap), Push(x, y)
       PROVE  \E Q \in Parts(heap) : \A z \in Live(heap) \ Q : Untouched(z)
  <2>1. PICK v \in Vectors(h, x) : Pushed(v, v.item[x], v.item[y])
    BY <1>1, <1>12 DEF Push
  <2>2. v.item[y] \in (Bodies \ FreeBodies(v)) \cup {Null}
    BY <1>2, VectorsGood, HeapType DEF Good, Owned, Empty, Live
  <2> QED  BY <1>10, <2>1, <2>2
<1>13. CASE EraseEntry(x)
  BY <1>1, <1>2, <1>5, <1>13, DeletedFrame DEF EraseEntry
<1>14. ASSUME NEW y \in Live(heap), Assign(x, y)
       PROVE  \E Q \in Parts(heap) : \A z \in Live(heap) \ Q : Untouched(z)
  <2>1. y \in Items
    BY DEF Live
  <2>2. CASE UsesFreed(h, x, h.item[y])
    BY <1>1, <1>2, <1>5, <1>14, <2>2, DeletedFrame DEF Assign
  <2>3. CASE ~UsesFreed(h, x, h.item[y])
    <3>1. q \in Assigned(h, x, h.item[y])
      BY <1>1, <1>14, <2>3 DEF Assign
    <3> QED  BY <1>2, <1>5, <2>1, <2>3, <3>1, AssignedFrame
  <2> QED  BY <2>2, <2>3
<1>15. ASSUME NEW y \in Live(heap), EraseElement(x, y)
       PROVE  \E Q \in Parts(heap) : \A z \in Live(heap) \ Q : Untouched(z)
  <2>1. y \in Items /\ y \in Live(h) /\ h.home[y] = h.home[x] /\ h.home[x] \in Bodies
    BY <1>1, <1>15 DEF Live, EraseElement, IsIn
  <2>2. CASE q = Destroyed(h, x)
    BY <1>2, <1>5, <2>2, DeletedFrame
  <2>3. ASSUME x # y, NEW k \in Assigned(h, x, h.item[y]), q = Destroyed(k, y)
        PROVE  \E Q \in Parts(heap) : \A z \in Live(heap) \ Q : Untouched(z)
    <3>1. ~UsesFreed(h, x, h.item[y])
      BY <1>2, <2>1, <2>3, BesideIsKept
    <3>2. SameBut(h, q, Part(h, x) \cup Part(h, y))
      BY <1>2, <2>1, <2>3, <3>1, ShiftedFrame
    <3>3. PICK P \in Parts(h) : \A z \in Items : h.home[z] = h.home[x] => Part(h, z) \subseteq P
      BY <1>2, <2>1, OwnerPart
    <3>4. Part(h, x) \cup Part(h, y) \in SUBSET P
      BY <1>2, <2>1, <3>3
    <3> QED  BY <1>3, <3>2, <3>4
  <2> QED  BY <1>1, <1>15, <2>2, <2>3 DEF EraseElement
<1> QED
  BY <1>6, <1>7, <1>8, <1>9, <1>11, <1>12, <1>13, <1>14, <1>15 DEF Call, Lookup

\* No call changes anything but one item and what is below it: a copy of a configuration
\* never changes with its original.
THEOREM ValuesAreSeparate == Spec => OneValueChanges
<1>1. ASSUME IInv, [Next]_vars
      PROVE  (\E P \in Parts(heap) : \A z \in Live(heap) \ P : Untouched(z)) \/ UNCHANGED vars
  <2>1. Good(heap)
    BY <1>1 DEF IInv, Good, TypeOK, Ownership, Trees
  <2> QED  BY <1>1, <2>1, CallFrame DEF Next, Stop
<1>2. IInv /\ [Next]_vars =>
        [\E P \in Parts(heap) : \A z \in Live(heap) \ P : Untouched(z)]_vars
  BY <1>1
<1> QED  BY <1>2, Invariance, PTL DEF Spec, OneValueChanges
-----------------------------------------------------------------------------
\* An item whose tree is left alone stays what it was.
LEMMA Itself ==
  ASSUME NEW h, Good(h), NEW k, Good(k), NEW x \in Items,
         \A z \in Items : h.home[z] \in Tree(h, x) \/ k.home[z] \in Tree(h, x)
                            => k.home[z] = h.home[z] /\ k.item[z] = h.item[z],
         \A b \in Tree(h, x) : k.kind[b] = h.kind[b],
         k.item[x] = h.item[x]
  PROVE  /\ Tree(k, x) = Tree(h, x) /\ Inside(k, Tree(k, x)) = Inside(h, Tree(h, x))
         /\ Alike(h, x, k, x)
<1>1. PICK T, U : T = Tree(h, x) /\ U = Tree(k, x)
  OBVIOUS
<1>2. /\ T \in SUBSET Bodies /\ Closed(h, T) /\ (~Empty(h, x) => h.item[x] \in T)
      /\ U \in SUBSET Bodies /\ Closed(k, U) /\ (~Empty(k, x) => k.item[x] \in U)
  BY <1>1, TreeClosed
<1>3. Closed(k, T)
  BY <1>1, <1>2 DEF Closed
<1>4. U \subseteq T
  BY <1>1, <1>2, <1>3, PartLemma DEF Empty
<1>5. Closed(h, U)
  BY <1>1, <1>2, <1>4 DEF Closed
<1>6. T = U
  BY <1>1, <1>2, <1>4, <1>5, PartLemma DEF Empty
<1>7. Inside(k, T) = Inside(h, T)
  BY <1>1 DEF Inside
<1> DEFINE f == [b \in T |-> b]
           g == [z \in Inside(h, T) |-> z]
<1>8. f \in Bijection(T, T) /\ g \in Bijection(Inside(h, T), Inside(h, T))
  BY DEF Bijection, Injection, Surjection, IsInjective
<1>9. DOMAIN f = T /\ DOMAIN g = Inside(h, T) /\ (\A b \in T : f[b] = b)
      /\ (\A z \in Inside(h, T) : g[z] = z) /\ (\A b : Renamed(f, b) = b)
  BY DEF Renamed
<1> HIDE DEF f, g
<1>10. /\ k.item[x] = Renamed(f, h.item[x])
       /\ \A b \in DOMAIN f : k.kind[f[b]] = h.kind[b]
       /\ \A z \in DOMAIN g : k.home[g[z]] = f[h.home[z]] /\ k.item[g[z]] = Renamed(f, h.item[z])
  BY <1>1, <1>9 DEF Inside
<1>11. Alike(h, x, k, x)
  <2>1. f \in Bijection(Tree(h, x), Tree(k, x))
        /\ g \in Bijection(Inside(h, Tree(h, x)), Inside(k, Tree(k, x)))
    BY <1>1, <1>6, <1>7, <1>8
  <2> QED  BY <1>10, <2>1 DEF Alike
<1> QED  BY <1>1, <1>6, <1>7, <1>11

\* What is alike does not depend on anything else in the heap.
LEMMA AlikeKept ==
  ASSUME NEW h, NEW d, NEW k, NEW x \in Items, NEW y \in Items,
         Tree(d, y) = Tree(h, y), Inside(d, Tree(d, y)) = Inside(h, Tree(h, y)),
         \A b \in Tree(h, y) : d.kind[b] = h.kind[b],
         \A z \in Inside(h, Tree(h, y)) : d.home[z] = h.home[z] /\ d.item[z] = h.item[z],
         d.item[y] = h.item[y], Alike(d, y, k, x)
  PROVE  Alike(h, y, k, x)
<1>1. PICK B, X : B = Tree(h, y) /\ X = Inside(h, Tree(h, y))
  OBVIOUS
<1>2. PICK f \in Bijection(B, Tree(k, x)), g \in Bijection(X, Inside(k, Tree(k, x))) :
        /\ k.item[x] = Renamed(f, d.item[y])
        /\ \A b \in DOMAIN f : k.kind[f[b]] = d.kind[b]
        /\ \A z \in DOMAIN g : k.home[g[z]] = f[d.home[z]] /\ k.item[g[z]] = Renamed(f, d.item[z])
  BY <1>1 DEF Alike
<1>3. DOMAIN f = B /\ DOMAIN g = X
  BY <1>2 DEF Bijection, Injection
<1>4. /\ k.item[x] = Renamed(f, h.item[y])
      /\ \A b \in DOMAIN f : k.kind[f[b]] = h.kind[b]
      /\ \A z \in DOMAIN g : k.home[g[z]] = f[h.home[z]] /\ k.item[g[z]] = Renamed(f, h.item[z])
  BY <1>1, <1>2, <1>3
<1> QED  BY <1>1, <1>2, <1>4 DEF Alike

\* The copy of a tree is alike, and hangs on the item it was made for.
LEMMA CopyIsAlike ==
  ASSUME NEW h, Good(h), NEW x \in Live(h), Empty(h, x),
         NEW y \in Items \ {x}, ~Empty(h, y), x \notin Inside(h, Tree(h, y)),
         NEW k \in Copies(h, x, h.home[x], h.item[y])
  PROVE  Alike(h, y, k, x) /\ Alike(h, y, k, y)
<1>1. PICK b, w : b = h.item[y] /\ w = h.home[x]
  OBVIOUS
<1> DEFINE D == Below(h, b)
           J == Inside(h, D)
<1>2. /\ b \in Bodies \ FreeBodies(h) /\ D = Tree(h, y) /\ J = Inside(h, Tree(h, y))
      /\ x \in Items
      /\ w \in Bodies \cup {Program} /\ (w \in Bodies => h.kind[w] \in {"map", "vector"})
  BY <1>1, EmptyTree, HeapType DEF Live, FreeItems, Good, Typed, Owned, Empty
<1>3. Good(k)
  BY <1>1, <1>2, CopiesGood
<1>4. PICK f \in Injection(D, FreeBodies(h)), g \in Injection(J, FreeItems(h) \ {x}) :
        /\ \A d \in D : k.kind[f[d]] = h.kind[d]
        /\ \A c \in Bodies \ Range(f) : k.kind[c] = h.kind[c]
        /\ \A z \in J : /\ k.home[g[z]] = Renamed(f, h.home[z])
                        /\ k.item[g[z]] = Renamed(f, h.item[z])
        /\ k.home[x] = w /\ k.item[x] = f[b]
        /\ \A z \in Items \ (Range(g) \cup {x}) : k.home[z] = h.home[z] /\ k.item[z] = h.item[z]
        /\ k.lost = h.lost /\ k \in Heaps
  <2>1. k \in Copies(h, x, w, b)
    BY <1>1
  <2> QED  BY <1>2, <2>1, CopiesFields
<1> HIDE DEF D, J
<1>5. /\ DOMAIN f = D /\ \A d \in D : f[d] \in FreeBodies(h) /\ f[d] \in Range(f)
      /\ \A c \in Range(f) : c \in FreeBodies(h) /\ \E d \in D : c = f[d]
      /\ \A d, e \in D : f[d] = f[e] => d = e
  BY InjectionLemma
<1>6. /\ DOMAIN g = J /\ \A z \in J : g[z] \in FreeItems(h) /\ g[z] \in Range(g)
      /\ \A u \in Range(g) : u \in FreeItems(h) /\ u # x /\ \E z \in J : u = g[z]
      /\ \A u, z \in J : g[u] = g[z] => u = z
  BY InjectionLemma
<1>7. /\ D \in SUBSET Bodies /\ Closed(h, D) /\ b \in D /\ D \cap FreeBodies(h) = {}
      /\ J \in SUBSET Items /\ x \notin J /\ \A z \in J : h.home[z] \in D
      /\ \A z \in J : h.item[z] \in D \cup {Null}
  BY <1>1, <1>2, TreeClosed DEF Inside, Closed
<1>8. \A z \in J : k.home[g[z]] = f[h.home[z]]
  BY <1>4, <1>5, <1>7 DEF Renamed
\* Nothing but the copies is in the copies.
<1>9. ASSUME NEW u \in Items, k.home[u] \in Range(f)  PROVE u \in Range(g)
  <2>1. \A c \in Range(f) : c \in Bodies /\ h.kind[c] = "free"
    BY <1>5 DEF FreeBodies
  <2>2. u # x
    BY <1>2, <1>4, <1>9, <2>1, MarkersAssumption
  <2> QED  BY <1>4, <1>9, <2>1, <2>2 DEF Good, Typed
<1>10. Tree(k, x) = Range(f)
  <2>1. PICK U : U = Tree(k, x)
    OBVIOUS
  <2>2. U \in SUBSET Bodies /\ Closed(k, U) /\ (~Empty(k, x) => k.item[x] \in U)
    BY <1>2, <1>3, <2>1, TreeClosed
  <2>3. Range(f) \in SUBSET Bodies /\ f[b] \in Range(f)
    BY <1>5, <1>7 DEF FreeBodies
  <2>4. Closed(k, Range(f))
    <3> SUFFICES ASSUME NEW u \in Items, k.home[u] \in Range(f)
                 PROVE  k.item[u] \in Range(f) \cup {Null}
      BY DEF Closed
    <3>1. PICK z \in J : u = g[z]
      BY <1>6, <1>9
    <3> QED  BY <1>4, <1>5, <1>7, <3>1 DEF Renamed
  <2>5. U \subseteq Range(f)
    BY <1>2, <1>3, <1>4, <2>1, <2>3, <2>4, PartLemma
  <2> DEFINE C == {d \in D : f[d] \in U}
  <2>6. C \in SUBSET Bodies /\ b \in C
    BY <1>4, <1>7, <2>2, <2>3, NullAssumption DEF Empty
  <2>7. Closed(h, C)
    <3> SUFFICES ASSUME NEW z \in Items, h.home[z] \in C, h.item[z] # Null
                 PROVE  h.item[z] \in C
      BY DEF Closed
    <3>1. z \in J /\ h.item[z] \in D
      BY <1>1, <1>2, <1>7 DEF Inside
    <3>2. g[z] \in Items /\ k.home[g[z]] \in U
      BY <1>6, <1>8, <3>1 DEF FreeItems
    <3>3. k.item[g[z]] = f[h.item[z]] /\ f[h.item[z]] \in Bodies
      BY <1>4, <1>5, <3>1, <2>3 DEF Renamed
    <3>4. f[h.item[z]] \in U
      BY <2>2, <3>2, <3>3, NullAssumption DEF Closed
    <3> QED  BY <3>1, <3>4
  <2>8. D \subseteq C
    BY <1>1, <1>2, <2>6, <2>7, PartLemma
  <2> QED  BY <1>5, <2>1, <2>5, <2>8
<1>11. Inside(k, Range(f)) = Range(g)
  <2>1. \A u \in Range(g) : u \in Items /\ k.home[u] \in Range(f)
    BY <1>5, <1>6, <1>7, <1>8 DEF FreeItems
  <2> QED  BY <1>9, <2>1 DEF Inside
<1>12. f \in Bijection(D, Range(f)) /\ g \in Bijection(J, Range(g))
  BY <1>4, <1>5, <1>6 DEF Bijection, Injection, Surjection, IsInjective
<1>13. k.item[x] = Renamed(f, b)
  BY <1>4, <1>5, <1>7 DEF Renamed
<1>14. Alike(h, y, k, x)
  <2>1. f \in Bijection(Tree(h, y), Tree(k, x))
        /\ g \in Bijection(Inside(h, Tree(h, y)), Inside(k, Tree(k, x)))
    BY <1>1, <1>2, <1>10, <1>11, <1>12
  <2> QED  BY <1>1, <1>2, <1>4, <1>5, <1>6, <1>8, <1>13, <2>1 DEF Alike
<1>15. Alike(h, y, k, y)
  <2>1. \A d \in D : k.kind[d] = h.kind[d]
    BY <1>4, <1>5, <1>7
  <2>2. y \notin Range(g)
    BY <1>6 DEF Good, Typed, FreeItems
  <2>3. \A z \in Items : h.home[z] \in D \/ k.home[z] \in D
                           => k.home[z] = h.home[z] /\ k.item[z] = h.item[z]
    <3> SUFFICES ASSUME NEW z \in Items, h.home[z] \in D \/ k.home[z] \in D
                 PROVE  z \notin Range(g) \cup {x}
      BY <1>4
    <3>1. z # x
      BY <1>1, <1>2, <1>4, <1>7 DEF Inside
    <3>2. ASSUME z \in Range(g)  PROVE FALSE
      <4>1. PICK u \in J : z = g[u]
        BY <1>6, <3>2
      <4>2. k.home[z] \in FreeBodies(h)
        BY <1>5, <1>7, <1>8, <4>1
      <4>3. h.home[z] \notin Bodies
        BY <1>6, <3>2, MarkersAssumption DEF FreeItems
      <4> QED  BY <1>7, <4>2, <4>3
    <3> QED  BY <3>1, <3>2
  <2> QED  BY <1>1, <1>2, <1>3, <1>4, <2>1, <2>2, <2>3, Itself
<1> QED  BY <1>14, <1>15

\* Two items that hold nothing are alike.
LEMMA NothingAlike ==
  ASSUME NEW h, NEW k, NEW x, NEW y, h.item[x] = Null, k.item[y] = Null,
         Tree(h, x) = {}, Tree(k, y) = {}
  PROVE  Alike(h, x, k, y)
<1>1. PICK f : f = [b \in {} |-> b]
  OBVIOUS
<1>2. f \in Bijection({}, {}) /\ DOMAIN f = {} /\ Renamed(f, Null) = Null
  BY <1>1 DEF Bijection, Injection, Surjection, IsInjective, Renamed
<1>3. Inside(h, {}) = {} /\ Inside(k, {}) = {}
  BY DEF Inside
<1> QED  BY <1>2, <1>3 DEF Alike

\* Two parts neither of which has the other's item have nothing in common.
LEMMA ApartLemma ==
  ASSUME NEW h, Good(h), NEW x \in Items, NEW y \in Items, x # y,
         x \notin Inside(h, Tree(h, y)), y \notin Inside(h, Tree(h, x))
  PROVE  Tree(h, x) \cap Tree(h, y) = {}
<1>1. CASE Empty(h, x) \/ Empty(h, y)
  BY <1>1 DEF Tree
<1>2. CASE ~Empty(h, x) /\ ~Empty(h, y)
  <2>1. PICK T, U : T = Tree(h, x) /\ U = Tree(h, y)
    OBVIOUS
  <2>2. /\ U \in SUBSET Bodies /\ Closed(h, U) /\ h.item[y] \in U
        /\ \A z \in Items : ~Empty(h, z) =>
             (h.item[z] \in T <=> (z = x \/ z \in Inside(h, T)))
    BY <1>2, <2>1, TreeClosed, TreeLemma
  <2>3. U \ T \in SUBSET Bodies /\ h.item[y] \in U \ T
    BY <1>2, <2>1, <2>2
  <2>4. Closed(h, U \ T)
    BY <2>1, <2>2 DEF Closed, Inside, Empty
  <2>5. U \subseteq U \ T
    BY <2>1, <2>3, <2>4, PartLemma
  <2> QED  BY <2>1, <2>5
<1> QED  BY <1>1, <1>2

LEMMA AssignedIsAlike ==
  ASSUME NEW h, Good(h), NEW x \in Live(h), NEW y \in Live(h), x # y,
         x \notin Inside(h, Tree(h, y)), y \notin Inside(h, Tree(h, x)),
         NEW k \in Assigned(h, x, h.item[y])
  PROVE  Alike(h, y, k, x) /\ Alike(h, y, k, y)
<1>1. PICK d, b, D : d = Deleted(h, x) /\ b = h.item[y] /\ D = Tree(h, y)
  OBVIOUS
<1>2. x \in Items /\ y \in Items /\ h.home[x] # Free
  BY DEF Live, FreeItems
<1>3. /\ D \in SUBSET Bodies /\ D \cap FreeBodies(h) = {} /\ D \cap Tree(h, x) = {}
      /\ (~Empty(h, y) => b \in D)
  BY <1>1, <1>2, TreeClosed, ApartLemma
\* The source is not deleted with the target.
<1>4. /\ Good(d) /\ Empty(d, x) /\ d.home[x] = h.home[x] /\ d.item[y] = b
      /\ \A c \in D : d.kind[c] = h.kind[c]
      /\ \A z \in Items \ Inside(h, Tree(h, x)) :
           d.home[z] = h.home[z] /\ (z # x => d.item[z] = h.item[z])
      /\ \A z \in Inside(h, Tree(h, x)) : d.home[z] = Free
  <2>1. Good(d) /\ Empty(d, x) /\ d.home[x] = h.home[x]
    BY <1>1, <1>2, DeletedGood
  <2>3. ASSUME NEW z \in Items \ Inside(h, Tree(h, x))
        PROVE  d.home[z] = h.home[z] /\ (z # x => d.item[z] = h.item[z])
    BY <1>1, <1>2, DeletedGood
  <2>4. \A z \in Inside(h, Tree(h, x)) : d.home[z] = Free
    BY <1>1, <1>2, DeletedGood
  <2>2. ASSUME NEW c \in D  PROVE d.kind[c] = h.kind[c]
    <3>1. c \in Bodies /\ h.kind[c] # "free" /\ c \notin Tree(h, x)
      BY <1>3, <2>2 DEF FreeBodies
    <3> QED  BY <1>1, <1>2, <3>1, DeletedGood
  <2> QED  BY <1>1, <1>2, <2>1, <2>2, <2>3, <2>4
<1>5. \A z \in Items : h.home[z] \in D \/ d.home[z] \in D
                         => d.home[z] = h.home[z] /\ d.item[z] = h.item[z]
  <2> SUFFICES ASSUME NEW z \in Items, h.home[z] \in D \/ d.home[z] \in D
               PROVE  z # x /\ z \notin Inside(h, Tree(h, x))
    BY <1>4
  <2>1. z # x
    BY <1>1, <1>2, <1>4 DEF Inside
  <2>2. z \notin Inside(h, Tree(h, x))
    BY <1>3, <1>4, MarkersAssumption DEF Inside
  <2> QED  BY <2>1, <2>2
<1>6. Tree(d, y) = D /\ Inside(d, D) = Inside(h, D) /\ Alike(h, y, d, y)
  BY <1>1, <1>2, <1>4, <1>5, Itself
<1>7. k \in ItemCopies(d, x, d.home[x], b)
  BY <1>1, <1>4 DEF Assigned
<1>8. x \in Live(d) /\ x \notin Inside(d, Tree(d, y))
  BY <1>1, <1>2, <1>4, <1>6 DEF Live, FreeItems
<1>9. Alike(d, y, k, x) /\ Alike(d, y, k, y)
  <2>1. CASE b = Null
    <3>1. k = Attached(d, x, d.home[x], Null)
      BY <1>7, <2>1 DEF ItemCopies
    <3>2. k.item[x] = Null /\ k.item[y] = Null
      BY <1>2, <1>4, <2>1, <3>1, HeapType DEF Attached, Good
    <3>3. Tree(d, y) = {} /\ Tree(k, x) = {} /\ Tree(k, y) = {}
      BY <1>4, <2>1, <3>2 DEF Tree, Empty
    <3> QED  BY <1>4, <2>1, <3>2, <3>3, NothingAlike
  <2>2. CASE b # Null
    <3>1. ~Empty(d, y) /\ k \in Copies(d, x, d.home[x], d.item[y])
      BY <1>4, <1>7, <2>2 DEF ItemCopies, Empty
    <3> QED  BY <1>2, <1>4, <1>8, <3>1, CopyIsAlike
  <2> QED  BY <2>1, <2>2
<1>10. \A z \in Inside(h, D) : d.home[z] = h.home[z] /\ d.item[z] = h.item[z]
  BY <1>5 DEF Inside
<1> QED  BY <1>1, <1>2, <1>4, <1>6, <1>9, <1>10, AlikeKept

\* An assignment copies all there is below its source, wherever that is, and leaves the
\* source what it was.
THEOREM AssignmentsCopy == Spec => []CopiesAreComplete
<1>1. ASSUME IInv  PROVE CopiesAreComplete
  <2>1. PICK h : h = heap
    OBVIOUS
  <2>2. Good(h)
    BY <1>1, <2>1 DEF IInv, Good, TypeOK, Ownership, Trees
  <2>3. ASSUME NEW x \in Live(h), NEW y \in Live(h),
               x \notin {y} \cup Inside(h, Tree(h, y)), y \notin {x} \cup Inside(h, Tree(h, x)),
               NEW k \in Assigned(h, x, h.item[y])
        PROVE  Alike(h, y, k, x) /\ Alike(h, y, k, y)
    BY <2>2, <2>3, AssignedIsAlike
  <2> QED  BY <2>1, <2>3 DEF CopiesAreComplete
<1>2. IInv => CopiesAreComplete
  BY <1>1
<1> QED  BY <1>2, Invariance, PTL
=============================================================================
