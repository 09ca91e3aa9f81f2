---------------------------- MODULE BodiesLeaks ----------------------------
(***************************************************************************)
(* That nothing leaks but what getOrCreateVector forgets: every body that  *)
(* is allocated hangs on a variable of the program or on a forgotten body. *)
(* Where the provers would need an induction along the owners of a body,   *)
(* they get a set: bodies that hang on nothing are owned by each other.    *)
(***************************************************************************)
EXTENDS BodiesProofs

\* The bodies U are allocated, and nobody outside of U has them.
Adrift(h, U) ==
  /\ U \in SUBSET (Bodies \ FreeBodies(h)) /\ U # {}
  /\ \A c \in U : c \notin h.lost /\ \A x \in Items : h.item[x] = c => h.home[x] \in U

Rooted(h) ==
  /\ \A x \in Items : h.home[x] = Program => x \in Variables
  /\ \A U \in SUBSET Bodies : ~Adrift(h, U)

IInv2 == IInv /\ Rooted(heap)

\* A live item is in no free body, and whoever has a body is live.
LEMMA HomeLemma ==
  ASSUME NEW h, Good(h), NEW x \in Items
  PROVE  /\ h.home[x] \in Bodies => h.home[x] \notin FreeBodies(h)
         /\ ~Empty(h, x) => x \in Live(h)
BY DEF Good, Typed, FreeBodies, Live, FreeItems, Empty

LEMMA RootedLemma ==
  ASSUME Good(heap), Rooted(heap)
  PROVE  NothingElseLeaks
<1> DEFINE Hangs(c) == \/ \E x \in Variables : c \in Tree(heap, x)
                       \/ \E d \in heap.lost : c \in Below(heap, d)
           U == {c \in Bodies \ FreeBodies(heap) : ~Hangs(c)}
<1>1. ASSUME NEW c \in U  PROVE c \notin heap.lost
  BY BelowLemma DEF Good
<1>2. ASSUME NEW c \in U, NEW x \in Items, heap.item[x] = c
      PROVE  heap.home[x] \in U
  <2>1. ~Empty(heap, x) /\ x \in Live(heap)
    BY <1>2, NullAssumption, HomeLemma DEF Empty
  <2>2. heap.home[x] \in Bodies \cup {Program}
    BY <2>1, HeapType DEF Good, Live, FreeItems
  <2>3. heap.home[x] # Program
    <3> SUFFICES ASSUME heap.home[x] = Program  PROVE FALSE
      OBVIOUS
    <3>1. x \in Variables
      BY DEF Rooted
    <3>2. c \in Tree(heap, x)
      BY <1>2, <2>1, TreeLemma
    <3> QED  BY <1>2, <3>1, <3>2
  <2>4. ~Hangs(heap.home[x])
    <3>1. ASSUME NEW d \in Bodies, heap.home[x] \in Below(heap, d)  PROVE c \in Below(heap, d)
      BY <1>2, <2>1, <3>1, BelowLemma DEF Good, Closed, Empty
    <3>2. ASSUME NEW v \in Variables, heap.home[x] \in Tree(heap, v)
          PROVE  c \in Tree(heap, v)
      BY <3>1, <3>2, EmptyTree, VariablesAssumption DEF Good
    <3>3. heap.lost \subseteq Bodies
      BY HeapType DEF Good
    <3> QED  BY <1>2, <3>1, <3>2, <3>3
  <2> QED  BY <2>2, <2>3, <2>4, HomeLemma
<1>3. U = {}
  <2>1. U \in SUBSET (Bodies \ FreeBodies(heap))
    OBVIOUS
  <2> HIDE DEF U
  <2> QED  BY <1>1, <1>2, <2>1 DEF Rooted, Adrift
<1> QED  BY <1>3 DEF NothingElseLeaks

\* If k still has what h has, what is adrift in k is new.
LEMMA AdriftIsNew ==
  ASSUME NEW h, Good(h), Rooted(h), NEW k, h.lost \subseteq k.lost,
         \A z \in Live(h) : k.home[z] = h.home[z],
         \A z \in Live(h) : k.item[z] = h.item[z] \/ Empty(h, z) \/ h.item[z] \in k.lost,
         NEW U, Adrift(k, U)
  PROVE  U \subseteq FreeBodies(h)
<1> DEFINE V == U \ FreeBodies(h)
<1>1. ASSUME NEW c \in V, NEW z \in Items, h.item[z] = c
      PROVE  h.home[z] \in V
  <2>1. ~Empty(h, z) /\ z \in Live(h)
    BY <1>1, NullAssumption, HomeLemma DEF Empty, Adrift
  <2>2. k.item[z] = c /\ k.home[z] = h.home[z]
    BY <1>1, <2>1 DEF Adrift
  <2>3. h.home[z] \in U
    BY <1>1, <2>2 DEF Adrift
  <2> QED  BY <2>3, HomeLemma DEF Adrift
<1>2. V \in SUBSET (Bodies \ FreeBodies(h)) /\ \A c \in V : c \notin h.lost
  BY DEF Adrift
<1> HIDE DEF V
<1>3. V = {}
  BY <1>1, <1>2 DEF Rooted, Adrift
<1> QED  BY <1>3 DEF V
-----------------------------------------------------------------------------
\* A new body is the body of an item that was there before.
LEMMA NewBodyRooted ==
  ASSUME NEW h, Good(h), Rooted(h), NEW x \in Live(h), NEW b \in FreeBodies(h),
         NEW k, Good(k), k.home = h.home, k.item[x] = b, h.lost \subseteq k.lost,
         \A z \in Items \ {x} : k.item[z] = h.item[z],
         Empty(h, x) \/ h.item[x] \in k.lost,
         \A c \in FreeBodies(h) \ {b} : c \in FreeBodies(k)
  PROVE  Rooted(k)
<1> SUFFICES ASSUME NEW U \in SUBSET Bodies, Adrift(k, U)
             PROVE  FALSE
  BY DEF Rooted
<1>1. x \in Items
  BY DEF Live
<1>2. U \subseteq FreeBodies(h)
  BY AdriftIsNew DEF Live
<1>3. U = {b}
  BY <1>2 DEF Adrift
<1>4. h.home[x] = b
  BY <1>1, <1>3 DEF Adrift
<1> QED  BY <1>1, <1>4, HomeLemma DEF FreeBodies

LEMMA MadeRooted ==
  ASSUME NEW h, Good(h), Rooted(h), NEW x \in Live(h), Empty(h, x),
         NEW b \in FreeBodies(h), NEW kind \in Kinds
  PROVE  Rooted(NewBody(h, x, b, kind))
<1>1. PICK k : k = NewBody(h, x, b, kind)
  OBVIOUS
<1>2. Good(k) /\ k.home = h.home /\ k.item[x] = b /\ k.lost = h.lost
      /\ \A z \in Items \ {x} : k.item[z] = h.item[z]
  BY <1>1, NewBodyGood, NewBodyKeeps DEF Live
<1>3. \A c \in FreeBodies(h) \ {b} : c \in FreeBodies(k)
  BY <1>1, HeapType DEF NewBody, FreeBodies, Good
<1> QED  BY <1>1, <1>2, <1>3, NewBodyRooted

\* The same for an address that becomes an item, or is one no more.
LEMMA PlacedRooted ==
  ASSUME NEW h, Good(h), Rooted(h), NEW x \in Items, Empty(h, x), NEW w \in Bodies \cup {Free},
         NEW k, k = [h EXCEPT !.home[x] = w]
  PROVE  Rooted(k)
<1>1. /\ k.kind = h.kind /\ k.item = h.item /\ k.lost = h.lost
      /\ k.home[x] = w /\ \A z \in Items \ {x} : k.home[z] = h.home[z]
  BY HeapType DEF Good
<1>2. \A z \in Items : k.home[z] = Program => z \in Variables
  BY <1>1, MarkersAssumption DEF Rooted
<1>3. ASSUME NEW U \in SUBSET Bodies, Adrift(k, U)
      PROVE  Adrift(h, U)
  BY <1>1, <1>3, NullAssumption DEF Adrift, FreeBodies, Empty
<1> QED  BY <1>2, <1>3 DEF Rooted

\* delete leaves nothing adrift: what it does not free has its owners as before.
LEMMA DeletedRooted ==
  ASSUME NEW h, Good(h), Rooted(h), NEW x \in Items
  PROVE  Rooted(Deleted(h, x))
<1>1. PICK k : k = Deleted(h, x)
  OBVIOUS
<1>2. Good(k) /\ Empty(k, x) /\ k.lost = h.lost
  BY <1>1, DeletedGood
<1>3. \A z \in Items \ Inside(h, Tree(h, x)) :
        k.home[z] = h.home[z] /\ (z # x => k.item[z] = h.item[z])
  BY <1>1, DeletedGood
<1>4. \A z \in Inside(h, Tree(h, x)) : k.home[z] = Free /\ k.item[z] = Null
  BY <1>1, DeletedGood
<1>5. \A z \in Items : k.home[z] = Program => z \in Variables
  BY <1>3, <1>4, MarkersAssumption DEF Rooted
<1>6. ASSUME NEW U \in SUBSET Bodies, Adrift(k, U)
      PROVE  Adrift(h, U)
  <2>1. \A c \in U : c \notin FreeBodies(h) /\ c \notin h.lost
    <3> SUFFICES ASSUME NEW c \in U  PROVE c \notin FreeBodies(h)
      BY <1>2, <1>6 DEF Adrift
    <3>1. PICK z \in Items : k.item[z] = c
      BY <1>2, <1>6 DEF Adrift, Good, Owned
    <3>2. h.item[z] = c /\ ~Empty(h, z)
      BY <1>2, <1>3, <1>4, <3>1, NullAssumption DEF Empty
    <3> QED  BY <3>2 DEF Good, Owned
  <2>2. ASSUME NEW c \in U, NEW z \in Items, h.item[z] = c
        PROVE  h.home[z] \in U
    <3>1. PICK y \in Items : k.item[y] = c
      BY <1>2, <1>6, <2>2 DEF Adrift, Good, Owned
    <3>2. h.item[y] = c /\ ~Empty(h, y) /\ k.home[y] = h.home[y]
      BY <1>2, <1>3, <1>4, <3>1, NullAssumption DEF Empty
    <3>3. y = z
      BY <2>2, <3>2 DEF Good, Owned
    <3> QED  BY <1>6, <3>1, <3>2, <3>3 DEF Adrift
  <2> QED  BY <1>6, <2>1, <2>2 DEF Adrift
<1>7. Rooted(k)
  BY <1>5, <1>6 DEF Rooted
<1> QED  BY <1>1, <1>7

\* If copies were adrift, so would be their originals: the copy of the root has its owner.
LEMMA CopiesRooted ==
  ASSUME NEW h, Good(h), Rooted(h), NEW x \in Items, Empty(h, x),
         NEW w \in Bodies \cup {Program}, w \in Bodies => h.kind[w] \in {"map", "vector"},
         w = Program => x \in Variables, x \in Live(h) => h.home[x] = w,
         NEW b \in Bodies \ FreeBodies(h), NEW k \in Copies(h, x, w, b)
  PROVE  Rooted(k)
<1> DEFINE D == Below(h, b)
           J == Inside(h, D)
<1>1. /\ D \in SUBSET (Bodies \ FreeBodies(h)) /\ J \in SUBSET Items
      /\ \A z \in J : h.home[z] \in D
      /\ \A d \in D \ {b} : \E z \in J : h.item[z] = d
  BY BelowLemma, OwnerLemma, BelowAllocated DEF Inside, Good
<1>2. PICK f \in Injection(D, FreeBodies(h)), g \in Injection(J, FreeItems(h) \ {x}) :
        /\ \A d \in D : k.kind[f[d]] = h.kind[d]
        /\ \A c \in Bodies \ Range(f) : k.kind[c] = h.kind[c]
        /\ \A z \in J : /\ k.home[g[z]] = Renamed(f, h.home[z])
                        /\ k.item[g[z]] = Renamed(f, h.item[z])
        /\ k.home[x] = w /\ k.item[x] = f[b]
        /\ \A y \in Items \ (Range(g) \cup {x}) : k.home[y] = h.home[y] /\ k.item[y] = h.item[y]
        /\ k.lost = h.lost /\ k \in Heaps
  BY CopiesFields
<1>3. b \in D
  BY BelowLemma DEF Good
<1> HIDE DEF D, J
<1>4. /\ DOMAIN f = D /\ \A d \in D : f[d] \in FreeBodies(h) /\ f[d] \in Range(f)
      /\ \A c \in Range(f) : c \in FreeBodies(h) /\ \E d \in D : c = f[d]
      /\ \A d, e \in D : f[d] = f[e] => d = e
  BY <1>2, InjectionLemma
<1>5. /\ \A z \in J : g[z] \in Items /\ g[z] \in Range(g)
      /\ \A y \in Range(g) : y \in FreeItems(h) /\ \E z \in J : y = g[z]
  BY <1>2, InjectionLemma DEF FreeItems
<1>6. ASSUME NEW y \in Items, k.home[y] = Program  PROVE y \in Variables
  <2>1. CASE y \in Range(g)
    <3>1. PICK z \in J : y = g[z]
      BY <1>5, <2>1
    <3>2. k.home[y] \in FreeBodies(h)
      BY <1>1, <1>2, <1>4, <3>1 DEF Renamed
    <3> QED  BY <1>6, <3>2, MarkersAssumption DEF FreeBodies
  <2>2. CASE y \notin Range(g)
    BY <1>2, <1>6, <2>2 DEF Rooted
  <2> QED  BY <2>1, <2>2
<1>7. ASSUME NEW U \in SUBSET Bodies, Adrift(k, U)
      PROVE  FALSE
  <2> DEFINE V == {d \in D : f[d] \in U}
  <2>1. \A z \in Live(h) : z \in Items /\ z \notin Range(g)
    BY <1>5 DEF Live
  <2>2. U \subseteq FreeBodies(h)
    <3>1. \A z \in Live(h) : k.home[z] = h.home[z] /\ (k.item[z] = h.item[z] \/ Empty(h, z))
      BY <1>2, <2>1
    <3> QED  BY <1>2, <1>7, <3>1, AdriftIsNew
  <2>3. U \subseteq Range(f)
    BY <1>2, <1>7, <2>2 DEF Adrift, FreeBodies
  <2>4. f[b] \notin U
    <3> SUFFICES ASSUME f[b] \in U  PROVE FALSE
      OBVIOUS
    <3>1. w \in U
      BY <1>2, <1>7 DEF Adrift
    <3> QED  BY <2>2, <3>1 DEF FreeBodies
  <2>5. ASSUME NEW d \in V  PROVE d \notin h.lost /\ d \in Bodies \ FreeBodies(h)
    <3>1. PICK z \in J : h.item[z] = d
      BY <1>1, <2>4, <2>5
    <3> QED  BY <1>1, <3>1, NullAssumption DEF Good, Owned, Empty
  <2>6. ASSUME NEW d \in V, NEW z \in Items, h.item[z] = d  PROVE h.home[z] \in V
    <3>1. PICK y \in J : h.item[y] = d
      BY <1>1, <2>4, <2>6
    <3>2. y = z
      BY <1>1, <2>5, <2>6, <3>1, NullAssumption DEF Good, Owned, Empty
    <3>3. g[z] \in Items /\ k.item[g[z]] = f[d] /\ k.home[g[z]] = f[h.home[z]] /\ h.home[z] \in D
      BY <1>1, <1>2, <1>4, <1>5, <2>6, <3>2 DEF Renamed
    <3> QED  BY <1>7, <2>6, <3>3 DEF Adrift
  <2>7. V # {}
    BY <1>4, <1>7, <2>3 DEF Adrift
  <2> HIDE DEF V
  <2>8. V \in SUBSET (Bodies \ FreeBodies(h))
    BY <2>5
  <2> QED  BY <2>5, <2>6, <2>7, <2>8 DEF Rooted, Adrift
<1> QED  BY <1>6, <1>7 DEF Rooted

\* Elements that move are adrift only if they were before.
LEMMA MovedWithRooted ==
  ASSUME NEW h, Good(h), Rooted(h),
         NEW B \in SUBSET (Bodies \ FreeBodies(h)), NEW X \in SUBSET Live(h),
         h.lost \cap B = {}, \A y \in X : h.home[y] \in Bodies,
         \A y \in Items : h.home[y] \in B \/ (~Empty(h, y) /\ h.item[y] \in B) => y \in X,
         NEW k \in MovedWith(h, B, X)
  PROVE  Rooted(k)
<1>1. PICK f \in Injection(B, FreeBodies(h)), g \in Injection(X, FreeItems(h)) :
        /\ k \in Heaps /\ k.lost = h.lost
        /\ \A c \in B : k.kind[c] = "free"
        /\ \A d \in B : k.kind[f[d]] = h.kind[d]
        /\ \A c \in Bodies \ (B \cup Range(f)) : k.kind[c] = h.kind[c]
        /\ \A y \in X : k.home[y] = Free /\ k.item[y] = Null
        /\ \A z \in X : /\ k.home[g[z]] = Renamed(f, h.home[z])
                        /\ k.item[g[z]] = Renamed(f, h.item[z])
        /\ \A y \in Items \ (X \cup Range(g)) : k.home[y] = h.home[y] /\ k.item[y] = h.item[y]
  BY MovedWithFields
<1>2. /\ DOMAIN f = B /\ \A d \in B : f[d] \in FreeBodies(h) /\ f[d] \in Range(f)
      /\ \A c \in Range(f) : c \in FreeBodies(h) /\ \E d \in B : c = f[d]
  BY <1>1, InjectionLemma
<1>3. /\ \A z \in X : z \in Items /\ g[z] \in Items
      /\ \A y \in Range(g) : y \in FreeItems(h) /\ \E z \in X : y = g[z]
  BY <1>1, InjectionLemma DEF FreeItems, Live
<1>4. ASSUME NEW y \in Items, k.home[y] = Program  PROVE y \in Variables
  <2>1. CASE y \in Range(g)
    <3>1. PICK z \in X : y = g[z]
      BY <1>3, <2>1
    <3>2. k.home[y] \in Bodies
      BY <1>1, <1>2, <3>1 DEF Renamed, FreeBodies
    <3> QED  BY <1>4, <3>2, MarkersAssumption
  <2>2. CASE y \notin Range(g)
    BY <1>1, <1>4, <2>2, MarkersAssumption DEF Rooted
  <2> QED  BY <2>1, <2>2
<1>5. ASSUME NEW U \in SUBSET Bodies, Adrift(k, U)
      PROVE  FALSE
  <2> DEFINE V == (U \ FreeBodies(h)) \cup {d \in B : f[d] \in U}
  <2>1. U \cap B = {}
    BY <1>1, <1>5 DEF Adrift, FreeBodies
  <2>2. ASSUME NEW c \in U  PROVE c \in V \/ \E d \in V : c = f[d]
    <3>1. CASE c \in Range(f)
      BY <1>2, <2>2, <3>1
    <3>2. CASE c \notin Range(f)
      BY <1>1, <1>5, <2>1, <2>2, <3>2 DEF Adrift, FreeBodies
    <3> QED  BY <3>1, <3>2
  <2>3. V \in SUBSET (Bodies \ FreeBodies(h)) /\ V # {} /\ \A c \in V : c \notin h.lost
    <3>1. V # {}
      BY <1>5, <2>2 DEF Adrift
    <3>2. V \in SUBSET (Bodies \ FreeBodies(h))
      BY <1>5 DEF Adrift
    <3>3. \A c \in V : c \notin h.lost
      BY <1>1, <1>5 DEF Adrift
    <3> QED  BY <3>1, <3>2, <3>3
  <2>4. ASSUME NEW z \in Items, h.home[z] \in Bodies, Renamed(f, h.home[z]) \in U
        PROVE  h.home[z] \in V
    BY <1>2, <2>4, HomeLemma DEF Renamed
  <2>5. ASSUME NEW c \in V, NEW z \in Items, h.item[z] = c  PROVE h.home[z] \in V
    <3>1. ~Empty(h, z) /\ z \in Live(h)
      BY <2>3, <2>5, NullAssumption, HomeLemma DEF Empty
    <3>2. CASE z \in X
      <4>1. g[z] \in Items /\ k.item[g[z]] = Renamed(f, c) /\ k.home[g[z]] = Renamed(f, h.home[z])
        BY <1>1, <1>3, <2>5, <3>2
      <4>2. Renamed(f, c) \in U
        BY <1>2, <2>1, <2>5 DEF Renamed
      <4>3. Renamed(f, h.home[z]) \in U
        BY <1>5, <4>1, <4>2 DEF Adrift
      <4> QED  BY <2>4, <3>2, <4>3
    <3>3. CASE z \notin X
      <4>1. c \notin B /\ c \in U
        BY <2>5, <3>1, <3>3
      <4>2. k.item[z] = c /\ k.home[z] = h.home[z]
        BY <1>1, <1>3, <2>5, <3>1, <3>3 DEF Live
      <4>3. h.home[z] \in U
        BY <1>5, <4>1, <4>2 DEF Adrift
      <4> QED  BY <4>3, HomeLemma
    <3> QED  BY <3>2, <3>3
  <2> HIDE DEF V
  <2> QED  BY <2>3, <2>5 DEF Rooted, Adrift
<1> QED  BY <1>4, <1>5 DEF Rooted
-----------------------------------------------------------------------------
\* erase of an entry, or of the last element.
LEMMA DestroyedRooted ==
  ASSUME NEW h, Good(h), Rooted(h), NEW x \in Items
  PROVE  Rooted(Destroyed(h, x))
<1>1. PICK d : d = Deleted(h, x)
  OBVIOUS
<1>2. Good(d) /\ Empty(d, x) /\ Rooted(d)
  BY <1>1, DeletedGood, DeletedRooted
<1> QED  BY <1>1, <1>2, PlacedRooted DEF Destroyed, NewItem

\* A copy that may be empty.
LEMMA ItemCopiesRooted ==
  ASSUME NEW h, Good(h), Rooted(h), NEW x \in Items, Empty(h, x),
         NEW w \in Bodies \cup {Program}, w \in Bodies => h.kind[w] \in {"map", "vector"},
         w = Program => x \in Variables, x \in Live(h) => h.home[x] = w,
         NEW b \in (Bodies \ FreeBodies(h)) \cup {Null}, NEW k \in ItemCopies(h, x, w, b)
  PROVE  Rooted(k)
<1>1. CASE b = Null
  <2>1. k = Attached(h, x, w, Null)
    BY <1>1 DEF ItemCopies
  <2>2. /\ k.kind = h.kind /\ k.lost = h.lost /\ \A z \in Items : k.item[z] = h.item[z]
        /\ k.home[x] = w /\ \A z \in Items \ {x} : k.home[z] = h.home[z]
    BY <2>1, HeapType DEF Attached, Good, Empty
  <2>3. \A z \in Items : k.home[z] = Program => z \in Variables
    BY <2>2 DEF Rooted
  <2>4. ASSUME NEW U \in SUBSET Bodies, Adrift(k, U)
        PROVE  Adrift(h, U)
    BY <2>2, <2>4, NullAssumption DEF Adrift, FreeBodies, Empty
  <2> QED  BY <2>3, <2>4 DEF Rooted
<1>2. CASE b # Null
  BY <1>2, CopiesRooted DEF ItemCopies
<1> QED  BY <1>1, <1>2

\* operator= of a source that was not deleted with the target.
LEMMA AssignedRooted ==
  ASSUME NEW h, Good(h), Rooted(h), NEW x \in Live(h), NEW y \in Items,
         ~UsesFreed(h, x, h.item[y]), NEW k \in Assigned(h, x, h.item[y])
  PROVE  Rooted(k)
<1>1. PICK d, b : d = Deleted(h, x) /\ b = h.item[y]
  OBVIOUS
<1>2. x \in Items /\ h.home[x] \in Bodies \cup {Program}
  BY HeapType DEF Good, Live, FreeItems
<1>3. Good(d) /\ Rooted(d) /\ Empty(d, x) /\ d.home[x] = h.home[x]
  BY <1>1, <1>2, DeletedGood, DeletedRooted
<1>4. b \in (Bodies \ FreeBodies(d)) \cup {Null}
  BY <1>1, HeapType DEF Good, UsesFreed, FreeBodies
<1>5. h.home[x] \in Bodies => d.kind[h.home[x]] \in {"map", "vector"}
  BY <1>2, <1>3 DEF Good, Typed
<1>6. h.home[x] = Program => x \in Variables
  BY <1>2 DEF Rooted
<1>7. k \in ItemCopies(d, x, h.home[x], b)
  BY <1>1 DEF Assigned
<1> QED  BY <1>2, <1>3, <1>4, <1>5, <1>6, <1>7, ItemCopiesRooted

\* The conversion to a map.
LEMMA MapsRooted ==
  ASSUME NEW h, Good(h), Rooted(h), NEW x \in Live(h), NEW k \in Maps(h, x)
  PROVE  Rooted(k)
<1>1. CASE Empty(h, x)
  <2>1. PICK b \in FreeBodies(h) : k = NewBody(h, x, b, "map")
    <3>1. ~Holds(h, x, "map")
      BY <1>1 DEF Holds
    <3>2. Maps(h, x) = {NewBody(h, x, b, "map") : b \in FreeBodies(h)}
      BY <1>1, <3>1 DEF Maps
    <3> QED  BY <3>2
  <2> QED  BY <1>1, <2>1, MadeRooted DEF Kinds
<1>2. CASE ~Empty(h, x)
  BY <1>2 DEF Maps
<1> QED  BY <1>1, <1>2

\* The conversion to a vector.
LEMMA VectorsRooted ==
  ASSUME NEW h, Good(h), Rooted(h), NEW x \in Live(h), NEW k \in Vectors(h, x)
  PROVE  Rooted(k)
<1>1. x \in Items /\ h.home[x] # Free
  BY DEF Live, FreeItems
<1>2. CASE Empty(h, x)
  <2>1. PICK b \in FreeBodies(h) : k = NewBody(h, x, b, "vector")
    <3>1. ~Holds(h, x, "vector")
      BY <1>2 DEF Holds
    <3>2. Vectors(h, x) = {NewBody(h, x, b, "vector") : b \in FreeBodies(h)}
      BY <1>2, <3>1 DEF Vectors
    <3> QED  BY <3>2
  <2> QED  BY <1>2, <2>1, MadeRooted DEF Kinds
<1>3. CASE Holds(h, x, "vector")
  BY <1>3 DEF Vectors, Holds
<1>4. CASE ~Empty(h, x) /\ ~Holds(h, x, "vector")
  <2>1. PICK v \in FreeBodies(h), y \in FreeItems(h) :
          k \in Copies(Wrapped(h, x, v), y, v, h.item[x])
    BY <1>4 DEF Vectors
  <2>2. PICK u : u = Wrapped(h, x, v)
    OBVIOUS
  <2>3. /\ Good(u) /\ u.home = h.home /\ u.item[x] = v /\ u.kind[v] = "vector"
        /\ h.item[x] \in Bodies \ FreeBodies(u) /\ u.lost = h.lost \cup {h.item[x]}
        /\ \A z \in Items \ {x} : u.item[z] = h.item[z]
        /\ \A c \in Bodies \ FreeBodies(h) : u.kind[c] = h.kind[c]
    BY <1>4, <2>2, WrappedGood
  <2>4. \A c \in FreeBodies(h) \ {v} : c \in FreeBodies(u)
    BY <1>1, <1>4, <2>2, HeapType DEF Wrapped, NewBody, FreeBodies, Good
  <2>5. Rooted(u)
    BY <2>3, <2>4, NewBodyRooted
  <2>6. /\ v \in Bodies /\ v # Program /\ y \in Items /\ Empty(u, y) /\ y \notin Live(u)
    BY <2>3, MarkersAssumption DEF FreeBodies, FreeItems, Good, Typed, Live
  <2>7. k \in Copies(u, y, v, h.item[x])
    BY <2>1, <2>2
  <2> QED  BY <2>3, <2>5, <2>6, <2>7, CopiesRooted
<1> QED  BY <1>2, <1>3, <1>4

\* A vector that grows.
LEMMA MovedRooted ==
  ASSUME NEW h, Good(h), Rooted(h), NEW v \in Bodies, NEW E \in SUBSET Inside(h, {v}),
         NEW k \in Moved(h, E)
  PROVE  Rooted(k)
<1> DEFINE B == UNION {Tree(h, e) : e \in E}
           X == E \cup Inside(h, B)
<1>1. \A e \in E : e \in Items /\ h.home[e] = v
  BY DEF Inside
<1>2. ASSUME NEW e \in E
      PROVE  /\ Tree(h, e) \in SUBSET (Bodies \ FreeBodies(h))
             /\ h.lost \cap Tree(h, e) = {}
             /\ \A y \in Items : ~Empty(h, y) /\ h.item[y] \in Tree(h, e) =>
                  y = e \/ y \in Inside(h, Tree(h, e))
  BY <1>1, TreeLemma, EmptyTree DEF Good
<1>3. B \in SUBSET (Bodies \ FreeBodies(h)) /\ h.lost \cap B = {}
  BY <1>2
<1>4. X \in SUBSET Live(h) /\ \A y \in X : h.home[y] \in Bodies
  BY <1>1, <1>3, MarkersAssumption DEF Inside, Live, FreeItems
<1>5. \A y \in Items : h.home[y] \in B \/ (~Empty(h, y) /\ h.item[y] \in B) => y \in X
  BY <1>2 DEF Inside
<1>6. k \in MovedWith(h, B, X)
  BY DEF Moved
<1> HIDE DEF B, X
<1> QED  BY <1>3, <1>4, <1>5, <1>6, MovedWithRooted

\* push_back
LEMMA PushedRooted ==
  ASSUME NEW h, Good(h), Rooted(h), NEW v \in Bodies, h.kind[v] = "vector",
         NEW b \in (Bodies \ FreeBodies(h)) \cup {Null}, Pushed(h, v, b)
  PROVE  Rooted(heap')
<1>1. PICK p \in Appended(h, v, b) : heap' \in {p} \cup Moved(p, Inside(h, {v}))
  BY DEF Pushed
<1>2. PICK y \in FreeItems(h) : p \in ItemCopies(h, y, v, b)
  BY <1>1 DEF Appended
<1>3. y \in Items /\ Empty(h, y) /\ y \notin Live(h) /\ v # Program
  BY MarkersAssumption DEF FreeItems, Good, Typed, Live
<1>4. Good(p) /\ \A e \in Live(h) \ {y} : p.home[e] = h.home[e]
  BY <1>2, <1>3, ItemCopiesGood
<1>5. Inside(h, {v}) \in SUBSET Inside(p, {v})
  BY <1>2, <1>4, MarkersAssumption DEF Inside, Live, FreeItems
<1>6. Rooted(p)
  BY <1>2, <1>3, ItemCopiesRooted
<1>7. PICK q : q = heap'
  OBVIOUS
<1>8. Rooted(q)
  BY <1>1, <1>4, <1>5, <1>6, <1>7, MovedRooted
<1> QED  BY <1>7, <1>8
-----------------------------------------------------------------------------
\* Nothing is allocated at first.
LEMMA InitRooted == Init => Rooted(heap)
<1> SUFFICES ASSUME Init  PROVE Rooted(heap)
  OBVIOUS
<1>1. \A z \in Items : heap.home[z] = Program => z \in Variables
  BY MarkersAssumption DEF Init
<1>2. \A U \in SUBSET Bodies : ~Adrift(heap, U)
  BY DEF Init, Adrift, FreeBodies
<1> QED  BY <1>1, <1>2 DEF Rooted

\* No call leaves anything adrift.
LEMMA CallRooted ==
  ASSUME NEW x \in Live(heap), Good(heap), Rooted(heap), Call(x)
  PROVE  Rooted(heap')
<1>1. PICK h, q : h = heap /\ q = heap'
  OBVIOUS
<1>2. Good(h) /\ Rooted(h) /\ x \in Live(h) /\ x \in Items
  BY <1>1 DEF Live
<1>3. CASE SetAtom(x)
  <2>1. PICK b \in FreeBodies(h) : q = NewBody(h, x, b, "atom") /\ Empty(h, x)
    BY <1>1, <1>3 DEF SetAtom
  <2> QED  BY <1>1, <1>2, <2>1, MadeRooted DEF Kinds
<1>4. CASE AsMap(x)
  BY <1>1, <1>2, <1>4, MapsRooted DEF AsMap
<1>5. CASE NewKey(x)
  <2>1. PICK m \in Maps(h, x), y \in FreeItems(h) : q = NewItem(m, y, m.item[x])
    BY <1>1, <1>5 DEF NewKey
  <2>2. Good(m) /\ Rooted(m) /\ m.home = h.home /\ m.item[x] \in Bodies
    BY <1>2, MapsGood, MapsRooted
  <2>3. y \in Items /\ Empty(m, y)
    BY <2>2 DEF FreeItems, Good, Typed
  <2>4. Rooted(q)
    BY <2>1, <2>2, <2>3, PlacedRooted DEF NewItem
  <2> QED  BY <1>1, <2>4
<1>6. CASE AsVector(x)
  BY <1>1, <1>2, <1>6, VectorsRooted DEF AsVector
<1>7. ASSUME NEW v \in Vectors(h, x), NEW b \in (Bodies \ FreeBodies(v)) \cup {Null},
             Pushed(v, v.item[x], b)
      PROVE  Rooted(heap')
  <2>1. Good(v) /\ Rooted(v) /\ v.item[x] \in Bodies /\ v.kind[v.item[x]] = "vector"
    BY <1>2, VectorsGood, VectorsRooted
  <2> QED  BY <1>7, <2>1, PushedRooted
<1>8. CASE PushEmpty(x)
  BY <1>1, <1>7, <1>8 DEF PushEmpty
<1>9. ASSUME NEW y \in Live(heap), Push(x, y)
      PROVE  Rooted(heap')
  <2>1. PICK v \in Vectors(h, x) : Pushed(v, v.item[x], v.item[y])
    BY <1>1, <1>9 DEF Push
  <2>2. v.item[y] \in (Bodies \ FreeBodies(v)) \cup {Null}
    BY <1>2, VectorsGood, HeapType DEF Good, Owned, Empty, Live
  <2> QED  BY <1>7, <2>1, <2>2
<1>10. CASE EraseEntry(x)
  BY <1>1, <1>2, <1>10, DestroyedRooted DEF EraseEntry
<1>11. ASSUME NEW y \in Live(heap), Assign(x, y)
       PROVE  Rooted(heap')
  <2>1. y \in Items
    BY DEF Live
  <2>2. CASE UsesFreed(h, x, h.item[y])
    BY <1>1, <1>2, <1>11, <2>2, DeletedRooted DEF Assign
  <2>3. CASE ~UsesFreed(h, x, h.item[y])
    <3>1. q \in Assigned(h, x, h.item[y])
      BY <1>1, <1>11, <2>3 DEF Assign
    <3>2. Rooted(q)
      BY <1>2, <2>1, <2>3, <3>1, AssignedRooted
    <3> QED  BY <1>1, <3>2
  <2> QED  BY <2>2, <2>3
<1>12. ASSUME NEW y \in Live(heap), EraseElement(x, y)
       PROVE  Rooted(heap')
  <2>1. y \in Items /\ h.home[y] = h.home[x]
    BY <1>1, <1>12 DEF Live, EraseElement
  <2>2. CASE q = Destroyed(h, x)
    BY <1>1, <1>2, <2>2, DestroyedRooted
  <2>3. ASSUME x # y, NEW k \in Assigned(h, x, h.item[y]), q = Destroyed(k, y)
        PROVE  Rooted(q)
    <3>1. ~UsesFreed(h, x, h.item[y])
      BY <1>2, <2>1, <2>3, BesideIsKept
    <3>2. Good(k) /\ Rooted(k)
      BY <1>2, <2>1, <3>1, AssignedGood, AssignedRooted
    <3> QED  BY <2>1, <2>3, <3>2, DestroyedRooted
  <2> QED  BY <1>1, <1>12, <2>2, <2>3 DEF EraseElement
<1> QED
  BY <1>3, <1>4, <1>5, <1>6, <1>8, <1>9, <1>10, <1>11, <1>12 DEF Call, Lookup

LEMMA IInv2Next ==
  ASSUME IInv2, [Next]_vars
  PROVE  IInv2'
<1>1. IInv' /\ Good(heap) /\ Rooted(heap)
  BY IInvNext DEF IInv2, IInv, Good, TypeOK, Ownership, Trees
<1>2. CASE UNCHANGED vars
  BY <1>1, <1>2 DEF IInv2, vars
<1>3. ASSUME NEW x \in Live(heap), Call(x)
      PROVE  IInv2'
  BY <1>1, <1>3, CallRooted DEF IInv2
<1> QED  BY <1>2, <1>3 DEF Next, Stop

\* All memory hangs on the variables of the program, but for what getOrCreateVector
\* forgets with all that is below.
THEOREM OnlyWrappingLeaks == Spec => []NothingElseLeaks
<1>1. Init => IInv2
  BY IInvInit, InitRooted DEF IInv2
<1>2. IInv2 => NothingElseLeaks
  BY RootedLemma DEF IInv2, IInv, Good, TypeOK, Ownership, Trees
<1> QED  BY <1>1, <1>2, IInv2Next, PTL DEF Spec
=============================================================================
