---------------------------- MODULE BodiesProofs ----------------------------
(***************************************************************************)
(* That the items of a program form trees of bodies they own, however many *)
(* there are.  Every call is put together from a few changes of the heap   *)
(* (a new body, a new item, delete, copy, move), and each of those keeps a *)
(* good heap good.                                                         *)
(***************************************************************************)
EXTENDS Bodies, TLAPS

Good(h) == Typed(h) /\ Owned(h) /\ Acyclic(h)

IInv == TypeOK /\ Ownership /\ Trees

\* What the provers need to know of the fields of a heap.
LEMMA HeapType ==
  ASSUME NEW h, Typed(h)
  PROVE  /\ h = [kind |-> h.kind, home |-> h.home, item |-> h.item, lost |-> h.lost]
         /\ h.kind \in [Bodies -> Kinds \cup {"free"}]
         /\ h.home \in [Items -> Bodies \cup {Program, Free}]
         /\ h.item \in [Items -> Bodies \cup {Null}]
         /\ h.lost \in SUBSET Bodies
BY DEF Typed, Heaps

\* Below(h, b) is the least closed set with b in it.
LEMMA BelowLemma ==
  ASSUME NEW h, Typed(h), NEW b \in Bodies
  PROVE  /\ Below(h, b) \in SUBSET Bodies
         /\ b \in Below(h, b)
         /\ Closed(h, Below(h, b))
         /\ \A C \in SUBSET Bodies : b \in C /\ Closed(h, C) => Below(h, b) \subseteq C
<1>1. Below(h, b) \in SUBSET Bodies /\ b \in Below(h, b)
  BY DEF Below
<1>2. \A C \in SUBSET Bodies : b \in C /\ Closed(h, C) => Below(h, b) \subseteq C
  BY DEF Below
<1>3. Closed(h, Below(h, b))
  <2> SUFFICES ASSUME NEW x \in Items, h.home[x] \in Below(h, b), h.item[x] # Null
               PROVE  h.item[x] \in Below(h, b)
    BY DEF Closed
  <2>1. h.item[x] \in Bodies
    BY HeapType
  <2> SUFFICES ASSUME NEW C \in SUBSET Bodies, b \in C, Closed(h, C)
               PROVE  h.item[x] \in C
    BY <2>1 DEF Below
  <2> QED  BY <1>2 DEF Closed
<1> QED  BY <1>1, <1>2, <1>3

\* A body in a tree, other than the root, has its owner in the tree.
LEMMA OwnerLemma ==
  ASSUME NEW h, Typed(h), NEW b \in Bodies, NEW c \in Below(h, b), c # b
  PROVE  \E x \in Inside(h, Below(h, b)) : h.item[x] = c
<1> DEFINE C == {d \in Below(h, b) : d = b \/ \E x \in Inside(h, Below(h, b)) : h.item[x] = d}
<1>1. C \in SUBSET Bodies /\ b \in C
  BY BelowLemma
<1>2. Closed(h, C)
  <2> SUFFICES ASSUME NEW x \in Items, h.home[x] \in C, h.item[x] # Null
               PROVE  h.item[x] \in C
    BY DEF Closed
  <2>1. h.home[x] \in Below(h, b) /\ x \in Inside(h, Below(h, b))
    BY DEF Inside
  <2>2. h.item[x] \in Below(h, b)
    BY <2>1, BelowLemma DEF Closed
  <2> QED  BY <2>1, <2>2
<1> HIDE DEF C
<1>3. c \in C
  BY <1>1, <1>2, BelowLemma
<1> QED  BY <1>3 DEF C

\* The item of a body in the tree of x is x, or inside the tree; and none of these
\* bodies was forgotten.
LEMMA TreeLemma ==
  ASSUME NEW h, Good(h), NEW x \in Items, ~Empty(h, x)
  PROVE  /\ Tree(h, x) \in SUBSET Bodies
         /\ h.item[x] \in Tree(h, x)
         /\ x \notin Inside(h, Tree(h, x))
         /\ \A y \in Items : ~Empty(h, y) =>
              (h.item[y] \in Tree(h, x) <=> (y = x \/ y \in Inside(h, Tree(h, x))))
         /\ h.lost \cap Tree(h, x) = {}
         /\ Tree(h, x) \cap FreeBodies(h) = {}
<1> DEFINE B == Below(h, h.item[x])
<1>1. h.item[x] \in Bodies /\ Tree(h, x) = B
  BY HeapType DEF Good, Empty, Tree
<1>2. /\ B \in SUBSET Bodies /\ h.item[x] \in B /\ Closed(h, B)
      /\ \A c \in B \ {h.item[x]} : \E y \in Inside(h, B) : h.item[y] = c
  BY <1>1, BelowLemma, OwnerLemma DEF Good
<1> HIDE DEF B
<1>3. x \notin Inside(h, B)
  BY <1>1 DEF Good, Acyclic, Inside
<1>4. ASSUME NEW y \in Items, ~Empty(h, y)
      PROVE  h.item[y] \in B <=> (y = x \/ y \in Inside(h, B))
  <2>1. ASSUME h.item[y] \in B, y # x  PROVE y \in Inside(h, B)
    <3>1. h.item[y] # h.item[x]
      BY <2>1, <1>4 DEF Good, Owned
    <3>2. PICK z \in Inside(h, B) : h.item[z] = h.item[y]
      BY <2>1, <3>1, <1>2
    <3> QED  BY <3>2, <1>4 DEF Good, Owned, Inside
  <2>2. ASSUME y \in Inside(h, B)  PROVE h.item[y] \in B
    BY <2>2, <1>2, <1>4 DEF Closed, Inside, Empty
  <2> QED  BY <2>1, <2>2, <1>2
<1>5. \A c \in B : c \notin h.lost /\ c \notin FreeBodies(h)
  <2> SUFFICES ASSUME NEW c \in B  PROVE c \notin h.lost /\ c \notin FreeBodies(h)
    OBVIOUS
  <2>1. PICK y \in Items : h.item[y] = c
    BY <1>2 DEF Inside
  <2>2. ~Empty(h, y)
    BY <2>1, <1>2, NullAssumption DEF Empty
  <2> QED  BY <2>1, <2>2 DEF Good, Owned
<1> QED  BY <1>1, <1>2, <1>3, <1>4, <1>5

\* It is enough to know a closed set that has the body of x and not its home.
LEMMA AcyclicBy ==
  ASSUME NEW h, Typed(h), NEW x \in Items, ~Empty(h, x),
         NEW C \in SUBSET Bodies, h.item[x] \in C, Closed(h, C), h.home[x] \notin C
  PROVE  h.home[x] \notin Tree(h, x)
<1>1. h.item[x] \in Bodies
  BY HeapType DEF Empty
<1>2. Below(h, h.item[x]) \subseteq C
  BY <1>1, BelowLemma
<1> QED  BY <1>2 DEF Tree

\* What the tree of an item without a body is.
LEMMA EmptyTree ==
  ASSUME NEW h, Typed(h), NEW x \in Items
  PROVE  /\ Empty(h, x) => Tree(h, x) = {}
         /\ ~Empty(h, x) => Tree(h, x) = Below(h, h.item[x]) /\ h.item[x] \in Bodies
BY HeapType DEF Tree, Empty

\* A heap in which every item is where it was with the body it had, or has none now, or
\* is outside of all bodies.
LEMMA AcyclicLess ==
  ASSUME NEW h, NEW k, Typed(h), Acyclic(h), Typed(k),
         \A z \in Items : \/ k.item[z] = Null
                          \/ k.item[z] = h.item[z] /\ k.home[z] = h.home[z]
  PROVE  Acyclic(k)
<1> SUFFICES ASSUME NEW x \in Items, ~Empty(k, x)  PROVE k.home[x] \notin Tree(k, x)
  BY EmptyTree DEF Acyclic
<1>1. k.item[x] = h.item[x] /\ k.home[x] = h.home[x] /\ ~Empty(h, x)
  BY DEF Empty
<1> DEFINE C == Below(h, h.item[x])
<1>2. /\ C \in SUBSET Bodies /\ h.item[x] \in C /\ Closed(h, C) /\ h.home[x] \notin C
  BY <1>1, EmptyTree, BelowLemma DEF Acyclic
<1> HIDE DEF C
<1>3. Closed(k, C)
  BY <1>2 DEF Closed
<1> QED  BY <1>1, <1>2, <1>3, AcyclicBy

-----------------------------------------------------------------------------
\* A body that was free gets an item to point to it; nothing is in it yet.
LEMMA NewBodyAcyclic ==
  ASSUME NEW h, NEW k, Good(h), Typed(k), NEW x \in Items, NEW b \in FreeBodies(h),
         k.home = h.home, k.item = [h.item EXCEPT ![x] = b]
  PROVE  Acyclic(k)
<1>1. \A z \in Items : h.home[z] # b
  BY DEF Good, Typed, FreeBodies
<1> SUFFICES ASSUME NEW y \in Items, ~Empty(k, y)  PROVE k.home[y] \notin Tree(k, y)
  BY EmptyTree DEF Acyclic
<1>2. /\ k.item[x] = b /\ \A z \in Items \ {x} : k.item[z] = h.item[z]
      /\ b \in Bodies
  BY HeapType DEF Good, FreeBodies
<1>3. CASE y = x
  <2>1. {b} \in SUBSET Bodies /\ Closed(k, {b}) /\ k.home[x] \notin {b}
    BY <1>1, <1>2 DEF Closed
  <2> QED  BY <1>2, <1>3, <2>1, AcyclicBy
<1>4. CASE y # x
  <2> DEFINE C == Below(h, h.item[y])
  <2>1. ~Empty(h, y) /\ k.item[y] = h.item[y]
    BY <1>2, <1>4 DEF Empty
  <2>2. /\ C \in SUBSET Bodies /\ h.item[y] \in C /\ Closed(h, C) /\ h.home[y] \notin C
    BY <2>1, EmptyTree, BelowLemma DEF Good, Acyclic
  <2> HIDE DEF C
  <2>3. Closed(k, C \cup {b})
    BY <1>1, <1>2, <2>2 DEF Closed
  <2> QED  BY <1>1, <1>2, <2>1, <2>2, <2>3, AcyclicBy
<1> QED  BY <1>3, <1>4

LEMMA NewBodyGood ==
  ASSUME NEW h, Good(h), NEW x \in Live(h), Empty(h, x),
         NEW b \in FreeBodies(h), NEW kind \in Kinds
  PROVE  /\ Good(NewBody(h, x, b, kind))
         /\ NewBody(h, x, b, kind).home = h.home
         /\ NewBody(h, x, b, kind).item[x] = b
         /\ NewBody(h, x, b, kind).kind[b] = kind
<1> DEFINE k == NewBody(h, x, b, kind)
<1>1. /\ x \in Items /\ h.home[x] # Free /\ b \in Bodies /\ h.kind[b] = "free"
      /\ kind # "free"
  BY DEF Live, FreeItems, FreeBodies, Kinds
<1>2. /\ k = [kind |-> k.kind, home |-> k.home, item |-> k.item, lost |-> k.lost]
      /\ k.kind = [h.kind EXCEPT ![b] = kind] /\ k.home = h.home
      /\ k.item = [h.item EXCEPT ![x] = b] /\ k.lost = h.lost
  <2>1. PICK K, H, I, L : h = [kind |-> K, home |-> H, item |-> I, lost |-> L]
    BY HeapType DEF Good
  <2>2. k = [kind |-> [K EXCEPT ![b] = kind], home |-> H, item |-> [I EXCEPT ![x] = b],
             lost |-> L]
    <3>1. h.kind = K /\ h.item = I
      BY <2>1
    <3>2. k = [h EXCEPT !.kind = [K EXCEPT ![b] = kind], !.item = [I EXCEPT ![x] = b]]
      BY <3>1, Zenon DEF NewBody
    <3> QED  BY <2>1, <3>2
  <2> HIDE DEF k
  <2> QED  BY <2>1, <2>2
<1> HIDE DEF k
<1>3. /\ k.kind[b] = kind /\ \A c \in Bodies \ {b} : k.kind[c] = h.kind[c]
      /\ k.item[x] = b /\ \A z \in Items \ {x} : k.item[z] = h.item[z]
  BY <1>1, <1>2, HeapType DEF Good
<1>4. Typed(k)
  <2>1. k \in Heaps
    BY <1>1, <1>2, HeapType DEF Good, Heaps
  <2>2. ASSUME NEW z \in Items
        PROVE  /\ k.home[z] \in Bodies => k.kind[k.home[z]] \in {"map", "vector"}
               /\ k.home[z] = Free => Empty(k, z)
    BY <1>1, <1>2, <1>3 DEF Good, Typed, Empty
  <2> QED  BY <2>1, <2>2 DEF Typed
<1>5. Owned(k)
  <2>1. \A z \in Items : h.item[z] # b
    BY <1>1, NullAssumption DEF Good, Owned, Empty, FreeBodies
  <2>2. FreeBodies(k) = FreeBodies(h) \ {b}
    BY <1>1, <1>3 DEF FreeBodies
  <2>3. b \notin h.lost
    BY DEF Good, Owned
  <2>4. \A c \in Bodies \ FreeBodies(k) : c \in k.lost \/ \E z \in Items : k.item[z] = c
    BY <1>1, <1>2, <1>3, <2>2, NullAssumption DEF Good, Owned, Empty
  <2> QED  BY <1>1, <1>2, <1>3, <2>1, <2>2, <2>3, <2>4 DEF Good, Owned, Empty
<1>6. Acyclic(k)
  BY <1>1, <1>2, <1>4, NewBodyAcyclic
<1> QED  BY <1>2, <1>3, <1>4, <1>5, <1>6 DEF Good, k

\* A new body changes no other item and no other body.
LEMMA NewBodyKeeps ==
  ASSUME NEW h, Good(h), NEW x \in Items, Empty(h, x),
         NEW b \in FreeBodies(h), NEW kind \in Kinds
  PROVE  /\ \A z \in Items : ~Empty(h, z) => NewBody(h, x, b, kind).item[z] = h.item[z]
         /\ \A c \in Bodies \ FreeBodies(h) : NewBody(h, x, b, kind).kind[c] = h.kind[c]
         /\ \A z \in Items \ {x} : NewBody(h, x, b, kind).item[z] = h.item[z]
         /\ NewBody(h, x, b, kind).lost = h.lost
BY HeapType DEF NewBody, Good, Empty

\* getOrCreateVector: the old body of x is forgotten.
LEMMA WrappedGood ==
  ASSUME NEW h, Good(h), NEW x \in Live(h), ~Empty(h, x), NEW v \in FreeBodies(h)
  PROVE  /\ Good(Wrapped(h, x, v))
         /\ Wrapped(h, x, v).home = h.home
         /\ Wrapped(h, x, v).item[x] = v
         /\ Wrapped(h, x, v).kind[v] = "vector"
         /\ h.item[x] \in Bodies \ FreeBodies(Wrapped(h, x, v))
         /\ \A z \in Items \ {x} : Wrapped(h, x, v).item[z] = h.item[z]
         /\ \A c \in Bodies \ FreeBodies(h) : Wrapped(h, x, v).kind[c] = h.kind[c]
         /\ Wrapped(h, x, v).lost = h.lost \cup {h.item[x]}
<1> DEFINE k == Wrapped(h, x, v)
<1>1. /\ x \in Items /\ h.home[x] # Free /\ v \in Bodies /\ h.kind[v] = "free"
      /\ h.item[x] \in Bodies /\ h.kind[h.item[x]] # "free"
  BY HeapType DEF Live, FreeItems, FreeBodies, Good, Owned, Empty
<1>2. /\ k = [kind |-> k.kind, home |-> k.home, item |-> k.item, lost |-> k.lost]
      /\ k.kind = [h.kind EXCEPT ![v] = "vector"] /\ k.home = h.home
      /\ k.item = [h.item EXCEPT ![x] = v] /\ k.lost = h.lost \cup {h.item[x]}
  <2>1. PICK K, H, I, L : h = [kind |-> K, home |-> H, item |-> I, lost |-> L]
    BY HeapType DEF Good
  <2>2. k = [kind |-> [K EXCEPT ![v] = "vector"], home |-> H, item |-> [I EXCEPT ![x] = v],
             lost |-> L \cup {I[x]}]
    <3>1. h.kind = K /\ h.item = I
      BY <2>1
    <3>2. NewBody(h, x, v, "vector") =
            [h EXCEPT !.kind = [K EXCEPT ![v] = "vector"], !.item = [I EXCEPT ![x] = v]]
      BY <3>1, Zenon DEF NewBody
    <3>3. NewBody(h, x, v, "vector") =
            [kind |-> [K EXCEPT ![v] = "vector"], home |-> H, item |-> [I EXCEPT ![x] = v],
             lost |-> L]
      BY <2>1, <3>2
    <3>4. k = [NewBody(h, x, v, "vector") EXCEPT !.lost = @ \cup {I[x]}]
      BY <3>1, Zenon DEF Wrapped
    <3> HIDE DEF k
    <3> QED  BY <3>3, <3>4
  <2> HIDE DEF k
  <2> QED  BY <2>1, <2>2
<1> HIDE DEF k
<1>3. /\ k.kind[v] = "vector" /\ \A c \in Bodies \ {v} : k.kind[c] = h.kind[c]
      /\ k.item[x] = v /\ \A z \in Items \ {x} : k.item[z] = h.item[z]
  BY <1>1, <1>2, HeapType DEF Good
<1>4. Typed(k)
  <2>1. k \in Heaps
    BY <1>1, <1>2, HeapType DEF Good, Heaps, Kinds
  <2>2. ASSUME NEW z \in Items
        PROVE  /\ k.home[z] \in Bodies => k.kind[k.home[z]] \in {"map", "vector"}
               /\ k.home[z] = Free => Empty(k, z)
    BY <1>1, <1>2, <1>3 DEF Good, Typed, Empty
  <2> QED  BY <2>1, <2>2 DEF Typed
<1>5. Owned(k)
  <2>1. \A z \in Items : h.item[z] # v
    BY <1>1, NullAssumption DEF Good, Owned, Empty, FreeBodies
  <2>2. FreeBodies(k) = FreeBodies(h) \ {v}
    BY <1>1, <1>3 DEF FreeBodies
  <2>3. v \notin h.lost /\ h.item[x] \notin FreeBodies(k) /\ h.item[x] # v
    BY <1>1, <2>2 DEF Good, Owned, FreeBodies
  <2>4. \A c \in Bodies \ FreeBodies(k) : c \in k.lost \/ \E z \in Items : k.item[z] = c
    BY <1>1, <1>2, <1>3, <2>2 DEF Good, Owned
  <2>5. \A z \in Items \ {x} : ~Empty(k, z) => k.item[z] # h.item[x]
    BY <1>1, <1>3 DEF Good, Owned, Empty
  <2> QED  BY <1>1, <1>2, <1>3, <2>1, <2>2, <2>3, <2>4, <2>5 DEF Good, Owned, Empty
<1>6. Acyclic(k)
  BY <1>1, <1>2, <1>4, NewBodyAcyclic
<1>7. h.item[x] \in Bodies \ FreeBodies(k)
  BY <1>1, <1>3 DEF FreeBodies
<1>8. \A c \in Bodies \ FreeBodies(h) : k.kind[c] = h.kind[c]
  BY <1>1, <1>3 DEF FreeBodies
<1> QED  BY <1>2, <1>3, <1>4, <1>5, <1>6, <1>7, <1>8 DEF Good, k

\* An item without a body goes into a map or a vector, or a free address becomes one.
LEMMA PlacedGood ==
  ASSUME NEW h, NEW k, Good(h), NEW x \in Items, Empty(h, x),
         NEW w \in Bodies \cup {Program, Free},
         w \in Bodies => h.kind[w] \in {"map", "vector"},
         k = [h EXCEPT !.home[x] = w]
  PROVE  Good(k)
<1>1. /\ k = [kind |-> k.kind, home |-> k.home, item |-> k.item, lost |-> k.lost]
      /\ k.kind = h.kind /\ k.home = [h.home EXCEPT ![x] = w]
      /\ k.item = h.item /\ k.lost = h.lost
  BY HeapType DEF Good
<1>2. k.home[x] = w /\ \A z \in Items \ {x} : k.home[z] = h.home[z]
  BY <1>1, HeapType DEF Good
<1>3. Typed(k)
  <2>1. k \in Heaps
    BY <1>1, HeapType DEF Good, Heaps
  <2>2. ASSUME NEW z \in Items
        PROVE  /\ k.home[z] \in Bodies => k.kind[k.home[z]] \in {"map", "vector"}
               /\ k.home[z] = Free => Empty(k, z)
    BY <1>1, <1>2 DEF Good, Typed, Empty
  <2> QED  BY <2>1, <2>2 DEF Typed
<1>4. Owned(k)
  BY <1>1 DEF Good, Owned, Empty, FreeBodies
<1>5. Acyclic(k)
  <2>1. \A z \in Items : \/ k.item[z] = Null
                         \/ k.item[z] = h.item[z] /\ k.home[z] = h.home[z]
    BY <1>1, <1>2 DEF Empty
  <2>2. Typed(h) /\ Acyclic(h)
    BY DEF Good
  <2> QED  BY <1>3, <2>1, <2>2, AcyclicLess
<1> QED  BY <1>3, <1>4, <1>5 DEF Good

-----------------------------------------------------------------------------
\* What delete writes.
LEMMA RemoveFields ==
  ASSUME NEW h, h = [kind |-> h.kind, home |-> h.home, item |-> h.item, lost |-> h.lost],
         NEW B, NEW X
  PROVE  Remove(h, B, X) =
           [kind |-> [b \in Bodies |-> IF b \in B THEN "free" ELSE h.kind[b]],
            home |-> [y \in Items |-> IF y \in X THEN Free ELSE h.home[y]],
            item |-> [y \in Items |-> IF y \in X THEN Null ELSE h.item[y]],
            lost |-> h.lost]
<1>1. PICK K, H, I, L : h = [kind |-> K, home |-> H, item |-> I, lost |-> L]
  OBVIOUS
<1>2. h.kind = K /\ h.home = H /\ h.item = I /\ h.lost = L
  BY <1>1
<1> DEFINE K2 == [b \in Bodies |-> IF b \in B THEN "free" ELSE h.kind[b]]
           H2 == [y \in Items |-> IF y \in X THEN Free ELSE h.home[y]]
           I2 == [y \in Items |-> IF y \in X THEN Null ELSE h.item[y]]
<1>3. Remove(h, B, X) = [h EXCEPT !.kind = K2, !.home = H2, !.item = I2]
  BY Zenon DEF Remove
<1> HIDE DEF K2, H2, I2
<1>4. Remove(h, B, X) = [kind |-> K2, home |-> H2, item |-> I2, lost |-> h.lost]
  BY <1>1, <1>2, <1>3
<1> QED  BY <1>4 DEF K2, H2, I2

\* delete: what is below x goes, with the items in it, and nothing else.
LEMMA DeletedGood ==
  ASSUME NEW h, Good(h), NEW x \in Items
  PROVE  /\ Good(Deleted(h, x))
         /\ Empty(Deleted(h, x), x)
         /\ Deleted(h, x).home[x] = h.home[x]
         /\ \A b \in Bodies : h.kind[b] # "free" =>
              \/ Deleted(h, x).kind[b] = h.kind[b]
              \/ ~Empty(h, x) /\ b \in Tree(h, x) /\ Deleted(h, x).kind[b] = "free"
         /\ \A y \in Items \ Inside(h, Tree(h, x)) :
              /\ Deleted(h, x).home[y] = h.home[y]
              /\ y # x => Deleted(h, x).item[y] = h.item[y]
         /\ \A y \in Inside(h, Tree(h, x)) :
              Deleted(h, x).home[y] = Free /\ Deleted(h, x).item[y] = Null
         /\ Deleted(h, x).lost = h.lost
<1>1. CASE Empty(h, x)
  <2>1. Deleted(h, x) = h
    BY <1>1 DEF Deleted
  <2>2. Inside(h, Tree(h, x)) = {}
    BY <1>1 DEF Tree, Inside
  <2> QED  BY <1>1, <2>1, <2>2
<1>2. CASE ~Empty(h, x)
  <2> DEFINE B == Tree(h, x)
             X == Inside(h, B)
             k == Deleted(h, x)
  <2>1. /\ B \in SUBSET Bodies /\ h.item[x] \in B /\ x \notin X
        /\ \A y \in Items : ~Empty(h, y) => (h.item[y] \in B <=> (y = x \/ y \in X))
        /\ h.lost \cap B = {} /\ B \cap FreeBodies(h) = {}
    BY <1>2, TreeLemma
  <2>2. X \subseteq Items /\ \A y \in Items : h.home[y] \in B <=> y \in X
    BY DEF Inside
  <2> HIDE DEF B, X
  <2>3. /\ k = [kind |-> k.kind, home |-> k.home, item |-> k.item, lost |-> k.lost]
        /\ k.kind = [b \in Bodies |-> IF b \in B THEN "free" ELSE h.kind[b]]
        /\ k.home = [y \in Items |-> IF y \in X THEN Free ELSE h.home[y]]
        /\ k.item = [y \in Items |-> IF y = x \/ y \in X THEN Null ELSE h.item[y]]
        /\ k.lost = h.lost
    <3>1. PICK K, H, I, L : h = [kind |-> K, home |-> H, item |-> I, lost |-> L]
      BY HeapType DEF Good
    <3>2. Remove(h, B, X) =
            [kind |-> [b \in Bodies |-> IF b \in B THEN "free" ELSE h.kind[b]],
             home |-> [y \in Items |-> IF y \in X THEN Free ELSE h.home[y]],
             item |-> [y \in Items |-> IF y \in X THEN Null ELSE h.item[y]],
             lost |-> h.lost]
      BY HeapType, RemoveFields DEF Good
    <3>3. k = [Remove(h, B, X) EXCEPT
                 !.item = [[y \in Items |-> IF y \in X THEN Null ELSE h.item[y]]
                             EXCEPT ![x] = Null]]
      <4>1. k = [Remove(h, B, X) EXCEPT !.item[x] = Null]
        BY <1>2 DEF Deleted, B, X
      <4>2. Remove(h, B, X).item = [y \in Items |-> IF y \in X THEN Null ELSE h.item[y]]
        BY <3>2
      <4> HIDE DEF k
      <4> QED  BY <4>1, <4>2, Zenon
    <3> HIDE DEF k
    <3>4. [[y \in Items |-> IF y \in X THEN Null ELSE h.item[y]] EXCEPT ![x] = Null]
            = [y \in Items |-> IF y = x \/ y \in X THEN Null ELSE h.item[y]]
      OBVIOUS
    <3> QED  BY <3>2, <3>3, <3>4
  <2> HIDE DEF k
  <2>4. Typed(k)
    <3>1. k \in Heaps
      BY <2>3, HeapType DEF Good, Heaps
    <3>2. ASSUME NEW z \in Items
          PROVE  /\ k.home[z] \in Bodies => k.kind[k.home[z]] \in {"map", "vector"}
                 /\ k.home[z] = Free => Empty(k, z)
      BY <2>2, <2>3, MarkersAssumption DEF Good, Typed, Empty
    <3> QED  BY <3>1, <3>2 DEF Typed
  <2>5. Owned(k)
    <3>1. \A y \in Items : ~Empty(k, y) =>
            ~Empty(h, y) /\ k.item[y] = h.item[y] /\ h.item[y] \notin B
      BY <2>1, <2>3 DEF Empty
    <3>2. FreeBodies(k) = FreeBodies(h) \cup B
      BY <2>1, <2>3 DEF FreeBodies
    <3>3. ASSUME NEW c \in Bodies \ FreeBodies(k)
          PROVE  c \in k.lost \/ \E z \in Items : k.item[z] = c
      <4>1. c \notin B /\ c \in Bodies \ FreeBodies(h)
        BY <3>2, <3>3
      <4>2. SUFFICES ASSUME NEW z \in Items, h.item[z] = c  PROVE k.item[z] = c
        BY <2>3, <4>1 DEF Good, Owned
      <4>3. ~Empty(h, z)
        BY <4>1, <4>2, NullAssumption DEF Empty
      <4> QED  BY <2>1, <2>3, <4>1, <4>2, <4>3
    <3>4. \A y, z \in Items : ~Empty(k, y) /\ k.item[y] = k.item[z] => y = z
      BY <3>1 DEF Good, Owned, Empty
    <3>5. \A y \in Items : ~Empty(k, y) => k.item[y] \notin FreeBodies(k) \cup k.lost
      BY <2>3, <3>1, <3>2 DEF Good, Owned
    <3>6. k.lost \cap FreeBodies(k) = {}
      BY <2>1, <2>3, <3>2 DEF Good, Owned
    <3> QED  BY <3>3, <3>4, <3>5, <3>6 DEF Owned
  <2>6. Acyclic(k)
    <3>1. \A z \in Items : \/ k.item[z] = Null
                           \/ k.item[z] = h.item[z] /\ k.home[z] = h.home[z]
      BY <2>3
    <3> QED  BY <2>4, <3>1, AcyclicLess DEF Good
  <2>7. Empty(k, x) /\ k.home[x] = h.home[x]
    BY <2>1, <2>3 DEF Empty
  <2>8. \A b \in Bodies : k.kind[b] = IF b \in B THEN "free" ELSE h.kind[b]
    BY <2>3
  <2>9. /\ \A y \in Items \ X : k.home[y] = h.home[y] /\ (y # x => k.item[y] = h.item[y])
        /\ \A y \in X : k.home[y] = Free /\ k.item[y] = Null
    BY <2>2, <2>3
  <2>10. Good(k)
    BY <2>4, <2>5, <2>6 DEF Good
  <2>11. \A b \in Bodies : h.kind[b] # "free" =>
           k.kind[b] = h.kind[b] \/ (~Empty(h, x) /\ b \in B /\ k.kind[b] = "free")
    BY <1>2, <2>8
  <2>12. k.lost = h.lost
    BY <2>3
  <2> QED  BY <2>7, <2>9, <2>10, <2>11, <2>12 DEF k, B, X
<1> QED  BY <1>1, <1>2

\* An entry or element is destroyed with all below it.
LEMMA DestroyedGood ==
  ASSUME NEW h, Good(h), NEW x \in Items
  PROVE  Good(Destroyed(h, x))
<1>1. PICK k : k = Deleted(h, x)
  OBVIOUS
<1>2. Good(k) /\ Empty(k, x)
  BY <1>1, DeletedGood
<1>3. Destroyed(h, x) = [k EXCEPT !.home[x] = Free]
  BY <1>1 DEF Destroyed, NewItem
<1>4. Free \notin Bodies
  BY MarkersAssumption
<1> QED  BY <1>2, <1>3, <1>4, PlacedGood

-----------------------------------------------------------------------------
\* An injection and its inverse.
LEMMA InjectionLemma ==
  ASSUME NEW S, NEW T, NEW f \in Injection(S, T)
  PROVE  /\ DOMAIN f = S
         /\ Range(f) \subseteq T
         /\ \A a \in S : f[a] \in T /\ f[a] \in Range(f) /\ Original(f, f[a]) = a
         /\ \A c \in Range(f) : \E a \in S : c = f[a]
         /\ \A a, b \in S : f[a] = f[b] => a = b
<1>1. f \in [S -> T] /\ \A a, b \in S : f[a] = f[b] => a = b
  BY DEF Injection, IsInjective
<1>2. ASSUME NEW a \in S  PROVE Original(f, f[a]) = a
  BY <1>1, <1>2 DEF Original
<1> QED  BY <1>1, <1>2 DEF Range

\* What a copy of the bodies D and the items J to free addresses changes.
LEMMA CloneFields ==
  ASSUME NEW h, Typed(h), NEW D \in SUBSET Bodies, NEW J \in SUBSET Items,
         NEW f \in Injection(D, Bodies), NEW g \in Injection(J, Items)
  PROVE  LET k == Clone(h, f, g)
         IN  /\ k = [kind |-> k.kind, home |-> k.home, item |-> k.item, lost |-> h.lost]
             /\ k.kind \in [Bodies -> Kinds \cup {"free"}]
             /\ k.home \in [Items -> Bodies \cup {Program, Free}]
             /\ k.item \in [Items -> Bodies \cup {Null}]
             /\ \A d \in D : k.kind[f[d]] = h.kind[d]
             /\ \A b \in Bodies \ Range(f) : k.kind[b] = h.kind[b]
             /\ \A z \in J : /\ k.home[g[z]] = Renamed(f, h.home[z])
                             /\ k.item[g[z]] = Renamed(f, h.item[z])
             /\ \A y \in Items \ Range(g) : k.home[y] = h.home[y] /\ k.item[y] = h.item[y]
<1>1. PICK K, H, I, L : h = [kind |-> K, home |-> H, item |-> I, lost |-> L]
  BY HeapType
<1>2. h.kind = K /\ h.home = H /\ h.item = I /\ h.lost = L
  BY <1>1
<1> DEFINE K2 == [b \in Bodies |-> IF b \in Range(f) THEN h.kind[Original(f, b)] ELSE h.kind[b]]
           H2 == [x \in Items |->
                    IF x \in Range(g) THEN Renamed(f, h.home[Original(g, x)]) ELSE h.home[x]]
           I2 == [x \in Items |->
                    IF x \in Range(g) THEN Renamed(f, h.item[Original(g, x)]) ELSE h.item[x]]
<1>3. Clone(h, f, g) = [h EXCEPT !.kind = K2, !.home = H2, !.item = I2]
  BY Zenon DEF Clone
<1>4. /\ \A d \in D : f[d] \in Bodies /\ f[d] \in Range(f) /\ Original(f, f[d]) = d
      /\ \A c \in Range(f) : c \in Bodies /\ \E d \in D : c = f[d]
      /\ DOMAIN f = D
  BY InjectionLemma
<1>5. /\ \A z \in J : g[z] \in Items /\ g[z] \in Range(g) /\ Original(g, g[z]) = z
      /\ \A c \in Range(g) : c \in Items /\ \E z \in J : c = g[z]
  BY InjectionLemma
<1>6. K2 \in [Bodies -> Kinds \cup {"free"}]
  BY <1>4, HeapType
<1>7. \A c \in Bodies \cup {Program, Free, Null} : Renamed(f, c) \in Bodies \/ Renamed(f, c) = c
  BY <1>4 DEF Renamed
<1>8. H2 \in [Items -> Bodies \cup {Program, Free}]
  BY <1>5, <1>7, HeapType
<1>9. I2 \in [Items -> Bodies \cup {Null}]
  BY <1>5, <1>7, HeapType
<1>10. /\ \A d \in D : K2[f[d]] = h.kind[d]
       /\ \A b \in Bodies \ Range(f) : K2[b] = h.kind[b]
  BY <1>4
<1>11. /\ \A z \in J : /\ H2[g[z]] = Renamed(f, h.home[z])
                       /\ I2[g[z]] = Renamed(f, h.item[z])
       /\ \A y \in Items \ Range(g) : H2[y] = h.home[y] /\ I2[y] = h.item[y]
  BY <1>5
<1> HIDE DEF K2, H2, I2
<1>12. Clone(h, f, g) = [kind |-> K2, home |-> H2, item |-> I2, lost |-> h.lost]
  BY <1>1, <1>2, <1>3
<1> QED  BY <1>6, <1>8, <1>9, <1>10, <1>11, <1>12

\* No body in the tree of an allocated body is free.
LEMMA BelowAllocated ==
  ASSUME NEW h, Good(h), NEW b \in Bodies \ FreeBodies(h), NEW c \in Below(h, b)
  PROVE  c \in Bodies \ FreeBodies(h)
<1>1. Below(h, b) \in SUBSET Bodies
  BY BelowLemma DEF Good
<1>2. CASE c # b
  <2>1. PICK z \in Inside(h, Below(h, b)) : h.item[z] = c
    BY <1>2, OwnerLemma DEF Good
  <2> QED  BY <1>1, <2>1, NullAssumption DEF Inside, Good, Owned, Empty
<1> QED  BY <1>1, <1>2

\* Where a copy of the tree of b is, and what is in it.
LEMMA CopiesFields ==
  ASSUME NEW h, Good(h), NEW x \in Items, Empty(h, x),
         NEW w \in Bodies \cup {Program}, w \in Bodies => h.kind[w] \in {"map", "vector"},
         NEW b \in Bodies \ FreeBodies(h), NEW k \in Copies(h, x, w, b)
  PROVE  LET D == Below(h, b)
             J == Inside(h, D)
         IN  \E f \in Injection(D, FreeBodies(h)), g \in Injection(J, FreeItems(h) \ {x}) :
               /\ \A d \in D : k.kind[f[d]] = h.kind[d]
               /\ \A c \in Bodies \ Range(f) : k.kind[c] = h.kind[c]
               /\ \A z \in J : /\ k.home[g[z]] = Renamed(f, h.home[z])
                               /\ k.item[g[z]] = Renamed(f, h.item[z])
               /\ k.home[x] = w /\ k.item[x] = f[b]
               /\ \A y \in Items \ (Range(g) \cup {x}) : k.home[y] = h.home[y] /\ k.item[y] = h.item[y]
               /\ k.lost = h.lost /\ k \in Heaps
<1> DEFINE D == Below(h, b)
           J == Inside(h, D)
<1>1. /\ D \in SUBSET Bodies /\ b \in D /\ Closed(h, D) /\ J \in SUBSET Items
      /\ \A z \in Items : h.home[z] \in D <=> z \in J
      /\ \A d \in D \ {b} : \E z \in J : h.item[z] = d
      /\ \A d \in D : d \notin FreeBodies(h)
  BY BelowLemma, OwnerLemma, BelowAllocated DEF Inside, Good
<1>3. PICK f \in Injection(D, FreeBodies(h)), g \in Injection(J, FreeItems(h) \ {x}) :
        k = Attached(Clone(h, f, g), x, w, f[b])
  BY DEF Copies
<1> HIDE DEF D, J
<1>4. f \in Injection(D, Bodies) /\ g \in Injection(J, Items)
  BY <1>3 DEF Injection, FreeBodies, FreeItems
<1>5. /\ DOMAIN f = D /\ \A d \in D : f[d] \in FreeBodies(h) /\ f[d] \in Range(f)
      /\ \A c \in Range(f) : c \in FreeBodies(h) /\ \E d \in D : c = f[d]
      /\ \A d, e \in D : f[d] = f[e] => d = e
  BY <1>3, InjectionLemma
<1>6. /\ \A z \in J : g[z] \in FreeItems(h) /\ g[z] \in Range(g)
      /\ \A y \in Range(g) : y \in FreeItems(h) /\ y # x /\ \E z \in J : y = g[z]
      /\ \A y, z \in J : g[y] = g[z] => y = z
  BY <1>3, InjectionLemma
<1>7. /\ \A d \in D : k.kind[f[d]] = h.kind[d]
      /\ \A c \in Bodies \ Range(f) : k.kind[c] = h.kind[c]
      /\ \A z \in J : /\ k.home[g[z]] = Renamed(f, h.home[z])
                      /\ k.item[g[z]] = Renamed(f, h.item[z])
      /\ k.home[x] = w /\ k.item[x] = f[b]
      /\ \A y \in Items \ (Range(g) \cup {x}) : k.home[y] = h.home[y] /\ k.item[y] = h.item[y]
      /\ k.lost = h.lost /\ k \in Heaps
  <2>1. PICK c : c = Clone(h, f, g)
    OBVIOUS
  <2>2. /\ c = [kind |-> c.kind, home |-> c.home, item |-> c.item, lost |-> h.lost]
        /\ c.kind \in [Bodies -> Kinds \cup {"free"}]
        /\ c.home \in [Items -> Bodies \cup {Program, Free}]
        /\ c.item \in [Items -> Bodies \cup {Null}]
        /\ \A d \in D : c.kind[f[d]] = h.kind[d]
        /\ \A e \in Bodies \ Range(f) : c.kind[e] = h.kind[e]
        /\ \A z \in J : /\ c.home[g[z]] = Renamed(f, h.home[z])
                        /\ c.item[g[z]] = Renamed(f, h.item[z])
        /\ \A y \in Items \ Range(g) : c.home[y] = h.home[y] /\ c.item[y] = h.item[y]
    BY <1>1, <1>4, <2>1, CloneFields DEF Good
  <2>3. k = [c EXCEPT !.home[x] = w, !.item[x] = f[b]]
    BY <1>3, <2>1 DEF Attached
  <2>4. PICK H, I : H = c.home /\ I = c.item
    OBVIOUS
  <2>5. k = [c EXCEPT !.home = [H EXCEPT ![x] = w], !.item = [I EXCEPT ![x] = f[b]]]
    BY <2>3, <2>4, Zenon
  <2>6. k = [kind |-> c.kind, home |-> [H EXCEPT ![x] = w], item |-> [I EXCEPT ![x] = f[b]],
             lost |-> h.lost]
    <3>1. PICK K, L : c = [kind |-> K, home |-> H, item |-> I, lost |-> L]
                      /\ K = c.kind /\ L = h.lost
      BY <2>2, <2>4
    <3> QED  BY <2>5, <3>1
  <2>7. f[b] \in Bodies /\ h.lost \in SUBSET Bodies
    BY <1>1, <1>5, HeapType DEF Good, FreeBodies
  <2>8. k \in Heaps
    BY <2>2, <2>4, <2>6, <2>7 DEF Heaps
  <2>9. /\ k.kind = c.kind /\ k.home = [H EXCEPT ![x] = w] /\ k.item = [I EXCEPT ![x] = f[b]]
        /\ k.lost = h.lost
    BY <2>6
  <2>10. /\ k.home[x] = w /\ k.item[x] = f[b]
         /\ \A y \in Items \ {x} : k.home[y] = c.home[y] /\ k.item[y] = c.item[y]
    BY <2>2, <2>4, <2>9
  <2>11. \A z \in J : g[z] \in Items \ {x}
    BY <1>6 DEF FreeItems
  <2> QED  BY <2>2, <2>8, <2>9, <2>10, <2>11
<1> QED  BY <1>3, <1>7 DEF D, J

\* A copy of the tree of b, in fresh memory, becomes the body of x.
LEMMA CopiesGood ==
  ASSUME NEW h, Good(h), NEW x \in Items, Empty(h, x),
         NEW w \in Bodies \cup {Program}, w \in Bodies => h.kind[w] \in {"map", "vector"},
         NEW b \in Bodies \ FreeBodies(h), NEW k \in Copies(h, x, w, b)
  PROVE  /\ Good(k)
         /\ \A y \in Live(h) \ {x} : k.home[y] = h.home[y] /\ k.item[y] = h.item[y]
         /\ \A c \in Bodies \ FreeBodies(h) : k.kind[c] = h.kind[c]
         /\ k.lost = h.lost /\ k.home[x] = w
<1> DEFINE D == Below(h, b)
           J == Inside(h, D)
<1>1. /\ D \in SUBSET Bodies /\ b \in D /\ Closed(h, D) /\ J \in SUBSET Items
      /\ \A z \in Items : h.home[z] \in D <=> z \in J
      /\ \A d \in D \ {b} : \E z \in J : h.item[z] = d
      /\ \A d \in D : d \notin FreeBodies(h)
  BY BelowLemma, OwnerLemma, BelowAllocated DEF Inside, Good
<1>2. \A z \in J : h.item[z] # b
  BY <1>1, EmptyTree, NullAssumption DEF Inside, Good, Acyclic, Empty
<1>3. PICK f \in Injection(D, FreeBodies(h)), g \in Injection(J, FreeItems(h) \ {x}) :
        /\ \A d \in D : k.kind[f[d]] = h.kind[d]
        /\ \A c \in Bodies \ Range(f) : k.kind[c] = h.kind[c]
        /\ \A z \in J : /\ k.home[g[z]] = Renamed(f, h.home[z])
                        /\ k.item[g[z]] = Renamed(f, h.item[z])
        /\ k.home[x] = w /\ k.item[x] = f[b]
        /\ \A y \in Items \ (Range(g) \cup {x}) : k.home[y] = h.home[y] /\ k.item[y] = h.item[y]
        /\ k.lost = h.lost /\ k \in Heaps
  BY CopiesFields
<1> HIDE DEF D, J
<1>5. /\ DOMAIN f = D /\ \A d \in D : f[d] \in FreeBodies(h) /\ f[d] \in Range(f)
      /\ \A c \in Range(f) : c \in FreeBodies(h) /\ \E d \in D : c = f[d]
      /\ \A d, e \in D : f[d] = f[e] => d = e
  BY <1>3, InjectionLemma
<1>6. /\ \A z \in J : g[z] \in FreeItems(h) /\ g[z] \in Range(g)
      /\ \A y \in Range(g) : y \in FreeItems(h) /\ y # x /\ \E z \in J : y = g[z]
      /\ \A y, z \in J : g[y] = g[z] => y = z
  BY <1>3, InjectionLemma
<1>7. /\ \A d \in D : k.kind[f[d]] = h.kind[d]
      /\ \A c \in Bodies \ Range(f) : k.kind[c] = h.kind[c]
      /\ \A z \in J : /\ k.home[g[z]] = Renamed(f, h.home[z])
                      /\ k.item[g[z]] = Renamed(f, h.item[z])
      /\ k.home[x] = w /\ k.item[x] = f[b]
      /\ \A y \in Items \ (Range(g) \cup {x}) : k.home[y] = h.home[y] /\ k.item[y] = h.item[y]
      /\ k.lost = h.lost /\ k \in Heaps
  BY <1>3
\* The copies point to copies, in copies.
<1>8. /\ \A z \in J : k.home[g[z]] = f[h.home[z]] /\ h.home[z] \in D
      /\ \A z \in J : Empty(h, z) => k.item[g[z]] = Null
      /\ \A z \in J : ~Empty(h, z) => /\ k.item[g[z]] = f[h.item[z]]
                                      /\ h.item[z] \in D \ {b}
  BY <1>1, <1>2, <1>5, <1>7, NullAssumption DEF Renamed, Empty, Closed
\* Whatever was there before is not in a copy.
<1>9. \A y \in Items \ (Range(g) \cup {x}) :
        /\ k.home[y] \notin Range(f)
        /\ ~Empty(k, y) => ~Empty(h, y) /\ k.item[y] \notin Range(f)
  BY <1>5, <1>7 DEF Good, Typed, Owned, Empty, FreeBodies
<1>10. w \notin Range(f)
  BY <1>5, MarkersAssumption DEF FreeBodies
<1>11. FreeBodies(k) = FreeBodies(h) \ Range(f)
  BY <1>1, <1>5, <1>7 DEF FreeBodies
<1>12. Typed(k)
  <2> SUFFICES ASSUME NEW y \in Items
               PROVE  /\ k.home[y] \in Bodies => k.kind[k.home[y]] \in {"map", "vector"}
                      /\ k.home[y] = Free => Empty(k, y)
    BY <1>7 DEF Typed
  <2>1. CASE y = x
    BY <1>7, <1>10, <2>1, MarkersAssumption
  <2>2. CASE y \in Range(g)
    <3>1. PICK z \in J : y = g[z]
      BY <1>6, <2>2
    <3>2. /\ k.home[y] = f[h.home[z]] /\ h.home[z] \in D /\ z \in Items
          /\ k.kind[f[h.home[z]]] = h.kind[h.home[z]]
      BY <1>1, <1>7, <1>8, <3>1
    <3> QED  BY <1>1, <1>5, <3>2, MarkersAssumption DEF Good, Typed, FreeBodies
  <2>3. CASE y \in Items \ (Range(g) \cup {x})
    BY <1>7, <1>9, <2>3 DEF Good, Typed, Empty
  <2> QED  BY <2>1, <2>2, <2>3
<1>13. Owned(k)
  \* The item of f[d] is the copy of the item of d; that of f[b] is x.
  <2>1. ASSUME NEW y \in Items, k.item[y] \in Range(f)
        PROVE  \/ y = x /\ k.item[y] = f[b]
               \/ \E z \in J : /\ y = g[z] /\ ~Empty(h, z) /\ k.item[y] = f[h.item[z]]
                               /\ h.item[z] \in D \ {b}
    <3>1. k.item[y] \in Bodies
      BY <1>5, <2>1 DEF FreeBodies
    <3>2. ~Empty(k, y)
      BY <3>1, NullAssumption DEF Empty
    <3>3. CASE y = x
      BY <1>7, <3>3
    <3>4. CASE y \in Range(g)
      <4>1. PICK z \in J : y = g[z]
        BY <1>6, <3>4
      <4> QED  BY <1>8, <3>2, <4>1 DEF Empty
    <3>5. CASE y \in Items \ (Range(g) \cup {x})
      BY <1>9, <2>1, <3>2, <3>5
    <3> QED  BY <3>3, <3>4, <3>5
  <2>2. \A y \in Items : ~Empty(k, y) /\ k.item[y] \notin Range(f) =>
          y \notin Range(g) \cup {x} /\ k.item[y] = h.item[y] /\ ~Empty(h, y)
    <3> TAKE y \in Items
    <3> HAVE ~Empty(k, y) /\ k.item[y] \notin Range(f)
    <3>1. y # x
      BY <1>1, <1>5, <1>7
    <3>2. y \notin Range(g)
      BY <1>5, <1>6, <1>8 DEF Empty
    <3> QED  BY <1>7, <1>9, <3>1, <3>2
  <2>3. \A y, z \in Items : ~Empty(k, y) /\ k.item[y] = k.item[z] => y = z
    <3> SUFFICES ASSUME NEW y \in Items, NEW z \in Items, ~Empty(k, y), k.item[y] = k.item[z]
                 PROVE  y = z
      OBVIOUS
    <3>1. ~Empty(k, z)
      BY DEF Empty
    <3>2. CASE k.item[y] \in Range(f)
      <4>1. \/ y = x /\ k.item[y] = f[b]
            \/ \E u \in J : /\ y = g[u] /\ ~Empty(h, u) /\ k.item[y] = f[h.item[u]]
                            /\ h.item[u] \in D \ {b}
        BY <2>1, <3>2
      <4>2. \/ z = x /\ k.item[z] = f[b]
            \/ \E u \in J : /\ z = g[u] /\ ~Empty(h, u) /\ k.item[z] = f[h.item[u]]
                            /\ h.item[u] \in D \ {b}
        BY <2>1, <3>2
      <4>3. \A u, v \in J : ~Empty(h, u) /\ h.item[u] = h.item[v] => u = v
        BY <1>1 DEF Good, Owned
      <4> QED  BY <1>1, <1>5, <4>1, <4>2, <4>3
    <3>3. CASE k.item[y] \notin Range(f)
      BY <2>2, <3>1, <3>3 DEF Good, Owned
    <3> QED  BY <3>2, <3>3
  <2>4. \A y \in Items : ~Empty(k, y) => k.item[y] \notin FreeBodies(k) \cup k.lost
    <3> TAKE y \in Items
    <3> HAVE ~Empty(k, y)
    <3>1. CASE k.item[y] \in Range(f)
      BY <1>5, <1>7, <1>11, <3>1 DEF Good, Owned
    <3>2. CASE k.item[y] \notin Range(f)
      BY <1>7, <1>11, <2>2, <3>2 DEF Good, Owned
    <3> QED  BY <3>1, <3>2
  <2>5. k.lost \cap FreeBodies(k) = {}
    BY <1>7, <1>11 DEF Good, Owned
  <2>6. ASSUME NEW c \in Bodies \ FreeBodies(k)
        PROVE  c \in k.lost \/ \E y \in Items : k.item[y] = c
    <3>1. CASE c \in Range(f)
      <4>1. PICK d \in D : c = f[d]
        BY <1>5, <3>1
      <4>2. CASE d = b
        BY <1>7, <4>1, <4>2
      <4>3. CASE d # b
        <5>1. PICK z \in J : h.item[z] = d
          BY <1>1, <4>3
        <5>2. z \in Items /\ ~Empty(h, z)
          BY <1>1, <5>1, NullAssumption DEF Empty
        <5>3. k.item[g[z]] = c /\ g[z] \in Items
          BY <1>6, <1>8, <4>1, <5>1, <5>2 DEF FreeItems
        <5> QED  BY <5>3
      <4> QED  BY <4>2, <4>3
    <3>2. CASE c \notin Range(f)
      <4>1. c \in Bodies \ FreeBodies(h)
        BY <1>11, <3>2
      <4>2. SUFFICES ASSUME NEW z \in Items, h.item[z] = c  PROVE k.item[z] = c
        BY <1>7, <4>1 DEF Good, Owned
      <4>3. z \notin Range(g) \cup {x}
        BY <1>6, <4>1, <4>2, NullAssumption DEF Good, Typed, FreeItems, Empty
      <4> QED  BY <1>7, <4>2, <4>3
    <3> QED  BY <3>1, <3>2
  <2> QED  BY <2>3, <2>4, <2>5, <2>6 DEF Owned
<1>14. Range(f) \in SUBSET Bodies /\ Closed(k, Range(f))
  <2>1. Range(f) \in SUBSET Bodies
    BY <1>5 DEF FreeBodies
  <2>2. ASSUME NEW u \in Items, k.home[u] \in Range(f)
        PROVE  k.item[u] \in Range(f) \cup {Null}
    <3>1. u # x /\ u \in Range(g)
      BY <1>7, <1>9, <1>10, <2>2
    <3>2. PICK z \in J : u = g[z]
      BY <1>6, <3>1
    <3> QED  BY <1>5, <1>8, <3>2
  <2> QED  BY <2>1, <2>2 DEF Closed
<1>15. Acyclic(k)
  <2> SUFFICES ASSUME NEW y \in Items, ~Empty(k, y)  PROVE k.home[y] \notin Tree(k, y)
    BY <1>12, EmptyTree DEF Acyclic
  <2>1. CASE y = x
    BY <1>1, <1>5, <1>7, <1>10, <1>12, <1>14, <2>1, AcyclicBy
  <2>2. CASE y \in Range(g)
    <3>1. PICK z \in J : y = g[z]
      BY <1>6, <2>2
    <3>2. /\ z \in Items /\ ~Empty(h, z) /\ k.item[y] = f[h.item[z]] /\ h.item[z] \in D
          /\ k.home[y] = f[h.home[z]] /\ h.home[z] \in D
      BY <1>1, <1>8, <3>1 DEF Empty
    <3> DEFINE A == Below(h, h.item[z])
               C == {f[d] : d \in A \cap D}
    <3>3. A \in SUBSET Bodies /\ h.item[z] \in A /\ Closed(h, A) /\ h.home[z] \notin A
      BY <3>2, EmptyTree, BelowLemma DEF Good, Acyclic
    <3> HIDE DEF A
    <3>4. C \subseteq Range(f) /\ C \in SUBSET Bodies
      BY <1>5, <1>14
    <3>5. Closed(k, C)
      <4> SUFFICES ASSUME NEW u \in Items, k.home[u] \in C
                   PROVE  k.item[u] \in C \cup {Null}
        BY DEF Closed
      <4>1. u # x /\ u \in Range(g)
        BY <1>7, <1>9, <1>10, <3>4
      <4>2. PICK v \in J : u = g[v]
        BY <1>6, <4>1
      <4>3. h.home[v] \in A /\ v \in Items
        BY <1>1, <1>5, <1>8, <4>2
      <4>4. ~Empty(h, v) => h.item[v] \in A \cap D
        BY <1>8, <3>3, <4>2, <4>3 DEF Closed, Empty
      <4> QED  BY <1>8, <4>2, <4>4
    <3>6. k.item[y] \in C /\ k.home[y] \notin C
      BY <1>5, <3>2, <3>3
    <3> HIDE DEF C
    <3> QED  BY <1>12, <3>4, <3>5, <3>6, AcyclicBy
  <2>3. CASE y \in Items \ (Range(g) \cup {x})
    <3> DEFINE A == Below(h, h.item[y])
    <3>1. k.home[y] = h.home[y] /\ k.item[y] = h.item[y] /\ ~Empty(h, y)
      BY <1>7, <2>3 DEF Empty
    <3>2. A \in SUBSET Bodies /\ h.item[y] \in A /\ Closed(h, A) /\ h.home[y] \notin A
      BY <3>1, EmptyTree, BelowLemma DEF Good, Acyclic
    <3> HIDE DEF A
    <3>3. Closed(k, A \cup Range(f))
      <4> SUFFICES ASSUME NEW u \in Items, k.home[u] \in A \cup Range(f)
                   PROVE  k.item[u] \in A \cup Range(f) \cup {Null}
        BY DEF Closed
      <4>1. CASE u = x
        BY <1>1, <1>5, <1>7, <4>1
      <4>2. CASE u \in Range(g)
        <5>1. PICK z \in J : u = g[z]
          BY <1>6, <4>2
        <5> QED  BY <1>5, <1>8, <5>1
      <4>3. CASE u \in Items \ (Range(g) \cup {x})
        BY <1>7, <1>9, <3>2, <4>3 DEF Closed
      <4> QED  BY <4>1, <4>2, <4>3
    <3>4. k.home[y] \notin A \cup Range(f)
      BY <1>9, <2>3, <3>1, <3>2
    <3> QED  BY <1>12, <1>14, <3>1, <3>2, <3>3, <3>4, AcyclicBy
  <2> QED  BY <2>1, <2>2, <2>3
<1>16. \A y \in Live(h) \ {x} : k.home[y] = h.home[y] /\ k.item[y] = h.item[y]
  BY <1>6, <1>7 DEF Live
<1>17. \A c \in Bodies \ FreeBodies(h) : k.kind[c] = h.kind[c]
  BY <1>5, <1>7
<1>18. k.lost = h.lost /\ k.home[x] = w
  BY <1>7
<1> QED  BY <1>12, <1>13, <1>15, <1>16, <1>17, <1>18 DEF Good

\* Where the bodies B and the items X are after they were moved.
LEMMA MovedWithFields ==
  ASSUME NEW h, Good(h), NEW B \in SUBSET (Bodies \ FreeBodies(h)), NEW X \in SUBSET Live(h),
         h.lost \cap B = {},
         \A y \in Items : h.home[y] \in B \/ (~Empty(h, y) /\ h.item[y] \in B) => y \in X,
         NEW k \in MovedWith(h, B, X)
  PROVE  \E f \in Injection(B, FreeBodies(h)), g \in Injection(X, FreeItems(h)) :
           /\ k \in Heaps /\ k.lost = h.lost
           /\ \A c \in B : k.kind[c] = "free"
           /\ \A d \in B : k.kind[f[d]] = h.kind[d]
           /\ \A c \in Bodies \ (B \cup Range(f)) : k.kind[c] = h.kind[c]
           /\ \A y \in X : k.home[y] = Free /\ k.item[y] = Null
           /\ \A z \in X : /\ k.home[g[z]] = Renamed(f, h.home[z])
                           /\ k.item[g[z]] = Renamed(f, h.item[z])
           /\ \A y \in Items \ (X \cup Range(g)) : k.home[y] = h.home[y] /\ k.item[y] = h.item[y]
<1>1. PICK f \in Injection(B, FreeBodies(h)), g \in Injection(X, FreeItems(h)) :
        k = Remove(Clone(h, f, g), B, X)
  BY DEF MovedWith
<1>2. /\ B \in SUBSET Bodies /\ X \in SUBSET Items
      /\ f \in Injection(B, Bodies) /\ g \in Injection(X, Items)
  BY <1>1 DEF Injection, FreeBodies, FreeItems, Live
<1>3. /\ DOMAIN f = B /\ \A d \in B : f[d] \in FreeBodies(h) /\ f[d] \in Range(f)
      /\ \A c \in Range(f) : c \in FreeBodies(h) /\ \E d \in B : c = f[d]
      /\ \A d, e \in B : f[d] = f[e] => d = e
  BY <1>1, InjectionLemma
<1>4. /\ \A z \in X : g[z] \in FreeItems(h) /\ g[z] \in Range(g)
      /\ \A y \in Range(g) : y \in FreeItems(h) /\ \E z \in X : y = g[z]
      /\ \A y, z \in X : g[y] = g[z] => y = z
  BY <1>1, InjectionLemma
<1>5. B \cap Range(f) = {} /\ X \cap Range(g) = {}
  BY <1>3, <1>4 DEF Live
<1>6. /\ k \in Heaps /\ k.lost = h.lost
      /\ \A c \in B : k.kind[c] = "free"
      /\ \A d \in B : k.kind[f[d]] = h.kind[d]
      /\ \A c \in Bodies \ (B \cup Range(f)) : k.kind[c] = h.kind[c]
      /\ \A y \in X : k.home[y] = Free /\ k.item[y] = Null
      /\ \A z \in X : /\ k.home[g[z]] = Renamed(f, h.home[z])
                      /\ k.item[g[z]] = Renamed(f, h.item[z])
      /\ \A y \in Items \ (X \cup Range(g)) : k.home[y] = h.home[y] /\ k.item[y] = h.item[y]
  <2>1. PICK c : c = Clone(h, f, g)
    OBVIOUS
  <2>2. /\ c = [kind |-> c.kind, home |-> c.home, item |-> c.item, lost |-> h.lost]
        /\ c.kind \in [Bodies -> Kinds \cup {"free"}]
        /\ c.home \in [Items -> Bodies \cup {Program, Free}]
        /\ c.item \in [Items -> Bodies \cup {Null}]
        /\ \A d \in B : c.kind[f[d]] = h.kind[d]
        /\ \A b \in Bodies \ Range(f) : c.kind[b] = h.kind[b]
        /\ \A z \in X : /\ c.home[g[z]] = Renamed(f, h.home[z])
                        /\ c.item[g[z]] = Renamed(f, h.item[z])
        /\ \A y \in Items \ Range(g) : c.home[y] = h.home[y] /\ c.item[y] = h.item[y]
    BY <1>2, <2>1, CloneFields DEF Good
  <2>3. c.lost = h.lost /\ h.lost \in SUBSET Bodies
    BY <2>2, HeapType DEF Good
  <2>4. k = [kind |-> [b \in Bodies |-> IF b \in B THEN "free" ELSE c.kind[b]],
             home |-> [y \in Items |-> IF y \in X THEN Free ELSE c.home[y]],
             item |-> [y \in Items |-> IF y \in X THEN Null ELSE c.item[y]],
             lost |-> c.lost]
    <3>1. c = [kind |-> c.kind, home |-> c.home, item |-> c.item, lost |-> c.lost]
      BY <2>2, <2>3
    <3> QED  BY <1>1, <2>1, <3>1, RemoveFields
  <2>5. k \in Heaps
    BY <2>2, <2>3, <2>4 DEF Heaps
  <2>6. /\ \A b \in Bodies : k.kind[b] = IF b \in B THEN "free" ELSE c.kind[b]
        /\ \A y \in Items : /\ k.home[y] = IF y \in X THEN Free ELSE c.home[y]
                            /\ k.item[y] = IF y \in X THEN Null ELSE c.item[y]
    BY <2>4
  <2>7. /\ \A d \in B : k.kind[f[d]] = h.kind[d]
        /\ \A b \in Bodies \ (B \cup Range(f)) : k.kind[b] = h.kind[b]
        /\ \A b \in B : k.kind[b] = "free"
    BY <1>2, <1>3, <1>5, <2>2, <2>6 DEF FreeBodies
  <2>8. \A z \in X : g[z] \in Items \ X
    BY <1>4, <1>5 DEF FreeItems
  <2>9. /\ \A y \in X : k.home[y] = Free /\ k.item[y] = Null
        /\ \A z \in X : /\ k.home[g[z]] = Renamed(f, h.home[z])
                        /\ k.item[g[z]] = Renamed(f, h.item[z])
        /\ \A y \in Items \ (X \cup Range(g)) : k.home[y] = h.home[y] /\ k.item[y] = h.item[y]
    BY <1>2, <2>2, <2>6, <2>8
  <2>10. k.lost = h.lost
    BY <2>3, <2>4
  <2> QED  BY <2>5, <2>7, <2>9, <2>10
<1> QED  BY <1>1, <1>6

\* A part of the memory that is moved: the bodies B with the items X that point to them
\* or are in them.
LEMMA MovedWithGood ==
  ASSUME NEW h, Good(h), NEW B \in SUBSET (Bodies \ FreeBodies(h)), NEW X \in SUBSET Live(h),
         h.lost \cap B = {},
         \A y \in Items : h.home[y] \in B \/ (~Empty(h, y) /\ h.item[y] \in B) => y \in X,
         NEW k \in MovedWith(h, B, X)
  PROVE  /\ Good(k)
         /\ \A y \in Live(h) \ X : k.home[y] = h.home[y] /\ k.item[y] = h.item[y]
         /\ \A c \in Bodies \ FreeBodies(h) : c \notin B => k.kind[c] = h.kind[c]
<1>1. PICK f \in Injection(B, FreeBodies(h)), g \in Injection(X, FreeItems(h)) :
        /\ k \in Heaps /\ k.lost = h.lost
        /\ \A c \in B : k.kind[c] = "free"
        /\ \A d \in B : k.kind[f[d]] = h.kind[d]
        /\ \A c \in Bodies \ (B \cup Range(f)) : k.kind[c] = h.kind[c]
        /\ \A y \in X : k.home[y] = Free /\ k.item[y] = Null
        /\ \A z \in X : /\ k.home[g[z]] = Renamed(f, h.home[z])
                        /\ k.item[g[z]] = Renamed(f, h.item[z])
        /\ \A y \in Items \ (X \cup Range(g)) : k.home[y] = h.home[y] /\ k.item[y] = h.item[y]
  BY MovedWithFields
<1>2. /\ B \in SUBSET Bodies /\ X \in SUBSET Items
      /\ f \in Injection(B, Bodies) /\ g \in Injection(X, Items)
  BY <1>1 DEF Injection, FreeBodies, FreeItems, Live
<1>3. /\ DOMAIN f = B /\ \A d \in B : f[d] \in FreeBodies(h) /\ f[d] \in Range(f)
      /\ \A c \in Range(f) : c \in FreeBodies(h) /\ \E d \in B : c = f[d]
      /\ \A d, e \in B : f[d] = f[e] => d = e
  BY <1>1, InjectionLemma
<1>4. /\ \A z \in X : g[z] \in FreeItems(h) /\ g[z] \in Range(g)
      /\ \A y \in Range(g) : y \in FreeItems(h) /\ \E z \in X : y = g[z]
      /\ \A y, z \in X : g[y] = g[z] => y = z
  BY <1>1, InjectionLemma
<1>5. B \cap Range(f) = {} /\ X \cap Range(g) = {}
  BY <1>3, <1>4 DEF Live
<1>6. /\ k \in Heaps /\ k.lost = h.lost
      /\ \A c \in B : k.kind[c] = "free"
      /\ \A d \in B : k.kind[f[d]] = h.kind[d]
      /\ \A c \in Bodies \ (B \cup Range(f)) : k.kind[c] = h.kind[c]
      /\ \A y \in X : k.home[y] = Free /\ k.item[y] = Null
      /\ \A z \in X : /\ k.home[g[z]] = Renamed(f, h.home[z])
                      /\ k.item[g[z]] = Renamed(f, h.item[z])
      /\ \A y \in Items \ (X \cup Range(g)) : k.home[y] = h.home[y] /\ k.item[y] = h.item[y]
  BY <1>1
\* Every item that there is now is one that there was, with the addresses renamed.
<1>7. \A d, e \in (Bodies \ FreeBodies(h)) \cup {Program, Free, Null} :
        Renamed(f, d) = Renamed(f, e) => d = e
  BY <1>2, <1>3, MarkersAssumption, NullAssumption DEF Renamed, FreeBodies
<1>8. /\ Renamed(f, Program) = Program /\ Renamed(f, Free) = Free /\ Renamed(f, Null) = Null
      /\ \A d \in Bodies \ FreeBodies(h) : /\ Renamed(f, d) \in Bodies \ FreeBodies(k)
                                           /\ k.kind[Renamed(f, d)] = h.kind[d]
  BY <1>2, <1>3, <1>5, <1>6, MarkersAssumption, NullAssumption DEF Renamed, FreeBodies
<1> DEFINE old(y) == IF y \in Range(g) THEN CHOOSE z \in X : y = g[z] ELSE y
<1>9. ASSUME NEW y \in Items \ X
      PROVE  /\ old(y) \in Items
             /\ k.home[y] = Renamed(f, h.home[old(y)])
             /\ k.item[y] = Renamed(f, h.item[old(y)])
  <2>1. CASE y \in Range(g)
    <3>1. PICK z \in X : y = g[z] /\ old(y) = z
      BY <1>4, <2>1
    <3> HIDE DEF old
    <3> QED  BY <1>2, <1>6, <3>1
  <2>2. CASE y \notin Range(g)
    <3>1. old(y) = y /\ h.home[y] \notin B /\ (~Empty(h, y) => h.item[y] \notin B)
      BY <1>9, <2>2
    <3> HIDE DEF old
    <3>2. Renamed(f, h.home[y]) = h.home[y] /\ Renamed(f, h.item[y]) = h.item[y]
      BY <1>2, <1>3, <3>1, NullAssumption DEF Renamed, Empty
    <3> QED  BY <1>6, <1>9, <2>2, <3>1, <3>2
  <2> QED  BY <2>1, <2>2
<1>10. \A y, z \in Items \ X : old(y) = old(z) => y = z
  BY <1>4
<1> HIDE DEF old
<1>11. \A z \in Items : \/ h.home[z] \in (Bodies \ FreeBodies(h)) \cup {Program}
                        \/ h.home[z] = Free /\ h.item[z] = Null
  BY HeapType DEF Good, Typed, Empty, FreeBodies
<1>12. \A z \in Items : h.item[z] \in (Bodies \ FreeBodies(h)) \cup {Null}
  BY HeapType DEF Good, Owned, Empty
<1>13. ASSUME NEW y \in Items, ~Empty(k, y)
       PROVE  /\ y \in Items \ X /\ old(y) \in Items /\ ~Empty(h, old(y))
              /\ k.home[y] = Renamed(f, h.home[old(y)])
              /\ k.item[y] = Renamed(f, h.item[old(y)])
              /\ h.item[old(y)] \in Bodies \ FreeBodies(h)
              /\ h.home[old(y)] \in (Bodies \ FreeBodies(h)) \cup {Program}
  BY <1>6, <1>8, <1>9, <1>11, <1>12, <1>13 DEF Empty
<1>14. Typed(k)
  <2>1. ASSUME NEW y \in Items
        PROVE  /\ k.home[y] \in Bodies => k.kind[k.home[y]] \in {"map", "vector"}
               /\ k.home[y] = Free => Empty(k, y)
    <3>1. CASE y \in X
      BY <1>6, <3>1, MarkersAssumption DEF Empty
    <3>2. CASE y \notin X
      <4>1. /\ old(y) \in Items /\ k.home[y] = Renamed(f, h.home[old(y)])
            /\ k.item[y] = Renamed(f, h.item[old(y)])
        BY <1>9, <2>1, <3>2
      <4>2. CASE h.home[old(y)] \in Bodies \ FreeBodies(h)
        BY <1>8, <4>1, <4>2, MarkersAssumption DEF Good, Typed
      <4>3. CASE h.home[old(y)] = Program
        BY <1>8, <4>1, <4>3, MarkersAssumption
      <4>4. CASE h.home[old(y)] = Free /\ h.item[old(y)] = Null
        BY <1>8, <4>1, <4>4, MarkersAssumption DEF Empty
      <4> QED  BY <1>11, <4>1, <4>2, <4>3, <4>4
    <3> QED  BY <3>1, <3>2
  <2> QED  BY <1>6, <2>1 DEF Typed
<1>15. Owned(k)
  <2>1. \A y, z \in Items : ~Empty(k, y) /\ k.item[y] = k.item[z] => y = z
    <3> SUFFICES ASSUME NEW y \in Items, NEW z \in Items, ~Empty(k, y), k.item[y] = k.item[z]
                 PROVE  y = z
      OBVIOUS
    <3>1. ~Empty(k, z)
      BY DEF Empty
    <3>2. h.item[old(y)] = h.item[old(z)]
      BY <1>7, <1>13, <3>1
    <3>3. old(y) = old(z)
      BY <1>13, <3>1, <3>2 DEF Good, Owned
    <3> QED  BY <1>10, <1>13, <3>1, <3>3
  <2>2. ASSUME NEW c \in h.lost
        PROVE  c \in Bodies \ FreeBodies(h) /\ Renamed(f, c) = c /\ c \notin FreeBodies(k)
    <3>1. c \in Bodies \ FreeBodies(h) /\ c \notin B
      BY <2>2, HeapType DEF Good, Owned
    <3>2. Renamed(f, c) = c
      BY <1>3, <3>1 DEF Renamed
    <3> QED  BY <1>8, <3>1, <3>2
  <2>3. \A y \in Items : ~Empty(k, y) => k.item[y] \notin FreeBodies(k) \cup k.lost
    <3> TAKE y \in Items
    <3> HAVE ~Empty(k, y)
    <3>1. PICK d : d = h.item[old(y)]
      OBVIOUS
    <3>2. d \in Bodies \ FreeBodies(h) /\ k.item[y] = Renamed(f, d) /\ d \notin h.lost
      BY <1>13, <3>1 DEF Good, Owned
    <3>3. ASSUME k.item[y] \in h.lost  PROVE FALSE
      BY <1>7, <2>2, <3>2, <3>3
    <3> QED  BY <1>6, <1>8, <3>2, <3>3
  <2>4. k.lost \cap FreeBodies(k) = {}
    BY <1>6, <2>2
  <2>5. ASSUME NEW c \in Bodies \ FreeBodies(k)
        PROVE  c \in k.lost \/ \E y \in Items : k.item[y] = c
    <3>1. PICK d \in Bodies \ FreeBodies(h) : c = Renamed(f, d)
      <4>1. CASE c \in Range(f)
        BY <1>2, <1>3, <4>1 DEF Renamed
      <4>2. CASE c \notin Range(f)
        BY <1>2, <1>3, <1>6, <4>2 DEF Renamed, FreeBodies
      <4> QED  BY <4>1, <4>2
    <3>2. CASE d \in h.lost
      BY <1>6, <2>2, <3>1, <3>2
    <3>3. CASE d \notin h.lost
      <4>1. PICK z \in Items : h.item[z] = d
        BY <3>3 DEF Good, Owned
      <4>2. CASE z \in X
        BY <1>4, <1>5, <1>6, <3>1, <4>1, <4>2 DEF FreeItems
      <4>3. CASE z \notin X
        <5>1. ~Empty(h, z)
          BY <4>1, NullAssumption DEF Empty
        <5>2. d \notin B /\ z \notin Range(g)
          BY <1>4, <4>1, <4>3, <5>1 DEF FreeItems, Good, Typed
        <5>3. Renamed(f, d) = d
          BY <1>3, <5>2 DEF Renamed
        <5> QED  BY <1>6, <3>1, <4>1, <4>3, <5>2, <5>3
      <4> QED  BY <4>2, <4>3
    <3> QED  BY <3>2, <3>3
  <2> QED  BY <2>1, <2>3, <2>4, <2>5 DEF Owned
<1>16. Acyclic(k)
  <2> SUFFICES ASSUME NEW y \in Items, ~Empty(k, y)  PROVE k.home[y] \notin Tree(k, y)
    BY <1>14, EmptyTree DEF Acyclic
  <2>1. PICK z \in Items :
          /\ ~Empty(h, z) /\ k.home[y] = Renamed(f, h.home[z]) /\ k.item[y] = Renamed(f, h.item[z])
          /\ h.item[z] \in Bodies \ FreeBodies(h)
          /\ h.home[z] \in (Bodies \ FreeBodies(h)) \cup {Program}
    BY <1>13
  <2> DEFINE A == Below(h, h.item[z])
             C == {Renamed(f, d) : d \in A}
  <2>2. /\ A \in SUBSET (Bodies \ FreeBodies(h)) /\ h.item[z] \in A
        /\ Closed(h, A) /\ h.home[z] \notin A
    BY <2>1, EmptyTree, BelowLemma, BelowAllocated DEF Good, Acyclic
  <2> HIDE DEF A
  <2>3. C \in SUBSET Bodies
    BY <1>8, <2>2
  <2>4. Closed(k, C)
    <3> SUFFICES ASSUME NEW u \in Items, k.home[u] \in C, ~Empty(k, u)
                 PROVE  k.item[u] \in C
      BY DEF Closed, Empty
    <3>1. PICK v \in Items :
            /\ ~Empty(h, v) /\ k.home[u] = Renamed(f, h.home[v])
            /\ k.item[u] = Renamed(f, h.item[v])
            /\ h.home[v] \in (Bodies \ FreeBodies(h)) \cup {Program}
      BY <1>13
    <3>2. h.home[v] \in A
      BY <1>7, <2>2, <3>1
    <3>3. h.item[v] \in A
      BY <2>2, <3>1, <3>2 DEF Closed, Empty
    <3> QED  BY <3>1, <3>3
  <2>5. k.item[y] \in C /\ k.home[y] \notin C
    BY <1>7, <2>1, <2>2
  <2> HIDE DEF C
  <2> QED  BY <1>14, <2>3, <2>4, <2>5, AcyclicBy
<1>17. \A y \in Live(h) \ X : k.home[y] = h.home[y] /\ k.item[y] = h.item[y]
  BY <1>4, <1>6 DEF Live
<1>18. \A c \in Bodies \ FreeBodies(h) : c \notin B => k.kind[c] = h.kind[c]
  BY <1>3, <1>6
<1> QED  BY <1>14, <1>15, <1>16, <1>17, <1>18 DEF Good

\* Elements of a vector, with all below them, go to other memory.
LEMMA MovedGood ==
  ASSUME NEW h, Good(h), NEW v \in Bodies, NEW E \in SUBSET Inside(h, {v}),
         NEW k \in Moved(h, E)
  PROVE  /\ Good(k)
         /\ LET X == E \cup Inside(h, UNION {Tree(h, e) : e \in E})
            IN  \A z \in Live(h) \ X :
                  /\ k.home[z] = h.home[z] /\ k.item[z] = h.item[z]
                  /\ ~Empty(h, z) => k.kind[h.item[z]] = h.kind[h.item[z]]
<1> DEFINE B == UNION {Tree(h, e) : e \in E}
           X == E \cup Inside(h, B)
<1>1. \A e \in E : e \in Items /\ h.home[e] = v
  BY DEF Inside
<1>2. ASSUME NEW e \in E
      PROVE  /\ Tree(h, e) \in SUBSET (Bodies \ FreeBodies(h))
             /\ h.lost \cap Tree(h, e) = {}
             /\ \A y \in Items : ~Empty(h, y) /\ h.item[y] \in Tree(h, e) =>
                  y = e \/ h.home[y] \in Tree(h, e)
  <2>1. CASE Empty(h, e)
    BY <1>1, <2>1, EmptyTree DEF Good
  <2>2. CASE ~Empty(h, e)
    BY <1>1, <2>2, TreeLemma DEF Inside
  <2> QED  BY <2>1, <2>2
<1>3. B \in SUBSET (Bodies \ FreeBodies(h)) /\ h.lost \cap B = {}
  BY <1>2
<1>4. X \in SUBSET Live(h)
  BY <1>1, <1>3, MarkersAssumption DEF Inside, Live, FreeItems
<1>5. \A y \in Items : h.home[y] \in B \/ (~Empty(h, y) /\ h.item[y] \in B) => y \in X
  BY <1>2 DEF Inside
<1>6. k \in MovedWith(h, B, X)
  BY DEF Moved
<1> HIDE DEF B, X
<1>7. /\ Good(k)
      /\ \A y \in Live(h) \ X : k.home[y] = h.home[y] /\ k.item[y] = h.item[y]
      /\ \A c \in Bodies \ FreeBodies(h) : c \notin B => k.kind[c] = h.kind[c]
  BY <1>3, <1>4, <1>5, <1>6, MovedWithGood
<1>8. ASSUME NEW z \in Live(h) \ X, ~Empty(h, z)
      PROVE  k.kind[h.item[z]] = h.kind[h.item[z]]
  <2>1. z \in Items /\ h.item[z] \in Bodies \ FreeBodies(h)
    BY <1>8, HeapType DEF Good, Owned, Live, Empty
  <2> QED  BY <1>5, <1>7, <1>8, <2>1
<1> QED  BY <1>7, <1>8 DEF B, X

\* A copy of an item that may be empty.
LEMMA ItemCopiesGood ==
  ASSUME NEW h, Good(h), NEW x \in Items, Empty(h, x),
         NEW w \in Bodies \cup {Program}, w \in Bodies => h.kind[w] \in {"map", "vector"},
         NEW b \in (Bodies \ FreeBodies(h)) \cup {Null}, NEW k \in ItemCopies(h, x, w, b)
  PROVE  /\ Good(k)
         /\ \A y \in Live(h) \ {x} : k.home[y] = h.home[y] /\ k.item[y] = h.item[y]
         /\ \A c \in Bodies \ FreeBodies(h) : k.kind[c] = h.kind[c]
         /\ k.lost = h.lost /\ k.home[x] = w
<1>1. CASE b = Null
  <2>1. k = [h EXCEPT !.home[x] = w, !.item[x] = Null]
    BY <1>1 DEF ItemCopies, Attached
  <2>2. k = [h EXCEPT !.home[x] = w]
    <3>1. PICK K, H, I, L : h = [kind |-> K, home |-> H, item |-> I, lost |-> L]
      BY HeapType DEF Good
    <3>2. h.home = H /\ h.item = I /\ I \in [Items -> Bodies \cup {Null}] /\ I[x] = Null
      BY <3>1, HeapType DEF Good, Empty
    <3>3. k = [h EXCEPT !.home = [H EXCEPT ![x] = w], !.item = [I EXCEPT ![x] = Null]]
      BY <2>1, <3>2, Zenon
    <3>4. [I EXCEPT ![x] = Null] = I
      BY <3>2
    <3>5. [h EXCEPT !.home[x] = w] = [h EXCEPT !.home = [H EXCEPT ![x] = w]]
      BY <3>2, Zenon
    <3> QED  BY <3>1, <3>3, <3>4, <3>5
  <2>3. /\ \A y \in Items \ {x} : k.home[y] = h.home[y]
        /\ k.home[x] = w
        /\ k.item = h.item /\ k.kind = h.kind /\ k.lost = h.lost
    BY <2>2, HeapType DEF Good
  <2> QED  BY <2>2, <2>3, PlacedGood DEF Live
<1>2. CASE b # Null
  BY <1>2, CopiesGood DEF ItemCopies
<1> QED  BY <1>1, <1>2

\* operator= of a source that was not deleted with the target.
LEMMA AssignedGood ==
  ASSUME NEW h, Good(h), NEW x \in Live(h), NEW y \in Items, ~UsesFreed(h, x, h.item[y]),
         NEW k \in Assigned(h, x, h.item[y])
  PROVE  Good(k)
<1>1. PICK d, b : d = Deleted(h, x) /\ b = h.item[y]
  OBVIOUS
<1>2. x \in Items /\ h.home[x] \in Bodies \cup {Program}
  BY HeapType DEF Good, Live, FreeItems
<1>3. Good(d) /\ Empty(d, x) /\ d.home[x] = h.home[x]
  BY <1>1, <1>2, DeletedGood
<1>4. b \in (Bodies \ FreeBodies(d)) \cup {Null}
  BY <1>1, HeapType DEF Good, UsesFreed, FreeBodies
<1>5. h.home[x] \in Bodies => d.kind[h.home[x]] \in {"map", "vector"}
  BY <1>2, <1>3 DEF Good, Typed
<1>6. k \in ItemCopies(d, x, h.home[x], b)
  BY <1>1 DEF Assigned
<1> QED  BY <1>2, <1>3, <1>4, <1>5, <1>6, ItemCopiesGood

\* The conversion to a map.
LEMMA MapsGood ==
  ASSUME NEW h, Good(h), NEW x \in Live(h), NEW k \in Maps(h, x)
  PROVE  Good(k) /\ k.home = h.home /\ k.item[x] \in Bodies /\ k.kind[k.item[x]] = "map"
<1>1. x \in Items
  BY DEF Live
<1>2. CASE Empty(h, x)
  <2>1. PICK b \in FreeBodies(h) : k = NewBody(h, x, b, "map")
    <3>1. ~Holds(h, x, "map")
      BY <1>2 DEF Holds
    <3>2. Maps(h, x) = {NewBody(h, x, b, "map") : b \in FreeBodies(h)}
      BY <1>2, <3>1 DEF Maps
    <3> QED  BY <3>2
  <2> QED  BY <1>2, <2>1, NewBodyGood DEF Kinds, FreeBodies
<1>3. CASE ~Empty(h, x)
  <2>1. k = h /\ Holds(h, x, "map")
    BY <1>3 DEF Maps
  <2> QED  BY <1>1, <2>1, HeapType DEF Holds, Good, Empty
<1> QED  BY <1>2, <1>3

\* The conversion to a vector.
LEMMA VectorsGood ==
  ASSUME NEW h, Good(h), NEW x \in Live(h), NEW k \in Vectors(h, x)
  PROVE  Good(k) /\ k.item[x] \in Bodies /\ k.kind[k.item[x]] = "vector"
<1>1. x \in Items /\ h.home[x] # Free
  BY DEF Live, FreeItems
<1>2. CASE Empty(h, x)
  <2>1. PICK b \in FreeBodies(h) : k = NewBody(h, x, b, "vector")
    <3>1. ~Holds(h, x, "vector")
      BY <1>2 DEF Holds
    <3>2. Vectors(h, x) = {NewBody(h, x, b, "vector") : b \in FreeBodies(h)}
      BY <1>2, <3>1 DEF Vectors
    <3> QED  BY <3>2
  <2> QED  BY <1>2, <2>1, NewBodyGood DEF Kinds, FreeBodies
<1>3. CASE Holds(h, x, "vector")
  <2>1. k = h
    BY <1>3 DEF Vectors, Holds
  <2> QED  BY <1>1, <1>3, <2>1, HeapType DEF Holds, Good, Empty
<1>4. CASE ~Empty(h, x) /\ ~Holds(h, x, "vector")
  <2>1. PICK v \in FreeBodies(h), y \in FreeItems(h) :
          k \in Copies(Wrapped(h, x, v), y, v, h.item[x])
    BY <1>4 DEF Vectors
  <2>2. PICK u : u = Wrapped(h, x, v)
    OBVIOUS
  <2>3. /\ Good(u) /\ u.home = h.home /\ u.item[x] = v /\ u.kind[v] = "vector"
        /\ h.item[x] \in Bodies \ FreeBodies(u)
    BY <1>4, <2>2, WrappedGood
  <2>4. /\ v \in Bodies \ FreeBodies(u) /\ y \in Items /\ y # x
        /\ Empty(u, y) /\ x \in Live(u) \ {y}
    BY <1>1, <2>3 DEF FreeBodies, FreeItems, Good, Typed, Live
  <2>5. k \in Copies(u, y, v, h.item[x])
    BY <2>1, <2>2
  <2>6. Good(k) /\ k.item[x] = u.item[x] /\ k.kind[v] = u.kind[v]
    BY <2>3, <2>4, <2>5, CopiesGood
  <2> QED  BY <2>3, <2>4, <2>6
<1> QED  BY <1>2, <1>3, <1>4

\* push_back
LEMMA PushedGood ==
  ASSUME NEW h, Good(h), NEW v \in Bodies, h.kind[v] = "vector",
         NEW b \in (Bodies \ FreeBodies(h)) \cup {Null}, Pushed(h, v, b)
  PROVE  Good(heap')
<1>1. PICK p \in Appended(h, v, b) : heap' \in {p} \cup Moved(p, Inside(h, {v}))
  BY DEF Pushed
<1>2. PICK y \in FreeItems(h) : p \in ItemCopies(h, y, v, b)
  BY <1>1 DEF Appended
<1>3. y \in Items /\ Empty(h, y)
  BY DEF FreeItems, Good, Typed
<1>4. Good(p) /\ \A e \in Live(h) \ {y} : p.home[e] = h.home[e]
  BY <1>2, <1>3, ItemCopiesGood
<1>5. Inside(h, {v}) \in SUBSET Inside(p, {v})
  BY <1>2, <1>4, MarkersAssumption DEF Inside, Live, FreeItems
<1>6. PICK q : q = heap'
  OBVIOUS
<1>7. Good(q)
  BY <1>1, <1>4, <1>5, <1>6, MovedGood
<1> QED  BY <1>6, <1>7

-----------------------------------------------------------------------------
\* Variables without a body.
LEMMA IInvInit == Init => IInv
<1> SUFFICES ASSUME Init  PROVE IInv
  OBVIOUS
<1>1. /\ heap = [kind |-> [b \in Bodies |-> "free"],
                 home |-> [x \in Items |-> IF x \in Variables THEN Program ELSE Free],
                 item |-> [x \in Items |-> Null],
                 lost |-> {}]
      /\ broken = FALSE
  BY DEF Init
<1>2. Typed(heap)
  BY <1>1, MarkersAssumption DEF Typed, Heaps, Empty
<1>3. Owned(heap)
  BY <1>1 DEF Owned, Empty, FreeBodies
<1>4. Acyclic(heap)
  BY <1>1, <1>2, EmptyTree DEF Acyclic, Empty
<1> QED  BY <1>1, <1>2, <1>3, <1>4 DEF IInv, TypeOK, Ownership, Trees

\* The element behind is not below the one before it.
LEMMA BesideIsKept ==
  ASSUME NEW h, Good(h), NEW x \in Items, NEW y \in Items, x # y, h.home[y] = h.home[x]
  PROVE  ~UsesFreed(h, x, h.item[y])
<1> SUFFICES ASSUME UsesFreed(h, x, h.item[y])  PROVE FALSE
  OBVIOUS
<1>1. /\ ~Empty(h, y) /\ h.item[y] \in Bodies \ FreeBodies(h)
      /\ Deleted(h, x).kind[h.item[y]] = "free"
  BY HeapType DEF UsesFreed, Good, Owned, Empty
<1>2. ~Empty(h, x) /\ h.item[y] \in Tree(h, x)
  BY <1>1, DeletedGood DEF FreeBodies
<1>3. y \in Inside(h, Tree(h, x))
  BY <1>1, <1>2, TreeLemma
<1> QED  BY <1>3 DEF Inside, Good, Acyclic

\* Every call leaves a good heap.
LEMMA CallGood ==
  ASSUME NEW x \in Live(heap), Good(heap), Call(x)
  PROVE  Good(heap')
<1>1. PICK h, q : h = heap /\ q = heap'
  OBVIOUS
<1>2. Good(h) /\ x \in Live(h) /\ x \in Items
  BY <1>1 DEF Live
<1>3. ASSUME NEW y \in Items  PROVE h.item[y] \in (Bodies \ FreeBodies(h)) \cup {Null}
  BY <1>2, HeapType DEF Good, Owned, Empty
<1>4. CASE SetAtom(x)
  <2>1. PICK b \in FreeBodies(h) : q = NewBody(h, x, b, "atom") /\ Empty(h, x)
    BY <1>1, <1>4 DEF SetAtom
  <2> QED  BY <1>1, <1>2, <2>1, NewBodyGood DEF Kinds
<1>5. CASE AsMap(x)
  BY <1>1, <1>2, <1>5, MapsGood DEF AsMap
<1>6. CASE NewKey(x)
  <2>1. PICK m \in Maps(h, x), y \in FreeItems(h) : q = NewItem(m, y, m.item[x])
    BY <1>1, <1>6 DEF NewKey
  <2>2. Good(m) /\ m.home = h.home /\ m.item[x] \in Bodies /\ m.kind[m.item[x]] = "map"
    BY <1>2, MapsGood
  <2>3. y \in Items /\ Empty(m, y)
    BY <2>2 DEF FreeItems, Good, Typed
  <2> QED  BY <1>1, <2>1, <2>2, <2>3, PlacedGood DEF NewItem
<1>7. CASE AsVector(x)
  BY <1>1, <1>2, <1>7, VectorsGood DEF AsVector
<1>8. CASE PushEmpty(x)
  <2>1. PICK v \in Vectors(h, x) : Pushed(v, v.item[x], Null)
    BY <1>1, <1>8 DEF PushEmpty
  <2>2. Good(v) /\ v.item[x] \in Bodies /\ v.kind[v.item[x]] = "vector"
    BY <1>2, VectorsGood
  <2> QED  BY <2>1, <2>2, PushedGood
<1>9. ASSUME NEW y \in Live(heap), Push(x, y)
      PROVE  Good(heap')
  <2>1. PICK v \in Vectors(h, x) : Pushed(v, v.item[x], v.item[y])
    BY <1>1, <1>9 DEF Push
  <2>2. Good(v) /\ v.item[x] \in Bodies /\ v.kind[v.item[x]] = "vector"
    BY <1>2, VectorsGood
  <2>3. v.item[y] \in (Bodies \ FreeBodies(v)) \cup {Null}
    BY <2>2, HeapType DEF Good, Owned, Empty, Live
  <2> QED  BY <2>1, <2>2, <2>3, PushedGood
<1>10. CASE EraseEntry(x)
  BY <1>1, <1>2, <1>10, DestroyedGood DEF EraseEntry
<1>11. ASSUME NEW y \in Live(heap), Assign(x, y)
       PROVE  Good(heap')
  <2>1. y \in Items
    BY DEF Live
  <2>2. CASE UsesFreed(h, x, h.item[y])
    BY <1>1, <1>2, <1>11, <2>2, DeletedGood DEF Assign
  <2>3. CASE ~UsesFreed(h, x, h.item[y])
    <3>1. q \in Assigned(h, x, h.item[y])
      BY <1>1, <1>11, <2>3 DEF Assign
    <3> QED  BY <1>1, <1>2, <2>1, <2>3, <3>1, AssignedGood
  <2> QED  BY <2>2, <2>3
\* The element behind is copied before it goes.
<1>12. ASSUME NEW y \in Live(heap), EraseElement(x, y)
       PROVE  Good(heap')
  <2>1. y \in Items /\ h.home[y] = h.home[x]
    BY <1>1, <1>12 DEF Live, EraseElement
  <2>2. CASE q = Destroyed(h, x)
    BY <1>1, <1>2, <2>2, DestroyedGood
  <2>3. ASSUME x # y, NEW k \in Assigned(h, x, h.item[y]), q = Destroyed(k, y)
        PROVE  Good(q)
    <3>1. ~UsesFreed(h, x, h.item[y])
      BY <1>2, <2>1, <2>3, BesideIsKept
    <3>2. Good(k)
      BY <1>2, <2>1, <3>1, AssignedGood
    <3> QED  BY <2>1, <2>3, <3>2, DestroyedGood
  <2> QED  BY <1>1, <1>12, <2>2, <2>3 DEF EraseElement
<1> QED
  BY <1>4, <1>5, <1>6, <1>7, <1>8, <1>9, <1>10, <1>11, <1>12 DEF Call, Lookup

LEMMA IInvNext ==
  ASSUME IInv, [Next]_vars
  PROVE  IInv'
<1>1. Good(heap) /\ broken \in BOOLEAN
  BY DEF IInv, Good, TypeOK, Ownership, Trees
<1>2. CASE UNCHANGED vars
  BY <1>2 DEF IInv, TypeOK, Ownership, Trees, vars
<1>3. ASSUME NEW x \in Live(heap), Call(x)
      PROVE  IInv'
  <2>1. Good(heap')
    BY <1>1, <1>3, CallGood
  <2>2. broken' \in BOOLEAN
    BY <1>1, <1>3 DEF Call, Lookup, SetAtom, AsMap, NewKey, AsVector, PushEmpty, EraseEntry,
                      Assign, Push, EraseElement
  <2> QED  BY <2>1, <2>2 DEF IInv, Good, TypeOK, Ownership, Trees
<1> QED  BY <1>2, <1>3 DEF Next, Stop

\* The inductive invariant holds in every reachable state.
THEOREM Invariance == Spec => []IInv
<1> QED  BY IInvInit, IInvNext, PTL DEF Spec

\* Every item is at a free address, a variable, or in a map or vector that is allocated.
THEOREM TypeCorrect == Spec => []TypeOK
<1>1. IInv => TypeOK
  BY DEF IInv
<1> QED  BY <1>1, Invariance, PTL

\* No body is deleted twice, used after it was deleted, or left without an owner but by
\* getOrCreateVector, whatever calls a program makes.
THEOREM BodiesAreOwned == Spec => []Ownership
<1>1. IInv => Ownership
  BY DEF IInv
<1> QED  BY <1>1, Invariance, PTL

\* No sequence of assignments, appends and conversions makes an item a part of itself.
THEOREM ItemsAreTrees == Spec => []Trees
<1>1. IInv => Trees
  BY DEF IInv
<1> QED  BY <1>1, Invariance, PTL

\* operator= reads freed memory only when its source is its target or below it.
THEOREM FreedOnlyInParts == Spec => AssignedFromApart
<1>1. ASSUME IInv, broken', ~broken, NEW x \in Live(heap), NEW y \in Live(heap), Assign(x, y)
      PROVE  y \in {x} \cup Inside(heap, Tree(heap, x))
  <2>1. Good(heap) /\ x \in Items /\ y \in Items
    BY <1>1 DEF IInv, Good, TypeOK, Ownership, Trees, Live
  <2>2. UsesFreed(heap, x, heap.item[y])
    BY <1>1 DEF Assign
  <2>3. /\ ~Empty(heap, y) /\ heap.item[y] \in Bodies \ FreeBodies(heap)
        /\ Deleted(heap, x).kind[heap.item[y]] = "free"
    BY <2>1, <2>2, HeapType DEF UsesFreed, Good, Owned, Empty
  <2>4. ~Empty(heap, x) /\ heap.item[y] \in Tree(heap, x)
    BY <2>1, <2>3, DeletedGood DEF FreeBodies
  <2> QED  BY <2>1, <2>3, <2>4, TreeLemma
<1>2. IInv /\ [Next]_vars =>
        [broken' /\ ~broken =>
           \A x, y \in Live(heap) : Assign(x, y) => y \in {x} \cup Inside(heap, Tree(heap, x))]_vars
  BY <1>1
<1> QED  BY <1>2, Invariance, PTL DEF Spec, AssignedFromApart

\* A conversion to a map changes no item that has a body.
LEMMA MapsKeep ==
  ASSUME NEW h, Good(h), NEW x \in Live(h), NEW k \in Maps(h, x)
  PROVE  /\ \A z \in Items : ~Empty(h, z) => k.item[z] = h.item[z]
         /\ \A b \in Bodies \ FreeBodies(h) : k.kind[b] = h.kind[b]
<1>1. CASE Empty(h, x)
  <2>1. PICK b \in FreeBodies(h) : k = NewBody(h, x, b, "map")
    <3>1. ~Holds(h, x, "map")
      BY <1>1 DEF Holds
    <3>2. Maps(h, x) = {NewBody(h, x, b, "map") : b \in FreeBodies(h)}
      BY <1>1, <3>1 DEF Maps
    <3> QED  BY <3>2
  <2> QED  BY <1>1, <2>1, NewBodyKeeps DEF Kinds, Live
<1>2. CASE ~Empty(h, x)
  BY <1>2 DEF Maps
<1> QED  BY <1>1, <1>2

\* A reference to an item is good after every lookup of every other item.
THEOREM LookupsKeepReferences == Spec => ReferencesSurviveLookups
<1>1. ASSUME IInv, NEW x \in Live(heap), Lookup(x), NEW z \in Live(heap)
      PROVE  heap'.home[z] = heap.home[z] /\ (~Empty(heap, z) => Untouched(z))
  <2>1. PICK h, q : h = heap /\ q = heap'
    OBVIOUS
  <2>2. Good(h) /\ x \in Live(h) /\ z \in Live(h) /\ z \in Items
    BY <1>1, <2>1 DEF IInv, Good, TypeOK, Ownership, Trees, Live
  <2>3. ~Empty(h, z) => h.item[z] \in Bodies \ FreeBodies(h)
    BY <2>2, HeapType DEF Good, Owned, Empty
  <2>4. ASSUME NEW k, k.home = h.home,
               \A y \in Items : ~Empty(h, y) => k.item[y] = h.item[y],
               \A b \in Bodies \ FreeBodies(h) : k.kind[b] = h.kind[b],
               \/ q = k
               \/ \E y \in FreeItems(h), b \in Bodies : q = NewItem(k, y, b)
        PROVE  q.home[z] = h.home[z] /\ (~Empty(h, z) => /\ q.item[z] = h.item[z]
                                                         /\ q.kind[h.item[z]] = h.kind[h.item[z]])
    <3>1. CASE q = k
      BY <2>2, <2>3, <2>4, <3>1
    <3>2. ASSUME NEW y \in FreeItems(h), NEW b \in Bodies, q = NewItem(k, y, b)
          PROVE  q.home[z] = h.home[z] /\ (~Empty(h, z) => /\ q.item[z] = h.item[z]
                                                           /\ q.kind[h.item[z]] = h.kind[h.item[z]])
      BY <2>2, <2>3, <2>4, <3>2 DEF NewItem, Live
    <3> QED  BY <2>4, <3>1, <3>2
  <2>5. CASE SetAtom(x)
    <3>1. PICK b \in FreeBodies(h) : q = NewBody(h, x, b, "atom") /\ Empty(h, x)
      BY <2>1, <2>5 DEF SetAtom
    <3>2. /\ q.home = h.home
          /\ \A u \in Items : ~Empty(h, u) => q.item[u] = h.item[u]
          /\ \A c \in Bodies \ FreeBodies(h) : q.kind[c] = h.kind[c]
      BY <2>2, <3>1, NewBodyGood, NewBodyKeeps DEF Kinds, Live
    <3> QED  BY <2>1, <2>4, <3>2 DEF Untouched
  <2>6. CASE AsMap(x)
    BY <2>1, <2>2, <2>4, <2>6, MapsGood, MapsKeep DEF AsMap, Untouched
  <2>7. CASE NewKey(x)
    <3>1. PICK m \in Maps(h, x), y \in FreeItems(h) : q = NewItem(m, y, m.item[x])
      BY <2>1, <2>7 DEF NewKey
    <3>2. PICK b : b = m.item[x]
      OBVIOUS
    <3>3. m.home = h.home /\ b \in Bodies /\ q = NewItem(m, y, b)
      BY <2>2, <3>1, <3>2, MapsGood
    <3>4. /\ \A u \in Items : ~Empty(h, u) => m.item[u] = h.item[u]
          /\ \A c \in Bodies \ FreeBodies(h) : m.kind[c] = h.kind[c]
      BY <2>2, MapsKeep
    <3>5. q.home[z] = h.home[z] /\ (~Empty(h, z) => /\ q.item[z] = h.item[z]
                                                   /\ q.kind[h.item[z]] = h.kind[h.item[z]])
      BY <2>4, <3>3, <3>4
    <3> QED  BY <2>1, <3>5 DEF Untouched
  <2> QED  BY <1>1, <2>5, <2>6, <2>7 DEF Lookup
<1>2. IInv /\ [Next]_vars =>
        [(\E z \in Live(heap) :
            heap'.home[z] # heap.home[z] \/ (~Empty(heap, z) /\ ~Untouched(z)))
         => ~\E x \in Live(heap) : Lookup(x)]_vars
  BY <1>1
<1> QED  BY <1>2, Invariance, PTL DEF Spec, ReferencesSurviveLookups
=============================================================================
