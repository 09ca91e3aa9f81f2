------------------------------- MODULE Bodies -------------------------------
(***************************************************************************)
(* Who owns what in memory.  A ConfigItem owns the body it points to (item,*)
(* a ConfigAtom, ConfigMap or ConfigVector), which it allocates, copies and*)
(* deletes; the entries of a map and the elements of a vector are          *)
(* ConfigItems again.  Clients keep references (ConfigItem &) to any of    *)
(* them and call on them in any order.                                     *)
(*                                                                         *)
(* Items and Bodies are addresses.  The keys, the order of the entries and *)
(* the contents of atoms, which the other modules are about, are left out. *)
(* A call on a vector that is a call on its first element (operator[] by   *)
(* key, getOrCreateAtom) is the call on that element; one that throws      *)
(* before it changes anything is left out.                                 *)
(***************************************************************************)
EXTENDS Functions

CONSTANTS Items,        \* addresses at which there can be a ConfigItem
          Bodies,       \* addresses at which there can be a body
          Variables,    \* the items that are variables of the program
          Program,      \* where those are
          Free, Null

ASSUME VariablesAssumption == Variables \subseteq Items
ASSUME MarkersAssumption == Program \notin Bodies /\ Free \notin Bodies \cup {Program}
ASSUME NullAssumption == Null \notin Bodies

VARIABLES heap,   \* see Heaps
          broken  \* freed memory was used: nothing is known of what follows

vars == << heap, broken >>

Kinds == {"atom", "map", "vector"}

(***************************************************************************)
(* kind[b] is what there is at b, home[x] the body whose entry or element  *)
(* the item x is, item[x] the body it points to.  lost has the bodies that *)
(* nothing points to and nobody will delete.                               *)
(***************************************************************************)
Heaps == [kind : [Bodies -> Kinds \cup {"free"}],
          home : [Items -> Bodies \cup {Program, Free}],
          item : [Items -> Bodies \cup {Null}],
          lost : SUBSET Bodies]

Init ==
  /\ heap = [kind |-> [b \in Bodies |-> "free"],
             home |-> [x \in Items |-> IF x \in Variables THEN Program ELSE Free],
             item |-> [x \in Items |-> Null],
             lost |-> {}]
  /\ broken = FALSE

FreeBodies(h) == {b \in Bodies : h.kind[b] = "free"}
FreeItems(h) == {x \in Items : h.home[x] = Free}
Live(h) == Items \ FreeItems(h)
Inside(h, B) == {x \in Items : h.home[x] \in B}

Empty(h, x) == h.item[x] = Null
Holds(h, x, kind) == ~Empty(h, x) /\ h.kind[h.item[x]] = kind

\* The bodies of the tree that hangs on b: the least set with b in it that has the
\* bodies of the items inside it.
Closed(h, C) == \A x \in Items : h.home[x] \in C => h.item[x] \in C \cup {Null}
Below(h, b) ==
  LET closed == {C \in SUBSET Bodies : b \in C /\ Closed(h, C)}
  IN  {c \in Bodies : \A C \in closed : c \in C}
Tree(h, x) == IF Empty(h, x) THEN {} ELSE Below(h, h.item[x])
-----------------------------------------------------------------------------
\* new: b was free, y was no item.
NewBody(h, x, b, kind) == [h EXCEPT !.kind[b] = kind, !.item[x] = b]
NewItem(h, y, b) == [h EXCEPT !.home[y] = b]

\* delete: the destructors free the bodies B and the items X inside them.
Remove(h, B, X) ==
  [h EXCEPT !.kind = [b \in Bodies |-> IF b \in B THEN "free" ELSE @[b]],
            !.home = [x \in Items |-> IF x \in X THEN Free ELSE @[x]],
            !.item = [x \in Items |-> IF x \in X THEN Null ELSE @[x]]]

\* Fault: the body is freed, what it holds is not.
DeletedShallow(h, x) ==
  IF Empty(h, x) THEN h
  ELSE [Remove(h, {h.item[x]}, {}) EXCEPT !.item[x] = Null]

Deleted(h, x) ==
  IF Empty(h, x) THEN h
  ELSE [Remove(h, Tree(h, x), Inside(h, Tree(h, x))) EXCEPT !.item[x] = Null]

(***************************************************************************)
(* The copy constructors, for the bodies DOMAIN f and the items DOMAIN g,  *)
(* which are copied to the addresses f and g.  An item whose home is not   *)
(* copied gets its copy beside it.                                         *)
(***************************************************************************)
Original(f, new) == CHOOSE old \in DOMAIN f : f[old] = new
Renamed(f, b) == IF b \in DOMAIN f THEN f[b] ELSE b

Clone(h, f, g) ==
  [h EXCEPT
     !.kind = [b \in Bodies |-> IF b \in Range(f) THEN @[Original(f, b)] ELSE @[b]],
     !.home = [x \in Items |->
                 IF x \in Range(g) THEN Renamed(f, @[Original(g, x)]) ELSE @[x]],
     !.item = [x \in Items |->
                 IF x \in Range(g) THEN Renamed(f, @[Original(g, x)]) ELSE @[x]]]

\* x, which is empty and has its place in w, gets a copy of the tree of the body b.
Attached(h, x, w, b) == [h EXCEPT !.home[x] = w, !.item[x] = b]

\* Fault: the pointer is copied instead of the tree.
CopiesShared(h, x, w, b) == {Attached(h, x, w, b)}

\* Fault: of a map or vector, only the body is copied.
CopiesFlat(h, x, w, b) ==
  {Attached([h EXCEPT !.kind[c] = h.kind[b]], x, w, c) : c \in FreeBodies(h)}

Copies(h, x, w, b) ==
  UNION {{Attached(Clone(h, f, g), x, w, f[b]) :
            g \in Injection(Inside(h, Below(h, b)), FreeItems(h) \ {x})} :
         f \in Injection(Below(h, b), FreeBodies(h))}

\* The same of an item that may be empty.
ItemCopies(h, x, w, b) ==
  IF b = Null THEN {Attached(h, x, w, Null)} ELSE Copies(h, x, w, b)
-----------------------------------------------------------------------------
\* ConfigItem::operator=.  The source is read after the target is deleted.
UsesFreed(h, x, b) == b # Null /\ Deleted(h, x).kind[b] = "free"

\* Fault: the body is taken from the source.
AssignedMoved(h, x, b) ==
  {Attached([Deleted(h, x) EXCEPT !.item = [y \in Items |-> IF @[y] = b THEN Null ELSE @[y]]],
            x, h.home[x], b)}

Assigned(h, x, b) == ItemCopies(Deleted(h, x), x, h.home[x], b)

Assign(x, y) ==
  IF UsesFreed(heap, x, heap.item[y])
  THEN heap' = Deleted(heap, x) /\ broken' = TRUE
  ELSE heap' \in Assigned(heap, x, heap.item[y]) /\ UNCHANGED broken

\* getOrCreateAtom
SetAtom(x) ==
  /\ Empty(heap, x)
  /\ \E b \in FreeBodies(heap) : heap' = NewBody(heap, x, b, "atom")
  /\ UNCHANGED broken

\* Fault: what is no map is replaced by one.
MapsReplaced(h, x) ==
  IF Holds(h, x, "map") THEN {h}
  ELSE {NewBody(Deleted(h, x), x, b, "map") : b \in FreeBodies(h)}

\* operator ConfigMap &, beginMap, endMap, find of an item without a body
Maps(h, x) ==
  CASE Empty(h, x) -> {NewBody(h, x, b, "map") : b \in FreeBodies(h)}
    [] Holds(h, x, "map") -> {h}
    [] OTHER -> {}

AsMap(x) == heap' \in Maps(heap, x) /\ UNCHANGED broken

\* operator[] of a key that is missing
NewKey(x) ==
  /\ \E h \in Maps(heap, x), y \in FreeItems(heap) :
       heap' = NewItem(h, y, h.item[x])
  /\ UNCHANGED broken

\* getOrCreateVector: of an atom or a map it puts a copy into the new vector, and
\* forgets the original.
Wrapped(h, x, v) ==
  [NewBody(h, x, v, "vector") EXCEPT !.lost = @ \cup {h.item[x]}]

Vectors(h, x) ==
  CASE Empty(h, x) -> {NewBody(h, x, v, "vector") : v \in FreeBodies(h)}
    [] Holds(h, x, "vector") -> {h}
    [] OTHER ->
         UNION {UNION {Copies(Wrapped(h, x, v), y, v, h.item[x]) :
                         y \in FreeItems(h)} :
                v \in FreeBodies(h)}

AsVector(x) == heap' \in Vectors(heap, x) /\ UNCHANGED broken

\* push_back(const ConfigItem &) of the vector v, with a copy of the body b.  When the
\* memory of the vector is full, the elements E it had are copied to a larger one
\* and destroyed.
Appended(h, v, b) ==
  UNION {ItemCopies(h, y, v, b) : y \in FreeItems(h)}

MovedWith(h, B, X) ==
  UNION {{Remove(Clone(h, f, g), B, X) : g \in Injection(X, FreeItems(h))} :
         f \in Injection(B, FreeBodies(h))}

Moved(h, E) ==
  LET B == UNION {Tree(h, e) : e \in E}
  IN  MovedWith(h, B, E \cup Inside(h, B))

Pushed(h, v, b) ==
  \E p \in Appended(h, v, b) : heap' \in {p} \cup Moved(p, Inside(h, {v}))

\* append, operator+=, push_back
Push(x, y) ==
  /\ \E h \in Vectors(heap, x) : Pushed(h, h.item[x], h.item[y])
  /\ UNCHANGED broken

\* operator[] of the index behind the last element
PushEmpty(x) ==
  /\ \E h \in Vectors(heap, x) : Pushed(h, h.item[x], Null)
  /\ UNCHANGED broken

\* erase of an entry of a map
Destroyed(h, x) == NewItem(Deleted(h, x), x, Free)

IsIn(x, kind) == heap.home[x] \in Bodies /\ heap.kind[heap.home[x]] = kind

EraseEntry(x) ==
  /\ IsIn(x, "map")
  /\ heap' = Destroyed(heap, x)
  /\ UNCHANGED broken

\* erase of an element of a vector: of the last one, or of x with only y behind it,
\* which is assigned to x.  (More elements are shifted one by one.)
EraseElement(x, y) ==
  /\ IsIn(x, "vector")
  /\ heap.home[y] = heap.home[x]
  /\ \/ x = y /\ heap' = Destroyed(heap, x)
     \/ x # y /\ \E h \in Assigned(heap, x, heap.item[y]) : heap' = Destroyed(h, y)
  /\ UNCHANGED broken

\* What a client does while it looks for something.
Lookup(x) == SetAtom(x) \/ AsMap(x) \/ NewKey(x)

Call(x) ==
  \/ Lookup(x)
  \/ AsVector(x)
  \/ PushEmpty(x)
  \/ EraseEntry(x)
  \/ \E y \in Live(heap) : Assign(x, y) \/ Push(x, y) \/ EraseElement(x, y)

Stop == broken /\ UNCHANGED vars

Next ==
  \/ \E x \in Live(heap) : ~broken /\ Call(x)
  \/ Stop

Spec == Init /\ [][Next]_vars
-----------------------------------------------------------------------------
Typed(h) ==
  /\ h \in Heaps
  /\ \A x \in Items :
       /\ h.home[x] \in Bodies => h.kind[h.home[x]] \in {"map", "vector"}
       /\ h.home[x] = Free => Empty(h, x)

Owned(h) ==
  /\ \A x, y \in Items : ~Empty(h, x) /\ h.item[x] = h.item[y] => x = y
  /\ \A x \in Items : ~Empty(h, x) => h.item[x] \notin FreeBodies(h) \cup h.lost
  /\ h.lost \cap FreeBodies(h) = {}
  /\ \A b \in Bodies \ FreeBodies(h) : b \in h.lost \/ \E x \in Items : h.item[x] = b

Acyclic(h) == \A x \in Items : h.home[x] \notin Tree(h, x)

\* An item is at a free address, a variable, or in a map or vector that is there; what
\* is at a free address holds nothing.
TypeOK == Typed(heap) /\ broken \in BOOLEAN

\* A body is deleted once and not before its item: two items never point to one body,
\* and none points to freed memory.  Whatever is allocated has its owner, or was
\* forgotten by getOrCreateVector.
Ownership == Owned(heap)

\* No item is a part of itself, so that deleting and copying it end.
Trees == Acyclic(heap)

\* So all memory hangs on the variables of the program, but for what
\* getOrCreateVector forgets with all that is below.
NothingElseLeaks ==
  \A b \in Bodies \ FreeBodies(heap) :
    \/ \E x \in Variables : b \in Tree(heap, x)
    \/ \E c \in heap.lost : b \in Below(heap, c)

\* z is where it was, and its body too.
Untouched(z) ==
  /\ heap'.home[z] = heap.home[z]
  /\ heap'.item[z] = heap.item[z]
  /\ ~Empty(heap, z) => heap'.kind[heap.item[z]] = heap.kind[heap.item[z]]

\* The parts of the memory that a call can be about: an item with all below it, or
\* what getOrCreateVector forgot.
Parts(h) ==
  {{x} \cup Inside(h, Tree(h, x)) : x \in Items} \cup {Inside(h, Below(h, b)) : b \in h.lost}

\* Configurations are values: no call changes anything but one item and what is below
\* it, whatever was copied from where before.
OneValueChanges ==
  [][\E P \in Parts(heap) : \A z \in Live(heap) \ P : Untouched(z)]_vars

\* A client that looks something up keeps the references it has, though the lookup may
\* add keys to maps.  (A vector that grows takes references away.)
ReferencesSurviveLookups ==
  [][(\E z \in Live(heap) :
        heap'.home[z] # heap.home[z] \/ (~Empty(heap, z) /\ ~Untouched(z)))
     => ~\E x \in Live(heap) : Lookup(x)]_vars

\* y is in k what x is in h, up to the addresses.
Alike(h, x, k, y) ==
  \E f \in Bijection(Tree(h, x), Tree(k, y)),
     g \in Bijection(Inside(h, Tree(h, x)), Inside(k, Tree(k, y))) :
    /\ k.item[y] = Renamed(f, h.item[x])
    /\ \A b \in DOMAIN f : k.kind[f[b]] = h.kind[b]
    /\ \A z \in DOMAIN g : /\ k.home[g[z]] = f[h.home[z]]
                           /\ k.item[g[z]] = Renamed(f, h.item[z])

\* An assignment makes the target what the source was, if neither is a part of the
\* other; and the source stays what it was (operator=, the copy constructors).
CopiesAreComplete ==
  \A x, y \in Live(heap) :
    LET apart(u, v) == u \notin {v} \cup Inside(heap, Tree(heap, v))
    IN  apart(x, y) /\ apart(y, x) =>
          \A h \in Assigned(heap, x, heap.item[y]) :
            Alike(heap, y, h, x) /\ Alike(heap, y, h, y)

\* An assignment uses freed memory only if its source is the target or a part of it.
AssignedFromApart ==
  [][broken' /\ ~broken =>
       \A x, y \in Live(heap) : Assign(x, y) => y \in {x} \cup Inside(heap, Tree(heap, x))]_vars
=============================================================================
