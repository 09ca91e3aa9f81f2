---------------------------- MODULE UriLoadProofs ----------------------------
(***************************************************************************)
(* That a configuration that is loaded has every file where it is named,   *)
(* for any files and any depth, and that loading fails for nothing else    *)
(* than a file that is missing or is no map.                               *)
(*                                                                         *)
(* First the items that are finished, then the inductive invariant IInv,   *)
(* and what it says of a frame that begins, goes on and returns; then one  *)
(* lemma per action, and the theorems.                                     *)
(***************************************************************************)
EXTENDS UriLoad, EntryProofs

\* What the operators of UriLoad on entries return.
LEMMA OwnIs ==
  ASSUME NEW s, IsDict(s)
  PROVE  /\ ~HasKey(s, Uri) => Own(s) = s
         /\ \A p \in DOMAIN s : s[p].key = Uri => Own(s) = Cut(s, p, p + 1)
<1>1. ASSUME NEW p \in DOMAIN s, s[p].key = Uri  PROVE Own(s) = Cut(s, p, p + 1)
  <2> DEFINE c == CHOOSE j \in DOMAIN s : s[j].key = Uri
  <2>1. c \in DOMAIN s /\ s[c].key = Uri
    BY <1>1
  <2>2. c = p
    BY <1>1, <2>1 DEF IsDict
  <2>3. HasKey(s, Uri)
    BY <1>1 DEF HasKey
  <2>4. Own(s) = Cut(s, c, c + 1)
    BY <2>3 DEF Own
  <2> HIDE DEF c
  <2> QED  BY <2>2, <2>4
<1>2. ~HasKey(s, Uri) => Own(s) = s
  BY DEF Own
<1> QED  BY <1>1, <1>2

LEMMA ChildrenAre ==
  ASSUME NEW x, Proper(x)
  PROVE  /\ Children(x) \in Seq(Range(Children(x)))
         /\ IsMap(x) =>
              /\ x = Map(x.entries) /\ IsDict(x.entries) /\ ~IsVector(x)
              /\ Len(Children(x)) = Len(x.entries)
              /\ \A i \in 1 .. Len(x.entries) : Children(x)[i] = x.entries[i].val
         /\ IsVector(x) =>
              /\ x = Vector(x.items) /\ x.items \in Seq(Range(x.items)) /\ ~IsMap(x)
              /\ Children(x) = x.items
         /\ ~IsMap(x) /\ ~IsVector(x) => Children(x) = << >>
<1>1. CASE IsMap(x)
  <2> DEFINE s == x.entries
  <2> DEFINE c == [i \in DOMAIN s |-> s[i].val]
  <2>1. x = Map(s) /\ IsDict(s) /\ ~IsVector(x)
    BY <1>1 DEF Proper, IsDict, IsMap, IsVector
  <2>2. Children(x) = c
    BY <1>1, <2>1 DEF Children
  <2> HIDE DEF s
  <2>3. DOMAIN s = 1 .. Len(s) /\ Len(s) \in Nat
    BY <2>1, DictShape
  <2>4. c \in Seq({s[i].val : i \in 1 .. Len(s)})
    BY <2>3
  <2>5. Len(c) = Len(s) /\ \A i \in 1 .. Len(s) : c[i] = s[i].val
    BY <2>3
  <2> HIDE DEF c
  <2>6. c \in Seq(Range(c))
    BY <2>4, IsSeqOfRange
  <2> QED  BY <1>1, <2>1, <2>2, <2>5, <2>6 DEF s
<1>2. CASE IsVector(x)
  <2>1. ~IsMap(x) /\ Children(x) = x.items
    BY <1>2 DEF Children, IsMap, IsVector
  <2> QED  BY <1>2, <2>1 DEF Proper
<1>3. CASE ~IsMap(x) /\ ~IsVector(x)
  <2>1. Children(x) = << >>
    BY <1>3 DEF Children
  <2> QED  BY <1>3, <2>1
<1> QED  BY <1>1, <1>2, <1>3

\* An item that loading leaves alone: no URI is in it or below.
Settled(S) ==
  \A y \in S :
    /\ Proper(y)
    /\ IsMap(y) => ~HasKey(y.entries, Uri)
    /\ Range(Children(y)) \subseteq S

Finished(x) == \E S : x \in S /\ Settled(S)

LEMMA FinishedIs ==
  ASSUME NEW x, Finished(x)
  PROVE  /\ Proper(x)
         /\ IsMap(x) => ~HasKey(x.entries, Uri)
         /\ \A y \in Range(Children(x)) : Finished(y)
BY DEF Finished, Settled

LEMMA FinishedFromParts ==
  ASSUME NEW x, Proper(x), IsMap(x) => ~HasKey(x.entries, Uri),
         \A y \in Range(Children(x)) : Finished(y)
  PROVE  Finished(x)
<1> DEFINE below(y) == CHOOSE S : y \in S /\ Settled(S)
<1> DEFINE P == Range(Children(x))
<1> DEFINE B == {below(y) : y \in P}
<1> DEFINE T == {x} \cup UNION B
<1>1. ASSUME NEW y \in P  PROVE y \in below(y) /\ Settled(below(y))
  <2>1. \E S : y \in S /\ Settled(S)
    BY DEF Finished
  <2> QED  BY <2>1, Zenon
<1> HIDE DEF below
<1>2. P \subseteq T
  BY <1>1
<1>3. \A b \in B : Settled(b)
  BY <1>1
<1> HIDE DEF B
<1>4. Settled(T)
  BY <1>2, <1>3 DEF Settled
<1> QED  BY <1>4 DEF Finished
-----------------------------------------------------------------------------
(***************************************************************************)
(* The inductive invariant.  Each frame of the stack has a label: the item *)
(* it was called on, the file that this is part of, and whether it is      *)
(* clean, that is, comes from a file that is inlined already.              *)
(***************************************************************************)
Label(of, file, clean) == [of |-> of, file |-> file, clean |-> clean]

\* What the map that a frame works on has got of the file it names.
SoFar(d, F, l) == IF F.erase = 0 THEN Map(<< >>) ELSE Included(d, l.of, F.path)

\* What the entry at j of the map has become.
ValueAt(d, F, l, j) ==
  LET e == l.of.entries[j]
      u == SoFar(d, F, l).entries
  IN  IF HasKey(u, e.key) THEN At(u, e.key)
      ELSE IF j < F.it /\ j # F.erase THEN Inlined(d, e.val, F.path)
      ELSE e.val

UriProgress(d, F, l) ==
  LET s == l.of.entries
  IN  /\ F.erase \in 0 .. Len(s) /\ F.erase < F.it
      /\ F.erase # 0 => s[F.erase].key = Uri
      /\ IsMap(SoFar(d, F, l)) /\ Finished(SoFar(d, F, l))
      /\ \A j \in 1 .. Len(s) : j < F.it /\ s[j].key = Uri => j = F.erase

MapProgress(d, F, l) ==
  LET s == l.of.entries
      r == F.item.entries
      new == NewEntries(SoFar(d, F, l).entries, s)
  IN  /\ Len(r) = Len(s) + Len(new)
      /\ F.it \in 1 .. Len(r) + 1
      /\ \A j \in 1 .. Len(s) : r[j].key = s[j].key /\ r[j].val = ValueAt(d, F, l, j)
      /\ \A j \in 1 .. Len(new) : r[Len(s) + j] = new[j]
      /\ \A j \in 1 .. Len(r) : j < F.it /\ j # F.erase => Finished(r[j].val)

VectorProgress(d, F, l) ==
  LET s == l.of.items
      r == F.item.items
  IN  /\ Len(r) = Len(s)
      /\ F.erase = 0
      /\ F.it \in 1 .. Len(s) + 1
      /\ \A j \in 1 .. Len(s) :
           IF j < F.it THEN r[j] = Inlined(d, s[j], F.path) /\ Finished(r[j])
           ELSE r[j] = s[j]

RawOK(d, K, F, l) ==
  /\ l.file \in K /\ F.path = GetPathOfFile(l.file) /\ l.of \in PartsOf(d[l.file])
  /\ Proper(F.item) /\ F.item.kind = l.of.kind
  /\ IsMap(l.of) => UriProgress(d, F, l) /\ MapProgress(d, F, l)
  /\ IsVector(l.of) => VectorProgress(d, F, l)
  /\ IsAtom(l.of) => F.item = l.of /\ F.it = 1 /\ F.erase = 0

CleanOK(F, l) ==
  /\ F.item = l.of /\ Finished(l.of)
  /\ F.it \in 1 .. Len(Children(l.of)) + 1 /\ F.erase = 0

IsFrame(F) ==
  /\ F = [call |-> F.call, item |-> F.item, path |-> F.path, it |-> F.it, erase |-> F.erase]
  /\ F.call \in {"read", "again", "part"}

FrameOK(d, K, F, l) ==
  /\ IsFrame(F)
  /\ l = Label(l.of, l.file, l.clean) /\ l.clean \in BOOLEAN
  /\ IF l.clean THEN CleanOK(F, l) ELSE RawOK(d, K, F, l)

\* The iterator of G is at an entry that another file has brought.
Foreign(d, G, l) ==
  /\ IsMap(l.of)
  /\ \/ G.it > Len(l.of.entries)
     \/ HasKey(SoFar(d, G, l).entries, l.of.entries[G.it].key)

\* F, with the label k, was called by G.
CalledForPart(d, G, l, F, k) ==
  /\ F.call = "part" /\ ~AtEndOf(G) /\ ~AtUriOf(G)
  /\ F.path = G.path
  /\ k = Label(PartOf(G), l.file, l.clean \/ Foreign(d, G, l))

CalledForUri(d, G, l, F, k) ==
  LET file == FileOf(G.path, PartOf(G))
      inlined == Inlined(d, d[file], GetPathOfFile(file))
  IN  /\ AtUriOf(G) /\ ~l.clean /\ CanLoadFrom(d, G.path, PartOf(G))
      /\ \/ F.call = "read" /\ k = Label(d[file], file, FALSE)
         \/ F.call = "again" /\ k = Label(inlined, file, TRUE) /\ inlined.kind = d[file].kind

Called(d, G, l, F, k) == CalledForPart(d, G, l, F, k) \/ CalledForUri(d, G, l, F, k)

\* F, with the label k, was called by fromYamlFile.
IsRoot(d, F, k) == F.call = "read" /\ k = Label(d[First], First, FALSE)

StackOK(d, K, st, m) ==
  /\ st \in Seq(Range(st)) /\ m \in Seq(Range(m)) /\ Len(m) = Len(st)
  /\ \A i \in 1 .. Len(st) : FrameOK(d, K, st[i], m[i])
  /\ \A i \in 1 .. Len(st) - 1 : Called(d, st[i], m[i], st[i + 1], m[i + 1])
  /\ Len(st) > 0 => IsRoot(d, st[1], m[1])

ResultOK ==
  \/ result \in {Running, Failed, Overflow}
  \/ /\ result = Loaded(result.item) /\ Proper(result.item)
     /\ result.item = Inlined(disk, Read(First), GetPathOfFile(First))

IInv ==
  /\ disk \in Disks
  /\ ResultOK
  /\ result = Running => stack # << >>
  /\ Len(stack) <= MaxDepth
  /\ \E m : StackOK(disk, AllNamed({First}), stack, m)
  /\ FailsForAReason
-----------------------------------------------------------------------------
LEMMA PartsAre ==
  ASSUME NEW d \in Disks, NEW f \in DOMAIN d
  PROVE  /\ d[f] \in PartsOf(d[f])
         /\ \A x \in PartsOf(d[f]) : Proper(x) /\ Range(Children(x)) \subseteq PartsOf(d[f])
<1>1. d[f] \in Range(d)
  BY DEF Range
<1> QED  BY <1>1, PartsAssumption, Zenon

LEMMA InlinedIs ==
  ASSUME NEW d \in Disks, NEW f \in DOMAIN d, NEW x \in PartsOf(d[f])
  PROVE  Inlined(d, x, GetPathOfFile(f)) =
           IF IsMap(x) THEN InlinedMap(d, x, GetPathOfFile(f))
           ELSE IF IsVector(x) THEN InlinedVector(d, x, GetPathOfFile(f))
           ELSE x
<1>1. ~(IsMap(x) /\ IsVector(x))
  BY DEF IsMap, IsVector
<1> QED  BY <1>1, InlinedAssumption

LEMMA KindsOfProper ==
  ASSUME NEW x, Proper(x)
  PROVE  /\ \/ IsMap(x) /\ ~IsVector(x) /\ ~IsAtom(x)
            \/ IsVector(x) /\ ~IsMap(x) /\ ~IsAtom(x)
            \/ IsAtom(x) /\ ~IsMap(x) /\ ~IsVector(x)
         /\ ~IsNone(x)
BY DEF Proper, IsMap, IsVector, IsAtom, IsNone

LEMMA FinishedAtoms ==
  ASSUME NEW x, Proper(x), ~IsMap(x), ~IsVector(x)
  PROVE  Finished(x)
<1>1. Children(x) = << >>
  BY ChildrenAre
<1>2. Range(Children(x)) = {}
  BY <1>1 DEF Range
<1> QED  BY <1>2, FinishedFromParts

\* Nothing included: no key, and no new entry.
LEMMA NothingIncluded ==
  /\ IsMap(Map(<< >>)) /\ Map(<< >>).entries = << >>
  /\ \A k : ~HasKey(<< >>, k)
  /\ \A s : NewEntries(<< >>, s) = << >>
  /\ IsDict(<< >>)
  /\ Finished(Map(<< >>))
<1>1. IsMap(Map(<< >>)) /\ Map(<< >>).entries = << >> /\ IsDict(<< >>) /\ \A k : ~HasKey(<< >>, k)
  BY DEF IsMap, Map, IsDict, HasKey
<1>2. Proper(Map(<< >>))
  BY <1>1 DEF Proper, IsAtom, IsVector, IsMap, IsDict, Map
<1>3. Children(Map(<< >>)) = << >>
  <2>1. Len(Children(Map(<< >>))) = 0
    BY <1>1, <1>2, ChildrenAre
  <2> QED  BY <1>2, <2>1, ChildrenAre
<1>4. Range(Children(Map(<< >>))) = {}
  BY <1>3 DEF Range
<1> QED  BY <1>1, <1>2, <1>4, FinishedFromParts, NothingNew

\* A call begins well, on a part of a file or on what is inlined.
LEMMA RawStart ==
  ASSUME NEW d \in Disks, NEW K, K \subseteq DOMAIN d, NEW f \in K, NEW x \in PartsOf(d[f]),
         NEW call \in {"read", "again", "part"}
  PROVE  FrameOK(d, K, Frame(call, x, GetPathOfFile(f)), Label(x, f, FALSE))
<1> DEFINE F == Frame(call, x, GetPathOfFile(f))
<1> DEFINE l == Label(x, f, FALSE)
<1>1. IsFrame(F) /\ F.it = 1 /\ F.erase = 0 /\ F.item = x /\ F.path = GetPathOfFile(f)
  BY DEF IsFrame, Frame
<1>2. l.of = x /\ l.file = f /\ l.clean = FALSE /\ l = Label(l.of, l.file, l.clean)
  BY DEF Label
<1>3. Proper(x)
  BY PartsAre
<1> HIDE DEF F, l
<1>4. SoFar(d, F, l) = Map(<< >>)
  BY <1>1 DEF SoFar
<1>5. ASSUME IsMap(x)  PROVE UriProgress(d, F, l) /\ MapProgress(d, F, l)
  <2> DEFINE s == x.entries
  <2>1. IsDict(s)
    BY <1>3, <1>5, ChildrenAre
  <2>2. Len(s) \in Nat
    BY <2>1, DictShape
  <2>3. \A j \in 1 .. Len(s) : ValueAt(d, F, l, j) = s[j].val
    BY <1>1, <1>2, <1>4, NothingIncluded DEF ValueAt
  <2>4. UriProgress(d, F, l)
    BY <1>1, <1>2, <1>4, <2>2, NothingIncluded DEF UriProgress
  <2>5. MapProgress(d, F, l)
    <3>1. NewEntries(SoFar(d, F, l).entries, s) = << >>
      BY <1>4, NothingIncluded
    <3> QED  BY <1>1, <1>2, <2>2, <2>3, <3>1 DEF MapProgress
  <2> QED  BY <2>4, <2>5
<1>6. ASSUME IsVector(x)  PROVE VectorProgress(d, F, l)
  <2>1. Len(x.items) \in Nat
    BY <1>3, <1>6, ChildrenAre
  <2> QED  BY <1>1, <1>2, <2>1 DEF VectorProgress
<1>7. RawOK(d, K, F, l)
  BY <1>1, <1>2, <1>3, <1>5, <1>6 DEF RawOK
<1> QED  BY <1>1, <1>2, <1>7 DEF FrameOK, F, l

LEMMA CleanStart ==
  ASSUME NEW d, NEW K, NEW f, NEW path, NEW x, Finished(x), NEW call \in {"read", "again", "part"}
  PROVE  FrameOK(d, K, Frame(call, x, path), Label(x, f, TRUE))
<1> DEFINE F == Frame(call, x, path)
<1> DEFINE l == Label(x, f, TRUE)
<1>1. IsFrame(F) /\ F.it = 1 /\ F.erase = 0 /\ F.item = x
  BY DEF IsFrame, Frame
<1>2. l.of = x /\ l.file = f /\ l.clean = TRUE /\ l = Label(l.of, l.file, l.clean)
  BY DEF Label
<1> HIDE DEF F, l
<1>3. Len(Children(x)) \in Nat
  BY FinishedIs, ChildrenAre
<1>4. CleanOK(F, l)
  BY <1>1, <1>2, <1>3 DEF CleanOK
<1>5. FrameOK(d, K, F, l)
  BY <1>1, <1>2, <1>4 DEF FrameOK
<1> QED  BY <1>5 DEF F, l

\* A frame that is clean comes to no URI.
LEMMA CleanHasNoUri ==
  ASSUME NEW d, NEW K, NEW F, NEW l, FrameOK(d, K, F, l), l.clean
  PROVE  ~AtUriOf(F)
<1>1. CleanOK(F, l)
  BY DEF FrameOK
<1>2. Proper(F.item) /\ (IsMap(F.item) => ~HasKey(F.item.entries, Uri)) /\ F.it \in 1 .. Len(Children(F.item)) + 1
  BY <1>1, FinishedIs DEF CleanOK
<1> SUFFICES ASSUME AtUriOf(F)  PROVE FALSE
  OBVIOUS
<1>3. IsMap(F.item) /\ F.item.entries[F.it].key = Uri /\ ~(F.it > Len(Children(F.item)))
  BY DEF AtUriOf, AtEndOf
<1>4. IsDict(F.item.entries) /\ Len(Children(F.item)) = Len(F.item.entries)
  BY <1>2, <1>3, ChildrenAre
<1>5. F.it \in DOMAIN F.item.entries
  BY <1>2, <1>3, <1>4, DictShape
<1> QED  BY <1>2, <1>3, <1>5 DEF HasKey

\* The entries of a map that is finished.
LEMMA FinishedEntries ==
  ASSUME NEW u, Finished(u), IsMap(u)
  PROVE  /\ IsDict(u.entries) /\ u = Map(u.entries)
         /\ \A i \in DOMAIN u.entries : Finished(u.entries[i].val) /\ u.entries[i].key # Uri
         /\ ~HasKey(u.entries, Uri)
         /\ \A k : HasKey(u.entries, k) => Finished(At(u.entries, k))
<1>1. Proper(u) /\ ~HasKey(u.entries, Uri) /\ \A y \in Range(Children(u)) : Finished(y)
  BY FinishedIs
<1>2. /\ IsDict(u.entries) /\ u = Map(u.entries)
      /\ Len(Children(u)) = Len(u.entries) /\ Children(u) \in Seq(Range(Children(u)))
      /\ \A i \in 1 .. Len(u.entries) : Children(u)[i] = u.entries[i].val
  BY <1>1, ChildrenAre
<1>3. DOMAIN u.entries = 1 .. Len(u.entries)
  BY <1>2, DictShape
<1>4. \A i \in DOMAIN u.entries : Finished(u.entries[i].val)
  <2> TAKE i \in DOMAIN u.entries
  <2>1. Children(u)[i] \in Range(Children(u))
    BY <1>2, <1>3
  <2> QED  BY <1>1, <1>2, <1>3, <2>1
<1>5. \A i \in DOMAIN u.entries : u.entries[i].key # Uri
  BY <1>1 DEF HasKey
<1>6. ASSUME NEW k, HasKey(u.entries, k)  PROVE Finished(At(u.entries, k))
  <2>1. PICK i \in DOMAIN u.entries : u.entries[i].key = k
    BY <1>6 DEF HasKey
  <2> QED  BY <1>2, <1>4, <2>1, AtIs
<1> QED  BY <1>1, <1>2, <1>4, <1>5, <1>6

LEMMA NewAreFinished ==
  ASSUME NEW u, Finished(u), IsMap(u), NEW s
  PROVE  LET new == NewEntries(u.entries, s)
         IN  /\ IsDict(new)
             /\ \A j \in 1 .. Len(new) :
                  Finished(new[j].val) /\ new[j].key # Uri /\ ~HasKey(s, new[j].key)
<1> DEFINE new == NewEntries(u.entries, s)
<1>1. IsDict(u.entries) /\ \A i \in DOMAIN u.entries : Finished(u.entries[i].val) /\ u.entries[i].key # Uri
  BY FinishedEntries
<1>2. IsDict(new) /\ \A j \in DOMAIN new :
                      \E i \in DOMAIN u.entries : new[j] = u.entries[i] /\ ~HasKey(s, u.entries[i].key)
  BY <1>1, NewEntriesAre
<1> HIDE DEF new
<1>3. DOMAIN new = 1 .. Len(new)
  BY <1>2, DictShape
<1>4. ASSUME NEW j \in 1 .. Len(new)
      PROVE  Finished(new[j].val) /\ new[j].key # Uri /\ ~HasKey(s, new[j].key)
  <2>1. PICK i \in DOMAIN u.entries : new[j] = u.entries[i] /\ ~HasKey(s, u.entries[i].key)
    BY <1>2, <1>3
  <2> QED  BY <1>1, <2>1
<1> QED  BY <1>2, <1>4 DEF new

\* A frame that works on a map of a file.
LEMMA RawMap ==
  ASSUME NEW d \in Disks, NEW K, K \subseteq DOMAIN d, NEW F, NEW l, FrameOK(d, K, F, l),
         ~l.clean, IsMap(l.of) \/ IsMap(F.item)
  PROVE  /\ IsMap(l.of) /\ IsMap(F.item)
         /\ l.file \in DOMAIN d /\ l.of \in PartsOf(d[l.file]) /\ F.path = GetPathOfFile(l.file)
         /\ IsDict(l.of.entries) /\ IsDict(F.item.entries) /\ F.item = Map(F.item.entries)
         /\ Children(F.item) \in Seq(Range(Children(F.item)))
         /\ Len(Children(F.item)) = Len(F.item.entries)
         /\ \A i \in 1 .. Len(F.item.entries) : Children(F.item)[i] = F.item.entries[i].val
         /\ UriProgress(d, F, l) /\ MapProgress(d, F, l)
<1>1. RawOK(d, K, F, l)
  BY DEF FrameOK
<1>2. IsMap(l.of) /\ IsMap(F.item)
  BY <1>1 DEF RawOK, IsMap
<1>3. l.file \in DOMAIN d /\ l.of \in PartsOf(d[l.file]) /\ F.path = GetPathOfFile(l.file)
  BY <1>1 DEF RawOK
<1>4. Proper(l.of) /\ Proper(F.item)
  BY <1>1, <1>3, PartsAre DEF RawOK
<1>5. UriProgress(d, F, l) /\ MapProgress(d, F, l)
  BY <1>1, <1>2 DEF RawOK
<1>6. IsDict(l.of.entries)
  BY <1>2, <1>4, ChildrenAre
<1> QED  BY <1>2, <1>3, <1>4, <1>5, <1>6, ChildrenAre

\* Where the iterator is at a URI, it is the first one, and nothing is included yet.
LEMMA AtUriIs ==
  ASSUME NEW d \in Disks, NEW K, K \subseteq DOMAIN d, NEW F, NEW l, FrameOK(d, K, F, l),
         AtUriOf(F)
  PROVE  /\ ~l.clean /\ IsMap(l.of) /\ IsMap(F.item) /\ F.erase = 0
         /\ F.it \in 1 .. Len(l.of.entries) /\ l.of.entries[F.it].key = Uri
         /\ Len(F.item.entries) = Len(l.of.entries)
         /\ PartOf(F) = l.of.entries[F.it].val
<1>1. ~l.clean
  BY CleanHasNoUri
<1>2. IsMap(F.item) /\ F.item.entries[F.it].key = Uri /\ ~(F.it > Len(Children(F.item)))
  BY DEF AtUriOf, AtEndOf
<1> DEFINE s == l.of.entries
<1> DEFINE r == F.item.entries
<1> DEFINE u == SoFar(d, F, l)
<1> DEFINE new == NewEntries(u.entries, s)
<1>3. /\ IsMap(l.of) /\ IsDict(s) /\ IsDict(r)
      /\ Len(Children(F.item)) = Len(r)
      /\ \A i \in 1 .. Len(r) : Children(F.item)[i] = r[i].val
      /\ UriProgress(d, F, l) /\ MapProgress(d, F, l)
  BY <1>1, <1>2, RawMap
<1>4. Len(s) \in Nat /\ Len(r) \in Nat
  BY <1>3, DictShape
<1>5. /\ IsMap(u) /\ Finished(u) /\ F.erase \in 0 .. Len(s) /\ F.erase < F.it
      /\ F.erase # 0 => s[F.erase].key = Uri
      /\ \A j \in 1 .. Len(s) : j < F.it /\ s[j].key = Uri => j = F.erase
  BY <1>3 DEF UriProgress
<1>6. IsDict(new) /\ \A j \in 1 .. Len(new) : new[j].key # Uri
  BY <1>5, NewAreFinished
<1>7. /\ Len(r) = Len(s) + Len(new) /\ F.it \in 1 .. Len(r) + 1
      /\ \A j \in 1 .. Len(s) : r[j].key = s[j].key /\ r[j].val = ValueAt(d, F, l, j)
      /\ \A j \in 1 .. Len(new) : r[Len(s) + j] = new[j]
  BY <1>3 DEF MapProgress
<1> HIDE DEF s, r, u, new
<1>8. Len(new) \in Nat
  BY <1>6, DictShape
<1>9. F.it \in 1 .. Len(r) /\ r[F.it].key = Uri
  BY <1>2, <1>3, <1>4, <1>7 DEF r
<1>10. F.it \in 1 .. Len(s)
  <2> SUFFICES ASSUME F.it > Len(s)  PROVE FALSE
    BY <1>4, <1>9
  <2>1. F.it - Len(s) \in 1 .. Len(new) /\ Len(s) + (F.it - Len(s)) = F.it
    BY <1>4, <1>7, <1>8, <1>9
  <2> QED  BY <1>6, <1>7, <1>9, <2>1
<1>11. s[F.it].key = Uri
  BY <1>7, <1>9, <1>10
<1>12. F.erase = 0
  <2> SUFFICES ASSUME F.erase # 0  PROVE FALSE
    OBVIOUS
  <2>1. F.erase \in 1 .. Len(s) /\ s[F.erase].key = Uri
    BY <1>4, <1>5
  <2>2. F.erase = F.it
    BY <1>3, <1>10, <1>11, <2>1, DictShape DEF IsDict
  <2> QED  BY <1>4, <1>5, <1>10, <2>2
<1>13. u = Map(<< >>)
  BY <1>12 DEF u, SoFar
<1>14. new = << >>
  BY <1>13, NothingIncluded DEF new
<1>15. r[F.it].val = s[F.it].val
  <2>1. ~HasKey(u.entries, s[F.it].key)
    BY <1>13, NothingIncluded
  <2>2. ValueAt(d, F, l, F.it) = s[F.it].val
    BY <1>10, <2>1 DEF ValueAt, s, u
  <2> QED  BY <1>7, <1>10, <2>2
<1>16. PartOf(F) = s[F.it].val
  BY <1>3, <1>9, <1>15 DEF PartOf
<1>17. Len(r) = Len(s)
  BY <1>4, <1>7, <1>14
<1> QED  BY <1>1, <1>2, <1>3, <1>10, <1>11, <1>12, <1>16, <1>17 DEF s, r

WithValue(r, p, x) == [r EXCEPT ![p].val = x]

LEMMA WithPartIs ==
  ASSUME NEW F, IsFrame(F), NEW x
  PROVE  /\ IsFrame(WithPart(F, x))
         /\ WithPart(F, x).call = F.call /\ WithPart(F, x).path = F.path
         /\ WithPart(F, x).erase = F.erase /\ WithPart(F, x).it = F.it + 1
         /\ WithPart(F, x).item = IF IsMap(F.item) THEN Map(WithValue(F.item.entries, F.it, x))
                                  ELSE Vector([F.item.items EXCEPT ![F.it] = x])
<1> DEFINE new == IF IsMap(F.item) THEN Map(WithValue(F.item.entries, F.it, x))
                  ELSE Vector([F.item.items EXCEPT ![F.it] = x])
<1>1. WithPart(F, x) = [F EXCEPT !.it = F.it + 1, !.item = new]
  BY Zenon DEF WithPart, WithValue
<1> HIDE DEF new
<1>2. /\ F = [call |-> F.call, item |-> F.item, path |-> F.path, it |-> F.it, erase |-> F.erase]
      /\ F.call \in {"read", "again", "part"}
  BY DEF IsFrame
<1>3. WithPart(F, x) = [call |-> F.call, item |-> new, path |-> F.path, it |-> F.it + 1, erase |-> F.erase]
  BY <1>1, <1>2
<1> QED  BY <1>2, <1>3 DEF IsFrame, new

LEMMA DictWithValue ==
  ASSUME NEW r, IsDict(r), NEW p \in DOMAIN r, NEW x
  PROVE  LET q == WithValue(r, p, x)
         IN  /\ IsDict(q) /\ Len(q) = Len(r) /\ DOMAIN q = DOMAIN r
             /\ \A j \in DOMAIN r : q[j].key = r[j].key
             /\ q[p].val = x
             /\ \A j \in DOMAIN r : j # p => q[j] = r[j]
<1> DEFINE q == WithValue(r, p, x)
<1>1. r \in Seq(Range(r)) /\ DOMAIN r = 1 .. Len(r) /\ Len(r) \in Nat
  BY DEF IsDict
<1>2. r[p] = Entry(r[p].key, r[p].val)
  BY DEF IsDict
<1>3. [r[p] EXCEPT !.val = x] = Entry(r[p].key, x)
  BY <1>2 DEF Entry
<1>4. q = [r EXCEPT ![p] = Entry(r[p].key, x)]
  BY <1>3, Zenon DEF WithValue
<1> HIDE DEF q
<1>5. q \in Seq(Range(r) \cup {Entry(r[p].key, x)}) /\ Len(q) = Len(r) /\ DOMAIN q = DOMAIN r
  BY <1>1, <1>4
<1>6. q \in Seq(Range(q))
  BY <1>5, IsSeqOfRange
<1>7. q[p] = Entry(r[p].key, x) /\ \A j \in DOMAIN r : j # p => q[j] = r[j]
  BY <1>1, <1>4
<1>8. q[p].key = r[p].key /\ q[p].val = x
  BY <1>7 DEF Entry
<1>9. \A j \in DOMAIN r : q[j].key = r[j].key
  BY <1>7, <1>8
<1>10. \A j \in DOMAIN r : q[j] = Entry(q[j].key, q[j].val)
  <2> TAKE j \in DOMAIN r
  <2>1. CASE j = p
    BY <1>7, <1>8, <2>1
  <2>2. CASE j # p
    BY <1>7, <2>2 DEF IsDict
  <2> QED  BY <2>1, <2>2
<1>11. IsDict(q)
  BY <1>5, <1>6, <1>9, <1>10 DEF IsDict
<1> QED  BY <1>5, <1>7, <1>8, <1>9, <1>11 DEF q

\* A part that is visited as it is: only the iterator moves.
LEMMA WithItsPart ==
  ASSUME NEW F, IsFrame(F), Proper(F.item), F.it \in 1 .. Len(Children(F.item)) + 1, ~AtEndOf(F)
  PROVE  WithPart(F, PartOf(F)) = [F EXCEPT !.it = @ + 1]
<1> DEFINE x == PartOf(F)
<1>1. Len(Children(F.item)) \in Nat /\ F.it \in 1 .. Len(Children(F.item))
  BY ChildrenAre DEF AtEndOf
<1>2. WithPart(F, x).item = F.item
  <2>1. CASE IsMap(F.item)
    <3> DEFINE r == F.item.entries
    <3>1. IsDict(r) /\ Len(r) = Len(Children(F.item)) /\ x = r[F.it].val /\ F.item = Map(r)
      BY <1>1, <2>1, ChildrenAre DEF PartOf
    <3>2. WithPart(F, x).item = Map(WithValue(r, F.it, x))
      BY <2>1, WithPartIs
    <3> HIDE DEF r
    <3>3. F.it \in DOMAIN r /\ r \in Seq(Range(r))
      BY <1>1, <3>1, DictShape DEF IsDict
    <3> DEFINE q == WithValue(r, F.it, x)
    <3>4. /\ IsDict(q) /\ DOMAIN q = DOMAIN r /\ q[F.it].val = x
          /\ \A j \in DOMAIN r : q[j].key = r[j].key
          /\ \A j \in DOMAIN r : j # F.it => q[j] = r[j]
      BY <3>1, <3>3, DictWithValue
    <3> HIDE DEF q
    <3>5. q[F.it] = r[F.it]
      BY <3>1, <3>3, <3>4 DEF IsDict
    <3>6. \A j \in DOMAIN r : q[j] = r[j]
      BY <3>4, <3>5
    <3>7. q \in Seq(Range(q)) /\ DOMAIN q = DOMAIN r
      BY <3>4 DEF IsDict
    <3>8. q = r
      BY <3>3, <3>6, <3>7
    <3> QED  BY <3>1, <3>2, <3>8 DEF q
  <2>2. CASE ~IsMap(F.item)
    <3> DEFINE r == F.item.items
    <3>1. IsVector(F.item)
      BY <1>1, <2>2, ChildrenAre
    <3>2. x = r[F.it] /\ F.item = Vector(r) /\ r \in Seq(Range(r)) /\ F.it \in 1 .. Len(r)
      BY <1>1, <3>1, ChildrenAre DEF PartOf
    <3>3. WithPart(F, x).item = Vector([r EXCEPT ![F.it] = x])
      BY <2>2, WithPartIs
    <3> HIDE DEF r
    <3>4. [r EXCEPT ![F.it] = x] = r
      BY <3>2
    <3> QED  BY <3>2, <3>3, <3>4
  <2> QED  BY <2>1, <2>2
<1>3. /\ IsFrame(WithPart(F, x)) /\ WithPart(F, x).call = F.call /\ WithPart(F, x).path = F.path
      /\ WithPart(F, x).erase = F.erase /\ WithPart(F, x).it = F.it + 1
  BY WithPartIs
<1> DEFINE G == WithPart(F, x)
<1> HIDE DEF G, x
<1>4. G = [call |-> F.call, item |-> F.item, path |-> F.path, it |-> F.it + 1, erase |-> F.erase]
  BY <1>2, <1>3 DEF IsFrame, G
<1>5. F = [call |-> F.call, item |-> F.item, path |-> F.path, it |-> F.it, erase |-> F.erase]
  BY DEF IsFrame
<1>6. [F EXCEPT !.it = F.it + 1] =
        [call |-> F.call, item |-> F.item, path |-> F.path, it |-> F.it + 1, erase |-> F.erase]
  BY <1>5
<1> QED  BY <1>4, <1>6 DEF G, x

\* A frame that works on a vector of a file.
LEMMA RawVector ==
  ASSUME NEW d \in Disks, NEW K, K \subseteq DOMAIN d, NEW F, NEW l, FrameOK(d, K, F, l),
         ~l.clean, IsVector(l.of) \/ IsVector(F.item)
  PROVE  /\ IsVector(l.of) /\ IsVector(F.item) /\ ~IsMap(F.item) /\ ~IsMap(l.of)
         /\ l.file \in DOMAIN d /\ l.of \in PartsOf(d[l.file]) /\ F.path = GetPathOfFile(l.file)
         /\ l.of.items \in Seq(Range(l.of.items)) /\ F.item.items \in Seq(Range(F.item.items))
         /\ F.item = Vector(F.item.items)
         /\ Children(F.item) = F.item.items /\ Children(l.of) = l.of.items
         /\ VectorProgress(d, F, l)
<1>1. RawOK(d, K, F, l)
  BY DEF FrameOK
<1>2. IsVector(l.of) /\ IsVector(F.item)
  BY <1>1 DEF RawOK, IsVector
<1>3. l.file \in DOMAIN d /\ l.of \in PartsOf(d[l.file]) /\ F.path = GetPathOfFile(l.file)
  BY <1>1 DEF RawOK
<1>4. Proper(l.of) /\ Proper(F.item)
  BY <1>1, <1>3, PartsAre DEF RawOK
<1>5. VectorProgress(d, F, l)
  BY <1>1, <1>2 DEF RawOK
<1> QED  BY <1>2, <1>3, <1>4, <1>5, ChildrenAre

\* And one on an atom, which has nothing to visit.
LEMMA RawAtom ==
  ASSUME NEW d \in Disks, NEW K, K \subseteq DOMAIN d, NEW F, NEW l, FrameOK(d, K, F, l),
         ~l.clean, ~IsMap(F.item), ~IsVector(F.item)
  PROVE  /\ F.item = l.of /\ Proper(l.of) /\ F.it = 1 /\ F.erase = 0 /\ ~IsMap(l.of) /\ ~IsVector(l.of)
         /\ l.file \in DOMAIN d /\ l.of \in PartsOf(d[l.file]) /\ F.path = GetPathOfFile(l.file)
         /\ Children(F.item) = << >> /\ AtEndOf(F)
<1>1. RawOK(d, K, F, l)
  BY DEF FrameOK
<1>2. l.file \in DOMAIN d /\ l.of \in PartsOf(d[l.file]) /\ F.path = GetPathOfFile(l.file)
  BY <1>1 DEF RawOK
<1>3. Proper(l.of) /\ ~IsMap(l.of) /\ ~IsVector(l.of)
  BY <1>1, <1>2, PartsAre DEF RawOK, IsMap, IsVector
<1>4. F.item = l.of /\ F.it = 1 /\ F.erase = 0
  BY <1>1, <1>3, KindsOfProper DEF RawOK
<1>5. Children(F.item) = << >>
  BY <1>3, <1>4, ChildrenAre
<1> QED  BY <1>2, <1>3, <1>4, <1>5 DEF AtEndOf

\* What is true of any frame.
LEMMA AnyFrame ==
  ASSUME NEW d \in Disks, NEW K, K \subseteq DOMAIN d, NEW F, NEW l, FrameOK(d, K, F, l)
  PROVE  /\ IsFrame(F) /\ Proper(F.item)
         /\ F.it \in 1 .. Len(Children(F.item)) + 1 /\ F.erase \in 0 .. F.it - 1
<1>1. CASE l.clean
  <2>1. IsFrame(F) /\ CleanOK(F, l)
    BY <1>1 DEF FrameOK
  <2>2. /\ Proper(F.item) /\ F.it \in 1 .. Len(Children(F.item)) + 1 /\ F.erase = 0
        /\ Len(Children(F.item)) \in Nat
    BY <2>1, FinishedIs, ChildrenAre DEF CleanOK
  <2> QED  BY <2>1, <2>2
<1>2. CASE ~l.clean
  <2>1. IsFrame(F) /\ RawOK(d, K, F, l)
    BY <1>2 DEF FrameOK
  <2>2. Proper(F.item) /\ Len(Children(F.item)) \in Nat
    BY <2>1, ChildrenAre DEF RawOK
  <2>3. CASE IsMap(F.item)
    <3>1. UriProgress(d, F, l) /\ MapProgress(d, F, l) /\ Len(Children(F.item)) = Len(F.item.entries)
      BY <1>2, <2>3, RawMap
    <3>2. F.it \in 1 .. Len(Children(F.item)) + 1
      BY <3>1 DEF MapProgress
    <3>3. F.erase \in Nat /\ F.erase < F.it
      BY <3>1 DEF UriProgress
    <3> QED  BY <2>1, <2>2, <3>2, <3>3
  <2>4. CASE IsVector(F.item)
    <3>1. VectorProgress(d, F, l) /\ Children(F.item) = F.item.items
      BY <1>2, <2>4, RawVector
    <3> QED  BY <2>1, <2>2, <3>1 DEF VectorProgress
  <2>5. CASE ~IsMap(F.item) /\ ~IsVector(F.item)
    <3>1. F.it = 1 /\ F.erase = 0
      BY <1>2, <2>5, RawAtom
    <3> QED  BY <2>1, <2>2, <3>1
  <2> QED  BY <2>3, <2>4, <2>5
<1> QED  BY <1>1, <1>2

\* What is visited next: something finished, or a part of the file that is as it was.
LEMMA PartIs ==
  ASSUME NEW d \in Disks, NEW K, K \subseteq DOMAIN d, NEW F, NEW l, FrameOK(d, K, F, l),
         ~AtEndOf(F), ~AtUriOf(F)
  PROVE  IF l.clean \/ Foreign(d, F, l) THEN Finished(PartOf(F))
         ELSE /\ PartOf(F) \in PartsOf(d[l.file]) /\ l.file \in K /\ F.path = GetPathOfFile(l.file)
              /\ IsMap(l.of) => F.it \in 1 .. Len(l.of.entries) /\ PartOf(F) = l.of.entries[F.it].val
              /\ IsVector(l.of) => F.it \in 1 .. Len(l.of.items) /\ PartOf(F) = l.of.items[F.it]
<1>1. /\ Children(F.item) \in Seq(Range(Children(F.item)))
      /\ F.it \in 1 .. Len(Children(F.item))
  BY AnyFrame, ChildrenAre DEF AtEndOf
<1>2. PartOf(F) \in Range(Children(F.item))
  BY <1>1 DEF PartOf
<1>3. CASE l.clean
  <2>1. Finished(F.item)
    BY <1>3 DEF FrameOK, CleanOK
  <2> QED  BY <1>2, <1>3, <2>1, FinishedIs
<1>4. CASE ~l.clean /\ IsMap(F.item)
  <2> DEFINE s == l.of.entries
  <2> DEFINE r == F.item.entries
  <2> DEFINE u == SoFar(d, F, l)
  <2> DEFINE new == NewEntries(u.entries, s)
  <2>1. /\ IsMap(l.of) /\ ~IsVector(l.of) /\ IsDict(s) /\ IsDict(r)
        /\ Len(Children(F.item)) = Len(r)
        /\ \A i \in 1 .. Len(r) : Children(F.item)[i] = r[i].val
        /\ UriProgress(d, F, l) /\ MapProgress(d, F, l)
        /\ l.file \in DOMAIN d /\ l.of \in PartsOf(d[l.file]) /\ F.path = GetPathOfFile(l.file)
    <3>1. ~l.clean /\ IsMap(F.item)
      BY <1>4
    <3>2. IsMap(l.of) => ~IsVector(l.of)
      BY DEF IsMap, IsVector
    <3> QED  BY <3>1, <3>2, RawMap, ZenonT(40)
  <2>2. IsMap(u) /\ Finished(u)
    BY <2>1 DEF UriProgress
  <2>3. IsDict(new) /\ \A j \in 1 .. Len(new) : Finished(new[j].val)
    BY <2>2, NewAreFinished
  <2>4. /\ Len(r) = Len(s) + Len(new)
        /\ \A j \in 1 .. Len(s) : r[j].val = ValueAt(d, F, l, j)
        /\ \A j \in 1 .. Len(new) : r[Len(s) + j] = new[j]
    BY <2>1 DEF MapProgress
  <2>5. Foreign(d, F, l) <=> F.it > Len(s) \/ HasKey(u.entries, s[F.it].key)
    BY <2>1 DEF Foreign
  <2>6. PartOf(F) = r[F.it].val
    BY <1>1, <2>1 DEF PartOf
  <2>7. l.file \in K
    BY <1>4 DEF FrameOK, RawOK
  <2> HIDE DEF r, u, new
  <2>8. Len(s) \in Nat /\ Len(new) \in Nat
    BY <2>1, <2>3, DictShape
  <2>9. CASE F.it > Len(s)
    <3>1. F.it - Len(s) \in 1 .. Len(new) /\ Len(s) + (F.it - Len(s)) = F.it
      BY <1>1, <2>1, <2>4, <2>8, <2>9
    <3> QED  BY <2>3, <2>4, <2>5, <2>6, <2>9, <3>1
  <2>10. CASE F.it \in 1 .. Len(s) /\ HasKey(u.entries, s[F.it].key)
    <3>1. r[F.it].val = At(u.entries, s[F.it].key)
      BY <2>4, <2>10 DEF ValueAt, u
    <3>2. Finished(r[F.it].val)
      BY <2>2, <2>10, <3>1, FinishedEntries
    <3> QED  BY <2>5, <2>6, <2>10, <3>2
  <2>11. CASE F.it \in 1 .. Len(s) /\ ~HasKey(u.entries, s[F.it].key)
    <3>1. r[F.it].val = s[F.it].val
      BY <2>4, <2>8, <2>11 DEF ValueAt, u
    <3>2. ~Foreign(d, F, l)
      BY <2>5, <2>8, <2>11
    <3>3. Proper(l.of) /\ Range(Children(l.of)) \subseteq PartsOf(d[l.file])
      BY <2>1, PartsAre
    <3>4. Children(l.of)[F.it] \in Range(Children(l.of)) /\ Children(l.of)[F.it] = s[F.it].val
      BY <2>1, <2>11, <3>3, ChildrenAre
    <3> QED  BY <1>4, <2>1, <2>6, <2>7, <2>11, <3>1, <3>2, <3>3, <3>4
  <2> QED  BY <1>1, <2>1, <2>8, <2>9, <2>10, <2>11
<1>5. CASE ~l.clean /\ IsVector(F.item)
  <2>1. /\ IsVector(l.of) /\ ~IsMap(l.of) /\ Children(F.item) = F.item.items /\ Children(l.of) = l.of.items
        /\ l.of.items \in Seq(Range(l.of.items))
        /\ VectorProgress(d, F, l) /\ F.path = GetPathOfFile(l.file)
        /\ l.file \in DOMAIN d /\ l.of \in PartsOf(d[l.file])
    BY <1>5, RawVector
  <2>2. F.it \in 1 .. Len(l.of.items) /\ F.item.items[F.it] = l.of.items[F.it]
    BY <1>1, <2>1 DEF VectorProgress
  <2>3. l.of.items[F.it] \in Range(Children(l.of))
    BY <2>1, <2>2
  <2>4. Range(Children(l.of)) \subseteq PartsOf(d[l.file])
    BY <2>1, PartsAre
  <2>5. l.file \in K /\ ~Foreign(d, F, l)
    BY <1>5, <2>1 DEF FrameOK, RawOK, Foreign
  <2>6. PartOf(F) = l.of.items[F.it]
    BY <2>1, <2>2 DEF PartOf
  <2> QED  BY <1>5, <2>1, <2>2, <2>3, <2>4, <2>5, <2>6
<1>6. CASE ~l.clean /\ ~IsMap(F.item) /\ ~IsVector(F.item)
  BY <1>6, RawAtom
<1> QED  BY <1>3, <1>4, <1>5, <1>6

\* What comes back for a part: it is finished, and what is inlined for a part of the file.
Answer(d, F, l, x) ==
  /\ Finished(x)
  /\ IF l.clean \/ Foreign(d, F, l) THEN x = PartOf(F) ELSE x = Inlined(d, PartOf(F), F.path)

LEMMA PartReturned ==
  ASSUME NEW d \in Disks, NEW K, K \subseteq DOMAIN d, NEW F, NEW l, FrameOK(d, K, F, l),
         ~AtEndOf(F), ~AtUriOf(F), NEW x, Answer(d, F, l, x)
  PROVE  FrameOK(d, K, WithPart(F, x), l)
<1> DEFINE G == WithPart(F, x)
<1>1. IsFrame(F) /\ Proper(F.item) /\ F.it \in 1 .. Len(Children(F.item)) /\ Len(Children(F.item)) \in Nat
  BY AnyFrame, ChildrenAre DEF AtEndOf
<1>2. /\ IsFrame(G) /\ G.call = F.call /\ G.path = F.path /\ G.erase = F.erase /\ G.it = F.it + 1
      /\ IsMap(F.item) => G.item = Map(WithValue(F.item.entries, F.it, x))
      /\ ~IsMap(F.item) => G.item = Vector([F.item.items EXCEPT ![F.it] = x])
  BY <1>1, WithPartIs
<1>3. l = Label(l.of, l.file, l.clean) /\ l.clean \in BOOLEAN
  BY DEF FrameOK
<1>4. CASE l.clean
  <2>1. CleanOK(F, l) /\ x = PartOf(F)
    BY <1>4 DEF FrameOK, Answer
  <2>2. G = [F EXCEPT !.it = @ + 1]
    BY <1>1, <2>1, WithItsPart DEF CleanOK
  <2>3. G.item = F.item
    BY <1>1, <2>2 DEF IsFrame
  <2> HIDE DEF G
  <2>4. CleanOK(G, l)
    BY <1>1, <1>2, <2>1, <2>3 DEF CleanOK
  <2> QED  BY <1>2, <1>3, <1>4, <2>4 DEF FrameOK, G
<1>5. CASE ~l.clean /\ IsMap(F.item)
  <2> DEFINE s == l.of.entries
  <2> DEFINE r == F.item.entries
  <2> DEFINE q == G.item.entries
  <2> DEFINE u == SoFar(d, F, l)
  <2> DEFINE new == NewEntries(u.entries, s)
  <2>1. /\ IsMap(l.of) /\ IsDict(s) /\ IsDict(r)
        /\ Len(Children(F.item)) = Len(r)
        /\ \A i \in 1 .. Len(r) : Children(F.item)[i] = r[i].val
        /\ UriProgress(d, F, l) /\ MapProgress(d, F, l)
    <3>1. ~l.clean /\ IsMap(F.item)
      BY <1>5
    <3>2. /\ IsMap(l.of) /\ IsDict(l.of.entries) /\ IsDict(F.item.entries)
          /\ UriProgress(d, F, l) /\ MapProgress(d, F, l)
      BY <3>1, RawMap, Zenon
    <3>3. /\ Len(Children(F.item)) = Len(F.item.entries)
          /\ \A i \in 1 .. Len(F.item.entries) : Children(F.item)[i] = F.item.entries[i].val
      BY <1>1, <3>1, ChildrenAre
    <3> QED  BY <3>2, <3>3, Zenon
  <2>2. DOMAIN r = 1 .. Len(r) /\ Len(r) \in Nat /\ Len(s) \in Nat /\ F.it \in 1 .. Len(r)
    BY <1>1, <2>1, DictShape
  <2>3. /\ IsDict(q) /\ Len(q) = Len(r) /\ DOMAIN q = DOMAIN r
        /\ \A j \in DOMAIN r : q[j].key = r[j].key
        /\ q[F.it].val = x
        /\ \A j \in DOMAIN r : j # F.it => q[j] = r[j]
    <3>1. q = WithValue(r, F.it, x)
      BY <1>2, <1>5 DEF Map
    <3>2. IsDict(r) /\ F.it \in DOMAIN r
      BY <2>1, <2>2
    <3> HIDE DEF q, r, G
    <3> QED  BY <3>1, <3>2, DictWithValue
  <2>4. G.item = Map(q) /\ IsMap(G.item) /\ ~IsVector(G.item) /\ ~IsAtom(G.item)
    BY <1>2, <1>5 DEF Map, IsMap, IsVector, IsAtom
  <2>5. Proper(G.item)
    BY <2>3, <2>4 DEF Proper, IsDict, IsMap
  <2>6. SoFar(d, G, l) = u
    BY <1>2 DEF SoFar
  <2>7. /\ F.erase \in 0 .. Len(s) /\ F.erase < F.it
        /\ F.erase # 0 => s[F.erase].key = Uri
        /\ IsMap(u) /\ Finished(u)
        /\ \A j \in 1 .. Len(s) : j < F.it /\ s[j].key = Uri => j = F.erase
    BY <2>1 DEF UriProgress
  <2>8. /\ Len(r) = Len(s) + Len(new)
        /\ \A j \in 1 .. Len(s) : r[j].key = s[j].key /\ r[j].val = ValueAt(d, F, l, j)
        /\ \A j \in 1 .. Len(new) : r[Len(s) + j] = new[j]
        /\ \A j \in 1 .. Len(r) : j < F.it /\ j # F.erase => Finished(r[j].val)
    BY <2>1 DEF MapProgress
  <2>9. r[F.it].key # Uri
    BY <1>5 DEF AtUriOf
  <2>10. PartOf(F) = r[F.it].val
    BY <2>1, <2>2 DEF PartOf
  <2>11. IsDict(new)
    BY <2>7, NewAreFinished
  <2>12. Len(new) \in Nat
    BY <2>11, DictShape
  <2>13. UriProgress(d, G, l)
    <3>1. \A j \in 1 .. Len(s) : j < G.it /\ s[j].key = Uri => j = G.erase
      BY <1>2, <2>2, <2>7, <2>8, <2>9
    <3> QED  BY <1>2, <2>2, <2>6, <2>7, <3>1 DEF UriProgress
  <2>14. Foreign(d, F, l) <=> F.it > Len(s) \/ HasKey(u.entries, s[F.it].key)
    BY <2>1 DEF Foreign
  <2>15. /\ Finished(x)
         /\ Foreign(d, F, l) => x = r[F.it].val
         /\ ~Foreign(d, F, l) => x = Inlined(d, r[F.it].val, F.path)
    BY <1>5, <2>10 DEF Answer
  <2> HIDE DEF r, q, G, u, new
  <2>16. ASSUME NEW j \in 1 .. Len(s)  PROVE q[j].key = s[j].key /\ q[j].val = ValueAt(d, G, l, j)
    <3>1. j \in DOMAIN r
      BY <2>2, <2>8, <2>12
    <3>2. q[j].key = s[j].key
      BY <2>3, <2>8, <3>1
    <3>3. ValueAt(d, F, l, j) =
            IF HasKey(u.entries, s[j].key) THEN At(u.entries, s[j].key)
            ELSE IF j < F.it /\ j # F.erase THEN Inlined(d, s[j].val, F.path) ELSE s[j].val
      BY DEF ValueAt, u
    <3>4. ValueAt(d, G, l, j) =
            IF HasKey(u.entries, s[j].key) THEN At(u.entries, s[j].key)
            ELSE IF j < G.it /\ j # F.erase THEN Inlined(d, s[j].val, F.path) ELSE s[j].val
      BY <1>2, <2>6 DEF ValueAt
    <3>5. CASE j # F.it
      <4>1. j < F.it <=> j < G.it
        BY <1>2, <2>2, <3>5
      <4>2. ValueAt(d, G, l, j) = ValueAt(d, F, l, j)
        BY <3>3, <3>4, <4>1
      <4> QED  BY <2>3, <2>8, <3>1, <3>2, <3>5, <4>2
    <3>6. CASE j = F.it /\ HasKey(u.entries, s[j].key)
      BY <2>3, <2>8, <2>14, <2>15, <3>2, <3>3, <3>4, <3>6
    <3>7. CASE j = F.it /\ ~HasKey(u.entries, s[j].key)
      <4>1. ~Foreign(d, F, l) /\ r[j].val = s[j].val
        BY <2>2, <2>8, <2>14, <3>3, <3>7
      <4>2. j < G.it /\ j # F.erase
        BY <1>2, <2>2, <2>7, <3>7
      <4> QED  BY <2>3, <2>15, <3>2, <3>4, <3>7, <4>1, <4>2
    <3> QED  BY <3>5, <3>6, <3>7
  <2>17. ASSUME NEW j \in 1 .. Len(new)  PROVE q[Len(s) + j] = new[j]
    <3>1. Len(s) + j \in DOMAIN r /\ Len(s) + j > Len(s)
      BY <2>2, <2>8, <2>12
    <3>2. r[Len(s) + j] = new[j]
      BY <2>8
    <3>3. CASE Len(s) + j # F.it
      BY <2>3, <3>1, <3>2, <3>3
    <3>4. CASE Len(s) + j = F.it
      <4>1. q[F.it].val = r[F.it].val /\ q[F.it].key = r[F.it].key
        BY <2>2, <2>3, <2>14, <2>15, <3>1, <3>4
      <4>2. q[F.it] = r[F.it]
        <5>1. q[F.it] = Entry(q[F.it].key, q[F.it].val)
          BY <2>2, <2>3, Zenon DEF IsDict
        <5>2. r[F.it] = Entry(r[F.it].key, r[F.it].val)
          BY <2>1, <2>2, Zenon DEF IsDict, r
        <5> QED  BY <4>1, <5>1, <5>2, Zenon
      <4> QED  BY <3>2, <3>4, <4>2
    <3> QED  BY <3>3, <3>4
  <2>18. \A j \in 1 .. Len(q) : j < G.it /\ j # G.erase => Finished(q[j].val)
    <3> SUFFICES ASSUME NEW j \in 1 .. Len(q), j < G.it, j # G.erase  PROVE Finished(q[j].val)
      OBVIOUS
    <3>1. CASE j = F.it
      BY <2>3, <2>15, <3>1
    <3>2. CASE j # F.it
      BY <1>2, <2>2, <2>3, <2>8, <3>2
    <3> QED  BY <3>1, <3>2
  <2>19. MapProgress(d, G, l)
    <3>1. Len(q) = Len(s) + Len(new) /\ G.it \in 1 .. Len(q) + 1
      BY <1>2, <2>2, <2>3, <2>8
    <3> QED  BY <2>6, <2>16, <2>17, <2>18, <3>1 DEF MapProgress, q, new
  <2>20. RawOK(d, K, F, l)
    BY <1>5 DEF FrameOK
  <2>21. G.item.kind = l.of.kind /\ ~IsVector(l.of) /\ ~IsAtom(l.of)
    BY <2>1, <2>4 DEF IsMap, IsVector, IsAtom
  <2>22. RawOK(d, K, G, l)
    BY <1>2, <2>5, <2>13, <2>19, <2>20, <2>21 DEF RawOK
  <2>23. FrameOK(d, K, G, l)
    BY <1>2, <1>3, <1>5, <2>22 DEF FrameOK
  <2> QED  BY <2>23 DEF G
<1>6. CASE ~l.clean /\ IsVector(F.item)
  <2> DEFINE s == l.of.items
  <2> DEFINE r == F.item.items
  <2> DEFINE q == G.item.items
  <2>1. /\ IsVector(l.of) /\ ~IsMap(l.of) /\ ~IsMap(F.item)
        /\ s \in Seq(Range(s)) /\ r \in Seq(Range(r))
        /\ Children(F.item) = r /\ VectorProgress(d, F, l)
    BY <1>6, RawVector
  <2>2. G.item = Vector([r EXCEPT ![F.it] = x])
    BY <1>2, <2>1
  <2>3. q = [r EXCEPT ![F.it] = x]
    BY <2>2 DEF Vector
  <2>4. G.item = Vector(q) /\ IsVector(G.item) /\ ~IsMap(G.item) /\ ~IsAtom(G.item)
    BY <2>2, <2>3 DEF Vector, IsVector, IsMap, IsAtom
  <2>5. F.it \in 1 .. Len(r) /\ Len(r) \in Nat
    BY <1>1, <2>1
  <2>6. PartOf(F) = r[F.it]
    BY <2>1 DEF PartOf
  <2> HIDE DEF q, r, G
  <2>7. /\ q \in Seq(Range(r) \cup {x}) /\ Len(q) = Len(r)
        /\ q[F.it] = x /\ \A j \in 1 .. Len(r) : j # F.it => q[j] = r[j]
    BY <2>1, <2>3, <2>5
  <2>8. q \in Seq(Range(q))
    BY <2>7, IsSeqOfRange
  <2>9. Proper(G.item)
    BY <2>4, <2>8 DEF Proper, IsVector, q
  <2>10. /\ Len(r) = Len(s) /\ F.erase = 0 /\ F.it \in 1 .. Len(s) + 1
         /\ \A j \in 1 .. Len(s) :
              IF j < F.it THEN r[j] = Inlined(d, s[j], F.path) /\ Finished(r[j]) ELSE r[j] = s[j]
    BY <2>1 DEF VectorProgress, r
  <2>11. x = Inlined(d, s[F.it], F.path) /\ Finished(x)
    <3>1. ~Foreign(d, F, l)
      BY <2>1 DEF Foreign
    <3>2. r[F.it] = s[F.it]
      BY <2>5, <2>10
    <3> QED  BY <1>6, <2>6, <3>1, <3>2 DEF Answer
  <2>12. \A j \in 1 .. Len(s) :
           IF j < G.it THEN q[j] = Inlined(d, s[j], G.path) /\ Finished(q[j]) ELSE q[j] = s[j]
    <3> TAKE j \in 1 .. Len(s)
    <3>1. CASE j = F.it
      BY <1>2, <2>5, <2>7, <2>11, <3>1
    <3>2. CASE j # F.it
      <4>1. j < F.it <=> j < G.it
        BY <1>2, <2>5, <3>2
      <4> QED  BY <1>2, <2>7, <2>10, <3>2, <4>1
    <3> QED  BY <3>1, <3>2
  <2>13. VectorProgress(d, G, l)
    BY <1>2, <2>5, <2>7, <2>10, <2>12 DEF VectorProgress, q
  <2>14. RawOK(d, K, F, l)
    BY <1>6 DEF FrameOK
  <2>15. G.item.kind = l.of.kind /\ ~IsAtom(l.of)
    BY <2>1, <2>4 DEF IsVector, IsAtom
  <2>16. RawOK(d, K, G, l)
    BY <1>2, <2>1, <2>9, <2>13, <2>14, <2>15 DEF RawOK
  <2>17. FrameOK(d, K, G, l)
    BY <1>2, <1>3, <1>6, <2>16 DEF FrameOK
  <2> QED  BY <2>17 DEF G
<1>7. CASE ~l.clean /\ ~IsMap(F.item) /\ ~IsVector(F.item)
  BY <1>7, RawAtom
<1> QED  BY <1>4, <1>5, <1>6, <1>7

LEMMA SameSeq ==
  ASSUME NEW A, NEW B, NEW s, s \in Seq(A), NEW t, t \in Seq(B), Len(s) = Len(t),
         \A i \in 1 .. Len(s) : s[i] = t[i]
  PROVE  s = t
OBVIOUS

\* The entries c are own with the values that inlining gives them, and new.
Joined(d, path, own, u, new, c) ==
  /\ Len(c) = Len(own) + Len(new)
  /\ \A i \in 1 .. Len(own) :
       /\ c[i].key = own[i].key /\ ~IsNone(c[i].val)
       /\ c[i].val = IF HasKey(u.entries, own[i].key) THEN At(u.entries, own[i].key)
                     ELSE Inlined(d, own[i].val, path)
  /\ \A i \in 1 .. Len(new) : c[Len(own) + i] = new[i]

LEMMA InlinedMapIs ==
  ASSUME NEW d, NEW x, NEW path, NEW own, NEW u, NEW new, NEW c,
         own = Own(x.entries), u = Included(d, x, path), new = NewEntries(u.entries, x.entries),
         IsMap(u), IsDict(own), IsDict(new), IsDict(c), Joined(d, path, own, u, new, c)
  PROVE  InlinedMap(d, x, path) = Map(c)
<1> DEFINE val(e) == IF HasKey(u.entries, e.key) THEN At(u.entries, e.key)
                     ELSE Inlined(d, e.val, path)
<1> DEFINE a == [i \in DOMAIN own |-> Entry(own[i].key, val(own[i]))]
<1>1. /\ DOMAIN own = 1 .. Len(own) /\ Len(own) \in Nat
      /\ DOMAIN new = 1 .. Len(new) /\ Len(new) \in Nat
      /\ DOMAIN c = 1 .. Len(c) /\ Len(c) \in Nat
      /\ new \in Seq(Range(new)) /\ c \in Seq(Range(c))
  BY DictShape DEF IsDict
<1>2. /\ Len(c) = Len(own) + Len(new)
      /\ \A i \in 1 .. Len(own) : c[i].key = own[i].key /\ ~IsNone(c[i].val)
      /\ \A i \in 1 .. Len(new) : c[Len(own) + i] = new[i]
  BY DEF Joined
<1>3. \A i \in 1 .. Len(own) : c[i].val = val(own[i])
  BY DEF Joined
<1>4. ~(~IsMap(u) \/ \E i \in DOMAIN own : IsNone(val(own[i])))
  BY <1>1, <1>2, <1>3
<1>5. InlinedMap(d, x, path) = Map(a \o new)
  BY <1>4 DEF InlinedMap
<1> HIDE DEF val
<1>6. /\ a \in Seq(Range(c)) /\ Len(a) = Len(own) /\ \A i \in 1 .. Len(own) : a[i] = c[i]
  <2>1. ASSUME NEW i \in 1 .. Len(own)  PROVE a[i] = c[i] /\ c[i] \in Range(c)
    <3>1. i \in DOMAIN c
      BY <1>1, <1>2
    <3>2. c[i] = Entry(c[i].key, c[i].val)
      BY <3>1 DEF IsDict
    <3>3. a[i] = Entry(own[i].key, val(own[i]))
      BY <1>1
    <3>4. c[i].key = own[i].key /\ c[i].val = val(own[i])
      BY <1>2, <1>3
    <3>5. c[i] = Entry(own[i].key, val(own[i]))
      BY <3>2, <3>4, Zenon
    <3>6. c[i] \in Range(c)
      BY <3>1 DEF Range
    <3> QED  BY <3>3, <3>5, <3>6, Zenon
  <2>2. DOMAIN a = 1 .. Len(own)
    BY <1>1
  <2>3. a = [i \in 1 .. Len(own) |-> c[i]]
    BY <2>1, <2>2
  <2> QED  BY <1>1, <2>1, <2>3
<1> HIDE DEF a
<1> DEFINE E == Range(c) \cup Range(new)
<1>7. a \in Seq(E) /\ new \in Seq(E)
  BY <1>1, <1>6
<1>8. /\ a \o new \in Seq(E) /\ Len(a \o new) = Len(a) + Len(new)
      /\ \A i \in 1 .. Len(a) + Len(new) :
           (a \o new)[i] = IF i <= Len(a) THEN a[i] ELSE new[i - Len(a)]
  <2> HIDE DEF E
  <2> QED  BY <1>7, ConcatProperties
<1> DEFINE t == a \o new
<1> HIDE DEF t, E
<1>9. t \in Seq(E) /\ Len(t) = Len(c)
  BY <1>2, <1>6, <1>8 DEF t
<1>10. ASSUME NEW i \in 1 .. Len(c)  PROVE t[i] = c[i]
  <2>1. t[i] = IF i <= Len(a) THEN a[i] ELSE new[i - Len(a)]
    BY <1>2, <1>6, <1>8 DEF t
  <2>2. CASE i <= Len(a)
    BY <1>6, <2>1, <2>2
  <2>3. CASE ~(i <= Len(a))
    <3>1. i - Len(own) \in 1 .. Len(new) /\ Len(own) + (i - Len(own)) = i
      BY <1>1, <1>2, <1>6, <2>3
    <3>2. c[Len(own) + (i - Len(own))] = new[i - Len(own)]
      BY <1>2, <3>1
    <3> QED  BY <1>6, <2>1, <2>3, <3>1, <3>2
  <2> QED  BY <2>2, <2>3
<1>11. t = c
  BY <1>1, <1>9, <1>10, SameSeq
<1> QED  BY <1>5, <1>11 DEF t

DoneOf(F) ==
  IF F.erase = 0 THEN F.item ELSE Map(Cut(F.item.entries, F.erase, F.erase + 1))

\* A map whose entries are all visited.
LEMMA MapDone ==
  ASSUME NEW d \in Disks, NEW K, K \subseteq DOMAIN d, NEW F, NEW l, FrameOK(d, K, F, l),
         ~l.clean, IsMap(F.item), AtEndOf(F)
  PROVE  /\ IsMap(DoneOf(F)) /\ Finished(DoneOf(F))
         /\ DoneOf(F) = InlinedMap(d, l.of, F.path)
<1> DEFINE s == l.of.entries
<1> DEFINE r == F.item.entries
<1> DEFINE u == SoFar(d, F, l)
<1> DEFINE new == NewEntries(u.entries, s)
<1> DEFINE own == Own(s)
<1> DEFINE p == F.erase
<1> DEFINE c == IF p = 0 THEN r ELSE Cut(r, p, p + 1)
<1> DEFINE at(i) == IF p = 0 \/ i < p THEN i ELSE i + 1
<1>1. /\ IsMap(l.of) /\ IsDict(s) /\ IsDict(r) /\ F.item = Map(r)
      /\ Len(Children(F.item)) = Len(r)
      /\ UriProgress(d, F, l) /\ MapProgress(d, F, l)
  BY RawMap
<1>2. /\ p \in 0 .. Len(s) /\ p < F.it
      /\ p # 0 => s[p].key = Uri
      /\ IsMap(u) /\ Finished(u)
      /\ \A j \in 1 .. Len(s) : j < F.it /\ s[j].key = Uri => j = p
  BY <1>1 DEF UriProgress
<1>3. /\ Len(r) = Len(s) + Len(new) /\ F.it \in 1 .. Len(r) + 1
      /\ \A j \in 1 .. Len(s) : r[j].key = s[j].key /\ r[j].val = ValueAt(d, F, l, j)
      /\ \A j \in 1 .. Len(new) : r[Len(s) + j] = new[j]
      /\ \A j \in 1 .. Len(r) : j < F.it /\ j # p => Finished(r[j].val)
  BY <1>1 DEF MapProgress
<1>4. IsDict(u.entries) /\ IsDict(new) /\ \A j \in 1 .. Len(new) : new[j].key # Uri
  <2>1. IsMap(u) /\ Finished(u)
    BY <1>2
  <2> HIDE DEF u
  <2>2. IsDict(u.entries)
    BY <2>1, FinishedEntries
  <2>3. IsDict(new) /\ \A j \in 1 .. Len(new) : new[j].key # Uri
    BY <2>1, NewAreFinished, Zenon
  <2> QED  BY <2>2, <2>3
<1>5. \A j \in 1 .. Len(s) :
        ValueAt(d, F, l, j) = IF HasKey(u.entries, s[j].key) THEN At(u.entries, s[j].key)
                              ELSE IF j < F.it /\ j # p THEN Inlined(d, s[j].val, F.path)
                              ELSE s[j].val
  BY DEF ValueAt
<1>6. F.it > Len(Children(F.item))
  BY DEF AtEndOf
<1>7. DoneOf(F) = Map(c)
  BY <1>1 DEF DoneOf
<1>8. /\ DOMAIN s = 1 .. Len(s) /\ Len(s) \in Nat /\ DOMAIN r = 1 .. Len(r) /\ Len(r) \in Nat
      /\ DOMAIN new = 1 .. Len(new) /\ Len(new) \in Nat
  BY <1>1, <1>4, DictShape
<1> HIDE DEF u, new, r
<1>9. p = 0 => ~HasKey(s, Uri)
  BY <1>1, <1>2, <1>3, <1>6, <1>8 DEF HasKey
<1>10. u = Included(d, l.of, F.path)
  BY <1>9 DEF SoFar, Included, u
<1>11. own = IF p = 0 THEN s ELSE Cut(s, p, p + 1)
  <2>1. CASE p = 0
    BY <1>1, <1>9, <2>1, OwnIs
  <2>2. CASE p # 0
    <3>1. p \in DOMAIN s /\ s[p].key = Uri
      BY <1>2, <1>8, <2>2
    <3> QED  BY <1>1, <2>2, <3>1, OwnIs
  <2> QED  BY <2>1, <2>2
<1> HIDE DEF s, own
<1>12. /\ IsDict(own) /\ Len(own) = IF p = 0 THEN Len(s) ELSE Len(s) - 1
       /\ \A i \in 1 .. Len(own) : own[i] = s[at(i)] /\ at(i) \in 1 .. Len(s) /\ at(i) # p
  <2>1. CASE p = 0
    BY <1>1, <1>8, <1>11, <2>1
  <2>2. CASE p # 0
    <3>1. p \in 1 .. Len(s) /\ s \in Seq(Range(s))
      BY <1>1, <1>2, <1>8, <2>2 DEF IsDict
    <3>2. own = Cut(s, p, p + 1)
      BY <1>11, <2>2
    <3>3. IsDict(own)
      BY <1>1, <3>1, <3>2, CutKeepsDict
    <3>4. /\ Len(own) = Len(s) - 1
          /\ \A i \in 1 .. Len(s) - 1 : own[i] = IF i < p THEN s[i] ELSE s[i + 1]
      BY <3>1, <3>2, CutIs
    <3> QED  BY <1>8, <2>2, <3>1, <3>3, <3>4
  <2> QED  BY <2>1, <2>2
<1>13. /\ IsDict(c) /\ Len(c) = IF p = 0 THEN Len(r) ELSE Len(r) - 1
       /\ \A i \in 1 .. Len(c) : c[i] = r[at(i)] /\ at(i) \in 1 .. Len(r) /\ at(i) # p
  <2>1. CASE p = 0
    BY <1>1, <1>8, <2>1
  <2>2. CASE p # 0
    <3>1. p \in 1 .. Len(r) /\ r \in Seq(Range(r))
      BY <1>1, <1>2, <1>3, <1>8, <2>2 DEF IsDict
    <3>2. c = Cut(r, p, p + 1)
      BY <2>2
    <3> HIDE DEF c
    <3>3. IsDict(c)
      BY <1>1, <3>1, <3>2, CutKeepsDict
    <3>4. /\ Len(c) = Len(r) - 1
          /\ \A i \in 1 .. Len(r) - 1 : c[i] = IF i < p THEN r[i] ELSE r[i + 1]
      BY <3>1, <3>2, CutIs
    <3> QED  BY <1>8, <2>2, <3>1, <3>3, <3>4
  <2> QED  BY <2>1, <2>2
<1> HIDE DEF c
<1>14. Len(c) = Len(own) + Len(new) /\ Len(c) \in Nat /\ Len(own) \in Nat
  <2>1. Len(own) = (IF p = 0 THEN Len(s) ELSE Len(s) - 1) /\ Len(c) = (IF p = 0 THEN Len(r) ELSE Len(r) - 1)
    BY <1>12, <1>13
  <2>2. p # 0 => Len(s) # 0
    BY <1>2, <1>8
  <2>3. Len(r) = Len(s) + Len(new)
    BY <1>3
  <2>4. CASE p = 0
    <3>1. Len(own) = Len(s) /\ Len(c) = Len(r)
      BY <2>1, <2>4
    <3> QED  BY <1>8, <2>3, <3>1
  <2>5. CASE p # 0
    <3>1. Len(own) = Len(s) - 1 /\ Len(c) = Len(r) - 1
      BY <2>1, <2>5
    <3> QED  BY <1>8, <2>2, <2>3, <2>5, <3>1
  <2> QED  BY <2>4, <2>5
<1>15. \A i \in 1 .. Len(c) : Finished(c[i].val)
  <2> TAKE i \in 1 .. Len(c)
  <2>1. c[i] = r[at(i)] /\ at(i) \in 1 .. Len(r) /\ at(i) # p
    BY <1>13
  <2> HIDE DEF at
  <2>2. at(i) < F.it
    BY <1>1, <1>3, <1>6, <1>8, <2>1
  <2> QED  BY <1>3, <2>1, <2>2
<1>16. ASSUME NEW i \in 1 .. Len(own)
       PROVE  /\ c[i].key = own[i].key /\ ~IsNone(c[i].val)
              /\ c[i].val = IF HasKey(u.entries, own[i].key) THEN At(u.entries, own[i].key)
                            ELSE Inlined(d, own[i].val, F.path)
  <2>1. i \in 1 .. Len(c)
    BY <1>8, <1>14
  <2>2. own[i] = s[at(i)] /\ at(i) \in 1 .. Len(s) /\ at(i) # p /\ c[i] = r[at(i)]
    BY <1>12, <1>13, <2>1
  <2> HIDE DEF at
  <2>3. at(i) < F.it
    BY <1>1, <1>3, <1>6, <1>8, <2>2
  <2>4. Proper(c[i].val)
    BY <1>15, <2>1, FinishedIs
  <2>5. ~IsNone(c[i].val)
    BY <2>4, KindsOfProper
  <2>6. c[i].key = own[i].key /\ c[i].val = ValueAt(d, F, l, at(i))
    BY <1>3, <2>2
  <2>7. ValueAt(d, F, l, at(i)) =
          IF HasKey(u.entries, s[at(i)].key) THEN At(u.entries, s[at(i)].key)
          ELSE Inlined(d, s[at(i)].val, F.path)
    BY <1>5, <2>2, <2>3
  <2> QED  BY <2>2, <2>5, <2>6, <2>7
<1>17. ASSUME NEW i \in 1 .. Len(new)  PROVE c[Len(own) + i] = new[i]
  <2>1. Len(own) + i \in 1 .. Len(c)
    BY <1>8, <1>14
  <2>2. Len(own) = IF p = 0 THEN Len(s) ELSE Len(s) - 1
    BY <1>12
  <2>3. at(Len(own) + i) = Len(s) + i
    <3>1. CASE p = 0
      BY <2>2, <3>1
    <3>2. CASE p # 0
      <4>1. Len(own) = Len(s) - 1
        BY <2>2, <3>2
      <4> QED  BY <1>2, <1>8, <3>2, <4>1
    <3> QED  BY <3>1, <3>2
  <2>4. c[Len(own) + i] = r[Len(s) + i]
    BY <1>13, <2>1, <2>3
  <2> QED  BY <1>3, <2>4
<1>18. Map(c) = InlinedMap(d, l.of, F.path)
  <2>1. own = Own(l.of.entries) /\ new = NewEntries(u.entries, l.of.entries)
    BY DEF own, new, s
  <2>2. IsMap(u) /\ IsDict(own) /\ IsDict(new) /\ IsDict(c)
    BY <1>2, <1>4, <1>12, <1>13
  <2>3. Joined(d, F.path, own, u, new, c)
    BY <1>14, <1>16, <1>17 DEF Joined
  <2> QED  BY <1>10, <2>1, <2>2, <2>3, InlinedMapIs
<1> DEFINE x == Map(c)
<1>19. x.entries = c /\ IsMap(x) /\ ~IsVector(x) /\ ~IsAtom(x) /\ x = Map(x.entries)
  BY DEF Map, IsMap, IsVector, IsAtom
<1>20. Proper(x)
  BY <1>13, <1>19 DEF Proper, IsDict, IsMap
<1>21. ~HasKey(c, Uri)
  <2> SUFFICES ASSUME NEW i \in DOMAIN c, c[i].key = Uri  PROVE FALSE
    BY DEF HasKey
  <2>1. i \in 1 .. Len(c)
    BY <1>13, DictShape
  <2>2. c[i] = r[at(i)] /\ at(i) \in 1 .. Len(r) /\ at(i) # p
    BY <1>13, <2>1
  <2> HIDE DEF at
  <2>3. CASE at(i) \in 1 .. Len(s)
    <3>1. s[at(i)].key = Uri /\ at(i) < F.it
      BY <1>1, <1>3, <1>6, <1>8, <2>2, <2>3
    <3> QED  BY <1>2, <2>2, <2>3, <3>1
  <2>4. CASE at(i) \notin 1 .. Len(s)
    <3>1. at(i) - Len(s) \in 1 .. Len(new) /\ Len(s) + (at(i) - Len(s)) = at(i)
      BY <1>3, <1>8, <2>2, <2>4
    <3> QED  BY <1>3, <1>4, <2>2, <3>1
  <2> QED  BY <2>3, <2>4
<1>22. \A y \in Range(Children(x)) : Finished(y)
  <2>1. /\ Children(x) \in Seq(Range(Children(x))) /\ Len(Children(x)) = Len(c)
        /\ \A i \in 1 .. Len(c) : Children(x)[i] = c[i].val
    BY <1>19, <1>20, ChildrenAre
  <2> HIDE DEF x
  <2>2. \A i \in DOMAIN Children(x) : Finished(Children(x)[i])
    BY <1>15, <2>1
  <2> QED  BY <2>2 DEF Range
<1>23. Finished(x)
  BY <1>19, <1>20, <1>21, <1>22, FinishedFromParts
<1> QED  BY <1>7, <1>18, <1>19, <1>23

\* What recursiveLoad leaves of its item: of a part of a file, what is inlined for it;
\* and of what is inlined already, all of it.
LEMMA DoneIs ==
  ASSUME NEW d \in Disks, NEW K, K \subseteq DOMAIN d, NEW F, NEW l, FrameOK(d, K, F, l),
         AtEndOf(F)
  PROVE  /\ Finished(DoneOf(F)) /\ DoneOf(F).kind = l.of.kind
         /\ DoneOf(F) = IF l.clean THEN l.of ELSE Inlined(d, l.of, F.path)
<1>1. CASE l.clean
  BY <1>1 DEF FrameOK, CleanOK, DoneOf
<1>2. CASE ~l.clean /\ IsMap(F.item)
  <2>1. /\ IsMap(l.of) /\ l.file \in DOMAIN d /\ l.of \in PartsOf(d[l.file])
        /\ F.path = GetPathOfFile(l.file)
    BY <1>2, RawMap, ZenonT(40)
  <2>2. IsMap(DoneOf(F)) /\ Finished(DoneOf(F)) /\ DoneOf(F) = InlinedMap(d, l.of, F.path)
    BY <1>2, MapDone
  <2>3. Inlined(d, l.of, F.path) = InlinedMap(d, l.of, F.path)
    BY <2>1, InlinedIs
  <2>4. DoneOf(F).kind = l.of.kind
    BY <2>1, <2>2 DEF IsMap
  <2> QED  BY <1>2, <2>2, <2>3, <2>4
<1>3. CASE ~l.clean /\ IsVector(F.item)
  <2> DEFINE s == l.of.items
  <2> DEFINE r == F.item.items
  <2>1. /\ IsVector(l.of) /\ ~IsMap(l.of) /\ l.file \in DOMAIN d /\ l.of \in PartsOf(d[l.file])
        /\ F.path = GetPathOfFile(l.file)
        /\ s \in Seq(Range(s)) /\ r \in Seq(Range(r)) /\ F.item = Vector(r)
        /\ Children(F.item) = r /\ VectorProgress(d, F, l)
    BY <1>3, RawVector
  <2>2. Proper(F.item) /\ ~IsMap(F.item)
    BY <1>3, AnyFrame DEF IsVector, IsMap
  <2>3. /\ Len(r) = Len(s) /\ F.erase = 0 /\ F.it > Len(r)
        /\ \A j \in 1 .. Len(s) :
             IF j < F.it THEN r[j] = Inlined(d, s[j], F.path) /\ Finished(r[j]) ELSE r[j] = s[j]
    BY <2>1 DEF VectorProgress, AtEndOf
  <2> HIDE DEF r
  <2>4. \A j \in 1 .. Len(s) : r[j] = Inlined(d, s[j], F.path) /\ Finished(r[j])
    <3>1. F.it \in Nat
      BY AnyFrame, <2>1, ChildrenAre
    <3> QED  BY <2>1, <2>3, <3>1
  <2>5. Finished(F.item)
    <3>1. \A y \in Range(Children(F.item)) : Finished(y)
      BY <2>1, <2>3, <2>4 DEF Range
    <3> QED  BY <2>2, <3>1, FinishedFromParts
  <2>6. InlinedVector(d, l.of, F.path) = Vector(r)
    <3> DEFINE t == [i \in DOMAIN s |-> Inlined(d, s[i], F.path)]
    <3>1. DOMAIN s = 1 .. Len(s) /\ r = [i \in 1 .. Len(s) |-> r[i]]
      BY <2>1, <2>3
    <3>2. t = r
      BY <2>4, <3>1
    <3>3. \A i \in DOMAIN t : ~IsNone(t[i])
      <4> TAKE i \in DOMAIN t
      <4>1. Finished(r[i])
        BY <2>4, <3>1
      <4>2. ~IsNone(r[i])
        BY <4>1, FinishedIs, KindsOfProper
      <4> QED  BY <3>2, <4>2
    <3>4. InlinedVector(d, l.of, F.path) = Vector(t)
      BY <3>3 DEF InlinedVector
    <3> QED  BY <3>2, <3>4
  <2>7. DoneOf(F) = F.item /\ F.item = Vector(r)
    BY <2>1, <2>3 DEF DoneOf
  <2>8. DoneOf(F) = Inlined(d, l.of, F.path)
    BY <2>1, <2>6, <2>7, InlinedIs
  <2>9. DoneOf(F).kind = l.of.kind
    BY <1>3, <2>1, <2>7 DEF IsVector
  <2> QED  BY <1>3, <2>5, <2>7, <2>8, <2>9
<1>4. CASE ~l.clean /\ ~IsMap(F.item) /\ ~IsVector(F.item)
  <2>1. /\ F.item = l.of /\ Proper(l.of) /\ F.erase = 0 /\ ~IsMap(l.of) /\ ~IsVector(l.of)
        /\ l.file \in DOMAIN d /\ l.of \in PartsOf(d[l.file]) /\ F.path = GetPathOfFile(l.file)
    BY <1>4, RawAtom
  <2>2. DoneOf(F) = l.of /\ Finished(l.of)
    BY <2>1, FinishedAtoms DEF DoneOf
  <2>3. Inlined(d, l.of, F.path) = l.of
    BY <2>1, InlinedIs
  <2> QED  BY <1>4, <2>2, <2>3
<1> QED  BY <1>1, <1>2, <1>3, <1>4

LEMMA WithIncludedIs ==
  ASSUME NEW F, IsFrame(F), NEW x
  PROVE  /\ IsFrame(WithIncluded(F, x))
         /\ WithIncluded(F, x).call = F.call /\ WithIncluded(F, x).path = F.path
         /\ WithIncluded(F, x).erase = F.it /\ WithIncluded(F, x).it = F.it + 1
         /\ WithIncluded(F, x).item = Map(Merged(F.item.entries, x.entries))
<1> DEFINE new == Map(Merged(F.item.entries, x.entries))
<1>1. WithIncluded(F, x) = [F EXCEPT !.it = F.it + 1, !.erase = F.it, !.item = new]
  BY Zenon DEF WithIncluded
<1> HIDE DEF new
<1>2. /\ F = [call |-> F.call, item |-> F.item, path |-> F.path, it |-> F.it, erase |-> F.erase]
      /\ F.call \in {"read", "again", "part"}
  BY DEF IsFrame
<1>3. WithIncluded(F, x) =
        [call |-> F.call, item |-> new, path |-> F.path, it |-> F.it + 1, erase |-> F.it]
  BY <1>1, <1>2
<1> QED  BY <1>2, <1>3 DEF IsFrame, new

\* What comes back for a URI.
LEMMA IncludedReturned ==
  ASSUME NEW d \in Disks, NEW K, K \subseteq DOMAIN d, NEW F, NEW l, FrameOK(d, K, F, l),
         AtUriOf(F), NEW file, file = FileOf(F.path, PartOf(F)),
         CanLoadFrom(d, F.path, PartOf(F)),
         NEW x, x = Inlined(d, d[file], GetPathOfFile(file)), IsMap(x), Finished(x)
  PROVE  FrameOK(d, K, WithIncluded(F, x), l)
<1> DEFINE G == WithIncluded(F, x)
<1> DEFINE s == l.of.entries
<1> DEFINE r == F.item.entries
<1> DEFINE q == Merged(r, x.entries)
<1> DEFINE new == NewEntries(x.entries, s)
<1> DEFINE p == F.it
<1>1. /\ ~l.clean /\ IsMap(l.of) /\ IsMap(F.item) /\ F.erase = 0
      /\ p \in 1 .. Len(s) /\ s[p].key = Uri
      /\ Len(r) = Len(s) /\ PartOf(F) = s[p].val
  BY AtUriIs
<1>2. IsDict(s) /\ IsDict(r) /\ UriProgress(d, F, l) /\ MapProgress(d, F, l)
  BY <1>1, RawMap
<1>3. DOMAIN s = 1 .. Len(s) /\ Len(s) \in Nat
  BY <1>2, DictShape
<1>4. IsDict(x.entries) /\ \A k : HasKey(x.entries, k) => Finished(At(x.entries, k))
  BY FinishedEntries
<1>5. /\ IsFrame(G) /\ G.call = F.call /\ G.path = F.path
      /\ G.erase = p /\ G.it = p + 1 /\ G.item = Map(q)
  <2>1. IsFrame(F)
    BY DEF FrameOK
  <2> QED  BY <2>1, WithIncludedIs
<1>6. SoFar(d, F, l) = Map(<< >>)
  BY <1>1 DEF SoFar
<1>7. ASSUME NEW j \in 1 .. Len(s)  PROVE j # F.erase /\ j # 0
  <2>1. j # 0
    BY <1>3
  <2> QED  BY <1>1, <2>1
<1>8. p # 0
  BY <1>1, <1>7
<1>9. \A j \in 1 .. Len(s) :
        r[j].key = s[j].key /\ r[j].val = IF j < p THEN Inlined(d, s[j].val, F.path) ELSE s[j].val
  <2> TAKE j \in 1 .. Len(s)
  <2>1. r[j].key = s[j].key /\ r[j].val = ValueAt(d, F, l, j)
    BY <1>2 DEF MapProgress
  <2>2. ~HasKey(SoFar(d, F, l).entries, s[j].key)
    BY <1>6, NothingIncluded
  <2>3. ValueAt(d, F, l, j) = IF j < p THEN Inlined(d, s[j].val, F.path) ELSE s[j].val
    <3>1. ValueAt(d, F, l, j) =
            IF HasKey(SoFar(d, F, l).entries, s[j].key) THEN At(SoFar(d, F, l).entries, s[j].key)
            ELSE IF j < p /\ j # F.erase THEN Inlined(d, s[j].val, F.path) ELSE s[j].val
      BY DEF ValueAt
    <3>2. j # F.erase
      BY <1>7
    <3> QED  BY <2>2, <3>1, <3>2
  <2> QED  BY <2>1, <2>3
<1>10. \A j \in 1 .. Len(s) : j < p => Finished(r[j].val)
  <2>1. \A j \in 1 .. Len(r) : j < p /\ j # F.erase => Finished(r[j].val)
    BY <1>2 DEF MapProgress
  <2> QED  BY <1>1, <1>7, <2>1
<1>11. \A j \in 1 .. Len(s) : j < p => s[j].key # Uri
  <2>1. \A j \in 1 .. Len(s) : j < p /\ s[j].key = Uri => j = F.erase
    BY <1>2 DEF UriProgress
  <2> QED  BY <1>7, <2>1
<1>12. HasKey(s, Uri) /\ At(s, Uri) = PartOf(F)
  BY <1>1, <1>2, <1>3, AtIs
<1>13. SoFar(d, G, l) = x
  <2>1. Included(d, l.of, F.path) = x
    BY <1>12 DEF Included
  <2>2. G.erase # 0 /\ G.path = F.path
    BY <1>5, <1>8
  <2> HIDE DEF G
  <2> QED  BY <2>1, <2>2 DEF SoFar
<1>14. NewEntries(x.entries, r) = new
  <2>1. \A k : HasKey(s, k) <=> HasKey(r, k)
    <3>1. DOMAIN r = 1 .. Len(s)
      BY <1>1, <1>2, DictShape
    <3> QED  BY <1>3, <1>9, <3>1 DEF HasKey
  <2> QED  BY <1>4, <2>1, NewToTheSameKeys
<1> HIDE DEF G, r, s, new
<1>15. /\ IsDict(q) /\ Len(q) = Len(s) + Len(new)
       /\ \A j \in 1 .. Len(s) :
            q[j] = Entry(r[j].key, IF HasKey(x.entries, r[j].key) THEN At(x.entries, r[j].key)
                                   ELSE r[j].val)
       /\ \A j \in 1 .. Len(new) : q[Len(s) + j] = new[j]
  <2> DEFINE old == NewEntries(x.entries, r)
  <2>1. /\ IsDict(q) /\ Len(q) = Len(r) + Len(old)
        /\ \A j \in 1 .. Len(r) :
             q[j] = Entry(r[j].key, IF HasKey(x.entries, r[j].key) THEN At(x.entries, r[j].key)
                                    ELSE r[j].val)
        /\ \A j \in 1 .. Len(old) : q[Len(r) + j] = old[j]
    BY <1>2, <1>4, MergedIs, ZenonT(40)
  <2>2. old = new /\ Len(r) = Len(s)
    BY <1>1, <1>14 DEF r, s
  <2> HIDE DEF q, old
  <2> QED  BY <2>1, <2>2
<1>16. IsDict(new)
  BY NewAreFinished DEF new
<1>17. Len(new) \in Nat
  BY <1>16, DictShape
<1> HIDE DEF q
<1>18. ASSUME NEW j \in 1 .. Len(s)
       PROVE  /\ q[j].key = s[j].key
              /\ q[j].val = IF HasKey(x.entries, s[j].key) THEN At(x.entries, s[j].key) ELSE r[j].val
  <2> DEFINE v == IF HasKey(x.entries, r[j].key) THEN At(x.entries, r[j].key) ELSE r[j].val
  <2>1. q[j] = Entry(r[j].key, v)
    BY <1>15
  <2>2. r[j].key = s[j].key
    BY <1>9
  <2> HIDE DEF v
  <2>3. q[j].key = s[j].key /\ q[j].val = v
    BY <2>1, <2>2 DEF Entry
  <2> QED  BY <2>2, <2>3 DEF v
<1>19. ASSUME NEW j \in 1 .. Len(s)  PROVE q[j].val = ValueAt(d, G, l, j)
  <2>1. ValueAt(d, G, l, j) =
          IF HasKey(x.entries, s[j].key) THEN At(x.entries, s[j].key)
          ELSE IF j < p + 1 /\ j # p THEN Inlined(d, s[j].val, F.path) ELSE s[j].val
    BY <1>5, <1>13 DEF ValueAt, s
  <2>2. j < p + 1 /\ j # p <=> j < p
    BY <1>1
  <2> QED  BY <1>9, <1>18, <2>1, <2>2
<1>20. \A j \in 1 .. Len(q) : j < p + 1 /\ j # p => Finished(q[j].val)
  <2> SUFFICES ASSUME NEW j \in 1 .. Len(q), j < p + 1, j # p  PROVE Finished(q[j].val)
    OBVIOUS
  <2>1. j \in 1 .. Len(s) /\ j < p
    BY <1>1
  <2> QED  BY <1>4, <1>10, <1>18, <2>1
<1>21. MapProgress(d, G, l)
  <2>1. p + 1 \in 1 .. Len(q) + 1
    <3>1. p \in 1 .. Len(s) /\ Len(q) = Len(s) + Len(new) /\ Len(s) \in Nat /\ Len(new) \in Nat
      BY <1>1, <1>3, <1>15, <1>17
    <3> HIDE DEF p, q, s, new
    <3> QED  BY <3>1
  <2>2. G.item.entries = q
    BY <1>5 DEF Map
  <2> QED  BY <1>5, <1>13, <1>15, <1>18, <1>19, <1>20, <2>1, <2>2 DEF MapProgress, s, new
<1>22. UriProgress(d, G, l)
  <2>1. p \in 0 .. Len(s) /\ p < p + 1
    BY <1>1, <1>3
  <2>2. \A j \in 1 .. Len(s) : j < p + 1 /\ s[j].key = Uri => j = p
    BY <1>1, <1>11
  <2> QED  BY <1>1, <1>5, <1>13, <2>1, <2>2 DEF UriProgress, s
<1>23. Proper(G.item) /\ IsMap(G.item)
  BY <1>5, <1>15 DEF Proper, IsDict, IsMap, IsVector, IsAtom, Map
<1>24. RawOK(d, K, F, l) /\ l = Label(l.of, l.file, l.clean) /\ l.clean \in BOOLEAN
  BY <1>1 DEF FrameOK
<1>25. G.item.kind = l.of.kind /\ ~IsVector(l.of) /\ ~IsAtom(l.of)
  BY <1>1, <1>23 DEF IsMap, IsVector, IsAtom
<1>26. RawOK(d, K, G, l)
  BY <1>5, <1>21, <1>22, <1>23, <1>24, <1>25 DEF RawOK
<1>27. FrameOK(d, K, G, l)
  BY <1>1, <1>5, <1>24, <1>26 DEF FrameOK
<1> QED  BY <1>27 DEF G
-----------------------------------------------------------------------------
LEMMA FrontIs ==
  ASSUME NEW s, s \in Seq(Range(s)), Len(s) > 0
  PROVE  /\ Front(s) \in Seq(Range(Front(s))) /\ Len(Front(s)) = Len(s) - 1
         /\ \A i \in 1 .. Len(s) - 1 : Front(s)[i] = s[i]
<1> DEFINE E == Range(s)
<1> DEFINE p == Len(s)
<1> DEFINE f == SubSeq(s, 1, p - 1)
<1>1. p \in 1 .. Len(s)
  OBVIOUS
<1>2. s \in Seq(E) /\ Front(s) = f /\ p = Len(s)
  BY DEF Front
<1> HIDE DEF E, p
<1>3. f \in Seq(E) /\ Len(f) = p - 1 /\ \A i \in 1 .. p - 1 : f[i] = s[i]
  BY <1>1, <1>2
<1> HIDE DEF f
<1>4. f \in Seq(Range(f))
  BY <1>3, IsSeqOfRange
<1> QED  BY <1>2, <1>3, <1>4

LEMMA AppendIs ==
  ASSUME NEW s, s \in Seq(Range(s)), NEW e
  PROVE  /\ Append(s, e) \in Seq(Range(Append(s, e))) /\ Len(Append(s, e)) = Len(s) + 1
         /\ \A i \in 1 .. Len(s) : Append(s, e)[i] = s[i]
         /\ Append(s, e)[Len(s) + 1] = e
<1> DEFINE t == Append(s, e)
<1>1. t \in Seq(Range(s) \cup {e}) /\ Len(t) = Len(s) + 1 /\ t[Len(s) + 1] = e
      /\ \A i \in 1 .. Len(s) : t[i] = s[i]
  OBVIOUS
<1> HIDE DEF t
<1>2. t \in Seq(Range(t))
  BY <1>1, IsSeqOfRange
<1> QED  BY <1>1, <1>2 DEF t

\* The top of the stack and its caller.
LEMMA TopIs ==
  ASSUME NEW d, NEW K, NEW st, NEW m, StackOK(d, K, st, m), Len(st) > 0
  PROVE  /\ FrameOK(d, K, Last(st), Last(m))
         /\ Len(st) = 1 => IsRoot(d, Last(st), Last(m))
         /\ Len(st) > 1 =>
              /\ Len(Front(st)) > 0
              /\ FrameOK(d, K, Last(Front(st)), Last(Front(m)))
              /\ Called(d, Last(Front(st)), Last(Front(m)), Last(st), Last(m))
<1>1. /\ st \in Seq(Range(st)) /\ m \in Seq(Range(m)) /\ Len(m) = Len(st)
      /\ \A i \in 1 .. Len(st) : FrameOK(d, K, st[i], m[i])
      /\ \A i \in 1 .. Len(st) - 1 : Called(d, st[i], m[i], st[i + 1], m[i + 1])
      /\ IsRoot(d, st[1], m[1])
  BY DEF StackOK
<1>2. Len(st) \in Nat
  BY <1>1
<1>3. FrameOK(d, K, Last(st), Last(m))
  BY <1>1, <1>2 DEF Last
<1>4. ASSUME Len(st) > 1
      PROVE  /\ Len(Front(st)) > 0
             /\ FrameOK(d, K, Last(Front(st)), Last(Front(m)))
             /\ Called(d, Last(Front(st)), Last(Front(m)), Last(st), Last(m))
  <2> DEFINE n == Len(st) - 1
  <2>1. n \in 1 .. Len(st) - 1 /\ n \in 1 .. Len(st) /\ n + 1 = Len(st)
    BY <1>2, <1>4
  <2>2. Len(Front(st)) = n /\ Front(st)[n] = st[n]
    BY <1>1, <2>1, FrontIs
  <2>3. Len(Front(m)) = n /\ Front(m)[n] = m[n]
    BY <1>1, <2>1, FrontIs
  <2>4. Called(d, st[n], m[n], st[n + 1], m[n + 1]) /\ FrameOK(d, K, st[n], m[n])
    BY <1>1, <2>1
  <2> QED  BY <1>1, <2>1, <2>2, <2>3, <2>4 DEF Last
<1> QED  BY <1>1, <1>3, <1>4 DEF Last

LEMMA Popped ==
  ASSUME NEW d, NEW K, NEW st, NEW m, StackOK(d, K, st, m), Len(st) > 0
  PROVE  StackOK(d, K, Front(st), Front(m))
<1>1. /\ st \in Seq(Range(st)) /\ m \in Seq(Range(m)) /\ Len(m) = Len(st)
      /\ \A i \in 1 .. Len(st) : FrameOK(d, K, st[i], m[i])
      /\ \A i \in 1 .. Len(st) - 1 : Called(d, st[i], m[i], st[i + 1], m[i + 1])
      /\ IsRoot(d, st[1], m[1])
  BY DEF StackOK
<1> DEFINE fs == Front(st)
<1> DEFINE fm == Front(m)
<1>2. /\ fs \in Seq(Range(fs)) /\ Len(fs) = Len(st) - 1
      /\ \A i \in 1 .. Len(st) - 1 : fs[i] = st[i]
  BY <1>1, FrontIs
<1>3. /\ fm \in Seq(Range(fm)) /\ Len(fm) = Len(st) - 1
      /\ \A i \in 1 .. Len(st) - 1 : fm[i] = m[i]
  BY <1>1, FrontIs
<1> HIDE DEF fs, fm
<1>4. Len(st) \in Nat
  BY <1>1
<1>5. \A i \in 1 .. Len(fs) : FrameOK(d, K, fs[i], fm[i])
  BY <1>1, <1>2, <1>3, <1>4
<1>6. \A i \in 1 .. Len(fs) - 1 : Called(d, fs[i], fm[i], fs[i + 1], fm[i + 1])
  <2> TAKE i \in 1 .. Len(fs) - 1
  <2>1. i \in 1 .. Len(st) - 1 /\ i + 1 \in 1 .. Len(st) - 1
    BY <1>2, <1>4
  <2> QED  BY <1>1, <1>2, <1>3, <2>1
<1>7. ASSUME Len(fs) > 0  PROVE IsRoot(d, fs[1], fm[1])
  <2>1. 1 \in 1 .. Len(st) - 1
    BY <1>2, <1>4, <1>7
  <2>2. fs[1] = st[1] /\ fm[1] = m[1]
    BY <1>2, <1>3, <2>1
  <2> QED  BY <1>1, <2>2
<1>8. StackOK(d, K, fs, fm)
  BY <1>2, <1>3, <1>5, <1>6, <1>7 DEF StackOK
<1> QED  BY <1>8 DEF fs, fm

LEMMA Pushed ==
  ASSUME NEW d, NEW K, NEW st, NEW m, StackOK(d, K, st, m), NEW F, NEW k, FrameOK(d, K, F, k),
         Len(st) = 0 => IsRoot(d, F, k),
         Len(st) > 0 => Called(d, Last(st), Last(m), F, k)
  PROVE  StackOK(d, K, Append(st, F), Append(m, k))
<1>1. /\ st \in Seq(Range(st)) /\ m \in Seq(Range(m)) /\ Len(m) = Len(st)
      /\ \A i \in 1 .. Len(st) : FrameOK(d, K, st[i], m[i])
      /\ \A i \in 1 .. Len(st) - 1 : Called(d, st[i], m[i], st[i + 1], m[i + 1])
      /\ Len(st) > 0 => IsRoot(d, st[1], m[1])
  BY DEF StackOK
<1> DEFINE fs == Append(st, F)
<1> DEFINE fm == Append(m, k)
<1> DEFINE n == Len(st)
<1>2. /\ fs \in Seq(Range(fs)) /\ Len(fs) = n + 1 /\ fs[n + 1] = F
      /\ \A i \in 1 .. n : fs[i] = st[i]
  BY <1>1, AppendIs
<1>3. /\ fm \in Seq(Range(fm)) /\ Len(fm) = n + 1 /\ fm[n + 1] = k
      /\ \A i \in 1 .. n : fm[i] = m[i]
  BY <1>1, AppendIs
<1>4. n \in Nat
  BY <1>1
<1>5. n > 0 => Called(d, st[n], m[n], F, k)
  BY <1>1 DEF Last
<1> HIDE DEF fs, fm, n
<1>6. \A i \in 1 .. Len(fs) : FrameOK(d, K, fs[i], fm[i])
  <2> TAKE i \in 1 .. Len(fs)
  <2>1. CASE i \in 1 .. n
    BY <1>1, <1>2, <1>3, <2>1 DEF n
  <2>2. CASE i = n + 1
    BY <1>2, <1>3, <2>2
  <2> QED  BY <1>2, <1>4, <2>1, <2>2
<1>7. \A i \in 1 .. Len(fs) - 1 : Called(d, fs[i], fm[i], fs[i + 1], fm[i + 1])
  <2> TAKE i \in 1 .. Len(fs) - 1
  <2>1. CASE i \in 1 .. n - 1
    <3>1. i \in 1 .. n /\ i + 1 \in 1 .. n
      BY <1>4, <2>1
    <3>2. Called(d, st[i], m[i], st[i + 1], m[i + 1])
      BY <1>1, <2>1 DEF n
    <3> QED  BY <1>2, <1>3, <3>1, <3>2
  <2>2. CASE i = n
    <3>1. n > 0 /\ n \in 1 .. n
      BY <1>2, <1>4, <2>2
    <3> QED  BY <1>2, <1>3, <1>5, <2>2, <3>1
  <2> QED  BY <1>2, <1>4, <2>1, <2>2
<1>8. IsRoot(d, fs[1], fm[1])
  <2>1. CASE n = 0
    <3>1. n + 1 = 1
      BY <2>1
    <3>2. fs[1] = F /\ fm[1] = k
      BY <1>2, <1>3, <3>1
    <3> QED  BY <2>1, <3>2 DEF n
  <2>2. CASE n > 0
    <3>1. 1 \in 1 .. n
      BY <1>4, <2>2
    <3>2. fs[1] = st[1] /\ fm[1] = m[1]
      BY <1>2, <1>3, <3>1
    <3> QED  BY <1>1, <2>2, <3>2 DEF n
  <2> QED  BY <1>4, <2>1, <2>2
<1>9. StackOK(d, K, fs, fm)
  BY <1>2, <1>3, <1>6, <1>7, <1>8 DEF StackOK
<1> QED  BY <1>9 DEF fs, fm

\* The top goes on, with the same call.
LEMMA GoneOn ==
  ASSUME NEW d, NEW K, NEW st, NEW m, StackOK(d, K, st, m), Len(st) > 0,
         NEW F, FrameOK(d, K, F, Last(m)), F.call = Last(st).call, F.path = Last(st).path
  PROVE  StackOK(d, K, Append(Front(st), F), Append(Front(m), Last(m)))
<1>1. StackOK(d, K, Front(st), Front(m))
  BY Popped
<1>2. st \in Seq(Range(st)) /\ Len(st) \in Nat /\ Len(Front(st)) = Len(st) - 1
  BY FrontIs DEF StackOK
<1>3. ASSUME Len(Front(st)) = 0  PROVE IsRoot(d, F, Last(m))
  <2>1. Len(st) = 1
    BY <1>2, <1>3
  <2>2. IsRoot(d, Last(st), Last(m))
    BY <2>1, TopIs
  <2> QED  BY <2>2 DEF IsRoot
<1>4. ASSUME Len(Front(st)) > 0  PROVE Called(d, Last(Front(st)), Last(Front(m)), F, Last(m))
  <2>1. Len(st) > 1
    BY <1>2, <1>4
  <2>2. Called(d, Last(Front(st)), Last(Front(m)), Last(st), Last(m))
    BY <2>1, TopIs
  <2> QED  BY <2>2 DEF Called, CalledForPart, CalledForUri
<1> QED  BY <1>1, <1>3, <1>4, Pushed
-----------------------------------------------------------------------------
(***************************************************************************)
(* The steps, each with the stack st and its labels m.                     *)
(***************************************************************************)
LEMMA LabelParts ==
  ASSUME NEW x, NEW f, NEW c
  PROVE  Label(x, f, c).of = x /\ Label(x, f, c).file = f /\ Label(x, f, c).clean = c
BY DEF Label

\* Visit, of a map or vector.
LEMMA VisitCalls ==
  ASSUME NEW d \in Disks, NEW K, K \subseteq DOMAIN d, NEW st, NEW m, StackOK(d, K, st, m),
         Len(st) > 0, ~AtEndOf(Last(st)), ~AtUriOf(Last(st))
  PROVE  \E n : StackOK(d, K, Append(st, Frame("part", PartOf(Last(st)), Last(st).path)), n)
<1> DEFINE G == Last(st)
<1> DEFINE l == Last(m)
<1> DEFINE x == PartOf(G)
<1> DEFINE c == l.clean \/ Foreign(d, G, l)
<1> DEFINE F == Frame("part", x, G.path)
<1> DEFINE k == Label(x, l.file, c)
<1>1. FrameOK(d, K, G, l) /\ ~AtEndOf(G) /\ ~AtUriOf(G)
  BY TopIs
<1>2. IF c THEN Finished(x)
      ELSE x \in PartsOf(d[l.file]) /\ l.file \in K /\ G.path = GetPathOfFile(l.file)
  BY <1>1, PartIs
<1>3. c \in BOOLEAN
  BY <1>1 DEF FrameOK, Foreign
<1> HIDE DEF G, l, x, c
<1>4. FrameOK(d, K, F, k)
  <2>1. CASE c
    <3>1. c = TRUE
      BY <1>3, <2>1
    <3> QED  BY <1>2, <3>1, CleanStart
  <2>2. CASE ~c
    <3>1. c = FALSE
      BY <1>3, <2>2
    <3> QED  BY <1>2, <3>1, RawStart
  <2> QED  BY <1>3, <2>1, <2>2
<1>5. F.call = "part" /\ F.path = G.path
  BY DEF Frame
<1>6. Called(d, G, l, F, k)
  BY <1>1, <1>5 DEF Called, CalledForPart, x, c
<1> HIDE DEF F, k
<1>7. StackOK(d, K, Append(st, F), Append(m, k))
  BY <1>4, <1>6, Pushed DEF G, l
<1> QED  BY <1>7 DEF F, x, G

\* Visit, of a scalar.
LEMMA VisitGoesOn ==
  ASSUME NEW d \in Disks, NEW K, K \subseteq DOMAIN d, NEW st, NEW m, StackOK(d, K, st, m),
         Len(st) > 0, ~AtEndOf(Last(st)), ~AtUriOf(Last(st)),
         ~IsMap(PartOf(Last(st))), ~IsVector(PartOf(Last(st)))
  PROVE  \E n : StackOK(d, K, Append(Front(st), [Last(st) EXCEPT !.it = @ + 1]), n)
<1> DEFINE G == Last(st)
<1> DEFINE l == Last(m)
<1> DEFINE x == PartOf(G)
<1>1. FrameOK(d, K, G, l) /\ ~AtEndOf(G) /\ ~AtUriOf(G) /\ ~IsMap(x) /\ ~IsVector(x)
  BY TopIs
<1>2. /\ IF l.clean \/ Foreign(d, G, l) THEN Finished(x)
         ELSE x \in PartsOf(d[l.file]) /\ l.file \in K /\ G.path = GetPathOfFile(l.file)
  BY <1>1, PartIs
<1>3. IsFrame(G) /\ Proper(G.item) /\ G.it \in 1 .. Len(Children(G.item)) + 1
  BY <1>1, AnyFrame
<1> HIDE DEF G, l
<1>4. Proper(x)
  <2>1. CASE l.clean \/ Foreign(d, G, l)
    BY <1>2, <2>1, FinishedIs
  <2>2. CASE ~(l.clean \/ Foreign(d, G, l))
    BY <1>2, <2>2, PartsAre
  <2> QED  BY <2>1, <2>2
<1>5. WithPart(G, x) = [G EXCEPT !.it = @ + 1]
  BY <1>1, <1>3, WithItsPart
<1>6. Answer(d, G, l, x)
  <2>1. Finished(x)
    BY <1>1, <1>4, FinishedAtoms
  <2>2. CASE l.clean \/ Foreign(d, G, l)
    BY <2>1, <2>2 DEF Answer
  <2>3. CASE ~(l.clean \/ Foreign(d, G, l))
    <3>1. Inlined(d, x, G.path) = x
      BY <1>1, <1>2, <2>3, InlinedIs
    <3> QED  BY <2>1, <2>3, <3>1 DEF Answer
  <2> QED  BY <2>2, <2>3
<1>7. FrameOK(d, K, WithPart(G, x), l) /\ WithPart(G, x).call = G.call /\ WithPart(G, x).path = G.path
  BY <1>1, <1>3, <1>6, PartReturned, WithPartIs
<1> HIDE DEF x
<1>8. StackOK(d, K, Append(Front(st), WithPart(G, x)), Append(Front(m), Last(m)))
  BY <1>7, GoneOn DEF G, l
<1> QED  BY <1>5, <1>8 DEF G

\* Include.
LEMMA IncludeCalls ==
  ASSUME NEW d \in Disks, NEW K, K \subseteq DOMAIN d, NEW st, NEW m, StackOK(d, K, st, m),
         Len(st) > 0, AtUriOf(Last(st)), NEW file \in K,
         file = FileOf(Last(st).path, PartOf(Last(st))),
         CanLoadFrom(d, Last(st).path, PartOf(Last(st)))
  PROVE  \E n : StackOK(d, K, Append(st, Frame("read", d[file], GetPathOfFile(file))), n)
<1> DEFINE G == Last(st)
<1> DEFINE l == Last(m)
<1> DEFINE F == Frame("read", d[file], GetPathOfFile(file))
<1> DEFINE k == Label(d[file], file, FALSE)
<1>1. FrameOK(d, K, G, l) /\ AtUriOf(G)
  BY TopIs
<1>2. ~l.clean
  BY <1>1, CleanHasNoUri
<1>3. d[file] \in PartsOf(d[file])
  BY PartsAre
<1>4. FrameOK(d, K, F, k)
  BY <1>3, RawStart
<1>5. F.call = "read"
  BY DEF Frame
<1>6. Called(d, G, l, F, k)
  BY <1>1, <1>2, <1>5 DEF Called, CalledForUri
<1> HIDE DEF F, k
<1>7. StackOK(d, K, Append(st, F), Append(m, k))
  BY <1>4, <1>6, Pushed DEF G, l
<1> QED  BY <1>7 DEF F

\* What is called for a part, and what for a URI.
LEMMA CalledAs ==
  ASSUME NEW d, NEW G, NEW l, NEW F, NEW k, Called(d, G, l, F, k)
  PROVE  /\ F.call = "part" => CalledForPart(d, G, l, F, k)
         /\ F.call # "part" => CalledForUri(d, G, l, F, k)
BY DEF Called, CalledForPart, CalledForUri

\* Return to an entry or element.
LEMMA ReturnsPart ==
  ASSUME NEW d \in Disks, NEW K, K \subseteq DOMAIN d, NEW st, NEW m, StackOK(d, K, st, m),
         Len(st) > 1, AtEndOf(Last(st)), Last(st).call = "part"
  PROVE  \E n : StackOK(d, K, Append(Front(Front(st)),
                                     WithPart(Last(Front(st)), DoneOf(Last(st)))), n)
<1> DEFINE F == Last(st)
<1> DEFINE k == Last(m)
<1> DEFINE t == Front(st)
<1> DEFINE mt == Front(m)
<1> DEFINE G == Last(t)
<1> DEFINE l == Last(mt)
<1> DEFINE x == DoneOf(F)
<1>1. Len(st) \in Nat /\ Len(st) > 0
  BY DEF StackOK
<1>2. /\ FrameOK(d, K, F, k) /\ Len(t) > 0 /\ FrameOK(d, K, G, l) /\ Called(d, G, l, F, k)
      /\ AtEndOf(F) /\ F.call = "part"
  BY <1>1, TopIs
<1>3. StackOK(d, K, t, mt)
  BY <1>1, Popped
<1> HIDE DEF F, k, t, mt, G, l
<1>4. CalledForPart(d, G, l, F, k)
  BY <1>2, CalledAs
<1>5. /\ ~AtEndOf(G) /\ ~AtUriOf(G) /\ F.path = G.path
      /\ k.of = PartOf(G) /\ k.clean = (l.clean \/ Foreign(d, G, l))
  BY <1>4, LabelParts DEF CalledForPart
<1>6. Finished(x) /\ x = IF k.clean THEN k.of ELSE Inlined(d, k.of, F.path)
  BY <1>2, DoneIs
<1> HIDE DEF x
<1>7. Answer(d, G, l, x)
  BY <1>5, <1>6 DEF Answer
<1>8. FrameOK(d, K, WithPart(G, x), l)
  BY <1>2, <1>5, <1>7, PartReturned
<1>9. IsFrame(G)
  BY <1>2, AnyFrame
<1>10. WithPart(G, x).call = G.call /\ WithPart(G, x).path = G.path
  BY <1>9, WithPartIs
<1>11. StackOK(d, K, Append(Front(t), WithPart(G, x)), Append(Front(mt), Last(mt)))
  BY <1>2, <1>3, <1>8, <1>10, GoneOn DEF G, l
<1> QED  BY <1>11 DEF G, t, x, F

\* What a file is that a URI names, when it has been read, and when it is inlined.
LEMMA FileReturned ==
  ASSUME NEW d \in Disks, NEW K, K \subseteq DOMAIN d, NEW st, NEW m, StackOK(d, K, st, m),
         Len(st) > 1, AtEndOf(Last(st)), Last(st).call # "part"
  PROVE  LET G == Last(Front(st))
             file == FileOf(G.path, PartOf(G))
             x == DoneOf(Last(st))
         IN  /\ FrameOK(d, K, G, Last(Front(m))) /\ AtUriOf(G) /\ ~Last(Front(m)).clean
             /\ CanLoadFrom(d, G.path, PartOf(G))
             /\ x = Inlined(d, d[file], GetPathOfFile(file))
             /\ Finished(x) /\ x.kind = d[file].kind
<1> DEFINE F == Last(st)
<1> DEFINE k == Last(m)
<1> DEFINE G == Last(Front(st))
<1> DEFINE l == Last(Front(m))
<1> DEFINE file == FileOf(G.path, PartOf(G))
<1> DEFINE x == DoneOf(F)
<1> DEFINE inlined == Inlined(d, d[file], GetPathOfFile(file))
<1>1. Len(st) \in Nat /\ Len(st) > 0
  BY DEF StackOK
<1>2. /\ FrameOK(d, K, F, k) /\ FrameOK(d, K, G, l) /\ Called(d, G, l, F, k)
      /\ AtEndOf(F) /\ F.call # "part"
  BY <1>1, TopIs
<1>3. CalledForUri(d, G, l, F, k)
  BY <1>2, CalledAs
<1>4. /\ AtUriOf(G) /\ ~l.clean /\ CanLoadFrom(d, G.path, PartOf(G))
      /\ \/ k = Label(d[file], file, FALSE)
         \/ k = Label(inlined, file, TRUE) /\ inlined.kind = d[file].kind
  BY <1>3 DEF CalledForUri
<1>5. Finished(x) /\ x.kind = k.of.kind /\ x = IF k.clean THEN k.of ELSE Inlined(d, k.of, F.path)
  BY <1>2, DoneIs
<1> HIDE DEF F, k, G, l, x, inlined, file
<1>6. CASE k = Label(d[file], file, FALSE)
  <2>1. k.of = d[file] /\ k.file = file /\ ~k.clean
    BY <1>6 DEF Label
  <2>2. F.path = GetPathOfFile(file)
    BY <1>2, <2>1 DEF FrameOK, RawOK
  <2>3. x = inlined /\ x.kind = d[file].kind
    BY <1>5, <2>1, <2>2 DEF inlined
  <2> QED  BY <1>2, <1>4, <1>5, <2>3 DEF F, G, l, file, x, inlined
<1>7. CASE k = Label(inlined, file, TRUE) /\ inlined.kind = d[file].kind
  <2>1. k.of = inlined /\ k.clean
    BY <1>7 DEF Label
  <2>2. x = inlined /\ x.kind = d[file].kind
    BY <1>5, <1>7, <2>1
  <2> QED  BY <1>2, <1>4, <1>5, <2>2 DEF F, G, l, file, x, inlined
<1> QED  BY <1>4, <1>6, <1>7

\* Return from the first call on an included file: the second begins.
LEMMA ReturnsFile ==
  ASSUME NEW d \in Disks, NEW K, K \subseteq DOMAIN d, NEW st, NEW m, StackOK(d, K, st, m),
         Len(st) > 1, AtEndOf(Last(st)), Last(st).call = "read"
  PROVE  \E n : StackOK(d, K, Append(Front(st), Frame("again", DoneOf(Last(st)), Last(st).path)), n)
<1> DEFINE t == Front(st)
<1> DEFINE mt == Front(m)
<1> DEFINE G == Last(t)
<1> DEFINE l == Last(mt)
<1> DEFINE file == FileOf(G.path, PartOf(G))
<1> DEFINE x == DoneOf(Last(st))
<1> DEFINE F == Frame("again", x, Last(st).path)
<1> DEFINE k == Label(x, file, TRUE)
<1>1. /\ AtUriOf(G) /\ ~l.clean /\ CanLoadFrom(d, G.path, PartOf(G))
      /\ x = Inlined(d, d[file], GetPathOfFile(file))
      /\ Finished(x) /\ x.kind = d[file].kind
  <2>1. Last(st).call # "part"
    OBVIOUS
  <2> QED  BY <2>1, FileReturned
<1>2. Len(st) \in Nat /\ Len(st) > 0
  BY DEF StackOK
<1>3. StackOK(d, K, t, mt) /\ Len(t) > 0
  BY <1>2, Popped, TopIs
<1>4. F.call = "again"
  BY DEF Frame
<1>5. FrameOK(d, K, F, k)
  BY <1>1, CleanStart
<1>6. Called(d, G, l, F, k)
  BY <1>1, <1>4 DEF Called, CalledForUri
<1> HIDE DEF F, k, t, mt
<1>7. StackOK(d, K, Append(t, F), Append(mt, k))
  BY <1>3, <1>5, <1>6, Pushed
<1> QED  BY <1>7 DEF F, t

\* Return from the second call on an included file that is a map.
LEMMA ReturnsIncluded ==
  ASSUME NEW d \in Disks, NEW K, K \subseteq DOMAIN d, NEW st, NEW m, StackOK(d, K, st, m),
         Len(st) > 1, AtEndOf(Last(st)), Last(st).call = "again", IsMap(DoneOf(Last(st)))
  PROVE  \E n : StackOK(d, K, Append(Front(Front(st)),
                                     WithIncluded(Last(Front(st)), DoneOf(Last(st)))), n)
<1> DEFINE t == Front(st)
<1> DEFINE mt == Front(m)
<1> DEFINE G == Last(t)
<1> DEFINE l == Last(mt)
<1> DEFINE file == FileOf(G.path, PartOf(G))
<1> DEFINE x == DoneOf(Last(st))
<1>1. /\ FrameOK(d, K, G, l) /\ AtUriOf(G) /\ CanLoadFrom(d, G.path, PartOf(G))
      /\ x = Inlined(d, d[file], GetPathOfFile(file))
      /\ Finished(x) /\ IsMap(x)
  <2>1. Last(st).call # "part"
    OBVIOUS
  <2> QED  BY <2>1, FileReturned
<1>2. Len(st) \in Nat /\ Len(st) > 0
  BY DEF StackOK
<1>3. StackOK(d, K, t, mt) /\ Len(t) > 0
  BY <1>2, Popped, TopIs
<1>4. FrameOK(d, K, WithIncluded(G, x), l)
  BY <1>1, IncludedReturned
<1>5. IsFrame(G)
  BY <1>1, AnyFrame
<1>6. WithIncluded(G, x).call = G.call /\ WithIncluded(G, x).path = G.path
  BY <1>5, WithIncludedIs
<1> HIDE DEF t, mt, x
<1>7. StackOK(d, K, Append(Front(t), WithIncluded(G, x)), Append(Front(mt), Last(mt)))
  BY <1>3, <1>4, <1>6, GoneOn
<1> QED  BY <1>7 DEF t, x

\* Return to fromYamlFile.
LEMMA ReturnsRoot ==
  ASSUME NEW d \in Disks, NEW K, K \subseteq DOMAIN d, NEW st, NEW m, StackOK(d, K, st, m),
         Len(st) = 1, AtEndOf(Last(st))
  PROVE  /\ Proper(DoneOf(Last(st)))
         /\ DoneOf(Last(st)) = Inlined(d, d[First], GetPathOfFile(First))
<1> DEFINE F == Last(st)
<1> DEFINE k == Last(m)
<1>1. FrameOK(d, K, F, k) /\ IsRoot(d, F, k) /\ AtEndOf(F)
  BY TopIs
<1> HIDE DEF F, k
<1>2. k.of = d[First] /\ k.file = First /\ ~k.clean
  BY <1>1 DEF IsRoot, Label
<1>3. F.path = GetPathOfFile(First)
  BY <1>1, <1>2 DEF FrameOK, RawOK
<1>4. Finished(DoneOf(F)) /\ DoneOf(F) = Inlined(d, k.of, F.path)
  BY <1>1, <1>2, DoneIs
<1> QED  BY <1>2, <1>3, <1>4, FinishedIs DEF F

LEMMA NoFrames ==
  ASSUME NEW d, NEW K
  PROVE  StackOK(d, K, << >>, << >>)
BY DEF StackOK

\* The first call.
LEMMA FirstCalled ==
  ASSUME NEW d \in Disks, NEW K, K \subseteq DOMAIN d, First \in K
  PROVE  \E n : StackOK(d, K, << Frame("read", d[First], GetPathOfFile(First)) >>, n)
<1> DEFINE F == Frame("read", d[First], GetPathOfFile(First))
<1> DEFINE k == Label(d[First], First, FALSE)
<1>1. d[First] \in PartsOf(d[First])
  BY PartsAre
<1>2. FrameOK(d, K, F, k)
  BY <1>1, RawStart
<1>3. IsRoot(d, F, k)
  BY DEF IsRoot, Frame
<1> HIDE DEF F, k
<1>4. StackOK(d, K, Append(<< >>, F), Append(<< >>, k))
  <2> DEFINE st == << >>
  <2> DEFINE m == << >>
  <2>1. StackOK(d, K, st, m)
    BY NoFrames
  <2>2. ~(Len(st) > 0)
    OBVIOUS
  <2> HIDE DEF st, m
  <2>3. Len(st) = 0 => IsRoot(d, F, k)
    BY <1>3
  <2>4. Len(st) > 0 => Called(d, Last(st), Last(m), F, k)
    BY <2>2
  <2>5. StackOK(d, K, Append(st, F), Append(m, k))
    BY <1>2, <2>1, <2>3, <2>4, Pushed, Zenon
  <2> QED  BY <2>5 DEF st, m
<1>5. Append(<< >>, F) = << F >>
  OBVIOUS
<1> QED  BY <1>4, <1>5 DEF F

\* The frames above one that is clean are called on its parts.
LEMMA CleanAbove ==
  ASSUME NEW d, NEW K, NEW st, NEW m, StackOK(d, K, st, m), NEW i \in 1 .. Len(st), m[i].clean
  PROVE  \A j \in 1 .. Len(st) : i <= j =>
           m[j].clean /\ ~AtUriOf(st[j]) /\ (i < j => st[j].call = "part")
<1>1. /\ \A j \in 1 .. Len(st) : FrameOK(d, K, st[j], m[j])
      /\ \A j \in 1 .. Len(st) - 1 : Called(d, st[j], m[j], st[j + 1], m[j + 1])
      /\ Len(st) \in Nat
  BY DEF StackOK
<1> DEFINE above(j) == m[j].clean /\ ~AtUriOf(st[j]) /\ (i < j => st[j].call = "part")
<1> DEFINE T == {j \in Nat : i + j <= Len(st) => above(i + j)}
<1>2. 0 \in T
  <2>1. above(i)
    BY <1>1, CleanHasNoUri
  <2> QED  BY <2>1
<1>3. ASSUME NEW j \in T  PROVE j + 1 \in T
  <2> SUFFICES ASSUME i + (j + 1) <= Len(st)  PROVE above(i + (j + 1))
    OBVIOUS
  <2> DEFINE p == i + j
  <2>1. p \in 1 .. Len(st) - 1 /\ p \in 1 .. Len(st) /\ p + 1 \in 1 .. Len(st) /\ i + (j + 1) = p + 1
        /\ i < p + 1
    BY <1>1
  <2>2. above(p)
    BY <1>3, <2>1
  <2> HIDE DEF p
  <2>3. m[p].clean
    BY <2>2
  <2>4. Called(d, st[p], m[p], st[p + 1], m[p + 1])
    BY <1>1, <2>1
  <2>5. CalledForPart(d, st[p], m[p], st[p + 1], m[p + 1])
    BY <2>3, <2>4 DEF Called, CalledForUri
  <2>6. /\ st[p + 1].call = "part"
        /\ m[p + 1].clean = (m[p].clean \/ Foreign(d, st[p], m[p]))
    BY <2>5, LabelParts DEF CalledForPart
  <2>7. m[p + 1].clean
    BY <2>3, <2>6
  <2>8. ~AtUriOf(st[p + 1])
    BY <1>1, <2>1, <2>7, CleanHasNoUri
  <2>9. above(p + 1)
    BY <2>6, <2>7, <2>8
  <2> QED  BY <2>1, <2>9
<1> HIDE DEF above
<1>4. Nat \subseteq T
  BY <1>2, <1>3, Induction
<1>5. \A j \in 1 .. Len(st) : i <= j => above(j)
  <2> TAKE j \in 1 .. Len(st)
  <2> HAVE i <= j
  <2>1. j - i \in Nat /\ i + (j - i) = j
    BY <1>1
  <2>2. j - i \in T
    BY <1>4, <2>1
  <2> QED  BY <1>1, <2>1, <2>2
<1> QED  BY <1>5 DEF above
-----------------------------------------------------------------------------
\* The files that are named, of the disk d.
UrisIn(d, file) ==
  {At(x.entries, Uri) : x \in {y \in PartsOf(d[file]) : IsMap(y) /\ HasKey(y.entries, Uri)}}
NamedIn(d, file) ==
  {FileOf(GetPathOfFile(file), u) :
     u \in {v \in UrisIn(d, file) : CanLoadFrom(d, GetPathOfFile(file), v)}}
AllNamedIn(d, F) ==
  {f \in DOMAIN d :
     \A S \in SUBSET DOMAIN d : F \subseteq S /\ (\A g \in S : NamedIn(d, g) \subseteq S) => f \in S}
ReasonIn(d) ==
  \/ First \notin DOMAIN d
  \/ \E f \in AllNamedIn(d, {First}) :
       \/ \E g \in NamedIn(d, f) : ~IsMap(d[g])
       \/ \E u \in UrisIn(d, f) : ~CanLoadFrom(d, GetPathOfFile(f), u)

LEMMA NamedAre ==
  /\ AllNamed({First}) = AllNamedIn(disk, {First})
  /\ AllNamed({First})' = AllNamedIn(disk', {First})
BY Zenon DEF AllNamed, AllNamedIn, NamedBy, NamedIn, UrisOf, UrisIn, CanInclude, Read

LEMMA ReasonIs ==
  /\ FailsForAReason <=> (result = Failed => ReasonIn(disk))
  /\ FailsForAReason' <=> (result' = Failed => ReasonIn(disk'))
BY NamedAre, Zenon DEF FailsForAReason, ReasonIn, CanRead, NamedBy, NamedIn, UrisOf, UrisIn, CanInclude, Read

LEMMA NamedClosed ==
  ASSUME NEW d
  PROVE  /\ AllNamedIn(d, {First}) \subseteq DOMAIN d
         /\ First \in DOMAIN d => First \in AllNamedIn(d, {First})
         /\ \A f \in AllNamedIn(d, {First}) : NamedIn(d, f) \subseteq AllNamedIn(d, {First})
<1>1. \A f : NamedIn(d, f) \subseteq DOMAIN d
  BY DEF NamedIn, CanLoadFrom
<1> QED  BY <1>1 DEF AllNamedIn

\* What a frame comes to under the key "URI" is one of the URIs of its file.
LEMMA FrameNames ==
  ASSUME NEW d \in Disks, NEW K, K \subseteq DOMAIN d, NEW F, NEW l, FrameOK(d, K, F, l),
         AtUriOf(F)
  PROVE  /\ l.file \in K /\ F.path = GetPathOfFile(l.file)
         /\ PartOf(F) \in UrisIn(d, l.file)
         /\ CanLoadFrom(d, F.path, PartOf(F)) => FileOf(F.path, PartOf(F)) \in NamedIn(d, l.file)
<1> DEFINE s == l.of.entries
<1>1. /\ ~l.clean /\ IsMap(l.of) /\ F.it \in 1 .. Len(s) /\ s[F.it].key = Uri
      /\ PartOf(F) = s[F.it].val
  BY AtUriIs
<1>2. l.file \in K /\ F.path = GetPathOfFile(l.file) /\ l.of \in PartsOf(d[l.file])
  BY <1>1 DEF FrameOK, RawOK
<1>3. IsDict(s)
  BY <1>1, <1>2, PartsAre, ChildrenAre
<1>4. F.it \in DOMAIN s
  BY <1>1, <1>3, DictShape
<1> HIDE DEF s
<1>5. HasKey(s, Uri) /\ At(s, Uri) = s[F.it].val
  BY <1>1, <1>3, <1>4, AtIs
<1>6. PartOf(F) \in UrisIn(d, l.file)
  BY <1>1, <1>2, <1>5 DEF UrisIn, s
<1> QED  BY <1>2, <1>6 DEF NamedIn
-----------------------------------------------------------------------------
LEMMA StackOf ==
  ASSUME IInv, result = Running
  PROVE  \E m : StackOK(disk, AllNamedIn(disk, {First}), stack, m) /\ Len(stack) > 0 /\ Len(stack) \in Nat
<1>1. PICK m : StackOK(disk, AllNamedIn(disk, {First}), stack, m)
  BY NamedAre DEF IInv
<1>2. stack \in Seq(Range(stack)) /\ stack # << >>
  BY <1>1 DEF IInv, StackOK
<1> QED  BY <1>1, <1>2

\* The call goes on.
LEMMA GoesOn ==
  ASSUME IInv, result = Running, disk' = disk, result' = result, Len(stack') <= MaxDepth,
         stack' # << >>, \E n : StackOK(disk, AllNamedIn(disk, {First}), stack', n)
  PROVE  IInv'
<1>1. \E n : StackOK(disk', AllNamed({First})', stack', n)
  BY NamedAre
<1>2. ResultOK'
  BY DEF ResultOK
<1>3. FailsForAReason'
  BY ReasonIs DEF Running, Failed
<1> QED  BY <1>1, <1>2, <1>3 DEF IInv

\* The call ends with the stack as it is.
LEMMA EndsHere ==
  ASSUME IInv, result = Running, disk' = disk, stack' = stack,
         result' = Overflow \/ (result' = Failed /\ ReasonIn(disk))
  PROVE  IInv'
<1>1. \E n : StackOK(disk', AllNamed({First})', stack', n)
  BY NamedAre DEF IInv
<1>2. ResultOK'
  BY DEF ResultOK
<1>3. FailsForAReason'
  BY ReasonIs DEF Overflow, Failed
<1>4. result' # Running
  BY DEF Running, Overflow, Failed
<1> QED  BY <1>1, <1>2, <1>3, <1>4 DEF IInv

LEMMA VisitStep ==
  ASSUME IInv, Visit
  PROVE  IInv'
<1> DEFINE K == AllNamedIn(disk, {First})
<1>1. /\ result = Running /\ ~AtEndOf(Last(stack)) /\ ~AtUriOf(Last(stack)) /\ disk' = disk
      /\ disk \in Disks /\ Len(stack) <= MaxDepth
  BY DEF Visit, AtEnd, AtUri, Top, IInv
<1>2. PICK m : StackOK(disk, K, stack, m) /\ Len(stack) > 0 /\ Len(stack) \in Nat
  BY <1>1, StackOf
<1>3. K \subseteq DOMAIN disk
  BY NamedClosed
<1> HIDE DEF K
<1>4. CASE IsMap(Part) \/ IsVector(Part)
  <2> DEFINE F == Frame("part", PartOf(Last(stack)), Last(stack).path)
  <2>1. Call(F, stack)
    BY <1>4 DEF Visit, Part, Top
  <2>2. \E n : StackOK(disk, K, Append(stack, F), n)
    BY <1>1, <1>2, <1>3, VisitCalls
  <2> HIDE DEF F
  <2>3. CASE Len(stack) = MaxDepth
    <3>1. result' = Overflow /\ stack' = stack
      BY <2>1, <2>3 DEF Call
    <3> QED  BY <1>1, <3>1, EndsHere
  <2>4. CASE Len(stack) # MaxDepth
    <3>1. stack' = Append(stack, F) /\ result' = result
      BY <2>1, <2>4 DEF Call
    <3>2. stack \in Seq(Range(stack))
      BY <1>2 DEF StackOK
    <3>3. Len(stack') = Len(stack) + 1 /\ stack' # << >>
      BY <3>1, <3>2, AppendIs
    <3>4. Len(stack') <= MaxDepth
      BY <1>1, <1>2, <2>4, <3>3, MaxDepthAssumption
    <3>5. \E n : StackOK(disk, AllNamedIn(disk, {First}), stack', n)
      BY <2>2, <3>1 DEF K
    <3> QED  BY <1>1, <3>1, <3>3, <3>4, <3>5, GoesOn
  <2> QED  BY <2>3, <2>4
<1>5. CASE ~IsMap(Part) /\ ~IsVector(Part)
  <2> DEFINE F == [Last(stack) EXCEPT !.it = @ + 1]
  <2>1. stack' = Append(Front(stack), F) /\ result' = result
    BY <1>5 DEF Visit, GoOnWith, Top
  <2>2. \E n : StackOK(disk, K, Append(Front(stack), F), n)
    BY <1>1, <1>2, <1>3, <1>5, VisitGoesOn DEF Part, Top
  <2> HIDE DEF F
  <2>3. stack \in Seq(Range(stack))
    BY <1>2 DEF StackOK
  <2>4. Front(stack) \in Seq(Range(Front(stack))) /\ Len(Front(stack)) = Len(stack) - 1
    BY <1>2, <2>3, FrontIs
  <2>5. Len(stack') = Len(stack) - 1 + 1 /\ stack' # << >>
    BY <2>1, <2>4, AppendIs
  <2>6. Len(stack') <= MaxDepth
    BY <1>1, <1>2, <2>5
  <2> QED  BY <1>1, <2>1, <2>2, <2>5, <2>6, GoesOn DEF K
<1> QED  BY <1>4, <1>5

LEMMA IncludeStep ==
  ASSUME IInv, Include
  PROVE  IInv'
<1> DEFINE K == AllNamedIn(disk, {First})
<1> DEFINE G == Last(stack)
<1> DEFINE file == FileOf(G.path, PartOf(G))
<1>1. /\ result = Running /\ AtUriOf(G) /\ disk' = disk
      /\ disk \in Disks /\ Len(stack) <= MaxDepth
  BY DEF Include, AtUri, Top, IInv
<1>2. PICK m : StackOK(disk, K, stack, m) /\ Len(stack) > 0 /\ Len(stack) \in Nat
  BY <1>1, StackOf
<1>3. K \subseteq DOMAIN disk /\ \A f \in K : NamedIn(disk, f) \subseteq K
  BY NamedClosed
<1> HIDE DEF K
<1> DEFINE l == Last(m)
<1>4. FrameOK(disk, K, G, l)
  BY <1>2, TopIs
<1>5. /\ l.file \in K /\ G.path = GetPathOfFile(l.file)
      /\ PartOf(G) \in UrisIn(disk, l.file)
      /\ CanLoadFrom(disk, G.path, PartOf(G)) => file \in NamedIn(disk, l.file)
  BY <1>1, <1>3, <1>4, FrameNames
<1>6. CASE CanLoadFrom(disk, G.path, PartOf(G))
  <2> DEFINE F == Frame("read", disk[file], GetPathOfFile(file))
  <2>1. Call(F, stack)
    BY <1>6 DEF Include, Part, Top, Read
  <2>2. file \in K
    BY <1>3, <1>5, <1>6
  <2>3. \E n : StackOK(disk, K, Append(stack, F), n)
    BY <1>1, <1>2, <1>3, <1>6, <2>2, IncludeCalls
  <2> HIDE DEF F
  <2>4. CASE Len(stack) = MaxDepth
    <3>1. result' = Overflow /\ stack' = stack
      BY <2>1, <2>4 DEF Call
    <3> QED  BY <1>1, <3>1, EndsHere
  <2>5. CASE Len(stack) # MaxDepth
    <3>1. stack' = Append(stack, F) /\ result' = result
      BY <2>1, <2>5 DEF Call
    <3>2. stack \in Seq(Range(stack))
      BY <1>2 DEF StackOK
    <3>3. Len(stack') = Len(stack) + 1 /\ stack' # << >>
      BY <3>1, <3>2, AppendIs
    <3>4. Len(stack') <= MaxDepth
      BY <1>1, <1>2, <2>5, <3>3, MaxDepthAssumption
    <3>5. \E n : StackOK(disk, AllNamedIn(disk, {First}), stack', n)
      BY <2>3, <3>1 DEF K
    <3> QED  BY <1>1, <3>1, <3>3, <3>4, <3>5, GoesOn
  <2> QED  BY <2>4, <2>5
<1>7. CASE ~CanLoadFrom(disk, G.path, PartOf(G))
  <2>1. result' = Failed /\ stack' = stack
    BY <1>7 DEF Include, Part, Top, Fail
  <2>2. ReasonIn(disk)
    BY <1>5, <1>7 DEF ReasonIn, K
  <2> QED  BY <1>1, <2>1, <2>2, EndsHere
<1> QED  BY <1>6, <1>7

\* A frame gives way to one of what is below the top, or of the top itself.
LEMMA Replaced ==
  ASSUME NEW t, t \in Seq(Range(t)), Len(t) < MaxDepth, NEW F
  PROVE  Len(Append(t, F)) <= MaxDepth /\ Append(t, F) # << >>
<1>1. Len(Append(t, F)) = Len(t) + 1 /\ Len(t) \in Nat
  BY AppendIs
<1> QED  BY <1>1, MaxDepthAssumption

LEMMA ReturnStep ==
  ASSUME IInv, Return
  PROVE  IInv'
<1> DEFINE K == AllNamedIn(disk, {First})
<1> DEFINE F == Last(stack)
<1> DEFINE t == Front(stack)
<1> DEFINE G == Last(t)
<1> DEFINE x == DoneOf(F)
<1>1. /\ result = Running /\ AtEndOf(F) /\ disk' = disk
      /\ disk \in Disks /\ Len(stack) <= MaxDepth
  BY DEF Return, AtEnd, Top, IInv
<1>2. PICK m : StackOK(disk, K, stack, m) /\ Len(stack) > 0 /\ Len(stack) \in Nat
  BY <1>1, StackOf
<1>3. K \subseteq DOMAIN disk /\ \A f \in K : NamedIn(disk, f) \subseteq K
  BY NamedClosed
<1>4. Done = x /\ Top = F /\ Caller = G
  BY DEF Done, DoneOf, Top, Caller
<1>5. FrameOK(disk, K, F, Last(m))
  BY <1>2, TopIs
<1>6. F.call \in {"read", "again", "part"}
  BY <1>5 DEF FrameOK, IsFrame
<1>7. stack \in Seq(Range(stack))
  BY <1>2 DEF StackOK
<1>8. t \in Seq(Range(t)) /\ Len(t) = Len(stack) - 1 /\ Len(t) < MaxDepth
  BY <1>1, <1>2, <1>7, FrontIs, MaxDepthAssumption
<1>9. ASSUME Len(stack) > 1
      PROVE  Front(t) \in Seq(Range(Front(t))) /\ Len(Front(t)) < MaxDepth
  BY <1>1, <1>2, <1>8, <1>9, FrontIs, MaxDepthAssumption
<1> HIDE DEF K, x, t, G, F
<1>10. CASE Len(stack) = 1
  <2>1. result' = Loaded(x) /\ stack' = << >>
    BY <1>4, <1>10 DEF Return
  <2>2. Proper(x) /\ x = Inlined(disk, disk[First], GetPathOfFile(First))
    BY <1>1, <1>2, <1>3, <1>10, ReturnsRoot DEF x, F
  <2>3. result' = Loaded(result'.item) /\ result'.item = x /\ result' # Running /\ result' # Failed
    BY <2>1 DEF Loaded, Running, Failed
  <2>4. ResultOK'
    BY <1>1, <2>2, <2>3 DEF ResultOK, Read
  <2>5. FailsForAReason'
    BY <2>3, ReasonIs
  <2>6. \E n : StackOK(disk', AllNamed({First})', stack', n)
    BY <2>1, NoFrames
  <2>7. Len(stack') <= MaxDepth
    BY <2>1, MaxDepthAssumption
  <2> QED  BY <1>1, <2>3, <2>4, <2>5, <2>6, <2>7 DEF IInv
<1>11. CASE Len(stack) > 1 /\ F.call = "part"
  <2> DEFINE H == WithPart(G, x)
  <2>1. stack' = Append(Front(t), H) /\ result' = result
    BY <1>4, <1>11 DEF Return, GoOnWith, t
  <2>2. \E n : StackOK(disk, K, Append(Front(t), H), n)
    BY <1>1, <1>2, <1>3, <1>11, ReturnsPart DEF F, G, t, x
  <2> HIDE DEF H
  <2>3. Len(stack') <= MaxDepth /\ stack' # << >>
    BY <1>9, <1>11, <2>1, Replaced
  <2> QED  BY <1>1, <2>1, <2>2, <2>3, GoesOn DEF K
<1>12. CASE Len(stack) > 1 /\ F.call = "read"
  <2> DEFINE H == Frame("again", x, F.path)
  <2>1. stack' = Append(t, H) /\ result' = result
    BY <1>4, <1>12 DEF Return, GoOnWith, t
  <2>2. \E n : StackOK(disk, K, Append(t, H), n)
    BY <1>1, <1>2, <1>3, <1>12, ReturnsFile DEF F, t, x
  <2> HIDE DEF H
  <2>3. Len(stack') <= MaxDepth /\ stack' # << >>
    BY <1>8, <2>1, Replaced
  <2> QED  BY <1>1, <2>1, <2>2, <2>3, GoesOn DEF K
<1>13. CASE Len(stack) > 1 /\ F.call = "again" /\ IsMap(x)
  <2> DEFINE H == WithIncluded(G, x)
  <2>1. stack' = Append(Front(t), H) /\ result' = result
    BY <1>4, <1>13 DEF Return, GoOnWith, t
  <2>2. \E n : StackOK(disk, K, Append(Front(t), H), n)
    BY <1>1, <1>2, <1>3, <1>13, ReturnsIncluded DEF F, G, t, x
  <2> HIDE DEF H
  <2>3. Len(stack') <= MaxDepth /\ stack' # << >>
    BY <1>9, <1>13, <2>1, Replaced
  <2> QED  BY <1>1, <2>1, <2>2, <2>3, GoesOn DEF K
<1>14. CASE Len(stack) > 1 /\ F.call = "again" /\ ~IsMap(x)
  <2>1. result' = Failed /\ stack' = stack
    BY <1>4, <1>14 DEF Return, Fail
  <2> DEFINE l == Last(Front(m))
  <2> DEFINE file == FileOf(G.path, PartOf(G))
  <2>2. /\ FrameOK(disk, K, G, l) /\ AtUriOf(G) /\ CanLoadFrom(disk, G.path, PartOf(G))
        /\ x.kind = disk[file].kind
    <3>1. F.call # "part"
      BY <1>14
    <3> QED  BY <1>1, <1>2, <1>3, <1>14, <3>1, FileReturned DEF F, G, t, x
  <2>3. l.file \in K /\ file \in NamedIn(disk, l.file)
    BY <1>1, <1>3, <2>2, FrameNames
  <2>4. ~IsMap(disk[file])
    BY <1>14, <2>2 DEF IsMap
  <2>5. ReasonIn(disk)
    BY <2>3, <2>4 DEF ReasonIn, K
  <2> QED  BY <1>1, <2>1, <2>5, EndsHere
<1>15. Len(stack) = 1 \/ Len(stack) > 1
  <2> DEFINE n == Len(stack)
  <2>1. n \in Nat /\ n > 0
    BY <1>2
  <2> HIDE DEF n
  <2>2. n = 1 \/ n > 1
    BY <2>1
  <2> QED  BY <2>2 DEF n
<1> QED  BY <1>6, <1>10, <1>11, <1>12, <1>13, <1>14, <1>15

LEMMA InitIInv ==
  ASSUME Init
  PROVE  IInv
<1> DEFINE K == AllNamedIn(disk, {First})
<1>1. disk \in Disks
  BY DEF Init
<1>2. K \subseteq DOMAIN disk /\ (First \in DOMAIN disk => First \in K)
  BY NamedClosed
<1>3. CASE First \in DOMAIN disk
  <2> DEFINE F == Frame("read", disk[First], GetPathOfFile(First))
  <2>1. stack = << F >> /\ result = Running
    BY <1>3 DEF Init, CanRead, Read
  <2>2. \E n : StackOK(disk, K, << F >>, n)
    BY <1>1, <1>2, <1>3, FirstCalled
  <2> HIDE DEF F
  <2>3. \E n : StackOK(disk, AllNamed({First}), stack, n)
    BY <2>1, <2>2, NamedAre
  <2>4. stack # << >> /\ Len(stack) <= MaxDepth
    BY <2>1, MaxDepthAssumption
  <2>5. ResultOK /\ FailsForAReason
    BY <2>1, ReasonIs DEF ResultOK, Running, Failed
  <2> QED  BY <1>1, <2>3, <2>4, <2>5 DEF IInv
<1>4. CASE First \notin DOMAIN disk
  <2>1. stack = << >> /\ result = Failed
    BY <1>4 DEF Init, CanRead
  <2>2. \E n : StackOK(disk, AllNamed({First}), stack, n)
    BY <2>1, NoFrames
  <2>3. Len(stack) <= MaxDepth
    BY <2>1, MaxDepthAssumption
  <2>4. ResultOK
    BY <2>1 DEF ResultOK
  <2>5. FailsForAReason
    BY <1>4, ReasonIs DEF ReasonIn
  <2>6. result # Running
    BY <2>1 DEF Running, Failed
  <2> QED  BY <1>1, <2>2, <2>3, <2>4, <2>5, <2>6 DEF IInv
<1> QED  BY <1>3, <1>4

LEMMA NextIInv ==
  ASSUME IInv, [Next]_vars
  PROVE  IInv'
<1>1. CASE Visit
  BY <1>1, VisitStep
<1>2. CASE Include
  BY <1>2, IncludeStep
<1>3. CASE Return
  BY <1>3, ReturnStep
<1>4. CASE UNCHANGED vars
  <2>1. disk' = disk /\ stack' = stack /\ result' = result
    BY <1>4 DEF vars
  <2>2. \E n : StackOK(disk', AllNamed({First})', stack', n)
    BY <2>1, NamedAre DEF IInv
  <2>3. FailsForAReason'
    <3>1. FailsForAReason
      BY DEF IInv
    <3> QED  BY <2>1, <3>1, ReasonIs
  <2>4. ResultOK'
    <3>1. ResultOK
      BY DEF IInv
    <3> QED  BY <2>1, <3>1 DEF ResultOK, Read
  <2> QED  BY <2>1, <2>2, <2>3, <2>4 DEF IInv
<1> QED  BY <1>1, <1>2, <1>3, <1>4 DEF Next, Stop

LEMMA AlwaysIInv == Spec => []IInv
<1>1. Init => IInv
  BY InitIInv
<1>2. IInv /\ [Next]_vars => IInv'
  BY NextIInv
<1> QED  BY <1>1, <1>2, PTL DEF Spec
-----------------------------------------------------------------------------
\* The keys of the maps that recursiveLoad works on stay unique, though Merged adds the
\* entries of other files while the iterator goes through them, and both the iterator
\* and the entry to erase stay in the item.
THEOREM TypesOK == Spec => []TypeOK
<1>1. ASSUME IInv  PROVE TypeOK
  <2>1. PICK m : StackOK(disk, AllNamedIn(disk, {First}), stack, m)
    BY <1>1, NamedAre DEF IInv
  <2>2. disk \in Disks /\ Len(stack) <= MaxDepth /\ ResultOK
    BY <1>1 DEF IInv
  <2>3. DOMAIN stack = 1 .. Len(stack)
    BY <2>1 DEF StackOK
  <2>4. \A i \in DOMAIN stack :
          /\ Proper(stack[i].item)
          /\ stack[i].call \in {"read", "again", "part"}
          /\ stack[i].it \in 1 .. Len(Children(stack[i].item)) + 1
          /\ stack[i].erase \in 0 .. stack[i].it - 1
    <3> TAKE i \in DOMAIN stack
    <3>1. FrameOK(disk, AllNamedIn(disk, {First}), stack[i], m[i])
      BY <2>1, <2>3 DEF StackOK
    <3>2. /\ IsFrame(stack[i]) /\ Proper(stack[i].item)
          /\ stack[i].it \in 1 .. Len(Children(stack[i].item)) + 1
          /\ stack[i].erase \in 0 .. stack[i].it - 1
      BY <2>2, <3>1, NamedClosed, AnyFrame
    <3> QED  BY <3>2 DEF IsFrame
  <2>5. result \in {Running, Failed, Overflow} \/ (result = Loaded(result.item) /\ Proper(result.item))
    BY <2>2 DEF ResultOK
  <2> QED  BY <2>2, <2>4, <2>5 DEF TypeOK
<1> QED  BY <1>1, AlwaysIInv, PTL

\* The item that fromYamlFile returns is the one that InlinedMap defines with no
\* iterator, eraseList or second call: every file stands in the place of the entry that
\* names it, and was looked for from where the file is that names it.
THEOREM LoadedIsWhatIsNamed == Spec => []LoadsWhatIsNamed
<1>1. IInv => LoadsWhatIsNamed
  BY DEF IInv, ResultOK, LoadsWhatIsNamed, Running, Failed, Overflow
<1> QED  BY <1>1, AlwaysIInv, PTL

\* The second call of recursiveLoad on an included file finds no URI in it, nor in the
\* parts that it visits from there, whatever path it is given.
THEOREM SecondCallReadsNothing == Spec => []NothingIsLoadedTwice
<1>1. ASSUME IInv  PROVE NothingIsLoadedTwice
  <2> DEFINE K == AllNamedIn(disk, {First})
  <2>1. PICK m : StackOK(disk, K, stack, m)
    BY <1>1, NamedAre DEF IInv
  <2> HIDE DEF K
  <2>2. DOMAIN stack = 1 .. Len(stack) /\ Len(stack) \in Nat
    BY <2>1 DEF StackOK
  <2>3. ASSUME NEW i \in DOMAIN stack, stack[i].call = "again"  PROVE m[i].clean
    <3>1. CASE i = 1
      <4>1. IsRoot(disk, stack[1], m[1])
        BY <2>1, <2>2 DEF StackOK
      <4> QED  BY <2>3, <3>1, <4>1 DEF IsRoot
    <3>2. CASE i # 1
      <4> DEFINE h == i - 1
      <4>1. h \in 1 .. Len(stack) - 1 /\ h + 1 = i
        BY <2>2, <3>2
      <4>2. Called(disk, stack[h], m[h], stack[h + 1], m[h + 1])
        BY <2>1, <4>1 DEF StackOK
      <4> HIDE DEF h
      <4>3. CalledForUri(disk, stack[h], m[h], stack[i], m[i])
        BY <2>3, <4>1, <4>2, CalledAs
      <4> QED  BY <2>3, <4>3 DEF CalledForUri, Label
    <3> QED  BY <3>1, <3>2
  <2>4. ASSUME NEW i \in DOMAIN stack, NEW j \in DOMAIN stack, i <= j, stack[i].call = "again"
        PROVE  ~AtUriOf(stack[j]) /\ (i < j => stack[j].call = "part")
    <3>1. m[i].clean
      BY <2>3, <2>4
    <3> QED  BY <2>1, <2>2, <2>4, <3>1, CleanAbove
  <2> QED  BY <2>4 DEF NothingIsLoadedTwice
<1> QED  BY <1>1, AlwaysIInv, PTL

\* Loading throws for nothing else than a file that cannot be read: the first one, or
\* one under the key "URI" in a file that is named by it, directly or through others, or
\* for a file so named that is no map.
THEOREM FailsOnlyForAReason == Spec => []FailsForAReason
<1>1. IInv => FailsForAReason
  BY DEF IInv
<1> QED  BY <1>1, AlwaysIInv, PTL
=============================================================================
