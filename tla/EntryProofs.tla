---------------------------- MODULE EntryProofs ----------------------------
(***************************************************************************)
(* What the operators on the entries of a map return.  Those that go       *)
(* through a sequence are reasoned about by induction over the natural     *)
(* numbers, which is proved first.                                         *)
(***************************************************************************)
EXTENDS ConfigItems, TLAPS, SequenceTheorems, WellFoundedInduction

\* A set of natural numbers has a least one.
LEMMA LeastNumber ==
  ASSUME NEW T, T \subseteq Nat, T # {}
  PROVE  \E n \in T : \A m \in T : n <= m
<1> DEFINE R == OpToRel(<, Nat)
<1>1. IsWellFoundedOn(R, Nat)
  BY NatLessThanWellFounded
<1>2. \A x, y \in Nat : y < x => << y, x >> \in R
  BY DEF OpToRel
<1> HIDE DEF R
<1>3. \E x \in T : \A y \in T : ~ (<< y, x >> \in R)
  BY <1>1, WFMin, Zenon
<1>4. PICK n \in T : \A y \in T : ~ (<< y, n >> \in R)
  BY <1>3
<1>5. \A m \in T : ~ (m < n)
  BY <1>2, <1>4
<1> QED  BY <1>5

\* So what is in a set with 0, and with the successor of each number that it has, is
\* every number: induction, with the property as a set.
LEMMA Induction ==
  ASSUME NEW T, 0 \in T, \A n \in Nat : n \in T => n + 1 \in T
  PROVE  Nat \subseteq T
<1> SUFFICES ASSUME Nat \ T # {}  PROVE FALSE
  OBVIOUS
<1>1. PICK n \in Nat \ T : \A m \in Nat \ T : n <= m
  BY LeastNumber
<1>2. n - 1 \in Nat /\ n - 1 \in T
  BY <1>1
<1> QED  BY <1>1, <1>2

\* N steps on the elements of S, and the function that takes them one after the other.
Steps(N, S) == [1 .. N -> [S -> S]]
StepFrom(f, a, step, N, S) ==
  f \in [0 .. N -> S] /\ f[0] = a /\ \A n \in 1 .. N : f[n] = step[n][f[n - 1]]

\* A function that is defined from each number to the next exists.
LEMMA StepByStep ==
  ASSUME NEW N \in Nat, NEW S, NEW a \in S, NEW step \in Steps(N, S)
  PROVE  \E f : StepFrom(f, a, step, N, S)
<1> DEFINE upTo(k, f) == f[0] = a /\ \A n \in 1 .. k : f[n] = step[n][f[n - 1]]
<1> DEFINE T == {k \in Nat : k <= N => \E f \in [0 .. k -> S] : upTo(k, f)}
<1>1. 0 \in T
  <2> DEFINE f == [n \in 0 .. 0 |-> a]
  <2>1. f \in [0 .. 0 -> S] /\ upTo(0, f)
    OBVIOUS
  <2> HIDE DEF f
  <2> QED  BY <2>1
<1>2. ASSUME NEW k \in Nat, k \in T  PROVE k + 1 \in T
  <2> SUFFICES ASSUME k + 1 <= N  PROVE \E f \in [0 .. k + 1 -> S] : upTo(k + 1, f)
    OBVIOUS
  <2>1. PICK f \in [0 .. k -> S] : upTo(k, f)
    BY <1>2
  <2> DEFINE h == [n \in 0 .. k + 1 |-> IF n = k + 1 THEN step[n][f[k]] ELSE f[n]]
  <2>2. step[k + 1][f[k]] \in S
    BY DEF Steps
  <2>3. h \in [0 .. k + 1 -> S]
    BY <2>2
  <2>4. upTo(k + 1, h)
    BY <2>1
  <2> HIDE DEF h
  <2> QED  BY <2>3, <2>4
<1> HIDE DEF T
<1>3. N \in T
  BY <1>1, <1>2, Induction
<1> QED  BY <1>3 DEF T, StepFrom

\* What NewEntries goes through.
NewSoFar(f, E, u, s) ==
  /\ f \in [0 .. Len(u) -> Seq(E)]
  /\ f[0] = << >>
  /\ \A n \in 1 .. Len(u) :
       f[n] = IF HasKey(s, u[n].key) THEN f[n - 1] ELSE Append(f[n - 1], u[n])
  /\ NewEntries(u, s) = f[Len(u)]

\* The recursive function inside NewEntries exists and unfolds.
LEMMA NewEntriesUnfolds ==
  ASSUME NEW E, NEW u \in Seq(E), NEW s
  PROVE  \E f : NewSoFar(f, E, u, s)
<1> DEFINE next(n, x) == IF HasKey(s, u[n].key) THEN x ELSE Append(x, u[n])
<1> DEFINE step == [n \in 1 .. Len(u) |-> [x \in Seq(E) |-> next(n, x)]]
<1> DEFINE g == CHOOSE f : f = [n \in 0 .. Len(u) |->
                     IF n = 0 THEN << >>
                     ELSE IF HasKey(s, u[n].key) THEN f[n - 1] ELSE Append(f[n - 1], u[n])]
<1>1. \A n \in 1 .. Len(u) : \A x \in Seq(E) : next(n, x) \in Seq(E)
  OBVIOUS
<1>2. step \in Steps(Len(u), Seq(E))
  BY <1>1 DEF Steps
<1>3. << >> \in Seq(E) /\ Len(u) \in Nat
  OBVIOUS
<1>4. NewEntries(u, s) = g[Len(u)]
  BY DEF NewEntries
<1> HIDE DEF g
<1>5. \A n \in 1 .. Len(u) : \A x \in Seq(E) : step[n][x] = next(n, x)
  OBVIOUS
<1> HIDE DEF step
<1>6. PICK f : StepFrom(f, << >>, step, Len(u), Seq(E))
  BY <1>2, <1>3, StepByStep
<1> HIDE DEF next
<1>7. f = [n \in 0 .. Len(u) |-> IF n = 0 THEN << >> ELSE next(n, f[n - 1])]
  <2>1. \A n \in 0 .. Len(u) : f[n] = IF n = 0 THEN << >> ELSE next(n, f[n - 1])
    <3>1. \A n \in 1 .. Len(u) : n - 1 \in 0 .. Len(u)
      BY <1>3
    <3>2. \A n \in 1 .. Len(u) : f[n] = next(n, f[n - 1])
      BY <1>5, <1>6, <3>1 DEF StepFrom
    <3> QED  BY <1>3, <1>6, <3>2 DEF StepFrom
  <2>2. f = [n \in 0 .. Len(u) |-> f[n]]
    BY <1>6 DEF StepFrom
  <2> QED  BY <2>1, <2>2
<1>8. g = [n \in 0 .. Len(u) |-> IF n = 0 THEN << >> ELSE next(n, g[n - 1])]
  BY <1>7, Zenon DEF g, next
<1> DEFINE T == {n \in Nat : n <= Len(u) => g[n] \in Seq(E)}
<1>9. Nat \subseteq T
  <2>1. 0 \in T
    BY <1>8
  <2>2. ASSUME NEW n \in Nat, n \in T  PROVE n + 1 \in T
    <3> SUFFICES ASSUME n + 1 <= Len(u)  PROVE g[n + 1] \in Seq(E)
      OBVIOUS
    <3>1. g[n + 1] = next(n + 1, g[n])
      BY <1>8
    <3> QED  BY <1>1, <2>2, <3>1 DEF next
  <2> HIDE DEF T
  <2> QED  BY <2>1, <2>2, Induction
<1>10. g \in [0 .. Len(u) -> Seq(E)]
  <2>1. \A n \in 0 .. Len(u) : g[n] \in Seq(E)
    BY <1>3, <1>9
  <2>2. g = [n \in 0 .. Len(u) |-> g[n]]
    BY <1>8
  <2> QED  BY <2>1, <2>2
<1>11. g[0] = << >> /\ \A n \in 1 .. Len(u) : g[n] = next(n, g[n - 1])
  BY <1>8
<1> QED  BY <1>4, <1>10, <1>11 DEF next, NewSoFar

\* The entries of a map: their keys are unique.
IsDict(s) ==
  /\ s \in Seq(Range(s))
  /\ \A i \in DOMAIN s : s[i] = Entry(s[i].key, s[i].val)
  /\ \A i, j \in DOMAIN s : s[i].key = s[j].key => i = j

\* A sequence is one of its own elements.
LEMMA IsSeqOfRange ==
  ASSUME NEW E, NEW s, s \in Seq(E)
  PROVE  s \in Seq(Range(s)) /\ Range(s) \subseteq E
<1>1. \A i \in 1 .. Len(s) : s[i] \in Range(s)
  BY DEF Range
<1>2. s \in Seq(Range(s))
  BY <1>1
<1>3. \A i \in DOMAIN s : s[i] \in E
  OBVIOUS
<1>4. Range(s) \subseteq E
  BY <1>3 DEF Range
<1> QED  BY <1>2, <1>4

\* A dictionary is a sequence.
LEMMA DictShape ==
  ASSUME NEW s, IsDict(s)
  PROVE  Len(s) \in Nat /\ DOMAIN s = 1 .. Len(s) /\ s = [i \in 1 .. Len(s) |-> s[i]]
BY DEF IsDict

\* The new entries are some of u's.
LEMMA NewEntriesAre ==
  ASSUME NEW u, IsDict(u), NEW s
  PROVE  /\ IsDict(NewEntries(u, s))
         /\ \A j \in DOMAIN NewEntries(u, s) :
              \E i \in DOMAIN u : NewEntries(u, s)[j] = u[i] /\ ~HasKey(s, u[i].key)
<1>1. u \in Seq(Range(u)) /\ Len(u) \in Nat /\ DOMAIN u = 1 .. Len(u)
  BY DEF IsDict
<1>2. PICK f : NewSoFar(f, Range(u), u, s)
  BY <1>1, NewEntriesUnfolds
<1> DEFINE some(n, x) == \A j \in 1 .. Len(x) :
                           \E i \in 1 .. n : x[j] = u[i] /\ ~HasKey(s, u[i].key)
<1> DEFINE unique(x) == \A i, j \in 1 .. Len(x) : x[i].key = x[j].key => i = j
<1> DEFINE T == {n \in Nat : n <= Len(u) => some(n, f[n]) /\ unique(f[n])}
<1>3. 0 \in T
  BY <1>2 DEF NewSoFar
<1>4. ASSUME NEW n \in Nat, n \in T  PROVE n + 1 \in T
  <2> SUFFICES ASSUME n + 1 <= Len(u)  PROVE some(n + 1, f[n + 1]) /\ unique(f[n + 1])
    OBVIOUS
  <2>1. f[n] \in Seq(Range(u)) /\ some(n, f[n]) /\ unique(f[n])
    <3>1. n \in 0 .. Len(u)
      BY <1>1
    <3>2. f[n] \in Seq(Range(u))
      BY <1>2, <3>1 DEF NewSoFar
    <3> QED  BY <1>4, <3>1, <3>2
  <2>2. f[n + 1] = IF HasKey(s, u[n + 1].key) THEN f[n] ELSE Append(f[n], u[n + 1])
    BY <1>1, <1>2 DEF NewSoFar
  <2>3. CASE HasKey(s, u[n + 1].key)
    BY <2>1, <2>2, <2>3
  <2>4. CASE ~HasKey(s, u[n + 1].key)
    <3> DEFINE x == f[n]
    <3> DEFINE y == Append(x, u[n + 1])
    <3>1. x \in Seq(Range(u)) /\ u[n + 1] \in Range(u)
      BY <1>1, <2>1 DEF Range
    <3> HIDE DEF x
    <3>2. Len(y) = Len(x) + 1 /\ y[Len(x) + 1] = u[n + 1] /\ \A j \in 1 .. Len(x) : y[j] = x[j]
      BY <3>1
    <3> HIDE DEF y
    <3>3. some(n, x) /\ unique(x) /\ Len(x) \in Nat
      BY <2>1, <3>1 DEF x
    <3>4. some(n + 1, y)
      <4>1. \A j \in 1 .. Len(x) : \E i \in 1 .. n + 1 : y[j] = u[i] /\ ~HasKey(s, u[i].key)
        BY <3>2, <3>3
      <4>2. n + 1 \in 1 .. n + 1 /\ y[Len(y)] = u[n + 1]
        BY <3>2, <3>3
      <4> QED  BY <2>4, <3>2, <3>3, <4>1, <4>2
    <3>5. \A j \in 1 .. Len(x) : x[j].key # u[n + 1].key
      <4>1. \A i \in 1 .. n : u[i].key # u[n + 1].key
        BY <1>1 DEF IsDict
      <4> QED  BY <3>3, <4>1
    <3>6. ASSUME NEW i \in 1 .. Len(y), NEW j \in 1 .. Len(y), y[i].key = y[j].key
          PROVE  i = j
      <4>1. CASE i \in 1 .. Len(x) /\ j \in 1 .. Len(x)
        <5>1. x[i].key = x[j].key
          BY <3>2, <3>6, <4>1
        <5> QED  BY <3>3, <4>1, <5>1
      <4>2. CASE i \in 1 .. Len(x) /\ j \notin 1 .. Len(x)
        <5>1. j = Len(x) + 1
          BY <3>2, <3>3, <4>2
        <5>2. x[i].key = u[n + 1].key
          BY <3>2, <3>6, <4>2, <5>1
        <5> QED  BY <3>5, <4>2, <5>2
      <4>3. CASE i \notin 1 .. Len(x) /\ j \in 1 .. Len(x)
        <5>1. i = Len(x) + 1
          BY <3>2, <3>3, <4>3
        <5>2. x[j].key = u[n + 1].key
          BY <3>2, <3>6, <4>3, <5>1
        <5> QED  BY <3>5, <4>3, <5>2
      <4>4. CASE i \notin 1 .. Len(x) /\ j \notin 1 .. Len(x)
        BY <3>2, <3>3, <4>4
      <4> QED  BY <4>1, <4>2, <4>3, <4>4
    <3>7. f[n + 1] = y
      BY <2>2, <2>4 DEF x, y
    <3> QED  BY <3>4, <3>6, <3>7
  <2> QED  BY <2>3, <2>4
<1> HIDE DEF T
<1>5. Len(u) \in T
  BY <1>1, <1>3, <1>4, Induction
<1> DEFINE new == NewEntries(u, s)
<1>6. new \in Seq(Range(u)) /\ some(Len(u), new) /\ unique(new)
  BY <1>1, <1>2, <1>5 DEF T, NewSoFar
<1> HIDE DEF new
<1>7. DOMAIN new = 1 .. Len(new) /\ new \in Seq(Range(new))
  BY <1>6, IsSeqOfRange
<1>8. ASSUME NEW j \in DOMAIN new  PROVE new[j] = Entry(new[j].key, new[j].val)
  <2>1. PICK i \in 1 .. Len(u) : new[j] = u[i]
    BY <1>6, <1>7
  <2>2. u[i] = Entry(u[i].key, u[i].val)
    BY <1>1 DEF IsDict
  <2> QED  BY <2>1, <2>2
<1>9. IsDict(new)
  BY <1>6, <1>7, <1>8 DEF IsDict
<1> QED  BY <1>1, <1>6, <1>7, <1>9 DEF new

\* All of u's entries are new but for those whose keys are in s.
LEMMA AllNewEntries ==
  ASSUME NEW u, IsDict(u), NEW s
  PROVE  \A i \in DOMAIN u :
           HasKey(s, u[i].key) \/ \E j \in DOMAIN NewEntries(u, s) : NewEntries(u, s)[j] = u[i]
<1>1. u \in Seq(Range(u)) /\ Len(u) \in Nat /\ DOMAIN u = 1 .. Len(u)
  BY DEF IsDict
<1>2. PICK f : NewSoFar(f, Range(u), u, s)
  BY <1>1, NewEntriesUnfolds
<1> DEFINE in(i, x) == HasKey(s, u[i].key) \/ \E j \in 1 .. Len(x) : x[j] = u[i]
<1> DEFINE T == {n \in Nat : n <= Len(u) => \A i \in 1 .. n : in(i, f[n])}
<1>3. 0 \in T
  OBVIOUS
<1>4. ASSUME NEW n \in Nat, n \in T  PROVE n + 1 \in T
  <2> SUFFICES ASSUME n + 1 <= Len(u), NEW i \in 1 .. n + 1  PROVE in(i, f[n + 1])
    OBVIOUS
  <2>1. n \in 0 .. Len(u) /\ \A l \in 1 .. n : in(l, f[n])
    BY <1>1, <1>4
  <2>2. f[n] \in Seq(Range(u)) /\ u[n + 1] \in Range(u)
    <3>1. f[n] \in Seq(Range(u))
      BY <1>2, <2>1 DEF NewSoFar
    <3>2. n + 1 \in DOMAIN u
      BY <1>1
    <3> QED  BY <3>1, <3>2 DEF Range
  <2>3. f[n + 1] = IF HasKey(s, u[n + 1].key) THEN f[n] ELSE Append(f[n], u[n + 1])
    BY <1>1, <1>2 DEF NewSoFar
  <2>4. i \in 1 .. n \/ i = n + 1
    OBVIOUS
  <2>5. CASE HasKey(s, u[n + 1].key)
    BY <2>1, <2>3, <2>4, <2>5
  <2>6. CASE ~HasKey(s, u[n + 1].key)
    <3> DEFINE x == f[n]
    <3> DEFINE y == f[n + 1]
    <3>1. /\ Len(x) \in Nat /\ Len(y) = Len(x) + 1 /\ y[Len(x) + 1] = u[n + 1]
          /\ \A j \in 1 .. Len(x) : y[j] = x[j]
      BY <2>2, <2>3, <2>6
    <3> HIDE DEF x, y
    <3>2. ASSUME NEW j \in 1 .. Len(x)  PROVE j \in 1 .. Len(y) /\ y[j] = x[j]
      BY <3>1
    <3>3. Len(x) + 1 \in 1 .. Len(y)
      BY <3>1
    <3>4. i \in 1 .. n => in(i, x)
      BY <2>1 DEF x
    <3>5. in(i, y)
      BY <2>4, <3>1, <3>2, <3>3, <3>4
    <3> QED  BY <3>5 DEF y
  <2> QED  BY <2>5, <2>6
<1> HIDE DEF T
<1>5. Len(u) \in T
  BY <1>1, <1>3, <1>4, Induction
<1>6. NewEntries(u, s) = f[Len(u)]
  BY <1>2 DEF NewSoFar
<1>7. DOMAIN NewEntries(u, s) = 1 .. Len(NewEntries(u, s))
  BY NewEntriesAre, DictShape
<1> QED  BY <1>1, <1>5, <1>6, <1>7 DEF T

\* Of no entries none is new.
LEMMA NothingNew ==
  ASSUME NEW s
  PROVE  NewEntries(<< >>, s) = << >>
<1>1. << >> \in Seq({}) /\ Len(<< >>) = 0
  OBVIOUS
<1>2. PICK f : NewSoFar(f, {}, << >>, s)
  BY <1>1, NewEntriesUnfolds
<1> QED  BY <1>1, <1>2 DEF NewSoFar

\* Which entries are new depends on nothing but the keys that are there.
LEMMA NewToTheSameKeys ==
  ASSUME NEW u, IsDict(u), NEW s, NEW r, \A i \in DOMAIN u : HasKey(s, u[i].key) <=> HasKey(r, u[i].key)
  PROVE  NewEntries(u, s) = NewEntries(u, r)
<1>1. u \in Seq(Range(u)) /\ Len(u) \in Nat /\ DOMAIN u = 1 .. Len(u)
  BY DEF IsDict
<1>2. PICK f : NewSoFar(f, Range(u), u, s)
  BY <1>1, NewEntriesUnfolds
<1>3. PICK g : NewSoFar(g, Range(u), u, r)
  BY <1>1, NewEntriesUnfolds
<1> DEFINE T == {n \in Nat : n <= Len(u) => f[n] = g[n]}
<1>4. 0 \in T
  BY <1>2, <1>3 DEF NewSoFar
<1>5. ASSUME NEW n \in Nat, n \in T  PROVE n + 1 \in T
  <2> SUFFICES ASSUME n + 1 <= Len(u)  PROVE f[n + 1] = g[n + 1]
    OBVIOUS
  <2>1. f[n] = g[n]
    BY <1>1, <1>5
  <2>2. f[n + 1] = IF HasKey(s, u[n + 1].key) THEN f[n] ELSE Append(f[n], u[n + 1])
    BY <1>1, <1>2 DEF NewSoFar
  <2>3. g[n + 1] = IF HasKey(r, u[n + 1].key) THEN g[n] ELSE Append(g[n], u[n + 1])
    BY <1>1, <1>3 DEF NewSoFar
  <2>4. HasKey(s, u[n + 1].key) <=> HasKey(r, u[n + 1].key)
    BY <1>1
  <2> QED  BY <2>1, <2>2, <2>3, <2>4
<1> HIDE DEF T
<1>6. Len(u) \in T
  BY <1>1, <1>4, <1>5, Induction
<1> QED  BY <1>1, <1>2, <1>3, <1>6 DEF T, NewSoFar

\* What Merged goes through.
MergedSoFar(f, E, u, s) ==
  /\ f \in [0 .. Len(u) -> Seq(E)]
  /\ f[0] = s
  /\ \A n \in 1 .. Len(u) : f[n] = Store(f[n - 1], u[n].key, u[n].val)
  /\ Merged(s, u) = f[Len(u)]

\* A store adds no element but the new entry.
LEMMA StoreKeeps ==
  ASSUME NEW E, NEW x, x \in Seq(E), NEW k, NEW v, Entry(k, v) \in E
  PROVE  Store(x, k, v) \in Seq(E)
<1>1. CASE HasKey(x, k)
  <2> DEFINE y == [i \in DOMAIN x |-> IF x[i].key = k THEN Entry(k, v) ELSE x[i]]
  <2>1. y \in Seq(E)
    OBVIOUS
  <2> QED  BY <1>1, <2>1 DEF Store
<1>2. CASE ~HasKey(x, k)
  BY <1>2 DEF Store
<1> QED  BY <1>1, <1>2

\* The recursive function inside Merged exists and unfolds.
LEMMA MergedUnfolds ==
  ASSUME NEW E, NEW u \in Seq(E), NEW s \in Seq(E),
         \A n \in 1 .. Len(u) : Entry(u[n].key, u[n].val) \in E
  PROVE  \E f : MergedSoFar(f, E, u, s)
<1> DEFINE next(n, x) == Store(x, u[n].key, u[n].val)
<1> DEFINE step == [n \in 1 .. Len(u) |-> [x \in Seq(E) |-> next(n, x)]]
<1> DEFINE g == CHOOSE f : f = [n \in 0 .. Len(u) |->
                     IF n = 0 THEN s ELSE Store(f[n - 1], u[n].key, u[n].val)]
<1>1. \A n \in 1 .. Len(u) : \A x \in Seq(E) : next(n, x) \in Seq(E)
  BY StoreKeeps
<1>2. step \in Steps(Len(u), Seq(E))
  BY <1>1 DEF Steps
<1>3. s \in Seq(E) /\ Len(u) \in Nat
  OBVIOUS
<1>4. Merged(s, u) = g[Len(u)]
  BY DEF Merged
<1> HIDE DEF g
<1>5. \A n \in 1 .. Len(u) : \A x \in Seq(E) : step[n][x] = next(n, x)
  OBVIOUS
<1> HIDE DEF step
<1>6. PICK f : StepFrom(f, s, step, Len(u), Seq(E))
  BY <1>2, <1>3, StepByStep
<1> HIDE DEF next
<1>7. f = [n \in 0 .. Len(u) |-> IF n = 0 THEN s ELSE next(n, f[n - 1])]
  <2>1. \A n \in 0 .. Len(u) : f[n] = IF n = 0 THEN s ELSE next(n, f[n - 1])
    <3>1. \A n \in 1 .. Len(u) : n - 1 \in 0 .. Len(u)
      BY <1>3
    <3>2. \A n \in 1 .. Len(u) : f[n] = next(n, f[n - 1])
      BY <1>5, <1>6, <3>1 DEF StepFrom
    <3> QED  BY <1>3, <1>6, <3>2 DEF StepFrom
  <2>2. f = [n \in 0 .. Len(u) |-> f[n]]
    BY <1>6 DEF StepFrom
  <2> QED  BY <2>1, <2>2
<1>8. g = [n \in 0 .. Len(u) |-> IF n = 0 THEN s ELSE next(n, g[n - 1])]
  BY <1>7, Zenon DEF g, next
<1> DEFINE T == {n \in Nat : n <= Len(u) => g[n] \in Seq(E)}
<1>9. Nat \subseteq T
  <2>1. 0 \in T
    BY <1>8
  <2>2. ASSUME NEW n \in Nat, n \in T  PROVE n + 1 \in T
    <3> SUFFICES ASSUME n + 1 <= Len(u)  PROVE g[n + 1] \in Seq(E)
      OBVIOUS
    <3>1. g[n + 1] = next(n + 1, g[n])
      BY <1>8
    <3> QED  BY <1>1, <2>2, <3>1
  <2> HIDE DEF T
  <2> QED  BY <2>1, <2>2, Induction
<1>10. g \in [0 .. Len(u) -> Seq(E)]
  <2>1. \A n \in 0 .. Len(u) : g[n] \in Seq(E)
    BY <1>3, <1>9
  <2>2. g = [n \in 0 .. Len(u) |-> g[n]]
    BY <1>8
  <2> QED  BY <2>1, <2>2
<1>11. g[0] = s /\ \A n \in 1 .. Len(u) : g[n] = next(n, g[n - 1])
  BY <1>8
<1> QED  BY <1>4, <1>10, <1>11 DEF next, MergedSoFar

\* The first n entries of u put into s: those of s with their keys get their values, and
\* the new ones follow.
MergedFirst(m, new, n, u, s) ==
  /\ m \in Seq(Range(m)) /\ Len(m) = Len(s) + Len(new)
  /\ \A j \in 1 .. Len(s) :
       /\ m[j] = Entry(s[j].key, m[j].val)
       /\ \A i \in 1 .. n : u[i].key = s[j].key => m[j].val = u[i].val
       /\ (\A i \in 1 .. n : u[i].key # s[j].key) => m[j].val = s[j].val
  /\ \A j \in 1 .. Len(new) :
       m[Len(s) + j] = new[j] /\ \E i \in 1 .. n : new[j] = u[i]

\* A turn of append with a key that the target has.
LEMMA StoreOver ==
  ASSUME NEW s, IsDict(s), NEW u, IsDict(u), NEW n \in Nat, n + 1 <= Len(u),
         NEW m, NEW new, new \in Seq(Range(u)), MergedFirst(m, new, n, u, s),
         HasKey(s, u[n + 1].key)
  PROVE  MergedFirst(Store(m, u[n + 1].key, u[n + 1].val), new, n + 1, u, s)
<1> DEFINE k == u[n + 1].key
<1> DEFINE v == u[n + 1].val
<1> DEFINE x == [i \in DOMAIN m |-> IF m[i].key = k THEN Entry(k, v) ELSE m[i]]
<1>1. /\ Len(s) \in Nat /\ DOMAIN s = 1 .. Len(s)
      /\ Len(u) \in Nat /\ DOMAIN u = 1 .. Len(u)
      /\ Len(new) \in Nat
  BY DEF IsDict
<1>2. /\ Len(m) = Len(s) + Len(new) /\ DOMAIN m = 1 .. Len(m)
      /\ m \in Seq(Range(m))
  BY DEF MergedFirst
<1>3. PICK j \in 1 .. Len(s) : s[j].key = k
  BY <1>1 DEF HasKey
<1>4. m[j].key = k
  <2>1. m[j] = Entry(s[j].key, m[j].val)
    BY DEF MergedFirst
  <2> QED  BY <1>3, <2>1 DEF Entry
<1>5. Store(m, k, v) = x
  <2>1. HasKey(m, k)
    BY <1>1, <1>2, <1>4 DEF HasKey
  <2> QED  BY <2>1 DEF Store
<1>6. Len(x) = Len(m) /\ x \in Seq(Range(m) \cup {Entry(k, v)}) /\ DOMAIN x = DOMAIN m
  BY <1>2
<1>7. x \in Seq(Range(x))
  BY <1>6, IsSeqOfRange
<1>8. \A i \in 1 .. Len(m) : x[i] = IF m[i].key = k THEN Entry(k, v) ELSE m[i]
  BY <1>2
<1> HIDE DEF x
<1>9. ASSUME NEW i \in 1 .. Len(s)
      PROVE  /\ x[i] = Entry(s[i].key, x[i].val)
             /\ \A l \in 1 .. n + 1 : u[l].key = s[i].key => x[i].val = u[l].val
             /\ (\A l \in 1 .. n + 1 : u[l].key # s[i].key) => x[i].val = s[i].val
  <2>1. /\ m[i] = Entry(s[i].key, m[i].val)
        /\ \A l \in 1 .. n : u[l].key = s[i].key => m[i].val = u[l].val
        /\ (\A l \in 1 .. n : u[l].key # s[i].key) => m[i].val = s[i].val
    BY DEF MergedFirst
  <2>2. m[i].key = s[i].key
    BY <2>1 DEF Entry
  <2>3. i \in 1 .. Len(m)
    BY <1>1, <1>2
  <2>4. CASE s[i].key = k
    <3>1. x[i] = Entry(k, v)
      BY <1>8, <2>2, <2>3, <2>4
    <3>2. x[i].val = v
      BY <3>1 DEF Entry
    <3>3. ASSUME NEW l \in 1 .. n  PROVE u[l].key # k
      <4>1. l \in DOMAIN u /\ n + 1 \in DOMAIN u /\ l # n + 1
        BY <1>1
      <4> QED  BY <4>1 DEF IsDict
    <3>4. n + 1 \in 1 .. n + 1
      OBVIOUS
    <3> QED  BY <2>4, <3>1, <3>2, <3>3, <3>4
  <2>5. CASE s[i].key # k
    <3>1. x[i] = m[i]
      BY <1>8, <2>2, <2>3, <2>5
    <3>2. \A l \in 1 .. n + 1 : l \in 1 .. n \/ l = n + 1
      OBVIOUS
    <3> QED  BY <2>1, <2>5, <3>1, <3>2
  <2> QED  BY <2>4, <2>5
<1>10. ASSUME NEW i \in 1 .. Len(new)
       PROVE  x[Len(s) + i] = new[i] /\ \E l \in 1 .. n + 1 : new[i] = u[l]
  <2>1. m[Len(s) + i] = new[i]
    BY DEF MergedFirst
  <2>2. PICK l \in 1 .. n : new[i] = u[l]
    BY DEF MergedFirst
  <2>3. u[l].key # k
    BY <1>1 DEF IsDict
  <2>4. Len(s) + i \in 1 .. Len(m)
    BY <1>1, <1>2
  <2>5. x[Len(s) + i] = new[i]
    BY <1>8, <2>1, <2>2, <2>3, <2>4
  <2> QED  BY <2>2, <2>5
<1> QED  BY <1>2, <1>5, <1>6, <1>7, <1>9, <1>10 DEF MergedFirst

\* A turn of append with a key that the target has not.
LEMMA StoreBehind ==
  ASSUME NEW s, IsDict(s), NEW u, IsDict(u), NEW n \in Nat, n + 1 <= Len(u),
         NEW m, NEW new, new \in Seq(Range(u)), MergedFirst(m, new, n, u, s),
         ~HasKey(s, u[n + 1].key)
  PROVE  MergedFirst(Store(m, u[n + 1].key, u[n + 1].val), Append(new, u[n + 1]), n + 1, u, s)
<1> DEFINE e == u[n + 1]
<1>1. /\ Len(s) \in Nat /\ DOMAIN s = 1 .. Len(s)
      /\ Len(u) \in Nat /\ DOMAIN u = 1 .. Len(u)
      /\ Len(new) \in Nat
  BY DEF IsDict
<1>2. /\ Len(m) = Len(s) + Len(new) /\ DOMAIN m = 1 .. Len(m)
      /\ m \in Seq(Range(m))
  BY DEF MergedFirst
<1>3. \A j \in 1 .. Len(m) : m[j].key # e.key
  <2>1. ASSUME NEW j \in 1 .. Len(s)  PROVE m[j].key # e.key
    <3>1. m[j] = Entry(s[j].key, m[j].val)
      BY DEF MergedFirst
    <3>2. m[j].key = s[j].key
      BY <3>1 DEF Entry
    <3> QED  BY <1>1, <3>2 DEF HasKey
  <2>2. ASSUME NEW j \in 1 .. Len(new)  PROVE m[Len(s) + j].key # e.key
    <3>1. PICK l \in 1 .. n : m[Len(s) + j] = u[l]
      BY DEF MergedFirst
    <3>2. l \in DOMAIN u /\ n + 1 \in DOMAIN u /\ l # n + 1
      BY <1>1
    <3> QED  BY <3>1, <3>2 DEF IsDict
  <2>3. \A j \in 1 .. Len(m) : j \in 1 .. Len(s) \/ (j - Len(s) \in 1 .. Len(new) /\ j = Len(s) + (j - Len(s)))
    BY <1>1, <1>2
  <2> QED  BY <2>1, <2>2, <2>3
<1>4. Entry(e.key, e.val) = e
  BY <1>1 DEF IsDict
<1> DEFINE x == Append(m, e)
<1>5. Store(m, e.key, e.val) = x
  <2>1. ~HasKey(m, e.key)
    BY <1>2, <1>3 DEF HasKey
  <2> QED  BY <1>4, <2>1 DEF Store
<1>6. x \in Seq(Range(m) \cup {e}) /\ Len(x) = Len(m) + 1 /\ x[Len(m) + 1] = e
      /\ \A j \in 1 .. Len(m) : x[j] = m[j]
  BY <1>2
<1> HIDE DEF x
<1>7. x \in Seq(Range(x))
  BY <1>6, IsSeqOfRange
<1> DEFINE y == Append(new, e)
<1>8. Len(y) = Len(new) + 1 /\ y[Len(new) + 1] = e /\ \A j \in 1 .. Len(new) : y[j] = new[j]
  OBVIOUS
<1> HIDE DEF y
<1>9. \A j \in 1 .. Len(s) : x[j] = m[j] /\ s[j].key # e.key
  <2>1. \A j \in 1 .. Len(s) : j \in 1 .. Len(m)
    BY <1>1, <1>2
  <2>2. \A j \in 1 .. Len(s) : s[j].key # e.key
    BY <1>1 DEF HasKey
  <2> QED  BY <1>6, <2>1, <2>2
<1>10. \A l \in 1 .. n + 1 : l \in 1 .. n \/ u[l] = e
  OBVIOUS
<1>11. \A l \in 1 .. n : l \in 1 .. n + 1
  OBVIOUS
<1> HIDE DEF e
<1>12. \A j \in 1 .. Len(s) :
         /\ x[j] = Entry(s[j].key, x[j].val)
         /\ \A l \in 1 .. n + 1 : u[l].key = s[j].key => x[j].val = u[l].val
         /\ (\A l \in 1 .. n + 1 : u[l].key # s[j].key) => x[j].val = s[j].val
  BY <1>9, <1>10 DEF MergedFirst
<1>13. ASSUME NEW j \in 1 .. Len(y)
       PROVE  x[Len(s) + j] = y[j] /\ \E l \in 1 .. n + 1 : y[j] = u[l]
  <2>1. CASE j \in 1 .. Len(new)
    <3>1. m[Len(s) + j] = new[j] /\ \E l \in 1 .. n : new[j] = u[l]
      BY <2>1 DEF MergedFirst
    <3>2. Len(s) + j \in 1 .. Len(m)
      BY <1>1, <1>2, <2>1
    <3> QED  BY <1>6, <1>8, <2>1, <3>1, <3>2
  <2>2. CASE j = Len(new) + 1
    <3>1. Len(s) + j = Len(m) + 1
      BY <1>1, <1>2, <2>2
    <3>2. n + 1 \in 1 .. n + 1 /\ u[n + 1] = e
      BY DEF e
    <3> QED  BY <1>6, <1>8, <2>2, <3>1, <3>2
  <2> QED  BY <1>1, <1>8, <2>1, <2>2
<1>14. Len(x) = Len(s) + Len(y)
  BY <1>1, <1>2, <1>6, <1>8
<1>15. MergedFirst(x, y, n + 1, u, s)
  BY <1>7, <1>12, <1>13, <1>14 DEF MergedFirst
<1> QED  BY <1>5, <1>15 DEF y, e

\* After all turns of append, the loop is where Merged is.
LEMMA MergedGoesThrough ==
  ASSUME NEW s, IsDict(s), NEW u, IsDict(u)
  PROVE  MergedFirst(Merged(s, u), NewEntries(u, s), Len(u), u, s)
<1> DEFINE E == Range(s) \cup Range(u)
<1>1. /\ u \in Seq(Range(u)) /\ Len(u) \in Nat /\ DOMAIN u = 1 .. Len(u)
      /\ s \in Seq(Range(s)) /\ Len(s) \in Nat /\ DOMAIN s = 1 .. Len(s)
  BY DEF IsDict
<1>2. u \in Seq(E) /\ s \in Seq(E)
  BY <1>1
<1>3. \A n \in 1 .. Len(u) : Entry(u[n].key, u[n].val) \in E
  BY <1>1 DEF IsDict, Range
<1> HIDE DEF E
<1>4. PICK f : MergedSoFar(f, E, u, s)
  BY <1>2, <1>3, MergedUnfolds
<1>5. PICK g : NewSoFar(g, Range(u), u, s)
  BY <1>1, NewEntriesUnfolds
<1> DEFINE T == {n \in Nat : n <= Len(u) => MergedFirst(f[n], g[n], n, u, s)}
<1>6. 0 \in T
  <2>1. f[0] = s /\ g[0] = << >>
    BY <1>4, <1>5 DEF MergedSoFar, NewSoFar
  <2>2. \A j \in 1 .. Len(s) : s[j] = Entry(s[j].key, s[j].val)
    BY <1>1 DEF IsDict
  <2>3. MergedFirst(s, << >>, 0, u, s)
    BY <1>1, <2>2 DEF MergedFirst
  <2> QED  BY <2>1, <2>3
<1>7. ASSUME NEW n \in Nat, n \in T  PROVE n + 1 \in T
  <2> SUFFICES ASSUME n + 1 <= Len(u)  PROVE MergedFirst(f[n + 1], g[n + 1], n + 1, u, s)
    OBVIOUS
  <2>1. MergedFirst(f[n], g[n], n, u, s)
    BY <1>1, <1>7
  <2>2. n \in 0 .. Len(u) /\ n + 1 \in 1 .. Len(u) /\ (n + 1) - 1 = n
    BY <1>1
  <2>3. f[n + 1] = Store(f[n], u[n + 1].key, u[n + 1].val)
    BY <1>4, <2>2 DEF MergedSoFar
  <2>4. g[n + 1] = IF HasKey(s, u[n + 1].key) THEN g[n] ELSE Append(g[n], u[n + 1])
    BY <1>5, <2>2 DEF NewSoFar
  <2>5. g[n] \in Seq(Range(u))
    BY <1>5, <2>2 DEF NewSoFar
  <2> QED  BY <2>1, <2>3, <2>4, <2>5, StoreOver, StoreBehind
<1> HIDE DEF T
<1>8. Len(u) \in T
  BY <1>1, <1>6, <1>7, Induction
<1>9. Merged(s, u) = f[Len(u)] /\ NewEntries(u, s) = g[Len(u)]
  BY <1>4, <1>5 DEF MergedSoFar, NewSoFar
<1> QED  BY <1>1, <1>8, <1>9 DEF T

\* The value under the key of an entry is that of the entry, as keys are unique.
LEMMA AtIs ==
  ASSUME NEW s, IsDict(s), NEW i \in DOMAIN s
  PROVE  HasKey(s, s[i].key) /\ At(s, s[i].key) = s[i].val
<1> DEFINE first(j) == s[j].key = s[i].key /\ \A l \in 1 .. j - 1 : s[l].key # s[i].key
<1> DEFINE c == CHOOSE j \in DOMAIN s : first(j)
<1>1. DOMAIN s = 1 .. Len(s) /\ Len(s) \in Nat
  BY DictShape
<1>2. first(i)
  BY <1>1 DEF IsDict
<1>3. c \in DOMAIN s /\ first(c)
  BY <1>2
<1>4. c = i
  BY <1>3 DEF IsDict
<1> HIDE DEF c
<1> QED  BY <1>4 DEF HasKey, At, c

\* What merging makes of each entry: the values are u's where u has the key, and the new
\* entries follow.
LEMMA MergedIs ==
  ASSUME NEW s, IsDict(s), NEW u, IsDict(u)
  PROVE  LET m == Merged(s, u)
             new == NewEntries(u, s)
         IN  /\ IsDict(m)
             /\ Len(m) = Len(s) + Len(new)
             /\ \A j \in 1 .. Len(s) :
                  m[j] = Entry(s[j].key,
                               IF HasKey(u, s[j].key) THEN At(u, s[j].key) ELSE s[j].val)
             /\ \A j \in 1 .. Len(new) : m[Len(s) + j] = new[j]
<1> DEFINE m == Merged(s, u)
<1> DEFINE new == NewEntries(u, s)
<1>1. MergedFirst(m, new, Len(u), u, s)
  BY MergedGoesThrough
<1>2. IsDict(new) /\ \A j \in DOMAIN new : \E i \in DOMAIN u : new[j] = u[i] /\ ~HasKey(s, u[i].key)
  BY NewEntriesAre
<1> HIDE DEF m, new
<1>3. /\ Len(u) \in Nat /\ DOMAIN u = 1 .. Len(u)
      /\ Len(s) \in Nat /\ DOMAIN s = 1 .. Len(s)
      /\ Len(new) \in Nat /\ DOMAIN new = 1 .. Len(new)
  BY <1>2, DictShape
<1>4. /\ m \in Seq(Range(m)) /\ Len(m) = Len(s) + Len(new) /\ DOMAIN m = 1 .. Len(m)
      /\ \A j \in 1 .. Len(new) : m[Len(s) + j] = new[j]
  BY <1>1 DEF MergedFirst
<1>5. ASSUME NEW j \in 1 .. Len(s)
      PROVE  m[j] = Entry(s[j].key, IF HasKey(u, s[j].key) THEN At(u, s[j].key) ELSE s[j].val)
  <2>1. /\ m[j] = Entry(s[j].key, m[j].val)
        /\ \A i \in 1 .. Len(u) : u[i].key = s[j].key => m[j].val = u[i].val
        /\ (\A i \in 1 .. Len(u) : u[i].key # s[j].key) => m[j].val = s[j].val
    BY <1>1 DEF MergedFirst
  <2>2. CASE HasKey(u, s[j].key)
    <3>1. PICK i \in 1 .. Len(u) : u[i].key = s[j].key
      BY <1>3, <2>2 DEF HasKey
    <3>2. At(u, s[j].key) = u[i].val
      BY <1>3, <3>1, AtIs
    <3> QED  BY <2>1, <2>2, <3>1, <3>2
  <2>3. CASE ~HasKey(u, s[j].key)
    <3>1. \A i \in 1 .. Len(u) : u[i].key # s[j].key
      BY <1>3, <2>3 DEF HasKey
    <3> QED  BY <2>1, <2>3, <3>1
  <2> QED  BY <2>2, <2>3
<1>6. ASSUME NEW j \in 1 .. Len(s)  PROVE m[j].key = s[j].key
  <2>1. m[j] = Entry(s[j].key, m[j].val)
    BY <1>1 DEF MergedFirst
  <2> QED  BY <2>1 DEF Entry
<1>7. \A j \in DOMAIN m :
        j \in 1 .. Len(s) \/ (j - Len(s) \in 1 .. Len(new) /\ j = Len(s) + (j - Len(s)))
  BY <1>3, <1>4
<1>8. \A j \in DOMAIN m : m[j] = Entry(m[j].key, m[j].val)
  <2>1. \A j \in 1 .. Len(s) : m[j] = Entry(m[j].key, m[j].val)
    BY <1>1, <1>6 DEF MergedFirst
  <2>2. \A j \in 1 .. Len(new) : new[j] = Entry(new[j].key, new[j].val)
    BY <1>2, <1>3 DEF IsDict
  <2> QED  BY <1>4, <1>7, <2>1, <2>2
<1>9. \A i, j \in DOMAIN m : m[i].key = m[j].key => i = j
  <2>1. \A i \in 1 .. Len(s), j \in 1 .. Len(new) : s[i].key # new[j].key
    BY <1>2, <1>3 DEF HasKey
  <2>2. \A i, j \in 1 .. Len(s) : s[i].key = s[j].key => i = j
    BY <1>3 DEF IsDict
  <2>3. \A i, j \in 1 .. Len(new) : new[i].key = new[j].key => i = j
    BY <1>2, <1>3 DEF IsDict
  <2>4. \A j \in 1 .. Len(new) : m[Len(s) + j].key = new[j].key
    BY <1>4
  <2> SUFFICES ASSUME NEW i \in DOMAIN m, NEW j \in DOMAIN m, m[i].key = m[j].key
               PROVE  i = j
    OBVIOUS
  <2>5. CASE i \in 1 .. Len(s) /\ j \in 1 .. Len(s)
    BY <1>6, <2>2, <2>5
  <2>6. CASE i \in 1 .. Len(s) /\ j \notin 1 .. Len(s)
    BY <1>6, <1>7, <2>1, <2>4, <2>6
  <2>7. CASE i \notin 1 .. Len(s) /\ j \in 1 .. Len(s)
    BY <1>6, <1>7, <2>1, <2>4, <2>7
  <2>8. CASE i \notin 1 .. Len(s) /\ j \notin 1 .. Len(s)
    <3>1. i - Len(s) = j - Len(s)
      BY <1>7, <2>3, <2>4, <2>8
    <3> QED  BY <1>3, <1>7, <2>8, <3>1
  <2> QED  BY <2>5, <2>6, <2>7, <2>8
<1> QED  BY <1>4, <1>5, <1>8, <1>9 DEF IsDict, m, new

\* What cutting one entry leaves, in which places.
LEMMA CutIs ==
  ASSUME NEW E, NEW s, s \in Seq(E), NEW p \in 1 .. Len(s)
  PROVE  /\ Cut(s, p, p + 1) \in Seq(E) /\ Len(Cut(s, p, p + 1)) = Len(s) - 1
         /\ \A j \in 1 .. Len(s) - 1 :
              Cut(s, p, p + 1)[j] = IF j < p THEN s[j] ELSE s[j + 1]
<1> DEFINE a == SubSeq(s, 1, p - 1)
<1> DEFINE b == SubSeq(s, p + 1, Len(s))
<1>1. a \in Seq(E) /\ Len(a) = p - 1 /\ \A j \in 1 .. p - 1 : a[j] = s[j]
  OBVIOUS
<1>2. b \in Seq(E) /\ Len(b) = Len(s) - p /\ \A j \in 1 .. Len(s) - p : b[j] = s[p + j]
  OBVIOUS
<1> HIDE DEF a, b
<1> DEFINE c == a \o b
<1>3. /\ c \in Seq(E) /\ Len(c) = Len(a) + Len(b)
      /\ \A j \in 1 .. Len(a) + Len(b) : c[j] = IF j <= Len(a) THEN a[j] ELSE b[j - Len(a)]
  <2>1. a \in Seq(E) /\ b \in Seq(E)
    BY <1>1, <1>2
  <2> QED  BY <2>1, ConcatProperties
<1> HIDE DEF c
<1>4. \A j \in 1 .. Len(s) - 1 : c[j] = IF j < p THEN s[j] ELSE s[j + 1]
  <2> TAKE j \in 1 .. Len(s) - 1
  <2>1. Len(c) = Len(s) - 1
    BY <1>1, <1>2, <1>3
  <2>2. CASE j < p
    <3>1. j <= Len(a) /\ j \in 1 .. p - 1 /\ j \in 1 .. Len(a) + Len(b)
      BY <1>1, <1>2, <2>2
    <3>2. c[j] = a[j]
      BY <1>3, <3>1
    <3> QED  BY <1>1, <2>2, <3>1, <3>2
  <2>3. CASE ~(j < p)
    <3>1. j - (p - 1) \in 1 .. Len(s) - p /\ p + (j - (p - 1)) = j + 1
      BY <2>3
    <3>2. Len(a) = p - 1 /\ ~(j <= Len(a)) /\ j \in 1 .. Len(a) + Len(b)
      BY <1>1, <1>3, <2>1, <2>3
    <3>3. c[j] = b[j - Len(a)]
      BY <1>3, <3>2
    <3>4. c[j] = b[j - (p - 1)]
      BY <3>2, <3>3
    <3>5. b[j - (p - 1)] = s[p + (j - (p - 1))]
      BY <1>2, <3>1
    <3> QED  BY <2>3, <3>1, <3>4, <3>5
  <2> QED  BY <2>2, <2>3
<1>5. Len(c) = Len(s) - 1
  BY <1>1, <1>2, <1>3
<1> QED  BY <1>3, <1>4, <1>5 DEF Cut, a, b, c

\* Cutting an entry keeps the keys unique.
LEMMA CutKeepsDict ==
  ASSUME NEW s, IsDict(s), NEW p \in 1 .. Len(s)
  PROVE  IsDict(Cut(s, p, p + 1))
<1> DEFINE c == Cut(s, p, p + 1)
<1>1. s \in Seq(Range(s)) /\ Len(s) \in Nat /\ DOMAIN s = 1 .. Len(s)
  BY DEF IsDict
<1>2. /\ c \in Seq(Range(s)) /\ Len(c) = Len(s) - 1
      /\ \A j \in 1 .. Len(s) - 1 : c[j] = IF j < p THEN s[j] ELSE s[j + 1]
  BY <1>1, CutIs
<1> HIDE DEF c
<1>3. c \in Seq(Range(c)) /\ DOMAIN c = 1 .. Len(s) - 1
  BY <1>2, IsSeqOfRange
<1> DEFINE at(j) == IF j < p THEN j ELSE j + 1
<1>4. \A j \in DOMAIN c : at(j) \in DOMAIN s /\ c[j] = s[at(j)]
  BY <1>1, <1>2, <1>3
<1>5. \A i, j \in DOMAIN c : at(i) = at(j) => i = j
  BY <1>1, <1>3
<1> HIDE DEF at
<1> QED  BY <1>3, <1>4, <1>5 DEF IsDict, c
=============================================================================
