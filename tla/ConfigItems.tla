---------------------------- MODULE ConfigItems ----------------------------
(***************************************************************************)
(* The tree of a configuration: a ConfigItem holds nothing yet, an atom, a *)
(* ConfigVector or a ConfigMap (ConfigItem.hpp).  Nearly every access to   *)
(* an item may change what it holds, so each operator here gives the item  *)
(* that an access leaves; an access that throws is the negation of its     *)
(* "Is" or "Has" condition.                                                *)
(***************************************************************************)
EXTENDS Dicts, SequencesExt

None == [kind |-> "none"]
Atom(a) == [kind |-> "atom", atom |-> a]
Vector(s) == [kind |-> "vector", items |-> s]
Map(s) == [kind |-> "map", entries |-> s]

IsNone(x) == x.kind = "none"
IsAtom(x) == x.kind = "atom"
IsVector(x) == x.kind = "vector"
IsMap(x) == x.kind = "map"

KeysOf(s) == [i \in DOMAIN s |-> s[i].key]

\* The entries or elements of an item, in their order.
Children(x) ==
  CASE IsMap(x) -> [i \in DOMAIN x.entries |-> x.entries[i].val]
    [] IsVector(x) -> x.items
    [] OTHER -> << >>

\* Fault: the key is not looked up before it is added.
WithKeyTwice(s, k) == Append(s, Entry(k, None))

\* ConfigMap::operator[]: the item of k, created empty when it is missing.
ItemAt(s, k) == IF HasKey(s, k) THEN At(s, k) ELSE None
WithKey(s, k) == IF HasKey(s, k) THEN s ELSE Append(s, Entry(k, None))

\* operator ConfigMap&, endMap, find, hasKey, beginMap: an empty item becomes a
\* map; an atom or a vector throws.
CanBeMap(x) == IsNone(x) \/ IsMap(x)
AsMap(x) == IF IsNone(x) THEN Map(<< >>) ELSE x

\* Fault: what the item held is not put into its vector.
AsEmptyVector(x) == IF IsVector(x) THEN x ELSE Vector(<< >>)

\* getOrCreateVector: an atom, or a map, becomes the first element of a vector.
AsVector(x) ==
  CASE IsNone(x) -> Vector(<< >>)
    [] IsVector(x) -> x
    [] OTHER -> Vector(<< x >>)

\* Fault: the entries are appended whether their keys are there or not.
MergedTwice(s, u) == s \o u

\* Fault: the entries that are there already stay.
MergedBehind(s, u) ==
  LET with[n \in 0 .. Len(u)] ==
        IF n = 0 THEN s
        ELSE IF HasKey(with[n - 1], u[n].key) THEN with[n - 1] ELSE Append(with[n - 1], u[n])
  IN  with[Len(u)]

\* append of u's entries, one after the other: they take the place of those with the
\* same key.
Merged(s, u) ==
  LET with[n \in 0 .. Len(u)] ==
        IF n = 0 THEN s ELSE Store(with[n - 1], u[n].key, u[n].val)
  IN  with[Len(u)]

\* Those of the entries u whose keys are not in s, in their order.
NewEntries(u, s) ==
  LET new[n \in 0 .. Len(u)] ==
        IF n = 0 THEN << >>
        ELSE IF HasKey(s, u[n].key) THEN new[n - 1] ELSE Append(new[n - 1], u[n])
  IN  new[Len(u)]
=============================================================================
