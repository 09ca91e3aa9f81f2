------------------------------- MODULE Dicts -------------------------------
(***************************************************************************)
(* A dictionary that remembers insertion order, as the sequence of its     *)
(* entries: what a FIFOMap is to its users (OrderedDict.tla), and what a   *)
(* ConfigMap is in ConfigItems.tla.                                        *)
(***************************************************************************)
EXTENDS Naturals, Sequences

Entry(k, v) == [key |-> k, val |-> v]

HasKey(s, k) == \E i \in DOMAIN s : s[i].key = k

\* The value of the first entry of k.
At(s, k) ==
  s[CHOOSE i \in DOMAIN s : s[i].key = k /\ \A j \in 1 .. i - 1 : s[j].key # k].val

\* The entry of k gets the value v, at the place it has or at the end.
Store(s, k, v) ==
  IF HasKey(s, k)
  THEN [i \in DOMAIN s |-> IF s[i].key = k THEN Entry(k, v) ELSE s[i]]
  ELSE Append(s, Entry(k, v))

\* s without the elements at the positions first .. last - 1.
Cut(s, first, last) == SubSeq(s, 1, first - 1) \o SubSeq(s, last, Len(s))
=============================================================================
