---------------------------- MODULE MCConfigTree ----------------------------
(***************************************************************************)
(* Small instances of ConfigTree.tla: two keys, two texts, updates and     *)
(* files of a few shapes, and trees of a few items.                        *)
(***************************************************************************)
EXTENDS ConfigTree, TLC

CONSTANTS k1, k2, v1, v2

OneEntry(k, x) == Map(<< Entry(k, x) >>)

\* A scalar, a map and both below a key that may hold either already.
SomeUpdates ==
  {OneEntry(k1, Atom(v2)), OneEntry(k1, OneEntry(k2, Atom(v2))),
   Map(<< Entry(k2, OneEntry(k1, Atom(v2))), Entry(k1, Map(<< >>)) >>)}

ReverseOrder == << k2, k1 >>

\* A null and a key that is given twice, with a null before and another value after;
\* a null that cannot be loaded.
SomeYamlFiles ==
  {Mapping(<< Entry(k1, Null), Entry(k2, Null), Entry(k1, Scalar(v1)), Entry(k1, Scalar(v2)) >>),
   Mapping(<< Entry(k1, Sequence(<< Null >>)) >>),
   Sequence(<< Mapping(<< Entry(k2, Null) >>), Scalar(Empty) >>)}

\* Nulls under a key and in an array.
SomeJsonFiles ==
  {Object(k1 :> Null @@ k2 :> Array(<< Null, Boolean(TRUE) >>)),
   Object(k1 :> String(v2) @@ k2 :> Null)}

\* Four texts, of which the program assigns two.
SomeTexts == {"", "true", "false", "TRUE"}
=============================================================================
