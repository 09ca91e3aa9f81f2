------------------------------ MODULE MCBodies ------------------------------
(***************************************************************************)
(* Small instances of Bodies.tla: two variables of the program, and a few  *)
(* addresses more.                                                         *)
(***************************************************************************)
EXTENDS Bodies, TLC

CONSTANT Places  \* the addresses of entries and elements

ASSUME PlacesAssumption == Places = Items \ Variables

\* Nothing in Bodies compares two addresses other than for equality.
AddressSymmetry == Permutations(Bodies) \cup Permutations(Places)
=============================================================================
