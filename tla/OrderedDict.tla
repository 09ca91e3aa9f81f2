---------------------------- MODULE OrderedDict ----------------------------
(***************************************************************************)
(* What a FIFOMap promises its users: a dictionary that remembers the      *)
(* order in which its keys were first inserted.  A dictionary is the       *)
(* sequence of its entries, oldest key first.  A store never moves the     *)
(* entry of a key it finds, a new key goes to the end, and an erase leaves *)
(* the order of the other entries alone.                                   *)
(*                                                                         *)
(* This is the specification that FIFOMap.tla, with its search tree, its   *)
(* order list and the references between them, is shown to implement.      *)
(***************************************************************************)
EXTENDS Dicts

CONSTANTS Maps,   \* the map objects of a program
          Keys,
          Vals

VARIABLE dict     \* dict[m] is the sequence of entries of map m

Entries == [key : Keys, val : Vals]

\* Dictionaries are sequences of entries.
TypeOK == dict \in [Maps -> Seq(Entries)]

Init == dict = [m \in Maps |-> << >>]

Put(m, k, v) == dict' = [dict EXCEPT ![m] = Store(@, k, v)]

Remove(m, first, last) ==
  /\ first < last
  /\ dict' = [dict EXCEPT ![m] = Cut(@, first, last)]

Copy(m, n) == dict' = [dict EXCEPT ![m] = dict[n]]

Exchange(m, n) == dict' = [dict EXCEPT ![m] = dict[n], ![n] = dict[m]]

Empty(m) == dict' = [dict EXCEPT ![m] = << >>]

Next ==
  \E m \in Maps :
    \/ \E k \in Keys, v \in Vals : Put(m, k, v)
    \/ \E first \in 1 .. Len(dict[m]), last \in 1 .. Len(dict[m]) + 1 :
         Remove(m, first, last)
    \/ \E n \in Maps : Copy(m, n) \/ Exchange(m, n)
    \/ Empty(m)

Spec == Init /\ [][Next]_dict
=============================================================================
