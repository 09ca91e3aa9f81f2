---------------------------- MODULE MCConfigAtom ----------------------------
(***************************************************************************)
(* Small instances of ConfigAtom.tla: a text of every kind, some with white*)
(* space around them, the numbers 0 and 1 that are also truth values, and  *)
(* one more.                                                               *)
(***************************************************************************)
EXTENDS ConfigAtom

SomeTexts == {Text("int", 1), Text("int", 2), Text("real", 9), Text("real", 10), Text("real", 12),
              Text("bool", 1), Text("Bool", 1), Text("bool", 0), Text("word", 0),
              Text("empty", 0)}
             \cup {[Text(kind, 1) EXCEPT !.padded = TRUE] : kind \in {"int", "Bool", "word", "empty"}}
SomeNumbers == {0, 1, 3}
=============================================================================
