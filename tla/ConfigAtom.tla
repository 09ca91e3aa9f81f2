----------------------------- MODULE ConfigAtom -----------------------------
(***************************************************************************)
(* The life of one ConfigAtom: it is assigned, read as one type or another,*)
(* tested for a type (which ConfigSchema does), saved and loaded again.    *)
(* given remembers what was last put into it, as the client would say it:  *)
(* a value of a type, or a text; tested, whether it was tested since.      *)
(***************************************************************************)
EXTENDS AtomOps

CONSTANTS Texts,    \* the texts a client or a file puts into an atom
          Numbers   \* the numbers a client assigns, and those left in memory

AnyText ==
  {text \in [kind : Kinds, num : Nat, padded : BOOLEAN] : IsBool(text) => text.num \in {0, 1}}

ASSUME TextsAssumption == Texts \subseteq AnyText
ASSUME NumbersAssumption == Numbers \subseteq Nat

VARIABLES atom, given, tested

vars == << atom, given, tested >>

\* The fields hold values of their types, and the type of an atom is fixed only
\* together with its value.
TypeOK ==
  /\ atom \in [text : AnyText, num : [Fields -> Nat], parsed : BOOLEAN, type : ItemTypes]
  /\ tested \in BOOLEAN
  /\ given.as \in AtomTypes \cup {"TEXT"}
  /\ given.val \in IF given.as \in {"TEXT", "STRING"} THEN AnyText ELSE Nat
  /\ atom.type # "UNDEFINED" => atom.parsed

Given(as, val) == [as |-> as, val |-> val]

\* The values a setter of type t is given.
Domain(t) ==
  CASE t = "STRING" -> Texts
    [] t = "BOOL" -> {0, 1}
    [] OTHER -> Numbers

Init ==
  /\ \/ /\ atom = NewAtom
        /\ given = Given("TEXT", NewAtom.text)
     \/ \E text \in Texts, garbage \in Numbers :
          /\ atom = Loaded(text, garbage)
          /\ given = Given("TEXT", text)
  /\ tested = FALSE

Assign(t, v) ==
  /\ atom' = Set(atom, t, v)
  /\ given' = Given(t, v)
  /\ tested' = FALSE

AssignText(text) ==
  /\ atom' = SetUnparsed(atom, text)
  /\ given' = Given("TEXT", text)
  /\ tested' = FALSE

Read(t) ==
  /\ Readable(atom, t)
  /\ atom' = Get(atom, t)
  /\ UNCHANGED << given, tested >>

Probe(t) ==
  /\ atom' = Test(atom, t)
  /\ tested' = TRUE
  /\ UNCHANGED given

\* Saved to a file and loaded from it.  What is saved of an atom that has a type
\* is the value it has as that type, of a double its first digits.
Saved(a) ==
  IF a.type = "DOUBLE" THEN SixDigits(Value(a, "DOUBLE")) ELSE Value(a, a.type)

Reload(text) ==
  /\ \E garbage \in Numbers : atom' = Loaded(text, garbage)
  /\ given' = IF atom.type = "UNDEFINED" THEN given
              ELSE Given(atom.type, Saved(atom))
  /\ tested' = FALSE

ReloadYaml == Reload(ToText(atom))
ReloadJson == Reload(ToJson(atom))

Next ==
  \/ \E t \in AtomTypes : Read(t) \/ Probe(t) \/ \E v \in Domain(t) : Assign(t, v)
  \/ \E text \in Texts : AssignText(text)
  \/ ReloadYaml
  \/ ReloadJson

Spec == Init /\ [][Next]_vars
-----------------------------------------------------------------------------
\* What may have become of a text: a JSON file does not keep how a boolean text was
\* spelled, and whoever reads or tests the atom as a bool strips the white space.
Spellings(text) ==
  [kind : IF IsBool(text) THEN {"bool", "Bool"} ELSE {text.kind},
   num : {text.num},
   padded : {text.padded, FALSE}]

\* The values that count as what was given, read as type t: none when the text
\* does not denote a value of that type.
Meaning(g, t) ==
  CASE g.as = t /\ t # "STRING" -> {g.val}
    [] g.as \in {"TEXT", "STRING"} /\ t = "STRING" -> Spellings(g.val)
    [] g.as = "TEXT" /\ t = "BOOL" /\ IsBool(g.val) -> {g.val.num}
    [] g.as = "TEXT" /\ t = "DOUBLE" /\ IsNumeric(g.val) -> {Sixths(g.val)}
    [] g.as = "TEXT" /\ t \in {"INT", "UINT", "ULONG"} /\ g.val.kind = "int" -> {g.val.num}
    [] OTHER -> {}

\* A read that does not throw returns what was given, when that denotes a value of
\* the type asked for: not a number of an earlier content, nor one that was never
\* scanned; and this survives saving and loading (getInt .. getBool, toString).
ReadsWhatWasGiven ==
  \A t \in AtomTypes :
    Readable(atom, t) /\ Meaning(given, t) # {} =>
      Value(Get(atom, t), t) \in Meaning(given, t)

\* So it is as long as nobody asks testType, in whatever order the atom is
\* assigned, read as several types, saved and loaded.
UntestedReads == ~tested => ReadsWhatWasGiven

\* Once a read has fixed the type, reads and tests change nothing: the answers a
\* client gets do not depend on who else looks at the atom.
TypeIsSticky ==
  [][(\E t \in AtomTypes : Read(t) \/ Probe(t)) /\ atom.type # "UNDEFINED"
     => UNCHANGED atom]_vars

\* A test that says yes, followed by a read of that type, gets what was given, no
\* matter what the atom was tested for before: validate_constraints relies on it.
TestThenRead ==
  \A t \in AtomTypes :
    atom.type = "UNDEFINED" /\ HasType(atom, t) /\ Meaning(given, t) # {} =>
      Value(Get(Test(atom, t), t), t) \in Meaning(given, t)
=============================================================================
