------------------------------ MODULE AtomOps ------------------------------
(***************************************************************************)
(* The operations of a ConfigAtom (ConfigAtom.hpp) as functions from an    *)
(* atom to the atom they leave.  An atom holds a text (sValue), a number   *)
(* in each of four fields, the type that was fixed for it, and whether the *)
(* text has been scanned (parsed).                                         *)
(*                                                                         *)
(* A double is counted in sixths, of which std::to_string writes halves, as*)
(* it writes six digits: 21 stands for 3.5, and 22 for a number so little  *)
(* larger that it is written 3.500000 too.  A text is the kind of thing    *)
(* written in it and the number written: "int" 3, "real" 3.5 as a person   *)
(* writes it and "fixed" 3.500000 as std::to_string does, "bool" true or   *)
(* false, "Bool" the same capitalised, a "word", or "empty"; padded, with  *)
(* white space around it.  Numbers are not negative and fit every field.   *)
(***************************************************************************)
EXTENDS Integers

AtomTypes == {"INT", "UINT", "DOUBLE", "ULONG", "STRING", "BOOL"}
ItemTypes == AtomTypes \cup {"UNDEFINED"}
Fields == {"i", "u", "d", "lu"}

\* The field that holds the value of an atom of type t; a bool shares that of int.
Field(t) ==
  CASE t \in {"INT", "BOOL"} -> "i"
    [] t = "UINT" -> "u"
    [] t = "DOUBLE" -> "d"
    [] t = "ULONG" -> "lu"

Text(kind, num) == [kind |-> kind, num |-> num, padded |-> FALSE]
Kinds == {"int", "real", "fixed", "bool", "Bool", "word", "empty"}

Trim(text) == Text(text.kind, text.num)

IsNumeric(text) == text.kind \in {"int", "real", "fixed"}
IsBool(text) == text.kind \in {"bool", "Bool"}
Sixths(text) == IF text.kind = "int" THEN 6 * text.num ELSE text.num
SixDigits(n) == 3 * ((n + 1) \div 3)

\* What sscanf stores: %lf the whole number, %d, %u and %lu its leading digits.
Scan(text, t) == IF t = "DOUBLE" THEN Sixths(text) ELSE Sixths(text) \div 6

\* parseInt .. parseBool, called while the type is undefined.  A scan that finds
\* no number leaves the field alone; of an empty text sscanf returns EOF, which
\* is not zero and counts as parsed.  parseBool trims the text.
Trimmed(a, t) == IF t = "BOOL" THEN [a EXCEPT !.text = Trim(@)] ELSE a

Parse(a, t) ==
  LET b == Trimmed(a, t)
  IN  CASE t = "STRING" -> [b EXCEPT !.parsed = TRUE]
        [] t = "BOOL" /\ IsBool(a.text) -> [b EXCEPT !.parsed = TRUE, !.num["i"] = a.text.num]
        [] t # "STRING" /\ IsNumeric(a.text) ->
             [b EXCEPT !.parsed = TRUE, !.num[Field(t)] = Scan(a.text, t)]
        [] OTHER -> [b EXCEPT !.parsed = a.text.kind = "empty"]

\* Fault: a text that was scanned as one type is not scanned as another.
TestOnce(a, t) == IF a.type = "UNDEFINED" /\ ~a.parsed THEN Parse(a, t) ELSE a

\* testType(t): the atom it leaves, and its answer.
Test(a, t) == IF a.type = "UNDEFINED" THEN Parse(a, t) ELSE a
HasType(a, t) == IF a.type = "UNDEFINED" THEN Parse(a, t).parsed ELSE a.type = t

\* Fault: the type is not looked at.
AnyReadable(a, t) == TRUE

\* getInt .. getBool throw for an atom of another type; else the type is fixed by
\* the first read that scans the text, or that finds it scanned.
Readable(a, t) == a.type \in {"UNDEFINED", t}

Get(a, t) ==
  LET b == IF a.parsed THEN a ELSE Parse(a, t)
  IN  IF b.parsed THEN [b EXCEPT !.type = t] ELSE b

Truth(n) == IF n = 0 THEN 0 ELSE 1

\* What the getter returns, of the atom it leaves.
Value(a, t) ==
  CASE t = "STRING" -> a.text
    [] t = "BOOL" -> Truth(a.num["i"])
    [] OTHER -> a.num[Field(t)]

\* Faults: parsed is not set; it is not reset.
SetUnscanned(a, t, v) ==
  IF t = "STRING" THEN [a EXCEPT !.text = v, !.type = t]
  ELSE [a EXCEPT !.num[Field(t)] = v, !.type = t]

SetUnparsedLate(a, text) == [a EXCEPT !.text = text, !.type = "UNDEFINED"]

\* setInt .. setBool, setUnparsedString.
Set(a, t, v) ==
  IF t = "STRING" THEN [a EXCEPT !.text = v, !.parsed = TRUE, !.type = t]
  ELSE [a EXCEPT !.num[Field(t)] = v, !.parsed = TRUE, !.type = t]

SetUnparsed(a, text) == [a EXCEPT !.text = text, !.parsed = FALSE, !.type = "UNDEFINED"]

\* ConfigAtom(): every field zero.  The constructors from a YAML node and from a
\* JSON value initialise no field: their numbers are what was in the memory.
NewAtom == [text |-> Text("empty", 0), num |-> [f \in Fields |-> 0],
            parsed |-> FALSE, type |-> "UNDEFINED"]

Loaded(text, garbage) ==
  SetUnparsed([NewAtom EXCEPT !.num = [f \in Fields |-> garbage]], text)

\* toString, and what of it a JSON file keeps: true, True and TRUE become true.
ToText(a) ==
  CASE a.type \in {"UNDEFINED", "STRING"} -> a.text
    [] a.type = "BOOL" -> Text("bool", Truth(a.num["i"]))
    [] a.type = "DOUBLE" -> Text("fixed", SixDigits(a.num["d"]))
    [] OTHER -> Text("int", a.num[Field(a.type)])

ToJson(a) ==
  LET s == ToText(a)
  IN  IF IsBool(s) /\ ~s.padded THEN Text("bool", s.num) ELSE s
=============================================================================
