-------------------------- MODULE ConfigAtomProofs --------------------------
(***************************************************************************)
(* What ConfigAtom.tla says of an atom, proved for all texts and numbers.  *)
(*                                                                         *)
(* An atom of no type yet has the text that stands for what was given      *)
(* (Kept), and while nobody tests it, it is not marked as parsed           *)
(* (Unscanned): so a read scans the text.                                  *)
(***************************************************************************)
EXTENDS ConfigAtom, TLAPS

Atoms == [text : AnyText, num : [Fields -> Nat], parsed : BOOLEAN, type : ItemTypes]

\* The text has a value as t, and which.
Denotes(text, t) ==
  \/ t = "STRING"
  \/ IsNumeric(text)
  \/ t = "BOOL" /\ IsBool(text)

ValueOf(text, t) ==
  CASE t = "STRING" -> text
    [] t = "BOOL" /\ IsBool(text) -> Truth(text.num)
    [] t = "BOOL" /\ ~IsBool(text) -> Truth(Scan(text, "BOOL"))
    [] OTHER -> Scan(text, t)

\* The text stands for what was given.
StandsFor(text, g) ==
  /\ g.as \in {"TEXT", "STRING"} => text \in Spellings(g.val)
  /\ g.as = "BOOL" => g.val \in {0, 1} /\ text = Text("bool", g.val)
  /\ g.as = "DOUBLE" => text = Text("fixed", g.val)
  /\ g.as \in {"INT", "UINT", "ULONG"} => text = Text("int", g.val)

Kept == atom.type = "UNDEFINED" => StandsFor(atom.text, given)
Unscanned == ~tested /\ atom.type = "UNDEFINED" => ~atom.parsed
TypedReads == ~tested /\ atom.type # "UNDEFINED" => ReadsWhatWasGiven

IInv == TypeOK /\ Kept /\ Unscanned /\ TypedReads
-----------------------------------------------------------------------------
LEMMA WholeSixths == \A n \in Nat : (6 * n) \div 6 = n
<1> QED  BY SMT

LEMMA SixDigitsNat == \A n \in Nat : SixDigits(n) \in Nat
<1> QED  BY SMT DEF SixDigits

LEMMA FieldType == \A t \in AtomTypes \ {"STRING"} : Field(t) \in Fields
<1> QED  BY DEF AtomTypes, Field, Fields

LEMMA TruthType == \A n \in Nat : Truth(n) \in {0, 1}
<1> QED  BY DEF Truth

LEMMA ScanType ==
  ASSUME NEW text \in AnyText, NEW t \in AtomTypes
  PROVE  Scan(text, t) \in Nat
<1>1. text.num \in Nat
  BY DEF AnyText
<1>2. Sixths(text) \in Nat
  BY <1>1 DEF Sixths
<1>3. \A n \in Nat : n \div 6 \in Nat
  BY SMT
<1> QED  BY <1>2, <1>3 DEF Scan

LEMMA TrimType ==
  ASSUME NEW text \in AnyText
  PROVE  /\ Trim(text) \in AnyText
         /\ Trim(text) = [kind |-> text.kind, num |-> text.num, padded |-> FALSE]
<1>1. /\ text \in [kind : Kinds, num : Nat, padded : BOOLEAN]
      /\ IsBool(text) => text.num \in {0, 1}
  BY DEF AnyText
<1>2. Trim(text) = [kind |-> text.kind, num |-> text.num, padded |-> FALSE]
  BY DEF Trim, Text
<1> QED  BY <1>1, <1>2 DEF AnyText, IsBool

LEMMA SpellingsOf == \A s \in AnyText : s \in Spellings(s)
<1> SUFFICES ASSUME NEW s \in AnyText PROVE s \in Spellings(s)
  OBVIOUS
<1>1. s = [kind |-> s.kind, num |-> s.num, padded |-> s.padded]
  BY DEF AnyText
<1> QED  BY <1>1 DEF Spellings, IsBool

LEMMA SpellingsType ==
  ASSUME NEW s \in AnyText, NEW text \in Spellings(s)
  PROVE  /\ text.num = s.num
         /\ IsBool(text) <=> IsBool(s)
         /\ ~IsBool(s) => text.kind = s.kind
         /\ Trim(text) \in Spellings(s)
         /\ IsBool(s) => Text("bool", text.num) \in Spellings(s)
<1>1. Trim(text) = [kind |-> text.kind, num |-> text.num, padded |-> FALSE]
  BY DEF Trim, Text
<1> QED  BY <1>1 DEF Spellings, IsBool, Text

\* White space does not change what a text stands for.
LEMMA StandsForTrimmed ==
  ASSUME NEW text \in AnyText, NEW g,
         g.as \in AtomTypes \cup {"TEXT"},
         g.val \in IF g.as \in {"TEXT", "STRING"} THEN AnyText ELSE Nat,
         StandsFor(text, g)
  PROVE  StandsFor(Trim(text), g)
<1>1. CASE g.as \in {"TEXT", "STRING"}
  BY <1>1, SpellingsType DEF StandsFor
<1>2. CASE g.as \notin {"TEXT", "STRING"}
  <2>1. text = Text(text.kind, text.num) => Trim(text) = text
    BY TrimType DEF Text
  <2>2. text = Text(text.kind, text.num)
    BY <1>2 DEF StandsFor, Text, AtomTypes
  <2> QED  BY <2>1, <2>2
<1> QED  BY <1>1, <1>2

LEMMA TrimmedType ==
  ASSUME NEW a \in Atoms, NEW t \in AtomTypes
  PROVE  /\ Trimmed(a, t) \in Atoms
         /\ Trimmed(a, t).num = a.num
         /\ Trimmed(a, t).type = a.type
         /\ Trimmed(a, t).text \in {a.text, Trim(a.text)}
         /\ t # "BOOL" => Trimmed(a, t) = a
<1>1. a.text \in AnyText /\ Trim(a.text) \in AnyText
  BY TrimType DEF Atoms
<1>2. PICK s : s = Trim(a.text)
  OBVIOUS
<1>3. CASE t = "BOOL"
  <2>1. Trimmed(a, t) = [a EXCEPT !.text = s]
    BY <1>2, <1>3 DEF Trimmed
  <2> QED  BY <1>1, <1>2, <1>3, <2>1 DEF Atoms
<1>4. CASE t # "BOOL"
  BY <1>4 DEF Trimmed
<1> QED  BY <1>3, <1>4

\* parse.. keeps text and type, but for white space; a text that has a value is scanned.
LEMMA ParseLemma ==
  ASSUME NEW a \in Atoms, NEW t \in AtomTypes
  PROVE  /\ Parse(a, t) \in Atoms
         /\ Parse(a, t).text \in {a.text, Trim(a.text)}
         /\ Parse(a, t).type = a.type
         /\ Denotes(a.text, t) =>
              Parse(a, t).parsed /\ Value(Parse(a, t), t) = ValueOf(a.text, t)
<1> DEFINE p == Parse(a, t)
<1>0. PICK b \in Atoms : /\ b = Trimmed(a, t)
                         /\ b.num = a.num
                         /\ b.type = a.type
                         /\ b.text \in {a.text, Trim(a.text)}
                         /\ t # "BOOL" => b = a
  BY TrimmedType
<1>1. CASE t = "STRING"
  <2>1. p = [b EXCEPT !.parsed = TRUE]
    BY <1>0, <1>1 DEF Parse
  <2> QED  BY <1>0, <1>1, <2>1 DEF Atoms, Value, ValueOf
<1>2. CASE t = "BOOL" /\ IsBool(a.text)
  <2>0. ~IsNumeric(a.text)
    BY <1>2 DEF IsNumeric, IsBool
  <2>1. p = [b EXCEPT !.parsed = TRUE, !.num["i"] = a.text.num]
    BY <1>0, <1>2, <2>0, Zenon DEF Parse
  <2>2. p = [b EXCEPT !.parsed = TRUE, !.num = [b.num EXCEPT !["i"] = a.text.num]]
    BY <2>1, Zenon DEF Atoms
  <2>3. b.num \in [Fields -> Nat] /\ a.text.num \in Nat /\ "i" \in Fields
    BY DEF Atoms, AnyText, Fields
  <2>4. [b.num EXCEPT !["i"] = a.text.num] \in [Fields -> Nat]
    BY <2>3
  <2>5. p \in Atoms /\ p.text = b.text /\ p.type = b.type /\ p.parsed /\ p.num["i"] = a.text.num
    <3>1. p.num = [b.num EXCEPT !["i"] = a.text.num] /\ p.text = b.text /\ p.type = b.type
          /\ p.parsed
      BY <2>2 DEF Atoms
    <3>2. p \in Atoms
      BY <2>2, <2>4 DEF Atoms
    <3>3. p.num["i"] = a.text.num
      BY <3>1, <2>3
    <3> QED  BY <3>1, <3>2, <3>3
  <2> QED  BY <1>0, <1>2, <2>5 DEF Value, ValueOf, Field
<1>3. CASE t # "STRING" /\ IsNumeric(a.text)
  <2>0. ~IsBool(a.text)
    BY <1>3 DEF IsNumeric, IsBool
  <2>1. p = [b EXCEPT !.parsed = TRUE, !.num[Field(t)] = Scan(a.text, t)]
    BY <1>0, <1>3, <2>0 DEF Parse
  <2>2. p = [b EXCEPT !.parsed = TRUE, !.num = [b.num EXCEPT ![Field(t)] = Scan(a.text, t)]]
    BY <2>1, Zenon DEF Atoms
  <2>3. b.num \in [Fields -> Nat] /\ Scan(a.text, t) \in Nat /\ Field(t) \in Fields
    BY <1>3, ScanType, FieldType DEF Atoms
  <2>4. [b.num EXCEPT ![Field(t)] = Scan(a.text, t)] \in [Fields -> Nat]
    BY <2>3
  <2>5. p \in Atoms /\ p.text = b.text /\ p.type = b.type /\ p.parsed
        /\ p.num[Field(t)] = Scan(a.text, t)
    <3>1. p.num = [b.num EXCEPT ![Field(t)] = Scan(a.text, t)] /\ p.text = b.text
          /\ p.type = b.type /\ p.parsed
      BY <2>2 DEF Atoms
    <3>2. p \in Atoms
      BY <2>2, <2>4 DEF Atoms
    <3>3. p.num[Field(t)] = Scan(a.text, t)
      BY <3>1, <2>3
    <3> QED  BY <3>1, <3>2, <3>3
  <2>6. CASE t = "BOOL"
    BY <1>0, <2>0, <2>5, <2>6 DEF Value, ValueOf, Field
  <2>7. CASE t # "BOOL"
    BY <1>0, <1>3, <2>5, <2>7 DEF Value, ValueOf
  <2> QED  BY <1>0, <2>5, <2>6, <2>7
<1>4. CASE t # "STRING" /\ ~IsNumeric(a.text) /\ ~(t = "BOOL" /\ IsBool(a.text))
  <2>1. p = [b EXCEPT !.parsed = a.text.kind = "empty"]
    BY <1>0, <1>4 DEF Parse
  <2> QED  BY <1>0, <1>4, <2>1 DEF Atoms, Denotes
<1> QED  BY <1>1, <1>2, <1>3, <1>4

\* A read of an atom that nobody scanned, and one that follows a test of the same type,
\* return what the text denotes.
LEMMA FreshRead ==
  ASSUME NEW a \in Atoms, NEW t \in AtomTypes, a.type = "UNDEFINED", Denotes(a.text, t)
  PROVE  /\ ~a.parsed => Value(Get(a, t), t) = ValueOf(a.text, t)
         /\ Value(Get(Test(a, t), t), t) = ValueOf(a.text, t)
<1> DEFINE p == Parse(a, t)
<1>1. p \in Atoms /\ p.parsed /\ Value(p, t) = ValueOf(a.text, t)
  BY ParseLemma
<1>2. Value([p EXCEPT !.type = t], t) = Value(p, t)
  BY <1>1 DEF Value, Atoms
<1>3. ~a.parsed => Get(a, t) = [p EXCEPT !.type = t]
  BY <1>1 DEF Get
<1>4. Test(a, t) = p
  BY DEF Test
<1>5. Get(p, t) = [p EXCEPT !.type = t]
  BY <1>1 DEF Get
<1> QED  BY <1>1, <1>2, <1>3, <1>4, <1>5

\* What counts as what was given is what the text for it denotes.
LEMMA MeaningOfText ==
  ASSUME NEW text \in AnyText, NEW g, NEW t \in AtomTypes,
         g.as \in AtomTypes \cup {"TEXT"},
         g.val \in IF g.as \in {"TEXT", "STRING"} THEN AnyText ELSE Nat,
         StandsFor(text, g), Meaning(g, t) # {}
  PROVE  Denotes(text, t) /\ ValueOf(text, t) \in Meaning(g, t)
<1>1. CASE g.as \in {"TEXT", "STRING"} /\ t = "STRING"
  BY <1>1 DEF Denotes, ValueOf, Meaning, StandsFor
<1>2. CASE g.as = "TEXT" /\ t = "BOOL"
  <2>1. IsBool(g.val) /\ Meaning(g, t) = {g.val.num} /\ g.val.num \in {0, 1}
    BY <1>2 DEF Meaning, AnyText
  <2>2. IsBool(text) /\ text.num = g.val.num
    BY <1>2, <2>1, SpellingsType DEF StandsFor
  <2>3. ValueOf(text, t) = Truth(text.num) /\ Denotes(text, t)
    BY <1>2, <2>2 DEF ValueOf, Denotes
  <2> QED  BY <2>1, <2>2, <2>3 DEF Truth
<1>3. CASE g.as = "TEXT" /\ t = "DOUBLE"
  <2>1. IsNumeric(g.val) /\ ~IsBool(g.val) /\ Meaning(g, t) = {Sixths(g.val)}
    BY <1>3 DEF Meaning, IsNumeric, IsBool
  <2>2. text.kind = g.val.kind /\ text.num = g.val.num
    BY <1>3, <2>1, SpellingsType DEF StandsFor
  <2> QED  BY <1>3, <2>1, <2>2 DEF ValueOf, Denotes, Scan, Sixths, IsNumeric
<1>4. CASE g.as = "TEXT" /\ t \in {"INT", "UINT", "ULONG"}
  <2>1. /\ g.val.kind = "int" /\ ~IsBool(g.val)
        /\ Meaning(g, t) = {g.val.num} /\ g.val.num \in Nat
    BY <1>4 DEF Meaning, AnyText, IsBool
  <2>2. text.kind = "int" /\ text.num = g.val.num
    BY <1>4, <2>1, SpellingsType DEF StandsFor
  <2>3. Scan(text, t) = g.val.num
    BY <1>4, <2>1, <2>2, WholeSixths DEF Scan, Sixths
  <2> QED  BY <1>4, <2>1, <2>2, <2>3 DEF ValueOf, Denotes, IsNumeric
<1>5. CASE g.as = t /\ t = "BOOL"
  <2>1. Meaning(g, t) = {g.val}
    BY <1>5 DEF Meaning
  <2>2. g.val \in {0, 1} /\ text.kind = "bool" /\ text.num = g.val
    BY <1>5 DEF StandsFor, Text
  <2>3. ValueOf(text, t) = Truth(text.num) /\ Denotes(text, t)
    BY <1>5, <2>2 DEF ValueOf, Denotes, IsBool
  <2> QED  BY <2>1, <2>2, <2>3 DEF Truth
<1>6. CASE g.as = t /\ t = "DOUBLE"
  <2>1. Meaning(g, t) = {g.val}
    BY <1>6 DEF Meaning
  <2>2. text.kind = "fixed" /\ text.num = g.val
    BY <1>6 DEF StandsFor, Text
  <2> QED  BY <1>6, <2>1, <2>2 DEF ValueOf, Denotes, IsNumeric, Scan, Sixths
<1>7. CASE g.as = t /\ t \in {"INT", "UINT", "ULONG"}
  <2>1. Meaning(g, t) = {g.val} /\ g.val \in Nat
    BY <1>7 DEF Meaning
  <2>2. text.kind = "int" /\ text.num = g.val
    BY <1>7 DEF StandsFor, Text
  <2>3. Scan(text, t) = g.val
    BY <1>7, <2>1, <2>2, WholeSixths DEF Scan, Sixths
  <2> QED  BY <1>7, <2>1, <2>2, <2>3 DEF ValueOf, Denotes, IsNumeric
<1>8. CASE g.as # t /\ g.as # "TEXT" /\ ~(g.as = "STRING" /\ t = "STRING")
  BY <1>8 DEF Meaning
<1> QED  BY <1>1, <1>2, <1>3, <1>4, <1>5, <1>6, <1>7, <1>8 DEF AtomTypes

\* ReadsWhatWasGiven follows for an atom of no type that nobody scanned.
LEMMA UntypedReads ==
  TypeOK /\ Kept /\ atom.type = "UNDEFINED" /\ ~atom.parsed => ReadsWhatWasGiven
<1> SUFFICES ASSUME TypeOK, Kept, atom.type = "UNDEFINED", ~atom.parsed,
                    NEW t \in AtomTypes, Meaning(given, t) # {}
             PROVE  Value(Get(atom, t), t) \in Meaning(given, t)
  BY DEF ReadsWhatWasGiven
<1>1. PICK a, g : a = atom /\ g = given
  OBVIOUS
<1>2. a \in Atoms /\ a.text \in AnyText /\ StandsFor(a.text, g)
  BY <1>1 DEF TypeOK, Atoms, Kept
<1>3. Denotes(a.text, t) /\ ValueOf(a.text, t) \in Meaning(g, t)
  BY <1>1, <1>2, MeaningOfText DEF TypeOK
<1>4. Value(Get(a, t), t) = ValueOf(a.text, t)
  BY <1>1, <1>2, <1>3, FreshRead
<1> QED  BY <1>1, <1>3, <1>4

LEMMA UntestedInv == IInv => UntestedReads
<1> QED  BY UntypedReads DEF IInv, Unscanned, TypedReads, UntestedReads

LEMMA TestedInv == IInv => TestThenRead
<1> SUFFICES ASSUME IInv, atom.type = "UNDEFINED", NEW t \in AtomTypes, Meaning(given, t) # {}
             PROVE  Value(Get(Test(atom, t), t), t) \in Meaning(given, t)
  BY DEF TestThenRead
<1>1. PICK a, g : a = atom /\ g = given
  OBVIOUS
<1>2. a \in Atoms /\ a.text \in AnyText /\ StandsFor(a.text, g)
  BY <1>1 DEF IInv, TypeOK, Atoms, Kept
<1>3. Denotes(a.text, t) /\ ValueOf(a.text, t) \in Meaning(g, t)
  BY <1>1, <1>2, MeaningOfText DEF IInv, TypeOK
<1>4. Value(Get(Test(a, t), t), t) = ValueOf(a.text, t)
  BY <1>1, <1>2, <1>3, FreshRead
<1> QED  BY <1>1, <1>3, <1>4
-----------------------------------------------------------------------------
\* An atom with a type reads as given, if its value is.
Reads(a, g) ==
  \A t \in AtomTypes :
    Readable(a, t) /\ Meaning(g, t) # {} => Value(Get(a, t), t) \in Meaning(g, t)

LEMMA TypedReadsIf ==
  ASSUME NEW a, NEW g, a.type # "UNDEFINED", a.parsed, a = [a EXCEPT !.type = a.type],
         Meaning(g, a.type) # {} => Value(a, a.type) \in Meaning(g, a.type)
  PROVE  Reads(a, g)
<1>1. Get(a, a.type) = a
  BY DEF Get
<1> QED  BY <1>1 DEF Reads, Readable

LEMMA NewAtomType == NewAtom \in Atoms
<1>1. NewAtom.text \in AnyText
  BY DEF NewAtom, Text, AnyText, Kinds, IsBool
<1>2. NewAtom.num \in [Fields -> Nat]
  BY DEF NewAtom
<1> QED  BY <1>1, <1>2 DEF NewAtom, Atoms, ItemTypes

LEMMA LoadedType ==
  ASSUME NEW text \in AnyText, NEW garbage \in Nat
  PROVE  /\ Loaded(text, garbage) \in Atoms
         /\ Loaded(text, garbage).text = text
         /\ Loaded(text, garbage).type = "UNDEFINED"
         /\ ~Loaded(text, garbage).parsed
<1>1. PICK a, f : a = NewAtom /\ f = [x \in Fields |-> garbage]
  OBVIOUS
<1>2. a \in Atoms /\ f \in [Fields -> Nat]
  BY <1>1, NewAtomType
<1>3. PICK b : b = [a EXCEPT !.num = f]
  OBVIOUS
<1>4. b \in Atoms
  BY <1>2, <1>3 DEF Atoms
<1>5. Loaded(text, garbage) = [b EXCEPT !.text = text, !.parsed = FALSE, !.type = "UNDEFINED"]
  BY <1>1, <1>3, Zenon DEF Loaded, SetUnparsed
<1> QED  BY <1>4, <1>5 DEF Atoms, ItemTypes

\* An atom of no type that is loaded, or given a text.
LEMMA UntypedStep ==
  ASSUME atom' \in Atoms, tested' \in BOOLEAN,
         given'.as \in AtomTypes \cup {"TEXT"},
         given'.val \in IF given'.as \in {"TEXT", "STRING"} THEN AnyText ELSE Nat,
         atom'.type = "UNDEFINED", ~atom'.parsed, StandsFor(atom'.text, given')
  PROVE  IInv'
<1> QED  BY DEF IInv, TypeOK, Kept, Unscanned, TypedReads, Atoms

LEMMA Initially == Init => IInv
<1>1. CASE atom = NewAtom /\ given = Given("TEXT", NewAtom.text) /\ tested = FALSE
  <2>1. atom \in Atoms /\ atom.type = "UNDEFINED" /\ ~atom.parsed
    BY <1>1, NewAtomType DEF NewAtom
  <2>2. given.as = "TEXT" /\ given.val = atom.text
    BY <1>1 DEF Given
  <2>3. StandsFor(atom.text, given)
    BY <2>1, <2>2, SpellingsOf DEF StandsFor, Atoms
  <2> QED  BY <1>1, <2>1, <2>2, <2>3
           DEF IInv, TypeOK, Kept, Unscanned, TypedReads, Atoms
<1>2. ASSUME NEW text \in Texts, NEW garbage \in Numbers,
             atom = Loaded(text, garbage), given = Given("TEXT", text), tested = FALSE
      PROVE  IInv
  <2>1. text \in AnyText /\ garbage \in Nat
    BY TextsAssumption, NumbersAssumption
  <2>2. atom \in Atoms /\ atom.text = text /\ atom.type = "UNDEFINED" /\ ~atom.parsed
    BY <1>2, <2>1, LoadedType
  <2>3. given.as = "TEXT" /\ given.val = atom.text
    BY <1>2, <2>2 DEF Given
  <2>4. StandsFor(atom.text, given)
    BY <2>1, <2>2, <2>3, SpellingsOf DEF StandsFor
  <2> QED  BY <1>2, <2>2, <2>3, <2>4
           DEF IInv, TypeOK, Kept, Unscanned, TypedReads, Atoms
<1> QED  BY <1>1, <1>2 DEF Init
-----------------------------------------------------------------------------
\* A step to an atom that has a type.
LEMMA TypedStep ==
  ASSUME atom' \in Atoms, tested' \in BOOLEAN,
         given'.as \in AtomTypes \cup {"TEXT"},
         given'.val \in IF given'.as \in {"TEXT", "STRING"} THEN AnyText ELSE Nat,
         atom'.type # "UNDEFINED", atom'.parsed,
         ~tested' /\ Meaning(given', atom'.type) # {} =>
           Value(atom', atom'.type) \in Meaning(given', atom'.type)
  PROVE  IInv'
<1>1. PICK a, g : a = atom' /\ g = given'
  OBVIOUS
<1>2. a = [a EXCEPT !.type = a.type]
  BY <1>1 DEF Atoms
<1>3. ~tested' => Reads(a, g)
  BY <1>1, <1>2, TypedReadsIf
<1> QED  BY <1>1, <1>3 DEF IInv, TypeOK, Kept, Unscanned, TypedReads, ReadsWhatWasGiven, Reads, Atoms

LEMMA SetType ==
  ASSUME NEW a \in Atoms, NEW t \in AtomTypes, NEW v \in Domain(t)
  PROVE  /\ Set(a, t, v) \in Atoms
         /\ Set(a, t, v).type = t
         /\ Set(a, t, v).parsed
         /\ Value(Set(a, t, v), t) = v
         /\ v \in IF t = "STRING" THEN AnyText ELSE Nat
<1>1. CASE t = "STRING"
  <2>1. v \in AnyText
    BY <1>1, TextsAssumption DEF Domain
  <2>2. Set(a, t, v) = [a EXCEPT !.text = v, !.parsed = TRUE, !.type = t]
    BY <1>1 DEF Set
  <2> QED  BY <1>1, <2>1, <2>2 DEF Atoms, ItemTypes, Value
<1>2. CASE t # "STRING"
  <2>1. v \in Nat /\ (t = "BOOL" => v \in {0, 1})
    BY <1>2, NumbersAssumption DEF Domain
  <2>2. Set(a, t, v) =
          [a EXCEPT !.num = [a.num EXCEPT ![Field(t)] = v], !.parsed = TRUE, !.type = t]
    BY <1>2, Zenon DEF Set, Atoms
  <2>3. a.num \in [Fields -> Nat] /\ Field(t) \in Fields
    BY <1>2, FieldType DEF Atoms
  <2>4. [a.num EXCEPT ![Field(t)] = v] \in [Fields -> Nat]
    BY <2>1, <2>3
  <2>5. /\ Set(a, t, v) \in Atoms
        /\ Set(a, t, v).num = [a.num EXCEPT ![Field(t)] = v]
        /\ Set(a, t, v).type = t
        /\ Set(a, t, v).parsed
    BY <2>2, <2>4 DEF Atoms, ItemTypes
  <2>6. Set(a, t, v).num[Field(t)] = v
    BY <2>3, <2>5
  <2>7. Value(Set(a, t, v), t) = v
    <3>1. CASE t = "BOOL"
      BY <2>1, <2>6, <3>1 DEF Value, Truth, Field
    <3>2. CASE t # "BOOL"
      BY <1>2, <2>6, <3>2 DEF Value
    <3> QED  BY <3>1, <3>2
  <2> QED  BY <1>2, <2>1, <2>5, <2>7
<1> QED  BY <1>1, <1>2

\* A value is what an assignment of it gave.
LEMMA MeaningOfValue ==
  ASSUME NEW t \in AtomTypes, NEW v, v \in IF t = "STRING" THEN AnyText ELSE Nat
  PROVE  v \in Meaning(Given(t, v), t)
<1>1. CASE t = "STRING"
  BY <1>1, SpellingsOf DEF Meaning, Given
<1>2. CASE t # "STRING"
  BY <1>2 DEF Meaning, Given
<1> QED  BY <1>1, <1>2

LEMMA AssignStep ==
  ASSUME IInv, NEW t \in AtomTypes, NEW v \in Domain(t), Assign(t, v)
  PROVE  IInv'
<1>1. atom \in Atoms
  BY DEF IInv, TypeOK, Atoms
<1>2. atom' = Set(atom, t, v) /\ given' = Given(t, v) /\ tested' = FALSE
  BY DEF Assign
<1>3. /\ atom' \in Atoms /\ atom'.type = t /\ atom'.parsed /\ Value(atom', t) = v
      /\ v \in IF t = "STRING" THEN AnyText ELSE Nat
  BY <1>1, <1>2, SetType, Zenon
<1>4. given'.as = t /\ given'.val = v
  BY <1>2 DEF Given
<1>5. Value(atom', t) \in Meaning(given', t)
  BY <1>2, <1>3, MeaningOfValue, Zenon
<1>6. t # "UNDEFINED" /\ t # "TEXT"
  BY DEF AtomTypes
<1> QED  BY <1>2, <1>3, <1>4, <1>5, <1>6, TypedStep

LEMMA AssignTextStep ==
  ASSUME IInv, NEW text \in Texts, AssignText(text)
  PROVE  IInv'
<1>1. text \in AnyText /\ atom \in Atoms
  BY TextsAssumption DEF IInv, TypeOK, Atoms
<1>2. atom' = [atom EXCEPT !.text = text, !.parsed = FALSE, !.type = "UNDEFINED"]
  BY DEF AssignText, SetUnparsed
<1>3. atom' \in Atoms /\ atom'.text = text /\ atom'.type = "UNDEFINED" /\ ~atom'.parsed
  BY <1>1, <1>2 DEF Atoms, ItemTypes
<1>4. given'.as = "TEXT" /\ given'.val = text /\ tested' = FALSE
  BY DEF AssignText, Given
<1>5. StandsFor(atom'.text, given')
  BY <1>1, <1>3, <1>4, SpellingsOf DEF StandsFor
<1> QED  BY <1>1, <1>3, <1>4, <1>5, UntypedStep
\* A read of another type than the one the atom has throws; one of the type it has
\* changes nothing.  The first read of an atom that nobody tested scans the text.
LEMMA ReadStep ==
  ASSUME IInv, NEW t \in AtomTypes, Read(t)
  PROVE  IInv'
<1>1. PICK a, g : a = atom /\ g = given
  OBVIOUS
<1>2. a \in Atoms /\ Readable(a, t) /\ atom' = Get(a, t) /\ given' = g /\ tested' = tested
  BY <1>1 DEF IInv, TypeOK, Atoms, Read
<1>3. CASE a.type # "UNDEFINED"
  <2>1. a.parsed /\ a.type = t
    BY <1>1, <1>2, <1>3 DEF IInv, TypeOK, Readable
  <2>2. Get(a, t) = a
    BY <1>2, <2>1 DEF Get, Atoms
  <2>3. atom' = atom /\ given' = given /\ tested' = tested
    BY <1>1, <1>2, <2>2
  <2> QED  BY <2>3 DEF IInv, TypeOK, Kept, Unscanned, TypedReads, ReadsWhatWasGiven
<1>4. CASE a.type = "UNDEFINED"
  <2> DEFINE b == IF a.parsed THEN a ELSE Parse(a, t)
  <2>1. b \in Atoms /\ b.text \in {a.text, Trim(a.text)} /\ b.type = "UNDEFINED"
    BY <1>2, <1>4, ParseLemma
  <2>2. Get(a, t) = IF b.parsed THEN [b EXCEPT !.type = t] ELSE b
    BY DEF Get
  <2>3. /\ StandsFor(a.text, g)
        /\ a.text \in AnyText
        /\ g.as \in AtomTypes \cup {"TEXT"}
        /\ g.val \in IF g.as \in {"TEXT", "STRING"} THEN AnyText ELSE Nat
        /\ tested \in BOOLEAN
        /\ ~tested => ~a.parsed
    BY <1>1, <1>4 DEF IInv, TypeOK, Kept, Unscanned
  <2>4. CASE b.parsed
    <3>1. atom' = [b EXCEPT !.type = t]
      BY <1>2, <2>2, <2>4
    <3>2. atom' \in Atoms /\ atom'.type = t /\ atom'.parsed
      BY <2>1, <2>4, <3>1 DEF Atoms, ItemTypes
    <3>3. ASSUME ~tested, Meaning(g, t) # {}
          PROVE  Value(atom', t) \in Meaning(g, t)
      <4>1. Denotes(a.text, t) /\ ValueOf(a.text, t) \in Meaning(g, t)
        BY <2>3, <3>3, MeaningOfText
      <4>2. Value(Get(a, t), t) = ValueOf(a.text, t)
        BY <1>2, <1>4, <2>3, <3>3, <4>1, FreshRead
      <4> QED  BY <1>2, <4>1, <4>2
    <3>4. t # "UNDEFINED"
      BY DEF AtomTypes
    <3> QED  BY <1>2, <2>3, <3>2, <3>3, <3>4, TypedStep
  <2>5. CASE ~b.parsed
    <3>1. atom' = b
      BY <1>2, <2>2, <2>5
    <3>2. StandsFor(b.text, g)
      BY <2>1, <2>3, StandsForTrimmed
    <3> QED  BY <1>2, <2>1, <2>3, <2>5, <3>1, <3>2, UntypedStep
  <2> QED  BY <2>4, <2>5
<1> QED  BY <1>3, <1>4

LEMMA ProbeStep ==
  ASSUME IInv, NEW t \in AtomTypes, Probe(t)
  PROVE  IInv'
<1>1. PICK a, g : a = atom /\ g = given
  OBVIOUS
<1>2. a \in Atoms /\ atom' = Test(a, t) /\ given' = g /\ tested' = TRUE
  BY <1>1 DEF IInv, TypeOK, Atoms, Probe
<1>3. atom' \in Atoms /\ atom'.text \in {a.text, Trim(a.text)} /\ atom'.type = a.type
  BY <1>2, ParseLemma DEF Test
<1>4. a.type # "UNDEFINED" => atom' = a
  BY <1>2 DEF Test
<1>5. /\ g.as \in AtomTypes \cup {"TEXT"}
      /\ g.val \in IF g.as \in {"TEXT", "STRING"} THEN AnyText ELSE Nat
      /\ a.type # "UNDEFINED" => a.parsed
      /\ a.type = "UNDEFINED" => StandsFor(a.text, g)
  BY <1>1 DEF IInv, TypeOK, Kept
<1>6. a.type = "UNDEFINED" => StandsFor(atom'.text, g)
  BY <1>2, <1>3, <1>5, StandsForTrimmed DEF Atoms
<1> QED  BY <1>2, <1>3, <1>4, <1>5, <1>6 DEF IInv, TypeOK, Kept, Unscanned, TypedReads, Atoms
-----------------------------------------------------------------------------
LEMMA StandsForLoaded ==
  ASSUME NEW a \in Atoms, NEW g,
         a.type = "UNDEFINED" => StandsFor(a.text, g),
         g.as \in AtomTypes \cup {"TEXT"},
         g.val \in IF g.as \in {"TEXT", "STRING"} THEN AnyText ELSE Nat,
         NEW text \in {ToText(a), ToJson(a)}
  PROVE  LET h == IF a.type = "UNDEFINED" THEN g ELSE Given(a.type, Saved(a))
         IN  /\ text \in AnyText
             /\ StandsFor(text, h)
             /\ h.as \in AtomTypes \cup {"TEXT"}
             /\ h.val \in IF h.as \in {"TEXT", "STRING"} THEN AnyText ELSE Nat
<1> DEFINE h == IF a.type = "UNDEFINED" THEN g ELSE Given(a.type, Saved(a))
           s == ToText(a)
<1>1. s \in AnyText /\ StandsFor(s, h)
      /\ h.as \in AtomTypes \cup {"TEXT"}
      /\ h.val \in IF h.as \in {"TEXT", "STRING"} THEN AnyText ELSE Nat
  <2>0. a.text \in AnyText /\ \A f \in Fields : a.num[f] \in Nat
    BY DEF Atoms
  <2>1. CASE a.type = "UNDEFINED"
    BY <2>0, <2>1 DEF ToText
  <2>2. CASE a.type = "STRING"
    <3>1. s = a.text /\ h.as = "STRING" /\ h.val = a.text
      BY <2>2 DEF ToText, Saved, Value, Given
    <3> QED  BY <2>0, <3>1, SpellingsOf DEF StandsFor, AtomTypes
  <2>3. CASE a.type = "BOOL"
    <3>1. s = Text("bool", Truth(a.num["i"])) /\ h.as = "BOOL" /\ h.val = Truth(a.num["i"])
      BY <2>3 DEF ToText, Saved, Value, Given
    <3>2. Truth(a.num["i"]) \in {0, 1}
      BY <2>0, TruthType DEF Fields
    <3>3. s \in AnyText
      BY <3>1, <3>2 DEF AnyText, Text, Kinds
    <3> QED  BY <3>1, <3>2, <3>3 DEF StandsFor, AtomTypes
  <2>4. CASE a.type = "DOUBLE"
    <3>1. s = Text("fixed", SixDigits(a.num["d"])) /\ h.as = "DOUBLE"
          /\ h.val = SixDigits(a.num["d"])
      BY <2>4 DEF ToText, Saved, Value, Given, Field
    <3>2. SixDigits(a.num["d"]) \in Nat
      BY <2>0, SixDigitsNat DEF Fields
    <3>3. s \in AnyText
      BY <3>1, <3>2 DEF AnyText, Text, Kinds, IsBool
    <3> QED  BY <3>1, <3>2, <3>3 DEF StandsFor, AtomTypes
  <2>5. CASE a.type \in {"INT", "UINT", "ULONG"}
    <3>1. s = Text("int", a.num[Field(a.type)]) /\ h.as = a.type
          /\ h.val = a.num[Field(a.type)]
      BY <2>5 DEF ToText, Saved, Value, Given
    <3>2. a.num[Field(a.type)] \in Nat
      BY <2>0, <2>5, FieldType DEF AtomTypes
    <3>3. s \in AnyText
      BY <3>1, <3>2 DEF AnyText, Text, Kinds, IsBool
    <3> QED  BY <2>5, <3>1, <3>2, <3>3 DEF StandsFor, AtomTypes
  <2> QED  BY <2>1, <2>2, <2>3, <2>4, <2>5 DEF Atoms, ItemTypes, AtomTypes
<1>2. CASE text = s
  BY <1>1, <1>2
<1>3. CASE text = ToJson(a) /\ IsBool(s) /\ ~s.padded
  <2>1. text = Text("bool", s.num) /\ s.num \in {0, 1}
    BY <1>1, <1>3 DEF ToJson, AnyText
  <2>2. text \in AnyText
    BY <2>1 DEF Text, AnyText, Kinds
  <2>3. StandsFor(text, h)
    <3>1. CASE h.as \in {"TEXT", "STRING"}
      <4>1. s \in Spellings(h.val) /\ h.val \in AnyText
        BY <1>1, <3>1 DEF StandsFor
      <4>2. text \in Spellings(h.val)
        BY <1>3, <2>1, <4>1, SpellingsType
      <4> QED  BY <3>1, <4>2 DEF StandsFor
    <3>2. CASE h.as = "BOOL"
      <4>1. s = Text("bool", h.val) /\ h.val \in {0, 1}
        BY <1>1, <3>2 DEF StandsFor
      <4>2. s.num = h.val
        BY <4>1 DEF Text
      <4> QED  BY <2>1, <3>2, <4>1, <4>2 DEF StandsFor
    <3>3. CASE h.as \in {"DOUBLE", "INT", "UINT", "ULONG"}
      BY <1>1, <1>3, <3>3 DEF StandsFor, Text, IsBool
    <3> QED  BY <1>1, <3>1, <3>2, <3>3 DEF AtomTypes
  <2> QED  BY <1>1, <2>2, <2>3
<1>4. CASE text = ToJson(a) /\ ~(IsBool(s) /\ ~s.padded)
  BY <1>1, <1>4 DEF ToJson
<1> QED  BY <1>2, <1>3, <1>4

LEMMA ReloadStep ==
  ASSUME IInv, NEW text \in {ToText(atom), ToJson(atom)}, Reload(text)
  PROVE  IInv'
<1>1. PICK a, g : a = atom /\ g = given
  OBVIOUS
<1>2. PICK garbage \in Numbers : atom' = Loaded(text, garbage)
  BY DEF Reload
<1>3. /\ a \in Atoms
      /\ a.type = "UNDEFINED" => StandsFor(a.text, g)
      /\ g.as \in AtomTypes \cup {"TEXT"}
      /\ g.val \in IF g.as \in {"TEXT", "STRING"} THEN AnyText ELSE Nat
  BY <1>1 DEF IInv, TypeOK, Atoms, Kept
<1>4. PICK h : h = IF a.type = "UNDEFINED" THEN g ELSE Given(a.type, Saved(a))
  OBVIOUS
<1>5. given' = h /\ tested' = FALSE
  BY <1>1, <1>4 DEF Reload
<1>6. /\ text \in AnyText
      /\ StandsFor(text, h)
      /\ h.as \in AtomTypes \cup {"TEXT"}
      /\ h.val \in IF h.as \in {"TEXT", "STRING"} THEN AnyText ELSE Nat
  BY <1>1, <1>3, <1>4, StandsForLoaded
<1>7. garbage \in Nat
  BY NumbersAssumption
<1>8. /\ atom' \in Atoms /\ atom'.text = text /\ atom'.type = "UNDEFINED"
      /\ ~atom'.parsed
  BY <1>2, <1>6, <1>7, LoadedType
<1> QED  BY <1>5, <1>6, <1>8, UntypedStep

LEMMA InvNext == IInv /\ [Next]_vars => IInv'
<1> SUFFICES ASSUME IInv, [Next]_vars PROVE IInv'
  OBVIOUS
<1>1. ASSUME NEW t \in AtomTypes, Read(t) PROVE IInv'
  BY <1>1, ReadStep
<1>2. ASSUME NEW t \in AtomTypes, Probe(t) PROVE IInv'
  BY <1>2, ProbeStep
<1>3. ASSUME NEW t \in AtomTypes, NEW v \in Domain(t), Assign(t, v) PROVE IInv'
  BY <1>3, AssignStep
<1>4. ASSUME NEW text \in Texts, AssignText(text) PROVE IInv'
  BY <1>4, AssignTextStep
<1>5. ASSUME ReloadYaml PROVE IInv'
  BY <1>5, ReloadStep DEF ReloadYaml
<1>6. ASSUME ReloadJson PROVE IInv'
  BY <1>6, ReloadStep DEF ReloadJson
<1>7. ASSUME UNCHANGED vars PROVE IInv'
  BY <1>7 DEF vars, IInv, TypeOK, Kept, Unscanned, TypedReads, ReadsWhatWasGiven
<1> QED  BY <1>1, <1>2, <1>3, <1>4, <1>5, <1>6, <1>7 DEF Next

\* The inductive invariant of an atom, under every sequence of calls.
THEOREM Invariance == Spec => []IInv
<1> QED  BY Initially, InvNext, PTL DEF Spec

\* The fields of an atom hold values of their types, whatever is called; an atom that
\* has a type has been parsed.
THEOREM TypeCorrect == Spec => []TypeOK
<1>1. IInv => TypeOK
  BY DEF IInv
<1> QED  BY <1>1, Invariance, PTL

\* As long as nobody calls testType, a read that does not throw returns what was given,
\* for all texts and numbers, and through every number of files.
THEOREM UntestedReadsAreRight == Spec => []UntestedReads
<1> QED  BY UntestedInv, Invariance, PTL

\* A test that says yes and a read of the same type give what was put in, whatever was
\* tested before.
THEOREM TestedReadsAreRight == Spec => []TestThenRead
<1> QED  BY TestedInv, Invariance, PTL

\* Nobody who reads or tests an atom changes one whose type is fixed.
THEOREM TypeStays == Spec => TypeIsSticky
<1>1. ASSUME IInv, atom.type # "UNDEFINED", NEW t \in AtomTypes, Read(t)
      PROVE  UNCHANGED atom
  <2>1. PICK a : a = atom
    OBVIOUS
  <2>2. a \in Atoms /\ a.parsed /\ a.type = t /\ atom' = Get(a, t)
    BY <1>1, <2>1 DEF IInv, TypeOK, Atoms, Read, Readable
  <2>3. Get(a, t) = a
    BY <2>2 DEF Get, Atoms
  <2> QED  BY <2>1, <2>2, <2>3
<1>2. ASSUME atom.type # "UNDEFINED", NEW t \in AtomTypes, Probe(t)
      PROVE  UNCHANGED atom
  BY <1>2 DEF Probe, Test
<1>3. IInv /\ [Next]_vars =>
        [(\E t \in AtomTypes : Read(t) \/ Probe(t)) /\ atom.type # "UNDEFINED"
         => UNCHANGED atom]_vars
  BY <1>1, <1>2
<1> QED  BY <1>3, Invariance, PTL DEF Spec, TypeIsSticky
=============================================================================
