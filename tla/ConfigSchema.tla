---------------------------- MODULE ConfigSchema ----------------------------
(***************************************************************************)
(* ConfigSchema::validate.  A schema object validates one configuration    *)
(* after the other, and may be given one twice.  Validation reads both     *)
(* through accessors that create what they do not find and that fix the    *)
(* types of the atoms they read, so each function below answers with the   *)
(* configuration and the schema it leaves behind.                          *)
(*                                                                         *)
(* A schema is a dictionary of nodes; a node has some of the fields type,  *)
(* required, minimum, maximum, properties (a schema) and contains (a       *)
(* node).  The strings and the boolean in it are read, never written.      *)
(***************************************************************************)
EXTENDS AtomOps, ItemTrees, FiniteSets, SequencesExt

CONSTANTS Schemas,
          ConfigsFor(_), \* the configurations a schema may be given
          ReusedSchemas  \* those with one ConfigSchema object for all of them;
                         \* else each config.validate(schema) makes one

VARIABLES cfg,   \* the configuration (a ConfigMap)
          sch,   \* m_schema
          out,   \* how the last validate of cfg ended
          given, \* cfg as it was handed over
          schema \* the schema as it was written

vars == << cfg, sch, out, given, schema >>

\* Fault: a double is not a number.
SchemaAtomTypesNoDouble ==
  [integer |-> << "INT", "UINT", "ULONG" >>,
   string |-> << "STRING" >>,
   number |-> << "INT", "UINT", "ULONG" >>,
   boolean |-> << "BOOL" >>]

\* SCHEMA_ATOM_TYPES, in the order in which the types are tried.
SchemaAtomTypes ==
  [integer |-> << "INT", "UINT", "ULONG" >>,
   string |-> << "STRING" >>,
   number |-> << "DOUBLE", "INT", "UINT", "ULONG" >>,
   boolean |-> << "BOOL" >>]

IsKnownType(t) == t \in DOMAIN SchemaAtomTypes \cup {"object", "array"}
-----------------------------------------------------------------------------
\* A function ends with an answer or without one ("throw": an exception, or the
\* first element of an empty vector), and leaves x and y behind.  Code that goes on
\* only after a yes is a step after another, or the body of a loop over s.
Result(o, x, y) == [out |-> o, x |-> x, y |-> y]

Answer(b) == IF b THEN "yes" ELSE "no"

\* F of a result that is computed once.
With(r, F(_)) == CHOOSE z \in {F(q) : q \in {r}} : TRUE

AndThen(r, Step(_)) == With(r, LAMBDA q : IF q.out = "yes" THEN Step(q) ELSE q)

ForEach(s, Step(_, _), first) ==
  FoldLeft(LAMBDA r, e : AndThen(r, LAMBDA q : Step(q, e)), first, s)

\* An array whose loop over its elements ended with r: those it has not come to
\* are as they were.
ArrayAfter(r, items) == Vector(r.x \o SubSeq(items, Len(r.x) + 1, Len(items)))

\* validate_keys(c, s) changes c only.
RECURSIVE ValidateKeys(_, _)

\* The elements of an array of objects.
ElementKeys(items, n) ==
  ForEach(items,
    LAMBDA r, x :
      CASE "properties" \notin DOMAIN n -> [r EXCEPT !.out = "no"]
        [] "properties" \in DOMAIN n /\ ~CanBeMap(x) -> [r EXCEPT !.out = "throw"]
        [] OTHER ->
             With(ValidateKeys(AsMap(x).entries, n.properties),
                  LAMBDA k : Result(k.out, Append(r.x, Map(k.x)), n)),
    Result("yes", << >>, n))

ObjectKey(c, k, n) ==
  LET x == ItemAt(c, k)
  IN  IF ~IsMap(x) \/ "properties" \notin DOMAIN n
      THEN Result("no", WithKey(c, k), n)
      ELSE With(ValidateKeys(x.entries, n.properties),
                LAMBDA r : Result(r.out, Store(c, k, Map(r.x)), n))

ArrayKey(c, k, n) ==
  LET x == ItemAt(c, k)
  IN  CASE ~IsVector(x) \/ "contains" \notin DOMAIN n -> Result("no", WithKey(c, k), n)
        [] OTHER ->
             IF "type" \notin DOMAIN n.contains THEN Result("no", c, n)
             ELSE IF n.contains.type # "object" THEN Result("yes", c, n)
             ELSE With(ElementKeys(x.items, n.contains),
                       LAMBDA r : Result(r.out, Store(c, k, ArrayAfter(r, x.items)), n))

PresentKey(c, k, n) ==
  IF "type" \notin DOMAIN n THEN Result("no", c, n)
  ELSE IF n.type = "object" THEN ObjectKey(c, k, n)
  ELSE IF n.type = "array" THEN ArrayKey(c, k, n)
  ELSE Result("yes", c, n)

\* Fault: an absent key is not skipped.
ValidateKeyUnskipped(c, k, n) == PresentKey(c, k, n)

\* A key is skipped when it is absent and "required" is not there at all; said not
\* to be required, it goes on as if it were present.
ValidateKey(c, k, n) ==
  LET explicit == "required" \in DOMAIN n
  IN  CASE ~HasKey(c, k) /\ ~explicit -> Result("yes", c, n)
        [] ~HasKey(c, k) /\ explicit /\ n.required -> Result("no", c, n)
        [] OTHER -> PresentKey(c, k, n)

ValidateKeys(c, s) ==
  ForEach(s,
    LAMBDA r, e : [ValidateKey(r.x, e.key, e.val) EXCEPT !.y = s],
    Result("yes", c, s))
-----------------------------------------------------------------------------
\* has_corresponding_type: the types are tried in order until one fits.
HasCorrespondingType(x, t, n) ==
  LET try(r, ty) == IF r.out = "yes" THEN r
                    ELSE Result(Answer(HasType(r.x, ty)), Test(r.x, ty), n)
      tried == FoldLeft(try, Result("no", AtomOf(x, NewAtom), n), SchemaAtomTypes[t])
  IN  CASE t = "object" -> Result(Answer(IsMap(x)), x, n)
        [] t = "array" -> Result(Answer(IsVector(x)), x, n)
        [] t \notin {"object", "array"} /\ (t \notin DOMAIN SchemaAtomTypes \/ ~CanBeAtom(x)) ->
             Result("throw", x, n)
        [] OTHER -> With(tried, LAMBDA r : [r EXCEPT !.x = WithAtom(x, @)])


\* testType(DOUBLE) ? (double)a : (int)a.  The cast throws for an atom of another
\* type; the value is counted in sixths.
NumberType(a) == IF HasType(a, "DOUBLE") THEN "DOUBLE" ELSE "INT"

HasNumber(a) == Readable(a, NumberType(a))

WithNumber(a) ==
  IF HasNumber(a) THEN Get(Test(a, "DOUBLE"), NumberType(a)) ELSE Test(a, "DOUBLE")

Number(a) ==
  IF NumberType(a) = "DOUBLE" THEN Value(WithNumber(a), "DOUBLE")
  ELSE 6 * Value(WithNumber(a), "INT")

Bounds(n) == DOMAIN n \cap {"minimum", "maximum"}

\* n with its bounds as they are left when the minimum is read, then the maximum.
ReadBounds(n) ==
  LET read == IF "minimum" \in DOMAIN n /\ ~HasNumber(n.minimum) THEN {"minimum"}
              ELSE Bounds(n)
  IN  [f \in DOMAIN n |-> IF f \in read THEN WithNumber(n[f]) ELSE n[f]]

\* The message about a value out of range mentions the bound the schema does not
\* have, and creates it: schema["maximum"].getOrCreateAtom()->testType(DOUBLE).
WithOther(n) ==
  [f \in DOMAIN n \cup {"minimum", "maximum"} |->
     IF f \in DOMAIN n THEN n[f] ELSE Test(NewAtom, "DOUBLE")]

\* Fault: the minimum itself is out of range.
InRangeStrict(n, num) ==
  /\ "minimum" \in DOMAIN n => Number(n.minimum) < num
  /\ "maximum" \in DOMAIN n => num <= Number(n.maximum)

InRange(n, num) ==
  /\ "minimum" \in DOMAIN n => Number(n.minimum) <= num
  /\ "maximum" \in DOMAIN n => num <= Number(n.maximum)

BoundsOrdered(n) ==
  Cardinality(Bounds(n)) = 2 => Number(n.minimum) <= Number(n.maximum)

\* Fault: both bounds are read, whether or not the schema has them.
ValidateConstraintsUnasked(x, n) == Result("yes", x, WithOther(n))

\* validate_constraints for an item and the node of its key.
ValidateConstraints(x, n) ==
  LET a == AtomOf(x, NewAtom)
      read(m) ==
        CASE \E f \in Bounds(n) : ~HasNumber(n[f]) -> Result("throw", x, m)
          [] OTHER ->
               With(WithAtom(x, WithNumber(a)),
                    LAMBDA y :
                      IF ~HasNumber(a) THEN Result("throw", y, m)
                      ELSE IF InRange(n, Number(a)) /\ BoundsOrdered(n) THEN Result("yes", y, m)
                      ELSE Result("no", y, IF Cardinality(Bounds(n)) = 2 THEN m ELSE WithOther(m)))
  IN  CASE Bounds(n) = {} -> Result("yes", x, n)
        [] Bounds(n) # {} /\ n.type \notin {"number", "integer"} -> Result("no", x, n)
        [] OTHER -> With(ReadBounds(n), read)

RECURSIVE ValidateTypes(_, _)

\* The elements of a vector: each object against a copy of its schema, anything
\* else against the type.  An atomic type has no "contains": reading it creates
\* one that is empty, and the table of types has no entry for it.
ElementTypes(items, n) ==
  ForEach(items,
    LAMBDA r, x :
      IF "contains" \notin DOMAIN n
      THEN Result("throw", r.x, [f \in DOMAIN n \cup {"contains"} |->
                                   IF f = "contains" THEN [type |-> ""] ELSE n[f]])
      ELSE IF n.contains.type # "object"
      THEN With(HasCorrespondingType(x, n.contains.type, n),
                LAMBDA t : [t EXCEPT !.x = Append(r.x, @)])
      ELSE With(ValidateTypes(AsMap(x).entries, n.contains.properties),
                LAMBDA t : Result(t.out, Append(r.x, Map(t.x)), n)),
    Result("yes", << >>, n))

\* The objects and arrays below an item, after its own type and range.
Below(x, n) ==
  CASE IsMap(x) ->
         With(ValidateTypes(x.entries, n.properties),
              LAMBDA t : Result(t.out, Map(t.x), [n EXCEPT !.properties = t.y]))
    [] IsVector(x) ->
         With(ElementTypes(x.items, n),
              LAMBDA r : Result(r.out, ArrayAfter(r, x.items), r.y))
    [] OTHER -> Result("yes", x, n)

ValidateItem(x, n) ==
  LET typed == HasCorrespondingType(x, n.type, n)
      bounded == AndThen(typed, LAMBDA r : ValidateConstraints(r.x, r.y))
  IN  IF ~IsKnownType(n.type) THEN Result("no", x, n)
      ELSE AndThen(bounded, LAMBDA r : Below(r.x, r.y))

\* validate_types(c, s), for the keys that are there.
ValidateTypes(c, s) ==
  ForEach(s,
    LAMBDA r, e :
      IF ~HasKey(r.x, e.key) THEN r
      ELSE With(ValidateItem(At(r.x, e.key), e.val),
                LAMBDA i : Result(i.out, Store(r.x, e.key, i.x), Store(r.y, e.key, i.y))),
    Result("yes", c, s))

\* validate(config)
ValidateAll(c, s) ==
  IF c = << >> THEN Result("no", c, s)
  ELSE AndThen(ValidateKeys(c, s), LAMBDA r : ValidateTypes(r.x, s))
-----------------------------------------------------------------------------
Init ==
  /\ schema \in Schemas
  /\ sch = schema
  /\ cfg \in ConfigsFor(schema)
  /\ given = cfg
  /\ out = "none"

\* cs.validate(config), or config.validate(schema), which copies the schema.
Validate ==
  /\ LET reused == schema \in ReusedSchemas
     IN  \E r \in {ValidateAll(cfg, IF reused THEN sch ELSE schema)} :
           /\ out' = r.out
           /\ cfg' = r.x
           /\ sch' = IF reused THEN r.y ELSE sch
  /\ UNCHANGED << given, schema >>

\* The next configuration for the same schema object.
Load ==
  /\ out # "none"
  /\ cfg' \in ConfigsFor(schema)
  /\ given' = cfg'
  /\ out' = "none"
  /\ UNCHANGED << sch, schema >>

Next == Validate \/ Load

Spec == Init /\ [][Next]_vars
-----------------------------------------------------------------------------
\* What a type means.  A text is of a type when it is written like a value of it;
\* a number is also a way to write a truth value, as for getBool.
OfType(a, t) ==
  CASE t = "string" -> a.type \in {"STRING", "UNDEFINED"}
    [] t = "boolean" -> \/ a.type = "BOOL"
                        \/ a.type = "UNDEFINED" /\ (IsBool(a.text) \/ IsNumeric(a.text))
    [] t = "integer" -> \/ a.type \in {"INT", "UINT", "ULONG"}
                        \/ a.type = "UNDEFINED" /\ a.text.kind = "int"
    [] t = "number" -> \/ a.type \in {"DOUBLE", "INT", "UINT", "ULONG"}
                       \/ a.type = "UNDEFINED" /\ IsNumeric(a.text)
    [] OTHER -> FALSE

\* The number an atom holds, in sixths, whatever its type.
Amount(a) ==
  CASE a.type = "UNDEFINED" -> Sixths(a.text)
    [] a.type = "DOUBLE" -> a.num["d"]
    [] OTHER -> 6 * a.num[Field(a.type)]

WithinBounds(a, n) ==
  /\ "minimum" \in DOMAIN n => Amount(n.minimum) <= Amount(a)
  /\ "maximum" \in DOMAIN n => Amount(a) <= Amount(n.maximum)

\* A node has a type that exists and what belongs to it, and bounds only for numbers.
TypeOf(n) == IF "type" \in DOMAIN n THEN n.type ELSE ""

MakesSense(n) ==
  /\ IsKnownType(TypeOf(n))
  /\ TypeOf(n) = "object" => "properties" \in DOMAIN n
  /\ TypeOf(n) = "array" => "contains" \in DOMAIN n
  /\ "contains" \in DOMAIN n => TypeOf(n.contains) # ""
  /\ Bounds(n) # {} => TypeOf(n) \in {"integer", "number"}

\* Does an item, or a dictionary of items, respect a node, or a schema.
RECURSIVE Conforms(_, _)
RECURSIVE Respects(_, _)

Conforms(x, n) ==
  /\ MakesSense(n)
  /\ CASE n.type = "object" -> IsMap(x) /\ Respects(x.entries, n.properties)
       [] n.type = "array" ->
            IsVector(x) /\ \A i \in DOMAIN x.items : Conforms(x.items[i], n.contains)
       [] OTHER -> IsAtom(x) /\ OfType(x.atom, n.type) /\ WithinBounds(x.atom, n)

Respects(c, s) ==
  \A i \in DOMAIN s :
    IF HasKey(c, s[i].key) THEN Conforms(At(c, s[i].key), s[i].val)
    ELSE ~("required" \in DOMAIN s[i].val /\ s[i].val.required)

\* The items that validate has no answer to: a map or a vector where a node wants a
\* value, an element of an array of objects that is no map, and a value with bounds
\* when it, or one of them, is an unsigned number.
RECURSIVE HasMisfit(_, _)

Unsigned(a) == a.type \in {"UINT", "ULONG"}

HasMisfit(x, n) ==
  \/ /\ TypeOf(n) \in DOMAIN SchemaAtomTypes
     /\ \/ ~IsAtom(x)
        \/ Bounds(n) # {} /\ (Unsigned(x.atom) \/ \E f \in Bounds(n) : Unsigned(n[f]))
  \/ /\ TypeOf(n) = "object" /\ "properties" \in DOMAIN n /\ IsMap(x)
     /\ \E i \in DOMAIN n.properties :
          LET e == n.properties[i]
          IN  HasKey(x.entries, e.key) /\ HasMisfit(At(x.entries, e.key), e.val)
  \/ /\ TypeOf(n) = "array" /\ "contains" \in DOMAIN n /\ IsVector(x)
     /\ \E i \in DOMAIN x.items :
          \/ TypeOf(n.contains) = "object" /\ ~IsMap(x.items[i])
          \/ HasMisfit(x.items[i], n.contains)

\* What an item and a node say, whether or not somebody has read it as a type or has
\* stripped white space from it.
Said(a) ==
  CASE a.type \in {"UNDEFINED", "STRING"} /\ ~IsNumeric(a.text) -> Trim(a.text)
    [] a.type \in {"UNDEFINED", "STRING"} /\ IsNumeric(a.text) -> Text("real", Sixths(a.text))
    [] a.type = "BOOL" -> Text("bool", a.num["i"])
    [] OTHER -> Text("real", Amount(a))

RECURSIVE Contents(_)
Contents(x) ==
  CASE IsMap(x) -> Map([i \in DOMAIN x.entries |->
                          Entry(x.entries[i].key, Contents(x.entries[i].val))])
    [] IsVector(x) -> Vector([i \in DOMAIN x.items |-> Contents(x.items[i])])
    [] IsAtom(x) -> Atom(Said(x.atom))
    [] IsNone(x) -> x

\* A "contains" says something only about an array.
RECURSIVE Rules(_)
Rules(n) ==
  [f \in DOMAIN n \ (IF TypeOf(n) = "array" THEN {} ELSE {"contains"}) |->
     CASE f \in {"minimum", "maximum"} -> Said(n[f])
       [] f = "properties" -> [i \in DOMAIN n[f] |-> Entry(n[f][i].key, Rules(n[f][i].val))]
       [] f = "contains" -> Rules(n[f])
       [] OTHER -> n[f]]

\* Keys stay unique in configuration and schema, though validation creates some,
\* and the schema has the nodes it was written with.
TypeOK ==
  /\ out \in {"none", "yes", "no", "throw"}
  /\ \A s \in {cfg, sch} : \A i, j \in DOMAIN s : s[i].key = s[j].key => i = j
  /\ {sch[i].key : i \in DOMAIN sch} = {schema[i].key : i \in DOMAIN schema}

\* An answer of validate is true exactly for the configurations that respect the
\* schema, whatever the schema object validated before; an empty one never does.
Answers ==
  out \in {"yes", "no"} => (out = "yes" <=> given # << >> /\ Respects(given, schema))


\* "@return true if the config respects this schema, otherwise false": validate answers,
\* whatever the configuration looks like.
AlwaysReturns == out # "throw"

\* The second validation of a configuration ends as the first one did.
SameAnswerTwice == [][out # "none" /\ out' # "none" => out' = out]_vars

\* Validation, which hands the configuration to accessors that create and convert,
\* leaves what it says alone, but for white space around a text. Of an object or array
\* that is absent and said not to be required it is not true: the key is created.
ConfigKept == Contents(Map(cfg)) = Contents(Map(given))

\* So it leaves the schema, which the next configuration will be held against. Of a
\* schema object with a single bound it is not true: see WithOther.
SchemaKept ==
  \A i \in DOMAIN sch : Rules(sch[i].val) = Rules(schema[i].val)
=============================================================================
