-------------------------- MODULE MCConfigSchema --------------------------
(***************************************************************************)
(* Small instances of ConfigSchema.tla.  Every schema has a key a with a   *)
(* node of interest, alone or before a key b that is required; a           *)
(* configuration has any of the items below at a, a scalar at b, or both.  *)
(***************************************************************************)
EXTENDS ConfigSchema

AnyAtom == [text : [kind : Kinds, num : Nat, padded : BOOLEAN], num : [Fields -> Nat],
            parsed : BOOLEAN, type : ItemTypes]

OneEntry(k, v) == << Entry(k, v) >>
Typed(t, v) == Atom(Set(NewAtom, t, v))
Written(kind, num) == Atom(Loaded(Text(kind, num), 0))
Bound(kind, num) == Loaded(Text(kind, num), 0)

\* Scalars a program assigns, and scalars as a file has them.
TypedScalars == {Typed("INT", 1), Typed("INT", 2), Typed("INT", 3), Typed("UINT", 2),
                 Typed("ULONG", 2), Typed("DOUBLE", 9), Typed("DOUBLE", 15), Typed("BOOL", 1)}
WrittenScalars == {Written("int", 1), Written("int", 3), Written("real", 9),
                   Written("Bool", 1), Written("word", 0),
                   Atom(Loaded([Text("bool", 1) EXCEPT !.padded = TRUE], 0)),
                   Atom(Loaded([Text("word", 0) EXCEPT !.padded = TRUE], 0))}
Scalars == TypedScalars \cup WrittenScalars

Objects(scalars) ==
  {Map(<< >>)} \cup {Map(OneEntry(k, x)) : k \in {"p", "q"}, x \in scalars}
     \cup {Map(<< Entry("p", Map(OneEntry("q", x))), Entry("q", x) >>) : x \in scalars}

Arrays(items) == {Vector(<< x >>) : x \in items} \cup {Vector(<< x, y >>) : x, y \in items}

\* Maps and vectors, also where a value, another map or another vector is wanted.
FewScalars == {Typed("INT", 1), Typed("INT", 2), Typed("UINT", 2), Written("real", 9),
               Written("word", 0)}
Values == Scalars \cup Objects(FewScalars) \cup {Vector(<< >>)} \cup Arrays(FewScalars)
           \cup Arrays({Map(OneEntry("p", x)) : x \in FewScalars}
                         \cup {Vector(<< Typed("INT", 2) >>), Written("real", 9)})

Configs ==
  {<< >>} \cup {OneEntry("a", x) : x \in Values} \cup {OneEntry("b", x) : x \in Scalars}
     \cup {<< Entry("b", Written("word", 0)), Entry("a", x) >> : x \in Values}

\* Nodes.
Scalar(t) == [type |-> t]
Ranged(t, low, high) == [type |-> t, minimum |-> low, maximum |-> high]
Between(t) == Ranged(t, Bound("real", 9), Bound("real", 15))
Object(s) == [type |-> "object", properties |-> s]
Array(n) == [type |-> "array", contains |-> n]
Required(n) == [f \in DOMAIN n \cup {"required"} |-> IF f = "required" THEN TRUE ELSE n[f]]
Optional(n) == [f \in DOMAIN n \cup {"required"} |-> IF f = "required" THEN FALSE ELSE n[f]]

Types == {"integer", "number", "string", "boolean"}
ScalarNodes ==
  {Scalar(t) : t \in Types} \cup {Optional(Scalar("string")), Optional(Between("number"))}

\* Real bounds, written and assigned integers, and one of each; the last two are
\* in the wrong order, and unsigned.
RangedNodes ==
  {Ranged(t, b[1], b[2]) : t \in {"integer", "number"},
     b \in {<< Bound("real", 9), Bound("real", 15) >>, << Bound("int", 2), Bound("int", 2) >>,
            << Set(NewAtom, "INT", 2), Set(NewAtom, "INT", 2) >>,
            << Set(NewAtom, "INT", 2), Bound("real", 15) >>,
            << Bound("real", 15), Bound("int", 1) >>,
            << Set(NewAtom, "UINT", 1), Bound("int", 2) >>}}

Properties ==
  {OneEntry("p", Between("number")), OneEntry("q", Required(Scalar("integer"))),
   << Entry("p", Object(OneEntry("q", Required(Between("integer"))))), Entry("q", Scalar("number")) >>}
TreeNodes ==
  {Object(s) : s \in Properties}
     \cup {Array(Object(OneEntry("p", Required(Between("number"))))),
           Array(Scalar("number")), Array(Scalar("string"))}

\* Nodes that nothing can respect.
SenselessNodes ==
  {[minimum |-> Bound("int", 1)], Scalar("float"), Between("string"), Scalar("object"),
   Scalar("array"), Array([minimum |-> Bound("int", 1)]), Array(Scalar("object"))}

Around(n) == {OneEntry("a", n), OneEntry("a", Required(n)),
              << Entry("a", n), Entry("b", Required(Scalar("string"))) >>}

\* An integer node with bounds meets no integer that nobody has read yet, which is left
\* to schema_twice; one without bounds no fraction in a text, of which "%d" reads the
\* digits before the point; and no vector is an element where values are wanted, which
\* passes for its first element.
RECURSIVE Plain(_, _)
Plain(x, n) ==
  LET readsAsInteger(a) ==
        /\ a.type = "UNDEFINED"
        /\ IF Bounds(n) = {} THEN a.text.kind \in {"real", "fixed"} ELSE IsNumeric(a.text)
  IN  CASE TypeOf(n) = "object" /\ "properties" \in DOMAIN n /\ IsMap(x) ->
             \A i \in DOMAIN n.properties :
               LET e == n.properties[i]
               IN  HasKey(x.entries, e.key) => Plain(At(x.entries, e.key), e.val)
        [] TypeOf(n) = "array" /\ "contains" \in DOMAIN n /\ IsVector(x) ->
             \A i \in DOMAIN x.items :
               /\ TypeOf(n.contains) \in DOMAIN SchemaAtomTypes => ~IsVector(x.items[i])
               /\ Plain(x.items[i], n.contains)
        [] TypeOf(n) = "integer" /\ CanBeAtom(x) -> ~readsAsInteger(AtomOf(x, NewAtom))
        [] OTHER -> TRUE

PlainSchemas ==
  UNION {Around(n) : n \in ScalarNodes \cup RangedNodes \cup TreeNodes \cup SenselessNodes}

\* Nodes with a single bound, as those of mass and chip_size in test/schema.
AtLeast(t) == [type |-> t, minimum |-> Bound("real", 9)]
AtMost(t) == [type |-> t, maximum |-> Bound("int", 2)]
OneBoundNodes == {AtLeast("integer"), AtMost("integer"), AtLeast("number"), AtMost("number")}
OneBoundSchemas ==
  UNION {Around(n) : n \in OneBoundNodes \cup {Object(OneEntry("p", n)) : n \in OneBoundNodes}}

\* Those that keep no schema object use a bound once only.
SomeSchemas == PlainSchemas \cup OneBoundSchemas

PlainConfigsOf ==
  [s \in SomeSchemas |->
     {c \in Configs : \A i \in DOMAIN s : HasKey(c, s[i].key) => Plain(At(c, s[i].key), s[i].val)}]
PlainConfigs(s) == PlainConfigsOf[s]

\* An integer where the schema wants one between two bounds: from a file, and one that
\* a program has assigned as 2u.
BoundedInteger == {OneEntry("a", Between("integer"))}
WrittenInteger(s) == {OneEntry("a", Written("int", 2))}
UnsignedInteger(s) == {OneEntry("a", Typed("UINT", 2))}

\* An object that is said not to be required, as address of ODEInertial_schema.yaml
\* would be with required: False; the configuration has another key only.
OptionalObject == {<< Entry("a", Optional(Object(OneEntry("p", Scalar("number"))))),
                      Entry("b", Scalar("string")) >>}
WithoutA(s) == {OneEntry("b", Written("word", 0))}

\* The key ints of schema_example.yaml.
BoundedElements == {OneEntry("a", Array(Between("integer")))}
IntegerArrays(s) == {OneEntry("a", v) : v \in Arrays({Typed("INT", 1), Typed("INT", 3)})}
=============================================================================
