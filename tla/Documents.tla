----------------------------- MODULE Documents -----------------------------
(***************************************************************************)
(* Configurations as YAML and JSON documents: what the constructors from   *)
(* YAML::Node and Json::Value make of a document, and what                 *)
(* dumpToYamlEmitter and dumpToJsonValue make of an item.  Documents are   *)
(* what the parsers deliver: a YAML mapping is a sequence of pairs, in     *)
(* which keys may be repeated, and a JSON object a function from all keys, *)
(* with null where it has nothing.  They have as many levels as items have.*)
(***************************************************************************)
EXTENDS ItemTrees

CONSTANTS Empty,    \* the text ""
          KeyOrder  \* the keys in the order in which a Json::Value has them

ASSUME EmptyAssumption == {Empty, "true", "false"} \subseteq Atoms
ASSUME EmptyIsNoTruth == Empty \notin {"true", "True", "TRUE", "false", "False", "FALSE"}
ASSUME KeyOrderAssumption == KeyOrder \in Seq(Keys) /\ IsInjective(KeyOrder) /\ ToSet(KeyOrder) = Keys

Null == [type |-> "null"]
Scalar(t) == [type |-> "scalar", text |-> t]
Sequence(s) == [type |-> "sequence", items |-> s]
Mapping(s) == [type |-> "mapping", pairs |-> s]

Boolean(b) == [type |-> "boolean", is |-> b]
String(t) == [type |-> "string", text |-> t]
Array(s) == [type |-> "array", items |-> s]
Object(f) == [type |-> "object", members |-> f]

IsNull(d) == d.type = "null"

YamlOf[n \in 0 .. MaxLevels] ==
  IF n = 0 THEN {}
  ELSE LET parts == YamlOf[n - 1]
       IN  {Null} \cup [type : {"scalar"}, text : Atoms]
             \cup [type : {"sequence"}, items : Seq(parts)]
             \cup [type : {"mapping"}, pairs : Seq([key : Keys, val : parts])]

JsonOf[n \in 0 .. MaxLevels] ==
  IF n = 0 THEN {}
  ELSE LET parts == JsonOf[n - 1]
       IN  {Null} \cup [type : {"boolean"}, is : BOOLEAN] \cup [type : {"string"}, text : Atoms]
             \cup [type : {"array"}, items : Seq(parts)]
             \cup [type : {"object"}, members : [Keys -> parts]]

Yaml == YamlOf[MaxLevels]
Json == JsonOf[MaxLevels]
-----------------------------------------------------------------------------
\* ConfigItem(const YAML::Node &) throws for a null that is not the value of a key.
CanLoad[d \in Yaml] ==
  /\ ~IsNull(d)
  /\ d.type = "sequence" => \A i \in DOMAIN d.items : CanLoad[d.items[i]]
  /\ d.type = "mapping" =>
       \A i \in DOMAIN d.pairs : IsNull(d.pairs[i].val) \/ CanLoad[d.pairs[i].val]

\* Faults: the entries are put in front; nulls are not left out.
EmplacedInFront(s) ==
  LET kept[n \in 0 .. Len(s)] ==
        IF n = 0 THEN << >>
        ELSE IF IsNull(s[n].val) \/ HasKey(kept[n - 1], s[n].key) THEN kept[n - 1]
        ELSE << s[n] >> \o kept[n - 1]
  IN  kept[Len(s)]

EmplacedNulls(s) ==
  LET kept[n \in 0 .. Len(s)] ==
        IF n = 0 THEN << >>
        ELSE IF HasKey(kept[n - 1], s[n].key) THEN kept[n - 1]
        ELSE Append(kept[n - 1], s[n])
  IN  kept[Len(s)]

\* Of the entries s, those without nulls, and of those with the same key the first.
Emplaced(s) ==
  LET kept[n \in 0 .. Len(s)] ==
        IF n = 0 THEN << >>
        ELSE IF IsNull(s[n].val) \/ HasKey(kept[n - 1], s[n].key) THEN kept[n - 1]
        ELSE Append(kept[n - 1], s[n])
  IN  kept[Len(s)]

\* Nothing comes of a document that cannot be loaded.
FromYaml[d \in Yaml] ==
  CASE d.type = "sequence" -> Vector([i \in DOMAIN d.items |-> FromYaml[d.items[i]]])
    [] d.type = "mapping" ->
         LET s == Emplaced(d.pairs)
         IN  Map([i \in DOMAIN s |-> Entry(s[i].key, FromYaml[s[i].val])])
    [] OTHER -> IF IsNull(d) THEN None ELSE Atom(d.text)

\* asString: null is "".
TextOf(d) ==
  CASE IsNull(d) -> Empty
    [] d.type = "boolean" -> IF d.is THEN "true" ELSE "false"
    [] d.type = "string" -> d.text

Members(d) == [i \in DOMAIN KeyOrder |-> Entry(KeyOrder[i], d.members[KeyOrder[i]])]

FromJson[d \in Json] ==
  CASE d.type = "array" -> Vector([i \in DOMAIN d.items |-> FromJson[d.items[i]]])
    [] d.type = "object" ->
         LET s == Emplaced(Members(d))
         IN  Map([i \in DOMAIN s |-> Entry(s[i].key, FromJson[s[i].val])])
    [] OTHER -> Atom(TextOf(d))
-----------------------------------------------------------------------------
ToYaml[x \in Items] ==
  CASE IsVector(x) -> Sequence([i \in DOMAIN x.items |-> ToYaml[x.items[i]]])
    [] IsMap(x) ->
         Mapping([i \in DOMAIN x.entries |->
                    Entry(x.entries[i].key, ToYaml[x.entries[i].val])])
    [] OTHER -> IF IsNone(x) THEN Null ELSE Scalar(x.atom)

\* ConfigAtom::dumpToJsonValue
TextToJson(t) ==
  CASE t \in {"true", "True", "TRUE"} -> Boolean(TRUE)
    [] t \in {"false", "False", "FALSE"} -> Boolean(FALSE)
    [] OTHER -> String(t)

\* A value to which nothing is added remains null.
ToJson[x \in Items] ==
  CASE IsVector(x) /\ x.items # << >> -> Array([i \in DOMAIN x.items |-> ToJson[x.items[i]]])
    [] IsMap(x) /\ x.entries # << >> ->
         Object([k \in Keys |->
                   IF HasKey(x.entries, k) THEN ToJson[At(x.entries, k)] ELSE Null])
    [] OTHER -> IF IsAtom(x) THEN TextToJson(x.atom) ELSE Null
=============================================================================
