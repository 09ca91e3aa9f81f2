----------------------------- MODULE ConfigTree -----------------------------
(***************************************************************************)
(* A program at work on one configuration: it walks down with operator[],  *)
(* holding a reference (ConfigItem &r) to where it is, asks, reads,        *)
(* assigns, appends, merges, and saves and loads the whole.  Every call on *)
(* r is an action; the items of the tree are those of ConfigItems.tla, the *)
(* documents those of Documents.tla.                                       *)
(*                                                                         *)
(* A call that throws sends the program back to the root.  If it changed   *)
(* nothing before, it is left out.                                         *)
(*                                                                         *)
(* An atom is the text it was given or loaded with.  That reading it fixes *)
(* its type, so that it throws for other types and is saved as what was    *)
(* read, is left to ConfigAtom.tla.                                        *)
(***************************************************************************)
EXTENDS Documents, FiniteSets

CONSTANTS Vals,      \* the values the program assigns to atoms
          Updates,   \* maps the program merges into the configuration
          YamlFiles, JsonFiles,  \* documents others wrote
          MaxItems   \* bound on the number of items of the tree

ASSUME ValsAssumption == Vals \subseteq Atoms \ {Empty}
ASSUME MaxItemsAssumption == MaxItems \in Nat \ {0}
ASSUME YamlFilesAssumption == \A d \in YamlFiles : d \in Yaml
ASSUME JsonFilesAssumption == \A d \in JsonFiles : d \in Json

\* The keys of a map are unique.
WellFormed(x) == \A y \in PartsOfItem[x] : IsMap(y) => IsInjective(KeysOf(y.entries))

ASSUME UpdatesAssumption == \A u \in Updates : u \in Maps /\ WellFormed(u)

VARIABLES root,  \* the configuration
          ref    \* the path of r: keys of maps and positions in vectors

vars == << root, ref >>

Size[x \in Items] ==
  LET c == Children(x)
      upTo[n \in 0 .. Len(c)] == IF n = 0 THEN 1 ELSE upTo[n - 1] + Size[c[n]]
  IN  upTo[Len(c)]

r == ItemOf(root, ref)

Bounded(x) == x \in Items /\ Size[x] <= MaxItems

\* The call leaves y where r refers to, and the program goes on at path below it.
Leave(y, path) ==
  /\ ref' = ref \o path
  /\ root' = Replace(root, ref, y)
  /\ Bounded(root')

Init == root = Map(<< >>) /\ ref = << >>
-----------------------------------------------------------------------------
\* operator[](std::string): a vector stands for its first element, an atom throws.
Key(k) ==
  LET x == FirstOf(r)
      path == FirstPath[r]
  IN  /\ CanBeMap(x)
      /\ Leave(Replace(r, path, Map(WithKey(AsMap(x).entries, k))), path \o << k >>)

\* operator[](size_t): an element, or a new one at the end.  Further behind the
\* call throws, after it has converted the item.
Index(i) ==
  LET v == AsVector(r).items
  IN  CASE i <= Len(v) -> Leave(Vector(v), << i >>)
        [] i = Len(v) + 1 -> Leave(Vector(Append(v, None)), << i >>)
        [] OTHER -> /\ root' = Replace(root, ref, Vector(v))
                    /\ Bounded(root')
                    /\ ref' = << >>

\* (T)r, as far as it changes which items there are, and r = v.
Read == CanBeAtom(r) /\ Leave(WithAtom(r, AtomOf(r, Empty)), << >>)

AssignValue(v) == CanBeAtom(r) /\ Leave(WithAtom(r, v), << >>)

\* r = ConfigMap(), r = ConfigVector() or r = ConfigItem()
AssignNew == \E y \in {Map(<< >>), Vector(<< >>), None} : Leave(y, << >>)

\* r.hasKey(k), r.find(k), r.beginMap()
AskMap == CanBeMap(r) /\ Leave(AsMap(r), << >>)

\* r.begin(), r.end(): the loop "for (ConfigItem &o : r)"
AskVector == Leave(AsVector(r), << >>)

\* r += v, r.push_back(v), r.append(v)
AppendValue(v) == Leave(Vector(Append(AsVector(r).items, Atom(v))), << >>)

\* ConfigMap::get<T>(k, d) and getOrCreate<T>(k, d) of the map that r holds; the
\* first neither creates k nor stores d.
Get(k) ==
  /\ IsMap(r) /\ HasKey(r.entries, k)
  /\ LET x == At(r.entries, k)
     IN  CanBeAtom(x) /\ Leave(Map(Store(r.entries, k, WithAtom(x, AtomOf(x, Empty)))), << >>)

\* Fault: the new item does not get d.
GetOrCreateUnassigned(k, d) ==
  \/ Get(k)
  \/ /\ IsMap(r) /\ ~HasKey(r.entries, k)
     /\ Leave(Map(WithKey(r.entries, k)), << >>)

GetOrCreate(k, d) ==
  \/ Get(k)
  \/ /\ IsMap(r) /\ ~HasKey(r.entries, k)
     /\ Leave(Map(Store(r.entries, k, Atom(d))), << >>)

\* ((ConfigMap &)r).erase(k), and r.erase(it) of an element
EraseKey(k) ==
  /\ IsMap(r) /\ HasKey(r.entries, k)
  /\ LET i == CHOOSE j \in DOMAIN r.entries : r.entries[j].key = k
     IN  Leave(Map(Cut(r.entries, i, i + 1)), << >>)

EraseElement(i) ==
  /\ IsVector(r) /\ i \in DOMAIN r.items
  /\ Leave(Vector(Cut(r.items, i, i + 1)), << >>)

\* r.appendMap(u)
AppendMap(u) == CanBeMap(r) /\ Leave(Map(Merged(AsMap(r).entries, u.entries)), << >>)

\* Fault: two maps under one key are not merged.
AreMapsNever(s, e) == FALSE

\* The entry e of an update meets a map under its key, and is one.
AreMaps(s, e) == HasKey(s, e.key) /\ IsMap(At(s, e.key)) /\ IsMap(e.val)

\* r.updateMap(u): what u makes of each map x.  Two maps under one key are updated,
\* anything else is replaced.  As the keys of u are unique, the map it finds under a key
\* is the one of x.
Updated[u \in Maps] ==
  [x \in Maps |->
     Map(Merged(x.entries,
                [i \in DOMAIN u.entries |->
                   LET e == u.entries[i]
                   IN  IF AreMaps(x.entries, e)
                       THEN Entry(e.key, Updated[e.val][At(x.entries, e.key)])
                       ELSE e]))]

UpdateMap(u) == CanBeMap(r) /\ Leave(Updated[u][AsMap(r)], << >>)

Restart == ref # << >> /\ ref' = << >> /\ UNCHANGED root

\* root = ConfigItem::fromYamlFile(...) or fromJsonString(...), of a document that
\* somebody wrote or of the one that this program saves.
Load(x) ==
  /\ ref = << >>
  /\ root' = x
  /\ Bounded(root')
  /\ UNCHANGED ref

LoadYaml(d) == CanLoad[d] /\ Load(FromYaml[d])
LoadJson(d) == Load(FromJson[d])

\* root = ConfigMap::fromYamlFile(...) or fromJsonString(...), which throw for what is
\* no map.
LoadMap(x) == IsMap(x) /\ Load(x)

LoadYamlMap(d) == CanLoad[d] /\ LoadMap(FromYaml[d])
LoadJsonMap(d) == LoadMap(FromJson[d])

ReloadYaml == CanDump(root) /\ (LoadYaml(ToYaml[root]) \/ LoadYamlMap(ToYaml[root]))
ReloadJson == CanDump(root) /\ (LoadJson(ToJson[root]) \/ LoadJsonMap(ToJson[root]))

Access ==
  \/ \E k \in Keys : Key(k) \/ Get(k)
  \/ \E i \in 1 .. MaxItems : Index(i)
  \/ Read
  \/ AskMap
  \/ AskVector

Change ==
  \/ \E v \in Vals : AssignValue(v) \/ AppendValue(v) \/ \E k \in Keys : GetOrCreate(k, v)
  \/ AssignNew
  \/ \E k \in Keys : EraseKey(k)
  \/ \E i \in 1 .. MaxItems : EraseElement(i)
  \/ \E u \in Updates : AppendMap(u) \/ UpdateMap(u)

Reload ==
  \/ \E d \in YamlFiles : LoadYaml(d) \/ LoadYamlMap(d)
  \/ \E d \in JsonFiles : LoadJson(d) \/ LoadJsonMap(d)
  \/ ReloadYaml
  \/ ReloadJson

Next == Access \/ Change \/ Reload \/ Restart

Spec == Init /\ [][Next]_vars
-----------------------------------------------------------------------------
\* Keys are unique in every map, and the reference is to an item that is there.
TypeOK ==
  /\ Bounded(root)
  /\ WellFormed(root)
  /\ ref \in Seq(Keys \cup 1 .. MaxItems) /\ LeadsSomewhere(root, ref)

\* The assigned values of a tree, in the order of the document.
Contents[x \in Items] ==
  IF IsAtom(x) /\ x.atom # Empty THEN << x.atom >>
  ELSE FlattenSeq([i \in DOMAIN Children(x) |-> Contents[Children(x)[i]]])

\* No access loses a value or puts two of them into another order, though most of
\* them create, wrap and convert items where they find another kind than asked.
AccessKeepsValues == [][Contents[root'] # Contents[root] => ~Access]_vars

\* What a map has at a path of keys.
Has(x, path) ==
  \A n \in 1 .. Len(path) :
    LET y == Trail(x, path)[n - 1] IN IsMap(y) /\ HasKey(y.entries, path[n])

\* y is the deep merge of the maps x and u.
MergeOf(x, u, y) ==
  /\ IsPrefix(KeysOf(x.entries), KeysOf(y.entries))
  /\ \A path \in SeqOf(Keys, 3) \ {<< >>} :
       LET covered == \E n \in 1 .. Len(path) - 1 :
             LET up == SubSeq(path, 1, n)
             IN  /\ Has(u, up)
                 /\ ~(IsMap(ItemOf(u, up)) /\ Has(x, up) /\ IsMap(ItemOf(x, up)))
       IN  /\ Has(y, path) <=> (Has(u, path) \/ (Has(x, path) /\ ~covered))
           /\ Has(u, path) =>
                LET z == ItemOf(u, path)
                IN  IF IsMap(z) /\ Has(x, path) /\ IsMap(ItemOf(x, path))
                    THEN IsMap(ItemOf(y, path))
                    ELSE ItemOf(y, path) = z
           /\ ~Has(u, path) /\ Has(y, path) => ItemOf(y, path) = ItemOf(x, path)

\* updateMap is a deep merge: where the update has an item, the result has it, or
\* the merge of two maps; elsewhere the result has what was there, unless the
\* update put something that is no map above it.  Keys keep their places.
UpdateIsDeep ==
  [][\A u \in Updates :
       IsMap(r) /\ UpdateMap(u) => MergeOf(r, u, ItemOf(root', ref))]_vars

\* A configuration that can be saved stays so, but for the calls that give the
\* program a reference to an item that is still empty, such as operator[] of a
\* missing key: a program that assigns what it looks up can save at any time.
SpoiledOnlyByLookup ==
  [][CanDump(root) /\ ~CanDump(root') => IsNone(ItemOf(root', ref'))]_vars

\* What a YAML file gives back is what was saved, in the same order: items, keys, and
\* the texts they are saved as.
YamlKeepsAll ==
  CanDump(root) => CanLoad[ToYaml[root]] /\ FromYaml[ToYaml[root]] = root

\* The items of a tree with their paths; of an atom, what it reads as.
Facts[x \in Items] ==
  LET what == IF IsAtom(x) THEN << "atom", TextOf(TextToJson(x.atom)) >> ELSE << x.kind >>
      step(i) == IF IsMap(x) THEN x.entries[i].key ELSE i
  IN  {<< << >>, what >>} \cup
      UNION {{<< << step(i) >> \o f[1], f[2] >> : f \in Facts[Children(x)[i]]} :
             i \in DOMAIN Children(x)}

\* JSON gives back every item under its keys and at its index but for the containers
\* with nothing in them: these are missing, or, where no key is, an empty text. So an
\* empty map is the one ConfigMap that ConfigMap::fromJsonString does not take back.
JsonKeepsAllButEmpty ==
  CanDump(root) =>
    LET bare(f) == f[2] \in {<< "map" >>, << "vector" >>} /\ Children(ItemOf(root, f[1])) = << >>
        unkeyed(f) == f[1] = << >> \/ IsVector(ItemOf(root, Front(f[1])))
    IN  Facts[FromJson[ToJson[root]]] =
          {f \in Facts[root] : ~bare(f)} \cup
          {<< f[1], << "atom", Empty >> >> : f \in {g \in Facts[root] : bare(g) /\ unkeyed(g)}}
=============================================================================
