------------------------------ MODULE UriLoad ------------------------------
(***************************************************************************)
(* ConfigItem::fromYamlFile(filename, true): a file is loaded, and in every*)
(* map of it the entry "URI" gives way to the entries of the file that it  *)
(* names, and so on.  Each call of recursiveLoad is a frame of the stack,  *)
(* which ends where the memory for it does.                                *)
(*                                                                         *)
(* A filename is the sequence of its parts between the slashes, without    *)
(* the "./" in front.  A file or directory is known by its place: the      *)
(* directories above it, from where the program is, and its own name.      *)
(***************************************************************************)
EXTENDS ConfigItems

CONSTANTS Start,          \* the filename that the program asks for
          Disks,          \* what the files may be: functions from the places of files
                          \* that can be read to the items that fromYamlStream returns
          FilenameOf(_),  \* the filename that an item is, by operator std::string,
          NoName,         \* or this if that throws
          Uri,            \* the key "URI"
          MaxDepth        \* bound on the number of frames

\* Two definitions by recursion over an item, for which see PartsAssumption and
\* InlinedAssumption.
CONSTANTS PartsOf(_),       \* an item and all that is below it
          Inlined(_, _, _)  \* an item of a disk in a directory, with all files put in

ASSUME MaxDepthAssumption == MaxDepth \in Nat \ {0}

VARIABLES disk, stack, result

vars == << disk, stack, result >>

Running == [is |-> "running"]
Loaded(x) == [is |-> "loaded", item |-> x]
Failed == [is |-> "failed"]
Overflow == [is |-> "overflow"]

\* Where the operating system finds what is called filename in the directory path: ".."
\* is the directory above.
Place(path, filename) ==
  FoldLeft(LAMBDA p, part : IF part = ".." /\ p # << >> THEN Front(p) ELSE Append(p, part),
           path, filename)

First == Place(<< >>, Start)
FileOf(path, x) == Place(path, FilenameOf(x))

GetPathOfFile(file) == Front(file)

\* operator std::string, std::ifstream and fromYamlStream throw for any other.
CanLoadFrom(d, path, x) == FilenameOf(x) # NoName /\ FileOf(path, x) \in DOMAIN d

\* What a ConfigItem can be: the keys of a map are unique.
Proper(x) ==
  /\ x.kind \in {"atom", "vector", "map"}
  /\ IsAtom(x) => x = Atom(x.atom)
  /\ IsVector(x) => x = Vector(x.items) /\ x.items \in Seq(Range(x.items))
  /\ IsMap(x) =>
       /\ x = Map(x.entries) /\ x.entries \in Seq(Range(x.entries))
       /\ \A i \in DOMAIN x.entries : x.entries[i] = Entry(x.entries[i].key, x.entries[i].val)
       /\ \A i, j \in DOMAIN x.entries : x.entries[i].key = x.entries[j].key => i = j

ASSUME PartsAssumption ==
  \A d \in Disks : \A x \in Range(d) :
    LET closed(S) == x \in S /\ \A y \in S : Range(Children(y)) \subseteq S
    IN  /\ closed(PartsOf(x)) /\ \A S \in SUBSET PartsOf(x) : closed(S) => S = PartsOf(x)
        /\ \A y \in PartsOf(x) : Proper(y)

\* The entries s of a map but the URI.
Own(s) ==
  IF HasKey(s, Uri)
  THEN LET i == CHOOSE j \in DOMAIN s : s[j].key = Uri IN Cut(s, i, i + 1)
  ELSE s

\* What the map x of the directory path includes.
Included(d, x, path) ==
  IF HasKey(x.entries, Uri)
  THEN LET uri == At(x.entries, Uri)
           file == FileOf(path, uri)
       IN  IF CanLoadFrom(d, path, uri) THEN Inlined(d, d[file], GetPathOfFile(file)) ELSE None
  ELSE Map(<< >>)

\* A map has the entries of the file it names, its own where that has none, and these in
\* their places.  Nothing is what needs a file that is missing, or no map, or itself.
InlinedMap(d, x, path) ==
  LET own == Own(x.entries)
      u == Included(d, x, path)
      val(e) == IF HasKey(u.entries, e.key) THEN At(u.entries, e.key)
                ELSE Inlined(d, e.val, path)
  IN  IF ~IsMap(u) \/ \E i \in DOMAIN own : IsNone(val(own[i])) THEN None
      ELSE Map([i \in DOMAIN own |-> Entry(own[i].key, val(own[i]))]
               \o NewEntries(u.entries, x.entries))

InlinedVector(d, x, path) ==
  LET s == [i \in DOMAIN x.items |-> Inlined(d, x.items[i], path)]
  IN  IF \E i \in DOMAIN s : IsNone(s[i]) THEN None ELSE Vector(s)

ASSUME InlinedAssumption ==
  \A d \in Disks : \A file \in DOMAIN d : \A x \in PartsOf(d[file]) :
    LET path == GetPathOfFile(file)
    IN  Inlined(d, x, path) =
          CASE IsMap(x) -> InlinedMap(d, x, path)
            [] IsVector(x) -> InlinedVector(d, x, path)
            [] OTHER -> x
-----------------------------------------------------------------------------
CanRead(file) == file \in DOMAIN disk
Read(file) == disk[file]

(***************************************************************************)
(* recursiveLoad(item, path).  It is called on what fromYamlFile has read  *)
(* ("read"), then on the same again if an URI named it ("again"), and on   *)
(* the entries and elements of an item ("part").  it is the position of    *)
(* the iterator, erase that of the entry in the eraseList, if any.         *)
(***************************************************************************)
Frame(call, item, path) ==
  [call |-> call, item |-> item, path |-> path, it |-> 1, erase |-> 0]

AtEndOf(frame) == frame.it > Len(Children(frame.item))
PartOf(frame) == Children(frame.item)[frame.it]
AtUriOf(frame) ==
  ~AtEndOf(frame) /\ IsMap(frame.item) /\ frame.item.entries[frame.it].key = Uri

Top == Last(stack)
AtEnd == AtEndOf(Top)
AtUri == AtUriOf(Top)
Part == PartOf(Top)
Caller == Last(Front(stack))

Call(frame, callers) ==
  IF Len(callers) = MaxDepth
  THEN result' = Overflow /\ UNCHANGED stack
  ELSE stack' = Append(callers, frame) /\ UNCHANGED result

GoOnWith(frame, callers) == stack' = Append(callers, frame) /\ UNCHANGED result

Fail == result' = Failed /\ UNCHANGED stack

Init ==
  /\ disk \in Disks
  /\ IF CanRead(First)
     THEN stack = << Frame("read", Read(First), GetPathOfFile(First)) >> /\ result = Running
     ELSE stack = << >> /\ result = Failed
-----------------------------------------------------------------------------
\* Another entry, or an element.
Visit ==
  /\ result = Running /\ ~AtEnd /\ ~AtUri
  /\ IF IsMap(Part) \/ IsVector(Part)
     THEN Call(Frame("part", Part, Top.path), stack)
     ELSE GoOnWith([Top EXCEPT !.it = @ + 1], Front(stack))
  /\ UNCHANGED disk

\* Fault: what the file names is looked for where the file is that named it.
IncludeBeside ==
  /\ result = Running /\ AtUri
  /\ LET file == FileOf(Top.path, Part)
     IN  IF CanLoadFrom(disk, Top.path, Part)
         THEN Call(Frame("read", Read(file), Top.path), stack)
         ELSE Fail
  /\ UNCHANGED disk

\* The entry "URI".
Include ==
  /\ result = Running /\ AtUri
  /\ LET file == FileOf(Top.path, Part)
     IN  IF CanLoadFrom(disk, Top.path, Part)
         THEN Call(Frame("read", Read(file), GetPathOfFile(file)), stack)
         ELSE Fail
  /\ UNCHANGED disk

\* Fault: the eraseList is not worked off.
DoneKeeping == Top.item

\* What recursiveLoad leaves of its item, and what its caller goes on with.
Done ==
  IF Top.erase = 0 THEN Top.item ELSE Map(Cut(Top.item.entries, Top.erase, Top.erase + 1))

WithPart(frame, x) ==
  [frame EXCEPT !.it = @ + 1,
                !.item = IF IsMap(@) THEN Map([@.entries EXCEPT ![frame.it].val = x])
                         ELSE Vector([@.items EXCEPT ![frame.it] = x])]

\* Fault: the iterator is not moved on.
WithIncludedAgain(frame, x) ==
  [frame EXCEPT !.erase = frame.it, !.item = Map(Merged(@.entries, x.entries))]

WithIncluded(frame, x) ==
  [frame EXCEPT !.it = @ + 1, !.erase = frame.it,
                !.item = Map(Merged(@.entries, x.entries))]

Return ==
  /\ result = Running /\ AtEnd
  /\ CASE Len(stack) = 1 ->
            result' = Loaded(Done) /\ stack' = << >>
       [] Len(stack) > 1 /\ Top.call = "part" ->
            GoOnWith(WithPart(Caller, Done), Front(Front(stack)))
       [] Len(stack) > 1 /\ Top.call = "read" ->
            GoOnWith(Frame("again", Done, Top.path), Front(stack))
       [] Len(stack) > 1 /\ Top.call = "again" ->
            IF IsMap(Done)
            THEN GoOnWith(WithIncluded(Caller, Done), Front(Front(stack)))
            ELSE Fail
  /\ UNCHANGED disk

Stop == result # Running /\ UNCHANGED vars

Next ==
  \/ Visit
  \/ Include
  \/ Return
  \/ Stop

\* The call goes on until it returns or throws.
Spec == Init /\ [][Next]_vars /\ WF_vars(Next)
-----------------------------------------------------------------------------
\* The result is one of the four; the keys of the maps that are worked on are unique,
\* though entries are added to them on the way.
TypeOK ==
  /\ \/ result \in {Running, Failed, Overflow}
     \/ result = Loaded(result.item) /\ Proper(result.item)
  /\ Len(stack) <= MaxDepth
  /\ \A i \in DOMAIN stack :
       /\ Proper(stack[i].item)
       /\ stack[i].call \in {"read", "again", "part"}
       /\ stack[i].it \in 1 .. Len(Children(stack[i].item)) + 1
       /\ stack[i].erase \in 0 .. stack[i].it - 1

\* A configuration that is loaded has every file in the place of the entry that names
\* it, wherever in the map that entry stands; a file is found from where the file
\* that names it is.
LoadsWhatIsNamed ==
  result.is = "loaded" => result.item = Inlined(disk, Read(First), GetPathOfFile(First))

\* When recursiveLoad is called on an included file a second time, with the path of
\* that file or of another, it comes to no URI and so reads nothing again.
NothingIsLoadedTwice ==
  \A i, j \in DOMAIN stack :
    i <= j /\ stack[i].call = "again" =>
      /\ ~AtUriOf(stack[j])
      /\ i < j => stack[j].call = "part"

\* The items under the key "URI" in a file, and the files that these name, if they can
\* be read.
UrisOf(file) ==
  {At(x.entries, Uri) :
     x \in {y \in PartsOf(Read(file)) : IsMap(y) /\ HasKey(y.entries, Uri)}}
CanInclude(file, u) == CanLoadFrom(disk, GetPathOfFile(file), u)
NamedBy(file) ==
  {FileOf(GetPathOfFile(file), u) : u \in {v \in UrisOf(file) : CanInclude(file, v)}}

\* The files F and all that these name, and so on.
AllNamed(F) ==
  {f \in DOMAIN disk :
     \A S \in SUBSET DOMAIN disk : F \subseteq S /\ (\A g \in S : NamedBy(g) \subseteq S) => f \in S}

\* The stack overflows only if files name each other in a circle.
OverflowsOnlyInCircles ==
  result = Overflow => \E f \in AllNamed({First}) : f \in AllNamed(NamedBy(f))

\* Loading fails only for a file that cannot be read, or for one of those that are
\* named that names none where it should, or that is no map.
FailsForAReason ==
  result = Failed =>
    \/ ~CanRead(First)
    \/ \E f \in AllNamed({First}) :
         \/ \E g \in NamedBy(f) : ~IsMap(Read(g))
         \/ \E u \in UrisOf(f) : ~CanInclude(f, u)

\* The call returns or throws, if only because the memory is used up.
Ends == <>(result # Running)
=============================================================================
