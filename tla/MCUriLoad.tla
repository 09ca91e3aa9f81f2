----------------------------- MODULE MCUriLoad -----------------------------
(***************************************************************************)
(* Small instances of UriLoad.tla: a file, one beside it and one in a      *)
(* directory, each with one of a few shapes, or missing.                   *)
(***************************************************************************)
EXTENDS UriLoad, Documents

Filename(x) ==
  IF ~CanBeAtom(x) THEN NoName
  ELSE LET t == AtomOf(x, Empty)
       IN  CASE t = "b" -> << "b" >>
             [] t = "sub/b" -> << "sub", "b" >>
             [] t = "../b" -> << "..", "b" >>
             [] OTHER -> << t >>

Uris == {"b", "sub/b", "../b"}

Named(t) == Entry("URI", Scalar(t))
Value(t) == Entry("k", Scalar(t))

\* A file by its name and one value: it names another file before its own value or
\* after it, below a key, or below the elements of a list, or it does not; or its value
\* may name another still, which does not matter when it gives way to an included one.
Shapes(v) ==
  {Mapping(<< Value(v) >>), Mapping(<< Entry("l", Sequence(<< Scalar(v) >>)) >>)}
  \cup {Mapping(<< Named(t), Value(v) >>) : t \in Uris}
  \cup {Mapping(<< Value(v), Named(t) >>) : t \in Uris}
  \cup {Mapping(<< Entry("k", Mapping(<< Named(t) >>)) >>) : t \in Uris}
  \cup {Mapping(<< Named(t), Entry("k", Mapping(<< Named("b") >>)) >>) : t \in Uris}
  \cup {Mapping(<< Entry("l", Sequence(<< Mapping(<< Named(t) >>) >>)) >>) : t \in Uris}

\* What loading stumbles over.
Stones == {Null, Scalar("x"), Mapping(<< Entry("URI", Mapping(<< >>)) >>)}

Directories ==
  LET names == {<< "a" >>, << "b" >>, << "sub", "b" >>}
  IN  {<< "a" >> :> a @@ << "b" >> :> b @@ << "sub", "b" >> :> c :
         a \in Shapes("1"), b \in Shapes("2") \cup Stones, c \in Shapes("3")}
      \cup {<< "a" >> :> a @@ << "sub", "b" >> :> c : a \in Shapes("1") \cup Stones, c \in Shapes("3")}

\* fromYamlStream
SomeDisks == {[f \in {g \in DOMAIN d : CanLoad[d[g]]} |-> FromYaml[d[f]]] : d \in Directories}

FileA == << "a" >>

SomeKeys == << "URI", "k", "l" >>

Texts == STRING

Parts(x) == PartsOfItem[x]

\* The inlining of x, or nothing if it comes to one of the files F.
RECURSIVE InlinedBut(_, _, _, _)
InlinedBut(d, x, path, F) ==
  CASE IsVector(x) ->
         LET s == [i \in DOMAIN x.items |-> InlinedBut(d, x.items[i], path, F)]
         IN  IF None \in Range(s) THEN None ELSE Vector(s)
    [] IsMap(x) ->
         LET uri == At(x.entries, Uri)
             file == FileOf(path, uri)
             included == IF ~HasKey(x.entries, Uri) THEN Map(<< >>)
                         ELSE IF CanLoadFrom(d, path, uri) /\ file \notin F
                         THEN InlinedBut(d, d[file], GetPathOfFile(file), F \cup {file})
                         ELSE None
             own == SelectSeq(x.entries, LAMBDA e : e.key # Uri)
             with(u) == [i \in DOMAIN own |->
                           IF HasKey(u, own[i].key) THEN At(u, own[i].key)
                           ELSE InlinedBut(d, own[i].val, path, F)]
         IN  IF ~IsMap(included) \/ None \in Range(with(included.entries)) THEN None
             ELSE Map([i \in DOMAIN own |-> Entry(own[i].key, with(included.entries)[i])]
                      \o SelectSeq(included.entries, LAMBDA e : ~HasKey(own, e.key)))
    [] OTHER -> x

InlinedItem(d, x, path) == InlinedBut(d, x, path, {})
=============================================================================
