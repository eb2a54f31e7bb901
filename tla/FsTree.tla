------------------------------- MODULE FsTree -------------------------------
(***************************************************************************)
(* The reads of package fstree that answer a question about a built tree:  *)
(* lookups, listings and paths.  CollectEntries and WriteContent, which    *)
(* feed the exporter object by object, are steps of TarRestore.            *)
(***************************************************************************)
EXTENDS TreeBuilder

\* sort.Search: the least of the indices for which the predicate holds, or one past
\* the last.
Search(n, hits) == Min(hits \cup {n + 1})

\* Mutant: a pair whose SepName is the name itself is passed over.
ChildAfter(pairs, name) == Search(Len(pairs), {j \in DOMAIN pairs : pairs[j].sep > name})

\* The first pair whose SepName >= name roots the only subtree that can hold name.
ChildFor(pairs, name) == Search(Len(pairs), {j \in DOMAIN pairs : pairs[j].sep >= name})

\* The entry called name, or <<>> for ErrNotFound and for a key that is no
\* directory.
RECURSIVE LookupEntry(_, _)
LookupEntry(k, name) ==
  LET b == k.body
  IN CASE k.type = "DirLeaf" ->
            LET i == Search(Len(b), {j \in DOMAIN b : b[j].name >= name})
            IN IF i <= Len(b) /\ b[i].name = name THEN <<b[i]>> ELSE <<>>
       [] k.type = "DirNode" ->
            LET i == ChildFor(b, name)
            IN IF i > Len(b) THEN <<>> ELSE LookupEntry(b[i].child, name)
       [] OTHER -> <<>>

\* Mutant: a full page says that more follows.
FillsPage(rest, room) == Len(rest) >= room

\* A qualifying entry beyond the limit exists.
Overflows(rest, room) == Len(rest) > room

\* listInto on what is listed so far: what does not fit is only reported.
RECURSIVE listInto(_, _, _, _)
listInto(acc, k, after, limit) ==
  LET b == k.body
  IN IF k.type = "DirLeaf"
     THEN LET rest == SubSeq(b, Search(Len(b), {j \in DOMAIN b : b[j].name > after}), Len(b))
              room == limit - Len(acc.out)
          IN [out |-> acc.out \o SubSeq(rest, 1, Min({room, Len(rest)})), more |-> Overflows(rest, room)]
     ELSE FoldLeft(LAMBDA a, p : IF a.more THEN a ELSE listInto(a, p.child, after, limit), acc,
                   SubSeq(b, Search(Len(b), {j \in DOMAIN b : b[j].sep > after}), Len(b)))

ListEntries(k, after, limit) == listInto([out |-> <<>>, more |-> FALSE], k, after, limit)

\* runLs: pages until no more follows.
RECURSIVE lsFrom(_, _, _)
lsFrom(k, after, limit) ==
  LET page == ListEntries(k, after, limit)
  IN page.out \o IF page.more THEN lsFrom(k, Last(page.out).name, limit) ELSE <<>>

\* ResolvePath: the directory a path of names leads to, or <<>>.
RECURSIVE ResolvePath(_, _)
ResolvePath(k, path) ==
  IF path = <<>> THEN <<k>>
  ELSE LET e == LookupEntry(k, Head(path))
       IN IF e = <<>> \/ e[1].kind # "dir" THEN <<>> ELSE ResolvePath(e[1].content[1], Tail(path))

\* ResolveEntry: the entry a non-empty path of names leads to, or <<>>.
ResolveEntry(k, path) ==
  LET dir == ResolvePath(k, Front(path))
  IN IF dir = <<>> THEN <<>> ELSE LookupEntry(dir[1], Last(path))

\* descend: the content key a path leads to, through files and directories alike.
RECURSIVE descend(_, _)
descend(k, path) ==
  IF path = <<>> THEN <<k>>
  ELSE LET e == LookupEntry(k, Head(path))
       IN IF e = <<>> \/ e[1].content = <<>> THEN <<>> ELSE descend(e[1].content[1], Tail(path))
=============================================================================
