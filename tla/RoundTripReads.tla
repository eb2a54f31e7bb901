--------------------------- MODULE RoundTripReads ---------------------------
(***************************************************************************)
(* What the reads of FsTree answer about the trees that RoundTrip builds.  *)
(***************************************************************************)
EXTENDS RoundTrip, FsTree

CONSTANT PageSizes   \* limits of a listing

Dirs == {p \in DOMAIN keyOf : IsDirectory(src, p)}

\* The lookups find exactly what the source has: each path leads to its entry and
\* its content and no path leads through a file; each directory has its names, and
\* none below, between or above them.
LookupsExact ==
  phase = "built" =>
    LET top == keyOf[<<>>]
        entry(p) == Entry(src, keyOf, p)
    IN /\ \A p \in DOMAIN src :
            /\ ResolveEntry(top, p) = <<entry(p)>>
            /\ descend(top, p) = entry(p).content
            /\ src[p].kind # "dir" => /\ descend(top, Append(p, 2)) = <<>>
                                      /\ ResolveEntry(top, Append(p, 2)) = <<>>
       /\ \A d \in Dirs :
            LET names == {Last(q) : q \in {q \in DOMAIN src : Front(q) = d}}
            IN \A n \in 0..(Max(names \cup {0}) + 1) :
                 LookupEntry(keyOf[d], n) = IF n \in names THEN <<entry(Append(d, n))>> ELSE <<>>

\* A page starting after any name, existing or not, holds the next entries in
\* order and says truly whether more follow; the loop of ls lists each entry once.
PagesExact ==
  phase = "built" =>
    \A d \in Dirs :
      LET kids == ReadDir(src, d)
          all == [i \in DOMAIN kids |-> Entry(src, keyOf, kids[i])]
      IN \A limit \in PageSizes :
           /\ lsFrom(keyOf[d], 0, limit) = all
           /\ \A after \in 0..(Len(all) * 2 + 1) :
                LET rest == SelectSeq(all, LAMBDA e : e.name > after)
                    page == ListEntries(keyOf[d], after, limit)
                IN /\ page.out = SubSeq(rest, 1, Min({limit, Len(rest)}))
                   /\ page.more <=> Len(rest) > limit
=============================================================================
