----------------------------- MODULE MCRoundTrip -----------------------------
(* RoundTrip on a wide directory, on files of several shapes, and on a tree   *)
(* with every kind of entry, restored by root and not, into an empty          *)
(* destination and into one that has something in the way.  Names are even,   *)
(* so that the odd numbers are the names in between.                          *)
EXTENDS RoundTripReads

CONSTANTS Dest, Wide, Long, Forms

File(mode, xattrs, chunks) ==
  [kind |-> "reg", mode |-> mode, owner |-> "u", xattrs |-> xattrs, data |-> chunks]

Other(kind, data) == [kind |-> kind, mode |-> {}, owner |-> "u", xattrs |-> "none", data |-> data]

Directory(mode) == [kind |-> "dir", mode |-> mode, owner |-> "u", xattrs |-> "short", data |-> <<>>]

WideDirs == {[p \in {<<2 * i>> : i \in 1..n} |-> Other("fifo", <<>>)] : n \in 0..Wide}

LongFiles ==
  {(<<2>> :> File({"w"}, "none", [i \in 1..n |-> IF i % 3 = 0 THEN "b" ELSE "a"])) : n \in 0..Long}

RX == {"x"}
RWX == {"w", "x"}

Mixed(m) ==
  (<<2>> :> Directory(m)) @@
  (<<2, 2>> :> File({"x", "s"}, "long", <<"a">>)) @@
  (<<2, 4>> :> Directory(RX)) @@
  (<<2, 4, 2>> :> Other("symlink", <<"to">>)) @@
  (<<4>> :> Other("dev", <<"rdev">>)) @@
  (<<6>> :> Other("sock", <<>>))

Mine(kind) ==
  [kind |-> kind, mode |-> RWX, owner |-> "me", xattrs |-> "none", mtime |-> "old", data |-> <<>>]

Befores == {<<>>,
            (<<2>> :> Mine("dir")) @@ (<<2, 3>> :> Mine("reg")),
            (<<2>> :> Mine("symlink")),
            (<<2>> :> Mine("dir")) @@ (<<2, 2>> :> Mine("reg")),
            (<<2>> :> Mine("dir")) @@ (<<2, 2>> :> Mine("dir"))}

Scenario(s, pre, as, d) == [src |-> s, pre |-> pre, as |-> as, dest |-> d]

MCScenarios ==
  {Scenario(s, <<>>, TRUE, d) : s \in WideDirs \cup LongFiles, d \in Forms}
  \cup {Scenario(Mixed(m), pre, as, d) :
          m \in {RX, RWX, {"w"}}, pre \in Befores, as \in BOOLEAN, d \in Forms}

MCForms == {<<Dest>>}

\* "dest", "./dest" and "dest/".
MCAllForms == {<<Dest>>, <<Dot, Dest>>, <<Dest, Empty>>}
=============================================================================
