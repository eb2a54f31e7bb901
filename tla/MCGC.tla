-------------------------------- MODULE MCGC --------------------------------
(* Small instances of GC: a tree of two objects, whose leaf may be a root. *)
EXTENDS GC, TLC

CONSTANTS r1, leaf, s1, s2, s3

MCKey == {r1, leaf}
MCChildren == (r1 :> {leaf}) @@ (leaf :> {})
MCSlot == {s1, s2, s3}

Symmetry == Permutations(MCSlot) \cup Permutations(Uploader)
=============================================================================
