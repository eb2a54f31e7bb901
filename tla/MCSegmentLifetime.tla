------------------------- MODULE MCSegmentLifetime -------------------------
(* A small instance of SegmentLifetime.                                    *)
EXTENDS SegmentLifetime, TLC

CONSTANTS g1, g2, s1, s2, o1, o2

Symmetry == Permutations({g1, g2}) \cup Permutations({s1, s2}) \cup Permutations({o1, o2})
=============================================================================
