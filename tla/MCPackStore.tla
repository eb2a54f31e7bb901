----------------------------- MODULE MCPackStore -----------------------------
(* PackStore on small instances. *)
EXTENDS PackStore, TLC

CONSTANTS k1, k2, w1, w2

Files == 1..2

Sym == Permutations(Key) \cup Permutations(Writer)
=============================================================================
