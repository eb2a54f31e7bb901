------------------------------ MODULE MCInbox ------------------------------
(* Inbox on small instances. *)
EXTENDS Inbox, TLC

Symmetry == Permutations(Client) \cup Permutations(Worker) \cup Permutations(Root)
=============================================================================
