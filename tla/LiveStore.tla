------------------------------ MODULE LiveStore ------------------------------
(***************************************************************************)
(* What the store promises its users, with no segments, barrier or cycle:  *)
(* objects are stored and may be reaped, references are accepted and       *)
(* deleted.  A reference is accepted only over a complete tree, and only   *)
(* objects no reference reaches are reaped, at any time and in any number. *)
(***************************************************************************)
CONSTANTS
  Key,     \* object keys
  Reach,   \* Reach[k]: the keys of the tree rooted at k
  Name,    \* reference names
  NoRoot   \* "no reference stored under this name"

VARIABLES
  stored,  \* the objects a read finds
  refs     \* [Name -> Key \cup {NoRoot}]

Referenced == UNION {Reach[refs[n]] : n \in {m \in Name : refs[m] # NoRoot}}

Init ==
  /\ stored = {}
  /\ refs = [n \in Name |-> NoRoot]

Store(k) ==
  /\ stored' = stored \cup {k}
  /\ UNCHANGED refs

Reap(S) ==
  /\ S \cap Referenced = {}
  /\ stored' = stored \ S
  /\ UNCHANGED refs

Accept(n, r) ==
  /\ Reach[r] \subseteq stored
  /\ refs' = [refs EXCEPT ![n] = r]
  /\ UNCHANGED stored

Drop(n) ==
  /\ refs' = [refs EXCEPT ![n] = NoRoot]
  /\ UNCHANGED stored

Next ==
  \/ \E k \in Key : Store(k)
  \/ \E S \in SUBSET Key : Reap(S)
  \/ \E n \in Name, r \in Key : Accept(n, r)
  \/ \E n \in Name : Drop(n)

Spec == Init /\ [][Next]_<<stored, refs>>
=============================================================================
