----------------------------- MODULE TreeWrite -----------------------------
(***************************************************************************)
(* What one ingest or one pack upload promises, with no goroutines,        *)
(* channels or batches: objects become durable in any order and number;    *)
(* the call may fail at any time; it may succeed only when every object of *)
(* its input is durable, and only if the input was intact.                 *)
(***************************************************************************)
CONSTANT Key

VARIABLES
  wanted,   \* the keys of the input
  intact,   \* the input can be read to its end
  durable,  \* the keys a power loss does not take
  result    \* "none" until the call returns

Init ==
  /\ wanted \subseteq Key /\ intact \in BOOLEAN
  /\ durable = {}
  /\ result = "none"

\* Objects become durable, this call's or another's.
Grow ==
  /\ durable \subseteq durable'
  /\ UNCHANGED <<wanted, intact, result>>

\* A read of the source fails.
Spoil ==
  /\ result = "none" /\ intact' = FALSE
  /\ UNCHANGED <<wanted, durable, result>>

Succeed ==
  /\ result = "none" /\ intact
  /\ result' = "ok"
  /\ durable \subseteq durable' /\ wanted \subseteq durable'
  /\ UNCHANGED <<wanted, intact>>

Fail ==
  /\ result = "none"
  /\ result' = "err"
  /\ durable \subseteq durable'
  /\ UNCHANGED <<wanted, intact>>

Next == Grow \/ Spoil \/ Succeed \/ Fail

Spec == Init /\ [][Next]_<<wanted, intact, durable, result>>
=============================================================================
