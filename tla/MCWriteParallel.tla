------------------------- MODULE MCWriteParallel -------------------------
(* WriteParallel with a tree of five nodes: the directory d and the device f    *)
(* have the same extended attributes, k2, an object of their own, and the root *)
(* has a leaf for each entry, k3 and k4, under its index node, kr; or a pack   *)
(* with a duplicate, a forged record, one record or none.                      *)
EXTENDS WriteParallel

MCEntries == [r |-> <<"d", "f">>, d |-> <<"g", "l">>]

MCObjs ==
  [r |-> <<"k3", "k4", "kr">>, d |-> <<"kd", "k2">>, f |-> <<"k2">>, g |-> <<>>, l |-> <<>>]

MCUpto == [r |-> <<1, 2, 2>>, d |-> <<2, 2>>]

Good(k) == [key |-> k, genuine |-> TRUE]
Forged(k) == [key |-> k, genuine |-> FALSE]

MCPacks == {<<>>, <<Good("k1")>>, <<Good("k1"), Good("k2"), Good("k1")>>, <<Good("k1"), Forged("k2")>>}
=============================================================================
