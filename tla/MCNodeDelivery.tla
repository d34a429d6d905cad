--------------------------- MODULE MCNodeDelivery ---------------------------
(* TLC instances of NodeDelivery. *)
EXTENDS NodeDelivery

CONSTANTS d1, r1, r2, k1, k2, k3, a1

AllScopes == [d \in Device |-> {"send", "interrupt", "approve"}]

Interchangeable == Permutations(Key)
=============================================================================
