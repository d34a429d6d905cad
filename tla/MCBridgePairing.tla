--------------------------- MODULE MCBridgePairing ---------------------------
(* BridgePairing on a small instance: an attempt and the one that replaces it. *)
EXTENDS BridgePairing, TLC

CONSTANTS a1, a2

Interchangeable == Permutations(Attempt)
=============================================================================
