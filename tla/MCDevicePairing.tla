--------------------------- MODULE MCDevicePairing ---------------------------
(* DevicePairing on a small instance: a pairing, an owner and its successor. *)
EXTENDS DevicePairing, TLC

CONSTANTS p1, o1, o2

Interchangeable == Permutations(Pairing \ Caller) \cup Permutations(Owner \ Caller)
=============================================================================
