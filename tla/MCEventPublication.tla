-------------------------- MODULE MCEventPublication --------------------------
(* TLC instances of EventPublication: two pumps of different names. *)
EXTENDS EventPublication

CONSTANTS w1, w2
=============================================================================
