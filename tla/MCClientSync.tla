---------------------------- MODULE MCClientSync ----------------------------
(* TLC instances of ClientSync: this Client sends r1, another device r2. *)
EXTENDS ClientSync

CONSTANTS r1, r2, s1
=============================================================================
