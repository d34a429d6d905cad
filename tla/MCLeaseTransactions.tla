------------------------- MODULE MCLeaseTransactions -------------------------
(* TLC instances of LeaseTransactions. *)
EXTENDS LeaseTransactions, TLC

CONSTANTS d1, d2, i1, i2, i3, s1, s2, s3
=============================================================================
