--------------------------- MODULE BridgeAdmission ---------------------------
(***************************************************************************)
(* What the Companion Bridge promises about pairing: one attempt at a      *)
(* time, which takes a device from its QR code through the host's          *)
(* confirmation to a credential, and a revocation that is final.  A new    *)
(* code ends the attempt before it.  BridgePairing has the session,        *)
(* request, device and credential tables of services/bridge/src, the       *)
(* queue of mutations and the state file, and implements this              *)
(* specification.                                                          *)
(***************************************************************************)
CONSTANTS Attempt, Nobody

VARIABLES
  live,      \* the attempt under way, or Nobody
  stage,     \* how far it is
  seen,      \* attempts that were offered
  admitted,  \* devices that got a credential
  revoked    \* devices that were revoked, some before they were admitted

vars == <<live, stage, seen, admitted, revoked>>

Offer(a) ==
  /\ a \notin seen
  /\ live' = a /\ stage' = "offered" /\ seen' = seen \cup {a}
  /\ UNCHANGED <<admitted, revoked>>

Advance(from, to) ==
  /\ live # Nobody /\ stage = from /\ stage' = to
  /\ UNCHANGED <<live, seen, admitted, revoked>>

Ask == Advance("offered", "asked")
Confirm == Advance("asked", "confirmed")

Admit ==
  /\ live # Nobody /\ stage = "confirmed" /\ live \notin revoked
  /\ admitted' = admitted \cup {live}
  /\ live' = Nobody /\ stage' = "none"
  /\ UNCHANGED <<seen, revoked>>

\* Cancelled, or out of time.
End ==
  /\ live # Nobody
  /\ live' = Nobody /\ stage' = "none"
  /\ UNCHANGED <<seen, admitted, revoked>>

Revoke(a) ==
  /\ a \in seen
  /\ revoked' = revoked \cup {a}
  /\ UNCHANGED <<live, stage, seen, admitted>>

Init ==
  /\ live = Nobody /\ stage = "none"
  /\ seen = {} /\ admitted = {} /\ revoked = {}

Next ==
  \/ Ask \/ Confirm \/ Admit \/ End
  \/ \E a \in Attempt : Offer(a) \/ Revoke(a)

Spec == Init /\ [][Next]_vars
=============================================================================
