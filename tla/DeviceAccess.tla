---------------------------- MODULE DeviceAccess ----------------------------
(***************************************************************************)
(* What the Gateway promises about who may use it, each promise one atomic *)
(* step: a device is admitted because an administrator in good standing    *)
(* approved it, or as the one owner; one access token of a device is       *)
(* accepted at a time, a replaced one never again; a revoked device stays  *)
(* revoked. The first owner is chosen while nobody administers the Gateway *)
(* and admitted later: in between a device approved before may come to     *)
(* administer, but no other owner.  DevicePairing has the tables,          *)
(* requests, caches and clocks of services/gateway/src/pairing.ts and      *)
(* owner-bootstrap.ts and implements this specification.                   *)
(***************************************************************************)
EXTENDS Naturals

CONSTANTS
  Paired,  \* the devices that pairing attempts create
  Owner    \* those the local bootstrap and recovery commands create

Device == Paired \cup Owner

VARIABLES
  phase,    \* where the device is between unknown and revoked
  admin,    \* the scopes approved for the device include "administer"
  token,    \* the access token that is accepted from the device; 0 is none
  issued,   \* tokens issued so far: the next one is fresh
  opening   \* the first owner, chosen and not yet admitted: at most one

vars == <<phase, admin, token, issued, opening>>

Phase == {"unknown", "approved", "pending", "dropped", "active", "revoked"}

Administers(d) == phase[d] = "active" /\ admin[d]
ActiveOwners == {o \in Owner : phase[o] = "active"}

Move(d, to) == phase' = [phase EXCEPT ![d] = to]
NewToken(d) == token' = [token EXCEPT ![d] = issued + 1] /\ issued' = issued + 1

\* An active administrator approves a device that asked to be paired.
Approve(d, by, scope) ==
  /\ phase[d] = "unknown" /\ d \notin Owner
  /\ Administers(by)
  /\ Move(d, "approved") /\ admin' = [admin EXCEPT ![d] = scope]
  /\ UNCHANGED <<token, issued, opening>>

\* The device proves its key; nothing is accepted from it yet.
Prove(d) ==
  /\ phase[d] = "approved" /\ Move(d, "pending")
  /\ UNCHANGED <<admin, token, issued, opening>>

\* A pairing that was not finished in time is over.
Drop(d) ==
  /\ phase[d] \in {"unknown", "approved", "pending"} /\ d \notin Owner
  /\ Move(d, "dropped")
  /\ UNCHANGED <<admin, token, issued, opening>>

Admit(d) ==
  /\ phase[d] = "pending" /\ Move(d, "active") /\ NewToken(d)
  /\ UNCHANGED <<admin, opening>>

Rotate(d) ==
  /\ phase[d] = "active" /\ NewToken(d)
  /\ UNCHANGED <<phase, admin, opening>>

Revoke(d) ==
  /\ phase[d] = "active" /\ Move(d, "revoked")
  /\ token' = [token EXCEPT ![d] = 0]
  /\ UNCHANGED <<admin, issued, opening>>

\* A first owner is chosen when nobody administers the Gateway.
Open(o) ==
  /\ opening = {} /\ phase[o] = "unknown" /\ \A d \in Device : ~Administers(d)
  /\ opening' = {o}
  /\ UNCHANGED <<phase, admin, token, issued>>

\* The one chosen is admitted.
Bootstrap(o) ==
  /\ o \in opening /\ opening' = {}
  /\ Move(o, "active") /\ admin' = [admin EXCEPT ![o] = TRUE]
  /\ NewToken(o)

\* The choice is given up.
Abandon ==
  /\ opening' = {}
  /\ UNCHANGED <<phase, admin, token, issued>>

\* A new owner takes the place of the only one, who is revoked with it; not
\* while a first one is chosen.
Recover(o, old) ==
  /\ opening = {} /\ phase[o] = "unknown" /\ ActiveOwners = {old}
  /\ phase' = [phase EXCEPT ![o] = "active", ![old] = "revoked"]
  /\ admin' = [admin EXCEPT ![o] = TRUE]
  /\ token' = [token EXCEPT ![o] = issued + 1, ![old] = 0]
  /\ issued' = issued + 1
  /\ UNCHANGED opening

Init ==
  /\ phase = [d \in Device |-> "unknown"]
  /\ admin = [d \in Device |-> FALSE]
  /\ token = [d \in Device |-> 0]
  /\ issued = 0 /\ opening = {}

Next ==
  \/ \E d, by \in Device, scope \in BOOLEAN : Approve(d, by, scope)
  \/ \E d \in Device : Prove(d) \/ Drop(d) \/ Admit(d) \/ Rotate(d) \/ Revoke(d)
  \/ \E o \in Owner : Open(o) \/ Bootstrap(o) \/ \E old \in Owner : Recover(o, old)
  \/ Abandon

Spec == Init /\ [][Next]_vars
----------------------------------------------------------------------------
TypeOK ==
  /\ phase \in [Device -> Phase]
  /\ admin \in [Device -> BOOLEAN]
  /\ token \in [Device -> Nat]
  /\ issued \in Nat /\ opening \subseteq Owner

\* owner-bootstrap.ts, single-owner invariant: at most one owner is active.
SingleOwner == \A o, p \in ActiveOwners : o = p

\* A token is accepted from exactly the active devices, and no two devices share
\* one.
TokensSeparate ==
  /\ \A d \in Device : token[d] # 0 <=> phase[d] = "active"
  /\ \A d \in Device : token[d] <= issued
  /\ \A d, e \in Device : token[d] = token[e] /\ token[d] # 0 => d = e

\* A token that was replaced or taken away is never accepted again, and a device
\* that was revoked or dropped never comes back.
NothingReturns ==
  [][\A d \in Device :
       /\ token'[d] # token[d] => token'[d] = 0 \/ token'[d] > issued
       /\ phase[d] \in {"revoked", "dropped"} => phase'[d] = phase[d]]_vars
=============================================================================
