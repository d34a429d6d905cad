-------------------------- MODULE DeviceAccessProofs --------------------------
(***************************************************************************)
(* The promises of DeviceAccess, for any number of devices and owners.     *)
(* The inductive invariant adds to them that an owner is admitted only by  *)
(* the local commands and always administers, so that there is none when a *)
(* first owner is chosen, and that there is none until the choice ends,    *)
(* whoever else comes to administer: without it a bootstrap could add a    *)
(* second owner.                                                           *)
(***************************************************************************)
EXTENDS DeviceAccess, TLAPS

OwnersAdminister ==
  \A o \in Owner : /\ phase[o] \in {"unknown", "active", "revoked"}
                   /\ phase[o] = "active" => admin[o]

OpeningAlone ==
  \A o \in opening : /\ opening = {o} /\ phase[o] = "unknown"
                     /\ \A p \in Owner : phase[p] # "active"

Safe == TypeOK /\ TokensSeparate /\ SingleOwner /\ OwnersAdminister /\ OpeningAlone

\* The steps of one device that is no owner's local command.
DeviceStep(d) ==
  \/ \E by \in Device, scope \in BOOLEAN : Approve(d, by, scope)
  \/ Prove(d) \/ Drop(d) \/ Admit(d) \/ Rotate(d) \/ Revoke(d)

\* Nothing is admitted before the first step.
LEMMA InitSafe == Init => Safe
BY DEF Init, Safe, TypeOK, Phase, TokensSeparate, SingleOwner, ActiveOwners,
       OwnersAdminister, OpeningAlone, Device

\* Every step keeps the variables in their types.
LEMMA TypeStep == TypeOK /\ [Next]_vars => TypeOK'
<1> SUFFICES ASSUME TypeOK, [Next]_vars PROVE TypeOK'
  OBVIOUS
<1> USE DEF Device, TypeOK, Phase, Move, NewToken
<1>1. CASE UNCHANGED vars
  BY <1>1 DEF vars
<1>2. ASSUME NEW d \in Device, DeviceStep(d) PROVE TypeOK'
  BY <1>2 DEF DeviceStep, Approve, Prove, Drop, Admit, Rotate, Revoke
<1>3. ASSUME NEW o \in Owner, Bootstrap(o) PROVE TypeOK'
  BY <1>3 DEF Bootstrap
<1>4. ASSUME NEW o \in Owner, NEW old \in Owner, Recover(o, old) PROVE TypeOK'
  BY <1>4 DEF Recover
<1>5. ASSUME Abandon \/ \E o \in Owner : Open(o) PROVE TypeOK'
  <2>1. opening' \subseteq Owner
    BY <1>5 DEF Abandon, Open
  <2> QED
    BY <1>5, <2>1 DEF Abandon, Open
<1> QED
  BY <1>1, <1>2, <1>3, <1>4, <1>5 DEF Next, DeviceStep

\* Tokens stay apart because a new one is larger than all before.
LEMMA TokensStep == Safe /\ [Next]_vars => TokensSeparate'
<1> SUFFICES ASSUME Safe, [Next]_vars PROVE TokensSeparate'
  OBVIOUS
<1> USE DEF Device, Safe, TypeOK, Move, NewToken
<1>1. CASE UNCHANGED vars
  BY <1>1 DEF vars, TokensSeparate
<1>2. ASSUME NEW d \in Device,
             \/ \E by \in Device, scope \in BOOLEAN : Approve(d, by, scope)
             \/ Prove(d) \/ Drop(d)
      PROVE  TokensSeparate'
  BY <1>2 DEF Approve, Prove, Drop, TokensSeparate
<1>3. ASSUME NEW d \in Device, Admit(d) \/ Rotate(d) PROVE TokensSeparate'
  <2>1. /\ issued' = issued + 1 /\ phase'[d] = "active" /\ token'[d] = issued + 1
        /\ \A e \in Device \ {d} : token'[e] = token[e] /\ phase'[e] = phase[e]
    BY <1>3 DEF Admit, Rotate
  <2> QED
    BY <2>1 DEF TokensSeparate
<1>4. ASSUME NEW d \in Device, Revoke(d) PROVE TokensSeparate'
  BY <1>4 DEF Revoke, TokensSeparate
<1>5. ASSUME NEW o \in Owner, Bootstrap(o) PROVE TokensSeparate'
  <2>1. /\ issued' = issued + 1 /\ phase'[o] = "active" /\ token'[o] = issued + 1
        /\ \A e \in Device \ {o} : token'[e] = token[e] /\ phase'[e] = phase[e]
    BY <1>5 DEF Bootstrap
  <2> QED
    BY <2>1 DEF TokensSeparate
<1>6. ASSUME NEW o \in Owner, NEW old \in Owner, Recover(o, old)
      PROVE  TokensSeparate'
  <2>1. o # old
    BY <1>6 DEF Recover, ActiveOwners
  <2>2. /\ issued' = issued + 1 /\ phase'[o] = "active" /\ token'[o] = issued + 1
        /\ phase'[old] = "revoked" /\ token'[old] = 0
        /\ \A e \in Device \ {o, old} : token'[e] = token[e] /\ phase'[e] = phase[e]
    BY <1>6, <2>1 DEF Recover
  <2> QED
    BY <2>2 DEF TokensSeparate
<1>7. ASSUME Abandon \/ \E o \in Owner : Open(o) PROVE TokensSeparate'
  BY <1>7 DEF Abandon, Open, TokensSeparate
<1> QED
  BY <1>1, <1>2, <1>3, <1>4, <1>5, <1>6, <1>7 DEF Next

\* One owner stays one: pairing never touches an owner that is not active yet,
\* a first owner is chosen when there is none and recovery waits until it is
\* admitted, recovery takes the place of the one it revokes.
LEMMA OwnerStep ==
  Safe /\ [Next]_vars => SingleOwner' /\ OwnersAdminister' /\ OpeningAlone'
<1> SUFFICES ASSUME Safe, [Next]_vars
             PROVE  SingleOwner' /\ OwnersAdminister' /\ OpeningAlone'
  OBVIOUS
<1> USE DEF Device, Safe, TypeOK, Move, NewToken
<1>1. CASE UNCHANGED vars
  BY <1>1 DEF vars, SingleOwner, ActiveOwners, OwnersAdminister, OpeningAlone
<1>2. ASSUME NEW d \in Device, DeviceStep(d)
      PROVE  SingleOwner' /\ OwnersAdminister' /\ OpeningAlone'
  <2>1. /\ UNCHANGED opening
        /\ \A o \in Owner :
             /\ admin'[o] = admin[o]
             /\ phase'[o] = phase[o] \/ (phase[o] = "active" /\ phase'[o] = "revoked")
    BY <1>2 DEF DeviceStep, Approve, Prove, Drop, Admit, Rotate, Revoke,
                OwnersAdminister
  <2>2. SingleOwner' /\ OwnersAdminister'
    BY <2>1 DEF SingleOwner, ActiveOwners, OwnersAdminister
  <2>3. OpeningAlone'
    BY <2>1 DEF OpeningAlone
  <2> QED
    BY <2>2, <2>3
<1>3. ASSUME NEW o \in Owner, Open(o)
      PROVE  SingleOwner' /\ OwnersAdminister' /\ OpeningAlone'
  <2>1. \A p \in Owner : phase[p] # "active"
    BY <1>3 DEF Open, Administers, OwnersAdminister
  <2>2. opening' = {o} /\ phase[o] = "unknown" /\ UNCHANGED <<phase, admin>>
    BY <1>3 DEF Open
  <2> QED
    BY <2>1, <2>2 DEF SingleOwner, ActiveOwners, OwnersAdminister, OpeningAlone
<1>4. ASSUME NEW o \in Owner, Bootstrap(o)
      PROVE  SingleOwner' /\ OwnersAdminister' /\ OpeningAlone'
  <2>1. \A p \in Owner : phase[p] # "active"
    BY <1>4 DEF Bootstrap, OpeningAlone
  <2>2. /\ phase'[o] = "active" /\ admin'[o] /\ opening' = {}
        /\ \A p \in Owner \ {o} : phase'[p] = phase[p] /\ admin'[p] = admin[p]
    BY <1>4 DEF Bootstrap
  <2> QED
    BY <2>1, <2>2 DEF SingleOwner, ActiveOwners, OwnersAdminister, OpeningAlone
<1>5. ASSUME NEW o \in Owner, NEW old \in Owner, Recover(o, old)
      PROVE  SingleOwner' /\ OwnersAdminister' /\ OpeningAlone'
  <2>1. o # old /\ \A p \in Owner : phase[p] = "active" => p = old
    BY <1>5 DEF Recover, ActiveOwners
  <2>2. /\ phase'[o] = "active" /\ admin'[o] /\ phase'[old] = "revoked"
        /\ \A p \in Owner \ {o, old} : phase'[p] = phase[p] /\ admin'[p] = admin[p]
    BY <1>5, <2>1 DEF Recover
  <2>3. opening' = {}
    BY <1>5 DEF Recover
  <2> QED
    BY <2>1, <2>2, <2>3 DEF SingleOwner, ActiveOwners, OwnersAdminister, OpeningAlone
<1>6. CASE Abandon
  BY <1>6 DEF Abandon, SingleOwner, ActiveOwners, OwnersAdminister, OpeningAlone
<1> QED
  BY <1>1, <1>2, <1>3, <1>4, <1>5, <1>6 DEF Next, DeviceStep

\* The promises hold in every reachable state (pairing.ts, owner-bootstrap.ts).
THEOREM AccessSafe == Spec => []Safe
<1>1. Safe /\ [Next]_vars => Safe'
  BY TypeStep, TokensStep, OwnerStep DEF Safe
<1> QED
  BY InitSafe, <1>1, PTL DEF Spec

\* At most one owner is active, whatever is paired, revoked and recovered
\* (owner-bootstrap.ts:312).
THEOREM OneOwner == Spec => []SingleOwner
<1>1. Safe => SingleOwner
  BY DEF Safe
<1> QED
  BY AccessSafe, <1>1, PTL

\* A token that was replaced or taken away is never accepted again, a revoked or
\* dropped device never comes back (pairing.ts:638).
THEOREM RetiredForGood == Spec => NothingReturns
<1> USE DEF Device, Safe, TypeOK, Move, NewToken
<1>1. ASSUME Safe, [Next]_vars, NEW d \in Device
      PROVE  \/ UNCHANGED vars
             \/ /\ token'[d] # token[d] => token'[d] = 0 \/ token'[d] > issued
                /\ phase[d] \in {"revoked", "dropped"} => phase'[d] = phase[d]
  <2>1. ASSUME NEW e \in Device, DeviceStep(e)
        PROVE  /\ token'[d] # token[d] => token'[d] = 0 \/ token'[d] > issued
               /\ phase[d] \in {"revoked", "dropped"} => phase'[d] = phase[d]
    BY <1>1, <2>1 DEF DeviceStep, Approve, Prove, Drop, Admit, Rotate, Revoke
  <2>2. ASSUME NEW o \in Owner, Bootstrap(o)
        PROVE  /\ token'[d] # token[d] => token'[d] = 0 \/ token'[d] > issued
               /\ phase[d] \in {"revoked", "dropped"} => phase'[d] = phase[d]
    BY <1>1, <2>2 DEF Bootstrap, OpeningAlone
  <2>3. ASSUME NEW o \in Owner, NEW old \in Owner, Recover(o, old)
        PROVE  /\ token'[d] # token[d] => token'[d] = 0 \/ token'[d] > issued
               /\ phase[d] \in {"revoked", "dropped"} => phase'[d] = phase[d]
    <3>1. phase[old] = "active"
      BY <2>3 DEF Recover, ActiveOwners
    <3> QED
      BY <1>1, <2>3, <3>1 DEF Recover
  <2>4. ASSUME Abandon \/ \E o \in Owner : Open(o)
        PROVE  UNCHANGED <<phase, token>>
    BY <2>4 DEF Abandon, Open
  <2> QED
    BY <1>1, <2>1, <2>2, <2>3, <2>4 DEF Next, DeviceStep
<1>2. Safe /\ [Next]_vars =>
        [\A d \in Device :
           /\ token'[d] # token[d] => token'[d] = 0 \/ token'[d] > issued
           /\ phase[d] \in {"revoked", "dropped"} => phase'[d] = phase[d]]_vars
  BY <1>1
<1> QED
  BY AccessSafe, <1>2, PTL DEF Spec, NothingReturns
=============================================================================
