-------------------------- MODULE DevicePairingProofs --------------------------
(***************************************************************************)
(* DevicePairing keeps its tables in agreement and never takes the         *)
(* credential of a client that gave nothing up, for any number of pairings *)
(* and owners and any lifetimes.  The first lemmas say what each change of *)
(* the tables does to one row and leaves alone in the others.  The         *)
(* inductive invariant adds to the checked ones what the clients and the   *)
(* confirmations under way know about tokens: a client that never gave a   *)
(* call up has at most one, for the token it holds and that was never      *)
(* used; a committed confirmation carries the first token of a device      *)
(* whose client holds none.                                                *)
(***************************************************************************)
EXTENDS DevicePairing, TLAPS

\* The constants as numbers and disjoint sets.
LEMMA Constants ==
  /\ PairingLife \in Nat /\ ConfirmLife \in Nat /\ CacheLife \in Nat
  /\ AccessLife \in Nat /\ FamilyLife \in Nat /\ MaxTime \in Nat /\ MaxCalls \in Nat
  /\ Pairing \cap Owner = {}
BY PairingAssumption

\* What one row keeps when another changes.
OnlyPairing(p) == \A q \in Pairing \ {p} : pairing'[q] = pairing[q]
OnlyCredential(d) == \A e \in Device \ {d} : credential'[e] = credential[e]
OnlyDevice(d) == \A e \in Device \ {d} : device'[e] = device[e]
OnlyOwners(o, old) ==
  \A d \in Device \ {o, old} : credential'[d] = credential[d] /\ device'[d] = device[d]

\* Expiry changes one pairing, and its credential only while pending.
LEMMA ExpireEffect ==
  ASSUME TablesTyped, NEW p \in Pairing, Expire(p)
  PROVE  /\ pairing' \in [Pairing -> PairingRow] /\ OnlyPairing(p)
         /\ credential' \in [Device -> CredentialRow] /\ OnlyCredential(p)
         /\ pairing'[p].state =
              IF pairing[p].state = "confirmed" THEN "confirmed" ELSE "expired"
         /\ pairing'[p].admin = pairing[p].admin
         /\ credential'[p].state =
              IF credential[p].state = "pending" THEN "revoked" ELSE credential[p].state
         /\ credential'[p].token = credential[p].token
         /\ credential'[p].admin = credential[p].admin
<1>1. /\ pairing' \in [Pairing -> PairingRow] /\ OnlyPairing(p)
      /\ pairing'[p].state =
           IF pairing[p].state = "confirmed" THEN "confirmed" ELSE "expired"
      /\ pairing'[p].admin = pairing[p].admin
  BY DEF Expire, TablesTyped, PairingRow, OnlyPairing
<1>2. /\ credential' \in [Device -> CredentialRow] /\ OnlyCredential(p)
      /\ credential'[p].state =
           IF credential[p].state = "pending" THEN "revoked" ELSE credential[p].state
      /\ credential'[p].token = credential[p].token
      /\ credential'[p].admin = credential[p].admin
  BY DEF Expire, TablesTyped, CredentialRow, Device, OnlyCredential
<1> QED
  BY <1>1, <1>2

\* A new pairing asks for its owner and grants nothing.
LEMMA InsertPairingEffect ==
  ASSUME TablesTyped, NEW p \in Pairing, InsertPairing(p)
  PROVE  /\ pairing' \in [Pairing -> PairingRow] /\ OnlyPairing(p)
         /\ pairing'[p].state = "pending_owner" /\ pairing'[p].admin = FALSE
<1>1. now + PairingLife \in Nat
  BY Constants DEF TablesTyped
<1>2. [NoPairing EXCEPT !.state = "pending_owner", !.expiresAt = now + PairingLife]
        \in PairingRow
  BY <1>1 DEF NoPairing, PairingRow
<1> QED
  BY <1>2 DEF InsertPairing, NoPairing, TablesTyped, OnlyPairing

\* Approval changes one pairing.
LEMMA ApproveEffect ==
  ASSUME TablesTyped, NEW p \in Pairing, NEW admin \in BOOLEAN, ApprovePairing(p, admin)
  PROVE  /\ pairing' \in [Pairing -> PairingRow] /\ OnlyPairing(p)
         /\ pairing'[p].state = "approved" /\ pairing'[p].admin = admin
<1> DEFINE row == [pairing[p] EXCEPT !.state = "approved", !.admin = admin]
<1>1. row \in PairingRow /\ row.state = "approved" /\ row.admin = admin
  BY DEF TablesTyped, PairingRow
<1>2. pairing' \in [Pairing -> PairingRow] /\ OnlyPairing(p) /\ pairing'[p] = row
  BY <1>1 DEF ApprovePairing, TablesTyped, OnlyPairing
<1> QED
  BY <1>1, <1>2

\* A proof creates the credential, without a token.
LEMMA ProofEffect ==
  ASSUME TablesTyped, NEW p \in Pairing, VerifyPairingProof(p)
  PROVE  /\ pairing' \in [Pairing -> PairingRow] /\ OnlyPairing(p)
         /\ credential' \in [Device -> CredentialRow] /\ OnlyCredential(p)
         /\ pairing'[p].state = "proof_verified" /\ pairing'[p].admin = pairing[p].admin
         /\ credential'[p].state = "pending" /\ credential'[p].token = 0
         /\ credential'[p].admin = pairing[p].admin
<1>1. now \in Nat
  BY DEF TablesTyped
<1> DEFINE row == [pairing[p] EXCEPT !.state = "proof_verified",
                                    !.confirmBy = now + ConfirmLife]
<1>6. row \in PairingRow /\ row.state = "proof_verified" /\ row.admin = pairing[p].admin
  <2>1. now + ConfirmLife \in Nat
    BY <1>1, Constants
  <2>2. pairing[p] \in PairingRow
    BY DEF TablesTyped
  <2> QED
    BY <2>1, <2>2 DEF PairingRow
<1>2. pairing' \in [Pairing -> PairingRow] /\ OnlyPairing(p) /\ pairing'[p] = row
  BY <1>6 DEF VerifyPairingProof, TablesTyped, OnlyPairing
<1>3. /\ pairing[p].admin \in BOOLEAN /\ now + FamilyLife \in Nat
  BY <1>1, Constants DEF TablesTyped, PairingRow
<1>4. [NoCredential EXCEPT !.state = "pending", !.admin = pairing[p].admin,
                            !.family = now + FamilyLife] \in CredentialRow
  BY <1>3 DEF NoCredential, CredentialRow
<1>5. /\ credential' \in [Device -> CredentialRow] /\ OnlyCredential(p)
      /\ credential'[p] = [NoCredential EXCEPT !.state = "pending", !.admin = pairing[p].admin,
                            !.family = now + FamilyLife]
  BY <1>4 DEF VerifyPairingProof, TablesTyped, Device, OnlyCredential
<1> QED
  BY <1>2, <1>3, <1>5, <1>6 DEF NoCredential

\* Confirmation makes the device, its credential and its first token at once.
LEMMA ActivateEffect ==
  ASSUME TablesTyped, NEW p \in Pairing, NEW t \in Nat, ActivatePairing(p, t)
  PROVE  /\ pairing' \in [Pairing -> PairingRow] /\ OnlyPairing(p)
         /\ credential' \in [Device -> CredentialRow] /\ OnlyCredential(p)
         /\ device' \in [Device -> {"none", "active", "revoked"}] /\ OnlyDevice(p)
         /\ pairing'[p].state = "confirmed" /\ pairing'[p].admin = pairing[p].admin
         /\ credential'[p].state = "active" /\ credential'[p].token = t
         /\ credential'[p].admin = credential[p].admin
         /\ device'[p] = "active"
<1>1. /\ pairing' \in [Pairing -> PairingRow] /\ OnlyPairing(p)
      /\ pairing'[p].state = "confirmed" /\ pairing'[p].admin = pairing[p].admin
  BY DEF ActivatePairing, TablesTyped, PairingRow, OnlyPairing
<1> DEFINE row == [credential[p] EXCEPT !.state = "active", !.token = t]
<1>4. /\ row \in CredentialRow /\ row.state = "active" /\ row.token = t
      /\ row.admin = credential[p].admin
  BY DEF TablesTyped, CredentialRow, Device
<1>2. credential' \in [Device -> CredentialRow] /\ OnlyCredential(p) /\ credential'[p] = row
  BY <1>4 DEF ActivatePairing, TablesTyped, OnlyCredential, Device
<1>3. device' \in [Device -> {"none", "active", "revoked"}] /\ OnlyDevice(p) /\ device'[p] = "active"
  BY DEF ActivatePairing, TablesTyped, OnlyDevice, Device
<1> QED
  BY <1>1, <1>2, <1>3, <1>4

\* A refresh changes one token.
LEMMA RotateEffect ==
  ASSUME TablesTyped, NEW r \in [device : Device, token : Nat, call : Nat],
         NEW t \in Nat, RotateCredential(r, t)
  PROVE  /\ credential' \in [Device -> CredentialRow] /\ OnlyCredential(r.device)
         /\ used' \subseteq Device \X Nat
         /\ credential'[r.device].state = credential[r.device].state
         /\ credential'[r.device].admin = credential[r.device].admin
         /\ credential'[r.device].token = t
BY DEF RotateCredential, TablesTyped, CredentialRow, OnlyCredential

\* Revocation changes one device and takes its token.
LEMMA RevokeEffect ==
  ASSUME TablesTyped, NEW d \in Device, Revoke(d)
  PROVE  /\ credential' \in [Device -> CredentialRow] /\ OnlyCredential(d)
         /\ device' \in [Device -> {"none", "active", "revoked"}] /\ OnlyDevice(d)
         /\ credential'[d].state = "revoked" /\ credential'[d].token = 0
         /\ credential'[d].admin = credential[d].admin
         /\ device[d] = "active" /\ device'[d] = "revoked"
BY DEF Revoke, TablesTyped, CredentialRow, OnlyCredential, OnlyDevice

\* A new owner is active and administers.
LEMMA CreateEffect ==
  ASSUME TablesTyped, NEW o \in Owner, NEW at \in Nat, InsertOwner(o, at)
  PROVE  /\ credential' \in [Device -> CredentialRow] /\ OnlyCredential(o)
         /\ device' \in [Device -> {"none", "active", "revoked"}] /\ OnlyDevice(o)
         /\ credential'[o].state = "active" /\ credential'[o].token = issued + 1
         /\ credential'[o].admin = TRUE
         /\ device'[o] = "active"
<1>1. at + FamilyLife \in Nat
  BY Constants
<1>2. OwnerCredential(at) \in CredentialRow
  BY <1>1 DEF OwnerCredential, CredentialRow, TablesTyped
<1> QED
  BY <1>2 DEF InsertOwner, OwnerCredential, TablesTyped, OnlyCredential, OnlyDevice, Device

\* What a bootstrap carries from its first half to its second.
LEMMA OpeningTyped ==
  ASSUME TablesTyped, NEW b \in opening
  PROVE  b.owner \in Owner /\ b.at \in Nat /\ b.owner \in Device
BY DEF TablesTyped, Device

\* Recovery changes two owners, who are different.
LEMMA ReplaceEffect ==
  ASSUME TablesTyped, NEW o \in Owner, NEW old \in Owner, ReplaceOwner(o, old)
  PROVE  /\ o # old /\ device[old] = "active"
         /\ credential' \in [Device -> CredentialRow]
         /\ device' \in [Device -> {"none", "active", "revoked"}]
         /\ OnlyOwners(o, old)
         /\ credential'[o].state = "active" /\ credential'[o].token = issued + 1
         /\ credential'[o].admin = TRUE /\ device'[o] = "active"
         /\ credential'[old].state = "revoked" /\ credential'[old].token = 0
         /\ credential'[old].admin = credential[old].admin /\ device'[old] = "revoked"
<1>1. now \in Nat
  BY DEF TablesTyped
<1>2. OwnerCredential(now) \in CredentialRow
  BY <1>1, Constants DEF OwnerCredential, CredentialRow, TablesTyped
<1>3. o # old /\ device[old] = "active"
  BY DEF ReplaceOwner, ActiveOwners, Active
<1>4. [credential[old] EXCEPT !.state = "revoked", !.token = 0] \in CredentialRow
  BY DEF TablesTyped, CredentialRow, Device
<1>5. credential' = [credential EXCEPT ![o] = OwnerCredential(now),
                      ![old] = [credential[old] EXCEPT !.state = "revoked", !.token = 0]]
  BY <1>3 DEF ReplaceOwner, TablesTyped, Device
<1>6. credential' \in [Device -> CredentialRow]
  BY <1>2, <1>4, <1>5 DEF TablesTyped, Device
<1>7. /\ credential'[o] = OwnerCredential(now)
      /\ credential'[old] = [credential[old] EXCEPT !.state = "revoked", !.token = 0]
      /\ \A d \in Device \ {o, old} : credential'[d] = credential[d]
  BY <1>3, <1>5 DEF TablesTyped, Device
<1>8. credential[old] \in CredentialRow
  BY DEF TablesTyped, Device
<1>9. credential'[old].state = "revoked" /\ credential'[old].token = 0
         /\ credential'[old].admin = credential[old].admin
  BY <1>7, <1>8 DEF CredentialRow
<1>10. /\ device' \in [Device -> {"none", "active", "revoked"}]
       /\ \A d \in Device \ {o, old} : device'[d] = device[d]
       /\ device'[o] = "active" /\ device'[old] = "revoked"
  BY <1>3 DEF ReplaceOwner, TablesTyped, Device
<1> QED
  BY <1>3, <1>6, <1>7, <1>9, <1>10 DEF OwnerCredential, OnlyOwners

\* The cache entry ends at some instant.
LEMMA EarliestIsNat ==
  ASSUME NEW a \in Nat, NEW b \in Nat, NEW c \in Nat
  PROVE  Earliest({a, b, c}) \in Nat
<1>1. \E t \in {a, b, c} : \A u \in {a, b, c} : t <= u
  OBVIOUS
<1> QED
  BY <1>1 DEF Earliest

\* Every step keeps the variables in their types.
LEMMA TypeStep == PairingTypeOK /\ [Next]_vars => PairingTypeOK'
<1> SUFFICES ASSUME PairingTypeOK, [Next]_vars PROVE PairingTypeOK'
  OBVIOUS
<1>a. TablesTyped /\ MemoryTyped /\ ClientTyped
  BY DEF PairingTypeOK
<1>b. issued + 1 \in Nat /\ calls + 1 \in Nat
  BY <1>a DEF TablesTyped, ClientTyped
<1>c. Idle \in Flight /\ NoAnswer \in CachedEntry
  BY DEF Idle, NoAnswer, Flight, CachedEntry
<1>d. \A p \in Pairing : p \in Device
  BY DEF Device
<1>e. \A o \in Owner : o \in Device
  BY DEF Device
<1>f. SUFFICES TablesTyped' /\ MemoryTyped' /\ ClientTyped'
  BY DEF PairingTypeOK
<1> USE <1>a DEF tables, memory, client
<1>1. ASSUME NEW p \in Pairing, Begin(p) PROVE TablesTyped' /\ MemoryTyped' /\ ClientTyped'
  <2>1. window' \in [start : Nat, count : Nat]
    BY <1>1 DEF Begin, Attempt, TablesTyped
  <2> QED
    BY <1>1, <2>1, InsertPairingEffect DEF Begin, TablesTyped, MemoryTyped, ClientTyped
<1>2. ASSUME RefuseBegin PROVE TablesTyped' /\ MemoryTyped' /\ ClientTyped'
  <2>1. window' \in [start : Nat, count : Nat]
    BY <1>2 DEF RefuseBegin, Attempt, TablesTyped
  <2> QED
    BY <1>2, <2>1 DEF RefuseBegin, TablesTyped, MemoryTyped, ClientTyped
<1>3. ASSUME NEW p \in Pairing, ExpireIfNeeded(p)
      PROVE  TablesTyped' /\ MemoryTyped' /\ ClientTyped'
  BY <1>3, ExpireEffect DEF ExpireIfNeeded, TablesTyped, MemoryTyped, ClientTyped
<1>4. ASSUME NEW p \in Pairing, NEW by \in Device, NEW admin \in BOOLEAN,
             Approve(by, p, admin)
      PROVE  TablesTyped' /\ MemoryTyped' /\ ClientTyped'
  BY <1>4, ApproveEffect DEF Approve, TablesTyped, MemoryTyped, ClientTyped
<1>5. ASSUME NEW p \in Pairing, Complete(p) PROVE TablesTyped' /\ MemoryTyped' /\ ClientTyped'
  BY <1>5, ProofEffect DEF Complete, TablesTyped, MemoryTyped, ClientTyped
<1>6. ASSUME NEW p \in Pairing, NEW heard \in BOOLEAN, ConfirmFromCache(p, heard)
      PROVE  TablesTyped' /\ MemoryTyped' /\ ClientTyped'
  <2>1. cached[p].token \in Nat
    BY DEF MemoryTyped, CachedEntry
  <2>2. answered' \in [Pairing -> Nat] /\ held' \in [Device -> Nat]
    BY <1>6, <1>d, <2>1 DEF ConfirmFromCache, HearConfirmed, ClientTyped
  <2> QED
    BY <1>6, <2>2 DEF ConfirmFromCache, TablesTyped, MemoryTyped, ClientTyped
<1>7. ASSUME NEW p \in Pairing, ConfirmStarts(p)
      PROVE  TablesTyped' /\ MemoryTyped' /\ ClientTyped'
  <2>1. [stage |-> "begun", at |-> now, token |-> 0] \in Flight
    BY DEF TablesTyped, Flight
  <2>2. MemoryTyped'
    BY <1>7, <1>c, <2>1 DEF ConfirmStarts, MemoryTyped
  <2> QED
    BY <1>7, <2>2 DEF ConfirmStarts, TablesTyped, ClientTyped
<1>8. ASSUME NEW p \in Pairing, ConfirmCommits(p)
      PROVE  TablesTyped' /\ MemoryTyped' /\ ClientTyped'
  <2>1. issued' \in Nat /\ ActivatePairing(p, issued')
    BY <1>8, <1>b DEF ConfirmCommits
  <2>2. TablesTyped'
    BY <1>8, <2>1, ActivateEffect DEF ConfirmCommits, TablesTyped
  <2>3. [flight[p] EXCEPT !.stage = "committed", !.token = issued'] \in Flight
    BY <2>1 DEF MemoryTyped, Flight
  <2>4. MemoryTyped'
    BY <1>8, <2>3 DEF ConfirmCommits, MemoryTyped
  <2> QED
    BY <1>8, <2>2, <2>4 DEF ConfirmCommits, ClientTyped
<1>9. ASSUME NEW p \in Pairing, ConfirmTooLate(p)
      PROVE  TablesTyped' /\ MemoryTyped' /\ ClientTyped'
  <2>1. TablesTyped'
    BY <1>9, ExpireEffect DEF ConfirmTooLate, TablesTyped
  <2>2. MemoryTyped'
    BY <1>9, <1>c DEF ConfirmTooLate, MemoryTyped
  <2> QED
    BY <1>9, <2>1, <2>2 DEF ConfirmTooLate, ClientTyped
<1>10. ASSUME NEW p \in Pairing, ConfirmFails(p)
       PROVE  TablesTyped' /\ MemoryTyped' /\ ClientTyped'
  BY <1>10, <1>c DEF ConfirmFails, TablesTyped, MemoryTyped, ClientTyped
<1>11. ASSUME NEW p \in Pairing, NEW heard \in BOOLEAN, ConfirmAnswers(p, heard)
       PROVE  TablesTyped' /\ MemoryTyped' /\ ClientTyped'
  <2>1. flight[p].at \in Nat /\ flight[p].token \in Nat
    BY DEF MemoryTyped, Flight
  <2>2. credential[p].family \in Nat
    BY <1>d DEF TablesTyped, CredentialRow
  <2>3. Earliest({flight[p].at + CacheLife, flight[p].at + AccessLife,
                  credential[p].family}) \in Nat
    <3>1. flight[p].at + CacheLife \in Nat /\ flight[p].at + AccessLife \in Nat
      BY <2>1, Constants
    <3> QED
      BY <2>2, <3>1, EarliestIsNat
  <2>4. [token |-> flight[p].token,
         until |-> Earliest({flight[p].at + CacheLife, flight[p].at + AccessLife,
                             credential[p].family})] \in CachedEntry
    BY <2>1, <2>3 DEF CachedEntry
  <2>5. MemoryTyped'
    BY <1>11, <1>c, <2>4 DEF ConfirmAnswers, CacheConfirmation, MemoryTyped
  <2>6. answered' \in [Pairing -> Nat] /\ held' \in [Device -> Nat]
    BY <1>11, <1>d, <2>1 DEF ConfirmAnswers, HearConfirmed, ClientTyped
  <2> QED
    BY <1>11, <2>5, <2>6 DEF ConfirmAnswers, TablesTyped, ClientTyped
<1>12. ASSUME NEW r \in requests, NEW heard \in BOOLEAN, Refresh(r, heard)
       PROVE  TablesTyped' /\ MemoryTyped' /\ ClientTyped'
  <2>1. r \in [device : Device, token : Nat, call : Nat]
    BY DEF ClientTyped
  <2>2. issued' \in Nat /\ RotateCredential(r, issued')
    BY <1>12, <1>b DEF Refresh
  <2>3. TablesTyped'
    BY <1>12, <2>1, <2>2, RotateEffect DEF Refresh, TablesTyped
  <2>4. ClientTyped'
    BY <1>12, <2>1, <2>2 DEF Refresh, Hears, ClientTyped
  <2> QED
    BY <1>12, <2>3, <2>4 DEF Refresh, MemoryTyped
<1>13. ASSUME NEW r \in requests, NEW heard \in BOOLEAN, RevokeReplayed(r, heard)
       PROVE  TablesTyped' /\ MemoryTyped' /\ ClientTyped'
  <2>1. r.device \in Device
    BY DEF ClientTyped
  <2>2. TablesTyped'
    BY <1>13, <2>1, RevokeEffect DEF RevokeReplayed, TablesTyped
  <2>3. ClientTyped'
    BY <1>13, <2>1 DEF RevokeReplayed, Hears, ClientTyped
  <2> QED
    BY <1>13, <2>2, <2>3 DEF RevokeReplayed, MemoryTyped
<1>14. ASSUME NEW r \in requests, NEW heard \in BOOLEAN, RefuseRefresh(r, heard)
       PROVE  TablesTyped' /\ MemoryTyped' /\ ClientTyped'
  <2>1. ClientTyped'
    BY <1>14 DEF RefuseRefresh, Hears, ClientTyped
  <2> QED
    BY <1>14, <2>1 DEF RefuseRefresh, TablesTyped, MemoryTyped
<1>15. ASSUME NEW b \in opening, BootstrapCommits(b)
       PROVE  TablesTyped' /\ MemoryTyped' /\ ClientTyped'
  <2>0. b.owner \in Owner /\ b.at \in Nat /\ b.owner \in Device
    BY OpeningTyped
  <2>1. issued' \in Nat /\ held' \in [Device -> Nat]
    BY <1>15, <1>b, <2>0 DEF BootstrapCommits, PrintCredential, ClientTyped
  <2>2. InsertOwner(b.owner, b.at)
    BY <1>15 DEF BootstrapCommits
  <2>3. /\ credential' \in [Device -> CredentialRow]
        /\ device' \in [Device -> {"none", "active", "revoked"}]
    BY <2>0, <2>2, CreateEffect
  <2>4. TablesTyped'
    BY <1>15, <2>1, <2>3 DEF BootstrapCommits, TablesTyped
  <2> QED
    BY <1>15, <2>1, <2>4 DEF BootstrapCommits, MemoryTyped, ClientTyped
<1>16. ASSUME NEW o \in Owner, NEW old \in Owner, ReplaceOwner(o, old)
       PROVE  TablesTyped' /\ MemoryTyped' /\ ClientTyped'
  <2>1. issued' \in Nat /\ held' \in [Device -> Nat]
    BY <1>16, <1>b, <1>e DEF ReplaceOwner, PrintCredential, ClientTyped
  <2>2. TablesTyped'
    BY <1>16, <2>1, ReplaceEffect DEF ReplaceOwner, TablesTyped
  <2> QED
    BY <1>16, <2>1, <2>2 DEF ReplaceOwner, MemoryTyped, ClientTyped
<1>17. ASSUME NEW d \in Device, ClientRefreshes(d) \/ ClientGivesUp(d)
       PROVE  TablesTyped' /\ MemoryTyped' /\ ClientTyped'
  <2>1. ClientTyped'
    BY <1>17, <1>b DEF ClientRefreshes, ClientGivesUp, ClientTyped
  <2> QED
    BY <1>17, <2>1 DEF ClientRefreshes, ClientGivesUp, TablesTyped, MemoryTyped
<1>18. ASSUME NEW d \in Device, NEW by \in Device, RevokeDevice(by, d)
       PROVE  TablesTyped' /\ MemoryTyped' /\ ClientTyped'
  BY <1>18, RevokeEffect DEF RevokeDevice, TablesTyped, MemoryTyped, ClientTyped
<1>19. CASE Tick
  <2>1. MemoryTyped'
    BY <1>19, <1>c DEF Tick, MemoryTyped
  <2>2. now' \in 0..MaxTime
    BY <1>19, Constants DEF Tick, TablesTyped
  <2> QED
    BY <1>19, <2>1, <2>2 DEF Tick, TablesTyped, ClientTyped
<1>20. CASE Restart
  BY <1>20, <1>c DEF Restart, TablesTyped, MemoryTyped, ClientTyped
<1>21. CASE UNCHANGED vars
  BY <1>21 DEF vars, TablesTyped, MemoryTyped, ClientTyped
<1>22. ASSUME NEW o \in Owner, BootstrapReads(o)
       PROVE  TablesTyped' /\ MemoryTyped' /\ ClientTyped'
  <2>1. opening' \subseteq [owner : Owner, at : Nat]
    BY <1>22 DEF BootstrapReads, TablesTyped
  <2> QED
    BY <1>22, <2>1 DEF BootstrapReads, TablesTyped, MemoryTyped, ClientTyped
<1>23. ASSUME NEW b \in opening, BootstrapFails(b)
       PROVE  TablesTyped' /\ MemoryTyped' /\ ClientTyped'
  BY <1>23 DEF BootstrapFails, TablesTyped, MemoryTyped, ClientTyped
<1> QED
  BY <1>1, <1>2, <1>3, <1>4, <1>5, <1>6, <1>7, <1>8, <1>9, <1>10, <1>11, <1>12,
     <1>13, <1>14, <1>15, <1>16, <1>17, <1>18, <1>19, <1>20, <1>21, <1>22, <1>23
  DEF Next, PairingNext, ConfirmNext, RefreshNext, OwnerNext, Inspect,
      ApproveExpired, CompleteExpired

\* The cases of a step.  What one row of a table says is kept by every step that
\* leaves the row alone.
RowsOf(p) ==
  /\ credential[p].state = "pending" <=> pairing[p].state = "proof_verified"
  /\ device[p] # "none" <=> pairing[p].state = "confirmed"
  /\ pairing[p].state \in {"none", "pending_owner", "approved"} =>
       credential[p].state = "none"
  /\ credential[p].state # "none" => credential[p].admin = pairing[p].admin
  /\ pairing[p].state = "none" => pairing[p].admin = FALSE
TokenOf(d) ==
  /\ device[d] = "active" <=> credential[d].state = "active"
  /\ device[d] = "active" <=> credential[d].token # 0
  /\ credential[d].token <= issued

\* RowsAgree as a conjunction over rows, with what else the rows agree on.
RowsInvariant ==
  /\ \A p \in Pairing : RowsOf(p)
  /\ \A d \in Device : TokenOf(d)

\* The rows agree, read row by row.
LEMMA RowsInvariantImplies == RowsInvariant => RowsAgree
BY DEF RowsInvariant, RowsAgree, RowsOf, TokenOf

\* Every transaction leaves the tables in agreement.
LEMMA RowsStep == PairingTypeOK /\ RowsInvariant /\ [Next]_vars => RowsInvariant'
<1> SUFFICES ASSUME PairingTypeOK, RowsInvariant, [Next]_vars PROVE RowsInvariant'
  OBVIOUS
<1>a. TablesTyped /\ MemoryTyped /\ ClientTyped
  BY DEF PairingTypeOK
<1>b. /\ \A p \in Pairing : RowsOf(p)
      /\ \A d \in Device : TokenOf(d)
  BY DEF RowsInvariant
<1>c. SUFFICES /\ \A p \in Pairing : RowsOf(p)'
               /\ \A d \in Device : TokenOf(d)'
  BY DEF RowsInvariant
<1>d. /\ \A p \in Pairing : p \in Device /\ p \notin Owner
      /\ \A o \in Owner : o \in Device /\ o \notin Pairing
  BY Constants DEF Device
<1>e. issued \in Nat /\ \A d \in Device : credential[d].token \in Nat
  BY <1>a DEF TablesTyped, CredentialRow
<1> USE <1>a, <1>b, <1>d, <1>e DEF tables, memory, client
<1>0. ASSUME UNCHANGED <<pairing, device, credential, issued>>
      PROVE  (\A p \in Pairing : RowsOf(p)') /\ \A d \in Device : TokenOf(d)'
  BY <1>0 DEF RowsOf, TokenOf
<1>1. ASSUME NEW p \in Pairing, Begin(p)
      PROVE  (\A q \in Pairing : RowsOf(q)') /\ \A d \in Device : TokenOf(d)'
  <2>1. /\ OnlyPairing(p) /\ pairing[p].state = "none" /\ UNCHANGED <<device, credential, issued>>
        /\ pairing'[p].state = "pending_owner"
    BY <1>1, InsertPairingEffect DEF Begin
  <2>2. \A q \in Pairing : RowsOf(q)'
    BY <2>1 DEF RowsOf, OnlyPairing
  <2> QED
    BY <2>1, <2>2 DEF TokenOf
<1>3. ASSUME NEW p \in Pairing, Expire(p), UNCHANGED <<device, issued>>
      PROVE  (\A q \in Pairing : RowsOf(q)') /\ \A d \in Device : TokenOf(d)'
  BY <1>3, ExpireEffect DEF RowsOf, TokenOf, OnlyPairing, OnlyCredential
<1>4. ASSUME NEW p \in Pairing, NEW by \in Device, NEW admin \in BOOLEAN,
             Approve(by, p, admin)
      PROVE  (\A q \in Pairing : RowsOf(q)') /\ \A d \in Device : TokenOf(d)'
  BY <1>4, ApproveEffect DEF Approve, RowsOf, TokenOf, OnlyPairing
<1>5. ASSUME NEW p \in Pairing, Complete(p)
      PROVE  (\A q \in Pairing : RowsOf(q)') /\ \A d \in Device : TokenOf(d)'
  BY <1>5, ProofEffect DEF Complete, RowsOf, TokenOf, OnlyPairing, OnlyCredential
<1>8. ASSUME NEW p \in Pairing, ConfirmCommits(p)
      PROVE  (\A q \in Pairing : RowsOf(q)') /\ \A d \in Device : TokenOf(d)'
  <2>1. /\ issued' = issued + 1 /\ issued' \in Nat /\ ActivatePairing(p, issued')
        /\ credential[p].state = "pending"
    BY <1>8 DEF ConfirmCommits, AwaitsConfirmation
  <2>2. \A q \in Pairing : RowsOf(q)'
    BY <2>1, ActivateEffect DEF RowsOf, OnlyPairing, OnlyCredential, OnlyDevice
  <2> QED
    BY <2>1, <2>2, ActivateEffect DEF TokenOf, OnlyCredential, OnlyDevice
<1>12. ASSUME NEW r \in requests, NEW heard \in BOOLEAN, Refresh(r, heard)
       PROVE  (\A q \in Pairing : RowsOf(q)') /\ \A d \in Device : TokenOf(d)'
  <2>1. r \in [device : Device, token : Nat, call : Nat]
    BY DEF ClientTyped
  <2>2. /\ issued' = issued + 1 /\ issued' \in Nat /\ RotateCredential(r, issued')
        /\ Active(r.device) /\ UNCHANGED <<pairing, device>>
    BY <1>12 DEF Refresh, RefreshUsable
  <2>3. /\ OnlyCredential(r.device) /\ r.device \in Device
        /\ credential'[r.device].state = credential[r.device].state
        /\ credential'[r.device].admin = credential[r.device].admin
        /\ credential'[r.device].token = issued + 1
    BY <2>1, <2>2, RotateEffect
  <2>4. \A q \in Pairing : RowsOf(q)'
    BY <2>2, <2>3 DEF RowsOf, OnlyCredential
  <2> QED
    BY <2>2, <2>3, <2>4 DEF TokenOf, OnlyCredential, Active
<1>13. ASSUME NEW d \in Device, Revoke(d), UNCHANGED <<pairing, issued>>
       PROVE  (\A q \in Pairing : RowsOf(q)') /\ \A e \in Device : TokenOf(e)'
  BY <1>13, RevokeEffect DEF RowsOf, TokenOf, OnlyCredential, OnlyDevice
<1>15. ASSUME NEW b \in opening, BootstrapCommits(b)
       PROVE  (\A q \in Pairing : RowsOf(q)') /\ \A d \in Device : TokenOf(d)'
  <2> DEFINE o == b.owner
  <2>0. o \in Owner /\ b.at \in Nat /\ InsertOwner(o, b.at)
    BY <1>15, OpeningTyped DEF BootstrapCommits
  <2>1. /\ UNCHANGED pairing /\ issued' = issued + 1 /\ OnlyCredential(o) /\ OnlyDevice(o)
        /\ credential'[o].state = "active" /\ credential'[o].token = issued + 1
        /\ device'[o] = "active"
    BY <1>15, <2>0, CreateEffect DEF BootstrapCommits, PrintCredential
  <2> HIDE DEF o
  <2>2. \A q \in Pairing : RowsOf(q)'
    BY <2>0, <2>1 DEF RowsOf, OnlyCredential, OnlyDevice
  <2> QED
    BY <2>0, <2>1, <2>2 DEF TokenOf, OnlyCredential, OnlyDevice
<1>16. ASSUME NEW o \in Owner, NEW old \in Owner, ReplaceOwner(o, old)
       PROVE  (\A q \in Pairing : RowsOf(q)') /\ \A d \in Device : TokenOf(d)'
  <2>1. UNCHANGED pairing /\ issued' = issued + 1
    BY <1>16 DEF ReplaceOwner, PrintCredential
  <2>2. /\ OnlyOwners(o, old)
        /\ credential'[o].state = "active" /\ credential'[o].token = issued + 1
        /\ device'[o] = "active"
        /\ credential'[old].state = "revoked" /\ credential'[old].token = 0
        /\ device'[old] = "revoked"
    BY <1>16, ReplaceEffect
  <2>3. \A q \in Pairing : RowsOf(q)'
    BY <2>1, <2>2 DEF RowsOf, OnlyOwners
  <2>4. \A d \in Device : TokenOf(d)'
    BY <2>1, <2>2 DEF TokenOf, OnlyOwners
  <2> QED
    BY <2>3, <2>4
<1>17. ASSUME NEW r \in requests, NEW heard \in BOOLEAN, RevokeReplayed(r, heard)
       PROVE  r.device \in Device /\ Revoke(r.device) /\ UNCHANGED <<pairing, issued>>
  BY <1>17 DEF RevokeReplayed, ClientTyped
<1>18. ASSUME NEW r \in requests, NEW heard \in BOOLEAN, RefuseRefresh(r, heard)
       PROVE  UNCHANGED <<pairing, device, credential, issued>>
  BY <1>18 DEF RefuseRefresh
<1>19. ASSUME NEW p \in Pairing,
              \/ ConfirmStarts(p) \/ ConfirmFails(p)
              \/ \E heard \in BOOLEAN : ConfirmFromCache(p, heard) \/ ConfirmAnswers(p, heard)
       PROVE  UNCHANGED <<pairing, device, credential, issued>>
  BY <1>19 DEF ConfirmStarts, ConfirmFails, ConfirmFromCache, ConfirmAnswers
<1>20. ASSUME \/ RefuseBegin \/ Tick \/ Restart \/ UNCHANGED vars
              \/ \E d \in Device : ClientRefreshes(d) \/ ClientGivesUp(d)
       PROVE  UNCHANGED <<pairing, device, credential, issued>>
  BY <1>20 DEF RefuseBegin, Tick, Restart, vars, ClientRefreshes, ClientGivesUp
<1>21. CASE PairingNext
  BY <1>21, <1>1, <1>3, <1>4, <1>5
  DEF PairingNext, Inspect, ApproveExpired, CompleteExpired, ExpireIfNeeded
<1>22. CASE ConfirmNext
  BY <1>22, <1>0, <1>3, <1>8, <1>19 DEF ConfirmNext, ConfirmTooLate
<1>23. CASE RefreshNext
  BY <1>23, <1>0, <1>12, <1>13, <1>17, <1>18 DEF RefreshNext
<1>26. ASSUME \/ \E o \in Owner : BootstrapReads(o)
              \/ \E b \in opening : BootstrapFails(b)
       PROVE  UNCHANGED <<pairing, device, credential, issued>>
  BY <1>26 DEF BootstrapReads, BootstrapFails
<1>24. CASE OwnerNext
  BY <1>24, <1>0, <1>15, <1>16, <1>26 DEF OwnerNext
<1>25. CASE \E by, d \in Device : RevokeDevice(by, d)
  BY <1>25, <1>13 DEF RevokeDevice
<1> QED
  BY <1>0, <1>20, <1>21, <1>22, <1>23, <1>24, <1>25 DEF Next

\* Every refresh call has a number of its own, and a token is used only after it
\* was issued.
CallsInvariant ==
  /\ \A r \in requests : r.call \in 1..calls
  /\ \A r, s \in requests : r.call = s.call => r = s
  /\ \A u \in used : u[2] <= issued

\* A client without a credential has made no call; one that never gave a call up
\* has at most one on the way, for the token it holds, and that is not used.
ClientOf(d) ==
  /\ device[d] = "none" => held[d] = 0
  /\ held[d] = 0 =>
       /\ waiting[d] = 0
       /\ \A r \in requests : r.device # d
       /\ \A u \in used : u[1] # d
  /\ d \notin gaveUp =>
       /\ waiting[d] = 0 => <<d, held[d]>> \notin used
       /\ \A r \in requests : r.device = d =>
            /\ r.call = waiting[d] /\ r.token = held[d]
            /\ <<d, held[d]>> \notin used

\* A pairing that is not confirmed has no answer to repeat; one has either a
\* cached answer or a confirmation under way, and that carries the first token of
\* a device whose client holds none.
ConfirmationOf(p) ==
  /\ device[p] = "none" => cached[p] = NoAnswer /\ flight[p].stage # "committed"
  /\ flight[p].stage # "none" => cached[p] = NoAnswer
  /\ flight[p].stage = "committed" =>
       /\ flight[p].token # 0 /\ held[p] = 0
       /\ device[p] = "active" => credential[p].token = flight[p].token

\* One bootstrap at most is open, and its owner is not known yet.
OpeningInvariant == \A b \in opening : opening = {b} /\ device[b.owner] = "none"

PInv ==
  /\ PairingTypeOK /\ RowsInvariant /\ OpeningInvariant
  /\ CallsInvariant
  /\ \A d \in Device : ClientOf(d)
  /\ \A p \in Pairing : ConfirmationOf(p)
  /\ ReplayOnlyAfterLoss

\* What the answer to r does to the calls under way.
OnlyAnswered(r, heard) ==
  /\ r.device \in Device /\ r.token \in Nat /\ held[r.device] # 0
  /\ \A d \in Device \ {r.device} : waiting'[d] = waiting[d]
  /\ requests' \subseteq requests
  /\ heard => waiting'[r.device] = 0
  /\ ~heard => waiting'[r.device] = waiting[r.device]
  /\ r.device \notin gaveUp =>
       /\ waiting[r.device] # 0
       /\ r.token = held[r.device] /\ <<r.device, held[r.device]>> \notin used
       /\ \A s \in requests' : s.device # r.device

\* One step of the clients' side: what the clients know stays true.
LEMMA ClientStep ==
  PInv /\ [Next]_vars => CallsInvariant' /\ \A d \in Device : ClientOf(d)'
<1> SUFFICES ASSUME PInv, [Next]_vars
             PROVE  CallsInvariant' /\ \A d \in Device : ClientOf(d)'
  OBVIOUS
<1>a. TablesTyped /\ MemoryTyped /\ ClientTyped
  BY DEF PInv, PairingTypeOK
<1>b. /\ CallsInvariant /\ \A d \in Device : ClientOf(d)
      /\ \A p \in Pairing : ConfirmationOf(p)
      /\ \A d \in Device : credential[d].token <= issued
  BY DEF PInv, RowsInvariant, TokenOf
<1>c. /\ issued \in Nat /\ calls \in Nat /\ used \subseteq Device \X Nat
      /\ requests \subseteq [device : Device, token : Nat, call : Nat]
      /\ held \in [Device -> Nat] /\ waiting \in [Device -> Nat]
  BY <1>a DEF TablesTyped, ClientTyped
<1>d. \A p \in Pairing : p \in Device
  BY DEF Device
<1>e. \A o \in Owner : o \in Device
  BY DEF Device
<1>f. \A d \in Device : device'[d] = "none" => device[d] = "none"
  <2>1. ASSUME UNCHANGED device PROVE \A d \in Device : device'[d] = "none" => device[d] = "none"
    BY <2>1
  <2>2. ASSUME NEW p \in Pairing, ConfirmCommits(p)
        PROVE  \A d \in Device : device'[d] = "none" => device[d] = "none"
    <3>1. issued' \in Nat /\ ActivatePairing(p, issued')
      BY <1>c, <2>2 DEF ConfirmCommits
    <3> QED
      BY <1>a, <1>d, <3>1, ActivateEffect DEF OnlyDevice
  <2>3. ASSUME NEW d \in Device, Revoke(d)
        PROVE  \A e \in Device : device'[e] = "none" => device[e] = "none"
    BY <1>a, <2>3, RevokeEffect DEF OnlyDevice
  <2>4. ASSUME NEW b \in opening, BootstrapCommits(b)
        PROVE  \A d \in Device : device'[d] = "none" => device[d] = "none"
    <3>1. b.owner \in Owner /\ b.at \in Nat /\ InsertOwner(b.owner, b.at)
      BY <1>a, <2>4, OpeningTyped DEF BootstrapCommits
    <3>2. OnlyDevice(b.owner) /\ device'[b.owner] = "active"
      BY <1>a, <3>1, CreateEffect
    <3> QED
      BY <3>2 DEF OnlyDevice
  <2>5. ASSUME NEW o \in Owner, NEW old \in Owner, ReplaceOwner(o, old)
        PROVE  \A d \in Device : device'[d] = "none" => device[d] = "none"
    BY <1>a, <2>5, ReplaceEffect DEF OnlyOwners
  <2>6. CASE PairingNext
    BY <2>1, <2>6 DEF PairingNext, Begin, Inspect, ApproveExpired, CompleteExpired,
      ExpireIfNeeded, Approve, Complete
  <2>7. CASE ConfirmNext
    BY <2>1, <2>2, <2>7 DEF ConfirmNext, ConfirmStarts, ConfirmTooLate, ConfirmFails,
      ConfirmFromCache, ConfirmAnswers, tables
  <2>8. CASE RefreshNext
    <3>1. \A r \in requests : r.device \in Device
      BY <1>c
    <3> QED
      BY <2>1, <2>3, <2>8, <3>1 DEF RefreshNext, Refresh, RevokeReplayed, RefuseRefresh, tables
  <2>9. CASE OwnerNext
    BY <2>1, <2>4, <2>5, <2>9 DEF OwnerNext, BootstrapReads, BootstrapFails, tables
  <2>10. CASE \E by, d \in Device : RevokeDevice(by, d)
    BY <2>3, <2>10 DEF RevokeDevice
  <2>11. CASE \/ RefuseBegin \/ Tick \/ Restart \/ UNCHANGED vars
              \/ \E d \in Device : ClientRefreshes(d) \/ ClientGivesUp(d)
    BY <2>1, <2>11 DEF RefuseBegin, Tick, Restart, vars, ClientRefreshes, ClientGivesUp, tables
  <2> QED
    BY <2>6, <2>7, <2>8, <2>9, <2>10, <2>11 DEF Next
<1> USE <1>b, <1>c, <1>f
<1>1. ASSUME UNCHANGED <<requests, used, held, waiting, calls, gaveUp>>,
             issued' = issued \/ issued' = issued + 1
      PROVE  CallsInvariant' /\ \A d \in Device : ClientOf(d)'
  <2>1. CallsInvariant'
    BY <1>1 DEF CallsInvariant
  <2>2. \A d \in Device : ClientOf(d)'
    BY <1>1 DEF ClientOf
  <2> QED
    BY <2>1, <2>2
\* A client saves its first credential.
<1>2. ASSUME NEW e \in Device, NEW t \in Nat \ {0}, held[e] = 0, device'[e] # "none",
             held' = [held EXCEPT ![e] = t],
             UNCHANGED <<requests, used, waiting, calls, gaveUp>>,
             issued' = issued \/ issued' = issued + 1
      PROVE  CallsInvariant' /\ \A d \in Device : ClientOf(d)'
  <2>1. CallsInvariant'
    BY <1>2 DEF CallsInvariant
  <2>2. ClientOf(e)'
    BY <1>2 DEF ClientOf
  <2>3. ASSUME NEW d \in Device \ {e} PROVE ClientOf(d)'
    BY <1>2, <2>3 DEF ClientOf
  <2> QED
    BY <2>1, <2>2, <2>3
<1>3. CASE PairingNext
  BY <1>1, <1>3 DEF PairingNext, Begin, Inspect, ApproveExpired, CompleteExpired,
    ExpireIfNeeded, Approve, Complete, client
<1>4. ASSUME NEW p \in Pairing, NEW heard \in BOOLEAN,
             ConfirmFromCache(p, heard) \/ ConfirmAnswers(p, heard)
      PROVE  CallsInvariant' /\ \A d \in Device : ClientOf(d)'
  <2>0. p \in Device /\ ClientOf(p) /\ ConfirmationOf(p)
    BY <1>d
  <2>1. PICK t \in Nat \ {0} : HearConfirmed(p, t, heard)
    <3>1. CASE ConfirmFromCache(p, heard)
      <4>1. cached[p].token # 0
        BY <1>d, <3>1, <1>a DEF ConfirmFromCache, MayUseCache, CachedIsCurrent, PInv,
          RowsInvariant, TokenOf, Active
      <4>2. cached[p].token \in Nat
        BY <1>a DEF MemoryTyped, CachedEntry
      <4> QED
        BY <3>1, <4>1, <4>2 DEF ConfirmFromCache
    <3>2. CASE ConfirmAnswers(p, heard)
      <4>1. flight[p].token # 0
        BY <2>0, <3>2 DEF ConfirmAnswers, ConfirmationOf
      <4>2. flight[p].token \in Nat
        BY <1>a DEF MemoryTyped, Flight
      <4> QED
        BY <3>2, <4>1, <4>2 DEF ConfirmAnswers
    <3> QED
      BY <1>4, <3>1, <3>2
  <2>2. /\ UNCHANGED <<requests, used, waiting, calls, gaveUp, issued, device>>
    BY <1>4 DEF ConfirmFromCache, ConfirmAnswers, tables
  <2>3. device[p] # "none"
    <3>1. CASE ConfirmFromCache(p, heard)
      BY <3>1 DEF ConfirmFromCache, MayUseCache, CachedIsCurrent, Active
    <3>2. CASE ConfirmAnswers(p, heard)
      BY <2>0, <3>2 DEF ConfirmAnswers, ConfirmationOf
    <3> QED
      BY <1>4, <3>1, <3>2
  <2>4. CASE heard /\ held[p] = 0
    <3>1. held' = [held EXCEPT ![p] = t]
      BY <2>1, <2>4 DEF HearConfirmed
    <3> QED
      BY <1>2, <2>0, <2>2, <2>3, <2>4, <3>1
  <2>5. CASE ~(heard /\ held[p] = 0)
    <3>1. UNCHANGED held
      BY <2>1, <2>5 DEF HearConfirmed
    <3> QED
      BY <1>1, <2>2, <3>1
  <2> QED
    BY <2>4, <2>5
<1>5. CASE ConfirmNext
  <2>1. ASSUME NEW p \in Pairing,
               ConfirmStarts(p) \/ ConfirmCommits(p) \/ ConfirmTooLate(p) \/ ConfirmFails(p)
        PROVE  /\ UNCHANGED <<requests, used, held, waiting, calls, gaveUp>>
               /\ issued' = issued \/ issued' = issued + 1
    BY <2>1 DEF ConfirmStarts, ConfirmCommits, ConfirmTooLate, ConfirmFails, tables, client
  <2> QED
    BY <1>1, <1>4, <1>5, <2>1 DEF ConfirmNext
\* An owner saves what the command prints.
<1>6. ASSUME NEW o \in Owner, device[o] = "none", device'[o] = "active",
             PrintCredential(o), UNCHANGED <<requests, used, waiting, calls, gaveUp>>
      PROVE  CallsInvariant' /\ \A d \in Device : ClientOf(d)'
  <2>1. held[o] = 0
    BY <1>e, <1>6 DEF ClientOf
  <2>2. issued' = issued + 1 /\ held' = [held EXCEPT ![o] = issued']
    BY <1>6 DEF PrintCredential
  <2>3. issued' \in Nat \ {0}
    BY <2>2
  <2> QED
    BY <1>2, <1>e, <1>6, <2>1, <2>2, <2>3
<1>14. CASE OwnerNext
  <2>1. ASSUME NEW b \in opening, BootstrapCommits(b)
        PROVE  CallsInvariant' /\ \A d \in Device : ClientOf(d)'
    <3>1. b.owner \in Owner /\ b.at \in Nat /\ InsertOwner(b.owner, b.at)
      BY <1>a, <2>1, OpeningTyped DEF BootstrapCommits
    <3>2. device'[b.owner] = "active"
      BY <1>a, <3>1, CreateEffect
    <3>3. device[b.owner] = "none"
      BY DEF PInv, OpeningInvariant
    <3>4. PrintCredential(b.owner) /\ UNCHANGED <<requests, used, waiting, calls, gaveUp>>
      BY <2>1 DEF BootstrapCommits
    <3> QED
      BY <1>6, <3>1, <3>2, <3>3, <3>4
  <2>2. ASSUME NEW o \in Owner, NEW old \in Owner, ReplaceOwner(o, old)
        PROVE  CallsInvariant' /\ \A d \in Device : ClientOf(d)'
    <3>1. device'[o] = "active"
      BY <1>a, <2>2, ReplaceEffect
    <3>2. /\ device[o] = "none" /\ PrintCredential(o)
          /\ UNCHANGED <<requests, used, waiting, calls, gaveUp>>
      BY <2>2 DEF ReplaceOwner
    <3> QED
      BY <1>6, <3>1, <3>2
  <2>3. ASSUME \/ \E o \in Owner : BootstrapReads(o)
               \/ \E b \in opening : BootstrapFails(b)
        PROVE  UNCHANGED <<requests, used, held, waiting, calls, gaveUp, issued>>
    BY <2>3 DEF BootstrapReads, BootstrapFails, tables, client
  <2> QED
    BY <1>1, <1>14, <2>1, <2>2, <2>3 DEF OwnerNext
<1>7. ASSUME NEW d \in Device, ClientRefreshes(d)
      PROVE  CallsInvariant' /\ \A e \in Device : ClientOf(e)'
  <2>1. /\ held[d] # 0 /\ waiting[d] = 0 /\ calls' = calls + 1
        /\ waiting' = [waiting EXCEPT ![d] = calls']
        /\ requests' = requests \cup {[device |-> d, token |-> held[d], call |-> calls']}
        /\ UNCHANGED <<held, gaveUp, used, issued, device>>
    BY <1>7 DEF ClientRefreshes, tables
  <2>2. \A r \in requests : r.call # calls' /\ r.call \in 1..calls' /\ r.call # 0
    BY <2>1 DEF CallsInvariant
  <2>3. CallsInvariant'
    BY <2>1, <2>2 DEF CallsInvariant
  <2>4. ClientOf(d)'
    <3>1. d \notin gaveUp => \A r \in requests : r.device # d
      BY <2>1, <2>2 DEF ClientOf
    <3> QED
      BY <2>1, <3>1 DEF ClientOf
  <2>5. ASSUME NEW e \in Device \ {d} PROVE ClientOf(e)'
    <3>1. \A r \in requests' : r.device = e => r \in requests
      BY <2>1, <2>5
    <3>2. waiting'[e] = waiting[e]
      BY <2>1, <2>5
    <3> QED
      BY <2>1, <3>1, <3>2 DEF ClientOf
  <2> QED
    BY <2>3, <2>4, <2>5
<1>8. ASSUME NEW d \in Device, ClientGivesUp(d)
      PROVE  CallsInvariant' /\ \A e \in Device : ClientOf(e)'
  <2>1. /\ waiting' = [waiting EXCEPT ![d] = 0] /\ gaveUp' = gaveUp \cup {d}
        /\ UNCHANGED <<requests, held, used, calls, issued, device>>
    BY <1>8 DEF ClientGivesUp, tables
  <2>2. CallsInvariant'
    BY <2>1 DEF CallsInvariant
  <2>3. \A e \in Device : ClientOf(e)'
    BY <2>1 DEF ClientOf
  <2> QED
    BY <2>2, <2>3
\* An answered call is off the way; nobody else's call goes with it.
<1>9. ASSUME NEW r \in requests, NEW heard \in BOOLEAN, Hears(r, heard)
      PROVE  OnlyAnswered(r, heard)
  <2>1. r.device \in Device /\ r.token \in Nat /\ r.call \in 1..calls
    BY DEF CallsInvariant
  <2>2. held[r.device] # 0
    BY <2>1 DEF ClientOf
  <2>3. /\ requests' = requests \ {r}
        /\ heard => waiting[r.device] = r.call /\ waiting' = [waiting EXCEPT ![r.device] = 0]
        /\ ~heard => waiting' = waiting
    BY <1>9 DEF Hears
  <2>4. r.device \notin gaveUp =>
          /\ waiting[r.device] = r.call
          /\ r.token = held[r.device] /\ <<r.device, held[r.device]>> \notin used
          /\ \A s \in requests : s.device = r.device => s.call = r.call
    BY <2>1 DEF ClientOf
  <2>5. \A s \in requests : s.call = r.call => s = r
    BY DEF CallsInvariant
  <2> QED
    BY <2>1, <2>2, <2>3, <2>4, <2>5 DEF OnlyAnswered
<1>10. ASSUME NEW r \in requests, NEW heard \in BOOLEAN, Refresh(r, heard)
       PROVE  CallsInvariant' /\ \A d \in Device : ClientOf(d)'
  <2>0. OnlyAnswered(r, heard)
    BY <1>9, <1>10 DEF Refresh
  <2>1. /\ issued' = issued + 1 /\ used' = used \cup {<<r.device, r.token>>}
        /\ UNCHANGED <<calls, gaveUp, device>>
        /\ credential[r.device].token = r.token
        /\ held' = IF heard THEN [held EXCEPT ![r.device] = issued'] ELSE held
        /\ device[r.device] # "none"
    BY <1>10 DEF Refresh, RotateCredential, IsCurrent, RefreshUsable, Active
  <2>2. r.token <= issued
    BY <2>0, <2>1 DEF OnlyAnswered
  <2>3. CallsInvariant'
    BY <2>0, <2>1, <2>2 DEF OnlyAnswered, CallsInvariant
  <2>4. ClientOf(r.device)'
    <3>1. held'[r.device] # 0 /\ device'[r.device] # "none"
      BY <2>0, <2>1 DEF OnlyAnswered
    <3>2. heard => held'[r.device] = issued + 1 /\ <<r.device, issued + 1>> \notin used'
      BY <2>0, <2>1, <2>2 DEF OnlyAnswered, CallsInvariant
    <3> QED
      BY <2>0, <2>1, <3>1, <3>2 DEF OnlyAnswered, ClientOf
  <2>5. ASSUME NEW d \in Device \ {r.device} PROVE ClientOf(d)'
    <3>1. held'[d] = held[d] /\ \A u \in used' : u[1] = d => u \in used
      BY <2>1, <2>5
    <3> QED
      BY <2>0, <2>1, <2>5, <3>1 DEF OnlyAnswered, ClientOf
  <2> QED
    BY <2>3, <2>4, <2>5
<1>11. ASSUME NEW r \in requests, NEW heard \in BOOLEAN,
              RefuseRefresh(r, heard) \/ RevokeReplayed(r, heard)
       PROVE  CallsInvariant' /\ \A d \in Device : ClientOf(d)'
  <2>0. OnlyAnswered(r, heard)
    BY <1>9, <1>11 DEF RefuseRefresh, RevokeReplayed
  <2>1. UNCHANGED <<used, issued, held, calls, gaveUp>>
    BY <1>11 DEF RefuseRefresh, RevokeReplayed, tables
  <2>2. CallsInvariant'
    BY <2>0, <2>1 DEF OnlyAnswered, CallsInvariant
  <2>3. ClientOf(r.device)'
    BY <2>0, <2>1 DEF OnlyAnswered, ClientOf
  <2>4. ASSUME NEW d \in Device \ {r.device} PROVE ClientOf(d)'
    BY <2>0, <2>1, <2>4 DEF OnlyAnswered, ClientOf
  <2> QED
    BY <2>2, <2>3, <2>4
<1>12. CASE \E by, d \in Device : RevokeDevice(by, d)
  BY <1>1, <1>12 DEF RevokeDevice, client
<1>13. CASE RefuseBegin \/ Tick \/ Restart \/ UNCHANGED vars
  BY <1>1, <1>13 DEF RefuseBegin, Tick, Restart, vars, tables, client
<1> QED
  BY <1>3, <1>5, <1>7, <1>8, <1>10, <1>11, <1>12, <1>13, <1>14 DEF Next, RefreshNext

\* What is known of a confirmation stays true of it.
LEMMA ConfirmationStep ==
  PInv /\ [Next]_vars => \A p \in Pairing : ConfirmationOf(p)'
<1> SUFFICES ASSUME PInv, [Next]_vars PROVE \A p \in Pairing : ConfirmationOf(p)'
  OBVIOUS
<1>a. TablesTyped /\ MemoryTyped /\ ClientTyped /\ RowsAgree
  BY RowsInvariantImplies DEF PInv, PairingTypeOK
<1>b. /\ \A d \in Device : ClientOf(d)
      /\ \A p \in Pairing : ConfirmationOf(p)
  BY DEF PInv
<1>c. /\ issued \in Nat /\ now \in Nat
      /\ requests \subseteq [device : Device, token : Nat, call : Nat]
      /\ held \in [Device -> Nat]
      /\ cached \in [Pairing -> CachedEntry] /\ flight \in [Pairing -> Flight]
      /\ \A p \in Pairing : flight[p] = [stage |-> flight[p].stage, at |-> flight[p].at,
                                        token |-> flight[p].token]
  BY <1>a DEF TablesTyped, ClientTyped, MemoryTyped, Flight
<1>d. \A p \in Pairing : p \in Device /\ p \notin Owner
  BY Constants DEF Device
<1>e. \A p \in Pairing : pairing[p].state # "confirmed" => device[p] = "none"
  BY <1>a DEF RowsAgree
<1> USE <1>b, <1>c, <1>d
<1>0. ASSUME UNCHANGED <<device, credential, cached, flight, held>>
      PROVE  \A p \in Pairing : ConfirmationOf(p)'
  BY <1>0 DEF ConfirmationOf
<1>1. ASSUME NEW p \in Pairing, Expire(p), UNCHANGED <<device, cached, held>>,
             flight' = flight \/ flight' = [flight EXCEPT ![p] = Idle]
      PROVE  \A q \in Pairing : ConfirmationOf(q)'
  <2>1. \A d \in Device : credential'[d].token = credential[d].token
    BY <1>a, <1>1, ExpireEffect DEF OnlyCredential
  <2> QED
    BY <1>1, <2>1 DEF ConfirmationOf, Idle
<1>2. ASSUME NEW p \in Pairing, Complete(p)
      PROVE  \A q \in Pairing : ConfirmationOf(q)'
  <2>1. device[p] = "none" /\ OnlyCredential(p)
    BY <1>a, <1>e, <1>2, ProofEffect DEF Complete
  <2>2. UNCHANGED <<device, cached, flight, held>>
    BY <1>2 DEF Complete, memory, client
  <2> QED
    BY <2>1, <2>2 DEF ConfirmationOf, OnlyCredential
<1>3. CASE PairingNext
  <2>1. ASSUME NEW p \in Pairing, ExpireIfNeeded(p)
        PROVE  Expire(p) /\ UNCHANGED <<device, cached, held, flight>>
    BY <2>1 DEF ExpireIfNeeded, client
  <2>2. ASSUME NEW p \in Pairing,
               Begin(p) \/ \E by \in Device, admin \in BOOLEAN : Approve(by, p, admin)
        PROVE  UNCHANGED <<device, credential, cached, flight, held>>
    BY <2>2 DEF Begin, Approve, memory, client
  <2> QED
    BY <1>0, <1>1, <1>2, <1>3, <2>1, <2>2
    DEF PairingNext, Inspect, ApproveExpired, CompleteExpired
<1>4. ASSUME NEW p \in Pairing, NEW heard \in BOOLEAN, ConfirmFromCache(p, heard)
      PROVE  \A q \in Pairing : ConfirmationOf(q)'
  <2>1. cached[p] # NoAnswer
    BY <1>4 DEF ConfirmFromCache, MayUseCache, NoAnswer
  <2>2. flight[p].stage = "none"
    BY <2>1 DEF ConfirmationOf
  <2>3. /\ UNCHANGED <<device, credential, cached, flight>>
        /\ \A q \in Pairing \ {p} : held'[q] = held[q]
    BY <1>4 DEF ConfirmFromCache, HearConfirmed, tables, memory
  <2> QED
    BY <2>1, <2>2, <2>3 DEF ConfirmationOf
<1>5. ASSUME NEW p \in Pairing, ConfirmStarts(p)
      PROVE  \A q \in Pairing : ConfirmationOf(q)'
  <2>1. /\ cached' = [cached EXCEPT ![p] = NoAnswer]
        /\ flight' = [flight EXCEPT ![p] = [stage |-> "begun", at |-> now, token |-> 0]]
        /\ UNCHANGED <<device, credential, held>>
    BY <1>5 DEF ConfirmStarts, tables, client
  <2> QED
    BY <2>1 DEF ConfirmationOf
<1>6. ASSUME NEW p \in Pairing, ConfirmCommits(p)
      PROVE  \A q \in Pairing : ConfirmationOf(q)'
  <2>1. /\ flight[p].stage = "begun" /\ issued' = issued + 1 /\ issued' \in Nat
        /\ ActivatePairing(p, issued')
        /\ flight' = [flight EXCEPT ![p].stage = "committed", ![p].token = issued']
        /\ UNCHANGED <<cached, held>>
    BY <1>6 DEF ConfirmCommits, client
  <2>2. flight'[p].stage = "committed" /\ flight'[p].token = issued + 1
    BY <2>1 DEF Flight
  <2>3. /\ OnlyDevice(p) /\ OnlyCredential(p)
        /\ device'[p] = "active" /\ credential'[p].token = issued + 1
    BY <1>a, <2>1, ActivateEffect
  <2>4. held[p] = 0 /\ cached[p] = NoAnswer
    BY <1>e, <1>6, <2>1 DEF ConfirmCommits, AwaitsConfirmation, ClientOf, ConfirmationOf
  <2>5. ConfirmationOf(p)'
    BY <2>1, <2>2, <2>3, <2>4 DEF ConfirmationOf
  <2>6. ASSUME NEW q \in Pairing \ {p} PROVE ConfirmationOf(q)'
    BY <2>1, <2>3, <2>6 DEF ConfirmationOf, OnlyDevice, OnlyCredential
  <2> QED
    BY <2>5, <2>6
<1>7. ASSUME NEW p \in Pairing, ConfirmTooLate(p)
      PROVE  \A q \in Pairing : ConfirmationOf(q)'
  BY <1>1, <1>7 DEF ConfirmTooLate, client
<1>8. ASSUME NEW p \in Pairing, ConfirmFails(p)
      PROVE  \A q \in Pairing : ConfirmationOf(q)'
  BY <1>8 DEF ConfirmFails, ConfirmationOf, Idle, tables, client
<1>9. ASSUME NEW p \in Pairing, NEW heard \in BOOLEAN, ConfirmAnswers(p, heard)
      PROVE  \A q \in Pairing : ConfirmationOf(q)'
  <2>1. /\ flight[p].stage = "committed"
        /\ flight' = [flight EXCEPT ![p] = Idle]
        /\ UNCHANGED <<device, credential>>
        /\ \A q \in Pairing \ {p} : cached'[q] = cached[q] /\ held'[q] = held[q]
    BY <1>9 DEF ConfirmAnswers, CacheConfirmation, HearConfirmed, tables
  <2>2. device[p] # "none" /\ flight'[p].stage = "none"
    BY <2>1 DEF ConfirmationOf, Idle
  <2>3. ConfirmationOf(p)'
    BY <2>1, <2>2 DEF ConfirmationOf
  <2>4. ASSUME NEW q \in Pairing \ {p} PROVE ConfirmationOf(q)'
    BY <2>1, <2>4 DEF ConfirmationOf
  <2> QED
    BY <2>3, <2>4
<1>10. CASE ConfirmNext
  BY <1>4, <1>5, <1>6, <1>7, <1>8, <1>9, <1>10 DEF ConfirmNext
<1>11. ASSUME NEW r \in requests, NEW heard \in BOOLEAN, Refresh(r, heard)
       PROVE  \A q \in Pairing : ConfirmationOf(q)'
  <2>1. held[r.device] # 0 /\ r \in [device : Device, token : Nat, call : Nat]
    BY DEF ClientOf
  <2>2. /\ issued' \in Nat /\ RotateCredential(r, issued')
        /\ held' = IF heard THEN [held EXCEPT ![r.device] = issued'] ELSE held
        /\ UNCHANGED <<device, cached, flight>>
    BY <1>11 DEF Refresh, memory
  <2>3. OnlyCredential(r.device)
    BY <1>a, <2>1, <2>2, RotateEffect
  <2>4. \A q \in Pairing : flight[q].stage = "committed" => q # r.device
    BY <2>1 DEF ConfirmationOf
  <2> QED
    BY <2>2, <2>3, <2>4 DEF ConfirmationOf, OnlyCredential
<1>12. ASSUME NEW d \in Device, Revoke(d), UNCHANGED <<cached, flight, held>>
       PROVE  \A q \in Pairing : ConfirmationOf(q)'
  <2>1. /\ OnlyCredential(d) /\ OnlyDevice(d)
        /\ device[d] = "active" /\ device'[d] = "revoked"
    BY <1>a, <1>12, RevokeEffect
  <2> QED
    BY <1>12, <2>1 DEF ConfirmationOf, OnlyCredential, OnlyDevice
<1>13. CASE RefreshNext
  <2>1. ASSUME NEW r \in requests, NEW heard \in BOOLEAN, RevokeReplayed(r, heard)
        PROVE  r.device \in Device /\ Revoke(r.device) /\ UNCHANGED <<cached, flight, held>>
    BY <2>1 DEF RevokeReplayed, memory
  <2>2. ASSUME NEW r \in requests, NEW heard \in BOOLEAN, RefuseRefresh(r, heard)
        PROVE  UNCHANGED <<device, credential, cached, flight, held>>
    BY <2>2 DEF RefuseRefresh, tables, memory
  <2> QED
    BY <1>0, <1>11, <1>12, <1>13, <2>1, <2>2 DEF RefreshNext
<1>14. CASE OwnerNext
  <2>1. ASSUME NEW b \in opening, BootstrapCommits(b)
        PROVE  \A p \in Pairing : ConfirmationOf(p)'
    <3>1. b.owner \in Owner /\ b.at \in Nat /\ InsertOwner(b.owner, b.at)
      BY <1>a, <2>1, OpeningTyped DEF BootstrapCommits
    <3>2. OnlyCredential(b.owner) /\ OnlyDevice(b.owner)
      BY <1>a, <3>1, CreateEffect
    <3>3. held' = [held EXCEPT ![b.owner] = issued'] /\ UNCHANGED <<cached, flight>>
      BY <2>1 DEF BootstrapCommits, PrintCredential, memory
    <3>4. \A p \in Pairing : /\ credential'[p] = credential[p] /\ device'[p] = device[p]
                             /\ held'[p] = held[p]
      BY <3>1, <3>2, <3>3 DEF OnlyCredential, OnlyDevice
    <3> QED
      BY <3>3, <3>4 DEF ConfirmationOf
  <2>2. ASSUME NEW o \in Owner, NEW old \in Owner, ReplaceOwner(o, old)
        PROVE  \A p \in Pairing : ConfirmationOf(p)'
    <3>1. OnlyOwners(o, old)
      BY <1>a, <2>2, ReplaceEffect
    <3>2. held' = [held EXCEPT ![o] = issued'] /\ UNCHANGED <<cached, flight>>
      BY <2>2 DEF ReplaceOwner, PrintCredential, memory
    <3>3. \A p \in Pairing : /\ credential'[p] = credential[p] /\ device'[p] = device[p]
                             /\ held'[p] = held[p]
      BY <3>1, <3>2 DEF OnlyOwners
    <3> QED
      BY <3>2, <3>3 DEF ConfirmationOf
  <2>3. ASSUME \/ \E o \in Owner : BootstrapReads(o)
               \/ \E b \in opening : BootstrapFails(b)
        PROVE  UNCHANGED <<device, credential, cached, flight, held>>
    BY <2>3 DEF BootstrapReads, BootstrapFails, tables, memory, client
  <2> QED
    BY <1>0, <1>14, <2>1, <2>2, <2>3 DEF OwnerNext
<1>15. CASE \E by, d \in Device : RevokeDevice(by, d)
  BY <1>12, <1>15 DEF RevokeDevice, client
<1>16. CASE Tick \/ Restart
  BY <1>16 DEF Tick, Restart, ConfirmationOf, Idle, NoAnswer, tables, client
<1>17. CASE \/ RefuseBegin \/ UNCHANGED vars
            \/ \E d \in Device : ClientRefreshes(d) \/ ClientGivesUp(d)
  <2>1. UNCHANGED <<device, credential, cached, flight, held>>
    BY <1>17 DEF RefuseBegin, vars, ClientRefreshes, ClientGivesUp, tables, memory, client
  <2> QED
    BY <1>0, <2>1
<1> QED
  BY <1>3, <1>10, <1>13, <1>14, <1>15, <1>16, <1>17 DEF Next

\* The open bootstrap stays alone, and no other step makes its owner known: a
\* confirmation makes paired devices, a revocation finds the device active, a
\* recovery waits.
LEMMA OpeningStep == PInv /\ [Next]_vars => OpeningInvariant'
<1> SUFFICES ASSUME PInv, [Next]_vars PROVE OpeningInvariant'
  OBVIOUS
<1>a. TablesTyped /\ ClientTyped /\ OpeningInvariant
  BY DEF PInv, PairingTypeOK
<1>b. \A b \in opening : b.owner \in Owner /\ b.owner \in Device
  BY <1>a, OpeningTyped
<1>c. \A p \in Pairing : p \notin Owner
  BY Constants
<1>0. ASSUME UNCHANGED <<opening, device>> PROVE OpeningInvariant'
  BY <1>0, <1>a DEF OpeningInvariant
<1>1. ASSUME NEW p \in Pairing, ConfirmCommits(p) PROVE OpeningInvariant'
  <2>1. issued' \in Nat /\ ActivatePairing(p, issued') /\ UNCHANGED opening
    BY <1>a, <1>1 DEF ConfirmCommits, TablesTyped
  <2>2. OnlyDevice(p)
    BY <1>a, <2>1, ActivateEffect
  <2> QED
    BY <1>a, <1>b, <1>c, <2>1, <2>2 DEF OpeningInvariant, OnlyDevice
<1>2. ASSUME NEW d \in Device, Revoke(d), UNCHANGED opening PROVE OpeningInvariant'
  <2>1. OnlyDevice(d) /\ device[d] = "active"
    BY <1>a, <1>2, RevokeEffect
  <2> QED
    BY <1>a, <1>b, <1>2, <2>1 DEF OpeningInvariant, OnlyDevice
<1>3. CASE PairingNext
  BY <1>0, <1>3 DEF PairingNext, Begin, Inspect, ApproveExpired, CompleteExpired,
    ExpireIfNeeded, Approve, Complete
<1>4. CASE ConfirmNext
  BY <1>0, <1>1, <1>4 DEF ConfirmNext, ConfirmStarts, ConfirmTooLate, ConfirmFails,
    ConfirmFromCache, ConfirmAnswers, tables
<1>5. CASE RefreshNext
  <2>1. \A r \in requests : r.device \in Device
    BY <1>a DEF ClientTyped
  <2> QED
    BY <1>0, <1>2, <1>5, <2>1 DEF RefreshNext, Refresh, RevokeReplayed, RefuseRefresh, tables
<1>6. CASE OwnerNext
  <2>1. ASSUME NEW o \in Owner, BootstrapReads(o) PROVE OpeningInvariant'
    BY <2>1 DEF BootstrapReads, tables, OpeningInvariant
  <2>2. ASSUME NEW b \in opening, BootstrapCommits(b) \/ BootstrapFails(b)
        PROVE  opening' = {}
    BY <1>a, <2>2 DEF BootstrapCommits, BootstrapFails, OpeningInvariant
  <2>3. ASSUME NEW o \in Owner, NEW old \in Owner, ReplaceOwner(o, old)
        PROVE  opening' = {}
    BY <2>3 DEF ReplaceOwner
  <2> QED
    BY <1>6, <2>1, <2>2, <2>3 DEF OwnerNext, OpeningInvariant
<1>7. CASE \E by, d \in Device : RevokeDevice(by, d)
  BY <1>2, <1>7 DEF RevokeDevice
<1>8. CASE \/ RefuseBegin \/ Tick \/ Restart \/ UNCHANGED vars
           \/ \E d \in Device : ClientRefreshes(d) \/ ClientGivesUp(d)
  BY <1>0, <1>8 DEF RefuseBegin, Tick, Restart, vars, ClientRefreshes, ClientGivesUp, tables
<1> QED
  BY <1>3, <1>4, <1>5, <1>6, <1>7, <1>8 DEF Next

\* Nobody but a client that gave a call up sends a token that was used.
LEMMA ReplayStep == PInv /\ [Next]_vars => ReplayOnlyAfterLoss'
<1> SUFFICES ASSUME PInv, [Next]_vars PROVE replayed' \subseteq gaveUp'
  BY DEF ReplayOnlyAfterLoss
<1>a. replayed \subseteq gaveUp
  BY DEF PInv, ReplayOnlyAfterLoss
<1>1. gaveUp \subseteq gaveUp'
  BY DEF Next, PairingNext, ConfirmNext, RefreshNext, OwnerNext, RefuseBegin, Begin, Inspect,
    ApproveExpired, CompleteExpired, ExpireIfNeeded, Approve, Complete, ConfirmStarts,
    ConfirmCommits, ConfirmTooLate, ConfirmFails, ConfirmFromCache, ConfirmAnswers, Refresh,
    RevokeReplayed, RefuseRefresh, BootstrapReads, BootstrapCommits, BootstrapFails, ReplaceOwner, ClientRefreshes,
    ClientGivesUp, RevokeDevice, Tick, Restart, vars, client
<1>2. ASSUME NEW r \in requests, NEW heard \in BOOLEAN, RevokeReplayed(r, heard)
      PROVE  replayed' \subseteq gaveUp'
  <2>1. r.device \in Device /\ ClientOf(r.device)
    BY DEF PInv, PairingTypeOK, ClientTyped
  <2>2. r.device \in gaveUp
    BY <1>2, <2>1 DEF RevokeReplayed, WasUsed, ClientOf
  <2> QED
    BY <1>a, <1>1, <1>2, <2>2 DEF RevokeReplayed
<1>3. CASE UNCHANGED replayed
  BY <1>a, <1>1, <1>3
<1> QED
  BY <1>2, <1>3 DEF Next, PairingNext, ConfirmNext, RefreshNext, OwnerNext, RefuseBegin, Begin,
    Inspect, ApproveExpired, CompleteExpired, ExpireIfNeeded, Approve, Complete, ConfirmStarts,
    ConfirmCommits, ConfirmTooLate, ConfirmFails, ConfirmFromCache, ConfirmAnswers, Refresh,
    RefuseRefresh, BootstrapReads, BootstrapCommits, BootstrapFails, ReplaceOwner, ClientRefreshes,
    ClientGivesUp, RevokeDevice, Tick, Restart, vars

\* Nothing has happened yet.
LEMMA InitPInv == Init => PInv
<1> SUFFICES ASSUME Init PROVE PInv
  OBVIOUS
<1>1. TablesTyped
  BY Constants DEF Init, TablesTyped, PairingRow, CredentialRow, NoPairing, NoCredential
<1>2. MemoryTyped
  BY DEF Init, MemoryTyped, CachedEntry, Flight, NoAnswer, Idle
<1>3. ClientTyped
  BY DEF Init, ClientTyped
<1>4. RowsInvariant
  BY DEF Init, RowsInvariant, RowsOf, TokenOf, NoPairing, NoCredential, Device
<1>5. CallsInvariant /\ \A d \in Device : ClientOf(d)
  BY DEF Init, CallsInvariant, ClientOf
<1>6. \A p \in Pairing : ConfirmationOf(p)
  BY DEF Init, ConfirmationOf, NoAnswer, Idle
<1>7. ReplayOnlyAfterLoss
  BY DEF Init, ReplayOnlyAfterLoss
<1>8. OpeningInvariant
  BY DEF Init, OpeningInvariant
<1> QED
  BY <1>1, <1>2, <1>3, <1>4, <1>5, <1>6, <1>7, <1>8 DEF PInv, PairingTypeOK

\* The inductive invariant of pairing.ts, its ledger and its clients.
THEOREM PairingSafe == Spec => []PInv
<1>1. Init => PInv
  BY InitPInv
<1>2. PInv /\ [Next]_vars => PInv'
  <2> SUFFICES ASSUME PInv, [Next]_vars PROVE PInv'
    OBVIOUS
  <2>1. PairingTypeOK' /\ RowsInvariant'
    BY TypeStep, RowsStep DEF PInv
  <2>2. CallsInvariant' /\ \A d \in Device : ClientOf(d)'
    BY ClientStep
  <2>3. \A p \in Pairing : ConfirmationOf(p)'
    BY ConfirmationStep
  <2>4. ReplayOnlyAfterLoss'
    BY ReplayStep
  <2>5. OpeningInvariant'
    BY OpeningStep
  <2> QED
    BY <2>1, <2>2, <2>3, <2>4, <2>5 DEF PInv
<1> QED
  BY <1>1, <1>2, PTL DEF Spec

\* The variables keep their types (postgres-pairing-ledger.ts).
THEOREM TablesTypedAlways == Spec => []PairingTypeOK
<1>1. PInv => PairingTypeOK
  BY DEF PInv
<1> QED
  BY <1>1, PairingSafe, PTL

\* Pairing, device and credential rows tell one story, however expiry,
\* confirmation, refresh, revocation and recovery interleave (pairing.ts:747).
THEOREM TablesAgree == Spec => []RowsAgree
<1>1. PInv => RowsAgree
  BY RowsInvariantImplies DEF PInv
<1> QED
  BY <1>1, PairingSafe, PTL

\* Only a client that gave a refresh call up is ever revoked for replay
\* (pairing.ts:640).
THEOREM NoHonestReplay == Spec => []ReplayOnlyAfterLoss
<1>1. PInv => ReplayOnlyAfterLoss
  BY DEF PInv
<1> QED
  BY <1>1, PairingSafe, PTL

\* No answer, cached or not, hands out a token that the ledger does not accept,
\* unless the device was revoked meanwhile (pairing.ts:421).
THEOREM CurrentAnswers == Spec => AnswersCurrent
<1>1. ASSUME PInv, [Next]_vars, NEW p \in Pairing, answered'[p] # answered[p]
      PROVE  answered'[p] = credential'[p].token \/ device'[p] = "revoked"
  <2>a. /\ TablesTyped /\ MemoryTyped /\ ClientTyped /\ RowsAgree /\ ConfirmationOf(p)
        /\ p \in Device
    BY <1>1, RowsInvariantImplies DEF PInv, PairingTypeOK, Device
  <2>b. answered \in [Pairing -> Nat] /\ issued \in Nat
    BY <2>a DEF ClientTyped, TablesTyped
  <2>1. ASSUME NEW q \in Pairing, NEW heard \in BOOLEAN, ConfirmFromCache(q, heard)
        PROVE  answered'[p] = credential'[p].token
    BY <1>1, <2>b, <2>1 DEF ConfirmFromCache, HearConfirmed, MayUseCache, CachedIsCurrent, tables
  <2>2. ASSUME NEW q \in Pairing, NEW heard \in BOOLEAN, ConfirmAnswers(q, heard)
        PROVE  answered'[p] = credential'[p].token \/ device'[p] = "revoked"
    <3>1. /\ q = p /\ answered'[p] = flight[p].token /\ flight[p].stage = "committed"
          /\ UNCHANGED <<device, credential>>
      BY <1>1, <2>b, <2>2 DEF ConfirmAnswers, HearConfirmed, tables
    <3>2. device[p] \in {"active", "revoked"}
      BY <2>a, <3>1 DEF ConfirmationOf, TablesTyped
    <3> QED
      BY <2>a, <3>1, <3>2 DEF ConfirmationOf
  <2>3. ASSUME NEW r \in requests, NEW heard \in BOOLEAN, Refresh(r, heard)
        PROVE  answered'[p] = credential'[p].token
    <3>1. r \in [device : Device, token : Nat, call : Nat]
      BY <2>a DEF ClientTyped
    <3>2. /\ r.device = p /\ answered'[p] = issued' /\ issued' \in Nat
          /\ RotateCredential(r, issued')
      BY <1>1, <2>b, <2>3 DEF Refresh
    <3> QED
      BY <2>a, <3>1, <3>2, RotateEffect
  <2>4. CASE UNCHANGED answered
    BY <1>1, <2>4
  <2> QED
    BY <1>1, <2>1, <2>2, <2>3, <2>4
    DEF Next, PairingNext, ConfirmNext, RefreshNext, OwnerNext, RefuseBegin, Begin, Inspect,
      ApproveExpired, CompleteExpired, ExpireIfNeeded, Approve, Complete, ConfirmStarts,
      ConfirmCommits, ConfirmTooLate, ConfirmFails, RevokeReplayed, RefuseRefresh,
      BootstrapReads, BootstrapCommits, BootstrapFails, ReplaceOwner, ClientRefreshes, ClientGivesUp, RevokeDevice, Tick,
      Restart, vars
<1>2. PInv /\ [Next]_vars =>
        [\A p \in Pairing : answered'[p] # answered[p] =>
           answered'[p] = credential'[p].token \/ device'[p] = "revoked"]_vars
  BY <1>1
<1> QED
  BY <1>2, PairingSafe, PTL DEF Spec, AnswersCurrent

\* A token is replaced only by a refresh that presented it (pairing.ts:601).
THEOREM OnlyExchanged == Spec => RotatedInExchange
<1>1. ASSUME PInv, [Next]_vars, NEW d \in Device,
             credential[d].token # 0, credential'[d].token \notin {0, credential[d].token}
      PROVE  \E r \in requests \ requests' : r.device = d /\ r.token = credential[d].token
  <2>a. /\ TablesTyped /\ ClientTyped /\ RowsAgree
        /\ \A p \in Pairing : p \in Device
        /\ \A p \in Pairing : pairing[p].state # "confirmed" => device[p] = "none"
        /\ \A e \in Device : credential[e].token # 0 => device[e] = "active"
    BY <1>1, RowsInvariantImplies DEF PInv, PairingTypeOK, RowsAgree, Device
  <2>b. issued \in Nat
    BY <2>a DEF TablesTyped
  <2>1. ASSUME NEW r \in requests, NEW heard \in BOOLEAN, Refresh(r, heard)
        PROVE  \E s \in requests \ requests' : s.device = d /\ s.token = credential[d].token
    <3>1. r \in [device : Device, token : Nat, call : Nat]
      BY <2>a DEF ClientTyped
    <3>2. /\ issued' \in Nat /\ RotateCredential(r, issued')
          /\ r \notin requests' /\ credential[r.device].token = r.token
      BY <2>b, <2>1 DEF Refresh, Hears, IsCurrent
    <3>3. r.device = d
      BY <1>1, <2>a, <3>1, <3>2, RotateEffect DEF OnlyCredential
    <3> QED
      BY <3>2, <3>3
  <2>2. ASSUME NEW p \in Pairing, Expire(p) PROVE FALSE
    BY <1>1, <2>a, <2>2, ExpireEffect DEF OnlyCredential
  <2>3. ASSUME NEW p \in Pairing, Complete(p) PROVE FALSE
    BY <1>1, <2>a, <2>3, ProofEffect DEF Complete, OnlyCredential
  <2>4. ASSUME NEW p \in Pairing, ConfirmCommits(p) PROVE FALSE
    <3>1. issued' \in Nat /\ ActivatePairing(p, issued') /\ device[p] = "none"
      BY <2>a, <2>b, <2>4 DEF ConfirmCommits, AwaitsConfirmation
    <3> QED
      BY <1>1, <2>a, <3>1, ActivateEffect DEF OnlyCredential
  <2>5. ASSUME NEW e \in Device, Revoke(e) PROVE FALSE
    BY <1>1, <2>a, <2>5, RevokeEffect DEF OnlyCredential
  <2>6. ASSUME NEW b \in opening, BootstrapCommits(b) PROVE FALSE
    <3>1. b.owner \in Owner /\ b.at \in Nat /\ InsertOwner(b.owner, b.at)
      BY <2>a, <2>6, OpeningTyped DEF BootstrapCommits
    <3>2. OnlyCredential(b.owner)
      BY <2>a, <3>1, CreateEffect
    <3>3. device[b.owner] = "none"
      BY <1>1 DEF PInv, OpeningInvariant
    <3> QED
      BY <1>1, <2>a, <3>2, <3>3 DEF OnlyCredential
  <2>7. ASSUME NEW o \in Owner, NEW old \in Owner, ReplaceOwner(o, old) PROVE FALSE
    <3>a. TablesTyped
      BY <2>a
    <3>b. ReplaceOwner(o, old)
      BY <2>7
    <3>1. OnlyOwners(o, old) /\ credential'[old].token = 0
      BY <3>a, <3>b, ReplaceEffect
    <3>2. device[o] = "none"
      BY <2>7 DEF ReplaceOwner
    <3> QED
      BY <1>1, <2>a, <3>1, <3>2 DEF OnlyOwners
  <2>8. CASE UNCHANGED credential
    BY <1>1, <2>8
  <2>9. CASE RefreshNext
    <3>1. \A r \in requests : r.device \in Device
      BY <2>a DEF ClientTyped
    <3> QED
      BY <2>1, <2>5, <2>8, <2>9, <3>1 DEF RefreshNext, RevokeReplayed, RefuseRefresh, tables
  <2>10. CASE PairingNext
    BY <2>2, <2>3, <2>8, <2>10 DEF PairingNext, Begin, Inspect, ApproveExpired, CompleteExpired,
      ExpireIfNeeded, Approve
  <2>11. CASE ConfirmNext
    BY <2>2, <2>4, <2>8, <2>11 DEF ConfirmNext, ConfirmStarts, ConfirmTooLate, ConfirmFails,
      ConfirmFromCache, ConfirmAnswers, tables
  <2> QED
    BY <1>1, <2>5, <2>6, <2>7, <2>8, <2>9, <2>10, <2>11
    DEF Next, OwnerNext, BootstrapReads, BootstrapFails, RefuseBegin, ClientRefreshes,
      ClientGivesUp, RevokeDevice, Tick, Restart, vars, tables
<1>2. PInv /\ [Next]_vars =>
        [\A d \in Device :
           credential[d].token # 0 /\ credential'[d].token \notin {0, credential[d].token} =>
             \E r \in requests \ requests' :
               r.device = d /\ r.token = credential[d].token]_vars
  BY <1>1
<1> QED
  BY <1>2, PairingSafe, PTL DEF Spec, RotatedInExchange
----------------------------------------------------------------------------
\* DevicePairing implements DeviceAccess.  One lemma per transaction says which
\* step of DeviceAccess it is; what the process keeps in memory, the clients and
\* the clock are not seen there.

\* The mapping of a device to its phase, case by case.
AdminOf(d) == IF d \in Pairing THEN pairing[d].admin ELSE credential[d].admin

\* The phase of a device, case by case.
LEMMA PhaseCases ==
  /\ \A d \in Device : device[d] # "none" => PhaseOf(d) = device[d]
  /\ \A p \in Pairing : device[p] = "none" =>
       /\ pairing[p].state \in {"none", "pending_owner", "confirmed"} => PhaseOf(p) = "unknown"
       /\ pairing[p].state = "approved" => PhaseOf(p) = "approved"
       /\ pairing[p].state = "proof_verified" => PhaseOf(p) = "pending"
       /\ pairing[p].state = "expired" => PhaseOf(p) = "dropped"
  /\ \A o \in Owner : device[o] = "none" => PhaseOf(o) = "unknown"
<1>1. \A o \in Owner : o \notin Pairing
  BY Constants
<1> QED
  BY <1>1 DEF PhaseOf

\* What the mapping says of a step that changes the row of one device.
Same(d) == /\ PhaseOf(d)' = PhaseOf(d)
           /\ AdminOf(d)' = AdminOf(d)
           /\ credential'[d].token = credential[d].token

\* A device whose rows do not change is mapped as before.
LEMMA SameRows ==
  ASSUME NEW d \in Device, device'[d] = device[d], credential'[d] = credential[d],
         d \in Pairing => pairing'[d] = pairing[d]
  PROVE  Same(d)
BY DEF Same, PhaseOf, AdminOf

\* Nobody is known at first.
LEMMA InitMaps == Init => Access!Init
<1> SUFFICES ASSUME Init PROVE Access!Init
  OBVIOUS
<1>1. \A d \in Device : PhaseOf(d) = "unknown"
  BY DEF Init, NoPairing, PhaseOf
<1>2. \A d \in Device : (IF d \in Pairing THEN pairing[d].admin ELSE credential[d].admin) = FALSE
  BY DEF Init, NoPairing, NoCredential
<1>3. \A d \in Device : credential[d].token = 0
  BY DEF Init, NoCredential
<1>4. issued = 0 /\ {b.owner : b \in opening} = {} /\ Access!Device = Device
  BY DEF Init, Access!Device, Device
<1> QED
  BY <1>1, <1>2, <1>3, <1>4 DEF Access!Init

\* An approval is an approval by an administrator of DeviceAccess.
LEMMA ApproveMaps ==
  ASSUME PInv, NEW p \in Pairing, NEW by \in Device, NEW scope \in BOOLEAN,
         Approve(by, p, scope)
  PROVE  Access!Approve(p, by, scope)
<1>1. TablesTyped /\ p \in Device /\ p \notin Owner
  BY Constants DEF PInv, PairingTypeOK, Device
<1>2. /\ OnlyPairing(p) /\ UNCHANGED <<device, credential, issued, opening>>
      /\ pairing[p].state = "pending_owner"
      /\ pairing'[p].state = "approved" /\ pairing'[p].admin = scope
  BY <1>1, ApproveEffect DEF Approve
<1>3. device[p] = "none"
  BY <1>2 DEF PInv, RowsInvariant, RowsOf
<1>4. \A d \in Device \ {p} : Same(d)
  BY <1>2, SameRows DEF OnlyPairing
<1>5. /\ PhaseOf(p) = "unknown" /\ PhaseOf(p)' = "approved"
      /\ AdminOf(p)' = scope
  BY <1>2, <1>3, PhaseCases DEF PhaseOf, AdminOf
<1>6. PhaseOf(by) = "active" /\ AdminOf(by)
  BY PhaseCases DEF Approve, Administers, Active, AdminOf, PInv, RowsInvariant, RowsOf
<1>7. Access!Administers(by)
  BY <1>6 DEF Access!Administers, AdminOf
<1>8. Access!Move(p, "approved")
  BY <1>4, <1>5 DEF Access!Move, Same
<1> QED
  BY <1>1, <1>2, <1>4, <1>5, <1>7, <1>8 DEF Access!Approve, Same, AdminOf

\* A step that changes no mapped value is a stutter.
LEMMA StutterMaps ==
  ASSUME \A d \in Device : Same(d), UNCHANGED <<issued, opening>>
  PROVE  UNCHANGED Access!vars
<1>1. \A d \in Device : PhaseOf(d)' = PhaseOf(d) /\ credential'[d].token = credential[d].token
  BY DEF Same
<1>2. \A d \in Device : (IF d \in Pairing THEN pairing'[d].admin ELSE credential'[d].admin)
                       = (IF d \in Pairing THEN pairing[d].admin ELSE credential[d].admin)
  BY DEF Same, AdminOf
<1> QED
  BY <1>1, <1>2 DEF Access!vars

\* Expiry drops the device, or finds nothing to drop.
LEMMA ExpireMaps ==
  ASSUME PInv, NEW p \in Pairing, Expire(p), UNCHANGED <<device, issued, opening>>
  PROVE  Access!Drop(p) \/ UNCHANGED Access!vars
<1>1. TablesTyped /\ RowsOf(p) /\ p \in Device /\ p \notin Owner
  BY Constants DEF PInv, PairingTypeOK, RowsInvariant, Device
<1>2. /\ OnlyPairing(p) /\ OnlyCredential(p)
      /\ pairing'[p].state =
           IF pairing[p].state = "confirmed" THEN "confirmed" ELSE "expired"
      /\ pairing'[p].admin = pairing[p].admin
      /\ credential'[p].token = credential[p].token
  BY <1>1, ExpireEffect
<1>3. \A d \in Device \ {p} : Same(d)
  BY <1>2, SameRows DEF OnlyPairing, OnlyCredential
<1>4. AdminOf(p)' = AdminOf(p)
  BY <1>2 DEF AdminOf
<1>5. CASE pairing[p].state \in {"confirmed", "expired"}
  <2>1. PhaseOf(p)' = PhaseOf(p)
    BY <1>2, <1>5 DEF PhaseOf
  <2> QED
    BY <1>2, <1>3, <1>4, <2>1, StutterMaps DEF Same
<1>6. CASE pairing[p].state \notin {"confirmed", "expired"}
  <2>1. device[p] = "none" /\ device'[p] = "none"
    BY <1>1, <1>6 DEF RowsOf
  <2>2. pairing[p].state \in {"none", "pending_owner", "approved", "proof_verified"}
    BY <1>1, <1>6 DEF TablesTyped, PairingRow
  <2>3. PhaseOf(p) \in {"unknown", "approved", "pending"}
    BY <2>1, <2>2, PhaseCases
  <2>4. PhaseOf(p)' = "dropped"
    BY <1>2, <1>6, <2>1 DEF PhaseOf
  <2>5. Access!Move(p, "dropped")
    BY <1>3, <2>4 DEF Access!Move, Same
  <2> QED
    BY <1>1, <1>2, <1>3, <1>4, <2>3, <2>5 DEF Access!Drop, Same, AdminOf
<1> QED
  BY <1>5, <1>6

\* The first proof is Prove.
LEMMA ProofMaps ==
  ASSUME PInv, NEW p \in Pairing, Complete(p)
  PROVE  Access!Prove(p)
<1>1. TablesTyped /\ RowsOf(p) /\ TokenOf(p) /\ p \in Device
  BY Constants DEF PInv, PairingTypeOK, RowsInvariant, Device
<1>2. /\ OnlyPairing(p) /\ OnlyCredential(p) /\ UNCHANGED <<device, issued, opening>>
      /\ pairing[p].state = "approved" /\ pairing'[p].state = "proof_verified"
      /\ pairing'[p].admin = pairing[p].admin /\ credential'[p].token = 0
  BY <1>1, ProofEffect DEF Complete
<1>3. device[p] = "none" /\ credential[p].token = 0
  BY <1>1, <1>2 DEF RowsOf, TokenOf
<1>4. \A d \in Device \ {p} : Same(d)
  BY <1>2, SameRows DEF OnlyPairing, OnlyCredential
<1>5. PhaseOf(p) = "approved" /\ PhaseOf(p)' = "pending" /\ AdminOf(p)' = AdminOf(p)
  BY <1>2, <1>3 DEF PhaseOf, AdminOf
<1>6. Access!Move(p, "pending")
  BY <1>4, <1>5 DEF Access!Move, Same
<1> QED
  BY <1>1, <1>2, <1>3, <1>4, <1>5, <1>6 DEF Access!Prove, Same, AdminOf

\* The confirmation transaction is Admit.
LEMMA CommitMaps ==
  ASSUME PInv, NEW p \in Pairing, ConfirmCommits(p)
  PROVE  Access!Admit(p)
<1>1. TablesTyped /\ RowsOf(p) /\ p \in Device /\ issued \in Nat
  BY Constants DEF PInv, PairingTypeOK, RowsInvariant, TablesTyped, Device
<1>2. /\ issued' = issued + 1 /\ issued' \in Nat /\ ActivatePairing(p, issued')
      /\ pairing[p].state = "proof_verified" /\ UNCHANGED opening
  BY <1>1 DEF ConfirmCommits, AwaitsConfirmation
<1>3. /\ OnlyPairing(p) /\ OnlyCredential(p) /\ OnlyDevice(p)
      /\ device'[p] = "active" /\ credential'[p].token = issued + 1
      /\ pairing'[p].admin = pairing[p].admin
  BY <1>1, <1>2, ActivateEffect
<1>4. \A d \in Device \ {p} : Same(d)
  BY <1>3, SameRows DEF OnlyPairing, OnlyCredential, OnlyDevice
<1>5. PhaseOf(p) = "pending" /\ PhaseOf(p)' = "active" /\ AdminOf(p)' = AdminOf(p)
  BY <1>1, <1>2, <1>3 DEF PhaseOf, AdminOf, RowsOf
<1>6. Access!Move(p, "active")
  BY <1>4, <1>5 DEF Access!Move, Same
<1>7. Access!NewToken(p)
  BY <1>2, <1>3, <1>4 DEF Access!NewToken, Same
<1> QED
  BY <1>1, <1>2, <1>4, <1>5, <1>6, <1>7 DEF Access!Admit, Same, AdminOf

\* A refresh is Rotate.
LEMMA RefreshMaps ==
  ASSUME PInv, NEW r \in requests, NEW heard \in BOOLEAN, Refresh(r, heard)
  PROVE  r.device \in Device /\ Access!Rotate(r.device)
<1>1. TablesTyped /\ r \in [device : Device, token : Nat, call : Nat] /\ issued \in Nat
  BY DEF PInv, PairingTypeOK, TablesTyped, ClientTyped
<1>2. /\ issued' = issued + 1 /\ issued' \in Nat /\ RotateCredential(r, issued')
      /\ device[r.device] = "active" /\ UNCHANGED <<pairing, device, opening>>
  BY <1>1 DEF Refresh, RefreshUsable, Active
<1>3. /\ OnlyCredential(r.device) /\ credential'[r.device].token = issued + 1
      /\ credential'[r.device].admin = credential[r.device].admin
  BY <1>1, <1>2, RotateEffect
<1>4. \A d \in Device \ {r.device} : Same(d)
  BY <1>2, <1>3, SameRows DEF OnlyCredential
<1>5. /\ PhaseOf(r.device) = "active" /\ PhaseOf(r.device)' = "active"
      /\ AdminOf(r.device)' = AdminOf(r.device)
  BY <1>2, <1>3 DEF PhaseOf, AdminOf
<1>6. Access!NewToken(r.device)
  BY <1>2, <1>3, <1>4 DEF Access!NewToken, Same
<1> QED
  BY <1>1, <1>2, <1>4, <1>5, <1>6 DEF Access!Rotate, Same, AdminOf

\* A revocation, asked for or for replay, is Revoke.
LEMMA RevokeMaps ==
  ASSUME PInv, NEW d \in Device, Revoke(d), UNCHANGED <<pairing, issued, opening>>
  PROVE  Access!Revoke(d)
<1>1. TablesTyped
  BY DEF PInv, PairingTypeOK
<1>2. /\ OnlyCredential(d) /\ OnlyDevice(d) /\ credential'[d].token = 0
      /\ credential'[d].admin = credential[d].admin
      /\ device[d] = "active" /\ device'[d] = "revoked"
  BY <1>1, RevokeEffect
<1>3. \A e \in Device \ {d} : Same(e)
  BY <1>2, SameRows DEF OnlyCredential, OnlyDevice
<1>4. PhaseOf(d) = "active" /\ PhaseOf(d)' = "revoked" /\ AdminOf(d)' = AdminOf(d)
  BY <1>2 DEF PhaseOf, AdminOf
<1>5. Access!Move(d, "revoked")
  BY <1>3, <1>4 DEF Access!Move, Same
<1> QED
  BY <1>2, <1>3, <1>4, <1>5 DEF Access!Revoke, Same, AdminOf

\* The mapped devices that administer are those whose rows say so.
LEMMA AdministersMaps ==
  ASSUME PInv, NEW d \in Device
  PROVE  Access!Administers(d) <=> Administers(d)
<1>1. TablesTyped /\ TokenOf(d) /\ (d \in Pairing => RowsOf(d))
  BY DEF PInv, PairingTypeOK, RowsInvariant
<1>2. device[d] \in {"none", "active", "revoked"}
  BY <1>1 DEF TablesTyped
<1>3. PhaseOf(d) = "active" <=> device[d] = "active"
  BY <1>2 DEF PhaseOf
<1>4. device[d] = "active" => credential[d].state = "active" /\ AdminOf(d) = credential[d].admin
  BY <1>1 DEF TokenOf, RowsOf, AdminOf
<1> QED
  BY <1>3, <1>4 DEF Access!Administers, Administers, Active, AdminOf

\* The first half of bootstrap-owner is Open.
LEMMA ReadsMaps ==
  ASSUME PInv, NEW o \in Owner, BootstrapReads(o)
  PROVE  Access!Open(o)
<1>1. /\ opening = {} /\ device[o] = "none" /\ NobodyAdministers
      /\ opening' = {[owner |-> o, at |-> now]}
      /\ UNCHANGED <<pairing, device, credential, issued>>
  BY DEF BootstrapReads, tables
<1>2. {b.owner : b \in opening} = {} /\ {b.owner : b \in opening'} = {o}
  BY <1>1
<1>3. \A d \in Device : Same(d)
  BY <1>1, SameRows
<1>4. o \in Device /\ PhaseOf(o) = "unknown"
  BY <1>1, PhaseCases DEF Device
<1>5. \A d \in Access!Device : ~Access!Administers(d)
  BY <1>1, AdministersMaps DEF NobodyAdministers, Access!Device, Device
<1> QED
  BY <1>1, <1>2, <1>3, <1>4, <1>5 DEF Access!Open, Same, AdminOf

\* Its second half is Bootstrap.
LEMMA BootstrapMaps ==
  ASSUME PInv, NEW b \in opening, BootstrapCommits(b)
  PROVE  Access!Bootstrap(b.owner)
<1> DEFINE o == b.owner
<1>1. /\ TablesTyped /\ o \in Owner /\ o \in Device /\ o \notin Pairing
      /\ b.at \in Nat /\ opening = {b}
  BY Constants, OpeningTyped DEF PInv, PairingTypeOK, OpeningInvariant
<1>2. UNCHANGED pairing /\ issued' = issued + 1 /\ InsertOwner(o, b.at)
  BY DEF BootstrapCommits, PrintCredential
<1>3. /\ OnlyCredential(o) /\ OnlyDevice(o) /\ credential'[o].token = issued + 1
      /\ credential'[o].admin = TRUE /\ device'[o] = "active"
  BY <1>1, <1>2, CreateEffect
<1>8. o \in {c.owner : c \in opening} /\ {c.owner : c \in opening'} = {}
  <2>1. opening' = {}
    BY <1>1 DEF BootstrapCommits
  <2> QED
    BY <2>1
<1> HIDE DEF o
<1>4. \A d \in Device \ {o} : Same(d)
  BY <1>2, <1>3, SameRows DEF OnlyCredential, OnlyDevice
<1>5. PhaseOf(o)' = "active" /\ AdminOf(o)' = TRUE
  BY <1>1, <1>3 DEF PhaseOf, AdminOf
<1>7. Access!Move(o, "active") /\ Access!NewToken(o)
  BY <1>1, <1>2, <1>3, <1>4, <1>5 DEF Access!Move, Access!NewToken, Same
<1>9. Access!Bootstrap(o)
  BY <1>1, <1>4, <1>5, <1>7, <1>8 DEF Access!Bootstrap, Same, AdminOf
<1> QED
  BY <1>9 DEF o

\* A bootstrap that fails is Abandon.
LEMMA FailsMaps ==
  ASSUME PInv, NEW b \in opening, BootstrapFails(b)
  PROVE  Access!Abandon
<1>1. opening' = {} /\ UNCHANGED <<pairing, device, credential, issued>>
  BY DEF BootstrapFails, tables, PInv, OpeningInvariant
<1>2. {c.owner : c \in opening'} = {}
  BY <1>1
<1>3. \A d \in Device : Same(d)
  BY <1>1, SameRows
<1> QED
  BY <1>1, <1>2, <1>3 DEF Access!Abandon, Same, AdminOf

\* recover-owner is Recover.
LEMMA RecoverMaps ==
  ASSUME PInv, NEW o \in Owner, NEW old \in Owner, ReplaceOwner(o, old)
  PROVE  Access!Recover(o, old)
<1>1. /\ TablesTyped /\ o \in Device /\ o \notin Pairing
      /\ old \in Device /\ old \notin Pairing
  BY Constants DEF PInv, PairingTypeOK, Device
<1>2. /\ device[o] = "none" /\ ActiveOwners = {old} /\ UNCHANGED pairing
      /\ issued' = issued + 1 /\ opening = {} /\ opening' = {}
  BY DEF ReplaceOwner, PrintCredential
<1>3. /\ o # old /\ device[old] = "active" /\ OnlyOwners(o, old)
      /\ credential'[o].token = issued + 1
      /\ credential'[o].admin = TRUE /\ device'[o] = "active"
      /\ credential'[old].token = 0
      /\ credential'[old].admin = credential[old].admin /\ device'[old] = "revoked"
  BY <1>1, ReplaceEffect
<1>4. \A d \in Device \ {o, old} : Same(d)
  BY <1>2, <1>3, SameRows DEF OnlyOwners
<1>5. /\ PhaseOf(o) = "unknown" /\ PhaseOf(o)' = "active" /\ AdminOf(o)' = TRUE
      /\ PhaseOf(old)' = "revoked" /\ AdminOf(old)' = AdminOf(old)
  BY <1>1, <1>2, <1>3 DEF PhaseOf, AdminOf
<1>6. Access!ActiveOwners = {old}
  <2>1. \A d \in Owner : PhaseOf(d) = "active" <=> d \in ActiveOwners
    <3>1. ASSUME NEW d \in Owner PROVE PhaseOf(d) = "active" <=> d \in ActiveOwners
      <4>1. d \in Device /\ TokenOf(d) /\ device[d] \in {"none", "active", "revoked"}
        BY <1>1 DEF PInv, RowsInvariant, Device, TablesTyped
      <4> QED
        BY <4>1 DEF PhaseOf, ActiveOwners, Active, TokenOf
    <3> QED
      BY <3>1
  <2>2. \A d \in Owner : d \in Device
    BY DEF Device
  <2> QED
    BY <1>2, <2>1, <2>2 DEF Access!ActiveOwners
<1>7. [d \in Device |-> PhaseOf(d)]' =
        [[d \in Device |-> PhaseOf(d)] EXCEPT ![o] = "active", ![old] = "revoked"]
  BY <1>1, <1>3, <1>4, <1>5 DEF Same
<1>8. [d \in Device |-> credential[d].token]' =
        [[d \in Device |-> credential[d].token] EXCEPT ![o] = issued + 1, ![old] = 0]
  BY <1>1, <1>3, <1>4 DEF Same
<1> DEFINE adminMap == [d \in Device |-> IF d \in Pairing THEN pairing[d].admin
                                                          ELSE credential[d].admin]
<1>9. adminMap' = [adminMap EXCEPT ![o] = TRUE]
  <2>1. \A d \in Device \ {o} : AdminOf(d)' = AdminOf(d)
    BY <1>4, <1>5 DEF Same
  <2>2. \A d \in Device : adminMap[d] = AdminOf(d) /\ adminMap'[d] = AdminOf(d)'
    BY DEF AdminOf
  <2>3. \A d \in Device : adminMap'[d] = IF d = o THEN TRUE ELSE adminMap[d]
    BY <1>5, <2>1, <2>2
  <2> HIDE DEF adminMap
  <2>4. adminMap \in [Device -> {adminMap[d] : d \in Device}]
    BY DEF adminMap
  <2>5. adminMap' = [d \in Device |-> adminMap'[d]]
    BY DEF adminMap
  <2> QED
    BY <1>1, <2>3, <2>4, <2>5
<1> QED
  BY <1>1, <1>2, <1>5, <1>6, <1>7, <1>8, <1>9 DEF Access!Recover

\* A pairing that only began is not known yet.
LEMMA BeginMaps ==
  ASSUME PInv, NEW p \in Pairing, Begin(p)
  PROVE  UNCHANGED Access!vars
<1>1. TablesTyped /\ RowsOf(p) /\ p \in Device
  BY DEF PInv, PairingTypeOK, RowsInvariant, Device
<1>2. /\ OnlyPairing(p) /\ UNCHANGED <<device, credential, issued, opening>>
      /\ pairing[p].state = "none" /\ pairing'[p].state = "pending_owner"
      /\ pairing'[p].admin = FALSE
  BY <1>1, InsertPairingEffect DEF Begin
<1>3. \A d \in Device \ {p} : Same(d)
  BY <1>2, SameRows DEF OnlyPairing
<1>4. device[p] = "none" /\ pairing[p].admin = FALSE
  BY <1>1, <1>2 DEF RowsOf
<1>5. PhaseOf(p)' = PhaseOf(p) /\ AdminOf(p)' = AdminOf(p)
  BY <1>2, <1>4 DEF PhaseOf, AdminOf
<1> QED
  BY <1>2, <1>3, <1>5, StutterMaps DEF Same

\* Every step of the Gateway is one step of DeviceAccess, or none.
LEMMA StepMaps == PInv /\ [Next]_vars => [Access!Next]_(Access!vars)
<1> SUFFICES ASSUME PInv, [Next]_vars PROVE Access!Next \/ UNCHANGED Access!vars
  OBVIOUS
<1>a. requests \subseteq [device : Device, token : Nat, call : Nat]
  BY DEF PInv, PairingTypeOK, ClientTyped
<1>b. Access!Device = Device /\ \A p \in Pairing : p \in Device
  BY DEF Access!Device, Device
<1>0. ASSUME UNCHANGED <<pairing, device, credential, issued, opening>>
      PROVE  UNCHANGED Access!vars
  BY <1>0, SameRows, StutterMaps
<1>1. CASE PairingNext
  <2>1. ASSUME NEW p \in Pairing, ExpireIfNeeded(p)
        PROVE  Access!Next \/ UNCHANGED Access!vars
    BY <1>b, <2>1, ExpireMaps DEF ExpireIfNeeded, Access!Next
  <2>2. ASSUME NEW p \in Pairing, NEW by \in Device, NEW scope \in BOOLEAN,
               Approve(by, p, scope)
        PROVE  Access!Next
    BY <1>b, <2>2, ApproveMaps DEF Access!Next
  <2>3. ASSUME NEW p \in Pairing, Complete(p) PROVE Access!Next
    BY <1>b, <2>3, ProofMaps DEF Access!Next
  <2> QED
    BY <1>1, <2>1, <2>2, <2>3, BeginMaps
    DEF PairingNext, Inspect, ApproveExpired, CompleteExpired
<1>2. CASE ConfirmNext
  <2>1. ASSUME NEW p \in Pairing, ConfirmCommits(p) PROVE Access!Next
    BY <1>b, <2>1, CommitMaps DEF Access!Next
  <2>2. ASSUME NEW p \in Pairing, ConfirmTooLate(p)
        PROVE  Access!Next \/ UNCHANGED Access!vars
    BY <1>b, <2>2, ExpireMaps DEF ConfirmTooLate, Access!Next
  <2>3. ASSUME NEW p \in Pairing,
               \/ ConfirmStarts(p) \/ ConfirmFails(p)
               \/ \E heard \in BOOLEAN :
                    ConfirmFromCache(p, heard) \/ ConfirmAnswers(p, heard)
        PROVE  UNCHANGED <<pairing, device, credential, issued, opening>>
    BY <2>3 DEF ConfirmStarts, ConfirmFails, ConfirmFromCache, ConfirmAnswers, tables
  <2> QED
    BY <1>0, <1>2, <2>1, <2>2, <2>3 DEF ConfirmNext
<1>3. CASE RefreshNext
  <2>1. ASSUME NEW r \in requests, NEW heard \in BOOLEAN, Refresh(r, heard)
        PROVE  Access!Next
    BY <1>b, <2>1, RefreshMaps DEF Access!Next
  <2>2. ASSUME NEW r \in requests, NEW heard \in BOOLEAN, RevokeReplayed(r, heard)
        PROVE  Access!Next
    <3>1. r.device \in Device /\ Revoke(r.device) /\ UNCHANGED <<pairing, issued, opening>>
      BY <1>a, <2>2 DEF RevokeReplayed
    <3> QED
      BY <1>b, <3>1, RevokeMaps DEF Access!Next
  <2>3. ASSUME NEW r \in requests, NEW heard \in BOOLEAN, RefuseRefresh(r, heard)
        PROVE  UNCHANGED <<pairing, device, credential, issued, opening>>
    BY <2>3 DEF RefuseRefresh, tables
  <2> QED
    BY <1>0, <1>3, <2>1, <2>2, <2>3 DEF RefreshNext
<1>4. CASE OwnerNext
  <2>1. \A b \in opening : b.owner \in Owner
    BY OpeningTyped DEF PInv, PairingTypeOK
  <2> QED
    BY <1>4, <2>1, ReadsMaps, BootstrapMaps, FailsMaps, RecoverMaps DEF OwnerNext, Access!Next
<1>5. ASSUME NEW by \in Device, NEW d \in Device, RevokeDevice(by, d)
      PROVE  Access!Next
  <2>1. Revoke(d) /\ UNCHANGED <<pairing, issued, opening>>
    BY <1>5 DEF RevokeDevice
  <2> QED
    BY <1>b, <2>1, RevokeMaps DEF Access!Next
<1>6. CASE \/ RefuseBegin \/ Tick \/ Restart \/ UNCHANGED vars
           \/ \E d \in Device : ClientRefreshes(d) \/ ClientGivesUp(d)
  <2>1. UNCHANGED <<pairing, device, credential, issued, opening>>
    BY <1>6 DEF RefuseBegin, Tick, Restart, vars, ClientRefreshes, ClientGivesUp, tables
  <2> QED
    BY <1>0, <2>1
<1> QED
  BY <1>1, <1>2, <1>3, <1>4, <1>5, <1>6 DEF Next

\* The Gateway implements DeviceAccess: its transactions are the atomic steps
\* promised there, and everything else it does is invisible.
THEOREM GatewayImplementsAccess == Spec => ImplementsDeviceAccess
<1>1. Init => Access!Init
  BY InitMaps
<1>2. PInv /\ [Next]_vars => [Access!Next]_(Access!vars)
  BY StepMaps
<1> QED
  BY <1>1, <1>2, PairingSafe, PTL DEF Spec, ImplementsDeviceAccess, Access!Spec

\* So what is proved of DeviceAccess is true of the Gateway: one owner at most is
\* active, whatever bootstrap, recovery and revocation do (owner-bootstrap.ts:263
\* and 297), and no token or device that was given up comes back.
Promised == INSTANCE DeviceAccessProofs WITH
  Paired <- Pairing,
  phase <- [d \in Device |-> PhaseOf(d)],
  admin <- [d \in Device |-> IF d \in Pairing THEN pairing[d].admin
                                              ELSE credential[d].admin],
  token <- [d \in Device |-> credential[d].token],
  issued <- issued,
  opening <- {b.owner : b \in opening}

THEOREM GatewayKeepsOneOwner == Spec => []Access!SingleOwner
<1>1. Promised!Spec => []Promised!SingleOwner
  BY Promised!OneOwner
<1>2. Promised!Init <=> Access!Init
  BY DEF Promised!Init, Access!Init, Promised!Device, Access!Device
<1>3. [Promised!Next]_(Promised!vars) <=> [Access!Next]_(Access!vars)
  BY DEF Promised!Next, Access!Next, Promised!vars, Access!vars, Promised!Device, Access!Device,
    Promised!Approve, Access!Approve, Promised!Prove, Access!Prove, Promised!Drop, Access!Drop,
    Promised!Admit, Access!Admit, Promised!Rotate, Access!Rotate, Promised!Revoke,
    Access!Revoke, Promised!Open, Access!Open, Promised!Bootstrap, Access!Bootstrap,
    Promised!Abandon, Access!Abandon, Promised!Recover, Access!Recover,
    Promised!Move, Access!Move, Promised!NewToken, Access!NewToken, Promised!Administers,
    Access!Administers, Promised!ActiveOwners, Access!ActiveOwners
<1>4. Promised!SingleOwner <=> Access!SingleOwner
  BY DEF Promised!SingleOwner, Access!SingleOwner, Promised!ActiveOwners, Access!ActiveOwners
<1> QED
  BY <1>1, <1>2, <1>3, <1>4, GatewayImplementsAccess, PTL
  DEF ImplementsDeviceAccess, Promised!Spec, Access!Spec
===============================================================================
