---------------------------- MODULE DevicePairing ----------------------------
(***************************************************************************)
(* Device pairing, credentials and the owner                               *)
(* (services/gateway/src/pairing.ts, postgres-pairing-ledger.ts, device-   *)
(* identity.ts, owner-bootstrap.ts) with the client that keeps the         *)
(* credential.                                                             *)
(*                                                                         *)
(* A database transaction that locks the rows it decides on before it      *)
(* reads them is one action.  The bootstrap of the first owner is not one  *)
(* of these: it asks for administrators without locking their rows, so it  *)
(* reads in one action and commits in another, and the Gateway works on in *)
(* between. A confirmation, which others may join, works with the time it  *)
(* was asked for.  What the process keeps in memory (cached confirmations  *)
(* and the confirmations under way) is lost by Restart.  A pairing and the *)
(* device and credential it creates have one identity; one token number    *)
(* stands for an access token and the refresh token issued with it; 0 is   *)
(* SQL's NULL.  An administrator's RPC was authenticated at some earlier   *)
(* time, so only what its transaction checks again constrains it.          *)
(* Signatures and nonces are valid and new: any other request is refused   *)
(* and changes nothing.                                                    *)
(***************************************************************************)
EXTENDS Integers, FiniteSets

CONSTANTS
  Pairing,      \* pairing attempts: their pairing, device and credential IDs
  Owner,        \* the devices local bootstrap and recovery create
  PairingLife, ConfirmLife, CacheLife, AccessLife, FamilyLife, RateWindow,
  MaxBegins,    \* maximumBeginsPerWindow
  MaxTime,      \* bound: the last instant
  MaxCalls,     \* bound: refresh calls
  Caller        \* bound: the devices whose clients refresh

ASSUME PairingAssumption ==
  /\ Pairing \cap Owner = {}
  /\ {PairingLife, ConfirmLife, CacheLife, AccessLife, FamilyLife,
      RateWindow, MaxBegins} \subseteq Nat \ {0}
  /\ {MaxTime, MaxCalls} \subseteq Nat

Device == Pairing \cup Owner

VARIABLES
  now,
  window,         \* pairing_rate_limits: the row of the one address modelled
  pairing,        \* pairings
  device,         \* devices.status, "none" before the row is inserted
  credential,     \* device_credentials
  used,           \* device_refresh_history
  opening,        \* bootstraps that found no administrator and have not committed
  issued,         \* tokens drawn so far
  cached,         \* confirmationResults
  flight,         \* inFlightConfirmations
  requests,       \* refresh calls on the way
  held,           \* the token in the client's credential store
  waiting,        \* the refresh call the client waits for
  calls,          \* refresh calls made so far, each with its own nonce
  answered,       \* history: the token in the last answer to the paired device
  gaveUp,         \* history: clients that stopped waiting for a refresh
  replayed        \* history: devices revoked because a used token came back

tables == <<window, pairing, device, credential, used, issued>>
memory == <<cached, flight>>
client == <<requests, held, waiting, calls, gaveUp>>
vars == <<now, opening, tables, memory, client, answered, replayed>>

NoPairing == [state |-> "none", admin |-> FALSE, expiresAt |-> 0, confirmBy |-> 0]
NoCredential ==
  [state |-> "none", admin |-> FALSE, token |-> 0, family |-> 0]
NoAnswer == [token |-> 0, until |-> 0]
Idle == [stage |-> "none", at |-> 0, token |-> 0]

Active(d) == credential[d].state = "active" /\ device[d] = "active"
\* assertAdministratorCredential, and inspect's check of the device row.
Administers(d) == Active(d) /\ credential[d].admin
ActiveOwners == {o \in Owner : Active(o)}
----------------------------------------------------------------------------
\* Begin, Inspect, Approve, Complete

WindowOver == window.count = 0 \/ window.start + RateWindow <= now

\* consumePairingRateLimit: denied attempts are counted too.
Attempt ==
  window' = IF WindowOver THEN [start |-> now, count |-> 1]
                          ELSE [window EXCEPT !.count = @ + 1]

InsertPairing(p) ==
  pairing' = [pairing EXCEPT ![p] =
    [NoPairing EXCEPT !.state = "pending_owner", !.expiresAt = now + PairingLife]]

Begin(p) ==
  /\ pairing[p].state = "none"
  /\ Attempt /\ window'.count <= MaxBegins
  /\ InsertPairing(p)
  /\ UNCHANGED <<now, opening, device, credential, used, issued, memory, client,
                 answered, replayed>>

\* A further denied attempt changes nothing that any later one could tell.
RefuseBegin ==
  /\ window.count <= MaxBegins
  /\ Attempt /\ window'.count > MaxBegins
  /\ UNCHANGED <<now, opening, pairing, device, credential, used, issued, memory, client,
                 answered, replayed>>

\* Faulty forms of the next definition: the credential row forgotten, or given
\* the pairing's word.
ExpireRowOnly(p) ==
  /\ pairing' = [pairing EXCEPT ![p].state = "expired"]
  /\ UNCHANGED credential

ExpireBothRows(p) ==
  /\ pairing' = [pairing EXCEPT ![p].state = "expired"]
  /\ credential' = [credential EXCEPT ![p].state = "expired"]

\* expirePairing: a pending credential dies with its pairing, a confirmed
\* pairing stays as it is.
Expire(p) ==
  /\ pairing' = IF pairing[p].state \in {"confirmed", "expired"} THEN pairing
                ELSE [pairing EXCEPT ![p].state = "expired"]
  /\ credential' = IF credential[p].state = "pending"
                   THEN [credential EXCEPT ![p].state = "revoked"] ELSE credential

Due(p) == pairing[p].state = "expired" \/ pairing[p].expiresAt <= now

\* expireIfNeeded, by whichever handler finds the pairing; its transaction
\* commits although the caller gets an error.
ExpireIfNeeded(p) ==
  /\ pairing[p].state # "none" /\ Due(p)
  /\ Expire(p)
  /\ UNCHANGED <<now, opening, window, device, used, issued, cached, flight, client,
                 answered, replayed>>

\* inspect checks the administrator first, then finds the pairing.
Inspect(by, p) == Administers(by) /\ ExpireIfNeeded(p)

\* approve finds the pairing first: an expired one is expired for anybody.
ApproveExpired(p) == ExpireIfNeeded(p)

ApprovePairing(p, admin) ==
  pairing' = [pairing EXCEPT ![p].state = "approved", ![p].admin = admin]

\* The device asks for every scope; the owner grants any part of them.
Approve(by, p, admin) ==
  /\ pairing[p].state = "pending_owner" /\ ~Due(p)
  /\ Administers(by)
  /\ ApprovePairing(p, admin)
  /\ UNCHANGED <<now, opening, window, device, credential, used, issued, cached, flight,
                 client, answered, replayed>>

VerifyPairingProof(p) ==
  /\ pairing' = [pairing EXCEPT ![p].state = "proof_verified",
                                ![p].confirmBy = now + ConfirmLife]
  /\ credential' = [credential EXCEPT ![p] =
       [NoCredential EXCEPT !.state = "pending", !.admin = pairing[p].admin,
                            !.family = now + FamilyLife]]

\* The first proof creates the pending credential, a repeated one is answered
\* from the row.
Complete(p) ==
  /\ pairing[p].state = "approved" /\ ~Due(p)
  /\ VerifyPairingProof(p)
  /\ UNCHANGED <<now, opening, window, device, used, issued, memory, client,
                 answered, replayed>>

CompleteExpired(p) == ExpireIfNeeded(p)
----------------------------------------------------------------------------
\* Confirm

\* The client saves a confirmed credential only where it has none; a call it no
\* longer waits for, or a response that is lost, is not heard.
HearConfirmed(p, t, heard) ==
  /\ answered' = [answered EXCEPT ![p] = t]
  /\ held' = IF heard /\ held[p] = 0 THEN [held EXCEPT ![p] = t] ELSE held

\* A faulty form: the device is still active, whatever its token is by now.
CachedStillActive(p) == Active(p)

\* cachedConfirmationIsCurrent: the ledger still has exactly this result (whose
\* access token expires no earlier than the entry).
CachedIsCurrent(p) ==
  Active(p) /\ credential[p].token = cached[p].token

MayUseCache(p) == cached[p].until > now /\ CachedIsCurrent(p)

ConfirmFromCache(p, heard) ==
  /\ MayUseCache(p)
  /\ HearConfirmed(p, cached[p].token, heard)
  /\ UNCHANGED <<now, opening, tables, memory, requests, waiting, calls, gaveUp, replayed>>

\* A second call while one is under way awaits the same answer.
ConfirmStarts(p) ==
  /\ pairing[p].state \in {"proof_verified", "confirmed"} /\ ~MayUseCache(p)
  /\ cached' = [cached EXCEPT ![p] = NoAnswer]
  /\ flight[p] = Idle
  /\ flight' = [flight EXCEPT ![p] = [stage |-> "begun", at |-> now, token |-> 0]]
  /\ UNCHANGED <<now, opening, tables, client, answered, replayed>>

AwaitsConfirmation(p) ==
  pairing[p].state = "proof_verified" /\ credential[p].state = "pending"

ActivatePairing(p, token) ==
  /\ device' = [device EXCEPT ![p] = "active"]
  /\ credential' = [credential EXCEPT ![p].state = "active", ![p].token = token]
  /\ pairing' = [pairing EXCEPT ![p].state = "confirmed"]

\* confirmOnce, one transaction.
ConfirmCommits(p) ==
  /\ flight[p].stage = "begun" /\ AwaitsConfirmation(p)
  /\ pairing[p].confirmBy > flight[p].at
  /\ issued' = issued + 1
  /\ ActivatePairing(p, issued')
  /\ flight' = [flight EXCEPT ![p].stage = "committed", ![p].token = issued']
  /\ UNCHANGED <<now, opening, window, used, cached, client, answered, replayed>>

ConfirmTooLate(p) ==
  /\ flight[p].stage = "begun" /\ AwaitsConfirmation(p)
  /\ pairing[p].confirmBy <= flight[p].at
  /\ Expire(p)
  /\ flight' = [flight EXCEPT ![p] = Idle]
  /\ UNCHANGED <<now, opening, window, device, used, issued, cached, client,
                 answered, replayed>>

\* Refused, rolled back, or committed with the answer of COMMIT lost.
ConfirmFails(p) ==
  /\ flight[p] # Idle
  /\ flight' = [flight EXCEPT ![p] = Idle]
  /\ UNCHANGED <<now, opening, tables, cached, client, answered, replayed>>

Earliest(S) == CHOOSE t \in S : \A u \in S : t <= u

CacheConfirmation(p) ==
  LET at == flight[p].at IN
  cached' = [cached EXCEPT ![p] =
    [token |-> flight[p].token,
     until |-> Earliest({at + CacheLife, at + AccessLife, credential[p].family})]]

ConfirmAnswers(p, heard) ==
  /\ flight[p].stage = "committed"
  /\ CacheConfirmation(p)
  /\ flight' = [flight EXCEPT ![p] = Idle]
  /\ HearConfirmed(p, flight[p].token, heard)
  /\ UNCHANGED <<now, opening, tables, requests, waiting, calls, gaveUp,
                 replayed>>
----------------------------------------------------------------------------
\* Refresh and revocation

\* A faulty form: another call while one is under way.
ClientRefreshesTwice(d) ==
  /\ d \in Caller /\ held[d] # 0 /\ calls < MaxCalls
  /\ calls' = calls + 1
  /\ waiting' = [waiting EXCEPT ![d] = calls']
  /\ requests' = requests \cup
       {[device |-> d, token |-> held[d], call |-> calls']}
  /\ UNCHANGED <<now, opening, tables, memory, held, gaveUp, answered, replayed>>

\* The client has one call at a time; its clock decides when, so it may be early.
ClientRefreshes(d) ==
  /\ d \in Caller /\ held[d] # 0 /\ waiting[d] = 0 /\ calls < MaxCalls
  /\ calls' = calls + 1
  /\ waiting' = [waiting EXCEPT ![d] = calls']
  /\ requests' = requests \cup
       {[device |-> d, token |-> held[d], call |-> calls']}
  /\ UNCHANGED <<now, opening, tables, memory, held, gaveUp, answered, replayed>>

\* Its timeout, or the end of the client before it saved the answer.
ClientGivesUp(d) ==
  /\ waiting[d] # 0
  /\ waiting' = [waiting EXCEPT ![d] = 0] /\ gaveUp' = gaveUp \cup {d}
  /\ UNCHANGED <<now, opening, tables, memory, requests, held, calls, answered, replayed>>

\* The response to r, heard only by a client that still waits for this call.
Hears(r, heard) ==
  /\ requests' = requests \ {r}
  /\ heard => waiting[r.device] = r.call
  /\ waiting' = IF heard THEN [waiting EXCEPT ![r.device] = 0] ELSE waiting

RefreshUsable(r) == Active(r.device) /\ credential[r.device].family > now
WasUsed(r) == <<r.device, r.token>> \in used
\* A faulty form: a token that was current once buys a new one.
IsKnown(r) == credential[r.device].token = r.token \/ WasUsed(r)
IsCurrent(r) == credential[r.device].token = r.token

RotateCredential(r, token) ==
  /\ used' = used \cup {<<r.device, r.token>>}
  /\ credential' = [credential EXCEPT ![r.device].token = token]

Refresh(r, heard) ==
  LET d == r.device IN
  /\ r \in requests /\ RefreshUsable(r) /\ IsCurrent(r)
  /\ issued' = issued + 1
  /\ RotateCredential(r, issued')
  /\ Hears(r, heard)
  /\ held' = IF heard THEN [held EXCEPT ![d] = issued'] ELSE held
  /\ answered' = IF d \in Pairing THEN [answered EXCEPT ![d] = issued'] ELSE answered
  /\ UNCHANGED <<now, opening, window, pairing, device, memory, calls, gaveUp, replayed>>

\* revokeDeviceCredentials
Revoke(d) ==
  /\ device[d] = "active"
  /\ device' = [device EXCEPT ![d] = "revoked"]
  /\ credential' = [credential EXCEPT ![d].state = "revoked", ![d].token = 0]

RevokeReplayed(r, heard) ==
  /\ r \in requests /\ RefreshUsable(r) /\ ~IsCurrent(r) /\ WasUsed(r)
  /\ Revoke(r.device) /\ replayed' = replayed \cup {r.device}
  /\ Hears(r, heard)
  /\ UNCHANGED <<now, opening, window, pairing, used, issued, memory, held, calls, gaveUp,
                 answered>>

RefuseRefresh(r, heard) ==
  /\ r \in requests /\ ~(RefreshUsable(r) /\ (IsCurrent(r) \/ WasUsed(r)))
  /\ Hears(r, heard)
  /\ UNCHANGED <<now, opening, tables, memory, held, calls, gaveUp, answered, replayed>>

RevokeDevice(by, d) ==
  /\ Administers(by)
  /\ Revoke(d)
  /\ UNCHANGED <<now, opening, window, pairing, used, issued, cached, flight, client,
                 answered, replayed>>
----------------------------------------------------------------------------
\* The owner's local commands, serialised by an advisory lock; the owner's
\* client keeps what they print (an owner who loses it is one who never acts).

\* prepareOwner, at the time `at': the rows and what is printed.
OwnerCredential(at) ==
  [state |-> "active", admin |-> TRUE, token |-> issued + 1,
   family |-> at + FamilyLife]

PrintCredential(o) ==
  /\ issued' = issued + 1
  /\ held' = [held EXCEPT ![o] = issued']

InsertOwner(o, at) ==
  /\ device' = [device EXCEPT ![o] = "active"]
  /\ credential' = [credential EXCEPT ![o] = OwnerCredential(at)]

\* A faulty form: only owners count as administrators.
NoOwnerActive == ActiveOwners = {}
NobodyAdministers == \A d \in Device : ~Administers(d)

\* createInitialOwner, its first half: it keeps the other local commands out
\* until it ends, but locks no row, so a confirmation may admit an administrator.
BootstrapReads(o) ==
  /\ opening = {} /\ device[o] = "none" /\ NobodyAdministers
  /\ opening' = {[owner |-> o, at |-> now]}
  /\ UNCHANGED <<now, tables, memory, client, answered, replayed>>

\* Its second half, which looks at nothing again.
BootstrapCommits(b) ==
  /\ opening' = opening \ {b}
  /\ PrintCredential(b.owner)
  /\ InsertOwner(b.owner, b.at)
  /\ UNCHANGED <<now, window, pairing, used, memory, requests, waiting, calls,
                 gaveUp, answered, replayed>>

\* Rolled back, or the command or its connection ended.
BootstrapFails(b) ==
  /\ opening' = opening \ {b}
  /\ UNCHANGED <<now, tables, memory, client, answered, replayed>>

\* replaceOwner locks both rows of the owner it finds.
ReplaceOwner(o, old) ==
  /\ opening = {} /\ device[o] = "none" /\ ActiveOwners = {old}
  /\ PrintCredential(o)
  /\ device' = [device EXCEPT ![o] = "active", ![old] = "revoked"]
  /\ credential' = [credential EXCEPT ![o] = OwnerCredential(now),
                      ![old].state = "revoked", ![old].token = 0]
  /\ UNCHANGED <<now, opening, window, pairing, used, memory, requests, waiting,
                 calls, gaveUp, answered, replayed>>
----------------------------------------------------------------------------
\* Time passes; a cached confirmation goes with its timer.
Tick ==
  /\ now < MaxTime
  /\ now' = now + 1
  /\ cached' = [p \in Pairing |-> IF cached[p].until <= now' THEN NoAnswer ELSE cached[p]]
  /\ UNCHANGED <<opening, tables, flight, client, answered, replayed>>

\* The Gateway process ends and starts again.
Restart ==
  /\ cached' = [p \in Pairing |-> NoAnswer]
  /\ flight' = [p \in Pairing |-> Idle]
  /\ UNCHANGED <<now, opening, tables, client, answered, replayed>>

Init ==
  /\ now = 0
  /\ window = [start |-> 0, count |-> 0]
  /\ pairing = [p \in Pairing |-> NoPairing]
  /\ device = [d \in Device |-> "none"]
  /\ credential = [d \in Device |-> NoCredential]
  /\ used = {} /\ issued = 0 /\ opening = {}
  /\ cached = [p \in Pairing |-> NoAnswer]
  /\ flight = [p \in Pairing |-> Idle]
  /\ requests = {} /\ calls = 0
  /\ held = [d \in Device |-> 0]
  /\ waiting = [d \in Device |-> 0]
  /\ answered = [p \in Pairing |-> 0]
  /\ gaveUp = {} /\ replayed = {}

PairingNext ==
  \E p \in Pairing :
    \/ Begin(p) \/ ApproveExpired(p)
    \/ Complete(p) \/ CompleteExpired(p)
    \/ \E by \in Device :
         \/ Inspect(by, p)
         \/ \E admin \in BOOLEAN : Approve(by, p, admin)

ConfirmNext ==
  \E p \in Pairing :
    \/ ConfirmStarts(p) \/ ConfirmCommits(p) \/ ConfirmTooLate(p) \/ ConfirmFails(p)
    \/ \E heard \in BOOLEAN : ConfirmFromCache(p, heard) \/ ConfirmAnswers(p, heard)

RefreshNext ==
  \E r \in requests, heard \in BOOLEAN :
    \/ Refresh(r, heard)
    \/ RevokeReplayed(r, heard)
    \/ RefuseRefresh(r, heard)

OwnerNext ==
  \/ \E o \in Owner :
       \/ BootstrapReads(o)
       \/ \E old \in Owner : ReplaceOwner(o, old)
  \/ \E b \in opening : BootstrapCommits(b) \/ BootstrapFails(b)

Next ==
  \/ PairingNext \/ ConfirmNext \/ RefreshNext \/ OwnerNext
  \/ RefuseBegin
  \/ \E d \in Device : ClientRefreshes(d) \/ ClientGivesUp(d)
  \/ \E by, d \in Device : RevokeDevice(by, d)
  \/ Tick \/ Restart

Spec == Init /\ [][Next]_vars
----------------------------------------------------------------------------
PairingRow ==
  [state : {"none", "pending_owner", "approved", "proof_verified", "confirmed",
            "expired"},
   admin : BOOLEAN, expiresAt : Nat, confirmBy : Nat]
CredentialRow ==
  [state : {"none", "pending", "active", "revoked"}, admin : BOOLEAN,
   token : Nat, family : Nat]
CachedEntry == [token : Nat, until : Nat]
Flight == [stage : {"none", "begun", "committed"}, at : Nat, token : Nat]

TablesTyped ==
  /\ now \in 0..MaxTime
  /\ window \in [start : Nat, count : Nat]
  /\ pairing \in [Pairing -> PairingRow]
  /\ device \in [Device -> {"none", "active", "revoked"}]
  /\ credential \in [Device -> CredentialRow]
  /\ used \subseteq Device \X Nat
  /\ issued \in Nat
  /\ opening \subseteq [owner : Owner, at : Nat]

MemoryTyped ==
  /\ cached \in [Pairing -> CachedEntry]
  /\ flight \in [Pairing -> Flight]

ClientTyped ==
  /\ requests \subseteq [device : Device, token : Nat, call : Nat]
  /\ held \in [Device -> Nat] /\ waiting \in [Device -> Nat] /\ calls \in Nat
  /\ answered \in [Pairing -> Nat]
  /\ gaveUp \subseteq Device /\ replayed \subseteq Device

PairingTypeOK == TablesTyped /\ MemoryTyped /\ ClientTyped

\* The three tables tell one story of a device, however expiry, confirmation,
\* refresh, revocation and recovery interleave: a pending credential exactly
\* while its proof waits for confirmation, a device row exactly after it, an
\* accepted token exactly while both rows are active (pairing.ts:747,
\* postgres-pairing-ledger.ts:348 and 412).
RowsAgree ==
  /\ \A p \in Pairing :
       /\ credential[p].state = "pending" <=> pairing[p].state = "proof_verified"
       /\ device[p] # "none" <=> pairing[p].state = "confirmed"
       /\ pairing[p].state \in {"none", "pending_owner", "approved"} =>
            credential[p].state = "none"
  /\ \A d \in Device :
       /\ device[d] = "active" <=> credential[d].state = "active"
       /\ device[d] = "active" <=> credential[d].token # 0

\* Every answer that hands out a token hands out the one the ledger accepts at
\* that time, or that of a device revoked meanwhile: a cached confirmation is
\* never given after a refresh replaced it (pairing.ts:421).
AnswersCurrent ==
  [][\A p \in Pairing : answered'[p] # answered[p] =>
       answered'[p] = credential'[p].token \/ device'[p] = "revoked"]_vars

\* A token is replaced in exchange for itself only, and once: one that was used
\* buys nothing (pairing.ts:601-650).
RotatedInExchange ==
  [][\A d \in Device :
       credential[d].token # 0 /\ credential'[d].token \notin {0, credential[d].token} =>
         \E r \in requests \ requests' :
           r.device = d /\ r.token = credential[d].token]_vars

\* A device is revoked for replay only if its client gave up a refresh call
\* before: calls that are merely slow, or answered from a restarted Gateway, or
\* confirmed twice, never cost an honest client its credential (pairing.ts:640).
ReplayOnlyAfterLoss == replayed \subseteq gaveUp

\* The Gateway keeps the promises of DeviceAccess: the phase of a device is its
\* status once it has a row, and before that the state of its pairing.
PhaseOf(d) ==
  CASE device[d] # "none" -> device[d]
    [] d \in Pairing /\ device[d] = "none" ->
         (CASE pairing[d].state = "approved" -> "approved"
            [] pairing[d].state = "proof_verified" -> "pending"
            [] pairing[d].state = "expired" -> "dropped"
            [] OTHER -> "unknown")
    [] OTHER -> "unknown"

Access == INSTANCE DeviceAccess WITH
  Paired <- Pairing,
  phase <- [d \in Device |-> PhaseOf(d)],
  admin <- [d \in Device |-> IF d \in Pairing THEN pairing[d].admin
                                              ELSE credential[d].admin],
  token <- [d \in Device |-> credential[d].token],
  issued <- issued,
  opening <- {b.owner : b \in opening}

ImplementsDeviceAccess == Access!Spec
=============================================================================
