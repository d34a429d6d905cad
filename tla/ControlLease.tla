---------------------------- MODULE ControlLease ----------------------------
(***************************************************************************)
(* What the Gateway promises about the control lease of one conversation:  *)
(* the acquire, takeover and renewal of services/gateway/src/              *)
(* control-lease.ts and the lease check every command makes, each as one   *)
(* atomic step.  LeaseTransactions has the row locks and the separate      *)
(* steps of the real transactions and implements this specification.       *)
(*                                                                         *)
(* A handler reads the clock once, while it holds its locks, and commits   *)
(* later: `at' is the time it read, which may lie in the past of the step  *)
(* but never before the time read by an earlier commit.                    *)
(***************************************************************************)
EXTENDS Naturals

CONSTANTS
  Device,        \* paired devices
  Controllers,   \* those with a scope of controlScopes (send, interrupt, approve)
  LeaseId,       \* the opaque identifiers of newOpaqueId
  NoLease,       \* the conversation has no row in control_leases
  Duration,      \* controlLeaseDurationMs, in ticks of the model's clock
  MaxTime,       \* bound: last tick of the clock
  MaxRevision,   \* bound: last revision of the lease
  MaxCommands    \* bound: commands accepted under leases

ASSUME DeviceAssumption == Controllers \subseteq Device
ASSUME NoLeaseAssumption ==
  NoLease \notin [id : LeaseId, device : Device, revision : Nat, at : Nat, expiresAt : Nat]
ASSUME BoundAssumption ==
  /\ Duration \in Nat \ {0}
  /\ MaxTime \in Nat /\ MaxRevision \in Nat /\ MaxCommands \in Nat

VARIABLES
  now,       \* the clock of the Gateway process
  active,    \* devices.status = 'active'
  lease,     \* the row of control_leases, or NoLease
  issued,    \* history: every lease value ever committed
  accepted   \* history: every command committed under a lease

vars == <<now, active, lease, issued, accepted>>

Time == 0 .. MaxTime
Revision == 1 .. MaxRevision

\* A lease row; `at' is the clock reading that produced it.
Lease == [id : LeaseId, device : Device, revision : Revision,
          at : Time, expiresAt : 0 .. (MaxTime + Duration)]

\* A committed command and the lease identity it was accepted under.
Command == [number : 1 .. MaxCommands, device : Device, id : LeaseId,
            revision : Revision, at : Time]
----------------------------------------------------------------------------
\* newExpiry and the record every change of the lease writes.
NewLease(id, d, revision, t) ==
  [id |-> id, device |-> d, revision |-> revision, at |-> t, expiresAt |-> t + Duration]

\* authorizeDevice: an active device with a control scope.
MayControl(d) == active[d] /\ d \in Controllers

\* No commit has read a later clock than t.
NotBefore(t) == \A e \in issued \cup accepted : e.at <= t

\* The test of renewControlLease and of every command: the device holds the
\* lease and it has not expired at t.
Holds(d, t) == lease # NoLease /\ lease.device = d /\ t < lease.expiresAt

Issue(l) ==
  /\ lease' = l
  /\ issued' = issued \cup {l}
  /\ UNCHANGED <<now, active, accepted>>

FreshId(id) == \A l \in issued : l.id # id

\* acquireControlLease on a conversation without a lease.
Acquire(d, id, t) ==
  /\ MayControl(d) /\ NotBefore(t) /\ FreshId(id)
  /\ lease = NoLease /\ 1 <= MaxRevision
  /\ Issue(NewLease(id, d, 1, t))

\* acquireControlLease with an explicit takeover: another device, a new lease
\* id; expiry of the old lease is not required.
TakeOver(d, id, t) ==
  /\ MayControl(d) /\ NotBefore(t) /\ FreshId(id)
  /\ lease # NoLease /\ lease.device # d /\ lease.revision < MaxRevision
  /\ Issue(NewLease(id, d, lease.revision + 1, t))

\* renewControlLease: the same id, the next revision.
Renew(d, t) ==
  /\ MayControl(d) /\ NotBefore(t)
  /\ Holds(d, t) /\ lease.revision < MaxRevision
  /\ Issue(NewLease(lease.id, d, lease.revision + 1, t))

\* A send, interrupt, approval or clarification accepted under the lease.
AcceptCommand(d, n, t) ==
  /\ MayControl(d) /\ NotBefore(t)
  /\ Holds(d, t)
  /\ \A c \in accepted : c.number # n
  /\ accepted' = accepted \cup
       {[number |-> n, device |-> d, id |-> lease.id, revision |-> lease.revision, at |-> t]}
  /\ UNCHANGED <<now, active, lease, issued>>

\* Administrator or self revocation of a device; the lease row stays.
Revoke(d) ==
  /\ active[d]
  /\ active' = [active EXCEPT ![d] = FALSE]
  /\ UNCHANGED <<now, lease, issued, accepted>>

Tick ==
  /\ now < MaxTime
  /\ now' = now + 1
  /\ UNCHANGED <<active, lease, issued, accepted>>

Init ==
  /\ now = 0
  /\ active = [d \in Device |-> TRUE]
  /\ lease = NoLease
  /\ issued = {}
  /\ accepted = {}

Decide(d, t) ==
  \/ \E id \in LeaseId : Acquire(d, id, t) \/ TakeOver(d, id, t)
  \/ Renew(d, t)
  \/ \E n \in 1 .. MaxCommands : AcceptCommand(d, n, t)

Next ==
  \/ \E d \in Device, t \in 0 .. now : Decide(d, t)
  \/ \E d \in Device : Revoke(d)
  \/ Tick

Spec == Init /\ [][Next]_vars
----------------------------------------------------------------------------
TypeOK ==
  /\ now \in Time
  /\ active \in [Device -> BOOLEAN]
  /\ lease \in Lease \cup {NoLease}
  /\ issued \subseteq Lease
  /\ accepted \subseteq Command

\* A revision names one lease value: no two commits, of renewals or takeovers,
\* ever hand out the same revision, and an id never changes its device.
RevisionsUnique ==
  \A l, m \in issued :
    /\ l.revision = m.revision => l = m
    /\ l.id = m.id => l.device = m.device

\* Fencing.  A command was accepted under a lease that had been issued to its
\* device and was not expired; and once a later lease value is issued (renewal
\* or takeover) nothing is accepted under the old one.
CommandsFenced ==
  \A c \in accepted :
    /\ \E l \in issued :
         /\ l.id = c.id /\ l.revision = c.revision /\ l.device = c.device
         /\ l.at <= c.at /\ c.at < l.expiresAt
    /\ \A l \in issued : l.revision > c.revision => c.at <= l.at
=============================================================================
