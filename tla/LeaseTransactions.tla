-------------------------- MODULE LeaseTransactions --------------------------
(***************************************************************************)
(* The transactions of services/gateway/src/control-lease.ts and the lease *)
(* check of acceptance.ts and interaction-commands.ts, at the granularity  *)
(* of their row locks: lockDevice, lockConversation, then getControlLease  *)
(* and the clock, then the write and COMMIT.  Several transactions run at  *)
(* once, one per Session (a request being handled on some connection); a   *)
(* failure or a lost database connection rolls one back at any point.      *)
(*                                                                         *)
(* The control_leases row is locked by getControlLease only while its      *)
(* conversation row is locked, so that third lock never waits and has no   *)
(* step of its own.  A write is invisible before COMMIT, so the two are    *)
(* one step.                                                               *)
(***************************************************************************)
EXTENDS ControlLease, FiniteSets

CONSTANTS
  Session,    \* handler executions that may be open at once
  NoSession   \* the row is not locked

ASSUME SessionAssumption == NoSession \notin Session

VARIABLES
  deviceLock,        \* who holds FOR UPDATE on each row of devices
  conversationLock,  \* who holds FOR UPDATE on the conversation's row
  txn                \* the local state of each session's transaction

detail == <<deviceLock, conversationLock, txn>>
allVars == <<vars, detail>>

\* The triple a command presents, or an acquire's takeover precondition.
NoGrant == [id |-> NoLease, revision |-> 0]
Grant == [id : LeaseId \cup {NoLease}, revision : 0 .. MaxRevision]
GrantOf(l) == [id |-> l.id, revision |-> l.revision]

Op == {"acquire", "renew", "command"}
Idle == [pc |-> "idle"]

\* A running transaction: its input, then what it read (seen, at).
Running ==
  [pc : {"device", "conversation", "decide", "commit", "abort"}, op : Op, device : Device,
   grant : Grant, takeover : BOOLEAN, seen : Lease \cup {NoLease}, at : Time]

\* A client presents no grant, or one it has seen in some lease frame: any value
\* ever committed, however old.
Presentable == {NoGrant} \cup {GrantOf(l) : l \in issued}

Inputs == [op : Op, device : Device, grant : Presentable, takeover : BOOLEAN]

\* Only acquire looks at takeover; renew and commands always present a grant.
WellFormed(i) == i.op # "acquire" => i.grant # NoGrant /\ ~i.takeover

\* Bounds: room for one more transaction of kind op, counting the open ones, so
\* that none is left waiting for a revision, an id or a number to become free.
Open(ops) == Cardinality({s \in Session : txn[s].pc # "idle" /\ txn[s].op \in ops})

Room(op) ==
  /\ op # "command" =>
       Open({"acquire", "renew"}) + (IF lease = NoLease THEN 0 ELSE lease.revision) < MaxRevision
  /\ op = "acquire" =>
       Open({"acquire"}) + Cardinality({l.id : l \in issued}) < Cardinality(LeaseId)
  /\ op = "command" => Open({"command"}) + Cardinality(accepted) < MaxCommands
----------------------------------------------------------------------------
\* Mutant of Release: the lock on the conversation survives the transaction.
ReleaseDeviceOnly(s) ==
  /\ deviceLock' = [d \in Device |-> IF deviceLock[d] = s THEN NoSession ELSE deviceLock[d]]
  /\ UNCHANGED conversationLock
  /\ txn' = [txn EXCEPT ![s] = Idle]

\* COMMIT or ROLLBACK: every row lock of the session is released.
Release(s) ==
  /\ deviceLock' = [d \in Device |-> IF deviceLock[d] = s THEN NoSession ELSE deviceLock[d]]
  /\ conversationLock' = IF conversationLock = s THEN NoSession ELSE conversationLock
  /\ txn' = [txn EXCEPT ![s] = Idle]

Begin(s) ==
  /\ txn[s].pc = "idle"
  /\ \E i \in Inputs :
       /\ WellFormed(i) /\ Room(i.op)
       /\ txn' = [txn EXCEPT ![s] =
            [pc |-> "device", op |-> i.op, device |-> i.device, grant |-> i.grant,
             takeover |-> i.takeover, seen |-> NoLease, at |-> now]]
  /\ UNCHANGED <<vars, deviceLock, conversationLock>>

\* Mutants of the two row locks: SELECT without FOR UPDATE.
ReadDeviceRow(s, d) == UNCHANGED deviceLock
ReadConversationRow(s) == UNCHANGED conversationLock

\* SELECT ... FOR UPDATE waits while another session holds the row.
TakeDeviceRow(s, d) ==
  /\ deviceLock[d] = NoSession
  /\ deviceLock' = [deviceLock EXCEPT ![d] = s]

TakeConversationRow(s) ==
  /\ conversationLock = NoSession
  /\ conversationLock' = s

LockDevice(s) ==
  /\ txn[s].pc = "device"
  /\ TakeDeviceRow(s, txn[s].device)
  /\ txn' = [txn EXCEPT ![s].pc = IF MayControl(txn[s].device) THEN "conversation" ELSE "abort"]
  /\ UNCHANGED <<vars, conversationLock>>

LockConversation(s) ==
  /\ txn[s].pc = "conversation"
  /\ TakeConversationRow(s)
  /\ txn' = [txn EXCEPT ![s].pc = "decide"]
  /\ UNCHANGED <<vars, deviceLock>>
----------------------------------------------------------------------------
\* The precondition of acquireControlLease against the row it read.
AcquireAllowed(x, l) ==
  IF l = NoLease
  THEN ~x.takeover /\ x.grant = NoGrant
  ELSE l.device # x.device /\ x.takeover /\ x.grant = GrantOf(l)

\* Mutant of LeaseCurrent: the revision is not compared.
SameLeaseId(x, l, t) ==
  l # NoLease /\ l.device = x.device /\ x.grant.id = l.id /\ t < l.expiresAt

\* The precondition of renewControlLease and of every command.
LeaseCurrent(x, l, t) ==
  l # NoLease /\ l.device = x.device /\ x.grant = GrantOf(l) /\ t < l.expiresAt

Allowed(x, l, t) ==
  IF x.op = "acquire" THEN AcquireAllowed(x, l) ELSE LeaseCurrent(x, l, t)

\* Mutant of ReadClock: the clock is read when the request arrives.
ReadClockOnArrival(s) == txn[s].at

\* getControlLease, then dependencies.now(), then the checks.
ReadClock(s) == now

Check(s) ==
  /\ txn[s].pc = "decide"
  /\ LET t == ReadClock(s) IN
       txn' = [txn EXCEPT ![s].pc = IF Allowed(txn[s], lease, t) THEN "commit" ELSE "abort",
                          ![s].seen = lease, ![s].at = t]
  /\ UNCHANGED <<vars, deviceLock, conversationLock>>

\* replaceControlLease's WHERE clause, or the primary key on insert.
RowUnchanged(x) ==
  IF x.seen = NoLease THEN lease = NoLease
  ELSE lease # NoLease /\ GrantOf(lease) = GrantOf(x.seen)

\* Mutants of NextRevision: revisions start at 0; a change keeps the revision.
NextRevisionFromZero(l) == IF l = NoLease THEN 0 ELSE l.revision + 1
SameRevision(l) == IF l = NoLease THEN 1 ELSE l.revision

\* The revision of a new lease row, and of a change of the row.
NextRevision(l) == IF l = NoLease THEN 1 ELSE l.revision + 1

CommitLease(s) ==
  LET x == txn[s] IN
  /\ x.pc = "commit" /\ x.op \in {"acquire", "renew"}
  /\ RowUnchanged(x) /\ NextRevision(x.seen) <= MaxRevision
  /\ \E id \in LeaseId :
       /\ IF x.op = "renew" THEN id = x.seen.id ELSE FreshId(id)
       /\ Issue(NewLease(id, x.device, NextRevision(x.seen), x.at))
  /\ Release(s)

CommitCommand(s) ==
  LET x == txn[s] IN
  /\ x.pc = "commit" /\ x.op = "command"
  /\ \E n \in 1 .. MaxCommands :
       /\ \A c \in accepted : c.number < n
       /\ \A m \in 1 .. n - 1 : \E c \in accepted : c.number = m
       /\ accepted' = accepted \cup
            {[number |-> n, device |-> x.device, id |-> x.grant.id,
              revision |-> x.grant.revision, at |-> x.at]}
  /\ UNCHANGED <<now, active, lease, issued>>
  /\ Release(s)

\* A check failed: ROLLBACK.
Rollback(s) ==
  /\ txn[s].pc = "abort"
  /\ Release(s)
  /\ UNCHANGED vars

\* The connection to the database is lost; the server rolls back.
LoseConnection(s) ==
  /\ txn[s].pc \notin {"idle", "abort"}
  /\ Release(s)
  /\ UNCHANGED vars

\* revokeDevice of the pairing ledger, which locks the device row too.
RevokeDevice(d) ==
  /\ deviceLock[d] = NoSession
  /\ Revoke(d)
  /\ UNCHANGED detail

TInit ==
  /\ Init
  /\ deviceLock = [d \in Device |-> NoSession]
  /\ conversationLock = NoSession
  /\ txn = [s \in Session |-> Idle]

\* What a transaction does by itself, as opposed to clients and failures.
Advance(s) ==
  \/ Check(s) \/ CommitLease(s) \/ CommitCommand(s) \/ Rollback(s)

Step(s) ==
  \/ Begin(s) \/ LockDevice(s) \/ LockConversation(s)
  \/ Advance(s) \/ LoseConnection(s)

TNext ==
  \/ \E s \in Session : Step(s)
  \/ \E d \in Device : RevokeDevice(d)
  \/ Tick /\ UNCHANGED detail

TSafety == TInit /\ [][TNext]_allVars

\* The handler runs on; PostgreSQL queues the waiters of a row lock, so none is
\* passed over for ever.
TFairness ==
  \A s \in Session :
    /\ WF_allVars(Advance(s))
    /\ SF_allVars(LockDevice(s)) /\ SF_allVars(LockConversation(s))

TSpec == TSafety /\ TFairness
----------------------------------------------------------------------------
TTypeOK ==
  /\ TypeOK
  /\ deviceLock \in [Device -> Session \cup {NoSession}]
  /\ conversationLock \in Session \cup {NoSession}
  /\ txn \in [Session -> {Idle} \cup Running]

HoldsDevice(s) == txn[s].pc \notin {"idle", "device"}
HoldsConversation(s) == txn[s].pc \in {"decide", "commit"}

\* Strict two-phase locking: from the step that takes a row to its end a
\* transaction, and no other, owns that row, and no lock outlives its
\* transaction; what Check read is still the row when the commit writes it.
LockingDiscipline ==
  /\ \A s \in Session :
       /\ HoldsDevice(s) => deviceLock[txn[s].device] = s
       /\ HoldsConversation(s) => conversationLock = s
       /\ txn[s].pc = "commit" =>
            /\ MayControl(txn[s].device)
            /\ txn[s].seen = lease
            /\ Allowed(txn[s], lease, txn[s].at)
  /\ \A d \in Device : deviceLock[d] # NoSession =>
       HoldsDevice(deviceLock[d]) /\ txn[deviceLock[d]].device = d
  /\ conversationLock # NoSession => txn[conversationLock].pc \in {"decide", "commit", "abort"}

\* The lease check of a command and its commit are separate steps, yet no
\* command commits unless its lease triple is the row's value at that moment.
CommandsUnderCurrentLease ==
  [][\A c \in accepted' \ accepted :
       /\ lease # NoLease /\ lease.device = c.device
       /\ lease.id = c.id /\ lease.revision = c.revision]_allVars

\* A device revoked while one of its transactions is open gains neither a
\* lease nor a command from it: revocation waits for the device row or the
\* transaction sees it.
RevokedDeviceGainsNothing ==
  [][\A e \in (issued' \ issued) \cup (accepted' \ accepted) :
       active[e.device] /\ active'[e.device]]_allVars

\* The locked transactions implement the atomic service.
ImplementsControlLease == Spec

\* No transaction waits for ever: the lock order device, then conversation,
\* has no cycle and every end of a transaction releases its rows.
EveryTransactionEnds ==
  \A s \in Session : txn[s].pc # "idle" ~> txn[s].pc = "idle"
=============================================================================
