---------------------- MODULE LeaseTransactionsProofs ----------------------
(***************************************************************************)
(* The atomic lease service keeps its promises, and the row-locked         *)
(* transactions of the control lease implement it, for every number of     *)
(* devices, sessions and leases, every lease duration and every bound.     *)
(***************************************************************************)
EXTENDS LeaseTransactions, TLAPS


\* The row of control_leases is the newest lease value ever committed.
RowIsNewest ==
  /\ lease = NoLease => issued = {} /\ accepted = {}
  /\ lease # NoLease =>
       /\ lease \in issued
       /\ \A l \in issued : l.revision <= lease.revision

\* The inductive invariant.  RevisionsUnique alone is not inductive: a new
\* revision differs from the old ones only because the row holds the largest.
LeaseInvariant == TypeOK /\ RowIsNewest /\ RevisionsUnique /\ CommandsFenced
----------------------------------------------------------------------------
\* The null row is no lease, so a row that differs from it has a lease's fields.
LEMMA NoLeaseIsNoRow == NoLease \notin Lease
  BY NoLeaseAssumption, BoundAssumption DEF Lease, Time, Revision

\* A new lease value has the type of a row.
LEMMA NewLeaseType ==
  ASSUME NEW id \in LeaseId, NEW d \in Device, NEW revision \in Revision, NEW t \in Time
  PROVE  NewLease(id, d, revision, t) \in Lease
  BY BoundAssumption DEF NewLease, Lease, Time, Revision

\* Whatever the clock read, at or before now, is a tick of the model.
LEMMA PastIsTime ==
  ASSUME now \in Time, NEW t \in 0 .. now
  PROVE  t \in Time
  BY BoundAssumption DEF Time

\* Nothing has been issued or accepted, so the initial state has every part.
LEMMA LeaseInvariantInitially == Init => LeaseInvariant
<1> SUFFICES ASSUME Init PROVE LeaseInvariant
    OBVIOUS
<1>1. TypeOK
  BY BoundAssumption DEF Init, TypeOK, Time
<1>2. RowIsNewest /\ RevisionsUnique /\ CommandsFenced
  BY DEF Init, RowIsNewest, RevisionsUnique, CommandsFenced
<1> QED BY <1>1, <1>2 DEF LeaseInvariant

\* Issuing a lease with a revision above the row's, at a time no earlier than
\* any commit, preserves the invariant if its id is fresh or keeps its device.
LEMMA IssuePreservesInvariant ==
  ASSUME LeaseInvariant,
         NEW l \in Lease, Issue(l),
         NotBefore(l.at),
         lease # NoLease => l.revision > lease.revision,
         \A m \in issued : m.id = l.id => m.device = l.device
  PROVE  LeaseInvariant'
<1>1. TypeOK'
  BY DEF LeaseInvariant, TypeOK, Issue
<1>2. l # NoLease
  BY NoLeaseIsNoRow
<1>3. \A m \in issued : m \in Lease /\ m.revision < l.revision
  <2> SUFFICES ASSUME NEW m \in issued PROVE m \in Lease /\ m.revision < l.revision
      OBVIOUS
  <2>1. lease # NoLease /\ lease \in Lease /\ m \in Lease
    BY DEF LeaseInvariant, TypeOK, RowIsNewest
  <2>2. m.revision <= lease.revision /\ lease.revision < l.revision
    BY <2>1 DEF LeaseInvariant, RowIsNewest, Lease, Revision
  <2> QED BY <2>1, <2>2, BoundAssumption DEF Lease, Revision
<1>4. RowIsNewest'
  <2>1. \A m \in issued' : m.revision <= l.revision
    BY <1>3, BoundAssumption DEF Issue, Lease, Revision
  <2> QED BY <1>2, <2>1 DEF RowIsNewest, Issue
<1>5. RevisionsUnique'
  <2> SUFFICES ASSUME NEW m \in issued', NEW n \in issued'
               PROVE  /\ m.revision = n.revision => m = n
                      /\ m.id = n.id => m.device = n.device
      BY DEF RevisionsUnique
  <2>1. CASE m \in issued /\ n \in issued
    BY <2>1 DEF LeaseInvariant, RevisionsUnique
  <2>2. CASE m = l \/ n = l
    <3>1. m \in issued \cup {l} /\ n \in issued \cup {l}
      BY DEF Issue
    <3> QED BY <2>2, <3>1, <1>3, BoundAssumption DEF Lease, Revision
  <2> QED BY <2>1, <2>2 DEF Issue
<1>6. CommandsFenced'
  <2> SUFFICES ASSUME NEW c \in accepted
               PROVE  /\ \E m \in issued' :
                           /\ m.id = c.id /\ m.revision = c.revision /\ m.device = c.device
                           /\ m.at <= c.at /\ c.at < m.expiresAt
                      /\ \A m \in issued' : m.revision > c.revision => c.at <= m.at
      BY DEF CommandsFenced, Issue
  <2>1. c.at <= l.at
    BY DEF NotBefore
  <2> QED BY <2>1 DEF LeaseInvariant, CommandsFenced, Issue
<1> QED BY <1>1, <1>4, <1>5, <1>6 DEF LeaseInvariant

\* A command accepted under the unexpired row preserves the invariant.
LEMMA AcceptPreservesInvariant ==
  ASSUME LeaseInvariant,
         NEW d \in Device, NEW t \in 0 .. now, NEW n \in 1 .. MaxCommands,
         AcceptCommand(d, n, t)
  PROVE  LeaseInvariant'
<1> DEFINE new == [number |-> n, device |-> d, id |-> lease.id,
                   revision |-> lease.revision, at |-> t]
<1>1. accepted' = accepted \cup {new} /\ UNCHANGED <<now, active, lease, issued>>
  BY DEF AcceptCommand
<1>2. t \in Time /\ lease # NoLease /\ lease \in issued /\ lease \in Lease
  BY PastIsTime DEF LeaseInvariant, TypeOK, RowIsNewest, AcceptCommand, Holds
<1>3. TypeOK'
  <2>1. new \in Command
    BY <1>2 DEF Command, Lease
  <2> QED BY <1>1, <2>1 DEF LeaseInvariant, TypeOK
<1>4. RowIsNewest' /\ RevisionsUnique'
  BY <1>1, <1>2 DEF LeaseInvariant, RowIsNewest, RevisionsUnique
<1>5. CommandsFenced'
  <2> SUFFICES ASSUME NEW c \in accepted'
               PROVE  /\ \E m \in issued :
                           /\ m.id = c.id /\ m.revision = c.revision /\ m.device = c.device
                           /\ m.at <= c.at /\ c.at < m.expiresAt
                      /\ \A m \in issued : m.revision > c.revision => c.at <= m.at
      BY <1>1 DEF CommandsFenced
  <2>1. CASE c \in accepted
    BY <2>1 DEF LeaseInvariant, CommandsFenced
  <2>2. CASE c = new
    <3>1. lease.id = c.id /\ lease.revision = c.revision /\ lease.device = c.device
      BY <2>2 DEF AcceptCommand, Holds
    <3>2. lease.at <= c.at /\ c.at < lease.expiresAt
      BY <1>2, <2>2 DEF AcceptCommand, Holds, NotBefore
    <3>3. \A m \in issued : ~(m.revision > c.revision)
      <4> TAKE m \in issued
      <4>1. m \in Lease /\ m.revision <= lease.revision
        BY <1>2 DEF LeaseInvariant, TypeOK, RowIsNewest
      <4> QED BY <1>2, <3>1, <4>1, BoundAssumption DEF Lease, Revision
    <3> QED BY <1>2, <3>1, <3>2, <3>3
  <2> QED BY <1>1, <2>1, <2>2
<1> QED BY <1>3, <1>4, <1>5 DEF LeaseInvariant

\* One step per action; the three that change the row go through Issue.
LEMMA LeaseInvariantStep == LeaseInvariant /\ [Next]_vars => LeaseInvariant'
<1> SUFFICES ASSUME LeaseInvariant, [Next]_vars PROVE LeaseInvariant'
    OBVIOUS
<1>1. ASSUME NEW d \in Device, NEW t \in 0 .. now, NEW id \in LeaseId, Acquire(d, id, t)
      PROVE  LeaseInvariant'
  <2> DEFINE l == NewLease(id, d, 1, t)
  <2>1. l \in Lease
    BY <1>1, PastIsTime, NewLeaseType, BoundAssumption DEF LeaseInvariant, TypeOK, Acquire, Revision
  <2>2. Issue(l) /\ NotBefore(l.at) /\ lease = NoLease /\ \A m \in issued : m.id # l.id
    BY <1>1 DEF Acquire, FreshId, NewLease
  <2> HIDE DEF l
  <2> QED BY <2>1, <2>2, IssuePreservesInvariant
<1>2. ASSUME NEW d \in Device, NEW t \in 0 .. now, NEW id \in LeaseId, TakeOver(d, id, t)
      PROVE  LeaseInvariant'
  <2> DEFINE l == NewLease(id, d, lease.revision + 1, t)
  <2>1. lease \in Lease /\ lease.revision + 1 \in Revision /\ lease.revision + 1 > lease.revision
    BY <1>2, BoundAssumption DEF LeaseInvariant, TypeOK, TakeOver, Lease, Revision
  <2>2. l \in Lease
    BY <2>1, PastIsTime, NewLeaseType DEF LeaseInvariant, TypeOK
  <2>3. Issue(l) /\ NotBefore(l.at) /\ l.revision > lease.revision /\ \A m \in issued : m.id # l.id
    BY <1>2, <2>1 DEF TakeOver, FreshId, NewLease
  <2> HIDE DEF l
  <2> QED BY <2>2, <2>3, IssuePreservesInvariant
<1>3. ASSUME NEW d \in Device, NEW t \in 0 .. now, Renew(d, t)
      PROVE  LeaseInvariant'
  <2> DEFINE l == NewLease(lease.id, d, lease.revision + 1, t)
  <2>1. lease \in Lease /\ lease \in issued /\ lease.device = d
    BY <1>3 DEF LeaseInvariant, TypeOK, RowIsNewest, Renew, Holds
  <2>2. lease.revision + 1 \in Revision /\ lease.revision + 1 > lease.revision /\ lease.id \in LeaseId
    BY <1>3, <2>1, BoundAssumption DEF Renew, Lease, Revision
  <2>3. l \in Lease
    BY <2>2, PastIsTime, NewLeaseType DEF LeaseInvariant, TypeOK
  <2>4. Issue(l) /\ NotBefore(l.at) /\ l.revision > lease.revision /\ l.id = lease.id /\ l.device = d
    BY <1>3, <2>2 DEF Renew, NewLease
  <2>5. \A m \in issued : m.id = l.id => m.device = l.device
    BY <2>1, <2>4 DEF LeaseInvariant, RevisionsUnique
  <2> HIDE DEF l
  <2> QED BY <2>3, <2>4, <2>5, IssuePreservesInvariant
<1>4. ASSUME NEW d \in Device, Revoke(d) PROVE LeaseInvariant'
  BY <1>4 DEF LeaseInvariant, TypeOK, RowIsNewest, RevisionsUnique, CommandsFenced, Revoke
<1>5. CASE Tick
  BY <1>5, BoundAssumption
     DEF LeaseInvariant, TypeOK, RowIsNewest, RevisionsUnique, CommandsFenced, Tick, Time
<1>6. CASE UNCHANGED vars
  BY <1>6 DEF LeaseInvariant, TypeOK, RowIsNewest, RevisionsUnique, CommandsFenced, vars
<1> QED
  BY <1>1, <1>2, <1>3, <1>4, <1>5, <1>6, AcceptPreservesInvariant DEF Next, Decide

\* The inductive invariant holds in every reachable state of the lease service.
THEOREM LeaseInvariantHolds == Spec => []LeaseInvariant
<1>1. Init => LeaseInvariant
  BY LeaseInvariantInitially
<1>2. LeaseInvariant /\ [Next]_vars => LeaseInvariant'
  BY LeaseInvariantStep
<1> QED BY <1>1, <1>2, PTL DEF Spec

\* acquireControlLease and renewControlLease never hand one revision out twice,
\* and a lease id stays with the device it was made for.
THEOREM RevisionsNeverShared == Spec => []RevisionsUnique
<1>1. LeaseInvariant => RevisionsUnique
  BY DEF LeaseInvariant
<1> QED BY <1>1, LeaseInvariantHolds, PTL

\* Every accepted send, interrupt, approval and clarification was made under a
\* lease its device held unexpired, and none under a lease already replaced.
THEOREM CommandsAreFenced == Spec => []CommandsFenced
<1>1. LeaseInvariant => CommandsFenced
  BY DEF LeaseInvariant
<1> QED BY <1>1, LeaseInvariantHolds, PTL
----------------------------------------------------------------------------
DetailType ==
  /\ deviceLock \in [Device -> Session \cup {NoSession}]
  /\ conversationLock \in Session \cup {NoSession}
  /\ txn \in [Session -> {Idle} \cup Running]

\* A transaction past its first lock runs for a device that may control, because
\* the lock on the device's row keeps a revocation out until it ends.
PastDeviceAuthorized ==
  \A s \in Session :
    txn[s].pc \in {"conversation", "decide", "commit"} => MayControl(txn[s].device)

\* A commit carries the clock that was read under the conversation's lock: not in
\* the future, and not before any earlier commit.
ClockOrder ==
  /\ \A e \in issued \cup accepted : e.at <= now
  /\ \A s \in Session : txn[s].pc = "commit" => txn[s].at <= now /\ NotBefore(txn[s].at)

\* The inductive invariant of the transactions.
TransactionInvariant ==
  LeaseInvariant /\ DetailType /\ LockingDiscipline /\ PastDeviceAuthorized /\ ClockOrder
----------------------------------------------------------------------------
\* A transaction that is not idle has all the fields of a running one.
LEMMA RunningFields ==
  ASSUME DetailType, NEW s \in Session, txn[s].pc # "idle"
  PROVE  txn[s] \in Running
  BY DEF DetailType, Idle

\* The initial state satisfies the invariant: no lock is held, nothing runs.
LEMMA TransactionInvariantInitially == TInit => TransactionInvariant
<1> SUFFICES ASSUME TInit PROVE TransactionInvariant
    OBVIOUS
<1>1. LeaseInvariant
  BY LeaseInvariantInitially DEF TInit
<1>2. DetailType
  BY DEF TInit, DetailType
<1>3. \A s \in Session : txn[s].pc = "idle"
  BY DEF TInit, Idle
<1>4. LockingDiscipline
  BY <1>3 DEF TInit, LockingDiscipline, HoldsDevice, HoldsConversation
<1>5. PastDeviceAuthorized
  BY <1>3 DEF PastDeviceAuthorized
<1>6. ClockOrder
  BY <1>3 DEF TInit, Init, ClockOrder
<1> QED BY <1>1, <1>2, <1>4, <1>5, <1>6 DEF TransactionInvariant

\* The commit of a lease change is the Acquire, TakeOver or Renew of the atomic
\* service at the time the transaction read its clock.
LEMMA CommitLeaseIsDecision ==
  ASSUME TransactionInvariant, NEW s \in Session, CommitLease(s)
  PROVE  \E d \in Device, t \in 0 .. now : Decide(d, t)
<1> DEFINE x == txn[s]
<1>1. x.pc = "commit" /\ x \in Running /\ x.op \in {"acquire", "renew"}
  BY RunningFields DEF CommitLease, TransactionInvariant
<1>2. x.device \in Device /\ x.at \in 0 .. now /\ x.at \in Time
  BY <1>1, BoundAssumption DEF TransactionInvariant, LeaseInvariant, TypeOK, ClockOrder, Running, Time
<1>3. MayControl(x.device) /\ NotBefore(x.at)
  BY <1>1 DEF TransactionInvariant, PastDeviceAuthorized, ClockOrder
<1>4. x.seen = lease /\ Allowed(x, lease, x.at)
  BY <1>1 DEF TransactionInvariant, LockingDiscipline
<1>5. PICK id \in LeaseId :
        /\ IF x.op = "renew" THEN id = lease.id ELSE FreshId(id)
        /\ Issue(NewLease(id, x.device, NextRevision(lease), x.at))
  BY <1>4 DEF CommitLease
<1>6. NextRevision(lease) <= MaxRevision
  BY <1>4 DEF CommitLease
<1>7. CASE lease = NoLease
  <2>1. x.op = "acquire"
    BY <1>1, <1>4, <1>7 DEF Allowed, LeaseCurrent
  <2>2. NextRevision(lease) = 1
    BY <1>7 DEF NextRevision
  <2>3. Acquire(x.device, id, x.at)
    BY <1>3, <1>5, <1>6, <1>7, <2>1, <2>2 DEF Acquire
  <2> QED BY <1>2, <2>3 DEF Decide
<1>8. CASE lease # NoLease
  <2>1. lease \in Lease
    BY <1>8 DEF TransactionInvariant, LeaseInvariant, TypeOK
  <2>2. NextRevision(lease) = lease.revision + 1 /\ lease.revision < MaxRevision
    BY <1>6, <1>8, <2>1, BoundAssumption DEF NextRevision, Lease, Revision
  <2>3. CASE x.op = "acquire"
    <3>1. lease.device # x.device
      BY <1>4, <1>8, <2>3 DEF Allowed, AcquireAllowed
    <3>2. TakeOver(x.device, id, x.at)
      BY <1>3, <1>5, <1>8, <2>2, <2>3, <3>1 DEF TakeOver
    <3> QED BY <1>2, <3>2 DEF Decide
  <2>4. CASE x.op = "renew"
    <3>1. Holds(x.device, x.at)
      BY <1>4, <1>8, <2>4 DEF Allowed, LeaseCurrent, Holds
    <3>2. Renew(x.device, x.at)
      BY <1>3, <1>5, <2>2, <2>4, <3>1 DEF Renew
    <3> QED BY <1>2, <3>2 DEF Decide
  <2> QED BY <1>1, <2>3, <2>4
<1> QED BY <1>7, <1>8

\* The commit of a command is the AcceptCommand of the atomic service.
LEMMA CommitCommandIsDecision ==
  ASSUME TransactionInvariant, NEW s \in Session, CommitCommand(s)
  PROVE  \E d \in Device, t \in 0 .. now : Decide(d, t)
<1> DEFINE x == txn[s]
<1>1. x.pc = "commit" /\ x \in Running /\ x.op = "command"
  BY RunningFields DEF CommitCommand, TransactionInvariant
<1>2. x.device \in Device /\ x.at \in 0 .. now
  BY <1>1, BoundAssumption DEF TransactionInvariant, LeaseInvariant, TypeOK, ClockOrder, Running, Time
<1>3. MayControl(x.device) /\ NotBefore(x.at)
  BY <1>1 DEF TransactionInvariant, PastDeviceAuthorized, ClockOrder
<1>4. LeaseCurrent(x, lease, x.at)
  BY <1>1 DEF TransactionInvariant, LockingDiscipline, Allowed
<1>5. Holds(x.device, x.at) /\ x.grant.id = lease.id /\ x.grant.revision = lease.revision
  BY <1>4 DEF LeaseCurrent, Holds, GrantOf
<1>6. PICK n \in 1 .. MaxCommands :
        /\ \A c \in accepted : c.number < n
        /\ accepted' = accepted \cup
             {[number |-> n, device |-> x.device, id |-> x.grant.id,
               revision |-> x.grant.revision, at |-> x.at]}
  BY DEF CommitCommand
<1>7. \A c \in accepted : c.number # n
  BY <1>6, BoundAssumption DEF TransactionInvariant, LeaseInvariant, TypeOK, Command
<1>8. AcceptCommand(x.device, n, x.at)
  BY <1>3, <1>5, <1>6, <1>7 DEF AcceptCommand, CommitCommand
<1> QED BY <1>2, <1>8 DEF Decide

\* Every step of the transactions is a step of the atomic service or leaves its
\* variables alone.
LEMMA StepIsLeaseStep ==
  TransactionInvariant /\ [TNext]_allVars => [Next]_vars
<1> SUFFICES ASSUME TransactionInvariant, [TNext]_allVars PROVE [Next]_vars
    OBVIOUS
<1>1. ASSUME NEW s \in Session, Step(s) PROVE [Next]_vars
  <2>1. CASE CommitLease(s)
    BY <2>1, CommitLeaseIsDecision DEF Next
  <2>2. CASE CommitCommand(s)
    BY <2>2, CommitCommandIsDecision DEF Next
  <2>3. CASE Begin(s) \/ LockDevice(s) \/ LockConversation(s) \/ Check(s) \/ Rollback(s)
               \/ LoseConnection(s)
    BY <2>3 DEF Begin, LockDevice, LockConversation, Check, Rollback, LoseConnection
  <2> QED BY <1>1, <2>1, <2>2, <2>3 DEF Step, Advance
<1>2. ASSUME NEW d \in Device, RevokeDevice(d) PROVE [Next]_vars
  BY <1>2 DEF RevokeDevice, Next
<1>3. CASE Tick /\ UNCHANGED detail
  BY <1>3 DEF Next
<1>4. CASE UNCHANGED allVars
  BY <1>4 DEF allVars
<1> QED BY <1>1, <1>2, <1>3, <1>4 DEF TNext

\* The parts of the invariant about locks, programs and clocks.
Detail == DetailType /\ LockingDiscipline /\ PastDeviceAuthorized /\ ClockOrder

\* A step that moves session s, and leaves the row and the devices alone,
\* preserves the detail if it leaves what the others hold.
LEMMA LocalStepPreservesDetail ==
  ASSUME TransactionInvariant, NEW s \in Session, UNCHANGED vars,
         NEW x, txn' = [txn EXCEPT ![s] = x],
         x \in {Idle} \cup Running,
         DetailType',
         \A d \in Device : deviceLock'[d] # deviceLock[d] =>
           {deviceLock[d], deviceLock'[d]} \subseteq {s, NoSession},
         {conversationLock, conversationLock'} \subseteq {s, NoSession}
           \/ conversationLock' = conversationLock,
         x.pc \notin {"idle", "device"} <=> \E d \in Device : deviceLock'[d] = s,
         \A d \in Device : deviceLock'[d] = s => x.device = d,
         x.pc \in {"decide", "commit"} => conversationLock' = s,
         conversationLock' = s => x.pc \in {"decide", "commit", "abort"},
         x.pc \in {"conversation", "decide", "commit"} => MayControl(x.device),
         x.pc = "commit" => x.seen = lease /\ Allowed(x, lease, x.at) /\ x.at = now
  PROVE  Detail'
<1>1. \A q \in Session : txn'[q] = IF q = s THEN x ELSE txn[q]
  BY DEF TransactionInvariant, DetailType
<1>2. /\ now' = now /\ active' = active /\ lease' = lease
      /\ issued' = issued /\ accepted' = accepted
  BY DEF vars
<1>3. LockingDiscipline'
  <2>1. \A q \in Session :
          /\ HoldsDevice(q)' => deviceLock'[txn'[q].device] = q
          /\ HoldsConversation(q)' => conversationLock' = q
    <3> TAKE q \in Session
    <3>1. CASE q = s
      BY <1>1, <3>1 DEF HoldsDevice, HoldsConversation
    <3>2. CASE q # s
      <4>1. /\ HoldsDevice(q)' => deviceLock[txn[q].device] = q /\ txn[q].device \in Device
            /\ HoldsConversation(q)' => conversationLock = q
        BY <1>1, <3>2, RunningFields
           DEF HoldsDevice, HoldsConversation, TransactionInvariant, LockingDiscipline, Running
      <4> QED BY <1>1, <3>2, <4>1, SessionAssumption
    <3> QED BY <3>1, <3>2
  <2>2. \A q \in Session : txn'[q].pc = "commit" =>
          /\ active'[txn'[q].device] /\ txn'[q].device \in Controllers
          /\ txn'[q].seen = lease'
          /\ Allowed(txn'[q], lease', txn'[q].at)
    BY <1>1, <1>2 DEF TransactionInvariant, LockingDiscipline, MayControl
  <2>3. \A d \in Device : deviceLock'[d] # NoSession =>
          /\ txn'[deviceLock'[d]].pc \notin {"idle", "device"}
          /\ txn'[deviceLock'[d]].device = d
    <3> SUFFICES ASSUME NEW d \in Device, deviceLock'[d] # NoSession
                 PROVE  /\ txn'[deviceLock'[d]].pc \notin {"idle", "device"}
                        /\ txn'[deviceLock'[d]].device = d
        OBVIOUS
    <3>1. CASE deviceLock'[d] = s
      BY <1>1, <3>1
    <3>2. CASE deviceLock'[d] # s
      <4>1. deviceLock'[d] = deviceLock[d] /\ deviceLock[d] \in Session
        BY <3>2 DEF TransactionInvariant, DetailType
      <4> QED BY <1>1, <3>2, <4>1 DEF TransactionInvariant, LockingDiscipline, HoldsDevice
    <3> QED BY <3>1, <3>2
  <2>4. conversationLock' # NoSession => txn'[conversationLock'].pc \in {"decide", "commit", "abort"}
    <3>1. conversationLock' # NoSession => conversationLock' \in Session
      BY DEF DetailType
    <3> QED BY <1>1, <3>1 DEF TransactionInvariant, LockingDiscipline
  <2> QED BY <2>1, <2>2, <2>3, <2>4 DEF LockingDiscipline, HoldsDevice, HoldsConversation, MayControl
<1>4. PastDeviceAuthorized'
  BY <1>1, <1>2 DEF TransactionInvariant, PastDeviceAuthorized, MayControl
<1>5. ClockOrder'
  BY <1>1, <1>2, BoundAssumption
     DEF TransactionInvariant, LeaseInvariant, TypeOK, Time, ClockOrder, NotBefore
<1> QED BY <1>3, <1>4, <1>5 DEF Detail

\* The end of a transaction that changes no row.
LEMMA ReleasePreservesDetail ==
  ASSUME TransactionInvariant, NEW s \in Session, Release(s), UNCHANGED vars
  PROVE  Detail'
<1>1. DetailType'
  BY DEF TransactionInvariant, DetailType, Release
<1>2. \A d \in Device : /\ deviceLock'[d] # s
                        /\ deviceLock'[d] # deviceLock[d] => deviceLock[d] = s /\ deviceLock'[d] = NoSession
  BY SessionAssumption DEF Release
<1>3. /\ conversationLock' # s
      /\ conversationLock' # conversationLock => conversationLock = s /\ conversationLock' = NoSession
  BY SessionAssumption DEF Release
<1>4. txn' = [txn EXCEPT ![s] = Idle] /\ Idle.pc = "idle"
  BY DEF Release, Idle
<1> QED BY <1>1, <1>2, <1>3, <1>4, LocalStepPreservesDetail

\* The end of a transaction that commits a lease or a command, e.  It holds the
\* conversation's lock, so no other transaction is about to commit.
LEMMA CommitPreservesDetail ==
  ASSUME TransactionInvariant, NEW s \in Session, txn[s].pc = "commit", Release(s),
         UNCHANGED <<now, active>>,
         NEW e, e.at <= now,
         issued' \cup accepted' \subseteq issued \cup accepted \cup {e}
  PROVE  Detail'
<1>1. \A q \in Session : txn'[q] = IF q = s THEN Idle ELSE txn[q]
  BY DEF TransactionInvariant, DetailType, Release
<1>2. \A q \in Session : txn'[q].pc # "commit" /\ txn'[q].pc # "decide"
  <2> TAKE q \in Session
  <2>1. conversationLock = s
    BY DEF TransactionInvariant, LockingDiscipline, HoldsConversation
  <2> QED BY <1>1, <2>1 DEF TransactionInvariant, LockingDiscipline, HoldsConversation, Idle
<1>3. DetailType'
  BY DEF TransactionInvariant, DetailType, Release
<1>4. LockingDiscipline'
  <2>1. \A q \in Session : txn'[q].pc \notin {"idle", "device"} => deviceLock'[txn'[q].device] = q
    <3> SUFFICES ASSUME NEW q \in Session, txn'[q].pc \notin {"idle", "device"}
                 PROVE  deviceLock'[txn'[q].device] = q
        OBVIOUS
    <3>1. q # s /\ txn'[q] = txn[q]
      BY <1>1 DEF Idle
    <3>2. deviceLock[txn[q].device] = q /\ txn[q].device \in Device
      BY <3>1, RunningFields DEF TransactionInvariant, LockingDiscipline, HoldsDevice, Running
    <3> QED BY <3>1, <3>2 DEF Release
  <2>2. \A d \in Device : deviceLock'[d] # NoSession =>
          /\ txn'[deviceLock'[d]].pc \notin {"idle", "device"}
          /\ txn'[deviceLock'[d]].device = d
    <3> SUFFICES ASSUME NEW d \in Device, deviceLock'[d] # NoSession
                 PROVE  /\ txn'[deviceLock'[d]].pc \notin {"idle", "device"}
                        /\ txn'[deviceLock'[d]].device = d
        OBVIOUS
    <3>1. deviceLock'[d] = deviceLock[d] /\ deviceLock[d] # s /\ deviceLock[d] \in Session
      BY DEF Release, TransactionInvariant, DetailType
    <3> QED BY <1>1, <3>1 DEF TransactionInvariant, LockingDiscipline, HoldsDevice
  <2>3. conversationLock' = NoSession
    BY DEF Release, TransactionInvariant, LockingDiscipline, HoldsConversation
  <2> QED BY <1>2, <2>1, <2>2, <2>3 DEF LockingDiscipline, HoldsDevice, HoldsConversation
<1>5. PastDeviceAuthorized'
  BY <1>1 DEF TransactionInvariant, PastDeviceAuthorized, MayControl, Idle
<1>6. ClockOrder'
  BY <1>2 DEF TransactionInvariant, ClockOrder
<1> QED BY <1>3, <1>4, <1>5, <1>6 DEF Detail

\* Every step of one session preserves the detail.
LEMMA SessionStepPreservesDetail ==
  ASSUME TransactionInvariant, NEW s \in Session, Step(s)
  PROVE  Detail'
<1>1. CASE Begin(s)
  <2>1. PICK i \in Inputs :
          txn' = [txn EXCEPT ![s] =
            [pc |-> "device", op |-> i.op, device |-> i.device, grant |-> i.grant,
             takeover |-> i.takeover, seen |-> NoLease, at |-> now]]
    BY <1>1 DEF Begin
  <2> DEFINE x == [pc |-> "device", op |-> i.op, device |-> i.device, grant |-> i.grant,
                   takeover |-> i.takeover, seen |-> NoLease, at |-> now]
  <2>2. i.grant \in Grant
    BY BoundAssumption
       DEF Inputs, Presentable, NoGrant, GrantOf, Grant, TransactionInvariant, LeaseInvariant,
           TypeOK, Lease, Revision
  <2>3. x \in Running
    BY <2>2 DEF Inputs, Running, TransactionInvariant, LeaseInvariant, TypeOK
  <2>4. txn' = [txn EXCEPT ![s] = x] /\ x.pc = "device"
    BY <2>1
  <2>5. UNCHANGED <<vars, deviceLock, conversationLock>> /\ txn[s].pc = "idle"
    BY <1>1 DEF Begin
  <2>6. (\A d \in Device : deviceLock[d] # s) /\ conversationLock # s
    BY <2>5, SessionAssumption DEF TransactionInvariant, LockingDiscipline, HoldsDevice
  <2> HIDE DEF x
  <2>7. DetailType'
    BY <2>3, <2>4, <2>5 DEF TransactionInvariant, DetailType
  <2>8. /\ deviceLock' = deviceLock /\ conversationLock' = conversationLock /\ UNCHANGED vars
        /\ x.pc \notin {"conversation", "decide", "commit"}
        /\ ~(x.pc \notin {"idle", "device"})
    BY <2>4, <2>5
  <2> QED BY <2>3, <2>4, <2>6, <2>7, <2>8, LocalStepPreservesDetail, ZenonT(60)
<1>2. CASE LockDevice(s)
  <2> DEFINE x == [txn[s] EXCEPT !.pc = IF MayControl(txn[s].device) THEN "conversation" ELSE "abort"]
  <2>1. txn[s].pc = "device" /\ txn[s] \in Running
    BY <1>2, RunningFields DEF LockDevice, TransactionInvariant
  <2>2. x \in Running /\ x.pc \in {"conversation", "abort"} /\ x.device = txn[s].device
        /\ (x.pc = "conversation" => MayControl(x.device))
    BY <2>1 DEF Running
  <2>3. txn' = [txn EXCEPT ![s] = x]
    BY <1>2 DEF LockDevice
  <2>4. /\ UNCHANGED <<vars, conversationLock>>
        /\ deviceLock[x.device] = NoSession /\ x.device \in Device
        /\ deviceLock' = [deviceLock EXCEPT ![x.device] = s]
    BY <1>2, <2>1, <2>2 DEF LockDevice, TakeDeviceRow, Running
  <2>5. (\A d \in Device : deviceLock[d] # s) /\ conversationLock # s
    BY <2>1, SessionAssumption DEF TransactionInvariant, LockingDiscipline, HoldsDevice
  <2> HIDE DEF x
  <2>6. DetailType'
    BY <2>2, <2>3, <2>4 DEF TransactionInvariant, DetailType
  <2>7. \A d \in Device : deviceLock'[d] = IF d = x.device THEN s ELSE deviceLock[d]
    BY <2>4 DEF TransactionInvariant, DetailType
  <2>8. /\ \A d \in Device : deviceLock'[d] # deviceLock[d] =>
             {deviceLock[d], deviceLock'[d]} \subseteq {s, NoSession}
        /\ \E d \in Device : deviceLock'[d] = s
        /\ \A d \in Device : deviceLock'[d] = s => x.device = d
    BY <2>4, <2>5, <2>7
  <2>9. /\ conversationLock' = conversationLock /\ conversationLock' # s /\ UNCHANGED vars
        /\ x.pc \notin {"idle", "device", "decide", "commit"}
    BY <2>2, <2>4, <2>5
  <2>10. /\ x.pc \notin {"idle", "device"} <=> \E d \in Device : deviceLock'[d] = s
         /\ x.pc \in {"decide", "commit"} => conversationLock' = s
         /\ conversationLock' = s => x.pc \in {"decide", "commit", "abort"}
    BY <2>8, <2>9
  <2>11. /\ x.pc \in {"conversation", "decide", "commit"} => MayControl(x.device)
         /\ x.pc = "commit" => x.seen = lease /\ Allowed(x, lease, x.at) /\ x.at = now
    BY <2>2
  <2> QED BY <2>2, <2>3, <2>6, <2>8, <2>9, <2>10, <2>11, LocalStepPreservesDetail, ZenonT(60)
<1>3. CASE LockConversation(s)
  <2> DEFINE x == [txn[s] EXCEPT !.pc = "decide"]
  <2>1. txn[s].pc = "conversation" /\ txn[s] \in Running
    BY <1>3, RunningFields DEF LockConversation, TransactionInvariant
  <2>2. x \in Running /\ x.pc = "decide" /\ x.device = txn[s].device /\ MayControl(x.device)
    BY <2>1 DEF Running, TransactionInvariant, PastDeviceAuthorized
  <2>3. txn' = [txn EXCEPT ![s] = x]
    BY <1>3 DEF LockConversation
  <2>4. /\ UNCHANGED <<vars, deviceLock>>
        /\ conversationLock = NoSession /\ conversationLock' = s
    BY <1>3 DEF LockConversation, TakeConversationRow
  <2>5. /\ deviceLock[x.device] = s /\ x.device \in Device
        /\ \A d \in Device : deviceLock[d] = s => x.device = d
    BY <2>1, <2>2, SessionAssumption
       DEF TransactionInvariant, LockingDiscipline, HoldsDevice, Running
  <2> HIDE DEF x
  <2>6. DetailType'
    <3>1. DetailType
      BY DEF TransactionInvariant
    <3>2. txn' \in [Session -> {Idle} \cup Running]
      BY <2>2, <2>3, <3>1 DEF DetailType
    <3> QED BY <2>4, <3>1, <3>2 DEF DetailType
  <2>7. /\ deviceLock' = deviceLock /\ UNCHANGED vars
        /\ {conversationLock, conversationLock'} \subseteq {s, NoSession}
    BY <2>4
  <2>8. /\ x.pc \notin {"idle", "device"} /\ x.pc # "commit"
        /\ x.pc \in {"decide", "commit", "abort"}
        /\ \E d \in Device : deviceLock'[d] = s
        /\ \A d \in Device : deviceLock'[d] = s => x.device = d
        /\ conversationLock' = s
    BY <2>2, <2>4, <2>5
  <2>9. x.pc \in {"conversation", "decide", "commit"} => MayControl(x.device)
    BY <2>2
  <2> QED BY <2>2, <2>3, <2>6, <2>7, <2>8, <2>9, LocalStepPreservesDetail, ZenonT(60)
<1>4. CASE Check(s)
  <2> DEFINE x == [txn[s] EXCEPT !.pc = IF Allowed(txn[s], lease, now) THEN "commit" ELSE "abort",
                                 !.seen = lease, !.at = now]
  <2>1. txn[s].pc = "decide" /\ txn[s] \in Running
    BY <1>4, RunningFields DEF Check, TransactionInvariant
  <2>a. lease \in Lease \cup {NoLease} /\ now \in Time
    BY DEF TransactionInvariant, LeaseInvariant, TypeOK
  <2>2. x \in Running
    BY <2>1, <2>a DEF Running
  <2>3. /\ x.pc \in {"commit", "abort"} /\ x.device = txn[s].device /\ x.seen = lease /\ x.at = now
        /\ x.pc = "commit" => Allowed(txn[s], lease, now)
        /\ x.op = txn[s].op /\ x.takeover = txn[s].takeover /\ x.grant = txn[s].grant
    BY <2>1 DEF Running
  <2>4. txn' = [txn EXCEPT ![s] = x] /\ UNCHANGED <<vars, deviceLock, conversationLock>>
    BY <1>4 DEF Check, ReadClock
  <2>5. /\ deviceLock[x.device] = s /\ x.device \in Device /\ MayControl(x.device)
        /\ conversationLock = s
        /\ \A d \in Device : deviceLock[d] = s => x.device = d
    BY <2>1, <2>3, SessionAssumption
       DEF TransactionInvariant, LockingDiscipline, HoldsDevice, HoldsConversation, Running,
           PastDeviceAuthorized
  <2>6. x.pc = "commit" => Allowed(x, lease, x.at)
    BY <2>3 DEF Allowed, AcquireAllowed, LeaseCurrent
  <2> HIDE DEF x
  <2>7. DetailType'
    BY <2>2, <2>4 DEF TransactionInvariant, DetailType
  <2>8. /\ deviceLock' = deviceLock /\ conversationLock' = conversationLock /\ UNCHANGED vars
        /\ x.pc \notin {"idle", "device"} /\ txn' = [txn EXCEPT ![s] = x]
        /\ \E d \in Device : deviceLock'[d] = s
        /\ \A d \in Device : deviceLock'[d] = s => x.device = d
        /\ conversationLock' = s
    BY <2>3, <2>4, <2>5
  <2>9. /\ x.pc \in {"decide", "commit", "abort"} /\ MayControl(x.device)
        /\ x.pc = "commit" => x.seen = lease /\ Allowed(x, lease, x.at) /\ x.at = now
    BY <2>3, <2>5, <2>6
  <2> QED BY <2>2, <2>7, <2>8, <2>9, LocalStepPreservesDetail, ZenonT(60)
<1>5. CASE CommitLease(s)
  <2>1. txn[s].pc = "commit" /\ Release(s) /\ txn[s].at <= now
    BY <1>5 DEF CommitLease, TransactionInvariant, ClockOrder
  <2>2. PICK id \in LeaseId :
          Issue(NewLease(id, txn[s].device, NextRevision(txn[s].seen), txn[s].at))
    BY <1>5 DEF CommitLease
  <2> DEFINE e == NewLease(id, txn[s].device, NextRevision(txn[s].seen), txn[s].at)
  <2>3. e.at = txn[s].at
    BY DEF NewLease
  <2>4. issued' = issued \cup {e} /\ UNCHANGED <<now, active, accepted>>
    BY <2>2 DEF Issue
  <2> HIDE DEF e
  <2> QED BY <2>1, <2>3, <2>4, CommitPreservesDetail
<1>6. CASE CommitCommand(s)
  <2>1. txn[s].pc = "commit" /\ Release(s) /\ txn[s].at <= now
    BY <1>6 DEF CommitCommand, TransactionInvariant, ClockOrder
  <2>2. PICK n \in 1 .. MaxCommands :
          accepted' = accepted \cup
            {[number |-> n, device |-> txn[s].device, id |-> txn[s].grant.id,
              revision |-> txn[s].grant.revision, at |-> txn[s].at]}
    BY <1>6 DEF CommitCommand
  <2> DEFINE e == [number |-> n, device |-> txn[s].device, id |-> txn[s].grant.id,
                   revision |-> txn[s].grant.revision, at |-> txn[s].at]
  <2>3. e.at = txn[s].at /\ accepted' = accepted \cup {e} /\ UNCHANGED <<now, active, issued>>
    BY <1>6, <2>2 DEF CommitCommand
  <2> HIDE DEF e
  <2> QED BY <2>1, <2>3, CommitPreservesDetail
<1>7. CASE Rollback(s) \/ LoseConnection(s)
  BY <1>7, ReleasePreservesDetail DEF Rollback, LoseConnection
<1> QED BY <1>1, <1>2, <1>3, <1>4, <1>5, <1>6, <1>7 DEF Step, Advance

\* A revocation waits for the device's row, so it meets no transaction that has it.
LEMMA RevocationPreservesDetail ==
  ASSUME TransactionInvariant, NEW d \in Device, RevokeDevice(d)
  PROVE  Detail'
<1>1. /\ deviceLock[d] = NoSession /\ active' = [active EXCEPT ![d] = FALSE]
      /\ UNCHANGED <<now, lease, issued, accepted, deviceLock, conversationLock, txn>>
  BY DEF RevokeDevice, Revoke, detail
<1>2. DetailType' /\ ClockOrder'
  BY <1>1 DEF TransactionInvariant, DetailType, ClockOrder, NotBefore
<1>3. ASSUME NEW s \in Session, txn[s].pc \in {"conversation", "decide", "commit"}
      PROVE  MayControl(txn[s].device)'
  <2>1. txn[s].device # d
    BY <1>1, <1>3, SessionAssumption DEF TransactionInvariant, LockingDiscipline, HoldsDevice
  <2>2. MayControl(txn[s].device)
    BY <1>3 DEF TransactionInvariant, PastDeviceAuthorized
  <2> QED BY <1>1, <2>1, <2>2 DEF MayControl, TransactionInvariant, LeaseInvariant, TypeOK
<1>4. PastDeviceAuthorized'
  BY <1>1, <1>3 DEF PastDeviceAuthorized
<1>5. LockingDiscipline'
  BY <1>1, <1>3 DEF TransactionInvariant, LockingDiscipline, HoldsDevice, HoldsConversation, MayControl
<1> QED BY <1>2, <1>4, <1>5 DEF Detail

\* The invariant is inductive: the lease part because each step is a step of the
\* atomic service, the detail action by action.
LEMMA TransactionInvariantStep ==
  TransactionInvariant /\ [TNext]_allVars => TransactionInvariant'
<1> SUFFICES ASSUME TransactionInvariant, [TNext]_allVars PROVE TransactionInvariant'
    OBVIOUS
<1>1. LeaseInvariant'
  BY StepIsLeaseStep, LeaseInvariantStep DEF TransactionInvariant
<1>2. Detail'
  <2>1. ASSUME NEW s \in Session, Step(s) PROVE Detail'
    BY <2>1, SessionStepPreservesDetail
  <2>2. ASSUME NEW d \in Device, RevokeDevice(d) PROVE Detail'
    BY <2>2, RevocationPreservesDetail
  <2>3. CASE Tick /\ UNCHANGED detail
    BY <2>3, BoundAssumption
       DEF Tick, detail, Detail, TransactionInvariant, LeaseInvariant, TypeOK, Time, Lease, Command,
           DetailType, Running, LockingDiscipline, HoldsDevice, HoldsConversation, MayControl,
           PastDeviceAuthorized, ClockOrder, NotBefore, Idle
  <2>4. CASE UNCHANGED allVars
    BY <2>4
       DEF allVars, vars, detail, Detail, TransactionInvariant, DetailType, LockingDiscipline,
           HoldsDevice, HoldsConversation, MayControl, PastDeviceAuthorized, ClockOrder, NotBefore
  <2> QED BY <2>1, <2>2, <2>3, <2>4 DEF TNext
<1> QED BY <1>1, <1>2 DEF TransactionInvariant, Detail

\* The inductive invariant holds in every reachable state.
THEOREM TransactionInvariantHolds == TSafety => []TransactionInvariant
<1>1. TInit => TransactionInvariant
  BY TransactionInvariantInitially
<1>2. TransactionInvariant /\ [TNext]_allVars => TransactionInvariant'
  BY TransactionInvariantStep
<1> QED BY <1>1, <1>2, PTL DEF TSafety
----------------------------------------------------------------------------
\* Every variable of the transactions keeps its type.
THEOREM TypesHold == TSafety => []TTypeOK
<1>1. TransactionInvariant => TTypeOK
  BY DEF TransactionInvariant, LeaseInvariant, DetailType, TTypeOK
<1> QED BY <1>1, TransactionInvariantHolds, PTL

\* lockDevice and lockConversation make each handler two-phase: what it checked
\* is still true when it commits, whatever the other handlers do in between.
THEOREM LockingDisciplineHolds == TSafety => []LockingDiscipline
<1>1. TransactionInvariant => LockingDiscipline
  BY DEF TransactionInvariant
<1> QED BY <1>1, TransactionInvariantHolds, PTL

\* The handlers of control-lease.ts, acceptance.ts and interaction-commands.ts
\* implement the atomic lease service.
THEOREM TransactionsImplementControlLease == TSafety => ImplementsControlLease
<1>1. TInit => Init
  BY DEF TInit
<1>2. TransactionInvariant /\ [TNext]_allVars => [Next]_vars
  BY StepIsLeaseStep
<1> QED BY <1>1, <1>2, TransactionInvariantHolds, PTL DEF TSafety, ImplementsControlLease, Spec

\* So the promises of the service are theirs: no revision is handed out twice.
THEOREM TransactionsRevisionsNeverShared == TSafety => []RevisionsUnique
  BY TransactionsImplementControlLease, RevisionsNeverShared, PTL DEF ImplementsControlLease

\* And no command is accepted under a lease that another has replaced.
THEOREM TransactionsFenceCommands == TSafety => []CommandsFenced
  BY TransactionsImplementControlLease, CommandsAreFenced, PTL DEF ImplementsControlLease

\* The lease a command is committed under is the row's value at the commit.
THEOREM CommandsCommitUnderCurrentLease == TSafety => CommandsUnderCurrentLease
<1> DEFINE Current == \A c \in accepted' \ accepted :
                        /\ lease # NoLease /\ lease.device = c.device
                        /\ lease.id = c.id /\ lease.revision = c.revision
<1>1. TransactionInvariant /\ [TNext]_allVars => [Current]_allVars
  <2> SUFFICES ASSUME TransactionInvariant, [Next]_vars PROVE Current
      BY StepIsLeaseStep
  <2> USE DEF Current
  <2>1. ASSUME NEW d \in Device, NEW t \in 0 .. now, Decide(d, t) PROVE Current
    <3>1. CASE \E id \in LeaseId : Acquire(d, id, t) \/ TakeOver(d, id, t)
      BY <3>1 DEF Acquire, TakeOver, Issue
    <3>2. CASE Renew(d, t)
      BY <3>2 DEF Renew, Issue
    <3>3. CASE \E n \in 1 .. MaxCommands : AcceptCommand(d, n, t)
      BY <3>3 DEF AcceptCommand, Holds
    <3> QED BY <2>1, <3>1, <3>2, <3>3 DEF Decide
  <2>2. CASE Tick \/ \E d \in Device : Revoke(d)
    BY <2>2 DEF Tick, Revoke
  <2>3. CASE UNCHANGED vars
    BY <2>3 DEF vars
  <2> QED BY <2>1, <2>2, <2>3 DEF Next
<1> QED BY <1>1, TransactionInvariantHolds, PTL DEF TSafety, CommandsUnderCurrentLease

\* A revoked device gains neither a lease nor a command, not even from a
\* transaction that was open when it was revoked.
THEOREM RevokedDevicesGainNothing == TSafety => RevokedDeviceGainsNothing
<1> DEFINE Active == \A e \in (issued' \ issued) \cup (accepted' \ accepted) :
                       active[e.device] /\ active'[e.device]
<1>1. TransactionInvariant /\ [TNext]_allVars => [Active]_allVars
  <2> SUFFICES ASSUME TransactionInvariant, [Next]_vars PROVE Active
      BY StepIsLeaseStep
  <2> USE DEF Active
  <2>1. ASSUME NEW d \in Device, NEW t \in 0 .. now, Decide(d, t) PROVE Active
    <3>1. CASE \E id \in LeaseId : Acquire(d, id, t) \/ TakeOver(d, id, t)
      BY <3>1 DEF Acquire, TakeOver, Issue, NewLease, MayControl
    <3>2. CASE Renew(d, t)
      BY <3>2 DEF Renew, Issue, NewLease, MayControl
    <3>3. CASE \E n \in 1 .. MaxCommands : AcceptCommand(d, n, t)
      BY <3>3 DEF AcceptCommand, MayControl
    <3> QED BY <2>1, <3>1, <3>2, <3>3 DEF Decide
  <2>2. CASE Tick \/ \E d \in Device : Revoke(d)
    BY <2>2 DEF Tick, Revoke
  <2>3. CASE UNCHANGED vars
    BY <2>3 DEF vars
  <2> QED BY <2>1, <2>2, <2>3 DEF Next
<1> QED BY <1>1, TransactionInvariantHolds, PTL DEF TSafety, RevokedDeviceGainsNothing
=============================================================================
