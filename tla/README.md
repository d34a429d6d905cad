# VoxHandoff in TLA+

VoxHandoff lets a paired phone hand a spoken request to an agent (Hermes) that
runs on a private computer. This directory holds TLA+ models of its protocol
core, the TLC configurations that check them and TLAPS proofs about them. Paths
below are relative to the repository root (`src/` here); `PROJECT.json` maps
every definition to the lines it stands for.

Contents: [1 Inventory](#1-inventory) · [2 Modules](#2-modules) ·
[3 Runs](#3-runs) · [4 Fairness](#4-fairness) · [5 Findings](#5-findings) ·
[6 Proofs](#6-proofs) · [7 Abstractions](#7-abstractions-and-what-is-not-modelled) ·
[8 Plan](#8-plan)

## 1 Inventory

```
 phone (Dart)          Gateway (TypeScript + PostgreSQL)            Node (TypeScript)      Hermes
 controllers    gRPC   control lease     request/interaction   gRPC  node connector   HTTP   runs,
 convergence  <------> pairing           ledger, node ledger <------> journal, tasks <-----> events
    |                  event outbox, live hub                        session store
    |  TLS, pinned
    +-------------> Companion Bridge (TypeScript, on the private computer): QR pairing,
                    credentials, one state file
```

### Control lease (`services/gateway/src/control-lease.ts`)
*State*: at most one `control_leases` row per conversation: id, device,
revision, expiry. *Operations*: acquire, explicit takeover, renewal; every
command presents the triple (device, id, revision) and is checked in its own
transaction. *Interaction*: shares the `devices` row with pairing and
revocation and the `conversations` row with every command. *Hard*: several
handlers run at once and each takes its locks, reads, reads the clock and
commits in separate steps; a connection can be lost at any of them. *Correct
when*: a revision names one lease value, no command commits under a lease that
is not current, a revoked device gains nothing, no transaction waits for ever.

### Request and interaction ledger (`acceptance.ts`, `interaction-commands.ts`)
*State*: `requests`, `control_commands`, `approvals`, `clarifications`,
`gateway_dispatch_outbox`, the events of the conversation. *Operations*: accept
a request, an interrupt, an approval, a clarification; each is one transaction
that also writes a dispatch and an event. *Hard*: a user's decision races the
expiry, the withdrawal and the end of the request; keys and ids are presented
again. *Correct when*: a decision is made once and never rewritten, exactly the
decisions made are dispatched, an ended request stays as it ended.

### Node ledger (`postgres-node-ledger.ts`, `node-handlers.ts`, `control-service.ts`)
*State*: the same tables, and `nodes.current_connection_id`. *Operations*:
register, claim dispatches (at least once), acknowledge, ingest an event.
*Hard*: frames of an old connection arrive late, acknowledgements are repeated
or contradict, the first event binds the session that other open requests need.
*Correct when*: one end per request and nothing after it, one verdict per
dispatch, no open request that cannot be routed.

### Hermes node connector (`services/node/src/hermes-node-connector.ts`)
*State, all in memory*: `#dispatchStates`, `#runs`, the journal
`#pendingEvents`, the active output. *Operations*: connect and replay, #send,
#interrupt, #approval, #stream, #emit, #acknowledgeEvent. *Hard*: streams break
with frames under way in both directions, runs go on while there is no stream,
the journal is bounded, a submission's outcome may be unknown, the process may
exit. *Correct when*: nothing taken from Hermes is lost while the process
lives, the log keeps Hermes's order, a request is submitted once, an
acknowledged dispatch took effect, the journal drains.

### Hermes adapter (`packages/adapters/src/hermes-api.ts`)
*State*: the last sequence of each run. *Operations*: start, stream with
resumption, stop, approve; supplements for lost and resumed connections. *Hard*:
supplements and native events share one increasing sequence.

### Event publication, live events and replay (`event-publication.ts`, `live-events.ts`, `postgres-event-ledger.ts`, `control-service.ts`)
*State*: `gateway_event_outbox`, a bounded queue per subscriber, a bounded
response queue per Client stream. *Operations*: claim, publish, mark, release;
subscribe; answer a replay or a status lookup. *Interaction*: pumps feed the hub,
the live task and the request task of a stream push into one queue. *Hard*: pumps
take rows from each other, fail and stop; live events and pages interleave;
both queues overflow. *Correct when*: every event reaches the hub, and a Client
that comes back gets every event after its cursor.

### Client convergence (`gateway_frame_router.dart`, `client_event_convergence.dart`, the Drift ledger)
*State*: durable cursor, events and request routes; per stream the pending replay
and the events of unknown requests. *Operations*: route a frame: accept an
event, a status, a completion. *Hard*: duplicates, gaps, events of requests that
other devices sent, a stream that ends at any point. *Correct when*: only stored
events are acknowledged, nothing is waited for that is not under way, the local
log catches up with the Gateway's.

### Device pairing, credentials, owner (`pairing.ts`, `postgres-pairing-ledger.ts`, `device-identity.ts`, `owner-bootstrap.ts`)
*State*: `pairings`, `devices`, `device_credentials`,
`device_refresh_history`, a rate limit per address; in memory the results of
confirmations and those under way; in the client's credential store a token.
*Operations*: begin, inspect, approve, complete, confirm, refresh, revoke; the
local commands that create and replace the owner. *Interaction*: every command
of the ledger and the lease reads `devices.status`. *Hard*: an answer is lost, a
used token comes back, two confirmations of a device meet, the process restarts
between a commit and its answer, an administrator is revoked after its RPC was
authenticated, a device is confirmed between the bootstrap's look at the
administrators and its insert. *Correct when*: the three tables tell one story of a device, one
token of it is accepted and never again once replaced, a replay revokes, a
cached answer is not stale, at most one owner is active, an honest client keeps
its credential.

### Companion Bridge (`services/bridge/src/pairing.ts`, `credentials.ts`, `state.ts`, `server.ts`)
*State*: sessions, requests, devices and credentials in memory, their clone
for a failed mutation, a state file, a queue of mutations. *Operations*: create a
QR code, exchange, list, confirm, complete, cancel, revoke, revoke oneself.
*Hard*: mutations wait for each other, may fail to be written, and the process
may end before, between or after writing and answering; a caller's call was made
with what was true then. *Correct when*: what a caller was told survives every
failure, memory and file agree between mutations, one attempt is under way at a
time, a code admits one device, a revocation is final.

### Components that are not modelled
| Component | State | Why not |
|---|---|---|
| Node session store (`services/node/src/session-store.ts`) | a map and its JSON file | one write chain; read only when a Hermes session is resolved, a step before the submission `NodeDelivery` starts with. Its hazard (a failed write rejects the chain for ever) is listed |
| Voice session core (`packages/core`) | a pure transition function | only the proof of concept imports it; its table would be restated, not checked |

Conversation directory, Gateway lifecycle, Codex adapter, protocol package,
Flutter user interface and speech service carry no protocol state of their own
or none the served product uses; `PROJECT.json` gives the reason for each.

## 2 Modules

```
 ControlLease  <== refines ==  LeaseTransactions      GatewayLedger  <-- extends --  NodeDelivery
                                    |                      |                              |
                          LeaseTransactionsProofs  GatewayLedgerProofs <- extends - NodeDeliveryProofs
                          MCLeaseTransactions      MCGatewayLedger                 MCNodeDelivery

 EventPublication ..feeds..> EventStream  <-- extends --  ClientSync
      |                                                        |
 EventPublicationProofs                                   ClientSyncProofs
 MCEventPublication                                       MCClientSync

 DeviceAccess  <== refines ==  DevicePairing        BridgeAdmission  <== refines ==  BridgePairing
      |                             |                                                     |
 DeviceAccessProofs       DevicePairingProofs                                   BridgePairingProofs
                          MCDevicePairing                                       MCBridgePairing
```

**ControlLease** is what the lease promises: acquire, takeover, renewal, an
accepted command and revocation, each one step. A handler reads the clock under
its locks and commits later, so an action has a time `t` of its own that is
never before the time of an earlier commit. `issued` and `accepted` are history.

**LeaseTransactions** is how the code does it. A session (a handler execution)
goes through `Begin`, `LockDevice`, `LockConversation`, `Check` (the read of the
lease row and of the clock) and `CommitLease` or `CommitCommand`; a failed check
or a lost connection rolls back. `RowUnchanged` is the WHERE clause of the
update. A write is invisible before COMMIT, so writing and committing are one
step. The row `control_leases` is locked only under the conversation's lock and
has no lock of its own in the model. Its `Spec` is implemented by `TSafety`
(`ImplementsControlLease`) with every variable mapped to itself.

**GatewayLedger** has the tables for one conversation routed to one agent; one
action is one transaction, and a handler that fails is no step. The lease is
reduced to `controller`, the device whose triple passes the check now.
`ClientCommand` has the four commands, `NodeFrame` a frame of any connection
ever registered, current or not, `Environment` registration, lease changes,
revocation and the passing of an expiry. `AckOutcome` and `EventOutcome` are the
decisions of the two node handlers: stored, repeated or refused.

**NodeDelivery** extends it with one Node and Hermes. `up[n]` is the queue of
frames of stream `n` to the Gateway, `down` the live stream's queue back.
`Break` loses what is under way to the node; the Gateway goes on with what has
arrived until `HandlerEnds`, so two handlers can be at work at once. `Restart`
is the exit of the process and its start by a supervisor: everything but the
session store is gone. `task[r]` is the progress of `#send`: starting (the
request is not at Hermes yet), begun (it is, the answer is not back), accepted,
streaming, ended, rejected or uncertain. `HermesReports`, `HermesBegins` and the
variables `run` and `done` are external, modelled from the adapter's use of them.
`waiting` holds the runs whose last event waits in `#emit` for an output,
`held` the acknowledgements that do.

**EventPublication** is the outbox and the pumps. `batch[w]` is what pump `w`
claimed and has yet to handle, `handed` says that the head of it is published but
not marked; between the two steps another pump may claim the row. Claims skip
rows that a claim at the same time has locked.

**EventStream** is the Gateway's side of one Client stream: `hub` is the
subscriber's queue, `commands` and `frames` are the two directions, `answer` the
responses the request task has still to push. The live task (`PushLive`) and the
request task (`TakeCommand`, `PushAnswer`) share the bounded queue `frames`;
`failing` is a queue that has failed, `handling` a request task that still reads.
Of the pumps it keeps only that any recorded event may be published at any time,
in any order and again (`PublishLive`); of the ledger, that events are recorded
under the session the request has. `commands` holds what the Client sent: replays,
lookups, sends and acknowledgements. A send or an acknowledgement that a stream
leaves behind may still be taken (`TakeLate`), and `acked` is the row of
`device_cursors` that `AcknowledgeEvent` moves forward.

**ClientSync** adds the Client. The router handles a frame to its end before the
next one, so `TakeFrame` applies a function, `Route`, to the Client's state, and
each function of `GatewayFrameRouter` is an operator of the same name on that
state; `sent` collects the commands, `broken` is an exception. `cursor` and
`tracked` survive a stream, `replay` and `held` do not. What other devices and
the Node do to the conversation are `OtherSends` and `NodeReports`.

**DeviceAccess** is what the Gateway promises about who may use it: a device's
phase from unknown to revoked, whether it administers, the token accepted from
it. The first owner is chosen (`Open`) while nobody administers and admitted
(`Bootstrap`) or given up (`Abandon`) later. **DevicePairing** has the tables, the cache, the confirmations under way
(`flight`: begun, committed, answered), the refresh calls on their way and the
client's credential store. One action is one transaction, for each locks the row
it decides on before it reads it, but for one: `createInitialOwner` asks for
administrators with a plain SELECT (`owner-bootstrap.ts:263`) under the advisory
lock of the local commands, which `confirm` does not take. So it is two actions,
`BootstrapReads` and `BootstrapCommits` (or `BootstrapFails`), with `opening` in
between; a device confirmed there administers beside the new owner. `ReplaceOwner`
waits for the same advisory lock and locks the rows it reads. A confirmation commits and answers in two steps
(`ConfirmCommits`, `ConfirmAnswers`), because others join it meanwhile and the
process may end between them. `Refresh`, `RevokeReplayed` and `RefuseRefresh` are
the three outcomes of one handler, by what the presented token is. `Restart`
empties the memory only. `ClientGivesUp` is a client that no longer waits for an
answer, and calls again with the token it still holds. `Expire` happens inside
the operation that finds a pairing due, as in the code, and not with the clock.
The refinement maps a device to its status once it has a row, and before to the
state of its pairing (`PhaseOf`).

**BridgeAdmission** is the Bridge's promise: one attempt at a time goes from
offered through asked and confirmed to admitted. **BridgePairing** has the queue
of mutations (`queue`, each call with the time it was made where the code reads
the clock before it waits), the state in memory, the clone `before` and the
`file`. An operation at the head of the queue applies its change to the memory
(`Write`) or refuses (`Refuse`); then `Persisted` renames the temporary file and
answers, or `PersistFails` puts the clone back. `Crash` may come at any point,
between the rename and the answer too. `told` is what callers were told, and it
is also what they can call with (`May`). The refinement reads the file, not the
memory: a promise counts once it is durable.

The mutants that show that a property can fail stand before the definition they
replace, with a comment of their own; no specification uses them.

## 3 Runs

Every passing run explores its whole bounded state space. States are distinct
states; times are for two workers.

| Run | Specification | Asks | States |
|---|---|---|---|
| `lease` | `TSpec` | Under any interleaving of two transactions of two devices with revocations and lost connections: are revisions unique, commands fenced, locks disciplined, is the atomic service implemented, and does every transaction end? | 141k, 55 s |
| `ledger` | `Spec` | Two requests, an approval and a clarification, two connections, the binding of a session, expiries, withdrawals, late and repeated frames: does each request end once and stay as it ended, is each decision made once and dispatched exactly then, do the rows agree? | 371k, 55 s |
| `delivery` | `DeliverySpec` | A request and its interrupt over two streams, a crash of the node, resumed Hermes streams: is the log what Hermes reported, is nothing submitted twice, does an acknowledged dispatch have its effect? | 3.0M, 2 min |
| `delivery_liveness` | `FairDelivery` | Three streams, a journal of one and a crash: do receipts match the journal, is no event lost, does the journal drain, is each dispatch answered? | 169k, 60 s |
| `delivery_rejected` | `DeliverySpec` | Does the end of a request cancel its pending interactions? No: finding 1. | violation |
| `delivery_resume` | `DeliverySpec` | Do supplements leave the native sequence numbers free? No: finding 2. | violation |
| `publication` | `FairSpec` | Two pumps that take rows from each other, fail and stop: is nothing marked that was not published, is a delivered row left alone, does every event reach the hub? | 37k |
| `sync` | `Spec` | Streams that break, lag and overflow, live events in any order, requests of another device: are only stored events acknowledged, do completions and lookups match what is awaited, does a stream rest only when it has caught up? | 3.4M, 66 s |
| `sync_gap` | `Spec` | Is a gap always replayed? No: finding 3. | violation |
| `sync_session` | `Spec` | Does every event fit the stored route when the Node binds the session? No: finding 4. | violation |
| `pairing` | `Spec` | A device that is paired, and two owners: lost answers, repeated and concurrent confirmations and refreshes, expiries, restarts, revocation, recovery, a bootstrap that reads and commits in two steps: do the tables agree, who is revoked for replay, is an answer ever stale, is `DeviceAccess` implemented? | 573k, 55 s |
| `bridge` | `Spec` | Two attempts, queued calls, failed writes and exits of the process: is what a caller was told in the file for good, is `BridgeAdmission` implemented? | 1.2M, 50 s |

**Properties.** `TTypeOK`, `TypeOK`, `DeliveryTypeOK`, `PublicationTypeOK`,
`SyncTypeOK` and `PairingTypeOK` are the type invariants. The others are each a relation that more
than one actor must keep:

- *Lease*: `RevisionsUnique`, `CommandsFenced` (the history of commands against
  the history of leases), `LockingDiscipline` (what was checked still holds at
  the commit), `CommandsUnderCurrentLease`, `RevokedDeviceGainsNothing`,
  `ImplementsControlLease`, `EveryTransactionEnds`.
- *Ledger*: `OneTerminalEvent` and `TerminalIsFinal` (state and log agree, and
  end together), `OpenRequestsRoutable`, `DecisionsDispatched`,
  `AcknowledgementsAgree` (dispatch, command and request), `OutcomesFinal` (a
  final interaction, an answered dispatch).
- *Delivery*: `ReceiptsMatchJournal`, `EventsRetained`, `LogFollowsRun`,
  `SubmittedOnce`, `DeliveredTookEffect`, `JournalDrains`,
  `DispatchesAnswered`.
- *Publication*: `DeliveredWasPublished`, `DeliveredStays` (against a pump that
  comes late), `EventuallyPublished`.
- *Client*: `DurableBeforeAck`; `CompletionsExpected` and `LookupsUnderWay` (what
  the router waits for is under way, once); `EventsRoutable` (the Gateway's log
  against the Client's routes; it holds for a conversation created with its
  session); `CaughtUpAtRest`; `GapsReplayed`.
- *Pairing*: `RowsAgree` (pairing, device and credential), `AnswersCurrent` (what
  an answer hands out against what the ledger accepts), `RotatedInExchange`,
  `ReplayOnlyAfterLoss` (a revocation against what the client did before it),
  `ImplementsDeviceAccess`.
- *Bridge*: `AnswersDurable` (what callers were told against the file),
  `ImplementsBridgeAdmission`.

**Bounds, and why they are enough.**

- `Session` = 2: a row lock is contended by a pair of transactions, and a third
  one only waits behind them; the proofs cover any number. `MaxTime` =
  `Duration` = 2 lets a lease expire, be taken over and be renewed at its last
  tick. `MaxRevision` = 2 is acquire, then a takeover or a renewal; every safety
  property of the run is proved for any bound.
- `Room` keeps a transaction from starting that a bound would leave stuck, so
  that liveness fails only for a reason the code has.
- `MaxEvents` is 4 in `ledger`: two acceptances, an event of the Node and an end,
  or an acceptance, two events and an end; one more than a violation of the end's
  uniqueness takes. The proofs cover any log. In the delivery runs it is 8, more
  than a behaviour there can store.
- `MaxConnections` = 2 or 3: a claim of one connection claimed again by the
  next; with three, an old handler still at work while two newer streams come
  and go. `Break` and `Crash` leave the last stream up, because a model whose
  streams are used up says nothing about delivery.
- `MaxJournal` = 1 or 2 stands for 256 frames: the limit is reached at once.
  `MaxNative` = 2 is the least that can be reordered or skipped.
- `MaxRestarts` = 1: a second crash meets the same state as the first, for the
  process keeps nothing across it.
- `Resumes` and `MaxResumes`: with the capability off a broken event stream
  ends; `delivery_resume` uses the code's 3.
- `MaxRows` = `BatchSize` = 3 in `publication`: a claim covers what is waiting.
  With less, two pumps that go on taking the older rows from each other keep a
  newer one waiting, which the code does allow (section 5).
- `MaxLog` = 3, `Page` = 1: a chain of three pages, a gap behind a stored event,
  two events held. `MaxFrames` = 2 is a page and its completion, `MaxHub` = 1 and
  `MaxHeld` = 2 are overrun. `MaxCommands` = 1 lets the Client run one frame ahead
  of the request task.
- `pairing`: one pairing with its device and two owners are an administrator, the
  device it admits and the owner that replaces it, or that a bootstrap creates after
the first was revoked, while the device is confirmed; `MaxBegins` = 1 makes the
  second attempt of a window a denied one. `MaxTime` = 2 with lifetimes of 1 and 2
  has every one of them pass before or after every other. `MaxCalls` = 3: a call,
  the one that comes after it was given up, and a third that meets what both left.
- `bridge`: an attempt and the one whose code replaces it; `MaxQueue` = 2 is a call
  that waits for another, and `MaxTime` = lifetimes = 1 lets each end pass once.
- Symmetry (interchangeable keys, owners, attempts) is used in runs that
  check safety only.

`CHECK_DEADLOCK FALSE` stands everywhere because a bounded system stops once its
bounds are used up: no time, revision, key or stream is left. That nothing waits
for ever before that is what the liveness runs check.

## 4 Fairness

- `WF` of a transaction's own steps (`Advance`): the handler is running code.
- `SF` of `LockDevice` and `LockConversation`: PostgreSQL queues the waiters of a
  row lock, so one that waits is not passed over for ever although the lock is
  again and again taken.
- `WF` of the connector's connection loop, of reading its stream and of writing
  what waits; of each call to Hermes, which has a timeout and therefore ends one
  way or another; of the Gateway's handler of each stream and of its claims,
  which every heartbeat repeats.
- `WF` of each pump's claim and of going through its batch, and of a released row
  becoming due; failures are bounded by `MaxFailures`.
- `pairing` and `bridge` check safety only and assume none.
- Nothing is assumed of users, of lease changes, of Hermes's events, of breaks
  and of crashes. `HandlerEnds` is not fair: a handler of a dead stream may
  linger.

Both delivery properties exempt `CutOff`. Its first part is the bound on
streams. Its second is a real state: the handler of a dead stream serves that
stream's registration after the live stream's own, becomes the current
connection, and every frame of the live stream is refused. The node's process
ends on the first refusal, or stays connected and idle when it has nothing to
send. `DispatchesAnswered` also accepts an uncertain submission, which the design
leaves to the user.

## 5 Findings

1. **A refused send leaves its approvals pending** (`delivery_rejected`,
   `services/gateway/src/postgres-node-ledger.ts:372`). `acknowledgeDispatch`
   fails the request without cancelling its pending interactions, which
   `ingestNodeEvent` does when an event ends it and `DELIVERY.md:413` says of any
   end. It takes a lost acknowledgement, a restarted node and an HTTP error of
   Hermes on the repeated submission: the run has raised an approval by then.
2. **Supplements take a native sequence number** (`delivery_resume`,
   `packages/adapters/src/hermes-api.ts:293`). `nextSyntheticSequence` adds two
   to an odd number. After two disconnections without an event in between, the
   next native event no longer advances the sequence and `#stream` ends,
   although up to three resumptions are meant to be possible and
   `ARCHITECTURE.md:455` promises disjoint numbers.
3. **A gap is forgotten while a replay is pending** (`sync_gap`,
   `apps/client/lib/application/gateway_frame_router.dart:313`).
   `_requestReplayOnce` notes a gap only when the cursor has moved since the
   pending replay was sent. A Client reconnects; the Gateway reads the page; an
   event is recorded and its live copy overtakes the page. The copy is dropped as a
   gap at the same cursor, the page does not contain it and says there is no more.
   Nothing asks for the event until the next one arrives or the stream ends: the
   last event of a run, its end, can stay invisible. `ARCHITECTURE.md:399` wants a
   gap replayed and not repeated while it has not converged; it has not converged.
4. **A conversation created by the app never converges** (`sync_session`,
   `apps/client/lib/application/client_event_convergence.dart:121`). The app
   creates conversations without a session and stores its request's route so. The
   Node's first event binds the session and carries it, so the Client refuses the
   event, closes the stream, and meets the same event first in every replay. A
   status with the new session conflicts as well, and another device fails alike
   on the acceptance event, which carries none. `ARCHITECTURE.md:397` provides for
   exactly this binding, `DELIVERY.md:438` for convergence of every device.

The first two counterexamples rest on Hermes numbering a run's events 1, 2, 3, ... without
gaps, which the capability `sequenceRecovery` and the adapter's own tests suggest.

Two more observations that no property states. A device whose own lease expired,
or that lost the response to its acquire, can neither renew nor acquire
(`AcquireAllowed` wants another device and a takeover): only a takeover by
another device, and then back, helps. And a request gets one interrupt for ever,
even when that interrupt's dispatch was rejected (`AcceptInterrupt`).

Three more on publication. Two live pumps whose backlog exceeds a batch can take
the older rows from each other for ever, publishing them again and again and a
newer one never; replay still brings it. A pump started again under the same
`workerId` never claims what it left in flight. A page of 500 events and its
completion need a response queue of 501 unless the Client reads meanwhile.

Three on pairing. `ARCHITECTURE.md:581` of the archived design
(`spec/archive/2026-08-16-full-agent/`) lets a client recover an uncertain unary
call by repeating the persisted request. The refresh is not persisted: when the
answer is lost, `secure_grpc_gateway_workspace_factory.dart:56` sends the old
token with a new nonce at the next start, which counts as a replay, and the
device is revoked. `ReplayOnlyAfterLoss` says that nothing else costs a device
its credential. The bootstrap refuses when somebody administers (`owner_exists`,
`owner-bootstrap.ts:213`), but what it looked at is not locked: after the owner was
revoked, a confirmation of a device approved with `administer` may commit between
the look and the insert, and the first owner joins an administrator. The model has
this, as `Open` and `Bootstrap` of `DeviceAccess` are two steps; that there is one
owner does not depend on it. And the Bridge rotates its certificate pins with an overlap
(`pinning.ts:99`), of which no run speaks.

## 6 Proofs

The theorems hold for every set of devices, sessions, requests, keys,
interactions, Node events, lease ids, workers, pairings, owners and attempts, and
every value of the bounds and lifetimes. The assumptions are those the modules
declare: the bounds and lifetimes are naturals (`Duration`, `BatchSize` and the
lifetimes of pairing not 0); `Controllers \subseteq Device`; pairings and owners
are different devices; a Node event has the fields and types the protocol gives
it (`EventAssumption`); the dispatches are finitely many and the connector's events
(`ConnectorEvent`) are events a Node may send; a page and the queues of a Client
stream hold at least one element (`Page`, `MaxHub`, `MaxFrames`, `MaxCommands`); and `NoLease`, `NoRun`, `NoSession`, `NoRow`,
`Nobody`, `None` and the states of an outbox row are not values of the kinds they
stand apart from.

| Module | What its theorems state |
|---|---|
| `LeaseTransactionsProofs` | revisions unique and commands fenced in the atomic service; the locked transactions implement it; every safety property of `lease` |
| `GatewayLedgerProofs` | every property of `ledger` |
| `NodeDeliveryProofs` | the delivery implements the ledger; every safety property of `delivery` and `delivery_liveness`, `LogFollowsRun` with an invariant of its own |
| `ClientSyncProofs` | every property of `sync` |
| `EventPublicationProofs` | every safety property of `publication` |
| `DeviceAccessProofs` | one owner, tokens separate, nothing returns, in the abstract service |
| `DevicePairingProofs` | every property of `pairing`; DevicePairing implements DeviceAccess, and so has one owner |
| `BridgePairingProofs` | every property of `bridge` |

**The atomic service.** `RevisionsUnique` and `CommandsFenced` are not
inductive: that a new revision is new, and that the lease a command is accepted
under is the last one issued, both need that the row is the newest lease ever
issued (`RowIsNewest`). `LeaseInvariant` is the conjunction of `TypeOK`,
`RowIsNewest`, `RevisionsUnique` and `CommandsFenced`. `LeaseInvariantStep` has a
step per action; acquire, takeover and renewal share `IssuePreservesInvariant`,
commands have `AcceptPreservesInvariant`.

**The locked transactions.** The argument is two-phase locking.
`TransactionInvariant` adds to `LeaseInvariant`: the types; `LockingDiscipline`
(a transaction past a lock owns the row, a locked row is owned by a transaction
past its lock, and at the commit the row read is still the row); and
`PastDeviceAuthorized` (the device row keeps revocation out); and `ClockOrder`
(the clock that was read under the conversation's lock is not before any
commit). From it a commit step is an `Acquire`, `TakeOver`, `Renew` or
`AcceptCommand` of the atomic service at the time the transaction read
(`CommitLeaseIsDecision`, `CommitCommandIsDecision`), every other step but
revocation and the clock leaves the service's variables alone
(`StepIsLeaseStep`), and so `TransactionsImplementControlLease`. Each property of
`lease` but `EveryTransactionEnds` is then a theorem, the two action properties
included.

**The outbox.** A pump marks a row without looking at whether the hub has it, so
`DeliveredWasPublished` needs that the head of a batch is published once its pump
is in `handed` (`HandedWasPublished`): marking is the only step that makes a row
delivered, and it follows the publication of that very row. `OutboxInvariant` adds
the types. `DeliveredStays` needs two facts more, each a lemma: a claim takes no
delivered row (`ClaimTakesClaimable`), and marking and releasing touch only a row
that is still the worker's own (`SettleTouchesOwnRow`), which a delivered one is
not.

**The ledger.** A transaction writes its event, its rows and its dispatch
together, and what could go wrong is that a new row comes upon an old one: a new
dispatch upon a verdict, which would undo it. So `LedgerInvariant` adds
`RowsTogether` to the checked invariants: a send has its request, an interrupt's
dispatch its command, and each command its dispatch; a decision's dispatch has
its decided interaction by `DecisionsDispatched`. `LogStep` is the argument for
`OneTerminalEvent`: an event is recorded only for an open request, and the
request's row takes the event's state in the same step. `InvariantStep` shows of
every step that it keeps the invariant and leaves what is final alone (`Frozen`);
`TerminalIsFinal` and `OutcomesFinal` are read off from that.

**The delivery.** `ReceiptsMatchJournal` is about queues of frames on a stream the
node may already have lost, and three facts carry it. An event is new to the
journal when it is emitted, because its sequence number is above that of every
event of its run the journal has (`JournalFollows`, with `Reading` for what
supplements and attempts to resume add to the sequence). The live stream carries a
pending event at most once, on its way up or its receipt on its way down (`Once`):
a new stream starts with the journal, which has no event twice, and what was on the
way down an old one is lost with it. And an event leaves the journal only by a
receipt, which is sent only for an event in the log (`Pending`), so
`EventsRetained` holds. `Effective` follows an acceptance from the call that had
its effect through `held` and the frames of every stream, dead ones included, to
the ledger. `DeliveryStep` has a lemma for each action; `StepMaps` shows of each
that it is a transaction of `GatewayLedger` on a connection the Node did register
(`Connected`: a stream's first frame is its registration) or leaves the ledger's
rows alone. So `DeliveryImplementsLedger`, and the theorems of the ledger hold of
the delivery.

**The order of the log.** `LogFollowsRun` is about a log that streams, two
handlers and two processes fill, and the ledger checks only that the sources of a
request ascend: an event that overtook another would be stored, and the other
refused for good. So the proof says of every place on an event's way that no event
is there before those that precede it in its run have passed (`Follows`):
of the log (`LogInOrder`), of the journal as it would be replayed
(`JournalInOrder`), and of every stream a handler still serves, the dead ones
included (`StreamsInOrder`). `TakeEvent` keeps it because what the task emits next
comes after events that are stored, or are in the journal and on the live stream
(`JournalSent`); a receipt because it takes an event out of the journal that the
log has (`ReceiptOrder`); a new stream because it begins with the journal
(`ConnectOrder`); a crash because it empties the journal, and what the new process
streams starts over at the first event. `OrderInvariant` is inductive relative to
`DeliveryInvariant` (`OrderStep`), and with `SourcesAscend` it gives that the log
has an event once and after all those before it.

**Who may use the Gateway.** In `DeviceAccess`, one owner needs that owners are
admitted by the local commands only and administer while they are active
(`OwnersAdminister`), so that there is none when a first owner is chosen, and that
there is none until the choice ends, although a paired device may come to
administer meanwhile (`OpeningAlone`). In `DevicePairing` the tables agree by themselves
(`RowsAgree` with the types is inductive); `ReplayOnlyAfterLoss` is not: it needs
what an honest client can have on the way. The invariant says that a client that
gave nothing up has at most one call under way, for the token it holds, which was
never used; that a committed confirmation carries the first token of a device
whose client holds none; that a device has a cached answer or a confirmation
under way, not both; and that the owner of an open bootstrap has no row
(`OpeningInvariant`).
The refinement then goes transaction by transaction: each is one step of
`DeviceAccess` for one device, the bootstrap's two halves are `Open` and
`Bootstrap`, and what memory, clients and clock do is none.

**The Bridge.** A mutation is followed from its turn to its rename. `Effect` is
what each operation may do to the rows; the lemmas show of such a change that it
keeps the tables sound (one attempt under way), keeps every fact callers were
told, makes its own answer true and is a step of `BridgeAdmission`.
`BridgeInvariant` says that the clone equals the file, that the memory equals the
file unless a mutation is being written, and that then it is an `Effect` of the
head of the queue on the file. So a crash, a failed write and a rename each leave
a file in which all answers hold.

**The Client.** The four properties of the router hold each other up. That it
rests only when it has caught up (`CaughtUpAtRest`) needs that a stream at rest has
nothing to wait for; that needs that what the router waits for is under way
(`CompletionsExpected`, `LookupsUnderWay`); and those are counts over three queues
that the Client, the request task and the live task change one at a time. So the
properties count positions of queues (`UnderWay`), and lemmas say what a longer, a
shorter and a joined queue adds to a count. `SyncInvariant` adds to them what the
router keeps between frames: only events without a route are held
(`HeldAwaitRoute`); a page whose end came stays open only for events that are held
(`PageHasHeld`); and a page is followed by another or reaches what was recorded
when the stream began (`PageReachesFloor`, `CompletionsReachFloor`). For
`DurableBeforeAck` the commands that ended streams left behind (`late`) count as
well. A frame is handled by a chain of functions on the Client's state, and each
has a lemma, `...Keeps`, that it leaves the balance as it found it or ends the
stream. The events that were held are accepted by a fold (`AcceptHeld`); what it
preserves is proved by an induction over the set of lengths for which it holds
(`Induction`, from `WFMin`), which needs no operator parameter.

**Only model-checked.** `EveryTransactionEnds`, `JournalDrains`,
`DispatchesAnswered` and `EventuallyPublished`: the prover has no rules for
liveness under fairness or for ENABLED. Every other property of a passing run is
stated by a theorem. The runs with an expected violation are findings, and their
properties are false. Induction with the library's theorems is out of reach, since
they take an operator as a parameter; the modules with theorems use no recursive
operator.

## 7 Abstractions, and what is not modelled

- One conversation, one Agent of one Node. Ledger transactions lock the
  conversation's row first or conflict on the rows they share, so they are
  atomic in `GatewayLedger`; where their lock orders differ PostgreSQL may abort
  one of two, which is no step. That lock order is a hazard of its own and is
  planned (`LockOrder`).
- Text, digests, signatures, audit rows, event payloads and the wording of
  errors. Signatures are taken as verified; `AcceptApproval` still requires what
  an active credential requires.
- A repeated rejection is taken to carry the failure code of the first; the code
  refuses one with another code.
- "working" of Hermes stands for messages and tool calls as well: the ledger
  treats them alike except for the state.
- Handshake, protocol 1.0, heartbeats other than as the occasion of a claim, the
  maximum of the output queue (500 frames, then the stream fails: a `Break`), and
  how a Hermes session is resolved before the submission.
- A node process that ends is started again by its host. Errors that are not
  transport failures end it, because the supervisor's loop retries only
  Canceled, Unknown, DeadlineExceeded and Unavailable.
- In ClientSync: the other commands and frames of a stream (leases, interrupts,
  decisions, directory, heartbeats), local submissions and their dispositions,
  the check that an acceptance event is the first of its request (the ledger
  records it so), and event contents: a copy of an event always equals the event.
  A completion is matched by its cursor instead of its command id, of which
  `CompletionsExpected` shows at most one is under way.
- In DevicePairing: a transaction is atomic, but for the bootstrap's read of the
  administrators; a local command's time is that of its read; signatures and nonces are valid and
  new; one number stands for an access token and the refresh token issued with
  it; the rate limit is that of one address; a transaction reads the clock where it
  commits, but a confirmation, which others join, keeps the time it was asked for.
- In BridgePairing: ids, tokens, codes and signatures are right, for any other call
  is refused without a change; a session, its request, device and credential have
  one identity. Certificate pins and their rotation, the reverse proxy and the
  capability manifest are left out.
- `sync` states what holds when a stream rests; that streams come to rest is not
  checked.
- The components in the table of section 1, and the reasons, are listed under
  "components" of `PROJECT.json`; their hazards are listed there too.

## 8 Plan

Done: the control lease, the ledger, the delivery, publication, device access and
the Bridge and the Client's convergence, each with proofs, four of them as
refinements. What is left, in this order:

1. **LockOrder**: the locks of approvals, interrupts, acknowledgements and events
   as multisets of rows, with the aborts of PostgreSQL; every transaction ends or
   is aborted. One run.
2. **HermesSessions** and the session store's write chain within NodeDelivery; the
   overlap of the Bridge's certificate pins.
3. Proofs: of LockOrder, that a transaction's locks are what its checks need; of
   what the second step adds to the delivery, its inductive invariant anew.
