---------------------------- MODULE GatewayLedger ----------------------------
(***************************************************************************)
(* The Gateway's authoritative ledger for one conversation routed to one   *)
(* Agent of one Node: requests, control commands, approvals and            *)
(* clarifications, the dispatch outbox and the conversation's event log.   *)
(*                                                                         *)
(* Each action is one PostgreSQL transaction of services/gateway/src.  A   *)
(* handler that fails rolls back, so it leaves no step behind.  The lease  *)
(* is reduced to `controller', the one device whose lease triple passes    *)
(* the check at this moment (ControlLease has the lease itself).  A client *)
(* makes a command id together with its idempotency key, so one value, the *)
(* key, stands for both.                                                   *)
(***************************************************************************)
EXTENDS Naturals, Sequences

CONSTANTS
  Device, Request, Key, Session,
  Approval, Clarification,  \* identifiers of interactions the Agent may raise
  Scopes,          \* the scopes of each device
  NodeEvent,       \* events a Node may send
  NoRow, NoSession, Nobody, NoItem, NoEventId,
  MaxConnections,  \* bound: registrations of the Node
  MaxEvents        \* bound: length of the event log

Interaction == Approval \cup Clarification
Terminal == {"completed", "failed", "cancelled", "interrupted"}
RequestState == {"accepted", "working"} \cup Terminal

\* Node event types by what the ledger does with them: those that set the
\* request's state, those about an interaction, and the rest.
StateEvent == {"working"} \cup Terminal
InteractionEvent == {"required", "resolved", "expired", "withdrawn"}
EventType == {"accepted", "interrupting", "progress"} \cup StateEvent \cup InteractionEvent

ASSUME ScopeAssumption == Scopes \in [Device -> SUBSET {"send", "interrupt", "approve"}]
ASSUME BoundAssumption == MaxConnections \in Nat /\ MaxEvents \in Nat
ASSUME DisjointAssumption == Approval \cap Clarification = {}
ASSUME EventAssumption ==
  \A e \in NodeEvent :
    /\ DOMAIN e = {"id", "request", "source", "type", "session", "item"}
    /\ e.id # NoEventId /\ e.request \in Request /\ e.source \in Nat \ {0}
    /\ e.session \in Session \cup {NoSession}
    /\ e.type \in EventType \ {"accepted", "interrupting"}
    /\ IF e.type \in InteractionEvent THEN e.item \in Interaction ELSE e.item = NoItem

VARIABLES
  active,        \* devices.status = 'active'
  controller,    \* the device holding an unexpired lease, or Nobody
  session,       \* conversations.session_id
  requests,      \* the rows of requests
  commands,      \* the rows of control_commands
  interactions,  \* the rows of approvals and clarifications
  lapsed,        \* interactions whose expires_at has passed
  outbox,        \* the rows of gateway_dispatch_outbox, by what they dispatch
  events,        \* the events of the conversation, in sequence order
  connection,    \* nodes.current_connection_id: connections count upwards
  agentReady     \* the Agent is online with the route's capability revision

vars == <<active, controller, session, requests, commands, interactions, lapsed,
          outbox, events, connection, agentReady>>

Send(r) == <<"send", r>>
Interrupt(r) == <<"interrupt", r>>
Resolve(i) == <<"resolve", i>>
Dispatch == {Send(r) : r \in Request} \cup {Interrupt(r) : r \in Request}
              \cup {Resolve(i) : i \in Interaction}

RequestRow == [device : Device, key : Key, session : Session \cup {NoSession}, state : RequestState]
CommandRow == [device : Device, key : Key, dispatch : Dispatch,
               state : {"accepted", "delivered", "failed"}]
InteractionState == {"pending", "approved", "rejected", "resolved", "expired", "cancelled"}
InteractionRow == [request : Request, state : InteractionState]
OutboxRow == [state : {"pending", "in_flight", "delivered", "dead"}, lockedBy : 0 .. MaxConnections]

ASSUME RowAssumption == NoRow \notin RequestRow \cup InteractionRow \cup OutboxRow
----------------------------------------------------------------------------
Exists(r) == requests[r] # NoRow
IsTerminal(r) == Exists(r) /\ requests[r].state \in Terminal
IsOpen(r) == Exists(r) /\ ~IsTerminal(r)

\* The request a dispatch belongs to.
RequestOf(x) == IF x[1] = "resolve" THEN interactions[x[2]].request ELSE x[2]

\* allocateConversationSequence and the event and event-outbox rows that every
\* transaction writes with it: the index in the log is the sequence.
Record(id, r, type, source, item) ==
  /\ Len(events) < MaxEvents
  /\ events' = Append(events, [id |-> id, request |-> r, type |-> type,
                               source |-> source, item |-> item])

Enqueue(x) == outbox' = [outbox EXCEPT ![x] = [state |-> "pending", lockedBy |-> 0]]

\* The device and lease checks of every command.
Authorized(d, scope) == active[d] /\ scope \in Scopes[d] /\ controller = d

\* acceptRequest: the submitted route must be the conversation's, its session
\* included.  A key already bound, to this request or another, changes nothing.
AcceptRequest(d, r, k, submitted) ==
  /\ \A q \in Request : Exists(q) => <<requests[q].device, requests[q].key>> # <<d, k>>
  /\ ~Exists(r)
  /\ Authorized(d, "send")
  /\ submitted = session
  /\ agentReady
  /\ requests' = [requests EXCEPT ![r] =
       [device |-> d, key |-> k, session |-> session, state |-> "accepted"]]
  /\ Record(NoEventId, r, "accepted", 0, NoItem)
  /\ Enqueue(Send(r))
  /\ UNCHANGED <<active, controller, session, commands, interactions, lapsed, connection, agentReady>>

\* The command id of a control command is new, among control commands of every
\* device and among the device's own sends.
FreshCommand(d, k) ==
  /\ \A c \in commands : c.key # k
  /\ \A q \in Request : Exists(q) => <<requests[q].device, requests[q].key>> # <<d, k>>

AddCommand(d, k, x) ==
  commands' = commands \cup {[device |-> d, key |-> k, dispatch |-> x, state |-> "accepted"]}

\* acceptInterruptCommand: one interrupt per request, ever.  The request's state
\* stays; only the event says that it is being interrupted.
AcceptInterrupt(d, r, k) ==
  /\ FreshCommand(d, k)
  /\ Authorized(d, "interrupt")
  /\ IsOpen(r)
  /\ \A c \in commands : c.dispatch # Interrupt(r)
  /\ AddCommand(d, k, Interrupt(r))
  /\ Record(NoEventId, r, "interrupting", 0, NoItem)
  /\ Enqueue(Interrupt(r))
  /\ UNCHANGED <<active, controller, session, requests, interactions, lapsed, connection, agentReady>>

IsPending(i) == interactions[i] # NoRow /\ interactions[i].state = "pending"

SetInteraction(i, state) == interactions' = [interactions EXCEPT ![i].state = state]

\* A decision on an interaction.  Past its expiry the transaction records the
\* expiry and commits it, and the command fails afterwards.
DecideInteraction(d, i, k, decision) ==
  /\ FreshCommand(d, k)
  /\ IsPending(i)
  /\ IsOpen(interactions[i].request)
  /\ IF i \in lapsed
     THEN SetInteraction(i, "expired") /\ UNCHANGED <<commands, outbox>>
     ELSE /\ SetInteraction(i, decision)
          /\ AddCommand(d, k, Resolve(i))
          /\ Enqueue(Resolve(i))
  /\ UNCHANGED <<active, controller, session, requests, lapsed, events, connection, agentReady>>

\* acceptApprovalCommand; the signing credential is active while its device is.
AcceptApproval(d, a, k, decision) ==
  /\ Authorized(d, "approve")
  /\ DecideInteraction(d, a, k, decision)

\* acceptClarificationCommand needs the scope of a send, not of an approval.
AcceptClarification(d, q, k) ==
  /\ Authorized(d, "send")
  /\ DecideInteraction(d, q, k, "resolved")
----------------------------------------------------------------------------
\* registerNode: the newest registration owns the Node's rows; nothing marks the
\* Node offline when a stream ends.
RegisterNode(ready) ==
  /\ connection < MaxConnections
  /\ connection' = connection + 1
  /\ agentReady' = ready
  /\ UNCHANGED <<active, controller, session, requests, commands, interactions,
                 lapsed, outbox, events>>

\* Mutant of Claimable: what another connection claimed is not claimed again.
ClaimableOnce(c) ==
  {x \in Dispatch :
     /\ outbox[x] # NoRow /\ outbox[x].state = "pending"
     /\ requests[RequestOf(x)].session = session}

\* The rows claimDispatches selects: never sent, or sent on another connection,
\* while the request's route is still the conversation's.
Claimable(c) ==
  {x \in Dispatch :
     /\ outbox[x] # NoRow
     /\ outbox[x].state = "pending" \/ (outbox[x].state = "in_flight" /\ outbox[x].lockedBy # c)
     /\ requests[RequestOf(x)].session = session}

ClaimDispatches(c) ==
  /\ c = connection /\ agentReady
  /\ Claimable(c) # {}
  /\ outbox' = [x \in Dispatch |-> IF x \in Claimable(c)
                                   THEN [state |-> "in_flight", lockedBy |-> c]
                                   ELSE outbox[x]]
  /\ UNCHANGED <<active, controller, session, requests, commands, interactions,
                 lapsed, events, connection, agentReady>>

\* Mutant of MayReject: the request's state is not looked at.
MayAlwaysReject(x) == TRUE

\* A send is rejected only while its request is open.
MayReject(x) == x[1] # "send" \/ ~IsTerminal(x[2])

\* What acknowledgeDispatch does with an acknowledgement of x on connection c.
AckOutcome(c, x, accepted) ==
  IF outbox[x] = NoRow \/ c # connection THEN "refused"
  ELSE IF outbox[x].state = "delivered" THEN (IF accepted THEN "repeated" ELSE "refused")
  ELSE IF outbox[x].state = "dead" THEN (IF accepted THEN "refused" ELSE "repeated")
  ELSE IF accepted THEN "delivered"
  ELSE IF MayReject(x) THEN "dead" ELSE "refused"

\* Mutant of FollowCommand: the command row is forgotten.
LeaveCommand(x, state) == UNCHANGED commands

\* The command row follows its dispatch.
FollowCommand(x, state) ==
  commands' = {IF c.dispatch = x THEN [c EXCEPT !.state = state] ELSE c : c \in commands}

FinishDispatch(x, state) == outbox' = [outbox EXCEPT ![x] = [state |-> state, lockedBy |-> 0]]

\* acknowledgeDispatch.  A rejected send fails its request and records the
\* failure event; a rejected control dispatch only fails its command.
AcknowledgeDispatch(c, x, accepted) ==
  /\ CASE AckOutcome(c, x, accepted) = "delivered" ->
            /\ FinishDispatch(x, "delivered")
            /\ FollowCommand(x, "delivered")
            /\ UNCHANGED <<requests, events>>
       [] AckOutcome(c, x, accepted) = "dead" ->
            /\ FinishDispatch(x, "dead")
            /\ FollowCommand(x, "failed")
            /\ IF x[1] = "send"
               THEN /\ requests' = [requests EXCEPT ![x[2]].state = "failed"]
                    /\ Record(NoEventId, x[2], "failed", 0, NoItem)
               ELSE UNCHANGED <<requests, events>>
       [] OTHER -> FALSE
  /\ UNCHANGED <<active, controller, session, interactions, lapsed, connection, agentReady>>
----------------------------------------------------------------------------
\* The conversation's session once event e is applied: the first session a Node
\* reports is bound to the conversation.
BoundSession(e) == IF session = NoSession THEN e.session ELSE session

\* Mutant of InteractionAllows: an expiry or withdrawal of a decided interaction.
AllowsDecided(e) ==
  e.type \in {"resolved", "expired", "withdrawn"} =>
    interactions[e.item] # NoRow /\ interactions[e.item].request = e.request

\* What the interaction of e requires of its row.
InteractionAllows(e) ==
  CASE e.type = "required" -> interactions[e.item] = NoRow
    [] e.type = "resolved" ->
         /\ interactions[e.item] # NoRow /\ interactions[e.item].request = e.request
         /\ interactions[e.item].state \in {"approved", "rejected", "resolved"}
    [] e.type \in {"expired", "withdrawn"} ->
         IsPending(e.item) /\ interactions[e.item].request = e.request
    [] OTHER -> TRUE

SourceIsNew(e) ==
  \A n \in DOMAIN events : events[n].request = e.request => events[n].source < e.source

\* The checks of ingestNodeEvent on an event it has not stored yet.
Current(c, e) ==
  /\ session # NoSession => requests[e.request].session = session
  /\ BoundSession(e) = e.session
  /\ c = connection
  /\ SourceIsNew(e)
  /\ InteractionAllows(e)

\* Mutant of Storable: the request may have ended.
StorableAfterEnd(c, e) == Exists(e.request) /\ Current(c, e)

Storable(c, e) == IsOpen(e.request) /\ Current(c, e)

\* What onEvent and ingestNodeEvent do with e on connection c.  The expiry of a
\* required interaction is tested before the event is looked up.
EventOutcome(c, e) ==
  LET stored == {n \in DOMAIN events : events[n].id = e.id} IN
  IF e.type = "required" /\ e.item \in lapsed THEN "refused"
  ELSE IF stored # {} THEN
    IF c = connection /\ \A n \in stored :
         <<events[n].request, events[n].type, events[n].source, events[n].item>> =
         <<e.request, e.type, e.source, e.item>>
    THEN "repeated" ELSE "refused"
  ELSE IF Storable(c, e) THEN "stored" ELSE "refused"

\* Mutant of BindOpenRequests: only the event's own request is bound.
BindOwnRequest(e) ==
  IF session = NoSession THEN [requests EXCEPT ![e.request].session = e.session] ELSE requests

\* requests after e: every open request without a session takes the bound one,
\* and the event's own request takes the state e reports.
BindOpenRequests(e) ==
  [r \in Request |->
    IF IsOpen(r) /\ session = NoSession /\ requests[r].session = NoSession
    THEN [requests[r] EXCEPT !.session = e.session] ELSE requests[r]]

\* Mutant of RequestsAfter: every event type is taken for a state.
RequestsTakeType(e) == [BindOpenRequests(e) EXCEPT ![e.request].state = e.type]

RequestsAfter(e) ==
  IF e.type \in StateEvent
  THEN [BindOpenRequests(e) EXCEPT ![e.request].state = e.type]
  ELSE BindOpenRequests(e)

StateOfItem(e) ==
  CASE e.type = "expired" -> "expired"
    [] e.type = "withdrawn" -> "cancelled"
    [] e.type = "resolved" -> interactions[e.item].state
    [] OTHER -> "pending"

\* Mutant of CancelPending: it cancels decided interactions too.
CancelAll(r) ==
  [i \in Interaction |->
    IF interactions[i] # NoRow /\ interactions[i].request = r
    THEN [interactions[i] EXCEPT !.state = "cancelled"] ELSE interactions[i]]

\* A terminal event cancels what its request still waits for, and only that.
CancelPending(r) ==
  [i \in Interaction |->
    IF IsPending(i) /\ interactions[i].request = r
    THEN [interactions[i] EXCEPT !.state = "cancelled"] ELSE interactions[i]]

InteractionsAfter(e) ==
  IF e.type \in Terminal THEN CancelPending(e.request)
  ELSE IF e.type \in InteractionEvent
  THEN [interactions EXCEPT ![e.item] = [request |-> e.request, state |-> StateOfItem(e)]]
  ELSE interactions

IngestNodeEvent(c, e) ==
  /\ EventOutcome(c, e) = "stored"
  /\ session' = BoundSession(e)
  /\ requests' = RequestsAfter(e)
  /\ interactions' = InteractionsAfter(e)
  /\ Record(e.id, e.request, e.type, e.source, e.item)
  /\ UNCHANGED <<active, controller, commands, lapsed, outbox, connection, agentReady>>
----------------------------------------------------------------------------
\* The lease changes hands, expires or is lost (ControlLease).
ChangeController ==
  /\ controller' \in Device \cup {Nobody}
  /\ UNCHANGED <<active, session, requests, commands, interactions, lapsed,
                 outbox, events, connection, agentReady>>

RevokeDevice(d) ==
  /\ active[d]
  /\ active' = [active EXCEPT ![d] = FALSE]
  /\ UNCHANGED <<controller, session, requests, commands, interactions, lapsed,
                 outbox, events, connection, agentReady>>

\* Time passes the expiry of an interaction.
Lapse(i) ==
  /\ i \notin lapsed
  /\ lapsed' = lapsed \cup {i}
  /\ UNCHANGED <<active, controller, session, requests, commands, interactions,
                 outbox, events, connection, agentReady>>

Init ==
  /\ active = [d \in Device |-> TRUE]
  /\ controller = Nobody
  /\ session = NoSession
  /\ requests = [r \in Request |-> NoRow]
  /\ commands = {}
  /\ interactions = [i \in Interaction |-> NoRow]
  /\ lapsed = {}
  /\ outbox = [x \in Dispatch |-> NoRow]
  /\ events = <<>>
  /\ connection = 0
  /\ agentReady = FALSE

ClientCommand(d) ==
  \/ \E r \in Request, k \in Key, s \in Session \cup {NoSession} : AcceptRequest(d, r, k, s)
  \/ \E r \in Request, k \in Key : AcceptInterrupt(d, r, k)
  \/ \E a \in Approval, k \in Key, v \in {"approved", "rejected"} : AcceptApproval(d, a, k, v)
  \/ \E q \in Clarification, k \in Key : AcceptClarification(d, q, k)

\* A frame of any connection the Node ever registered, the current one or not.
NodeFrame(c) ==
  \/ ClaimDispatches(c)
  \/ \E x \in Dispatch, accepted \in BOOLEAN : AcknowledgeDispatch(c, x, accepted)
  \/ \E e \in NodeEvent : IngestNodeEvent(c, e)

Environment ==
  \/ \E ready \in BOOLEAN : RegisterNode(ready)
  \/ ChangeController
  \/ \E d \in Device : RevokeDevice(d)
  \/ \E i \in Interaction : Lapse(i)

Next ==
  \/ \E d \in Device : ClientCommand(d)
  \/ \E c \in 1 .. connection : NodeFrame(c)
  \/ Environment

Spec == Init /\ [][Next]_vars
----------------------------------------------------------------------------
TypeOK ==
  /\ active \in [Device -> BOOLEAN]
  /\ controller \in Device \cup {Nobody}
  /\ session \in Session \cup {NoSession}
  /\ requests \in [Request -> RequestRow \cup {NoRow}]
  /\ commands \subseteq CommandRow
  /\ interactions \in [Interaction -> InteractionRow \cup {NoRow}]
  /\ lapsed \subseteq Interaction
  /\ outbox \in [Dispatch -> OutboxRow \cup {NoRow}]
  /\ connection \in 0 .. MaxConnections
  /\ agentReady \in BOOLEAN

EventsOf(r) == {n \in DOMAIN events : events[n].request = r}

\* The log and the request's state never disagree: an open request has no
\* terminal event, a terminal one has exactly one, of that state and after all
\* its others, whether a Node event or a rejected dispatch ended it.
OneTerminalEvent ==
  \A r \in Request : \A n \in EventsOf(r) :
    /\ Exists(r)
    /\ events[n].type \in Terminal => requests[r].state = events[n].type
    /\ IsTerminal(r) => (events[n].type \in Terminal <=> \A m \in EventsOf(r) : m <= n)

\* A terminal request is frozen: late acknowledgements, commands, session
\* binding and events leave its row and its part of the log as they are.
TerminalIsFinal ==
  [][\A r \in Request : IsTerminal(r) =>
       /\ requests'[r] = requests[r]
       /\ EventsOf(r)' = EventsOf(r)]_vars

\* What was decided stays: neither a Node event, an expiry nor the end of the
\* request rewrites a final interaction, and no late or contradicting
\* acknowledgement the answer recorded for a dispatch.
OutcomesFinal ==
  [][/\ \A i \in Interaction :
          interactions[i] # NoRow /\ ~IsPending(i) => interactions'[i] = interactions[i]
     /\ \A x \in Dispatch :
          outbox[x] # NoRow /\ outbox[x].state \in {"delivered", "dead"} => outbox'[x] = outbox[x]]_vars

\* Exactly the decisions a user made are dispatched to the Node: no expired or
\* cancelled interaction has a dispatch, and no decision lacks one.
DecisionsDispatched ==
  \A i \in Interaction :
    outbox[Resolve(i)] # NoRow <=>
      interactions[i] # NoRow /\ interactions[i].state \in {"approved", "rejected", "resolved"}

\* Every open request carries the conversation's session, so that its dispatch
\* can be claimed and its events pass the route check, whenever it was accepted
\* relative to the binding of the session.
OpenRequestsRoutable ==
  \A r \in Request : IsOpen(r) => requests[r].session = session

\* The rows a dispatch's answer concerns agree: its command says the same as the
\* dispatch, and a send the Node refused is a failed request.
AcknowledgementsAgree ==
  /\ \A c \in commands :
       c.state = CASE outbox[c.dispatch].state = "delivered" -> "delivered"
                   [] outbox[c.dispatch].state = "dead" -> "failed"
                   [] OTHER -> "accepted"
  /\ \A r \in Request :
       outbox[Send(r)] # NoRow /\ outbox[Send(r)].state = "dead" => requests[r].state = "failed"
=============================================================================
