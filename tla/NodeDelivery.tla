---------------------------- MODULE NodeDelivery ----------------------------
(***************************************************************************)
(* A Node's Hermes connector between the Gateway's ledger and Hermes: the  *)
(* ConnectNode stream and its reconnections, dispatches delivered at least *)
(* once, acknowledgements, and the journal of events kept until receipt.   *)
(*                                                                         *)
(* The ledger's variables and handlers are those of GatewayLedger.  Each   *)
(* stream is a queue of frames each way, served in order; a break loses    *)
(* what was still in transit, and the Gateway may go on serving what had   *)
(* already arrived.  The node process may exit at any point, with all it   *)
(* keeps in memory; a supervisor of the host starts it again.  Handshake,  *)
(* protocol 1.0 and the maximum of the output queue are left out.          *)
(*                                                                         *)
(* Hermes is external: it keeps one run per Idempotency-Key, numbers the   *)
(* run's events and streams them to whoever asks, from the first or from   *)
(* the last one a consumer names.                                          *)
(***************************************************************************)
EXTENDS GatewayLedger, FiniteSets, SequencesExt

CONSTANTS
  NoRun,
  MaxNative,    \* bound: events of one Hermes run
  MaxJournal,   \* maximumPendingEventFrames
  Resumes,      \* Hermes has the capabilities replay and sequenceRecovery
  MaxResumes,   \* resume attempts in a row (3 in the code)
  MaxRestarts   \* bound: crashes of the node process

ASSUME DeliveryAssumption ==
  /\ MaxNative \in Nat /\ MaxJournal \in Nat \ {0} /\ MaxRestarts \in Nat
  /\ Resumes \in BOOLEAN /\ MaxResumes \in Nat
  /\ IsFiniteSet(Dispatch)

VARIABLES
  \* Hermes
  run,         \* the events of the run begun for each request, or NoRun
  done,        \* the stops and approval decisions that reached Hermes
  \* the node process, all of it lost when it exits
  task,        \* #dispatchStates and the progress of #send, by request
  read,        \* how many of the run's events #stream has taken
  last,        \* lastSequence of each run
  tries,       \* consecutiveResumeAttempts
  runs,        \* #runs
  journal,     \* #pendingEvents in insertion order
  waiting,     \* requests whose last event waits in #emit for an output
  calls,       \* how many stop or approval calls to Hermes are open
  held,        \* acknowledgements waiting in #emit for an output
  submissions, \* history: calls of startRun by this process
  \* streams, numbered as the node opens them
  stream,      \* the newest one, 0 before the first
  live,        \* the connector's output is active on it
  up, down,    \* frames on their way to the Gateway and to the node
  registered,  \* the connection each stream registered as, 0 before
  serving,     \* the streams whose handler runs at the Gateway
  crashes

hermesVars == <<run, done>>
process == <<task, read, last, tries, runs, journal, waiting, calls, held, submissions>>
streams == <<stream, live, up, down, registered, serving>>
deliveryVars == <<vars, hermesVars, process, streams, crashes>>

Stream == 1 .. MaxConnections

\* Frames: a registration, an acknowledgement or an event one way; dispatches,
\* receipts and the error that ends a stream the other way.
Registration == [kind |-> "registration"]
Ack(x, accepted) == [kind |-> "ack", dispatch |-> x, accepted |-> accepted]
EventFrame(e) == [kind |-> "event", event |-> e]
Deliver(x) == [kind |-> "dispatch", dispatch |-> x]
Receipt(e) == [kind |-> "receipt", event |-> e]
StreamError == [kind |-> "error"]
----------------------------------------------------------------------------
\* An event of a run under its source sequence.  Its id derives from the run and
\* from Hermes's own numbering, here the sequence.
NodeEventAt(r, n, type, item) ==
  [id |-> <<r, n>>, request |-> r, source |-> n, type |-> type,
   session |-> NoSession, item |-> item]

\* A connection.lost event the node adds itself, with an id of its own kind.
Supplement(r, n, kind) ==
  [NodeEventAt(r, n, "progress", NoItem) EXCEPT !.id = <<r, n, kind>>]

\* The events of one connector: those Hermes may report and its own.
Content == ({"required", "resolved", "expired"} \X Approval)
             \cup ({"working", "completed", "interrupted"} \X {NoItem})
NativeEvent ==
  {NodeEventAt(r, 2 * n, c[1], c[2]) : r \in Request, n \in 1 .. MaxNative, c \in Content}
OwnEvent ==
  {Supplement(r, n, kind) : r \in Request, n \in 1 .. 2 * (MaxNative + MaxResumes) + 2,
                            kind \in {"uncertain", "lost", "failed"}}
ConnectorEvent == NativeEvent \cup OwnEvent

\* They are events a Node may send, and no run is NoRun.
ASSUME ConnectorAssumption == ConnectorEvent \subseteq NodeEvent
ASSUME RunAssumption == NoRun \notin Seq(NativeEvent)

HasRun(r) == run[r] # NoRun
RunEnded(r) == \E k \in DOMAIN run[r] : run[r][k].type \in Terminal
Raised(i) == \E r \in Request : HasRun(r) /\ \E k \in DOMAIN run[r] : run[r][k].item = i
OpenIn(r, i) ==
  /\ \E k \in DOMAIN run[r] : run[r][k].item = i
  /\ \A k \in DOMAIN run[r] : run[r][k].item = i => run[r][k].type = "required"

\* What a run that has not ended may report next; "working" stands for messages
\* and tools as well.
Reports(r) ==
  {<<"required", i>> : i \in {j \in Approval : ~Raised(j)}}
    \cup {<<"resolved", i>> : i \in {j \in Approval : OpenIn(r, j) /\ Resolve(j) \in done}}
    \cup {<<"expired", i>> : i \in {j \in Approval : OpenIn(r, j) /\ Resolve(j) \notin done}}
    \cup {<<"working", NoItem>>, <<"completed", NoItem>>}
    \cup (IF Interrupt(r) \in done THEN {<<"interrupted", NoItem>>} ELSE {})

\* The native sequence is doubled, which leaves the odd numbers to supplements.
HermesReports(r) ==
  /\ HasRun(r) /\ ~RunEnded(r) /\ Len(run[r]) < MaxNative
  /\ \E e \in Reports(r) :
       run' = [run EXCEPT ![r] = Append(@, NodeEventAt(r, 2 * (Len(@) + 1), e[1], e[2]))]
  /\ UNCHANGED <<vars, done, process, streams, crashes>>
----------------------------------------------------------------------------
\* Frames written while the output is active join the stream's queue.
Write(frames) == up' = [up EXCEPT ![stream] = @ \o frames]

\* Mutant of EmitEvent: only what cannot be written at once is journaled.
EmitUnretained(e) ==
  IF live THEN Write(<<EventFrame(e)>>) /\ UNCHANGED <<journal, waiting>>
  ELSE journal' = Append(journal, e) /\ waiting' = waiting \cup {e.request} /\ UNCHANGED up

\* An event is journaled before it is written.  With no output it is written when
\* the next stream replays the journal, and until then its run waits.
EmitEvent(e) ==
  /\ journal' = Append(journal, e)
  /\ IF live THEN Write(<<EventFrame(e)>>) /\ UNCHANGED waiting
     ELSE waiting' = waiting \cup {e.request} /\ UNCHANGED up

\* Mutants of Replay: newest first, and nothing.
ReplayReversed == [k \in DOMAIN journal |-> EventFrame(Reverse(journal)[k])]
ReplayNothing == <<>>

\* #activateOutput after a handshake: the registration, then the journal again.
Replay == [k \in DOMAIN journal |-> EventFrame(journal[k])]

Connect ==
  /\ ~live /\ stream < MaxConnections
  /\ stream' = stream + 1 /\ live' = TRUE
  /\ up' = [up EXCEPT ![stream + 1] = <<Registration>> \o Replay]
  /\ serving' = serving \cup {stream + 1}
  /\ waiting' = {}
  /\ UNCHANGED <<vars, hermesVars, task, read, last, tries, runs, journal, calls, held,
                 submissions, down, registered, crashes>>

\* Mutant of LoseStream: what was on its way to the node still arrives.
LoseOutput ==
  /\ live' = FALSE
  /\ UNCHANGED <<stream, up, down, registered, serving>>

\* The stream is gone for the node, and what was on its way to it.  The Gateway
\* serves what it received until HandlerEnds.
LoseStream ==
  /\ live' = FALSE /\ down' = <<>>
  /\ UNCHANGED <<stream, up, registered, serving>>

\* A transport failure, or a restart of the Gateway.
Break ==
  /\ live /\ stream < MaxConnections
  /\ LoseStream
  /\ UNCHANGED <<vars, hermesVars, process, crashes>>

\* The process exits and starts again with nothing but the session store.
Restart ==
  /\ task' = [r \in Request |-> "none"] /\ read' = [r \in Request |-> 0]
  /\ last' = [r \in Request |-> 0] /\ tries' = [r \in Request |-> 0]
  /\ runs' = {} /\ journal' = <<>> /\ waiting' = {} /\ held' = {}
  /\ calls' = [x \in Dispatch |-> 0] /\ submissions' = [r \in Request |-> 0]
  /\ LoseStream

Crash ==
  /\ crashes < MaxRestarts /\ stream < MaxConnections
  /\ crashes' = crashes + 1
  /\ Restart
  /\ UNCHANGED <<vars, hermesVars>>
----------------------------------------------------------------------------
\* Mutant of MaySubmit: an uncertain submission is tried again.
MaySubmitAgain(r) == task[r] \in {"none", "uncertain"}

MaySubmit(r) == task[r] = "none"

\* #send on a dispatch it has not seen begins a submission; on one it answered
\* it repeats the answer; on one in progress or uncertain it does nothing.
TakeSend(r) ==
  /\ CASE MaySubmit(r) ->
            /\ task' = [task EXCEPT ![r] = "starting"]
            /\ submissions' = [submissions EXCEPT ![r] = @ + 1]
            /\ UNCHANGED held
       [] task[r] \in {"accepted", "streaming", "ended"} ->
            held' = held \cup {Ack(Send(r), TRUE)} /\ UNCHANGED <<task, submissions>>
       [] task[r] = "rejected" ->
            held' = held \cup {Ack(Send(r), FALSE)} /\ UNCHANGED <<task, submissions>>
       [] OTHER -> UNCHANGED <<task, submissions, held>>
  /\ UNCHANGED calls

\* The approvals the process has seen in run r.
Known(r) == {run[r][k].item : k \in 1 .. read[r]}

\* #interrupt needs the run, #approval also the unexpired approval; nothing
\* handles a clarification.
Callable(x) ==
  \/ x[1] = "interrupt" /\ x[2] \in runs
  \/ /\ x[1] = "resolve" /\ x[2] \in Approval \ lapsed
     /\ RequestOf(x) \in runs /\ x[2] \in Known(RequestOf(x))

TakeControl(x) ==
  /\ IF Callable(x) THEN calls' = [calls EXCEPT ![x] = @ + 1] /\ UNCHANGED held
     ELSE held' = held \cup {Ack(x, FALSE)} /\ UNCHANGED calls
  /\ UNCHANGED <<task, submissions>>

\* #acknowledgeEvent: the event leaves the journal, and its run #runs with the
\* receipt of its terminal event.
TakeReceipt(e) ==
  /\ \E k \in DOMAIN journal : journal[k] = e /\ journal' = RemoveAt(journal, k)
  /\ runs' = IF e.type \in Terminal THEN runs \ {e.request} ELSE runs
  /\ UNCHANGED <<task, read, last, tries, waiting, calls, held, submissions>>

\* A stream error other than a transport failure ends the process, and so does
\* a receipt for an event that is not pending.
Fatal(frame) ==
  frame.kind = "error" \/ (frame.kind = "receipt" /\ ~Contains(journal, frame.event))

NodeReceives ==
  /\ live /\ down # <<>>
  /\ LET frame == Head(down) IN
       IF Fatal(frame) THEN Restart
       ELSE /\ IF frame.kind = "receipt" THEN TakeReceipt(frame.event)
               ELSE /\ IF frame.dispatch[1] = "send" THEN TakeSend(frame.dispatch[2])
                       ELSE TakeControl(frame.dispatch)
                    /\ UNCHANGED <<read, last, tries, runs, journal, waiting>>
            /\ down' = Tail(down)
            /\ UNCHANGED <<stream, live, up, registered, serving>>
  /\ UNCHANGED <<vars, hermesVars, crashes>>

\* An acknowledgement that waited for an output is written; #send goes on to
\* stream the run's events once its acknowledgement is.
SendAck(f) ==
  /\ live /\ f \in held
  /\ held' = held \ {f}
  /\ Write(<<f>>)
  /\ task' = [r \in Request |-> IF f = Ack(Send(r), TRUE) /\ task[r] = "accepted"
                                THEN "streaming" ELSE task[r]]
  /\ UNCHANGED <<vars, hermesVars, read, last, tries, runs, journal, waiting, calls, submissions,
                 stream, live, down, registered, serving, crashes>>
----------------------------------------------------------------------------
\* Hermes receives the submission; the same key never begins a second run.
HermesBegins(r) ==
  /\ task[r] = "starting"
  /\ task' = [task EXCEPT ![r] = "begun"]
  /\ run' = IF HasRun(r) THEN run ELSE [run EXCEPT ![r] = <<>>]
  /\ UNCHANGED <<vars, done, read, last, tries, runs, journal, waiting, calls, held, submissions, streams, crashes>>

\* startRun returns the run.
Submitted(r) ==
  /\ task[r] = "begun"
  /\ task' = [task EXCEPT ![r] = "accepted"]
  /\ runs' = runs \cup {r}
  /\ held' = held \cup {Ack(Send(r), TRUE)}
  /\ UNCHANGED <<vars, hermesVars, read, last, tries, journal, waiting, calls, submissions, streams, crashes>>

\* startRun fails with an HTTP status (or the route check fails before it).
Refused(r) ==
  /\ task[r] = "starting"
  /\ task' = [task EXCEPT ![r] = "rejected"]
  /\ held' = held \cup {Ack(Send(r), FALSE)}
  /\ UNCHANGED <<vars, hermesVars, read, last, tries, runs, journal, waiting, calls, submissions, streams, crashes>>

\* Mutant of CanEmit: nothing waits for room in the journal.
AlwaysEmit == TRUE

\* An event waits in #emit while the journal is full.
CanEmit == Len(journal) < MaxJournal

\* It fails otherwise: nobody knows whether the run began.
Uncertain(r) ==
  /\ task[r] \in {"starting", "begun"}
  /\ CanEmit
  /\ task' = [task EXCEPT ![r] = "uncertain"]
  /\ EmitEvent(Supplement(r, 1, "uncertain"))
  /\ UNCHANGED <<vars, hermesVars, read, last, tries, runs, calls, held, submissions,
                 stream, live, down, registered, serving, crashes>>

\* #stream takes event e of run r.
Take(r, e) ==
  /\ EmitEvent(e)
  /\ task' = [task EXCEPT ![r] = IF e.type \in Terminal THEN "ended" ELSE @]
  /\ read' = [read EXCEPT ![r] = @ + 1]
  /\ last' = [last EXCEPT ![r] = e.source]
  /\ tries' = [tries EXCEPT ![r] = 0]
  /\ UNCHANGED <<vars, hermesVars, runs, calls, held, submissions,
                 stream, live, down, registered, serving, crashes>>

\* #stream is running for r and not waiting in #emit.
Streaming(r) == task[r] = "streaming" /\ r \notin waiting

\* The run's next event, which must advance the sequence.
TakeEvent(r) ==
  /\ Streaming(r) /\ read[r] < Len(run[r])
  /\ CanEmit
  /\ run[r][read[r] + 1].source > last[r]
  /\ Take(r, run[r][read[r] + 1])

\* nextSyntheticSequence: the next odd number.
Synthetic(n) == IF n % 2 = 0 THEN n + 1 ELSE n + 2

\* The transport of the event stream breaks.  A supplement says so; with a cursor
\* and the capabilities for it #stream asks Hermes to go on after it, up to
\* MaxResumes times without an event in between.
StreamDisconnects(r) ==
  /\ Streaming(r)
  /\ CanEmit
  /\ LET n == Synthetic(last[r]) IN
       EmitEvent(Supplement(r, n, "lost")) /\ last' = [last EXCEPT ![r] = n]
  /\ IF Resumes /\ read[r] > 0 /\ tries[r] < MaxResumes
     THEN tries' = [tries EXCEPT ![r] = @ + 1] /\ UNCHANGED task
     ELSE task' = [task EXCEPT ![r] = "ended"] /\ UNCHANGED tries
  /\ UNCHANGED <<vars, hermesVars, read, runs, calls, held, submissions,
                 stream, live, down, registered, serving, crashes>>

\* It fails otherwise, by an HTTP error, by malformed data or by an event that
\* does not advance the sequence: a supplement says so and #stream ends.
StreamFails(r) ==
  /\ Streaming(r)
  /\ CanEmit
  /\ EmitEvent(Supplement(r, last[r] + 1, "failed"))
  /\ task' = [task EXCEPT ![r] = "ended"]
  /\ UNCHANGED <<vars, hermesVars, read, last, tries, runs, calls, held, submissions,
                 stream, live, down, registered, serving, crashes>>

\* Mutant of FinishCall: the acknowledgement does not follow the call's result.
FinishCallBlindly(x, accepted) ==
  /\ calls[x] > 0
  /\ calls' = [calls EXCEPT ![x] = @ - 1]
  /\ done' \in {done, done \cup {x}}
  /\ held' = held \cup {Ack(x, accepted)}
  /\ UNCHANGED <<vars, run, task, read, last, tries, runs, journal, waiting, submissions, streams, crashes>>

\* A stop or approval call ends; one that fails may have had its effect.
FinishCall(x, accepted) ==
  /\ calls[x] > 0
  /\ calls' = [calls EXCEPT ![x] = @ - 1]
  /\ done' = done \cup {x} \/ (~accepted /\ done' = done)
  /\ held' = held \cup {Ack(x, accepted)}
  /\ UNCHANGED <<vars, run, task, read, last, tries, runs, journal, waiting, submissions, streams, crashes>>
----------------------------------------------------------------------------
\* What the Gateway's handler of stream n yields; a dead stream swallows it.
Yield(n, frames) == down' = IF live /\ n = stream THEN down \o frames ELSE down

\* The handler takes its next frame.
Dequeue(n) == up' = [up EXCEPT ![n] = Tail(@)]

\* A refusal ends stream n with an error that is not a transport failure.
EndStream(n) ==
  /\ serving' = serving \ {n}
  /\ up' = [up EXCEPT ![n] = <<>>]
  /\ Yield(n, <<StreamError>>)
  /\ UNCHANGED vars

\* The Gateway's handler of stream n: connectNode and the node handlers.
Register(n) ==
  /\ RegisterNode(TRUE)
  /\ registered' = [registered EXCEPT ![n] = connection + 1]
  /\ Dequeue(n)
  /\ UNCHANGED <<down, serving>>

TakeAck(n, f) ==
  LET outcome == AckOutcome(registered[n], f.dispatch, f.accepted) IN
  /\ \/ /\ outcome \in {"delivered", "dead"}
        /\ AcknowledgeDispatch(registered[n], f.dispatch, f.accepted)
        /\ Dequeue(n) /\ UNCHANGED <<down, serving>>
     \/ outcome = "repeated" /\ Dequeue(n) /\ UNCHANGED <<vars, down, serving>>
     \/ outcome = "refused" /\ EndStream(n)
  /\ UNCHANGED registered

TakeNodeEvent(n, e) ==
  LET outcome == EventOutcome(registered[n], e) IN
  /\ \/ /\ outcome = "stored"
        /\ IngestNodeEvent(registered[n], e)
        /\ Dequeue(n) /\ Yield(n, <<Receipt(e)>>) /\ UNCHANGED serving
     \/ outcome = "repeated" /\ Dequeue(n) /\ Yield(n, <<Receipt(e)>>) /\ UNCHANGED <<vars, serving>>
     \/ outcome = "refused" /\ EndStream(n)
  /\ UNCHANGED registered

GatewayServes(n) ==
  /\ n \in serving /\ up[n] # <<>>
  /\ LET f == Head(up[n]) IN
       CASE f.kind = "registration" -> Register(n)
         [] f.kind = "ack" -> TakeAck(n, f)
         [] f.kind = "event" -> TakeNodeEvent(n, f.event)
  /\ UNCHANGED <<hermesVars, process, stream, live, crashes>>

\* The claim after a registration and on every heartbeat: dispatches of one
\* request come in any order.
GatewayClaims(n) ==
  /\ n \in serving /\ registered[n] # 0
  /\ ClaimDispatches(registered[n])
  /\ \E order \in SetToSeqs(Claimable(registered[n])) :
       Yield(n, [k \in DOMAIN order |-> Deliver(order[k])])
  /\ UNCHANGED <<hermesVars, process, stream, live, up, registered, serving, crashes>>

\* The handler of a dead stream notices, at any point, and drops the rest.
HandlerEnds(n) ==
  /\ n \in serving /\ ~(live /\ n = stream)
  /\ serving' = serving \ {n}
  /\ up' = [up EXCEPT ![n] = <<>>]
  /\ UNCHANGED <<vars, hermesVars, process, stream, live, down, registered, crashes>>
----------------------------------------------------------------------------
\* One device keeps the lease; approvals lapse once Hermes has raised them.
ClientStep ==
  /\ \/ \E d \in Device : controller = Nobody /\ ChangeController /\ controller' = d
     \/ \E d \in Device : ClientCommand(d)
     \/ \E i \in Interaction : Raised(i) /\ Lapse(i)
  /\ UNCHANGED <<hermesVars, process, streams, crashes>>

DeliveryInit ==
  /\ Init
  /\ run = [r \in Request |-> NoRun] /\ done = {}
  /\ task = [r \in Request |-> "none"] /\ read = [r \in Request |-> 0]
  /\ last = [r \in Request |-> 0] /\ tries = [r \in Request |-> 0]
  /\ runs = {} /\ journal = <<>> /\ waiting = {} /\ held = {}
  /\ calls = [x \in Dispatch |-> 0] /\ submissions = [r \in Request |-> 0]
  /\ stream = 0 /\ live = FALSE
  /\ up = [n \in Stream |-> <<>>] /\ down = <<>>
  /\ registered = [n \in Stream |-> 0] /\ serving = {}
  /\ crashes = 0

NodeStep ==
  \/ Connect \/ NodeReceives
  \/ \E f \in held : SendAck(f)
  \/ \E r \in Request :
       \/ HermesBegins(r) \/ Submitted(r) \/ Refused(r) \/ Uncertain(r)
       \/ TakeEvent(r) \/ StreamDisconnects(r) \/ StreamFails(r)
  \/ \E x \in Dispatch, accepted \in BOOLEAN : FinishCall(x, accepted)

DeliveryNext ==
  \/ ClientStep
  \/ NodeStep
  \/ \E n \in Stream : GatewayServes(n) \/ GatewayClaims(n) \/ HandlerEnds(n)
  \/ \E r \in Request : HermesReports(r)
  \/ Break \/ Crash

DeliverySpec == DeliveryInit /\ [][DeliveryNext]_deliveryVars

\* Node, Gateway and Hermes go on working and every call ends.  A lost stream is
\* replaced; nothing is assumed of users, of the events of a run, of breaks and
\* of crashes.
DeliveryFairness ==
  /\ WF_deliveryVars(Connect) /\ WF_deliveryVars(NodeReceives)
  /\ \A x \in Dispatch, accepted \in BOOLEAN : WF_deliveryVars(SendAck(Ack(x, accepted)))
  /\ \A r \in Request :
       /\ WF_deliveryVars(HermesBegins(r) \/ Submitted(r) \/ Refused(r) \/ Uncertain(r))
       /\ WF_deliveryVars(TakeEvent(r))
  /\ \A x \in Dispatch : WF_deliveryVars(\E accepted \in BOOLEAN : FinishCall(x, accepted))
  /\ \A n \in Stream :
       WF_deliveryVars(GatewayServes(n)) /\ WF_deliveryVars(GatewayClaims(n))

FairDelivery == DeliverySpec /\ DeliveryFairness
----------------------------------------------------------------------------
Stored(e) == \E n \in DOMAIN events : events[n].id = e.id
Journaled(e) == Contains(journal, e)
Frame == [kind : {"ack"}, dispatch : Dispatch, accepted : BOOLEAN]

DeliveryTypeOK ==
  /\ TypeOK
  /\ \A r \in Request : HasRun(r) => Len(run[r]) <= MaxNative
  /\ done \subseteq Dispatch /\ held \subseteq Frame
  /\ task \in [Request -> {"none", "starting", "begun", "accepted", "rejected",
                          "uncertain", "streaming", "ended"}]
  /\ \A r \in Request : read[r] <= (IF HasRun(r) THEN Len(run[r]) ELSE 0)
  /\ last \in [Request -> 0 .. 2 * MaxNative + 2 * MaxResumes + 1]
  /\ tries \in [Request -> 0 .. MaxResumes]
  /\ runs \subseteq Request /\ waiting \subseteq Request
  /\ Len(journal) <= MaxJournal
  /\ stream \in {0} \cup Stream /\ live \in BOOLEAN
  /\ serving \subseteq Stream
  /\ registered \in [Stream -> 0 .. MaxConnections]

\* Every receipt on its way to the node is for an event still in the journal, and
\* none comes twice, so #acknowledgeEvent never throws and no receipt ends the
\* process.
ReceiptsMatchJournal ==
  \A k \in DOMAIN down : down[k].kind = "receipt" =>
    /\ Journaled(down[k].event)
    /\ \A m \in DOMAIN down : m # k => down[m] # down[k]

\* While the process lives, an event it took from Hermes is in its journal or in
\* the Gateway's log: a break at any point loses none.
EventsRetained ==
  \A r \in Request : \A k \in 1 .. read[r] : Journaled(run[r][k]) \/ Stored(run[r][k])

\* What the log has of a run is the beginning of what Hermes reported: an event
\* is there once, and after every one before it, through breaks, replays, crashes
\* and submissions repeated by a new process.
LogFollowsRun ==
  \A r \in Request : HasRun(r) =>
    \A k \in DOMAIN run[r], n \in DOMAIN events : events[n].id = run[r][k].id =>
      /\ \A m \in DOMAIN events : events[m].id = run[r][k].id => m = n
      /\ \A j \in 1 .. k - 1 : \E m \in DOMAIN events : events[m].id = run[r][j].id /\ m < n

\* One process submits a request to Hermes at most once, whatever is delivered
\* again, the uncertain submission included.
SubmittedOnce == \A r \in Request : submissions[r] <= 1

\* An acknowledged dispatch has taken effect: the run exists, the stop or the
\* decision reached Hermes.
DeliveredTookEffect ==
  \A x \in Dispatch : outbox[x] # NoRow /\ outbox[x].state = "delivered" =>
    IF x[1] = "send" THEN HasRun(x[2]) ELSE x \in done

\* DELIVERY.md: the sequences of supplements and of native events do not conflict,
\* so while #stream goes on, the run's next event still advances the sequence.
SequencesDoNotConflict ==
  \A r \in Request : task[r] = "streaming" => last[r] < 2 * (read[r] + 1)

\* DELIVERY.md: the end of a request cancels the interactions still pending.
TerminalCancelsPending ==
  \A i \in Interaction :
    IsPending(i) => ~IsTerminal(interactions[i].request)

\* The node can no longer deliver: the model's streams are used up, or a
\* registration of a dead stream came after the live stream's own.
CutOff ==
  \/ stream = MaxConnections /\ ~live
  \/ live /\ registered[stream] \notin {0, connection}

Unanswered(x) == outbox[x] # NoRow /\ outbox[x].state \in {"pending", "in_flight"}

\* However small the journal is, it is empty again and again: every event in it
\* is stored and leaves with its receipt, unless the process ends.
JournalDrains == []<>(journal = <<>> \/ CutOff)

\* A dispatch is answered, over as many connections as it takes, or its
\* submission is reported uncertain.
DispatchesAnswered ==
  \A x \in Dispatch :
    Unanswered(x) ~>
      (~Unanswered(x) \/ (x[1] = "send" /\ task[x[2]] = "uncertain") \/ CutOff)
=============================================================================
