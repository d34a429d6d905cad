----------------------------- MODULE EventStream -----------------------------
(***************************************************************************)
(* How the Gateway brings the events of one conversation to one Client:    *)
(* the live hub with a bounded queue per subscriber, and the handler of a  *)
(* Client stream, which answers commands and forwards live events into one *)
(* bounded response queue.                                                 *)
(*                                                                         *)
(* The ledger itself is GatewayLedger; here it only grows, and an event is *)
(* what a Client routes by.  The pumps that feed the hub (EventPublication)*)
(* may publish any recorded event at any time and again.  A stream is one  *)
(* queue of commands and one of frames, in order; what ends it drops both, *)
(* but a command the Gateway has already received may still be served.     *)
(***************************************************************************)
EXTENDS Integers, Sequences, FiniteSets, SequencesExt

CONSTANTS
  Request,
  Session, NoSession,
  InitialSession,  \* the session the conversation was created with, or NoSession
  NoRow,
  Page,            \* maximumEvents of a replay
  MaxHub,          \* maximumQueuedEvents of a live subscriber
  MaxFrames,       \* maximumQueuedResponses of a Client stream
  MaxLog           \* bound: events of the conversation

ASSUME StreamAssumption ==
  /\ InitialSession \in Session \cup {NoSession}
  /\ NoRow \notin Session \cup {NoSession}
  /\ Page \in Nat \ {0} /\ MaxHub \in Nat \ {0} /\ MaxFrames \in Nat \ {0}
  /\ MaxLog \in Nat

VARIABLES
  session,      \* conversations.session_id
  requests,     \* the session of each accepted request, or NoRow
  log,          \* the conversation's events: request and session of each
  acked,        \* device_cursors: the last event the Client's device acknowledged
  connected,    \* the Client stream is open
  hub,          \* the stream's subscriber queue
  lagged,       \* the hub closed the subscriber
  commands,     \* on their way from the Client
  answer,       \* responses of the current command still to be pushed
  frames,       \* the response queue and what is on its way to the Client
  failing,      \* the queue has failed: it is drained, then the stream ends
  handling,     \* the request task still reads commands
  late          \* commands of streams that ended before they were taken

ledgerVars == <<session, requests, log, acked>>
handlerVars == <<commands, answer, frames, failing, handling, late>>
streamVars == <<connected, hub, lagged, handlerVars>>

Event(n) == [kind |-> "event", sequence |-> n]
Status(r) == [kind |-> "status", request |-> r, session |-> requests[r]]
Completed(after, through, more) ==
  [kind |-> "completed", after |-> after, through |-> through, more |-> more]

SendRequest(r, s) == [kind |-> "send", request |-> r, session |-> s]
GetRequest(r) == [kind |-> "getRequest", request |-> r]
Replay(after) == [kind |-> "replay", after |-> after]
Acknowledge(n) == [kind |-> "ack", sequence |-> n]
----------------------------------------------------------------------------
Record(r, s) ==
  /\ Len(log) < MaxLog
  /\ log' = Append(log, [request |-> r, session |-> s])

\* acceptRequest: the submitted session must be the conversation's.
AcceptRequest(r, submitted) ==
  /\ requests[r] = NoRow /\ submitted = session
  /\ requests' = [requests EXCEPT ![r] = session]
  /\ Record(r, session)
  /\ UNCHANGED <<session, acked>>

\* The first session an event brings binds the conversation and those of its
\* requests that are open; which ones are is GatewayLedger's.
BindRequests(r, s) ==
  \E open \in SUBSET Request :
    /\ r \in open
    /\ requests' = [q \in Request |->
                     IF q \in open /\ requests[q] = NoSession THEN s ELSE requests[q]]

\* ingestNodeEvent.
IngestNodeEvent(r, s) ==
  /\ requests[r] # NoRow
  /\ \/ /\ session = NoSession
        /\ session' = s /\ BindRequests(r, s)
     \/ /\ session # NoSession /\ requests[r] = session /\ s = session
        /\ UNCHANGED <<session, requests>>
  /\ Record(r, s)
  /\ UNCHANGED acked

\* acknowledgeEvent: of a recorded event, and never backwards.
AcknowledgeEvent(n) ==
  /\ n \in DOMAIN log
  /\ acked' = IF n > acked THEN n ELSE acked
  /\ UNCHANGED <<session, requests, log>>

\* Mutant of PublishLive: the bound of the subscriber's queue is not observed.
PublishUnbounded(n) ==
  /\ connected /\ ~lagged /\ n \in DOMAIN log
  /\ hub' = Append(hub, n)
  /\ UNCHANGED <<ledgerVars, connected, lagged, handlerVars>>

\* BoundedLiveEventHub.publish to the Client's subscriber.
PublishLive(n) ==
  /\ connected /\ ~lagged /\ n \in DOMAIN log
  /\ IF Len(hub) >= MaxHub THEN lagged' = TRUE /\ UNCHANGED hub
     ELSE hub' = Append(hub, n) /\ UNCHANGED lagged
  /\ UNCHANGED <<ledgerVars, connected, handlerVars>>
----------------------------------------------------------------------------
\* The request task pushes the responses of its command.  It goes on after a
\* failure of the queue until it has something to push.
PushAnswer ==
  /\ connected /\ answer # <<>>
  /\ IF failing \/ Len(frames) >= MaxFrames
     THEN /\ handling' = FALSE /\ failing' = TRUE /\ answer' = <<>>
          /\ UNCHANGED frames
     ELSE /\ frames' = Append(frames, Head(answer)) /\ answer' = Tail(answer)
          /\ UNCHANGED <<failing, handling>>
  /\ UNCHANGED <<ledgerVars, connected, hub, lagged, commands, late>>

\* The live task forwards what the hub queued; a subscriber that lagged behind
\* is drained first and fails the stream then.
PushLive ==
  /\ connected /\ ~failing
  /\ \/ /\ hub # <<>> /\ hub' = Tail(hub)
        /\ IF Len(frames) < MaxFrames
           THEN frames' = Append(frames, Event(Head(hub))) /\ UNCHANGED failing
           ELSE failing' = TRUE /\ UNCHANGED frames
     \/ /\ hub = <<>> /\ lagged
        /\ failing' = TRUE /\ UNCHANGED <<hub, frames>>
  /\ UNCHANGED <<ledgerVars, connected, lagged, commands, answer, handling, late>>

\* Mutant of ReplayPage: a full page does not say that there may be more.
ReplayPageOnce(after) ==
  LET through == IF after + Page < Len(log) THEN after + Page ELSE Len(log) IN
  [k \in 1 .. through - after |-> Event(after + k)] \o <<Completed(after, through, FALSE)>>

\* replayEvents and the frame that ends the page.
ReplayPage(after) ==
  LET through == IF after + Page < Len(log) THEN after + Page ELSE Len(log) IN
  [k \in 1 .. through - after |-> Event(after + k)]
    \o <<Completed(after, through, through - after = Page)>>

\* A command the Gateway accepts, with its responses.
Accepts(command) ==
  /\ CASE command.kind = "send" ->
            /\ AcceptRequest(command.request, command.session)
            /\ answer' = <<[Status(command.request) EXCEPT !.session = command.session]>>
       [] command.kind = "getRequest" ->
            answer' = <<Status(command.request)>> /\ UNCHANGED ledgerVars
       [] command.kind = "replay" ->
            answer' = ReplayPage(command.after) /\ UNCHANGED ledgerVars
       [] command.kind = "ack" ->
            answer' = <<>> /\ AcknowledgeEvent(command.sequence)
  /\ UNCHANGED <<failing, handling>>

\* A send may be refused for many reasons (GatewayLedger), which fails the stream.
Refuses(command) ==
  /\ command.kind = "send"
  /\ failing' = TRUE /\ handling' = FALSE
  /\ UNCHANGED <<ledgerVars, answer>>

\* The handler takes the next command once the last one's responses are pushed.
TakeCommand ==
  /\ connected /\ handling /\ answer = <<>> /\ commands # <<>>
  /\ commands' = Tail(commands)
  /\ Accepts(Head(commands)) \/ Refuses(Head(commands))
  /\ UNCHANGED <<connected, hub, lagged, frames, late>>

\* The handshake subscribes to the hub before any command is served.
OpenStream(sent) ==
  /\ connected' = TRUE /\ commands' = sent
  /\ hub' = <<>> /\ lagged' = FALSE
  /\ answer' = <<>> /\ frames' = <<>> /\ failing' = FALSE /\ handling' = TRUE
  /\ UNCHANGED late

\* What a request task that outlives its stream could still do.
EffectsIn(queue) == {command \in Range(queue) : command.kind \in {"send", "ack"}}

CloseStream ==
  /\ connected' = FALSE /\ commands' = <<>>
  /\ hub' = <<>> /\ lagged' = FALSE
  /\ answer' = <<>> /\ frames' = <<>> /\ failing' = FALSE /\ handling' = FALSE
  /\ late' = IF handling THEN late \cup EffectsIn(commands) ELSE late

\* The request task of an ended stream takes a command it had received.
TakeLate ==
  /\ \E command \in late :
       /\ late' = late \ {command}
       /\ \/ command.kind = "send" /\ AcceptRequest(command.request, command.session)
          \/ command.kind = "ack" /\ AcknowledgeEvent(command.sequence)
          \/ UNCHANGED ledgerVars
  /\ UNCHANGED <<connected, hub, lagged, commands, answer, frames, failing, handling>>

StreamInit ==
  /\ session = InitialSession
  /\ requests = [r \in Request |-> NoRow]
  /\ log = <<>> /\ acked = 0
  /\ connected = FALSE
  /\ hub = <<>> /\ lagged = FALSE
  /\ commands = <<>> /\ answer = <<>> /\ frames = <<>> /\ failing = FALSE
  /\ handling = FALSE /\ late = {}
=============================================================================
