------------------------------ MODULE ClientSync ------------------------------
(***************************************************************************)
(* A Client converging on the events of one conversation over the streams  *)
(* of EventStream: GatewayFrameRouter, ClientEventConvergence and the      *)
(* Drift ledger below them.                                                *)
(*                                                                         *)
(* The router handles one frame to its end before the next; handling is a  *)
(* function from the Client's state to its state, with the commands it     *)
(* sent and whether it threw.  cursor and tracked are durable; the router  *)
(* is made anew for each stream.                                           *)
(***************************************************************************)
EXTENDS EventStream

CONSTANTS
  Own,          \* the requests this Client sends; others come from other devices
  None,
  MaxHeld,      \* maximumPendingUnknownEvents
  MaxCommands   \* bound: commands under way when the Client takes a frame

\* Where a page ended, and the replay the router waits for.
PageEnd == [through : Nat, more : BOOLEAN]
PendingReplay == [after : Nat, page : {None} \cup PageEnd, again : BOOLEAN]

ASSUME SyncAssumption ==
  /\ Own \subseteq Request
  /\ None \notin PageEnd \cup PendingReplay
  /\ MaxHeld \in Nat /\ MaxCommands \in Nat \ {0}

VARIABLES
  cursor,   \* conversation_cursors: events 1 .. cursor are stored
  tracked,  \* tracked_requests: the session of each known request, or NoRow
  replay,   \* _pendingReplays of the conversation: [after, page, again], or None
  held,     \* _pendingUnknownRequests: the events that await a request's route
  floor     \* history: what the replay requested at the start must bring

routerVars == <<cursor, tracked, replay, held>>
clientVars == <<routerVars, floor>>
vars == <<ledgerVars, streamVars, clientVars>>

NothingHeld == [r \in Request |-> <<>>]
Client == [cursor |-> cursor, tracked |-> tracked, replay |-> replay, held |-> held,
           sent |-> <<>>, broken |-> FALSE]

Send(c, command) == [c EXCEPT !.sent = Append(@, command)]
Break(c) == [c EXCEPT !.broken = TRUE]
----------------------------------------------------------------------------
NewReplay(after) == [after |-> after, page |-> None, again |-> FALSE]
AskReplay(c, after) == Send([c EXCEPT !.replay = NewReplay(after)], Replay(after))

\* Mutant of RequestReplayOnce: a gap asks for a replay whatever is pending.
RequestReplayAlways(c, after) == AskReplay(c, after)

\* The router has asked for a page and has not been told where it ended.
AwaitsPage(c) == c.replay # None /\ c.replay.page = None

RequestReplayOnce(c, after) ==
  IF c.replay = None
  THEN AskReplay(c, after)
  ELSE IF c.replay.after # after THEN [c EXCEPT !.replay.again = TRUE]
  ELSE c

\* _finishDurableReplay: the page is over once the cursor has reached its end;
\* what it did not bring is asked for again, unless events still await a route.
FinishReplay(c) ==
  IF c.replay = None THEN c
  ELSE IF c.replay.page = None THEN c
  ELSE LET finished == [c EXCEPT !.replay = None]
           short == c.cursor < c.replay.page.through
       IN  IF short /\ c.held # NothingHeld THEN c
           ELSE IF short \/ c.replay.page.more \/ c.replay.again
           THEN RequestReplayOnce(finished, c.cursor)
           ELSE finished

HeldEvents(c) == FoldFunction(LAMBDA events, total : total + Len(events), 0, c.held)

\* Mutant of Hold: every held event sends a lookup.
HoldLooksUpEach(c, n) ==
  Send([c EXCEPT !.held[log[n].request] = Append(@, n)], GetRequest(log[n].request))

\* _holdUnknownEvent: one lookup per unknown request.
Hold(c, n) ==
  LET r == log[n].request IN
  IF n \in Range(c.held[r]) THEN c
  ELSE IF HeldEvents(c) >= MaxHeld THEN Break(c)
  ELSE LET kept == [c EXCEPT !.held[r] = Append(@, n)]
       IN  IF c.held[r] = <<>> THEN Send(kept, GetRequest(r)) ELSE kept

\* Mutant of Converge: an event beyond the next one is acknowledged as received.
ConvergeAcksGap(c, n) ==
  IF n <= c.cursor THEN Send(c, Acknowledge(n))
  ELSE IF n = c.cursor + 1 THEN Send([c EXCEPT !.cursor = n], Acknowledge(n))
  ELSE RequestReplayOnce(Send(c, Acknowledge(n)), c.cursor)

\* accept, past the route: a duplicate, the next event or one beyond a gap.
Converge(c, n) ==
  IF n <= c.cursor THEN Send(c, Acknowledge(n))
  ELSE IF n = c.cursor + 1 THEN Send([c EXCEPT !.cursor = n], Acknowledge(n))
  ELSE RequestReplayOnce(c, c.cursor)

\* _acceptEvent.
AcceptEvent(c, n) ==
  LET route == c.tracked[log[n].request] IN
  IF c.broken THEN c
  ELSE IF route = NoRow THEN Hold(c, n)
  ELSE IF route # log[n].session THEN Break(c)
  ELSE FinishReplay(Converge(c, n))

AcceptHeld(c, events) == FoldLeft(AcceptEvent, c, events)

\* _acceptRequestStatus: the route is stored, then the events that awaited it
\* are accepted; onRequestStatus stores it when none did.
AcceptStatus(c, status) ==
  LET r == status.request
      routed == [c EXCEPT !.tracked[r] = status.session, !.held[r] = <<>>]
  IN  IF \/ c.tracked[r] \notin {NoRow, status.session}
         \/ \E n \in Range(c.held[r]) : log[n].session # status.session
      THEN Break(c)
      ELSE AcceptHeld(routed, c.held[r])

\* _acceptReplayCompletion.
AcceptCompletion(c, completed) ==
  IF c.replay = None THEN Break(c)
  ELSE IF c.replay.after # completed.after THEN Break(c)
  ELSE FinishReplay([c EXCEPT !.replay.page = [through |-> completed.through,
                                               more |-> completed.more]])

Route(c, frame) ==
  CASE frame.kind = "event" -> AcceptEvent(c, frame.sequence)
    [] frame.kind = "status" -> AcceptStatus(c, frame)
    [] frame.kind = "completed" -> AcceptCompletion(c, frame)
----------------------------------------------------------------------------
\* What run leaves behind: the next stream gets a router of its own.
ForgetRouter == replay' = None /\ held' = NothingHeld /\ floor' = 0

\* A stream is open and the router starts: a conversation with a tracked request
\* is replayed from its durable cursor.
Connect ==
  /\ ~connected
  /\ LET known == \E r \in Request : tracked[r] # NoRow
         started == RequestReplayOnce([Client EXCEPT !.replay = None], cursor)
     IN  /\ OpenStream(IF known THEN started.sent ELSE <<>>)
         /\ replay' = IF known THEN started.replay ELSE None
         /\ floor' = IF known THEN Len(log) ELSE 0
  /\ held' = NothingHeld
  /\ UNCHANGED <<ledgerVars, cursor, tracked>>

\* The network, the Gateway, its failed response queue or the app ends the stream.
Disconnect ==
  /\ connected
  /\ CloseStream /\ ForgetRouter
  /\ UNCHANGED <<ledgerVars, cursor, tracked>>

\* run: the next frame is routed; an exception closes the stream.  Commands that
\* the request task no longer reads are dropped.
TakeFrame ==
  /\ connected /\ frames # <<>>
  /\ handling => Len(commands) < MaxCommands
  /\ LET c == Route(Client, Head(frames)) IN
       /\ cursor' = c.cursor /\ tracked' = c.tracked
       /\ \/ /\ c.broken
             /\ CloseStream /\ ForgetRouter
          \/ /\ ~c.broken
             /\ frames' = Tail(frames) /\ commands' = IF handling THEN commands \o c.sent ELSE <<>>
             /\ replay' = c.replay /\ held' = c.held
             /\ UNCHANGED <<connected, hub, lagged, answer, failing, handling, late, floor>>
  /\ UNCHANGED ledgerVars

\* sendConfirmedText: the route is stored before the command leaves, with the
\* session the conversation has in the directory last received.
ClientSends(r, s) ==
  /\ connected /\ r \in Own /\ tracked[r] = NoRow
  /\ s \in {InitialSession, session}
  /\ tracked' = [tracked EXCEPT ![r] = s]
  /\ commands' = Append(commands, SendRequest(r, s))
  /\ UNCHANGED <<ledgerVars, connected, hub, lagged, answer, frames, failing, handling,
                 late, cursor, replay, held, floor>>

OtherSends(r) ==
  /\ r \notin Own
  /\ AcceptRequest(r, session)
  /\ UNCHANGED <<streamVars, clientVars>>

NodeReports(r, s) ==
  /\ IngestNodeEvent(r, s)
  /\ UNCHANGED <<streamVars, clientVars>>

Publishes(n) == PublishLive(n) /\ UNCHANGED clientVars

HandlerTakes == TakeCommand /\ UNCHANGED clientVars
HandlerPushes == PushAnswer /\ UNCHANGED clientVars
LiveTaskPushes == PushLive /\ UNCHANGED clientVars

HandlerOutlives == TakeLate /\ UNCHANGED clientVars

Init ==
  /\ StreamInit
  /\ cursor = 0 /\ tracked = [r \in Request |-> NoRow]
  /\ replay = None /\ held = NothingHeld /\ floor = 0

Next ==
  \/ Connect \/ Disconnect \/ TakeFrame
  \/ \E r \in Request : OtherSends(r)
  \/ \E r \in Request, s \in Session \cup {NoSession} : ClientSends(r, s) \/ NodeReports(r, s)
  \/ \E n \in 1 .. MaxLog : Publishes(n)
  \/ HandlerTakes \/ HandlerPushes \/ LiveTaskPushes \/ HandlerOutlives

Spec == Init /\ [][Next]_vars
----------------------------------------------------------------------------
Sessions == Session \cup {NoSession}

Command ==
  [kind : {"send"}, request : Own, session : Sessions]
    \cup [kind : {"getRequest"}, request : Request]
    \cup [kind : {"replay"}, after : Nat]
    \cup [kind : {"ack"}, sequence : Nat]

Frame ==
  [kind : {"event"}, sequence : Nat]
    \cup [kind : {"status"}, request : Request, session : Sessions]
    \cup [kind : {"completed"}, after : Nat, through : Nat, more : BOOLEAN]

\* Every variable holds a value of its type; what names an event names one of
\* the log.
SyncTypeOK ==
  /\ session \in Sessions
  /\ requests \in [Request -> Sessions \cup {NoRow}]
  /\ tracked \in [Request -> Sessions \cup {NoRow}]
  /\ log \in Seq([request : Request, session : Sessions])
  /\ {connected, lagged, failing, handling} \subseteq BOOLEAN
  /\ commands \in Seq(Command) /\ late \subseteq Command
  /\ answer \in Seq(Frame) /\ frames \in Seq(Frame) /\ Len(frames) <= MaxFrames
  /\ hub \in Seq(DOMAIN log) /\ Len(hub) <= MaxHub
  /\ {cursor, floor, acked} \subseteq 0 .. Len(log)
  /\ replay \in {None} \cup PendingReplay
  /\ held \in [Request -> Seq(DOMAIN log)]
  /\ \A f \in Range(answer) \cup Range(frames) : f.kind = "event" => f.sequence \in DOMAIN log

\* Where some messages are in a queue, how many, and how many are under way in
\* either direction.
Positions(queue, messages) == {k \in DOMAIN queue : queue[k] \in messages}
Count(queue, messages) == Cardinality(Positions(queue, messages))
UnderWay(messages) ==
  Count(commands, messages) + Count(answer, messages) + Count(frames, messages)

OfPages == {m \in Command \cup Frame : m.kind \in {"replay", "completed"}}
OfLookup(r) == {m \in Command \cup Frame : m.kind \in {"getRequest", "status"} /\ m.request = r}

\* The Gateway never learns of an event the Client has not stored: what the
\* device has acknowledged, on this stream or an ended one, is at or below the
\* durable cursor, so a Client that starts again loses nothing of it
\* (client_event_convergence.dart:106, postgres-event-ledger.ts:141).
DurableBeforeAck ==
  /\ acked <= cursor
  /\ \A k \in Range(commands) \cup late : k.kind = "ack" => k.sequence <= cursor

\* The router waits for as many completions as are under way, and for that very
\* page: it never ends a stream over an unexpected completion.
CompletionsExpected ==
  connected /\ handling =>
    /\ UnderWay(OfPages) = (IF AwaitsPage(Client) THEN 1 ELSE 0)
    /\ \A m \in Range(commands) \cup Range(answer) \cup Range(frames) :
         m \in OfPages => m.after = replay.after

\* Events that await the route of a request have exactly one lookup under way:
\* a request the Client did not send is neither forgotten nor looked up twice.
LookupsUnderWay ==
  connected /\ handling =>
    \A r \in Request \ Own : UnderWay(OfLookup(r)) = (IF held[r] # <<>> THEN 1 ELSE 0)

\* Every recorded event fits the route the Client has stored for its request;
\* one that does not ends this stream and every later one.
EventsRoutable ==
  \A n \in DOMAIN log : tracked[log[n].request] \in {NoRow, log[n].session}

\* A page, taken or not, that brings event n or is followed by another.
Brings(n) ==
  \/ replay # None /\ replay.again
  \/ replay # None /\ replay.page # None /\ (replay.page.through >= n \/ replay.page.more)
  \/ \E m \in Range(commands) : m.kind = "replay"
  \/ \E m \in Range(answer \o frames) : m.kind = "completed" /\ (m.through >= n \/ m.more)

\* An event of a known request beyond the next one is never dropped for good: as
\* long as the stream goes on, a page that brings it is under way or asked for.
GapsReplayed ==
  [][\A n \in DOMAIN log :
       connected' /\ handling /\ ~failing
         /\ frames # <<>> /\ Head(frames) = Event(n) /\ frames' = Tail(frames)
         /\ tracked[log[n].request] # NoRow
       => cursor' >= n \/ Brings(n)']_vars

\* A stream of a Client that knows the conversation never comes to rest short of
\* an event recorded before it was opened, however live events, pages and lookups
\* interleave: the page chain goes on by itself, or the stream ends.
CaughtUpAtRest ==
  connected /\ handling /\ ~failing /\ commands = <<>> /\ answer = <<>> /\ frames = <<>>
    => cursor >= floor
=============================================================================
