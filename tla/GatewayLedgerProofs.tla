-------------------------- MODULE GatewayLedgerProofs --------------------------
(***************************************************************************)
(* The safety of the Gateway's ledger, for any sets of devices, requests,  *)
(* keys, sessions and interactions and any events a Node may send.         *)
(*                                                                         *)
(* The first lemmas say what a transaction does to one row and leaves      *)
(* alone in the others.  The inductive invariant adds to the checked ones  *)
(* which rows exist together: a dispatch has its request or its command,   *)
(* and a command its dispatch, without which a new dispatch could come     *)
(* upon the verdict of an old one.                                         *)
(***************************************************************************)
EXTENDS GatewayLedger, SequenceTheorems, TLAPS

EventRow == [id : {e.id : e \in NodeEvent} \cup {NoEventId}, request : Request,
             type : EventType, source : Nat, item : Interaction \cup {NoItem}]
Typed == TypeOK /\ events \in Seq(EventRow)

\* Which rows exist together.
RowsTogether ==
  /\ \A r \in Request : outbox[Send(r)] # NoRow => Exists(r)
  /\ \A r \in Request :
       outbox[Interrupt(r)] # NoRow => \E c \in commands : c.dispatch = Interrupt(r)
  /\ \A c \in commands : outbox[c.dispatch] # NoRow

LedgerInvariant ==
  /\ Typed
  /\ RowsTogether
  /\ OneTerminalEvent
  /\ OpenRequestsRoutable
  /\ DecisionsDispatched
  /\ AcknowledgementsAgree

\* What a transaction leaves as it was, of ended requests, final interactions
\* and answered dispatches.
RequestsFrozen ==
  \A r \in Request : IsTerminal(r) =>
    /\ requests'[r] = requests[r]
    /\ EventsOf(r)' = EventsOf(r)
InteractionsFrozen ==
  \A i \in Interaction :
    interactions[i] # NoRow /\ ~IsPending(i) => interactions'[i] = interactions[i]
DispatchesFrozen ==
  \A x \in Dispatch :
    outbox[x] # NoRow /\ outbox[x].state \in {"delivered", "dead"} => outbox'[x] = outbox[x]
Frozen == RequestsFrozen /\ InteractionsFrozen /\ DispatchesFrozen
----------------------------------------------------------------------------
\* Dispatches of different kinds or of different things are different.
LEMMA DispatchKinds ==
  /\ \A r \in Request : Send(r) \in Dispatch /\ Interrupt(r) \in Dispatch
  /\ \A i \in Interaction : Resolve(i) \in Dispatch
  /\ \A r, q \in Request : /\ Send(r) = Send(q) => r = q
                           /\ Interrupt(r) = Interrupt(q) => r = q
                           /\ Send(r) # Interrupt(q)
  /\ \A i, j \in Interaction : Resolve(i) = Resolve(j) => i = j
  /\ \A r \in Request, i \in Interaction : Send(r) # Resolve(i) /\ Interrupt(r) # Resolve(i)
  /\ \A r \in Request : Send(r)[1] = "send" /\ Send(r)[2] = r
  /\ \A r \in Request : Interrupt(r)[1] = "interrupt"
  /\ \A i \in Interaction : Resolve(i)[1] = "resolve"
  /\ \A x \in Dispatch : x[1] = "send" => x[2] \in Request /\ x = Send(x[2])
BY DEF Dispatch, Send, Interrupt, Resolve

\* A row is not the mark of a missing one.
LEMMA RowsAreRows ==
  /\ \A row \in RequestRow : row # NoRow
  /\ \A row \in InteractionRow : row # NoRow
  /\ \A row \in OutboxRow : row # NoRow
BY RowAssumption

\* What a recorded event does to the log.
Recorded(r, type) ==
  /\ events' \in Seq(EventRow)
  /\ Len(events') = Len(events) + 1
  /\ \A n \in 1..Len(events) : events'[n] = events[n]
  /\ events'[Len(events) + 1].request = r /\ events'[Len(events) + 1].type = type

LEMMA RecordEffect ==
  ASSUME Typed, NEW id \in {e.id : e \in NodeEvent} \cup {NoEventId}, NEW r \in Request,
         NEW type \in EventType, NEW source \in Nat, NEW item \in Interaction \cup {NoItem},
         Record(id, r, type, source, item)
  PROVE  Recorded(r, type)
<1> DEFINE row == [id |-> id, request |-> r, type |-> type, source |-> source, item |-> item]
<1>1. row \in EventRow /\ row.request = r /\ row.type = type
  BY DEF EventRow
<1>2. events' = Append(events, row) /\ events \in Seq(EventRow)
  BY DEF Record, Typed
<1> HIDE DEF row
<1> QED
  BY <1>1, <1>2, AppendProperties DEF Recorded

\* What a new dispatch does to the outbox.
LEMMA EnqueueEffect ==
  ASSUME Typed, NEW x \in Dispatch, Enqueue(x)
  PROVE  /\ outbox' \in [Dispatch -> OutboxRow \cup {NoRow}]
         /\ outbox'[x] # NoRow /\ outbox'[x].state = "pending"
         /\ \A y \in Dispatch \ {x} : outbox'[y] = outbox[y]
<1> DEFINE row == [state |-> "pending", lockedBy |-> 0]
<1>1. row \in OutboxRow
  BY BoundAssumption DEF OutboxRow
<1>2. row # NoRow /\ row.state = "pending"
  BY <1>1, RowsAreRows
<1> HIDE DEF row
<1> QED
  BY <1>1, <1>2 DEF Enqueue, Typed, TypeOK, row

\* A verdict changes one row of the outbox.
LEMMA FinishEffect ==
  ASSUME Typed, NEW x \in Dispatch, NEW state \in {"delivered", "dead"},
         FinishDispatch(x, state)
  PROVE  /\ outbox' \in [Dispatch -> OutboxRow \cup {NoRow}]
         /\ outbox'[x] # NoRow /\ outbox'[x].state = state
         /\ \A y \in Dispatch \ {x} : outbox'[y] = outbox[y]
<1> DEFINE row == [state |-> state, lockedBy |-> 0]
<1>1. row \in OutboxRow
  BY BoundAssumption DEF OutboxRow
<1>2. row # NoRow /\ row.state = state
  BY <1>1, RowsAreRows
<1> HIDE DEF row
<1> QED
  BY <1>1, <1>2 DEF FinishDispatch, Typed, TypeOK, row

\* The log and the rows of requests after an event is recorded.
LEMMA LogStep ==
  ASSUME Typed, OneTerminalEvent, NEW r \in Request, NEW type \in EventType,
         Recorded(r, type), ~IsTerminal(r),
         requests'[r] # NoRow,
         type \in Terminal => requests'[r].state = type,
         type \notin Terminal => requests'[r].state \notin Terminal,
         \A q \in Request \ {r} : requests[q] # NoRow =>
           requests'[q] # NoRow /\ requests'[q].state = requests[q].state
  PROVE  OneTerminalEvent'
<1> SUFFICES ASSUME NEW q \in Request, NEW n \in EventsOf(q)'
             PROVE  /\ Exists(q)'
                    /\ events'[n].type \in Terminal => requests'[q].state = events'[n].type
                    /\ IsTerminal(q)' =>
                         (events'[n].type \in Terminal <=> \A m \in EventsOf(q)' : m <= n)
  BY DEF OneTerminalEvent
<1> DEFINE new == Len(events) + 1
<1>1. /\ Len(events) \in Nat /\ DOMAIN events = 1..Len(events) /\ DOMAIN events' = 1..new
      /\ n \in 1..new /\ events'[n].request = q
  BY DEF Typed, Recorded, EventsOf
<1>2. CASE q # r
  <2>1. EventsOf(q)' = EventsOf(q) /\ n \in 1..Len(events) /\ events'[n] = events[n]
    BY <1>1, <1>2 DEF EventsOf, Recorded
  <2>2. /\ Exists(q)
        /\ events[n].type \in Terminal => requests[q].state = events[n].type
        /\ IsTerminal(q) => (events[n].type \in Terminal <=> \A m \in EventsOf(q) : m <= n)
    BY <2>1 DEF OneTerminalEvent
  <2>3. requests'[q] # NoRow /\ requests'[q].state = requests[q].state
    BY <1>2, <2>2 DEF Exists
  <2> QED
    BY <2>1, <2>2, <2>3 DEF Exists, IsTerminal
<1>3. CASE q = r
  <2>1. \A m \in EventsOf(r) : events[m].type \notin Terminal
    BY DEF OneTerminalEvent, IsTerminal, Exists
  <2>2. \A m \in EventsOf(r)' : m = new \/ m \in EventsOf(r)
    BY <1>1 DEF EventsOf, Recorded
  <2>3. /\ new \in EventsOf(r)' /\ events'[new].type = type
        /\ \A m \in EventsOf(r)' : m <= new
    BY <1>1 DEF EventsOf, Recorded
  <2>4. CASE n = new
    BY <1>3, <2>3, <2>4 DEF Exists, IsTerminal
  <2>5. CASE n # new
    <3>1. n \in EventsOf(r) /\ events'[n] = events[n] /\ n < new
      BY <1>1, <1>3, <2>2, <2>5 DEF EventsOf, Recorded
    <3>2. events'[n].type \notin Terminal
      BY <2>1, <3>1
    <3>3. ~(new <= n)
      BY <1>1, <3>1
    <3> QED
      BY <1>3, <2>3, <3>2, <3>3 DEF Exists, IsTerminal
  <2> QED
    BY <2>4, <2>5
<1> QED
  BY <1>2, <1>3

\* The other requests' part of the log.
LEMMA OthersEvents ==
  ASSUME Typed, NEW r \in Request, NEW type, Recorded(r, type), NEW q \in Request, q # r
  PROVE  EventsOf(q)' = EventsOf(q)
<1> DEFINE new == Len(events) + 1
<1>1. /\ Len(events) \in Nat /\ DOMAIN events = 1..Len(events) /\ DOMAIN events' = 1..new
  BY DEF Typed, Recorded
<1> QED
  BY <1>1 DEF EventsOf, Recorded

\* The log and the rows of requests when nothing is recorded.
LEMMA LogSame ==
  ASSUME OneTerminalEvent, events' = events,
         \A q \in Request : requests[q] # NoRow =>
           requests'[q] # NoRow /\ requests'[q].state = requests[q].state
  PROVE  OneTerminalEvent'
BY DEF OneTerminalEvent, EventsOf, Exists, IsTerminal

\* The conjuncts about other rows than the log's.
LEMMA RowsSame ==
  ASSUME UNCHANGED <<requests, commands, interactions, outbox, events, session>>
  PROVE  /\ RowsTogether => RowsTogether'
         /\ OneTerminalEvent => OneTerminalEvent'
         /\ OpenRequestsRoutable => OpenRequestsRoutable'
         /\ DecisionsDispatched => DecisionsDispatched'
         /\ AcknowledgementsAgree => AcknowledgementsAgree'
BY DEF RowsTogether, OneTerminalEvent, OpenRequestsRoutable, DecisionsDispatched,
       AcknowledgementsAgree, EventsOf, Exists, IsOpen, IsTerminal
----------------------------------------------------------------------------
\* A request is accepted: its row, its event and its send appear together.
LEMMA AcceptRequestStep ==
  ASSUME LedgerInvariant, NEW d \in Device, NEW r \in Request, NEW k \in Key,
         NEW s \in Session \cup {NoSession}, AcceptRequest(d, r, k, s)
  PROVE  LedgerInvariant' /\ Frozen
<1> DEFINE row == [device |-> d, key |-> k, session |-> session, state |-> "accepted"]
<1>1. Typed /\ requests[r] = NoRow
  BY DEF LedgerInvariant, AcceptRequest, Exists
<1>2. row \in RequestRow
  BY <1>1 DEF Typed, TypeOK, RequestRow, RequestState
<1>3. row # NoRow /\ row.session = session /\ row.state = "accepted"
  BY <1>2, RowsAreRows
<1> HIDE DEF row
<1>4. /\ requests' \in [Request -> RequestRow \cup {NoRow}]
      /\ requests'[r] = row /\ \A q \in Request \ {r} : requests'[q] = requests[q]
  BY <1>1, <1>2 DEF AcceptRequest, Typed, TypeOK, row
<1>5. Recorded(r, "accepted")
  <2>1. "accepted" \in EventType
    BY DEF EventType
  <2> QED
    BY <1>1, <2>1, RecordEffect DEF AcceptRequest
<1>6. /\ outbox' \in [Dispatch -> OutboxRow \cup {NoRow}]
      /\ outbox'[Send(r)] # NoRow /\ outbox'[Send(r)].state = "pending"
      /\ \A y \in Dispatch \ {Send(r)} : outbox'[y] = outbox[y]
  BY <1>1, DispatchKinds, EnqueueEffect DEF AcceptRequest
<1>7. UNCHANGED <<active, controller, session, commands, interactions, lapsed,
                  connection, agentReady>>
  BY DEF AcceptRequest
<1>8. outbox[Send(r)] = NoRow /\ \A c \in commands : c.dispatch # Send(r)
  BY <1>1 DEF LedgerInvariant, RowsTogether, Exists
<1>9. \A c \in commands : c.dispatch \in Dispatch
  BY <1>1 DEF Typed, TypeOK, CommandRow
<1>10. Typed'
  BY <1>1, <1>4, <1>5, <1>6, <1>7 DEF Typed, TypeOK, Recorded
<1>11. RowsTogether'
  BY <1>3, <1>4, <1>6, <1>7, <1>8, <1>9, DispatchKinds DEF LedgerInvariant, RowsTogether, Exists
<1>12. OneTerminalEvent'
  <2>1. "accepted" \in EventType /\ "accepted" \notin Terminal
    BY DEF EventType, Terminal
  <2> QED
    BY <1>1, <1>3, <1>4, <1>5, <2>1, LogStep DEF LedgerInvariant, IsTerminal, Exists
<1>13. OpenRequestsRoutable'
  BY <1>3, <1>4, <1>7 DEF LedgerInvariant, OpenRequestsRoutable, IsOpen, IsTerminal, Exists
<1>14. DecisionsDispatched'
  BY <1>6, <1>7, DispatchKinds DEF LedgerInvariant, DecisionsDispatched
<1>15. AcknowledgementsAgree'
  <2>1. \A c \in commands : outbox'[c.dispatch] = outbox[c.dispatch]
    BY <1>6, <1>8, <1>9
  <2>2. \A q \in Request \ {r} : outbox'[Send(q)] = outbox[Send(q)]
    BY <1>6, DispatchKinds
  <2> QED
    BY <1>4, <1>6, <1>7, <2>1, <2>2 DEF LedgerInvariant, AcknowledgementsAgree
<1>16. Frozen
  <2>1. \A q \in Request : IsTerminal(q) => q # r
    BY <1>1 DEF IsTerminal, Exists
  <2>2. RequestsFrozen
    BY <1>1, <1>4, <1>5, <2>1, OthersEvents DEF RequestsFrozen
  <2> QED
    BY <1>6, <1>7, <1>8, <2>2 DEF Frozen, InteractionsFrozen, DispatchesFrozen
<1> QED
  BY <1>10, <1>11, <1>12, <1>13, <1>14, <1>15, <1>16 DEF LedgerInvariant

\* An interrupt is accepted: an event, a command and its dispatch.
LEMMA AcceptInterruptStep ==
  ASSUME LedgerInvariant, NEW d \in Device, NEW r \in Request, NEW k \in Key,
         AcceptInterrupt(d, r, k)
  PROVE  LedgerInvariant' /\ Frozen
<1> DEFINE cmd == [device |-> d, key |-> k, dispatch |-> Interrupt(r), state |-> "accepted"]
<1>1. Typed /\ IsOpen(r) /\ Interrupt(r) \in Dispatch
  BY DispatchKinds DEF LedgerInvariant, AcceptInterrupt
<1>2. cmd \in CommandRow /\ cmd.dispatch = Interrupt(r) /\ cmd.state = "accepted"
  BY <1>1 DEF CommandRow
<1> HIDE DEF cmd
<1>3. commands' = commands \cup {cmd}
  BY DEF AcceptInterrupt, AddCommand, cmd
<1>4. Recorded(r, "interrupting")
  <2>1. "interrupting" \in EventType
    BY DEF EventType
  <2> QED
    BY <1>1, <2>1, RecordEffect DEF AcceptInterrupt
<1>5. /\ outbox' \in [Dispatch -> OutboxRow \cup {NoRow}]
      /\ outbox'[Interrupt(r)] # NoRow /\ outbox'[Interrupt(r)].state = "pending"
      /\ \A y \in Dispatch \ {Interrupt(r)} : outbox'[y] = outbox[y]
  BY <1>1, EnqueueEffect DEF AcceptInterrupt
<1>6. UNCHANGED <<active, controller, session, requests, interactions, lapsed,
                  connection, agentReady>>
  BY DEF AcceptInterrupt
<1>7. \A c \in commands : c.dispatch \in Dispatch \ {Interrupt(r)}
  BY <1>1 DEF Typed, TypeOK, CommandRow, AcceptInterrupt
<1>8. Typed'
  BY <1>1, <1>2, <1>3, <1>4, <1>5, <1>6 DEF Typed, TypeOK, Recorded
<1>9. RowsTogether'
  <2>1. \A q \in Request : outbox'[Send(q)] # NoRow => Exists(q)'
    BY <1>5, <1>6, DispatchKinds DEF LedgerInvariant, RowsTogether, Exists
  <2>2. ASSUME NEW q \in Request, outbox'[Interrupt(q)] # NoRow
        PROVE  \E c \in commands' : c.dispatch = Interrupt(q)
    <3>1. CASE q = r
      BY <1>2, <1>3, <3>1
    <3>2. CASE q # r
      BY <1>3, <1>5, <2>2, <3>2, DispatchKinds DEF LedgerInvariant, RowsTogether
    <3> QED
      BY <3>1, <3>2
  <2>3. \A c \in commands' : outbox'[c.dispatch] # NoRow
    BY <1>2, <1>3, <1>5, <1>7 DEF LedgerInvariant, RowsTogether
  <2> QED
    BY <2>1, <2>2, <2>3 DEF RowsTogether
<1>10. OneTerminalEvent'
  <2>1. "interrupting" \in EventType /\ "interrupting" \notin Terminal
    BY DEF EventType, Terminal
  <2> QED
    BY <1>1, <1>4, <1>6, <2>1, LogStep DEF LedgerInvariant, IsOpen, IsTerminal, Exists
<1>11. OpenRequestsRoutable'
  BY <1>6 DEF LedgerInvariant, OpenRequestsRoutable, IsOpen, IsTerminal, Exists
<1>12. DecisionsDispatched'
  BY <1>5, <1>6, DispatchKinds DEF LedgerInvariant, DecisionsDispatched
<1>13. AcknowledgementsAgree'
  <2>1. \A c \in commands : outbox'[c.dispatch] = outbox[c.dispatch]
    BY <1>5, <1>7
  <2>2. \A q \in Request : outbox'[Send(q)] = outbox[Send(q)]
    BY <1>5, DispatchKinds
  <2> QED
    BY <1>2, <1>3, <1>5, <1>6, <2>1, <2>2 DEF LedgerInvariant, AcknowledgementsAgree
<1>14. Frozen
  <2>1. \A q \in Request : IsTerminal(q) => q # r
    BY <1>1 DEF IsOpen
  <2>2. RequestsFrozen
    BY <1>1, <1>4, <1>6, <2>1, OthersEvents DEF RequestsFrozen
  <2>3. outbox[Interrupt(r)] = NoRow
    BY <1>7 DEF LedgerInvariant, RowsTogether
  <2> QED
    BY <1>5, <1>6, <2>2, <2>3 DEF Frozen, InteractionsFrozen, DispatchesFrozen
<1> QED
  BY <1>8, <1>9, <1>10, <1>11, <1>12, <1>13, <1>14 DEF LedgerInvariant

\* A decision, or the expiry it meets.
LEMMA DecideInteractionStep ==
  ASSUME LedgerInvariant, NEW d \in Device, NEW i \in Interaction, NEW k \in Key,
         NEW v \in {"approved", "rejected", "resolved"}, DecideInteraction(d, i, k, v)
  PROVE  LedgerInvariant' /\ Frozen
<1> DEFINE cmd == [device |-> d, key |-> k, dispatch |-> Resolve(i), state |-> "accepted"]
           state == IF i \in lapsed THEN "expired" ELSE v
           row == [interactions[i] EXCEPT !.state = state]
<1>1. /\ Typed /\ Resolve(i) \in Dispatch
      /\ interactions[i] \in InteractionRow /\ interactions[i].state = "pending"
  BY DispatchKinds DEF LedgerInvariant, DecideInteraction, IsPending, Typed, TypeOK
<1>2. outbox[Resolve(i)] = NoRow /\ \A c \in commands : c.dispatch # Resolve(i)
  BY <1>1 DEF LedgerInvariant, DecisionsDispatched, RowsTogether
<1>3. row \in InteractionRow /\ row.state = state /\ row # NoRow
  <2>1. state \in InteractionState
    BY DEF InteractionState
  <2> HIDE DEF state
  <2>2. row \in InteractionRow /\ row.state = state
    BY <1>1, <2>1 DEF InteractionRow
  <2> QED
    BY <2>2, RowsAreRows
<1>4. interactions' = [interactions EXCEPT ![i] = row]
  BY DEF DecideInteraction, SetInteraction
<1> HIDE DEF row
<1>5. /\ interactions' \in [Interaction -> InteractionRow \cup {NoRow}]
      /\ interactions'[i] = row
      /\ \A j \in Interaction \ {i} : interactions'[j] = interactions[j]
  BY <1>1, <1>3, <1>4 DEF Typed, TypeOK
<1>6. UNCHANGED <<active, controller, session, requests, lapsed, events, connection, agentReady>>
  BY DEF DecideInteraction
<1>7. \A c \in commands : c.dispatch \in Dispatch \ {Resolve(i)}
  BY <1>1, <1>2 DEF Typed, TypeOK, CommandRow
<1>8. OneTerminalEvent' /\ OpenRequestsRoutable'
  BY <1>6 DEF LedgerInvariant, OneTerminalEvent, EventsOf, OpenRequestsRoutable,
              IsOpen, IsTerminal, Exists
<1>9. RequestsFrozen /\ InteractionsFrozen
  BY <1>1, <1>5, <1>6 DEF RequestsFrozen, InteractionsFrozen, EventsOf, IsPending
<1>10. CASE i \in lapsed
  <2>1. UNCHANGED <<commands, outbox>> /\ state = "expired"
    BY <1>10 DEF DecideInteraction
  <2>2. Typed'
    BY <1>1, <1>5, <1>6, <2>1 DEF Typed, TypeOK
  <2>3. RowsTogether' /\ AcknowledgementsAgree'
    BY <1>6, <2>1 DEF LedgerInvariant, RowsTogether, AcknowledgementsAgree, Exists
  <2>4. DecisionsDispatched'
    BY <1>2, <1>3, <1>5, <2>1 DEF LedgerInvariant, DecisionsDispatched
  <2>5. DispatchesFrozen
    BY <2>1 DEF DispatchesFrozen
  <2> QED
    BY <1>8, <1>9, <2>2, <2>3, <2>4, <2>5 DEF LedgerInvariant, Frozen
<1>11. CASE i \notin lapsed
  <2>1. cmd \in CommandRow /\ cmd.dispatch = Resolve(i) /\ cmd.state = "accepted"
    BY <1>1 DEF CommandRow
  <2>2. commands' = commands \cup {cmd} /\ Enqueue(Resolve(i)) /\ state = v
    BY <1>11 DEF DecideInteraction, AddCommand
  <2> HIDE DEF cmd, state
  <2>3. /\ outbox' \in [Dispatch -> OutboxRow \cup {NoRow}]
        /\ outbox'[Resolve(i)] # NoRow /\ outbox'[Resolve(i)].state = "pending"
        /\ \A y \in Dispatch \ {Resolve(i)} : outbox'[y] = outbox[y]
    BY <1>1, <2>2, EnqueueEffect
  <2>4. Typed'
    BY <1>1, <1>5, <1>6, <2>1, <2>2, <2>3 DEF Typed, TypeOK
  <2>5. RowsTogether'
    <3>1. \A q \in Request : outbox'[Send(q)] # NoRow => Exists(q)'
      BY <1>6, <2>3, DispatchKinds DEF LedgerInvariant, RowsTogether, Exists
    <3>2. \A q \in Request : outbox'[Interrupt(q)] # NoRow =>
            \E c \in commands' : c.dispatch = Interrupt(q)
      BY <2>2, <2>3, DispatchKinds DEF LedgerInvariant, RowsTogether
    <3>3. \A c \in commands' : outbox'[c.dispatch] # NoRow
      BY <1>7, <2>1, <2>2, <2>3 DEF LedgerInvariant, RowsTogether
    <3> QED
      BY <3>1, <3>2, <3>3 DEF RowsTogether
  <2>6. DecisionsDispatched'
    BY <1>3, <1>5, <2>2, <2>3, DispatchKinds DEF LedgerInvariant, DecisionsDispatched
  <2>7. AcknowledgementsAgree'
    <3>1. \A c \in commands : outbox'[c.dispatch] = outbox[c.dispatch]
      BY <1>7, <2>3
    <3>2. \A q \in Request : outbox'[Send(q)] = outbox[Send(q)]
      BY <2>3, DispatchKinds
    <3> QED
      BY <1>6, <2>1, <2>2, <2>3, <3>1, <3>2 DEF LedgerInvariant, AcknowledgementsAgree
  <2>8. DispatchesFrozen
    BY <1>2, <2>3 DEF DispatchesFrozen
  <2> QED
    BY <1>8, <1>9, <2>4, <2>5, <2>6, <2>7, <2>8 DEF LedgerInvariant, Frozen
<1> QED
  BY <1>10, <1>11

\* A claim marks dispatches that no verdict has been given of.
LEMMA ClaimEffect ==
  ASSUME Typed, NEW c \in 1..connection, ClaimDispatches(c)
  PROVE  /\ outbox' \in [Dispatch -> OutboxRow \cup {NoRow}]
         /\ \A x \in Dispatch :
              \/ outbox'[x] = outbox[x]
              \/ /\ outbox[x] # NoRow /\ outbox[x].state \in {"pending", "in_flight"}
                 /\ outbox'[x] # NoRow /\ outbox'[x].state = "in_flight"
<1> DEFINE row == [state |-> "in_flight", lockedBy |-> c]
<1>1. row \in OutboxRow
  BY BoundAssumption DEF OutboxRow, Typed, TypeOK
<1>2. row # NoRow /\ row.state = "in_flight"
  BY <1>1, RowsAreRows
<1>3. outbox' = [x \in Dispatch |-> IF x \in Claimable(c) THEN row ELSE outbox[x]]
  BY DEF ClaimDispatches
<1> HIDE DEF row
<1> QED
  BY <1>1, <1>2, <1>3 DEF Typed, TypeOK, Claimable

LEMMA ClaimDispatchesStep ==
  ASSUME LedgerInvariant, NEW c \in 1..connection, ClaimDispatches(c)
  PROVE  LedgerInvariant' /\ Frozen
<1>1. Typed
  BY DEF LedgerInvariant
<1>2. /\ outbox' \in [Dispatch -> OutboxRow \cup {NoRow}]
      /\ \A x \in Dispatch :
           \/ outbox'[x] = outbox[x]
           \/ /\ outbox[x] # NoRow /\ outbox[x].state \in {"pending", "in_flight"}
              /\ outbox'[x] # NoRow /\ outbox'[x].state = "in_flight"
  BY <1>1, ClaimEffect
<1>3. UNCHANGED <<active, controller, session, requests, commands, interactions,
                  lapsed, events, connection, agentReady>>
  BY DEF ClaimDispatches
<1>4. \A x \in Dispatch : outbox'[x] # NoRow <=> outbox[x] # NoRow
  BY <1>2
<1>5. \A e \in commands : e.dispatch \in Dispatch
  BY <1>1 DEF Typed, TypeOK, CommandRow
<1>6. Typed'
  BY <1>1, <1>2, <1>3 DEF Typed, TypeOK
<1>7. RowsTogether'
  BY <1>3, <1>4, <1>5, DispatchKinds DEF LedgerInvariant, RowsTogether, Exists
<1>8. OneTerminalEvent' /\ OpenRequestsRoutable'
  BY <1>3 DEF LedgerInvariant, OneTerminalEvent, EventsOf, OpenRequestsRoutable,
              IsOpen, IsTerminal, Exists
<1>9. DecisionsDispatched'
  BY <1>3, <1>4, DispatchKinds DEF LedgerInvariant, DecisionsDispatched
<1>10. AcknowledgementsAgree'
  <2>1. ASSUME NEW e \in commands'
        PROVE  e.state = CASE outbox'[e.dispatch].state = "delivered" -> "delivered"
                           [] outbox'[e.dispatch].state = "dead" -> "failed"
                           [] OTHER -> "accepted"
    <3>1. e \in commands /\ e.dispatch \in Dispatch
      BY <1>3, <1>5
    <3> QED
      BY <1>2, <3>1 DEF LedgerInvariant, AcknowledgementsAgree
  <2>2. ASSUME NEW r \in Request, outbox'[Send(r)] # NoRow, outbox'[Send(r)].state = "dead"
        PROVE  requests'[r].state = "failed"
    BY <1>2, <1>3, <2>2, DispatchKinds DEF LedgerInvariant, AcknowledgementsAgree
  <2> QED
    BY <2>1, <2>2 DEF AcknowledgementsAgree
<1>11. Frozen
  BY <1>2, <1>3 DEF Frozen, RequestsFrozen, InteractionsFrozen, DispatchesFrozen, EventsOf
<1> QED
  BY <1>6, <1>7, <1>8, <1>9, <1>10, <1>11 DEF LedgerInvariant
\* The command rows after a verdict on x.
LEMMA FollowEffect ==
  ASSUME Typed, NEW x \in Dispatch, NEW state \in {"delivered", "failed"},
         FollowCommand(x, state)
  PROVE  /\ commands' \subseteq CommandRow
         /\ \A b \in commands' : \E a \in commands :
              b.dispatch = a.dispatch /\ b.state = IF a.dispatch = x THEN state ELSE a.state
         /\ \A a \in commands : \E b \in commands' : b.dispatch = a.dispatch
<1> DEFINE After(a) == IF a.dispatch = x THEN [a EXCEPT !.state = state] ELSE a
<1>1. ASSUME NEW a \in commands
      PROVE  /\ After(a) \in CommandRow /\ After(a).dispatch = a.dispatch
             /\ After(a).state = IF a.dispatch = x THEN state ELSE a.state
  BY DEF Typed, TypeOK, CommandRow
<1>2. commands' = {After(a) : a \in commands}
  BY DEF FollowCommand
<1> HIDE DEF After
<1> QED
  BY <1>1, <1>2

\* What a rejected send does to its request.
LEMMA FailEffect ==
  ASSUME Typed, NEW r \in Request, Exists(r),
         requests' = [requests EXCEPT ![r].state = "failed"]
  PROVE  /\ requests' \in [Request -> RequestRow \cup {NoRow}]
         /\ requests'[r] # NoRow /\ requests'[r].state = "failed"
         /\ \A q \in Request \ {r} : requests'[q] = requests[q]
<1> DEFINE row == [requests[r] EXCEPT !.state = "failed"]
<1>1. requests[r] \in RequestRow
  BY DEF Typed, TypeOK, Exists
<1>2. row \in RequestRow /\ row.state = "failed"
  BY <1>1 DEF RequestRow, RequestState, Terminal
<1>3. row # NoRow
  BY <1>2, RowsAreRows
<1>4. requests' = [requests EXCEPT ![r] = row]
  OBVIOUS
<1> HIDE DEF row
<1> QED
  BY <1>2, <1>3, <1>4 DEF Typed, TypeOK

\* A verdict on x, once its effect on the request and the log is known.
LEMMA VerdictStep ==
  ASSUME LedgerInvariant, NEW x \in Dispatch,
         NEW state \in {"delivered", "dead"}, NEW verdict \in {"delivered", "failed"},
         state = "dead" <=> verdict = "failed",
         outbox[x] # NoRow, outbox[x].state \notin {"delivered", "dead"},
         FinishDispatch(x, state), FollowCommand(x, verdict),
         \A q \in Request : Exists(q) => Exists(q)',
         \A r \in Request : x = Send(r) /\ state = "dead" => requests'[r].state = "failed",
         \A q \in Request : requests[q] # NoRow /\ requests[q].state = "failed" =>
           requests'[q].state = "failed",
         UNCHANGED interactions
  PROVE  /\ commands' \subseteq CommandRow
         /\ outbox' \in [Dispatch -> OutboxRow \cup {NoRow}]
         /\ RowsTogether' /\ DecisionsDispatched' /\ AcknowledgementsAgree'
         /\ DispatchesFrozen
<1>1. Typed /\ \A c \in commands : c.dispatch \in Dispatch
  BY DEF LedgerInvariant, Typed, TypeOK, CommandRow
<1>2. /\ outbox' \in [Dispatch -> OutboxRow \cup {NoRow}]
      /\ outbox'[x] # NoRow /\ outbox'[x].state = state
      /\ \A y \in Dispatch \ {x} : outbox'[y] = outbox[y]
  BY <1>1, FinishEffect
<1>3. /\ commands' \subseteq CommandRow
      /\ \A b \in commands' : \E a \in commands :
           b.dispatch = a.dispatch /\ b.state = IF a.dispatch = x THEN verdict ELSE a.state
      /\ \A a \in commands : \E b \in commands' : b.dispatch = a.dispatch
  BY <1>1, FollowEffect
<1>4. \A y \in Dispatch : outbox'[y] # NoRow <=> outbox[y] # NoRow
  BY <1>2
<1>5. RowsTogether'
  <2>1. \A r \in Request : outbox'[Send(r)] # NoRow => Exists(r)'
    BY <1>4, DispatchKinds DEF LedgerInvariant, RowsTogether
  <2>2. \A r \in Request :
          outbox'[Interrupt(r)] # NoRow => \E b \in commands' : b.dispatch = Interrupt(r)
    BY <1>3, <1>4, DispatchKinds DEF LedgerInvariant, RowsTogether
  <2>3. \A b \in commands' : outbox'[b.dispatch] # NoRow
    BY <1>1, <1>3, <1>4 DEF LedgerInvariant, RowsTogether
  <2> QED
    BY <2>1, <2>2, <2>3 DEF RowsTogether
<1>6. DecisionsDispatched'
  BY <1>4, DispatchKinds DEF LedgerInvariant, DecisionsDispatched
<1>7. AcknowledgementsAgree'
  <2>1. ASSUME NEW b \in commands'
        PROVE  b.state = CASE outbox'[b.dispatch].state = "delivered" -> "delivered"
                           [] outbox'[b.dispatch].state = "dead" -> "failed"
                           [] OTHER -> "accepted"
    <3>1. PICK a \in commands :
            b.dispatch = a.dispatch /\ b.state = IF a.dispatch = x THEN verdict ELSE a.state
      BY <1>3
    <3>2. CASE a.dispatch = x
      BY <1>2, <3>1, <3>2
    <3>3. CASE a.dispatch # x
      <4>1. outbox'[a.dispatch] = outbox[a.dispatch]
        BY <1>1, <1>2, <3>3
      <4> QED
        BY <3>1, <3>3, <4>1 DEF LedgerInvariant, AcknowledgementsAgree
    <3> QED
      BY <3>2, <3>3
  <2>2. ASSUME NEW r \in Request, outbox'[Send(r)] # NoRow, outbox'[Send(r)].state = "dead"
        PROVE  requests'[r].state = "failed"
    <3>1. CASE x = Send(r)
      BY <1>2, <2>2, <3>1
    <3>2. CASE x # Send(r)
      <4>1. outbox[Send(r)] # NoRow /\ outbox[Send(r)].state = "dead"
        BY <1>2, <2>2, <3>2, DispatchKinds
      <4>2. requests[r] # NoRow /\ requests[r].state = "failed"
        BY <4>1 DEF LedgerInvariant, RowsTogether, AcknowledgementsAgree, Exists
      <4> QED
        BY <4>2
    <3> QED
      BY <3>1, <3>2
  <2> QED
    BY <2>1, <2>2 DEF AcknowledgementsAgree
<1>8. DispatchesFrozen
  BY <1>2 DEF DispatchesFrozen
<1> QED
  BY <1>2, <1>3, <1>5, <1>6, <1>7, <1>8

LEMMA AcknowledgeDispatchStep ==
  ASSUME LedgerInvariant, NEW c, NEW x \in Dispatch, NEW accepted \in BOOLEAN,
         AcknowledgeDispatch(c, x, accepted)
  PROVE  LedgerInvariant' /\ Frozen
<1>1. /\ Typed
      /\ UNCHANGED <<active, controller, session, interactions, lapsed, connection, agentReady>>
  BY DEF LedgerInvariant, AcknowledgeDispatch
<1>2. InteractionsFrozen
  BY <1>1 DEF InteractionsFrozen
<1>3. AckOutcome(c, x, accepted) \in {"delivered", "dead"}
  BY DEF AcknowledgeDispatch
<1>4. outbox[x] # NoRow /\ outbox[x].state \notin {"delivered", "dead"}
  BY <1>3 DEF AckOutcome
<1>5. ASSUME NEW state \in {"delivered", "dead"}, NEW verdict \in {"delivered", "failed"},
             state = "dead" <=> verdict = "failed",
             FinishDispatch(x, state), FollowCommand(x, verdict),
             UNCHANGED <<requests, events>>, state = "dead" => x[1] # "send"
      PROVE  LedgerInvariant' /\ Frozen
  <2>1. \A r \in Request : x = Send(r) /\ state = "dead" => requests'[r].state = "failed"
    BY <1>5, DispatchKinds
  <2>2. \A q \in Request : Exists(q) => Exists(q)'
    BY <1>5 DEF Exists
  <2>3. \A q \in Request : requests[q] # NoRow /\ requests[q].state = "failed" =>
          requests'[q].state = "failed"
    BY <1>5
  <2>4. /\ commands' \subseteq CommandRow
        /\ outbox' \in [Dispatch -> OutboxRow \cup {NoRow}]
        /\ RowsTogether' /\ DecisionsDispatched' /\ AcknowledgementsAgree'
        /\ DispatchesFrozen
    BY <1>1, <1>4, <1>5, <2>1, <2>2, <2>3, VerdictStep
  <2>5. OneTerminalEvent' /\ OpenRequestsRoutable'
    BY <1>1, <1>5 DEF LedgerInvariant, OneTerminalEvent, EventsOf, OpenRequestsRoutable,
                      IsOpen, IsTerminal, Exists
  <2>6. Typed'
    BY <1>1, <1>5, <2>4 DEF Typed, TypeOK
  <2>7. RequestsFrozen
    BY <1>5 DEF RequestsFrozen, EventsOf
  <2> QED
    BY <1>2, <2>4, <2>5, <2>6, <2>7 DEF LedgerInvariant, Frozen
<1>6. CASE AckOutcome(c, x, accepted) = "delivered"
  <2>1. FinishDispatch(x, "delivered") /\ FollowCommand(x, "delivered") /\ UNCHANGED <<requests, events>>
    BY <1>6 DEF AcknowledgeDispatch
  <2> QED
    BY <1>5, <2>1
<1>7. CASE AckOutcome(c, x, accepted) = "dead" /\ x[1] # "send"
  <2>1. FinishDispatch(x, "dead") /\ FollowCommand(x, "failed") /\ UNCHANGED <<requests, events>>
    BY <1>7 DEF AcknowledgeDispatch
  <2> QED
    BY <1>5, <1>7, <2>1
<1>8. CASE AckOutcome(c, x, accepted) = "dead" /\ x[1] = "send"
  <2>1. PICK r \in Request : x = Send(r) /\ r = x[2]
    BY <1>8, DispatchKinds
  <2>2. ~IsTerminal(r) /\ Exists(r)
    <3>1. MayReject(x)
      BY <1>4, <1>8 DEF AckOutcome
    <3>2. ~IsTerminal(r)
      BY <1>8, <2>1, <3>1 DEF MayReject
    <3>3. Exists(r)
      BY <1>4, <2>1 DEF LedgerInvariant, RowsTogether
    <3> QED
      BY <3>2, <3>3
  <2>3. /\ FinishDispatch(x, "dead") /\ FollowCommand(x, "failed")
        /\ requests' = [requests EXCEPT ![r].state = "failed"]
        /\ Record(NoEventId, r, "failed", 0, NoItem)
    BY <1>8, <2>1 DEF AcknowledgeDispatch
  <2>4. /\ requests' \in [Request -> RequestRow \cup {NoRow}]
        /\ requests'[r] # NoRow /\ requests'[r].state = "failed"
        /\ \A q \in Request \ {r} : requests'[q] = requests[q]
    BY <1>1, <2>2, <2>3, FailEffect
  <2>5. "failed" \in EventType /\ "failed" \in Terminal
    BY DEF EventType, StateEvent, Terminal
  <2>6. Recorded(r, "failed")
    BY <1>1, <2>3, <2>5, RecordEffect
  <2>7. \A q \in Request : x = Send(q) => requests'[q].state = "failed"
    BY <2>1, <2>4, DispatchKinds
  <2>8. /\ \A q \in Request : Exists(q) => Exists(q)'
        /\ \A q \in Request : requests[q] # NoRow /\ requests[q].state = "failed" =>
             requests'[q].state = "failed"
    BY <2>4 DEF Exists
  <2>9. /\ commands' \subseteq CommandRow
        /\ outbox' \in [Dispatch -> OutboxRow \cup {NoRow}]
        /\ RowsTogether' /\ DecisionsDispatched' /\ AcknowledgementsAgree'
        /\ DispatchesFrozen
    BY <1>1, <1>4, <2>3, <2>7, <2>8, VerdictStep
  <2>10. OneTerminalEvent'
    BY <1>1, <2>2, <2>4, <2>5, <2>6, LogStep DEF LedgerInvariant
  <2>11. OpenRequestsRoutable'
    BY <1>1, <2>4, <2>5 DEF LedgerInvariant, OpenRequestsRoutable, IsOpen, IsTerminal, Exists
  <2>12. Typed'
    BY <1>1, <2>4, <2>6, <2>9 DEF Typed, TypeOK, Recorded
  <2>13. RequestsFrozen
    <3>1. \A q \in Request : IsTerminal(q) => q # r
      BY <2>2
    <3> QED
      BY <1>1, <2>4, <2>6, <3>1, OthersEvents DEF RequestsFrozen
  <2> QED
    BY <1>2, <2>9, <2>10, <2>11, <2>12, <2>13 DEF LedgerInvariant, Frozen
<1> QED
  BY <1>3, <1>6, <1>7, <1>8
----------------------------------------------------------------------------
\* The rows of requests once the session event e reports is bound.
LEMMA BindEffect ==
  ASSUME LedgerInvariant, NEW e \in NodeEvent
  PROVE  /\ BindOpenRequests(e) \in [Request -> RequestRow \cup {NoRow}]
         /\ \A q \in Request :
              /\ BindOpenRequests(e)[q] = NoRow <=> requests[q] = NoRow
              /\ Exists(q) => BindOpenRequests(e)[q].state = requests[q].state
              /\ IsOpen(q) => BindOpenRequests(e)[q].session = BoundSession(e)
              /\ ~IsOpen(q) => BindOpenRequests(e)[q] = requests[q]
<1>1. ASSUME NEW q \in Request, IsOpen(q), session = NoSession
      PROVE  /\ [requests[q] EXCEPT !.session = e.session] \in RequestRow
             /\ [requests[q] EXCEPT !.session = e.session].state = requests[q].state
             /\ [requests[q] EXCEPT !.session = e.session].session = e.session
  BY <1>1, EventAssumption DEF LedgerInvariant, Typed, TypeOK, RequestRow, IsOpen, Exists
<1>2. \A q \in Request : requests[q] \in RequestRow \cup {NoRow}
  BY DEF LedgerInvariant, Typed, TypeOK
<1>3. \A q \in Request : IsOpen(q) => requests[q] # NoRow /\ requests[q].session = session
  BY DEF LedgerInvariant, OpenRequestsRoutable, IsOpen, Exists
<1> DEFINE Bound(q) == [requests[q] EXCEPT !.session = e.session]
<1>4. \A q \in Request :
        BindOpenRequests(e)[q] =
          IF IsOpen(q) /\ session = NoSession /\ requests[q].session = NoSession
          THEN Bound(q) ELSE requests[q]
  BY DEF BindOpenRequests
<1>5. ASSUME NEW q \in Request, IsOpen(q), session = NoSession
      PROVE  /\ Bound(q) \in RequestRow /\ Bound(q) # NoRow
             /\ Bound(q).state = requests[q].state /\ Bound(q).session = e.session
  BY <1>1, <1>5, RowsAreRows
<1> HIDE DEF Bound
<1>6. ASSUME NEW q \in Request
      PROVE  /\ BindOpenRequests(e)[q] \in RequestRow \cup {NoRow}
             /\ BindOpenRequests(e)[q] = NoRow <=> requests[q] = NoRow
             /\ Exists(q) => BindOpenRequests(e)[q].state = requests[q].state
             /\ IsOpen(q) => BindOpenRequests(e)[q].session = BoundSession(e)
             /\ ~IsOpen(q) => BindOpenRequests(e)[q] = requests[q]
  <2>1. CASE IsOpen(q) /\ session = NoSession
    BY <1>3, <1>4, <1>5, <2>1 DEF BoundSession
  <2>2. CASE ~(IsOpen(q) /\ session = NoSession)
    BY <1>2, <1>3, <1>4, <2>2 DEF BoundSession
  <2> QED
    BY <2>1, <2>2
<1> QED
  BY <1>6 DEF BindOpenRequests

\* The rows of requests after event e.
LEMMA RequestsAfterEffect ==
  ASSUME LedgerInvariant, NEW e \in NodeEvent, IsOpen(e.request),
         requests' = RequestsAfter(e), session' = BoundSession(e)
  PROVE  /\ requests' \in [Request -> RequestRow \cup {NoRow}]
         /\ \A q \in Request : requests'[q] = NoRow <=> requests[q] = NoRow
         /\ \A q \in Request \ {e.request} :
              requests[q] # NoRow => requests'[q].state = requests[q].state
         /\ requests'[e.request].state =
              IF e.type \in StateEvent THEN e.type ELSE requests[e.request].state
         /\ \A q \in Request : ~IsOpen(q) => requests'[q] = requests[q]
         /\ OpenRequestsRoutable'
<1> DEFINE B == BindOpenRequests(e)
           r == e.request
           row == [B[r] EXCEPT !.state = e.type]
<1>1. r \in Request /\ e.type \in EventType
  BY EventAssumption
<1>2. /\ B \in [Request -> RequestRow \cup {NoRow}]
      /\ \A q \in Request :
           /\ B[q] = NoRow <=> requests[q] = NoRow
           /\ Exists(q) => B[q].state = requests[q].state
           /\ IsOpen(q) => B[q].session = session'
           /\ ~IsOpen(q) => B[q] = requests[q]
  BY BindEffect
<1>3. requests' = IF e.type \in StateEvent THEN [B EXCEPT ![r] = row] ELSE B
  BY DEF RequestsAfter
<1> HIDE DEF B
<1>4. B[r] \in RequestRow /\ B[r] # NoRow /\ B[r].session = session'
  BY <1>1, <1>2 DEF IsOpen, Exists
<1>5. e.type \in StateEvent =>
        row \in RequestRow /\ row.state = e.type /\ row.session = B[r].session
  BY <1>4 DEF RequestRow, RequestState, StateEvent
<1>6. \A s \in RequestRow : s # NoRow
  BY RowsAreRows
<1> HIDE DEF row
<1>7. CASE e.type \in StateEvent
  <2>1. /\ requests' \in [Request -> RequestRow \cup {NoRow}]
        /\ requests'[r] = row
        /\ \A q \in Request \ {r} : requests'[q] = B[q]
    BY <1>1, <1>2, <1>3, <1>5, <1>7
  <2>2. \A q \in Request : IsOpen(q)' => requests'[q].session = session'
    BY <1>1, <1>2, <1>4, <1>5, <1>7, <2>1 DEF IsOpen, IsTerminal, Exists
  <2>3. \A q \in Request : ~IsOpen(q) => q # r
    OBVIOUS
  <2> QED
    BY <1>1, <1>2, <1>4, <1>5, <1>6, <1>7, <2>1, <2>2, <2>3 DEF OpenRequestsRoutable, Exists
<1>8. CASE e.type \notin StateEvent
  <2>1. requests' = B
    BY <1>3, <1>8
  <2>2. \A q \in Request : IsOpen(q)' => requests'[q].session = session'
    BY <1>2, <2>1 DEF IsOpen, IsTerminal, Exists
  <2>3. \A q \in Request \ {r} : requests[q] # NoRow => requests'[q].state = requests[q].state
    BY <1>2, <2>1 DEF Exists
  <2>4. requests'[r].state = requests[r].state
    BY <1>1, <1>2, <2>1 DEF IsOpen
  <2> QED
    BY <1>1, <1>2, <1>8, <2>1, <2>2, <2>3, <2>4 DEF OpenRequestsRoutable
<1> QED
  BY <1>7, <1>8

Decided == {"approved", "rejected", "resolved"}

\* The rows of interactions after event e: what was decided is decided, and
\* nothing else is.
LEMMA InteractionsAfterEffect ==
  ASSUME Typed, NEW e \in NodeEvent, InteractionAllows(e),
         interactions' = InteractionsAfter(e)
  PROVE  /\ interactions' \in [Interaction -> InteractionRow \cup {NoRow}]
         /\ \A i \in Interaction :
              interactions[i] # NoRow /\ ~IsPending(i) => interactions'[i] = interactions[i]
         /\ \A i \in Interaction :
              interactions'[i] # NoRow /\ interactions'[i].state \in Decided <=>
              interactions[i] # NoRow /\ interactions[i].state \in Decided
<1>1. /\ interactions \in [Interaction -> InteractionRow \cup {NoRow}]
      /\ \A row \in InteractionRow : row # NoRow
  BY RowsAreRows DEF Typed, TypeOK
<1>2. e.request \in Request
  BY EventAssumption
<1>3. CASE e.type \in Terminal
  <2> DEFINE Cancelled(i) == [interactions[i] EXCEPT !.state = "cancelled"]
  <2>1. ASSUME NEW i \in Interaction, IsPending(i)
        PROVE  Cancelled(i) \in InteractionRow /\ Cancelled(i).state = "cancelled"
    BY <1>1, <2>1 DEF IsPending, InteractionRow, InteractionState
  <2>2. interactions' = [i \in Interaction |->
          IF IsPending(i) /\ interactions[i].request = e.request
          THEN Cancelled(i) ELSE interactions[i]]
    BY <1>3 DEF InteractionsAfter, CancelPending
  <2> HIDE DEF Cancelled
  <2>3. \A i \in Interaction :
          IsPending(i) => interactions[i] # NoRow /\ interactions[i].state \notin Decided
    BY DEF IsPending, Decided
  <2>4. "cancelled" \notin Decided
    BY DEF Decided
  <2> QED
    BY <1>1, <2>1, <2>2, <2>3, <2>4
<1>4. CASE e.type \in InteractionEvent
  <2> DEFINE row == [request |-> e.request, state |-> StateOfItem(e)]
  <2>1. e.item \in Interaction /\ e.type \notin Terminal
    BY <1>4, EventAssumption DEF InteractionEvent, Terminal
  <2>2. /\ row \in InteractionRow
        /\ interactions[e.item] # NoRow /\ ~IsPending(e.item) => row = interactions[e.item]
        /\ row.state \in Decided <=>
           interactions[e.item] # NoRow /\ interactions[e.item].state \in Decided
    <3>1. CASE e.type = "required"
      BY <1>2, <3>1 DEF StateOfItem, InteractionAllows, InteractionRow, InteractionState, Decided
    <3>2. CASE e.type = "resolved"
      <4>1. /\ interactions[e.item] \in InteractionRow
            /\ interactions[e.item].request = e.request
            /\ interactions[e.item].state \in Decided
        BY <1>1, <2>1, <3>2 DEF InteractionAllows, Decided
      <4>2. StateOfItem(e) = interactions[e.item].state
        BY <3>2 DEF StateOfItem
      <4>3. row = interactions[e.item]
        BY <4>1, <4>2 DEF InteractionRow
      <4> HIDE DEF row
      <4> QED
        BY <1>1, <4>1, <4>3
    <3>3. CASE e.type \in {"expired", "withdrawn"}
      <4>1. IsPending(e.item)
        BY <3>3 DEF InteractionAllows
      <4>2. row \in InteractionRow /\ row.state \notin Decided
        BY <1>2, <3>3 DEF StateOfItem, InteractionRow, InteractionState, Decided
      <4> HIDE DEF row
      <4> QED
        BY <4>1, <4>2 DEF IsPending, Decided
    <3> QED
      BY <1>4, <3>1, <3>2, <3>3 DEF InteractionEvent
  <2>3. interactions' = [interactions EXCEPT ![e.item] = row]
    BY <1>4, <2>1 DEF InteractionsAfter
  <2> HIDE DEF row
  <2>4. /\ interactions' \in [Interaction -> InteractionRow \cup {NoRow}]
        /\ interactions'[e.item] = row
        /\ \A i \in Interaction \ {e.item} : interactions'[i] = interactions[i]
    BY <1>1, <2>1, <2>2, <2>3
  <2> QED
    BY <1>1, <2>1, <2>2, <2>4
<1>5. CASE e.type \notin Terminal /\ e.type \notin InteractionEvent
  <2>1. interactions' = interactions
    BY <1>5 DEF InteractionsAfter
  <2> QED
    BY <1>1, <2>1
<1> QED
  BY <1>3, <1>4, <1>5

LEMMA IngestNodeEventStep ==
  ASSUME LedgerInvariant, NEW c, NEW e \in NodeEvent, IngestNodeEvent(c, e)
  PROVE  LedgerInvariant' /\ Frozen
<1> DEFINE r == e.request
<1>1. /\ Typed
      /\ UNCHANGED <<active, controller, commands, lapsed, outbox, connection, agentReady>>
      /\ session' = BoundSession(e)
  BY DEF LedgerInvariant, IngestNodeEvent
<1>2. IsOpen(r) /\ InteractionAllows(e)
  BY DEF IngestNodeEvent, EventOutcome, Storable, Current
<1>3. /\ r \in Request /\ e.type \in EventType /\ e.source \in Nat
      /\ e.session \in Session \cup {NoSession}
      /\ e.item \in Interaction \cup {NoItem}
  BY EventAssumption
<1>4. /\ requests' \in [Request -> RequestRow \cup {NoRow}]
      /\ \A q \in Request : requests'[q] = NoRow <=> requests[q] = NoRow
      /\ \A q \in Request \ {r} : requests[q] # NoRow => requests'[q].state = requests[q].state
      /\ requests'[r].state = IF e.type \in StateEvent THEN e.type ELSE requests[r].state
      /\ \A q \in Request : ~IsOpen(q) => requests'[q] = requests[q]
      /\ OpenRequestsRoutable'
  BY <1>1, <1>2, RequestsAfterEffect DEF IngestNodeEvent
<1>5. /\ interactions' \in [Interaction -> InteractionRow \cup {NoRow}]
      /\ InteractionsFrozen
      /\ \A i \in Interaction :
           interactions'[i] # NoRow /\ interactions'[i].state \in Decided <=>
           interactions[i] # NoRow /\ interactions[i].state \in Decided
  BY <1>1, <1>2, InteractionsAfterEffect DEF IngestNodeEvent, InteractionsFrozen
<1>6. Recorded(r, e.type)
  <2>1. e.id \in {f.id : f \in NodeEvent} \cup {NoEventId}
    OBVIOUS
  <2>2. Record(e.id, r, e.type, e.source, e.item)
    BY DEF IngestNodeEvent
  <2> QED
    BY <1>1, <1>3, <2>1, <2>2, RecordEffect
<1>7. ~IsTerminal(r) /\ requests'[r] # NoRow
  BY <1>2, <1>3, <1>4 DEF IsOpen, Exists
<1>8. Typed'
  <2>1. session' \in Session \cup {NoSession}
    BY <1>1, <1>3 DEF BoundSession, Typed, TypeOK
  <2> QED
    BY <1>1, <1>4, <1>5, <1>6, <2>1 DEF Typed, TypeOK, Recorded
<1>9. RowsTogether'
  BY <1>1, <1>4 DEF LedgerInvariant, RowsTogether, Exists
<1>10. OneTerminalEvent'
  <2>1. e.type \in Terminal => requests'[r].state = e.type
    BY <1>4 DEF StateEvent
  <2>2. e.type \notin Terminal => requests'[r].state \notin Terminal
    BY <1>2, <1>4 DEF IsOpen, IsTerminal
  <2>3. \A q \in Request \ {r} : requests[q] # NoRow =>
          requests'[q] # NoRow /\ requests'[q].state = requests[q].state
    BY <1>4
  <2> QED
    BY <1>1, <1>3, <1>6, <1>7, <2>1, <2>2, <2>3, LogStep DEF LedgerInvariant
<1>11. DecisionsDispatched'
  BY <1>1, <1>5 DEF LedgerInvariant, DecisionsDispatched, Decided
<1>12. AcknowledgementsAgree'
  <2>1. ASSUME NEW q \in Request, outbox[Send(q)] # NoRow, outbox[Send(q)].state = "dead"
        PROVE  requests'[q].state = "failed"
    <3>1. Exists(q) /\ requests[q].state = "failed"
      BY <2>1 DEF LedgerInvariant, RowsTogether, AcknowledgementsAgree
    <3>2. ~IsOpen(q)
      BY <3>1 DEF IsOpen, IsTerminal, Terminal
    <3> QED
      BY <1>4, <3>1, <3>2
  <2> QED
    BY <1>1, <2>1 DEF LedgerInvariant, AcknowledgementsAgree
<1>13. RequestsFrozen
  <2>1. \A q \in Request : IsTerminal(q) => q # r /\ ~IsOpen(q)
    BY <1>7 DEF IsOpen
  <2> QED
    BY <1>1, <1>3, <1>4, <1>6, <2>1, OthersEvents DEF RequestsFrozen
<1>14. DispatchesFrozen
  BY <1>1 DEF DispatchesFrozen
<1> QED
  BY <1>4, <1>5, <1>8, <1>9, <1>10, <1>11, <1>12, <1>13, <1>14 DEF LedgerInvariant, Frozen
----------------------------------------------------------------------------
\* What happens around the ledger touches no row the invariant is about.
LEMMA EnvironmentStep ==
  ASSUME LedgerInvariant, Environment \/ UNCHANGED vars
  PROVE  LedgerInvariant' /\ Frozen
<1>1. UNCHANGED <<requests, commands, interactions, outbox, events, session>>
  BY DEF Environment, RegisterNode, ChangeController, RevokeDevice, Lapse, vars
<1>2. Typed'
  <2>1. CASE \E ready \in BOOLEAN : RegisterNode(ready)
    BY <2>1, BoundAssumption DEF RegisterNode, LedgerInvariant, Typed, TypeOK
  <2>2. CASE ChangeController
    BY <2>2 DEF ChangeController, LedgerInvariant, Typed, TypeOK
  <2>3. CASE \E d \in Device : RevokeDevice(d)
    BY <2>3 DEF RevokeDevice, LedgerInvariant, Typed, TypeOK
  <2>4. CASE \E i \in Interaction : Lapse(i)
    BY <2>4 DEF Lapse, LedgerInvariant, Typed, TypeOK
  <2>5. CASE UNCHANGED vars
    BY <2>5 DEF vars, LedgerInvariant, Typed, TypeOK
  <2> QED
    BY <2>1, <2>2, <2>3, <2>4, <2>5 DEF Environment
<1>3. Frozen
  BY <1>1 DEF Frozen, RequestsFrozen, InteractionsFrozen, DispatchesFrozen, EventsOf
<1> QED
  BY <1>1, <1>2, <1>3, RowsSame DEF LedgerInvariant

\* The empty ledger satisfies the invariant.
LEMMA InvariantInitially == Init => LedgerInvariant
<1> SUFFICES ASSUME Init PROVE LedgerInvariant
  OBVIOUS
<1>1. /\ \A r \in Request : requests[r] = NoRow
      /\ \A i \in Interaction : interactions[i] = NoRow
      /\ \A x \in Dispatch : outbox[x] = NoRow
      /\ commands = {} /\ events = <<>>
  BY DEF Init
<1>2. TypeOK
  <2>1. /\ requests \in [Request -> RequestRow \cup {NoRow}]
        /\ interactions \in [Interaction -> InteractionRow \cup {NoRow}]
        /\ outbox \in [Dispatch -> OutboxRow \cup {NoRow}]
    BY DEF Init
  <2>2. connection \in 0..MaxConnections
    BY BoundAssumption DEF Init
  <2>3. /\ active \in [Device -> BOOLEAN] /\ controller \in Device \cup {Nobody}
        /\ session \in Session \cup {NoSession}
        /\ commands \subseteq CommandRow /\ lapsed \subseteq Interaction
        /\ agentReady \in BOOLEAN
    BY DEF Init
  <2> QED
    BY <2>1, <2>2, <2>3 DEF TypeOK
<1>3. Typed
  BY <1>1, <1>2 DEF Typed
<1>4. RowsTogether /\ DecisionsDispatched /\ AcknowledgementsAgree
  BY <1>1, DispatchKinds DEF RowsTogether, DecisionsDispatched, AcknowledgementsAgree
<1>5. OneTerminalEvent /\ OpenRequestsRoutable
  BY <1>1 DEF OneTerminalEvent, OpenRequestsRoutable, EventsOf, IsOpen, Exists
<1> QED
  BY <1>3, <1>4, <1>5 DEF LedgerInvariant

LEMMA InvariantStep ==
  LedgerInvariant /\ [Next]_vars => LedgerInvariant' /\ Frozen
<1> SUFFICES ASSUME LedgerInvariant, [Next]_vars
             PROVE  LedgerInvariant' /\ Frozen
  OBVIOUS
<1>1. ASSUME NEW d \in Device, ClientCommand(d)
      PROVE  LedgerInvariant' /\ Frozen
  <2>1. ASSUME NEW r \in Request, NEW k \in Key, NEW s \in Session \cup {NoSession},
               AcceptRequest(d, r, k, s)
        PROVE  LedgerInvariant' /\ Frozen
    BY <2>1, AcceptRequestStep
  <2>2. ASSUME NEW r \in Request, NEW k \in Key, AcceptInterrupt(d, r, k)
        PROVE  LedgerInvariant' /\ Frozen
    BY <2>2, AcceptInterruptStep
  <2>3. ASSUME NEW a \in Approval, NEW k \in Key, NEW v \in {"approved", "rejected"},
               AcceptApproval(d, a, k, v)
        PROVE  LedgerInvariant' /\ Frozen
    <3>1. a \in Interaction /\ DecideInteraction(d, a, k, v)
      BY <2>3 DEF AcceptApproval, Interaction
    <3> QED
      BY <3>1, DecideInteractionStep
  <2>4. ASSUME NEW q \in Clarification, NEW k \in Key, AcceptClarification(d, q, k)
        PROVE  LedgerInvariant' /\ Frozen
    <3>1. q \in Interaction /\ DecideInteraction(d, q, k, "resolved")
      BY <2>4 DEF AcceptClarification, Interaction
    <3> QED
      BY <3>1, DecideInteractionStep
  <2> QED
    BY <1>1, <2>1, <2>2, <2>3, <2>4 DEF ClientCommand
<1>2. ASSUME NEW c \in 1..connection, NodeFrame(c)
      PROVE  LedgerInvariant' /\ Frozen
  BY <1>2, ClaimDispatchesStep, AcknowledgeDispatchStep, IngestNodeEventStep DEF NodeFrame
<1>3. ASSUME Environment \/ UNCHANGED vars
      PROVE  LedgerInvariant' /\ Frozen
  BY <1>3, EnvironmentStep
<1> QED
  BY <1>1, <1>2, <1>3 DEF Next

\* Every state of the ledger satisfies the inductive invariant, whatever the
\* clients, the Node and its events are.
THEOREM LedgerInvariantHolds == Spec => []LedgerInvariant
BY InvariantInitially, InvariantStep, PTL DEF Spec

\* Type correctness of the ledger's rows.
THEOREM LedgerTyped == Spec => []TypeOK
<1>1. LedgerInvariant => TypeOK
  BY DEF LedgerInvariant, Typed
<1> QED
  BY <1>1, LedgerInvariantHolds, PTL

\* The log never holds two ends of a request, nor an end its row does not say
\* (ingestNodeEvent and acknowledgeDispatch both end requests).
THEOREM OneTerminalEventHolds == Spec => []OneTerminalEvent
<1>1. LedgerInvariant => OneTerminalEvent
  BY DEF LedgerInvariant
<1> QED
  BY <1>1, LedgerInvariantHolds, PTL

\* The transaction that binds the conversation's session binds every open
\* request with it.
THEOREM OpenRequestsRoutableHolds == Spec => []OpenRequestsRoutable
<1>1. LedgerInvariant => OpenRequestsRoutable
  BY DEF LedgerInvariant
<1> QED
  BY <1>1, LedgerInvariantHolds, PTL

\* The Node hears of the decisions users made, of all of them and of no other
\* (acceptApprovalCommand, acceptClarificationCommand and ingestNodeEvent).
THEOREM DecisionsDispatchedHolds == Spec => []DecisionsDispatched
<1>1. LedgerInvariant => DecisionsDispatched
  BY DEF LedgerInvariant
<1> QED
  BY <1>1, LedgerInvariantHolds, PTL

\* A dispatch, its command and its request agree on what the Node answered
\* (acknowledgeDispatch).
THEOREM AcknowledgementsAgreeHolds == Spec => []AcknowledgementsAgree
<1>1. LedgerInvariant => AcknowledgementsAgree
  BY DEF LedgerInvariant
<1> QED
  BY <1>1, LedgerInvariantHolds, PTL

\* Once a request has ended, neither its row nor its part of the log changes.
THEOREM TerminalIsFinalHolds == Spec => TerminalIsFinal
<1>1. LedgerInvariant /\ [Next]_vars =>
        [\A r \in Request : IsTerminal(r) =>
           /\ requests'[r] = requests[r]
           /\ EventsOf(r)' = EventsOf(r)]_vars
  BY InvariantStep DEF Frozen, RequestsFrozen
<1> QED
  BY <1>1, LedgerInvariantHolds, PTL DEF Spec, TerminalIsFinal

\* A final interaction and an answered dispatch stay as they are.
THEOREM OutcomesFinalHolds == Spec => OutcomesFinal
<1>1. LedgerInvariant /\ [Next]_vars =>
        [/\ \A i \in Interaction :
              interactions[i] # NoRow /\ ~IsPending(i) => interactions'[i] = interactions[i]
         /\ \A x \in Dispatch :
              outbox[x] # NoRow /\ outbox[x].state \in {"delivered", "dead"} =>
                outbox'[x] = outbox[x]]_vars
  BY InvariantStep DEF Frozen, InteractionsFrozen, DispatchesFrozen
<1> QED
  BY <1>1, LedgerInvariantHolds, PTL DEF Spec, OutcomesFinal
=============================================================================
