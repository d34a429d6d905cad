-------------------------- MODULE NodeDeliveryProofs --------------------------
(***************************************************************************)
(* The safety of the delivery between the Gateway's ledger and Hermes, for *)
(* any numbers of requests, approvals, events, streams and crashes, and    *)
(* any size of the journal.                                                *)
(***************************************************************************)
EXTENDS NodeDelivery, GatewayLedgerProofs, FiniteSetTheorems

UpFrame == {Registration} \cup Frame \cup {EventFrame(e) : e \in ConnectorEvent}
DownFrame == {Deliver(x) : x \in Dispatch} \cup {Receipt(e) : e \in ConnectorEvent}
               \cup {StreamError}

\* What a request's task may be before its run is streamed.
Early == {"none", "starting", "begun", "accepted", "rejected"}

\* No element twice.
Distinct(s) == \A k, m \in 1 .. Len(s) : k # m => s[k] # s[m]

HermesTyped ==
  /\ run \in [Request -> Seq(NativeEvent) \cup {NoRun}]
  /\ \A r \in Request : HasRun(r) =>
       /\ Len(run[r]) <= MaxNative
       /\ \A k \in 1 .. Len(run[r]) : run[r][k].source = 2 * k /\ run[r][k].request = r
  /\ done \subseteq Dispatch
ProcessTyped ==
  /\ task \in [Request -> Early \cup {"uncertain", "streaming", "ended"}]
  /\ read \in [Request -> Nat] /\ last \in [Request -> Nat] /\ tries \in [Request -> Nat]
  /\ runs \subseteq Request /\ waiting \subseteq Request /\ held \subseteq Frame
  /\ calls \in [Dispatch -> Nat] /\ submissions \in [Request -> Nat]
  /\ journal \in Seq(ConnectorEvent) /\ Len(journal) <= MaxJournal /\ Distinct(journal)
StreamTyped ==
  /\ stream \in 0 .. MaxConnections /\ live \in BOOLEAN
  /\ up \in [Stream -> Seq(UpFrame)] /\ down \in Seq(DownFrame)
  /\ registered \in [Stream -> 0 .. connection] /\ connection \in Nat
  /\ serving \subseteq Stream

\* How far the sequence of a run has come, by the events read and the attempts to
\* resume since the last of them.
Advanced(state, count, sequence, attempts) ==
  /\ attempts <= MaxResumes
  /\ state \in Early \cup {"uncertain"} => sequence = 0 /\ attempts = 0 /\ count = 0
  /\ state = "streaming" => sequence <= 2 * count + 2 * attempts
  /\ sequence <= 2 * MaxNative + 2 * MaxResumes + 1
Reading ==
  \A r \in Request :
    /\ IF HasRun(r) THEN read[r] <= Len(run[r]) ELSE read[r] = 0
    /\ Advanced(task[r], read[r], last[r], tries[r])

\* Streams are used one after the other, and the Gateway takes a stream's
\* registration before anything else.
Connected ==
  /\ live => stream # 0 /\ (registered[stream] = 0 => up[stream] # <<>>)
  /\ ~live => down = <<>>
  /\ \A n \in Stream :
       /\ registered[n] = 0 /\ up[n] # <<>> => up[n][1] = Registration
       /\ n > stream => up[n] = <<>> /\ registered[n] = 0

\* The next event of a run is never one the journal has already.
JournalFollows ==
  \A e \in ConnectorEvent : Journaled(e) =>
    /\ task[e.request] \notin Early
    /\ task[e.request] = "streaming" => e.source <= last[e.request]

\* The live stream carries each pending event at most once, on its way up or its
\* receipt on its way down; a receipt is for an event that is stored.
IsReceipt(f) == f.kind = "receipt"
IsEvent(f) == f.kind = "event"
Once(d, u) ==
  /\ \A k, m \in 1 .. Len(d) :
       IsReceipt(d[k]) /\ IsReceipt(d[m]) /\ k # m => d[k].event # d[m].event
  /\ \A k, m \in 1 .. Len(u) :
       IsEvent(u[k]) /\ IsEvent(u[m]) /\ k # m => u[k].event # u[m].event
  /\ \A k \in 1 .. Len(d), m \in 1 .. Len(u) :
       IsReceipt(d[k]) /\ IsEvent(u[m]) => d[k].event # u[m].event
Pending ==
  live =>
    /\ \A k \in 1 .. Len(down) :
         IsReceipt(down[k]) => Journaled(down[k].event) /\ Stored(down[k].event)
    /\ \A k \in 1 .. Len(up[stream]) :
         IsEvent(up[stream][k]) => Journaled(up[stream][k].event)
    /\ Once(down, up[stream])

\* An acceptance on its way is of a dispatch that has taken effect.
TookEffect(x) == IF x[1] = "send" THEN HasRun(x[2]) ELSE x \in done
Effective ==
  /\ \A f \in held : f.accepted => TookEffect(f.dispatch)
  /\ \A n \in Stream : \A k \in 1 .. Len(up[n]) :
       up[n][k].kind = "ack" /\ up[n][k].accepted => TookEffect(up[n][k].dispatch)
  /\ \A r \in Request : task[r] \in {"begun", "accepted", "streaming", "ended"} => HasRun(r)
  /\ \A x \in Dispatch : calls[x] > 0 => x[1] # "send"

Submissions ==
  \A r \in Request : submissions[r] <= 1 /\ (task[r] = "none" => submissions[r] = 0)

DeliveryInvariant ==
  /\ HermesTyped /\ ProcessTyped /\ StreamTyped
  /\ Reading /\ Connected
  /\ EventsRetained /\ JournalFollows /\ Pending
  /\ Effective /\ DeliveredTookEffect
  /\ Submissions

\* What the log keeps in every step.
KeepsStored == \A e \in ConnectorEvent : Stored(e) => Stored(e)'
----------------------------------------------------------------------------
LEMMA EventFacts ==
  /\ \A e \in ConnectorEvent :
       e \in NodeEvent /\ e.request \in Request /\ e.source \in Nat \ {0}
  /\ NativeEvent \subseteq ConnectorEvent
BY ConnectorAssumption, EventAssumption DEF ConnectorEvent

LEMMA UpFrameKinds ==
  ASSUME NEW f \in UpFrame
  PROVE  /\ f.kind \in {"registration", "ack", "event"}
         /\ f.kind = "registration" => f = Registration
         /\ f.kind = "ack" => f \in Frame /\ f.dispatch \in Dispatch /\ f.accepted \in BOOLEAN
         /\ f.kind = "event" => f.event \in ConnectorEvent /\ f = EventFrame(f.event)
BY DEF UpFrame, Registration, Frame, EventFrame

LEMMA DownFrameKinds ==
  ASSUME NEW f \in DownFrame
  PROVE  /\ f.kind \in {"dispatch", "receipt", "error"}
         /\ f.kind = "dispatch" => f.dispatch \in Dispatch
         /\ f.kind = "receipt" => f.event \in ConnectorEvent /\ f = Receipt(f.event)
BY DEF DownFrame, Deliver, Receipt, StreamError

\* What a frame written to the live stream, one taken from stream n, and the end
\* of stream n do to the frames on their way up.
Written(f) ==
  /\ up' \in [Stream -> Seq(UpFrame)]
  /\ \A n \in Stream \ {stream} : up'[n] = up[n]
  /\ Len(up'[stream]) = Len(up[stream]) + 1
  /\ \A k \in 1 .. Len(up[stream]) : up'[stream][k] = up[stream][k]
  /\ up'[stream][Len(up[stream]) + 1] = f
Dequeued(n) ==
  /\ up' \in [Stream -> Seq(UpFrame)]
  /\ \A m \in Stream \ {n} : up'[m] = up[m]
  /\ Len(up'[n]) = Len(up[n]) - 1
  /\ \A k \in 1 .. Len(up[n]) - 1 : up'[n][k] = up[n][k + 1]

LEMMA WriteEffect ==
  ASSUME StreamTyped, stream \in Stream, NEW f \in UpFrame, Write(<<f>>)
  PROVE  Written(f)
<1>1. up[stream] \in Seq(UpFrame) /\ <<f>> \in Seq(UpFrame) /\ Len(<<f>>) = 1 /\ <<f>>[1] = f
  BY DEF StreamTyped
<1>2. up' = [up EXCEPT ![stream] = up[stream] \o <<f>>]
  BY DEF Write
<1>3. up[stream] \o <<f>> \in Seq(UpFrame)
      /\ Len(up[stream] \o <<f>>) = Len(up[stream]) + 1
      /\ \A k \in 1 .. Len(up[stream]) : (up[stream] \o <<f>>)[k] = up[stream][k]
      /\ (up[stream] \o <<f>>)[Len(up[stream]) + 1] = f
  <2> DEFINE t == <<f>>
  <2>1. t \in Seq(UpFrame) /\ Len(t) = 1 /\ t[1] = f
    BY <1>1
  <2> HIDE DEF t
  <2>2. /\ up[stream] \o t \in Seq(UpFrame)
        /\ Len(up[stream] \o t) = Len(up[stream]) + Len(t)
        /\ \A i \in 1 .. Len(up[stream]) + Len(t) :
             (up[stream] \o t)[i] = IF i <= Len(up[stream]) THEN up[stream][i] ELSE t[i - Len(up[stream])]
    BY <1>1, <2>1, ConcatProperties
  <2>3. Len(up[stream]) \in Nat
    BY <1>1, LenProperties
  <2> QED
    BY <2>1, <2>2, <2>3 DEF t
<1> HIDE DEF Write
<1> QED
  BY <1>2, <1>3 DEF StreamTyped, Written

LEMMA DequeueEffect ==
  ASSUME StreamTyped, NEW n \in Stream, up[n] # <<>>, Dequeue(n)
  PROVE  /\ Dequeued(n) /\ Head(up[n]) = up[n][1] /\ Len(up[n]) \in Nat \ {0}
         /\ Head(up[n]) \in UpFrame
<1>1. up[n] \in Seq(UpFrame)
  BY DEF StreamTyped
<1>2. /\ Len(up[n]) \in Nat /\ Head(up[n]) \in UpFrame /\ Tail(up[n]) \in Seq(UpFrame)
      /\ \A k \in 1 .. Len(up[n]) - 1 : Tail(up[n])[k] = up[n][k + 1]
      /\ Len(Tail(up[n])) = Len(up[n]) - 1 /\ Len(up[n]) > 0
      /\ Head(up[n]) = up[n][1]
  BY <1>1, HeadTailProperties, LenProperties, EmptySeq
<1>3. up' = [up EXCEPT ![n] = Tail(up[n])]
  BY DEF Dequeue
<1> QED
  BY <1>1, <1>2, <1>3 DEF StreamTyped, Dequeued

\* What an emitted event does.
Emitted(e) ==
  /\ journal' \in Seq(ConnectorEvent)
  /\ \A f : Journaled(f)' <=> Journaled(f) \/ f = e
  /\ Len(journal') = Len(journal) + 1
  /\ Distinct(journal) /\ ~Journaled(e) => Distinct(journal')
  /\ waiting' \subseteq Request
  /\ IF live THEN Written(EventFrame(e)) ELSE up' = up

LEMMA EmitEffect ==
  ASSUME ProcessTyped, StreamTyped, Connected, NEW e \in ConnectorEvent, EmitEvent(e)
  PROVE  Emitted(e)
<1>1. journal' = Append(journal, e) /\ journal \in Seq(ConnectorEvent)
  BY DEF EmitEvent, ProcessTyped
<1>2. /\ journal' \in Seq(ConnectorEvent) /\ Len(journal') = Len(journal) + 1
      /\ Len(journal) \in Nat
      /\ \A k \in 1 .. Len(journal) : journal'[k] = journal[k]
      /\ journal'[Len(journal) + 1] = e
  BY <1>1, AppendProperties, LenProperties
<1>3. \A f : Journaled(f)' <=> Journaled(f) \/ f = e
  BY <1>2 DEF Journaled, Contains
<1>7. Distinct(journal) /\ ~Journaled(e) => Distinct(journal')
  BY <1>1, <1>2 DEF Journaled, Contains, Distinct
<1>4. waiting' \subseteq Request
  BY EventFacts DEF EmitEvent, ProcessTyped
<1>5. ASSUME live PROVE Written(EventFrame(e))
  <2>1. EventFrame(e) \in UpFrame /\ stream \in Stream
    BY <1>5 DEF UpFrame, StreamTyped, Connected, Stream
  <2> QED
    BY <1>5, <2>1, WriteEffect DEF EmitEvent
<1>6. ~live => up' = up
  BY DEF EmitEvent
<1> QED
  BY <1>2, <1>3, <1>4, <1>5, <1>6, <1>7 DEF Emitted

\* What #stream has read is of a run and one of the connector's events.
LEMMA EventRead ==
  ASSUME HermesTyped, ProcessTyped, Reading, NEW r \in Request
  PROVE  /\ HasRun(r) => run[r] \in Seq(NativeEvent) /\ Len(run[r]) \in Nat
         /\ \A k \in 1 .. read[r] :
              HasRun(r) /\ k \in 1 .. Len(run[r]) /\ run[r][k] \in ConnectorEvent
<1>1. HasRun(r) => run[r] \in Seq(NativeEvent) /\ Len(run[r]) \in Nat
  BY LenProperties DEF HermesTyped, HasRun
<1>2. ASSUME NEW k \in 1 .. read[r]
      PROVE  HasRun(r) /\ k \in 1 .. Len(run[r]) /\ run[r][k] \in ConnectorEvent
  <2>1. read[r] \in Nat /\ read[r] # 0
    BY <1>2 DEF ProcessTyped
  <2>2. HasRun(r) /\ read[r] <= Len(run[r])
    BY <2>1 DEF Reading
  <2>3. k \in 1 .. Len(run[r])
    BY <1>1, <1>2, <2>1, <2>2
  <2> QED
    BY <1>1, <2>2, <2>3, ElementOfSeq, EventFacts
<1> QED
  BY <1>1, <1>2
----------------------------------------------------------------------------
\* What a step leaves alone keeps its part of the invariant.
LEMMA Same ==
  ASSUME DeliveryInvariant, KeepsStored
  PROVE  /\ UNCHANGED hermesVars => HermesTyped'
         /\ UNCHANGED process => ProcessTyped'
         /\ UNCHANGED <<streams, connection>> => StreamTyped'
         /\ UNCHANGED <<run, task, read, last, tries>> => Reading'
         /\ UNCHANGED <<stream, live, up, down, registered>> => Connected'
         /\ UNCHANGED <<run, read, journal>> => EventsRetained'
         /\ UNCHANGED <<journal, task, last>> => JournalFollows'
         /\ UNCHANGED <<live, stream, up, down, journal>> => Pending'
         /\ UNCHANGED <<held, up, task, run, done, calls>> => Effective'
         /\ UNCHANGED <<run, done, outbox>> => DeliveredTookEffect'
         /\ UNCHANGED <<task, submissions>> => Submissions'
<1>1. UNCHANGED hermesVars => HermesTyped'
  BY DEF DeliveryInvariant, HermesTyped, HasRun, hermesVars
<1>2. UNCHANGED process => ProcessTyped'
  BY DEF DeliveryInvariant, ProcessTyped, process
<1>3. UNCHANGED <<streams, connection>> => StreamTyped'
  BY DEF DeliveryInvariant, StreamTyped, streams
<1>4. UNCHANGED <<run, task, read, last, tries>> => Reading'
  BY DEF DeliveryInvariant, Reading, HasRun
<1>5. UNCHANGED <<stream, live, up, down, registered>> => Connected'
  BY DEF DeliveryInvariant, Connected
<1>6. ASSUME UNCHANGED <<run, read, journal>> PROVE EventsRetained'
  <2> SUFFICES ASSUME NEW r \in Request, NEW k \in 1 .. read[r]
               PROVE  Journaled(run[r][k])' \/ Stored(run[r][k])'
    BY <1>6 DEF EventsRetained
  <2>1. run[r][k] \in ConnectorEvent
    BY EventRead DEF DeliveryInvariant
  <2>2. Journaled(run[r][k]) \/ Stored(run[r][k])
    BY DEF DeliveryInvariant, EventsRetained
  <2>3. Journaled(run[r][k]) => Journaled(run[r][k])'
    BY <1>6 DEF Journaled, Contains
  <2>4. Stored(run[r][k]) => Stored(run[r][k])'
    BY <1>6, <2>1 DEF KeepsStored, Stored
  <2> QED
    BY <2>2, <2>3, <2>4
<1>7. UNCHANGED <<journal, task, last>> => JournalFollows'
  BY DEF DeliveryInvariant, JournalFollows, Journaled, Contains
<1>8. ASSUME UNCHANGED <<live, stream, up, down, journal>> PROVE Pending'
  <2>1. \A e : Journaled(e)' <=> Journaled(e)
    BY <1>8 DEF Journaled, Contains
  <2>2. \A k \in 1 .. Len(down) : IsReceipt(down[k]) => down[k].event \in ConnectorEvent
    BY DownFrameKinds, ElementOfSeq DEF DeliveryInvariant, StreamTyped, IsReceipt
  <2>3. \A k \in 1 .. Len(down) :
          IsReceipt(down[k]) /\ Stored(down[k].event) => Stored(down[k].event)'
    BY <1>8, <2>2 DEF KeepsStored, Stored
  <2> QED
    BY <1>8, <2>1, <2>3 DEF DeliveryInvariant, Pending
<1>9. UNCHANGED <<held, up, task, run, done, calls>> => Effective'
  BY DEF DeliveryInvariant, Effective, TookEffect, HasRun
<1>10. UNCHANGED <<run, done, outbox>> => DeliveredTookEffect'
  BY DEF DeliveryInvariant, DeliveredTookEffect, HasRun
<1>11. UNCHANGED <<task, submissions>> => Submissions'
  BY DEF DeliveryInvariant, Submissions
<1> QED
  BY <1>1, <1>2, <1>3, <1>4, <1>5, <1>6, <1>7, <1>8, <1>9, <1>10, <1>11
----------------------------------------------------------------------------
\* A run that has begun is there for good, whatever Hermes adds to it.
LEMMA EmptyRun == <<>> \in Seq(NativeEvent) /\ <<>> # NoRun /\ Len(<<>>) = 0
<1>1. <<>> \in Seq(NativeEvent) /\ Len(<<>>) = 0
  BY EmptySeq
<1> QED
  BY <1>1, RunAssumption

\* A task that is not streaming yet moves on: its request has no event in the
\* journal before or after.
LEMMA EarlyMove ==
  ASSUME DeliveryInvariant, NEW r \in Request, NEW s \in Early, task[r] \in Early,
         task' = [task EXCEPT ![r] = s], UNCHANGED <<read, last, tries, journal>>
  PROVE  /\ run' = run => Reading'
         /\ JournalFollows'
         /\ task' \in [Request -> Early \cup {"uncertain", "streaming", "ended"}]
<1>1. task' \in [Request -> Early \cup {"uncertain", "streaming", "ended"}]
  BY DEF DeliveryInvariant, ProcessTyped
<1>2. task'[r] = s /\ \A q \in Request \ {r} : task'[q] = task[q]
  BY DEF DeliveryInvariant, ProcessTyped
<1>3. s # "streaming" /\ s # "uncertain"
  BY DEF Early
<1>4. ASSUME run' = run PROVE Reading'
  <2>1. \A q \in Request : Advanced(task[q], read[q], last[q], tries[q])
                           => Advanced(task'[q], read[q], last[q], tries[q])
    BY <1>2, <1>3 DEF Advanced
  <2> QED
    BY <1>4, <2>1 DEF DeliveryInvariant, Reading, HasRun
<1>5. JournalFollows'
  <2> SUFFICES ASSUME NEW e \in ConnectorEvent, Journaled(e)'
               PROVE  task'[e.request] \notin Early
                      /\ (task'[e.request] = "streaming" => e.source <= last'[e.request])
    BY DEF JournalFollows
  <2>1. Journaled(e)
    BY DEF Journaled, Contains
  <2>2. /\ task[e.request] \notin Early
        /\ task[e.request] = "streaming" => e.source <= last[e.request]
    BY <2>1 DEF DeliveryInvariant, JournalFollows
  <2>3. e.request \in Request \ {r}
    BY <2>2, EventFacts
  <2> QED
    BY <2>2, <2>3, <1>2
<1> QED
  BY <1>1, <1>4, <1>5

\* What a longer queue up, and a shorter or longer one down, do to Once.
LEMMA OnceWritten ==
  ASSUME NEW d, NEW u, NEW v, NEW f, Len(u) \in Nat, Once(d, u),
         Len(v) = Len(u) + 1, v[Len(u) + 1] = f,
         \A k \in 1 .. Len(u) : v[k] = u[k],
         IsEvent(f) => /\ \A k \in 1 .. Len(d) : IsReceipt(d[k]) => d[k].event # f.event
                       /\ \A k \in 1 .. Len(u) : IsEvent(u[k]) => u[k].event # f.event
  PROVE  Once(d, v)
<1>1. \A k \in 1 .. Len(v) : k = Len(u) + 1 \/ k \in 1 .. Len(u)
  OBVIOUS
<1>2. \A k, m \in 1 .. Len(v) :
        IsEvent(v[k]) /\ IsEvent(v[m]) /\ k # m => v[k].event # v[m].event
  BY <1>1 DEF Once
<1>3. \A k \in 1 .. Len(d), m \in 1 .. Len(v) :
        IsReceipt(d[k]) /\ IsEvent(v[m]) => d[k].event # v[m].event
  BY <1>1 DEF Once
<1> QED
  BY <1>2, <1>3 DEF Once

LEMMA OnceTaken ==
  ASSUME NEW c, NEW d, NEW u, Len(d) \in Nat, Once(d, u), Len(c) = Len(d) - 1,
         \A k \in 1 .. Len(d) - 1 : c[k] = d[k + 1]
  PROVE  Once(c, u)
<1>1. \A k \in 1 .. Len(c) : k + 1 \in 1 .. Len(d) /\ c[k] = d[k + 1]
  OBVIOUS
<1>2. ASSUME NEW k \in 1 .. Len(c), NEW m \in 1 .. Len(c),
             IsReceipt(c[k]), IsReceipt(c[m]), k # m
      PROVE  c[k].event # c[m].event
  <2>1. k + 1 # m + 1 /\ c[k] = d[k + 1] /\ c[m] = d[m + 1]
    BY <1>1, <1>2
  <2> QED
    BY <1>1, <1>2, <2>1 DEF Once
<1>3. \A k \in 1 .. Len(c), m \in 1 .. Len(u) :
        IsReceipt(c[k]) /\ IsEvent(u[m]) => c[k].event # u[m].event
  BY <1>1 DEF Once
<1> QED
  BY <1>2, <1>3 DEF Once

LEMMA OnceServed ==
  ASSUME NEW d, NEW u, NEW v, Len(u) \in Nat, Once(d, u), Len(v) = Len(u) - 1,
         \A k \in 1 .. Len(u) - 1 : v[k] = u[k + 1]
  PROVE  Once(d, v)
<1>1. \A k \in 1 .. Len(v) : k + 1 \in 1 .. Len(u) /\ v[k] = u[k + 1]
  OBVIOUS
<1>2. ASSUME NEW k \in 1 .. Len(v), NEW m \in 1 .. Len(v),
             IsEvent(v[k]), IsEvent(v[m]), k # m
      PROVE  v[k].event # v[m].event
  <2>1. k + 1 # m + 1 /\ v[k] = u[k + 1] /\ v[m] = u[m + 1]
    BY <1>1, <1>2
  <2> QED
    BY <1>1, <1>2, <2>1 DEF Once
<1>3. \A k \in 1 .. Len(d), m \in 1 .. Len(v) :
        IsReceipt(d[k]) /\ IsEvent(v[m]) => d[k].event # v[m].event
  BY <1>1 DEF Once
<1> QED
  BY <1>2, <1>3 DEF Once

LEMMA OnceAnswered ==
  ASSUME NEW c, NEW d, NEW u, NEW f, Len(d) \in Nat, Once(d, u),
         Len(c) = Len(d) + 1, c[Len(d) + 1] = f,
         \A k \in 1 .. Len(d) : c[k] = d[k],
         IsReceipt(f) => /\ \A k \in 1 .. Len(d) : IsReceipt(d[k]) => d[k].event # f.event
                         /\ \A k \in 1 .. Len(u) : IsEvent(u[k]) => u[k].event # f.event
  PROVE  Once(c, u)
<1>1. \A k \in 1 .. Len(c) : k = Len(d) + 1 \/ k \in 1 .. Len(d)
  OBVIOUS
<1>2. \A k, m \in 1 .. Len(c) :
        IsReceipt(c[k]) /\ IsReceipt(c[m]) /\ k # m => c[k].event # c[m].event
  BY <1>1 DEF Once
<1>3. \A k \in 1 .. Len(c), m \in 1 .. Len(u) :
        IsReceipt(c[k]) /\ IsEvent(u[m]) => c[k].event # u[m].event
  BY <1>1 DEF Once
<1> QED
  BY <1>2, <1>3 DEF Once

LEMMA OnceDispatched ==
  ASSUME NEW c, NEW d, NEW u, Len(d) \in Nat, Len(c) \in Nat, Once(d, u),
         \A k \in 1 .. Len(c) : IsReceipt(c[k]) => k \in 1 .. Len(d) /\ c[k] = d[k]
  PROVE  Once(c, u)
BY DEF Once

\* A frame written to the live stream.
LEMMA WrittenKeeps ==
  ASSUME DeliveryInvariant, KeepsStored, live, NEW f \in UpFrame, Written(f),
         UNCHANGED <<stream, live, down, registered>>,
         \A e \in ConnectorEvent : Journaled(e) => Journaled(e)',
         IsEvent(f) => ~Journaled(f.event) /\ Journaled(f.event)'
  PROVE  Connected' /\ Pending'
<1> DEFINE new == Len(up[stream]) + 1
<1>1. stream \in Stream /\ up[stream] \in Seq(UpFrame) /\ Len(up[stream]) \in Nat
  BY LenProperties DEF DeliveryInvariant, StreamTyped, Connected, Stream
<1>2. /\ Len(up'[stream]) = new /\ up'[stream][new] = f
      /\ \A k \in 1 .. Len(up[stream]) : up'[stream][k] = up[stream][k]
      /\ \A n \in Stream \ {stream} : up'[n] = up[n]
      /\ up'[stream] \in Seq(UpFrame)
  BY <1>1 DEF Written
<1>3. Connected'
  <2>1. up'[stream] # <<>>
    BY <1>1, <1>2
  <2>2. registered[stream] = 0 => up'[stream][1] = Registration
    <3>1. registered[stream] = 0 => up[stream] # <<>> /\ up[stream][1] = Registration
      BY <1>1 DEF DeliveryInvariant, Connected
    <3>2. up[stream] # <<>> => 1 \in 1 .. Len(up[stream])
      BY <1>1, EmptySeq
    <3> QED
      BY <3>1, <3>2, <1>2
  <2> QED
    BY <1>1, <1>2, <2>1, <2>2 DEF DeliveryInvariant, Connected, StreamTyped
<1>4. Pending'
  <2>1. /\ \A k \in 1 .. Len(down) :
             IsReceipt(down[k]) => Journaled(down[k].event) /\ Stored(down[k].event)
        /\ \A k \in 1 .. Len(up[stream]) :
             IsEvent(up[stream][k]) => Journaled(up[stream][k].event)
        /\ Once(down, up[stream])
    BY DEF DeliveryInvariant, Pending
  <2>2. \A k \in 1 .. Len(down) : IsReceipt(down[k]) => down[k].event \in ConnectorEvent
    BY DownFrameKinds, ElementOfSeq DEF DeliveryInvariant, StreamTyped, IsReceipt
  <2>3. \A k \in 1 .. Len(up[stream]) :
          IsEvent(up[stream][k]) => up[stream][k].event \in ConnectorEvent
    BY <1>1, UpFrameKinds, ElementOfSeq DEF IsEvent
  <2>4. Once(down, up'[stream])
    <3>1. IsEvent(f) =>
            /\ \A k \in 1 .. Len(down) : IsReceipt(down[k]) => down[k].event # f.event
            /\ \A k \in 1 .. Len(up[stream]) : IsEvent(up[stream][k]) => up[stream][k].event # f.event
      BY <2>1
    <3>2. /\ Len(up[stream]) \in Nat /\ Len(up'[stream]) = Len(up[stream]) + 1
          /\ up'[stream][Len(up[stream]) + 1] = f
          /\ \A k \in 1 .. Len(up[stream]) : up'[stream][k] = up[stream][k]
      BY <1>1, <1>2
    <3>3. Once(down, up[stream])
      BY <2>1
    <3> QED
      BY <3>1, <3>2, <3>3, OnceWritten
  <2>5. \A k \in 1 .. Len(down) :
          IsReceipt(down[k]) => Journaled(down[k].event)' /\ Stored(down[k].event)'
    BY <2>1, <2>2 DEF KeepsStored, Journaled, Stored
  <2>6. \A k \in 1 .. new : IsEvent(up'[stream][k]) => Contains(journal', up'[stream][k].event)
    <3> SUFFICES ASSUME NEW k \in 1 .. new, IsEvent(up'[stream][k])
                 PROVE  Contains(journal', up'[stream][k].event)
      OBVIOUS
    <3>1. CASE k = new
      BY <1>2, <3>1 DEF Journaled
    <3>2. CASE k \in 1 .. Len(up[stream])
      BY <1>2, <2>1, <2>3, <3>2 DEF Journaled
    <3> QED
      BY <1>1, <3>1, <3>2
  <2> QED
    BY <1>2, <2>4, <2>5, <2>6 DEF Pending, Journaled, Stored
<1> QED
  BY <1>3, <1>4

\* The node takes a frame that is on its way down; a receipt frees its event.
LEMMA TakenKeeps ==
  ASSUME DeliveryInvariant, KeepsStored, live, down # <<>>, down' = Tail(down),
         UNCHANGED <<stream, live, up, registered>>,
         \A e \in ConnectorEvent :
           Journaled(e) /\ ~(IsReceipt(down[1]) /\ e = down[1].event) => Journaled(e)'
  PROVE  Connected' /\ Pending' /\ down' \in Seq(DownFrame)
<1>1. /\ Len(down) \in Nat \ {0} /\ down' \in Seq(DownFrame) /\ Len(down') = Len(down) - 1
      /\ \A k \in 1 .. Len(down) - 1 : down'[k] = down[k + 1]
  BY HeadTailProperties, LenProperties, EmptySeq DEF DeliveryInvariant, StreamTyped
<1>2. Connected'
  BY DEF DeliveryInvariant, Connected
<1>3. Pending'
  <2>1. /\ \A k \in 1 .. Len(down) :
             IsReceipt(down[k]) => Journaled(down[k].event) /\ Stored(down[k].event)
        /\ \A k \in 1 .. Len(up[stream]) :
             IsEvent(up[stream][k]) => Journaled(up[stream][k].event)
        /\ Once(down, up[stream])
    BY DEF DeliveryInvariant, Pending
  <2>2. \A k \in 1 .. Len(down) : IsReceipt(down[k]) => down[k].event \in ConnectorEvent
    BY DownFrameKinds, ElementOfSeq DEF DeliveryInvariant, StreamTyped, IsReceipt
  <2>3. stream \in Stream
    BY DEF DeliveryInvariant, Connected, StreamTyped, Stream
  <2>4. \A k \in 1 .. Len(up[stream]) :
          IsEvent(up[stream][k]) => up[stream][k].event \in ConnectorEvent
    BY <2>3, UpFrameKinds, ElementOfSeq DEF DeliveryInvariant, StreamTyped, IsEvent
  <2>5. Once(down', up[stream])
    BY <1>1, <2>1, OnceTaken
  <2>6. ASSUME NEW k \in 1 .. Len(down'), IsReceipt(down'[k])
        PROVE  /\ Contains(journal', down'[k].event)
               /\ \E n \in DOMAIN events' : events'[n].id = down'[k].event.id
    <3>1. /\ k + 1 \in 1 .. Len(down) /\ k + 1 # 1 /\ 1 \in 1 .. Len(down)
          /\ down'[k] = down[k + 1]
      BY <1>1
    <3>2. /\ IsReceipt(down[k + 1]) /\ down[k + 1].event \in ConnectorEvent
          /\ Journaled(down[k + 1].event) /\ Stored(down[k + 1].event)
      BY <2>1, <2>2, <2>6, <3>1
    <3>3. ~(IsReceipt(down[1]) /\ down[k + 1].event = down[1].event)
      BY <2>1, <3>1, <3>2 DEF Once
    <3>4. Contains(journal', down[k + 1].event)
      BY <3>2, <3>3 DEF Journaled
    <3>5. \E n \in DOMAIN events' : events'[n].id = down[k + 1].event.id
      BY <3>2 DEF KeepsStored, Stored
    <3> QED
      BY <3>1, <3>4, <3>5
  <2>7. \A k \in 1 .. Len(up[stream]) :
          IsEvent(up[stream][k]) => Journaled(up[stream][k].event)'
    <3> SUFFICES ASSUME NEW k \in 1 .. Len(up[stream]), IsEvent(up[stream][k])
                 PROVE  Journaled(up[stream][k].event)'
      OBVIOUS
    <3>1. ~(IsReceipt(down[1]) /\ up[stream][k].event = down[1].event)
      BY <1>1, <2>1 DEF Once
    <3> QED
      BY <2>1, <2>4, <3>1
  <2> QED
    BY <2>5, <2>6, <2>7 DEF Pending, Journaled, Stored
<1> QED
  BY <1>1, <1>2, <1>3
----------------------------------------------------------------------------
\* What has taken effect stays so.
LEMMA EffectsStay ==
  ASSUME DeliveryInvariant, \A r \in Request : HasRun(r) => HasRun(r)', done \subseteq done'
  PROVE  /\ \A x \in Dispatch : TookEffect(x) => TookEffect(x)'
         /\ outbox' = outbox => DeliveredTookEffect'
         /\ \A f \in held : f.accepted => TookEffect(f.dispatch)'
         /\ up' = up => \A n \in Stream : \A k \in 1 .. Len(up[n]) :
              up[n][k].kind = "ack" /\ up[n][k].accepted => TookEffect(up[n][k].dispatch)'
<1>1. \A x \in Dispatch : TookEffect(x) => TookEffect(x)'
  BY DispatchKinds DEF TookEffect
<1>2. outbox' = outbox => DeliveredTookEffect'
  BY <1>1 DEF DeliveryInvariant, DeliveredTookEffect, TookEffect
<1>3. \A f \in held : f.accepted => TookEffect(f.dispatch)'
  <2>1. \A f \in held : f.dispatch \in Dispatch
    BY DEF DeliveryInvariant, ProcessTyped, Frame
  <2> QED
    BY <1>1, <2>1 DEF DeliveryInvariant, Effective, TookEffect
<1>4. ASSUME up' = up, NEW n \in Stream, NEW k \in 1 .. Len(up[n]),
             up[n][k].kind = "ack", up[n][k].accepted
      PROVE  TookEffect(up[n][k].dispatch)'
  <2>1. up[n][k].dispatch \in Dispatch
    BY <1>4, UpFrameKinds, ElementOfSeq DEF DeliveryInvariant, StreamTyped
  <2>2. TookEffect(up[n][k].dispatch)
    BY <1>4 DEF DeliveryInvariant, Effective
  <2> QED
    BY <1>1, <1>4, <2>1, <2>2 DEF TookEffect
<1> QED
  BY <1>1, <1>2, <1>3, <1>4

LEMMA HermesBeginsStep ==
  ASSUME DeliveryInvariant, KeepsStored, NEW r \in Request, HermesBegins(r)
  PROVE  DeliveryInvariant'
<1>1. /\ task[r] = "starting" /\ task' = [task EXCEPT ![r] = "begun"]
      /\ run' = IF HasRun(r) THEN run ELSE [run EXCEPT ![r] = <<>>]
      /\ UNCHANGED <<done, read, last, tries, runs, journal, waiting, calls, held, submissions>>
      /\ UNCHANGED <<streams, connection, outbox, events>>
  BY DEF HermesBegins, vars
<1>2. UNCHANGED <<stream, live, up, down, registered, serving>>
  BY <1>1 DEF streams
<1>3. /\ HasRun(r)' /\ \A q \in Request : HasRun(q) => HasRun(q)' /\ run'[q] = run[q]
      /\ \A q \in Request \ {r} : HasRun(q)' => HasRun(q)
      /\ ~HasRun(r) => run'[r] = <<>>
      /\ run' \in [Request -> Seq(NativeEvent) \cup {NoRun}]
  BY <1>1, EmptyRun DEF DeliveryInvariant, HermesTyped, HasRun
<1>4. "begun" \in Early /\ task[r] \in Early
  BY <1>1 DEF Early
<1>5. JournalFollows' /\ task' \in [Request -> Early \cup {"uncertain", "streaming", "ended"}]
  BY <1>1, <1>4, EarlyMove
<1>6. /\ task'[r] = "begun" /\ \A q \in Request \ {r} : task'[q] = task[q]
  BY <1>1 DEF DeliveryInvariant, ProcessTyped
<1>7. HermesTyped' /\ ProcessTyped' /\ StreamTyped' /\ Connected' /\ Pending'
  <2>1. HermesTyped'
    <3>1. ASSUME NEW q \in Request, HasRun(q)'
          PROVE  /\ Len(run'[q]) <= MaxNative
                 /\ \A k \in 1 .. Len(run'[q]) :
                      run'[q][k].source = 2 * k /\ run'[q][k].request = q
      <4>1. CASE HasRun(q)
        BY <1>3, <4>1 DEF DeliveryInvariant, HermesTyped
      <4>2. CASE ~HasRun(q)
        BY <1>3, <3>1, <4>2, EmptyRun, DeliveryAssumption
      <4> QED
        BY <4>1, <4>2
    <3> QED
      BY <1>1, <1>3, <3>1 DEF DeliveryInvariant, HermesTyped
  <2>2. ProcessTyped'
    BY <1>1, <1>5 DEF DeliveryInvariant, ProcessTyped
  <2> QED
    BY <1>1, <1>2, <2>1, <2>2, Same
<1>8. Reading'
  <2> SUFFICES ASSUME NEW q \in Request
               PROVE  /\ IF HasRun(q)' THEN read[q] <= Len(run'[q]) ELSE read[q] = 0
                      /\ Advanced(task'[q], read[q], last[q], tries[q])
    BY <1>1 DEF Reading
  <2>1. Advanced(task[q], read[q], last[q], tries[q])
    BY DEF DeliveryInvariant, Reading
  <2>2. Advanced(task'[q], read[q], last[q], tries[q])
    BY <1>1, <1>6, <2>1 DEF Advanced, Early
  <2>3. CASE q = r /\ ~HasRun(r)
    BY <1>3, <2>2, <2>3, EmptyRun DEF DeliveryInvariant, Reading
  <2>4. CASE q # r \/ HasRun(r)
    BY <1>3, <2>2, <2>4 DEF DeliveryInvariant, Reading
  <2> QED
    BY <2>3, <2>4
<1>9. EventsRetained'
  <2> SUFFICES ASSUME NEW q \in Request, NEW k \in 1 .. read[q]
               PROVE  Journaled(run[q][k])' \/ Stored(run[q][k])'
    BY <1>1 DEF EventsRetained
  <2>1. HasRun(q) /\ run[q][k] \in ConnectorEvent
    BY EventRead DEF DeliveryInvariant
  <2>2. run'[q] = run[q]
    BY <1>3, <2>1
  <2> QED
    BY <1>1, <2>2 DEF DeliveryInvariant, EventsRetained, Journaled, Stored
<1>10. DeliveredTookEffect' /\ Effective'
  <2>1. Effective'
    <3>1. \A q \in Request :
            task'[q] \in {"begun", "accepted", "streaming", "ended"} => HasRun(q)'
      BY <1>3, <1>6 DEF DeliveryInvariant, Effective
    <3> QED
      BY <1>1, <1>2, <1>3, <3>1, EffectsStay DEF DeliveryInvariant, Effective, TookEffect
  <2> QED
    BY <1>1, <1>3, <2>1, EffectsStay
<1>11. Submissions'
  BY <1>1, <1>6 DEF DeliveryInvariant, Submissions
<1> QED
  BY <1>5, <1>7, <1>8, <1>9, <1>10, <1>11 DEF DeliveryInvariant

LEMMA SubmittedStep ==
  ASSUME DeliveryInvariant, KeepsStored, NEW r \in Request, Submitted(r) \/ Refused(r)
  PROVE  DeliveryInvariant'
<1> DEFINE accepted == task[r] = "begun"
<1>1. /\ task[r] \in {"starting", "begun"}
      /\ task' = [task EXCEPT ![r] = IF accepted THEN "accepted" ELSE "rejected"]
      /\ held' = held \cup {Ack(Send(r), accepted)}
      /\ runs' = IF accepted THEN runs \cup {r} ELSE runs
      /\ UNCHANGED <<run, done, read, last, tries, journal, waiting, calls, submissions>>
      /\ UNCHANGED <<streams, connection, outbox, events>>
  BY DEF Submitted, Refused, vars, hermesVars
<1>2. UNCHANGED <<stream, live, up, down, registered, serving>>
  BY <1>1 DEF streams
<1>3. Ack(Send(r), accepted) \in Frame /\ Ack(Send(r), accepted).accepted = accepted
      /\ Ack(Send(r), accepted).dispatch = Send(r)
  BY DispatchKinds DEF Ack, Frame
<1>4. /\ JournalFollows' /\ Reading'
      /\ task' \in [Request -> Early \cup {"uncertain", "streaming", "ended"}]
  BY <1>1, EarlyMove DEF Early
<1>5. /\ task'[r] = IF accepted THEN "accepted" ELSE "rejected"
      /\ \A q \in Request \ {r} : task'[q] = task[q]
  BY <1>1 DEF DeliveryInvariant, ProcessTyped
<1>6. ProcessTyped'
  BY <1>1, <1>3, <1>4 DEF DeliveryInvariant, ProcessTyped
<1>7. HermesTyped' /\ StreamTyped' /\ Connected' /\ Pending' /\ EventsRetained'
      /\ DeliveredTookEffect'
  BY <1>1, <1>2, Same DEF hermesVars
<1>8. Effective'
  <2>1. \A q \in Request :
          task'[q] \in {"begun", "accepted", "streaming", "ended"} => HasRun(q)'
    BY <1>1, <1>5 DEF DeliveryInvariant, Effective, HasRun
  <2>2. accepted => TookEffect(Send(r))
    BY DispatchKinds DEF DeliveryInvariant, Effective, TookEffect
  <2>3. \A f \in held' : f.accepted => TookEffect(f.dispatch)
    BY <1>1, <1>3, <2>2 DEF DeliveryInvariant, Effective
  <2>4. /\ \A n \in Stream : \A k \in 1 .. Len(up[n]) :
             up[n][k].kind = "ack" /\ up[n][k].accepted => TookEffect(up[n][k].dispatch)
        /\ \A x \in Dispatch : calls[x] > 0 => x[1] # "send"
    BY DEF DeliveryInvariant, Effective
  <2> QED
    BY <1>1, <1>2, <2>1, <2>3, <2>4 DEF Effective, TookEffect, HasRun
<1>9. Submissions'
  BY <1>1, <1>5 DEF DeliveryInvariant, Submissions
<1> QED
  BY <1>4, <1>6, <1>7, <1>8, <1>9 DEF DeliveryInvariant

LEMMA FinishCallStep ==
  ASSUME DeliveryInvariant, KeepsStored, NEW x \in Dispatch, NEW accepted \in BOOLEAN,
         FinishCall(x, accepted)
  PROVE  DeliveryInvariant'
<1>1. /\ calls[x] > 0 /\ calls' = [calls EXCEPT ![x] = @ - 1]
      /\ held' = held \cup {Ack(x, accepted)}
      /\ done' \in {done, done \cup {x}} /\ (accepted => x \in done')
      /\ UNCHANGED <<run, task, read, last, tries, runs, journal, waiting, submissions>>
      /\ UNCHANGED <<streams, connection, outbox, events>>
  BY DEF FinishCall, vars
<1>2. UNCHANGED <<stream, live, up, down, registered, serving>>
  BY <1>1 DEF streams
<1>3. Ack(x, accepted) \in Frame /\ Ack(x, accepted).accepted = accepted
      /\ Ack(x, accepted).dispatch = x
  BY DEF Ack, Frame
<1>4. /\ calls' \in [Dispatch -> Nat]
      /\ \A y \in Dispatch : calls'[y] > 0 => calls[y] > 0
  BY <1>1 DEF DeliveryInvariant, ProcessTyped
<1>5. HermesTyped' /\ ProcessTyped'
  BY <1>1, <1>3, <1>4 DEF DeliveryInvariant, HermesTyped, ProcessTyped, HasRun
<1>6. /\ StreamTyped' /\ Connected' /\ Pending' /\ EventsRetained' /\ JournalFollows'
      /\ Reading' /\ Submissions'
  BY <1>1, <1>2, Same
<1>7. /\ DeliveredTookEffect'
      /\ \A f \in held : f.accepted => TookEffect(f.dispatch)'
      /\ \A n \in Stream : \A k \in 1 .. Len(up[n]) :
           up[n][k].kind = "ack" /\ up[n][k].accepted => TookEffect(up[n][k].dispatch)'
  BY <1>1, <1>2, EffectsStay DEF HasRun
<1>8. Effective'
  <2>1. /\ x[1] # "send"
        /\ \A y \in Dispatch : calls'[y] > 0 => y[1] # "send"
    BY <1>1, <1>4 DEF DeliveryInvariant, Effective
  <2>2. accepted => TookEffect(x)'
    BY <1>1, <2>1 DEF TookEffect
  <2>3. \A f \in held' : f.accepted => TookEffect(f.dispatch)'
    BY <1>1, <1>3, <1>7, <2>2
  <2>4. \A q \in Request :
          task'[q] \in {"begun", "accepted", "streaming", "ended"} => HasRun(q)'
    BY <1>1 DEF DeliveryInvariant, Effective, HasRun
  <2> QED
    BY <1>2, <1>7, <2>1, <2>3, <2>4 DEF Effective, TookEffect
<1> QED
  BY <1>5, <1>6, <1>7, <1>8 DEF DeliveryInvariant

LEMMA SendAckStep ==
  ASSUME DeliveryInvariant, KeepsStored, NEW f \in held, SendAck(f)
  PROVE  DeliveryInvariant'
<1>1. /\ live /\ held' = held \ {f} /\ Write(<<f>>)
      /\ task' = [r \in Request |-> IF f = Ack(Send(r), TRUE) /\ task[r] = "accepted"
                                    THEN "streaming" ELSE task[r]]
      /\ UNCHANGED <<run, done, read, last, tries, runs, journal, waiting, calls, submissions>>
      /\ UNCHANGED <<stream, live, down, registered, serving, connection, outbox, events>>
  BY DEF SendAck, vars, hermesVars
<1>2. f \in UpFrame /\ f.kind = "ack" /\ f.dispatch \in Dispatch
  BY DEF DeliveryInvariant, ProcessTyped, Frame, UpFrame
<1>3. stream \in Stream
  BY <1>1 DEF DeliveryInvariant, Connected, StreamTyped, Stream
<1>4. Written(f)
  BY <1>1, <1>2, <1>3, WriteEffect DEF DeliveryInvariant
<1>5. /\ task' \in [Request -> Early \cup {"uncertain", "streaming", "ended"}]
      /\ \A r \in Request : task'[r] = task[r] \/ (task[r] = "accepted" /\ task'[r] = "streaming")
  BY <1>1 DEF DeliveryInvariant, ProcessTyped
<1>6. Connected' /\ Pending'
  <2>1. ~IsEvent(f)
    BY <1>2 DEF IsEvent
  <2>2. \A e \in ConnectorEvent : Journaled(e) => Journaled(e)'
    BY <1>1 DEF Journaled
  <2> QED
    BY <1>1, <1>2, <1>4, <2>1, <2>2, WrittenKeeps
<1>7. HermesTyped' /\ EventsRetained' /\ DeliveredTookEffect'
  BY <1>1, Same DEF hermesVars
<1>8. ProcessTyped' /\ StreamTyped'
  BY <1>1, <1>4, <1>5 DEF DeliveryInvariant, ProcessTyped, StreamTyped, Written
<1>9. Reading'
  <2> SUFFICES ASSUME NEW r \in Request
               PROVE  /\ IF HasRun(r) THEN read[r] <= Len(run[r]) ELSE read[r] = 0
                      /\ Advanced(task'[r], read[r], last[r], tries[r])
    BY <1>1 DEF Reading, HasRun
  <2>1. /\ Advanced(task[r], read[r], last[r], tries[r])
        /\ IF HasRun(r) THEN read[r] <= Len(run[r]) ELSE read[r] = 0
    BY DEF DeliveryInvariant, Reading
  <2>2. CASE task[r] = "accepted" /\ task'[r] = "streaming"
    BY <2>1, <2>2 DEF Advanced, Early
  <2> QED
    BY <1>5, <2>1, <2>2
<1>10. JournalFollows'
  BY <1>1, <1>5, EventFacts DEF DeliveryInvariant, JournalFollows, Journaled, Early
<1>11. Effective'
  <2>1. \A n \in Stream : \A k \in 1 .. Len(up'[n]) :
          up'[n][k].kind = "ack" /\ up'[n][k].accepted => TookEffect(up'[n][k].dispatch)
    <3> SUFFICES ASSUME NEW n \in Stream, NEW k \in 1 .. Len(up'[n]),
                        up'[n][k].kind = "ack", up'[n][k].accepted
                 PROVE  TookEffect(up'[n][k].dispatch)
      OBVIOUS
    <3>1. CASE n = stream /\ k = Len(up[stream]) + 1
      BY <1>4, <3>1 DEF Written, DeliveryInvariant, Effective
    <3>2. CASE n # stream
      BY <1>4, <3>2 DEF Written, DeliveryInvariant, Effective
    <3>3. CASE n = stream /\ k \in 1 .. Len(up[stream])
      BY <1>4, <3>3 DEF Written, DeliveryInvariant, Effective
    <3>4. Len(up[stream]) \in Nat
      BY <1>3, LenProperties DEF DeliveryInvariant, StreamTyped
    <3> QED
      BY <1>4, <3>1, <3>2, <3>3, <3>4 DEF Written
  <2>2. \A r \in Request :
          task'[r] \in {"begun", "accepted", "streaming", "ended"} => HasRun(r)
    BY <1>5 DEF DeliveryInvariant, Effective
  <2> QED
    BY <1>1, <2>1, <2>2 DEF DeliveryInvariant, Effective, TookEffect, HasRun
<1>12. Submissions'
  BY <1>1, <1>5 DEF DeliveryInvariant, Submissions
<1> QED
  BY <1>6, <1>7, <1>8, <1>9, <1>10, <1>11, <1>12 DEF DeliveryInvariant

\* A dispatch that arrives.
LEMMA TakeDispatchStep ==
  ASSUME DeliveryInvariant, KeepsStored, NEW x \in Dispatch,
         IF x[1] = "send" THEN TakeSend(x[2]) ELSE TakeControl(x),
         live, down # <<>>, ~IsReceipt(down[1]), down' = Tail(down),
         UNCHANGED <<run, done, read, last, tries, runs, journal, waiting>>,
         UNCHANGED <<stream, live, up, registered, serving, connection, outbox, events>>
  PROVE  DeliveryInvariant'
<1>1. Connected' /\ Pending' /\ down' \in Seq(DownFrame)
  BY TakenKeeps DEF Journaled
<1>2. HermesTyped' /\ EventsRetained' /\ DeliveredTookEffect'
  BY Same DEF hermesVars
<1>3. StreamTyped'
  BY <1>1 DEF DeliveryInvariant, StreamTyped
<1>4. CASE x[1] = "send" /\ MaySubmit(x[2])
  <2> DEFINE r == x[2]
  <2>1. r \in Request /\ task[r] = "none" /\ task' = [task EXCEPT ![r] = "starting"]
        /\ submissions' = [submissions EXCEPT ![r] = @ + 1] /\ UNCHANGED <<held, calls>>
    BY <1>4, DispatchKinds DEF TakeSend, MaySubmit
  <2>2. /\ JournalFollows' /\ Reading'
        /\ task' \in [Request -> Early \cup {"uncertain", "streaming", "ended"}]
    BY <2>1, EarlyMove DEF Early
  <2>3. task'[r] = "starting" /\ \A q \in Request \ {r} : task'[q] = task[q]
    BY <2>1 DEF DeliveryInvariant, ProcessTyped
  <2>4. ProcessTyped'
    BY <2>1, <2>2 DEF DeliveryInvariant, ProcessTyped
  <2>5. Effective'
    <3>1. \A q \in Request :
            task'[q] \in {"begun", "accepted", "streaming", "ended"} => HasRun(q)
      BY <2>3 DEF DeliveryInvariant, Effective
    <3> QED
      BY <2>1, <3>1 DEF DeliveryInvariant, Effective, TookEffect, HasRun
  <2>6. Submissions'
    BY <2>1, <2>3 DEF DeliveryInvariant, Submissions, ProcessTyped
  <2> QED
    BY <1>1, <1>2, <1>3, <2>2, <2>4, <2>5, <2>6 DEF DeliveryInvariant
<1>5. CASE ~(x[1] = "send" /\ MaySubmit(x[2]))
  <2>1. /\ UNCHANGED <<task, submissions>>
        /\ \/ held' = held
           \/ \E f \in Frame : /\ held' = held \cup {f}
                               /\ f.accepted => TookEffect(f.dispatch)
        /\ \/ calls' = calls
           \/ x[1] # "send" /\ calls' = [calls EXCEPT ![x] = @ + 1]
    <3>1. CASE x[1] = "send"
      <4>1. x[2] \in Request /\ x = Send(x[2])
        BY <3>1, DispatchKinds
      <4>2. \A b \in BOOLEAN : /\ Ack(x, b) \in Frame /\ Ack(x, b).accepted = b
                               /\ Ack(x, b).dispatch = x
        BY DEF Ack, Frame
      <4>3. task[x[2]] \in {"accepted", "streaming", "ended"} => TookEffect(x)
        BY <3>1, <4>1 DEF DeliveryInvariant, Effective, TookEffect
      <4>4. \/ held' = held
            \/ task[x[2]] \in {"accepted", "streaming", "ended"} /\ held' = held \cup {Ack(x, TRUE)}
            \/ held' = held \cup {Ack(x, FALSE)}
        BY <1>5, <3>1, <4>1 DEF TakeSend
      <4>5. UNCHANGED <<task, submissions, calls>>
        BY <1>5, <3>1 DEF TakeSend
      <4> QED
        BY <4>2, <4>3, <4>4, <4>5
    <3>2. CASE x[1] # "send"
      <4>1. Ack(x, FALSE) \in Frame /\ Ack(x, FALSE).accepted = FALSE
        BY DEF Ack, Frame
      <4> QED
        BY <3>2, <4>1 DEF TakeControl
    <3> QED
      BY <3>1, <3>2
  <2>2. calls' \in [Dispatch -> Nat] /\ \A y \in Dispatch : calls'[y] > 0 => y[1] # "send"
    <3>1. calls \in [Dispatch -> Nat] /\ \A y \in Dispatch : calls[y] > 0 => y[1] # "send"
      BY DEF DeliveryInvariant, ProcessTyped, Effective
    <3>2. calls' = calls \/ (x[1] # "send" /\ calls' = [calls EXCEPT ![x] = @ + 1])
      BY <2>1
    <3> QED
      BY <3>1, <3>2
  <2>3. ProcessTyped'
    BY <2>1, <2>2 DEF DeliveryInvariant, ProcessTyped
  <2>4. JournalFollows' /\ Reading' /\ Submissions'
    BY <2>1, Same
  <2>5. Effective'
    <3>1. \A f \in held' : f.accepted => TookEffect(f.dispatch)
      BY <2>1 DEF DeliveryInvariant, Effective
    <3> QED
      BY <2>1, <2>2, <3>1 DEF DeliveryInvariant, Effective, TookEffect, HasRun
  <2> QED
    BY <1>1, <1>2, <1>3, <2>3, <2>4, <2>5 DEF DeliveryInvariant
<1> QED
  BY <1>4, <1>5

\* One event leaves a sequence of them.
LEMMA RemoveEffect ==
  ASSUME NEW S, NEW s \in Seq(S), NEW k \in DOMAIN s
  PROVE  /\ RemoveAt(s, k) \in Seq(S) /\ Len(RemoveAt(s, k)) = Len(s) - 1
         /\ \A i \in 1 .. Len(s) - 1 : RemoveAt(s, k)[i] = IF i < k THEN s[i] ELSE s[i + 1]
         /\ \A e : Contains(RemoveAt(s, k), e) => Contains(s, e)
         /\ \A e : Contains(s, e) /\ e # s[k] => Contains(RemoveAt(s, k), e)
         /\ Distinct(s) => Distinct(RemoveAt(s, k))
<1> DEFINE a == SubSeq(s, 1, k - 1)
           b == SubSeq(s, k + 1, Len(s))
           t == a \o b
<1>1. Len(s) \in Nat /\ DOMAIN s = 1 .. Len(s) /\ k \in 1 .. Len(s)
  BY LenProperties
<1>2. /\ a \in Seq(S) /\ Len(a) = k - 1
      /\ \A i \in 1 .. k - 1 : a[i] = s[i]
  BY <1>1, SubSeqProperties
<1>3. /\ b \in Seq(S) /\ Len(b) = Len(s) - k
      /\ \A i \in 1 .. Len(s) - k : b[i] = s[k + i]
  BY <1>1, SubSeqProperties
<1> HIDE DEF a, b
<1>4. /\ t \in Seq(S) /\ Len(t) = Len(s) - 1
      /\ \A i \in 1 .. Len(t) : t[i] = IF i <= k - 1 THEN a[i] ELSE b[i - (k - 1)]
  <2>1. /\ a \o b \in Seq(S) /\ Len(a \o b) = Len(a) + Len(b)
        /\ \A i \in 1 .. Len(a) + Len(b) :
             (a \o b)[i] = IF i <= Len(a) THEN a[i] ELSE b[i - Len(a)]
    BY <1>2, <1>3, ConcatProperties
  <2>2. Len(a) + Len(b) = Len(s) - 1
    BY <1>1, <1>2, <1>3
  <2> QED
    BY <1>2, <2>1, <2>2
<1>5. RemoveAt(s, k) = t
  BY DEF RemoveAt, a, b
<1> HIDE DEF t
<1>6. \A i \in 1 .. Len(t) : t[i] = IF i < k THEN s[i] ELSE s[i + 1]
  <2> SUFFICES ASSUME NEW i \in 1 .. Len(t)
               PROVE  t[i] = IF i < k THEN s[i] ELSE s[i + 1]
    OBVIOUS
  <2>1. CASE i < k
    BY <1>1, <1>2, <1>4, <2>1
  <2>2. CASE ~(i < k)
    <3>1. i - (k - 1) \in 1 .. Len(s) - k /\ k + (i - (k - 1)) = i + 1 /\ ~(i <= k - 1)
      BY <1>1, <1>4, <2>2
    <3> QED
      BY <1>3, <1>4, <2>2, <3>1
  <2> QED
    BY <2>1, <2>2
<1>7. ASSUME NEW e, Contains(t, e)
      PROVE  Contains(s, e)
  <2>1. PICK i \in 1 .. Len(t) : t[i] = e
    BY <1>7 DEF Contains
  <2>2. i \in 1 .. Len(s) /\ i + 1 \in 1 .. Len(s)
    BY <1>1, <1>4
  <2> QED
    BY <1>6, <2>1, <2>2 DEF Contains
<1>8. ASSUME NEW e, Contains(s, e), e # s[k]
      PROVE  Contains(t, e)
  <2>1. PICK i \in 1 .. Len(s) : s[i] = e
    BY <1>8 DEF Contains
  <2>2. CASE i < k
    <3>1. i \in 1 .. Len(t)
      BY <1>1, <1>4, <2>2
    <3> QED
      BY <1>6, <2>1, <2>2, <3>1 DEF Contains
  <2>3. CASE i > k
    <3>1. i - 1 \in 1 .. Len(t) /\ ~(i - 1 < k) /\ (i - 1) + 1 = i
      BY <1>1, <1>4, <2>3
    <3> QED
      BY <1>6, <2>1, <3>1 DEF Contains
  <2> QED
    BY <1>1, <1>8, <2>1, <2>2, <2>3
<1>9. ASSUME Distinct(s), NEW i \in 1 .. Len(t), NEW j \in 1 .. Len(t), i # j
      PROVE  t[i] # t[j]
  <2>1. /\ t[i] = s[IF i < k THEN i ELSE i + 1] /\ t[j] = s[IF j < k THEN j ELSE j + 1]
        /\ (IF i < k THEN i ELSE i + 1) \in 1 .. Len(s)
        /\ (IF j < k THEN j ELSE j + 1) \in 1 .. Len(s)
        /\ (IF i < k THEN i ELSE i + 1) # (IF j < k THEN j ELSE j + 1)
    BY <1>1, <1>4, <1>6, <1>9
  <2> QED
    BY <1>9, <2>1 DEF Distinct
<1>10. Distinct(s) => Distinct(t)
  BY <1>9 DEF Distinct
<1> QED
  BY <1>4, <1>5, <1>6, <1>7, <1>8, <1>10

\* A receipt that arrives.
LEMMA TakeReceiptStep ==
  ASSUME DeliveryInvariant, KeepsStored, NEW e \in ConnectorEvent, TakeReceipt(e),
         live, down # <<>>, IsReceipt(down[1]), down[1].event = e, down' = Tail(down),
         UNCHANGED <<run, done>>,
         UNCHANGED <<stream, live, up, registered, serving, connection, outbox, events>>
  PROVE  DeliveryInvariant'
<1>1. /\ \E k \in DOMAIN journal : journal[k] = e /\ journal' = RemoveAt(journal, k)
      /\ runs' = IF e.type \in Terminal THEN runs \ {e.request} ELSE runs
      /\ UNCHANGED <<task, read, last, tries, waiting, calls, held, submissions>>
  BY DEF TakeReceipt
<1>2. /\ journal' \in Seq(ConnectorEvent) /\ Len(journal') = Len(journal) - 1
      /\ \A f : Journaled(f)' => Journaled(f)
      /\ \A f : Journaled(f) /\ f # e => Journaled(f)'
      /\ Distinct(journal')
  <2>1. PICK k \in DOMAIN journal : journal[k] = e /\ journal' = RemoveAt(journal, k)
    BY <1>1
  <2>2. journal \in Seq(ConnectorEvent) /\ Distinct(journal)
    BY DEF DeliveryInvariant, ProcessTyped
  <2> QED
    BY <2>1, <2>2, RemoveEffect DEF Journaled
<1>3. Connected' /\ Pending' /\ down' \in Seq(DownFrame)
  BY <1>2, TakenKeeps
<1>4. StreamTyped'
  BY <1>3 DEF DeliveryInvariant, StreamTyped
<1>5. ProcessTyped'
  <2>1. Len(journal) \in Nat
    BY LenProperties DEF DeliveryInvariant, ProcessTyped
  <2> QED
    BY <1>1, <1>2, <2>1, DeliveryAssumption DEF DeliveryInvariant, ProcessTyped
<1>6. HermesTyped' /\ Reading' /\ Effective' /\ DeliveredTookEffect' /\ Submissions'
  BY <1>1, Same DEF hermesVars
<1>7. Stored(e)
  <2>1. Len(down) \in Nat \ {0}
    BY LenProperties, EmptySeq DEF DeliveryInvariant, StreamTyped
  <2> QED
    BY <2>1 DEF DeliveryInvariant, Pending
<1>8. EventsRetained'
  <2> SUFFICES ASSUME NEW r \in Request, NEW k \in 1 .. read[r]
               PROVE  Journaled(run[r][k])' \/ Stored(run[r][k])'
    BY <1>1 DEF EventsRetained
  <2>1. Journaled(run[r][k]) \/ Stored(run[r][k])
    BY DEF DeliveryInvariant, EventsRetained
  <2> QED
    BY <1>2, <1>7, <2>1 DEF Journaled, Stored
<1>9. JournalFollows'
  BY <1>1, <1>2 DEF DeliveryInvariant, JournalFollows
<1> QED
  BY <1>3, <1>4, <1>5, <1>6, <1>8, <1>9 DEF DeliveryInvariant

\* The process exits, and its stream is gone.
LEMMA RestartStep ==
  ASSUME DeliveryInvariant, KeepsStored, Restart,
         UNCHANGED <<run, done, connection, outbox, events>>
  PROVE  DeliveryInvariant'
<1>1. /\ task' = [r \in Request |-> "none"] /\ read' = [r \in Request |-> 0]
      /\ last' = [r \in Request |-> 0] /\ tries' = [r \in Request |-> 0]
      /\ runs' = {} /\ journal' = <<>> /\ waiting' = {} /\ held' = {}
      /\ calls' = [x \in Dispatch |-> 0] /\ submissions' = [r \in Request |-> 0]
      /\ live' = FALSE /\ down' = <<>>
      /\ UNCHANGED <<stream, up, registered, serving>>
  BY DEF Restart, LoseStream
<1>2. <<>> \in Seq(ConnectorEvent) /\ <<>> \in Seq(DownFrame) /\ Len(<<>>) = 0
  BY EmptySeq
<1>3. ProcessTyped' /\ StreamTyped'
  <2>1. ProcessTyped'
    BY <1>1, <1>2, DeliveryAssumption DEF ProcessTyped, Early, Distinct
  <2>2. StreamTyped'
    BY <1>1, <1>2 DEF DeliveryInvariant, StreamTyped
  <2> QED
    BY <2>1, <2>2
<1>4. HermesTyped' /\ DeliveredTookEffect'
  BY Same DEF hermesVars
<1>5. Reading'
  <2>1. \A r \in Request : IF HasRun(r) THEN Len(run[r]) \in Nat ELSE TRUE
    BY EventRead DEF DeliveryInvariant
  <2>2. Advanced("none", 0, 0, 0)
    BY DeliveryAssumption DEF Advanced
  <2> QED
    BY <1>1, <2>1, <2>2 DEF Reading, HasRun
<1>6. Connected' /\ Pending'
  BY <1>1 DEF DeliveryInvariant, Connected, Pending
<1>7. EventsRetained' /\ Submissions'
  BY <1>1 DEF EventsRetained, Submissions
<1>8. JournalFollows'
  <2>1. \A e : ~Journaled(e)'
    BY <1>1, <1>2 DEF Journaled, Contains
  <2> QED
    BY <2>1 DEF JournalFollows
<1>9. Effective'
  BY <1>1 DEF DeliveryInvariant, Effective, TookEffect, HasRun
<1> QED
  BY <1>3, <1>4, <1>5, <1>6, <1>7, <1>8, <1>9 DEF DeliveryInvariant

LEMMA BreakStep ==
  ASSUME DeliveryInvariant, KeepsStored, Break
  PROVE  DeliveryInvariant'
<1>1. /\ live' = FALSE /\ down' = <<>>
      /\ UNCHANGED <<stream, up, registered, serving, connection, outbox, events>>
      /\ UNCHANGED hermesVars /\ UNCHANGED process
  BY DEF Break, LoseStream, vars
<1>2. UNCHANGED <<run, done, task, read, last, tries, journal, calls, held, submissions>>
  BY <1>1 DEF hermesVars, process
<1>3. <<>> \in Seq(DownFrame)
  BY EmptySeq
<1>4. StreamTyped' /\ Connected' /\ Pending'
  BY <1>1, <1>3 DEF DeliveryInvariant, StreamTyped, Connected, Pending
<1>5. /\ HermesTyped' /\ ProcessTyped' /\ Reading' /\ EventsRetained' /\ JournalFollows'
      /\ Effective' /\ DeliveredTookEffect' /\ Submissions'
  BY <1>1, <1>2, Same
<1> QED
  BY <1>4, <1>5 DEF DeliveryInvariant

LEMMA NodeReceivesStep ==
  ASSUME DeliveryInvariant, KeepsStored, NodeReceives
  PROVE  DeliveryInvariant'
<1> DEFINE frame == Head(down)
<1>1. /\ live /\ down # <<>> /\ UNCHANGED <<run, done, connection, outbox, events>>
      /\ IF Fatal(frame) THEN Restart
         ELSE /\ IF frame.kind = "receipt" THEN TakeReceipt(frame.event)
                 ELSE /\ IF frame.dispatch[1] = "send" THEN TakeSend(frame.dispatch[2])
                         ELSE TakeControl(frame.dispatch)
                      /\ UNCHANGED <<read, last, tries, runs, journal, waiting>>
              /\ down' = Tail(down)
              /\ UNCHANGED <<stream, live, up, registered, serving>>
  BY DEF NodeReceives, vars, hermesVars
<1>2. frame = down[1] /\ frame \in DownFrame
  BY <1>1, HeadTailProperties, LenProperties, EmptySeq DEF DeliveryInvariant, StreamTyped
<1> HIDE DEF frame
<1>3. CASE Fatal(frame)
  BY <1>1, <1>3, RestartStep
<1>4. CASE ~Fatal(frame) /\ frame.kind = "receipt"
  BY <1>1, <1>2, <1>4, TakeReceiptStep, DownFrameKinds DEF IsReceipt
<1>5. CASE ~Fatal(frame) /\ frame.kind # "receipt"
  <2>1. frame.kind = "dispatch" /\ frame.dispatch \in Dispatch
    BY <1>2, <1>5, DownFrameKinds DEF Fatal
  <2> QED
    BY <1>1, <1>2, <1>5, <2>1, TakeDispatchStep DEF IsReceipt
<1> QED
  BY <1>3, <1>4, <1>5
----------------------------------------------------------------------------
\* Event e of request r is emitted, and the task goes on in state s.
Emits(r, e, s, count, sequence, attempts) ==
  /\ e.request = r /\ EmitEvent(e) /\ CanEmit
  /\ task[r] \in {"starting", "begun", "streaming"}
  /\ task[r] = "streaming" => e.source > last[r]
  /\ s \in {"uncertain", "streaming", "ended"}
  /\ s # "uncertain" => task[r] = "streaming"
  /\ Advanced(s, count, sequence, attempts) /\ sequence >= last[r]
  /\ s = "streaming" => e.source <= sequence
  /\ \/ count = read[r]
     \/ HasRun(r) /\ count = read[r] + 1 /\ count <= Len(run[r]) /\ e = run[r][count]
  /\ task' = [task EXCEPT ![r] = s] /\ read' = [read EXCEPT ![r] = count]
  /\ last' = [last EXCEPT ![r] = sequence] /\ tries' = [tries EXCEPT ![r] = attempts]
  /\ UNCHANGED <<run, done, runs, calls, held, submissions>>
  /\ UNCHANGED <<stream, live, down, registered, serving, connection, outbox, events>>

LEMMA EmitStep ==
  ASSUME DeliveryInvariant, KeepsStored, NEW r \in Request, NEW e \in ConnectorEvent, NEW s,
         NEW count \in Nat, NEW sequence \in Nat, NEW attempts \in Nat,
         Emits(r, e, s, count, sequence, attempts)
  PROVE  DeliveryInvariant'
<1> USE DEF Emits
<1>1. Emitted(e)
  BY EmitEffect DEF DeliveryInvariant
<1>2. /\ task' \in [Request -> Early \cup {"uncertain", "streaming", "ended"}]
      /\ read' \in [Request -> Nat] /\ last' \in [Request -> Nat] /\ tries' \in [Request -> Nat]
      /\ task'[r] = s /\ read'[r] = count /\ last'[r] = sequence /\ tries'[r] = attempts
      /\ \A q \in Request \ {r} : /\ task'[q] = task[q] /\ read'[q] = read[q]
                                  /\ last'[q] = last[q] /\ tries'[q] = tries[q]
  BY DEF DeliveryInvariant, ProcessTyped
<1>3. ~Journaled(e)
  BY EventFacts DEF DeliveryInvariant, JournalFollows, ProcessTyped, Early
<1>4. \A f : Journaled(f) => Journaled(f)'
  BY <1>1 DEF Emitted
<1>5. Connected' /\ Pending'
  <2>1. CASE live
    <3>1. /\ EventFrame(e) \in UpFrame /\ Written(EventFrame(e))
          /\ EventFrame(e).kind = "event" /\ EventFrame(e).event = e
      BY <1>1, <2>1 DEF Emitted, EventFrame, UpFrame
    <3>2. Journaled(e)'
      BY <1>1 DEF Emitted
    <3>3. Contains(journal', EventFrame(e).event) /\ ~Contains(journal, EventFrame(e).event)
      BY <1>3, <3>1, <3>2 DEF Journaled
    <3> QED
      BY <1>4, <2>1, <3>1, <3>3, WrittenKeeps DEF Journaled
  <2>2. CASE ~live
    BY <1>1, <2>2 DEF Emitted, DeliveryInvariant, Connected, Pending
  <2> QED
    BY <2>1, <2>2 DEF DeliveryInvariant, StreamTyped
<1>6. StreamTyped'
  <2>1. up' \in [Stream -> Seq(UpFrame)]
    BY <1>1 DEF Emitted, Written, DeliveryInvariant, StreamTyped
  <2> QED
    BY <2>1 DEF DeliveryInvariant, StreamTyped
<1>7. ProcessTyped'
  <2>1. Len(journal) \in Nat
    BY LenProperties DEF DeliveryInvariant, ProcessTyped
  <2>2. journal' \in Seq(ConnectorEvent) /\ Len(journal') <= MaxJournal /\ waiting' \subseteq Request
    BY <1>1, <2>1, DeliveryAssumption DEF Emitted, CanEmit
  <2>3. Distinct(journal')
    BY <1>1, <1>3 DEF Emitted, DeliveryInvariant, ProcessTyped
  <2> QED
    BY <1>2, <2>2, <2>3 DEF DeliveryInvariant, ProcessTyped
<1>8. HermesTyped' /\ DeliveredTookEffect'
  BY Same DEF hermesVars
<1>9. Reading'
  <2> SUFFICES ASSUME NEW q \in Request
               PROVE  /\ IF HasRun(q) THEN read'[q] <= Len(run[q]) ELSE read'[q] = 0
                      /\ Advanced(task'[q], read'[q], last'[q], tries'[q])
    BY DEF Reading, HasRun
  <2>1. /\ Advanced(task[q], read[q], last[q], tries[q])
        /\ IF HasRun(q) THEN read[q] <= Len(run[q]) ELSE read[q] = 0
    BY DEF DeliveryInvariant, Reading
  <2> QED
    BY <1>2, <2>1
<1>10. EventsRetained'
  <2> SUFFICES ASSUME NEW q \in Request, NEW k \in 1 .. read'[q]
               PROVE  Journaled(run[q][k])' \/ Stored(run[q][k])'
    BY DEF EventsRetained
  <2>1. CASE k \in 1 .. read[q]
    BY <1>4, <2>1 DEF DeliveryInvariant, EventsRetained, Journaled, Stored
  <2>2. CASE k \notin 1 .. read[q]
    <3>1. q = r /\ count = read[r] + 1 /\ k = count
      BY <1>2, <2>2 DEF DeliveryInvariant, ProcessTyped
    <3>2. run[q][k] = e
      BY <3>1 DEF DeliveryInvariant, ProcessTyped
    <3> QED
      BY <1>1, <3>2 DEF Emitted, Journaled
  <2> QED
    BY <2>1, <2>2
<1>11. JournalFollows'
  <2> SUFFICES ASSUME NEW f \in ConnectorEvent, Journaled(f)'
               PROVE  /\ task'[f.request] \notin Early
                      /\ task'[f.request] = "streaming" => f.source <= last'[f.request]
    BY DEF JournalFollows
  <2>1. f = e \/ Journaled(f)
    BY <1>1 DEF Emitted
  <2>2. s \notin Early
    BY DEF Early
  <2>3. f.request \in Request /\ f.source \in Nat /\ last[r] \in Nat
    BY EventFacts DEF DeliveryInvariant, ProcessTyped
  <2>4. CASE f = e
    BY <1>2, <2>2, <2>4
  <2>5. CASE Journaled(f)
    <3>1. /\ task[f.request] \notin Early
          /\ task[f.request] = "streaming" => f.source <= last[f.request]
      BY <2>5 DEF DeliveryInvariant, JournalFollows
    <3>2. CASE f.request = r
      BY <1>2, <2>2, <2>3, <3>1, <3>2
    <3>3. CASE f.request # r
      BY <1>2, <2>3, <3>1, <3>3
    <3> QED
      BY <3>2, <3>3
  <2> QED
    BY <2>1, <2>4, <2>5
<1>12. Effective'
  <2>1. \A n \in Stream : \A k \in 1 .. Len(up'[n]) :
          up'[n][k].kind = "ack" /\ up'[n][k].accepted => TookEffect(up'[n][k].dispatch)
    <3>1. CASE live
      <4> SUFFICES ASSUME NEW n \in Stream, NEW k \in 1 .. Len(up'[n]),
                          up'[n][k].kind = "ack", up'[n][k].accepted
                   PROVE  TookEffect(up'[n][k].dispatch)
        OBVIOUS
      <4>1. Written(EventFrame(e)) /\ EventFrame(e).kind # "ack"
        BY <1>1, <3>1 DEF Emitted, EventFrame
      <4>2. CASE n # stream
        BY <4>1, <4>2 DEF Written, DeliveryInvariant, Effective
      <4>3. CASE n = stream
        <5>1. Len(up[stream]) \in Nat
          BY <4>3, LenProperties DEF DeliveryInvariant, StreamTyped
        <5>2. k \in 1 .. Len(up[stream]) /\ up'[n][k] = up[n][k]
          BY <4>1, <4>3, <5>1 DEF Written
        <5> QED
          BY <4>3, <5>2 DEF DeliveryInvariant, Effective
      <4> QED
        BY <4>2, <4>3
    <3>2. CASE ~live
      BY <1>1, <3>2 DEF Emitted, DeliveryInvariant, Effective
    <3> QED
      BY <3>1, <3>2 DEF DeliveryInvariant, StreamTyped
  <2>2. \A q \in Request :
          task'[q] \in {"begun", "accepted", "streaming", "ended"} => HasRun(q)
    BY <1>2 DEF DeliveryInvariant, Effective
  <2> QED
    BY <2>1, <2>2 DEF DeliveryInvariant, Effective, TookEffect, HasRun
<1>13. Submissions'
  BY <1>2 DEF DeliveryInvariant, Submissions
<1> QED
  BY <1>5, <1>6, <1>7, <1>8, <1>9, <1>10, <1>11, <1>12, <1>13 DEF DeliveryInvariant

LEMMA SupplementFacts ==
  ASSUME NEW r \in Request, NEW n \in 1 .. 2 * (MaxNative + MaxResumes) + 2,
         NEW kind \in {"uncertain", "lost", "failed"}
  PROVE  /\ Supplement(r, n, kind) \in ConnectorEvent
         /\ Supplement(r, n, kind).request = r /\ Supplement(r, n, kind).source = n
<1>1. Supplement(r, n, kind) \in ConnectorEvent
  BY DEF ConnectorEvent, OwnEvent
<1>2. Supplement(r, n, kind).request = r /\ Supplement(r, n, kind).source = n
  BY DEF Supplement, NodeEventAt
<1> QED
  BY <1>1, <1>2

\* The odd number after n.
LEMMA SyntheticFacts ==
  ASSUME NEW n \in Nat, NEW a \in Nat, n <= 2 * a
  PROVE  Synthetic(n) \in Nat /\ n < Synthetic(n) /\ Synthetic(n) <= 2 * a + 1
BY DEF Synthetic

LEMMA UncertainStep ==
  ASSUME DeliveryInvariant, KeepsStored, NEW r \in Request, Uncertain(r)
  PROVE  DeliveryInvariant'
<1> DEFINE e == Supplement(r, 1, "uncertain")
<1>1. /\ task[r] \in {"starting", "begun"} /\ CanEmit /\ EmitEvent(e)
      /\ task' = [task EXCEPT ![r] = "uncertain"]
      /\ UNCHANGED <<run, done, read, last, tries, runs, calls, held, submissions>>
      /\ UNCHANGED <<stream, live, down, registered, serving, connection, outbox, events>>
  BY DEF Uncertain, vars, hermesVars
<1>2. e \in ConnectorEvent /\ e.request = r
  BY SupplementFacts, DeliveryAssumption
<1>3. read[r] = 0 /\ last[r] = 0 /\ tries[r] = 0
  BY <1>1 DEF DeliveryInvariant, Reading, Advanced, Early
<1>4. /\ read' = [read EXCEPT ![r] = 0] /\ last' = [last EXCEPT ![r] = 0]
      /\ tries' = [tries EXCEPT ![r] = 0]
  BY <1>1, <1>3 DEF DeliveryInvariant, ProcessTyped
<1>5. Advanced("uncertain", 0, 0, 0)
  BY DeliveryAssumption DEF Advanced
<1> HIDE DEF e
<1>6. /\ task[r] \in {"starting", "begun", "streaming"} /\ task[r] # "streaming"
      /\ 0 >= last[r] /\ 0 = read[r]
  BY <1>1, <1>3
<1>7. Emits(r, e, "uncertain", 0, 0, 0)
  BY <1>1, <1>2, <1>4, <1>5, <1>6 DEF Emits
<1> QED
  BY <1>2, <1>7, EmitStep

LEMMA TakeEventStep ==
  ASSUME DeliveryInvariant, KeepsStored, NEW r \in Request, TakeEvent(r)
  PROVE  DeliveryInvariant'
<1> DEFINE count == read[r] + 1
           e == run[r][count]
<1>1. /\ task[r] = "streaming" /\ CanEmit /\ EmitEvent(e)
      /\ read[r] < Len(run[r]) /\ e.source > last[r]
      /\ task' = [task EXCEPT ![r] = IF e.type \in Terminal THEN "ended" ELSE @]
      /\ read' = [read EXCEPT ![r] = count] /\ last' = [last EXCEPT ![r] = e.source]
      /\ tries' = [tries EXCEPT ![r] = 0]
      /\ UNCHANGED <<run, done, runs, calls, held, submissions>>
      /\ UNCHANGED <<stream, live, down, registered, serving, connection, outbox, events>>
  <2>1. TakeEvent(r) => read' = [read EXCEPT ![r] = read[r] + 1]
    BY DEF TakeEvent, Take, DeliveryInvariant, ProcessTyped
  <2> QED
    BY <2>1 DEF TakeEvent, Take, Streaming, vars, hermesVars
<1>2. HasRun(r) /\ run[r] \in Seq(NativeEvent) /\ Len(run[r]) \in Nat /\ read[r] \in Nat
  <2>1. HasRun(r)
    BY <1>1 DEF DeliveryInvariant, Effective
  <2> QED
    BY <2>1, EventRead DEF DeliveryInvariant, ProcessTyped
<1>3. count \in 1 .. Len(run[r]) /\ count \in Nat
  BY <1>1, <1>2
<1>4. e \in ConnectorEvent /\ e.request = r /\ e.source = 2 * count
  BY <1>2, <1>3, ElementOfSeq, EventFacts DEF DeliveryInvariant, HermesTyped
<1>5. count <= MaxNative
  BY <1>2, <1>3, DeliveryAssumption DEF DeliveryInvariant, HermesTyped
<1> DEFINE s == IF e.type \in Terminal THEN "ended" ELSE "streaming"
<1>6. Advanced(s, count, 2 * count, 0)
  BY <1>3, <1>5, DeliveryAssumption DEF Advanced, Early
<1>7. task' = [task EXCEPT ![r] = s] /\ 2 * count >= last[r] /\ 2 * count \in Nat
  <2>1. last[r] \in Nat
    BY DEF DeliveryInvariant, ProcessTyped
  <2> QED
    BY <1>1, <1>3, <1>4, <2>1
<1>8. s \in {"uncertain", "streaming", "ended"} /\ s # "uncertain"
  OBVIOUS
<1>9. /\ e.source <= 2 * count /\ count = read[r] + 1 /\ count <= Len(run[r])
      /\ e = run[r][count]
  BY <1>3, <1>4
<1> HIDE DEF e, s, count
<1> QED
  <2>1. Emits(r, e, s, count, 2 * count, 0)
    BY <1>1, <1>2, <1>4, <1>6, <1>7, <1>8, <1>9 DEF Emits
  <2> QED
    BY <1>3, <1>4, <1>7, <2>1, EmitStep

LEMMA StreamDisconnectsStep ==
  ASSUME DeliveryInvariant, KeepsStored, NEW r \in Request, StreamDisconnects(r)
  PROVE  DeliveryInvariant'
<1> DEFINE n == Synthetic(last[r])
           e == Supplement(r, n, "lost")
           again == Resumes /\ read[r] > 0 /\ tries[r] < MaxResumes
           s == IF again THEN "streaming" ELSE "ended"
           attempts == IF again THEN tries[r] + 1 ELSE tries[r]
<1>1. /\ task[r] = "streaming" /\ CanEmit /\ EmitEvent(e)
      /\ last' = [last EXCEPT ![r] = n]
      /\ IF again THEN tries' = [tries EXCEPT ![r] = @ + 1] /\ UNCHANGED task
         ELSE task' = [task EXCEPT ![r] = "ended"] /\ UNCHANGED tries
      /\ UNCHANGED <<run, done, read, runs, calls, held, submissions>>
      /\ UNCHANGED <<stream, live, down, registered, serving, connection, outbox, events>>
  BY DEF StreamDisconnects, Streaming, vars, hermesVars
<1>2. /\ last[r] \in Nat /\ tries[r] \in Nat /\ read[r] \in Nat
      /\ tries[r] <= MaxResumes /\ last[r] <= 2 * read[r] + 2 * tries[r]
  BY <1>1 DEF DeliveryInvariant, ProcessTyped, Reading, Advanced
<1>3. read[r] <= MaxNative
  <2>1. HasRun(r) /\ Len(run[r]) \in Nat
    BY <1>1, EventRead DEF DeliveryInvariant, Effective
  <2> QED
    BY <1>2, <2>1, DeliveryAssumption DEF DeliveryInvariant, HermesTyped, Reading
<1>4. n \in Nat /\ last[r] < n /\ n <= 2 * (read[r] + tries[r]) + 1
  <2>1. read[r] + tries[r] \in Nat /\ last[r] <= 2 * (read[r] + tries[r])
    BY <1>2
  <2> QED
    BY <1>2, <2>1, SyntheticFacts
<1> HIDE DEF n
<1>5. e \in ConnectorEvent /\ e.request = r /\ e.source = n
  BY <1>2, <1>3, <1>4, SupplementFacts, DeliveryAssumption
<1>6. /\ attempts \in Nat /\ s \in {"uncertain", "streaming", "ended"} /\ s # "uncertain"
      /\ Advanced(s, read[r], n, attempts)
  BY <1>2, <1>3, <1>4, DeliveryAssumption DEF Advanced, Early
<1>7. /\ task' = [task EXCEPT ![r] = s] /\ read' = [read EXCEPT ![r] = read[r]]
      /\ tries' = [tries EXCEPT ![r] = attempts]
  BY <1>1 DEF DeliveryInvariant, ProcessTyped
<1>8. n >= last[r] /\ e.source > last[r] /\ e.source <= n
  BY <1>2, <1>4, <1>5
<1> HIDE DEF e, s, attempts, again
<1> QED
  <2>1. Emits(r, e, s, read[r], n, attempts)
    BY <1>1, <1>5, <1>6, <1>7, <1>8 DEF Emits
  <2> QED
    BY <1>2, <1>4, <1>5, <1>6, <2>1, EmitStep

LEMMA StreamFailsStep ==
  ASSUME DeliveryInvariant, KeepsStored, NEW r \in Request, StreamFails(r)
  PROVE  DeliveryInvariant'
<1> DEFINE e == Supplement(r, last[r] + 1, "failed")
<1>1. /\ task[r] = "streaming" /\ CanEmit /\ EmitEvent(e)
      /\ task' = [task EXCEPT ![r] = "ended"]
      /\ UNCHANGED <<run, done, read, last, tries, runs, calls, held, submissions>>
      /\ UNCHANGED <<stream, live, down, registered, serving, connection, outbox, events>>
  BY DEF StreamFails, Streaming, vars, hermesVars
<1>2. /\ last[r] \in Nat /\ tries[r] \in Nat /\ read[r] \in Nat
      /\ Advanced("streaming", read[r], last[r], tries[r])
  BY <1>1 DEF DeliveryInvariant, ProcessTyped, Reading
<1>3. e \in ConnectorEvent /\ e.request = r /\ e.source = last[r] + 1
  <2>1. last[r] + 1 \in 1 .. 2 * (MaxNative + MaxResumes) + 2
    BY <1>2, DeliveryAssumption DEF Advanced
  <2> QED
    BY <2>1, SupplementFacts
<1>4. Advanced("ended", read[r], last[r], tries[r])
  BY <1>2 DEF Advanced, Early
<1>5. /\ read' = [read EXCEPT ![r] = read[r]] /\ last' = [last EXCEPT ![r] = last[r]]
      /\ tries' = [tries EXCEPT ![r] = tries[r]]
  BY <1>1 DEF DeliveryInvariant, ProcessTyped
<1>6. last[r] >= last[r] /\ e.source > last[r]
  BY <1>2, <1>3
<1> HIDE DEF e
<1> QED
  <2>1. Emits(r, e, "ended", read[r], last[r], tries[r])
    BY <1>1, <1>3, <1>4, <1>5, <1>6 DEF Emits
  <2> QED
    BY <1>2, <1>3, <2>1, EmitStep
----------------------------------------------------------------------------
\* A new stream carries its registration, then the journal.
LEMMA ReplayEffect ==
  ASSUME ProcessTyped
  PROVE  LET q == <<Registration>> \o Replay IN
         /\ q \in Seq(UpFrame) /\ Len(q) = Len(journal) + 1 /\ q[1] = Registration
         /\ \A k \in 1 .. Len(journal) : q[k + 1] = EventFrame(journal[k])
<1> DEFINE a == <<Registration>>
           q == a \o Replay
<1>1. journal \in Seq(ConnectorEvent) /\ Len(journal) \in Nat /\ DOMAIN journal = 1 .. Len(journal)
  BY LenProperties DEF ProcessTyped
<1>2. a \in Seq(UpFrame) /\ Len(a) = 1 /\ a[1] = Registration
  BY DEF UpFrame
<1>3. /\ Replay \in Seq(UpFrame) /\ Len(Replay) = Len(journal)
      /\ \A k \in 1 .. Len(journal) : Replay[k] = EventFrame(journal[k])
  <2>1. Replay \in [1 .. Len(journal) -> UpFrame]
    BY <1>1, ElementOfSeq DEF Replay, UpFrame
  <2>2. Replay \in Seq(UpFrame)
    BY <1>1, <2>1, IsASeq
  <2>3. DOMAIN Replay = 1 .. Len(journal)
    BY <1>1 DEF Replay
  <2>4. Len(Replay) = Len(journal)
    BY <1>1, <2>2, <2>3, LenProperties
  <2> QED
    BY <1>1, <2>2, <2>4 DEF Replay
<1> HIDE DEF a
<1>4. /\ q \in Seq(UpFrame) /\ Len(q) = Len(a) + Len(Replay)
      /\ \A k \in 1 .. Len(a) + Len(Replay) :
           q[k] = IF k <= Len(a) THEN a[k] ELSE Replay[k - Len(a)]
  BY <1>2, <1>3, ConcatProperties
<1> HIDE DEF q
<1>5. Len(q) = Len(journal) + 1 /\ q[1] = Registration
  BY <1>1, <1>2, <1>3, <1>4
<1>6. ASSUME NEW k \in 1 .. Len(journal) PROVE q[k + 1] = EventFrame(journal[k])
  <2>1. k + 1 \in 1 .. 1 + Len(journal) /\ ~(k + 1 <= 1) /\ (k + 1) - 1 = k
    BY <1>1
  <2> QED
    BY <1>2, <1>3, <1>4, <2>1
<1> QED
  BY <1>4, <1>5, <1>6 DEF q, a

LEMMA ConnectStep ==
  ASSUME DeliveryInvariant, KeepsStored, Connect
  PROVE  DeliveryInvariant'
<1> DEFINE new == stream + 1
           q == <<Registration>> \o Replay
<1>1. /\ ~live /\ stream < MaxConnections /\ stream' = new /\ live' = TRUE
      /\ up' = [up EXCEPT ![new] = q]
      /\ serving' = serving \cup {new} /\ waiting' = {}
      /\ UNCHANGED <<run, done, task, read, last, tries, runs, journal, calls, held, submissions>>
      /\ UNCHANGED <<down, registered, connection, outbox, events>>
  BY DEF Connect, vars, hermesVars
<1>2. new \in Stream /\ stream \in Nat /\ new > stream /\ \A n \in Stream : n > new => n > stream
  BY <1>1, BoundAssumption DEF DeliveryInvariant, StreamTyped, Stream
<1>3. /\ q \in Seq(UpFrame) /\ Len(q) = Len(journal) + 1 /\ q[1] = Registration
      /\ \A k \in 1 .. Len(journal) : q[k + 1] = EventFrame(journal[k])
  BY ReplayEffect DEF DeliveryInvariant
<1>4. /\ journal \in Seq(ConnectorEvent) /\ Len(journal) \in Nat /\ Distinct(journal)
      /\ DOMAIN journal = 1 .. Len(journal)
  BY LenProperties DEF DeliveryInvariant, ProcessTyped
<1> HIDE DEF q, new
<1>5. /\ up' \in [Stream -> Seq(UpFrame)] /\ up'[new] = q
      /\ \A n \in Stream \ {new} : up'[n] = up[n]
  BY <1>1, <1>2, <1>3 DEF DeliveryInvariant, StreamTyped
<1>6. down = <<>> /\ registered[new] = 0 /\ Len(<<>>) = 0
  BY <1>1, <1>2, EmptySeq DEF DeliveryInvariant, Connected
<1>7. \A k \in 1 .. Len(q) :
        \/ k = 1 /\ q[k].kind = "registration"
        \/ \E j \in 1 .. Len(journal) : /\ k = j + 1 /\ q[k].kind = "event"
                                        /\ q[k].event = journal[j]
  <2> SUFFICES ASSUME NEW k \in 1 .. Len(q), k # 1
               PROVE  \E j \in 1 .. Len(journal) : /\ k = j + 1 /\ q[k].kind = "event"
                                                   /\ q[k].event = journal[j]
    BY <1>3 DEF Registration
  <2>1. k - 1 \in 1 .. Len(journal) /\ k = (k - 1) + 1
    BY <1>3, <1>4
  <2>2. q[k] = EventFrame(journal[k - 1])
    BY <1>3, <2>1
  <2>3. q[k].kind = "event" /\ q[k].event = journal[k - 1]
    BY <2>2 DEF EventFrame
  <2> QED
    BY <2>1, <2>3
<1>8. ProcessTyped' /\ StreamTyped'
  <2>1. ProcessTyped'
    BY <1>1 DEF DeliveryInvariant, ProcessTyped
  <2>2. new \in 0 .. MaxConnections
    BY <1>2 DEF Stream
  <2>3. StreamTyped'
    BY <1>1, <1>2, <1>5, <2>2 DEF DeliveryInvariant, StreamTyped
  <2> QED
    BY <2>1, <2>3
<1>9. /\ HermesTyped' /\ Reading' /\ EventsRetained' /\ JournalFollows'
      /\ DeliveredTookEffect' /\ Submissions'
  BY <1>1, Same DEF hermesVars
<1>10. Connected'
  <2>1. q # <<>>
    BY <1>3, <1>4, <1>6
  <2>2. new # 0
    BY <1>2 DEF Stream
  <2>3. \A n \in Stream :
          /\ registered[n] = 0 /\ up'[n] # <<>> => up'[n][1] = Registration
          /\ n > new => up'[n] = <<>> /\ registered[n] = 0
    <3>1. \A n \in Stream :
            /\ registered[n] = 0 /\ up[n] # <<>> => up[n][1] = Registration
            /\ n > stream => up[n] = <<>> /\ registered[n] = 0
      BY DEF DeliveryInvariant, Connected
    <3>2. ~(new > new)
      BY <1>2 DEF Stream
    <3> QED
      BY <1>2, <1>3, <1>5, <3>1, <3>2
  <2> QED
    BY <1>1, <1>5, <2>1, <2>2, <2>3 DEF Connected
<1>11. Pending'
  <2>1. \A k \in 1 .. Len(q) : IsEvent(q[k]) => Journaled(q[k].event)
    BY <1>4, <1>7 DEF IsEvent, Journaled, Contains
  <2>2. ASSUME NEW k \in 1 .. Len(q), NEW m \in 1 .. Len(q), IsEvent(q[k]), IsEvent(q[m]), k # m
        PROVE  q[k].event # q[m].event
    <3>1. PICK i \in 1 .. Len(journal) : k = i + 1 /\ q[k].event = journal[i]
      BY <1>7, <2>2 DEF IsEvent
    <3>2. PICK j \in 1 .. Len(journal) : m = j + 1 /\ q[m].event = journal[j]
      BY <1>7, <2>2 DEF IsEvent
    <3>3. i # j
      BY <2>2, <3>1, <3>2
    <3> QED
      BY <1>4, <3>1, <3>2, <3>3 DEF Distinct
  <2>3. Once(<<>>, q)
    BY <1>6, <2>2 DEF Once
  <2> QED
    BY <1>1, <1>5, <1>6, <2>1, <2>3 DEF Pending, Journaled
<1>12. Effective'
  <2>1. \A k \in 1 .. Len(q) : q[k].kind # "ack"
    BY <1>7
  <2>2. \A n \in Stream : \A k \in 1 .. Len(up'[n]) :
          up'[n][k].kind = "ack" /\ up'[n][k].accepted => TookEffect(up'[n][k].dispatch)
    BY <1>5, <2>1 DEF DeliveryInvariant, Effective
  <2> QED
    BY <1>1, <2>2 DEF DeliveryInvariant, Effective, TookEffect, HasRun
<1> QED
  BY <1>8, <1>9, <1>10, <1>11, <1>12 DEF DeliveryInvariant

\* Hermes adds an event to a run, its next.
LEMMA ReportedEvent ==
  ASSUME DeliveryInvariant, NEW r \in Request, HermesReports(r)
  PROVE  \E e \in NativeEvent :
           /\ e.source = 2 * (Len(run[r]) + 1) /\ e.request = r
           /\ run' = [run EXCEPT ![r] = Append(run[r], e)]
<1> DEFINE n == Len(run[r]) + 1
<1>1. PICK c \in Reports(r) :
        run' = [run EXCEPT ![r] = Append(run[r], NodeEventAt(r, 2 * n, c[1], c[2]))]
  BY DEF HermesReports, DeliveryInvariant, HermesTyped
<1>2. Len(run[r]) < MaxNative /\ Len(run[r]) \in Nat
  BY EventRead DEF HermesReports, DeliveryInvariant
<1>3. NodeEventAt(r, 2 * n, c[1], c[2]) \in NativeEvent
  <2>1. c \in Content
    BY DEF Reports, Content
  <2>2. n \in 1 .. MaxNative
    BY <1>2, DeliveryAssumption
  <2> QED
    BY <2>1, <2>2 DEF NativeEvent
<1> QED
  BY <1>1, <1>3 DEF NodeEventAt

\* Hermes reports the run's next event.
LEMMA HermesReportsStep ==
  ASSUME DeliveryInvariant, KeepsStored, NEW r \in Request, HermesReports(r)
  PROVE  DeliveryInvariant'
<1> DEFINE n == Len(run[r]) + 1
<1>1. /\ HasRun(r) /\ Len(run[r]) < MaxNative
      /\ UNCHANGED <<done, task, read, last, tries, runs, journal, waiting, calls, held, submissions>>
      /\ UNCHANGED <<streams, connection, outbox, events>>
      /\ UNCHANGED process
  BY DEF HermesReports, vars, process
<1>2. PICK e \in NativeEvent : /\ e.source = 2 * n /\ e.request = r
                              /\ run' = [run EXCEPT ![r] = Append(run[r], e)]
  BY ReportedEvent
<1> DEFINE longer == Append(run[r], e)
<1>3. run[r] \in Seq(NativeEvent) /\ Len(run[r]) \in Nat
  BY <1>1, EventRead DEF DeliveryInvariant
<1>4. e \in NativeEvent /\ e.source = 2 * n /\ e.request = r
  BY <1>2
<1>5. /\ longer \in Seq(NativeEvent) /\ Len(longer) = n /\ longer[n] = e
      /\ \A k \in 1 .. Len(run[r]) : longer[k] = run[r][k]
  BY <1>3, <1>4, AppendProperties
<1>6. run' = [run EXCEPT ![r] = longer]
  BY <1>2
<1> HIDE DEF longer
<1>7. /\ run' \in [Request -> Seq(NativeEvent) \cup {NoRun}]
      /\ run'[r] = longer /\ longer # NoRun
      /\ \A q \in Request \ {r} : run'[q] = run[q]
  BY <1>5, <1>6, RunAssumption DEF DeliveryInvariant, HermesTyped
<1>8. \A q \in Request : HasRun(q)' <=> HasRun(q)
  BY <1>1, <1>7 DEF HasRun
<1>9. HermesTyped'
  <2> SUFFICES ASSUME NEW q \in Request, HasRun(q)'
               PROVE  /\ Len(run'[q]) <= MaxNative
                      /\ \A k \in 1 .. Len(run'[q]) :
                           run'[q][k].source = 2 * k /\ run'[q][k].request = q
    BY <1>1, <1>7 DEF DeliveryInvariant, HermesTyped
  <2>1. CASE q # r
    BY <1>7, <1>8, <2>1 DEF DeliveryInvariant, HermesTyped
  <2>2. CASE q = r
    <3>1. \A k \in 1 .. Len(run[r]) : run[r][k].source = 2 * k /\ run[r][k].request = r
      BY <1>1 DEF DeliveryInvariant, HermesTyped
    <3>2. \A k \in 1 .. n : k = n \/ k \in 1 .. Len(run[r])
      BY <1>3
    <3>3. n <= MaxNative
      BY <1>1, <1>3, DeliveryAssumption
    <3>4. ASSUME NEW k \in 1 .. n
          PROVE  longer[k].source = 2 * k /\ longer[k].request = r
      <4>1. CASE k = n
        BY <1>4, <1>5, <4>1
      <4>2. CASE k \in 1 .. Len(run[r])
        BY <1>5, <3>1, <4>2
      <4> QED
        BY <3>2, <4>1, <4>2
    <3> QED
      BY <1>5, <1>7, <2>2, <3>3, <3>4
  <2> QED
    BY <2>1, <2>2
<1>10. Reading'
  <2> SUFFICES ASSUME NEW q \in Request
               PROVE  /\ IF HasRun(q)' THEN read[q] <= Len(run'[q]) ELSE read[q] = 0
                      /\ Advanced(task[q], read[q], last[q], tries[q])
    BY <1>1 DEF Reading
  <2>1. /\ IF HasRun(q) THEN read[q] <= Len(run[q]) ELSE read[q] = 0
        /\ Advanced(task[q], read[q], last[q], tries[q])
    BY DEF DeliveryInvariant, Reading
  <2>2. CASE q = r
    <3>1. read[r] \in Nat
      BY DEF DeliveryInvariant, ProcessTyped
    <3> QED
      BY <1>1, <1>3, <1>5, <1>7, <1>8, <2>1, <2>2, <3>1
  <2> QED
    BY <1>7, <1>8, <2>1, <2>2
<1>11. EventsRetained'
  <2> SUFFICES ASSUME NEW q \in Request, NEW k \in 1 .. read[q]
               PROVE  Journaled(run'[q][k]) \/ Stored(run'[q][k])
    BY <1>1 DEF EventsRetained, Journaled, Stored
  <2>1. k \in 1 .. Len(run[q])
    BY EventRead DEF DeliveryInvariant
  <2>2. run'[q][k] = run[q][k]
    BY <1>5, <1>7, <2>1
  <2> QED
    BY <2>2 DEF DeliveryInvariant, EventsRetained
<1>12. DeliveredTookEffect' /\ Effective'
  <2>1. Effective'
    BY <1>1, <1>8, EffectsStay DEF DeliveryInvariant, Effective, TookEffect, streams
  <2> QED
    BY <1>1, <1>8, <2>1, EffectsStay
<1>13. /\ ProcessTyped' /\ StreamTyped' /\ Connected' /\ JournalFollows' /\ Pending'
       /\ Submissions'
  BY <1>1, Same DEF streams
<1> QED
  BY <1>9, <1>10, <1>11, <1>12, <1>13 DEF DeliveryInvariant
----------------------------------------------------------------------------
\* What a handler yields joins the frames on their way down, if its stream lives.
LEMMA YieldEffect ==
  ASSUME StreamTyped, NEW n, NEW frames \in Seq(DownFrame), Yield(n, frames)
  PROVE  /\ down' \in Seq(DownFrame) /\ Len(down) \in Nat /\ Len(frames) \in Nat
         /\ live /\ n = stream =>
              /\ Len(down') = Len(down) + Len(frames)
              /\ \A k \in 1 .. Len(down) : down'[k] = down[k]
              /\ \A k \in 1 .. Len(frames) : down'[Len(down) + k] = frames[k]
         /\ ~(live /\ n = stream) => down' = down
<1>1. /\ down \in Seq(DownFrame) /\ Len(down) \in Nat /\ Len(frames) \in Nat
  BY LenProperties DEF StreamTyped
<1>2. /\ down \o frames \in Seq(DownFrame)
      /\ Len(down \o frames) = Len(down) + Len(frames)
      /\ \A k \in 1 .. Len(down) + Len(frames) :
           (down \o frames)[k] = IF k <= Len(down) THEN down[k] ELSE frames[k - Len(down)]
  BY <1>1, ConcatProperties
<1> DEFINE longer == down \o frames
<1>3. down' = IF live /\ n = stream THEN longer ELSE down
  BY DEF Yield
<1> HIDE DEF longer
<1>4. \A k \in 1 .. Len(down) : longer[k] = down[k]
  BY <1>1, <1>2 DEF longer
<1>5. ASSUME NEW k \in 1 .. Len(frames) PROVE longer[Len(down) + k] = frames[k]
  <2>1. /\ Len(down) + k \in 1 .. Len(down) + Len(frames) /\ ~(Len(down) + k <= Len(down))
        /\ (Len(down) + k) - Len(down) = k
    BY <1>1
  <2> QED
    BY <1>2, <2>1 DEF longer
<1> QED
  BY <1>1, <1>2, <1>3, <1>4, <1>5 DEF longer

\* Frames other than receipts.
Extended ==
  /\ down' \in Seq(DownFrame)
  /\ \A k \in 1 .. Len(down') :
       IsReceipt(down'[k]) => k \in 1 .. Len(down) /\ down'[k] = down[k]
  /\ ~live => down' = down

LEMMA YieldExtends ==
  ASSUME StreamTyped, NEW n, NEW frames \in Seq(DownFrame), Yield(n, frames),
         \A k \in 1 .. Len(frames) : ~IsReceipt(frames[k])
  PROVE  Extended
<1>1. /\ down' \in Seq(DownFrame) /\ Len(down) \in Nat /\ Len(frames) \in Nat
      /\ live /\ n = stream =>
           /\ Len(down') = Len(down) + Len(frames)
           /\ \A k \in 1 .. Len(down) : down'[k] = down[k]
           /\ \A k \in 1 .. Len(frames) : down'[Len(down) + k] = frames[k]
      /\ ~(live /\ n = stream) => down' = down
  BY YieldEffect
<1>2. CASE live /\ n = stream
  <2> SUFFICES ASSUME NEW k \in 1 .. Len(down'), IsReceipt(down'[k])
               PROVE  k \in 1 .. Len(down) /\ down'[k] = down[k]
    BY <1>1, <1>2 DEF Extended
  <2>1. CASE k \in 1 .. Len(down)
    BY <1>1, <1>2, <2>1
  <2>2. CASE k \notin 1 .. Len(down)
    <3>1. k - Len(down) \in 1 .. Len(frames) /\ Len(down) + (k - Len(down)) = k
      BY <1>1, <1>2, <2>2
    <3>2. down'[k] = frames[k - Len(down)]
      BY <1>1, <1>2, <3>1
    <3> QED
      BY <3>1, <3>2
  <2> QED
    BY <2>1, <2>2
<1>3. CASE ~(live /\ n = stream)
  BY <1>1, <1>3 DEF Extended
<1> QED
  BY <1>2, <1>3

\* Every stream's acceptances are as true as before when its frames get fewer.
LEMMA FewerFrames ==
  ASSUME DeliveryInvariant, UNCHANGED <<run, done, task, calls, held>>,
         up' \in [Stream -> Seq(UpFrame)],
         \A n \in Stream : \A k \in 1 .. Len(up'[n]) : \E m \in 1 .. Len(up[n]) : up'[n][k] = up[n][m]
  PROVE  Effective'
<1>1. \A n \in Stream : \A k \in 1 .. Len(up'[n]) :
        up'[n][k].kind = "ack" /\ up'[n][k].accepted => TookEffect(up'[n][k].dispatch)
  BY DEF DeliveryInvariant, Effective
<1> QED
  BY <1>1 DEF DeliveryInvariant, Effective, TookEffect, HasRun

\* The log holds e after the step.
StoredNow(e) == \E m \in DOMAIN events' : events'[m].id = e.id

\* The handler of stream n takes a frame; it may answer with the event's receipt.
LEMMA ServedKeeps ==
  ASSUME DeliveryInvariant, KeepsStored, NEW n \in Stream, up[n] # <<>>, Dequeue(n),
         UNCHANGED <<stream, live, journal, run, done, task, calls, held>>,
         registered'[n] # 0, \A m \in Stream \ {n} : registered'[m] = registered[m],
         \/ down' = down
         \/ \E e \in ConnectorEvent :
              up[n][1] = EventFrame(e) /\ StoredNow(e) /\ Yield(n, <<Receipt(e)>>)
  PROVE  /\ Connected' /\ Pending' /\ Effective'
         /\ up' \in [Stream -> Seq(UpFrame)] /\ down' \in Seq(DownFrame)
<1>1. /\ Dequeued(n) /\ Len(up[n]) \in Nat \ {0} /\ up[n][1] \in UpFrame
  BY DequeueEffect DEF DeliveryInvariant
<1>2. /\ up' \in [Stream -> Seq(UpFrame)] /\ Len(up'[n]) = Len(up[n]) - 1
      /\ \A m \in Stream \ {n} : up'[m] = up[m]
      /\ \A k \in 1 .. Len(up[n]) - 1 : up'[n][k] = up[n][k + 1]
  BY <1>1 DEF Dequeued
<1>3. ~(n > stream)
  BY DEF DeliveryInvariant, Connected
<1>4. \/ down' = down
      \/ \E e \in ConnectorEvent :
           /\ live /\ n = stream /\ up[n][1] = EventFrame(e) /\ StoredNow(e)
           /\ down' \in Seq(DownFrame) /\ Len(down') = Len(down) + 1
           /\ \A k \in 1 .. Len(down) : down'[k] = down[k]
           /\ down'[Len(down) + 1] = Receipt(e)
  <2>1. CASE down' = down
    BY <2>1
  <2>2. CASE down' # down
    <3>1. PICK e \in ConnectorEvent :
            up[n][1] = EventFrame(e) /\ StoredNow(e) /\ Yield(n, <<Receipt(e)>>)
      BY <2>2
    <3> DEFINE frames == <<Receipt(e)>>
    <3>2. frames \in Seq(DownFrame) /\ Len(frames) = 1 /\ frames[1] = Receipt(e)
      BY DEF DownFrame
    <3> HIDE DEF frames
    <3>3. Yield(n, frames)
      BY <3>1 DEF frames
    <3>4. /\ down' \in Seq(DownFrame)
          /\ live /\ n = stream =>
               /\ Len(down') = Len(down) + Len(frames)
               /\ \A k \in 1 .. Len(down) : down'[k] = down[k]
               /\ \A k \in 1 .. Len(frames) : down'[Len(down) + k] = frames[k]
          /\ ~(live /\ n = stream) => down' = down
      BY <3>2, <3>3, YieldEffect DEF DeliveryInvariant
    <3>5. live /\ n = stream /\ down'[Len(down) + 1] = Receipt(e) /\ Len(down') = Len(down) + 1
      BY <2>2, <3>2, <3>4
    <3> QED
      BY <3>1, <3>4, <3>5
  <2> QED
    BY <2>1, <2>2
<1>5. down' \in Seq(DownFrame)
  BY <1>4 DEF DeliveryInvariant, StreamTyped
<1>6. Connected'
  <2>1. ~live => down' = <<>>
    BY <1>4 DEF DeliveryInvariant, Connected
  <2>2. live => stream # 0 /\ (registered'[stream] = 0 => up'[stream] # <<>>)
    BY <1>2 DEF DeliveryInvariant, Connected, StreamTyped, Stream
  <2>3. \A m \in Stream :
          /\ registered'[m] = 0 /\ up'[m] # <<>> => up'[m][1] = Registration
          /\ m > stream => up'[m] = <<>> /\ registered'[m] = 0
    BY <1>2, <1>3 DEF DeliveryInvariant, Connected
  <2> QED
    BY <2>1, <2>2, <2>3 DEF Connected
<1>7. Effective'
  <2>1. \A m \in Stream : \A k \in 1 .. Len(up'[m]) :
          \E j \in 1 .. Len(up[m]) : up'[m][k] = up[m][j]
    <3>1. ASSUME NEW k \in 1 .. Len(up'[n])
          PROVE  \E j \in 1 .. Len(up[n]) : up'[n][k] = up[n][j]
      <4>1. k + 1 \in 1 .. Len(up[n]) /\ k \in 1 .. Len(up[n]) - 1
        BY <1>1, <1>2
      <4> QED
        BY <1>2, <4>1
    <3>2. \A m \in Stream \ {n} : up'[m] = up[m]
      BY <1>2
    <3> QED
      BY <3>1, <3>2
  <2> QED
    BY <1>2, <2>1, FewerFrames
<1>8. Pending'
  <2> SUFFICES ASSUME live PROVE Pending'
    BY DEF Pending
  <2>1. /\ \A k \in 1 .. Len(down) :
             IsReceipt(down[k]) => Journaled(down[k].event) /\ Stored(down[k].event)
        /\ \A k \in 1 .. Len(up[stream]) :
             IsEvent(up[stream][k]) => Journaled(up[stream][k].event)
        /\ Once(down, up[stream])
    BY DEF DeliveryInvariant, Pending
  <2>2. \A k \in 1 .. Len(down) : IsReceipt(down[k]) => down[k].event \in ConnectorEvent
    BY DownFrameKinds, ElementOfSeq DEF DeliveryInvariant, StreamTyped, IsReceipt
  <2>3. \A k \in 1 .. Len(down) :
          IsReceipt(down[k]) => Contains(journal', down[k].event) /\ StoredNow(down[k].event)
    BY <2>1, <2>2 DEF KeepsStored, Journaled, Stored, StoredNow
  <2>4. /\ Once(down, up'[stream])
        /\ \A k \in 1 .. Len(up'[stream]) :
             IsEvent(up'[stream][k]) => Contains(journal', up'[stream][k].event)
    <3>1. CASE n = stream
      <4>1. Once(down, up'[n])
        BY <1>1, <1>2, <2>1, <3>1, OnceServed
      <4>2. \A k \in 1 .. Len(up'[n]) : k + 1 \in 1 .. Len(up[n]) /\ up'[n][k] = up[n][k + 1]
        BY <1>1, <1>2
      <4> QED
        BY <2>1, <3>1, <4>1, <4>2 DEF Journaled
    <3>2. CASE n # stream
      <4>1. up'[stream] = up[stream]
        BY <1>2, <3>2 DEF DeliveryInvariant, Connected, StreamTyped, Stream
      <4> QED
        BY <2>1, <4>1 DEF Journaled
    <3> QED
      BY <3>1, <3>2
  <2>5. CASE down' = down
    BY <2>3, <2>4, <2>5 DEF Pending, Journaled, Stored, StoredNow
  <2>6. CASE down' # down
    <3> PICK e \in ConnectorEvent :
           /\ live /\ n = stream /\ up[n][1] = EventFrame(e) /\ StoredNow(e)
           /\ down' \in Seq(DownFrame) /\ Len(down') = Len(down) + 1
           /\ \A k \in 1 .. Len(down) : down'[k] = down[k]
           /\ down'[Len(down) + 1] = Receipt(e)
      BY <1>4, <2>6
    <3>0. up[n][1].kind = "event" /\ up[n][1].event = e
      BY DEF EventFrame
    <3>1. 1 \in 1 .. Len(up[n]) /\ IsEvent(up[n][1]) /\ Len(down) \in Nat
      BY <1>1, <3>0, LenProperties DEF IsEvent, DeliveryInvariant, StreamTyped
    <3>2. Contains(journal', e)
      BY <2>1, <3>0, <3>1 DEF Journaled
    <3>3. Receipt(e).event = e
      BY DEF Receipt
    <3>4. /\ \A k \in 1 .. Len(down) : IsReceipt(down[k]) => down[k].event # e
          /\ \A k \in 1 .. Len(up'[n]) : IsEvent(up'[n][k]) => up'[n][k].event # e
      <4>1. \A k \in 1 .. Len(down) : IsReceipt(down[k]) => down[k].event # e
        BY <2>1, <3>0, <3>1 DEF Once
      <4>2. ASSUME NEW k \in 1 .. Len(up'[n]), IsEvent(up'[n][k]) PROVE up'[n][k].event # e
        <5>1. k + 1 \in 1 .. Len(up[n]) /\ k + 1 # 1 /\ up'[n][k] = up[n][k + 1]
          BY <1>1, <1>2
        <5> QED
          BY <2>1, <3>0, <3>1, <4>2, <5>1 DEF Once
      <4> QED
        BY <4>1, <4>2
    <3>5. Once(down', up'[n])
      BY <2>4, <3>1, <3>3, <3>4, OnceAnswered
    <3>6. \A k \in 1 .. Len(down') : k = Len(down) + 1 \/ k \in 1 .. Len(down)
      BY <3>1
    <3>7. \A k \in 1 .. Len(down') : IsReceipt(down'[k]) =>
            Contains(journal', down'[k].event) /\ StoredNow(down'[k].event)
      BY <2>3, <3>2, <3>3, <3>6
    <3> QED
      BY <2>4, <3>5, <3>7 DEF Pending, Journaled, Stored, StoredNow
  <2> QED
    BY <2>5, <2>6
<1> QED
  BY <1>2, <1>5, <1>6, <1>7, <1>8

\* The frames of stream n are dropped, by a handler that refuses one or ends.
LEMMA DroppedKeeps ==
  ASSUME DeliveryInvariant, KeepsStored, NEW n \in Stream, Extended,
         up' = [up EXCEPT ![n] = <<>>],
         live /\ n = stream => registered[n] # 0,
         UNCHANGED <<stream, live, journal, registered, run, done, task, calls, held>>
  PROVE  Connected' /\ Pending' /\ Effective' /\ up' \in [Stream -> Seq(UpFrame)]
<1>1. <<>> \in Seq(UpFrame) /\ Len(<<>>) = 0
  BY EmptySeq
<1>2. /\ up' \in [Stream -> Seq(UpFrame)] /\ up'[n] = <<>>
      /\ \A m \in Stream \ {n} : up'[m] = up[m]
  BY <1>1 DEF DeliveryInvariant, StreamTyped
<1>3. Connected'
  <2>1. ~live => down' = <<>>
    BY DEF Extended, DeliveryInvariant, Connected
  <2>2. live => stream # 0 /\ (registered[stream] = 0 => up'[stream] # <<>>)
    BY <1>2 DEF DeliveryInvariant, Connected, StreamTyped, Stream
  <2>3. \A m \in Stream :
          /\ registered[m] = 0 /\ up'[m] # <<>> => up'[m][1] = Registration
          /\ m > stream => up'[m] = <<>> /\ registered[m] = 0
    BY <1>2 DEF DeliveryInvariant, Connected
  <2> QED
    BY <2>1, <2>2, <2>3 DEF Connected
<1>4. Effective'
  <2>1. ASSUME NEW m \in Stream, NEW k \in 1 .. Len(up'[m])
        PROVE  \E j \in 1 .. Len(up[m]) : up'[m][k] = up[m][j]
    BY <1>1, <1>2
  <2> QED
    BY <1>2, <2>1, FewerFrames
<1>5. Pending'
  <2> SUFFICES ASSUME live PROVE Pending'
    BY DEF Pending
  <2>1. /\ \A k \in 1 .. Len(down) :
             IsReceipt(down[k]) => Journaled(down[k].event) /\ Stored(down[k].event)
        /\ \A k \in 1 .. Len(up[stream]) :
             IsEvent(up[stream][k]) => Journaled(up[stream][k].event)
        /\ Once(down, up[stream])
    BY DEF DeliveryInvariant, Pending
  <2>2. \A k \in 1 .. Len(down) : IsReceipt(down[k]) => down[k].event \in ConnectorEvent
    BY DownFrameKinds, ElementOfSeq DEF DeliveryInvariant, StreamTyped, IsReceipt
  <2>3. \A k \in 1 .. Len(down) :
          IsReceipt(down[k]) => Contains(journal', down[k].event) /\ StoredNow(down[k].event)
    BY <2>1, <2>2 DEF KeepsStored, Journaled, Stored, StoredNow
  <2>4. /\ \A k \in 1 .. Len(down') : IsReceipt(down'[k]) => k \in 1 .. Len(down) /\ down'[k] = down[k]
        /\ Len(down') \in Nat /\ Len(down) \in Nat
    BY LenProperties DEF Extended, DeliveryInvariant, StreamTyped
  <2>5. Once(down', up[stream])
    BY <2>1, <2>4, OnceDispatched
  <2>6. stream \in Stream
    BY DEF DeliveryInvariant, Connected, StreamTyped, Stream
  <2>7. CASE n = stream
    <3>1. Once(down', up'[stream])
      BY <1>1, <1>2, <2>5, <2>7 DEF Once
    <3> QED
      BY <1>1, <1>2, <2>3, <2>4, <2>7, <3>1 DEF Pending, Journaled, Stored, StoredNow
  <2>8. CASE n # stream
    <3>1. up'[stream] = up[stream]
      BY <1>2, <2>6, <2>8
    <3> QED
      BY <2>1, <2>3, <2>4, <2>5, <3>1 DEF Pending, Journaled, Stored, StoredNow
  <2> QED
    BY <2>7, <2>8
<1> QED
  BY <1>2, <1>3, <1>4, <1>5
----------------------------------------------------------------------------
\* What the handlers of the Gateway leave alone, the ledger's rows aside.
LEMMA GatewaySame ==
  ASSUME DeliveryInvariant, KeepsStored, UNCHANGED <<hermesVars, process>>
  PROVE  /\ HermesTyped' /\ ProcessTyped' /\ Reading' /\ EventsRetained' /\ JournalFollows'
         /\ Submissions'
         /\ UNCHANGED <<run, done, task, calls, held, journal>>
  BY Same DEF hermesVars, process

LEMMA RegisterStep ==
  ASSUME DeliveryInvariant, KeepsStored, NEW n \in Stream, up[n] # <<>>, Register(n),
         UNCHANGED <<hermesVars, process, stream, live, crashes>>
  PROVE  DeliveryInvariant'
<1>1. /\ connection' = connection + 1 /\ outbox' = outbox
      /\ registered' = [registered EXCEPT ![n] = connection + 1]
      /\ Dequeue(n) /\ UNCHANGED <<down, serving>>
  BY DEF Register, RegisterNode
<1>2. /\ registered' \in [Stream -> 0 .. connection + 1] /\ connection + 1 \in Nat
      /\ registered'[n] # 0 /\ \A m \in Stream \ {n} : registered'[m] = registered[m]
  BY <1>1 DEF DeliveryInvariant, StreamTyped
<1>3. /\ HermesTyped' /\ ProcessTyped' /\ Reading' /\ EventsRetained' /\ JournalFollows'
      /\ Submissions'
      /\ UNCHANGED <<run, done, task, calls, held, journal>>
  BY GatewaySame
<1>4. /\ Connected' /\ Pending' /\ Effective'
      /\ up' \in [Stream -> Seq(UpFrame)] /\ down' \in Seq(DownFrame)
  BY <1>1, <1>2, <1>3, ServedKeeps
<1>5. StreamTyped'
  BY <1>1, <1>2, <1>4 DEF DeliveryInvariant, StreamTyped
<1>6. DeliveredTookEffect'
  BY <1>1, <1>3, Same
<1> QED
  BY <1>3, <1>4, <1>5, <1>6 DEF DeliveryInvariant

\* A handler ends its stream with an error.
LEMMA EndStreamStep ==
  ASSUME DeliveryInvariant, KeepsStored, NEW n \in Stream, registered[n] # 0, EndStream(n),
         UNCHANGED <<hermesVars, process, stream, live, registered, crashes>>
  PROVE  DeliveryInvariant'
<1> DEFINE frames == <<StreamError>>
<1>1. /\ up' = [up EXCEPT ![n] = <<>>] /\ Yield(n, frames) /\ serving' = serving \ {n}
      /\ UNCHANGED <<connection, outbox, events>>
  BY DEF EndStream, vars
<1>2. frames \in Seq(DownFrame) /\ \A k \in 1 .. Len(frames) : ~IsReceipt(frames[k])
  BY DEF DownFrame, IsReceipt, StreamError
<1> HIDE DEF frames
<1>3. Extended
  BY <1>1, <1>2, YieldExtends DEF DeliveryInvariant
<1>4. /\ HermesTyped' /\ ProcessTyped' /\ Reading' /\ EventsRetained' /\ JournalFollows'
      /\ Submissions'
      /\ UNCHANGED <<run, done, task, calls, held, journal>>
  BY GatewaySame
<1>5. Connected' /\ Pending' /\ Effective' /\ up' \in [Stream -> Seq(UpFrame)]
  BY <1>1, <1>3, <1>4, DroppedKeeps
<1>6. StreamTyped'
  BY <1>1, <1>3, <1>5 DEF DeliveryInvariant, StreamTyped, Extended
<1>7. DeliveredTookEffect'
  BY <1>1, <1>4, Same
<1> QED
  BY <1>4, <1>5, <1>6, <1>7 DEF DeliveryInvariant

\* The handler of a dead stream ends.
LEMMA HandlerEndsStep ==
  ASSUME DeliveryInvariant, KeepsStored, NEW n \in Stream, HandlerEnds(n)
  PROVE  DeliveryInvariant'
<1>1. /\ up' = [up EXCEPT ![n] = <<>>] /\ serving' = serving \ {n} /\ ~(live /\ n = stream)
      /\ UNCHANGED <<hermesVars, process, stream, live, down, registered>>
      /\ UNCHANGED <<connection, outbox, events>>
  BY DEF HandlerEnds, vars
<1>2. Extended
  BY <1>1 DEF Extended, DeliveryInvariant, StreamTyped
<1>3. /\ HermesTyped' /\ ProcessTyped' /\ Reading' /\ EventsRetained' /\ JournalFollows'
      /\ Submissions'
      /\ UNCHANGED <<run, done, task, calls, held, journal>>
  BY <1>1, GatewaySame
<1>4. Connected' /\ Pending' /\ Effective' /\ up' \in [Stream -> Seq(UpFrame)]
  BY <1>1, <1>2, <1>3, DroppedKeeps
<1>5. StreamTyped'
  BY <1>1, <1>2, <1>4 DEF DeliveryInvariant, StreamTyped, Extended
<1>6. DeliveredTookEffect'
  BY <1>1, <1>3, Same
<1> QED
  BY <1>3, <1>4, <1>5, <1>6 DEF DeliveryInvariant
----------------------------------------------------------------------------
\* What the log has it keeps, and it has what is recorded.
LEMMA LogExtends ==
  ASSUME Typed, NEW row, events' = Append(events, row)
  PROVE  /\ KeepsStored
         /\ \E m \in DOMAIN events' : events'[m] = row
<1>1. events \in Seq(EventRow \cup {row}) /\ Len(events) \in Nat
  BY LenProperties DEF Typed
<1>2. /\ Len(events') = Len(events) + 1 /\ events' \in Seq(EventRow \cup {row})
      /\ \A k \in 1 .. Len(events) : events'[k] = events[k]
      /\ events'[Len(events) + 1] = row
  BY <1>1, AppendProperties
<1>3. DOMAIN events = 1 .. Len(events) /\ DOMAIN events' = 1 .. Len(events) + 1
  BY <1>1, <1>2, LenProperties
<1>4. Len(events) + 1 \in DOMAIN events' /\ \A k \in DOMAIN events : k \in DOMAIN events'
  BY <1>1, <1>3
<1> QED
  BY <1>2, <1>3, <1>4 DEF KeepsStored, Stored

LEMMA LogSameKeeps == ASSUME events' = events PROVE KeepsStored
BY DEF KeepsStored, Stored

LEMMA RecordKeeps ==
  ASSUME Typed, NEW id, NEW r, NEW type, NEW source, NEW item,
         Record(id, r, type, source, item)
  PROVE  /\ KeepsStored
         /\ \E m \in DOMAIN events' : events'[m].id = id
<1> DEFINE row == [id |-> id, request |-> r, type |-> type, source |-> source, item |-> item]
<1>1. events' = Append(events, row) /\ row.id = id
  BY DEF Record
<1> HIDE DEF row
<1> QED
  BY <1>1, LogExtends

\* No transaction takes an event back.
LEMMA LogGrows ==
  ASSUME LedgerInvariant, [Next]_vars
  PROVE  KeepsStored
<1>1. Typed
  BY DEF LedgerInvariant
<1>2. ASSUME NEW d \in Device, ClientCommand(d) PROVE KeepsStored
  <2>1. ASSUME NEW r \in Request, NEW k \in Key, NEW s \in Session \cup {NoSession},
               AcceptRequest(d, r, k, s)
        PROVE  KeepsStored
    BY <1>1, <2>1, RecordKeeps DEF AcceptRequest
  <2>2. ASSUME NEW r \in Request, NEW k \in Key, AcceptInterrupt(d, r, k) PROVE KeepsStored
    BY <1>1, <2>2, RecordKeeps DEF AcceptInterrupt
  <2>3. ASSUME NEW i \in Interaction, NEW k \in Key, NEW v, DecideInteraction(d, i, k, v)
        PROVE  KeepsStored
    BY <2>3, LogSameKeeps DEF DecideInteraction
  <2> QED
    BY <1>2, <2>1, <2>2, <2>3
    DEF ClientCommand, AcceptApproval, AcceptClarification, Interaction
<1>3. ASSUME NEW c \in 1 .. connection, NodeFrame(c) PROVE KeepsStored
  <2>1. CASE ClaimDispatches(c)
    BY <2>1, LogSameKeeps DEF ClaimDispatches
  <2>2. ASSUME NEW x \in Dispatch, NEW accepted \in BOOLEAN, AcknowledgeDispatch(c, x, accepted)
        PROVE  KeepsStored
    <3>1. \/ events' = events \/ Record(NoEventId, x[2], "failed", 0, NoItem)
      BY <2>2 DEF AcknowledgeDispatch
    <3> QED
      BY <1>1, <3>1, RecordKeeps, LogSameKeeps
  <2>3. ASSUME NEW e \in NodeEvent, IngestNodeEvent(c, e) PROVE KeepsStored
    BY <1>1, <2>3, RecordKeeps DEF IngestNodeEvent
  <2> QED
    BY <1>3, <2>1, <2>2, <2>3 DEF NodeFrame
<1>4. CASE Environment
  BY <1>4, LogSameKeeps DEF Environment, RegisterNode, ChangeController, RevokeDevice, Lapse
<1>5. CASE UNCHANGED vars
  BY <1>5, LogSameKeeps DEF vars
<1> QED
  BY <1>2, <1>3, <1>4, <1>5 DEF Next
----------------------------------------------------------------------------
\* A frame other than a registration comes on a stream that is registered.
LEMMA HeadFacts ==
  ASSUME DeliveryInvariant, NEW n \in Stream, up[n] # <<>>
  PROVE  /\ Head(up[n]) = up[n][1] /\ up[n][1] \in UpFrame /\ 1 \in 1 .. Len(up[n])
         /\ up[n][1].kind # "registration" => registered[n] \in 1 .. connection
<1>1. up[n] \in Seq(UpFrame) /\ Len(up[n]) \in Nat /\ Len(up[n]) # 0
  BY LenProperties, EmptySeq DEF DeliveryInvariant, StreamTyped
<1>2. Head(up[n]) = up[n][1] /\ 1 \in 1 .. Len(up[n]) /\ up[n][1] \in UpFrame
  BY <1>1, HeadTailProperties, ElementOfSeq
<1>3. Registration.kind = "registration"
  BY DEF Registration
<1>4. up[n][1].kind # "registration" => registered[n] # 0
  BY <1>3 DEF DeliveryInvariant, Connected
<1> QED
  BY <1>2, <1>4 DEF DeliveryInvariant, StreamTyped

LEMMA TakeAckStep ==
  ASSUME DeliveryInvariant, Typed, KeepsStored, NEW n \in Stream, up[n] # <<>>,
         NEW f \in Frame, up[n][1] = f, TakeAck(n, f),
         UNCHANGED <<hermesVars, process, stream, live, crashes>>
  PROVE  DeliveryInvariant'
<1> DEFINE x == f.dispatch
           outcome == AckOutcome(registered[n], x, f.accepted)
<1>1. f.kind = "ack" /\ x \in Dispatch /\ f.accepted \in BOOLEAN
  BY DEF Frame
<1>2. registered[n] \in 1 .. connection /\ 1 \in 1 .. Len(up[n])
  BY <1>1, HeadFacts
<1>3. registered' = registered
  BY DEF TakeAck
<1>4. /\ HermesTyped' /\ ProcessTyped' /\ Reading' /\ EventsRetained' /\ JournalFollows'
      /\ Submissions'
      /\ UNCHANGED <<run, done, task, calls, held, journal>>
  BY GatewaySame
<1>5. CASE Dequeue(n) /\ UNCHANGED <<down, serving, connection>> /\ DeliveredTookEffect'
  <2>1. /\ Connected' /\ Pending' /\ Effective'
        /\ up' \in [Stream -> Seq(UpFrame)] /\ down' \in Seq(DownFrame)
    BY <1>2, <1>3, <1>4, <1>5, ServedKeeps
  <2>2. StreamTyped'
    BY <1>3, <1>5, <2>1 DEF DeliveryInvariant, StreamTyped
  <2> QED
    BY <1>4, <1>5, <2>1, <2>2 DEF DeliveryInvariant
<1>6. CASE outcome = "refused" /\ EndStream(n)
  BY <1>2, <1>3, <1>6, EndStreamStep
<1>7. CASE outcome = "repeated" /\ Dequeue(n) /\ UNCHANGED <<vars, down, serving>>
  <2>1. UNCHANGED <<connection, outbox>>
    BY <1>7 DEF vars
  <2>2. DeliveredTookEffect'
    BY <1>4, <2>1, Same
  <2> QED
    BY <1>5, <1>7, <2>1, <2>2
<1>8. CASE /\ outcome \in {"delivered", "dead"}
           /\ AcknowledgeDispatch(registered[n], x, f.accepted)
           /\ Dequeue(n) /\ UNCHANGED <<down, serving>>
  <2>1. /\ connection' = connection
        /\ \/ f.accepted /\ FinishDispatch(x, "delivered")
           \/ FinishDispatch(x, "dead")
    BY <1>8 DEF AcknowledgeDispatch, AckOutcome
  <2>2. \A y \in Dispatch \ {x} : outbox'[y] = outbox[y]
    BY <1>1, <2>1, FinishEffect
  <2>3. outbox'[x].state = "delivered" => f.accepted
    BY <1>1, <2>1, FinishEffect
  <2>4. f.accepted => TookEffect(x)
    BY <1>1, <1>2 DEF DeliveryInvariant, Effective
  <2>5. \A y \in Dispatch : outbox'[y] # NoRow /\ outbox'[y].state = "delivered" => TookEffect(y)
    BY <2>2, <2>3, <2>4 DEF DeliveryInvariant, DeliveredTookEffect, TookEffect
  <2>6. DeliveredTookEffect'
    BY <1>4, <2>5 DEF DeliveredTookEffect, TookEffect, HasRun
  <2> QED
    BY <1>5, <1>8, <2>1, <2>6
<1> QED
  BY <1>6, <1>7, <1>8 DEF TakeAck

LEMMA TakeNodeEventStep ==
  ASSUME DeliveryInvariant, Typed, KeepsStored, NEW n \in Stream, up[n] # <<>>,
         NEW e \in ConnectorEvent, up[n][1] = EventFrame(e), TakeNodeEvent(n, e),
         UNCHANGED <<hermesVars, process, stream, live, crashes>>
  PROVE  DeliveryInvariant'
<1> DEFINE outcome == EventOutcome(registered[n], e)
<1>1. EventFrame(e).kind = "event"
  BY DEF EventFrame
<1>2. registered[n] \in 1 .. connection
  BY <1>1, HeadFacts
<1>3. registered' = registered
  BY DEF TakeNodeEvent
<1>4. /\ HermesTyped' /\ ProcessTyped' /\ Reading' /\ EventsRetained' /\ JournalFollows'
      /\ Submissions'
      /\ UNCHANGED <<run, done, task, calls, held, journal>>
  BY GatewaySame
<1>5. CASE outcome = "refused" /\ EndStream(n)
  BY <1>2, <1>3, <1>5, EndStreamStep
<1>6. CASE /\ Dequeue(n) /\ Yield(n, <<Receipt(e)>>) /\ StoredNow(e)
           /\ UNCHANGED <<serving, connection, outbox>>
  <2>1. /\ Connected' /\ Pending' /\ Effective'
        /\ up' \in [Stream -> Seq(UpFrame)] /\ down' \in Seq(DownFrame)
    BY <1>2, <1>3, <1>4, <1>6, ServedKeeps
  <2>2. StreamTyped'
    BY <1>3, <1>6, <2>1 DEF DeliveryInvariant, StreamTyped
  <2>3. DeliveredTookEffect'
    BY <1>4, <1>6, Same
  <2> QED
    BY <1>4, <2>1, <2>2, <2>3 DEF DeliveryInvariant
<1>7. CASE outcome = "stored" /\ IngestNodeEvent(registered[n], e) /\ UNCHANGED serving
           /\ Dequeue(n) /\ Yield(n, <<Receipt(e)>>)
  <2>1. Record(e.id, e.request, e.type, e.source, e.item) /\ UNCHANGED <<outbox, connection>>
    BY <1>7 DEF IngestNodeEvent
  <2>2. StoredNow(e)
    BY <2>1, RecordKeeps DEF StoredNow
  <2> QED
    BY <1>6, <1>7, <2>1, <2>2
<1>8. CASE outcome = "repeated" /\ Dequeue(n) /\ Yield(n, <<Receipt(e)>>) /\ UNCHANGED <<vars, serving>>
  <2>1. Stored(e)
    BY <1>8 DEF EventOutcome, Stored
  <2>2. UNCHANGED <<events, outbox, connection>>
    BY <1>8 DEF vars
  <2> QED
    BY <1>6, <1>8, <2>1, <2>2 DEF Stored, StoredNow
<1> QED
  BY <1>5, <1>7, <1>8 DEF TakeNodeEvent

LEMMA GatewayServesStep ==
  ASSUME DeliveryInvariant, Typed, KeepsStored, NEW n \in Stream, GatewayServes(n)
  PROVE  DeliveryInvariant'
<1> DEFINE f == Head(up[n])
<1>1. /\ up[n] # <<>> /\ UNCHANGED <<hermesVars, process, stream, live, crashes>>
      /\ CASE f.kind = "registration" -> Register(n)
           [] f.kind = "ack" -> TakeAck(n, f)
           [] f.kind = "event" -> TakeNodeEvent(n, f.event)
  BY DEF GatewayServes
<1>2. f = up[n][1] /\ f \in UpFrame
  BY <1>1, HeadFacts
<1> HIDE DEF f
<1>3. CASE f.kind = "registration"
  BY <1>1, <1>3, RegisterStep
<1>4. CASE f.kind = "ack"
  BY <1>1, <1>2, <1>4, UpFrameKinds, TakeAckStep
<1>5. CASE f.kind = "event"
  BY <1>1, <1>2, <1>5, UpFrameKinds, TakeNodeEventStep
<1> QED
  BY <1>2, <1>3, <1>4, <1>5, UpFrameKinds
----------------------------------------------------------------------------
LEMMA GatewayClaimsStep ==
  ASSUME DeliveryInvariant, Typed, KeepsStored, NEW n \in Stream, GatewayClaims(n)
  PROVE  DeliveryInvariant'
<1> DEFINE c == registered[n]
<1>1. /\ c # 0 /\ ClaimDispatches(c)
      /\ UNCHANGED <<hermesVars, process, stream, live, up, registered, serving>>
  BY DEF GatewayClaims
<1>2. PICK order \in SetToSeqs(Claimable(c)) :
        Yield(n, [k \in DOMAIN order |-> Deliver(order[k])])
  BY DEF GatewayClaims
<1>3. c \in 1 .. connection
  BY <1>1 DEF DeliveryInvariant, StreamTyped
<1> HIDE DEF c
<1> DEFINE frames == [k \in DOMAIN order |-> Deliver(order[k])]
<1>4. frames \in Seq(DownFrame) /\ \A k \in 1 .. Len(frames) : ~IsReceipt(frames[k])
  <2>1. Claimable(c) \in SUBSET Dispatch
    BY DEF Claimable
  <2>2. Cardinality(Claimable(c)) \in Nat
    BY <2>1, DeliveryAssumption, FS_Subset, FS_CardinalityType
  <2>3. order \in [1 .. Cardinality(Claimable(c)) -> Claimable(c)]
    BY DEF SetToSeqs
  <2>4. frames \in [1 .. Cardinality(Claimable(c)) -> DownFrame]
    BY <2>1, <2>3 DEF DownFrame
  <2>5. frames \in Seq(DownFrame)
    BY <2>2, <2>4, IsASeq
  <2>6. \A k \in DOMAIN frames : ~IsReceipt(frames[k])
    BY DEF IsReceipt, Deliver
  <2> HIDE DEF frames
  <2>7. DOMAIN frames = 1 .. Len(frames)
    BY <2>5, LenProperties
  <2> QED
    BY <2>5, <2>6, <2>7
<1>5. Yield(n, frames)
  BY <1>2
<1> HIDE DEF frames
<1>6. Extended
  BY <1>4, <1>5, YieldExtends DEF DeliveryInvariant
<1>7. /\ HermesTyped' /\ ProcessTyped' /\ Reading' /\ EventsRetained' /\ JournalFollows'
      /\ Submissions'
      /\ UNCHANGED <<run, done, task, calls, held, journal>>
  BY <1>1, GatewaySame
<1>8. connection' = connection
  BY <1>1 DEF ClaimDispatches
<1>9. StreamTyped'
  BY <1>1, <1>6, <1>8 DEF DeliveryInvariant, StreamTyped, Extended
<1>10. Connected' /\ Effective'
  <2>1. Connected'
    BY <1>1, <1>6 DEF Extended, DeliveryInvariant, Connected
  <2> QED
    BY <1>1, <1>7, <2>1, Same
<1>11. Pending'
  <2> SUFFICES ASSUME live PROVE Pending'
    BY <1>1 DEF Pending
  <2>1. /\ \A k \in 1 .. Len(down) :
             IsReceipt(down[k]) => Journaled(down[k].event) /\ Stored(down[k].event)
        /\ \A k \in 1 .. Len(up[stream]) :
             IsEvent(up[stream][k]) => Journaled(up[stream][k].event)
        /\ Once(down, up[stream])
    BY DEF DeliveryInvariant, Pending
  <2>2. \A k \in 1 .. Len(down) : IsReceipt(down[k]) => down[k].event \in ConnectorEvent
    BY DownFrameKinds, ElementOfSeq DEF DeliveryInvariant, StreamTyped, IsReceipt
  <2>3. \A k \in 1 .. Len(down) :
          IsReceipt(down[k]) => Contains(journal', down[k].event) /\ StoredNow(down[k].event)
    BY <1>7, <2>1, <2>2 DEF KeepsStored, Journaled, Stored, StoredNow
  <2>4. /\ \A k \in 1 .. Len(down') : IsReceipt(down'[k]) => k \in 1 .. Len(down) /\ down'[k] = down[k]
        /\ Len(down') \in Nat /\ Len(down) \in Nat
    BY <1>6, LenProperties DEF Extended, DeliveryInvariant, StreamTyped
  <2>5. Once(down', up[stream])
    BY <2>1, <2>4, OnceDispatched
  <2> QED
    BY <1>1, <1>7, <2>1, <2>3, <2>4, <2>5 DEF Pending, Journaled, Stored, StoredNow
<1>12. DeliveredTookEffect'
  <2>1. \A x \in Dispatch : outbox'[x] # NoRow /\ outbox'[x].state = "delivered" =>
          outbox[x] # NoRow /\ outbox[x].state = "delivered"
    BY <1>1, <1>3, ClaimEffect
  <2> QED
    BY <1>7, <2>1 DEF DeliveryInvariant, DeliveredTookEffect, HasRun
<1> QED
  BY <1>7, <1>9, <1>10, <1>11, <1>12 DEF DeliveryInvariant

LEMMA ClientStepStep ==
  ASSUME DeliveryInvariant, Typed, KeepsStored, ClientStep
  PROVE  DeliveryInvariant'
<1>1. UNCHANGED <<hermesVars, process, streams>>
  BY DEF ClientStep
<1>2. /\ connection' = connection
      /\ outbox' = outbox \/ \E x \in Dispatch : Enqueue(x)
  <2>1. CASE \E d \in Device : controller = Nobody /\ ChangeController /\ controller' = d
    BY <2>1 DEF ChangeController
  <2>2. CASE \E i \in Interaction : Raised(i) /\ Lapse(i)
    BY <2>2 DEF Lapse
  <2>3. ASSUME NEW d \in Device, ClientCommand(d)
        PROVE  connection' = connection /\ (outbox' = outbox \/ \E x \in Dispatch : Enqueue(x))
    <3>1. ASSUME NEW r \in Request, NEW k \in Key, NEW s \in Session \cup {NoSession},
                 AcceptRequest(d, r, k, s)
          PROVE  connection' = connection /\ Enqueue(Send(r))
      BY <3>1 DEF AcceptRequest
    <3>2. ASSUME NEW r \in Request, NEW k \in Key, AcceptInterrupt(d, r, k)
          PROVE  connection' = connection /\ Enqueue(Interrupt(r))
      BY <3>2 DEF AcceptInterrupt
    <3>3. ASSUME NEW i \in Interaction, NEW k \in Key, NEW v, DecideInteraction(d, i, k, v)
          PROVE  connection' = connection /\ (outbox' = outbox \/ Enqueue(Resolve(i)))
      BY <3>3 DEF DecideInteraction
    <3>4. CASE \E r \in Request, k \in Key, s \in Session \cup {NoSession} : AcceptRequest(d, r, k, s)
      BY <3>1, <3>4, DispatchKinds
    <3>5. CASE \E r \in Request, k \in Key : AcceptInterrupt(d, r, k)
      BY <3>2, <3>5, DispatchKinds
    <3>6. CASE \/ \E a \in Approval, k \in Key, v \in {"approved", "rejected"} : AcceptApproval(d, a, k, v)
               \/ \E q \in Clarification, k \in Key : AcceptClarification(d, q, k)
      <4>1. \E i \in Interaction, k \in Key, v \in {"approved", "rejected", "resolved"} :
              DecideInteraction(d, i, k, v)
        BY <3>6 DEF AcceptApproval, AcceptClarification, Interaction
      <4> QED
        BY <3>3, <4>1, DispatchKinds
    <3> QED
      BY <2>3, <3>4, <3>5, <3>6 DEF ClientCommand
  <2> QED
    BY <2>1, <2>2, <2>3 DEF ClientStep
<1>3. UNCHANGED <<run, done, task, read, last, tries, journal, calls, held, submissions>>
      /\ UNCHANGED <<stream, live, up, down, registered>>
  BY <1>1 DEF hermesVars, process, streams
<1>4. DeliveredTookEffect'
  <2>1. \A x \in Dispatch : outbox'[x] # NoRow /\ outbox'[x].state = "delivered" =>
          outbox[x] # NoRow /\ outbox[x].state = "delivered"
    BY <1>2, EnqueueEffect
  <2> QED
    BY <1>3, <2>1 DEF DeliveryInvariant, DeliveredTookEffect, HasRun
<1>5. /\ HermesTyped' /\ ProcessTyped' /\ StreamTyped' /\ Reading' /\ Connected'
      /\ EventsRetained' /\ JournalFollows' /\ Pending' /\ Effective' /\ Submissions'
  BY <1>1, <1>2, <1>3, Same
<1> QED
  BY <1>4, <1>5 DEF DeliveryInvariant
----------------------------------------------------------------------------
\* Every step is one of the ledger or leaves the ledger as it is: the node's
\* frames, of whatever stream, are frames of a connection it registered.
LEMMA StepMaps ==
  ASSUME DeliveryInvariant, [DeliveryNext]_deliveryVars
  PROVE  [Next]_vars
<1>1. CASE UNCHANGED deliveryVars
  BY <1>1 DEF deliveryVars
<1>2. CASE NodeStep
  BY <1>2 DEF NodeStep, Connect, NodeReceives, SendAck, HermesBegins, Submitted, Refused, Uncertain,
         TakeEvent, Take, StreamDisconnects, StreamFails, FinishCall
<1>3. CASE Break \/ Crash \/ \E r \in Request : HermesReports(r)
  BY <1>3 DEF Break, Crash, HermesReports
<1>4. CASE ClientStep
  BY <1>4 DEF ClientStep, Next, Environment
<1>5. ASSUME NEW n \in Stream, HandlerEnds(n) PROVE [Next]_vars
  BY <1>5 DEF HandlerEnds
<1>6. ASSUME NEW n \in Stream, GatewayClaims(n) PROVE [Next]_vars
  <2>1. registered[n] \in 1 .. connection /\ ClaimDispatches(registered[n])
    BY <1>6 DEF GatewayClaims, DeliveryInvariant, StreamTyped
  <2> QED
    BY <2>1 DEF Next, NodeFrame
<1>7. ASSUME NEW n \in Stream, GatewayServes(n) PROVE [Next]_vars
  <2> DEFINE f == Head(up[n])
             c == registered[n]
  <2>1. /\ up[n] # <<>>
        /\ CASE f.kind = "registration" -> Register(n)
             [] f.kind = "ack" -> TakeAck(n, f)
             [] f.kind = "event" -> TakeNodeEvent(n, f.event)
    BY <1>7 DEF GatewayServes
  <2>2. f = up[n][1] /\ f \in UpFrame /\ (f.kind # "registration" => c \in 1 .. connection)
    BY <2>1, HeadFacts
  <2> HIDE DEF f
  <2>3. CASE f.kind = "registration"
    BY <2>1, <2>3 DEF Register, Next, Environment
  <2>4. CASE f.kind = "ack"
    <3>1. f.dispatch \in Dispatch /\ f.accepted \in BOOLEAN
      BY <2>2, <2>4, UpFrameKinds
    <3>2. AcknowledgeDispatch(c, f.dispatch, f.accepted) \/ UNCHANGED vars
      BY <2>1, <2>4 DEF TakeAck, EndStream
    <3> QED
      BY <2>2, <2>4, <3>1, <3>2 DEF Next, NodeFrame
  <2>5. CASE f.kind = "event"
    <3>1. f.event \in NodeEvent
      BY <2>2, <2>5, UpFrameKinds, EventFacts
    <3>2. IngestNodeEvent(c, f.event) \/ UNCHANGED vars
      BY <2>1, <2>5 DEF TakeNodeEvent, EndStream
    <3> QED
      BY <2>2, <2>5, <3>1, <3>2 DEF Next, NodeFrame
  <2> QED
    BY <2>2, <2>3, <2>4, <2>5, UpFrameKinds
<1> QED
  BY <1>1, <1>2, <1>3, <1>4, <1>5, <1>6, <1>7 DEF DeliveryNext

LEMMA DeliveryStep ==
  ASSUME DeliveryInvariant, LedgerInvariant, [DeliveryNext]_deliveryVars
  PROVE  DeliveryInvariant' /\ LedgerInvariant'
<1>1. [Next]_vars
  BY StepMaps
<1>2. LedgerInvariant' /\ KeepsStored /\ Typed
  BY <1>1, InvariantStep, LogGrows DEF LedgerInvariant
<1>3. CASE UNCHANGED deliveryVars
  <2>1. UNCHANGED <<hermesVars, process, streams, connection, outbox>>
    BY <1>3 DEF deliveryVars, vars
  <2>2. UNCHANGED <<run, done, task, read, last, tries, journal, calls, held, submissions>>
        /\ UNCHANGED <<stream, live, up, down, registered>>
    BY <2>1 DEF hermesVars, process, streams
  <2>3. DeliveryInvariant'
    BY <1>2, <2>1, <2>2, Same DEF DeliveryInvariant
  <2> QED
    BY <1>2, <2>3
<1>4. CASE NodeStep
  <2>1. CASE Connect \/ NodeReceives
    BY <1>2, <2>1, ConnectStep, NodeReceivesStep
  <2>2. CASE \E f \in held : SendAck(f)
    BY <1>2, <2>2, SendAckStep
  <2>3. ASSUME NEW r \in Request,
               \/ HermesBegins(r) \/ Submitted(r) \/ Refused(r) \/ Uncertain(r)
               \/ TakeEvent(r) \/ StreamDisconnects(r) \/ StreamFails(r)
        PROVE  DeliveryInvariant'
    BY <1>2, <2>3, HermesBeginsStep, SubmittedStep, UncertainStep, TakeEventStep,
       StreamDisconnectsStep, StreamFailsStep
  <2>4. CASE \E x \in Dispatch, accepted \in BOOLEAN : FinishCall(x, accepted)
    BY <1>2, <2>4, FinishCallStep
  <2> QED
    BY <1>2, <1>4, <2>1, <2>2, <2>3, <2>4 DEF NodeStep
<1>5. CASE ClientStep
  BY <1>2, <1>5, ClientStepStep
<1>6. CASE \E n \in Stream : GatewayServes(n) \/ GatewayClaims(n) \/ HandlerEnds(n)
  BY <1>2, <1>6, GatewayServesStep, GatewayClaimsStep, HandlerEndsStep
<1>7. CASE \E r \in Request : HermesReports(r)
  BY <1>2, <1>7, HermesReportsStep
<1>8. CASE Break
  BY <1>2, <1>8, BreakStep
<1>9. CASE Crash
  <2>1. Restart /\ UNCHANGED <<run, done, connection, outbox, events>>
    BY <1>9 DEF Crash, vars, hermesVars
  <2> QED
    BY <1>2, <2>1, RestartStep
<1> QED
  BY <1>3, <1>4, <1>5, <1>6, <1>7, <1>8, <1>9 DEF DeliveryNext

LEMMA DeliveryInitially == DeliveryInit => DeliveryInvariant /\ LedgerInvariant
<1> SUFFICES ASSUME DeliveryInit PROVE DeliveryInvariant /\ LedgerInvariant
  OBVIOUS
<1>1. /\ run = [r \in Request |-> NoRun] /\ done = {}
      /\ task = [r \in Request |-> "none"] /\ read = [r \in Request |-> 0]
      /\ last = [r \in Request |-> 0] /\ tries = [r \in Request |-> 0]
      /\ runs = {} /\ journal = <<>> /\ waiting = {} /\ held = {}
      /\ calls = [x \in Dispatch |-> 0] /\ submissions = [r \in Request |-> 0]
      /\ stream = 0 /\ live = FALSE
      /\ up = [n \in Stream |-> <<>>] /\ down = <<>>
      /\ registered = [n \in Stream |-> 0] /\ serving = {}
      /\ connection = 0 /\ outbox = [x \in Dispatch |-> NoRow]
  BY DEF DeliveryInit, Init
<1>2. /\ <<>> \in Seq(ConnectorEvent) /\ <<>> \in Seq(DownFrame) /\ <<>> \in Seq(UpFrame)
      /\ Len(<<>>) = 0
  BY EmptySeq
<1>3. \A r \in Request : ~HasRun(r)
  BY <1>1 DEF HasRun
<1>4. HermesTyped /\ ProcessTyped /\ StreamTyped
  <2>1. HermesTyped
    BY <1>1, <1>3 DEF HermesTyped
  <2>2. ProcessTyped
    BY <1>1, <1>2, DeliveryAssumption DEF ProcessTyped, Early, Distinct
  <2>3. StreamTyped
    <3>1. up \in [Stream -> Seq(UpFrame)] /\ down \in Seq(DownFrame)
      BY <1>1, <1>2
    <3>2. registered \in [Stream -> 0 .. connection] /\ connection \in Nat
      BY <1>1
    <3>3. stream \in 0 .. MaxConnections
      BY <1>1, BoundAssumption
    <3>4. live \in BOOLEAN /\ serving \subseteq Stream
      BY <1>1
    <3> QED
      BY <3>1, <3>2, <3>3, <3>4 DEF StreamTyped
  <2> QED
    BY <2>1, <2>2, <2>3
<1>5. Reading
  <2>1. Advanced("none", 0, 0, 0)
    BY DeliveryAssumption DEF Advanced
  <2> QED
    BY <1>1, <1>3, <2>1 DEF Reading
<1>6. Connected /\ Pending /\ EventsRetained /\ Submissions /\ DeliveredTookEffect
  BY <1>1 DEF Connected, Pending, EventsRetained, Submissions, DeliveredTookEffect
<1>7. JournalFollows
  <2>1. \A e : ~Journaled(e)
    BY <1>1, <1>2 DEF Journaled, Contains
  <2> QED
    BY <2>1 DEF JournalFollows
<1>8. Effective
  BY <1>1, <1>2 DEF Effective
<1> QED
  BY <1>4, <1>5, <1>6, <1>7, <1>8, InvariantInitially DEF DeliveryInvariant, DeliveryInit
----------------------------------------------------------------------------
\* Every state of the delivery satisfies the inductive invariant, and the ledger's
\* with it, whatever breaks, crashes and arrives twice.
THEOREM DeliveryInvariantHolds == DeliverySpec => [](DeliveryInvariant /\ LedgerInvariant)
<1>1. DeliveryInvariant /\ LedgerInvariant /\ [DeliveryNext]_deliveryVars
        => (DeliveryInvariant /\ LedgerInvariant)'
  BY DeliveryStep
<1> QED
  BY <1>1, DeliveryInitially, PTL DEF DeliverySpec

\* The delivery through streams, journal and repeated dispatches implements the
\* ledger: connectNode gives the ledger's handlers nothing but frames of a
\* connection that was registered before them.
THEOREM DeliveryImplementsLedger == DeliverySpec => Spec
<1>1. DeliveryInit => Init
  BY DEF DeliveryInit
<1>2. DeliveryInvariant /\ [DeliveryNext]_deliveryVars => [Next]_vars
  BY StepMaps
<1> QED
  BY <1>1, <1>2, DeliveryInvariantHolds, PTL DEF DeliverySpec, Spec

\* Type correctness of the connector, its streams and the ledger under them.
THEOREM DeliveryTyped == DeliverySpec => []DeliveryTypeOK
<1>1. DeliveryInvariant /\ LedgerInvariant => DeliveryTypeOK
  <2> SUFFICES ASSUME DeliveryInvariant, LedgerInvariant PROVE DeliveryTypeOK
    OBVIOUS
  <2>1. TypeOK
    BY DEF LedgerInvariant, Typed
  <2>2. \A r \in Request : HasRun(r) => Len(run[r]) <= MaxNative
    BY DEF DeliveryInvariant, HermesTyped
  <2>3. task \in [Request -> {"none", "starting", "begun", "accepted", "rejected",
                             "uncertain", "streaming", "ended"}]
    BY DEF DeliveryInvariant, ProcessTyped, Early
  <2>4. \A r \in Request : read[r] <= (IF HasRun(r) THEN Len(run[r]) ELSE 0)
    BY DEF DeliveryInvariant, Reading
  <2>5. /\ last \in [Request -> 0 .. 2 * MaxNative + 2 * MaxResumes + 1]
        /\ tries \in [Request -> 0 .. MaxResumes]
    BY DeliveryAssumption DEF DeliveryInvariant, ProcessTyped, Reading, Advanced
  <2>6. stream \in {0} \cup Stream
    BY BoundAssumption DEF DeliveryInvariant, StreamTyped, Stream
  <2>7. registered \in [Stream -> 0 .. MaxConnections]
    BY <2>1, BoundAssumption DEF TypeOK, DeliveryInvariant, StreamTyped
  <2> QED
    BY <2>1, <2>2, <2>3, <2>4, <2>5, <2>6, <2>7
    DEF DeliveryTypeOK, DeliveryInvariant, HermesTyped, ProcessTyped, StreamTyped
<1> QED
  BY <1>1, DeliveryInvariantHolds, PTL

\* #acknowledgeEvent finds the event of every receipt pending: the Gateway
\* answers an event once per stream, and a new stream carries it once.
THEOREM ReceiptsMatchJournalHolds == DeliverySpec => []ReceiptsMatchJournal
<1>1. DeliveryInvariant => ReceiptsMatchJournal
  <2> SUFFICES ASSUME DeliveryInvariant, NEW k \in DOMAIN down, down[k].kind = "receipt"
               PROVE  /\ Journaled(down[k].event)
                      /\ \A m \in DOMAIN down : m # k => down[m] # down[k]
    BY DEF ReceiptsMatchJournal
  <2>1. down \in Seq(DownFrame) /\ DOMAIN down = 1 .. Len(down)
    BY LenProperties DEF DeliveryInvariant, StreamTyped
  <2>2. live
    <3>1. down = <<>> => Len(down) = 0
      BY EmptySeq
    <3> QED
      BY <2>1, <3>1 DEF DeliveryInvariant, Connected
  <2> QED
    BY <2>1, <2>2 DEF DeliveryInvariant, Pending, Once, IsReceipt
<1> QED
  BY <1>1, DeliveryInvariantHolds, PTL

\* No event the process took from Hermes is lost while the process lives (#emit
\* and #acknowledgeEvent).
THEOREM EventsRetainedHolds == DeliverySpec => []EventsRetained
<1>1. DeliveryInvariant => EventsRetained
  BY DEF DeliveryInvariant
<1> QED
  BY <1>1, DeliveryInvariantHolds, PTL

\* One process calls startRun once for a request, however often the dispatch is
\* delivered (#send).
THEOREM SubmittedOnceHolds == DeliverySpec => []SubmittedOnce
<1>1. DeliveryInvariant => SubmittedOnce
  BY DEF DeliveryInvariant, Submissions, SubmittedOnce
<1> QED
  BY <1>1, DeliveryInvariantHolds, PTL

\* An accepted acknowledgement in the ledger says what happened at Hermes.
THEOREM DeliveredTookEffectHolds == DeliverySpec => []DeliveredTookEffect
<1>1. DeliveryInvariant => DeliveredTookEffect
  BY DEF DeliveryInvariant
<1> QED
  BY <1>1, DeliveryInvariantHolds, PTL
----------------------------------------------------------------------------
\* Event e is one of its run in h, and S has those before it.
Follows(e, S, h) ==
  /\ h[e.request] # NoRun
  /\ \E k \in 1 .. Len(h[e.request]) :
       /\ h[e.request][k] = e
       /\ \A j \in 1 .. k - 1 : h[e.request][j] \in S

\* The events before position p of a queue of frames.
Before(q, p) == {q[o].event : o \in {o \in 1 .. p - 1 : IsEvent(q[o])}}

\* Every event of a run in queue q comes after those before it in the run, unless
\* S has them.
InOrder(q, S, h) ==
  \A p \in 1 .. Len(q) :
    IsEvent(q[p]) /\ q[p].event \in NativeEvent => Follows(q[p].event, S \cup Before(q, p), h)

\* What the log has, and that it is in order there: a run's events come with all
\* those before them, and the sources of a request ascend.
Ahead == {e \in ConnectorEvent : Stored(e)}
LogInOrder ==
  \A n \in DOMAIN events, e \in NativeEvent : events[n].id = e.id =>
    /\ events[n].request = e.request /\ events[n].source = e.source
    /\ \E f \in NativeEvent : f.id = e.id /\ Follows(f, Ahead, run)
SourcesAscend ==
  \A m, n \in DOMAIN events :
    m < n /\ events[m].request = events[n].request /\ events[n].source # 0
      => events[m].source < events[n].source

\* So they are on every stream that is served, and in the journal; and the live
\* stream, while it is served, has the journal's events until the log has them.
StreamsInOrder == \A n \in serving : InOrder(up[n], Ahead, run)
JournalInOrder == InOrder(Replay, Ahead, run)
JournalSent ==
  live /\ stream \in serving =>
    \A e \in NativeEvent : Journaled(e) =>
      e \in Ahead \/ e \in Before(up[stream], Len(up[stream]) + 1)

OrderInvariant ==
  LogInOrder /\ SourcesAscend /\ StreamsInOrder /\ JournalInOrder /\ JournalSent

\* The runs of g go on from those of h.
Extends(h, g) ==
  \A r \in Request : h[r] # NoRun =>
    /\ g[r] # NoRun
    /\ Len(h[r]) \in Nat /\ Len(g[r]) \in Nat /\ Len(h[r]) <= Len(g[r])
    /\ \A k \in 1 .. Len(h[r]) : g[r][k] = h[r][k]
----------------------------------------------------------------------------
\* More is stored and runs are longer: what was in order still is.
LEMMA FollowsMore ==
  ASSUME NEW e, e.request \in Request, NEW S, NEW T, S \subseteq T, NEW h, NEW g,
         Extends(h, g), Follows(e, S, h)
  PROVE  Follows(e, T, g)
<1>1. PICK k \in 1 .. Len(h[e.request]) :
        h[e.request][k] = e /\ \A j \in 1 .. k - 1 : h[e.request][j] \in S
  BY DEF Follows
<1>2. /\ g[e.request] # NoRun
      /\ Len(h[e.request]) \in Nat /\ Len(g[e.request]) \in Nat
      /\ Len(h[e.request]) <= Len(g[e.request])
      /\ \A i \in 1 .. Len(h[e.request]) : g[e.request][i] = h[e.request][i]
  BY DEF Follows, Extends
<1>3. k \in 1 .. Len(g[e.request]) /\ \A j \in 1 .. k - 1 : j \in 1 .. Len(h[e.request])
  BY <1>2
<1> QED
  BY <1>1, <1>2, <1>3 DEF Follows

\* The events of runs are told from the connector's own by their ids.
LEMMA NativeFacts ==
  /\ \A e \in NativeEvent : /\ e \in ConnectorEvent /\ e.request \in Request
                            /\ e.id = <<e.request, e.source>> /\ e.source \in Nat \ {0}
                            /\ e.id # NoEventId
  /\ \A e \in NativeEvent, f \in OwnEvent : e.id # f.id
<1>1. ASSUME NEW e \in NativeEvent
      PROVE  e \in ConnectorEvent /\ e.request \in Request
             /\ e.id = <<e.request, e.source>> /\ e.source \in Nat \ {0}
             /\ e.id # NoEventId
  <2>1. e \in NodeEvent /\ e \in ConnectorEvent
    BY ConnectorAssumption DEF ConnectorEvent
  <2>2. PICK r \in Request, n \in 1 .. MaxNative, c \in Content : e = NodeEventAt(r, 2 * n, c[1], c[2])
    BY DEF NativeEvent
  <2>3. e.id = <<r, 2 * n>> /\ e.request = r /\ e.source = 2 * n
    BY <2>2 DEF NodeEventAt
  <2> QED
    BY <2>1, <2>3, EventAssumption
<1>2. ASSUME NEW e \in NativeEvent, NEW f \in OwnEvent
      PROVE  e.id # f.id
  <2>1. PICK r \in Request, n \in 1 .. 2 * (MaxNative + MaxResumes) + 2,
              kind \in {"uncertain", "lost", "failed"} : f = Supplement(r, n, kind)
    BY DEF OwnEvent
  <2>2. Len(f.id) = 3
    <3>1. f.id = <<r, n, kind>>
      BY <2>1 DEF Supplement, NodeEventAt
    <3> QED
      BY <3>1
  <2>3. Len(e.id) = 2
    <3>1. e.id = <<e.request, e.source>>
      BY <1>1
    <3> QED
      BY <3>1
  <2> QED
    BY <2>2, <2>3
<1> QED
  BY <1>1, <1>2

\* Two events of a run with one id are one event.
LEMMA SameEvent ==
  ASSUME HermesTyped, NEW e \in NativeEvent, NEW f \in NativeEvent, e.id = f.id,
         NEW S, NEW T, Follows(e, S, run), Follows(f, T, run)
  PROVE  e = f
<1>1. e.request = f.request /\ e.source = f.source /\ e.request \in Request
  BY NativeFacts
<1>2. PICK k \in 1 .. Len(run[e.request]) : run[e.request][k] = e
  BY DEF Follows
<1>3. PICK m \in 1 .. Len(run[e.request]) : run[e.request][m] = f
  BY <1>1 DEF Follows
<1>4. HasRun(e.request)
  BY DEF Follows, HasRun
<1>5. Len(run[e.request]) \in Nat /\ e.source = 2 * k /\ f.source = 2 * m
  BY <1>1, <1>2, <1>3, <1>4, LenProperties DEF HermesTyped, HasRun
<1>6. k = m
  <2>1. k \in Nat /\ m \in Nat
    BY <1>1, <1>3, <1>5
  <2>2. 2 * k = 2 * m
    BY <1>1, <1>5
  <2> QED
    BY <2>1, <2>2
<1> QED
  BY <1>2, <1>3, <1>6

\* More is stored: a queue in order still is.
LEMMA InOrderMore ==
  ASSUME NEW q, NEW S, NEW T, S \subseteq T, NEW h, NEW g, Extends(h, g), InOrder(q, S, h)
  PROVE  InOrder(q, T, g)
<1> SUFFICES ASSUME NEW p \in 1 .. Len(q), IsEvent(q[p]), q[p].event \in NativeEvent
             PROVE  Follows(q[p].event, T \cup Before(q, p), g)
  BY DEF InOrder
<1>1. Follows(q[p].event, S \cup Before(q, p), h)
  BY DEF InOrder
<1>2. S \cup Before(q, p) \subseteq T \cup Before(q, p) /\ q[p].event.request \in Request
  BY NativeFacts
<1> QED
  BY <1>1, <1>2, FollowsMore

\* A frame joins the queue: an event must come after those before it.
LEMMA InOrderLonger ==
  ASSUME NEW q, NEW t, NEW S, NEW h, Len(q) \in Nat, Len(t) = Len(q) + 1,
         \A k \in 1 .. Len(q) : t[k] = q[k]
  PROVE  /\ Before(q, Len(q) + 1) \subseteq Before(t, Len(t) + 1)
         /\ IsEvent(t[Len(t)]) => t[Len(t)].event \in Before(t, Len(t) + 1)
         /\ /\ InOrder(q, S, h)
            /\ IsEvent(t[Len(t)]) /\ t[Len(t)].event \in NativeEvent
                 => Follows(t[Len(t)].event, S \cup Before(q, Len(q) + 1), h)
            => InOrder(t, S, h)
<1>1. \A p \in 1 .. Len(q) + 1 : Before(t, p) = Before(q, p)
  <2> SUFFICES ASSUME NEW p \in 1 .. Len(q) + 1 PROVE Before(t, p) = Before(q, p)
    OBVIOUS
  <2>1. \A o \in 1 .. p - 1 : t[o] = q[o]
    OBVIOUS
  <2> QED
    BY <2>1 DEF Before
<1>2. Before(q, Len(q) + 1) \subseteq Before(t, Len(t) + 1)
  <2>1. \A o \in 1 .. Len(q) : o \in 1 .. Len(t) + 1 - 1 /\ t[o] = q[o]
    OBVIOUS
  <2>2. Len(q) + 1 - 1 = Len(q)
    OBVIOUS
  <2> QED
    BY <2>1, <2>2 DEF Before
<1>3. IsEvent(t[Len(t)]) => t[Len(t)].event \in Before(t, Len(t) + 1)
  <2>1. Len(t) \in 1 .. Len(t) + 1 - 1
    OBVIOUS
  <2> QED
    BY <2>1 DEF Before
<1>4. ASSUME InOrder(q, S, h),
             IsEvent(t[Len(t)]) /\ t[Len(t)].event \in NativeEvent
               => Follows(t[Len(t)].event, S \cup Before(q, Len(q) + 1), h),
             NEW p \in 1 .. Len(t), IsEvent(t[p]), t[p].event \in NativeEvent
      PROVE  Follows(t[p].event, S \cup Before(t, p), h)
  <2>1. CASE p \in 1 .. Len(q)
    <3>1. t[p] = q[p] /\ Before(t, p) = Before(q, p)
      BY <1>1, <2>1
    <3> QED
      BY <1>4, <2>1, <3>1 DEF InOrder
  <2>2. CASE p = Len(t)
    <3>1. Before(t, p) = Before(q, Len(q) + 1)
      BY <1>1, <2>2
    <3> QED
      BY <1>4, <2>2, <3>1
  <2> QED
    BY <2>1, <2>2
<1>5. /\ InOrder(q, S, h)
      /\ IsEvent(t[Len(t)]) /\ t[Len(t)].event \in NativeEvent
           => Follows(t[Len(t)].event, S \cup Before(q, Len(q) + 1), h)
      => InOrder(t, S, h)
  BY <1>4 DEF InOrder
<1> QED
  BY <1>2, <1>3, <1>5

\* A frame leaves the queue: an event that does is one S has.
LEMMA InOrderShorter ==
  ASSUME NEW q, NEW t, NEW S, NEW h, Len(q) \in Nat, NEW i \in 1 .. Len(q),
         Len(t) = Len(q) - 1,
         \A k \in 1 .. Len(q) - 1 : t[k] = IF k < i THEN q[k] ELSE q[k + 1],
         IsEvent(q[i]) => q[i].event \in S
  PROVE  /\ Before(q, Len(q) + 1) \subseteq S \cup Before(t, Len(t) + 1)
         /\ InOrder(q, S, h) /\ Extends(h, h) => InOrder(t, S, h)
<1>1. ASSUME NEW p \in 1 .. Len(q)
      PROVE  Before(q, p) \subseteq S \cup Before(t, IF p <= i THEN p ELSE p - 1)
  <2> DEFINE s == IF p <= i THEN p ELSE p - 1
  <2> SUFFICES ASSUME NEW o \in 1 .. p - 1, IsEvent(q[o])
               PROVE  q[o].event \in S \cup Before(t, s)
    BY DEF Before
  <2>1. CASE o = i
    BY <2>1
  <2>2. CASE o < i
    <3>1. o \in 1 .. s - 1 /\ t[o] = q[o]
      BY <2>2
    <3> QED
      BY <3>1 DEF Before
  <2>3. CASE o > i
    <3>1. o - 1 \in 1 .. s - 1 /\ t[o - 1] = q[o]
      <4>1. o - 1 \in 1 .. Len(q) - 1 /\ ~(o - 1 < i) /\ (o - 1) + 1 = o /\ ~(p <= i)
        BY <2>3
      <4> QED
        BY <4>1
    <3> QED
      BY <3>1 DEF Before
  <2> QED
    BY <2>1, <2>2, <2>3
<1>2. Before(q, Len(q) + 1) \subseteq S \cup Before(t, Len(t) + 1)
  <2> SUFFICES ASSUME NEW o \in 1 .. Len(q), IsEvent(q[o])
               PROVE  q[o].event \in S \cup Before(t, Len(t) + 1)
    BY DEF Before
  <2>1. CASE o = i
    BY <2>1
  <2>2. CASE o < i
    <3>1. o \in 1 .. Len(t) + 1 - 1 /\ t[o] = q[o]
      BY <2>2
    <3> QED
      BY <3>1 DEF Before
  <2>3. CASE o > i
    <3>1. o - 1 \in 1 .. Len(q) - 1 /\ ~(o - 1 < i) /\ (o - 1) + 1 = o
      BY <2>3
    <3>2. o - 1 \in 1 .. Len(t) + 1 - 1 /\ t[o - 1] = q[o]
      BY <3>1
    <3> QED
      BY <3>2 DEF Before
  <2> QED
    BY <2>1, <2>2, <2>3
<1>3. ASSUME InOrder(q, S, h), Extends(h, h),
             NEW k \in 1 .. Len(t), IsEvent(t[k]), t[k].event \in NativeEvent
      PROVE  Follows(t[k].event, S \cup Before(t, k), h)
  <2> DEFINE p == IF k < i THEN k ELSE k + 1
  <2>2. p \in 1 .. Len(q) /\ t[k] = q[p] /\ k = (IF p <= i THEN p ELSE p - 1)
    OBVIOUS
  <2> HIDE DEF p
  <2>3. Before(q, p) \subseteq S \cup Before(t, k)
    BY <1>1, <2>2
  <2>4. Follows(t[k].event, S \cup Before(q, p), h)
    BY <1>3, <2>2 DEF InOrder
  <2>5. S \cup Before(q, p) \subseteq S \cup Before(t, k) /\ t[k].event.request \in Request
    BY <1>3, <2>3, NativeFacts
  <2> QED
    BY <1>3, <2>4, <2>5, FollowsMore
<1> QED
  BY <1>2, <1>3 DEF InOrder

\* A registration comes before a queue.
LEMMA InOrderShifted ==
  ASSUME NEW q, NEW t, NEW S, NEW h, Len(q) \in Nat, Len(t) = Len(q) + 1,
         ~IsEvent(t[1]), \A k \in 1 .. Len(q) : t[k + 1] = q[k]
  PROVE  /\ Before(q, Len(q) + 1) \subseteq Before(t, Len(t) + 1)
         /\ InOrder(q, S, h) /\ Extends(h, h) => InOrder(t, S, h)
<1>1. ASSUME NEW p \in 1 .. Len(q) + 1
      PROVE  Before(q, p) \subseteq Before(t, p + 1)
  <2> SUFFICES ASSUME NEW o \in 1 .. p - 1, IsEvent(q[o])
               PROVE  q[o].event \in Before(t, p + 1)
    BY DEF Before
  <2>1. o + 1 \in 1 .. p + 1 - 1 /\ t[o + 1] = q[o]
    OBVIOUS
  <2>2. t[o + 1].event \in Before(t, p + 1)
    BY <2>1 DEF Before
  <2> QED
    BY <2>1, <2>2
<1>2. Before(q, Len(q) + 1) \subseteq Before(t, Len(t) + 1)
  BY <1>1
<1>3. ASSUME InOrder(q, S, h), Extends(h, h),
             NEW k \in 1 .. Len(t), IsEvent(t[k]), t[k].event \in NativeEvent
      PROVE  Follows(t[k].event, S \cup Before(t, k), h)
  <2> DEFINE p == k - 1
  <2>1. p \in 1 .. Len(q) /\ k = p + 1 /\ t[k] = q[p]
    <3>1. k # 1
      BY <1>3
    <3>2. p \in 1 .. Len(q) /\ k = p + 1
      BY <3>1
    <3> QED
      BY <3>2
  <2> HIDE DEF p
  <2>2. Follows(t[k].event, S \cup Before(q, p), h)
    BY <1>3, <2>1 DEF InOrder
  <2>3. Before(q, p) \subseteq Before(t, k)
    BY <1>1, <2>1
  <2>4. S \cup Before(q, p) \subseteq S \cup Before(t, k) /\ t[k].event.request \in Request
    BY <1>3, <2>3, NativeFacts
  <2> QED
    BY <1>3, <2>2, <2>4, FollowsMore
<1> QED
  BY <1>2, <1>3 DEF InOrder
----------------------------------------------------------------------------
LEMMA RunsStay == DeliveryInvariant => Extends(run, run)
<1> SUFFICES ASSUME DeliveryInvariant, NEW r \in Request, HasRun(r)
             PROVE  Len(run[r]) \in Nat
  BY DEF Extends, HasRun
<1>1. run[r] \in Seq(NativeEvent)
  BY DEF DeliveryInvariant, HermesTyped, HasRun
<1> QED
  BY <1>1, LenProperties

LEMMA AheadGrows == KeepsStored => Ahead \subseteq Ahead'
BY DEF KeepsStored, Ahead

\* A row that is not of a native event, or is of one that comes after those before
\* it, leaves the log in order.
LEMMA LogAppends ==
  ASSUME Typed, LogInOrder, SourcesAscend, KeepsStored, Extends(run, run'),
         NEW row, events' = Append(events, row),
         row.source = 0 \/
           \A n \in DOMAIN events : events[n].request = row.request => events[n].source < row.source,
         \A e \in NativeEvent : row.id = e.id =>
           /\ row.request = e.request /\ row.source = e.source
           /\ \E f \in NativeEvent : f.id = e.id /\ Follows(f, Ahead, run)
  PROVE  LogInOrder' /\ SourcesAscend'
<1>1. events \in Seq(EventRow \cup {row}) /\ Len(events) \in Nat
  BY LenProperties DEF Typed
<1>2. /\ Len(events') = Len(events) + 1 /\ events' \in Seq(EventRow \cup {row})
      /\ \A k \in 1 .. Len(events) : events'[k] = events[k]
      /\ events'[Len(events) + 1] = row
  BY <1>1, AppendProperties
<1>3. DOMAIN events = 1 .. Len(events) /\ DOMAIN events' = 1 .. Len(events) + 1
  BY <1>1, <1>2, LenProperties
<1>4. \A f \in NativeEvent : Follows(f, Ahead, run) => Follows(f, Ahead', run')
  BY NativeFacts, AheadGrows, FollowsMore
<1>5. LogInOrder'
  <2> SUFFICES ASSUME NEW n \in 1 .. Len(events) + 1, NEW e \in NativeEvent, events'[n].id = e.id
               PROVE  /\ events'[n].request = e.request /\ events'[n].source = e.source
                      /\ \E f \in NativeEvent : f.id = e.id /\ Follows(f, Ahead', run')
    BY <1>3 DEF LogInOrder
  <2>1. CASE n \in 1 .. Len(events)
    <3>1. events'[n] = events[n] /\ n \in DOMAIN events
      BY <1>2, <1>3, <2>1
    <3>2. /\ events[n].request = e.request /\ events[n].source = e.source
          /\ \E f \in NativeEvent : f.id = e.id /\ Follows(f, Ahead, run)
      BY <3>1 DEF LogInOrder
    <3> QED
      BY <1>4, <3>1, <3>2
  <2>2. CASE n = Len(events) + 1
    BY <1>2, <1>4, <2>2
  <2> QED
    BY <1>1, <2>1, <2>2
<1>6. SourcesAscend'
  <2> SUFFICES ASSUME NEW m \in 1 .. Len(events) + 1, NEW n \in 1 .. Len(events) + 1, m < n,
                      events'[m].request = events'[n].request, events'[n].source # 0
               PROVE  events'[m].source < events'[n].source
    BY <1>3 DEF SourcesAscend
  <2>1. m \in 1 .. Len(events) /\ events'[m] = events[m]
    BY <1>1, <1>2
  <2>2. CASE n \in 1 .. Len(events)
    BY <1>2, <1>3, <2>1, <2>2 DEF SourcesAscend
  <2>3. CASE n = Len(events) + 1
    BY <1>2, <1>3, <2>1, <2>3
  <2> QED
    BY <1>1, <2>2, <2>3
<1> QED
  BY <1>5, <1>6

\* The Gateway's own events have no id, a Node's event has its own.
OwnRow ==
  \/ events' = events
  \/ \E row : events' = Append(events, row) /\ row.id = NoEventId /\ row.source = 0
NodeRow(e) ==
  /\ SourceIsNew(e)
  /\ \E row : /\ events' = Append(events, row)
              /\ row.id = e.id /\ row.request = e.request /\ row.source = e.source

\* The log gains at most a row of the Gateway's own: it is still in order.
LEMMA LogKept ==
  ASSUME Typed, LogInOrder, SourcesAscend, KeepsStored, Extends(run, run'), OwnRow
  PROVE  LogInOrder' /\ SourcesAscend'
<1>1. CASE events' = events
  <2>1. SourcesAscend'
    BY <1>1 DEF SourcesAscend
  <2>2. \A f \in NativeEvent : Follows(f, Ahead, run) => Follows(f, Ahead', run')
    BY NativeFacts, AheadGrows, FollowsMore
  <2>3. \A n \in DOMAIN events, e \in NativeEvent : events[n].id = e.id =>
          /\ events[n].request = e.request /\ events[n].source = e.source
          /\ \E f \in NativeEvent : f.id = e.id /\ Follows(f, Ahead', run')
    BY <2>2 DEF LogInOrder
  <2> QED
    BY <1>1, <2>1, <2>3 DEF LogInOrder
<1>2. CASE \E row : events' = Append(events, row) /\ row.id = NoEventId /\ row.source = 0
  <2>1. PICK row : events' = Append(events, row) /\ row.id = NoEventId /\ row.source = 0
    BY <1>2
  <2>2. \A e \in NativeEvent : row.id # e.id
    BY <2>1, NativeFacts
  <2> QED
    BY <2>1, <2>2, LogAppends
<1> QED
  BY <1>1, <1>2 DEF OwnRow

\* The log takes an event that those before it precede: it is still in order.
LEMMA LogTakes ==
  ASSUME Typed, LogInOrder, SourcesAscend, KeepsStored, Extends(run, run'),
         NEW e \in ConnectorEvent, NodeRow(e), e \in NativeEvent => Follows(e, Ahead, run)
  PROVE  LogInOrder' /\ SourcesAscend'
<1>1. PICK row : events' = Append(events, row) /\ row.id = e.id
                 /\ row.request = e.request /\ row.source = e.source
  BY DEF NodeRow
<1>2. \A n \in DOMAIN events : events[n].request = row.request => events[n].source < row.source
  BY <1>1 DEF NodeRow, SourceIsNew
<1>3. ASSUME NEW g \in NativeEvent, row.id = g.id
      PROVE  /\ row.request = g.request /\ row.source = g.source
             /\ \E f \in NativeEvent : f.id = g.id /\ Follows(f, Ahead, run)
  <2>1. e \in NativeEvent
    BY <1>1, <1>3, NativeFacts DEF ConnectorEvent
  <2>2. e.request = g.request /\ e.source = g.source
    <3>1. e.id = <<e.request, e.source>> /\ g.id = <<g.request, g.source>> /\ e.id = g.id
      BY <1>1, <1>3, <2>1, NativeFacts
    <3> QED
      BY <3>1
  <2> QED
    BY <1>1, <1>3, <2>1, <2>2
<1> QED
  BY <1>1, <1>2, <1>3, LogAppends

\* What a Client's command and an acknowledgement record are the Gateway's own.
LEMMA RecordOwn ==
  ASSUME NEW r, NEW type, NEW item, Record(NoEventId, r, type, 0, item)
  PROVE  OwnRow
<1> DEFINE row == [id |-> NoEventId, request |-> r, type |-> type, source |-> 0, item |-> item]
<1>1. events' = Append(events, row) /\ row.id = NoEventId /\ row.source = 0
  BY DEF Record
<1> QED
  BY <1>1 DEF OwnRow

\* A node's event is recorded with its own id and source, a new one.
LEMMA RecordNode ==
  ASSUME NEW c, NEW e, IngestNodeEvent(c, e)
  PROVE  NodeRow(e)
<1> DEFINE row == [id |-> e.id, request |-> e.request, type |-> e.type,
                   source |-> e.source, item |-> e.item]
<1>1. events' = Append(events, row)
  BY DEF IngestNodeEvent, Record
<1>2. row.id = e.id /\ row.request = e.request /\ row.source = e.source
  OBVIOUS
<1>3. SourceIsNew(e)
  BY DEF IngestNodeEvent, EventOutcome, Storable, Current
<1> QED
  BY <1>1, <1>2, <1>3 DEF NodeRow

\* A Client's command records a row of the Gateway's own, or none.
LEMMA CommandOwn ==
  ASSUME NEW d \in Device, ClientCommand(d)
  PROVE  OwnRow
<1>1. ASSUME NEW r \in Request, NEW k \in Key, NEW s \in Session \cup {NoSession},
             AcceptRequest(d, r, k, s)
      PROVE  OwnRow
  BY <1>1, RecordOwn DEF AcceptRequest
<1>2. ASSUME NEW r \in Request, NEW k \in Key, AcceptInterrupt(d, r, k) PROVE OwnRow
  BY <1>2, RecordOwn DEF AcceptInterrupt
<1>3. ASSUME NEW i, NEW k, NEW v, DecideInteraction(d, i, k, v) PROVE OwnRow
  BY <1>3 DEF DecideInteraction, OwnRow
<1> QED
  BY <1>1, <1>2, <1>3 DEF ClientCommand, AcceptApproval, AcceptClarification
----------------------------------------------------------------------------
\* The journal as frames.
LEMMA Framed ==
  ASSUME NEW j \in Seq(ConnectorEvent)
  PROVE  LET q == [k \in DOMAIN j |-> EventFrame(j[k])] IN
         /\ Len(q) = Len(j) /\ Len(q) \in Nat
         /\ \A k \in 1 .. Len(q) : q[k] = EventFrame(j[k]) /\ IsEvent(q[k]) /\ q[k].event = j[k]
         /\ \A e : Contains(j, e) => e \in Before(q, Len(q) + 1)
<1> DEFINE q == [k \in DOMAIN j |-> EventFrame(j[k])]
<1>1. Len(j) \in Nat /\ DOMAIN j = 1 .. Len(j)
  BY LenProperties
<1>2. q \in Seq(UpFrame)
  <2>1. q \in [1 .. Len(j) -> UpFrame]
    BY <1>1, ElementOfSeq DEF UpFrame
  <2> QED
    BY <1>1, <2>1, IsASeq
<1>3. Len(q) = Len(j)
  <2>1. DOMAIN q = 1 .. Len(j)
    BY <1>1
  <2> QED
    BY <1>1, <1>2, <2>1, LenProperties
<1>4. \A k \in 1 .. Len(q) : q[k] = EventFrame(j[k]) /\ IsEvent(q[k]) /\ q[k].event = j[k]
  BY <1>1, <1>3 DEF EventFrame, IsEvent
<1> HIDE DEF q
<1>5. ASSUME NEW e, Contains(j, e) PROVE e \in Before(q, Len(q) + 1)
  <2>1. PICK k \in 1 .. Len(j) : j[k] = e
    BY <1>5 DEF Contains
  <2>2. k \in 1 .. Len(q) + 1 - 1 /\ IsEvent(q[k]) /\ q[k].event = e
    BY <1>1, <1>3, <1>4, <2>1
  <2> QED
    BY <2>2 DEF Before
<1> QED
  BY <1>1, <1>3, <1>4, <1>5 DEF q

\* What is on a stream has a length.
LEMMA UpLength ==
  ASSUME StreamTyped, NEW n \in Stream
  PROVE  Len(up[n]) \in Nat
BY LenProperties DEF StreamTyped

\* No frame is written and no event journaled: only runs and the log go on, and
\* streams end.
LEMMA Unmoved ==
  ASSUME DeliveryInvariant, Typed, KeepsStored, OrderInvariant, Extends(run, run'), OwnRow,
         journal' = journal, live' => live /\ stream' = stream,
         \A n \in serving' : n \in serving /\ up'[n] = up[n]
  PROVE  OrderInvariant'
<1>1. LogInOrder' /\ SourcesAscend'
  BY LogKept DEF OrderInvariant
<1>2. Ahead \subseteq Ahead'
  BY AheadGrows
<1>3. StreamsInOrder'
  BY <1>2, InOrderMore DEF OrderInvariant, StreamsInOrder
<1>4. JournalInOrder'
  <2>1. Replay' = Replay
    BY DEF Replay
  <2>2. InOrder(Replay, Ahead', run')
    BY <1>2, InOrderMore DEF OrderInvariant, JournalInOrder
  <2> QED
    BY <2>1, <2>2 DEF JournalInOrder
<1>5. JournalSent'
  <2>1. \A e : Journaled(e)' <=> Journaled(e)
    BY DEF Journaled
  <2>2. live' /\ stream' \in serving' =>
          live /\ stream \in serving /\ stream' = stream /\ up'[stream'] = up[stream]
    OBVIOUS
  <2>3. ASSUME live', stream' \in serving', NEW e \in NativeEvent, Journaled(e)'
        PROVE  e \in Ahead' \/ e \in Before(up'[stream'], Len(up'[stream']) + 1)
    BY <1>2, <2>1, <2>2, <2>3 DEF OrderInvariant, JournalSent
  <2> QED
    BY <2>3 DEF JournalSent
<1> QED
  BY <1>1, <1>3, <1>4, <1>5 DEF OrderInvariant

\* A frame that is no event is written.
LEMMA WriteOrder ==
  ASSUME DeliveryInvariant, Typed, KeepsStored, OrderInvariant, stream \in Stream,
         NEW f \in UpFrame, ~IsEvent(f), Write(<<f>>),
         UNCHANGED <<run, events, journal, live, stream, serving>>
  PROVE  OrderInvariant'
<1>1. Written(f)
  BY WriteEffect DEF DeliveryInvariant
<1>2. Extends(run, run') /\ Ahead' = Ahead
  BY RunsStay DEF Ahead, Stored
<1>3. LogInOrder' /\ SourcesAscend'
  BY <1>2, LogKept DEF OwnRow, OrderInvariant
<1>4. /\ Before(up[stream], Len(up[stream]) + 1) \subseteq Before(up'[stream], Len(up'[stream]) + 1)
      /\ InOrder(up[stream], Ahead, run) => InOrder(up'[stream], Ahead, run)
  <2>1. /\ Len(up[stream]) \in Nat /\ Len(up'[stream]) = Len(up[stream]) + 1
        /\ \A k \in 1 .. Len(up[stream]) : up'[stream][k] = up[stream][k]
        /\ ~IsEvent(up'[stream][Len(up'[stream])])
    BY <1>1, UpLength DEF DeliveryInvariant, Written
  <2> QED
    BY <2>1, InOrderLonger
<1>5. StreamsInOrder'
  <2>1. \A n \in serving : n \in Stream
    BY DEF DeliveryInvariant, StreamTyped
  <2>2. \A n \in serving : InOrder(up'[n], Ahead, run)
    BY <1>1, <1>4, <2>1 DEF OrderInvariant, StreamsInOrder, Written
  <2> QED
    BY <1>2, <2>2 DEF StreamsInOrder
<1>6. JournalInOrder'
  BY <1>2 DEF OrderInvariant, JournalInOrder, Replay
<1>7. JournalSent'
  BY <1>2, <1>4 DEF OrderInvariant, JournalSent, Journaled
<1> QED
  BY <1>3, <1>5, <1>6, <1>7 DEF OrderInvariant

\* An event is emitted: those before it are stored or journaled.
LEMMA EmitOrder ==
  ASSUME DeliveryInvariant, Typed, KeepsStored, OrderInvariant,
         NEW e \in ConnectorEvent, EmitEvent(e),
         e \in NativeEvent => Follows(e, Ahead \cup {f \in NativeEvent : Journaled(f)}, run),
         UNCHANGED <<run, events, live, stream, serving>>
  PROVE  OrderInvariant'
<1>1. Extends(run, run') /\ Extends(run, run) /\ Ahead' = Ahead
  BY RunsStay DEF Ahead, Stored
<1>2. LogInOrder' /\ SourcesAscend'
  BY <1>1, LogKept DEF OwnRow, OrderInvariant
<1>3. Emitted(e)
  BY EmitEffect DEF DeliveryInvariant
<1>4. /\ journal \in Seq(ConnectorEvent) /\ journal' \in Seq(ConnectorEvent)
      /\ Len(journal) \in Nat /\ Len(journal') = Len(journal) + 1
      /\ \A k \in 1 .. Len(journal) : journal'[k] = journal[k]
      /\ journal'[Len(journal) + 1] = e
  BY AppendProperties, LenProperties DEF EmitEvent, DeliveryInvariant, ProcessTyped
<1>5. JournalInOrder'
  <2> DEFINE q == Replay
             t == [k \in DOMAIN journal' |-> EventFrame(journal'[k])]
  <2>1. /\ Len(q) = Len(journal) /\ Len(q) \in Nat
        /\ \A k \in 1 .. Len(q) : q[k] = EventFrame(journal[k])
        /\ \A f : Journaled(f) => f \in Before(q, Len(q) + 1)
    BY <1>4, Framed DEF Replay, Journaled
  <2>2. /\ Len(t) = Len(journal')
        /\ \A k \in 1 .. Len(t) : t[k] = EventFrame(journal'[k]) /\ t[k].event = journal'[k]
    BY <1>4, Framed
  <2> HIDE DEF q, t
  <2>3. Len(t) = Len(q) + 1 /\ t[Len(t)].event = e
    BY <1>4, <2>1, <2>2
  <2>4. \A k \in 1 .. Len(q) : t[k] = q[k]
    BY <1>4, <2>1, <2>2
  <2>5. e \in NativeEvent => Follows(e, Ahead \cup Before(q, Len(q) + 1), run)
    <3>1. Ahead \cup {f \in NativeEvent : Journaled(f)} \subseteq Ahead \cup Before(q, Len(q) + 1)
      BY <2>1
    <3> QED
      BY <1>1, <3>1, FollowsMore, EventFacts
  <2>6. InOrder(q, Ahead, run)
    BY DEF q, OrderInvariant, JournalInOrder
  <2>7. InOrder(t, Ahead, run)
    BY <2>1, <2>3, <2>4, <2>5, <2>6, InOrderLonger
  <2> QED
    BY <1>1, <2>7 DEF JournalInOrder, Replay, t
<1>6. CASE live
  <2> DEFINE q == up[stream]
             t == up'[stream]
  <2>1. Written(EventFrame(e)) /\ stream \in Stream
    BY <1>3, <1>6 DEF Emitted, DeliveryInvariant, StreamTyped, Connected, Stream
  <2>2. /\ Len(q) \in Nat /\ Len(t) = Len(q) + 1
        /\ \A k \in 1 .. Len(q) : t[k] = q[k]
        /\ IsEvent(t[Len(t)]) /\ t[Len(t)].event = e
    BY <2>1, UpLength DEF DeliveryInvariant, Written, IsEvent, EventFrame
  <2> HIDE DEF q, t
  <2>3. /\ Before(q, Len(q) + 1) \subseteq Before(t, Len(t) + 1) /\ e \in Before(t, Len(t) + 1)
    BY <2>2, InOrderLonger
  <2>4. ASSUME stream \in serving PROVE InOrder(t, Ahead, run)
    <3>1. \A f \in NativeEvent : Journaled(f) => f \in Ahead \/ f \in Before(q, Len(q) + 1)
      BY <1>6, <2>4 DEF q, OrderInvariant, JournalSent
    <3>2. Ahead \cup {f \in NativeEvent : Journaled(f)} \subseteq Ahead \cup Before(q, Len(q) + 1)
      BY <3>1
    <3>3. e \in NativeEvent => Follows(e, Ahead \cup Before(q, Len(q) + 1), run)
      BY <1>1, <3>2, FollowsMore, EventFacts
    <3>4. InOrder(q, Ahead, run)
      BY <2>4 DEF q, OrderInvariant, StreamsInOrder
    <3> QED
      BY <2>2, <3>3, <3>4, InOrderLonger
  <2>5. StreamsInOrder'
    <3>1. \A n \in serving : n \in Stream
      BY DEF DeliveryInvariant, StreamTyped
    <3>2. \A n \in serving : InOrder(up'[n], Ahead, run)
      BY <2>1, <2>4, <3>1 DEF t, OrderInvariant, StreamsInOrder, Written
    <3> QED
      BY <1>1, <3>2 DEF StreamsInOrder
  <2>6. ASSUME stream \in serving, NEW f \in NativeEvent, Journaled(f)'
        PROVE  f \in Ahead \/ f \in Before(t, Len(t) + 1)
    <3>1. Journaled(f) \/ f = e
      BY <1>3, <2>6 DEF Emitted
    <3>2. CASE Journaled(f)
      BY <1>6, <2>3, <2>6, <3>2 DEF q, OrderInvariant, JournalSent
    <3> QED
      BY <2>3, <3>1, <3>2
  <2>7. JournalSent'
    BY <1>1, <2>6 DEF t, JournalSent
  <2> QED
    BY <1>2, <1>5, <2>5, <2>7 DEF OrderInvariant
<1>7. CASE ~live
  <2>1. up' = up
    BY <1>3, <1>7 DEF Emitted
  <2>2. StreamsInOrder' /\ JournalSent'
    BY <1>1, <1>7, <2>1 DEF OrderInvariant, StreamsInOrder, JournalSent
  <2> QED
    BY <1>2, <1>5, <2>2 DEF OrderInvariant
<1> QED
  BY <1>6, <1>7

\* An event the log has leaves the journal.
LEMMA ReceiptOrder ==
  ASSUME DeliveryInvariant, Typed, KeepsStored, OrderInvariant,
         NEW k \in DOMAIN journal, journal' = RemoveAt(journal, k), journal[k] \in Ahead,
         UNCHANGED <<run, events, up, live, stream, serving>>
  PROVE  OrderInvariant'
<1>1. Extends(run, run') /\ Extends(run, run) /\ Ahead' = Ahead
  BY RunsStay DEF Ahead, Stored
<1>2. LogInOrder' /\ SourcesAscend'
  BY <1>1, LogKept DEF OwnRow, OrderInvariant
<1>3. /\ journal \in Seq(ConnectorEvent) /\ journal' \in Seq(ConnectorEvent)
      /\ Len(journal) \in Nat /\ DOMAIN journal = 1 .. Len(journal)
      /\ Len(journal') = Len(journal) - 1
      /\ \A i \in 1 .. Len(journal) - 1 :
           journal'[i] = IF i < k THEN journal[i] ELSE journal[i + 1]
      /\ \A e : Contains(journal', e) => Contains(journal, e)
  <2>1. journal \in Seq(ConnectorEvent)
    BY DEF DeliveryInvariant, ProcessTyped
  <2> QED
    BY <2>1, RemoveEffect, LenProperties
<1>4. JournalInOrder'
  <2> DEFINE q == Replay
             t == [i \in DOMAIN journal' |-> EventFrame(journal'[i])]
  <2>1. /\ Len(q) = Len(journal) /\ Len(q) \in Nat
        /\ \A i \in 1 .. Len(q) : q[i] = EventFrame(journal[i]) /\ q[i].event = journal[i]
    BY <1>3, Framed DEF Replay
  <2>2. /\ Len(t) = Len(journal')
        /\ \A i \in 1 .. Len(t) : t[i] = EventFrame(journal'[i])
    BY <1>3, Framed
  <2> HIDE DEF q, t
  <2>3. Len(t) = Len(q) - 1 /\ k \in 1 .. Len(q) /\ q[k].event \in Ahead
    BY <1>3, <2>1, <2>2
  <2>4. ASSUME NEW i \in 1 .. Len(q) - 1
        PROVE  t[i] = IF i < k THEN q[i] ELSE q[i + 1]
    <3>1. i \in 1 .. Len(q) /\ i + 1 \in 1 .. Len(q) /\ i \in 1 .. Len(t)
      BY <2>1, <2>3
    <3> QED
      BY <1>3, <2>1, <2>2, <3>1
  <2>5. InOrder(q, Ahead, run)
    BY DEF q, OrderInvariant, JournalInOrder
  <2>6. InOrder(t, Ahead, run)
    BY <1>1, <2>1, <2>3, <2>4, <2>5, InOrderShorter
  <2> QED
    BY <1>1, <2>6 DEF JournalInOrder, Replay, t
<1>5. StreamsInOrder'
  BY <1>1 DEF OrderInvariant, StreamsInOrder
<1>6. JournalSent'
  BY <1>1, <1>3 DEF OrderInvariant, JournalSent, Journaled
<1> QED
  BY <1>2, <1>4, <1>5, <1>6 DEF OrderInvariant

\* The process exits with its journal.
LEMMA RestartOrder ==
  ASSUME DeliveryInvariant, Typed, KeepsStored, OrderInvariant, Restart, UNCHANGED <<run, events>>
  PROVE  OrderInvariant'
<1>1. journal' = <<>> /\ live' = FALSE /\ UNCHANGED <<up, serving>>
  BY DEF Restart, LoseStream
<1>2. Extends(run, run') /\ Ahead' = Ahead
  BY RunsStay DEF Ahead, Stored
<1>3. LogInOrder' /\ SourcesAscend'
  BY <1>2, LogKept DEF OwnRow, OrderInvariant
<1>4. StreamsInOrder' /\ JournalSent'
  BY <1>1, <1>2 DEF OrderInvariant, StreamsInOrder, JournalSent
<1>5. JournalInOrder'
  <2> DEFINE j == <<>>
             t == [i \in DOMAIN j |-> EventFrame(j[i])]
  <2>1. j \in Seq(ConnectorEvent) /\ Len(j) = 0
    BY EmptySeq
  <2> HIDE DEF j
  <2>2. Len(t) = 0
    BY <2>1, Framed
  <2> HIDE DEF t
  <2>3. InOrder(t, Ahead, run)
    BY <2>2 DEF InOrder
  <2> QED
    BY <1>1, <1>2, <2>3 DEF JournalInOrder, Replay, t, j
<1> QED
  BY <1>3, <1>4, <1>5 DEF OrderInvariant

\* A new stream starts with the journal.
LEMMA ConnectOrder ==
  ASSUME DeliveryInvariant, Typed, KeepsStored, OrderInvariant, Connect
  PROVE  OrderInvariant'
<1> DEFINE new == stream + 1
           q == Replay
           t == <<Registration>> \o Replay
<1>1. /\ stream < MaxConnections /\ stream' = new
      /\ up' = [up EXCEPT ![new] = t] /\ serving' = serving \cup {new}
      /\ UNCHANGED <<run, events, journal>>
  BY DEF Connect, vars, hermesVars
<1>2. new \in Stream
  BY <1>1, BoundAssumption DEF DeliveryInvariant, StreamTyped, Stream
<1>3. Extends(run, run') /\ Extends(run, run) /\ Ahead' = Ahead
  BY <1>1, RunsStay DEF Ahead, Stored
<1>4. LogInOrder' /\ SourcesAscend'
  BY <1>1, <1>3, LogKept DEF OwnRow, OrderInvariant
<1>5. /\ Len(q) \in Nat /\ Len(q) = Len(journal)
      /\ \A k \in 1 .. Len(q) : q[k] = EventFrame(journal[k])
      /\ \A e : Journaled(e) => e \in Before(q, Len(q) + 1)
  BY Framed DEF DeliveryInvariant, ProcessTyped, Replay, Journaled
<1>6. /\ Len(t) = Len(journal) + 1 /\ t[1] = Registration
      /\ \A k \in 1 .. Len(journal) : t[k + 1] = EventFrame(journal[k])
  BY ReplayEffect DEF DeliveryInvariant
<1> HIDE DEF q, t, new
<1>7. /\ Before(q, Len(q) + 1) \subseteq Before(t, Len(t) + 1)
      /\ InOrder(q, Ahead, run) => InOrder(t, Ahead, run)
  <2>1. ~IsEvent(t[1])
    BY <1>6 DEF IsEvent, Registration
  <2>2. Len(t) = Len(q) + 1 /\ \A k \in 1 .. Len(q) : t[k + 1] = q[k]
    BY <1>5, <1>6
  <2> QED
    BY <1>3, <1>5, <2>1, <2>2, InOrderShifted
<1>8. up'[new] = t /\ \A n \in Stream \ {new} : up'[n] = up[n]
  BY <1>1, <1>2 DEF DeliveryInvariant, StreamTyped
<1>9. InOrder(t, Ahead, run)
  BY <1>7 DEF q, OrderInvariant, JournalInOrder
<1>10. StreamsInOrder'
  <2>1. \A n \in serving : n \in Stream
    BY DEF DeliveryInvariant, StreamTyped
  <2>2. \A n \in serving \cup {new} : InOrder(up'[n], Ahead, run)
    BY <1>8, <1>9, <2>1 DEF OrderInvariant, StreamsInOrder
  <2> QED
    BY <1>1, <1>3, <2>2 DEF StreamsInOrder
<1>11. JournalInOrder'
  BY <1>1, <1>3 DEF OrderInvariant, JournalInOrder, Replay
<1>12. JournalSent'
  <2>1. \A e : Journaled(e)' => e \in Before(t, Len(t) + 1)
    BY <1>1, <1>5, <1>7 DEF Journaled
  <2> QED
    BY <1>1, <1>8, <2>1 DEF JournalSent
<1> QED
  BY <1>4, <1>10, <1>11, <1>12 DEF OrderInvariant
----------------------------------------------------------------------------
\* The handler takes a frame whose event, if it is one, is now stored.
LEMMA ServeOrder ==
  ASSUME DeliveryInvariant, Typed, KeepsStored, OrderInvariant, LogInOrder', SourcesAscend',
         NEW n \in Stream, up[n] # <<>>, Dequeue(n),
         IsEvent(up[n][1]) => up[n][1].event \in Ahead',
         UNCHANGED <<run, journal, live, stream, serving>>
  PROVE  OrderInvariant'
<1> DEFINE q == up[n]
           t == up'[n]
<1>1. Extends(run, run') /\ Extends(run, run) /\ Ahead \subseteq Ahead'
  BY RunsStay, AheadGrows
<1>2. Dequeued(n) /\ Len(q) \in Nat \ {0}
  BY DequeueEffect DEF DeliveryInvariant
<1>3. /\ Before(q, Len(q) + 1) \subseteq Ahead' \cup Before(t, Len(t) + 1)
      /\ InOrder(q, Ahead', run) => InOrder(t, Ahead', run)
  <2>1. /\ Len(t) = Len(q) - 1 /\ 1 \in 1 .. Len(q)
        /\ \A k \in 1 .. Len(q) - 1 : t[k] = IF k < 1 THEN q[k] ELSE q[k + 1]
    BY <1>2 DEF Dequeued
  <2>2. IsEvent(q[1]) => q[1].event \in Ahead'
    OBVIOUS
  <2> HIDE DEF q, t
  <2> QED
    BY <1>1, <1>2, <2>1, <2>2, InOrderShorter
<1>4. StreamsInOrder'
  <2>1. \A m \in serving : m \in Stream /\ InOrder(up[m], Ahead', run)
    BY <1>1, InOrderMore DEF OrderInvariant, StreamsInOrder, DeliveryInvariant, StreamTyped
  <2>2. \A m \in serving : InOrder(up'[m], Ahead', run)
    BY <1>2, <1>3, <2>1 DEF Dequeued
  <2> QED
    BY <2>2 DEF StreamsInOrder
<1>5. JournalInOrder'
  <2>1. InOrder(Replay, Ahead', run)
    BY <1>1, InOrderMore DEF OrderInvariant, JournalInOrder
  <2> QED
    BY <2>1 DEF JournalInOrder, Replay
<1>6. JournalSent'
  <2> SUFFICES ASSUME live, stream \in serving, NEW e \in NativeEvent, Journaled(e)
               PROVE  e \in Ahead' \/ e \in Before(up'[stream], Len(up'[stream]) + 1)
    BY DEF JournalSent, Journaled
  <2>1. e \in Ahead' \/ e \in Before(up[stream], Len(up[stream]) + 1)
    BY <1>1 DEF OrderInvariant, JournalSent
  <2>2. stream \in Stream
    BY DEF DeliveryInvariant, StreamTyped
  <2> QED
    BY <1>2, <1>3, <2>1, <2>2 DEF Dequeued
<1> QED
  BY <1>4, <1>5, <1>6 DEF OrderInvariant

\* A stream ends.
LEMMA EndStreamOrder ==
  ASSUME DeliveryInvariant, Typed, KeepsStored, OrderInvariant, NEW n \in Stream,
         events' = events, up' = [up EXCEPT ![n] = <<>>], serving' = serving \ {n},
         UNCHANGED <<run, journal, live, stream>>
  PROVE  OrderInvariant'
<1>1. Extends(run, run') /\ OwnRow
  BY RunsStay DEF OwnRow
<1>2. \A m \in serving' : m \in serving /\ up'[m] = up[m]
  BY DEF DeliveryInvariant, StreamTyped
<1> QED
  BY <1>1, <1>2, Unmoved

\* connectNode takes the next frame of a stream.
LEMMA GatewayServesOrder ==
  ASSUME DeliveryInvariant, Typed, KeepsStored, OrderInvariant, NEW n \in Stream, GatewayServes(n)
  PROVE  OrderInvariant'
<1> DEFINE f == Head(up[n])
           c == registered[n]
<1>1. /\ n \in serving /\ up[n] # <<>> /\ UNCHANGED <<run, journal, live, stream>>
      /\ CASE f.kind = "registration" -> Register(n)
           [] f.kind = "ack" -> TakeAck(n, f)
           [] f.kind = "event" -> TakeNodeEvent(n, f.event)
  BY DEF GatewayServes, hermesVars, process
<1>2. f = up[n][1] /\ f \in UpFrame /\ 1 \in 1 .. Len(up[n])
  BY <1>1, HeadFacts
<1>3. Extends(run, run')
  BY <1>1, RunsStay
<1> HIDE DEF f
<1>4. CASE EndStream(n)
  BY <1>1, <1>4, EndStreamOrder DEF EndStream, vars
<1>5. ASSUME OwnRow, Dequeue(n), serving' = serving, ~IsEvent(f) PROVE OrderInvariant'
  <2>1. LogInOrder' /\ SourcesAscend'
    BY <1>3, <1>5, LogKept DEF OrderInvariant
  <2> QED
    BY <1>1, <1>2, <1>5, <2>1, ServeOrder
<1>6. CASE f.kind = "registration"
  <2>1. OwnRow /\ Dequeue(n) /\ serving' = serving /\ ~IsEvent(f)
    BY <1>1, <1>6 DEF Register, RegisterNode, OwnRow, IsEvent
  <2> QED
    BY <1>5, <2>1
<1>7. CASE f.kind = "ack"
  <2>1. TakeAck(n, f) /\ ~IsEvent(f)
    BY <1>1, <1>7 DEF IsEvent
  <2>2. CASE ~EndStream(n)
    <3>1. Dequeue(n) /\ serving' = serving
          /\ (AcknowledgeDispatch(c, f.dispatch, f.accepted) \/ events' = events)
      BY <2>1, <2>2 DEF TakeAck, vars
    <3>2. events' = events \/ Record(NoEventId, f.dispatch[2], "failed", 0, NoItem)
      BY <3>1 DEF AcknowledgeDispatch
    <3>3. OwnRow
      BY <3>2, RecordOwn DEF OwnRow
    <3> QED
      BY <1>5, <2>1, <3>1, <3>3
  <2> QED
    BY <1>4, <2>2
<1>8. CASE f.kind = "event"
  <2> DEFINE e == f.event
  <2>1. e \in ConnectorEvent /\ IsEvent(f) /\ TakeNodeEvent(n, e)
    BY <1>1, <1>2, <1>8, UpFrameKinds DEF IsEvent
  <2>2. e \in NativeEvent => Follows(e, Ahead, run)
    <3>1. ASSUME e \in NativeEvent PROVE Follows(e, Ahead \cup Before(up[n], 1), run)
      BY <1>1, <1>2, <2>1, <3>1 DEF OrderInvariant, StreamsInOrder, InOrder
    <3>2. Before(up[n], 1) = {}
      BY DEF Before
    <3> QED
      BY <3>1, <3>2
  <2> HIDE DEF e
  <2>3. CASE EventOutcome(c, e) = "stored" /\ IngestNodeEvent(c, e) /\ Dequeue(n) /\ serving' = serving
    <3>1. NodeRow(e)
      BY <2>3, RecordNode
    <3>2. LogInOrder' /\ SourcesAscend'
      BY <1>3, <2>1, <2>2, <3>1, LogTakes DEF OrderInvariant
    <3>3. \E m \in DOMAIN events' : events'[m].id = e.id
      <4>1. Record(e.id, e.request, e.type, e.source, e.item)
        BY <2>3 DEF IngestNodeEvent
      <4> QED
        BY <4>1, RecordKeeps
    <3>4. e \in Ahead'
      BY <2>1, <3>3 DEF Ahead, Stored
    <3> QED
      BY <1>1, <1>2, <2>3, <3>2, <3>4, ServeOrder DEF e
  <2>4. CASE EventOutcome(c, e) = "repeated" /\ Dequeue(n) /\ events' = events /\ serving' = serving
    <3>1. Stored(e)
      BY <2>4 DEF EventOutcome, Stored
    <3>2. e \in Ahead'
      BY <2>1, <2>4, <3>1 DEF Ahead, Stored
    <3>3. LogInOrder' /\ SourcesAscend'
      BY <1>3, <2>4, LogKept DEF OrderInvariant, OwnRow
    <3> QED
      BY <1>1, <1>2, <2>4, <3>2, <3>3, ServeOrder DEF e
  <2> QED
    BY <1>4, <2>1, <2>3, <2>4 DEF TakeNodeEvent, vars
<1> QED
  BY <1>2, <1>6, <1>7, <1>8, UpFrameKinds
----------------------------------------------------------------------------
\* #stream emits the run's next event: those before it were emitted.
LEMMA TakeEventOrder ==
  ASSUME DeliveryInvariant, Typed, KeepsStored, OrderInvariant, NEW r \in Request, TakeEvent(r)
  PROVE  OrderInvariant'
<1> DEFINE k == read[r] + 1
           e == run[r][k]
           S == Ahead \cup {f \in NativeEvent : Journaled(f)}
<1>1. /\ task[r] = "streaming" /\ read[r] < Len(run[r]) /\ EmitEvent(e)
      /\ UNCHANGED <<run, events, live, stream, serving>>
  BY DEF TakeEvent, Streaming, Take, vars, hermesVars
<1>2. HasRun(r) /\ read[r] \in Nat
  BY <1>1 DEF DeliveryInvariant, Effective, ProcessTyped
<1>3. run[r] \in Seq(NativeEvent) /\ Len(run[r]) \in Nat
  BY <1>2, EventRead DEF DeliveryInvariant
<1>4. k \in 1 .. Len(run[r]) /\ \A j \in 1 .. k - 1 : j \in 1 .. read[r] /\ j \in 1 .. Len(run[r])
  BY <1>1, <1>2, <1>3
<1>5. e \in NativeEvent /\ e \in ConnectorEvent
  BY <1>3, <1>4, ElementOfSeq, EventFacts
<1>6. e.request = r
  BY <1>2, <1>4 DEF DeliveryInvariant, HermesTyped
<1>7. \A j \in 1 .. k - 1 : run[r][j] \in S
  <2> SUFFICES ASSUME NEW j \in 1 .. k - 1 PROVE run[r][j] \in S
    OBVIOUS
  <2>1. run[r][j] \in NativeEvent /\ run[r][j] \in ConnectorEvent
    BY <1>3, <1>4, ElementOfSeq, EventFacts
  <2>2. Journaled(run[r][j]) \/ Stored(run[r][j])
    BY <1>4 DEF DeliveryInvariant, EventsRetained
  <2> QED
    BY <2>1, <2>2 DEF Ahead
<1> HIDE DEF k, S
<1>8. Follows(e, S, run)
  BY <1>2, <1>4, <1>6, <1>7 DEF Follows, HasRun
<1> HIDE DEF e
<1> QED
  BY <1>1, <1>5, <1>8, EmitOrder DEF S

\* A supplement is no event of the run.
LEMMA SupplementOrder ==
  ASSUME DeliveryInvariant, Typed, KeepsStored, OrderInvariant,
         NEW r \in Request, NEW n, NEW kind, EmitEvent(Supplement(r, n, kind)),
         Supplement(r, n, kind) \in OwnEvent,
         UNCHANGED <<run, events, live, stream, serving>>
  PROVE  OrderInvariant'
<1>1. Supplement(r, n, kind) \in ConnectorEvent
  BY DEF ConnectorEvent
<1>2. Supplement(r, n, kind) \notin NativeEvent
  BY NativeFacts
<1> QED
  BY <1>1, <1>2, EmitOrder

\* The node takes the next frame of the Gateway's.
LEMMA NodeReceivesOrder ==
  ASSUME DeliveryInvariant, Typed, KeepsStored, OrderInvariant, NodeReceives
  PROVE  OrderInvariant'
<1> DEFINE frame == Head(down)
<1>1. /\ live /\ down # <<>> /\ UNCHANGED <<run, events>>
      /\ IF Fatal(frame) THEN Restart
         ELSE /\ IF frame.kind = "receipt" THEN TakeReceipt(frame.event)
                 ELSE UNCHANGED journal
              /\ UNCHANGED <<stream, live, up, serving>>
  BY DEF NodeReceives, vars, hermesVars
<1>2. frame = down[1] /\ frame \in DownFrame /\ 1 \in 1 .. Len(down)
  BY <1>1, HeadTailProperties, LenProperties, EmptySeq DEF DeliveryInvariant, StreamTyped
<1> HIDE DEF frame
<1>3. CASE Fatal(frame)
  BY <1>1, <1>3, RestartOrder
<1>4. CASE ~Fatal(frame) /\ frame.kind = "receipt"
  <2>1. PICK k \in DOMAIN journal : journal[k] = frame.event /\ journal' = RemoveAt(journal, k)
    BY <1>1, <1>4 DEF TakeReceipt
  <2>2. frame.event \in ConnectorEvent
    BY <1>2, <1>4, DownFrameKinds
  <2>3. Stored(frame.event)
    BY <1>1, <1>2, <1>4 DEF DeliveryInvariant, Pending, IsReceipt
  <2>4. journal[k] \in Ahead
    BY <2>1, <2>2, <2>3 DEF Ahead
  <2> QED
    BY <1>1, <1>4, <2>1, <2>4, ReceiptOrder
<1>5. CASE ~Fatal(frame) /\ frame.kind # "receipt"
  <2>1. Extends(run, run') /\ OwnRow
    BY <1>1, RunsStay DEF OwnRow
  <2> QED
    BY <1>1, <1>5, <2>1, Unmoved
<1> QED
  BY <1>3, <1>4, <1>5

\* A run begins or goes on.
LEMMA HermesOrder ==
  ASSUME DeliveryInvariant, Typed, KeepsStored, OrderInvariant, NEW r \in Request,
         HermesBegins(r) \/ HermesReports(r)
  PROVE  OrderInvariant'
<1>1. /\ UNCHANGED <<events, journal, live, stream, up, serving>>
      /\ \/ run' = run
         \/ ~HasRun(r) /\ run' = [run EXCEPT ![r] = <<>>]
         \/ HasRun(r) /\ \E e \in NativeEvent : run' = [run EXCEPT ![r] = Append(run[r], e)]
  BY ReportedEvent DEF HermesBegins, HermesReports, vars, process, streams
<1>2. Extends(run, run')
  <2>1. \A q \in Request : HasRun(q) => run[q] \in Seq(NativeEvent) /\ Len(run[q]) \in Nat
    BY LenProperties DEF DeliveryInvariant, HermesTyped, HasRun
  <2>2. DOMAIN run = Request
    BY DEF DeliveryInvariant, HermesTyped
  <2>3. CASE run' = run
    BY <2>3, RunsStay
  <2>4. CASE ~HasRun(r) /\ run' = [run EXCEPT ![r] = <<>>]
    BY <2>1, <2>2, <2>4 DEF Extends, HasRun
  <2>5. CASE HasRun(r) /\ \E e \in NativeEvent : run' = [run EXCEPT ![r] = Append(run[r], e)]
    <3>1. PICK e \in NativeEvent : run' = [run EXCEPT ![r] = Append(run[r], e)]
      BY <2>5
    <3>2. run[r] \in Seq(NativeEvent) /\ Len(run[r]) \in Nat
      BY <2>1, <2>5
    <3>3. /\ Append(run[r], e) \in Seq(NativeEvent) /\ Len(Append(run[r], e)) = Len(run[r]) + 1
          /\ \A k \in 1 .. Len(run[r]) : Append(run[r], e)[k] = run[r][k]
      BY <3>2, AppendProperties
    <3>4. run'[r] # NoRun
      BY <2>2, <3>1, <3>3, RunAssumption
    <3>5. \A q \in Request \ {r} : run'[q] = run[q]
      BY <2>2, <3>1
    <3>6. run'[r] = Append(run[r], e)
      BY <2>2, <3>1
    <3> HIDE DEF HasRun
    <3> QED
      BY <2>1, <3>2, <3>3, <3>4, <3>5, <3>6 DEF Extends, HasRun
  <2> QED
    BY <1>1, <2>3, <2>4, <2>5
<1> QED
  BY <1>1, <1>2, Unmoved DEF OwnRow
----------------------------------------------------------------------------
\* How far a run that is being streamed has come.
LEMMA StreamingFacts ==
  ASSUME DeliveryInvariant, NEW r \in Request, task[r] = "streaming"
  PROVE  /\ last[r] \in Nat /\ last[r] <= 2 * (MaxNative + MaxResumes)
         /\ MaxNative + MaxResumes \in Nat
<1>1. /\ last[r] \in Nat /\ tries[r] \in Nat /\ read[r] \in Nat
      /\ tries[r] <= MaxResumes /\ last[r] <= 2 * read[r] + 2 * tries[r]
  BY DEF DeliveryInvariant, ProcessTyped, Reading, Advanced
<1>2. HasRun(r) /\ Len(run[r]) \in Nat
  BY EventRead DEF DeliveryInvariant, Effective
<1>3. read[r] <= MaxNative
  BY <1>1, <1>2, DeliveryAssumption DEF DeliveryInvariant, HermesTyped, Reading
<1> QED
  BY <1>1, <1>3, DeliveryAssumption

\* A step of the node or of its tasks.
LEMMA NodeStepOrder ==
  ASSUME DeliveryInvariant, Typed, KeepsStored, OrderInvariant, NodeStep
  PROVE  OrderInvariant'
<1>1. CASE Connect \/ NodeReceives
  BY <1>1, ConnectOrder, NodeReceivesOrder
<1>2. ASSUME NEW f \in held, SendAck(f) PROVE OrderInvariant'
  <2>1. live /\ Write(<<f>>) /\ UNCHANGED <<run, events, journal, live, stream, serving>>
    BY <1>2 DEF SendAck, vars, hermesVars
  <2>2. f \in UpFrame /\ ~IsEvent(f) /\ stream \in Stream
    BY <2>1 DEF DeliveryInvariant, ProcessTyped, StreamTyped, Connected, Stream, UpFrame, Frame, IsEvent
  <2> QED
    BY <2>1, <2>2, WriteOrder
<1>3. ASSUME NEW r \in Request, HermesBegins(r) \/ TakeEvent(r) PROVE OrderInvariant'
  BY <1>3, HermesOrder, TakeEventOrder
<1>4. ASSUME NEW r \in Request, Submitted(r) \/ Refused(r) PROVE OrderInvariant'
  <2>1. UNCHANGED <<run, events, journal, up, live, stream, serving>>
    BY <1>4 DEF Submitted, Refused, vars, hermesVars, streams
  <2> QED
    BY <2>1, RunsStay, Unmoved DEF OwnRow
<1>5. ASSUME NEW x \in Dispatch, NEW accepted \in BOOLEAN, FinishCall(x, accepted)
      PROVE  OrderInvariant'
  <2>1. UNCHANGED <<run, events, journal, up, live, stream, serving>>
    BY <1>5 DEF FinishCall, vars, streams
  <2> QED
    BY <2>1, RunsStay, Unmoved DEF OwnRow
<1>6. ASSUME NEW r \in Request, Uncertain(r) PROVE OrderInvariant'
  <2>1. EmitEvent(Supplement(r, 1, "uncertain")) /\ UNCHANGED <<run, events, live, stream, serving>>
    BY <1>6 DEF Uncertain, vars, hermesVars
  <2>2. Supplement(r, 1, "uncertain") \in OwnEvent
    BY DeliveryAssumption DEF OwnEvent
  <2> QED
    BY <2>1, <2>2, SupplementOrder
<1>7. ASSUME NEW r \in Request, StreamDisconnects(r) PROVE OrderInvariant'
  <2> DEFINE n == Synthetic(last[r])
  <2>1. EmitEvent(Supplement(r, n, "lost")) /\ UNCHANGED <<run, events, live, stream, serving>>
    BY <1>7 DEF StreamDisconnects, vars, hermesVars
  <2>2. Supplement(r, n, "lost") \in OwnEvent
    <3>1. /\ last[r] \in Nat /\ last[r] <= 2 * (MaxNative + MaxResumes)
          /\ MaxNative + MaxResumes \in Nat
      BY <1>7, StreamingFacts DEF StreamDisconnects, Streaming
    <3>2. n \in Nat /\ last[r] < n /\ n <= 2 * (MaxNative + MaxResumes) + 1
      BY <3>1, SyntheticFacts
    <3>3. n \in 1 .. 2 * (MaxNative + MaxResumes) + 2
      BY <3>1, <3>2
    <3> HIDE DEF n
    <3> QED
      BY <3>3 DEF OwnEvent
  <2> QED
    BY <2>1, <2>2, SupplementOrder
<1>8. ASSUME NEW r \in Request, StreamFails(r) PROVE OrderInvariant'
  <2>1. EmitEvent(Supplement(r, last[r] + 1, "failed"))
        /\ UNCHANGED <<run, events, live, stream, serving>>
    BY <1>8 DEF StreamFails, vars, hermesVars
  <2>2. Supplement(r, last[r] + 1, "failed") \in OwnEvent
    <3>1. /\ last[r] \in Nat /\ last[r] <= 2 * (MaxNative + MaxResumes)
          /\ MaxNative + MaxResumes \in Nat
      BY <1>8, StreamingFacts DEF StreamFails, Streaming
    <3>2. last[r] + 1 \in 1 .. 2 * (MaxNative + MaxResumes) + 2
      BY <3>1
    <3> QED
      BY <3>2 DEF OwnEvent
  <2> QED
    BY <2>1, <2>2, SupplementOrder
<1> QED
  BY <1>1, <1>2, <1>3, <1>4, <1>5, <1>6, <1>7, <1>8 DEF NodeStep

\* Every step keeps the order.
LEMMA OrderStep ==
  ASSUME DeliveryInvariant, LedgerInvariant, OrderInvariant, [DeliveryNext]_deliveryVars
  PROVE  OrderInvariant'
<1>1. Typed /\ KeepsStored
  BY StepMaps, LogGrows DEF LedgerInvariant
<1>2. CASE UNCHANGED deliveryVars
  <2>1. UNCHANGED <<run, events, journal, up, live, stream, serving>>
    BY <1>2 DEF deliveryVars, vars, hermesVars, process, streams
  <2> QED
    BY <1>1, <2>1, RunsStay, Unmoved DEF OwnRow
<1>3. CASE NodeStep
  BY <1>1, <1>3, NodeStepOrder
<1>4. CASE ClientStep
  <2>1. UNCHANGED <<run, journal, up, live, stream, serving>>
    BY <1>4 DEF ClientStep, hermesVars, process, streams
  <2>2. OwnRow
    BY <1>4, CommandOwn DEF ClientStep, ChangeController, Lapse, OwnRow
  <2> QED
    BY <1>1, <2>1, <2>2, RunsStay, Unmoved
<1>5. ASSUME NEW n \in Stream, GatewayServes(n) PROVE OrderInvariant'
  BY <1>1, <1>5, GatewayServesOrder
<1>6. ASSUME NEW n \in Stream, GatewayClaims(n) PROVE OrderInvariant'
  <2>1. UNCHANGED <<run, events, journal, up, live, stream, serving>>
    BY <1>6 DEF GatewayClaims, ClaimDispatches, hermesVars, process
  <2> QED
    BY <1>1, <2>1, RunsStay, Unmoved DEF OwnRow
<1>7. ASSUME NEW n \in Stream, HandlerEnds(n) PROVE OrderInvariant'
  BY <1>1, <1>7, EndStreamOrder DEF HandlerEnds, vars, hermesVars, process
<1>8. CASE \E r \in Request : HermesReports(r)
  BY <1>1, <1>8, HermesOrder
<1>9. CASE Break
  <2>1. UNCHANGED <<run, events, journal, up, serving>> /\ live' = FALSE
    BY <1>9 DEF Break, LoseStream, vars, hermesVars, process
  <2> QED
    BY <1>1, <2>1, RunsStay, Unmoved DEF OwnRow
<1>10. CASE Crash
  BY <1>1, <1>10, RestartOrder DEF Crash, vars, hermesVars
<1> QED
  BY <1>2, <1>3, <1>4, <1>5, <1>6, <1>7, <1>8, <1>9, <1>10 DEF DeliveryNext

LEMMA OrderInitially == DeliveryInit => OrderInvariant
<1> SUFFICES ASSUME DeliveryInit PROVE OrderInvariant
  OBVIOUS
<1>1. events = <<>> /\ journal = <<>> /\ live = FALSE /\ serving = {}
  BY DEF DeliveryInit, Init
<1>2. DOMAIN <<>> = {}
  OBVIOUS
<1>3. LogInOrder /\ SourcesAscend
  BY <1>1, <1>2 DEF LogInOrder, SourcesAscend
<1>4. StreamsInOrder /\ JournalSent
  BY <1>1 DEF StreamsInOrder, JournalSent
<1>5. JournalInOrder
  <2> DEFINE j == <<>>
             t == [i \in DOMAIN j |-> EventFrame(j[i])]
  <2>1. j \in Seq(ConnectorEvent) /\ Len(j) = 0
    BY EmptySeq
  <2> HIDE DEF j
  <2>2. Len(t) = 0
    BY <2>1, Framed
  <2> HIDE DEF t
  <2>3. InOrder(t, Ahead, run)
    BY <2>2 DEF InOrder
  <2> QED
    BY <1>1, <2>3 DEF JournalInOrder, Replay, t, j
<1> QED
  BY <1>3, <1>4, <1>5 DEF OrderInvariant

\* In every state the log, the journal and the streams that are served have the
\* events of a run in the run's order.
THEOREM OrderInvariantHolds == DeliverySpec => []OrderInvariant
<1>1. DeliveryInvariant /\ LedgerInvariant /\ OrderInvariant /\ [DeliveryNext]_deliveryVars
        => OrderInvariant'
  BY OrderStep
<1>2. DeliveryInit => OrderInvariant
  BY OrderInitially
<1> QED
  BY <1>1, <1>2, DeliveryInvariantHolds, PTL DEF DeliverySpec

\* The log has an event of a run once, and after every event before it in the run.
LEMMA RunInLog ==
  ASSUME DeliveryInvariant, LedgerInvariant, OrderInvariant,
         NEW r \in Request, HasRun(r), NEW k \in 1 .. Len(run[r]),
         NEW n, n \in DOMAIN events, events[n].id = run[r][k].id
  PROVE  /\ \A m \in DOMAIN events : events[m].id = run[r][k].id => m = n
         /\ \A j \in 1 .. k - 1 :
              \E m \in DOMAIN events : events[m].id = run[r][j].id /\ m < n
<1>1. run[r] \in Seq(NativeEvent) /\ Len(run[r]) \in Nat
  BY LenProperties DEF DeliveryInvariant, HermesTyped, HasRun
<1>2. \A i \in 1 .. Len(run[r]) :
        run[r][i] \in NativeEvent /\ run[r][i].source = 2 * i /\ run[r][i].request = r
  BY <1>1, ElementOfSeq DEF DeliveryInvariant, HermesTyped
<1>3. \A i \in 1 .. Len(run[r]), m \in DOMAIN events : events[m].id = run[r][i].id =>
        events[m].request = r /\ events[m].source = 2 * i
  BY <1>2 DEF OrderInvariant, LogInOrder
<1>4. \A m \in DOMAIN events : m \in Nat
  <2>1. DOMAIN events = 1 .. Len(events)
    BY LenProperties DEF LedgerInvariant, Typed
  <2> QED
    BY <2>1
<1>5. k \in Nat /\ n \in Nat /\ events[n].request = r /\ events[n].source = 2 * k
  BY <1>1, <1>3, <1>4
<1>6. ASSUME NEW j \in 1 .. Len(run[r]), NEW m \in DOMAIN events,
             events[m].id = run[r][j].id, j <= k, n < m
      PROVE  FALSE
  <2>1. events[m].request = events[n].request /\ events[m].source = 2 * j
    BY <1>3, <1>5, <1>6
  <2>2. 2 * k # 0 /\ 2 * j # 0 /\ ~(2 * k < 2 * j)
    BY <1>1, <1>5, <1>6
  <2>3. events[n].source < events[m].source
    BY <1>5, <1>6, <2>1, <2>2 DEF OrderInvariant, SourcesAscend
  <2> QED
    BY <1>5, <2>1, <2>2, <2>3
<1>7. ASSUME NEW m \in DOMAIN events, events[m].id = run[r][k].id PROVE m = n
  <2>1. m \in Nat /\ events[m].request = r /\ events[m].source = 2 * k
    BY <1>3, <1>4, <1>7
  <2>2. 2 * k # 0 /\ ~(2 * k < 2 * k)
    BY <1>1, <1>5
  <2>3. ~(m < n)
    BY <1>5, <2>1, <2>2 DEF OrderInvariant, SourcesAscend
  <2>4. ~(n < m)
    BY <1>5, <2>1, <2>2 DEF OrderInvariant, SourcesAscend
  <2> QED
    BY <1>5, <2>1, <2>3, <2>4
<1>8. ASSUME NEW j \in 1 .. k - 1
      PROVE  \E m \in DOMAIN events : events[m].id = run[r][j].id /\ m < n
  <2>1. j \in 1 .. Len(run[r]) /\ j <= k /\ j # k /\ j \in Nat
    BY <1>1, <1>5
  <2>2. run[r][k] \in NativeEvent /\ events[n].id = run[r][k].id
    BY <1>2
  <2>3. PICK f \in NativeEvent : f.id = run[r][k].id /\ Follows(f, Ahead, run)
    BY <2>2 DEF OrderInvariant, LogInOrder
  <2>4. f.request = r /\ f.source = 2 * k
    <3>1. f.id = <<f.request, f.source>>
      BY NativeFacts
    <3>2. run[r][k].id = <<r, 2 * k>>
      <4>1. run[r][k].request = r /\ run[r][k].source = 2 * k
        BY <1>2
      <4> QED
        BY <2>2, <4>1, NativeFacts
    <3>3. <<f.request, f.source>> = <<r, 2 * k>>
      BY <2>3, <3>1, <3>2
    <3> QED
      BY <3>3
  <2>5. PICK i \in 1 .. Len(run[r]) :
          run[r][i] = f /\ \A l \in 1 .. i - 1 : run[r][l] \in Ahead
    BY <2>3, <2>4 DEF Follows
  <2>6. 2 * i = 2 * k
    BY <1>2, <2>4, <2>5
  <2>7. i = k
    BY <1>1, <1>5, <2>6
  <2>8. Stored(run[r][j])
    BY <2>5, <2>7 DEF Ahead
  <2>9. PICK m \in DOMAIN events : events[m].id = run[r][j].id
    BY <2>8 DEF Stored
  <2>10. m \in Nat /\ events[m].source = 2 * j
    BY <1>3, <1>4, <2>1, <2>9
  <2>11. 2 * j # 2 * k
    BY <1>5, <2>1
  <2>12. m # n
    BY <1>5, <2>10, <2>11
  <2>13. ~(n < m)
    BY <1>6, <2>1, <2>9
  <2> QED
    BY <1>5, <2>9, <2>10, <2>12, <2>13
<1> QED
  BY <1>7, <1>8

\* What the log has of a run is the beginning of what Hermes reported, in order and
\* once each, through breaks, replays, crashes and submissions repeated.
THEOREM LogFollowsRunHolds == DeliverySpec => []LogFollowsRun
<1>1. ASSUME DeliveryInvariant, LedgerInvariant, OrderInvariant PROVE LogFollowsRun
  <2>1. \A r \in Request : HasRun(r) => DOMAIN run[r] = 1 .. Len(run[r])
    BY <1>1, LenProperties DEF DeliveryInvariant, HermesTyped, HasRun
  <2> QED
    BY <1>1, <2>1, RunInLog DEF LogFollowsRun
<1>2. DeliveryInvariant /\ LedgerInvariant /\ OrderInvariant => LogFollowsRun
  BY <1>1
<1> QED
  BY <1>2, DeliveryInvariantHolds, OrderInvariantHolds, PTL
=============================================================================
