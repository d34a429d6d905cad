--------------------------- MODULE EventPublication ---------------------------
(***************************************************************************)
(* The publication outbox of the Gateway and the EventOutboxPump processes *)
(* that empty it into the live hub.  A row is claimed under the name of a  *)
(* worker, handed to the hub, and marked delivered or released while it is *)
(* still that worker's; rows another worker has in flight may be claimed   *)
(* from it at any time, so that a worker that has gone holds nothing back. *)
(*                                                                         *)
(* What EventStream assumes of it is only that any recorded event may      *)
(* reach the hub at any time, in any order and more than once.             *)
(***************************************************************************)
EXTENDS Integers, Sequences, FiniteSets, SequencesExt

CONSTANTS
  Worker,       \* the workerId of each pump
  BatchSize,
  MaxRows,      \* bound: events recorded
  MaxFailures   \* bound: publications that fail and processes that end

ASSUME PublicationAssumption ==
  /\ BatchSize \in Nat \ {0} /\ MaxRows \in Nat /\ MaxFailures \in Nat
  /\ {"pending", "delivered"} \cap Worker = {}

VARIABLES
  publication,  \* gateway_event_outbox: "pending", "delivered", or who has it in flight
  due,          \* the rows whose available_at has come
  batch,        \* the claimed rows each pump has still to handle
  handed,       \* the pumps that have published the head of their batch
  published,    \* history: the events the hub was given
  failures      \* history

vars == <<publication, due, batch, handed, published, failures>>

Row == DOMAIN publication
Mine(w) == {n \in Row : publication[n] = w}

\* The outbox row is written with its event and is due at once.
Record ==
  /\ Len(publication) < MaxRows
  /\ publication' = Append(publication, "pending")
  /\ due' = due \cup {Len(publication) + 1}
  /\ UNCHANGED <<batch, handed, published, failures>>

\* A released row waits a second.
BecomesDue(n) ==
  /\ n \in Row \ due
  /\ due' = due \cup {n}
  /\ UNCHANGED <<publication, batch, handed, published, failures>>

\* Mutant of Claimable: rows in flight are left alone.
ClaimableIfPending(w) == {n \in due : publication[n] = "pending"}

Claimable(w) == {n \in due : publication[n] \notin {w, "delivered"}}

\* The rows a claim that runs at the same time may have locked.
MayBeLocked(w) == UNION {Range(batch[v]) : v \in Worker \ {w}}

\* claimed is the oldest of the rows, in order, as many as a batch takes.
IsOldest(claimed, rows) ==
  /\ \A i, j \in DOMAIN claimed : i < j => claimed[i] < claimed[j]
  /\ \A n \in rows \ Range(claimed) :
       Len(claimed) = BatchSize /\ \A i \in DOMAIN claimed : claimed[i] < n

\* claimEventPublications: SKIP LOCKED passes over the rows of another claim.
PumpClaims(w) ==
  /\ batch[w] = <<>>
  /\ \E locked \in SUBSET MayBeLocked(w), k \in 1 .. BatchSize :
       \E claimed \in [1 .. k -> Claimable(w) \ locked] :
         /\ IsOldest(claimed, Claimable(w) \ locked)
         /\ batch' = [batch EXCEPT ![w] = claimed]
         /\ publication' = [n \in Row |-> IF n \in Range(claimed) THEN w ELSE publication[n]]
  /\ UNCHANGED <<due, handed, published, failures>>

PumpPublishes(w) ==
  /\ batch[w] # <<>> /\ w \notin handed
  /\ published' = published \cup {Head(batch[w])}
  /\ handed' = handed \cup {w}
  /\ UNCHANGED <<publication, due, batch, failures>>

\* Mutant of Settle: the row is not checked to be the worker's still.
SettleAnyRow(w, outcome) ==
  publication' = [publication EXCEPT ![Head(batch[w])] = outcome]

\* The compare-and-set of mark and release.
Settle(w, outcome) ==
  publication' = IF Head(batch[w]) \in Mine(w)
                 THEN [publication EXCEPT ![Head(batch[w])] = outcome]
                 ELSE publication

\* Mutant of GoesOn: the next row counts as published already.
GoesOnHanded(w) ==
  /\ batch' = [batch EXCEPT ![w] = Tail(@)]
  /\ UNCHANGED handed

GoesOn(w) ==
  /\ batch' = [batch EXCEPT ![w] = Tail(@)]
  /\ handed' = handed \ {w}

\* Mutant of PumpMarks: the row is marked before it is published.
PumpMarksFirst(w) ==
  /\ batch[w] # <<>>
  /\ Settle(w, "delivered")
  /\ batch' = [batch EXCEPT ![w] = Tail(@)]
  /\ UNCHANGED <<due, handed, published, failures>>

\* markEventPublicationDelivered.
PumpMarks(w) ==
  /\ w \in handed
  /\ Settle(w, "delivered")
  /\ GoesOn(w)
  /\ UNCHANGED <<due, published, failures>>

\* publish or the mark throws: releaseEventPublication.
PumpReleases(w) ==
  /\ batch[w] # <<>> /\ failures < MaxFailures
  /\ Settle(w, "pending")
  /\ due' = IF Head(batch[w]) \in Mine(w) THEN due \ {Head(batch[w])} ELSE due
  /\ GoesOn(w)
  /\ failures' = failures + 1
  /\ UNCHANGED published

\* The process ends, or the database fails it: what is left of its batch stays in
\* flight under its name.
PumpStops(w) ==
  /\ batch[w] # <<>> /\ failures < MaxFailures
  /\ batch' = [batch EXCEPT ![w] = <<>>]
  /\ handed' = handed \ {w}
  /\ failures' = failures + 1
  /\ UNCHANGED <<publication, due, published>>

Init ==
  /\ publication = <<>> /\ due = {}
  /\ batch = [w \in Worker |-> <<>>]
  /\ handed = {} /\ published = {} /\ failures = 0

Next ==
  \/ Record
  \/ \E n \in 1 .. MaxRows : BecomesDue(n)
  \/ \E w \in Worker :
       PumpClaims(w) \/ PumpPublishes(w) \/ PumpMarks(w) \/ PumpReleases(w) \/ PumpStops(w)

Spec == Init /\ [][Next]_vars

\* Every pump is run again and again and goes through its batch; time passes.
Fairness ==
  /\ \A n \in 1 .. MaxRows : WF_vars(BecomesDue(n))
  /\ \A w \in Worker : WF_vars(PumpClaims(w)) /\ WF_vars(PumpPublishes(w) \/ PumpMarks(w))

FairSpec == Spec /\ Fairness
----------------------------------------------------------------------------
\* Every variable holds a value of its type.
PublicationTypeOK ==
  /\ \A n \in Row : publication[n] \in Worker \cup {"pending", "delivered"}
  /\ due \subseteq Row /\ published \subseteq Row
  /\ \A w \in Worker : Range(batch[w]) \subseteq Row /\ Len(batch[w]) <= BatchSize
  /\ handed \subseteq {w \in Worker : batch[w] # <<>>}
  /\ failures \in 0 .. MaxFailures

\* A row is not marked delivered unless its event reached the hub, whichever of
\* the workers that had it in flight marked it.
DeliveredWasPublished ==
  \A n \in Row : publication[n] = "delivered" => n \in published

\* Once delivered, always delivered: a worker that comes late with a row another
\* has claimed from it meanwhile must not release it.
DeliveredStays ==
  [][\A n \in Row : publication[n] = "delivered" => publication'[n] = "delivered"]_vars

\* Every recorded event reaches the hub in the end, although workers fail and
\* stop with rows in flight: a second worker claims them.
EventuallyPublished ==
  \A n \in 1 .. MaxRows : n \in Row ~> n \in published
=============================================================================
