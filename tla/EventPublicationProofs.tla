------------------------ MODULE EventPublicationProofs ------------------------
(* That the outbox keeps its promise for any number of pumps and rows. *)
EXTENDS EventPublication, TLAPS

RowState == Worker \cup {"pending", "delivered"}

\* What a pump has published and not settled yet is the head of its batch.
HandedWasPublished ==
  \A w \in Worker : w \in handed => batch[w] # <<>> /\ Head(batch[w]) \in published

Types ==
  /\ publication \in Seq(RowState)
  /\ due \subseteq Row /\ published \subseteq Row
  /\ batch \in [Worker -> Seq(Nat)]
  /\ \A w \in Worker : \A i \in 1 .. Len(batch[w]) : batch[w][i] \in Row
  /\ \A w \in Worker : Len(batch[w]) <= BatchSize
  /\ handed \subseteq Worker
  /\ failures \in 0 .. MaxFailures

OutboxInvariant == Types /\ HandedWasPublished /\ DeliveredWasPublished

USE DEF Row

\* A function on 1 .. n is a sequence.
LEMMA FunctionIsSequence ==
  ASSUME NEW S, NEW n \in Nat, NEW f \in [1 .. n -> S] PROVE f \in Seq(S)
OBVIOUS

\* An empty outbox satisfies the invariant.
LEMMA OutboxInvariantInit == Init => OutboxInvariant
BY PublicationAssumption
DEF Init, OutboxInvariant, Types, HandedWasPublished, DeliveredWasPublished

\* A recorded event adds a row behind the others.
LEMMA RecordPreservesInvariant ==
  ASSUME OutboxInvariant, Record PROVE OutboxInvariant'
<1> USE DEF OutboxInvariant, Types, Record
<1>1. /\ publication' \in Seq(RowState) /\ Len(publication') = Len(publication) + 1
      /\ \A n \in Row : publication'[n] = publication[n]
      /\ publication'[Len(publication) + 1] = "pending"
      /\ Row \subseteq Row' /\ Len(publication) + 1 \in Row'
      /\ Row' = Row \cup {Len(publication) + 1}
  BY DEF RowState
<1>2. Types' BY <1>1
<1>3. HandedWasPublished' BY DEF HandedWasPublished
<1>4. DeliveredWasPublished' BY <1>1 DEF DeliveredWasPublished
<1> QED BY <1>2, <1>3, <1>4

\* A claim leaves delivered rows alone: it takes claimable ones only.
LEMMA ClaimTakesClaimable ==
  ASSUME OutboxInvariant, NEW w \in Worker, PumpClaims(w)
  PROVE  /\ publication' \in Seq(RowState) /\ Row' = Row
         /\ \A n \in Row : publication[n] = "delivered" <=> publication'[n] = "delivered"
         /\ batch' \in [Worker -> Seq(Nat)]
         /\ \A v \in Worker \ {w} : batch'[v] = batch[v]
         /\ \A i \in 1 .. Len(batch'[w]) : batch'[w][i] \in Row
         /\ Len(batch'[w]) <= BatchSize
<1> USE DEF OutboxInvariant, Types
<1>1. PICK locked \in SUBSET MayBeLocked(w), k \in 1 .. BatchSize :
        \E claimed \in [1 .. k -> Claimable(w) \ locked] :
          /\ batch' = [batch EXCEPT ![w] = claimed]
          /\ publication' = [n \in Row |-> IF n \in Range(claimed) THEN w ELSE publication[n]]
  BY DEF PumpClaims
<1>2. PICK claimed \in [1 .. k -> Claimable(w) \ locked] :
          /\ batch' = [batch EXCEPT ![w] = claimed]
          /\ publication' = [n \in Row |-> IF n \in Range(claimed) THEN w ELSE publication[n]]
  BY <1>1
<1>3. k \in Nat /\ k <= BatchSize BY PublicationAssumption
<1>4. Claimable(w) \subseteq Row /\ Row \subseteq Nat BY DEF Claimable
<1>5. \A i \in 1 .. k : claimed[i] \in Row BY <1>2, <1>4
<1>6. claimed \in Seq(Nat) /\ Len(claimed) = k BY <1>2, <1>3, <1>4, <1>5
<1>7. Range(claimed) \subseteq Claimable(w) BY <1>2 DEF Range
<1>8. publication' \in Seq(RowState) /\ Row' = Row
  <2>1. DOMAIN publication = 1 .. Len(publication) /\ Len(publication) \in Nat
    OBVIOUS
  <2>2. \A n \in 1 .. Len(publication) : publication[n] \in RowState OBVIOUS
  <2>3. publication' \in [1 .. Len(publication) -> RowState]
    BY <1>2, <2>1, <2>2 DEF RowState
  <2>4. publication' \in Seq(RowState) BY <2>1, <2>3, FunctionIsSequence
  <2> QED BY <2>1, <2>3, <2>4
<1>9. \A n \in Row : publication[n] = "delivered" <=> publication'[n] = "delivered"
  BY <1>2, <1>7, PublicationAssumption DEF Claimable
<1>10. batch' \in [Worker -> Seq(Nat)] /\ batch'[w] = claimed
       /\ \A v \in Worker \ {w} : batch'[v] = batch[v]
  BY <1>2, <1>6
<1> QED BY <1>3, <1>5, <1>6, <1>8, <1>9, <1>10

\* A pump claims only when it has settled its last batch: nothing of the new one is
\* published yet.
LEMMA ClaimPreservesInvariant ==
  ASSUME OutboxInvariant, NEW w \in Worker, PumpClaims(w) PROVE OutboxInvariant'
<1> USE DEF OutboxInvariant, Types, PumpClaims
<1>1. /\ publication' \in Seq(RowState) /\ Row' = Row
      /\ \A n \in Row : publication[n] = "delivered" <=> publication'[n] = "delivered"
      /\ batch' \in [Worker -> Seq(Nat)]
      /\ \A v \in Worker \ {w} : batch'[v] = batch[v]
      /\ \A i \in 1 .. Len(batch'[w]) : batch'[w][i] \in Row
      /\ Len(batch'[w]) <= BatchSize
  BY ClaimTakesClaimable
<1>2. UNCHANGED <<due, handed, published, failures>> OBVIOUS
<1>3. Types' BY <1>1, <1>2
<1>4. w \notin handed BY DEF HandedWasPublished
<1>5. HandedWasPublished' BY <1>1, <1>2, <1>4 DEF HandedWasPublished
<1>6. DeliveredWasPublished' BY <1>1, <1>2 DEF DeliveredWasPublished
<1> QED BY <1>3, <1>5, <1>6

\* What is published is a row that was recorded.
LEMMA PublishPreservesInvariant ==
  ASSUME OutboxInvariant, NEW w \in Worker, PumpPublishes(w) PROVE OutboxInvariant'
<1> USE DEF OutboxInvariant, Types, PumpPublishes
<1>1. Head(batch[w]) \in Row
  <2>1. batch[w] \in Seq(Nat) /\ batch[w] # <<>> OBVIOUS
  <2>2. 1 \in 1 .. Len(batch[w]) /\ Head(batch[w]) = batch[w][1] BY <2>1
  <2> QED BY <2>2
<1>2. Types' BY <1>1
<1>3. HandedWasPublished' BY DEF HandedWasPublished
<1>4. DeliveredWasPublished' BY DEF DeliveredWasPublished
<1> QED BY <1>2, <1>3, <1>4

\* A row is settled only while it is the worker's own, so delivered rows are out of
\* its reach and no row but the head of the batch becomes delivered.
LEMMA SettleTouchesOwnRow ==
  ASSUME OutboxInvariant, NEW w \in Worker, batch[w] # <<>>,
         NEW outcome \in {"pending", "delivered"}, Settle(w, outcome)
  PROVE  /\ publication' \in Seq(RowState) /\ Row' = Row
         /\ \A n \in Row : publication[n] = "delivered" => publication'[n] = "delivered"
         /\ \A n \in Row : n # Head(batch[w]) => publication'[n] = publication[n]
         /\ publication'[Head(batch[w])] \in {publication[Head(batch[w])], outcome}
<1> USE DEF OutboxInvariant, Types, Settle, Mine
<1>1. CASE Head(batch[w]) \in Mine(w)
  <2>1. publication' = [publication EXCEPT ![Head(batch[w])] = outcome] BY <1>1
  <2>2. publication[Head(batch[w])] = w /\ Head(batch[w]) \in Row BY <1>1
  <2>3. publication' \in Seq(RowState) /\ Row' = Row
    <3>1. /\ publication \in [1 .. Len(publication) -> RowState] /\ Len(publication) \in Nat
          /\ Row = 1 .. Len(publication)
      OBVIOUS
    <3>2. outcome \in RowState BY DEF RowState
    <3>3. publication' \in [1 .. Len(publication) -> RowState] BY <2>1, <3>1, <3>2
    <3> QED BY <3>1, <3>3, FunctionIsSequence
  <2> QED BY <2>1, <2>2, <2>3, PublicationAssumption
<1>2. CASE Head(batch[w]) \notin Mine(w) BY <1>2
<1> QED BY <1>1, <1>2

\* The rest of a batch is a batch.
LEMMA GoesOnKeepsBatches ==
  ASSUME OutboxInvariant, NEW w \in Worker, batch[w] # <<>>, GoesOn(w)
  PROVE  /\ batch' \in [Worker -> Seq(Nat)]
         /\ \A v \in Worker : \A i \in 1 .. Len(batch'[v]) : batch'[v][i] \in Row
         /\ \A v \in Worker : Len(batch'[v]) <= BatchSize
         /\ \A v \in handed' : v # w /\ v \in handed /\ batch'[v] = batch[v]
<1> USE DEF OutboxInvariant, Types, GoesOn
<1>1. /\ Tail(batch[w]) \in Seq(Nat) /\ Len(Tail(batch[w])) = Len(batch[w]) - 1
      /\ \A i \in 1 .. Len(batch[w]) - 1 : Tail(batch[w])[i] = batch[w][i + 1]
      /\ Len(batch[w]) \in Nat
  OBVIOUS
<1>2. batch' \in [Worker -> Seq(Nat)] /\ batch'[w] = Tail(batch[w])
      /\ \A v \in Worker \ {w} : batch'[v] = batch[v]
  BY <1>1
<1>3. \A i \in 1 .. Len(batch'[w]) : batch'[w][i] \in Row
  <2> TAKE i \in 1 .. Len(batch'[w])
  <2>1. i + 1 \in 1 .. Len(batch[w]) /\ batch'[w][i] = batch[w][i + 1]
    BY <1>1, <1>2
  <2> QED BY <2>1
<1>4. Len(batch'[w]) <= BatchSize BY <1>1, <1>2, PublicationAssumption
<1> QED BY <1>2, <1>3, <1>4

\* A pump marks the row it has just published.
LEMMA MarkPreservesInvariant ==
  ASSUME OutboxInvariant, NEW w \in Worker, PumpMarks(w) PROVE OutboxInvariant'
<1> USE DEF OutboxInvariant, PumpMarks
<1>1. batch[w] # <<>> /\ Head(batch[w]) \in published BY DEF HandedWasPublished
<1>2. /\ publication' \in Seq(RowState) /\ Row' = Row
      /\ \A n \in Row : n # Head(batch[w]) => publication'[n] = publication[n]
  BY <1>1, SettleTouchesOwnRow
<1>3. /\ batch' \in [Worker -> Seq(Nat)]
      /\ \A v \in Worker : \A i \in 1 .. Len(batch'[v]) : batch'[v][i] \in Row
      /\ \A v \in Worker : Len(batch'[v]) <= BatchSize
      /\ \A v \in handed' : v # w /\ v \in handed /\ batch'[v] = batch[v]
  BY <1>1, GoesOnKeepsBatches
<1>4. UNCHANGED <<due, published, failures>> /\ handed' \subseteq handed BY DEF GoesOn
<1>5. Types' BY <1>2, <1>3, <1>4 DEF Types
<1>6. HandedWasPublished' BY <1>3, <1>4 DEF HandedWasPublished, Types
<1>7. DeliveredWasPublished' BY <1>1, <1>2, <1>4 DEF DeliveredWasPublished
<1> QED BY <1>5, <1>6, <1>7

\* A released row becomes pending, never delivered.
LEMMA ReleasePreservesInvariant ==
  ASSUME OutboxInvariant, NEW w \in Worker, PumpReleases(w) PROVE OutboxInvariant'
<1> USE DEF OutboxInvariant, PumpReleases
<1>1. batch[w] # <<>> OBVIOUS
<1>2. /\ publication' \in Seq(RowState) /\ Row' = Row
      /\ \A n \in Row : n # Head(batch[w]) => publication'[n] = publication[n]
      /\ publication'[Head(batch[w])] \in {publication[Head(batch[w])], "pending"}
  BY <1>1, SettleTouchesOwnRow
<1>3. /\ batch' \in [Worker -> Seq(Nat)]
      /\ \A v \in Worker : \A i \in 1 .. Len(batch'[v]) : batch'[v][i] \in Row
      /\ \A v \in Worker : Len(batch'[v]) <= BatchSize
      /\ \A v \in handed' : v # w /\ v \in handed /\ batch'[v] = batch[v]
  BY <1>1, GoesOnKeepsBatches
<1>4. UNCHANGED published /\ handed' \subseteq handed /\ due' \subseteq due BY DEF GoesOn
<1>5. failures' \in 0 .. MaxFailures BY PublicationAssumption DEF Types
<1>6. Types' BY <1>2, <1>3, <1>4, <1>5 DEF Types
<1>7. HandedWasPublished' BY <1>3, <1>4 DEF HandedWasPublished, Types
<1>8. \A n \in Row : publication'[n] = "delivered" => publication[n] = "delivered"
  BY <1>2
<1>9. DeliveredWasPublished' BY <1>2, <1>4, <1>8 DEF DeliveredWasPublished
<1> QED BY <1>6, <1>7, <1>9

\* A pump that stops forgets its batch and changes no row.
LEMMA StopPreservesInvariant ==
  ASSUME OutboxInvariant, NEW w \in Worker, PumpStops(w) PROVE OutboxInvariant'
<1> USE DEF OutboxInvariant, Types, PumpStops
<1>1. batch' \in [Worker -> Seq(Nat)] /\ batch'[w] = <<>>
      /\ \A v \in Worker \ {w} : batch'[v] = batch[v]
  OBVIOUS
<1>2. failures' \in 0 .. MaxFailures BY PublicationAssumption
<1>3. Types' BY <1>1, <1>2, PublicationAssumption
<1>4. HandedWasPublished' BY <1>1 DEF HandedWasPublished
<1>5. DeliveredWasPublished' BY DEF DeliveredWasPublished
<1> QED BY <1>3, <1>4, <1>5

\* Every step of the pumps, of the ledger and of time preserves the invariant.
LEMMA OutboxInvariantStep ==
  ASSUME OutboxInvariant, [Next]_vars PROVE OutboxInvariant'
<1>1. CASE Record BY <1>1, RecordPreservesInvariant
<1>2. CASE \E n \in 1 .. MaxRows : BecomesDue(n)
  BY <1>2 DEF BecomesDue, OutboxInvariant, Types, HandedWasPublished, DeliveredWasPublished
<1>3. ASSUME NEW w \in Worker, PumpClaims(w) PROVE OutboxInvariant'
  BY <1>3, ClaimPreservesInvariant
<1>4. ASSUME NEW w \in Worker, PumpPublishes(w) PROVE OutboxInvariant'
  BY <1>4, PublishPreservesInvariant
<1>5. ASSUME NEW w \in Worker, PumpMarks(w) PROVE OutboxInvariant'
  BY <1>5, MarkPreservesInvariant
<1>6. ASSUME NEW w \in Worker, PumpReleases(w) PROVE OutboxInvariant'
  BY <1>6, ReleasePreservesInvariant
<1>7. ASSUME NEW w \in Worker, PumpStops(w) PROVE OutboxInvariant'
  BY <1>7, StopPreservesInvariant
<1>8. CASE UNCHANGED vars
  BY <1>8 DEF vars, OutboxInvariant, Types, HandedWasPublished, DeliveredWasPublished
<1> QED BY <1>1, <1>2, <1>3, <1>4, <1>5, <1>6, <1>7, <1>8 DEF Next

\* The invariant of the outbox: types, and that a pump settles what it has published.
THEOREM OutboxInvariantHolds == Spec => []OutboxInvariant
<1>1. Init => OutboxInvariant BY OutboxInvariantInit
<1>2. OutboxInvariant /\ [Next]_vars => OutboxInvariant' BY OutboxInvariantStep
<1> QED BY <1>1, <1>2, PTL DEF Spec

\* Every variable holds a value of its type.
THEOREM PublicationTypesHold == Spec => []PublicationTypeOK
<1>1. OutboxInvariant => PublicationTypeOK
  <2> SUFFICES ASSUME OutboxInvariant PROVE PublicationTypeOK OBVIOUS
  <2> USE DEF OutboxInvariant, Types
  <2>1. \A n \in Row : publication[n] \in Worker \cup {"pending", "delivered"}
    BY DEF RowState
  <2>2. \A w \in Worker : Range(batch[w]) \subseteq Row BY DEF Range
  <2>3. handed \subseteq {w \in Worker : batch[w] # <<>>} BY DEF HandedWasPublished
  <2> QED BY <2>1, <2>2, <2>3 DEF PublicationTypeOK
<1> QED BY <1>1, OutboxInvariantHolds, PTL

\* A row marked delivered was given to the hub.
THEOREM DeliveredRowsWerePublished == Spec => []DeliveredWasPublished
<1>1. OutboxInvariant => DeliveredWasPublished BY DEF OutboxInvariant
<1> QED BY <1>1, OutboxInvariantHolds, PTL

\* No worker takes a delivered row back.
THEOREM DeliveredRowsStay == Spec => DeliveredStays
<1> DEFINE Stays == \A n \in Row : publication[n] = "delivered" => publication'[n] = "delivered"
<1>1. ASSUME OutboxInvariant, [Next]_vars PROVE [Stays]_vars
  <2>1. CASE Record BY <1>1, <2>1 DEF OutboxInvariant, Types, Record
  <2>2. CASE \E n \in 1 .. MaxRows : BecomesDue(n) BY <2>2 DEF BecomesDue
  <2>3. ASSUME NEW w \in Worker, PumpClaims(w) PROVE Stays
    BY <1>1, <2>3, ClaimTakesClaimable
  <2>4. ASSUME NEW w \in Worker, PumpPublishes(w) PROVE Stays BY <2>4 DEF PumpPublishes
  <2>5. ASSUME NEW w \in Worker, PumpMarks(w) PROVE Stays
    <3>1. batch[w] # <<>> BY <1>1, <2>5 DEF PumpMarks, OutboxInvariant, HandedWasPublished
    <3>2. Settle(w, "delivered") BY <2>5 DEF PumpMarks
    <3> QED BY <1>1, <3>1, <3>2, SettleTouchesOwnRow
  <2>6. ASSUME NEW w \in Worker, PumpReleases(w) PROVE Stays
    <3>1. batch[w] # <<>> /\ Settle(w, "pending") BY <2>6 DEF PumpReleases
    <3> QED BY <1>1, <3>1, SettleTouchesOwnRow
  <2>7. ASSUME NEW w \in Worker, PumpStops(w) PROVE Stays BY <2>7 DEF PumpStops
  <2>8. CASE UNCHANGED vars BY <2>8
  <2> QED BY <1>1, <2>1, <2>2, <2>3, <2>4, <2>5, <2>6, <2>7, <2>8 DEF Next
<1> QED BY <1>1, OutboxInvariantHolds, PTL DEF Spec, DeliveredStays
=============================================================================
