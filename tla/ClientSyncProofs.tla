--------------------------- MODULE ClientSyncProofs ---------------------------
(***************************************************************************)
(* A Client stays in step with the Gateway, for any numbers of requests,   *)
(* sessions, events and streams, and any size of page and queues.          *)
(*                                                                         *)
(* What is under way is counted, not listed: the invariant says that the   *)
(* completions and the lookups under way are as many as the router waits   *)
(* for.  A frame is handled by a fold over the held events; that the fold  *)
(* keeps the balance is an induction over sets of numbers (Induction).     *)
(***************************************************************************)
EXTENDS ClientSync, SequenceTheorems, FiniteSetTheorems, WellFoundedInduction, TLAPS

\* What the ledger and the commands under way have to do with the routes: an event is
\* of an accepted request, and a request of the Client's own has its route before the
\* Gateway has the request.
RowsKnown ==
  /\ \A n \in DOMAIN log : requests[log[n].request] # NoRow
  /\ \A r \in Own : requests[r] # NoRow => tracked[r] # NoRow
  /\ \A m \in Range(commands) \cup late : m.kind = "send" => tracked[m.request] # NoRow
  /\ \A m \in Range(commands) : m.kind = "getRequest" => requests[m.request] # NoRow

\* Only events that have no route yet are held, each under its request.
HeldAwaitRoute(c) ==
  \A r \in Request : \A n \in Range(c.held[r]) : log[n].request = r /\ c.tracked[r] = NoRow

\* A page that came to its end stays open only for events that are held.
PageHasHeld(c) ==
  c.replay # None /\ ~AwaitsPage(c) =>
    c.cursor < c.replay.page.through /\ \E r \in Request : c.held[r] # <<>>

\* A page is followed by another or reaches what was recorded when the stream began,
\* and until the cursor is there a replay is pending.
PageReachesFloor(c) ==
  c.replay # None /\ ~AwaitsPage(c) => c.replay.page.more \/ c.replay.page.through >= floor
ReachesFloor(c) == c.cursor < floor => c.replay # None

RouterInvariant ==
  /\ HeldAwaitRoute(Client) /\ PageHasHeld(Client)
  /\ PageReachesFloor(Client) /\ ReachesFloor(Client)

CompletionsReachFloor ==
  \A m \in Range(answer) \cup Range(frames) :
    m.kind = "completed" => m.more \/ m.through >= floor

\* The inductive invariant.
SyncInvariant ==
  /\ SyncTypeOK /\ RowsKnown /\ RouterInvariant
  /\ DurableBeforeAck /\ CompletionsExpected /\ LookupsUnderWay
  /\ CompletionsReachFloor

----------------------------------------------------------------------------
\* The positions of some messages in a queue.
LEMMA PositionsAreFinite ==
  ASSUME NEW S, NEW q \in Seq(S), NEW M
  PROVE  /\ IsFiniteSet(Positions(q, M))
         /\ Count(q, M) \in Nat
         /\ Count(q, M) = 0 <=> \A m \in Range(q) : m \notin M
<1> DEFINE K == Positions(q, M)
<1>1. Len(q) \in Nat /\ DOMAIN q = 1 .. Len(q)
  BY LenProperties
<1>2. IsFiniteSet(1 .. Len(q))
  BY <1>1, FS_Interval
<1>3. IsFiniteSet(K)
  BY <1>1, <1>2, FS_Subset DEF Positions
<1>4. Cardinality(K) \in Nat
  BY <1>3, FS_CardinalityType
<1>5. Cardinality(K) = 0 <=> K = {}
  BY <1>3, FS_EmptySet
<1>6. K = {} <=> \A m \in Range(q) : m \notin M
  BY Zenon DEF Range, Positions
<1> QED
  BY <1>3, <1>4, <1>5, <1>6 DEF Count

\* As many positions are counted after a shift.
LEMMA ShiftedCount ==
  ASSUME NEW K \in SUBSET Nat, IsFiniteSet(K), NEW d \in Nat,
         NEW L \in SUBSET Nat, \A n \in Nat : n \in L <=> n >= d /\ n - d \in K
  PROVE  IsFiniteSet(L) /\ Cardinality(L) = Cardinality(K)
<1> DEFINE f == [n \in K |-> n + d]
<1>1. f \in Bijection(K, L)
  <2>1. f \in [K -> L]
    OBVIOUS
  <2>2. \A a, b \in K : f[a] = f[b] => a = b
    OBVIOUS
  <2>3. \A n \in L : \E a \in K : f[a] = n
    <3> TAKE n \in L
    <3>1. n - d \in K /\ f[n - d] = n
      OBVIOUS
    <3> QED
      BY <3>1
  <2> HIDE DEF f
  <2> QED
    BY <2>1, <2>2, <2>3 DEF Bijection, Injection, Surjection, IsInjective
<1> QED
  BY <1>1, FS_Bijection DEF ExistsBijection

\* What an empty queue has.
LEMMA EmptyQueue ==
  /\ Range(<<>>) = {} /\ \A S : <<>> \in Seq(S)
  /\ \A M : Count(<<>>, M) = 0
<1>1. \A S : <<>> \in Seq(S)
  BY EmptySeq
<1>2. Range(<<>>) = {}
  BY DEF Range
<1>3. ASSUME NEW M PROVE Count(<<>>, M) = 0
  BY <1>1, <1>2, PositionsAreFinite
<1> QED
  BY <1>1, <1>2, <1>3

\* What a queue has after a message was added.
LEMMA LongerQueue ==
  ASSUME NEW S, NEW q \in Seq(S), NEW m \in S
  PROVE  /\ Append(q, m) \in Seq(S) /\ Len(Append(q, m)) = Len(q) + 1
         /\ Range(Append(q, m)) = Range(q) \cup {m}
         /\ \A M : Count(Append(q, m), M) = Count(q, M) + (IF m \in M THEN 1 ELSE 0)
<1> DEFINE p == Append(q, m)
<1>1. /\ Len(q) \in Nat /\ DOMAIN q = 1 .. Len(q)
      /\ p \in Seq(S) /\ Len(p) = Len(q) + 1
      /\ \A k \in 1 .. Len(q) : p[k] = q[k]
      /\ p[Len(q) + 1] = m
  BY LenProperties, AppendProperties
<1>2. DOMAIN p = 1 .. Len(q) + 1
  BY <1>1, LenProperties
<1> HIDE DEF p
<1>3. Range(p) = Range(q) \cup {m}
  BY <1>1, <1>2 DEF Range
<1>4. ASSUME NEW M PROVE Count(p, M) = Count(q, M) + (IF m \in M THEN 1 ELSE 0)
  <2> DEFINE K == Positions(q, M)
             L == Positions(p, M)
  <2>1. IsFiniteSet(K) /\ Cardinality(K) \in Nat
    BY PositionsAreFinite DEF Count
  <2>a. Len(q) + 1 \notin K
    BY <1>1 DEF Positions
  <2>2. L = IF m \in M THEN K \cup {Len(q) + 1} ELSE K
    BY <1>1, <1>2 DEF Positions
  <2> HIDE DEF K, L
  <2>b. Cardinality(K \cup {Len(q) + 1}) = Cardinality(K) + 1
    BY <2>1, <2>a, FS_AddElement
  <2>3. Cardinality(L) = Cardinality(K) + (IF m \in M THEN 1 ELSE 0)
    BY <2>1, <2>2, <2>b
  <2> QED
    BY <2>3 DEF Count, K, L
<1> QED
  BY <1>1, <1>3, <1>4 DEF p

\* What a queue has after its first message was taken.
LEMMA ShorterQueue ==
  ASSUME NEW S, NEW q \in Seq(S), q # <<>>
  PROVE  /\ Tail(q) \in Seq(S) /\ Len(Tail(q)) = Len(q) - 1
         /\ Head(q) \in S /\ Head(q) \in Range(q) /\ Range(Tail(q)) \subseteq Range(q)
         /\ \A M : Count(Tail(q), M) = Count(q, M) - (IF Head(q) \in M THEN 1 ELSE 0)
<1> DEFINE t == Tail(q)
<1>1. /\ Len(q) \in Nat \ {0} /\ DOMAIN q = 1 .. Len(q)
      /\ t \in Seq(S) /\ Len(t) = Len(q) - 1 /\ Head(q) \in S
      /\ \A k \in 1 .. Len(t) : t[k] = q[k + 1]
  BY LenProperties, HeadTailProperties, EmptySeq
<1>2. DOMAIN t = 1 .. Len(q) - 1
  BY <1>1, LenProperties
<1>3. Head(q) = q[1]
  BY <1>1
<1> HIDE DEF t
<1>4. Head(q) \in Range(q) /\ Range(t) \subseteq Range(q)
  <2>1. 1 \in DOMAIN q /\ \A k \in DOMAIN t : k + 1 \in DOMAIN q /\ t[k] = q[k + 1]
    BY <1>1, <1>2
  <2>2. Head(q) \in Range(q)
    BY <1>3, <2>1, Zenon DEF Range
  <2>3. Range(t) \subseteq Range(q)
    BY <2>1, Zenon DEF Range
  <2> QED
    BY <2>2, <2>3
<1>5. ASSUME NEW M PROVE Count(t, M) = Count(q, M) - (IF Head(q) \in M THEN 1 ELSE 0)
  <2> DEFINE K == Positions(t, M)
             L == Positions(q, M)
  <2>1. IsFiniteSet(K) /\ IsFiniteSet(L) /\ Cardinality(L) \in Nat
    BY <1>1, PositionsAreFinite DEF Count
  <2>2. /\ K \in SUBSET Nat /\ L \ {1} \in SUBSET Nat
        /\ \A n \in Nat : n \in L \ {1} <=> n >= 1 /\ n - 1 \in K
    BY <1>1, <1>2 DEF Positions
  <2>3. 1 \in L <=> Head(q) \in M
    BY <1>1, <1>3 DEF Positions
  <2> HIDE DEF K, L
  <2>4. Cardinality(L \ {1}) = Cardinality(K)
    BY <2>1, <2>2, ShiftedCount
  <2>a. Cardinality(L \ {1}) = IF 1 \in L THEN Cardinality(L) - 1 ELSE Cardinality(L)
    BY <2>1, FS_RemoveElement, Zenon
  <2>5. Cardinality(L \ {1}) = Cardinality(L) - (IF Head(q) \in M THEN 1 ELSE 0)
    BY <2>1, <2>3, <2>a
  <2> QED
    BY <2>4, <2>5 DEF Count, K, L
<1> QED
  BY <1>1, <1>4, <1>5 DEF t

\* What two queues have together.
LEMMA JoinedQueues ==
  ASSUME NEW S, NEW p \in Seq(S), NEW q \in Seq(S)
  PROVE  /\ p \o q \in Seq(S) /\ Range(p \o q) = Range(p) \cup Range(q)
         /\ \A M : Count(p \o q, M) = Count(p, M) + Count(q, M)
<1> DEFINE j == p \o q
<1>1. /\ Len(p) \in Nat /\ DOMAIN p = 1 .. Len(p)
      /\ Len(q) \in Nat /\ DOMAIN q = 1 .. Len(q)
      /\ j \in Seq(S) /\ Len(j) = Len(p) + Len(q) /\ DOMAIN j = 1 .. Len(p) + Len(q)
      /\ \A k \in 1 .. Len(p) + Len(q) : j[k] = IF k <= Len(p) THEN p[k] ELSE q[k - Len(p)]
  BY LenProperties, ConcatProperties
<1> HIDE DEF j
<1>2. Range(j) = Range(p) \cup Range(q)
  <2>1. \A k \in DOMAIN q : k + Len(p) \in DOMAIN j /\ j[k + Len(p)] = q[k]
    BY <1>1
  <2>2. \A k \in DOMAIN p : k \in DOMAIN j /\ j[k] = p[k]
    BY <1>1
  <2>3. \A k \in DOMAIN j : \/ k \in DOMAIN p /\ j[k] = p[k]
                            \/ k - Len(p) \in DOMAIN q /\ j[k] = q[k - Len(p)]
    BY <1>1
  <2>4. Range(j) \subseteq Range(p) \cup Range(q)
    BY <2>3, Zenon DEF Range
  <2>5. Range(p) \subseteq Range(j) /\ Range(q) \subseteq Range(j)
    BY <2>1, <2>2, Zenon DEF Range
  <2> QED
    BY <2>4, <2>5, Zenon
<1>3. ASSUME NEW M PROVE Count(j, M) = Count(p, M) + Count(q, M)
  <2> DEFINE K == Positions(p, M)
             L == Positions(q, M)
             J == Positions(j, M)
  <2>1. /\ IsFiniteSet(K) /\ IsFiniteSet(L) /\ IsFiniteSet(J)
        /\ Cardinality(K) \in Nat /\ Cardinality(L) \in Nat
    BY <1>1, PositionsAreFinite DEF Count
  <2>2. /\ L \in SUBSET Nat /\ J \ K \in SUBSET Nat
        /\ \A n \in Nat : n \in J \ K <=> n >= Len(p) /\ n - Len(p) \in L
    BY <1>1 DEF Positions
  <2>3. K \cup (J \ K) = J /\ K \cap (J \ K) = {}
    BY <1>1 DEF Positions
  <2> HIDE DEF K, L, J
  <2>4. IsFiniteSet(J \ K) /\ Cardinality(J \ K) = Cardinality(L)
    BY <1>1, <2>1, <2>2, ShiftedCount
  <2>5. Cardinality(J) = Cardinality(K) + Cardinality(J \ K) - Cardinality({})
    BY <2>1, <2>3, <2>4, FS_Union
  <2>6. Cardinality({}) = 0
    BY FS_EmptySet
  <2> QED
    BY <2>1, <2>4, <2>5, <2>6 DEF Count, K, L, J
<1> QED
  BY <1>1, <1>2, <1>3 DEF j
----------------------------------------------------------------------------
\* A set of numbers that has 0 and with each number the next has them all.
LEMMA Induction ==
  ASSUME NEW T \in SUBSET Nat, 0 \in T, \A n \in T : n + 1 \in T
  PROVE  \A n \in Nat : n \in T
<1> DEFINE Less == {pair \in Nat \X Nat : pair[1] < pair[2]}
           Rest == Nat \ T
<1> SUFFICES ASSUME Rest # {} PROVE FALSE
  OBVIOUS
<1>1. IsWellFoundedOn(Less, Nat) /\ Rest \subseteq Nat
  BY NatLessThanWellFounded, Zenon DEF OpToRel
<1> HIDE DEF Less, Rest
<1>2. PICK n \in Rest : \A m \in Rest : ~ (<<m, n>> \in Less)
  BY <1>1, WFMin, Zenon
<1>3. n \in Nat /\ \A m \in Rest : ~ (m < n)
  BY <1>1, <1>2 DEF Less
<1>4. n # 0 /\ n - 1 \in Nat
  BY <1>2, <1>3 DEF Rest
<1>5. n - 1 \in T
  BY <1>3, <1>4 DEF Rest
<1> QED
  BY <1>2, <1>4, <1>5 DEF Rest

\* The events that were held, accepted up to the last position of a set.
Accepted(f, c, events, positions) ==
  IF positions = {} THEN c
  ELSE AcceptEvent(f[positions \ {Max(positions)}], events[Max(positions)])

Computes(f, c, events, n) ==
  f = [positions \in SUBSET (1 .. n) |-> Accepted(f, c, events, positions)]

\* The last of the first n + 1 positions, and the others.
LEMMA MaxOfPositions ==
  ASSUME NEW n \in Nat, NEW p \in SUBSET (1 .. n + 1), n + 1 \in p
  PROVE  Max(p) = n + 1 /\ p \ {Max(p)} \in SUBSET (1 .. n)
<1>1. \A x \in p : n + 1 >= x
  OBVIOUS
<1>2. Max(p) \in p /\ \A x \in p : Max(p) >= x
  BY <1>1 DEF Max
<1>3. Max(p) = n + 1
  <2>1. Max(p) \in 1 .. n + 1 /\ Max(p) >= n + 1
    BY <1>2
  <2> QED
    BY <2>1
<1>4. \A x \in p \ {n + 1} : x \in 1 .. n
  OBVIOUS
<1> QED
  BY <1>3, <1>4

\* There is such a function for every number of events.
LEMMA AcceptanceExists ==
  ASSUME NEW c, NEW events
  PROVE  \A n \in Nat : \E f : Computes(f, c, events, n)
<1> DEFINE T == {n \in Nat : \E f : Computes(f, c, events, n)}
<1>1. 0 \in T
  <2> DEFINE f == [positions \in SUBSET (1 .. 0) |-> c]
  <2>1. \A p \in SUBSET (1 .. 0) : p = {}
    OBVIOUS
  <2>2. Computes(f, c, events, 0)
    BY <2>1, Zenon DEF Computes, Accepted
  <2> QED
    BY <2>2
<1>2. ASSUME NEW n \in T PROVE n + 1 \in T
  <2>1. n \in Nat /\ \E f : Computes(f, c, events, n)
    OBVIOUS
  <2>2. PICK f : Computes(f, c, events, n)
    BY <2>1
  <2> DEFINE g == [p \in SUBSET (1 .. n + 1) |->
                    IF n + 1 \in p THEN AcceptEvent(f[p \ {n + 1}], events[n + 1]) ELSE f[p]]
  <2>3. \A p \in SUBSET (1 .. n + 1) : n + 1 \notin p => p \in SUBSET (1 .. n)
    BY <2>1
  <2>4. \A p \in SUBSET (1 .. n) : p \in SUBSET (1 .. n + 1) /\ n + 1 \notin p
    BY <2>1
  <2>5. \A p \in SUBSET (1 .. n) : g[p] = f[p]
    BY <2>4
  <2>6. ASSUME NEW p \in SUBSET (1 .. n + 1) PROVE g[p] = Accepted(g, c, events, p)
    <3>1. CASE n + 1 \in p
      <4>1. Max(p) = n + 1 /\ p \ {Max(p)} \in SUBSET (1 .. n)
        BY <2>1, <3>1, MaxOfPositions
      <4>2. g[p] = AcceptEvent(f[p \ {n + 1}], events[n + 1])
        BY <3>1
      <4> HIDE DEF g
      <4> QED
        BY <2>5, <3>1, <4>1, <4>2 DEF Accepted
    <3>2. CASE n + 1 \notin p
      <4>1. p \in SUBSET (1 .. n)
        BY <2>3, <3>2
      <4>2. f[p] = Accepted(f, c, events, p)
        BY <2>2, <4>1, Zenon DEF Computes
      <4>3. p \ {Max(p)} \in SUBSET (1 .. n)
        BY <4>1
      <4>4. g[p] = f[p] /\ g[p \ {Max(p)}] = f[p \ {Max(p)}]
        BY <2>5, <4>1, <4>3
      <4> HIDE DEF g
      <4> QED
        BY <4>2, <4>4, Zenon DEF Accepted
    <3> QED
      BY <3>1, <3>2
  <2>7. Computes(g, c, events, n + 1)
    BY <2>6, Zenon DEF Computes
  <2> QED
    BY <2>1, <2>7
<1> HIDE DEF T
<1>3. T \in SUBSET Nat
  BY DEF T
<1>4. \A n \in Nat : n \in T
  BY <1>1, <1>2, <1>3, Induction
<1> QED
  BY <1>4 DEF T

\* What every event takes a router to that is in a set leaves it in that set,
\* and the last event has its effect last.
LEMMA AcceptHeldEffect ==
  ASSUME NEW E, NEW events \in Seq(E), NEW Good, NEW c \in Good,
         \A x \in Good, n \in Range(events) : AcceptEvent(x, n) \in Good
  PROVE  /\ AcceptHeld(c, events) \in Good
         /\ events = <<>> => AcceptHeld(c, events) = c
         /\ events # <<>> => \E x \in Good, n \in Range(events) :
                               AcceptHeld(c, events) = AcceptEvent(x, n)
<1>1. Len(events) \in Nat /\ DOMAIN events = 1 .. Len(events)
  BY LenProperties
<1> DEFINE N == Len(events)
           f == CHOOSE g : Computes(g, c, events, N)
           T == {n \in Nat : n <= N => f[1 .. n] \in Good}
<1>2. AcceptHeld(c, events) = f[1 .. N]
  <2>1. AcceptHeld(c, events)
          = (CHOOSE g : g = [p \in SUBSET DOMAIN events |-> Accepted(g, c, events, p)])[DOMAIN events]
    BY Zenon DEF AcceptHeld, FoldLeft, MapThenFoldSet, Accepted
  <2> QED
    BY <1>1, <2>1, Zenon DEF Computes
<1>3. Computes(f, c, events, N)
  BY <1>1, AcceptanceExists, Zenon
<1> HIDE DEF f
<1>4. f[1 .. 0] = c
  BY <1>1, <1>3 DEF Computes, Accepted
<1>5. ASSUME NEW n \in Nat, n + 1 <= N
      PROVE  f[1 .. n + 1] = AcceptEvent(f[1 .. n], events[n + 1]) /\ events[n + 1] \in Range(events)
  <2>1. 1 .. n + 1 \in SUBSET (1 .. N) /\ n + 1 \in 1 .. n + 1 /\ 1 .. n + 1 \in SUBSET (1 .. n + 1)
    BY <1>1, <1>5
  <2>2. Max(1 .. n + 1) = n + 1
    BY <2>1, MaxOfPositions
  <2>a. \A k : k \in (1 .. n + 1) \ {n + 1} <=> k \in 1 .. n
    OBVIOUS
  <2>3. (1 .. n + 1) \ {n + 1} = 1 .. n /\ 1 .. n + 1 # {}
    BY <2>1, <2>a
  <2>4. f[1 .. n + 1] = Accepted(f, c, events, 1 .. n + 1)
    BY <1>3, <2>1, Zenon DEF Computes
  <2>5. n + 1 \in DOMAIN events
    BY <1>1, <1>5
  <2> QED
    BY <2>2, <2>3, <2>4, <2>5, Zenon DEF Accepted, Range
<1>6. 0 \in T
  BY <1>4
<1>7. ASSUME NEW n \in T PROVE n + 1 \in T
  BY <1>1, <1>5, <1>7
<1> HIDE DEF T
<1>8. T \in SUBSET Nat
  BY DEF T
<1>9. \A n \in Nat : n \in T
  BY <1>6, <1>7, <1>8, Induction
<1>10. AcceptHeld(c, events) \in Good
  BY <1>1, <1>2, <1>9 DEF T
<1>11. CASE events = <<>>
  <2>1. N = 0
    BY <1>11, EmptySeq
  <2> QED
    BY <1>2, <1>4, <1>10, <1>11, <2>1
<1>12. CASE events # <<>>
  <2>1. N - 1 \in Nat
    BY <1>1, <1>12, EmptySeq
  <2>2. f[1 .. (N - 1)] \in Good
    BY <1>1, <1>9, <2>1 DEF T
  <2>3. (N - 1) + 1 = N
    BY <1>1
  <2>a. (N - 1) + 1 <= N
    BY <1>1
  <2>4. f[1 .. N] = AcceptEvent(f[1 .. (N - 1)], events[N]) /\ events[N] \in Range(events)
    BY <1>5, <2>1, <2>3, <2>a, Zenon
  <2> QED
    BY <1>2, <1>10, <1>12, <2>2, <2>4
<1> QED
  BY <1>11, <1>12
----------------------------------------------------------------------------
\* The states of the router while it handles a frame.
Router ==
  [cursor : 0 .. Len(log), tracked : [Request -> Sessions \cup {NoRow}],
   replay : {None} \cup PendingReplay, held : [Request -> Seq(DOMAIN log)],
   sent : Seq(Command), broken : BOOLEAN]

\* What it sent: events it has stored, requests the Gateway knows, the page it awaits.
SentFits(c) ==
  \A m \in Range(c.sent) :
    /\ m.kind # "send"
    /\ m.kind = "ack" => m.sequence <= c.cursor
    /\ m.kind = "getRequest" => requests[m.request] # NoRow
    /\ m \in OfPages => AwaitsPage(c) /\ m.after = c.replay.after

\* How many completions, and how many answers on a request, it waits for.
PagesAwaited(c) == IF AwaitsPage(c) THEN 1 ELSE 0
RoutesAwaited(c, r) == IF c.held[r] # <<>> THEN 1 ELSE 0

\* What was sent since b is what c awaits and b did not.
Balanced(b, c) ==
  /\ Count(c.sent, OfPages) = PagesAwaited(c) - PagesAwaited(b)
  /\ AwaitsPage(b) => c.replay.after = b.replay.after
  /\ \A r \in Request : Count(c.sent, OfLookup(r)) = RoutesAwaited(c, r) - RoutesAwaited(b, r)

\* What handling events, from the state b on, may lead to.
Handled(b) ==
  {c \in Router :
     /\ c.cursor >= b.cursor /\ c.tracked = b.tracked
     /\ ~c.broken => SentFits(c) /\ Balanced(b, c) /\ HeldAwaitRoute(c) /\ PageReachesFloor(c)}

\* What the handling of a frame needs to know of the log.
LogTyped ==
  /\ log \in Seq([request : Request, session : Sessions])
  /\ \A n \in DOMAIN log : requests[log[n].request] # NoRow

\* What the assumptions say of the constants.
LEMMA Constants ==
  /\ Own \subseteq Request /\ None \notin PendingReplay /\ None \notin PageEnd
  /\ NoRow \notin Sessions /\ Page \in Nat \ {0} /\ MaxHub \in Nat \ {0} /\ MaxFrames \in Nat \ {0}
  /\ InitialSession \in Sessions
BY StreamAssumption, SyncAssumption DEF Sessions

\* The events of the log are named by its positions.
LEMMA LogFacts ==
  ASSUME LogTyped
  PROVE  /\ Len(log) \in Nat /\ DOMAIN log = 1 .. Len(log)
         /\ \A n \in DOMAIN log : log[n].request \in Request /\ log[n].session \in Sessions
<1>1. Len(log) \in Nat /\ DOMAIN log = 1 .. Len(log)
  BY LenProperties DEF LogTyped
<1>2. \A n \in 1 .. Len(log) : log[n] \in [request : Request, session : Sessions]
  BY ElementOfSeq DEF LogTyped
<1> QED
  BY <1>1, <1>2

\* What the commands are counted as.
LEMMA CommandFacts ==
  /\ \A n \in Nat : /\ Acknowledge(n) \in Command /\ Acknowledge(n).kind = "ack"
                    /\ Acknowledge(n).sequence = n /\ Acknowledge(n) \notin OfPages
                    /\ \A r : Acknowledge(n) \notin OfLookup(r)
                    /\ Replay(n) \in Command /\ Replay(n).kind = "replay"
                    /\ Replay(n).after = n /\ Replay(n) \in OfPages
                    /\ \A r : Replay(n) \notin OfLookup(r)
  /\ \A r \in Request : /\ GetRequest(r) \in Command /\ GetRequest(r).kind = "getRequest"
                        /\ GetRequest(r).request = r /\ GetRequest(r) \notin OfPages
                        /\ \A q : GetRequest(r) \in OfLookup(q) <=> q = r
<1>1. ASSUME NEW n \in Nat
      PROVE  /\ Acknowledge(n) \in Command /\ Acknowledge(n).kind = "ack"
             /\ Acknowledge(n).sequence = n
  BY DEF Command, Acknowledge
<1>2. ASSUME NEW n \in Nat
      PROVE  Replay(n) \in Command /\ Replay(n).kind = "replay" /\ Replay(n).after = n
  BY DEF Command, Replay
<1>3. ASSUME NEW r \in Request
      PROVE  /\ GetRequest(r) \in Command /\ GetRequest(r).kind = "getRequest"
             /\ GetRequest(r).request = r
  BY DEF Command, GetRequest
<1> QED
  BY <1>1, <1>2, <1>3 DEF OfPages, OfLookup

\* Sending a command changes nothing else of the router.
LEMMA SendEffect ==
  ASSUME LogTyped, NEW c \in Router, NEW m \in Command
  PROVE  /\ Send(c, m) \in Router
         /\ Send(c, m).cursor = c.cursor /\ Send(c, m).tracked = c.tracked
         /\ Send(c, m).replay = c.replay /\ Send(c, m).held = c.held
         /\ Send(c, m).broken = c.broken /\ Send(c, m).sent = Append(c.sent, m)
<1>1. c.sent \in Seq(Command)
  BY DEF Router
<1>2. Append(c.sent, m) \in Seq(Command)
  BY <1>1, LongerQueue
<1> QED
  BY <1>2 DEF Send, Router

\* The router may acknowledge what it has stored.
LEMMA AcknowledgeKeeps ==
  ASSUME LogTyped, NEW b \in Router, NEW c \in Handled(b), ~c.broken,
         NEW n \in Nat, n <= c.cursor
  PROVE  Send(c, Acknowledge(n)) \in Handled(b)
<1> DEFINE d == Send(c, Acknowledge(n))
<1>1. c \in Router /\ c.sent \in Seq(Command)
  BY DEF Handled, Router
<1>2. /\ d \in Router /\ d.cursor = c.cursor /\ d.tracked = c.tracked /\ d.replay = c.replay
      /\ d.held = c.held /\ d.broken = c.broken /\ d.sent = Append(c.sent, Acknowledge(n))
  <2>1. Acknowledge(n) \in Command
    BY CommandFacts
  <2> QED
    BY <1>1, <2>1, SendEffect
<1> HIDE DEF d
<1>3. /\ Range(d.sent) = Range(c.sent) \cup {Acknowledge(n)}
      /\ \A M : Count(d.sent, M) = Count(c.sent, M) + (IF Acknowledge(n) \in M THEN 1 ELSE 0)
  BY <1>1, <1>2, CommandFacts, LongerQueue
<1>4. SentFits(d)
  BY <1>2, <1>3, CommandFacts DEF Handled, SentFits, AwaitsPage
<1>5. /\ Count(c.sent, OfPages) \in Nat
      /\ \A r : Count(c.sent, OfLookup(r)) \in Nat
  BY <1>1, PositionsAreFinite
<1>6. /\ Count(d.sent, OfPages) = Count(c.sent, OfPages)
      /\ \A r \in Request : Count(d.sent, OfLookup(r)) = Count(c.sent, OfLookup(r))
  BY <1>3, <1>5, CommandFacts
<1>7. Balanced(b, d)
  BY <1>2, <1>6 DEF Handled, Balanced, PagesAwaited, RoutesAwaited, AwaitsPage
<1>8. HeldAwaitRoute(d) /\ PageReachesFloor(d)
  BY <1>2 DEF Handled, HeldAwaitRoute, PageReachesFloor, AwaitsPage
<1> QED
  BY <1>2, <1>4, <1>7, <1>8 DEF Handled, d

\* The router stores the next event.
LEMMA StoreKeeps ==
  ASSUME LogTyped, NEW b \in Router, NEW c \in Handled(b), ~c.broken,
         NEW n \in DOMAIN log, n = c.cursor + 1
  PROVE  /\ [c EXCEPT !.cursor = n] \in Handled(b)
         /\ [c EXCEPT !.cursor = n].cursor = n /\ [c EXCEPT !.cursor = n].broken = c.broken
         /\ [c EXCEPT !.cursor = n].replay = c.replay /\ [c EXCEPT !.cursor = n].held = c.held
<1> DEFINE d == [c EXCEPT !.cursor = n]
<1>1. c \in Router /\ b.cursor \in Nat /\ c.cursor \in Nat /\ n \in 0 .. Len(log)
  BY LogFacts DEF Handled, Router
<1>2. /\ d \in Router /\ d.cursor = n /\ d.tracked = c.tracked /\ d.replay = c.replay
      /\ d.held = c.held /\ d.broken = c.broken /\ d.sent = c.sent
  BY <1>1 DEF Router
<1> HIDE DEF d
<1>3. \A m \in Range(c.sent) : m \in Command
  BY <1>1, RangeOfSeq DEF Router
<1>a. \A m \in Command : m.kind = "ack" => m.sequence \in Nat
  BY DEF Command
<1>4. SentFits(d)
  BY <1>1, <1>2, <1>3, <1>a DEF Handled, SentFits, AwaitsPage
<1>5. Balanced(b, d) /\ HeldAwaitRoute(d) /\ PageReachesFloor(d)
  BY <1>2 DEF Handled, Balanced, PagesAwaited, RoutesAwaited, AwaitsPage, HeldAwaitRoute,
    PageReachesFloor
<1>6. d.cursor >= b.cursor
  BY <1>1, <1>2 DEF Handled
<1>7. d \in Handled(b)
  BY <1>2, <1>4, <1>5, <1>6 DEF Handled
<1> QED
  BY <1>2, <1>7 DEF d

\* A router that awaits no page asks for one.
LEMMA AskKeeps ==
  ASSUME LogTyped, NEW b \in Router, NEW c \in Handled(b), ~c.broken, ~AwaitsPage(c),
         NEW d, d = AskReplay(c, c.cursor)
  PROVE  /\ d \in Handled(b) /\ d.replay = NewReplay(c.cursor)
         /\ d.cursor = c.cursor /\ d.held = c.held /\ ~d.broken
<1> DEFINE e == [c EXCEPT !.replay = NewReplay(c.cursor)]
<1>1. c \in Router /\ c.sent \in Seq(Command) /\ c.cursor \in Nat
  BY LogFacts DEF Handled, Router
<1>2. /\ NewReplay(c.cursor) \in PendingReplay /\ NewReplay(c.cursor).page = None
      /\ NewReplay(c.cursor).after = c.cursor
  BY <1>1 DEF NewReplay, PendingReplay
<1>3. /\ e \in Router /\ e.cursor = c.cursor /\ e.tracked = c.tracked /\ e.held = c.held
      /\ e.replay = NewReplay(c.cursor) /\ e.broken = c.broken /\ e.sent = c.sent
  BY <1>1, <1>2 DEF Router
<1>a. Replay(c.cursor) \in Command /\ d = Send(e, Replay(c.cursor))
  BY <1>1, CommandFacts DEF AskReplay
<1> HIDE DEF e
<1>b. ASSUME NEW m \in Command
      PROVE  /\ Send(e, m) \in Router
             /\ Send(e, m).cursor = e.cursor /\ Send(e, m).tracked = e.tracked
             /\ Send(e, m).replay = e.replay /\ Send(e, m).held = e.held
             /\ Send(e, m).broken = e.broken /\ Send(e, m).sent = Append(e.sent, m)
  BY <1>3, SendEffect
<1>4. /\ d \in Router /\ d.cursor = c.cursor /\ d.tracked = c.tracked /\ d.held = c.held
      /\ d.replay = NewReplay(c.cursor) /\ d.broken = c.broken
      /\ d.sent = Append(c.sent, Replay(c.cursor))
  BY <1>3, <1>a, <1>b
<1>c. ASSUME NEW m \in Command
      PROVE  /\ Range(Append(c.sent, m)) = Range(c.sent) \cup {m}
             /\ \A M : Count(Append(c.sent, m), M) = Count(c.sent, M) + (IF m \in M THEN 1 ELSE 0)
  BY <1>1, LongerQueue
<1>5. /\ Range(d.sent) = Range(c.sent) \cup {Replay(c.cursor)}
      /\ \A M : Count(d.sent, M) = Count(c.sent, M) + (IF Replay(c.cursor) \in M THEN 1 ELSE 0)
  BY <1>4, <1>a, <1>c
<1>6. /\ Count(c.sent, OfPages) \in Nat /\ \A r : Count(c.sent, OfLookup(r)) \in Nat
      /\ Count(c.sent, OfPages) = 0 => \A m \in Range(c.sent) : m \notin OfPages
  BY <1>1, PositionsAreFinite
<1>7. AwaitsPage(d) /\ d.replay.after = c.cursor
  BY <1>2, <1>4, Constants DEF AwaitsPage
<1>8. ~AwaitsPage(b) /\ Count(c.sent, OfPages) = 0
  BY <1>6 DEF Handled, Balanced, PagesAwaited
<1>9. SentFits(d)
  BY <1>1, <1>4, <1>5, <1>6, <1>7, <1>8, CommandFacts DEF Handled, SentFits
<1>10. /\ Count(d.sent, OfPages) = 1
       /\ \A r \in Request : Count(d.sent, OfLookup(r)) = Count(c.sent, OfLookup(r))
  BY <1>1, <1>5, <1>6, <1>8, CommandFacts
<1>11. Balanced(b, d)
  BY <1>4, <1>7, <1>8, <1>10 DEF Handled, Balanced, PagesAwaited, RoutesAwaited
<1>12. HeldAwaitRoute(d) /\ PageReachesFloor(d)
  BY <1>4, <1>7 DEF Handled, HeldAwaitRoute, PageReachesFloor
<1> QED
  BY <1>4, <1>9, <1>11, <1>12 DEF Handled

\* Only the replay of a router changes, and what it awaits does not.
LEMMA ReplayKeeps ==
  ASSUME LogTyped, NEW b \in Router, NEW c \in Handled(b), ~c.broken,
         NEW replaying \in {None} \cup PendingReplay, NEW d, d = [c EXCEPT !.replay = replaying],
         AwaitsPage(d) <=> AwaitsPage(c),
         AwaitsPage(c) => replaying.after = c.replay.after,
         PageReachesFloor(d)
  PROVE  /\ d \in Handled(b) /\ d.replay = replaying
         /\ d.cursor = c.cursor /\ d.held = c.held /\ ~d.broken
<1>1. c \in Router
  BY DEF Handled
<1>2. /\ d \in Router /\ d.cursor = c.cursor /\ d.tracked = c.tracked /\ d.held = c.held
      /\ d.replay = replaying /\ d.broken = c.broken /\ d.sent = c.sent
  BY <1>1 DEF Router
<1>3. SentFits(d)
  BY <1>2 DEF Handled, SentFits
<1>4. AwaitsPage(b) => AwaitsPage(c)
  <2>1. Count(c.sent, OfPages) \in Nat
    BY <1>1, PositionsAreFinite DEF Router
  <2> QED
    BY <2>1 DEF Handled, Balanced, PagesAwaited
<1>5. Balanced(b, d)
  BY <1>2, <1>4 DEF Handled, Balanced, PagesAwaited, RoutesAwaited
<1>6. HeldAwaitRoute(d)
  BY <1>2 DEF Handled, HeldAwaitRoute
<1> QED
  BY <1>2, <1>3, <1>5, <1>6 DEF Handled

\* A replay that is asked for at most once leaves one to wait for.
LEMMA RequestReplayOnceKeeps ==
  ASSUME LogTyped, NEW b \in Router, NEW c \in Handled(b), ~c.broken,
         NEW d, d = RequestReplayOnce(c, c.cursor)
  PROVE  /\ d \in Handled(b) /\ d.replay # None
         /\ d.cursor = c.cursor /\ d.held = c.held /\ ~d.broken
<1>1. c \in Router /\ c.cursor \in Nat
  BY LogFacts DEF Handled, Router
<1>2. CASE c.replay = None
  <2>1. d = AskReplay(c, c.cursor)
    BY <1>2 DEF RequestReplayOnce
  <2>2. NewReplay(c.cursor) \in PendingReplay /\ ~AwaitsPage(c)
    BY <1>1, <1>2 DEF NewReplay, PendingReplay, AwaitsPage
  <2> QED
    BY <2>1, <2>2, AskKeeps, Constants
<1>3. CASE c.replay # None /\ c.replay.after # c.cursor
  <2> DEFINE again == [c.replay EXCEPT !.again = TRUE]
  <2>1. c.replay \in PendingReplay
    BY <1>1, <1>3 DEF Router
  <2>2. d = [c EXCEPT !.replay = again]
    BY <1>3 DEF RequestReplayOnce
  <2>3. again \in PendingReplay /\ again.after = c.replay.after /\ again.page = c.replay.page
    BY <2>1 DEF PendingReplay
  <2> HIDE DEF again
  <2>4. d.replay = again /\ again # None
    BY <1>1, <2>2, <2>3, Constants DEF Router
  <2>5. AwaitsPage(d) <=> AwaitsPage(c)
    BY <1>3, <2>3, <2>4 DEF AwaitsPage
  <2>6. PageReachesFloor(d)
    BY <1>3, <2>3, <2>4, <2>5 DEF Handled, PageReachesFloor
  <2> QED
    BY <2>2, <2>3, <2>4, <2>5, <2>6, ReplayKeeps
<1>4. CASE c.replay # None /\ c.replay.after = c.cursor
  BY <1>4 DEF RequestReplayOnce
<1> QED
  BY <1>2, <1>3, <1>4

\* The page that ended is left, or stays open for the events that are held.
LEMMA FinishReplayKeeps ==
  ASSUME LogTyped, NEW b \in Router, NEW c \in Handled(b), ~c.broken, ReachesFloor(c),
         NEW d, d = FinishReplay(c), floor \in 0 .. Len(log)
  PROVE  /\ d \in Handled(b) /\ ~d.broken /\ ReachesFloor(d) /\ PageHasHeld(d)
         /\ d.cursor = c.cursor /\ d.held = c.held
<1>1. c \in Router /\ c.cursor \in Nat /\ floor \in Nat
  BY LogFacts DEF Handled, Router
<1>2. CASE c.replay = None \/ AwaitsPage(c)
  <2>1. d = c
    BY <1>2 DEF FinishReplay, AwaitsPage
  <2> QED
    BY <1>2, <2>1 DEF PageHasHeld
<1>3. CASE c.replay # None /\ ~AwaitsPage(c)
  <2> DEFINE finished == [c EXCEPT !.replay = None]
             short == c.cursor < c.replay.page.through
  <2>1. c.replay \in PendingReplay /\ c.replay.page # None /\ c.replay.page \in PageEnd
    BY <1>1, <1>3 DEF AwaitsPage, Router, PendingReplay
  <2>2. c.replay.page.through \in Nat /\ c.replay.page.more \in BOOLEAN
    BY <2>1 DEF PageEnd
  <2>3. finished.replay = None /\ finished.cursor = c.cursor /\ finished.held = c.held
    BY <1>1 DEF Router
  <2>4. finished \in Handled(b) /\ ~finished.broken
    <3>1. ~AwaitsPage(finished) /\ PageReachesFloor(finished)
      BY <2>3 DEF AwaitsPage, PageReachesFloor
    <3> QED
      BY <1>3, <3>1, ReplayKeeps
  <2>5. CASE short /\ c.held # NothingHeld
    <3>1. d = c
      BY <1>3, <2>1, <2>5 DEF FinishReplay
    <3>2. \E r \in Request : c.held[r] # <<>>
      <4> SUFFICES ASSUME \A r \in Request : c.held[r] = <<>> PROVE FALSE
        OBVIOUS
      <4>1. c.held \in [Request -> Seq(DOMAIN log)]
        BY <1>1 DEF Router
      <4> QED
        BY <2>5, <4>1 DEF NothingHeld
    <3> QED
      BY <2>5, <3>1, <3>2 DEF PageHasHeld
  <2>6. CASE ~(short /\ c.held # NothingHeld) /\ (short \/ c.replay.page.more \/ c.replay.again)
    <3>1. d = RequestReplayOnce(finished, c.cursor)
      BY <1>3, <2>1, <2>6 DEF FinishReplay
    <3>2. d = AskReplay(finished, finished.cursor)
      BY <2>3, <3>1 DEF RequestReplayOnce
    <3>3. ~AwaitsPage(finished)
      BY <2>3 DEF AwaitsPage
    <3> HIDE DEF finished
    <3>4. /\ d \in Handled(b) /\ ~d.broken /\ d.replay = NewReplay(finished.cursor)
          /\ d.cursor = finished.cursor /\ d.held = finished.held
      BY <2>4, <3>2, <3>3, AskKeeps
    <3>5. AwaitsPage(d)
      <4>1. NewReplay(c.cursor) \in PendingReplay /\ NewReplay(c.cursor).page = None
        BY <1>1 DEF NewReplay, PendingReplay
      <4> QED
        BY <2>3, <3>4, <4>1, Constants DEF AwaitsPage
    <3> QED
      BY <2>3, <3>4, <3>5 DEF ReachesFloor, PageHasHeld, AwaitsPage
  <2>7. CASE ~short /\ ~c.replay.page.more /\ ~c.replay.again
    <3>1. d = finished
      BY <1>3, <2>1, <2>7 DEF FinishReplay
    <3>2. c.cursor >= floor
      BY <1>1, <1>3, <2>2, <2>7 DEF Handled, PageReachesFloor
    <3> QED
      BY <1>1, <2>3, <2>4, <3>1, <3>2 DEF ReachesFloor, PageHasHeld
  <2> QED
    BY <2>5, <2>6, <2>7
<1> QED
  BY <1>2, <1>3

\* A duplicate, the next event and one beyond a gap all keep the balance.
LEMMA ConvergeKeeps ==
  ASSUME LogTyped, NEW b \in Router, NEW c \in Handled(b), ~c.broken, ReachesFloor(c),
         NEW n \in DOMAIN log, NEW d, d = Converge(c, n), floor \in 0 .. Len(log)
  PROVE  d \in Handled(b) /\ ~d.broken /\ ReachesFloor(d)
<1>1. c \in Router /\ c.cursor \in Nat /\ n \in Nat /\ floor \in Nat
  BY LogFacts DEF Handled, Router
<1>a. Acknowledge(n) \in Command
  BY <1>1, CommandFacts
<1>2. CASE n <= c.cursor
  <2>1. d = Send(c, Acknowledge(n))
    BY <1>2 DEF Converge
  <2>2. d \in Handled(b)
    BY <1>1, <1>2, <2>1, AcknowledgeKeeps
  <2>3. d.broken = c.broken /\ d.cursor = c.cursor /\ d.replay = c.replay
    BY <1>1, <1>a, <2>1, SendEffect
  <2> QED
    BY <2>2, <2>3 DEF ReachesFloor
<1>3. CASE n = c.cursor + 1
  <2> DEFINE e == [c EXCEPT !.cursor = n]
  <2>1. d = Send(e, Acknowledge(n))
    BY <1>1, <1>3 DEF Converge
  <2>2. e \in Handled(b) /\ e.cursor = n /\ e.broken = c.broken /\ e.replay = c.replay
    BY <1>3, StoreKeeps
  <2> HIDE DEF e
  <2>3. d \in Handled(b)
    BY <1>1, <2>1, <2>2, AcknowledgeKeeps
  <2>4. e \in Router
    BY <2>2 DEF Handled
  <2>5. d.broken = e.broken /\ d.cursor = e.cursor /\ d.replay = e.replay
    BY <1>a, <2>1, <2>4, SendEffect
  <2>6. d.cursor < floor => c.cursor < floor
    BY <1>1, <1>3, <2>2, <2>5
  <2> QED
    BY <2>2, <2>3, <2>5, <2>6 DEF ReachesFloor
<1>4. CASE ~(n <= c.cursor) /\ n # c.cursor + 1
  <2>1. d = RequestReplayOnce(c, c.cursor)
    BY <1>4 DEF Converge
  <2> QED
    BY <2>1, RequestReplayOnceKeeps DEF ReachesFloor
<1> QED
  BY <1>2, <1>3, <1>4

\* One more event awaits the route of its request.
LEMMA HoldKeeps ==
  ASSUME LogTyped, NEW b \in Router, NEW c \in Handled(b), ~c.broken,
         NEW n \in DOMAIN log, c.tracked[log[n].request] = NoRow, NEW d, d = Hold(c, n)
  PROVE  /\ d \in Handled(b)
         /\ ~d.broken => (ReachesFloor(c) => ReachesFloor(d)) /\ (PageHasHeld(c) => PageHasHeld(d))
<1> DEFINE r == log[n].request
           kept == [c EXCEPT !.held[r] = Append(@, n)]
<1>1. /\ c \in Router /\ r \in Request /\ c.held[r] \in Seq(DOMAIN log)
      /\ c.held \in [Request -> Seq(DOMAIN log)]
  BY LogFacts DEF Handled, Router
<1>2. requests[r] # NoRow
  BY DEF LogTyped
<1>3. CASE n \in Range(c.held[r])
  BY <1>3 DEF Hold
<1>4. CASE d = Break(c)
  <2>1. d \in Router /\ d.broken /\ d.cursor = c.cursor /\ d.tracked = c.tracked
    BY <1>1, <1>4 DEF Break, Router
  <2> QED
    BY <2>1 DEF Handled
<1>5. CASE n \notin Range(c.held[r])
           /\ d = IF c.held[r] = <<>> THEN Send(kept, GetRequest(r)) ELSE kept
  <2> DEFINE longer == Append(c.held[r], n)
  <2>1. longer \in Seq(DOMAIN log) /\ Range(longer) = Range(c.held[r]) \cup {n} /\ longer # <<>>
    BY <1>1, LongerQueue, AppendProperties
  <2> HIDE DEF longer
  <2>2. /\ kept \in Router /\ kept.cursor = c.cursor /\ kept.tracked = c.tracked
        /\ kept.replay = c.replay /\ kept.broken = c.broken /\ kept.sent = c.sent
        /\ kept.held = [c.held EXCEPT ![r] = longer]
    <3>1. [c.held EXCEPT ![r] = longer] \in [Request -> Seq(DOMAIN log)]
      BY <1>1, <2>1
    <3>2. kept = [c EXCEPT !.held = [c.held EXCEPT ![r] = longer]]
      BY <1>1 DEF longer, Router
    <3> QED
      BY <1>1, <3>1, <3>2 DEF Router
  <2> HIDE DEF kept, r
  <2>3. kept.held[r] = longer /\ \A q \in Request : q # r => kept.held[q] = c.held[q]
    BY <1>1, <2>2
  <2>4. /\ d \in Router /\ d.cursor = c.cursor /\ d.tracked = c.tracked
        /\ d.replay = c.replay /\ d.broken = c.broken /\ d.held = kept.held
        /\ d.sent = IF c.held[r] = <<>> THEN Append(c.sent, GetRequest(r)) ELSE c.sent
    <3>1. GetRequest(r) \in Command
      BY <1>1, CommandFacts
    <3>2. CASE c.held[r] = <<>>
      <4>1. d = Send(kept, GetRequest(r))
        BY <1>5, <3>2
      <4> QED
        BY <2>2, <3>1, <3>2, <4>1, SendEffect
    <3>3. CASE c.held[r] # <<>>
      BY <1>5, <2>2, <3>3
    <3> QED
      BY <3>2, <3>3
  <2>5. c.sent \in Seq(Command) /\ GetRequest(r) \in Command
    BY <1>1, CommandFacts DEF Router
  <2>6. SentFits(d)
    <3>1. Range(d.sent) \subseteq Range(c.sent) \cup {GetRequest(r)}
      BY <2>4, <2>5, LongerQueue
    <3>2. /\ GetRequest(r).kind = "getRequest" /\ GetRequest(r).request = r
          /\ GetRequest(r) \notin OfPages
      BY <1>1, CommandFacts
    <3> QED
      BY <1>2, <2>4, <3>1, <3>2 DEF Handled, SentFits, AwaitsPage, r
  <2>7. /\ Count(c.sent, OfPages) \in Nat
        /\ \A q : Count(c.sent, OfLookup(q)) \in Nat
    BY <2>5, PositionsAreFinite
  <2>8. /\ Count(d.sent, OfPages) = Count(c.sent, OfPages)
        /\ \A q \in Request : Count(d.sent, OfLookup(q))
             = Count(c.sent, OfLookup(q)) + (IF q = r /\ c.held[r] = <<>> THEN 1 ELSE 0)
    <3>1. CASE c.held[r] = <<>>
      <4>1. \A M : Count(d.sent, M) = Count(c.sent, M) + (IF GetRequest(r) \in M THEN 1 ELSE 0)
        BY <2>4, <2>5, <3>1, LongerQueue
      <4> QED
        BY <1>1, <2>7, <3>1, <4>1, CommandFacts
    <3>2. CASE c.held[r] # <<>>
      BY <2>4, <2>7, <3>2
    <3> QED
      BY <3>1, <3>2
  <2>9. Balanced(b, d)
    <3>1. \A q \in Request : RoutesAwaited(d, q)
            = RoutesAwaited(c, q) + (IF q = r /\ c.held[r] = <<>> THEN 1 ELSE 0)
      BY <2>1, <2>3, <2>4 DEF RoutesAwaited
    <3>2. \A q \in Request : RoutesAwaited(c, q) \in Int /\ RoutesAwaited(b, q) \in Int
      BY DEF RoutesAwaited
    <3>3. \A q \in Request : Count(c.sent, OfLookup(q)) = RoutesAwaited(c, q) - RoutesAwaited(b, q)
      BY DEF Handled, Balanced
    <3>4. \A q \in Request : Count(d.sent, OfLookup(q)) = RoutesAwaited(d, q) - RoutesAwaited(b, q)
      BY <2>8, <3>1, <3>2, <3>3
    <3>5. PagesAwaited(d) = PagesAwaited(c)
      BY <2>4 DEF PagesAwaited, AwaitsPage
    <3>6. /\ Count(c.sent, OfPages) = PagesAwaited(c) - PagesAwaited(b)
          /\ AwaitsPage(b) => c.replay.after = b.replay.after
      BY DEF Handled, Balanced
    <3>7. d.replay = c.replay /\ Count(d.sent, OfPages) = Count(c.sent, OfPages)
      BY <2>4, <2>8
    <3>8. /\ Count(d.sent, OfPages) = PagesAwaited(d) - PagesAwaited(b)
          /\ AwaitsPage(b) => d.replay.after = b.replay.after
      BY <3>5, <3>6, <3>7
    <3> QED
      BY <3>4, <3>8 DEF Balanced
  <2>10. HeldAwaitRoute(d)
    <3>1. \A q \in Request : \A k \in Range(c.held[q]) : log[k].request = q /\ c.tracked[q] = NoRow
      BY DEF Handled, HeldAwaitRoute
    <3>2. log[n].request = r /\ c.tracked[r] = NoRow
      BY DEF r
    <3> QED
      BY <2>1, <2>3, <2>4, <3>1, <3>2 DEF HeldAwaitRoute
  <2>11. PageReachesFloor(d)
    BY <2>4 DEF Handled, PageReachesFloor, AwaitsPage
  <2>12. (ReachesFloor(c) => ReachesFloor(d)) /\ (PageHasHeld(c) => PageHasHeld(d))
    BY <1>1, <2>1, <2>3, <2>4 DEF ReachesFloor, PageHasHeld, AwaitsPage
  <2> QED
    BY <2>4, <2>6, <2>9, <2>10, <2>11, <2>12 DEF Handled
<1> QED
  BY <1>3, <1>4, <1>5 DEF Hold

\* An event is held, ends the stream, or takes the router to a state that waits
\* for what it must.
LEMMA AcceptEventKeeps ==
  ASSUME LogTyped, floor \in 0 .. Len(log), NEW b \in Router, NEW c \in Handled(b),
         ~c.broken => ReachesFloor(c), NEW n \in DOMAIN log, NEW d, d = AcceptEvent(c, n)
  PROVE  /\ d \in Handled(b)
         /\ ~d.broken => /\ ReachesFloor(d)
                         /\ PageHasHeld(c) \/ c.tracked[log[n].request] # NoRow => PageHasHeld(d)
<1> DEFINE route == c.tracked[log[n].request]
<1>1. c \in Router
  BY DEF Handled
<1>2. CASE c.broken
  BY <1>2 DEF AcceptEvent
<1>3. CASE ~c.broken /\ route = NoRow
  <2>1. d = Hold(c, n)
    BY <1>3 DEF AcceptEvent
  <2> QED
    BY <1>3, <2>1, HoldKeeps
<1>4. CASE ~c.broken /\ route # NoRow /\ route # log[n].session
  <2>1. d = Break(c)
    BY <1>4 DEF AcceptEvent
  <2>2. d \in Router /\ d.broken /\ d.cursor = c.cursor /\ d.tracked = c.tracked
    BY <1>1, <2>1 DEF Break, Router
  <2> QED
    BY <2>2 DEF Handled
<1>5. CASE ~c.broken /\ route # NoRow /\ route = log[n].session
  <2>1. d = FinishReplay(Converge(c, n))
    BY <1>5 DEF AcceptEvent
  <2>2. Converge(c, n) \in Handled(b) /\ ~Converge(c, n).broken /\ ReachesFloor(Converge(c, n))
    BY <1>5, ConvergeKeeps
  <2> QED
    BY <2>1, <2>2, FinishReplayKeeps
<1> QED
  BY <1>2, <1>3, <1>4, <1>5
----------------------------------------------------------------------------
\* What the frames are counted as.
LEMMA FrameFacts ==
  ASSUME NEW f \in Frame
  PROVE  /\ f.kind \in {"event", "status", "completed"}
         /\ f.kind = "event" =>
              f.sequence \in Nat /\ f \notin OfPages /\ \A r : f \notin OfLookup(r)
         /\ f.kind = "status" =>
              /\ f.request \in Request /\ f.session \in Sessions /\ f \notin OfPages
              /\ \A r : f \in OfLookup(r) <=> f.request = r
         /\ f.kind = "completed" =>
              /\ f.after \in Nat /\ f.through \in Nat /\ f.more \in BOOLEAN
              /\ f \in OfPages /\ \A r : f \notin OfLookup(r)
<1>1. /\ f.kind \in {"event", "status", "completed"}
      /\ f.kind = "event" => f.sequence \in Nat
      /\ f.kind = "status" => f.request \in Request /\ f.session \in Sessions
      /\ f.kind = "completed" => f.after \in Nat /\ f.through \in Nat /\ f.more \in BOOLEAN
  BY DEF Frame
<1> QED
  BY <1>1 DEF OfPages, OfLookup

\* What the frame that is taken leaves under way.
LEMMA FrameTaken ==
  ASSUME SyncTypeOK, frames # <<>>
  PROVE  /\ Head(frames) \in Frame /\ Head(frames) \in Range(frames)
         /\ Tail(frames) \in Seq(Frame) /\ Len(Tail(frames)) <= MaxFrames
         /\ Range(Tail(frames)) \subseteq Range(frames)
         /\ \A M : /\ UnderWay(M) \in Nat
                   /\ Head(frames) \in M => UnderWay(M) > 0
                   /\ Count(Tail(frames), M)
                        = Count(frames, M) - (IF Head(frames) \in M THEN 1 ELSE 0)
<1>1. /\ frames \in Seq(Frame) /\ commands \in Seq(Command) /\ answer \in Seq(Frame)
      /\ Len(frames) <= MaxFrames
  BY DEF SyncTypeOK
<1>2. /\ Tail(frames) \in Seq(Frame) /\ Len(Tail(frames)) = Len(frames) - 1
      /\ Head(frames) \in Frame /\ Head(frames) \in Range(frames)
      /\ Range(Tail(frames)) \subseteq Range(frames)
      /\ \A M : Count(Tail(frames), M) = Count(frames, M) - (IF Head(frames) \in M THEN 1 ELSE 0)
  BY <1>1, ShorterQueue
<1>3. \A M : /\ Count(frames, M) \in Nat /\ Count(commands, M) \in Nat /\ Count(answer, M) \in Nat
             /\ Count(Tail(frames), M) \in Nat
  BY <1>1, <1>2, PositionsAreFinite
<1>4. Len(frames) \in Nat /\ MaxFrames \in Nat
  BY <1>1, LenProperties, Constants
<1>5. ASSUME NEW M PROVE UnderWay(M) \in Nat /\ (Head(frames) \in M => UnderWay(M) > 0)
  <2>1. /\ Count(frames, M) \in Nat /\ Count(commands, M) \in Nat /\ Count(answer, M) \in Nat
        /\ Count(Tail(frames), M) \in Nat
        /\ Count(Tail(frames), M) = Count(frames, M) - (IF Head(frames) \in M THEN 1 ELSE 0)
    BY <1>2, <1>3
  <2> QED
    BY <2>1 DEF UnderWay
<1> QED
  BY <1>1, <1>2, <1>4, <1>5

\* The Client as the router finds it when a frame comes.
LEMMA ClientFacts ==
  ASSUME SyncInvariant
  PROVE  /\ LogTyped /\ floor \in 0 .. Len(log) /\ Len(log) \in Nat
         /\ Client \in Router /\ ~Client.broken /\ Client.sent = <<>>
         /\ Client.cursor = cursor /\ Client.tracked = tracked
         /\ Client.replay = replay /\ Client.held = held
         /\ Client \in Handled(Client)
<1>1. LogTyped /\ floor \in 0 .. Len(log)
  BY DEF SyncInvariant, SyncTypeOK, RowsKnown, LogTyped
<1>2. /\ Client.cursor = cursor /\ Client.tracked = tracked /\ Client.replay = replay
      /\ Client.held = held /\ Client.sent = <<>> /\ ~Client.broken
  BY DEF Client
<1>3. Client \in Router
  <2>1. <<>> \in Seq(Command)
    BY EmptyQueue
  <2> QED
    BY <2>1 DEF SyncInvariant, SyncTypeOK, Client, Router
<1>4. SentFits(Client)
  BY <1>2, EmptyQueue DEF SentFits
<1>5. Balanced(Client, Client)
  <2>1. PagesAwaited(Client) \in Int /\ \A r \in Request : RoutesAwaited(Client, r) \in Int
    BY DEF PagesAwaited, RoutesAwaited
  <2>2. \A M : Count(Client.sent, M) = 0
    BY <1>2, EmptyQueue
  <2> QED
    BY <2>1, <2>2 DEF Balanced
<1>6. Client.cursor >= Client.cursor
  BY <1>1, <1>3, LogFacts DEF Router
<1> QED
  BY <1>1, <1>2, <1>3, <1>4, <1>5, <1>6, LogFacts
  DEF Handled, SyncInvariant, RouterInvariant

\* What a router that handled a frame without an exception is like.
Settled(c) ==
  /\ c \in Router /\ SentFits(c)
  /\ HeldAwaitRoute(c) /\ PageReachesFloor(c) /\ ReachesFloor(c) /\ PageHasHeld(c)

\* What it sent, with the frame that was taken, is what it awaits now.
Exchanged(f, c) ==
  /\ Count(c.sent, OfPages)
       = PagesAwaited(c) - PagesAwaited(Client) + (IF f \in OfPages THEN 1 ELSE 0)
  /\ f \notin OfPages /\ AwaitsPage(Client) => c.replay.after = Client.replay.after
  /\ \A r \in Request \ Own :
       Count(c.sent, OfLookup(r))
         = RoutesAwaited(c, r) - RoutesAwaited(Client, r) + (IF f \in OfLookup(r) THEN 1 ELSE 0)

Keeps(c) ==
  /\ c.cursor \in cursor .. Len(log) /\ c.tracked \in [Request -> Sessions \cup {NoRow}]
  /\ \A r \in Request : tracked[r] # NoRow => c.tracked[r] = tracked[r]

\* An event that is taken answers nothing: what was sent is what is awaited anew.
LEMMA EventEffect ==
  ASSUME SyncInvariant, NEW f \in Frame, f \in Range(frames), f.kind = "event",
         NEW c, c = AcceptEvent(Client, f.sequence)
  PROVE  Keeps(c) /\ (~c.broken => Settled(c) /\ Exchanged(f, c))
<1>1. f.sequence \in DOMAIN log
  BY DEF SyncInvariant, SyncTypeOK
<1>2. c \in Handled(Client) /\ (~c.broken => ReachesFloor(c) /\ PageHasHeld(c))
  BY <1>1, ClientFacts, AcceptEventKeeps DEF SyncInvariant, RouterInvariant
<1>3. Keeps(c)
  BY <1>2, ClientFacts DEF Handled, Keeps, Router
<1>4. ASSUME ~c.broken PROVE Settled(c) /\ Exchanged(f, c)
  <2>1. Settled(c)
    BY <1>2, <1>4 DEF Handled, Settled
  <2>2. f \notin OfPages /\ \A r : f \notin OfLookup(r)
    BY FrameFacts
  <2>3. /\ PagesAwaited(Client) \in Int /\ PagesAwaited(c) \in Int
        /\ \A r \in Request : RoutesAwaited(Client, r) \in Int /\ RoutesAwaited(c, r) \in Int
    BY DEF PagesAwaited, RoutesAwaited
  <2>4. Balanced(Client, c)
    BY <1>2, <1>4 DEF Handled
  <2> QED
    BY <2>1, <2>2, <2>3, <2>4 DEF Balanced, Exchanged
<1> QED
  BY <1>3, <1>4

\* A completion that is taken is the page the router awaited.
LEMMA CompletionEffect ==
  ASSUME SyncInvariant, frames # <<>>, NEW f, f = Head(frames), f.kind = "completed",
         NEW c, c = AcceptCompletion(Client, f)
  PROVE  Keeps(c) /\ (~c.broken => Settled(c) /\ (connected /\ handling => Exchanged(f, c)))
<1> DEFINE b == [Client EXCEPT !.replay.page = [through |-> f.through, more |-> f.more]]
<1>1. f \in Frame /\ f \in Range(frames)
  BY FrameTaken DEF SyncInvariant
<1>2. /\ f.after \in Nat /\ f.through \in Nat /\ f.more \in BOOLEAN
      /\ f \in OfPages /\ \A r : f \notin OfLookup(r)
  BY <1>1, FrameFacts
<1>3. f.more \/ f.through >= floor
  BY <1>1 DEF SyncInvariant, CompletionsReachFloor
<1>4. CASE c = Break(Client)
  <2>1. c.broken /\ c.cursor = cursor /\ c.tracked = tracked
    BY <1>4 DEF Break, Client
  <2> QED
    BY <2>1, ClientFacts DEF Keeps, Router
<1>5. CASE replay # None /\ c = FinishReplay(b)
  <2> DEFINE end == [through |-> f.through, more |-> f.more]
             closed == [replay EXCEPT !.page = end]
  <2>1. replay \in PendingReplay /\ end \in PageEnd
    BY <1>2, <1>5, ClientFacts DEF Router, PageEnd
  <2>2. closed \in PendingReplay /\ closed.page = end
    BY <2>1 DEF PendingReplay
  <2>3. end # None /\ closed # None /\ end.through = f.through /\ end.more = f.more
    BY <2>1, <2>2, Constants
  <2>4. b = [Client EXCEPT !.replay = closed]
    BY DEF Client
  <2>5. /\ b \in Router /\ b.cursor = cursor /\ b.tracked = tracked /\ b.held = held
        /\ b.replay = closed /\ ~b.broken /\ b.sent = <<>>
    BY <2>2, <2>4, ClientFacts DEF Router
  <2> HIDE DEF b, closed, end
  <2>6. ~AwaitsPage(b) /\ PageReachesFloor(b)
    BY <1>3, <2>2, <2>3, <2>5 DEF AwaitsPage, PageReachesFloor
  <2>7. HeldAwaitRoute(b) /\ ReachesFloor(b)
    BY <2>3, <2>5, ClientFacts DEF SyncInvariant, RouterInvariant, HeldAwaitRoute, ReachesFloor
  <2>8. b \in Handled(b)
    <3>1. SentFits(b)
      BY <2>5, EmptyQueue DEF SentFits
    <3>2. Balanced(b, b)
      <4>1. PagesAwaited(b) \in Int /\ \A r \in Request : RoutesAwaited(b, r) \in Int
        BY DEF PagesAwaited, RoutesAwaited
      <4>2. \A M : Count(b.sent, M) = 0
        BY <2>5, EmptyQueue
      <4> QED
        BY <2>6, <4>1, <4>2 DEF Balanced
    <3>3. b.cursor >= b.cursor
      BY <2>5, ClientFacts DEF Router
    <3> QED
      BY <2>5, <2>6, <2>7, <3>1, <3>2, <3>3 DEF Handled
  <2>9. c \in Handled(b) /\ ~c.broken /\ ReachesFloor(c) /\ PageHasHeld(c)
    BY <1>5, <2>5, <2>7, <2>8, ClientFacts, FinishReplayKeeps
  <2>10. Keeps(c)
    BY <2>5, <2>9, ClientFacts DEF Handled, Keeps, Router
  <2>11. Settled(c)
    BY <2>9 DEF Handled, Settled
  <2>12. ASSUME connected, handling PROVE Exchanged(f, c)
    <3>1. AwaitsPage(Client)
      <4>1. UnderWay(OfPages) > 0
        BY <1>2, FrameTaken DEF SyncInvariant
      <4> QED
        BY <2>12, <4>1 DEF SyncInvariant, CompletionsExpected
    <3>2. PagesAwaited(Client) = 1 /\ PagesAwaited(b) = 0
      BY <2>6, <3>1 DEF PagesAwaited
    <3>3. \A r \in Request : RoutesAwaited(b, r) = RoutesAwaited(Client, r)
      BY <2>5, ClientFacts DEF RoutesAwaited
    <3>4. PagesAwaited(c) \in Int /\ \A r \in Request : RoutesAwaited(c, r) \in Int
      BY DEF PagesAwaited, RoutesAwaited
    <3>5. /\ Count(c.sent, OfPages) = PagesAwaited(c) - PagesAwaited(b)
          /\ \A r \in Request : Count(c.sent, OfLookup(r)) = RoutesAwaited(c, r) - RoutesAwaited(b, r)
      BY <2>9 DEF Handled, Balanced
    <3>6. \A r \in Request : RoutesAwaited(Client, r) \in Int
      BY DEF RoutesAwaited
    <3> QED
      BY <1>2, <3>2, <3>3, <3>4, <3>5, <3>6 DEF Exchanged
  <2> QED
    BY <2>10, <2>11, <2>12
<1> QED
  BY <1>4, <1>5, ClientFacts DEF AcceptCompletion

\* A status that is taken is the route that held events awaited, and after it they are accepted.
LEMMA StatusEffect ==
  ASSUME SyncInvariant, frames # <<>>, NEW f, f = Head(frames), f.kind = "status",
         NEW c, c = AcceptStatus(Client, f)
  PROVE  Keeps(c) /\ (~c.broken => Settled(c) /\ (connected /\ handling => Exchanged(f, c)))
<1> DEFINE r == f.request
           b == [Client EXCEPT !.tracked[r] = f.session, !.held[r] = <<>>]
<1>1. f \in Frame /\ f \in Range(frames)
  BY FrameTaken DEF SyncInvariant
<1>2. /\ r \in Request /\ f.session \in Sessions /\ f \notin OfPages
      /\ \A q : f \in OfLookup(q) <=> q = r
  BY <1>1, FrameFacts
<1>3. CASE c = Break(Client)
  <2>1. c.broken /\ c.cursor = cursor /\ c.tracked = tracked
    BY <1>3 DEF Break, Client
  <2> QED
    BY <2>1, ClientFacts DEF Keeps, Router
<1>4. CASE tracked[r] \in {NoRow, f.session} /\ c = AcceptHeld(b, held[r])
  <2>1. /\ tracked \in [Request -> Sessions \cup {NoRow}] /\ held \in [Request -> Seq(DOMAIN log)]
        /\ cursor \in 0 .. Len(log)
    BY DEF SyncInvariant, SyncTypeOK
  <2> DEFINE routed == [tracked EXCEPT ![r] = f.session]
             rest == [held EXCEPT ![r] = <<>>]
  <2>2. <<>> \in Seq(DOMAIN log)
    BY EmptyQueue
  <2>3. routed \in [Request -> Sessions \cup {NoRow}] /\ rest \in [Request -> Seq(DOMAIN log)]
    BY <1>2, <2>1, <2>2
  <2>4. /\ routed[r] = f.session /\ \A q \in Request : q # r => routed[q] = tracked[q]
        /\ rest[r] = <<>> /\ \A q \in Request : q # r => rest[q] = held[q]
    BY <1>2, <2>1
  <2>5. b = [Client EXCEPT !.tracked = routed, !.held = rest]
    BY DEF Client
  <2> HIDE DEF routed, rest
  <2>6. /\ b \in Router /\ b.cursor = cursor /\ b.tracked = routed /\ b.held = rest
        /\ b.replay = replay /\ ~b.broken /\ b.sent = <<>>
    BY <2>3, <2>5, ClientFacts DEF Router
  <2> HIDE DEF b
  <2>7. f.session # NoRow
    BY <1>2, Constants
  <2>8. AwaitsPage(b) <=> AwaitsPage(Client)
    BY <2>6, ClientFacts DEF AwaitsPage
  <2>9. PageReachesFloor(b) /\ ReachesFloor(b)
    BY <2>6, <2>8, ClientFacts
    DEF SyncInvariant, RouterInvariant, PageReachesFloor, ReachesFloor
  <2>10. HeldAwaitRoute(b)
    BY <2>4, <2>6, ClientFacts, EmptyQueue DEF SyncInvariant, RouterInvariant, HeldAwaitRoute
  <2>11. b \in Handled(b)
    <3>1. SentFits(b)
      BY <2>6, EmptyQueue DEF SentFits
    <3>2. Balanced(b, b)
      <4>1. PagesAwaited(b) \in Int /\ \A q \in Request : RoutesAwaited(b, q) \in Int
        BY DEF PagesAwaited, RoutesAwaited
      <4>2. \A M : Count(b.sent, M) = 0
        BY <2>6, EmptyQueue
      <4> QED
        BY <4>1, <4>2 DEF Balanced
    <3>3. b.cursor >= b.cursor
      BY <2>6, ClientFacts DEF Router
    <3> QED
      BY <2>6, <2>9, <2>10, <3>1, <3>2, <3>3 DEF Handled
  <2> DEFINE Good == {x \in Handled(b) : ~x.broken => ReachesFloor(x)}
  <2>12. \A n \in Range(held[r]) : n \in DOMAIN log /\ log[n].request = r
    <3>1. Range(held[r]) \subseteq DOMAIN log
      BY <1>2, <2>1, RangeOfSeq
    <3> QED
      BY <1>2, <3>1, ClientFacts DEF SyncInvariant, RouterInvariant, HeldAwaitRoute
  <2>13. ASSUME NEW x \in Good, NEW n \in Range(held[r])
         PROVE  /\ AcceptEvent(x, n) \in Good
                /\ ~AcceptEvent(x, n).broken => PageHasHeld(AcceptEvent(x, n))
    <3>1. x \in Handled(b) /\ (~x.broken => ReachesFloor(x)) /\ n \in DOMAIN log
      BY <2>12
    <3>2. x.tracked[log[n].request] # NoRow
      BY <2>4, <2>6, <2>7, <2>12, <3>1 DEF Handled
    <3>3. /\ AcceptEvent(x, n) \in Handled(b)
          /\ ~AcceptEvent(x, n).broken =>
               ReachesFloor(AcceptEvent(x, n)) /\ PageHasHeld(AcceptEvent(x, n))
      BY <2>6, <3>1, <3>2, ClientFacts, AcceptEventKeeps
    <3> QED
      BY <3>3
  <2>14. b \in Good
    BY <2>9, <2>11
  <2> HIDE DEF Good
  <2>15. /\ c \in Good /\ (held[r] = <<>> => c = b)
         /\ held[r] # <<>> => \E x \in Good, n \in Range(held[r]) : c = AcceptEvent(x, n)
    <3>1. held[r] \in Seq(DOMAIN log)
      BY <1>2, <2>1
    <3> QED
      BY <1>4, <2>13, <2>14, <3>1, AcceptHeldEffect
  <2>16. c \in Handled(b) /\ (~c.broken => ReachesFloor(c))
    BY <2>15 DEF Good
  <2>17. ASSUME ~c.broken PROVE PageHasHeld(c)
    <3>1. CASE held[r] # <<>>
      BY <2>13, <2>15, <2>17, <3>1
    <3>2. CASE held[r] = <<>>
      <4>1. \A q \in Request : rest[q] = held[q]
        BY <2>4, <3>2
      <4> QED
        BY <2>6, <2>8, <2>15, <3>2, <4>1, ClientFacts
        DEF SyncInvariant, RouterInvariant, PageHasHeld
    <3> QED
      BY <3>1, <3>2
  <2>18. Keeps(c)
    <3>1. c.tracked = routed /\ c.cursor \in cursor .. Len(log)
      BY <2>1, <2>6, <2>16, ClientFacts DEF Handled, Router
    <3> QED
      BY <1>2, <1>4, <2>3, <2>4, <3>1 DEF Keeps
  <2>19. ASSUME ~c.broken PROVE Settled(c)
    BY <2>16, <2>17, <2>19 DEF Handled, Settled
  <2>20. ASSUME ~c.broken, connected, handling PROVE Exchanged(f, c)
    <3>1. PagesAwaited(b) = PagesAwaited(Client) /\ b.replay = Client.replay
      BY <2>6, <2>8, ClientFacts DEF PagesAwaited
    <3>2. /\ RoutesAwaited(b, r) = 0
          /\ \A q \in Request : q # r => RoutesAwaited(b, q) = RoutesAwaited(Client, q)
      BY <2>4, <2>6, ClientFacts DEF RoutesAwaited
    <3>3. r \notin Own => RoutesAwaited(Client, r) = 1
      <4>1. UnderWay(OfLookup(r)) > 0
        BY <1>2, FrameTaken DEF SyncInvariant
      <4> QED
        BY <1>2, <2>20, <4>1, ClientFacts DEF SyncInvariant, LookupsUnderWay, RoutesAwaited
    <3>4. /\ PagesAwaited(c) \in Int /\ PagesAwaited(Client) \in Int
          /\ \A q \in Request : RoutesAwaited(c, q) \in Int /\ RoutesAwaited(Client, q) \in Int
      BY DEF PagesAwaited, RoutesAwaited
    <3>5. /\ Count(c.sent, OfPages) = PagesAwaited(c) - PagesAwaited(b)
          /\ \A q \in Request : Count(c.sent, OfLookup(q)) = RoutesAwaited(c, q) - RoutesAwaited(b, q)
          /\ AwaitsPage(b) => c.replay.after = b.replay.after
      BY <2>16, <2>20 DEF Handled, Balanced
    <3>6. \A q \in Request \ Own :
            Count(c.sent, OfLookup(q))
              = RoutesAwaited(c, q) - RoutesAwaited(Client, q) + (IF f \in OfLookup(q) THEN 1 ELSE 0)
      <4> TAKE q \in Request \ Own
      <4>1. CASE q = r
        BY <1>2, <3>2, <3>3, <3>4, <3>5, <4>1
      <4>2. CASE q # r
        BY <1>2, <3>2, <3>4, <3>5, <4>2
      <4> QED
        BY <4>1, <4>2
    <3> QED
      BY <1>2, <2>8, <3>1, <3>4, <3>5, <3>6 DEF Exchanged
  <2> QED
    BY <2>18, <2>19, <2>20
<1> QED
  BY <1>3, <1>4, ClientFacts DEF AcceptStatus
----------------------------------------------------------------------------
\* The ledger after a step: no event is lost or changed, every event is one of an
\* accepted request, and the Client has the route of each request of its own.
LedgerGrows ==
  /\ session' \in Sessions /\ requests' \in [Request -> Sessions \cup {NoRow}]
  /\ log' \in Seq([request : Request, session : Sessions])
  /\ Len(log) <= Len(log') /\ \A n \in DOMAIN log : log'[n] = log[n]
  /\ \A n \in DOMAIN log' : requests'[log'[n].request] # NoRow
  /\ \A r \in Request : requests[r] # NoRow => requests'[r] # NoRow
  /\ \A r \in Own : requests'[r] # NoRow => tracked[r] # NoRow
  /\ acked' \in 0 .. Len(log') /\ acked' <= cursor

\* What names an event of the log still does when the log has grown.
LEMMA GrownLog ==
  ASSUME SyncTypeOK, LedgerGrows
  PROVE  /\ Len(log) \in Nat /\ Len(log') \in Nat /\ Len(log) <= Len(log')
         /\ DOMAIN log = 1 .. Len(log) /\ DOMAIN log' = 1 .. Len(log')
         /\ DOMAIN log \subseteq DOMAIN log'
         /\ Seq(DOMAIN log) \subseteq Seq(DOMAIN log')
<1>1. /\ Len(log) \in Nat /\ DOMAIN log = 1 .. Len(log)
      /\ Len(log') \in Nat /\ DOMAIN log' = 1 .. Len(log') /\ Len(log) <= Len(log')
  BY LenProperties DEF SyncTypeOK, LedgerGrows
<1>2. DOMAIN log \subseteq DOMAIN log'
  BY <1>1
<1>3. Seq(DOMAIN log) \subseteq Seq(DOMAIN log')
  BY <1>2, SeqMonotonic
<1> QED
  BY <1>1, <1>2, <1>3

\* A ledger that stays as it is has grown by nothing.
LEMMA SameLedger ==
  ASSUME SyncInvariant, UNCHANGED ledgerVars
  PROVE  LedgerGrows
<1>1. /\ session' = session /\ requests' = requests /\ log' = log /\ acked' = acked
  BY DEF ledgerVars
<1>2. Len(log) <= Len(log)
  BY ClientFacts
<1> QED
  BY <1>1, <1>2 DEF LedgerGrows, SyncInvariant, SyncTypeOK, RowsKnown, DurableBeforeAck

\* A router that does nothing keeps what it awaits while the ledger grows.
LEMMA RouterRests ==
  ASSUME SyncInvariant, LedgerGrows, UNCHANGED clientVars
  PROVE  RouterInvariant'
<1>1. cursor' = cursor /\ tracked' = tracked /\ replay' = replay /\ held' = held /\ floor' = floor
  BY DEF clientVars, routerVars
<1>2. ASSUME NEW r \in Request, NEW n \in Range(held[r]) PROVE log'[n] = log[n]
  <2>1. held[r] \in Seq(DOMAIN log)
    BY DEF SyncInvariant, SyncTypeOK
  <2>2. n \in DOMAIN log
    BY <2>1, RangeOfSeq
  <2> QED
    BY <2>2 DEF LedgerGrows
<1>3. /\ HeldAwaitRoute(Client) /\ PageHasHeld(Client)
      /\ PageReachesFloor(Client) /\ ReachesFloor(Client)
  BY DEF SyncInvariant, RouterInvariant
<1>4. HeldAwaitRoute(Client)'
  BY <1>1, <1>2, <1>3 DEF HeldAwaitRoute, Client
<1>5. PageHasHeld(Client)' /\ PageReachesFloor(Client)' /\ ReachesFloor(Client)'
  BY <1>1, <1>3 DEF PageHasHeld, PageReachesFloor, ReachesFloor, AwaitsPage, Client
<1> QED
  BY <1>4, <1>5 DEF RouterInvariant

\* The ledger records an event.
LEMMA RecordEffect ==
  ASSUME SyncTypeOK, NEW r \in Request, NEW s \in Sessions, Record(r, s)
  PROVE  /\ log' \in Seq([request : Request, session : Sessions])
         /\ Len(log') = Len(log) + 1 /\ Len(log) \in Nat
         /\ DOMAIN log' = (DOMAIN log) \cup {Len(log) + 1}
         /\ \A n \in DOMAIN log : log'[n] = log[n]
         /\ log'[Len(log) + 1].request = r
<1> DEFINE row == [request |-> r, session |-> s]
<1>1. log \in Seq([request : Request, session : Sessions])
  BY DEF SyncTypeOK
<1>2. row \in [request : Request, session : Sessions]
  OBVIOUS
<1>3. log' = Append(log, row)
  BY DEF Record
<1> HIDE DEF row
<1>4. /\ log' \in Seq([request : Request, session : Sessions]) /\ Len(log') = Len(log) + 1
      /\ \A n \in 1 .. Len(log) : log'[n] = log[n]
      /\ log'[Len(log) + 1] = row
  BY <1>1, <1>2, <1>3, AppendProperties
<1>5. Len(log) \in Nat /\ DOMAIN log = 1 .. Len(log) /\ DOMAIN log' = 1 .. Len(log')
  BY <1>1, <1>4, LenProperties
<1> QED
  BY <1>4, <1>5 DEF row

\* An accepted request is recorded; one the Client sent has its route.
LEMMA AcceptRequestGrows ==
  ASSUME SyncInvariant, NEW r \in Request, NEW s, AcceptRequest(r, s),
         r \in Own => tracked[r] # NoRow
  PROVE  LedgerGrows /\ s \in Sessions
<1>1. SyncTypeOK /\ session \in Sessions /\ requests \in [Request -> Sessions \cup {NoRow}]
  BY DEF SyncInvariant, SyncTypeOK
<1>2. /\ requests' = [requests EXCEPT ![r] = session] /\ Record(r, session) /\ s = session
      /\ session' = session /\ acked' = acked
  BY DEF AcceptRequest
<1>3. /\ requests'[r] = session /\ \A q \in Request : q # r => requests'[q] = requests[q]
      /\ requests' \in [Request -> Sessions \cup {NoRow}] /\ session # NoRow
  BY <1>1, <1>2, Constants
<1>4. \A n \in DOMAIN log : log[n].request \in Request
  BY ClientFacts, LogFacts
<1>5. \A n \in DOMAIN log' : requests'[log'[n].request] # NoRow
  BY <1>1, <1>2, <1>3, <1>4, RecordEffect DEF SyncInvariant, RowsKnown
<1>6. acked' \in 0 .. Len(log') /\ acked' <= cursor /\ Len(log) <= Len(log')
  <2>1. Len(log') = Len(log) + 1 /\ Len(log) \in Nat
    BY <1>1, <1>2, RecordEffect
  <2>2. acked \in 0 .. Len(log) /\ acked <= cursor
    BY DEF SyncInvariant, SyncTypeOK, DurableBeforeAck
  <2> QED
    BY <1>2, <2>1, <2>2
<1>7. \A q \in Own : requests'[q] # NoRow => tracked[q] # NoRow
  BY <1>3, Constants DEF SyncInvariant, RowsKnown
<1>8. \A q \in Request : requests[q] # NoRow => requests'[q] # NoRow
  BY <1>3
<1> QED
  BY <1>1, <1>2, <1>3, <1>5, <1>6, <1>7, <1>8, RecordEffect DEF LedgerGrows

\* An ingested event is of an accepted request, and binding sessions loses no request.
LEMMA IngestGrows ==
  ASSUME SyncInvariant, NEW r \in Request, NEW s \in Sessions, IngestNodeEvent(r, s)
  PROVE  LedgerGrows
<1>1. SyncTypeOK /\ session \in Sessions /\ requests \in [Request -> Sessions \cup {NoRow}]
  BY DEF SyncInvariant, SyncTypeOK
<1>2. requests[r] # NoRow /\ Record(r, s) /\ acked' = acked
  BY DEF IngestNodeEvent
<1>3. /\ session' \in Sessions /\ requests' \in [Request -> Sessions \cup {NoRow}]
      /\ \A q \in Request : requests'[q] # NoRow <=> requests[q] # NoRow
  <2>1. CASE session = NoSession /\ session' = s /\ BindRequests(r, s)
    <3>1. PICK open \in SUBSET Request :
            requests' = [q \in Request |->
                          IF q \in open /\ requests[q] = NoSession THEN s ELSE requests[q]]
      BY <2>1 DEF BindRequests
    <3>2. NoSession # NoRow /\ s # NoRow
      BY Constants DEF Sessions
    <3>3. \A q \in Request :
            requests'[q] = IF q \in open /\ requests[q] = NoSession THEN s ELSE requests[q]
      BY <3>1
    <3>4. requests' \in [Request -> Sessions \cup {NoRow}]
      BY <1>1, <3>1
    <3> QED
      BY <2>1, <3>2, <3>3, <3>4
  <2>2. CASE UNCHANGED <<session, requests>>
    BY <1>1, <2>2
  <2> QED
    BY <2>1, <2>2 DEF IngestNodeEvent
<1>4. \A n \in DOMAIN log : log[n].request \in Request
  BY ClientFacts, LogFacts
<1>5. \A n \in DOMAIN log' : requests'[log'[n].request] # NoRow
  <2>1. /\ DOMAIN log' = (DOMAIN log) \cup {Len(log) + 1} /\ log'[Len(log) + 1].request = r
        /\ \A n \in DOMAIN log : log'[n] = log[n]
    BY <1>1, <1>2, RecordEffect
  <2>2. \A n \in DOMAIN log : requests[log[n].request] # NoRow
    BY DEF SyncInvariant, RowsKnown
  <2> QED
    BY <1>2, <1>3, <1>4, <2>1, <2>2
<1>6. acked' \in 0 .. Len(log') /\ acked' <= cursor /\ Len(log) <= Len(log')
  <2>1. Len(log') = Len(log) + 1 /\ Len(log) \in Nat
    BY <1>1, <1>2, RecordEffect
  <2>2. acked \in 0 .. Len(log) /\ acked <= cursor
    BY DEF SyncInvariant, SyncTypeOK, DurableBeforeAck
  <2> QED
    BY <1>2, <2>1, <2>2
<1>7. \A q \in Own : requests'[q] # NoRow => tracked[q] # NoRow
  BY <1>3, Constants DEF SyncInvariant, RowsKnown
<1> QED
  BY <1>1, <1>2, <1>3, <1>5, <1>6, <1>7, RecordEffect DEF LedgerGrows

\* The Gateway learns of an event that is stored.
LEMMA AcknowledgeGrows ==
  ASSUME SyncInvariant, NEW n \in Nat, n <= cursor, AcknowledgeEvent(n)
  PROVE  LedgerGrows
<1>1. /\ session' = session /\ requests' = requests /\ log' = log /\ n \in DOMAIN log
      /\ acked' = IF n > acked THEN n ELSE acked
  BY DEF AcknowledgeEvent
<1>2. Len(log) \in Nat /\ DOMAIN log = 1 .. Len(log) /\ Len(log) <= Len(log)
  BY ClientFacts, LogFacts
<1>3. acked' \in 0 .. Len(log') /\ acked' <= cursor
  BY <1>1, <1>2 DEF SyncInvariant, SyncTypeOK, DurableBeforeAck
<1> QED
  BY <1>1, <1>2, <1>3 DEF LedgerGrows, SyncInvariant, SyncTypeOK, RowsKnown

\* What the router makes of the frame that is taken, whatever it is.
LEMMA RouteEffect ==
  ASSUME SyncInvariant, frames # <<>>, NEW c, c = Route(Client, Head(frames))
  PROVE  /\ Keeps(c)
         /\ ~c.broken => Settled(c) /\ (connected /\ handling => Exchanged(Head(frames), c))
<1> DEFINE f == Head(frames)
<1>1. f \in Frame /\ f \in Range(frames)
  BY FrameTaken DEF SyncInvariant
<1>2. CASE f.kind = "event"
  <2>1. c = AcceptEvent(Client, f.sequence)
    BY <1>2 DEF Route
  <2> QED
    BY <1>1, <1>2, <2>1, EventEffect
<1>3. CASE f.kind = "status"
  <2>1. c = AcceptStatus(Client, f)
    BY <1>3 DEF Route
  <2> QED
    BY <1>3, <2>1, StatusEffect
<1>4. CASE f.kind = "completed"
  <2>1. c = AcceptCompletion(Client, f)
    BY <1>4 DEF Route
  <2> QED
    BY <1>4, <2>1, CompletionEffect
<1> QED
  BY <1>1, <1>2, <1>3, <1>4, FrameFacts
----------------------------------------------------------------------------
\* What a frame under way must be.
FrameFits(f) ==
  /\ f.kind = "event" => f.sequence \in DOMAIN log
  /\ f.kind = "completed" => f.more \/ f.through >= floor

\* The queues of a stream after a step of the Gateway's side.
QueuesFit ==
  /\ {connected', lagged', failing', handling'} \subseteq BOOLEAN
  /\ hub' \in Seq(DOMAIN log') /\ Len(hub') <= MaxHub
  /\ commands' \in Seq(Command) /\ Range(commands') \subseteq Range(commands) /\ late' \subseteq late
  /\ answer' \in Seq(Frame) /\ frames' \in Seq(Frame) /\ Len(frames') <= MaxFrames
  /\ \A f \in Range(answer') \cup Range(frames') : FrameFits(f)'

\* As much is under way, between the same ends, as before.
SameUnderWay ==
  /\ connected /\ handling
  /\ UnderWay(OfPages)' = UnderWay(OfPages)
  /\ \A r \in Request \ Own : UnderWay(OfLookup(r))' = UnderWay(OfLookup(r))
  /\ \A m \in Range(answer') \cup Range(frames') : m \in OfPages => m.after = replay.after

\* A step of the Gateway that leaves under way what the router awaits keeps the invariant.
LEMMA GatewayStep ==
  ASSUME SyncInvariant, LedgerGrows, UNCHANGED clientVars, QueuesFit,
         connected' /\ handling' => SameUnderWay
  PROVE  SyncInvariant'
<1>1. /\ cursor' = cursor /\ tracked' = tracked /\ replay' = replay /\ held' = held
      /\ floor' = floor
  BY DEF clientVars, routerVars
<1>2. SyncTypeOK'
  <2>1. SyncTypeOK
    BY DEF SyncInvariant
  <2>2. held \in [Request -> Seq(DOMAIN log')] /\ {cursor, floor} \subseteq 0 .. Len(log')
    BY <2>1, GrownLog DEF SyncTypeOK
  <2>3. late' \subseteq Command
    BY <2>1 DEF SyncTypeOK, QueuesFit
  <2>4. \A f \in Range(answer') \cup Range(frames') : f.kind = "event" => f.sequence \in DOMAIN log'
    BY DEF QueuesFit, FrameFits
  <2> QED
    BY <1>1, <2>1, <2>2, <2>3, <2>4 DEF SyncTypeOK, LedgerGrows, QueuesFit
<1>3. RowsKnown'
  <2>1. \A m \in Range(commands) : m.kind = "getRequest" => m.request \in Request
    <3>1. Range(commands) \subseteq Command
      BY RangeOfSeq DEF SyncInvariant, SyncTypeOK
    <3> QED
      BY <3>1 DEF Command
  <2> QED
    BY <1>1, <2>1 DEF SyncInvariant, RowsKnown, LedgerGrows, QueuesFit
<1>4. RouterInvariant'
  BY RouterRests
<1>5. DurableBeforeAck'
  BY <1>1 DEF SyncInvariant, DurableBeforeAck, LedgerGrows, QueuesFit
<1>6. CompletionsReachFloor'
  BY <1>1 DEF CompletionsReachFloor, QueuesFit, FrameFits
<1>7. ASSUME connected', handling'
      PROVE  /\ UnderWay(OfPages)' = UnderWay(OfPages)
             /\ \A r \in Request \ Own : UnderWay(OfLookup(r))' = UnderWay(OfLookup(r))
             /\ AwaitsPage(Client)' = AwaitsPage(Client)
  <2>1. SameUnderWay
    BY <1>7
  <2>2. AwaitsPage(Client)' = AwaitsPage(Client)
    BY <1>1 DEF AwaitsPage, Client
  <2> QED
    BY <2>1, <2>2 DEF SameUnderWay
<1>8. CompletionsExpected'
  BY <1>1, <1>7 DEF SyncInvariant, CompletionsExpected, SameUnderWay, QueuesFit
<1>9. LookupsUnderWay'
  BY <1>1, <1>7, Constants DEF SyncInvariant, LookupsUnderWay, SameUnderWay
<1> QED
  BY <1>2, <1>3, <1>4, <1>5, <1>6, <1>8, <1>9 DEF SyncInvariant

\* A queue of one message.
LEMMA OneMessage ==
  ASSUME NEW S, NEW m \in S
  PROVE  /\ <<m>> \in Seq(S) /\ Range(<<m>>) = {m}
         /\ \A M : Count(<<m>>, M) = IF m \in M THEN 1 ELSE 0
<1>1. <<m>> = Append(<<>>, m) /\ <<>> \in Seq(S)
  BY EmptyQueue
<1>2. /\ Append(<<>>, m) \in Seq(S) /\ Range(Append(<<>>, m)) = Range(<<>>) \cup {m}
      /\ \A M : Count(Append(<<>>, m), M) = Count(<<>>, M) + (IF m \in M THEN 1 ELSE 0)
  BY <1>1, LongerQueue
<1> QED
  BY <1>1, <1>2, EmptyQueue

\* The queued events and frames fit the ledger after it has grown.
LEMMA OldFramesFit ==
  ASSUME SyncInvariant, LedgerGrows, UNCHANGED clientVars
  PROVE  /\ hub \in Seq(DOMAIN log')
         /\ \A f \in Range(answer) \cup Range(frames) : FrameFits(f)'
<1>1. floor' = floor
  BY DEF clientVars
<1>2. SyncTypeOK
  BY DEF SyncInvariant
<1> QED
  BY <1>1, <1>2, GrownLog DEF SyncInvariant, SyncTypeOK, CompletionsReachFloor, FrameFits

\* A step of the ledger alone.
LEMMA LedgerStep ==
  ASSUME SyncInvariant, LedgerGrows, UNCHANGED clientVars, UNCHANGED streamVars
  PROVE  SyncInvariant'
<1>1. /\ connected' = connected /\ hub' = hub /\ lagged' = lagged
      /\ commands' = commands /\ answer' = answer /\ frames' = frames /\ failing' = failing
      /\ handling' = handling /\ late' = late
  BY DEF streamVars, handlerVars
<1>2. QueuesFit
  BY <1>1, OldFramesFit DEF QueuesFit, SyncInvariant, SyncTypeOK
<1>3. connected' /\ handling' => SameUnderWay
  BY <1>1 DEF SameUnderWay, UnderWay, SyncInvariant, CompletionsExpected
<1> QED
  BY <1>2, <1>3, GatewayStep

\* A page is events of the log, then one completion that reaches the log's end or says
\* that there is more.
LEMMA PageEffect ==
  ASSUME SyncInvariant, NEW after \in Nat, NEW p, p = ReplayPage(after)
  PROVE  /\ p \in Seq(Frame)
         /\ Count(p, OfPages) = 1 /\ \A r : Count(p, OfLookup(r)) = 0
         /\ \A f \in Range(p) : FrameFits(f) /\ (f \in OfPages => f.after = after)
<1> DEFINE through == IF after + Page < Len(log) THEN after + Page ELSE Len(log)
           d == IF through >= after THEN through - after ELSE 0
           events == [k \in 1 .. d |-> Event(after + k)]
           last == Completed(after, through, through - after = Page)
<1>1. /\ Len(log) \in Nat /\ DOMAIN log = 1 .. Len(log) /\ floor \in 0 .. Len(log)
      /\ Page \in Nat \ {0}
  BY ClientFacts, LogFacts, Constants
<1>2. through \in Nat /\ d \in Nat /\ 1 .. through - after = 1 .. d
  BY <1>1
<1>3. p = events \o <<last>>
  BY <1>2 DEF ReplayPage
<1>4. last \in Frame /\ last.kind = "completed" /\ last.after = after /\ FrameFits(last)
  <2>1. /\ last \in Frame /\ last.kind = "completed" /\ last.after = after
        /\ last.through = through /\ last.more = (through - after = Page)
    BY <1>2 DEF Completed, Frame
  <2>2. CASE after + Page < Len(log)
    <3>1. through - after = Page
      BY <1>1, <2>2
    <3> QED
      BY <2>1, <3>1 DEF FrameFits
  <2>3. CASE ~(after + Page < Len(log))
    <3>1. through >= floor
      BY <1>1, <2>3
    <3> QED
      BY <2>1, <3>1 DEF FrameFits
  <2> QED
    BY <2>1, <2>2, <2>3
<1> HIDE DEF last
<1>5. \A k \in 1 .. d : after + k \in DOMAIN log
  BY <1>1
<1> HIDE DEF through, d
<1>6. \A k \in 1 .. d : /\ Event(after + k) \in Frame /\ Event(after + k).kind = "event"
                        /\ FrameFits(Event(after + k))
  <2> TAKE k \in 1 .. d
  <2>1. after + k \in Nat
    BY <1>2
  <2>2. /\ Event(after + k) \in Frame /\ Event(after + k).kind = "event"
        /\ Event(after + k).sequence = after + k
    BY <2>1 DEF Event, Frame
  <2> QED
    BY <1>5, <2>2 DEF FrameFits
<1>7. events \in [1 .. d -> Frame]
  BY <1>6
<1>8. events \in Seq(Frame)
  BY <1>2, <1>7
<1>9. \A f \in Range(events) : f \in Frame /\ f.kind = "event" /\ FrameFits(f)
  BY <1>6 DEF Range
<1> HIDE DEF events
<1>10. /\ \A f \in Range(events) : f \notin OfPages /\ \A r : f \notin OfLookup(r)
       /\ last \in OfPages /\ \A r : last \notin OfLookup(r)
  BY <1>4, <1>9, FrameFacts
<1>11. Count(events, OfPages) = 0 /\ \A r : Count(events, OfLookup(r)) = 0
  BY <1>8, <1>10, PositionsAreFinite
<1>12. /\ <<last>> \in Seq(Frame) /\ Range(<<last>>) = {last}
       /\ Count(<<last>>, OfPages) = 1 /\ \A r : Count(<<last>>, OfLookup(r)) = 0
  BY <1>4, <1>10, OneMessage
<1> DEFINE end == <<last>>
<1>a. end \in Seq(Frame) /\ p = events \o end
  BY <1>3, <1>12
<1> HIDE DEF end
<1>b. /\ p \in Seq(Frame) /\ Range(p) = Range(events) \cup Range(end)
      /\ \A M : Count(p, M) = Count(events, M) + Count(end, M)
  BY <1>8, <1>a, JoinedQueues
<1>13. /\ p \in Seq(Frame) /\ Range(p) = Range(events) \cup {last}
       /\ \A M : Count(p, M) = Count(events, M) + Count(<<last>>, M)
  BY <1>12, <1>b DEF end
<1> QED
  BY <1>4, <1>9, <1>10, <1>11, <1>12, <1>13

\* The queues when an event is appended, or nothing is: what is counted is as before.
LEMMA PublishKeeps ==
  ASSUME SyncInvariant, NEW n, Publishes(n)
  PROVE  SyncInvariant'
<1>1. /\ UNCHANGED ledgerVars /\ UNCHANGED clientVars /\ UNCHANGED handlerVars
      /\ connected' = connected /\ connected /\ n \in DOMAIN log /\ log' = log
      /\ \/ Len(hub) >= MaxHub /\ lagged' = TRUE /\ hub' = hub
         \/ Len(hub) < MaxHub /\ lagged' = lagged /\ hub' = Append(hub, n)
  <2>1. Len(hub) \in Nat /\ MaxHub \in Nat
    BY LenProperties, Constants DEF SyncInvariant, SyncTypeOK
  <2> QED
    BY <2>1 DEF Publishes, PublishLive, ledgerVars
<1>2. /\ commands' = commands /\ answer' = answer /\ frames' = frames /\ failing' = failing
      /\ handling' = handling /\ late' = late
  BY <1>1 DEF handlerVars
<1>3. LedgerGrows
  BY <1>1, SameLedger
<1>4. hub' \in Seq(DOMAIN log') /\ Len(hub') <= MaxHub /\ lagged' \in BOOLEAN
  <2>1. hub \in Seq(DOMAIN log) /\ Len(hub) \in Nat /\ Len(hub) <= MaxHub /\ lagged \in BOOLEAN
        /\ MaxHub \in Nat
    BY LenProperties, Constants DEF SyncInvariant, SyncTypeOK
  <2>2. Append(hub, n) \in Seq(DOMAIN log) /\ Len(Append(hub, n)) = Len(hub) + 1
    BY <1>1, <2>1, LongerQueue
  <2>3. CASE hub' = hub /\ lagged' = TRUE
    BY <1>1, <2>1, <2>3
  <2>4. CASE Len(hub) < MaxHub /\ lagged' = lagged /\ hub' = Append(hub, n)
    BY <1>1, <2>1, <2>2, <2>4
  <2> QED
    BY <1>1, <2>3, <2>4
<1>5. QueuesFit
  BY <1>1, <1>2, <1>3, <1>4, OldFramesFit DEF QueuesFit, SyncInvariant, SyncTypeOK
<1>6. connected' /\ handling' => SameUnderWay
  BY <1>1, <1>2 DEF SameUnderWay, UnderWay, SyncInvariant, CompletionsExpected
<1> QED
  BY <1>1, <1>3, <1>5, <1>6, GatewayStep

\* The types of the queues, and that their messages can be counted.
LEMMA QueueFacts ==
  ASSUME SyncInvariant
  PROVE  /\ commands \in Seq(Command) /\ answer \in Seq(Frame) /\ frames \in Seq(Frame)
         /\ Len(frames) \in Nat /\ Len(frames) <= MaxFrames /\ MaxFrames \in Nat
         /\ Range(commands) \subseteq Command
         /\ \A M : /\ Count(commands, M) \in Nat /\ Count(answer, M) \in Nat
                   /\ Count(frames, M) \in Nat
<1>1. /\ commands \in Seq(Command) /\ answer \in Seq(Frame) /\ frames \in Seq(Frame)
      /\ Len(frames) <= MaxFrames
  BY DEF SyncInvariant, SyncTypeOK
<1> QED
  BY <1>1, LenProperties, RangeOfSeq, PositionsAreFinite, Constants

\* A request of another device is accepted.
LEMMA OtherSendsKeeps ==
  ASSUME SyncInvariant, NEW r \in Request \ Own, OtherSends(r)
  PROVE  SyncInvariant'
<1>1. AcceptRequest(r, session) /\ UNCHANGED clientVars /\ UNCHANGED streamVars
  BY DEF OtherSends
<1>2. LedgerGrows
  BY <1>1, AcceptRequestGrows
<1> QED
  BY <1>1, <1>2, LedgerStep

\* The Node reports an event.
LEMMA NodeReportKeeps ==
  ASSUME SyncInvariant, NEW r \in Request, NEW s \in Session \cup {NoSession}, NodeReports(r, s)
  PROVE  SyncInvariant'
<1>1. IngestNodeEvent(r, s) /\ UNCHANGED clientVars /\ UNCHANGED streamVars
  BY DEF NodeReports
<1>2. LedgerGrows
  BY <1>1, IngestGrows DEF Sessions
<1> QED
  BY <1>1, <1>2, LedgerStep

\* A response moves from the answer to the queue, or the queue fails.
LEMMA PushAnswerKeeps ==
  ASSUME SyncInvariant, HandlerPushes
  PROVE  SyncInvariant'
<1>1. /\ UNCHANGED ledgerVars /\ UNCHANGED clientVars /\ connected' = connected /\ connected
      /\ log' = log /\ hub' = hub /\ lagged' = lagged /\ commands' = commands /\ late' = late
      /\ answer # <<>>
  BY DEF HandlerPushes, PushAnswer, ledgerVars
<1>2. LedgerGrows
  BY <1>1, SameLedger
<1>3. /\ Tail(answer) \in Seq(Frame) /\ Head(answer) \in Frame /\ Head(answer) \in Range(answer)
      /\ Range(Tail(answer)) \subseteq Range(answer)
      /\ \A M : Count(Tail(answer), M) = Count(answer, M) - (IF Head(answer) \in M THEN 1 ELSE 0)
  BY <1>1, QueueFacts, ShorterQueue
<1>4. CASE handling' = FALSE /\ failing' = TRUE /\ answer' = <<>> /\ frames' = frames
  <2>1. QueuesFit
    BY <1>1, <1>2, <1>4, OldFramesFit, EmptyQueue DEF QueuesFit, SyncInvariant, SyncTypeOK
  <2> QED
    BY <1>1, <1>2, <1>4, <2>1, GatewayStep
<1>5. CASE /\ frames' = Append(frames, Head(answer)) /\ answer' = Tail(answer)
           /\ failing' = failing /\ handling' = handling /\ Len(frames) < MaxFrames
  <2> DEFINE f == Head(answer)
  <2>a. f \in Frame /\ frames' = Append(frames, f)
    BY <1>3, <1>5
  <2>b. \A M : Count(answer', M) = Count(answer, M) - (IF f \in M THEN 1 ELSE 0)
    BY <1>3, <1>5
  <2>c. f \in Range(answer)
    BY <1>3
  <2> HIDE DEF f
  <2>1. /\ frames' \in Seq(Frame) /\ Len(frames') = Len(frames) + 1
        /\ Range(frames') = Range(frames) \cup {f}
        /\ \A M : Count(frames', M) = Count(frames, M) + (IF f \in M THEN 1 ELSE 0)
    BY <2>a, QueueFacts, LongerQueue
  <2>2. Len(frames') <= MaxFrames
    BY <1>5, <2>1, QueueFacts
  <2>3. \A m \in Range(answer') \cup Range(frames') : m \in Range(answer) \cup Range(frames)
    BY <1>3, <1>5, <2>1, <2>c
  <2>4. QueuesFit
    BY <1>1, <1>2, <1>3, <1>5, <2>1, <2>2, <2>3, OldFramesFit
    DEF QueuesFit, SyncInvariant, SyncTypeOK
  <2>5. ASSUME NEW M PROVE UnderWay(M)' = UnderWay(M)
    <3>1. /\ Count(frames', M) = Count(frames, M) + (IF f \in M THEN 1 ELSE 0)
          /\ Count(answer', M) = Count(answer, M) - (IF f \in M THEN 1 ELSE 0)
          /\ Count(frames, M) \in Nat /\ Count(answer, M) \in Nat /\ Count(commands, M) \in Nat
      BY <2>1, <2>b, QueueFacts
    <3> QED
      BY <1>1, <3>1 DEF UnderWay
  <2>6. connected' /\ handling' => SameUnderWay
    BY <1>1, <1>5, <2>3, <2>5 DEF SameUnderWay, SyncInvariant, CompletionsExpected
  <2> QED
    BY <1>1, <1>2, <2>4, <2>6, GatewayStep
<1>6. Len(frames) >= MaxFrames \/ Len(frames) < MaxFrames
  BY QueueFacts
<1> QED
  BY <1>4, <1>5, <1>6 DEF HandlerPushes, PushAnswer

\* A live event moves from the hub to the queue, or the queue fails.
LEMMA PushLiveKeeps ==
  ASSUME SyncInvariant, LiveTaskPushes
  PROVE  SyncInvariant'
<1>1. /\ UNCHANGED ledgerVars /\ UNCHANGED clientVars /\ connected' = connected /\ connected
      /\ log' = log /\ lagged' = lagged /\ commands' = commands /\ late' = late
      /\ answer' = answer /\ handling' = handling
  BY DEF LiveTaskPushes, PushLive, ledgerVars
<1>2. LedgerGrows
  BY <1>1, SameLedger
<1>3. hub \in Seq(DOMAIN log) /\ Len(hub) \in Nat /\ Len(hub) <= MaxHub /\ MaxHub \in Nat
  BY LenProperties, Constants DEF SyncInvariant, SyncTypeOK
<1>4. failing' \in BOOLEAN /\ hub' \in Seq(DOMAIN log') /\ Len(hub') <= MaxHub
  <2>1. CASE hub # <<>> /\ hub' = Tail(hub)
    <3>1. Tail(hub) \in Seq(DOMAIN log) /\ Len(Tail(hub)) = Len(hub) - 1
      BY <1>3, <2>1, ShorterQueue
    <3>2. failing' \in BOOLEAN
      BY DEF LiveTaskPushes, PushLive, SyncInvariant, SyncTypeOK
    <3> QED
      BY <1>1, <1>3, <2>1, <3>1, <3>2
  <2>2. CASE hub' = hub /\ failing' = TRUE
    BY <1>1, <1>3, <2>2
  <2> QED
    BY <2>1, <2>2 DEF LiveTaskPushes, PushLive
<1>5. CASE frames' = frames
  <2>1. QueuesFit
    BY <1>1, <1>2, <1>4, <1>5, OldFramesFit DEF QueuesFit, SyncInvariant, SyncTypeOK
  <2>2. connected' /\ handling' => SameUnderWay
    BY <1>1, <1>5 DEF SameUnderWay, UnderWay, SyncInvariant, CompletionsExpected
  <2> QED
    BY <1>1, <1>2, <2>1, <2>2, GatewayStep
<1>6. CASE hub # <<>> /\ Len(frames) < MaxFrames /\ frames' = Append(frames, Event(Head(hub)))
  <2> DEFINE n == Head(hub)
             f == Event(n)
  <2>1. n \in DOMAIN log /\ n \in Nat
    BY <1>3, <1>6, ShorterQueue, ClientFacts, LogFacts
  <2>2. f \in Frame /\ f.kind = "event" /\ f.sequence = n
    BY <2>1 DEF Event, Frame
  <2> HIDE DEF f, n
  <2>3. f \notin OfPages /\ \A r : f \notin OfLookup(r)
    BY <2>2, FrameFacts
  <2>4. frames' = Append(frames, f)
    BY <1>6 DEF f, n
  <2>5. /\ frames' \in Seq(Frame) /\ Len(frames') = Len(frames) + 1
        /\ Range(frames') = Range(frames) \cup {f}
        /\ \A M : Count(frames', M) = Count(frames, M) + (IF f \in M THEN 1 ELSE 0)
    BY <2>2, <2>4, QueueFacts, LongerQueue
  <2>6. Len(frames') <= MaxFrames
    BY <1>6, <2>5, QueueFacts
  <2>7. \A g \in Frame : g = f => FrameFits(g)'
    BY <1>1, <2>1, <2>2 DEF FrameFits
  <2>d. \A g \in Range(answer') \cup Range(frames') : FrameFits(g)'
    <3>1. \A g \in Range(answer') \cup Range(frames') : g \in Range(answer) \cup Range(frames) \/ g = f
      BY <1>1, <2>5
    <3> QED
      BY <1>1, <1>2, <2>2, <2>7, <3>1, OldFramesFit
  <2>8. QueuesFit
    BY <1>1, <1>4, <2>5, <2>6, <2>d, QueueFacts DEF QueuesFit, SyncInvariant, SyncTypeOK
  <2>9. ASSUME NEW M, f \notin M PROVE UnderWay(M)' = UnderWay(M)
    <3>1. Count(frames', M) = Count(frames, M)
      BY <2>5, <2>9, QueueFacts
    <3> QED
      BY <1>1, <3>1 DEF UnderWay
  <2>10. connected' /\ handling' => SameUnderWay
    BY <1>1, <2>3, <2>5, <2>9 DEF SameUnderWay, SyncInvariant, CompletionsExpected
  <2> QED
    BY <1>1, <1>2, <2>8, <2>10, GatewayStep
<1> QED
  BY <1>5, <1>6 DEF LiveTaskPushes, PushLive

\* The request task of an ended stream takes one more command.
LEMMA TakeLateKeeps ==
  ASSUME SyncInvariant, HandlerOutlives
  PROVE  SyncInvariant'
<1>1. PICK command \in late :
        /\ late' = late \ {command}
        /\ \/ command.kind = "send" /\ AcceptRequest(command.request, command.session)
           \/ command.kind = "ack" /\ AcknowledgeEvent(command.sequence)
           \/ UNCHANGED ledgerVars
  BY DEF HandlerOutlives, TakeLate
<1>2. /\ UNCHANGED clientVars /\ connected' = connected /\ hub' = hub /\ lagged' = lagged
      /\ commands' = commands /\ answer' = answer /\ frames' = frames /\ failing' = failing
      /\ handling' = handling
  BY DEF HandlerOutlives, TakeLate
<1>3. command \in Command
  BY DEF SyncInvariant, SyncTypeOK
<1>4. LedgerGrows
  <2>1. CASE command.kind = "send" /\ AcceptRequest(command.request, command.session)
    <3>1. command.request \in Request /\ tracked[command.request] # NoRow
      BY <1>3, <2>1, Constants DEF Command, SyncInvariant, RowsKnown
    <3> QED
      BY <2>1, <3>1, AcceptRequestGrows
  <2>2. CASE command.kind = "ack" /\ AcknowledgeEvent(command.sequence)
    <3>1. command.sequence \in Nat /\ command.sequence <= cursor
      BY <1>3, <2>2 DEF Command, SyncInvariant, DurableBeforeAck
    <3> QED
      BY <2>2, <3>1, AcknowledgeGrows
  <2> QED
    BY <1>1, <2>1, <2>2, SameLedger
<1>5. QueuesFit
  BY <1>1, <1>2, <1>4, OldFramesFit DEF QueuesFit, SyncInvariant, SyncTypeOK
<1>6. connected' /\ handling' => SameUnderWay
  BY <1>2 DEF SameUnderWay, UnderWay, SyncInvariant, CompletionsExpected
<1> QED
  BY <1>2, <1>4, <1>5, <1>6, GatewayStep

\* What the handler answers to the command it took.
Answers(h) ==
  /\ answer' \in Seq(Frame)
  /\ \A f \in Range(answer') :
       /\ FrameFits(f)'
       /\ f \in OfPages => h \in OfPages /\ f.after = h.after
  /\ Count(answer', OfPages) = (IF h \in OfPages THEN 1 ELSE 0)
  /\ \A r \in Request \ Own : Count(answer', OfLookup(r)) = (IF h \in OfLookup(r) THEN 1 ELSE 0)

\* What a command is, by its kind, and what it is counted as.
LEMMA CommandKinds ==
  ASSUME NEW h \in Command
  PROVE  /\ h.kind \in {"send", "getRequest", "replay", "ack"}
         /\ h.kind = "send" => /\ h.request \in Own /\ h.session \in Sessions
                               /\ h \notin OfPages /\ \A r : h \notin OfLookup(r)
         /\ h.kind = "getRequest" => /\ h.request \in Request /\ h \notin OfPages
                                     /\ \A r : h \in OfLookup(r) <=> h.request = r
         /\ h.kind = "replay" => /\ h.after \in Nat /\ h \in OfPages /\ \A r : h \notin OfLookup(r)
         /\ h.kind = "ack" => /\ h.sequence \in Nat
                              /\ h \notin OfPages /\ \A r : h \notin OfLookup(r)
<1>1. /\ h.kind \in {"send", "getRequest", "replay", "ack"}
      /\ h.kind = "send" => h.request \in Own /\ h.session \in Sessions
      /\ h.kind = "getRequest" => h.request \in Request
      /\ h.kind = "replay" => h.after \in Nat
      /\ h.kind = "ack" => h.sequence \in Nat
  BY DEF Command
<1> QED
  BY <1>1 DEF OfPages, OfLookup

\* One status answers a command.
LEMMA StatusAnswers ==
  ASSUME NEW h \in Command, h.kind \in {"send", "getRequest"}, NEW f \in Frame, f.kind = "status",
         f.request = h.request, answer' = <<f>>
  PROVE  Answers(h)
<1>1. /\ f \notin OfPages /\ \A r : f \in OfLookup(r) <=> h.request = r
      /\ h \notin OfPages
      /\ \A r \in Request \ Own : h \in OfLookup(r) <=> h.request = r
  BY FrameFacts, CommandKinds
<1>2. /\ answer' \in Seq(Frame) /\ Range(answer') = {f}
      /\ \A M : Count(answer', M) = IF f \in M THEN 1 ELSE 0
  BY OneMessage
<1>3. FrameFits(f)'
  BY DEF FrameFits
<1> QED
  BY <1>1, <1>2, <1>3 DEF Answers

\* An accepted command is answered by what it is counted as.
LEMMA AcceptsEffect ==
  ASSUME SyncInvariant, NEW h \in Range(commands), Accepts(h), UNCHANGED clientVars
  PROVE  LedgerGrows /\ Answers(h)
<1>1. h \in Command
  BY QueueFacts
<1>2. requests \in [Request -> Sessions \cup {NoRow}]
  BY DEF SyncInvariant, SyncTypeOK
<1>3. CASE h.kind = "send"
  <2>1. /\ AcceptRequest(h.request, h.session)
        /\ answer' = <<[Status(h.request) EXCEPT !.session = h.session]>>
    BY <1>3 DEF Accepts
  <2>2. h.request \in Own /\ h.request \in Request /\ h.session \in Sessions
    BY <1>1, <1>3, CommandKinds, Constants
  <2>3. tracked[h.request] # NoRow
    BY <1>3 DEF SyncInvariant, RowsKnown
  <2>4. LedgerGrows
    BY <2>1, <2>2, <2>3, AcceptRequestGrows
  <2> DEFINE f == [Status(h.request) EXCEPT !.session = h.session]
  <2>5. f \in Frame /\ f.kind = "status" /\ f.request = h.request
    BY <2>2 DEF Status, Frame
  <2> QED
    BY <1>1, <1>3, <2>1, <2>4, <2>5, StatusAnswers
<1>4. CASE h.kind = "getRequest"
  <2>1. answer' = <<Status(h.request)>> /\ UNCHANGED ledgerVars
    BY <1>4 DEF Accepts
  <2>2. h.request \in Request /\ requests[h.request] # NoRow
    BY <1>1, <1>4, CommandKinds DEF SyncInvariant, RowsKnown
  <2>3. requests[h.request] \in Sessions
    BY <1>2, <2>2
  <2>4. /\ Status(h.request) \in Frame /\ Status(h.request).kind = "status"
        /\ Status(h.request).request = h.request
    BY <2>2, <2>3 DEF Status, Frame
  <2>5. Answers(h)
    BY <1>1, <1>4, <2>1, <2>4, StatusAnswers
  <2> QED
    BY <2>1, <2>5, SameLedger
<1>5. CASE h.kind = "replay"
  <2>1. answer' = ReplayPage(h.after) /\ UNCHANGED ledgerVars
    BY <1>5 DEF Accepts
  <2>2. h.after \in Nat /\ h \in OfPages /\ \A r : h \notin OfLookup(r)
    BY <1>1, <1>5, CommandKinds
  <2>3. /\ answer' \in Seq(Frame)
        /\ Count(answer', OfPages) = 1 /\ \A r : Count(answer', OfLookup(r)) = 0
        /\ \A f \in Range(answer') : FrameFits(f) /\ (f \in OfPages => f.after = h.after)
    BY <2>1, <2>2, PageEffect
  <2>4. \A f : FrameFits(f)' <=> FrameFits(f)
    BY <2>1 DEF FrameFits, ledgerVars, clientVars
  <2>5. Answers(h)
    BY <2>2, <2>3, <2>4 DEF Answers
  <2> QED
    BY <2>1, <2>5, SameLedger
<1>6. CASE h.kind = "ack"
  <2>1. answer' = <<>> /\ AcknowledgeEvent(h.sequence)
    BY <1>6 DEF Accepts
  <2>2. /\ h.sequence \in Nat /\ h \notin OfPages /\ \A r : h \notin OfLookup(r)
        /\ h.sequence <= cursor
    BY <1>1, <1>6, CommandKinds DEF SyncInvariant, DurableBeforeAck
  <2>3. LedgerGrows
    BY <2>1, <2>2, AcknowledgeGrows
  <2>4. Answers(h)
    BY <2>1, <2>2, EmptyQueue DEF Answers
  <2> QED
    BY <2>3, <2>4
<1> QED
  BY <1>1, <1>3, <1>4, <1>5, <1>6, CommandKinds

\* The handler takes a command.
LEMMA TakeCommandKeeps ==
  ASSUME SyncInvariant, HandlerTakes
  PROVE  SyncInvariant'
<1> DEFINE h == Head(commands)
<1>1. /\ UNCHANGED clientVars /\ connected' = connected /\ connected /\ handling /\ answer = <<>>
      /\ commands # <<>> /\ commands' = Tail(commands) /\ hub' = hub /\ lagged' = lagged
      /\ frames' = frames /\ late' = late /\ (Accepts(h) \/ Refuses(h))
  BY DEF HandlerTakes, TakeCommand
<1>2. /\ commands' \in Seq(Command) /\ h \in Range(commands)
      /\ Range(commands') \subseteq Range(commands)
      /\ \A M : Count(commands', M) = Count(commands, M) - (IF h \in M THEN 1 ELSE 0)
  BY <1>1, QueueFacts, ShorterQueue
<1> HIDE DEF h
<1>3. CASE Accepts(h)
  <2>1. LedgerGrows /\ Answers(h) /\ failing' = failing /\ handling' = handling
    BY <1>1, <1>2, <1>3, AcceptsEffect DEF Accepts
  <2>2. \A f \in Range(answer') \cup Range(frames') : FrameFits(f)'
    BY <1>1, <2>1, OldFramesFit DEF Answers
  <2>3. QueuesFit
    BY <1>1, <1>2, <2>1, <2>2, OldFramesFit, QueueFacts
    DEF QueuesFit, Answers, SyncInvariant, SyncTypeOK
  <2>4. ASSUME NEW M, Count(answer', M) = (IF h \in M THEN 1 ELSE 0)
        PROVE  UnderWay(M)' = UnderWay(M)
    <3>1. Count(answer, M) = 0 /\ Count(commands, M) \in Nat /\ Count(frames, M) \in Nat
      BY <1>1, QueueFacts, EmptyQueue
    <3>2. Count(commands', M) = Count(commands, M) - (IF h \in M THEN 1 ELSE 0)
      BY <1>2
    <3> QED
      BY <1>1, <2>4, <3>1, <3>2 DEF UnderWay
  <2>5. \A m \in Range(answer') \cup Range(frames') : m \in OfPages => m.after = replay.after
    <3>1. \A m \in Range(commands) \cup Range(frames) : m \in OfPages => m.after = replay.after
      BY <1>1 DEF SyncInvariant, CompletionsExpected
    <3> QED
      BY <1>1, <1>2, <2>1, <3>1 DEF Answers
  <2>6. SameUnderWay
    BY <1>1, <2>1, <2>4, <2>5 DEF SameUnderWay, Answers
  <2> QED
    BY <1>1, <2>1, <2>3, <2>6, GatewayStep
<1>4. CASE Refuses(h)
  <2>1. UNCHANGED ledgerVars /\ failing' = TRUE /\ handling' = FALSE /\ answer' = answer
    BY <1>4 DEF Refuses
  <2>2. LedgerGrows
    BY <2>1, SameLedger
  <2>3. \A f \in Range(answer') \cup Range(frames') : FrameFits(f)'
    BY <1>1, <2>1, <2>2, OldFramesFit
  <2>4. QueuesFit
    BY <1>1, <1>2, <2>1, <2>2, <2>3, OldFramesFit, QueueFacts
    DEF QueuesFit, SyncInvariant, SyncTypeOK
  <2> QED
    BY <1>1, <2>1, <2>2, <2>4, GatewayStep
<1> QED
  BY <1>1, <1>3, <1>4
----------------------------------------------------------------------------
\* What an ended stream leaves to be taken was under way on it.
LEMMA EffectsAreCommands ==
  ASSUME SyncInvariant, CloseStream
  PROVE  /\ late' \subseteq Command
         /\ \A m \in late' : m \in late \cup Range(commands)
<1>1. EffectsIn(commands) \subseteq Range(commands)
  BY DEF EffectsIn
<1>2. late' \subseteq late \cup Range(commands)
  BY <1>1 DEF CloseStream
<1> QED
  BY <1>2, QueueFacts DEF SyncInvariant, SyncTypeOK

\* The stream ends, with the cursor and the routes of the last frame.
LEMMA ClosedKeeps ==
  ASSUME SyncInvariant, CloseStream, ForgetRouter, UNCHANGED ledgerVars,
         cursor' \in cursor .. Len(log), tracked' \in [Request -> Sessions \cup {NoRow}],
         \A r \in Request : tracked[r] # NoRow => tracked'[r] = tracked[r]
  PROVE  SyncInvariant'
<1>1. /\ connected' = FALSE /\ commands' = <<>> /\ hub' = <<>> /\ lagged' = FALSE
      /\ answer' = <<>> /\ frames' = <<>> /\ failing' = FALSE /\ handling' = FALSE
      /\ replay' = None /\ held' = NothingHeld /\ floor' = 0
      /\ session' = session /\ requests' = requests /\ log' = log /\ acked' = acked
  BY DEF CloseStream, ForgetRouter, ledgerVars
<1>2. Len(<<>>) = 0 /\ MaxFrames \in Nat /\ MaxHub \in Nat
  BY Constants
<1>3. /\ Len(log) \in Nat /\ cursor \in Nat /\ cursor' \in Nat /\ cursor' >= cursor
      /\ cursor' \in 0 .. Len(log)
  BY ClientFacts DEF SyncInvariant, SyncTypeOK
<1>4. NothingHeld \in [Request -> Seq(DOMAIN log)] /\ \A r \in Request : NothingHeld[r] = <<>>
  BY EmptyQueue DEF NothingHeld
<1>5. SyncTypeOK'
  <2>1. /\ <<>> \in Seq(Command) /\ <<>> \in Seq(Frame) /\ <<>> \in Seq(DOMAIN log)
        /\ Range(<<>>) = {}
    BY EmptyQueue
  <2>2. SyncTypeOK /\ late' \subseteq Command
    BY EffectsAreCommands DEF SyncInvariant
  <2>3. {cursor', floor', acked'} \subseteq 0 .. Len(log')
    BY <1>1, <1>3, <2>2 DEF SyncTypeOK
  <2>4. /\ hub' \in Seq(DOMAIN log') /\ Len(hub') <= MaxHub /\ Len(frames') <= MaxFrames
        /\ commands' \in Seq(Command) /\ answer' \in Seq(Frame) /\ frames' \in Seq(Frame)
        /\ held' \in [Request -> Seq(DOMAIN log')]
    BY <1>1, <1>2, <1>4, <2>1
  <2>5. \A f \in Range(answer') \cup Range(frames') : FALSE
    BY <1>1, <2>1
  <2>6. {connected', lagged', failing', handling'} \subseteq BOOLEAN
    BY <1>1
  <2> QED
    BY <1>1, <2>2, <2>3, <2>4, <2>5, <2>6 DEF SyncTypeOK
<1>6. \A m \in Command : m.kind = "send" => m.request \in Request
  BY CommandKinds, Constants
<1>7. RowsKnown'
  <2>1. \A m \in late' : m.kind = "send" => tracked'[m.request] # NoRow
    BY <1>6, EffectsAreCommands DEF SyncInvariant, RowsKnown
  <2>2. \A r \in Own : requests[r] # NoRow => tracked'[r] # NoRow
    BY Constants DEF SyncInvariant, RowsKnown
  <2> QED
    BY <1>1, <2>1, <2>2, EmptyQueue DEF SyncInvariant, RowsKnown
<1>8. RouterInvariant'
  <2>1. /\ Client'.cursor = cursor' /\ Client'.tracked = tracked' /\ Client'.replay = None
        /\ Client'.held = NothingHeld
    BY <1>1 DEF Client
  <2>2. HeldAwaitRoute(Client)'
    BY <1>4, <2>1, EmptyQueue DEF HeldAwaitRoute
  <2>3. ReachesFloor(Client)'
    BY <1>1, <1>3, <2>1 DEF ReachesFloor
  <2>4. PageHasHeld(Client)' /\ PageReachesFloor(Client)'
    BY <2>1 DEF PageHasHeld, PageReachesFloor
  <2> QED
    BY <2>2, <2>3, <2>4 DEF RouterInvariant
<1>9. DurableBeforeAck'
  <2>1. \A m \in late' : m.kind = "ack" => m.sequence \in Nat /\ m.sequence <= cursor
    BY EffectsAreCommands, CommandKinds DEF SyncInvariant, DurableBeforeAck
  <2>2. acked \in Nat /\ acked <= cursor
    BY <1>3 DEF SyncInvariant, SyncTypeOK, DurableBeforeAck
  <2> QED
    BY <1>1, <1>3, <2>1, <2>2, EmptyQueue DEF DurableBeforeAck
<1>10. CompletionsExpected' /\ LookupsUnderWay' /\ CompletionsReachFloor'
  BY <1>1, EmptyQueue DEF CompletionsExpected, LookupsUnderWay, CompletionsReachFloor
<1> QED
  BY <1>5, <1>7, <1>8, <1>9, <1>10 DEF SyncInvariant

\* The stream ends between two frames.
LEMMA DisconnectKeeps ==
  ASSUME SyncInvariant, Disconnect
  PROVE  SyncInvariant'
<1>1. /\ CloseStream /\ ForgetRouter /\ UNCHANGED ledgerVars /\ cursor' = cursor
      /\ tracked' = tracked
  BY DEF Disconnect
<1>2. cursor \in cursor .. Len(log) /\ tracked \in [Request -> Sessions \cup {NoRow}]
  BY ClientFacts DEF SyncInvariant, SyncTypeOK
<1> QED
  BY <1>1, <1>2, ClosedKeeps

\* What the router asks for when a stream is open.
LEMMA StartEffect ==
  ASSUME SyncInvariant, NEW c, c = RequestReplayOnce([Client EXCEPT !.replay = None], cursor)
  PROVE  c.sent = <<Replay(cursor)>> /\ c.replay = NewReplay(cursor)
<1> DEFINE b == [Client EXCEPT !.replay = None]
<1>1. b.replay = None /\ b.sent = <<>>
  BY DEF Client
<1>2. c = AskReplay(b, cursor)
  BY <1>1 DEF RequestReplayOnce
<1>3. Append(b.sent, Replay(cursor)) = <<Replay(cursor)>>
  <2> DEFINE m == Replay(cursor)
  <2> HIDE DEF m
  <2>1. Append(<<>>, m) = <<m>>
    BY EmptyQueue
  <2> QED
    BY <1>1, <2>1 DEF m
<1> QED
  BY <1>2, <1>3 DEF AskReplay, Send, Client

\* A stream is opened, with the replay that the router asks for first.
LEMMA ConnectKeeps ==
  ASSUME SyncInvariant, Connect
  PROVE  SyncInvariant'
<1> DEFINE c == RequestReplayOnce([Client EXCEPT !.replay = None], cursor)
           known == \E r \in Request : tracked[r] # NoRow
<1>1. /\ connected' = TRUE /\ hub' = <<>> /\ lagged' = FALSE /\ answer' = <<>> /\ frames' = <<>>
      /\ failing' = FALSE /\ handling' = TRUE /\ late' = late /\ held' = NothingHeld
      /\ session' = session /\ requests' = requests /\ log' = log /\ acked' = acked
      /\ cursor' = cursor /\ tracked' = tracked
      /\ commands' = IF known THEN c.sent ELSE <<>>
      /\ replay' = IF known THEN c.replay ELSE None
      /\ floor' = IF known THEN Len(log) ELSE 0
  BY DEF Connect, OpenStream, ledgerVars
<1>2. \/ commands' = <<Replay(cursor)>> /\ replay' = NewReplay(cursor) /\ floor' = Len(log)
      \/ commands' = <<>> /\ replay' = None /\ floor' = 0
  BY <1>1, StartEffect
<1> HIDE DEF c, known
<1>3. /\ Len(log) \in Nat /\ cursor \in 0 .. Len(log) /\ cursor \in Nat
      /\ Len(<<>>) = 0 /\ MaxFrames \in Nat /\ MaxHub \in Nat
  BY ClientFacts, Constants DEF SyncInvariant, SyncTypeOK
<1>4. NothingHeld \in [Request -> Seq(DOMAIN log)] /\ \A r \in Request : NothingHeld[r] = <<>>
  BY EmptyQueue DEF NothingHeld
<1>5. /\ NewReplay(cursor) \in PendingReplay /\ NewReplay(cursor).page = None
      /\ NewReplay(cursor).after = cursor /\ NewReplay(cursor) # None
  <2>1. /\ NewReplay(cursor) \in PendingReplay /\ NewReplay(cursor).page = None
        /\ NewReplay(cursor).after = cursor
    BY <1>3 DEF NewReplay, PendingReplay
  <2> QED
    BY <2>1, Constants
<1>6. /\ Replay(cursor) \in Command /\ Replay(cursor).kind = "replay" /\ Replay(cursor).after = cursor
      /\ Replay(cursor) \in OfPages /\ \A r : Replay(cursor) \notin OfLookup(r)
  BY <1>3, CommandFacts
<1>7. /\ <<Replay(cursor)>> \in Seq(Command) /\ Range(<<Replay(cursor)>>) = {Replay(cursor)}
      /\ Count(<<Replay(cursor)>>, OfPages) = 1
      /\ \A r : Count(<<Replay(cursor)>>, OfLookup(r)) = 0
  BY <1>6, OneMessage
<1>8. /\ commands' \in Seq(Command) /\ replay' \in {None} \cup PendingReplay
      /\ floor' \in 0 .. Len(log)
      /\ \A m \in Range(commands') : m.kind = "replay"
  <2>1. CASE commands' = <<Replay(cursor)>> /\ replay' = NewReplay(cursor) /\ floor' = Len(log)
    BY <1>3, <1>5, <1>6, <1>7, <2>1
  <2>2. CASE commands' = <<>> /\ replay' = None /\ floor' = 0
    <3>1. <<>> \in Seq(Command) /\ Range(<<>>) = {}
      BY EmptyQueue
    <3> QED
      BY <1>3, <2>2, <3>1
  <2> QED
    BY <1>2, <2>1, <2>2
<1>9. SyncTypeOK'
  <2>1. <<>> \in Seq(Frame) /\ <<>> \in Seq(DOMAIN log) /\ Range(<<>>) = {}
    BY EmptyQueue
  <2>2. SyncTypeOK
    BY DEF SyncInvariant
  <2>3. {cursor', floor', acked'} \subseteq 0 .. Len(log')
    BY <1>1, <1>3, <1>8, <2>2 DEF SyncTypeOK
  <2>4. /\ hub' \in Seq(DOMAIN log') /\ Len(hub') <= MaxHub /\ Len(frames') <= MaxFrames
        /\ commands' \in Seq(Command) /\ answer' \in Seq(Frame) /\ frames' \in Seq(Frame)
        /\ held' \in [Request -> Seq(DOMAIN log')]
    BY <1>1, <1>3, <1>4, <1>8, <2>1
  <2>5. \A f \in Range(answer') \cup Range(frames') : FALSE
    BY <1>1, <2>1
  <2>6. {connected', lagged', failing', handling'} \subseteq BOOLEAN
    BY <1>1
  <2> QED
    BY <1>1, <1>8, <2>2, <2>3, <2>4, <2>5, <2>6 DEF SyncTypeOK
<1>10. RowsKnown' /\ DurableBeforeAck'
  BY <1>1, <1>8 DEF SyncInvariant, RowsKnown, DurableBeforeAck
<1>11. /\ Client'.cursor = cursor /\ Client'.tracked = tracked /\ Client'.replay = replay'
       /\ Client'.held = NothingHeld
  BY <1>1 DEF Client
<1>12. RouterInvariant'
  <2>1. HeldAwaitRoute(Client)'
    BY <1>4, <1>11, EmptyQueue DEF HeldAwaitRoute
  <2>2. ReachesFloor(Client)'
    BY <1>1, <1>2, <1>3, <1>5, <1>11 DEF ReachesFloor
  <2>3. PageHasHeld(Client)' /\ PageReachesFloor(Client)'
    BY <1>2, <1>5, <1>11 DEF PageHasHeld, PageReachesFloor, AwaitsPage
  <2> QED
    BY <2>1, <2>2, <2>3 DEF RouterInvariant
<1>13. CompletionsExpected'
  <2>1. Count(answer', OfPages) = 0 /\ Count(frames', OfPages) = 0
    BY <1>1, EmptyQueue
  <2>2. Count(commands', OfPages) = IF AwaitsPage(Client)' THEN 1 ELSE 0
    BY <1>2, <1>5, <1>7, <1>11, EmptyQueue DEF AwaitsPage
  <2>3. \A m \in Range(commands') \cup Range(answer') \cup Range(frames') :
          m.after = replay'.after
    BY <1>1, <1>2, <1>5, <1>6, <1>7, EmptyQueue
  <2> QED
    BY <2>1, <2>2, <2>3 DEF CompletionsExpected, UnderWay
<1>14. LookupsUnderWay'
  <2>1. \A r \in Request \ Own : /\ Count(answer', OfLookup(r)) = 0 /\ Count(frames', OfLookup(r)) = 0
                                 /\ Count(commands', OfLookup(r)) = 0
    BY <1>1, <1>2, <1>7, EmptyQueue
  <2>2. \A r \in Request \ Own : held'[r] = <<>>
    BY <1>1, <1>4
  <2> QED
    BY <2>1, <2>2 DEF LookupsUnderWay, UnderWay
<1>15. CompletionsReachFloor'
  BY <1>1, EmptyQueue DEF CompletionsReachFloor
<1> QED
  BY <1>9, <1>10, <1>12, <1>13, <1>14, <1>15 DEF SyncInvariant

\* A request leaves after its route was stored; no event of it can have been held.
LEMMA ClientSendsKeeps ==
  ASSUME SyncInvariant, NEW r \in Request, NEW s \in Session \cup {NoSession}, ClientSends(r, s)
  PROVE  SyncInvariant'
<1>1. /\ session' = session /\ requests' = requests /\ log' = log /\ acked' = acked
      /\ connected' = connected /\ hub' = hub /\ lagged' = lagged /\ answer' = answer
      /\ frames' = frames /\ failing' = failing /\ handling' = handling /\ late' = late
      /\ cursor' = cursor /\ replay' = replay /\ held' = held /\ floor' = floor
      /\ r \in Own /\ tracked[r] = NoRow /\ tracked' = [tracked EXCEPT ![r] = s]
      /\ commands' = Append(commands, SendRequest(r, s))
  BY DEF ClientSends, ledgerVars
<1>2. s \in Sessions /\ s # NoRow
  BY Constants DEF Sessions
<1>3. /\ tracked \in [Request -> Sessions \cup {NoRow}]
      /\ tracked' \in [Request -> Sessions \cup {NoRow}]
      /\ tracked'[r] = s /\ \A q \in Request : q # r => tracked'[q] = tracked[q]
  BY <1>1, <1>2 DEF SyncInvariant, SyncTypeOK
<1> DEFINE m == SendRequest(r, s)
<1>4. m \in Command /\ m.kind = "send" /\ m.request = r
  BY <1>1, <1>2 DEF Command, SendRequest
<1> HIDE DEF m
<1>5. m \notin OfPages /\ \A q : m \notin OfLookup(q)
  BY <1>4, CommandKinds
<1>6. commands' = Append(commands, m)
  BY <1>1 DEF m
<1>7. /\ commands' \in Seq(Command) /\ Range(commands') = Range(commands) \cup {m}
      /\ \A M : Count(commands', M) = Count(commands, M) + (IF m \in M THEN 1 ELSE 0)
  BY <1>4, <1>6, QueueFacts, LongerQueue
<1>8. SyncTypeOK'
  BY <1>1, <1>3, <1>7 DEF SyncInvariant, SyncTypeOK
<1>9. \A n \in Range(held[r]) : FALSE
  <2> TAKE n \in Range(held[r])
  <2>1. held[r] \in Seq(DOMAIN log)
    BY DEF SyncInvariant, SyncTypeOK
  <2>2. n \in DOMAIN log
    BY <2>1, RangeOfSeq
  <2>3. log[n].request = r
    BY ClientFacts DEF SyncInvariant, RouterInvariant, HeldAwaitRoute
  <2> QED
    BY <1>1, <2>2, <2>3 DEF SyncInvariant, RowsKnown
<1>10. RowsKnown'
  <2>1. \A k \in Range(commands) \cup late : k \in Command
    BY QueueFacts DEF SyncInvariant, SyncTypeOK
  <2>2. \A k \in Command : k.kind = "send" => k.request \in Request
    BY CommandKinds, Constants
  <2>3. \A q \in Request : tracked[q] # NoRow => tracked'[q] # NoRow
    BY <1>2, <1>3
  <2>4. \A k \in Range(commands') \cup late' : k.kind = "send" => tracked'[k.request] # NoRow
    BY <1>1, <1>2, <1>3, <1>4, <1>7, <2>1, <2>2, <2>3 DEF SyncInvariant, RowsKnown
  <2>5. \A k \in Range(commands') : k.kind = "getRequest" => requests'[k.request] # NoRow
    BY <1>1, <1>4, <1>7 DEF SyncInvariant, RowsKnown
  <2>6. \A q \in Own : requests'[q] # NoRow => tracked'[q] # NoRow
    BY <1>1, <2>3, Constants DEF SyncInvariant, RowsKnown
  <2> QED
    BY <1>1, <2>4, <2>5, <2>6 DEF SyncInvariant, RowsKnown
<1>11. /\ Client'.cursor = cursor /\ Client'.tracked = tracked' /\ Client'.replay = replay
       /\ Client'.held = held
  BY <1>1 DEF Client
<1>12. RouterInvariant'
  <2>1. HeldAwaitRoute(Client)'
    BY <1>1, <1>3, <1>9, <1>11, ClientFacts DEF SyncInvariant, RouterInvariant, HeldAwaitRoute
  <2>2. PageHasHeld(Client)' /\ PageReachesFloor(Client)' /\ ReachesFloor(Client)'
    BY <1>1, <1>11, ClientFacts
    DEF SyncInvariant, RouterInvariant, PageHasHeld, PageReachesFloor, ReachesFloor, AwaitsPage
  <2> QED
    BY <2>1, <2>2 DEF RouterInvariant
<1>13. DurableBeforeAck'
  BY <1>1, <1>4, <1>7 DEF SyncInvariant, DurableBeforeAck
<1>14. ASSUME NEW M, m \notin M PROVE UnderWay(M)' = UnderWay(M)
  <2>1. Count(commands', M) = Count(commands, M)
    BY <1>7, <1>14, QueueFacts
  <2> QED
    BY <1>1, <2>1 DEF UnderWay
<1>15. CompletionsExpected'
  <2>1. UnderWay(OfPages)' = UnderWay(OfPages)
    BY <1>5, <1>14
  <2>2. AwaitsPage(Client)' = AwaitsPage(Client)
    BY <1>11, ClientFacts DEF AwaitsPage
  <2> QED
    BY <1>1, <1>5, <1>7, <2>1, <2>2 DEF SyncInvariant, CompletionsExpected
<1>16. LookupsUnderWay'
  <2>1. \A q \in Request : UnderWay(OfLookup(q))' = UnderWay(OfLookup(q))
    BY <1>5, <1>14
  <2> QED
    BY <1>1, <2>1 DEF SyncInvariant, LookupsUnderWay
<1>17. CompletionsReachFloor'
  BY <1>1 DEF SyncInvariant, CompletionsReachFloor
<1> QED
  BY <1>8, <1>10, <1>12, <1>13, <1>15, <1>16, <1>17 DEF SyncInvariant
----------------------------------------------------------------------------
\* A frame that was taken without an exception.
LEMMA RoutedKeeps ==
  ASSUME SyncInvariant, connected, frames # <<>>, NEW f, f = Head(frames), NEW c,
         Keeps(c), Settled(c), handling => Exchanged(f, c),
         cursor' = c.cursor, tracked' = c.tracked, replay' = c.replay, held' = c.held,
         frames' = Tail(frames), commands' = (IF handling THEN commands \o c.sent ELSE <<>>),
         UNCHANGED <<connected, hub, lagged, answer, failing, handling, late, floor>>,
         UNCHANGED ledgerVars
  PROVE  SyncInvariant'
<1>1. /\ connected' = connected /\ hub' = hub /\ lagged' = lagged /\ answer' = answer
      /\ failing' = failing /\ handling' = handling /\ late' = late /\ floor' = floor
      /\ session' = session /\ requests' = requests /\ log' = log /\ acked' = acked
  BY DEF ledgerVars
<1>2. /\ f \in Frame /\ f \in Range(frames) /\ frames' \in Seq(Frame) /\ Len(frames') <= MaxFrames
      /\ Range(frames') \subseteq Range(frames)
      /\ \A M : /\ UnderWay(M) \in Nat /\ (f \in M => UnderWay(M) > 0)
                /\ Count(frames', M) = Count(frames, M) - (IF f \in M THEN 1 ELSE 0)
  BY FrameTaken DEF SyncInvariant
<1>3. /\ c \in Router /\ c.sent \in Seq(Command) /\ Range(c.sent) \subseteq Command
      /\ \A M : Count(c.sent, M) \in Nat
  <2>1. c \in Router /\ c.sent \in Seq(Command)
    BY DEF Settled, Router
  <2> QED
    BY <2>1, RangeOfSeq, PositionsAreFinite
<1>4. /\ commands' \in Seq(Command) /\ Range(commands') \subseteq Range(commands) \cup Range(c.sent)
      /\ handling => \A M : Count(commands', M) = Count(commands, M) + Count(c.sent, M)
  <2>1. CASE handling
    <3>1. /\ commands \o c.sent \in Seq(Command)
          /\ Range(commands \o c.sent) = Range(commands) \cup Range(c.sent)
          /\ \A M : Count(commands \o c.sent, M) = Count(commands, M) + Count(c.sent, M)
      BY <1>3, QueueFacts, JoinedQueues
    <3> QED
      BY <2>1, <3>1
  <2>2. CASE ~handling
    BY <2>2, EmptyQueue
  <2> QED
    BY <2>1, <2>2
<1>5. /\ cursor \in Nat /\ cursor' \in Nat /\ cursor' >= cursor /\ cursor' \in 0 .. Len(log)
      /\ Len(log) \in Nat
  <2>1. cursor \in 0 .. Len(log) /\ Len(log) \in Nat
    BY ClientFacts DEF Router
  <2>2. cursor' \in cursor .. Len(log)
    BY DEF Keeps
  <2> QED
    BY <2>1, <2>2
<1>6. SyncTypeOK'
  <2>1. SyncTypeOK
    BY DEF SyncInvariant
  <2>2. /\ replay' \in {None} \cup PendingReplay /\ held' \in [Request -> Seq(DOMAIN log)]
        /\ tracked' \in [Request -> Sessions \cup {NoRow}]
    BY <1>3 DEF Router
  <2>3. \A g \in Range(answer') \cup Range(frames') : g.kind = "event" => g.sequence \in DOMAIN log'
    BY <1>1, <1>2, <2>1 DEF SyncTypeOK
  <2> QED
    BY <1>1, <1>2, <1>4, <1>5, <2>1, <2>2, <2>3 DEF SyncTypeOK
<1>7. \A m \in Range(commands) \cup late \cup Range(c.sent) : m \in Command
  BY <1>3, QueueFacts DEF SyncInvariant, SyncTypeOK
<1>8. RowsKnown'
  <2>1. \A r \in Request : tracked[r] # NoRow => tracked'[r] # NoRow
    BY DEF Keeps
  <2>2. \A m \in Command : m.kind = "send" => m.request \in Request
    BY CommandKinds, Constants
  <2>3. \A m \in Range(commands') \cup late' : m.kind = "send" => tracked'[m.request] # NoRow
    BY <1>1, <1>4, <1>7, <2>1, <2>2 DEF SyncInvariant, RowsKnown, Settled, SentFits
  <2>4. \A m \in Range(commands') : m.kind = "getRequest" => requests'[m.request] # NoRow
    BY <1>1, <1>4 DEF SyncInvariant, RowsKnown, Settled, SentFits
  <2>5. \A r \in Own : requests'[r] # NoRow => tracked'[r] # NoRow
    BY <1>1, <2>1, Constants DEF SyncInvariant, RowsKnown
  <2> QED
    BY <1>1, <2>3, <2>4, <2>5 DEF SyncInvariant, RowsKnown
<1>9. /\ Client'.cursor = c.cursor /\ Client'.tracked = c.tracked /\ Client'.replay = c.replay
      /\ Client'.held = c.held /\ (AwaitsPage(Client)' <=> AwaitsPage(c))
  <2>1. /\ Client'.cursor = c.cursor /\ Client'.tracked = c.tracked /\ Client'.replay = c.replay
        /\ Client'.held = c.held
    BY DEF Client
  <2> QED
    BY <2>1 DEF AwaitsPage
<1>10. RouterInvariant'
  <2>1. HeldAwaitRoute(Client)' /\ PageReachesFloor(Client)' /\ ReachesFloor(Client)'
    BY <1>1, <1>9 DEF Settled, HeldAwaitRoute, PageReachesFloor, ReachesFloor
  <2>2. PageHasHeld(Client)'
    BY <1>9 DEF Settled, PageHasHeld
  <2> QED
    BY <2>1, <2>2 DEF RouterInvariant
<1>11. DurableBeforeAck'
  <2>1. \A m \in Command : m.kind = "ack" => m.sequence \in Nat
    BY CommandKinds
  <2>2. acked \in Nat
    BY <1>5 DEF SyncInvariant, SyncTypeOK
  <2>3. \A m \in Range(c.sent) : m.kind = "ack" => m.sequence <= cursor'
    BY DEF Settled, SentFits
  <2> QED
    BY <1>1, <1>4, <1>5, <1>7, <2>1, <2>2, <2>3 DEF SyncInvariant, DurableBeforeAck
<1>12. ASSUME handling, NEW M
       PROVE  UnderWay(M)' = UnderWay(M) + Count(c.sent, M) - (IF f \in M THEN 1 ELSE 0)
  <2>1. /\ Count(commands', M) = Count(commands, M) + Count(c.sent, M)
        /\ Count(frames', M) = Count(frames, M) - (IF f \in M THEN 1 ELSE 0)
        /\ Count(commands, M) \in Nat /\ Count(answer, M) \in Nat /\ Count(frames, M) \in Nat
        /\ Count(c.sent, M) \in Nat
    BY <1>2, <1>3, <1>4, <1>12, QueueFacts
  <2> QED
    BY <1>1, <2>1 DEF UnderWay
<1>13. ASSUME connected', handling'
       PROVE  /\ UnderWay(OfPages)' = PagesAwaited(c)
              /\ \A m \in Range(commands') \cup Range(answer') \cup Range(frames') :
                   m \in OfPages => m.after = replay'.after
  <2>1. handling /\ Exchanged(f, c) /\ CompletionsExpected
    BY <1>1, <1>13 DEF SyncInvariant
  <2>2. UnderWay(OfPages) = PagesAwaited(Client)
    BY <2>1 DEF CompletionsExpected, PagesAwaited
  <2>3. PagesAwaited(Client) \in {0, 1} /\ PagesAwaited(c) \in {0, 1}
    BY DEF PagesAwaited
  <2>4. UnderWay(OfPages)' = PagesAwaited(c)
    BY <1>12, <2>1, <2>2, <2>3 DEF Exchanged
  <2>5. ASSUME NEW m \in Range(commands) \cup Range(answer) \cup Range(frames'), m \in OfPages
        PROVE  m.after = replay'.after
    <3>1. UnderWay(OfPages) - (IF f \in OfPages THEN 1 ELSE 0) > 0
      <4>1. \/ Count(commands, OfPages) # 0 \/ Count(answer, OfPages) # 0
            \/ Count(frames', OfPages) # 0
        BY <1>2, <2>5, QueueFacts, PositionsAreFinite
      <4>2. /\ Count(commands, OfPages) \in Nat /\ Count(answer, OfPages) \in Nat
            /\ Count(frames', OfPages) \in Nat
        BY <1>2, QueueFacts, PositionsAreFinite
      <4>3. /\ Count(frames', OfPages) = Count(frames, OfPages) - (IF f \in OfPages THEN 1 ELSE 0)
            /\ Count(frames, OfPages) \in Nat
        BY <1>2, QueueFacts
      <4> QED
        BY <4>1, <4>2, <4>3 DEF UnderWay
    <3>2. f \notin OfPages /\ PagesAwaited(Client) = 1
      BY <2>2, <2>3, <3>1
    <3>3. AwaitsPage(Client)
      BY <3>2 DEF PagesAwaited
    <3>4. c.replay.after = replay.after
      BY <2>1, <3>2, <3>3, ClientFacts DEF Exchanged
    <3>5. m \in Range(frames') => m \in Range(frames)
      BY <1>2
    <3> QED
      BY <2>1, <2>5, <3>4, <3>5, <1>13, <1>1 DEF CompletionsExpected
  <2>6. ASSUME NEW m \in Range(c.sent), m \in OfPages PROVE m.after = replay'.after
    BY <2>6 DEF Settled, SentFits
  <2> QED
    BY <1>1, <1>4, <2>4, <2>5, <2>6
<1>14. CompletionsExpected'
  BY <1>9, <1>13 DEF CompletionsExpected, PagesAwaited
<1>15. ASSUME connected', handling', NEW r \in Request \ Own
       PROVE  UnderWay(OfLookup(r))' = RoutesAwaited(c, r)
  <2>1. handling /\ Exchanged(f, c) /\ LookupsUnderWay
    BY <1>1, <1>15 DEF SyncInvariant
  <2>2. UnderWay(OfLookup(r)) = RoutesAwaited(Client, r)
    BY <2>1, ClientFacts DEF LookupsUnderWay, RoutesAwaited
  <2>3. RoutesAwaited(Client, r) \in {0, 1} /\ RoutesAwaited(c, r) \in {0, 1}
    BY DEF RoutesAwaited
  <2> QED
    BY <1>12, <2>1, <2>2, <2>3 DEF Exchanged
<1>16. LookupsUnderWay'
  BY <1>15 DEF LookupsUnderWay, RoutesAwaited
<1>17. CompletionsReachFloor'
  BY <1>1, <1>2 DEF SyncInvariant, CompletionsReachFloor
<1> QED
  BY <1>6, <1>8, <1>10, <1>11, <1>14, <1>16, <1>17 DEF SyncInvariant

\* The Client takes a frame.
LEMMA TakeFrameKeeps ==
  ASSUME SyncInvariant, TakeFrame
  PROVE  SyncInvariant'
<1> DEFINE f == Head(frames)
           c == Route(Client, f)
<1>1. /\ connected /\ frames # <<>> /\ UNCHANGED ledgerVars
      /\ cursor' = c.cursor /\ tracked' = c.tracked
  BY DEF TakeFrame
<1>2. Keeps(c) /\ (~c.broken => Settled(c) /\ (handling => Exchanged(f, c)))
  BY <1>1, RouteEffect
<1>3. CASE c.broken /\ CloseStream /\ ForgetRouter
  BY <1>1, <1>2, <1>3, ClosedKeeps DEF Keeps
<1>4. CASE /\ ~c.broken
           /\ frames' = Tail(frames) /\ commands' = IF handling THEN commands \o c.sent ELSE <<>>
           /\ replay' = c.replay /\ held' = c.held
           /\ UNCHANGED <<connected, hub, lagged, answer, failing, handling, late, floor>>
  <2> HIDE DEF f, c
  <2>1. f = Head(frames)
    BY DEF f
  <2> QED
    BY <1>1, <1>2, <1>4, <2>1, RoutedKeeps
<1> QED
  BY <1>3, <1>4 DEF TakeFrame

\* Nothing happens.
LEMMA StutterKeeps ==
  ASSUME SyncInvariant, UNCHANGED vars
  PROVE  SyncInvariant'
<1>1. UNCHANGED ledgerVars /\ UNCHANGED clientVars /\ UNCHANGED streamVars
  BY DEF vars
<1> QED
  BY <1>1, SameLedger, LedgerStep
----------------------------------------------------------------------------
\* The invariant holds before the first stream.
LEMMA SyncInvariantInit ==
  ASSUME Init
  PROVE  SyncInvariant
<1>1. /\ session = InitialSession /\ requests = [r \in Request |-> NoRow]
      /\ log = <<>> /\ acked = 0 /\ connected = FALSE /\ hub = <<>> /\ lagged = FALSE
      /\ commands = <<>> /\ answer = <<>> /\ frames = <<>> /\ failing = FALSE
      /\ handling = FALSE /\ late = {} /\ cursor = 0 /\ tracked = [r \in Request |-> NoRow]
      /\ replay = None /\ held = NothingHeld /\ floor = 0
  BY DEF Init, StreamInit
<1>2. Len(<<>>) = 0 /\ DOMAIN <<>> = {} /\ MaxFrames \in Nat /\ MaxHub \in Nat
      /\ InitialSession \in Sessions
  BY Constants
<1>3. NothingHeld \in [Request -> Seq(DOMAIN log)] /\ \A r \in Request : NothingHeld[r] = <<>>
  BY EmptyQueue DEF NothingHeld
<1>4. SyncTypeOK
  <2>1. /\ <<>> \in Seq(Command) /\ <<>> \in Seq(Frame) /\ <<>> \in Seq(DOMAIN log)
        /\ <<>> \in Seq([request : Request, session : Sessions]) /\ Range(<<>>) = {}
    BY EmptyQueue
  <2>2. {cursor, floor, acked} \subseteq 0 .. Len(log)
    BY <1>1, <1>2
  <2>3. /\ requests \in [Request -> Sessions \cup {NoRow}]
        /\ tracked \in [Request -> Sessions \cup {NoRow}]
    BY <1>1
  <2>4. /\ log \in Seq([request : Request, session : Sessions])
        /\ commands \in Seq(Command) /\ answer \in Seq(Frame) /\ frames \in Seq(Frame)
        /\ hub \in Seq(DOMAIN log) /\ Len(frames) <= MaxFrames /\ Len(hub) <= MaxHub
        /\ held \in [Request -> Seq(DOMAIN log)]
    BY <1>1, <1>2, <1>3, <2>1
  <2>5. \A f \in Range(answer) \cup Range(frames) : FALSE
    BY <1>1, <2>1
  <2> QED
    BY <1>1, <1>2, <2>2, <2>3, <2>4, <2>5 DEF SyncTypeOK
<1>5. RowsKnown
  BY <1>1, <1>2, EmptyQueue, Constants DEF RowsKnown
<1>6. RouterInvariant
  <2>1. /\ Client.cursor = 0 /\ Client.replay = None /\ Client.held = NothingHeld
    BY <1>1 DEF Client
  <2> QED
    BY <1>1, <1>3, <2>1, EmptyQueue
    DEF RouterInvariant, HeldAwaitRoute, PageHasHeld, PageReachesFloor, ReachesFloor
<1>7. DurableBeforeAck /\ CompletionsReachFloor
  BY <1>1, EmptyQueue DEF DurableBeforeAck, CompletionsReachFloor
<1>8. CompletionsExpected /\ LookupsUnderWay
  BY <1>1 DEF CompletionsExpected, LookupsUnderWay
<1> QED
  BY <1>4, <1>5, <1>6, <1>7, <1>8 DEF SyncInvariant

\* The inductive invariant holds in every reachable state, for any numbers of requests,
\* sessions and events and any size of page and queues.
THEOREM ClientInvariant == Spec => []SyncInvariant
<1>1. Init => SyncInvariant
  BY SyncInvariantInit
<1>2. SyncInvariant /\ [Next]_vars => SyncInvariant'
  <2> SUFFICES ASSUME SyncInvariant, [Next]_vars PROVE SyncInvariant'
    OBVIOUS
  <2>1. CASE UNCHANGED vars
    BY <2>1, StutterKeeps
  <2>2. CASE Connect
    BY <2>2, ConnectKeeps
  <2>3. CASE Disconnect
    BY <2>3, DisconnectKeeps
  <2>4. CASE TakeFrame
    BY <2>4, TakeFrameKeeps
  <2>5. ASSUME NEW r \in Request, OtherSends(r) PROVE SyncInvariant'
    BY <2>5, OtherSendsKeeps DEF OtherSends
  <2>6. ASSUME NEW r \in Request, NEW s \in Session \cup {NoSession}, ClientSends(r, s)
        PROVE SyncInvariant'
    BY <2>6, ClientSendsKeeps
  <2>7. ASSUME NEW r \in Request, NEW s \in Session \cup {NoSession}, NodeReports(r, s)
        PROVE SyncInvariant'
    BY <2>7, NodeReportKeeps
  <2>8. ASSUME NEW n \in 1 .. MaxLog, Publishes(n) PROVE SyncInvariant'
    BY <2>8, PublishKeeps
  <2>9. CASE HandlerTakes
    BY <2>9, TakeCommandKeeps
  <2>10. CASE HandlerPushes
    BY <2>10, PushAnswerKeeps
  <2>11. CASE LiveTaskPushes
    BY <2>11, PushLiveKeeps
  <2>12. CASE HandlerOutlives
    BY <2>12, TakeLateKeeps
  <2> QED
    BY <2>1, <2>2, <2>3, <2>4, <2>5, <2>6, <2>7, <2>8, <2>9, <2>10, <2>11, <2>12 DEF Next
<1> QED
  BY <1>1, <1>2, PTL DEF Spec

\* Every variable keeps its type: no queue outgrows its bound, and every sequence number
\* that is queued, held, stored or acknowledged is one of an event of the log.
THEOREM TypesHold == Spec => []SyncTypeOK
<1>1. SyncInvariant => SyncTypeOK
  BY DEF SyncInvariant
<1> QED
  BY <1>1, ClientInvariant, PTL

\* The device's cursor at the Gateway never passes the Client's own, whatever streams end
\* and whatever their commands still do (client_event_convergence.dart:106).
THEOREM StoredBeforeAcknowledged == Spec => []DurableBeforeAck
<1>1. SyncInvariant => DurableBeforeAck
  BY DEF SyncInvariant
<1> QED
  BY <1>1, ClientInvariant, PTL

\* On a stream whose commands are served the router awaits exactly the completion that is
\* under way, so it never takes one it did not ask for.
THEOREM CompletionsAreExpected == Spec => []CompletionsExpected
<1>1. SyncInvariant => CompletionsExpected
  BY DEF SyncInvariant
<1> QED
  BY <1>1, ClientInvariant, PTL

\* Held events of a request of another device have exactly one lookup or its answer under
\* way: none is lost and none is sent twice.
THEOREM OneLookupEach == Spec => []LookupsUnderWay
<1>1. SyncInvariant => LookupsUnderWay
  BY DEF SyncInvariant
<1> QED
  BY <1>1, ClientInvariant, PTL

\* A stream at rest has nothing under way, so no page and no route is awaited, and the
\* replay of the start is over.
LEMMA RestsCaughtUp ==
  ASSUME SyncInvariant
  PROVE  CaughtUpAtRest
<1> SUFFICES ASSUME connected, handling, commands = <<>>, answer = <<>>, frames = <<>>,
                    ~(cursor >= floor)
             PROVE  FALSE
  BY DEF CaughtUpAtRest
<1>1. \A M : UnderWay(M) = 0
  BY EmptyQueue DEF UnderWay
<1>2. cursor < floor
  BY ClientFacts DEF SyncInvariant, SyncTypeOK
<1>3. Client.replay # None
  BY <1>2, ClientFacts DEF SyncInvariant, RouterInvariant, ReachesFloor
<1>4. ~AwaitsPage(Client)
  BY <1>1 DEF SyncInvariant, CompletionsExpected
<1>5. PICK r \in Request : held[r] # <<>>
  BY <1>3, <1>4, ClientFacts DEF SyncInvariant, RouterInvariant, PageHasHeld
<1>6. held[r] \in Seq(DOMAIN log)
  BY DEF SyncInvariant, SyncTypeOK
<1>7. PICK n \in Range(held[r]) : n \in DOMAIN log
  <2>1. Head(held[r]) \in Range(held[r]) /\ Head(held[r]) \in DOMAIN log
    BY <1>5, <1>6, ShorterQueue
  <2> QED
    BY <2>1
<1>8. log[n].request = r /\ tracked[r] = NoRow
  BY ClientFacts DEF SyncInvariant, RouterInvariant, HeldAwaitRoute
<1>9. r \notin Own
  BY <1>7, <1>8 DEF SyncInvariant, RowsKnown
<1>10. UnderWay(OfLookup(r)) = 1
  BY <1>5, <1>9 DEF SyncInvariant, LookupsUnderWay
<1> QED
  BY <1>1, <1>10

\* A stream of a Client that knows the conversation never comes to rest short of an event
\* recorded before it was opened, however live events, pages and lookups interleave.
THEOREM CaughtUp == Spec => []CaughtUpAtRest
<1>1. SyncInvariant => CaughtUpAtRest
  BY RestsCaughtUp
<1> QED
  BY <1>1, ClientInvariant, PTL
==============================================================================
