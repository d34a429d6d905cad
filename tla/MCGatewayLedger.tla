--------------------------- MODULE MCGatewayLedger ---------------------------
(* TLC instances of GatewayLedger. *)
EXTENDS GatewayLedger, TLC

CONSTANTS d1, r1, r2, k1, k2, a1, q1, n1, MaxSource

\* d1 may do everything, any other device may send and answer clarifications.
DeviceScopes ==
  [d \in Device |-> IF d = d1 THEN {"send", "interrupt", "approve"} ELSE {"send"}]

\* Every event of every request up to a source sequence, with one event id per
\* request and source sequence.
Events(types, items) ==
  {[id |-> <<r, n>>, request |-> r, source |-> n, type |-> t, session |-> s, item |-> i] :
     r \in Request, n \in 1 .. MaxSource, t \in types,
     s \in Session \cup {NoSession}, i \in items}

\* r1 asks for interactions and ends; r2 only runs, and its first event may bring
\* the session of the conversation.
MixedEvents ==
  {e \in Events({"progress", "completed"}, {NoItem}) : e.request = r2 /\ e.source = 1}
    \cup {e \in Events({"completed", "failed"}, {NoItem}) \cup Events(InteractionEvent, Interaction) :
            e.request = r1 /\ e.session = NoSession}

Interchangeable == Permutations(Key)
=============================================================================
