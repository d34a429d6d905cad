---------------------------- MODULE BridgePairing ----------------------------
(***************************************************************************)
(* Pairing, credentials and the state file of the Companion Bridge         *)
(* (services/bridge/src/pairing.ts, credentials.ts, state.ts, server.ts).  *)
(*                                                                         *)
(* Every mutation waits its turn in one queue, changes the state in        *)
(* memory, writes it to a temporary file and renames that; one that throws *)
(* or cannot be written puts back the state from before it.  A read waits  *)
(* for the mutations called before it.  The process may end at any time    *)
(* and starts again from the file.                                         *)
(*                                                                         *)
(* A session, the request that consumes it, and the device and credential  *)
(* that result have one identity.  IDs, tokens, codes, names and           *)
(* signatures are right: any other call is refused and changes nothing.    *)
(* The bridge has its certificate pins; their rotation is not modelled.    *)
(***************************************************************************)
EXTENDS Naturals, Sequences

CONSTANTS
  Attempt,       \* session IDs
  Nobody,
  PairingTtl, ConfirmationTtl, CredentialTtl,
  MaxTime,       \* bound: the last instant
  MaxQueue       \* bound: calls that wait at a time

ASSUME BridgeAssumption ==
  /\ Nobody \notin Attempt
  /\ {PairingTtl, ConfirmationTtl, CredentialTtl, MaxTime, MaxQueue} \subseteq Nat

VARIABLES
  now,
  memory,    \* BridgeStateStore's #state: a row for each attempt
  before,    \* the clone a failed mutation restores
  file,      \* the state file
  queue,     \* calls in the order of their turns
  writing,   \* the mutation at the head is applied and being written
  told       \* history: what callers were told

vars == <<now, memory, before, file, queue, writing, told>>

NoRow ==
  [session |-> "none", sessionEnd |-> 0, request |-> "none", requestEnd |-> 0,
   device |-> "none", credential |-> "none", credentialEnd |-> 0]

Open == {"awaiting_confirmation", "confirmed"}
----------------------------------------------------------------------------
\* The queue: calls, with the time they were made where it counts.

Timed == {"createQr", "exchange", "look", "confirm", "complete", "revokeMe"}
Operation == Timed \cup {"cancelSession", "cancelRequest", "revoke"}

NewCall(op, id) == [op |-> op, id |-> id, at |-> IF op \in Timed THEN now ELSE 0]

\* A new QR code gets a new session ID; any other call is about what its caller
\* was told: the QR code with its token, the challenge, the credential, or what
\* the host's lists show.
May(op, id) ==
  CASE op = "createQr" ->
         /\ id # Nobody /\ memory[id].session = "none" /\ file[id].session = "none"
         /\ \A i \in DOMAIN queue : queue[i].op = "createQr" => queue[i].id # id
    [] op = "look" -> id = Nobody
    [] op \in {"exchange", "cancelSession"} -> <<"qr", id>> \in told
    [] op \in {"confirm", "cancelRequest", "revoke"} ->
         id # Nobody /\ file[id].device # "none"
    [] op = "complete" -> <<"exchanged", id>> \in told
    [] op = "revokeMe" -> <<"credential", id>> \in told

Call(op, id) ==
  /\ Len(queue) < MaxQueue
  /\ May(op, id)
  /\ queue' = Append(queue, NewCall(op, id))
  /\ UNCHANGED <<now, memory, before, file, writing, told>>

Turn(op) == queue # <<>> /\ ~writing /\ Head(queue).op = op
Id == Head(queue).id
At == Head(queue).at

\* mutate: the operation has run, its result is on the way to the file.
Write(rows) ==
  /\ before' = memory /\ memory' = rows /\ writing' = TRUE
  /\ UNCHANGED <<now, file, queue, told>>

\* The operation threw: what it changed is put back.
Refuse ==
  /\ queue' = Tail(queue)
  /\ UNCHANGED <<now, memory, before, file, writing, told>>

\* What the caller of the head of the queue is told.
Answer ==
  CASE Head(queue).op = "createQr" -> {<<"qr", Id>>}
    [] Head(queue).op = "exchange" -> {<<"exchanged", Id>>}
    [] Head(queue).op = "complete" -> {<<"credential", Id>>}
    [] Head(queue).op = "cancelSession" -> {<<"cancelled", Id>>}
    [] Head(queue).op = "revoke" -> {<<"revoked", Id>>}
    [] OTHER -> {}

\* Faulty forms: the caller gets an error and the change stays in memory; the
\* answer does not wait for the file.
KeepsChange ==
  /\ writing
  /\ writing' = FALSE /\ queue' = Tail(queue)
  /\ UNCHANGED <<now, memory, before, file, told>>

AnswersFirst ==
  /\ writing
  /\ file' = file
  /\ writing' = FALSE /\ queue' = Tail(queue)
  /\ told' = told \cup Answer
  /\ UNCHANGED <<now, memory, before>>

Persisted ==
  /\ writing
  /\ file' = memory
  /\ writing' = FALSE /\ queue' = Tail(queue)
  /\ told' = told \cup Answer
  /\ before' = memory
  /\ UNCHANGED <<now, memory>>

PersistFails ==
  /\ writing
  /\ memory' = before
  /\ writing' = FALSE /\ queue' = Tail(queue)
  /\ UNCHANGED <<now, before, file, told>>
----------------------------------------------------------------------------
\* The operations

\* expireState
Expired(rows, t) ==
  [a \in Attempt |->
    [rows[a] EXCEPT
      !.session = IF @ = "pending" /\ rows[a].sessionEnd <= t THEN "expired" ELSE @,
      !.request = IF @ \in Open /\ rows[a].requestEnd <= t THEN "expired" ELSE @]]

AllCancelled(rows) ==
  [a \in Attempt |->
    [rows[a] EXCEPT
      !.session = IF @ = "pending" THEN "cancelled" ELSE @,
      !.request = IF @ \in Open THEN "cancelled" ELSE @]]

CreateQr ==
  /\ Turn("createQr")
  /\ Write([AllCancelled(Expired(memory, At)) EXCEPT
       ![Id] = [NoRow EXCEPT !.session = "pending", !.sessionEnd = At + PairingTtl]])

\* The token is consumed, whatever becomes of the request.
Exchange ==
  /\ Turn("exchange")
  /\ LET rows == Expired(memory, At) IN
     \/ /\ rows[Id].session = "pending"
        /\ Write([rows EXCEPT
             ![Id].session = "consumed", ![Id].device = "pending",
             ![Id].request = "awaiting_confirmation",
             ![Id].requestEnd = At + ConfirmationTtl])
     \/ rows[Id].session # "pending" /\ Refuse

\* pendingRequests, requestStatus
Look ==
  /\ Turn("look")
  /\ Write(Expired(memory, At))

Confirm ==
  /\ Turn("confirm")
  /\ LET rows == Expired(memory, At) IN
     \/ /\ rows[Id].request = "awaiting_confirmation"
        /\ Write([rows EXCEPT ![Id].request = "confirmed"])
     \/ rows[Id].request # "awaiting_confirmation" /\ Refuse

Complete ==
  /\ Turn("complete")
  /\ LET rows == Expired(memory, At) IN
     \/ /\ rows[Id].request = "confirmed" /\ rows[Id].device = "pending"
        /\ Write([rows EXCEPT
             ![Id].device = "active", ![Id].request = "completed",
             ![Id].credential = "active", ![Id].credentialEnd = At + CredentialTtl])
     \/ ~(rows[Id].request = "confirmed" /\ rows[Id].device = "pending") /\ Refuse

\* cancelSession, cancelSessionWithPairingToken
CancelSession ==
  /\ Turn("cancelSession")
  /\ Write([memory EXCEPT
       ![Id].session = IF @ = "pending" THEN "cancelled" ELSE @,
       ![Id].request = IF @ \in Open THEN "cancelled" ELSE @])

CancelRequest ==
  /\ Turn("cancelRequest")
  /\ Write([memory EXCEPT ![Id].request = IF @ \in Open THEN "cancelled" ELSE @])

RevokeDevice ==
  /\ Turn("revoke")
  /\ Write([memory EXCEPT
       ![Id].device = "revoked",
       ![Id].credential = IF @ = "none" THEN "none" ELSE "revoked"])

\* authenticateAuthorization, on a snapshot that waits its turn
Accepted(row, t) ==
  row.credential = "active" /\ row.credentialEnd > t /\ row.device = "active"

\* A device revokes itself: authenticated first, then in turn again.
RevokeMe ==
  /\ Turn("revokeMe")
  /\ queue' = IF Accepted(memory[Id], At)
              THEN Append(Tail(queue), NewCall("revoke", Id))
              ELSE Tail(queue)
  /\ UNCHANGED <<now, memory, before, file, writing, told>>
----------------------------------------------------------------------------
Tick ==
  /\ now < MaxTime /\ now' = now + 1
  /\ UNCHANGED <<memory, before, file, queue, writing, told>>

\* The process ends, before or after the rename, and loads the file.
Crash ==
  /\ \/ UNCHANGED file
     \/ writing /\ file' = memory
  /\ memory' = file' /\ before' = file'
  /\ queue' = <<>> /\ writing' = FALSE
  /\ UNCHANGED <<now, told>>

Init ==
  /\ now = 0
  /\ memory = [a \in Attempt |-> NoRow]
  /\ before = memory /\ file = memory
  /\ queue = <<>> /\ writing = FALSE
  /\ told = {}

Next ==
  \/ \E op \in Operation, id \in Attempt \cup {Nobody} : Call(op, id)
  \/ CreateQr \/ Exchange \/ Look \/ Confirm \/ Complete
  \/ CancelSession \/ CancelRequest \/ RevokeDevice
  \/ RevokeMe \/ Persisted \/ PersistFails \/ Crash \/ Tick

Spec == Init /\ [][Next]_vars
----------------------------------------------------------------------------
SessionState == {"none", "pending", "consumed", "expired", "cancelled"}
RequestState == Open \cup {"none", "completed", "expired", "cancelled"}
Row ==
  [session : SessionState, sessionEnd : Nat, request : RequestState, requestEnd : Nat,
   device : {"none", "pending", "active", "revoked"},
   credential : {"none", "active", "revoked"}, credentialEnd : Nat]

\* What a caller was told holds in the file, so that no failed write and no end
\* of the process takes it back: a code exists, a token is consumed once, a
\* cancelled session stays over, a credential handed out is known, a revoked
\* device stays revoked and is not served again (state.ts:103, server.ts:155).
Holds(fact, rows) ==
  LET row == rows[fact[2]] IN
  /\ fact[1] = "qr" => row.session # "none"
  /\ fact[1] = "exchanged" => row.session = "consumed" /\ row.device # "none"
  /\ fact[1] = "credential" => row.credential # "none" /\ row.request = "completed"
  /\ fact[1] = "cancelled" => row.session # "pending" /\ row.request \notin Open
  /\ fact[1] = "revoked" => ~Accepted(row, 0)

AnswersDurable ==
  \A fact \in told : Holds(fact, file) /\ Holds(fact, memory)

\* The file keeps the promises of BridgeAdmission: one attempt at a time.
Under(rows, a) == rows[a].session = "pending" \/ rows[a].request \in Open
LiveIn(rows) ==
  IF \E a \in Attempt : Under(rows, a) THEN CHOOSE a \in Attempt : Under(rows, a) ELSE Nobody
StageIn(rows, a) ==
  CASE a = Nobody -> "none"
    [] a # Nobody /\ rows[a].session = "pending" -> "offered"
    [] a # Nobody /\ rows[a].request = "awaiting_confirmation" -> "asked"
    [] OTHER -> "confirmed"

Admission == INSTANCE BridgeAdmission WITH
  live <- LiveIn(file),
  stage <- StageIn(file, LiveIn(file)),
  seen <- {a \in Attempt : file[a].session # "none"},
  admitted <- {a \in Attempt : file[a].credential # "none"},
  revoked <- {a \in Attempt : file[a].device = "revoked"}

ImplementsBridgeAdmission == Admission!Spec
=============================================================================
