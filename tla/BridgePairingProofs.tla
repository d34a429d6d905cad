-------------------------- MODULE BridgePairingProofs --------------------------
(***************************************************************************)
(* What the Bridge has told a caller is in its file and stays there, and   *)
(* the file moves as BridgeAdmission allows, for any number of attempts,   *)
(* any lifetimes and any length of the queue.                              *)
(*                                                                         *)
(* An operation is followed from its turn to its rename by what it does to *)
(* the rows (Effect).  Of such a change the lemmas say that it keeps the   *)
(* tables sound, keeps what was told, makes its own answer true, and is a  *)
(* step of BridgeAdmission; the invariant says that a mutation being       *)
(* written is one, from the file to the rows in memory.                    *)
(***************************************************************************)
EXTENDS BridgePairing, SequenceTheorems, TLAPS

CallType == [op : Operation, id : Attempt \cup {Nobody}, at : Nat]
Fact == {"qr", "exchanged", "credential", "cancelled", "revoked"} \X Attempt

BridgeTypeOK ==
  /\ now \in Nat
  /\ memory \in [Attempt -> Row] /\ before \in [Attempt -> Row] /\ file \in [Attempt -> Row]
  /\ queue \in Seq(CallType) /\ writing \in BOOLEAN
  /\ told \subseteq Fact

\* The tables of one attempt go together, and one attempt is under way.
RowSound(row) ==
  /\ row.session # "consumed" => row.request = "none" /\ row.device = "none"
  /\ row.session = "consumed" => row.device # "none"
  /\ row.credential # "none" =>
       row.request = "completed" /\ row.device \in {"active", "revoked"}

Sound(rows) ==
  /\ \A a \in Attempt : RowSound(rows[a])
  /\ \A a, b \in Attempt : Under(rows, a) /\ Under(rows, b) => a = b

\* Time and the next code end a session and a request, and nothing else.
SessionAges(old, new) ==
  new # old => old = "pending" /\ new \in {"expired", "cancelled"}
RequestAges(old, new) ==
  new # old => old \in Open /\ new \in {"expired", "cancelled"}

Ages(old, new) ==
  /\ SessionAges(old.session, new.session)
  /\ RequestAges(old.request, new.request)
  /\ new.device = old.device /\ new.credential = old.credential

\* What each operation does to the row it is about.
RowEffect(old, new, op) ==
  /\ op = "createQr" =>
       /\ old.session = "none"
       /\ new.session = "pending" /\ new.request = "none"
       /\ new.device = "none" /\ new.credential = "none"
  /\ op = "exchange" =>
       /\ old.session = "pending"
       /\ new.session = "consumed" /\ new.request = "awaiting_confirmation"
       /\ new.device = "pending" /\ new.credential = old.credential
  /\ op = "confirm" =>
       /\ old.request = "awaiting_confirmation"
       /\ new.request = "confirmed"
       /\ SessionAges(old.session, new.session)
       /\ new.device = old.device /\ new.credential = old.credential
  /\ op = "complete" =>
       /\ old.request = "confirmed" /\ old.device = "pending"
       /\ new.request = "completed"
       /\ SessionAges(old.session, new.session)
       /\ new.device = "active" /\ new.credential = "active"
  /\ op \in {"cancelSession", "cancelRequest"} => Ages(old, new)
  /\ op = "cancelSession" => new.session # "pending" /\ new.request \notin Open
  /\ op = "revoke" =>
       /\ old.device # "none"
       /\ new.session = old.session /\ new.request = old.request
       /\ new.device = "revoked"
       /\ new.credential = IF old.credential = "none" THEN "none" ELSE "revoked"

Effect(old, new, op, id) ==
  /\ new \in [Attempt -> Row]
  /\ op \in Operation \ {"revokeMe"}
  /\ op # "look" => id \in Attempt /\ RowEffect(old[id], new[id], op)
  /\ op = "look" => \A a \in Attempt : Ages(old[a], new[a])
  /\ \A a \in Attempt \ {id} : Ages(old[a], new[a])
  /\ op = "createQr" => \A a \in Attempt \ {id} : ~Under(new, a)
  /\ op = "revoke" => \A a \in Attempt \ {id} : new[a] = old[a]

\* A fact about a row, as strong as it takes to keep it.
Kept(fact, rows) ==
  /\ rows[fact[2]].session # "none"
  /\ Holds(fact, rows)
  /\ fact[1] = "revoked" => rows[fact[2]].device = "revoked"

\* The calls that wait are about sessions there are, or about new ones.
QueueOK(calls, rows) ==
  /\ \A i \in 1..Len(calls) :
       /\ calls[i].op = "createQr" =>
            calls[i].id \in Attempt /\ rows[calls[i].id].session = "none"
       /\ calls[i].op \notin {"createQr", "look"} =>
            calls[i].id \in Attempt /\ rows[calls[i].id].session # "none"
       /\ calls[i].op \in {"revoke", "revokeMe"} => rows[calls[i].id].device # "none"
  /\ \A i, j \in 1..Len(calls) :
       calls[i].op = "createQr" /\ calls[j].op = "createQr" /\ calls[i].id = calls[j].id
         => i = j

BridgeInvariant ==
  /\ BridgeTypeOK
  /\ before = file
  /\ writing => queue # <<>> /\ Effect(file, memory, Head(queue).op, Head(queue).id)
  /\ ~writing => memory = file
  /\ Sound(file)
  /\ QueueOK(queue, file)
  /\ \A fact \in told : Kept(fact, file)
----------------------------------------------------------------------------
\* A change keeps the tables sound.
LEMMA EffectSound ==
  ASSUME NEW old \in [Attempt -> Row], NEW new, NEW op, NEW id,
         Sound(old), Effect(old, new, op, id)
  PROVE  Sound(new)
<1>1. ASSUME NEW a \in Attempt, Ages(old[a], new[a])
      PROVE  RowSound(new[a]) /\ (Under(new, a) => Under(old, a))
  BY <1>1 DEF Sound, RowSound, Ages, SessionAges, RequestAges, Under, Open
<1>2. ASSUME op # "look"
      PROVE  RowSound(new[id]) /\ (op # "createQr" /\ Under(new, id) => Under(old, id))
  <2>1. id \in Attempt /\ RowSound(old[id]) /\ RowEffect(old[id], new[id], op)
    BY <1>2 DEF Sound, Effect
  <2>2. op \in Operation \ {"revokeMe"}
    BY DEF Effect
  <2> QED
    BY <1>2, <2>1, <2>2
       DEF RowSound, RowEffect, Ages, SessionAges, RequestAges, Under, Open,
           Operation, Timed
<1>3. \A a \in Attempt : RowSound(new[a])
  BY <1>1, <1>2 DEF Effect
<1>4. ASSUME NEW a \in Attempt, NEW b \in Attempt, Under(new, a), Under(new, b)
      PROVE  a = b
  <2>1. CASE op = "createQr"
    BY <1>4, <2>1 DEF Effect
  <2>2. CASE op # "createQr"
    <3>1. Under(old, a) /\ Under(old, b)
      BY <1>1, <1>2, <1>4, <2>2 DEF Effect
    <3> QED
      BY <3>1 DEF Sound
  <2> QED
    BY <2>1, <2>2
<1> QED
  BY <1>3, <1>4 DEF Sound

\* A session that was there is there after the change, and one that was not
\* is there only if the change created it.
LEMMA EffectSessions ==
  ASSUME NEW old \in [Attempt -> Row], NEW new, NEW op, NEW id,
         Sound(old), Effect(old, new, op, id), NEW a \in Attempt
  PROVE  /\ old[a].session # "none" => new[a].session # "none"
         /\ old[a].device # "none" => new[a].device # "none"
         /\ old[a].session = "none" /\ new[a].session # "none" => op = "createQr" /\ a = id
<1>1. CASE Ages(old[a], new[a])
  BY <1>1 DEF Ages, SessionAges, RequestAges
<1>2. CASE op # "look" /\ a = id
  BY <1>2
     DEF Effect, RowEffect, Ages, SessionAges, RequestAges, Sound, RowSound,
         Operation, Timed, Open
<1> QED
  BY <1>1, <1>2 DEF Effect

\* A change keeps what was told.
LEMMA EffectKeeps ==
  ASSUME NEW old \in [Attempt -> Row], NEW new, NEW op, NEW id,
         Sound(old), Effect(old, new, op, id),
         NEW fact \in Fact, Kept(fact, old)
  PROVE  Kept(fact, new)
<1> DEFINE a == fact[2]
<1>1. /\ a \in Attempt
      /\ fact[1] \in {"qr", "exchanged", "credential", "cancelled", "revoked"}
  BY DEF Fact
<1>2. new[a].session # "none"
  BY <1>1, EffectSessions DEF Kept
<1>3. RowSound(old[a]) /\ old[a].session # "none"
  BY <1>1 DEF Sound, Kept
<1>4. Ages(old[a], new[a]) \/ (op # "look" /\ a = id /\ RowEffect(old[a], new[a], op))
  BY <1>1 DEF Effect
<1>5. op \in Operation \ {"revokeMe"}
  BY DEF Effect
<1>6. CASE fact[1] = "qr"
  BY <1>2, <1>6 DEF Kept, Holds
<1>7. CASE fact[1] = "exchanged"
  <2>1. old[a].session = "consumed" /\ old[a].device # "none"
    BY <1>7 DEF Kept, Holds
  <2>2. new[a].session = "consumed" /\ new[a].device # "none"
    BY <1>3, <1>4, <1>5, <2>1
       DEF Ages, SessionAges, RequestAges, RowEffect, Operation, Timed
  <2> QED
    BY <1>2, <1>7, <2>2 DEF Kept, Holds
<1>8. CASE fact[1] = "credential"
  <2>1. old[a].credential # "none" /\ old[a].request = "completed"
    BY <1>8 DEF Kept, Holds
  <2>2. new[a].credential # "none" /\ new[a].request = "completed"
    BY <1>3, <1>4, <1>5, <2>1
       DEF Ages, SessionAges, RequestAges, RowEffect, RowSound, Operation, Timed,
           Open
  <2> QED
    BY <1>2, <1>8, <2>2 DEF Kept, Holds
<1>9. CASE fact[1] = "cancelled"
  <2>1. old[a].session # "pending" /\ old[a].request \notin Open
    BY <1>9 DEF Kept, Holds
  <2>2. new[a].session # "pending" /\ new[a].request \notin Open
    BY <1>3, <1>4, <1>5, <2>1
       DEF Ages, SessionAges, RequestAges, RowEffect, Operation, Timed, Open
  <2> QED
    BY <1>2, <1>9, <2>2 DEF Kept, Holds
<1>10. CASE fact[1] = "revoked"
  <2>1. old[a].device = "revoked"
    BY <1>10 DEF Kept
  <2>2. new[a].device = "revoked"
    BY <1>3, <1>4, <1>5, <2>1
       DEF Ages, SessionAges, RequestAges, RowEffect, RowSound, Operation, Timed
  <2>3. Holds(fact, new)
    BY <1>10, <2>2 DEF Holds, Accepted
  <2> QED
    BY <1>2, <1>10, <2>2, <2>3 DEF Kept
<1> QED
  BY <1>1, <1>6, <1>7, <1>8, <1>9, <1>10

\* What its caller is told of a change holds after it.
LEMMA EffectAnswers ==
  ASSUME BridgeTypeOK, queue # <<>>, Sound(file),
         Effect(file, memory, Head(queue).op, Id),
         Head(queue).op \notin {"createQr", "look"} => file[Id].session # "none"
  PROVE  Answer \subseteq Fact /\ \A fact \in Answer : Kept(fact, memory)
<1> DEFINE op == Head(queue).op
<1>1. op \in Operation \ {"revokeMe"}
  BY DEF Effect
<1>2. op # "look" => Id \in Attempt /\ RowEffect(file[Id], memory[Id], op)
  BY DEF Effect
<1>3. CASE op = "createQr"
  <2>1. Answer = {<<"qr", Id>>} /\ <<"qr", Id>> \in Fact
    BY <1>2, <1>3 DEF Answer, Fact
  <2>2. memory[Id].session # "none"
    BY <1>2, <1>3 DEF RowEffect
  <2> QED
    BY <2>1, <2>2 DEF Kept, Holds
<1>4. CASE op = "exchange"
  <2>1. Answer = {<<"exchanged", Id>>} /\ <<"exchanged", Id>> \in Fact
    BY <1>2, <1>4 DEF Answer, Fact
  <2>2. memory[Id].session = "consumed" /\ memory[Id].device # "none"
    BY <1>2, <1>4 DEF RowEffect
  <2> QED
    BY <2>1, <2>2 DEF Kept, Holds
<1>5. CASE op = "complete"
  <2>1. Answer = {<<"credential", Id>>} /\ <<"credential", Id>> \in Fact
    BY <1>2, <1>5 DEF Answer, Fact
  <2>2. /\ memory[Id].credential # "none" /\ memory[Id].request = "completed"
        /\ memory[Id].session # "none"
    BY <1>2, <1>5 DEF RowEffect, SessionAges
  <2> QED
    BY <2>1, <2>2 DEF Kept, Holds
<1>6. CASE op = "cancelSession"
  <2>1. Answer = {<<"cancelled", Id>>} /\ <<"cancelled", Id>> \in Fact
    BY <1>2, <1>6 DEF Answer, Fact
  <2>2. /\ memory[Id].session # "pending" /\ memory[Id].request \notin Open
        /\ memory[Id].session # "none"
    BY <1>2, <1>6 DEF RowEffect, Ages, SessionAges, RequestAges
  <2> QED
    BY <2>1, <2>2 DEF Kept, Holds
<1>7. CASE op = "revoke"
  <2>1. Answer = {<<"revoked", Id>>} /\ <<"revoked", Id>> \in Fact
    BY <1>2, <1>7 DEF Answer, Fact
  <2>2. memory[Id].device = "revoked" /\ memory[Id].session # "none"
    BY <1>2, <1>7 DEF RowEffect
  <2>3. Holds(<<"revoked", Id>>, memory)
    BY <2>2 DEF Holds, Accepted
  <2> QED
    BY <2>1, <2>2, <2>3 DEF Kept
<1>8. CASE op \notin {"createQr", "exchange", "complete", "cancelSession", "revoke"}
  BY <1>8 DEF Answer
<1> QED
  BY <1>3, <1>4, <1>5, <1>6, <1>7, <1>8
----------------------------------------------------------------------------
\* Time changes rows by ageing them.
LEMMA ExpiredAges ==
  ASSUME NEW rows \in [Attempt -> Row], NEW t \in Nat
  PROVE  /\ Expired(rows, t) \in [Attempt -> Row]
         /\ \A a \in Attempt : Ages(rows[a], Expired(rows, t)[a])
<1>1. ASSUME NEW a \in Attempt
      PROVE  /\ Expired(rows, t)[a] \in Row /\ Ages(rows[a], Expired(rows, t)[a])
  <2> DEFINE row == rows[a]
             s == IF row.session = "pending" /\ row.sessionEnd <= t
                  THEN "expired" ELSE row.session
             r == IF row.request \in Open /\ row.requestEnd <= t
                  THEN "expired" ELSE row.request
  <2>1. row \in Row
    OBVIOUS
  <2>2. Expired(rows, t)[a] = [row EXCEPT !.session = s, !.request = r]
    BY DEF Expired
  <2>3. s \in SessionState /\ r \in RequestState
    BY <2>1 DEF Row, SessionState, RequestState
  <2>4. SessionAges(row.session, s) /\ RequestAges(row.request, r)
    BY DEF SessionAges, RequestAges, Open
  <2> HIDE DEF row, s, r
  <2>5. /\ Expired(rows, t)[a] \in Row
        /\ Expired(rows, t)[a].session = s /\ Expired(rows, t)[a].request = r
        /\ Expired(rows, t)[a].device = row.device
        /\ Expired(rows, t)[a].credential = row.credential
    BY <2>1, <2>2, <2>3 DEF Row
  <2> QED
    BY <2>4, <2>5 DEF Ages, row
<1>2. Expired(rows, t) = [a \in Attempt |-> Expired(rows, t)[a]]
  BY DEF Expired
<1> QED
  BY <1>1, <1>2

\* The next code leaves nothing under way.
LEMMA AllCancelledAges ==
  ASSUME NEW rows \in [Attempt -> Row]
  PROVE  /\ AllCancelled(rows) \in [Attempt -> Row]
         /\ \A a \in Attempt : /\ Ages(rows[a], AllCancelled(rows)[a])
                               /\ ~Under(AllCancelled(rows), a)
<1>1. ASSUME NEW a \in Attempt
      PROVE  /\ AllCancelled(rows)[a] \in Row /\ Ages(rows[a], AllCancelled(rows)[a])
             /\ ~Under(AllCancelled(rows), a)
  <2> DEFINE row == rows[a]
             s == IF row.session = "pending" THEN "cancelled" ELSE row.session
             r == IF row.request \in Open THEN "cancelled" ELSE row.request
  <2>1. row \in Row
    OBVIOUS
  <2>2. AllCancelled(rows)[a] = [row EXCEPT !.session = s, !.request = r]
    BY DEF AllCancelled
  <2>3. s \in SessionState /\ r \in RequestState
    BY <2>1 DEF Row, SessionState, RequestState
  <2>4. SessionAges(row.session, s) /\ RequestAges(row.request, r)
    BY DEF SessionAges, RequestAges, Open
  <2>5. s # "pending" /\ r \notin Open
    BY DEF Open
  <2> HIDE DEF row, s, r
  <2>6. /\ AllCancelled(rows)[a] \in Row
        /\ AllCancelled(rows)[a].session = s /\ AllCancelled(rows)[a].request = r
        /\ AllCancelled(rows)[a].device = row.device
        /\ AllCancelled(rows)[a].credential = row.credential
    BY <2>1, <2>2, <2>3 DEF Row
  <2> QED
    BY <2>4, <2>5, <2>6 DEF Ages, Under, row
<1>2. AllCancelled(rows) = [a \in Attempt |-> AllCancelled(rows)[a]]
  BY DEF AllCancelled
<1> QED
  BY <1>1, <1>2

\* Ageing twice is ageing.
LEMMA AgesTwice ==
  ASSUME NEW r, NEW s, NEW t, Ages(r, s), Ages(s, t)
  PROVE  Ages(r, t)
BY DEF Ages, SessionAges, RequestAges, Open

\* A queue without its head.
LEMMA QueueTail ==
  ASSUME NEW calls \in Seq(CallType), calls # <<>>, NEW rows, QueueOK(calls, rows)
  PROVE  /\ Tail(calls) \in Seq(CallType) /\ QueueOK(Tail(calls), rows)
         /\ \A i \in 1..Len(Tail(calls)) :
              Tail(calls)[i].op = "createQr" /\ Head(calls).op = "createQr" =>
                Tail(calls)[i].id # Head(calls).id
<1>1. /\ Tail(calls) \in Seq(CallType) /\ Len(Tail(calls)) = Len(calls) - 1
      /\ \A i \in 1..Len(Tail(calls)) : Tail(calls)[i] = calls[i + 1]
  BY HeadTailProperties
<1>2. Len(calls) \in Nat /\ Len(calls) > 0 /\ Head(calls) = calls[1]
  BY EmptySeq
<1>3. \A i \in 1..Len(Tail(calls)) : i + 1 \in 1..Len(calls) /\ i + 1 # 1
  BY <1>1, <1>2
<1>4. QueueOK(Tail(calls), rows)
  <2>1. \A i, j \in 1..Len(Tail(calls)) : i + 1 = j + 1 => i = j
    BY <1>1, <1>2
  <2> QED
    BY <1>1, <1>3, <2>1 DEF QueueOK
<1> QED
  BY <1>1, <1>2, <1>3, <1>4 DEF QueueOK

\* A queue with one call more.
LEMMA QueueAppend ==
  ASSUME NEW calls \in Seq(CallType), NEW rows, QueueOK(calls, rows), NEW c \in CallType,
         c.op = "createQr" =>
           /\ c.id \in Attempt /\ rows[c.id].session = "none"
           /\ \A i \in 1..Len(calls) : calls[i].op = "createQr" => calls[i].id # c.id,
         c.op \notin {"createQr", "look"} => c.id \in Attempt /\ rows[c.id].session # "none",
         c.op \in {"revoke", "revokeMe"} => rows[c.id].device # "none"
  PROVE  /\ Append(calls, c) \in Seq(CallType) /\ QueueOK(Append(calls, c), rows)
         /\ Append(calls, c) # <<>>
         /\ calls # <<>> => Head(Append(calls, c)) = Head(calls)
<1> DEFINE more == Append(calls, c)
<1>1. /\ more \in Seq(CallType) /\ more # <<>> /\ Len(more) = Len(calls) + 1
      /\ \A i \in 1..Len(calls) : more[i] = calls[i]
      /\ more[Len(calls) + 1] = c
  BY AppendProperties
<1>2. Len(calls) \in Nat
  OBVIOUS
<1>3. \A i \in 1..Len(more) : i \in 1..Len(calls) \/ i = Len(calls) + 1
  BY <1>1, <1>2
<1>4. QueueOK(more, rows)
  <2>1. \A i \in 1..Len(more) :
          /\ more[i].op = "createQr" =>
               more[i].id \in Attempt /\ rows[more[i].id].session = "none"
          /\ more[i].op \notin {"createQr", "look"} =>
               more[i].id \in Attempt /\ rows[more[i].id].session # "none"
          /\ more[i].op \in {"revoke", "revokeMe"} => rows[more[i].id].device # "none"
    BY <1>1, <1>3 DEF QueueOK
  <2>2. ASSUME NEW i \in 1..Len(more), NEW j \in 1..Len(more),
               more[i].op = "createQr", more[j].op = "createQr", more[i].id = more[j].id
        PROVE  i = j
    BY <1>1, <1>3, <2>2 DEF QueueOK
  <2> QED
    BY <2>1, <2>2 DEF QueueOK
<1>5. calls # <<>> => Head(more) = Head(calls)
  BY HeadTailAppend
<1> QED
  BY <1>1, <1>4, <1>5

\* The calls that wait survive a change by another call.
LEMMA QueueEffect ==
  ASSUME NEW calls, NEW old \in [Attempt -> Row], NEW new, NEW op, NEW id,
         Sound(old), Effect(old, new, op, id), QueueOK(calls, old),
         \A i \in 1..Len(calls) :
           calls[i].op = "createQr" /\ op = "createQr" => calls[i].id # id
  PROVE  QueueOK(calls, new)
<1>1. \A a \in Attempt :
        /\ old[a].session # "none" => new[a].session # "none"
        /\ old[a].device # "none" => new[a].device # "none"
        /\ old[a].session = "none" /\ new[a].session # "none" => op = "createQr" /\ a = id
  BY EffectSessions
<1> QED
  BY <1>1 DEF QueueOK
----------------------------------------------------------------------------
\* The operation at the head of the queue has changed the rows in memory.
Wrote ==
  /\ queue # <<>> /\ ~writing /\ writing' = TRUE
  /\ before' = memory
  /\ UNCHANGED <<now, file, queue, told>>
  /\ Effect(file, memory', Head(queue).op, Id)

\* The call at the head of the queue.
LEMMA HeadCall ==
  ASSUME BridgeInvariant, queue # <<>>
  PROVE  /\ Head(queue) \in CallType /\ At \in Nat
         /\ Head(queue).op = "createQr" => Id \in Attempt /\ file[Id].session = "none"
         /\ Head(queue).op \notin {"createQr", "look"} =>
              Id \in Attempt /\ file[Id].session # "none"
         /\ Head(queue).op \in {"revoke", "revokeMe"} => file[Id].device # "none"
<1>1. queue \in Seq(CallType)
  BY DEF BridgeInvariant, BridgeTypeOK
<1>2. Head(queue) \in CallType
  BY <1>1, HeadTailProperties
<1>3. Head(queue) = queue[1] /\ 1 \in 1..Len(queue)
  BY <1>1, EmptySeq
<1> QED
  BY <1>2, <1>3 DEF BridgeInvariant, QueueOK, CallType, Id, At

\* A new session, with every other ended.
LEMMA CreateQrEffect ==
  ASSUME BridgeInvariant, CreateQr
  PROVE  Wrote
<1> DEFINE rows == AllCancelled(Expired(memory, At))
           new == [rows EXCEPT
                    ![Id] = [NoRow EXCEPT !.session = "pending", !.sessionEnd = At + PairingTtl]]
<1>1. /\ queue # <<>> /\ ~writing /\ Head(queue).op = "createQr"
      /\ memory = file /\ file \in [Attempt -> Row]
  BY DEF CreateQr, Turn, BridgeInvariant, BridgeTypeOK
<1>2. At \in Nat /\ Id \in Attempt /\ file[Id].session = "none"
  BY <1>1, HeadCall
<1>3. /\ rows \in [Attempt -> Row]
      /\ \A a \in Attempt : Ages(file[a], rows[a]) /\ ~Under(rows, a)
  BY <1>1, <1>2, ExpiredAges, AllCancelledAges, AgesTwice
<1>4. At + PairingTtl \in Nat
  BY <1>2, BridgeAssumption
<1>5. [NoRow EXCEPT !.session = "pending", !.sessionEnd = At + PairingTtl] \in Row
  BY <1>4 DEF NoRow, Row, SessionState, RequestState
<1> HIDE DEF rows
<1>6. /\ new \in [Attempt -> Row]
      /\ \A a \in Attempt \ {Id} : new[a] = rows[a]
      /\ new[Id].session = "pending" /\ new[Id].request = "none"
      /\ new[Id].device = "none" /\ new[Id].credential = "none"
  BY <1>2, <1>3, <1>5 DEF NoRow
<1>7. memory' = new /\ before' = memory /\ writing' = TRUE
      /\ UNCHANGED <<now, file, queue, told>>
  BY DEF CreateQr, Write, rows
<1> HIDE DEF new
<1>8. Effect(file, new, "createQr", Id)
  BY <1>2, <1>3, <1>6 DEF Effect, RowEffect, Under, Operation, Timed
<1> QED
  BY <1>1, <1>7, <1>8 DEF Wrote

\* The token of a pending session is consumed by a request.
LEMMA ExchangeEffect ==
  ASSUME BridgeInvariant, Exchange
  PROVE  Wrote \/ Refuse
<1> DEFINE rows == Expired(memory, At)
           new == [rows EXCEPT
                    ![Id].session = "consumed", ![Id].device = "pending",
                    ![Id].request = "awaiting_confirmation",
                    ![Id].requestEnd = At + ConfirmationTtl]
<1> SUFFICES ASSUME rows[Id].session = "pending", Write(new) PROVE Wrote
  BY DEF Exchange
<1>1. /\ queue # <<>> /\ ~writing /\ Head(queue).op = "exchange"
      /\ memory = file /\ file \in [Attempt -> Row]
  BY DEF Exchange, Turn, BridgeInvariant, BridgeTypeOK
<1>2. At \in Nat /\ Id \in Attempt
  BY <1>1, HeadCall
<1>3. rows \in [Attempt -> Row] /\ \A a \in Attempt : Ages(file[a], rows[a])
  BY <1>1, <1>2, ExpiredAges
<1>4. At + ConfirmationTtl \in Nat
  BY <1>2, BridgeAssumption
<1>5. memory' = new /\ before' = memory /\ writing' = TRUE
      /\ UNCHANGED <<now, file, queue, told>>
  BY DEF Write
<1>6. rows[Id].session = "pending"
  OBVIOUS
<1> HIDE DEF rows
<1>7. /\ new \in [Attempt -> Row]
      /\ \A a \in Attempt \ {Id} : new[a] = rows[a]
      /\ new[Id].session = "consumed" /\ new[Id].request = "awaiting_confirmation"
      /\ new[Id].device = "pending" /\ new[Id].credential = rows[Id].credential
  BY <1>2, <1>3, <1>4 DEF Row, SessionState, RequestState, Open
<1> HIDE DEF new
<1>8. Effect(file, new, "exchange", Id)
  BY <1>2, <1>3, <1>6, <1>7 DEF Effect, RowEffect, Ages, SessionAges, Operation, Timed
<1> QED
  BY <1>1, <1>5, <1>8 DEF Wrote

\* A look changes what is out of time.
LEMMA LookEffect ==
  ASSUME BridgeInvariant, Look
  PROVE  Wrote
<1>1. /\ queue # <<>> /\ ~writing /\ Head(queue).op = "look"
      /\ memory = file /\ file \in [Attempt -> Row]
  BY DEF Look, Turn, BridgeInvariant, BridgeTypeOK
<1>2. At \in Nat
  BY <1>1, HeadCall
<1>3. /\ Expired(file, At) \in [Attempt -> Row]
      /\ \A a \in Attempt : Ages(file[a], Expired(file, At)[a])
  BY <1>1, <1>2, ExpiredAges
<1>4. Effect(file, Expired(file, At), "look", Id)
  BY <1>3 DEF Effect, Operation, Timed
<1> QED
  BY <1>1, <1>4 DEF Wrote, Look, Write

\* The host confirms a request that waits for it.
LEMMA ConfirmEffect ==
  ASSUME BridgeInvariant, Confirm
  PROVE  Wrote \/ Refuse
<1> DEFINE rows == Expired(memory, At)
           new == [rows EXCEPT ![Id].request = "confirmed"]
<1> SUFFICES ASSUME rows[Id].request = "awaiting_confirmation", Write(new) PROVE Wrote
  BY DEF Confirm
<1>1. /\ queue # <<>> /\ ~writing /\ Head(queue).op = "confirm"
      /\ memory = file /\ file \in [Attempt -> Row]
  BY DEF Confirm, Turn, BridgeInvariant, BridgeTypeOK
<1>2. At \in Nat /\ Id \in Attempt
  BY <1>1, HeadCall
<1>3. rows \in [Attempt -> Row] /\ \A a \in Attempt : Ages(file[a], rows[a])
  BY <1>1, <1>2, ExpiredAges
<1>4. memory' = new /\ before' = memory /\ writing' = TRUE
      /\ UNCHANGED <<now, file, queue, told>>
  BY DEF Write
<1>5. rows[Id].request = "awaiting_confirmation"
  OBVIOUS
<1> HIDE DEF rows
<1>6. /\ new \in [Attempt -> Row]
      /\ \A a \in Attempt \ {Id} : new[a] = rows[a]
      /\ new[Id].session = rows[Id].session /\ new[Id].request = "confirmed"
      /\ new[Id].device = rows[Id].device /\ new[Id].credential = rows[Id].credential
  BY <1>2, <1>3 DEF Row, RequestState, Open
<1> HIDE DEF new
<1>7. Effect(file, new, "confirm", Id)
  BY <1>2, <1>3, <1>5, <1>6 DEF Effect, RowEffect, Ages, RequestAges, Operation, Timed
<1> QED
  BY <1>1, <1>4, <1>7 DEF Wrote

\* A confirmed request gives its device a credential.
LEMMA CompleteEffect ==
  ASSUME BridgeInvariant, Complete
  PROVE  Wrote \/ Refuse
<1> DEFINE rows == Expired(memory, At)
           new == [rows EXCEPT
                    ![Id].device = "active", ![Id].request = "completed",
                    ![Id].credential = "active", ![Id].credentialEnd = At + CredentialTtl]
<1> SUFFICES ASSUME rows[Id].request = "confirmed", rows[Id].device = "pending", Write(new)
             PROVE  Wrote
  BY DEF Complete
<1>1. /\ queue # <<>> /\ ~writing /\ Head(queue).op = "complete"
      /\ memory = file /\ file \in [Attempt -> Row]
  BY DEF Complete, Turn, BridgeInvariant, BridgeTypeOK
<1>2. At \in Nat /\ Id \in Attempt
  BY <1>1, HeadCall
<1>3. rows \in [Attempt -> Row] /\ \A a \in Attempt : Ages(file[a], rows[a])
  BY <1>1, <1>2, ExpiredAges
<1>4. At + CredentialTtl \in Nat
  BY <1>2, BridgeAssumption
<1>5. memory' = new /\ before' = memory /\ writing' = TRUE
      /\ UNCHANGED <<now, file, queue, told>>
  BY DEF Write
<1>6. rows[Id].request = "confirmed" /\ rows[Id].device = "pending"
  OBVIOUS
<1> HIDE DEF rows
<1>7. /\ new \in [Attempt -> Row]
      /\ \A a \in Attempt \ {Id} : new[a] = rows[a]
      /\ new[Id].session = rows[Id].session /\ new[Id].request = "completed"
      /\ new[Id].device = "active" /\ new[Id].credential = "active"
  BY <1>2, <1>3, <1>4 DEF Row, RequestState
<1> HIDE DEF new
<1>8. Effect(file, new, "complete", Id)
  BY <1>2, <1>3, <1>6, <1>7 DEF Effect, RowEffect, Ages, RequestAges, Operation, Timed
<1> QED
  BY <1>1, <1>5, <1>8 DEF Wrote

\* A cancelled session takes its request with it.
LEMMA CancelSessionEffect ==
  ASSUME BridgeInvariant, CancelSession
  PROVE  Wrote
<1> DEFINE s == IF memory[Id].session = "pending" THEN "cancelled" ELSE memory[Id].session
           r == IF memory[Id].request \in Open THEN "cancelled" ELSE memory[Id].request
           row == [memory[Id] EXCEPT !.session = s, !.request = r]
           new == [memory EXCEPT ![Id] = row]
<1>1. /\ queue # <<>> /\ ~writing /\ Head(queue).op = "cancelSession"
      /\ memory = file /\ file \in [Attempt -> Row]
  BY DEF CancelSession, Turn, BridgeInvariant, BridgeTypeOK
<1>2. Id \in Attempt
  BY <1>1, HeadCall
<1>3. memory' = new /\ before' = memory /\ writing' = TRUE
      /\ UNCHANGED <<now, file, queue, told>>
  BY DEF CancelSession, Write
<1>4. /\ SessionAges(memory[Id].session, s) /\ s # "pending"
      /\ RequestAges(memory[Id].request, r) /\ r \notin Open
      /\ s \in SessionState /\ r \in RequestState
  BY <1>1, <1>2 DEF SessionAges, RequestAges, Open, Row, SessionState, RequestState
<1> HIDE DEF s, r
<1>5. /\ row \in Row
      /\ row.session = s /\ row.request = r
      /\ row.device = memory[Id].device /\ row.credential = memory[Id].credential
  <2>1. memory[Id] \in Row
    BY <1>1, <1>2
  <2> QED
    BY <1>4, <2>1 DEF Row
<1> HIDE DEF row
<1>6. /\ new \in [Attempt -> Row]
      /\ \A a \in Attempt \ {Id} : new[a] = memory[a]
      /\ new[Id] = row
  BY <1>1, <1>2, <1>5
<1> HIDE DEF new
<1>7. \A a \in Attempt \ {Id} : Ages(file[a], new[a])
  BY <1>1, <1>6 DEF Ages, SessionAges, RequestAges
<1>8. Effect(file, new, "cancelSession", Id)
  BY <1>1, <1>2, <1>4, <1>5, <1>6, <1>7 DEF Effect, RowEffect, Ages, Operation, Timed
<1> QED
  BY <1>1, <1>3, <1>8 DEF Wrote

\* A cancelled request is over.
LEMMA CancelRequestEffect ==
  ASSUME BridgeInvariant, CancelRequest
  PROVE  Wrote
<1> DEFINE r == IF memory[Id].request \in Open THEN "cancelled" ELSE memory[Id].request
           row == [memory[Id] EXCEPT !.request = r]
           new == [memory EXCEPT ![Id] = row]
<1>1. /\ queue # <<>> /\ ~writing /\ Head(queue).op = "cancelRequest"
      /\ memory = file /\ file \in [Attempt -> Row]
  BY DEF CancelRequest, Turn, BridgeInvariant, BridgeTypeOK
<1>2. Id \in Attempt
  BY <1>1, HeadCall
<1>3. memory' = new /\ before' = memory /\ writing' = TRUE
      /\ UNCHANGED <<now, file, queue, told>>
  BY DEF CancelRequest, Write
<1>4. RequestAges(memory[Id].request, r) /\ r \in RequestState
  BY <1>1, <1>2 DEF RequestAges, Open, Row, RequestState
<1> HIDE DEF r
<1>5. /\ row \in Row
      /\ row.session = memory[Id].session /\ row.request = r
      /\ row.device = memory[Id].device /\ row.credential = memory[Id].credential
  <2>1. memory[Id] \in Row
    BY <1>1, <1>2
  <2> QED
    BY <1>4, <2>1 DEF Row
<1> HIDE DEF row
<1>6. /\ new \in [Attempt -> Row]
      /\ \A a \in Attempt \ {Id} : new[a] = memory[a]
      /\ new[Id] = row
  BY <1>1, <1>2, <1>5
<1> HIDE DEF new
<1>7. \A a \in Attempt \ {Id} : Ages(file[a], new[a])
  BY <1>1, <1>6 DEF Ages, SessionAges, RequestAges
<1>8. Effect(file, new, "cancelRequest", Id)
  BY <1>1, <1>2, <1>4, <1>5, <1>6, <1>7
     DEF Effect, RowEffect, Ages, SessionAges, Operation, Timed
<1> QED
  BY <1>1, <1>3, <1>8 DEF Wrote

\* Revocation takes the credential, if there is one.
LEMMA RevokeEffect ==
  ASSUME BridgeInvariant, RevokeDevice
  PROVE  Wrote
<1> DEFINE c == IF memory[Id].credential = "none" THEN "none" ELSE "revoked"
           row == [memory[Id] EXCEPT !.device = "revoked", !.credential = c]
           new == [memory EXCEPT ![Id] = row]
<1>1. /\ queue # <<>> /\ ~writing /\ Head(queue).op = "revoke"
      /\ memory = file /\ file \in [Attempt -> Row]
  BY DEF RevokeDevice, Turn, BridgeInvariant, BridgeTypeOK
<1>2. Id \in Attempt /\ file[Id].device # "none"
  BY <1>1, HeadCall
<1>3. memory' = new /\ before' = memory /\ writing' = TRUE
      /\ UNCHANGED <<now, file, queue, told>>
  BY DEF RevokeDevice, Write
<1>4. /\ row \in Row
      /\ row.session = memory[Id].session /\ row.request = memory[Id].request
      /\ row.device = "revoked" /\ row.credential = c
  <2>1. c \in {"none", "active", "revoked"} /\ memory[Id] \in Row
    BY <1>1, <1>2
  <2> HIDE DEF c
  <2> QED
    BY <2>1 DEF Row
<1> HIDE DEF row
<1>5. /\ new \in [Attempt -> Row]
      /\ \A a \in Attempt \ {Id} : new[a] = memory[a]
      /\ new[Id] = row
  BY <1>1, <1>2, <1>4
<1>6. \A a \in Attempt \ {Id} : Ages(file[a], new[a])
  BY <1>1, <1>5 DEF Ages, SessionAges, RequestAges
<1>7. Effect(file, new, "revoke", Id)
  BY <1>1, <1>2, <1>4, <1>5, <1>6 DEF Effect, RowEffect, Operation, Timed
<1> QED
  BY <1>1, <1>3, <1>7 DEF Wrote
----------------------------------------------------------------------------
\* Every operation writes rows that its effect allows, or refuses.
LEMMA OperationEffect ==
  ASSUME BridgeInvariant,
         \/ CreateQr \/ Exchange \/ Look \/ Confirm \/ Complete
         \/ CancelSession \/ CancelRequest \/ RevokeDevice
  PROVE  Wrote \/ (Refuse /\ queue # <<>> /\ ~writing)
BY CreateQrEffect, ExchangeEffect, LookEffect, ConfirmEffect, CompleteEffect,
   CancelSessionEffect, CancelRequestEffect, RevokeEffect
   DEF Exchange, Confirm, Complete, Turn

LEMMA WroteStep ==
  ASSUME BridgeInvariant, Wrote
  PROVE  BridgeInvariant'
<1>1. /\ memory' \in [Attempt -> Row] /\ before' = file
  BY DEF Wrote, Effect, BridgeInvariant
<1>2. Effect(file', memory', Head(queue').op, Head(queue').id)
  BY DEF Wrote, Id
<1> QED
  BY <1>1, <1>2 DEF Wrote, BridgeInvariant, BridgeTypeOK, Sound, QueueOK, Kept,
                    Under, Holds, Effect

\* The head of the queue leaves it and the rows stay.
LEMMA RefuseStep ==
  ASSUME BridgeInvariant, queue # <<>>, memory' = file, file' = file, before' = file,
         writing' = FALSE, queue' = Tail(queue), UNCHANGED <<now, told>>
  PROVE  BridgeInvariant'
<1>1. queue' \in Seq(CallType) /\ QueueOK(queue', file)
  BY QueueTail DEF BridgeInvariant, BridgeTypeOK
<1> QED
  BY <1>1 DEF BridgeInvariant, BridgeTypeOK, Sound, QueueOK, Kept, Under, Holds

\* The rename: what was told before holds in the new file, and so does the
\* answer that is given now.
LEMMA RenamedStep ==
  ASSUME BridgeInvariant, writing, NEW calls \in Seq(CallType), NEW facts \in SUBSET Fact,
         memory' = memory, file' = memory, before' = memory, writing' = FALSE, now' = now,
         queue' = calls, calls \in {Tail(queue), <<>>},
         told' = facts, facts \in {told, told \cup Answer}
  PROVE  BridgeInvariant'
<1>1. /\ queue # <<>> /\ queue \in Seq(CallType)
      /\ Effect(file, memory, Head(queue).op, Id)
      /\ Sound(file) /\ file \in [Attempt -> Row] /\ QueueOK(queue, file)
      /\ told \subseteq Fact /\ \A fact \in told : Kept(fact, file)
  BY DEF BridgeInvariant, BridgeTypeOK, Id
<1>2. /\ memory \in [Attempt -> Row] /\ Sound(memory)
  BY <1>1, EffectSound DEF BridgeInvariant, BridgeTypeOK
<1>3. QueueOK(calls, memory)
  <2>1. CASE calls = <<>>
    BY <2>1 DEF QueueOK
  <2>2. CASE calls = Tail(queue)
    <3>1. /\ QueueOK(Tail(queue), file)
          /\ \A i \in 1..Len(Tail(queue)) :
               Tail(queue)[i].op = "createQr" /\ Head(queue).op = "createQr" =>
                 Tail(queue)[i].id # Id
      BY <1>1, QueueTail DEF Id
    <3> QED
      BY <1>1, <2>2, <3>1, QueueEffect
  <2> QED
    BY <2>1, <2>2
<1>4. \A fact \in told : Kept(fact, memory)
  BY <1>1, EffectKeeps
<1>5. \A fact \in Answer : Kept(fact, memory)
  BY <1>1, HeadCall, EffectAnswers DEF BridgeInvariant
<1>6. \A fact \in facts : Kept(fact, memory)
  BY <1>4, <1>5
<1>7. Sound(file)'
  BY <1>2 DEF Sound, Under
<1>8. QueueOK(queue, file)'
  BY <1>3 DEF QueueOK
<1>9. (\A fact \in told : Kept(fact, file))'
  BY <1>6 DEF Kept, Holds
<1>10. BridgeTypeOK'
  BY <1>2 DEF BridgeInvariant, BridgeTypeOK
<1> QED
  BY <1>7, <1>8, <1>9, <1>10 DEF BridgeInvariant

\* A call waits its turn behind the others.
LEMMA CallStep ==
  ASSUME BridgeInvariant, NEW op \in Operation, NEW id \in Attempt \cup {Nobody}, Call(op, id)
  PROVE  BridgeInvariant'
<1> DEFINE c == NewCall(op, id)
<1>1. /\ queue \in Seq(CallType) /\ QueueOK(queue, file) /\ now \in Nat
      /\ \A fact \in told : Kept(fact, file)
  BY DEF BridgeInvariant, BridgeTypeOK
<1>2. c \in CallType /\ c.op = op /\ c.id = id
  BY <1>1 DEF NewCall, CallType
<1>3. \A a \in Attempt : RowSound(file[a])
  BY DEF BridgeInvariant, Sound
<1>4. op = "createQr" =>
        /\ id \in Attempt /\ file[id].session = "none"
        /\ \A i \in 1..Len(queue) : queue[i].op = "createQr" => queue[i].id # id
  BY <1>1 DEF Call, May
<1>5. op \notin {"createQr", "look"} => id \in Attempt /\ file[id].session # "none"
  <2>1. CASE op \in {"exchange", "cancelSession"}
    <3>1. <<"qr", id>> \in told /\ <<"qr", id>> \in Fact
      BY <2>1 DEF Call, May, BridgeInvariant, BridgeTypeOK
    <3> QED
      BY <1>1, <3>1 DEF Kept, Fact
  <2>2. CASE op \in {"confirm", "cancelRequest", "revoke"}
    <3>1. id \in Attempt /\ file[id].device # "none"
      BY <2>2 DEF Call, May
    <3> QED
      BY <1>3, <3>1 DEF RowSound
  <2>3. CASE op = "complete"
    <3>1. <<"exchanged", id>> \in told /\ <<"exchanged", id>> \in Fact
      BY <2>3 DEF Call, May, BridgeInvariant, BridgeTypeOK
    <3> QED
      BY <1>1, <3>1 DEF Kept, Fact
  <2>4. CASE op = "revokeMe"
    <3>1. <<"credential", id>> \in told /\ <<"credential", id>> \in Fact
      BY <2>4 DEF Call, May, BridgeInvariant, BridgeTypeOK
    <3> QED
      BY <1>1, <3>1 DEF Kept, Fact
  <2> QED
    BY <2>1, <2>2, <2>3, <2>4 DEF Operation, Timed
<1>6. op \in {"revoke", "revokeMe"} => file[id].device # "none"
  <2>1. CASE op = "revoke"
    BY <2>1 DEF Call, May
  <2>2. CASE op = "revokeMe"
    <3>1. <<"credential", id>> \in told /\ id \in Attempt
      BY <1>5, <2>2 DEF Call, May
    <3>2. file[id].credential # "none"
      BY <1>1, <3>1 DEF Kept, Holds
    <3> QED
      BY <1>3, <3>1, <3>2 DEF RowSound
  <2> QED
    BY <2>1, <2>2
<1> HIDE DEF c
<1>7. /\ Append(queue, c) \in Seq(CallType) /\ QueueOK(Append(queue, c), file)
      /\ Append(queue, c) # <<>>
      /\ queue # <<>> => Head(Append(queue, c)) = Head(queue)
  BY <1>1, <1>2, <1>4, <1>5, <1>6, QueueAppend
<1>8. queue' = Append(queue, c) /\ UNCHANGED <<now, memory, before, file, writing, told>>
  BY DEF Call, c
<1> QED
  BY <1>7, <1>8
     DEF BridgeInvariant, BridgeTypeOK, Sound, QueueOK, Kept, Under, Holds, Effect

\* A device that is served revokes itself in a later turn.
LEMMA RevokeMeStep ==
  ASSUME BridgeInvariant, RevokeMe
  PROVE  BridgeInvariant'
<1> DEFINE c == NewCall("revoke", Id)
<1>1. /\ queue # <<>> /\ ~writing /\ Head(queue).op = "revokeMe"
      /\ memory = file /\ before = file
      /\ queue \in Seq(CallType) /\ QueueOK(queue, file) /\ now \in Nat
  BY DEF RevokeMe, Turn, BridgeInvariant, BridgeTypeOK
<1>2. Id \in Attempt /\ file[Id].session # "none" /\ file[Id].device # "none"
  BY <1>1, HeadCall
<1>3. c \in CallType /\ c.op = "revoke" /\ c.id = Id
  BY <1>2 DEF NewCall, CallType, Operation, Timed
<1>4. Tail(queue) \in Seq(CallType) /\ QueueOK(Tail(queue), file)
  BY <1>1, QueueTail
<1> HIDE DEF c
<1>5. /\ Append(Tail(queue), c) \in Seq(CallType)
      /\ QueueOK(Append(Tail(queue), c), file)
  BY <1>2, <1>3, <1>4, QueueAppend
<1>6. /\ queue' \in {Append(Tail(queue), c), Tail(queue)}
      /\ UNCHANGED <<now, memory, before, file, writing, told>>
  BY DEF RevokeMe, c
<1>7. queue' \in Seq(CallType) /\ QueueOK(queue', file)
  BY <1>4, <1>5, <1>6
<1>8. Sound(file)'
  BY <1>6 DEF BridgeInvariant, Sound, Under
<1>9. QueueOK(queue, file)'
  BY <1>6, <1>7 DEF QueueOK
<1>10. (\A fact \in told : Kept(fact, file))'
  BY <1>6 DEF BridgeInvariant, Kept, Holds
<1>11. BridgeTypeOK'
  BY <1>6, <1>7 DEF BridgeInvariant, BridgeTypeOK
<1> QED
  BY <1>1, <1>6, <1>8, <1>9, <1>10, <1>11 DEF BridgeInvariant
----------------------------------------------------------------------------
\* The process starts again from a file the renames left alone.
LEMMA RestartStep ==
  ASSUME BridgeInvariant, memory' = file, file' = file, before' = file,
         writing' = FALSE, queue' = <<>>, UNCHANGED <<now, told>>
  PROVE  BridgeInvariant'
<1>1. queue' \in Seq(CallType) /\ QueueOK(queue', file)
  BY DEF QueueOK
<1>2. Sound(file)' /\ QueueOK(queue, file)'
  BY <1>1 DEF BridgeInvariant, Sound, Under, QueueOK
<1>3. (\A fact \in told : Kept(fact, file))' /\ BridgeTypeOK'
  BY <1>1 DEF BridgeInvariant, BridgeTypeOK, Kept, Holds
<1> QED
  BY <1>2, <1>3 DEF BridgeInvariant

\* Nothing is paired, waits or was told at first.
LEMMA InvariantInitially == Init => BridgeInvariant
<1> SUFFICES ASSUME Init PROVE BridgeInvariant
  OBVIOUS
<1>1. NoRow \in Row
  BY DEF NoRow, Row, SessionState, RequestState
<1>2. BridgeTypeOK
  <2>1. queue \in Seq(CallType)
    BY EmptySeq DEF Init
  <2>2. memory \in [Attempt -> Row]
    BY <1>1 DEF Init
  <2> QED
    BY <2>1, <2>2 DEF Init, BridgeTypeOK
<1>3. Sound(file)
  BY DEF Init, NoRow, Sound, RowSound, Under, Open
<1>4. QueueOK(queue, file)
  BY DEF Init, QueueOK
<1> QED
  BY <1>2, <1>3, <1>4 DEF Init, BridgeInvariant

LEMMA InvariantStep ==
  ASSUME BridgeInvariant, [Next]_vars
  PROVE  BridgeInvariant'
<1>1. ASSUME NEW op \in Operation, NEW id \in Attempt \cup {Nobody}, Call(op, id)
      PROVE  BridgeInvariant'
  BY <1>1, CallStep
<1>2. CASE \/ CreateQr \/ Exchange \/ Look \/ Confirm \/ Complete
           \/ CancelSession \/ CancelRequest \/ RevokeDevice
  <2>1. CASE Wrote
    BY <2>1, WroteStep
  <2>2. CASE Refuse /\ queue # <<>> /\ ~writing
    <3>1. writing = FALSE
      BY <2>2 DEF BridgeInvariant, BridgeTypeOK
    <3> QED
      BY <2>2, <3>1, RefuseStep DEF Refuse, BridgeInvariant
  <2> QED
    BY <1>2, <2>1, <2>2, OperationEffect
<1>3. CASE RevokeMe
  BY <1>3, RevokeMeStep
<1>4. CASE Persisted
  <2>1. /\ queue # <<>> /\ queue \in Seq(CallType) /\ told \subseteq Fact /\ Sound(file)
        /\ Effect(file, memory, Head(queue).op, Id)
    BY <1>4 DEF Persisted, BridgeInvariant, BridgeTypeOK, Id
  <2>2. Tail(queue) \in Seq(CallType)
    BY <2>1, HeadTailProperties
  <2>3. told \cup Answer \in SUBSET Fact
    BY <2>1, HeadCall, EffectAnswers DEF BridgeInvariant
  <2> QED
    BY <1>4, <2>2, <2>3, RenamedStep DEF Persisted
<1>5. CASE PersistFails
  BY <1>5, RefuseStep DEF PersistFails, BridgeInvariant
<1>6. CASE Crash
  <2>1. CASE UNCHANGED file
    BY <1>6, <2>1, RestartStep DEF Crash
  <2>2. CASE writing /\ file' = memory
    <3>1. <<>> \in Seq(CallType) /\ told \in SUBSET Fact
      BY DEF BridgeInvariant, BridgeTypeOK
    <3> QED
      BY <1>6, <2>2, <3>1, RenamedStep DEF Crash
  <2> QED
    BY <1>6, <2>1, <2>2 DEF Crash
<1>7. CASE Tick \/ UNCHANGED vars
  <2>1. UNCHANGED <<memory, before, file, queue, writing, told>> /\ now' \in Nat
    BY <1>7 DEF Tick, vars, BridgeInvariant, BridgeTypeOK
  <2> QED
    BY <2>1 DEF BridgeInvariant, BridgeTypeOK, Sound, Under, QueueOK, Kept, Holds, Effect
<1> QED
  BY <1>1, <1>2, <1>3, <1>4, <1>5, <1>6, <1>7 DEF Next

\* The tables, the queue and the answers agree in every reachable state.
THEOREM BridgeInvariantHolds == Spec => []BridgeInvariant
<1> QED
  BY InvariantInitially, InvariantStep, PTL DEF Spec

\* No failed write and no end of the process takes back an answer: what a caller
\* was told holds in the file and in memory (state.ts, mutate).
THEOREM AnswersAreDurable == Spec => []AnswersDurable
<1>1. ASSUME BridgeInvariant PROVE AnswersDurable
  <2>1. \A fact \in told : Kept(fact, file)
    BY <1>1 DEF BridgeInvariant
  <2>2. \A fact \in told : Kept(fact, memory)
    <3>1. CASE ~writing
      BY <1>1, <2>1, <3>1 DEF BridgeInvariant
    <3>2. CASE writing
      BY <1>1, <2>1, <3>2, EffectKeeps DEF BridgeInvariant, BridgeTypeOK
    <3> QED
      BY <3>1, <3>2
  <2> QED
    BY <2>1, <2>2 DEF AnswersDurable, Kept
<1> QED
  BY <1>1, BridgeInvariantHolds, PTL
----------------------------------------------------------------------------
\* The attempt under way, if there is one, is the live one.
LEMMA LiveFacts ==
  ASSUME NEW rows, Sound(rows)
  PROVE  /\ \A a \in Attempt : Under(rows, a) => LiveIn(rows) = a
         /\ (\A a \in Attempt : ~Under(rows, a)) => LiveIn(rows) = Nobody
         /\ LiveIn(rows) # Nobody => LiveIn(rows) \in Attempt /\ Under(rows, LiveIn(rows))
BY DEF LiveIn, Sound

\* How far it is.
LEMMA StageFacts ==
  ASSUME NEW rows, Sound(rows), NEW a \in Attempt
  PROVE  /\ rows[a].session = "pending" => StageIn(rows, a) = "offered"
         /\ rows[a].request = "awaiting_confirmation" => StageIn(rows, a) = "asked"
         /\ rows[a].request = "confirmed" => StageIn(rows, a) = "confirmed"
         /\ StageIn(rows, Nobody) = "none"
<1>1. a # Nobody /\ RowSound(rows[a])
  BY BridgeAssumption DEF Sound
<1> QED
  BY <1>1 DEF StageIn, RowSound

LEMMA InitMaps == Init => Admission!Init
<1> SUFFICES ASSUME Init PROVE Admission!Init
  OBVIOUS
<1>1. Sound(file) /\ \A a \in Attempt : ~Under(file, a)
  BY InvariantInitially DEF BridgeInvariant, Init, NoRow, Under, Open
<1>2. LiveIn(file) = Nobody /\ StageIn(file, LiveIn(file)) = "none"
  BY <1>1, LiveFacts DEF StageIn
<1> QED
  BY <1>2 DEF Admission!Init, Init, NoRow

\* Ageing ends the attempt under way or leaves it where it is.
LEMMA LiveAges ==
  ASSUME NEW old, NEW new, Sound(old), Sound(new),
         \A a \in Attempt : /\ SessionAges(old[a].session, new[a].session)
                            /\ RequestAges(old[a].request, new[a].request)
  PROVE  \/ LiveIn(new) = LiveIn(old) /\ StageIn(new, LiveIn(new)) = StageIn(old, LiveIn(old))
         \/ LiveIn(old) # Nobody /\ LiveIn(new) = Nobody /\ StageIn(new, LiveIn(new)) = "none"
<1> DEFINE is == LiveIn(new)
<1>1. CASE is = Nobody
  BY <1>1 DEF StageIn
<1>2. CASE is # Nobody
  <2>1. is \in Attempt /\ Under(new, is)
    BY <1>2, LiveFacts
  <2>2. /\ new[is].session = "pending" => old[is].session = "pending"
        /\ new[is].request \in Open => old[is].request = new[is].request
    BY <2>1 DEF SessionAges, RequestAges, Open
  <2>3. Under(old, is) /\ LiveIn(old) = is
    <3>1. Under(old, is)
      BY <2>1, <2>2 DEF Under
    <3> QED
      BY <2>1, <3>1, LiveFacts
  <2>4. StageIn(new, is) = StageIn(old, is)
    <3>1. CASE new[is].session = "pending"
      BY <2>1, <2>2, <3>1, StageFacts
    <3>2. CASE new[is].request = "awaiting_confirmation"
      BY <2>1, <2>2, <3>2, StageFacts DEF Open
    <3>3. CASE new[is].request = "confirmed"
      BY <2>1, <2>2, <3>3, StageFacts DEF Open
    <3> QED
      BY <2>1, <3>1, <3>2, <3>3 DEF Under, Open
  <2> QED
    BY <2>3, <2>4
<1> QED
  BY <1>1, <1>2

\* A mutation that reaches the file is a step of BridgeAdmission.
LEMMA RenameMaps ==
  ASSUME BridgeInvariant, writing, file' = memory
  PROVE  Admission!Next \/ UNCHANGED Admission!vars
<1> DEFINE op == Head(queue).op
           was == LiveIn(file)
           is == LiveIn(memory)
<1>1. /\ Sound(file) /\ Sound(memory)
      /\ Effect(file, memory, op, Id)
      /\ file \in [Attempt -> Row] /\ memory \in [Attempt -> Row]
  BY EffectSound DEF BridgeInvariant, BridgeTypeOK, Id
<1>2. /\ op \in Operation \ {"revokeMe"}
      /\ op # "look" => Id \in Attempt /\ RowEffect(file[Id], memory[Id], op)
      /\ op = "look" => \A a \in Attempt : Ages(file[a], memory[a])
      /\ \A a \in Attempt \ {Id} : Ages(file[a], memory[a])
  BY <1>1 DEF Effect
<1>3. Id \in Attempt => Id # Nobody /\ RowSound(file[Id]) /\ RowSound(memory[Id])
  BY <1>1, BridgeAssumption DEF Sound
<1>4. /\ LiveIn(file)' = is /\ StageIn(file, LiveIn(file))' = StageIn(memory, is)
  BY DEF LiveIn, StageIn, Under
<1>5. op # "createQr" =>
        {a \in Attempt : memory[a].session # "none"} = {a \in Attempt : file[a].session # "none"}
  BY <1>1, EffectSessions
<1> HIDE DEF op, was, is
<1>6. CASE op = "createQr"
  <2>1. Under(memory, Id) /\ is = Id /\ StageIn(memory, is) = "offered"
    BY <1>1, <1>2, <1>6, LiveFacts, StageFacts DEF RowEffect, Under, is
  <2>2. /\ Id \in Attempt /\ file[Id].session = "none" /\ memory[Id].session = "pending"
        /\ file[Id].credential = "none" /\ memory[Id].credential = "none"
        /\ file[Id].device = "none" /\ memory[Id].device = "none"
    BY <1>2, <1>3, <1>6 DEF RowEffect, RowSound
  <2>3. {a \in Attempt : memory[a].session # "none"} =
          {a \in Attempt : file[a].session # "none"} \cup {Id}
    BY <1>1, <1>2, <1>6, <2>2, EffectSessions
  <2>4. /\ \A a \in Attempt : memory[a].credential = file[a].credential
        /\ \A a \in Attempt : memory[a].device = file[a].device
    BY <1>2, <2>2 DEF Ages
  <2> QED
    BY <1>4, <2>1, <2>2, <2>3, <2>4 DEF Admission!Next, Admission!Offer
<1>7. CASE op = "exchange"
  <2>1. /\ Id \in Attempt /\ file[Id].session = "pending" /\ file[Id].device = "none"
        /\ memory[Id].session = "consumed" /\ memory[Id].request = "awaiting_confirmation"
        /\ memory[Id].device = "pending" /\ memory[Id].credential = file[Id].credential
    BY <1>2, <1>3, <1>7 DEF RowEffect, RowSound
  <2>2. was = Id /\ StageIn(file, was) = "offered"
    BY <1>1, <2>1, LiveFacts, StageFacts DEF Under, was
  <2>3. is = Id /\ StageIn(memory, is) = "asked"
    BY <1>1, <2>1, LiveFacts, StageFacts DEF Under, is, Open
  <2>4. /\ \A a \in Attempt : memory[a].credential = file[a].credential
        /\ \A a \in Attempt : memory[a].device = "revoked" <=> file[a].device = "revoked"
    BY <1>2, <2>1 DEF Ages
  <2> QED
    BY <1>3, <1>4, <1>5, <1>7, <2>1, <2>2, <2>3, <2>4
       DEF Admission!Next, Admission!Ask, Admission!Advance, was
<1>8. CASE op = "confirm"
  <2>1. /\ Id \in Attempt /\ file[Id].request = "awaiting_confirmation"
        /\ memory[Id].request = "confirmed"
        /\ memory[Id].device = file[Id].device
        /\ memory[Id].credential = file[Id].credential
    BY <1>2, <1>8 DEF RowEffect
  <2>2. was = Id /\ StageIn(file, was) = "asked"
    BY <1>1, <2>1, LiveFacts, StageFacts DEF Under, was, Open
  <2>3. is = Id /\ StageIn(memory, is) = "confirmed"
    BY <1>1, <2>1, LiveFacts, StageFacts DEF Under, is, Open
  <2>4. /\ \A a \in Attempt : memory[a].credential = file[a].credential
        /\ \A a \in Attempt : memory[a].device = file[a].device
    BY <1>2, <2>1 DEF Ages
  <2> QED
    BY <1>3, <1>4, <1>5, <1>8, <2>1, <2>2, <2>3, <2>4
       DEF Admission!Next, Admission!Confirm, Admission!Advance, was
<1>9. CASE op = "complete"
  <2>1. /\ Id \in Attempt /\ file[Id].request = "confirmed" /\ file[Id].device = "pending"
        /\ memory[Id].request = "completed" /\ memory[Id].session # "pending"
        /\ memory[Id].device = "active" /\ memory[Id].credential = "active"
    BY <1>2, <1>3, <1>9 DEF RowEffect, RowSound, SessionAges
  <2>2. was = Id /\ StageIn(file, was) = "confirmed"
    BY <1>1, <2>1, LiveFacts, StageFacts DEF Under, was, Open
  <2>3. \A a \in Attempt : Under(memory, a) => Under(file, a) /\ a # Id
    BY <1>2, <2>1 DEF Under, Ages, SessionAges, RequestAges, Open
  <2>4. \A a \in Attempt : ~Under(memory, a)
    BY <1>1, <2>2, <2>3, LiveFacts DEF was
  <2>5. is = Nobody /\ StageIn(memory, is) = "none"
    BY <1>1, <2>4, LiveFacts DEF is, StageIn
  <2>6. {a \in Attempt : memory[a].credential # "none"} =
          {a \in Attempt : file[a].credential # "none"} \cup {Id}
    BY <1>2, <2>1 DEF Ages
  <2>7. \A a \in Attempt : memory[a].device = "revoked" <=> file[a].device = "revoked"
    BY <1>2, <2>1 DEF Ages
  <2> QED
    BY <1>3, <1>4, <1>5, <1>9, <2>1, <2>2, <2>5, <2>6, <2>7
       DEF Admission!Next, Admission!Admit, was
<1>10. CASE op = "revoke"
  <2>1. /\ Id \in Attempt /\ file[Id].device # "none" /\ memory[Id].device = "revoked"
        /\ memory[Id].session = file[Id].session /\ memory[Id].request = file[Id].request
        /\ memory[Id].credential # "none" <=> file[Id].credential # "none"
        /\ \A a \in Attempt \ {Id} : memory[a] = file[a]
    BY <1>1, <1>2, <1>10 DEF RowEffect, Effect, op
  <2>2. \A a \in Attempt : Under(memory, a) <=> Under(file, a)
    BY <2>1 DEF Under
  <2>3. is = was
    BY <2>2 DEF is, was, LiveIn
  <2>4. StageIn(memory, is) = StageIn(file, was)
    BY <1>1, <2>1, <2>3, LiveFacts DEF StageIn, was
  <2>5. file[Id].session # "none"
    BY <1>3, <2>1 DEF RowSound
  <2>6. {a \in Attempt : memory[a].device = "revoked"} =
          {a \in Attempt : file[a].device = "revoked"} \cup {Id}
    BY <2>1
  <2>7. {a \in Attempt : memory[a].credential # "none"} =
          {a \in Attempt : file[a].credential # "none"}
    BY <2>1
  <2> QED
    BY <1>4, <1>5, <1>10, <2>1, <2>3, <2>4, <2>5, <2>6, <2>7
       DEF Admission!Next, Admission!Revoke, was
<1>11. CASE op \in {"look", "cancelSession", "cancelRequest"}
  <2>1. \A a \in Attempt : Ages(file[a], memory[a])
    BY <1>2, <1>11 DEF RowEffect
  <2>2. \/ is = was /\ StageIn(memory, is) = StageIn(file, was)
        \/ was # Nobody /\ is = Nobody /\ StageIn(memory, is) = "none"
    BY <1>1, <2>1, LiveAges DEF Ages, is, was
  <2>3. /\ \A a \in Attempt : memory[a].credential = file[a].credential
        /\ \A a \in Attempt : memory[a].device = file[a].device
    BY <2>1 DEF Ages
  <2> QED
    BY <1>4, <1>5, <1>11, <2>2, <2>3
       DEF Admission!Next, Admission!End, Admission!vars, was
<1> QED
  BY <1>2, <1>6, <1>7, <1>8, <1>9, <1>10, <1>11 DEF Operation, Timed

\* Only a rename changes what BridgeAdmission sees.
LEMMA StepMaps ==
  ASSUME BridgeInvariant, [Next]_vars
  PROVE  Admission!Next \/ UNCHANGED Admission!vars
<1>1. CASE file' = file
  <2>1. LiveIn(file)' = LiveIn(file) /\ StageIn(file, LiveIn(file))' = StageIn(file, LiveIn(file))
    BY <1>1 DEF LiveIn, StageIn, Under
  <2> QED
    BY <1>1, <2>1 DEF Admission!vars
<1>2. CASE writing /\ file' = memory
  BY <1>2, RenameMaps
<1>3. file' = file \/ (writing /\ file' = memory)
  BY DEF Next, Call, CreateQr, Exchange, Look, Confirm, Complete, CancelSession,
         CancelRequest, RevokeDevice, RevokeMe, Write, Refuse, Persisted, PersistFails,
         Crash, Tick, vars
<1> QED
  BY <1>1, <1>2, <1>3

\* The Bridge pairs one device at a time and revokes for good, whatever fails
\* (pairing.ts, credentials.ts, state.ts).
THEOREM BridgeImplementsAdmission == Spec => ImplementsBridgeAdmission
<1>1. Init => Admission!Init
  BY InitMaps
<1>2. BridgeInvariant /\ [Next]_vars => [Admission!Next]_Admission!vars
  BY StepMaps
<1> QED
  BY <1>1, <1>2, BridgeInvariantHolds, PTL
     DEF Spec, ImplementsBridgeAdmission, Admission!Spec
=============================================================================
