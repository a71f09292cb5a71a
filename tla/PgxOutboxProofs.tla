--------------------------- MODULE PgxOutboxProofs --------------------------
(***************************************************************************)
(* Proofs about PgxOutbox for any set of relays, events and transactions,  *)
(* any lease, batch size, retry budget and number of disturbances.         *)
(***************************************************************************)
EXTENDS PgxOutbox, FiniteSets, FiniteSetTheorems, TLAPS

-----------------------------------------------------------------------------
(* Sequences                                                               *)

\* What Head and Tail of a non-empty batch are.
LEMMA HeadTail ==
  ASSUME NEW S, NEW s \in Seq(S), s # <<>>
  PROVE  /\ Tail(s) \in Seq(S)
         /\ Head(s) \in S
         /\ Head(s) = s[1]
         /\ 1 \in DOMAIN s
         /\ \A i \in DOMAIN Tail(s) : i + 1 \in DOMAIN s /\ Tail(s)[i] = s[i + 1]
OBVIOUS

\* A fetch result is a sequence of due rows.
LEMMA SelectionIsSeq ==
  ASSUME NEW skipped, NEW q \in Selections(skipped), BatchSize \in Nat
  PROVE  q \in Seq(Due) /\ \A i \in DOMAIN q : q[i] \in Due
BY DEF Selections

\* A fetch returns a row once: no row sorts before itself.
LEMMA SelectionDistinct ==
  ASSUME StoreTypeOK, NEW skipped, NEW q \in Selections(skipped)
  PROVE  \A i, j \in DOMAIN q : q[i] = q[j] => i = j
<1>. SUFFICES ASSUME NEW i \in DOMAIN q, NEW j \in DOMAIN q, q[i] = q[j], i # j
              PROVE  FALSE
  OBVIOUS
<1>1. q \in Seq(Due) /\ \A k \in DOMAIN q : q[k] \in DOMAIN records
  BY SelectionIsSeq, StoreAssumption DEF Due
<1>2. DOMAIN q \subseteq Nat
  BY <1>1
<1>3. Before(q[i], q[j]) \/ Before(q[j], q[i])
  BY <1>2 DEF Selections, IsSelection
<1>4. records[q[i]].available_at \in Int /\ records[q[i]].id \in Nat
  BY <1>1 DEF StoreTypeOK, Row
<1>. QED
  BY <1>3, <1>4 DEF Before

-----------------------------------------------------------------------------
(* Type correctness                                                        *)

LEMMA FetchedIsBatch ==
  ASSUME TypeOK, NEW skipped, NEW q \in Selections(skipped)
  PROVE  Fetched(q) \in Seq(Record) /\ (Fetched(q) = <<>> <=> q = <<>>)
<1>1. BatchSize \in Nat
  BY StoreAssumption
<1>2. q \in Seq(Due) /\ \A i \in DOMAIN q : q[i] \in Due
  BY <1>1, SelectionIsSeq
<1>3. Len(q) \in Nat /\ DOMAIN q = 1..Len(q)
  BY <1>2
<1>4. \A i \in DOMAIN q : q[i] \in DOMAIN records /\ q[i] \in Event
  BY <1>2 DEF Due, TypeOK, StoreTypeOK
<1>5. \A i \in DOMAIN q : [event |-> q[i], token |-> tokens[q[i]] + 1,
                           attempts |-> records[q[i]].attempts] \in Record
  BY <1>4 DEF Record, TypeOK, StoreTypeOK, Row
<1>6. Fetched(q) \in Seq(Record)
  BY <1>3, <1>5 DEF Fetched
<1>. QED
  BY <1>3, <1>6, <1>2 DEF Fetched

\* The relay's half of every step keeps its own state well formed.
LEMMA RelayType ==
  ASSUME RelayTypeOK, NEW w \in Relays,
         \/ Start(w) \/ Cancel(w) \/ Exit(w) \/ Die(w)
         \/ PublishReturns(w) \/ PublishFails(w) \/ MarkPanics(w)
         \/ \E recs \in Seq(Record) : Receive(w, recs)
         \/ pc[w] \in {"sent", "fail"} /\ Advance(w)
  PROVE  RelayTypeOK'
<1>1. CASE Start(w) \/ Cancel(w) \/ Exit(w) \/ Die(w)
  <2>1. CASE Start(w)
    BY <2>1 DEF RelayTypeOK, RelayPC, Start
  <2>2. CASE Cancel(w)
    BY <2>2 DEF RelayTypeOK, RelayPC, Cancel
  <2>3. CASE Exit(w)
    BY <2>3 DEF RelayTypeOK, RelayPC, Exit
  <2>4. CASE Die(w)
    <3>1. <<>> \in Seq(Record)
      OBVIOUS
    <3>. QED
      BY <2>4, <3>1 DEF RelayTypeOK, RelayPC, Die
  <2>. QED
    BY <1>1, <2>1, <2>2, <2>3, <2>4
<1>2. CASE PublishReturns(w) \/ PublishFails(w) \/ MarkPanics(w)
  BY <1>2 DEF RelayTypeOK, RelayPC, PublishReturns, PublishFails, MarkPanics
<1>3. ASSUME NEW recs \in Seq(Record), Receive(w, recs)
      PROVE  RelayTypeOK'
  BY <1>3 DEF RelayTypeOK, RelayPC, Receive
<1>4. CASE pc[w] \in {"sent", "fail"} /\ Advance(w)
  <2>1. Tail(batch[w]) \in Seq(Record)
    BY <1>4, HeadTail DEF RelayTypeOK
  <2>2. batch' = [batch EXCEPT ![w] = Tail(batch[w])] /\ cancelled' = cancelled
    BY <1>4 DEF Advance
  <2>3. pc' = [pc EXCEPT ![w] = IF Tail(batch[w]) = <<>> THEN "idle" ELSE "publish"]
    BY <1>4 DEF Advance
  <2>. QED
    BY <2>1, <2>2, <2>3 DEF RelayTypeOK, RelayPC
<1>. QED
  BY <1>1, <1>2, <1>3, <1>4

\* So does the store's half: the callers' transactions ...
LEMMA TransactionType ==
  ASSUME StoreTypeOK,
         \/ \E t \in Txn : Begin(t) \/ Commit(t) \/ Rollback(t)
         \/ \E e \in Event : Stage(e)
  PROVE  StoreTypeOK'
<1>1. ASSUME NEW t \in Txn, Begin(t) PROVE StoreTypeOK'
  BY <1>1 DEF StoreTypeOK, Begin
<1>2. ASSUME NEW t \in Txn, Commit(t) PROVE StoreTypeOK'
  BY <1>2 DEF StoreTypeOK, Commit, Batch
<1>3. ASSUME NEW t \in Txn, Rollback(t) PROVE StoreTypeOK'
  BY <1>3 DEF StoreTypeOK, Rollback, Batch
<1>4. ASSUME NEW e \in Event, Stage(e) PROVE StoreTypeOK'
  BY <1>4 DEF StoreTypeOK, Stage, Row, NoClaim, NoToken
<1>. QED
  BY <1>1, <1>2, <1>3, <1>4

\* ... the statements of the relays, and the clock.
LEMMA StatementType ==
  ASSUME StoreTypeOK,
         \/ \E skipped : \E q \in Selections(skipped) : Fetch(q)
         \/ \E r \in Record : MarkSent(r) \/ Terminate(r)
         \/ \E r \in Record, a \in Int : MarkFailed(r, a)
         \/ AdvanceClock
  PROVE  StoreTypeOK'
<1>1. ASSUME NEW q, Fetch(q) PROVE StoreTypeOK'
  <2>1. \A e \in DOMAIN records : Leased(e) \in Row
    BY StoreAssumption DEF StoreTypeOK, Leased, Row
  <2>. QED
    BY <1>1, <2>1 DEF StoreTypeOK, Fetch
<1>2. ASSUME NEW r \in Record, MarkSent(r) PROVE StoreTypeOK'
  BY <1>2 DEF StoreTypeOK, MarkSent, Matching
<1>3. ASSUME NEW r \in Record, Terminate(r) PROVE StoreTypeOK'
  <2>1. \A e \in Matching(r) : records[e].attempts + 1 \in Nat
    BY DEF StoreTypeOK, Row, Matching
  <2>2. dead_letters' \in [Event -> Seq(Nat)]
    BY <1>3, <2>1 DEF StoreTypeOK, Terminate
  <2>. QED
    BY <1>3, <2>2 DEF StoreTypeOK, Terminate, Matching
<1>4. ASSUME NEW r \in Record, NEW a \in Int, MarkFailed(r, a) PROVE StoreTypeOK'
  <2>1. \A e \in DOMAIN records :
          Rescheduled(e, a) \in Row
    BY DEF StoreTypeOK, Row, Rescheduled, NoClaim, NoToken
  <2>. QED
    BY <1>4, <2>1 DEF StoreTypeOK, MarkFailed
<1>5. CASE AdvanceClock
  BY <1>5 DEF StoreTypeOK, AdvanceClock
<1>. QED
  BY <1>1, <1>2, <1>3, <1>4, <1>5

\* The record a relay is working on is a record.
LEMMA CurrentIsRecord ==
  ASSUME RelayTypeOK, NEW w \in Relays, pc[w] \in {"publish", "sent", "fail"}
  PROVE  /\ batch[w] \in Seq(Record) /\ batch[w] # <<>>
         /\ Current(w) \in Record /\ Current(w).event \in Event
         /\ 1 \in DOMAIN batch[w] /\ Current(w) = batch[w][1]
<1>1. batch[w] \in Seq(Record) /\ batch[w] # <<>>
  BY DEF RelayTypeOK
<1>2. Head(batch[w]) \in Record /\ Head(batch[w]) = batch[w][1] /\ 1 \in DOMAIN batch[w]
  BY <1>1, HeadTail
<1>. QED
  BY <1>1, <1>2 DEF Current, Record

LEMMA TypeStep ==
  ASSUME TypeOK, [Next]_vars
  PROVE  TypeOK'
<1>0. RelayTypeOK /\ StoreTypeOK /\ published \in [Event -> Nat] /\ spent \in 0..MaxFaults
  BY DEF TypeOK
<1>a. ASSUME UNCHANGED relayVars PROVE RelayTypeOK'
  BY <1>0, <1>a DEF relayVars, RelayTypeOK
<1>b. ASSUME UNCHANGED storeVars PROVE StoreTypeOK'
  BY <1>0, <1>b DEF storeVars, StoreTypeOK
<1>c. ASSUME Disturb PROVE spent' \in 0..MaxFaults
  BY <1>0, <1>c, OutboxAssumption DEF Disturb
<1>d. ASSUME NEW e \in Event, Accept(e) PROVE published' \in [Event -> Nat]
  BY <1>0, <1>d DEF Accept
<1>1. CASE Caller
  BY <1>0, <1>1, <1>a, TransactionType DEF Caller, envVars, TypeOK
<1>2. ASSUME NEW w \in Relays, StartRelay(w) PROVE TypeOK'
  BY <1>0, <1>2, <1>b, RelayType DEF StartRelay, envVars, TypeOK
<1>3. ASSUME NEW w \in Relays, RelayStep(w) PROVE TypeOK'
  <2>1. CASE FetchBatch(w)
    <3>0. PICK skipped \in SUBSET Locked : \E q \in Selections(skipped) :
            Receive(w, Fetched(q)) /\ Fetch(q)
      BY <2>1 DEF FetchBatch
    <3>1. PICK q \in Selections(skipped) : Receive(w, Fetched(q)) /\ Fetch(q)
      BY <3>0
    <3>2. Fetched(q) \in Seq(Record)
      BY FetchedIsBatch
    <3>3. RelayTypeOK'
      BY <1>0, <3>1, <3>2, RelayType
    <3>4. StoreTypeOK'
      BY <1>0, <3>1, StatementType
    <3>. QED
      BY <1>0, <2>1, <3>3, <3>4 DEF FetchBatch, envVars, TypeOK
  <2>2. CASE PublishOk(w)
    <3>1. pc[w] = "publish"
      BY <2>2 DEF PublishOk, PublishReturns
    <3>. QED
      BY <1>0, <2>2, <3>1, <1>b, <1>d, RelayType, CurrentIsRecord DEF PublishOk, TypeOK
  <2>3. CASE PublishErr(w)
    BY <1>0, <2>3, <1>b, RelayType DEF PublishErr, envVars, TypeOK
  <2>4. CASE Sent(w)
    BY <1>0, <2>4, RelayType, StatementType, CurrentIsRecord DEF Sent, envVars, TypeOK
  <2>5. CASE Reschedule(w)
    <3>1. PICK d \in RetryDelays : MarkFailed(Current(w), now + d)
      BY <2>5 DEF Reschedule
    <3>2. now + d \in Int
      BY <1>0, OutboxAssumption DEF StoreTypeOK
    <3>3. StoreTypeOK'
      BY <1>0, <2>5, <3>1, <3>2, StatementType, CurrentIsRecord DEF Reschedule
    <3>. QED
      BY <1>0, <2>5, <3>3, RelayType DEF Reschedule, envVars, TypeOK
  <2>6. CASE DeadLetter(w)
    BY <1>0, <2>6, RelayType, StatementType, CurrentIsRecord DEF DeadLetter, envVars, TypeOK
  <2>7. CASE MarkRefused(w)
    BY <1>0, <2>7, <1>b, RelayType DEF MarkRefused, envVars, TypeOK
  <2>8. CASE ExitRelay(w)
    BY <1>0, <2>8, <1>b, RelayType DEF ExitRelay, envVars, TypeOK
  <2>. QED
    BY <1>3, <2>1, <2>2, <2>3, <2>4, <2>5, <2>6, <2>7, <2>8 DEF RelayStep
<1>4. ASSUME NEW w \in Relays, Disturbance(w) PROVE TypeOK'
  <2>1. CASE Crash(w)
    BY <1>0, <2>1, <1>b, <1>c, RelayType DEF Crash, TypeOK
  <2>2. CASE CancelRelay(w)
    BY <1>0, <2>2, <1>b, <1>c, RelayType DEF CancelRelay, TypeOK
  <2>3. CASE FetchLost(w)
    BY <1>0, <2>3, <1>a, <1>c, StatementType DEF FetchLost, TypeOK
  <2>4. CASE PublishAckLost(w)
    <3>1. pc[w] = "publish"
      BY <2>4 DEF PublishAckLost, PublishFails
    <3>. QED
      BY <1>0, <2>4, <3>1, <1>b, <1>c, <1>d, RelayType, CurrentIsRecord
      DEF PublishAckLost, TypeOK
  <2>5. CASE MarkLost(w)
    BY <1>0, <2>5, <1>b, <1>c, RelayType DEF MarkLost, TypeOK
  <2>6. CASE MarkSentPanic(w)
    BY <1>0, <2>6, <1>b, <1>c, RelayType DEF MarkSentPanic, TypeOK
  <2>. QED
    BY <1>4, <2>1, <2>2, <2>3, <2>4, <2>5, <2>6 DEF Disturbance
<1>5. CASE Tick
  BY <1>0, <1>5, <1>a, StatementType DEF Tick, envVars, TypeOK
<1>6. CASE Overrun
  BY <1>0, <1>6, <1>a, <1>c, StatementType DEF Overrun, TypeOK
<1>7. CASE UNCHANGED vars
  BY <1>0, <1>7, <1>a, <1>b DEF vars, envVars, TypeOK
<1>. QED
  BY <1>1, <1>2, <1>3, <1>4, <1>5, <1>6, <1>7 DEF Next

LEMMA TypeInit == Init => TypeOK
<1>. SUFFICES ASSUME Init PROVE TypeOK
  OBVIOUS
<1>1. RelayTypeOK
  BY DEF Init, RelayInit, RelayTypeOK, RelayPC
<1>2. StoreTypeOK
  BY DEF Init, StoreInit, StoreTypeOK
<1>. QED
  BY <1>1, <1>2, OutboxAssumption DEF Init, TypeOK

\* Every variable keeps its type, and a relay holds a batch exactly while it
\* works on one, for any number of relays, events and disturbances.
THEOREM TypeCorrect == Spec => []TypeOK
BY TypeInit, TypeStep, PTL DEF Spec

-----------------------------------------------------------------------------
(* What a step does, sorted by its effect                                  *)

\* Batches only lose records from the front, or altogether.
Shrinks ==
  \A v \in Relays :
    \/ batch'[v] = batch[v]
    \/ batch'[v] = <<>>
    \/ batch[v] # <<>> /\ batch'[v] = Tail(batch[v])

\* A fetch, delivered to a relay or lost on the way.
FetchEffect ==
  \E skipped : \E q \in Selections(skipped) :
    /\ Fetch(q)
    /\ \/ \E w \in Relays : Receive(w, Fetched(q))
       \/ UNCHANGED relayVars

StoreEffect ==
  \/ UNCHANGED storeVars /\ Shrinks
  \/ Caller
  \/ FetchEffect /\ UNCHANGED published
  \/ \E w \in Relays : Sent(w) \/ Reschedule(w) \/ DeadLetter(w)
  \/ AdvanceClock /\ UNCHANGED <<relayVars, published>>

PublishEffect ==
  \/ UNCHANGED published
  \/ /\ UNCHANGED storeVars
     /\ \E w \in Relays : pc[w] = "publish" /\ Accept(Current(w).event)

SentEffect ==
  \A w \in Relays : pc'[w] = "sent" =>
    /\ batch'[w] = batch[w]
    /\ \/ pc[w] = "sent"
       \/ pc[w] = "publish" /\ Accept(Current(w).event)

LEMMA AdvanceShrinks ==
  ASSUME TypeOK, NEW w \in Relays, pc[w] \in {"sent", "fail"}, Advance(w)
  PROVE  Shrinks /\ \A v \in Relays : pc'[v] = "sent" => v # w /\ pc[v] = "sent"
<1>1. batch[w] # <<>> /\ batch \in [Relays -> Seq(Record)] /\ pc \in [Relays -> RelayPC]
  BY DEF TypeOK, RelayTypeOK
<1>. QED
  BY <1>1 DEF Shrinks, Advance

LEMMA StepEffects ==
  ASSUME TypeOK, [Next]_vars
  PROVE  StoreEffect /\ PublishEffect /\ SentEffect
<1>0. pc \in [Relays -> RelayPC] /\ batch \in [Relays -> Seq(Record)]
  BY DEF TypeOK, RelayTypeOK
<1>. USE <1>0
<1>1. CASE Caller
  BY <1>1 DEF Caller, StoreEffect, PublishEffect, SentEffect, relayVars, envVars
<1>2. ASSUME NEW w \in Relays, StartRelay(w) \/ ExitRelay(w) \/ PublishErr(w)
      PROVE  StoreEffect /\ PublishEffect /\ SentEffect
  BY <1>2 DEF StartRelay, ExitRelay, PublishErr, Start, Exit, PublishFails, Shrinks,
              StoreEffect, PublishEffect, SentEffect, envVars
<1>3. ASSUME NEW w \in Relays, Crash(w) \/ CancelRelay(w) \/ MarkSentPanic(w)
      PROVE  StoreEffect /\ PublishEffect /\ SentEffect
  BY <1>3 DEF Crash, CancelRelay, MarkSentPanic, Die, Cancel, MarkPanics, Shrinks,
              StoreEffect, PublishEffect, SentEffect
<1>4. ASSUME NEW w \in Relays, PublishOk(w) \/ PublishAckLost(w)
      PROVE  StoreEffect /\ PublishEffect /\ SentEffect
  BY <1>4 DEF PublishOk, PublishAckLost, PublishReturns, PublishFails, Shrinks,
              StoreEffect, PublishEffect, SentEffect
<1>5. ASSUME NEW w \in Relays, MarkRefused(w) \/ MarkLost(w)
      PROVE  StoreEffect /\ PublishEffect /\ SentEffect
  <2>1. Shrinks /\ \A v \in Relays : pc'[v] = "sent" => v # w /\ pc[v] = "sent"
    BY <1>5, AdvanceShrinks DEF MarkRefused, MarkLost
  <2>2. batch' = [batch EXCEPT ![w] = Tail(batch[w])]
    BY <1>5 DEF MarkRefused, MarkLost, Advance
  <2>. QED
    BY <1>5, <2>1, <2>2 DEF MarkRefused, MarkLost, StoreEffect, PublishEffect, SentEffect, envVars
<1>6. ASSUME NEW w \in Relays, Sent(w) \/ Reschedule(w) \/ DeadLetter(w)
      PROVE  StoreEffect /\ PublishEffect /\ SentEffect
  <2>1. \A v \in Relays : pc'[v] = "sent" => v # w /\ pc[v] = "sent"
    BY <1>6, AdvanceShrinks DEF Sent, Reschedule, DeadLetter
  <2>2. batch' = [batch EXCEPT ![w] = Tail(batch[w])]
    BY <1>6 DEF Sent, Reschedule, DeadLetter, Advance
  <2>3. UNCHANGED published
    BY <1>6 DEF Sent, Reschedule, DeadLetter, envVars
  <2>. QED
    BY <1>6, <2>1, <2>2, <2>3 DEF StoreEffect, PublishEffect, SentEffect
<1>7. ASSUME NEW w \in Relays, FetchBatch(w) \/ FetchLost(w)
      PROVE  StoreEffect /\ PublishEffect /\ SentEffect
  <2>1. UNCHANGED published
    BY <1>7 DEF FetchBatch, FetchLost, envVars
  <2>2. FetchEffect
    BY <1>7 DEF FetchBatch, FetchLost, FetchEffect
  <2>3. \A v \in Relays : pc'[v] = "sent" => pc[v] = "sent" /\ batch'[v] = batch[v]
    BY <1>7 DEF FetchBatch, FetchLost, Receive, relayVars
  <2>. QED
    BY <2>1, <2>2, <2>3 DEF StoreEffect, PublishEffect, SentEffect
<1>8. CASE Tick \/ Overrun
  BY <1>8 DEF Tick, Overrun, StoreEffect, PublishEffect, SentEffect, relayVars, envVars
<1>9. CASE UNCHANGED vars
  BY <1>9 DEF vars, relayVars, envVars, StoreEffect, PublishEffect, SentEffect, Shrinks
<1>. QED
  BY <1>1, <1>2, <1>3, <1>4, <1>5, <1>6, <1>7, <1>8, <1>9 DEF Next, RelayStep, Disturbance

-----------------------------------------------------------------------------
(* Claims                                                                  *)

\* What records in flight depend on survives every statement: committed
\* events stay committed, tokens are never handed out twice, and a row that
\* carries a token already handed out carried it before, with the same
\* attempts.
StoreKeeps ==
  \A e \in Event :
    /\ Committed(e) => Committed(e)'
    /\ tokens[e] <= tokens'[e]
    /\ \A k \in 1..tokens[e] :
         e \in DOMAIN records' /\ records'[e].claim_token = k =>
           /\ e \in DOMAIN records
           /\ records[e].claim_token = k
           /\ records'[e].attempts = records[e].attempts

\* The part of TokensTracked about the tables.
RowsTracked ==
  /\ \A e \in DOMAIN records : records[e].claim_token <= tokens[e]
  /\ \A e \in DOMAIN uncommitted :
       /\ tx[TxnOf[e]] = "open"
       /\ uncommitted[e].attempts = 0
       /\ uncommitted[e].claim_token = NoToken

LEMMA CallerKeeps ==
  ASSUME StoreTypeOK, RowsTracked, Caller
  PROVE  StoreKeeps /\ RowsTracked'
<1>. USE StoreAssumption DEF NoToken
<1>1. ASSUME NEW t \in Txn, Begin(t)
      PROVE  StoreKeeps /\ RowsTracked'
  BY <1>1 DEF StoreTypeOK, Row, StoreKeeps, RowsTracked, Committed, Begin
<1>2. ASSUME NEW t \in Txn, Commit(t)
      PROVE  StoreKeeps /\ RowsTracked'
  BY <1>2 DEF StoreTypeOK, Row, StoreKeeps, RowsTracked, Committed, Commit, Batch
<1>3. ASSUME NEW t \in Txn, Rollback(t)
      PROVE  StoreKeeps /\ RowsTracked'
  BY <1>3 DEF StoreTypeOK, Row, StoreKeeps, RowsTracked, Committed, Rollback, Batch
<1>4. ASSUME NEW e \in Event, Stage(e)
      PROVE  StoreKeeps /\ RowsTracked'
  BY <1>4 DEF StoreTypeOK, Row, StoreKeeps, RowsTracked, Committed, Stage
<1>. QED
  BY <1>1, <1>2, <1>3, <1>4 DEF Caller

LEMMA StatementKeeps ==
  ASSUME StoreTypeOK, RowsTracked,
         \/ \E q : Fetch(q)
         \/ \E r \in Record : MarkSent(r) \/ Terminate(r)
         \/ \E r \in Record, a \in Int : MarkFailed(r, a)
         \/ AdvanceClock \/ UNCHANGED storeVars
  PROVE  StoreKeeps /\ RowsTracked'
<1>. USE StoreAssumption DEF NoToken
<1>0. /\ tokens \in [Event -> Nat]
      /\ DOMAIN records \subseteq Event
      /\ \A e \in DOMAIN records : /\ records[e] \in Row
                                   /\ records[e].claim_token \in Nat
                                   /\ records[e].attempts \in Nat
  BY DEF StoreTypeOK, Row
<1>1. ASSUME NEW q, Fetch(q)
      PROVE  StoreKeeps /\ RowsTracked'
  <2>1. /\ UNCHANGED <<tx, uncommitted>>
        /\ DOMAIN records' = DOMAIN records
        /\ \A e \in DOMAIN records :
             \/ tokens'[e] = tokens[e] /\ records'[e] = records[e]
             \/ tokens'[e] = tokens[e] + 1 /\ records'[e].claim_token = tokens[e] + 1
        /\ \A e \in Event : tokens[e] <= tokens'[e]
    BY <1>0, <1>1 DEF Fetch, Leased
  <2>2. StoreKeeps
    BY <1>0, <2>1 DEF StoreKeeps, RowsTracked, Committed
  <2>. QED
    BY <1>0, <2>1, <2>2 DEF RowsTracked
<1>2. ASSUME NEW r \in Record, MarkSent(r) \/ Terminate(r)
      PROVE  StoreKeeps /\ RowsTracked'
  <2>1. /\ UNCHANGED <<tx, uncommitted, tokens>>
        /\ \A e \in DOMAIN records' : e \in DOMAIN records /\ records'[e] = records[e]
    BY <1>0, <1>2 DEF MarkSent, Terminate, Matching
  <2>. QED
    BY <1>0, <2>1 DEF StoreKeeps, RowsTracked, Committed
<1>3. ASSUME NEW r \in Record, NEW a \in Int, MarkFailed(r, a)
      PROVE  StoreKeeps /\ RowsTracked'
  <2>1. /\ UNCHANGED <<tx, uncommitted, tokens>>
        /\ DOMAIN records' = DOMAIN records
        /\ \A e \in DOMAIN records :
             records'[e] = records[e] \/ records'[e].claim_token = NoToken
    BY <1>0, <1>3 DEF MarkFailed, Rescheduled, Matching
  <2>. QED
    BY <1>0, <2>1 DEF StoreKeeps, RowsTracked, Committed
<1>4. CASE AdvanceClock \/ UNCHANGED storeVars
  <2>1. UNCHANGED <<tx, uncommitted, records, tokens>>
    BY <1>4 DEF AdvanceClock, storeVars
  <2>. QED
    BY <1>0, <2>1 DEF StoreKeeps, RowsTracked, Committed
<1>. QED
  BY <1>1, <1>2, <1>3, <1>4

\* Every record left in a shrunk batch was there before, at one place.
LEMMA ShrinkOrigin ==
  ASSUME RelayTypeOK, Shrinks
  PROVE  /\ \A v \in Relays : \A i \in DOMAIN batch'[v] :
              \E j \in DOMAIN batch[v] : batch'[v][i] = batch[v][j]
         /\ TokensUnique => TokensUnique'
<1>0. batch \in [Relays -> Seq(Record)]
  BY DEF RelayTypeOK
<1>1. \A v \in Relays : \A i \in DOMAIN batch'[v] :
        \/ i \in DOMAIN batch[v] /\ batch'[v] = batch[v]
        \/ /\ i + 1 \in DOMAIN batch[v]
           /\ batch'[v] = Tail(batch[v])
           /\ batch'[v][i] = batch[v][i + 1]
  <2>. SUFFICES ASSUME NEW v \in Relays, NEW i \in DOMAIN batch'[v]
                PROVE  \/ i \in DOMAIN batch[v] /\ batch'[v] = batch[v]
                       \/ /\ i + 1 \in DOMAIN batch[v]
                          /\ batch'[v] = Tail(batch[v])
                          /\ batch'[v][i] = batch[v][i + 1]
    OBVIOUS
  <2>1. batch[v] \in Seq(Record)
    BY <1>0
  <2>2. CASE batch'[v] = batch[v]
    BY <2>2
  <2>3. CASE batch'[v] = <<>>
    BY <2>3
  <2>4. CASE batch[v] # <<>> /\ batch'[v] = Tail(batch[v])
    BY <2>1, <2>4, HeadTail
  <2>. QED
    BY <2>2, <2>3, <2>4 DEF Shrinks
<1>2. \A v \in Relays : \A i \in DOMAIN batch'[v] : i \in Nat
  BY <1>0, HeadTail DEF Shrinks
<1>3. ASSUME TokensUnique
      PROVE  TokensUnique'
  <2>. SUFFICES ASSUME NEW v \in Relays, NEW w \in Relays,
                       NEW i \in DOMAIN batch'[v], NEW j \in DOMAIN batch'[w],
                       batch'[v][i].event = batch'[w][j].event,
                       batch'[v][i].token = batch'[w][j].token
                PROVE  v = w /\ i = j
    BY DEF TokensUnique
  <2>1. i \in Nat /\ j \in Nat
    BY <1>2
  <2>2. PICK k \in DOMAIN batch[v] :
          /\ batch'[v][i] = batch[v][k]
          /\ \/ batch'[v] = batch[v] /\ k = i
             \/ batch'[v] = Tail(batch[v]) /\ k = i + 1
    BY <1>1
  <2>3. PICK l \in DOMAIN batch[w] :
          /\ batch'[w][j] = batch[w][l]
          /\ \/ batch'[w] = batch[w] /\ l = j
             \/ batch'[w] = Tail(batch[w]) /\ l = j + 1
    BY <1>1
  <2>4. v = w /\ k = l
    BY <1>3, <2>2, <2>3 DEF TokensUnique
  <2>t. Tail(batch[v]) # batch[v]
    <3>1. batch[v] \in Seq(Record) /\ Len(batch[v]) \in Nat /\ Len(batch[v]) > 0
      BY <1>0, <2>2
    <3>2. Len(Tail(batch[v])) = Len(batch[v]) - 1
      BY <3>1
    <3>. SUFFICES ASSUME Tail(batch[v]) = batch[v] PROVE FALSE
      OBVIOUS
    <3>3. Len(batch[v]) = Len(batch[v]) - 1
      BY <3>2, Zenon
    <3>. QED
      BY <3>1, <3>3
  <2>5. ~(k = i /\ l = j + 1)
    BY <2>1, <2>2, <2>3, <2>4, <2>t
  <2>6. ~(k = i + 1 /\ l = j)
    BY <2>1, <2>2, <2>3, <2>4, <2>t
  <2>. QED
    BY <2>1, <2>2, <2>3, <2>4, <2>5, <2>6
<1>. QED
  BY <1>1, <1>3

\* The part of TokensTracked about the records in flight.
BatchesTracked ==
  \A w \in Relays : \A i \in DOMAIN batch[w] : Tracked(batch[w][i])

LEMMA TokensTrackedParts == TokensTracked <=> BatchesTracked /\ RowsTracked
BY DEF TokensTracked, BatchesTracked, RowsTracked

\* A tracked record stays tracked, whoever runs a statement meanwhile.
LEMMA RecordStaysTracked ==
  ASSUME StoreTypeOK, StoreTypeOK', StoreKeeps, NEW r \in Record, Tracked(r)
  PROVE  Tracked(r)'
<1>1. r.event \in Event /\ tokens[r.event] \in Nat /\ tokens'[r.event] \in Nat
  BY DEF Record, StoreTypeOK
<1>2. tokens[r.event] <= tokens'[r.event] /\ Committed(r.event)'
  BY <1>1 DEF StoreKeeps, Tracked
<1>3. ASSUME Holds(r)'
      PROVE  Holds(r) /\ records'[r.event].attempts = records[r.event].attempts
  BY <1>1, <1>3 DEF StoreKeeps, Holds, Tracked
<1>. QED
  BY <1>1, <1>2, <1>3 DEF Tracked

LEMMA FetchTracked ==
  ASSUME TypeOK, TypeOK', BatchesTracked, TokensUnique, NothingPremature, StoreKeeps,
         NEW skipped, NEW q \in Selections(skipped), NEW w \in Relays,
         Fetch(q), Receive(w, Fetched(q))
  PROVE  BatchesTracked' /\ TokensUnique'
<1>0. /\ RelayTypeOK /\ StoreTypeOK /\ StoreTypeOK'
      /\ batch \in [Relays -> Seq(Record)]
      /\ tokens \in [Event -> Nat]
      /\ DOMAIN records \subseteq Event
  BY DEF TypeOK, RelayTypeOK, StoreTypeOK
<1>1. batch' = [batch EXCEPT ![w] = Fetched(q)]
  BY DEF Receive
<1>2. q \in Seq(Due) /\ \A i \in DOMAIN q : q[i] \in DOMAIN records
  BY SelectionIsSeq, StoreAssumption DEF Due
<1>3. DOMAIN Fetched(q) = DOMAIN q
  BY DEF Fetched
<1>4. \A i \in DOMAIN q : /\ Fetched(q)[i].event = q[i]
                          /\ Fetched(q)[i].token = tokens[q[i]] + 1
                          /\ Fetched(q)[i].attempts = records[q[i]].attempts
  BY DEF Fetched
<1>5. \A i \in DOMAIN q : /\ tokens'[q[i]] = tokens[q[i]] + 1
                          /\ q[i] \in DOMAIN records'
                          /\ records'[q[i]].attempts = records[q[i]].attempts
                          /\ Committed(q[i])'
  <2>. SUFFICES ASSUME NEW i \in DOMAIN q
                PROVE  /\ tokens'[q[i]] = tokens[q[i]] + 1
                       /\ q[i] \in DOMAIN records'
                       /\ records'[q[i]].attempts = records[q[i]].attempts
                       /\ Committed(q[i])'
    OBVIOUS
  <2>1. q[i] \in DOMAIN records /\ q[i] \in Event
    BY <1>0, <1>2
  <2>2. Committed(q[i])'
    BY <2>1 DEF NothingPremature, StoreKeeps
  <2>3. records'[q[i]] = Leased(q[i]) /\ q[i] \in DOMAIN records'
    BY <2>1 DEF Fetch
  <2>4. tokens'[q[i]] = tokens[q[i]] + 1
    BY <2>1 DEF Fetch
  <2>. QED
    BY <2>2, <2>3, <2>4 DEF Leased
<1>6. \A i, j \in DOMAIN q : q[i] = q[j] => i = j
  BY <1>0, SelectionDistinct
<1>7. BatchesTracked'
  <2>. SUFFICES ASSUME NEW v \in Relays, NEW i \in DOMAIN batch'[v]
                PROVE  Tracked(batch[v][i])'
    BY DEF BatchesTracked
  <2>1. CASE v = w
    <3>1. i \in DOMAIN q /\ batch'[v][i] = Fetched(q)[i]
      BY <1>0, <1>1, <1>3, <2>1
    <3>2. tokens[q[i]] \in Nat
      BY <1>0, <1>2, <3>1
    <3>. QED
      BY <3>1, <3>2, <1>4, <1>5 DEF Tracked, Committed
  <2>2. CASE v # w
    <3>1. batch'[v] = batch[v] /\ i \in DOMAIN batch[v] /\ batch[v][i] \in Record
      BY <1>0, <1>1, <2>2
    <3>2. ASSUME NEW r \in Record, r = batch[v][i]
          PROVE  Tracked(r)'
      BY <1>0, <3>1, <3>2, RecordStaysTracked DEF BatchesTracked
    <3>. QED
      BY <3>1, <3>2
  <2>. QED
    BY <2>1, <2>2
<1>8. TokensUnique'
  <2>. SUFFICES ASSUME NEW u \in Relays, NEW v \in Relays,
                       NEW i \in DOMAIN batch'[u], NEW j \in DOMAIN batch'[v],
                       batch'[u][i].event = batch'[v][j].event,
                       batch'[u][i].token = batch'[v][j].token
                PROVE  u = v /\ i = j
    BY DEF TokensUnique
  <2>1. \A x \in Relays : x # w => batch'[x] = batch[x]
    BY <1>0, <1>1
  <2>2. batch'[w] = Fetched(q)
    BY <1>0, <1>1
  <2>3. \A x \in Relays : \A k \in DOMAIN batch[x] :
          batch[x][k].token <= tokens[batch[x][k].event] /\ tokens[batch[x][k].event] \in Nat
    <3>. SUFFICES ASSUME NEW x \in Relays, NEW k \in DOMAIN batch[x]
                  PROVE  batch[x][k].token <= tokens[batch[x][k].event]
                         /\ tokens[batch[x][k].event] \in Nat
      OBVIOUS
    <3>1. batch[x][k] \in Record
      BY <1>0
    <3>. QED
      BY <1>0, <3>1 DEF BatchesTracked, Tracked, Record
  <2>4. CASE u = w /\ v = w
    BY <2>2, <2>4, <1>3, <1>4, <1>6
  <2>5. CASE u = w /\ v # w
    <3>1. batch[v][j].token = tokens[batch[v][j].event] + 1 /\ j \in DOMAIN batch[v]
      BY <2>1, <2>2, <2>5, <1>3, <1>4
    <3>. QED
      BY <3>1, <2>3, <1>0
  <2>6. CASE u # w /\ v = w
    <3>1. batch[u][i].token = tokens[batch[u][i].event] + 1 /\ i \in DOMAIN batch[u]
      BY <2>1, <2>2, <2>6, <1>3, <1>4
    <3>. QED
      BY <3>1, <2>3, <1>0
  <2>7. CASE u # w /\ v # w
    BY <2>1, <2>7 DEF TokensUnique
  <2>. QED
    BY <2>4, <2>5, <2>6, <2>7
<1>. QED
  BY <1>7, <1>8

LEMMA ShrinkTracked ==
  ASSUME TypeOK, TypeOK', BatchesTracked, TokensUnique, StoreKeeps, Shrinks
  PROVE  BatchesTracked' /\ TokensUnique'
<1>0. RelayTypeOK /\ StoreTypeOK /\ StoreTypeOK' /\ batch \in [Relays -> Seq(Record)]
  BY DEF TypeOK, RelayTypeOK
<1>1. ASSUME NEW v \in Relays, NEW i \in DOMAIN batch'[v]
      PROVE  Tracked(batch[v][i])'
  <2>1. PICK j \in DOMAIN batch[v] : batch'[v][i] = batch[v][j]
    BY <1>0, ShrinkOrigin
  <2>2. batch[v][j] \in Record
    BY <1>0
  <2>3. ASSUME NEW r \in Record, r = batch[v][j]
        PROVE  Tracked(r)'
    BY <1>0, <2>3, RecordStaysTracked DEF BatchesTracked
  <2>. QED
    BY <2>1, <2>2, <2>3
<1>2. BatchesTracked'
  BY <1>1 DEF BatchesTracked
<1>. QED
  BY <1>0, <1>2, ShrinkOrigin

LEMMA TrackedStep ==
  ASSUME Inductive, [Next]_vars
  PROVE  TokensTracked' /\ TokensUnique'
<1>0. /\ TypeOK /\ TypeOK' /\ StoreTypeOK /\ RelayTypeOK
      /\ BatchesTracked /\ RowsTracked /\ TokensUnique /\ NothingPremature
  BY TypeStep, TokensTrackedParts DEF Inductive, TypeOK
<1>1. StoreEffect
  BY <1>0, StepEffects
<1>2. ASSUME StoreKeeps /\ RowsTracked' /\ Shrinks
      PROVE  TokensTracked' /\ TokensUnique'
  BY <1>0, <1>2, ShrinkTracked, TokensTrackedParts DEF BatchesTracked, TokensTracked, RowsTracked
<1>3. ASSUME UNCHANGED relayVars
      PROVE  Shrinks
  BY <1>3 DEF relayVars, Shrinks
<1>4. CASE UNCHANGED storeVars /\ Shrinks
  BY <1>0, <1>2, <1>4, StatementKeeps
<1>5. CASE Caller
  BY <1>0, <1>2, <1>3, <1>5, CallerKeeps DEF Caller
<1>6. CASE FetchEffect
  <2>1. PICK skipped : \E q \in Selections(skipped) :
               /\ Fetch(q)
               /\ (\E w \in Relays : Receive(w, Fetched(q))) \/ UNCHANGED relayVars
    BY <1>6 DEF FetchEffect
  <2>2. PICK q \in Selections(skipped) :
               /\ Fetch(q)
               /\ (\E w \in Relays : Receive(w, Fetched(q))) \/ UNCHANGED relayVars
    BY <2>1
  <2>3. StoreKeeps /\ RowsTracked'
    BY <1>0, <2>2, StatementKeeps
  <2>4. CASE UNCHANGED relayVars
    BY <1>2, <1>3, <2>3, <2>4
  <2>5. ASSUME NEW w \in Relays, Receive(w, Fetched(q))
        PROVE  TokensTracked' /\ TokensUnique'
    <3>1. BatchesTracked' /\ TokensUnique'
      BY <1>0, <2>2, <2>3, <2>5, FetchTracked
    <3>. QED
      BY <2>3, <3>1 DEF BatchesTracked, TokensTracked, RowsTracked
  <2>. QED
    BY <2>2, <2>4, <2>5
<1>7. ASSUME NEW w \in Relays, Sent(w) \/ Reschedule(w) \/ DeadLetter(w)
      PROVE  TokensTracked' /\ TokensUnique'
  <2>1. pc[w] \in {"sent", "fail"} /\ Advance(w)
    BY <1>7 DEF Sent, Reschedule, DeadLetter
  <2>2. Current(w) \in Record
    BY <1>0, <2>1, CurrentIsRecord
  <2>3. \A d \in RetryDelays : now + d \in Int
    BY <1>0, OutboxAssumption DEF StoreTypeOK
  <2>4. StoreKeeps /\ RowsTracked'
    BY <1>0, <1>7, <2>2, <2>3, StatementKeeps DEF Sent, Reschedule, DeadLetter
  <2>. QED
    BY <1>0, <1>2, <2>1, <2>4, AdvanceShrinks
<1>8. CASE AdvanceClock /\ UNCHANGED <<relayVars, published>>
  BY <1>0, <1>2, <1>3, <1>8, StatementKeeps
<1>. QED
  BY <1>1, <1>4, <1>5, <1>6, <1>7, <1>8 DEF StoreEffect

-----------------------------------------------------------------------------
(* Delivery                                                                *)

\* The broker never forgets, and only committed events reach it.
LEMMA PublishedGrows ==
  ASSUME Inductive, [Next]_vars
  PROVE  \A e \in Event :
           /\ published[e] \in Nat /\ published'[e] \in Nat
           /\ published[e] <= published'[e]
           /\ published'[e] # published[e] => Committed(e) /\ UNCHANGED storeVars
<1>0. TypeOK /\ TypeOK' /\ RelayTypeOK /\ published \in [Event -> Nat] /\ published' \in [Event -> Nat]
  BY TypeStep DEF Inductive, TypeOK
<1>1. PublishEffect
  BY <1>0, StepEffects
<1>2. ASSUME UNCHANGED storeVars, NEW w \in Relays, pc[w] = "publish",
             Accept(Current(w).event)
      PROVE  \A e \in Event :
               /\ published[e] <= published'[e]
               /\ published'[e] # published[e] => Committed(e)
  <2>1. Current(w).event \in Event /\ Current(w) = batch[w][1] /\ 1 \in DOMAIN batch[w]
    BY <1>0, <1>2, CurrentIsRecord
  <2>2. Committed(Current(w).event)
    BY <2>1 DEF Inductive, TokensTracked, Tracked
  <2>. QED
    BY <1>0, <1>2, <2>1, <2>2 DEF Accept
<1>. QED
  BY <1>0, <1>1, <1>2 DEF PublishEffect

LEMMA SentStep ==
  ASSUME Inductive, [Next]_vars
  PROVE  SentIsPublished'
<1>0. TypeOK /\ TypeOK' /\ RelayTypeOK /\ published \in [Event -> Nat]
  BY TypeStep DEF Inductive, TypeOK
<1>1. SentEffect
  BY <1>0, StepEffects
<1>. SUFFICES ASSUME NEW w \in Relays, pc'[w] = "sent"
              PROVE  published'[Head(batch'[w]).event] > 0
  BY DEF SentIsPublished, Current
<1>2. batch'[w] = batch[w] /\ pc[w] \in {"sent", "publish"}
  BY <1>1 DEF SentEffect
<1>3. Current(w).event \in Event /\ Current(w) = Head(batch'[w])
  BY <1>0, <1>2, CurrentIsRecord DEF Current
<1>4. CASE pc[w] = "sent"
  <2>1. published[Current(w).event] > 0
    BY <1>4 DEF Inductive, SentIsPublished
  <2>. QED
    BY <1>3, <2>1, PublishedGrows
<1>5. CASE Accept(Current(w).event)
  BY <1>0, <1>3, <1>5 DEF Accept
<1>. QED
  BY <1>1, <1>4, <1>5 DEF SentEffect

\* The four safety properties of the tables, taken together.
TablesSafe == NothingLost /\ NothingPremature /\ DeadLetterOnce /\ BudgetUsedExactly

LEMMA CallerSafe ==
  ASSUME Inductive, Caller
  PROVE  TablesSafe'
<1>0. /\ StoreTypeOK /\ published' = published
      /\ \A e \in DOMAIN uncommitted : tx[TxnOf[e]] = "open" /\ uncommitted[e].attempts = 0
  BY DEF Inductive, TypeOK, TokensTracked, Caller, envVars
<1>. USE RelayAssumption, StoreAssumption
         DEF Inductive, StoreTypeOK, TablesSafe, NothingLost, NothingPremature,
             DeadLetterOnce, BudgetUsedExactly, Committed
<1>1. ASSUME NEW t \in Txn, Begin(t)
      PROVE  TablesSafe'
  BY <1>0, <1>1 DEF Begin
<1>2. ASSUME NEW t \in Txn, Commit(t)
      PROVE  TablesSafe'
  <2>1. /\ UNCHANGED dead_letters
        /\ \A e \in Event : Committed(e)' <=> Committed(e) \/ e \in Batch(t)
        /\ DOMAIN records' = DOMAIN records \cup Batch(t)
        /\ \A e \in DOMAIN records : records'[e] = records[e]
        /\ \A e \in Batch(t) : /\ e \in DOMAIN uncommitted
                               /\ e \notin DOMAIN records
                               /\ records'[e] = uncommitted[e]
    BY <1>0, <1>2 DEF Commit, Batch
  <2>2. \A e \in Batch(t) : dead_letters[e] = <<>>
    BY <1>0, <1>2 DEF Commit, Batch
  <2>3. NothingLost' /\ NothingPremature' /\ DeadLetterOnce'
    BY <1>0, <2>1, <2>2
  <2>4. BudgetUsedExactly'
    BY <1>0, <2>1
  <2>. QED
    BY <2>3, <2>4
<1>3. ASSUME NEW t \in Txn, Rollback(t)
      PROVE  TablesSafe'
  BY <1>0, <1>3 DEF Rollback
<1>4. ASSUME NEW e \in Event, Stage(e)
      PROVE  TablesSafe'
  BY <1>0, <1>4 DEF Stage
<1>. QED
  BY <1>1, <1>2, <1>3, <1>4 DEF Caller

LEMMA QuietSafe ==
  ASSUME Inductive, [Next]_vars,
         \/ UNCHANGED storeVars
         \/ AdvanceClock
         \/ \E q : Fetch(q)
  PROVE  TablesSafe'
<1>0. StoreTypeOK
  BY DEF Inductive, TypeOK
<1>1. /\ UNCHANGED <<tx, dead_letters>>
      /\ DOMAIN records' = DOMAIN records
      /\ \A e \in DOMAIN records : records'[e].attempts = records[e].attempts
  BY <1>0 DEF storeVars, AdvanceClock, Fetch, Leased
<1>2. \A e \in Event : /\ published[e] > 0 => published'[e] > 0
                       /\ published'[e] > 0 => published[e] > 0 \/ Committed(e)
  BY PublishedGrows
<1>. QED
  BY <1>0, <1>1, <1>2 DEF Inductive, StoreTypeOK, TablesSafe, NothingLost, NothingPremature,
                          DeadLetterOnce, BudgetUsedExactly, Committed

LEMMA MarkSafe ==
  ASSUME Inductive, NEW w \in Relays, Sent(w) \/ Reschedule(w) \/ DeadLetter(w)
  PROVE  TablesSafe'
<1>0. StoreTypeOK /\ RelayTypeOK /\ published' = published /\ pc[w] \in {"sent", "fail"}
  BY DEF Inductive, TypeOK, Sent, Reschedule, DeadLetter, envVars
<1>1. /\ Current(w) \in Record /\ Current(w).event \in Event /\ Current(w).attempts \in Nat
      /\ Tracked(Current(w))
  BY <1>0, CurrentIsRecord DEF Inductive, TokensTracked, Record
<1>. DEFINE c == Current(w)
<1>2. \A e \in Matching(c) : /\ e = c.event
                             /\ e \in DOMAIN records
                             /\ records[e].attempts = c.attempts
  BY <1>1 DEF Matching, Tracked, Holds
<1>3. /\ \A e \in DOMAIN records : e \in Event /\ records[e].attempts \in Nat
      /\ dead_letters \in [Event -> Seq(Nat)]
  BY <1>0 DEF StoreTypeOK, Row
<1>. USE RelayAssumption DEF Inductive, TablesSafe, NothingLost, NothingPremature,
                             DeadLetterOnce, BudgetUsedExactly, Committed
<1>4. CASE Sent(w)
  <2>1. /\ UNCHANGED <<tx, dead_letters>>
        /\ DOMAIN records' = DOMAIN records \ Matching(c)
        /\ \A e \in DOMAIN records' : records'[e] = records[e]
    BY <1>4 DEF Sent, MarkSent
  <2>2. published[c.event] > 0
    BY <1>4 DEF Sent, SentIsPublished
  <2>. QED
    BY <1>0, <1>2, <1>3, <2>1, <2>2
<1>5. CASE Reschedule(w)
  <2>1. PICK d \in RetryDelays : MarkFailed(c, now + d)
    BY <1>5 DEF Reschedule
  <2>2. /\ UNCHANGED <<tx, dead_letters>>
        /\ DOMAIN records' = DOMAIN records
        /\ \A e \in DOMAIN records \ Matching(c) : records'[e] = records[e]
        /\ \A e \in Matching(c) : records'[e].attempts = c.attempts + 1
    BY <1>2, <2>1 DEF MarkFailed, Rescheduled
  <2>3. MaxAttempts > 0 => c.attempts + 1 < MaxAttempts
    BY <1>1, <1>5 DEF Reschedule, Exhausted
  <2>. QED
    BY <1>0, <1>2, <1>3, <2>2, <2>3
<1>6. CASE DeadLetter(w)
  <2>1. /\ UNCHANGED tx
        /\ DOMAIN records' = DOMAIN records \ Matching(c)
        /\ \A e \in DOMAIN records' : records'[e] = records[e]
        /\ \A e \in Event \ Matching(c) : dead_letters'[e] = dead_letters[e]
        /\ \A e \in Matching(c) : dead_letters'[e] = Append(dead_letters[e], records[e].attempts + 1)
    BY <1>3, <1>2, <1>6 DEF DeadLetter, Terminate
  <2>2. MaxAttempts > 0 /\ c.attempts + 1 >= MaxAttempts
    BY <1>6 DEF DeadLetter, Exhausted
  <2>3. ASSUME NEW e \in Matching(c)
        PROVE  /\ e \in Event
               /\ dead_letters'[e] = <<MaxAttempts>>
               /\ e \notin DOMAIN records'
    <3>1. e \in DOMAIN records /\ e \in Event
      BY <1>2, <1>3
    <3>2. dead_letters[e] = <<>>
      BY <3>1
    <3>3. records[e].attempts + 1 = MaxAttempts
      BY <1>1, <1>2, <1>3, <2>2, <3>1
    <3>. QED
      BY <2>1, <3>1, <3>2, <3>3
  <2>4. NothingLost' /\ NothingPremature'
    BY <1>0, <1>2, <1>3, <2>1, <2>3
  <2>5. DeadLetterOnce'
    <3>. SUFFICES ASSUME NEW e \in Event, dead_letters'[e] # <<>>
                  PROVE  Len(dead_letters'[e]) = 1 /\ e \notin DOMAIN records'
      OBVIOUS
    <3>1. CASE e \in Matching(c)
      <4>1. dead_letters'[e] = <<MaxAttempts>> /\ e \notin DOMAIN records'
        BY <2>3, <3>1
      <4>2. Len(<<MaxAttempts>>) = 1
        OBVIOUS
      <4>. QED
        BY <4>1, <4>2
    <3>2. CASE e \notin Matching(c)
      BY <2>1, <3>2
    <3>. QED
      BY <3>1, <3>2
  <2>6. BudgetUsedExactly'
    <3>. SUFFICES ASSUME NEW e \in Event
                  PROVE  /\ \A i \in DOMAIN dead_letters'[e] : dead_letters'[e][i] = MaxAttempts
                         /\ e \in DOMAIN records' => records'[e].attempts < MaxAttempts
      BY <2>2
    <3>1. CASE e \in Matching(c)
      BY <2>3, <3>1
    <3>2. CASE e \notin Matching(c)
      BY <2>1, <2>2, <3>2
    <3>. QED
      BY <3>1, <3>2
  <2>. QED
    BY <2>4, <2>5, <2>6
<1>. QED
  BY <1>4, <1>5, <1>6

LEMMA InductiveStep ==
  ASSUME Inductive, [Next]_vars
  PROVE  Inductive'
<1>0. TypeOK /\ TypeOK'
  BY TypeStep DEF Inductive
<1>1. TokensTracked' /\ TokensUnique' /\ SentIsPublished'
  BY TrackedStep, SentStep
<1>2. StoreEffect
  BY <1>0, StepEffects
<1>4. TablesSafe'
  BY <1>2, QuietSafe, CallerSafe, MarkSafe DEF StoreEffect, FetchEffect
<1>. QED
  BY <1>0, <1>1, <1>4 DEF Inductive, TablesSafe

LEMMA InductiveInit == Init => Inductive
<1>. SUFFICES ASSUME Init PROVE Inductive
  OBVIOUS
<1>1. TypeOK
  BY TypeInit
<1>2. TokensTracked /\ TokensUnique /\ SentIsPublished
  BY DEF Init, RelayInit, StoreInit, TokensTracked, TokensUnique, SentIsPublished
<1>3. NothingLost /\ NothingPremature /\ DeadLetterOnce /\ BudgetUsedExactly
  BY StoreAssumption DEF Init, StoreInit, NothingLost, NothingPremature, DeadLetterOnce, BudgetUsedExactly,
         Committed
<1>. QED
  BY <1>1, <1>2, <1>3 DEF Inductive

\* In every reachable state the records in flight are tied to their rows.
LEMMA InductiveHolds == Spec => []Inductive
BY InductiveInit, InductiveStep, PTL DEF Spec

\* No committed event is ever lost, whatever the relays, the database answers
\* and the leases do (Store.MarkSent, MarkFailed, Terminate and Relay.process).
THEOREM NeverLost == Spec => []NothingLost
<1>1. Inductive => NothingLost
  BY DEF Inductive
<1>. QED
  BY <1>1, InductiveHolds, PTL

\* No event is published or dead-lettered unless its transaction committed
\* (Store.Stage inside TxManager.WithinTx).
THEOREM NeverPremature == Spec => []NothingPremature
<1>1. Inductive => NothingPremature
  BY DEF Inductive
<1>. QED
  BY <1>1, InductiveHolds, PTL

\* Any number of concurrent and stale Terminate calls leave one dead letter.
THEOREM DeadLetteredOnce == Spec => []DeadLetterOnce
<1>1. Inductive => DeadLetterOnce
  BY DEF Inductive
<1>. QED
  BY <1>1, InductiveHolds, PTL

\* A dead letter has used exactly the budget of WithMaxAttempts.
THEOREM BudgetExact == Spec => []BudgetUsedExactly
<1>1. Inductive => BudgetUsedExactly
  BY DEF Inductive
<1>. QED
  BY <1>1, InductiveHolds, PTL

-----------------------------------------------------------------------------
(* Leases                                                                  *)

\* While its lease runs, a claimed row belongs to the relay that fetched it.
LEMMA LeaseStep ==
  ASSUME Inductive, [Next]_vars,
         NEW w \in Relays, NEW i \in DOMAIN batch[w],
         Holds(batch[w][i]), records[batch[w][i].event].claimed_until > now
  PROVE  \/ /\ batch[w][i].event \in DOMAIN records'
            /\ records'[batch[w][i].event] = records[batch[w][i].event]
         \/ i = 1 /\ pc[w] \in {"sent", "fail"} /\ batch'[w] = Tail(batch[w])
<1>0. /\ TypeOK /\ RelayTypeOK /\ StoreTypeOK /\ TokensUnique
      /\ batch \in [Relays -> Seq(Record)]
  BY DEF Inductive, TypeOK, RelayTypeOK
<1>. DEFINE e == batch[w][i].event
<1>1. e \in DOMAIN records /\ records[e].claim_token = batch[w][i].token
  BY DEF Holds
<1>2. StoreEffect
  BY <1>0, StepEffects
<1>3. CASE UNCHANGED storeVars \/ AdvanceClock
  BY <1>1, <1>3 DEF storeVars, AdvanceClock
<1>4. CASE Caller
  <2>1. \A f \in DOMAIN records : f \in DOMAIN records' /\ records'[f] = records[f]
    BY <1>4 DEF Caller, Begin, Commit, Rollback, Stage
  <2>. QED
    BY <1>1, <2>1
<1>5. CASE FetchEffect
  <2>0. PICK skipped : \E q \in Selections(skipped) : Fetch(q)
    BY <1>5 DEF FetchEffect
  <2>1. PICK q \in Selections(skipped) : Fetch(q)
    BY <2>0
  <2>2. \A j \in DOMAIN q : q[j] \in Due
    BY SelectionIsSeq, StoreAssumption
  <2>3. records[e].claimed_until \in Nat /\ now \in Nat
    BY <1>0, <1>1 DEF StoreTypeOK, Row
  <2>4. e \notin Due
    BY <2>3 DEF Due
  <2>. QED
    BY <1>1, <2>1, <2>2, <2>4 DEF Fetch
<1>6. ASSUME NEW v \in Relays, Sent(v) \/ Reschedule(v) \/ DeadLetter(v)
      PROVE  \/ e \in DOMAIN records' /\ records'[e] = records[e]
             \/ i = 1 /\ pc[w] \in {"sent", "fail"} /\ batch'[w] = Tail(batch[w])
  <2>1. pc[v] \in {"sent", "fail"} /\ Advance(v)
    BY <1>6 DEF Sent, Reschedule, DeadLetter
  <2>2. Current(v) = batch[v][1] /\ 1 \in DOMAIN batch[v]
    BY <1>0, <2>1, CurrentIsRecord
  <2>3. CASE e \in Matching(Current(v))
    <3>1. batch[v][1].event = e /\ batch[v][1].token = batch[w][i].token
      BY <1>1, <2>2, <2>3 DEF Matching
    <3>2. v = w /\ i = 1
      BY <1>0, <2>2, <3>1 DEF TokensUnique
    <3>. QED
      BY <1>0, <2>1, <3>2 DEF Advance
  <2>4. CASE e \notin Matching(Current(v))
    BY <1>1, <1>6, <2>4 DEF Sent, Reschedule, DeadLetter, MarkSent, MarkFailed, Terminate
  <2>. QED
    BY <2>3, <2>4
<1>. QED
  BY <1>2, <1>3, <1>4, <1>5, <1>6 DEF StoreEffect

\* For any number of relays, no Fetch and no stale Mark call touches a row
\* while another relay's lease on it runs.
THEOREM LeasesRespected == Spec => LeaseRespected
<1>1. Inductive /\ [Next]_vars =>
        [\A w \in Relays : \A i \in DOMAIN batch[w] :
           LET r == batch[w][i] IN
           Holds(r) /\ records[r.event].claimed_until > now =>
             \/ r.event \in DOMAIN records' /\ records'[r.event] = records[r.event]
             \/ i = 1 /\ pc[w] \in {"sent", "fail"} /\ batch'[w] = Tail(batch[w])]_vars
  BY LeaseStep
<1>. QED
  BY <1>1, InductiveHolds, PTL DEF Spec, LeaseRespected

-----------------------------------------------------------------------------
(* Refinement                                                              *)

LEMMA AppendNotEmpty ==
  ASSUME NEW S, NEW s \in Seq(S), NEW x \in S
  PROVE  Append(s, x) # <<>>
<1>1. Len(Append(s, x)) = Len(s) + 1 /\ Len(s) \in Nat
  OBVIOUS
<1>2. Len(<<>>) = 0
  OBVIOUS
<1>. QED
  BY <1>1, <1>2

\* Every step is a step of the outbox contract, or invisible to it.
LEMMA RefinesStep ==
  ASSUME Inductive, [Next]_vars
  PROVE  [Delivery!Next]_(Delivery!vars)
<1>0. /\ TypeOK /\ StoreTypeOK /\ RelayTypeOK
      /\ published \in [Event -> Nat]
      /\ DOMAIN records \subseteq Event
      /\ dead_letters \in [Event -> Seq(Nat)]
  BY DEF Inductive, TypeOK, StoreTypeOK
<1>1. StoreEffect /\ PublishEffect
  BY <1>0, StepEffects
<1>. USE DEF Delivery!Next, Delivery!vars
<1>2. ASSUME UNCHANGED storeVars
      PROVE  [Delivery!Next]_(Delivery!vars)
  <2>1. CASE UNCHANGED published
    BY <1>2, <2>1 DEF storeVars, Committed
  <2>2. ASSUME NEW w \in Relays, pc[w] = "publish", Accept(Current(w).event)
        PROVE  [Delivery!Next]_(Delivery!vars)
    <3>. DEFINE e == Current(w).event
    <3>1. e \in Event /\ Current(w) = batch[w][1] /\ 1 \in DOMAIN batch[w]
      BY <1>0, <2>2, CurrentIsRecord
    <3>2. Committed(e)
      BY <3>1 DEF Inductive, TokensTracked, Tracked
    <3>3. \A f \in Event : published'[f] > 0 <=> published[f] > 0 \/ f = e
      BY <1>0, <2>2, <3>1 DEF Accept
    <3>4. {f \in Event : published[f] > 0}' = {f \in Event : published[f] > 0} \cup {e}
      BY <3>1, <3>3
    <3>5. UNCHANGED <<tx, records, dead_letters>>
      BY <1>2 DEF storeVars
    <3>6. Delivery!Deliver(e)
      BY <3>1, <3>2, <3>4, <3>5 DEF Delivery!Deliver, Committed
    <3>. QED
      BY <3>1, <3>6 DEF Delivery!Deliver
  <2>. QED
    BY <1>1, <2>1, <2>2 DEF PublishEffect
<1>3. ASSUME UNCHANGED <<tx, dead_letters, published>>, DOMAIN records' = DOMAIN records
      PROVE  [Delivery!Next]_(Delivery!vars)
  <2>1. {e \in Event : Committed(e)}' = {e \in Event : Committed(e)}
    BY <1>3 DEF Committed
  <2>2. {e \in Event : published[e] > 0}' = {e \in Event : published[e] > 0}
    BY <1>3
  <2>3. {e \in Event : dead_letters[e] # <<>>}' = {e \in Event : dead_letters[e] # <<>>}
    BY <1>3
  <2>. QED
    BY <1>3, <2>1, <2>2, <2>3
<1>4. CASE Caller
  <2>1. CASE \E t \in Txn : Begin(t) \/ Rollback(t)
    <3>1. /\ UNCHANGED <<records, dead_letters, published>>
          /\ \A e \in Event : Committed(e)' <=> Committed(e)
      <4>1. PICK t \in Txn : Begin(t) \/ Rollback(t)
        BY <2>1
      <4>2. /\ tx \in [Txn -> {"idle", "open", "committed", "rolledback"}]
            /\ \A e \in Event : TxnOf[e] \in Txn
        BY <1>0, StoreAssumption DEF StoreTypeOK
      <4>3. CASE Begin(t)
        BY <1>4, <4>2, <4>3 DEF Caller, envVars, Begin, Committed
      <4>4. CASE Rollback(t)
        BY <1>4, <4>2, <4>4 DEF Caller, envVars, Rollback, Committed
      <4>. QED
        BY <4>1, <4>3, <4>4
    <3>. QED
      BY <3>1
  <2>2. ASSUME NEW e \in Event, Stage(e) PROVE [Delivery!Next]_(Delivery!vars)
    BY <1>3, <1>4, <2>2 DEF Caller, envVars, Stage
  <2>3. ASSUME NEW t \in Txn, Commit(t) PROVE [Delivery!Next]_(Delivery!vars)
    <3>1. /\ UNCHANGED <<dead_letters, published>>
          /\ DOMAIN records' = DOMAIN records \cup Batch(t)
          /\ \A e \in Event : Committed(e)' <=> Committed(e) \/ e \in Batch(t)
          /\ \A e \in Batch(t) : e \in Event /\ ~Committed(e)
      BY <1>0, <1>4, <2>3 DEF Caller, envVars, Commit, Batch, Committed, StoreTypeOK
    <3>2. Batch(t) \in SUBSET Event
      BY <3>1
    <3>3. Delivery!Accept(Batch(t))
      BY <3>1, <3>2 DEF Delivery!Accept
    <3>. QED
      BY <3>2, <3>3
  <2>. QED
    BY <1>4, <2>1, <2>2, <2>3 DEF Caller
<1>5. CASE FetchEffect /\ UNCHANGED published
  BY <1>3, <1>5 DEF FetchEffect, Fetch
<1>6. CASE AdvanceClock /\ UNCHANGED <<relayVars, published>>
  BY <1>3, <1>6 DEF AdvanceClock
<1>7. ASSUME NEW w \in Relays, Reschedule(w) PROVE [Delivery!Next]_(Delivery!vars)
  BY <1>3, <1>7 DEF Reschedule, MarkFailed, envVars
<1>8. ASSUME NEW w \in Relays, Sent(w) \/ DeadLetter(w)
      PROVE  [Delivery!Next]_(Delivery!vars)
  <2>. DEFINE c == Current(w)
  <2>1. /\ UNCHANGED <<tx, published>>
        /\ DOMAIN records' = DOMAIN records \ Matching(c)
    BY <1>8 DEF Sent, DeadLetter, MarkSent, Terminate, envVars
  <2>2. CASE Matching(c) = {}
    <3>1. UNCHANGED dead_letters
      BY <1>0, <1>8, <2>2 DEF Sent, DeadLetter, MarkSent, Terminate
    <3>. QED
      BY <1>3, <2>1, <2>2, <3>1
  <2>3. CASE Matching(c) # {}
    <3>1. Matching(c) = {c.event} /\ c.event \in DOMAIN records /\ c.event \in Event
      BY <1>0, <2>3 DEF Matching
    <3>2. CASE Sent(w)
      <4>1. published[c.event] > 0 /\ UNCHANGED dead_letters
        BY <3>2 DEF Sent, MarkSent, Inductive, SentIsPublished
      <4>2. Delivery!Settle(c.event)
        BY <2>1, <3>1, <4>1 DEF Delivery!Settle, Committed
      <4>. QED
        BY <3>1, <4>2
    <3>3. CASE DeadLetter(w)
      <4>1. \A f \in Event : dead_letters'[f] # <<>> <=> dead_letters[f] # <<>> \/ f = c.event
        <5>1. dead_letters' = [f \in Event |-> IF f \in Matching(c)
                                               THEN Append(dead_letters[f], records[f].attempts + 1)
                                               ELSE dead_letters[f]]
          BY <3>3 DEF DeadLetter, Terminate
        <5>2. records[c.event].attempts + 1 \in Nat
          BY <1>0, <3>1 DEF StoreTypeOK, Row
        <5>3. Append(dead_letters[c.event], records[c.event].attempts + 1) # <<>>
          BY <1>0, <3>1, <5>2, AppendNotEmpty
        <5>. QED
          BY <3>1, <5>1, <5>3
      <4>2. {f \in Event : dead_letters[f] # <<>>}'
              = {f \in Event : dead_letters[f] # <<>>} \cup {c.event}
        BY <3>1, <4>1
      <4>3. {f \in Event : Committed(f)}' = {f \in Event : Committed(f)}
        BY <2>1 DEF Committed
      <4>4. {f \in Event : published[f] > 0}' = {f \in Event : published[f] > 0}
        BY <2>1
      <4>5. Delivery!Bury(c.event)
        BY <2>1, <3>1, <4>2, <4>3, <4>4 DEF Delivery!Bury
      <4>. QED
        BY <3>1, <4>5 DEF Delivery!Bury
    <3>. QED
      BY <1>8, <3>2, <3>3
  <2>. QED
    BY <2>2, <2>3
<1>. QED
  BY <1>1, <1>2, <1>4, <1>5, <1>6, <1>7, <1>8 DEF StoreEffect

LEMMA RefinesInit == Init => Delivery!Init
BY StoreAssumption DEF Init, StoreInit, Committed, Delivery!Init

\* The store and its relays implement the safety part of the outbox contract:
\* an event leaves the queue only delivered or dead-lettered.
THEOREM Refinement == Spec => Delivery!Spec
BY RefinesInit, RefinesStep, InductiveHolds, PTL DEF Spec, Delivery!Spec

-----------------------------------------------------------------------------
(* The price of a disturbance                                              *)

\* The relays that have fetched e and not yet tried to publish it.
Waiting(w, e) ==
  \E i \in DOMAIN batch[w] : batch[w][i].event = e /\ (i = 1 => pc[w] = "publish")

Pending(e) == {w \in Relays : Waiting(w, e)}

\* Relay w has the i-th record of its batch safely claimed: its context is not
\* cancelled and the lease on the row still runs.
Keeps(w, i, e) ==
  /\ ~cancelled[w]
  /\ i \in DOMAIN batch[w]
  /\ batch[w][i].event = e
  /\ Holds(batch[w][i])
  /\ records[e].claimed_until > now

Guarded(e) == \E w \in Relays : \E i \in Nat : Keeps(w, i, e)

\* ... and publishing it has not failed.
Working(e) == \E w \in Relays : \E i \in Nat : Keeps(w, i, e) /\ ~(i = 1 /\ pc[w] = "fail")

\* A fetch returns a row once.
BatchDistinct ==
  \A w \in Relays : \A i, j \in DOMAIN batch[w] :
    batch[w][i].event = batch[w][j].event => i = j

\* Every publication of e, made or still possible by a relay that has fetched
\* it, is the first one or paid for by a disturbance; when the row is not in
\* safe hands, so that another relay will fetch it again, that one is paid for
\* as well.  Likewise every claim on the row is a recorded attempt, paid for,
\* or the claim under which a relay works on it now.
Price(e) ==
  /\ IsFiniteSet(Pending(e))
  /\ published[e] + Cardinality(Pending(e)) <= 1 + spent
  /\ e \in DOMAIN records /\ ~Working(e) =>
       published[e] + Cardinality(Pending(e)) <= spent
  /\ e \in DOMAIN records => tokens[e] <= records[e].attempts + spent + 1
  /\ e \in DOMAIN records /\ ~Guarded(e) => tokens[e] <= records[e].attempts + spent
  /\ MaxAttempts > 0 => tokens[e] <= MaxAttempts + spent
  /\ ~Committed(e) => tokens[e] = 0

Prices == BatchDistinct /\ \A e \in Event : Price(e)

\* What the tables say of e is not changed.
SameRow(e) ==
  /\ e \in DOMAIN records' <=> e \in DOMAIN records
  /\ e \in DOMAIN records => records'[e] = records[e]
  /\ tokens'[e] = tokens[e]
  /\ Committed(e)' <=> Committed(e)

\* The numbers the price is made of.
LEMMA PriceTypes ==
  ASSUME TypeOK, NEW e \in Event, IsFiniteSet(Pending(e))
  PROVE  /\ published[e] \in Nat /\ tokens[e] \in Nat /\ spent \in Nat
         /\ Cardinality(Pending(e)) \in Nat
         /\ e \in DOMAIN records => records[e].attempts \in Nat
<1>1. Cardinality(Pending(e)) \in Nat
  BY FS_CardinalityType
<1>. QED
  BY <1>1, OutboxAssumption DEF TypeOK, StoreTypeOK, Row

\* A step keeps the price of e when it adds nothing to what was and can still
\* be published, and either leaves e in the hands it was in or is paid for.
LEMMA PriceKept ==
  ASSUME TypeOK, TypeOK', NEW e \in Event, Price(e), SameRow(e),
         IsFiniteSet(Pending(e)'),
         published'[e] + Cardinality(Pending(e)') <= published[e] + Cardinality(Pending(e)),
         \/ spent' = spent + 1
         \/ /\ spent' = spent
            /\ Working(e) => Working(e)'
            /\ Guarded(e) => Guarded(e)'
  PROVE  Price(e)'
<1>1. /\ published[e] \in Nat /\ tokens[e] \in Nat /\ spent \in Nat
      /\ Cardinality(Pending(e)) \in Nat
      /\ e \in DOMAIN records => records[e].attempts \in Nat
  BY PriceTypes DEF Price
<1>2. Cardinality(Pending(e)') \in Nat /\ published'[e] \in Nat
  BY FS_CardinalityType DEF TypeOK
<1>3. (MaxAttempts > 0 => tokens[e] <= MaxAttempts + spent) /\ MaxAttempts \in Nat
  BY RelayAssumption DEF Price
<1>4. CASE spent' = spent + 1
  BY <1>1, <1>2, <1>3, <1>4 DEF Price, SameRow
<1>5. CASE spent' = spent /\ (Working(e) => Working(e)') /\ (Guarded(e) => Guarded(e)')
  BY <1>1, <1>2, <1>3, <1>5 DEF Price, SameRow
<1>. QED
  BY <1>4, <1>5

\* The same for a step after which the relays have what they had.
LEMMA PriceKeptInPlace ==
  ASSUME TypeOK, TypeOK', NEW e \in Event, Price(e), SameRow(e), UNCHANGED published,
         Pending(e)' \in SUBSET Pending(e),
         \/ spent' = spent + 1
         \/ /\ spent' = spent
            /\ Working(e) => Working(e)'
            /\ Guarded(e) => Guarded(e)'
  PROVE  Price(e)'
<1>1. IsFiniteSet(Pending(e))
  BY DEF Price
<1>2. IsFiniteSet(Pending(e)') /\ Cardinality(Pending(e)') <= Cardinality(Pending(e))
  BY <1>1, FS_Subset
<1>3. Cardinality(Pending(e)') \in Nat
  BY <1>2, FS_CardinalityType
<1>4. published[e] \in Nat /\ Cardinality(Pending(e)) \in Nat
  BY <1>1, PriceTypes
<1>5. published'[e] + Cardinality(Pending(e)') <= published[e] + Cardinality(Pending(e))
  BY <1>2, <1>3, <1>4
<1>. QED
  BY <1>2, <1>5, PriceKept

\* Trying to publish the current record takes its relay off the waiting list
\* of that event, and changes no other list.
LEMMA PublishPending ==
  ASSUME TypeOK, BatchDistinct, NEW w \in Relays, pc[w] = "publish",
         NEW x \in {"sent", "fail"}, pc' = [pc EXCEPT ![w] = x], UNCHANGED batch,
         NEW c \in Event, c = Current(w).event
  PROVE  /\ w \in Pending(c)
         /\ Pending(c)' = Pending(c) \ {w}
         /\ \A e \in Event : e # c => Pending(e)' = Pending(e)
         /\ BatchDistinct'
<1>0. /\ RelayTypeOK /\ pc \in [Relays -> RelayPC]
      /\ 1 \in DOMAIN batch[w] /\ Current(w) = batch[w][1]
  BY CurrentIsRecord DEF TypeOK, RelayTypeOK
<1>1. \A v \in Relays : v # w => pc'[v] = pc[v]
  BY <1>0
<1>2. pc'[w] = x /\ x # "publish"
  BY <1>0
<1>3. ~Waiting(w, c)'
  BY <1>0, <1>2 DEF BatchDistinct, Waiting
<1>4. Waiting(w, c)
  BY <1>0 DEF Waiting
<1>5. \A v \in Relays : \A e : v # w => (Waiting(v, e)' <=> Waiting(v, e))
  BY <1>1 DEF Waiting
<1>6. \A e \in Event : e # c => (Waiting(w, e)' <=> Waiting(w, e))
  BY <1>0 DEF Waiting
<1>7. BatchDistinct'
  BY DEF BatchDistinct
<1>. QED
  BY <1>3, <1>4, <1>5, <1>6, <1>7 DEF Pending

\* Going on with the next record changes no waiting list, and leaves every
\* other event in the hands it was in.
LEMMA AdvancePending ==
  ASSUME TypeOK, BatchDistinct, NEW w \in Relays, pc[w] \in {"sent", "fail"}, Advance(w),
         UNCHANGED now
  PROVE  /\ BatchDistinct'
         /\ \A e \in Event :
              /\ Pending(e)' = Pending(e)
              /\ SameRow(e) /\ (e = Current(w).event => ~Holds(Current(w)) \/ cancelled[w]) =>
                   (Working(e) => Working(e)') /\ (Guarded(e) => Guarded(e)')
<1>0. /\ RelayTypeOK /\ pc \in [Relays -> RelayPC] /\ batch \in [Relays -> Seq(Record)]
      /\ batch[w] \in Seq(Record) /\ batch[w] # <<>>
      /\ 1 \in DOMAIN batch[w] /\ Current(w) = batch[w][1]
  BY CurrentIsRecord DEF TypeOK, RelayTypeOK
<1>1. /\ \A v \in Relays : v # w => pc'[v] = pc[v] /\ batch'[v] = batch[v]
      /\ cancelled' = cancelled
      /\ batch'[w] = Tail(batch[w])
      /\ pc'[w] \in {"idle", "publish"}
      /\ batch'[w] # <<>> => pc'[w] = "publish"
  BY <1>0 DEF Advance
<1>2. \A i \in DOMAIN batch'[w] :
        i \in Nat \ {0} /\ i + 1 \in DOMAIN batch[w] /\ batch'[w][i] = batch[w][i + 1]
  BY <1>0, <1>1, HeadTail
<1>3. \A i \in DOMAIN batch[w] :
        /\ i \in Nat \ {0}
        /\ i # 1 => i - 1 \in DOMAIN batch'[w] /\ batch'[w][i - 1] = batch[w][i] /\ i - 1 \in Nat
  BY <1>0, <1>1
<1>4. BatchDistinct'
  <2>. SUFFICES ASSUME NEW v \in Relays, NEW i \in DOMAIN batch'[v], NEW j \in DOMAIN batch'[v],
                       batch'[v][i].event = batch'[v][j].event
                PROVE  i = j
    BY DEF BatchDistinct
  <2>1. CASE v # w
    BY <1>1, <2>1 DEF BatchDistinct
  <2>2. CASE v = w
    <3>1. i + 1 = j + 1
      BY <1>2, <2>2 DEF BatchDistinct
    <3>. QED
      BY <1>2, <2>2, <3>1
  <2>. QED
    BY <2>1, <2>2
<1>5. ASSUME NEW e \in Event
      PROVE  Pending(e)' = Pending(e)
  <2>1. \A v \in Relays : v # w => (Waiting(v, e)' <=> Waiting(v, e))
    BY <1>1 DEF Waiting
  <2>2. ASSUME Waiting(w, e) PROVE Waiting(w, e)'
    <3>1. PICK i \in DOMAIN batch[w] : batch[w][i].event = e /\ (i = 1 => pc[w] = "publish")
      BY <2>2 DEF Waiting
    <3>2. i - 1 \in DOMAIN batch'[w] /\ batch'[w][i - 1].event = e
      BY <1>3, <3>1
    <3>3. pc'[w] = "publish"
      BY <1>0, <1>1, <3>2
    <3>. QED
      BY <3>2, <3>3 DEF Waiting
  <2>3. ASSUME Waiting(w, e)' PROVE Waiting(w, e)
    <3>1. PICK i \in DOMAIN batch'[w] : batch'[w][i].event = e
      BY <2>3 DEF Waiting
    <3>2. i + 1 \in DOMAIN batch[w] /\ batch[w][i + 1].event = e /\ i + 1 # 1
      BY <1>2, <3>1
    <3>. QED
      BY <3>2 DEF Waiting
  <2>. QED
    BY <2>1, <2>2, <2>3 DEF Pending
<1>6. ASSUME NEW e \in Event, SameRow(e),
             e = Current(w).event => ~Holds(Current(w)) \/ cancelled[w]
      PROVE  (Working(e) => Working(e)') /\ (Guarded(e) => Guarded(e)')
  <2>1. ASSUME NEW v \in Relays, NEW i \in Nat, Keeps(v, i, e)
        PROVE  \/ v # w /\ Keeps(v, i, e)'
               \/ v = w /\ i - 1 \in Nat /\ Keeps(w, i - 1, e)' /\ pc'[w] = "publish"
    <3>0. e \in DOMAIN records /\ e \in DOMAIN records' /\ records'[e] = records[e]
      BY <1>6, <2>1 DEF Keeps, Holds, SameRow
    <3>1. CASE v # w
      BY <1>1, <2>1, <3>0, <3>1 DEF Keeps, Holds
    <3>2. CASE v = w
      <4>1. i # 1
        BY <1>0, <1>6, <2>1, <3>2 DEF Keeps
      <4>2. i - 1 \in DOMAIN batch'[w] /\ batch'[w][i - 1] = batch[w][i] /\ i - 1 \in Nat
        BY <1>3, <2>1, <3>2, <4>1 DEF Keeps
      <4>3. pc'[w] = "publish"
        <5>1. batch'[w] # <<>>
          BY <4>2
        <5>. QED
          BY <1>1, <5>1
      <4>. QED
        BY <1>1, <2>1, <3>0, <3>2, <4>2, <4>3 DEF Keeps, Holds
    <3>. QED
      BY <3>1, <3>2
  <2>2. ASSUME Guarded(e) PROVE Guarded(e)'
    BY <2>1, <2>2 DEF Guarded
  <2>3. ASSUME Working(e) PROVE Working(e)'
    <3>1. PICK v \in Relays : \E i \in Nat : Keeps(v, i, e) /\ ~(i = 1 /\ pc[v] = "fail")
      BY <2>3 DEF Working
    <3>2. PICK i \in Nat : Keeps(v, i, e) /\ ~(i = 1 /\ pc[v] = "fail")
      BY <3>1
    <3>3. CASE v # w
      BY <1>1, <2>1, <3>2, <3>3 DEF Working
    <3>4. CASE v = w
      BY <2>1, <3>2, <3>4 DEF Working
    <3>. QED
      BY <3>3, <3>4
  <2>. QED
    BY <2>2, <2>3
<1>. QED
  BY <1>4, <1>5, <1>6

\* What a fetch does to the rows, event by event.
LEMMA FetchRows ==
  ASSUME TypeOK, NEW skipped, NEW q \in Selections(skipped), Fetch(q),
         NEW e \in Event
  PROVE  \/ /\ \A i \in DOMAIN q : q[i] # e
            /\ SameRow(e)
         \/ /\ \E i \in DOMAIN q : q[i] = e
            /\ e \in DOMAIN records /\ e \in DOMAIN records'
            /\ records[e].claimed_until <= now
            /\ records'[e].attempts = records[e].attempts
            /\ records'[e].claimed_until > now'
            /\ records'[e].claim_token = tokens[e] + 1
            /\ tokens'[e] = tokens[e] + 1
            /\ Committed(e)' <=> Committed(e)
<1>1. \A i \in DOMAIN q : q[i] \in Due
  BY SelectionIsSeq, StoreAssumption
<1>2. UNCHANGED tx /\ now' = now /\ now \in Nat
  BY DEF Fetch, TypeOK, StoreTypeOK
<1>3. CASE \A i \in DOMAIN q : q[i] # e
  BY <1>2, <1>3 DEF Fetch, SameRow, Committed
<1>4. CASE \E i \in DOMAIN q : q[i] = e
  <2>1. e \in DOMAIN records /\ records[e].claimed_until <= now
    BY <1>1, <1>4 DEF Due
  <2>2. records'[e] = Leased(e) /\ e \in DOMAIN records' /\ tokens'[e] = tokens[e] + 1
    BY <1>4, <2>1 DEF Fetch
  <2>. QED
    BY <1>2, <1>4, <2>1, <2>2, StoreAssumption DEF Leased, Committed
<1>. QED
  BY <1>3, <1>4

\* A row that is due is in nobody's safe hands.
LEMMA DueIsFree ==
  ASSUME TypeOK, NEW e \in DOMAIN records, records[e].claimed_until <= now
  PROVE  ~Guarded(e) /\ ~Working(e)
<1>1. records[e].claimed_until \in Nat /\ now \in Nat
  BY DEF TypeOK, StoreTypeOK, Row
<1>. QED
  BY <1>1 DEF Guarded, Working, Keeps

\* A fetch takes only rows that have to be published again; a relay that gets
\* them has them in safe hands.
LEMMA FetchPriced ==
  ASSUME Inductive, TypeOK', Prices, NEW w \in Relays, FetchBatch(w)
  PROVE  Prices'
<1>0. /\ TypeOK /\ RelayTypeOK /\ StoreTypeOK /\ pc \in [Relays -> RelayPC]
      /\ batch \in [Relays -> Seq(Record)]
      /\ published' = published /\ spent' = spent /\ ~cancelled[w]
      /\ pc[w] = "idle" /\ batch[w] = <<>> /\ cancelled' = cancelled
  BY DEF Inductive, TypeOK, RelayTypeOK, FetchBatch, Receive, envVars
<1>1. PICK skipped \in SUBSET Locked : \E q \in Selections(skipped) :
        Receive(w, Fetched(q)) /\ Fetch(q)
  BY DEF FetchBatch
<1>2. PICK q \in Selections(skipped) : Receive(w, Fetched(q)) /\ Fetch(q)
  BY <1>1
<1>3. /\ batch'[w] = Fetched(q) /\ DOMAIN Fetched(q) = DOMAIN q
      /\ \A v \in Relays : v # w => batch'[v] = batch[v] /\ pc'[v] = pc[v]
      /\ Fetched(q) # <<>> => pc'[w] = "publish"
      /\ now' = now
  BY <1>0, <1>2 DEF Receive, Fetched, Fetch
<1>4. \A i \in DOMAIN q : /\ Fetched(q)[i].event = q[i]
                          /\ Fetched(q)[i].token = tokens[q[i]] + 1
  BY DEF Fetched
<1>5. \A i, j \in DOMAIN q : q[i] = q[j] => i = j
  BY <1>0, SelectionDistinct
<1>6. BatchDistinct'
  <2>. SUFFICES ASSUME NEW v \in Relays, NEW i \in DOMAIN batch'[v], NEW j \in DOMAIN batch'[v],
                       batch'[v][i].event = batch'[v][j].event
                PROVE  i = j
    BY DEF BatchDistinct
  <2>. QED
    BY <1>3, <1>4, <1>5 DEF Prices, BatchDistinct
<1>7. q \in Seq(Due) /\ Fetched(q) \in Seq(Record) /\ (Fetched(q) = <<>> <=> q = <<>>)
  BY <1>0, SelectionIsSeq, FetchedIsBatch, StoreAssumption
<1>8. ASSUME NEW e \in Event
      PROVE  Price(e)'
  <2>0. Price(e) /\ IsFiniteSet(Pending(e))
    BY DEF Prices, Price
  <2>1. \A v \in Relays : v # w => (Waiting(v, e)' <=> Waiting(v, e))
    BY <1>3 DEF Waiting
  <2>2. ~Waiting(w, e)
    BY <1>0 DEF Waiting
  <2>3. CASE (\A i \in DOMAIN q : q[i] # e) /\ SameRow(e)
    <3>1. ~Waiting(w, e)'
      BY <1>3, <1>4, <2>3 DEF Waiting
    <3>2. Pending(e)' = Pending(e)
      BY <2>1, <2>2, <3>1 DEF Pending
    <3>3. ASSUME NEW v \in Relays, NEW i \in Nat, Keeps(v, i, e)
          PROVE  v # w /\ Keeps(v, i, e)'
      <4>1. v # w
        BY <1>0, <3>3 DEF Keeps
      <4>2. batch'[v] = batch[v]
        BY <1>3, <4>1
      <4>. QED
        BY <1>0, <1>3, <2>3, <3>3, <4>1, <4>2 DEF Keeps, Holds, SameRow
    <3>4. (Working(e) => Working(e)') /\ (Guarded(e) => Guarded(e)')
      BY <1>3, <3>3 DEF Working, Guarded
    <3>. QED
      BY <1>0, <2>0, <2>3, <3>2, <3>4, PriceKeptInPlace
  <2>4. ASSUME NEW i \in DOMAIN q, q[i] = e,
               e \in DOMAIN records, e \in DOMAIN records',
               records[e].claimed_until <= now,
               records'[e].attempts = records[e].attempts,
               records'[e].claimed_until > now',
               records'[e].claim_token = tokens[e] + 1,
               tokens'[e] = tokens[e] + 1,
               Committed(e)' <=> Committed(e)
        PROVE  Price(e)'
    <3>1. i \in DOMAIN batch'[w] /\ batch'[w][i].event = e /\ batch'[w][i].token = tokens[e] + 1
      BY <1>3, <1>4, <2>4
    <3>2. Fetched(q) # <<>> /\ i \in Nat
      BY <1>3, <1>7, <3>1
    <3>3. pc'[w] = "publish"
      BY <1>3, <3>2
    <3>4. Keeps(w, i, e)'
      BY <1>0, <2>4, <3>1 DEF Keeps, Holds
    <3>5. Working(e)' /\ Guarded(e)'
      BY <3>2, <3>3, <3>4 DEF Working, Guarded
    <3>6. ~Working(e) /\ ~Guarded(e)
      BY <1>0, <2>4, DueIsFree
    <3>7. Waiting(w, e)'
      BY <3>1, <3>3 DEF Waiting
    <3>8. Pending(e)' = Pending(e) \cup {w} /\ w \notin Pending(e)
      BY <2>1, <2>2, <3>7 DEF Pending
    <3>9. IsFiniteSet(Pending(e)') /\ Cardinality(Pending(e)') = Cardinality(Pending(e)) + 1
      BY <2>0, <3>8, FS_AddElement
    <3>10. /\ published[e] \in Nat /\ tokens[e] \in Nat /\ spent \in Nat
           /\ Cardinality(Pending(e)) \in Nat /\ records[e].attempts \in Nat
      BY <1>0, <2>0, <2>4, PriceTypes
    <3>11. Committed(e) /\ (MaxAttempts > 0 => records[e].attempts < MaxAttempts)
      BY <2>4 DEF Inductive, NothingPremature, BudgetUsedExactly
    <3>12. /\ published[e] + Cardinality(Pending(e)) <= spent
           /\ tokens[e] <= records[e].attempts + spent
      BY <2>0, <2>4, <3>6 DEF Price
    <3>. QED
      BY <1>0, <2>4, <3>5, <3>9, <3>10, <3>11, <3>12, RelayAssumption DEF Price
  <2>. QED
    BY <1>0, <1>2, <2>3, <2>4, FetchRows
<1>. QED
  BY <1>6, <1>8 DEF Prices

\* A fetch whose answer is lost claims rows for nobody; it is paid for.
LEMMA FetchLostPriced ==
  ASSUME Inductive, TypeOK', Prices, NEW w \in Relays, FetchLost(w)
  PROVE  Prices'
<1>0. TypeOK /\ published' = published /\ spent' = spent + 1
  BY DEF Inductive, FetchLost, Disturb
<1>1. PICK skipped \in SUBSET Locked : \E q \in Selections(skipped) : Fetch(q)
  BY DEF FetchLost
<1>2. PICK q \in Selections(skipped) : Fetch(q)
  BY <1>1
<1>3. UNCHANGED <<pc, batch, cancelled>>
  BY DEF FetchLost, relayVars
<1>4. BatchDistinct' /\ \A e \in Event : Pending(e)' = Pending(e)
  BY <1>3 DEF Prices, BatchDistinct, Pending, Waiting
<1>5. ASSUME NEW e \in Event
      PROVE  Price(e)'
  <2>0. Price(e) /\ IsFiniteSet(Pending(e)) /\ Pending(e)' = Pending(e)
    BY <1>4 DEF Prices, Price
  <2>1. CASE SameRow(e)
    BY <1>0, <2>0, <2>1, PriceKeptInPlace
  <2>2. CASE /\ e \in DOMAIN records /\ e \in DOMAIN records'
             /\ records[e].claimed_until <= now
             /\ records'[e].attempts = records[e].attempts
             /\ tokens'[e] = tokens[e] + 1
             /\ Committed(e)' <=> Committed(e)
    <3>1. ~Working(e) /\ ~Guarded(e)
      BY <1>0, <2>2, DueIsFree
    <3>2. /\ published[e] \in Nat /\ tokens[e] \in Nat /\ spent \in Nat
          /\ Cardinality(Pending(e)) \in Nat /\ records[e].attempts \in Nat
      BY <1>0, <2>0, <2>2, PriceTypes
    <3>3. Committed(e) /\ (MaxAttempts > 0 => records[e].attempts < MaxAttempts)
      BY <2>2 DEF Inductive, NothingPremature, BudgetUsedExactly
    <3>4. /\ published[e] + Cardinality(Pending(e)) <= spent
          /\ tokens[e] <= records[e].attempts + spent
      BY <2>0, <2>2, <3>1 DEF Price
    <3>. QED
      BY <1>0, <2>0, <2>2, <3>2, <3>3, <3>4, RelayAssumption DEF Price
  <2>. QED
    BY <1>0, <1>2, <2>1, <2>2, FetchRows
<1>. QED
  BY <1>4, <1>5 DEF Prices

\* A publication moves from the possible ones to those made; a failed one
\* leaves the row to be fetched again; a lost acknowledgement does both and is
\* paid for.
LEMMA PublishPriced ==
  ASSUME Inductive, TypeOK', Prices, NEW w \in Relays,
         PublishOk(w) \/ PublishErr(w) \/ PublishAckLost(w)
  PROVE  Prices'
<1>0. /\ TypeOK /\ RelayTypeOK /\ pc \in [Relays -> RelayPC] /\ pc[w] = "publish"
      /\ published \in [Event -> Nat] /\ BatchDistinct
      /\ UNCHANGED <<batch, cancelled>> /\ UNCHANGED storeVars
  BY DEF Inductive, TypeOK, RelayTypeOK, Prices, PublishOk, PublishErr, PublishAckLost,
         PublishReturns, PublishFails
<1>1. PICK x \in {"sent", "fail"} : pc' = [pc EXCEPT ![w] = x] /\ (PublishOk(w) => x = "sent")
  BY DEF PublishOk, PublishErr, PublishAckLost, PublishReturns, PublishFails
<1>2. PICK c \in Event : c = Current(w).event
  BY <1>0, CurrentIsRecord
<1>3. /\ w \in Pending(c)
      /\ Pending(c)' = Pending(c) \ {w}
      /\ \A e \in Event : e # c => Pending(e)' = Pending(e)
      /\ BatchDistinct'
  BY <1>0, <1>1, <1>2, PublishPending
<1>4. \A e \in Event : SameRow(e)
  BY <1>0 DEF storeVars, SameRow, Committed
<1>5. \A v \in Relays, i \in Nat, e \in Event : Keeps(v, i, e) => Keeps(v, i, e)'
  BY <1>0 DEF Keeps, Holds, storeVars
<1>6. \A e \in Event : Guarded(e) => Guarded(e)'
  BY <1>5 DEF Guarded
<1>7. 1 \in DOMAIN batch[w] /\ batch[w][1].event = c
  BY <1>0, <1>2, CurrentIsRecord
<1>8. ASSUME NEW e \in Event, e # c \/ PublishOk(w), Working(e)
      PROVE  Working(e)'
  <2>1. PICK v \in Relays : \E i \in Nat : Keeps(v, i, e) /\ ~(i = 1 /\ pc[v] = "fail")
    BY <1>8 DEF Working
  <2>2. PICK i \in Nat : Keeps(v, i, e) /\ ~(i = 1 /\ pc[v] = "fail")
    BY <2>1
  <2>3. Keeps(v, i, e)'
    BY <1>5, <2>2
  <2>4. CASE v # w
    <3>1. pc'[v] = pc[v]
      BY <1>0, <1>1, <2>4
    <3>. QED
      BY <2>2, <2>3, <3>1 DEF Working
  <2>5. CASE v = w /\ i # 1
    BY <2>3, <2>5 DEF Working
  <2>6. CASE v = w /\ i = 1
    <3>1. e = c
      BY <1>7, <2>2, <2>6 DEF Keeps
    <3>2. pc'[w] = "sent"
      BY <1>0, <1>1, <1>8, <3>1
    <3>. QED
      BY <2>3, <2>6, <3>2 DEF Working
  <2>. QED
    BY <2>4, <2>5, <2>6
<1>9. /\ PublishOk(w) \/ PublishErr(w) => spent' = spent
      /\ PublishAckLost(w) => spent' = spent + 1
      /\ PublishErr(w) => published' = published
      /\ ~PublishErr(w) => published' = [published EXCEPT ![c] = @ + 1]
  BY <1>2 DEF PublishOk, PublishErr, PublishAckLost, Accept, Disturb, envVars
<1>10. ASSUME NEW e \in Event, e # c
       PROVE  Price(e)'
  <2>1. Price(e) /\ IsFiniteSet(Pending(e)) /\ Pending(e)' = Pending(e)
    BY <1>3, <1>10 DEF Prices, Price
  <2>2. published'[e] = published[e]
    BY <1>0, <1>9, <1>10
  <2>3. published[e] \in Nat /\ Cardinality(Pending(e)) \in Nat
    BY <1>0, <2>1, PriceTypes
  <2>4. (Working(e) => Working(e)') /\ (Guarded(e) => Guarded(e)')
    BY <1>6, <1>8, <1>10
  <2>5. published'[e] + Cardinality(Pending(e)') <= published[e] + Cardinality(Pending(e))
    BY <2>1, <2>2, <2>3
  <2>6. IsFiniteSet(Pending(e)')
    BY <2>1
  <2>. QED
    BY <1>0, <1>4, <1>9, <2>1, <2>4, <2>5, <2>6, PriceKept
<1>11. Price(c)'
  <2>1. Price(c) /\ IsFiniteSet(Pending(c)) /\ SameRow(c)
    BY <1>4 DEF Prices, Price
  <2>2. IsFiniteSet(Pending(c)') /\ Cardinality(Pending(c)') = Cardinality(Pending(c)) - 1
    BY <1>3, <2>1, FS_RemoveElement
  <2>3. /\ published[c] \in Nat /\ Cardinality(Pending(c)) \in Nat /\ spent \in Nat
        /\ tokens[c] \in Nat /\ (c \in DOMAIN records => records[c].attempts \in Nat)
    BY <1>0, <2>1, PriceTypes
  <2>4. CASE PublishErr(w)
    <3>1. /\ published'[c] = published[c] /\ spent' = spent
          /\ Guarded(c) => Guarded(c)'
      BY <1>6, <1>9, <2>4
    <3>2. published'[c] + Cardinality(Pending(c)') <= spent'
      BY <2>1, <2>2, <2>3, <3>1 DEF Price
    <3>3. (MaxAttempts > 0 => tokens[c] <= MaxAttempts + spent) /\ MaxAttempts \in Nat
      BY <2>1, RelayAssumption DEF Price
    <3>. QED
      BY <2>1, <2>2, <2>3, <3>1, <3>2, <3>3 DEF Price, SameRow
  <2>5. CASE ~PublishErr(w)
    <3>1. published'[c] = published[c] + 1
      BY <1>0, <1>9, <2>5
    <3>2. published'[c] + Cardinality(Pending(c)') <= published[c] + Cardinality(Pending(c))
      BY <2>2, <2>3, <3>1
    <3>3. \/ spent' = spent + 1
          \/ spent' = spent /\ (Working(c) => Working(c)') /\ (Guarded(c) => Guarded(c)')
      BY <1>6, <1>8, <1>9, <2>5
    <3>. QED
      BY <1>0, <2>1, <2>2, <3>2, <3>3, PriceKept
  <2>. QED
    BY <2>4, <2>5
<1>. QED
  BY <1>3, <1>10, <1>11 DEF Prices

\* A Mark call that takes effect ends the claim: the row is gone, or one more
\* attempt is recorded.  One that finds another claim changes nothing.
LEMMA MarkPriced ==
  ASSUME Inductive, TypeOK', Prices, NEW w \in Relays,
         Sent(w) \/ Reschedule(w) \/ DeadLetter(w)
  PROVE  Prices'
<1>0. /\ TypeOK /\ RelayTypeOK /\ StoreTypeOK /\ BatchDistinct /\ TokensUnique
      /\ pc[w] \in {"sent", "fail"} /\ Advance(w)
      /\ published' = published /\ spent' = spent /\ tokens' = tokens /\ now' = now /\ tx' = tx
  BY DEF Inductive, TypeOK, Prices, Sent, Reschedule, DeadLetter, MarkSent, MarkFailed,
         Terminate, envVars
<1>1. PICK c \in Event : c = Current(w).event
  BY <1>0, CurrentIsRecord
<1>2. BatchDistinct' /\ \A e \in Event : Pending(e)' = Pending(e)
  BY <1>0, AdvancePending
<1>3. Matching(Current(w)) = IF Holds(Current(w)) THEN {c} ELSE {}
  BY <1>1 DEF Matching, Holds
<1>4. \A e \in Event : e # c \/ ~Holds(Current(w)) => SameRow(e)
  BY <1>0, <1>3 DEF Sent, Reschedule, DeadLetter, MarkSent, MarkFailed, Terminate,
                    SameRow, Committed
<1>5. ASSUME NEW e \in Event, e # c \/ ~Holds(Current(w))
      PROVE  Price(e)'
  <2>1. SameRow(e)
    BY <1>4, <1>5
  <2>2. (Working(e) => Working(e)') /\ (Guarded(e) => Guarded(e)')
    BY <1>0, <1>1, <1>5, <2>1, AdvancePending
  <2>. QED
    BY <1>0, <1>2, <2>1, <2>2, PriceKeptInPlace DEF Prices
<1>6. CASE Holds(Current(w))
  <2>0. Price(c) /\ IsFiniteSet(Pending(c)) /\ Pending(c)' = Pending(c) /\ c \in DOMAIN records
    BY <1>1, <1>2, <1>6 DEF Prices, Price, Holds
  <2>1. /\ published[c] \in Nat /\ tokens[c] \in Nat /\ spent \in Nat
        /\ Cardinality(Pending(c)) \in Nat /\ records[c].attempts \in Nat
    BY <1>0, <2>0, PriceTypes
  <2>2. /\ published[c] + Cardinality(Pending(c)) <= 1 + spent
        /\ tokens[c] <= records[c].attempts + spent + 1
        /\ MaxAttempts > 0 => tokens[c] <= MaxAttempts + spent
        /\ ~Committed(c)' => tokens[c] = 0
    BY <1>0, <2>0 DEF Price, Committed
  <2>3. ASSUME Sent(w) \/ DeadLetter(w) PROVE Price(c)'
    <3>1. c \notin DOMAIN records'
      BY <1>3, <1>6, <2>3 DEF Sent, DeadLetter, MarkSent, Terminate
    <3>. QED
      BY <1>0, <2>0, <2>2, <3>1 DEF Price
  <2>4. ASSUME Reschedule(w) PROVE Price(c)'
    <3>1. c \in DOMAIN records' /\ records'[c].attempts = records[c].attempts + 1
      BY <1>3, <1>6, <2>0, <2>4 DEF Reschedule, MarkFailed, Rescheduled
    <3>2. pc[w] = "fail" /\ Current(w) = batch[w][1] /\ 1 \in DOMAIN batch[w]
      BY <1>0, <2>4, CurrentIsRecord DEF Reschedule
    <3>3. ~Working(c)
      <4>. SUFFICES ASSUME NEW v \in Relays, NEW i \in Nat, Keeps(v, i, c),
                           ~(i = 1 /\ pc[v] = "fail")
                    PROVE  FALSE
        BY DEF Working
      <4>1. batch[v][i].event = c /\ batch[v][i].token = records[c].claim_token
            /\ i \in DOMAIN batch[v]
        BY DEF Keeps, Holds
      <4>2. batch[w][1].event = c /\ batch[w][1].token = records[c].claim_token
        BY <1>1, <1>6, <3>2 DEF Holds
      <4>3. v = w /\ i = 1
        BY <1>0, <3>2, <4>1, <4>2 DEF TokensUnique
      <4>. QED
        BY <3>2, <4>3
    <3>4. published[c] + Cardinality(Pending(c)) <= spent
      BY <2>0, <3>3 DEF Price
    <3>. QED
      BY <1>0, <2>0, <2>1, <2>2, <3>1, <3>4 DEF Price
  <2>5. Price(c)'
    BY <2>3, <2>4
  <2>. QED
    BY <1>2, <1>5, <2>5 DEF Prices
<1>7. CASE ~Holds(Current(w))
  BY <1>2, <1>5, <1>7 DEF Prices
<1>. QED
  BY <1>6, <1>7

\* A committed row is fetched once before anything is paid.
LEMMA CallerPriced ==
  ASSUME Inductive, TypeOK', Prices, Caller
  PROVE  Prices'
<1>0. /\ TypeOK /\ StoreTypeOK /\ UNCHANGED <<pc, batch, cancelled, published, spent, tokens, now>>
  BY DEF Inductive, TypeOK, Caller, relayVars, envVars, Begin, Commit, Rollback, Stage
<1>1. BatchDistinct' /\ \A e \in Event : Pending(e)' = Pending(e)
  BY <1>0 DEF Prices, BatchDistinct, Pending, Waiting
<1>2. ASSUME NEW e \in Event
      PROVE  \/ SameRow(e)
             \/ /\ ~Committed(e)
                /\ e \notin DOMAIN records
                /\ e \in DOMAIN records' => records'[e].attempts = 0 /\ Committed(e)'
  <2>1. \A f \in DOMAIN uncommitted : tx[TxnOf[f]] = "open" /\ uncommitted[f].attempts = 0
    BY DEF Inductive, TokensTracked
  <2>2. e \in DOMAIN records => Committed(e)
    BY DEF Inductive, NothingPremature
  <2>3. tx \in [Txn -> {"idle", "open", "committed", "rolledback"}] /\ TxnOf[e] \in Txn
    BY <1>0, StoreAssumption DEF StoreTypeOK
  <2>4. ASSUME NEW t \in Txn, Begin(t) \/ Rollback(t)
        PROVE  SameRow(e)
    BY <1>0, <2>3, <2>4 DEF Begin, Rollback, SameRow, Committed
  <2>5. ASSUME NEW f \in Event, Stage(f)
        PROVE  SameRow(e)
    BY <1>0, <2>5 DEF Stage, SameRow, Committed
  <2>6. ASSUME NEW t \in Txn, Commit(t), TxnOf[e] # t
        PROVE  SameRow(e)
    BY <1>0, <2>3, <2>6 DEF Commit, Batch, SameRow, Committed
  <2>7. ASSUME NEW t \in Txn, Commit(t), TxnOf[e] = t
        PROVE  /\ ~Committed(e)
               /\ e \notin DOMAIN records
               /\ e \in DOMAIN records' => records'[e].attempts = 0 /\ Committed(e)'
    BY <1>0, <2>1, <2>2, <2>3, <2>7 DEF Commit, Batch, Committed
  <2>. QED
    BY <2>4, <2>5, <2>6, <2>7 DEF Caller
<1>3. ASSUME NEW e \in Event
      PROVE  Price(e)'
  <2>0. Price(e) /\ IsFiniteSet(Pending(e)) /\ Pending(e)' = Pending(e)
    BY <1>1 DEF Prices, Price
  <2>1. CASE SameRow(e)
    <3>1. \A v \in Relays, i \in Nat : Keeps(v, i, e) => Keeps(v, i, e)'
      BY <1>0, <2>1 DEF Keeps, Holds, SameRow
    <3>2. (Working(e) => Working(e)') /\ (Guarded(e) => Guarded(e)')
      BY <1>0, <3>1 DEF Working, Guarded
    <3>. QED
      BY <1>0, <2>0, <2>1, <3>2, PriceKeptInPlace
  <2>2. CASE /\ ~Committed(e)
             /\ e \notin DOMAIN records
             /\ e \in DOMAIN records' => records'[e].attempts = 0 /\ Committed(e)'
    <3>1. published[e] = 0
      BY <1>0, <2>2 DEF Inductive, NothingPremature, TypeOK
    <3>2. Pending(e) = {}
      BY <2>2 DEF Pending, Waiting, Inductive, TokensTracked, Tracked
    <3>3. Cardinality(Pending(e)) = 0
      BY <3>2, FS_EmptySet
    <3>4. tokens[e] = 0 /\ tokens'[e] = 0 /\ spent \in Nat
      BY <1>0, <2>0, <2>2, PriceTypes DEF Price
    <3>. QED
      BY <1>0, <2>0, <2>2, <3>1, <3>3, <3>4, RelayAssumption DEF Price
  <2>. QED
    BY <1>2, <2>1, <2>2
<1>. QED
  BY <1>1, <1>3 DEF Prices

\* Whatever else happens to a relay either leaves every safely claimed row in
\* its hands or is paid for; the clock ends a lease a relay still relies on
\* only when that is paid for.
LEMMA OtherPriced ==
  ASSUME Inductive, TypeOK', Prices,
         \/ \E w \in Relays : \/ StartRelay(w) \/ ExitRelay(w) \/ MarkRefused(w)
                              \/ Crash(w) \/ CancelRelay(w) \/ MarkLost(w) \/ MarkSentPanic(w)
         \/ Tick \/ Overrun \/ UNCHANGED vars
  PROVE  Prices'
<1>0. TypeOK /\ RelayTypeOK /\ StoreTypeOK /\ BatchDistinct
  BY DEF Inductive, TypeOK, Prices
<1>1. ASSUME UNCHANGED published, \A e \in Event : SameRow(e), BatchDistinct',
             \A e \in Event : Pending(e)' \in SUBSET Pending(e),
             \/ spent' = spent + 1
             \/ /\ spent' = spent
                /\ \A e \in Event : (Working(e) => Working(e)') /\ (Guarded(e) => Guarded(e)')
      PROVE  Prices'
  BY <1>0, <1>1, PriceKeptInPlace DEF Prices
<1>2. ASSUME UNCHANGED storeVars
      PROVE  (\A e \in Event : SameRow(e)) /\ UNCHANGED <<records, now>>
  BY <1>2 DEF storeVars, SameRow, Committed
<1>3. ASSUME NEW w \in Relays, StartRelay(w) \/ ExitRelay(w)
      PROVE  Prices'
  <2>1. /\ UNCHANGED batch /\ UNCHANGED storeVars /\ UNCHANGED <<published, spent>>
        /\ batch[w] = <<>>
        /\ \A v \in Relays : v # w => pc'[v] = pc[v] /\ cancelled'[v] = cancelled[v]
    BY <1>0, <1>3 DEF StartRelay, ExitRelay, Start, Exit, RelayTypeOK, envVars
  <2>2. \A e \in Event, v \in Relays : Waiting(v, e)' => Waiting(v, e)
    BY <2>1 DEF Waiting
  <2>3. \A v \in Relays, i \in Nat, e \in Event : Keeps(v, i, e) => v # w /\ Keeps(v, i, e)'
    BY <1>2, <2>1 DEF Keeps, Holds
  <2>4. \A e \in Event : (Working(e) => Working(e)') /\ (Guarded(e) => Guarded(e)')
    BY <2>1, <2>3 DEF Working, Guarded
  <2>5. BatchDistinct'
    BY <1>0, <2>1 DEF BatchDistinct
  <2>6. \A e \in Event : Pending(e)' \in SUBSET Pending(e)
    BY <2>2 DEF Pending
  <2>. QED
    BY <1>1, <1>2, <2>1, <2>4, <2>5, <2>6
<1>4. ASSUME NEW w \in Relays, MarkRefused(w) \/ MarkLost(w)
      PROVE  Prices'
  <2>1. /\ pc[w] \in {"sent", "fail"} /\ Advance(w) /\ UNCHANGED storeVars /\ UNCHANGED published
        /\ \/ spent' = spent + 1
           \/ spent' = spent /\ cancelled[w]
    BY <1>4 DEF MarkRefused, MarkLost, Disturb, envVars
  <2>2. (\A e \in Event : SameRow(e)) /\ UNCHANGED now
    BY <1>2, <2>1
  <2>3. /\ BatchDistinct'
        /\ \A e \in Event :
             /\ Pending(e)' = Pending(e)
             /\ cancelled[w] => (Working(e) => Working(e)') /\ (Guarded(e) => Guarded(e)')
    BY <1>0, <2>1, <2>2, AdvancePending
  <2>. QED
    BY <1>1, <2>1, <2>2, <2>3
<1>5. ASSUME NEW w \in Relays, Crash(w) \/ CancelRelay(w) \/ MarkSentPanic(w)
      PROVE  Prices'
  <2>1. /\ UNCHANGED storeVars /\ UNCHANGED published /\ spent' = spent + 1
        /\ \A v \in Relays : \/ batch'[v] = batch[v] /\ (pc'[v] = "publish" => pc[v] = "publish")
                             \/ batch'[v] = <<>>
    BY <1>0, <1>5 DEF Crash, CancelRelay, MarkSentPanic, Die, Cancel, MarkPanics, Disturb,
                      RelayTypeOK
  <2>2. \A e \in Event, v \in Relays : Waiting(v, e)' => Waiting(v, e)
    BY <2>1 DEF Waiting
  <2>3. BatchDistinct'
    BY <1>0, <2>1 DEF BatchDistinct
  <2>4. \A e \in Event : Pending(e)' \in SUBSET Pending(e)
    BY <2>2 DEF Pending
  <2>. QED
    BY <1>1, <1>2, <2>1, <2>3, <2>4
<1>6. CASE Tick \/ Overrun \/ UNCHANGED vars
  <2>1. UNCHANGED <<pc, batch, cancelled, published, records, tokens, tx>>
    BY <1>6 DEF Tick, Overrun, AdvanceClock, vars, relayVars, storeVars, envVars
  <2>2. BatchDistinct' /\ \A e \in Event : SameRow(e) /\ Pending(e)' = Pending(e)
    BY <1>0, <2>1 DEF BatchDistinct, SameRow, Committed, Pending, Waiting
  <2>3. CASE Overrun
    BY <1>1, <2>1, <2>2, <2>3 DEF Overrun, Disturb
  <2>4. CASE Tick \/ UNCHANGED vars
    <3>1. spent' = spent /\ (now' = now \/ (now' = now + 1 /\ ~LeaseLapses))
      BY <2>4 DEF Tick, AdvanceClock, vars, storeVars, envVars
    <3>2. ASSUME NEW v \in Relays, NEW i \in Nat, NEW e \in Event, Keeps(v, i, e)
          PROVE  Keeps(v, i, e)'
      <4>1. /\ e \in DOMAIN records /\ records[e].claimed_until \in Nat /\ now \in Nat
            /\ records[e].claimed_until > now
        BY <1>0, <3>2 DEF Keeps, Holds, StoreTypeOK, Row
      <4>2. ~LeaseLapses => records[e].claimed_until # now + 1
        BY <3>2 DEF Keeps, LeaseLapses
      <4>3. records[e].claimed_until > now'
        BY <3>1, <4>1, <4>2
      <4>. QED
        BY <2>1, <3>2, <4>3 DEF Keeps, Holds
    <3>3. \A e \in Event : (Working(e) => Working(e)') /\ (Guarded(e) => Guarded(e)')
      BY <2>1, <3>2 DEF Working, Guarded
    <3>. QED
      BY <1>1, <2>1, <2>2, <3>1, <3>3
  <2>. QED
    BY <1>6, <2>3, <2>4
<1>. QED
  BY <1>3, <1>4, <1>5, <1>6

LEMMA PricesStep ==
  ASSUME Inductive, Prices, [Next]_vars
  PROVE  Prices'
<1>1. TypeOK'
  BY TypeStep DEF Inductive
<1>. QED
  BY <1>1, CallerPriced, FetchPriced, FetchLostPriced, PublishPriced, MarkPriced, OtherPriced
  DEF Next, RelayStep, Disturbance

LEMMA PricesInit == Init => Prices
<1>. SUFFICES ASSUME Init PROVE Prices
  OBVIOUS
<1>1. BatchDistinct
  BY DEF Init, RelayInit, BatchDistinct
<1>2. ASSUME NEW e \in Event PROVE Price(e)
  <2>1. Pending(e) = {}
    BY DEF Init, RelayInit, Pending, Waiting
  <2>2. IsFiniteSet(Pending(e)) /\ Cardinality(Pending(e)) = 0
    BY <2>1, FS_EmptySet
  <2>3. published[e] = 0 /\ spent = 0 /\ tokens[e] = 0 /\ e \notin DOMAIN records
    BY DEF Init, StoreInit
  <2>. QED
    BY <2>2, <2>3, RelayAssumption DEF Price
<1>. QED
  BY <1>1, <1>2 DEF Prices

\* For any number of relays: each disturbance costs one more publication of an
\* event and one more claim on its row at most, and nothing else costs any;
\* undisturbed relays publish every event at most once.
THEOREM DisturbancesArePriced == Spec => []DisturbancesPriced
<1>1. Inductive /\ Prices => DisturbancesPriced
  <2>. SUFFICES ASSUME Inductive, Prices, NEW e \in Event
                PROVE  /\ published[e] <= 1 + spent
                       /\ MaxAttempts > 0 => tokens[e] <= MaxAttempts + spent
    BY DEF DisturbancesPriced
  <2>1. Price(e) /\ TypeOK /\ IsFiniteSet(Pending(e))
    BY DEF Prices, Price, Inductive
  <2>2. published[e] \in Nat /\ spent \in Nat /\ Cardinality(Pending(e)) \in Nat
    BY <2>1, PriceTypes
  <2>. QED
    BY <2>1, <2>2 DEF Price
<1>. QED
  BY <1>1, PricesInit, PricesStep, InductiveHolds, PTL DEF Spec
=============================================================================
