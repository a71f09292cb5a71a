------------------------------ MODULE PgxOutbox -----------------------------
(***************************************************************************)
(* The transactional outbox at work: callers stage events inside their     *)
(* transactions, several relay processes claim, publish and mark the rows  *)
(* of the same Postgres store.  Between any two statements a relay may     *)
(* crash, be cancelled, lose a database answer, lose the broker's          *)
(* acknowledgement or outlive its lease; every such disturbance is counted *)
(* in spent, so that properties can say what each one may cost.            *)
(***************************************************************************)
EXTENDS Relay, PgxStore

CONSTANTS Poison,        \* events the codec cannot decode or encode again
          RetryDelays,   \* nextAttemptAt minus the database clock: backoff with
                         \* jitter plus the skew of the relay's clock
          FailureBound,  \* bound: publishing fails only at fewer attempts
          MaxFaults      \* bound on the disturbances of one behaviour

ASSUME OutboxAssumption ==
  /\ Poison \subseteq Event
  /\ RetryDelays \subseteq Int
  /\ FailureBound \in Nat
  /\ MaxFaults \in Nat

VARIABLES published,     \* how often the broker accepted each event
          spent          \* disturbances so far

envVars == <<published, spent>>
vars == <<relayVars, storeVars, envVars>>

Init ==
  /\ RelayInit
  /\ StoreInit
  /\ published = [e \in Event |-> 0]
  /\ spent = 0

Disturb ==
  /\ spent < MaxFaults
  /\ spent' = spent + 1

-----------------------------------------------------------------------------
(* Callers                                                                 *)

Caller ==
  /\ \/ \E t \in Txn : Begin(t) \/ Commit(t) \/ Rollback(t)
     \/ \E e \in Event : Stage(e)
  /\ UNCHANGED <<relayVars, envVars>>

-----------------------------------------------------------------------------
(* Relay steps                                                             *)

StartRelay(w) == Start(w) /\ UNCHANGED <<storeVars, envVars>>

ExitRelay(w) == Exit(w) /\ UNCHANGED <<storeVars, envVars>>

\* Rows a Mark statement of some relay may hold locked right now.
Locked == {Current(v).event : v \in {u \in Relays : pc[u] \in {"sent", "fail"}}}

\* drainOnce: Fetch claims up to BatchSize due rows and hands them over; under
\* a cancelled context it returns an error.
FetchBatch(w) ==
  /\ ~cancelled[w]
  /\ \E skipped \in SUBSET Locked : \E q \in Selections(skipped) :
       /\ Receive(w, Fetched(q))
       /\ Fetch(q)
  /\ UNCHANGED envVars

Accept(e) == published' = [published EXCEPT ![e] = @ + 1]

\* The broker accepts and acknowledges; the context is never consulted.
PublishOk(w) ==
  /\ PublishReturns(w)
  /\ Current(w).event \notin Poison
  /\ Accept(Current(w).event)
  /\ UNCHANGED <<storeVars, spent>>

\* Nothing reaches the broker: a poison record, or the broker refuses.
PublishErr(w) ==
  /\ PublishFails(w)
  /\ Current(w).event \in Poison \/ Current(w).attempts < FailureBound
  /\ UNCHANGED <<storeVars, envVars>>

\* process after Publish: MarkSent takes effect.
Sent(w) ==
  /\ pc[w] = "sent"
  /\ ~cancelled[w]
  /\ MarkSent(Current(w))
  /\ Advance(w)
  /\ UNCHANGED envVars

\* fail within the retry budget: MarkFailed takes effect.
Reschedule(w) ==
  /\ pc[w] = "fail"
  /\ ~cancelled[w]
  /\ ~Exhausted(Current(w))
  /\ \E d \in RetryDelays : MarkFailed(Current(w), now + d)
  /\ Advance(w)
  /\ UNCHANGED envVars

\* fail with the budget used up: Terminate takes effect.
DeadLetter(w) ==
  /\ pc[w] = "fail"
  /\ ~cancelled[w]
  /\ Exhausted(Current(w))
  /\ Terminate(Current(w))
  /\ Advance(w)
  /\ UNCHANGED envVars

\* Any Mark call under a cancelled context returns an error that is only
\* logged; the row keeps its claim until the lease runs out.
MarkRefused(w) ==
  /\ pc[w] \in {"sent", "fail"}
  /\ cancelled[w]
  /\ Advance(w)
  /\ UNCHANGED <<storeVars, envVars>>

RelayStep(w) ==
  \/ FetchBatch(w) \/ PublishOk(w) \/ PublishErr(w) \/ Sent(w)
  \/ Reschedule(w) \/ DeadLetter(w) \/ MarkRefused(w) \/ ExitRelay(w)

-----------------------------------------------------------------------------
(* Disturbances                                                            *)

Crash(w) == Die(w) /\ Disturb /\ UNCHANGED <<storeVars, published>>

CancelRelay(w) == Cancel(w) /\ Disturb /\ UNCHANGED <<storeVars, published>>

\* The claim is committed but Fetch returns an error (rows.Scan, rows.Err):
\* drainOnce gives up and nobody knows the tokens.
FetchLost(w) ==
  /\ \E skipped \in SUBSET Locked : \E q \in Selections(skipped) : q # <<>> /\ Fetch(q)
  /\ pc[w] = "idle"
  /\ ~cancelled[w]
  /\ Disturb
  /\ UNCHANGED <<relayVars, published>>

\* The broker accepts the message but Publish returns an error or panics.
PublishAckLost(w) ==
  /\ PublishFails(w)
  /\ Current(w).event \notin Poison
  /\ Accept(Current(w).event)
  /\ Disturb
  /\ UNCHANGED storeVars

\* A Mark statement fails on the database: logged, not retried.
MarkLost(w) ==
  /\ pc[w] \in {"sent", "fail"}
  /\ ~cancelled[w]
  /\ Advance(w)
  /\ Disturb
  /\ UNCHANGED <<storeVars, published>>

\* MarkSent panics before the statement ran: the published record fails.
MarkSentPanic(w) == MarkPanics(w) /\ Disturb /\ UNCHANGED <<storeVars, published>>

\* Record r is still the current claim on its row.
Holds(r) == r.event \in DOMAIN records /\ records[r.event].claim_token = r.token

\* The next tick ends the lease of a record some relay still works on.
LeaseLapses ==
  \E w \in Relays : \E i \in DOMAIN batch[w] :
    /\ Holds(batch[w][i])
    /\ records[batch[w][i].event].claimed_until = now + 1

Tick == AdvanceClock /\ ~LeaseLapses /\ UNCHANGED <<relayVars, envVars>>

\* A relay is slower than its lease: publishing, or the rest of its batch.
Overrun == AdvanceClock /\ LeaseLapses /\ Disturb /\ UNCHANGED <<relayVars, published>>

Disturbance(w) ==
  \/ Crash(w) \/ CancelRelay(w) \/ FetchLost(w)
  \/ PublishAckLost(w) \/ MarkLost(w) \/ MarkSentPanic(w)

-----------------------------------------------------------------------------

Next ==
  \/ Caller
  \/ \E w \in Relays : StartRelay(w) \/ RelayStep(w) \/ Disturbance(w)
  \/ Tick
  \/ Overrun

Spec == Init /\ [][Next]_vars

\* Relays are restarted, keep polling and processing, and time passes.  No
\* fairness is assumed of callers or of any disturbance.
Fairness ==
  /\ \A w \in Relays : WF_vars(StartRelay(w)) /\ WF_vars(RelayStep(w))
  /\ WF_vars(Tick)

FairSpec == Spec /\ Fairness

-----------------------------------------------------------------------------
(* Properties                                                              *)

\* The values every variable ranges over, and the shape of a relay's batch.
TypeOK ==
  /\ RelayTypeOK
  /\ StoreTypeOK
  /\ published \in [Event -> Nat]
  /\ spent \in 0..MaxFaults

Committed(e) == tx[TxnOf[e]] = "committed"

\* No step of any relay loses an event: once its transaction committed, an
\* event is in outbox_records, has reached the broker or is in
\* outbox_dead_letters, whatever crashed, stalled or failed in between.
NothingLost ==
  \A e \in Event : Committed(e) =>
    e \in DOMAIN records \/ published[e] > 0 \/ dead_letters[e] # <<>>

\* Stage joins the caller's transaction: before it commits, and for ever after
\* it rolled back, no relay sees, publishes or dead-letters the event.
NothingPremature ==
  \A e \in Event : e \in DOMAIN records \/ published[e] > 0 \/ dead_letters[e] # <<>>
    => Committed(e)

\* Terminate moves a row: under concurrent and stale Terminate calls an event
\* gets one dead-letter row at most, and is then no longer in the queue.
DeadLetterOnce ==
  \A e \in Event : dead_letters[e] # <<>> =>
    Len(dead_letters[e]) = 1 /\ e \notin DOMAIN records

\* fail() decides on a snapshot of attempts, but the token guard keeps the
\* snapshot true: every dead letter records exactly MaxAttempts failures, a
\* row that is still queued has budget left, and with unlimited retries
\* (MaxAttempts = 0) nothing is ever given up.
BudgetUsedExactly ==
  \A e \in Event :
    /\ \A i \in DOMAIN dead_letters[e] : MaxAttempts > 0 /\ dead_letters[e][i] = MaxAttempts
    /\ MaxAttempts > 0 /\ e \in DOMAIN records => records[e].attempts < MaxAttempts

\* Disturbances have a price and nothing else has: the claims keep several
\* relays from publishing the same event, and each crash, cancellation, lost
\* answer or overrun lease costs one extra publication of an event at most;
\* and a row is claimed MaxAttempts times, once more for each disturbance.
DisturbancesPriced ==
  \A e \in Event :
    /\ published[e] <= 1 + spent
    /\ MaxAttempts > 0 => tokens[e] <= MaxAttempts + spent

\* While the lease on a record in a relay's batch runs, only the Mark call of
\* that relay changes the row: no other relay fetches, deletes, reschedules or
\* dead-letters it, and no stale token reaches it.
LeaseRespected ==
  [][\A w \in Relays : \A i \in DOMAIN batch[w] :
       LET r == batch[w][i] IN
       Holds(r) /\ records[r.event].claimed_until > now =>
         \/ r.event \in DOMAIN records' /\ records'[r.event] = records[r.event]
         \/ i = 1 /\ pc[w] \in {"sent", "fail"} /\ batch'[w] = Tail(batch[w])]_vars

\* What the safety proofs rest on: a record in flight comes from a committed
\* event, its token was generated for that row and for no other record in
\* flight, and while the row still carries the token the record's attempts
\* snapshot is the row's; a row in an open transaction is untouched.
Tracked(r) ==
  /\ Committed(r.event)
  /\ r.token \in 1..tokens[r.event]
  /\ Holds(r) => records[r.event].attempts = r.attempts

TokensTracked ==
  /\ \A w \in Relays : \A i \in DOMAIN batch[w] : Tracked(batch[w][i])
  /\ \A e \in DOMAIN records : records[e].claim_token <= tokens[e]
  /\ \A e \in DOMAIN uncommitted :
       /\ tx[TxnOf[e]] = "open"
       /\ uncommitted[e].attempts = 0
       /\ uncommitted[e].claim_token = NoToken

TokensUnique ==
  \A v, w \in Relays : \A i \in DOMAIN batch[v], j \in DOMAIN batch[w] :
    /\ batch[v][i].event = batch[w][j].event
    /\ batch[v][i].token = batch[w][j].token
    => v = w /\ i = j

\* process reaches MarkSent only for an event the broker has.
SentIsPublished ==
  \A w \in Relays : pc[w] = "sent" => published[Current(w).event] > 0

\* The inductive invariant behind the safety properties above.
Inductive ==
  /\ TypeOK
  /\ TokensTracked
  /\ TokensUnique
  /\ SentIsPublished
  /\ NothingLost
  /\ NothingPremature
  /\ DeadLetterOnce
  /\ BudgetUsedExactly

\* While the broker fails fewer times in a row than the budget allows, or the
\* budget is unlimited, nothing is given up: an event the codec can handle
\* reaches the broker, crashes, lapsed leases and a poisoned event next to it
\* included.
EventuallyPublished ==
  MaxAttempts = 0 \/ FailureBound < MaxAttempts =>
    \A e \in Event \ Poison : Committed(e) ~> published[e] > 0

\* Documented order: "per-aggregate ordering is preserved through the outbox ->
\* relay -> Kafka path" (examples/orders/README.md): events of one Stage call
\* first reach the broker in the order in which they were staged.
OrderPreserved ==
  [][\A e, f \in Event :
       TxnOf[e] = TxnOf[f] /\ Position[e] < Position[f] =>
         (published[e] = 0 /\ published'[e] > 0 => published[f] = 0)]_vars

\* The store and its relays implement the outbox contract.
Delivery == INSTANCE OutboxDelivery WITH
  accepted <- {e \in Event : Committed(e)},
  queued <- DOMAIN records,
  delivered <- {e \in Event : published[e] > 0},
  dead <- {e \in Event : dead_letters[e] # <<>>}

\* Safety and liveness of that contract, as a property of the detailed model.
DeliversAtLeastOnce == Delivery!FairSpec
=============================================================================
