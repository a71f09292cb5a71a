---------------------------- MODULE MemoryOutbox ----------------------------
(***************************************************************************)
(* The relay over the in-process store: callers Stage, relays of the same  *)
(* process Fetch, publish and mark.  The store ignores the context, so a   *)
(* cancelled relay still marks the batch it holds.                         *)
(***************************************************************************)
EXTENDS Relay, MemoryStore

CONSTANTS Poison,        \* events the codec cannot decode
          RetryDelays,   \* the delays backoff may return
          FailureBound,  \* bound: publishing fails only at fewer attempts
          MaxFaults,     \* bound on lost acknowledgements
          MaxStops       \* bound on cancellations

ASSUME MemoryOutboxAssumption ==
  /\ Poison \subseteq Event
  /\ RetryDelays \subseteq Nat
  /\ FailureBound \in Nat
  /\ MaxFaults \in Nat
  /\ MaxStops \in Nat

VARIABLES published,   \* how often the broker accepted each event
          spent,       \* lost acknowledgements so far
          stops,       \* cancellations so far
          shared       \* history: two relays were running at the same time

envVars == <<published, spent, stops, shared>>
vars == <<relayVars, memVars, envVars>>

Init ==
  /\ RelayInit
  /\ MemInit
  /\ published = [e \in Event |-> 0]
  /\ spent = 0
  /\ stops = 0
  /\ shared = FALSE

Stage(b) ==
  /\ StageEncode(b) \/ StageAppend(b) \/ StageFull(b)
  /\ UNCHANGED <<relayVars, envVars>>

StartRelay(w) ==
  /\ Start(w)
  /\ shared' = (shared \/ \E v \in Relays : pc[v] # "down")
  /\ UNCHANGED <<memVars, published, spent, stops>>

ExitRelay(w) == Exit(w) /\ UNCHANGED <<memVars, envVars>>

CancelRelay(w) ==
  /\ Cancel(w)
  /\ stops < MaxStops
  /\ stops' = stops + 1
  /\ UNCHANGED <<memVars, published, spent, shared>>

FetchBatch(w) ==
  /\ \E q \in Fetches : Receive(w, Fetched(q))
  /\ UNCHANGED <<memVars, envVars>>

Accept(e) == published' = [published EXCEPT ![e] = @ + 1]

PublishOk(w) ==
  /\ PublishReturns(w)
  /\ Current(w).event \notin Poison
  /\ Accept(Current(w).event)
  /\ UNCHANGED <<memVars, spent, stops, shared>>

PublishErr(w) ==
  /\ PublishFails(w)
  /\ Current(w).event \in Poison \/ Current(w).attempts < FailureBound
  /\ UNCHANGED <<memVars, envVars>>

\* The broker accepts the message but Publish returns an error or panics.
PublishAckLost(w) ==
  /\ PublishFails(w)
  /\ Current(w).event \notin Poison
  /\ Accept(Current(w).event)
  /\ spent < MaxFaults
  /\ spent' = spent + 1
  /\ UNCHANGED <<memVars, stops, shared>>

Sent(w) ==
  /\ pc[w] = "sent"
  /\ MarkSent(Current(w))
  /\ Advance(w)
  /\ UNCHANGED envVars

Reschedule(w) ==
  /\ pc[w] = "fail"
  /\ ~Exhausted(Current(w))
  /\ \E d \in RetryDelays : MarkFailed(Current(w), now + d)
  /\ Advance(w)
  /\ UNCHANGED envVars

DeadLetter(w) ==
  /\ pc[w] = "fail"
  /\ Exhausted(Current(w))
  /\ Terminate(Current(w))
  /\ Advance(w)
  /\ UNCHANGED envVars

Tick == AdvanceClock /\ UNCHANGED <<relayVars, envVars>>

RelayStep(w) ==
  \/ FetchBatch(w) \/ PublishOk(w) \/ PublishErr(w)
  \/ Sent(w) \/ Reschedule(w) \/ DeadLetter(w) \/ ExitRelay(w)

Next ==
  \/ \E b \in Batches : Stage(b)
  \/ \E w \in Relays : StartRelay(w) \/ RelayStep(w) \/ CancelRelay(w) \/ PublishAckLost(w)
  \/ Tick

Spec == Init /\ [][Next]_vars

\* As for the Postgres store: relays restart, poll and process, time passes.
Fairness ==
  /\ \A w \in Relays : WF_vars(StartRelay(w)) /\ WF_vars(RelayStep(w))
  /\ WF_vars(Tick)

FairSpec == Spec /\ Fairness

-----------------------------------------------------------------------------
(* Properties                                                              *)

\* WithMaxSize holds under concurrent Stage calls: each one tests and appends
\* its whole batch under the lock, so the store never exceeds the limit.
NeverOverfull == MaxSize > 0 => Len(records) <= MaxSize

\* Relays that take turns, one running at a time, need no claims: an event is
\* published once, plus once for every acknowledgement that got lost, however
\* often they are stopped in the middle of a batch, and a record is
\* dead-lettered after exactly MaxAttempts failures.
SoleRelayExact ==
  ~shared =>
    /\ \A e \in Event : published[e] <= 1 + spent
    /\ MaxAttempts > 0 =>
         /\ \A i \in DOMAIN dlq : dlq[i].attempts = MaxAttempts
         /\ \A i \in DOMAIN records : records[i].attempts < MaxAttempts

StoredEvents == {records[i].event : i \in DOMAIN records}

DeadEvents == {dlq[i].event : i \in DOMAIN dlq}

\* Comment of TestFetch_ReturnsDueRecordsInOrder: ids come "in Stage order, so
\* stable sort preserves stage order": of two records of one Stage call that
\* are fetched together, the earlier one comes first in the batch.
StageOrderFetched ==
  \A w \in Relays : \A i, j \in DOMAIN batch[w] :
    \A b \in Batches : \A k, l \in DOMAIN b :
      batch[w][i].event = b[k] /\ batch[w][j].event = b[l] /\ k < l
        /\ batch[w][i].attempts = 0 /\ batch[w][j].attempts = 0 => i < j

\* The in-process store and its relays implement the outbox contract, except
\* that an event counts as accepted once Stage stored it.
Delivery == INSTANCE OutboxDelivery WITH
  accepted <- UNION {{b[i] : i \in DOMAIN b} : b \in {c \in Batches : staging[c].st = "done"}},
  queued <- StoredEvents,
  delivered <- {e \in Event : published[e] > 0},
  dead <- DeadEvents

\* Safety and liveness of that contract, with several relays that hold copies
\* of the same record: what one of them removed, no other quarantines.
DeliversAtLeastOnce == Delivery!FairSpec
=============================================================================
