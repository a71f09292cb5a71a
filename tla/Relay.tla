------------------------------- MODULE Relay --------------------------------
(***************************************************************************)
(* The polling relay of eventbus/outbox: one *Relay per process, its Run   *)
(* loop (poll, drainOnce, process, fail) and the RelayModule that starts   *)
(* and cancels it.  The store and the publisher are external to the relay; *)
(* the actions below are the relay's own half of each step, joined with    *)
(* the store's half in PgxOutbox.                                          *)
(***************************************************************************)
EXTENDS OutboxRecord

CONSTANTS Relays,       \* the relay processes draining the same store
          MaxAttempts   \* WithMaxAttempts; 0 means unlimited retries

ASSUME RelayAssumption == MaxAttempts \in Nat

VARIABLES pc,           \* where each relay is in its Run loop
          batch,        \* the fetched records it has not finished yet
          cancelled     \* whether its run context was cancelled

relayVars == <<pc, batch, cancelled>>

\* "down":    Run is not running (the running flag is clear)
\* "idle":    in the select of Run, waiting for a tick or cancellation
\* "publish": process() is about to decode and publish Head(batch)
\* "sent":    Publish returned nil, MarkSent is next
\* "fail":    an error or a panic, fail() is next
RelayPC == {"down", "idle", "publish", "sent", "fail"}

RelayTypeOK ==
  /\ pc \in [Relays -> RelayPC]
  /\ batch \in [Relays -> Seq(Record)]
  /\ cancelled \in [Relays -> BOOLEAN]
  \* a batch is held exactly while records of it are being processed
  /\ \A w \in Relays : batch[w] # <<>> <=> pc[w] \in {"publish", "sent", "fail"}

RelayInit ==
  /\ pc = [w \in Relays |-> "down"]
  /\ batch = [w \in Relays |-> <<>>]
  /\ cancelled = [w \in Relays |-> FALSE]

Current(w) == Head(batch[w])

\* StartFn: a detached run context and the Run goroutine, which enters the
\* loop only when the compare-and-swap on running succeeds.
Start(w) ==
  /\ pc[w] = "down"
  /\ pc' = [pc EXCEPT ![w] = "idle"]
  /\ UNCHANGED <<batch, cancelled>>

\* StopFn cancels the run context; the batch in hand is still worked off
\* because neither drainOnce nor process looks at the context.
Cancel(w) ==
  /\ pc[w] # "down"
  /\ ~cancelled[w]
  /\ cancelled' = [cancelled EXCEPT ![w] = TRUE]
  /\ UNCHANGED <<pc, batch>>

\* Run leaves the select through ctx.Done().
Exit(w) ==
  /\ pc[w] = "idle"
  /\ cancelled[w]
  /\ pc' = [pc EXCEPT ![w] = "down"]
  /\ cancelled' = [cancelled EXCEPT ![w] = FALSE]
  /\ UNCHANGED batch

\* The process dies: nothing of the relay's memory survives.
Die(w) ==
  /\ pc[w] # "down"
  /\ pc' = [pc EXCEPT ![w] = "down"]
  /\ batch' = [batch EXCEPT ![w] = <<>>]
  /\ cancelled' = [cancelled EXCEPT ![w] = FALSE]

\* A poll tick: Fetch returned recs.  The select of Run may still choose the
\* tick when the context is cancelled as well.
Receive(w, recs) ==
  /\ pc[w] = "idle"
  /\ pc' = [pc EXCEPT ![w] = IF recs = <<>> THEN "idle" ELSE "publish"]
  /\ batch' = [batch EXCEPT ![w] = recs]
  /\ UNCHANGED cancelled

\* process(): decode and publish succeeded.
PublishReturns(w) ==
  /\ pc[w] = "publish"
  /\ pc' = [pc EXCEPT ![w] = "sent"]
  /\ UNCHANGED <<batch, cancelled>>

\* Mutation: a failed publish falls through to MarkSent.
PublishFailsMarkedSent(w) ==
  /\ pc[w] = "publish"
  /\ pc' = [pc EXCEPT ![w] = "sent"]
  /\ UNCHANGED <<batch, cancelled>>

\* process(): decode or publish returned an error, or panicked.
PublishFails(w) ==
  /\ pc[w] = "publish"
  /\ pc' = [pc EXCEPT ![w] = "fail"]
  /\ UNCHANGED <<batch, cancelled>>

\* process(): a panic out of MarkSent reaches the same recover.
MarkPanics(w) ==
  /\ pc[w] = "sent"
  /\ pc' = [pc EXCEPT ![w] = "fail"]
  /\ UNCHANGED <<batch, cancelled>>

\* The Mark call of the current record returned, with or without an error
\* (an error is only logged): drainOnce goes on with the next record.
Advance(w) ==
  /\ batch' = [batch EXCEPT ![w] = Tail(batch[w])]
  /\ pc' = [pc EXCEPT ![w] = IF Tail(batch[w]) = <<>> THEN "idle" ELSE "publish"]
  /\ UNCHANGED cancelled

\* Mutation: off by one, the last attempt is not made.
ExhaustedEarly(r) == MaxAttempts > 0 /\ r.attempts + 2 >= MaxAttempts

\* Mutation: off by one, the budget is tested against the stored count.
ExhaustedOffByOne(r) == MaxAttempts > 0 /\ r.attempts >= MaxAttempts

\* fail(): whether this failure goes to Terminate rather than MarkFailed.
\* The decision uses the attempts snapshot of the fetched record.
Exhausted(r) == MaxAttempts > 0 /\ r.attempts + 1 >= MaxAttempts
=============================================================================
