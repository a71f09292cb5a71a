---------------------------- MODULE KafkaConsumer ---------------------------
(***************************************************************************)
(* A consumer group module (eventbus/kafka): Start subscribes topic after  *)
(* topic, and each topic gets two goroutines, the Subscriber's (decode and *)
(* hand over) and the consumer's (handle, then Ack or Nack).  They share   *)
(* one context and the consumers one WaitGroup; Stop, and a Start that     *)
(* fails half way, cancel the context and wait.  The watermill subscriber  *)
(* is external: it hands out one message of a topic at a time and repeats  *)
(* it after a Nack; Close ends its channels.  Process decides when Start   *)
(* and Stop are called and what the handler does.                          *)
(***************************************************************************)
EXTENDS Integers, Sequences

CONSTANTS Topics,       \* the topics
          Messages,     \* the number of messages in each topic
          Poison,       \* <<topic, n>>: messages the codec rejects
          MaxFailures   \* bound on handler errors and panics while running

ASSUME KafkaConsumerAssumption ==
  /\ Messages \in Nat
  /\ Poison \subseteq Topics \X (1..Messages)
  /\ MaxFailures \in Nat

VARIABLES phase,      \* the module: Start, running, Stop
          topics,     \* its topics, in the order Start subscribes them
          cancelled,  \* the consumer context
          sub,        \* the Subscriber goroutine of each topic
          con,        \* the consumer goroutine of each topic
          raw,        \* the message watermill has handed out: its state
          offset,     \* messages acknowledged so far
          handled,    \* messages whose handler returned nil
          failures,   \* handler errors so far
          closing     \* the watermill subscriber was closed

consumerVars == <<phase, topics, cancelled, sub, con, raw, offset, handled, failures, closing>>

ConsumerInit(list) ==
  /\ phase = "new"
  /\ topics = list
  /\ cancelled = FALSE
  /\ sub = [t \in Topics |-> "none"]
  /\ con = [t \in Topics |-> "none"]
  /\ raw = [t \in Topics |-> "ready"]
  /\ offset = [t \in Topics |-> 0]
  /\ handled = [t \in Topics |-> {}]
  /\ failures = 0
  /\ closing = FALSE

\* The message a topic stands at.
Message(t) == offset[t] + 1

Hold(t, state) == raw' = [raw EXCEPT ![t] = state] /\ UNCHANGED offset

Nack(t) == Hold(t, "nacked")

\* The offset moves on, and the next message is handed out.
Ack(t) == raw' = [raw EXCEPT ![t] = "ready"] /\ offset' = [offset EXCEPT ![t] = @ + 1]

\* wg.Wait returns.
Drained == \A t \in Topics : con[t] \in {"none", "done"}

-----------------------------------------------------------------------------
(* Start and Stop                                                          *)

\* The topic Start subscribes next.
Pending(t) ==
  /\ phase = "new"
  /\ \E i \in DOMAIN topics : /\ t = topics[i]
                              /\ \A j \in DOMAIN topics : con[topics[j]] = "none" <=> j >= i

Subscribe(t) ==
  /\ Pending(t)
  /\ sub' = [sub EXCEPT ![t] = "recv"]
  /\ con' = [con EXCEPT ![t] = "wait"]
  /\ phase' = IF t = topics[Len(topics)] THEN "started" ELSE "new"
  /\ UNCHANGED <<topics, cancelled, raw, offset, handled, failures, closing>>

SubscribeFails(t) ==
  /\ Pending(t)
  /\ phase' = "failing"
  /\ cancelled' = TRUE
  /\ UNCHANGED <<topics, sub, con, raw, offset, handled, failures, closing>>

StartReturnsError ==
  /\ phase = "failing"
  /\ Drained
  /\ phase' = "failed"
  /\ UNCHANGED <<topics, cancelled, sub, con, raw, offset, handled, failures, closing>>

\* Mutation: Stop forgets to cancel.
StopUncancelled ==
  /\ phase = "started"
  /\ phase' = "stopping"
  /\ UNCHANGED <<topics, cancelled, sub, con, raw, offset, handled, failures, closing>>

StopConsumer ==
  /\ phase = "started"
  /\ phase' = "stopping"
  /\ cancelled' = TRUE
  /\ UNCHANGED <<topics, sub, con, raw, offset, handled, failures, closing>>

\* Mutation: Stop does not wait for the WaitGroup.
StopAtOnce ==
  /\ phase = "stopping"
  /\ phase' = "stopped"
  /\ UNCHANGED <<topics, cancelled, sub, con, raw, offset, handled, failures, closing>>

StopReturns ==
  /\ phase = "stopping"
  /\ Drained
  /\ phase' = "stopped"
  /\ UNCHANGED <<topics, cancelled, sub, con, raw, offset, handled, failures, closing>>

\* The shutdown context ends first: an error, and the goroutines go on.
StopDeadline ==
  /\ phase = "stopping"
  /\ ~Drained
  /\ phase' = "abandoned"
  /\ UNCHANGED <<topics, cancelled, sub, con, raw, offset, handled, failures, closing>>

-----------------------------------------------------------------------------
(* The Subscriber goroutine                                                *)

\* A message is received and decoded; one the codec rejects is Nacked.  The
\* select may choose it although the context is cancelled.
Take(t) ==
  /\ sub[t] = "recv"
  /\ raw[t] = "ready"
  /\ Message(t) <= Messages
  /\ ~closing
  /\ \/ /\ <<t, Message(t)>> \in Poison
        /\ Nack(t)
        /\ UNCHANGED sub
     \/ /\ <<t, Message(t)>> \notin Poison
        /\ Hold(t, "taken")
        /\ sub' = [sub EXCEPT ![t] = "hand"]
  /\ UNCHANGED <<phase, topics, cancelled, con, handled, failures, closing>>

HandOver(t) ==
  /\ sub[t] = "hand"
  /\ con[t] = "wait"
  /\ sub' = [sub EXCEPT ![t] = "recv"]
  /\ con' = [con EXCEPT ![t] = "handle"]
  /\ UNCHANGED <<phase, topics, cancelled, raw, offset, handled, failures, closing>>

\* ctx.Done, or the end of raw, while waiting for a message: out is closed.
SubscriberEnds(t) ==
  /\ sub[t] = "recv"
  /\ cancelled \/ closing
  /\ sub' = [sub EXCEPT ![t] = "closed"]
  /\ UNCHANGED <<phase, topics, cancelled, con, raw, offset, handled, failures, closing>>

\* Mutation: the message in hand is forgotten.
SubscriberDropsSilently(t) ==
  /\ sub[t] = "hand"
  /\ cancelled
  /\ sub' = [sub EXCEPT ![t] = "closed"]
  /\ UNCHANGED <<phase, topics, cancelled, con, raw, offset, handled, failures, closing>>

\* ctx.Done while waiting for the consumer: the message in hand is Nacked.
SubscriberDrops(t) ==
  /\ sub[t] = "hand"
  /\ cancelled
  /\ Nack(t)
  /\ sub' = [sub EXCEPT ![t] = "closed"]
  /\ UNCHANGED <<phase, topics, cancelled, con, handled, failures, closing>>

-----------------------------------------------------------------------------
(* The consumer goroutine                                                  *)

HandleOk(t) ==
  /\ con[t] = "handle"
  /\ Ack(t)
  /\ handled' = [handled EXCEPT ![t] = @ \cup {Message(t)}]
  /\ con' = [con EXCEPT ![t] = "wait"]
  /\ UNCHANGED <<phase, topics, cancelled, sub, failures, closing>>

\* Mutation: the return after Nack is missing.
FailAcked(t) == Ack(t)

\* Mutation: a recovered panic leaves the message unanswered.
FailUnanswered(t) == UNCHANGED <<raw, offset>>

Fail(t) == Nack(t)

\* The handler returns an error or panics, of its own accord or because the
\* context was cancelled under it.
HandleErr(t) ==
  /\ con[t] = "handle"
  /\ Fail(t)
  /\ con' = [con EXCEPT ![t] = "wait"]
  /\ \/ failures < MaxFailures /\ failures' = failures + 1
     \/ cancelled /\ UNCHANGED failures
  /\ UNCHANGED <<phase, topics, cancelled, sub, handled, closing>>

ConsumerEnds(t) ==
  /\ con[t] = "wait"
  /\ sub[t] = "closed"
  /\ con' = [con EXCEPT ![t] = "done"]
  /\ UNCHANGED <<phase, topics, cancelled, sub, raw, offset, handled, failures, closing>>

-----------------------------------------------------------------------------
(* The watermill subscriber                                                *)

Resend(t) ==
  /\ raw[t] = "nacked"
  /\ Hold(t, "ready")
  /\ UNCHANGED <<phase, topics, cancelled, sub, con, handled, failures, closing>>

\* Subscriber.Close ends the channels it handed out.
CloseSubscriber ==
  /\ closing' = TRUE
  /\ UNCHANGED <<phase, topics, cancelled, sub, con, raw, offset, handled, failures>>

-----------------------------------------------------------------------------
Pump(t) == Take(t) \/ HandOver(t)

Close(t) == SubscriberEnds(t) \/ SubscriberDrops(t)

-----------------------------------------------------------------------------
(* Properties                                                              *)

\* When Stop returns nil, and when Start returns an error, both goroutines of
\* every topic have ended: "partial startup does not leak goroutines".
EndedIsClean ==
  phase \in {"stopped", "failed"} =>
    \A t \in Topics : sub[t] \in {"none", "closed"} /\ con[t] \in {"none", "done"}

\* At least once: a message is acknowledged only after its handler returned
\* nil, whatever was cancelled, failed, panicked or could not be decoded.
AcknowledgedIsHandled ==
  \A t \in Topics : 1..offset[t] \subseteq handled[t]

\* No message is left unanswered by a goroutine that ended, so watermill never
\* waits for an answer that nobody will give.
NobodyForgets ==
  \A t \in Topics : raw[t] = "taken" => sub[t] = "hand" \/ con[t] = "handle"

\* Handler errors and panics do not stall a topic, and a rejected message,
\* which is sent again for ever, stalls only what is behind it in its own
\* topic: while the module runs every other message gets handled.
EventuallyHandled ==
  \A t \in Topics :
    con[t] # "none" ~>
      cancelled \/ {n \in 1..Messages : \A k \in 1..n : <<t, k>> \notin Poison} \subseteq handled[t]
=============================================================================
