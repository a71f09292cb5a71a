---------------------------- MODULE OutboxRecord ----------------------------
(***************************************************************************)
(* What the relay and the outbox stores pass to each other: the record a   *)
(* Fetch returns and every Mark call hands back.  An event stands for its  *)
(* payload, topic, headers and event id; the adapter-private               *)
(* OutboxRecord.ID "<dbid>:<uuid>" of the pgx store is the pair of the     *)
(* event (one row per event) and the claim token.                          *)
(***************************************************************************)
EXTENDS Integers, Sequences

CONSTANT Event  \* the domain events that may be staged

\* One fetched record: the event, the claim token it was fetched under and
\* the attempts count read at that moment (a snapshot, never refreshed).
Record == [event : Event, token : Nat, attempts : Nat]
=============================================================================
