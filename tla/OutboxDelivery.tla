--------------------------- MODULE OutboxDelivery ---------------------------
(***************************************************************************)
(* What an outbox promises, whatever store and relays implement it: an     *)
(* event whose transaction committed stays queued until the broker has it  *)
(* or it is dead-lettered, nothing else is ever delivered, and no event    *)
(* stays queued for ever.  Delivery is at least once: an event may reach   *)
(* the broker again at any time, also after it left the queue.             *)
(***************************************************************************)
CONSTANT Event

VARIABLES accepted,   \* events of committed transactions
          queued,     \* accepted events the outbox still has to settle
          delivered,  \* events the broker has at least once
          dead        \* dead-lettered events

vars == <<accepted, queued, delivered, dead>>

Init ==
  /\ accepted = {}
  /\ queued = {}
  /\ delivered = {}
  /\ dead = {}

\* A transaction commits: all of its events at once.
Accept(S) ==
  /\ S \cap accepted = {}
  /\ accepted' = accepted \cup S
  /\ queued' = queued \cup S
  /\ UNCHANGED <<delivered, dead>>

Deliver(e) ==
  /\ e \in accepted
  /\ delivered' = delivered \cup {e}
  /\ UNCHANGED <<accepted, queued, dead>>

\* Only a delivered event may silently leave the queue.
Settle(e) ==
  /\ e \in queued \cap delivered
  /\ queued' = queued \ {e}
  /\ UNCHANGED <<accepted, delivered, dead>>

Bury(e) ==
  /\ e \in queued
  /\ queued' = queued \ {e}
  /\ dead' = dead \cup {e}
  /\ UNCHANGED <<accepted, delivered>>

Next ==
  \/ \E S \in SUBSET Event : Accept(S)
  \/ \E e \in Event : Deliver(e) \/ Settle(e) \/ Bury(e)

Spec == Init /\ [][Next]_vars

FairSpec == Spec /\ \A e \in Event : WF_vars(Settle(e) \/ Bury(e))
=============================================================================
