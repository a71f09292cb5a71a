------------------------------- MODULE Orders -------------------------------
(***************************************************************************)
(* The orders service (examples/orders): POST /orders places an order, the *)
(* worker consumes OrderPlaced and ships it, the reader projects both      *)
(* topics.  Both commands save the aggregate and stage its event in one    *)
(* transaction.  The outbox and its relay are taken by their contract      *)
(* (OutboxDelivery): a committed event reaches its partition at least      *)
(* once.  A consumer partition is read in order, and an entry that was not *)
(* acknowledged is read again.                                             *)
(***************************************************************************)
EXTENDS Integers, Sequences

CONSTANTS OrderIds,      \* ids of orders
          Posts,         \* POST /orders requests; a body is named by its request
          PostOrder,     \* the order id in each request
          Invalid,       \* requests whose items Place refuses
          Workers,       \* worker processes of one consumer group
          MaxFaults      \* bound on crashes, lost answers and redeliveries

ASSUME OrdersAssumption ==
  /\ PostOrder \in [Posts -> OrderIds]
  /\ Invalid \subseteq Posts
  /\ Posts \cap Workers = {}
  /\ MaxFaults \in Nat

Clients == Posts \cup Workers
Topics == {"placed", "shipped"}
NoEvent == 0
NoMsg == <<>>
NoPost == "no post"

VARIABLES rows,      \* the committed orders table
          pc,        \* where each command is
          agg,       \* the aggregate each command holds in memory
          msg,       \* the entry <<order, position>> each worker consumes
          answer,    \* the HTTP status of each request
          events,    \* committed outbox records; the position is the event id
          log,       \* the partition of each topic and order
          offset,    \* the worker group's offset in each orders.placed partition
          seen,      \* the reader group's offset in each partition
          view,      \* the reader's projection
          spent      \* faults so far

vars == <<rows, pc, agg, msg, answer, events, log, offset, seen, view, spent>>

NoOrder == [status |-> "draft", version |-> 0, post |-> NoPost]

Init ==
  /\ rows = [o \in OrderIds |-> NoOrder]
  /\ pc = [c \in Clients |-> IF c \in Posts THEN "new" ELSE "idle"]
  /\ agg = [c \in Clients |-> NoOrder]
  /\ msg = [w \in Workers |-> NoMsg]
  /\ answer = [p \in Posts |-> "none"]
  /\ events = <<>>
  /\ log = [k \in Topics \X OrderIds |-> <<>>]
  /\ offset = [o \in OrderIds |-> 0]
  /\ seen = [k \in Topics \X OrderIds |-> 0]
  /\ view = [o \in OrderIds |-> NoOrder]
  /\ spent = 0

Fault ==
  /\ spent < MaxFaults
  /\ spent' = spent + 1

\* The order a command is about.
OrderOf(c) == IF c \in Posts THEN PostOrder[c] ELSE msg[c][1]

Goto(c, label) == pc' = [pc EXCEPT ![c] = label]

-----------------------------------------------------------------------------
(* The end of a command                                                    *)

\* Mutation: every outcome is acknowledged.
NackAcked(w) == Goto(w, "ack") /\ UNCHANGED answer

\* processEnvelope on an error or a panic: the message comes again.
Nack(w) == Goto(w, "load") /\ UNCHANGED answer

\* routes: ErrConcurrencyConflict is 409, anything else 400.
Respond(p, status) ==
  /\ answer' = [answer EXCEPT ![p] = status]
  /\ Goto(p, "done")

Refuse(c, status) == IF c \in Posts THEN Respond(c, status) ELSE Nack(c)

Succeed(c) == IF c \in Posts THEN Respond(c, "created")
              ELSE Goto(c, "ack") /\ UNCHANGED answer

-----------------------------------------------------------------------------
(* Place and Ship                                                          *)

\* PlaceOrderHandler builds a fresh aggregate, whatever the table holds.
Place(p) ==
  /\ pc[p] = "new"
  /\ p \notin Invalid
  /\ agg' = [agg EXCEPT ![p] = [status |-> "placed", version |-> 1, post |-> p]]
  /\ Goto(p, "ready")
  /\ UNCHANGED <<rows, msg, answer, events, log, offset, seen, view, spent>>

PlaceRefused(p) ==
  /\ pc[p] = "new"
  /\ p \in Invalid
  /\ Respond(p, "error")
  /\ UNCHANGED <<rows, agg, msg, events, log, offset, seen, view, spent>>

\* ShipOrderHandler: FindByID runs outside the transaction.
Ship(w) ==
  /\ pc[w] = "load"
  /\ rows[OrderOf(w)].status = "placed"
  /\ agg' = [agg EXCEPT ![w] = [rows[OrderOf(w)] EXCEPT !.status = "shipped", !.version = @ + 1]]
  /\ Goto(w, "ready")
  /\ UNCHANGED <<rows, msg, answer, events, log, offset, seen, view, spent>>

\* ORDER_ALREADY_SHIPPED counts as success.
ShipAlreadyShipped(w) ==
  /\ pc[w] = "load"
  /\ rows[OrderOf(w)].status = "shipped"
  /\ Goto(w, "ack")
  /\ UNCHANGED <<rows, agg, msg, answer, events, log, offset, seen, view, spent>>

-----------------------------------------------------------------------------
(* The transaction: Save, Stage, commit                                    *)

\* Another transaction holds the row until it ends.
RowLocked(c) ==
  \E d \in Clients \ {c} : pc[d] \in {"saved", "staged"} /\ OrderOf(d) = OrderOf(c)

\* Mutation: the upsert has no version guard.
VersionAny(c) == TRUE

\* Save inserts, or updates WHERE orders.version = EXCLUDED.version - 1.
VersionMatches(c) ==
  \/ rows[OrderOf(c)] = NoOrder
  \/ rows[OrderOf(c)].version = agg[c].version - 1

Save(c) ==
  /\ pc[c] = "ready"
  /\ ~RowLocked(c)
  /\ VersionMatches(c)
  /\ Goto(c, "saved")
  /\ UNCHANGED <<rows, agg, msg, answer, events, log, offset, seen, view, spent>>

\* No row affected: ErrConcurrencyConflict, and the transaction rolls back.
SaveConflict(c) ==
  /\ pc[c] = "ready"
  /\ ~RowLocked(c)
  /\ ~VersionMatches(c)
  /\ Refuse(c, "conflict")
  /\ UNCHANGED <<rows, agg, msg, events, log, offset, seen, view, spent>>

\* Mutation: the handler does not set the causation id.
CauseInherited(c) == NoEvent

\* HandleOrderPlaced overwrites causation_id with the consumed event's id.
CauseOf(c) == IF c \in Posts THEN NoEvent ELSE log[<<"placed", msg[c][1]>>][msg[c][2]]

\* Only OrderPlaced carries the customer and the total.
StagedEvent(c) ==
  [topic |-> agg[c].status, order |-> OrderOf(c), version |-> agg[c].version,
   post |-> IF agg[c].status = "placed" THEN agg[c].post ELSE NoPost, cause |-> CauseOf(c)]

\* Mutation: Stage writes outside the transaction.
StageAutocommit(c) ==
  /\ pc[c] = "saved"
  /\ events' = Append(events, StagedEvent(c))
  /\ Goto(c, "staged")
  /\ UNCHANGED <<rows, agg, msg, answer, log, offset, seen, view, spent>>

Stage(c) ==
  /\ pc[c] = "saved"
  /\ Goto(c, "staged")
  /\ UNCHANGED <<rows, agg, msg, answer, events, log, offset, seen, view, spent>>

\* The row and the outbox record appear together.
Committed(c) ==
  /\ pc[c] = "staged"
  /\ rows' = [rows EXCEPT ![OrderOf(c)] = agg[c]]
  /\ events' = Append(events, StagedEvent(c))

Commit(c) ==
  /\ Committed(c)
  /\ Succeed(c)
  /\ UNCHANGED <<agg, msg, log, offset, seen, view, spent>>

\* The commit happened but its answer is lost: the command reports an error.
CommitLost(c) ==
  /\ Committed(c)
  /\ Refuse(c, "error")
  /\ Fault
  /\ UNCHANGED <<agg, msg, log, offset, seen, view>>

\* A statement fails, or the context ends: rollback and an error.
Abort(c) ==
  /\ pc[c] \in {"load", "ready", "saved", "staged"}
  /\ Refuse(c, "error")
  /\ Fault
  /\ UNCHANGED <<rows, agg, msg, events, log, offset, seen, view>>

-----------------------------------------------------------------------------
(* Broker and consumers                                                    *)

Publish(e) ==
  LET k == <<events[e].topic, events[e].order>> IN
    /\ log' = [log EXCEPT ![k] = Append(@, e)]
    /\ UNCHANGED <<rows, pc, agg, msg, answer, events, offset, seen, view>>

Published(e) == \E k \in DOMAIN log : \E i \in DOMAIN log[k] : log[k][i] = e

Relay(e) == ~Published(e) /\ Publish(e) /\ UNCHANGED spent

RelayAgain(e) == Published(e) /\ Publish(e) /\ Fault

Receive(w, o) ==
  /\ pc[w] = "idle"
  /\ offset[o] < Len(log[<<"placed", o>>])
  /\ msg' = [msg EXCEPT ![w] = <<o, offset[o] + 1>>]
  /\ Goto(w, "load")
  /\ UNCHANGED <<rows, agg, answer, events, log, offset, seen, view>>

Assigned(o) == \E v \in Workers : pc[v] # "idle" /\ OrderOf(v) = o

Consume(w) == \E o \in OrderIds : ~Assigned(o) /\ Receive(w, o) /\ UNCHANGED spent

\* A rebalance hands the partition over while the old owner still works.
Rebalance(w) == \E o \in OrderIds : Assigned(o) /\ Receive(w, o) /\ Fault

\* An acknowledgement counts once, for the entry the group stands at.
Ack(w) ==
  LET o == OrderOf(w) IN
    /\ pc[w] = "ack"
    /\ offset' = IF msg[w][2] = offset[o] + 1 THEN [offset EXCEPT ![o] = @ + 1] ELSE offset
    /\ Goto(w, "idle")
    /\ msg' = [msg EXCEPT ![w] = NoMsg]
    /\ UNCHANGED <<rows, agg, answer, events, log, seen, view, spent>>

\* The worker dies: its transaction rolls back, its message is redelivered.
CrashWorker(w) ==
  /\ pc[w] # "idle"
  /\ Goto(w, "idle")
  /\ msg' = [msg EXCEPT ![w] = NoMsg]
  /\ Fault
  /\ UNCHANGED <<rows, agg, answer, events, log, offset, seen, view>>

-----------------------------------------------------------------------------
(* The projection                                                          *)

\* Mutation: an OrderPlaced is ignored when there is a view already.
ProjectedOnce(v, e) ==
  IF e.topic = "placed" /\ v # NoOrder THEN v
  ELSE [status |-> e.topic, version |-> e.version,
        post |-> IF e.topic = "placed" THEN e.post ELSE v.post]

\* applyPlaced replaces the whole view; applyShipped updates the view it
\* finds, or a stub without customer and total.
Projected(v, e) ==
  [status |-> e.topic, version |-> e.version,
   post |-> IF e.topic = "placed" THEN e.post ELSE v.post]

Project(k) ==
  /\ seen[k] < Len(log[k])
  /\ view' = [view EXCEPT ![k[2]] = Projected(@, events[log[k][seen[k] + 1]])]
  /\ UNCHANGED <<rows, pc, agg, msg, answer, events, log, offset>>

\* One goroutine per topic; the handler never fails.
Apply(k) == Project(k) /\ seen' = [seen EXCEPT ![k] = @ + 1] /\ UNCHANGED spent

\* The view changed but the acknowledgement got lost.
ApplyUnacked(k) == Project(k) /\ UNCHANGED seen /\ Fault

-----------------------------------------------------------------------------
Command(c) == Save(c) \/ SaveConflict(c) \/ Stage(c) \/ Commit(c)

Work(w) == Consume(w) \/ Ship(w) \/ ShipAlreadyShipped(w) \/ Ack(w) \/ Command(w)

Request(p) == Place(p) \/ PlaceRefused(p) \/ Command(p)

Disturbance ==
  \/ \E c \in Clients : CommitLost(c) \/ Abort(c)
  \/ \E w \in Workers : Rebalance(w) \/ CrashWorker(w)
  \/ \E e \in DOMAIN events : RelayAgain(e)
  \/ \E k \in DOMAIN log : ApplyUnacked(k)

Next ==
  \/ \E p \in Posts : Request(p)
  \/ \E w \in Workers : Work(w)
  \/ \E e \in DOMAIN events : Relay(e)
  \/ \E k \in DOMAIN log : Apply(k)
  \/ Disturbance

Spec == Init /\ [][Next]_vars

\* Requests and workers go on, the relay delivers, the reader reads.
Fairness ==
  /\ \A p \in Posts : WF_vars(Request(p))
  /\ \A w \in Workers : WF_vars(Work(w))
  /\ WF_vars(\E e \in DOMAIN events : Relay(e))
  /\ \A k \in Topics \X OrderIds : WF_vars(Apply(k))

FairSpec == Spec /\ Fairness

-----------------------------------------------------------------------------
(* Properties                                                              *)

\* However requests with one id, redeliveries and worker takeovers interleave,
\* each order has one OrderPlaced exactly when it has a row and one
\* OrderShipped exactly when the row is shipped.
OneEventPerTransition ==
  /\ \A i, j \in DOMAIN events :
       events[i].topic = events[j].topic /\ events[i].order = events[j].order => i = j
  /\ \A o \in OrderIds :
       /\ rows[o] # NoOrder <=> \E i \in DOMAIN events : events[i].topic = "placed" /\ events[i].order = o
       /\ rows[o].status = "shipped" <=>
            \E i \in DOMAIN events : events[i].topic = "shipped" /\ events[i].order = o

\* Save and Stage share a transaction: the broker and the projection never run
\* ahead of the orders table, so FindByID never misses the order of a consumed
\* event and Ship never meets a draft.
EventsFollowRows ==
  /\ \A k \in DOMAIN log : \A i \in DOMAIN log[k] :
       events[log[k][i]].version <= rows[k[2]].version
  /\ \A o \in OrderIds : view[o].version <= rows[o].version

\* A request answered 201 is the one whose body is stored, now and later, and a
\* request answered 409 stored nothing.
CreatedIsStored ==
  \A p \in Posts :
    /\ answer[p] = "created" => rows[PostOrder[p]].post = p
    /\ answer[p] = "conflict" => rows[PostOrder[p]].post # p

\* The causation chain: an OrderShipped names the OrderPlaced of its own order
\* as its cause, whichever worker and delivery shipped it.
CausationChain ==
  \A i \in DOMAIN events : events[i].topic = "shipped" =>
    LET c == events[i].cause IN
      /\ c \in DOMAIN events
      /\ events[c].topic = "placed"
      /\ events[c].order = events[i].order

\* Every order that was placed is shipped, although workers crash, conflict and
\* lose the answer to their commit.
EventuallyShipped ==
  \A o \in OrderIds : rows[o].status = "placed" ~> rows[o].status = "shipped"

\* The projection catches up: every order that was placed ends up in the view
\* with its customer and total, in whatever order the two topics are read.
EventuallyProjected ==
  \A o \in OrderIds : rows[o] # NoOrder ~> view[o].post = rows[o].post

\* Comment of applyShipped: "placed will overwrite the missing fields if it
\* arrives later": an OrderPlaced that arrives after OrderShipped completes the
\* view and does not take the shipment back.
PlacedFillsMissingFields ==
  [][\A o \in OrderIds : view[o].status = "shipped" => view'[o].status = "shipped"]_vars
=============================================================================
