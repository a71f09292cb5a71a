---------------------------- MODULE OrdersProofs ----------------------------
(***************************************************************************)
(* Proofs about Orders for any set of orders, requests and workers and any *)
(* number of faults.                                                       *)
(***************************************************************************)
EXTENDS Orders, TLAPS

-----------------------------------------------------------------------------
(* The inductive invariant                                                 *)

Order == [status : {"draft", "placed", "shipped"}, version : Nat, post : Posts \cup {NoPost}]

EventRecord == [topic : Topics, order : OrderIds, version : Nat, post : Posts \cup {NoPost}, cause : Nat]

PostLabels == {"new", "ready", "saved", "staged", "done"}
WorkerLabels == {"idle", "load", "ready", "saved", "staged", "ack"}

TypeOK ==
  /\ rows \in [OrderIds -> Order]
  /\ pc \in [Clients -> PostLabels \cup WorkerLabels]
  /\ \A p \in Posts : pc[p] \in PostLabels
  /\ \A w \in Workers : pc[w] \in WorkerLabels
  /\ agg \in [Clients -> Order]
  /\ msg \in [Workers -> {NoMsg} \cup (OrderIds \X Nat)]
  /\ answer \in [Posts -> {"none", "created", "conflict", "error"}]
  /\ events \in Seq(EventRecord)
  /\ log \in [Topics \X OrderIds -> Seq(Nat)]
  /\ offset \in [OrderIds -> Nat]
  /\ seen \in [Topics \X OrderIds -> Nat]
  /\ view \in [OrderIds -> Order]

\* The version of an order or event of a given status.
VersionOf(status) == IF status = "placed" THEN 1 ELSE 2

\* A partition holds events of its topic and order, and no others.
LogSound ==
  \A k \in Topics \X OrderIds : \A i \in DOMAIN log[k] :
    /\ log[k][i] \in DOMAIN events
    /\ events[log[k][i]].topic = k[1]
    /\ events[log[k][i]].order = k[2]

\* A worker that is not idle consumes an entry of a partition.
MessagesSound ==
  \A w \in Workers : pc[w] # "idle" =>
    /\ msg[w] \in OrderIds \X Nat
    /\ msg[w][2] \in DOMAIN log[<<"placed", msg[w][1]>>]

EventsSound == \A i \in DOMAIN events : events[i].version = VersionOf(events[i].topic)

\* A row was stored by a request for this order that has ended, and not with
\* a conflict.
RowsSound ==
  \A o \in OrderIds : rows[o] # NoOrder =>
    /\ rows[o].status \in {"placed", "shipped"}
    /\ rows[o].version = VersionOf(rows[o].status)
    /\ rows[o].post \in Posts
    /\ PostOrder[rows[o].post] = o
    /\ pc[rows[o].post] = "done"
    /\ answer[rows[o].post] # "conflict"

\* What a command is about to write, and what it has found and locked.
PostSound(p) ==
  /\ pc[p] \in {"ready", "saved", "staged"} => agg[p] = [status |-> "placed", version |-> 1, post |-> p]
  /\ pc[p] \in {"saved", "staged"} => rows[PostOrder[p]] = NoOrder
  /\ answer[p] \in {"created", "conflict"} => pc[p] = "done" /\ rows[PostOrder[p]] # NoOrder

WorkerSound(w) ==
  /\ pc[w] \in {"ready", "saved", "staged"} =>
       agg[w] = [status |-> "shipped", version |-> 2, post |-> rows[msg[w][1]].post]
  /\ pc[w] \in {"saved", "staged"} => rows[msg[w][1]].status = "placed"

\* The row lock: two transactions never write the same order.
Exclusive ==
  \A c, d \in Clients :
    pc[c] \in {"saved", "staged"} /\ pc[d] \in {"saved", "staged"} /\ OrderOf(c) = OrderOf(d) => c = d

Inductive ==
  /\ TypeOK
  /\ LogSound
  /\ MessagesSound
  /\ EventsSound
  /\ RowsSound
  /\ \A p \in Posts : PostSound(p)
  /\ \A w \in Workers : WorkerSound(w)
  /\ Exclusive
  /\ OneEventPerTransition
  /\ CausationChain
  /\ CreatedIsStored
  /\ EventsFollowRows

-----------------------------------------------------------------------------
(* Kinds of steps                                                          *)

\* What a partition is after an entry was appended to it.
LEMMA Appended ==
  ASSUME NEW s \in Seq(Nat), NEW e \in Nat, NEW t, t = Append(s, e)
  PROVE  /\ DOMAIN s \subseteq DOMAIN t
         /\ \A i \in DOMAIN t : t[i] = e \/ (i \in DOMAIN s /\ t[i] = s[i])
OBVIOUS

\* Requests are no workers, so a client is the one or the other.
LEMMA ClientKinds ==
  ASSUME NEW c \in Clients
  PROVE  /\ c \in Posts \/ c \in Workers
         /\ c \in Posts => c \notin Workers /\ OrderOf(c) = PostOrder[c] /\ PostOrder[c] \in OrderIds
         /\ c \in Workers => c \notin Posts /\ OrderOf(c) = msg[c][1]
BY OrdersAssumption DEF Clients, OrderOf

\* A client goes on and nothing but its own state and the worker group's
\* offset changes.
Local(c) ==
  \/ c \in Posts /\ (Place(c) \/ PlaceRefused(c))
  \/ c \in Workers /\ \/ Ship(c) \/ ShipAlreadyShipped(c) \/ Ack(c) \/ CrashWorker(c)
                       \/ \E o \in OrderIds : Receive(c, o)
  \/ Save(c) \/ SaveConflict(c) \/ Stage(c) \/ Abort(c)

\* A transaction commits, whether its caller learns of it or not.
Commits(c) ==
  /\ Committed(c)
  /\ Succeed(c) \/ Refuse(c, "error")
  /\ UNCHANGED <<agg, msg, log, offset, seen, view>>

\* The reader projects an entry of k.
Reads(k) == Project(k) /\ seen' \in {seen, [seen EXCEPT ![k] = @ + 1]}

LEMMA StepKinds ==
  ASSUME TypeOK, [Next]_vars
  PROVE  \/ \E c \in Clients : Local(c) \/ Commits(c)
         \/ \E e \in DOMAIN events : Publish(e)
         \/ \E k \in Topics \X OrderIds : Reads(k)
         \/ UNCHANGED vars
<1>1. ASSUME NEW c \in Clients, Command(c) \/ CommitLost(c) \/ Abort(c)
      PROVE  Local(c) \/ Commits(c)
  BY <1>1 DEF Command, Commit, CommitLost, Local, Commits
<1>2. ASSUME NEW p \in Posts, Request(p) PROVE \E c \in Clients : Local(c) \/ Commits(c)
  BY <1>1, <1>2 DEF Request, Local, Clients
<1>3. ASSUME NEW w \in Workers, Work(w) \/ Rebalance(w) \/ CrashWorker(w)
      PROVE  \E c \in Clients : Local(c) \/ Commits(c)
  BY <1>1, <1>3 DEF Work, Consume, Rebalance, Local, Clients
<1>4. ASSUME NEW e \in DOMAIN events, Relay(e) \/ RelayAgain(e) PROVE Publish(e)
  BY <1>4 DEF Relay, RelayAgain
<1>5. ASSUME NEW k \in DOMAIN log, Apply(k) \/ ApplyUnacked(k)
      PROVE  k \in Topics \X OrderIds /\ Reads(k)
  BY <1>5 DEF Apply, ApplyUnacked, Reads, TypeOK
<1>. QED
  BY <1>1, <1>2, <1>3, <1>4, <1>5 DEF Next, Disturbance

\* A local step leaves the tables, the broker and the view alone.
LEMMA LocalKeeps ==
  ASSUME NEW c \in Clients, Local(c)
  PROVE  UNCHANGED <<rows, events, log, view>>
BY DEF Local, Place, PlaceRefused, Ship, ShipAlreadyShipped, Ack, CrashWorker, Receive, Save, SaveConflict,
       Stage, Abort

-----------------------------------------------------------------------------
(* Type correctness                                                        *)

LEMMA GotoType ==
  ASSUME TypeOK, NEW c \in Clients, NEW label, Goto(c, label),
         c \in Posts => label \in PostLabels, c \in Workers => label \in WorkerLabels
  PROVE  /\ pc' \in [Clients -> PostLabels \cup WorkerLabels]
         /\ \A p \in Posts : pc'[p] \in PostLabels
         /\ \A w \in Workers : pc'[w] \in WorkerLabels
<1>1. label \in PostLabels \cup WorkerLabels
  BY ClientKinds
<1>2. pc' = [pc EXCEPT ![c] = label]
  BY DEF Goto
<1>3. \A d \in Clients : pc'[d] = IF d = c THEN label ELSE pc[d]
  BY <1>2 DEF TypeOK
<1>. QED
  BY <1>1, <1>2, <1>3 DEF TypeOK, Clients

LEMMA EndType ==
  ASSUME TypeOK, NEW c \in Clients,
         Succeed(c) \/ \E status \in {"conflict", "error"} : Refuse(c, status)
  PROVE  /\ pc' \in [Clients -> PostLabels \cup WorkerLabels]
         /\ \A p \in Posts : pc'[p] \in PostLabels
         /\ \A w \in Workers : pc'[w] \in WorkerLabels
         /\ answer' \in [Posts -> {"none", "created", "conflict", "error"}]
<1>1. CASE c \in Posts
  <2>1. PICK status \in {"created", "conflict", "error"} : Respond(c, status)
    BY <1>1 DEF Succeed, Refuse
  <2>2. answer' \in [Posts -> {"none", "created", "conflict", "error"}]
    BY <1>1, <2>1 DEF Respond, TypeOK
  <2>. QED
    BY <1>1, <2>1, <2>2, ClientKinds, GotoType DEF Respond, PostLabels
<1>2. CASE c \in Workers
  <2>1. UNCHANGED answer /\ (Goto(c, "ack") \/ Goto(c, "load"))
    BY <1>2, ClientKinds DEF Succeed, Refuse, Nack
  <2>. QED
    BY <1>2, <2>1, ClientKinds, GotoType DEF WorkerLabels, TypeOK
<1>. QED
  BY <1>1, <1>2, ClientKinds

\* What a commit writes: the state of the row it replaces, and the event.
LEMMA CommitFacts ==
  ASSUME TypeOK, MessagesSound, LogSound, RowsSound, NEW c \in Clients, Committed(c),
         \A p \in Posts : PostSound(p), \A w \in Workers : WorkerSound(w)
  PROVE  /\ OrderOf(c) \in OrderIds
         /\ StagedEvent(c) \in EventRecord
         /\ StagedEvent(c).topic = agg[c].status
         /\ StagedEvent(c).order = OrderOf(c)
         /\ StagedEvent(c).version = agg[c].version
         /\ agg[c].version = VersionOf(agg[c].status)
         /\ c \in Posts => /\ rows[OrderOf(c)] = NoOrder
                           /\ agg[c] = [status |-> "placed", version |-> 1, post |-> c]
         /\ c \in Workers =>
              /\ agg[c] = [status |-> "shipped", version |-> 2, post |-> rows[OrderOf(c)].post]
              /\ rows[OrderOf(c)].status = "placed"
              /\ rows[OrderOf(c)].version = 1
              /\ StagedEvent(c).cause \in DOMAIN events
              /\ events[StagedEvent(c).cause].topic = "placed"
              /\ events[StagedEvent(c).cause].order = OrderOf(c)
<1>1. pc[c] = "staged"
  BY DEF Committed
<1>2. CASE c \in Posts
  <2>1. OrderOf(c) = PostOrder[c] /\ PostOrder[c] \in OrderIds /\ c \notin Workers
    BY <1>2, ClientKinds
  <2>2. agg[c] = [status |-> "placed", version |-> 1, post |-> c] /\ rows[OrderOf(c)] = NoOrder
    BY <1>1, <1>2, <2>1 DEF PostSound
  <2>3. StagedEvent(c) = [topic |-> "placed", order |-> OrderOf(c), version |-> 1, post |-> c, cause |-> 0]
    BY <1>2, <2>2 DEF StagedEvent, CauseOf, NoEvent
  <2>. QED
    BY <1>2, <2>1, <2>2, <2>3 DEF EventRecord, Topics, VersionOf
<1>3. CASE c \in Workers
  <2>0. c \notin Posts /\ OrderOf(c) = msg[c][1]
    BY <1>3, ClientKinds
  <2>1. msg[c] \in OrderIds \X Nat /\ msg[c][2] \in DOMAIN log[<<"placed", msg[c][1]>>]
    BY <1>1, <1>3 DEF MessagesSound
  <2>2. OrderOf(c) \in OrderIds /\ <<"placed", OrderOf(c)>> \in Topics \X OrderIds
    BY <2>0, <2>1 DEF Topics
  <2>3. /\ agg[c] = [status |-> "shipped", version |-> 2, post |-> rows[OrderOf(c)].post]
        /\ rows[OrderOf(c)].status = "placed"
    BY <1>1, <1>3, <2>0 DEF WorkerSound
  <2>4. rows[OrderOf(c)].version = 1
    BY <2>2, <2>3 DEF RowsSound, NoOrder, VersionOf
  <2>5. CauseOf(c) = log[<<"placed", OrderOf(c)>>][msg[c][2]]
    BY <2>0 DEF CauseOf
  <2>6. /\ CauseOf(c) \in DOMAIN events
        /\ events[CauseOf(c)].topic = "placed" /\ events[CauseOf(c)].order = OrderOf(c)
    BY <2>0, <2>1, <2>2, <2>5 DEF LogSound
  <2>7. CauseOf(c) \in Nat
    BY <2>6 DEF TypeOK
  <2>8. StagedEvent(c) = [topic |-> "shipped", order |-> OrderOf(c), version |-> 2, post |-> NoPost,
                          cause |-> CauseOf(c)]
    BY <2>3 DEF StagedEvent
  <2>. QED
    BY <2>0, <2>2, <2>3, <2>4, <2>6, <2>7, <2>8 DEF EventRecord, Topics, VersionOf
<1>. QED
  BY <1>2, <1>3, ClientKinds

LEMMA TypeStep ==
  ASSUME Inductive, [Next]_vars
  PROVE  TypeOK'
<1>0. TypeOK /\ MessagesSound /\ LogSound
  BY DEF Inductive
<1>1. ASSUME NEW c \in Clients, Local(c) PROVE TypeOK'
  <2>0. UNCHANGED <<rows, events, log, view>>
    BY <1>1, LocalKeeps
  <2>1. CASE c \in Posts /\ (Place(c) \/ PlaceRefused(c))
    <3>1. CASE Place(c)
      <4>1. [status |-> "placed", version |-> 1, post |-> c] \in Order
        BY <2>1 DEF Order
      <4>2. Goto(c, "ready")
        BY <3>1 DEF Place
      <4>. QED
        BY <1>0, <2>0, <3>1, <4>1, <4>2, GotoType DEF Place, TypeOK, PostLabels, WorkerLabels
    <3>2. CASE PlaceRefused(c)
      <4>1. Refuse(c, "error")
        BY <2>1, <3>2 DEF PlaceRefused, Refuse
      <4>. QED
        BY <1>0, <2>0, <3>2, <4>1, EndType DEF PlaceRefused, TypeOK
    <3>. QED
      BY <2>1, <3>1, <3>2
  <2>2. CASE c \in Workers /\ Ship(c)
    <3>1. OrderOf(c) \in OrderIds /\ c \notin Posts
      BY <1>0, <2>2, ClientKinds DEF Ship, MessagesSound
    <3>2. [rows[OrderOf(c)] EXCEPT !.status = "shipped", !.version = rows[OrderOf(c)].version + 1] \in Order
      <4>1. \A r \in Order, v \in Nat : [r EXCEPT !.status = "shipped", !.version = v] \in Order
        BY DEF Order
      <4>2. rows[OrderOf(c)] \in Order /\ rows[OrderOf(c)].version + 1 \in Nat
        BY <1>0, <3>1 DEF TypeOK, Order
      <4>. QED
        BY <4>1, <4>2
    <3>. QED
      BY <1>0, <2>0, <2>2, <3>1, <3>2 DEF Ship, Goto, TypeOK, WorkerLabels
  <2>3. CASE c \in Workers /\ ShipAlreadyShipped(c)
    BY <1>0, <2>0, <2>3, ClientKinds DEF ShipAlreadyShipped, Goto, TypeOK, WorkerLabels
  <2>4. CASE c \in Workers /\ Ack(c)
    <3>1. OrderOf(c) \in OrderIds /\ c \notin Posts
      BY <1>0, <2>4, ClientKinds DEF Ack, MessagesSound
    <3>. QED
      BY <1>0, <2>0, <2>4, <3>1 DEF Ack, Goto, TypeOK, WorkerLabels
  <2>5. CASE c \in Workers /\ CrashWorker(c)
    BY <1>0, <2>0, <2>5, ClientKinds DEF CrashWorker, Goto, TypeOK, WorkerLabels
  <2>6. ASSUME c \in Workers, NEW o \in OrderIds, Receive(c, o) PROVE TypeOK'
    BY <1>0, <2>0, <2>6, ClientKinds DEF Receive, Goto, TypeOK, WorkerLabels
  <2>7. CASE Save(c) \/ Stage(c)
    <3>1. Goto(c, "saved") \/ Goto(c, "staged")
      BY <2>7 DEF Save, Stage
    <3>2. /\ pc' \in [Clients -> PostLabels \cup WorkerLabels]
          /\ \A p \in Posts : pc'[p] \in PostLabels
          /\ \A w \in Workers : pc'[w] \in WorkerLabels
      BY <1>0, <3>1, GotoType DEF WorkerLabels, PostLabels
    <3>. QED
      BY <1>0, <2>0, <2>7, <3>2 DEF Save, Stage, TypeOK
  <2>8. CASE SaveConflict(c) \/ Abort(c)
    BY <1>0, <2>0, <2>8, EndType DEF SaveConflict, Abort, TypeOK
  <2>. QED
    BY <1>1, <2>1, <2>2, <2>3, <2>4, <2>5, <2>6, <2>7, <2>8 DEF Local
<1>2. ASSUME NEW c \in Clients, Commits(c) PROVE TypeOK'
  <2>1. OrderOf(c) \in OrderIds /\ StagedEvent(c) \in EventRecord
    BY <1>2, CommitFacts DEF Commits, Inductive
  <2>2. rows' \in [OrderIds -> Order] /\ events' \in Seq(EventRecord)
    BY <1>0, <1>2, <2>1 DEF Commits, Committed, TypeOK
  <2>. QED
    BY <1>0, <1>2, <2>2, EndType DEF Commits, TypeOK
<1>3. ASSUME NEW e \in DOMAIN events, Publish(e) PROVE TypeOK'
  <2>1. <<events[e].topic, events[e].order>> \in Topics \X OrderIds /\ e \in Nat
    <3>1. events[e] \in EventRecord /\ e \in Nat
      BY <1>0 DEF TypeOK
    <3>. QED
      BY <3>1 DEF EventRecord
  <2>2. log' \in [Topics \X OrderIds -> Seq(Nat)]
    BY <1>0, <1>3, <2>1 DEF Publish, TypeOK
  <2>3. UNCHANGED <<rows, pc, agg, msg, answer, events, offset, seen, view>>
    BY <1>3 DEF Publish
  <2>. QED
    BY <1>0, <2>2, <2>3 DEF TypeOK
<1>4. ASSUME NEW k \in Topics \X OrderIds, Reads(k) PROVE TypeOK'
  <2>1. seen[k] + 1 \in DOMAIN log[k] /\ k[2] \in OrderIds
    BY <1>0, <1>4 DEF Reads, Project, TypeOK
  <2>2. events[log[k][seen[k] + 1]] \in EventRecord
    BY <1>0, <2>1 DEF LogSound, TypeOK
  <2>3. Projected(view[k[2]], events[log[k][seen[k] + 1]]) \in Order
    BY <1>0, <2>1, <2>2 DEF Projected, TypeOK, EventRecord, Order, Topics
  <2>4. view' \in [OrderIds -> Order]
    BY <1>0, <1>4, <2>1, <2>3 DEF Reads, Project, TypeOK
  <2>5. seen' \in [Topics \X OrderIds -> Nat]
    BY <1>0, <1>4 DEF Reads, TypeOK
  <2>. QED
    BY <1>0, <1>4, <2>4, <2>5 DEF Reads, Project, TypeOK
<1>5. CASE UNCHANGED vars
  BY <1>0, <1>5 DEF vars, TypeOK
<1>. QED
  BY <1>0, <1>1, <1>2, <1>3, <1>4, <1>5, StepKinds

-----------------------------------------------------------------------------
(* Events, rows and the broker                                             *)

\* A commit appends one event and replaces one row.
LEMMA CommitEffect ==
  ASSUME Inductive, NEW c \in Clients, Commits(c)
  PROVE  /\ Len(events) + 1 \in DOMAIN events' /\ events'[Len(events) + 1] = StagedEvent(c)
         /\ \A i \in DOMAIN events' : i \in DOMAIN events \/ i = Len(events) + 1
         /\ \A i \in DOMAIN events : i \in DOMAIN events' /\ events'[i] = events[i] /\ i # Len(events) + 1
         /\ rows'[OrderOf(c)] = agg[c]
         /\ \A o \in OrderIds \ {OrderOf(c)} : rows'[o] = rows[o]
<1>1. OrderOf(c) \in OrderIds /\ StagedEvent(c) \in EventRecord
  BY CommitFacts DEF Commits, Inductive
<1>2. events' = Append(events, StagedEvent(c)) /\ rows' = [rows EXCEPT ![OrderOf(c)] = agg[c]]
  BY DEF Commits, Committed
<1>3. events \in Seq(EventRecord) /\ rows \in [OrderIds -> Order]
  BY DEF Inductive, TypeOK
<1>. QED
  BY <1>1, <1>2, <1>3

LEMMA LogStep ==
  ASSUME Inductive, [Next]_vars
  PROVE  LogSound'
<1>0. TypeOK /\ LogSound
  BY DEF Inductive
<1>1. ASSUME NEW c \in Clients, Local(c) PROVE LogSound'
  BY <1>0, <1>1, LocalKeeps DEF LogSound
<1>2. ASSUME NEW c \in Clients, Commits(c) PROVE LogSound'
  <2>1. log' = log
    BY <1>2 DEF Commits
  <2>. QED
    BY <1>0, <1>2, <2>1, CommitEffect DEF LogSound
<1>3. ASSUME NEW e \in DOMAIN events, Publish(e) PROVE LogSound'
  <2>1. DEFINE k == <<events[e].topic, events[e].order>>
  <2>2. k \in Topics \X OrderIds /\ e \in Nat /\ events' = events
    <3>1. events[e] \in EventRecord /\ e \in Nat
      BY <1>0 DEF TypeOK
    <3>. QED
      BY <1>3, <3>1 DEF EventRecord, Publish
  <2>3. log' = [log EXCEPT ![k] = Append(log[k], e)]
    BY <1>3 DEF Publish
  <2>4. \A j \in Topics \X OrderIds : j # k => log'[j] = log[j]
    BY <1>0, <2>2, <2>3 DEF TypeOK
  <2>5. log'[k] = Append(log[k], e) /\ log[k] \in Seq(Nat)
    BY <1>0, <2>2, <2>3 DEF TypeOK
  <2>6. \A i \in DOMAIN log'[k] : log'[k][i] = e \/ (i \in DOMAIN log[k] /\ log'[k][i] = log[k][i])
    BY <2>2, <2>5, Appended
  <2>. QED
    BY <1>0, <2>2, <2>4, <2>6 DEF LogSound
<1>4. ASSUME NEW k \in Topics \X OrderIds, Reads(k) PROVE LogSound'
  BY <1>0, <1>4 DEF Reads, Project, LogSound
<1>5. CASE UNCHANGED vars
  BY <1>0, <1>5 DEF vars, LogSound
<1>. QED
  BY <1>0, <1>1, <1>2, <1>3, <1>4, <1>5, StepKinds

\* A partition only grows.
LEMMA LogGrows ==
  ASSUME TypeOK, [Next]_vars
  PROVE  \A k \in Topics \X OrderIds : DOMAIN log[k] \subseteq DOMAIN log'[k]
<1>1. ASSUME NEW c \in Clients, Local(c) \/ Commits(c) PROVE log' = log
  BY <1>1, LocalKeeps DEF Commits
<1>2. ASSUME NEW e \in DOMAIN events, Publish(e), NEW k \in Topics \X OrderIds
      PROVE  DOMAIN log[k] \subseteq DOMAIN log'[k]
  <2>0. log[k] \in Seq(Nat)
    BY DEF TypeOK
  <2>1. log' = [log EXCEPT ![<<events[e].topic, events[e].order>>] = Append(@, e)]
    BY <1>2 DEF Publish
  <2>2. log'[k] = log[k] \/ log'[k] = Append(log[k], e)
    BY <2>1 DEF TypeOK
  <2>3. e \in Nat
    BY DEF TypeOK
  <2>. QED
    BY <2>0, <2>2, <2>3, Appended
<1>3. ASSUME NEW k \in Topics \X OrderIds, Reads(k) PROVE log' = log
  BY <1>3 DEF Reads, Project
<1>. QED
  BY <1>1, <1>2, <1>3, StepKinds DEF vars

\* EventsSound, OneEventPerTransition and CausationChain change with a commit.
LEMMA EventsStep ==
  ASSUME Inductive, [Next]_vars
  PROVE  EventsSound' /\ OneEventPerTransition' /\ CausationChain'
<1>0. TypeOK /\ EventsSound /\ OneEventPerTransition /\ CausationChain /\ RowsSound
  BY DEF Inductive
<1>1. ASSUME UNCHANGED <<rows, events>>
      PROVE  EventsSound' /\ OneEventPerTransition' /\ CausationChain'
  BY <1>0, <1>1 DEF EventsSound, OneEventPerTransition, CausationChain
<1>2. ASSUME NEW c \in Clients, Commits(c)
      PROVE  EventsSound' /\ OneEventPerTransition' /\ CausationChain'
  <2>0. Committed(c)
    BY <1>2 DEF Commits
  <2>1. EventsSound'
    <3>1. StagedEvent(c).version = VersionOf(StagedEvent(c).topic)
      BY <2>0, CommitFacts DEF Inductive
    <3>. QED
      BY <1>0, <1>2, <3>1, CommitEffect DEF EventsSound
  <2>2. c \in Posts => ~ \E i \in DOMAIN events : events[i].order = OrderOf(c)
    <3>1. c \in Posts => OrderOf(c) \in OrderIds /\ rows[OrderOf(c)] = NoOrder
      BY <2>0, CommitFacts DEF Inductive
    <3>2. \A i \in DOMAIN events : events[i].topic \in {"placed", "shipped"}
      <4>1. \A i \in DOMAIN events : events[i] \in EventRecord
        BY <1>0 DEF TypeOK
      <4>. QED
        BY <4>1 DEF EventRecord, Topics
    <3>. QED
      BY <1>0, <3>1, <3>2 DEF OneEventPerTransition, NoOrder
  <2>3. c \in Workers => ~ \E i \in DOMAIN events : events[i].topic = "shipped" /\ events[i].order = OrderOf(c)
    <3>1. c \in Workers => OrderOf(c) \in OrderIds /\ rows[OrderOf(c)].status = "placed"
      BY <2>0, CommitFacts DEF Inductive
    <3>. QED
      BY <1>0, <3>1 DEF OneEventPerTransition
  <2>4. /\ c \in Posts => StagedEvent(c).topic = "placed" /\ agg[c].status = "placed"
        /\ c \in Workers => StagedEvent(c).topic = "shipped" /\ agg[c].status = "shipped"
        /\ StagedEvent(c).order = OrderOf(c) /\ OrderOf(c) \in OrderIds
        /\ agg[c] # NoOrder
    <3>1. /\ StagedEvent(c).topic = agg[c].status /\ StagedEvent(c).order = OrderOf(c)
          /\ OrderOf(c) \in OrderIds
          /\ c \in Posts => agg[c] = [status |-> "placed", version |-> 1, post |-> c]
          /\ c \in Workers => agg[c] = [status |-> "shipped", version |-> 2, post |-> rows[OrderOf(c)].post]
      BY <2>0, CommitFacts DEF Inductive
    <3>2. agg[c].status \in {"placed", "shipped"}
      BY <3>1, ClientKinds
    <3>. QED
      BY <3>1, <3>2 DEF NoOrder
  <2>5. \A i, j \in DOMAIN events' :
          events'[i].topic = events'[j].topic /\ events'[i].order = events'[j].order => i = j
    BY <1>0, <1>2, <2>2, <2>3, <2>4, CommitEffect, ClientKinds DEF OneEventPerTransition
  <2>6. ASSUME NEW o \in OrderIds
        PROVE  /\ rows'[o] # NoOrder <=> \E i \in DOMAIN events' : events'[i].topic = "placed" /\ events'[i].order = o
               /\ rows'[o].status = "shipped" <=>
                    \E i \in DOMAIN events' : events'[i].topic = "shipped" /\ events'[i].order = o
    <3>1. CASE o # OrderOf(c)
      BY <1>0, <1>2, <2>4, <3>1, CommitEffect DEF OneEventPerTransition
    <3>2. CASE o = OrderOf(c) /\ c \in Posts
      BY <1>0, <1>2, <2>2, <2>4, <3>2, CommitEffect
    <3>3. CASE o = OrderOf(c) /\ c \in Workers
      <4>1. \E i \in DOMAIN events : events[i].topic = "placed" /\ events[i].order = o
        BY <2>0, <3>3, CommitFacts DEF Inductive
      <4>. QED
        BY <1>0, <1>2, <2>4, <3>3, <4>1, CommitEffect
    <3>. QED
      BY <3>1, <3>2, <3>3, ClientKinds
  <2>7. OneEventPerTransition'
    BY <2>5, <2>6 DEF OneEventPerTransition
  <2>8. CausationChain'
    <3>1. c \in Workers => /\ StagedEvent(c).cause \in DOMAIN events
                           /\ events[StagedEvent(c).cause].topic = "placed"
                           /\ events[StagedEvent(c).cause].order = OrderOf(c)
      BY <2>0, CommitFacts DEF Inductive
    <3>. QED
      BY <1>0, <1>2, <2>4, <3>1, CommitEffect, ClientKinds DEF CausationChain
  <2>. QED
    BY <2>1, <2>7, <2>8
<1>3. ASSUME NEW c \in Clients, Local(c) PROVE UNCHANGED <<rows, events>>
  BY <1>3, LocalKeeps
<1>4. ASSUME NEW e \in DOMAIN events, Publish(e) PROVE UNCHANGED <<rows, events>>
  BY <1>4 DEF Publish
<1>5. ASSUME NEW k \in Topics \X OrderIds, Reads(k) PROVE UNCHANGED <<rows, events>>
  BY <1>5 DEF Reads, Project
<1>. QED
  BY <1>0, <1>1, <1>2, <1>3, <1>4, <1>5, StepKinds DEF vars

-----------------------------------------------------------------------------
(* Commands                                                                *)

\* A step of one client does not touch the state of another.
LEMMA OthersKeep ==
  ASSUME TypeOK, NEW c \in Clients, Local(c) \/ Commits(c), NEW d \in Clients, d # c
  PROVE  /\ pc'[d] = pc[d] /\ agg'[d] = agg[d]
         /\ d \in Posts => answer'[d] = answer[d]
         /\ d \in Workers => msg'[d] = msg[d]
BY DEF TypeOK, Local, Commits, Place, PlaceRefused, Ship, ShipAlreadyShipped, Ack, CrashWorker, Receive, Save,
       SaveConflict, Stage, Abort, Goto, Succeed, Refuse, Respond, Nack

\* The broker and the reader touch no client.
LEMMA ReadersKeep ==
  ASSUME \/ \E e \in DOMAIN events : Publish(e)
         \/ \E k \in Topics \X OrderIds : Reads(k)
         \/ UNCHANGED vars
  PROVE  UNCHANGED <<rows, pc, agg, msg, answer>>
BY DEF Publish, Reads, Project, vars

\* A request that was answered stays so.
LEMMA DoneStays ==
  ASSUME TypeOK, [Next]_vars, NEW p \in Posts, pc[p] = "done"
  PROVE  pc'[p] = "done" /\ answer'[p] = answer[p]
<1>1. p \in Clients /\ p \notin Workers
  BY ClientKinds DEF Clients
<1>2. ~Local(p) /\ ~Commits(p)
  BY <1>1 DEF Local, Commits, Committed, Place, PlaceRefused, Save, SaveConflict, Stage, Abort
<1>3. ASSUME NEW c \in Clients, Local(c) \/ Commits(c) PROVE pc'[p] = "done" /\ answer'[p] = answer[p]
  BY <1>1, <1>2, <1>3, OthersKeep
<1>. QED
  BY <1>3, StepKinds, ReadersKeep

\* An order that is stored keeps the request that stored it.
LEMMA RowStable ==
  ASSUME Inductive, [Next]_vars, NEW o \in OrderIds, rows[o] # NoOrder
  PROVE  rows'[o] # NoOrder /\ rows'[o].post = rows[o].post
<1>1. ASSUME NEW c \in Clients, Commits(c) PROVE rows'[o] # NoOrder /\ rows'[o].post = rows[o].post
  <2>1. CASE o # OrderOf(c)
    BY <1>1, <2>1, CommitEffect
  <2>2. CASE o = OrderOf(c)
    <3>1. Committed(c)
      BY <1>1 DEF Commits
    <3>2. c \in Workers
      BY <2>2, <3>1, CommitFacts, ClientKinds DEF Inductive
    <3>3. agg[c] = [status |-> "shipped", version |-> 2, post |-> rows[o].post]
      BY <2>2, <3>1, <3>2, CommitFacts DEF Inductive
    <3>4. rows'[o] = agg[c]
      BY <1>1, <2>2, CommitEffect
    <3>. QED
      BY <3>3, <3>4 DEF NoOrder
  <2>. QED
    BY <2>1, <2>2
<1>2. ASSUME NEW c \in Clients, Local(c) PROVE rows' = rows
  BY <1>2, LocalKeeps
<1>. QED
  BY <1>1, <1>2, StepKinds, ReadersKeep DEF Inductive

\* The order of the entry a worker consumes is stored.
LEMMA OrderIsStored ==
  ASSUME Inductive, NEW w \in Workers, pc[w] # "idle"
  PROVE  /\ msg[w][1] \in OrderIds /\ OrderOf(w) = msg[w][1]
         /\ rows[msg[w][1]] # NoOrder
<1>1. msg[w] \in OrderIds \X Nat /\ msg[w][2] \in DOMAIN log[<<"placed", msg[w][1]>>]
  BY DEF Inductive, MessagesSound
<1>2. msg[w][1] \in OrderIds /\ <<"placed", msg[w][1]>> \in Topics \X OrderIds
  BY <1>1 DEF Topics
<1>3. \E i \in DOMAIN events : events[i].topic = "placed" /\ events[i].order = msg[w][1]
  BY <1>1, <1>2 DEF Inductive, LogSound
<1>4. w \in Clients
  BY DEF Clients
<1>. QED
  BY <1>2, <1>3, <1>4, ClientKinds DEF Inductive, OneEventPerTransition

LEMMA MessagesStep ==
  ASSUME Inductive, [Next]_vars
  PROVE  MessagesSound'
<1>0. TypeOK /\ MessagesSound
  BY DEF Inductive
<1>. SUFFICES ASSUME NEW w \in Workers, pc'[w] # "idle"
              PROVE  msg'[w] \in OrderIds \X Nat /\ msg'[w][2] \in DOMAIN log'[<<"placed", msg'[w][1]>>]
  BY DEF MessagesSound
<1>1. w \in Clients /\ w \notin Posts
  BY ClientKinds DEF Clients
<1>2. ASSUME pc[w] # "idle", msg'[w] = msg[w]
      PROVE  msg'[w] \in OrderIds \X Nat /\ msg'[w][2] \in DOMAIN log'[<<"placed", msg'[w][1]>>]
  <2>1. msg[w] \in OrderIds \X Nat /\ msg[w][2] \in DOMAIN log[<<"placed", msg[w][1]>>]
    BY <1>0, <1>2 DEF MessagesSound
  <2>2. <<"placed", msg[w][1]>> \in Topics \X OrderIds
    BY <2>1 DEF Topics
  <2>. QED
    BY <1>0, <1>2, <2>1, <2>2, LogGrows
<1>3. ASSUME NEW c \in Clients, Local(c) \/ Commits(c), c # w PROVE pc[w] # "idle" /\ msg'[w] = msg[w]
  BY <1>0, <1>1, <1>3, OthersKeep
<1>4. CASE Commits(w)
  BY <1>0, <1>2, <1>4 DEF Commits, Committed
<1>5. CASE Local(w)
  <2>1. ASSUME NEW o \in OrderIds, Receive(w, o)
        PROVE  msg'[w] \in OrderIds \X Nat /\ msg'[w][2] \in DOMAIN log'[<<"placed", msg'[w][1]>>]
    <3>1. msg'[w] = <<o, offset[o] + 1>> /\ log' = log
      BY <1>0, <2>1 DEF Receive, TypeOK
    <3>2. offset[o] \in Nat /\ log[<<"placed", o>>] \in Seq(Nat) /\ offset[o] < Len(log[<<"placed", o>>])
      BY <1>0, <2>1 DEF Receive, TypeOK, Topics
    <3>3. offset[o] + 1 \in DOMAIN log[<<"placed", o>>] /\ offset[o] + 1 \in Nat
      BY <3>2
    <3>. QED
      BY <3>1, <3>3
  <2>2. CASE Ack(w) \/ CrashWorker(w)
    BY <1>0, <1>1, <2>2 DEF Ack, CrashWorker, Goto, TypeOK
  <2>3. CASE Ship(w) \/ ShipAlreadyShipped(w) \/ Save(w) \/ SaveConflict(w) \/ Stage(w) \/ Abort(w)
    BY <1>2, <2>3 DEF Ship, ShipAlreadyShipped, Save, SaveConflict, Stage, Abort
  <2>. QED
    BY <1>1, <1>5, <2>1, <2>2, <2>3 DEF Local
<1>. QED
  BY <1>0, <1>2, <1>3, <1>4, <1>5, StepKinds, ReadersKeep

LEMMA RowsStep ==
  ASSUME Inductive, [Next]_vars
  PROVE  RowsSound'
<1>0. TypeOK /\ RowsSound
  BY DEF Inductive
<1>. SUFFICES ASSUME NEW o \in OrderIds, rows'[o] # NoOrder
              PROVE  /\ rows'[o].status \in {"placed", "shipped"}
                     /\ rows'[o].version = VersionOf(rows'[o].status)
                     /\ rows'[o].post \in Posts
                     /\ PostOrder[rows'[o].post] = o
                     /\ pc'[rows'[o].post] = "done"
                     /\ answer'[rows'[o].post] # "conflict"
  BY DEF RowsSound
<1>1. CASE rows'[o] = rows[o]
  BY <1>0, <1>1, DoneStays DEF RowsSound
<1>2. ASSUME NEW c \in Clients, Commits(c), rows'[o] # rows[o]
      PROVE  /\ rows'[o].status \in {"placed", "shipped"}
             /\ rows'[o].version = VersionOf(rows'[o].status)
             /\ rows'[o].post \in Posts
             /\ PostOrder[rows'[o].post] = o
             /\ pc'[rows'[o].post] = "done"
             /\ answer'[rows'[o].post] # "conflict"
  <2>1. o = OrderOf(c) /\ rows'[o] = agg[c] /\ Committed(c)
    BY <1>2, CommitEffect DEF Commits
  <2>2. CASE c \in Posts
    <3>1. agg[c] = [status |-> "placed", version |-> 1, post |-> c] /\ PostOrder[c] = o
      BY <2>1, <2>2, CommitFacts, ClientKinds DEF Inductive
    <3>2. pc'[c] = "done" /\ answer'[c] # "conflict"
      BY <1>0, <1>2, <2>2 DEF Commits, Succeed, Refuse, Respond, Goto, TypeOK
    <3>. QED
      BY <2>1, <2>2, <3>1, <3>2 DEF VersionOf
  <2>3. CASE c \in Workers
    <3>1. agg[c] = [status |-> "shipped", version |-> 2, post |-> rows[o].post] /\ rows[o].status = "placed"
      BY <2>1, <2>3, CommitFacts DEF Inductive
    <3>2. rows[o] # NoOrder
      BY <3>1 DEF NoOrder
    <3>3. rows[o].post \in Posts /\ PostOrder[rows[o].post] = o /\ pc[rows[o].post] = "done"
          /\ answer[rows[o].post] # "conflict"
      BY <1>0, <3>2 DEF RowsSound
    <3>4. pc'[rows[o].post] = "done" /\ answer'[rows[o].post] # "conflict"
      BY <1>0, <3>3, DoneStays
    <3>. QED
      BY <2>1, <3>1, <3>3, <3>4 DEF VersionOf
  <2>. QED
    BY <2>2, <2>3, ClientKinds
<1>3. ASSUME NEW c \in Clients, Local(c) PROVE rows' = rows
  BY <1>3, LocalKeeps
<1>. QED
  BY <1>0, <1>1, <1>2, <1>3, StepKinds, ReadersKeep

\* While a transaction holds the lock, no other one changes the row.
LEMMA LockedRow ==
  ASSUME Inductive, NEW d \in Clients, pc[d] \in {"saved", "staged"}, OrderOf(d) \in OrderIds,
         NEW c \in Clients, c # d, Commits(c)
  PROVE  rows'[OrderOf(d)] = rows[OrderOf(d)]
<1>1. pc[c] = "staged"
  BY DEF Commits, Committed
<1>2. OrderOf(c) # OrderOf(d)
  BY <1>1 DEF Inductive, Exclusive
<1>. QED
  BY <1>2, CommitEffect

LEMMA PostStep ==
  ASSUME Inductive, [Next]_vars, NEW p \in Posts
  PROVE  PostSound(p)'
<1>0. TypeOK /\ PostSound(p) /\ p \in Clients /\ p \notin Workers /\ OrderOf(p) = PostOrder[p]
      /\ PostOrder[p] \in OrderIds
  BY ClientKinds DEF Inductive, Clients
<1>a. rows[PostOrder[p]] # NoOrder => rows'[PostOrder[p]] # NoOrder
  BY <1>0, RowStable
<1>b. ASSUME pc'[p] = pc[p], agg'[p] = agg[p], answer'[p] = answer[p],
             pc[p] \in {"saved", "staged"} => rows'[PostOrder[p]] = rows[PostOrder[p]]
      PROVE  PostSound(p)'
  BY <1>0, <1>a, <1>b DEF PostSound
<1>1. ASSUME NEW c \in Clients, c # p, Local(c) PROVE PostSound(p)'
  BY <1>0, <1>1, <1>b, OthersKeep, LocalKeeps
<1>2. ASSUME NEW c \in Clients, c # p, Commits(c) PROVE PostSound(p)'
  BY <1>0, <1>2, <1>b, OthersKeep, LockedRow
<1>3. CASE Commits(p)
  <2>1. pc'[p] = "done"
    BY <1>0, <1>3 DEF Commits, Succeed, Refuse, Respond, Goto, TypeOK
  <2>2. rows'[PostOrder[p]] # NoOrder
    <3>1. agg[p] = [status |-> "placed", version |-> 1, post |-> p]
      BY <1>0, <1>3 DEF PostSound, Commits, Committed
    <3>2. rows'[PostOrder[p]] = agg[p]
      BY <1>0, <1>3, CommitEffect
    <3>. QED
      BY <3>1, <3>2 DEF NoOrder
  <2>. QED
    BY <2>1, <2>2 DEF PostSound
<1>4. CASE Local(p)
  <2>0. rows' = rows
    BY <1>0, <1>4, LocalKeeps
  <2>1. CASE Place(p)
    <3>1. pc'[p] = "ready" /\ answer' = answer /\ agg'[p] = [status |-> "placed", version |-> 1, post |-> p]
      BY <1>0, <2>1 DEF Place, Goto, TypeOK
    <3>. QED
      BY <1>0, <2>0, <2>1, <3>1 DEF PostSound, Place
  <2>2. CASE PlaceRefused(p)
    BY <1>0, <2>2 DEF PlaceRefused, Respond, Goto, TypeOK, PostSound
  <2>3. CASE Save(p)
    <3>1. pc'[p] = "saved" /\ answer' = answer /\ agg' = agg /\ pc[p] = "ready"
      BY <1>0, <2>3 DEF Save, Goto, TypeOK
    <3>2. agg[p] = [status |-> "placed", version |-> 1, post |-> p]
      BY <1>0, <3>1 DEF PostSound
    <3>3. rows[PostOrder[p]] = NoOrder \/ rows[PostOrder[p]].version = 0
      BY <1>0, <2>3, <3>2 DEF Save, VersionMatches
    <3>4. rows[PostOrder[p]] = NoOrder
      BY <1>0, <3>3 DEF Inductive, RowsSound, VersionOf
    <3>. QED
      BY <1>0, <2>0, <3>1, <3>2, <3>4 DEF PostSound
  <2>4. CASE SaveConflict(p)
    <3>1. pc'[p] = "done" /\ answer'[p] = "conflict" /\ rows[PostOrder[p]] # NoOrder
      BY <1>0, <2>4 DEF SaveConflict, Refuse, Respond, Goto, TypeOK, VersionMatches
    <3>. QED
      BY <2>0, <3>1 DEF PostSound
  <2>5. CASE Stage(p)
    BY <1>0, <2>0, <2>5 DEF Stage, Goto, TypeOK, PostSound
  <2>6. CASE Abort(p)
    <3>1. pc'[p] = "done" /\ answer'[p] = "error"
      BY <1>0, <2>6 DEF Abort, Refuse, Respond, Goto, TypeOK
    <3>. QED
      BY <3>1 DEF PostSound
  <2>. QED
    BY <1>0, <1>4, <2>1, <2>2, <2>3, <2>4, <2>5, <2>6 DEF Local
<1>5. CASE UNCHANGED <<rows, pc, agg, msg, answer>>
  BY <1>5, <1>b
<1>. QED
  BY <1>0, <1>1, <1>2, <1>3, <1>4, <1>5, StepKinds, ReadersKeep

LEMMA WorkerStep ==
  ASSUME Inductive, [Next]_vars, NEW w \in Workers
  PROVE  WorkerSound(w)'
<1>0. TypeOK /\ WorkerSound(w) /\ w \in Clients /\ w \notin Posts /\ RowsSound
  BY ClientKinds DEF Inductive, Clients
<1>b. ASSUME pc'[w] = pc[w], agg'[w] = agg[w], msg'[w] = msg[w],
             pc[w] \in {"saved", "staged"} => rows'[msg[w][1]] = rows[msg[w][1]]
      PROVE  WorkerSound(w)'
  <2>1. pc[w] \in {"ready", "saved", "staged"} => rows'[msg[w][1]].post = rows[msg[w][1]].post
    BY OrderIsStored, RowStable
  <2>. QED
    BY <1>0, <1>b, <2>1 DEF WorkerSound
<1>1. ASSUME NEW c \in Clients, c # w, Local(c) PROVE WorkerSound(w)'
  BY <1>0, <1>1, <1>b, OthersKeep, LocalKeeps
<1>2. ASSUME NEW c \in Clients, c # w, Commits(c) PROVE WorkerSound(w)'
  <2>1. pc[w] \in {"saved", "staged"} => rows'[msg[w][1]] = rows[msg[w][1]]
    BY <1>0, <1>2, LockedRow, OrderIsStored
  <2>. QED
    BY <1>0, <1>2, <2>1, <1>b, OthersKeep
<1>3. ASSUME pc'[w] \in {"idle", "load", "ack"} PROVE WorkerSound(w)'
  BY <1>3 DEF WorkerSound
<1>4. CASE Commits(w)
  BY <1>0, <1>3, <1>4 DEF Commits, Succeed, Refuse, Nack, Goto, TypeOK
<1>5. CASE Local(w)
  <2>0. rows' = rows
    BY <1>0, <1>5, LocalKeeps
  <2>1. CASE Ship(w)
    <3>1. OrderOf(w) = msg[w][1] /\ msg[w][1] \in OrderIds /\ rows[msg[w][1]] # NoOrder
      BY <2>1, OrderIsStored DEF Ship
    <3>2. rows[msg[w][1]].version = 1 /\ rows[msg[w][1]] \in Order
      BY <1>0, <2>1, <3>1 DEF Ship, RowsSound, VersionOf, TypeOK
    <3>3. pc'[w] = "ready" /\ msg' = msg
      BY <1>0, <2>1 DEF Ship, Goto, TypeOK
    <3>4. agg'[w] = [rows[msg[w][1]] EXCEPT !.status = "shipped", !.version = rows[msg[w][1]].version + 1]
      BY <1>0, <2>1, <3>1 DEF Ship, TypeOK
    <3>5. agg'[w] = [status |-> "shipped", version |-> 2, post |-> rows[msg[w][1]].post]
      <4>. DEFINE r == rows[msg[w][1]]
                  q == [r EXCEPT !.status = "shipped"]
      <4>1. q = [status |-> "shipped", version |-> 1, post |-> r.post]
        BY <3>2 DEF Order
      <4>2. agg'[w] = [q EXCEPT !.version = 2]
        BY <3>2, <3>4
      <4>3. [[status |-> "shipped", version |-> 1, post |-> r.post] EXCEPT !.version = 2]
              = [status |-> "shipped", version |-> 2, post |-> r.post]
        OBVIOUS
      <4>. HIDE DEF q
      <4>. QED
        BY <4>1, <4>2, <4>3
    <3>. QED
      BY <2>0, <3>3, <3>5 DEF WorkerSound
  <2>2. CASE Save(w)
    <3>1. pc'[w] = "saved" /\ msg' = msg /\ agg' = agg /\ pc[w] = "ready"
      BY <1>0, <2>2 DEF Save, Goto, TypeOK
    <3>2. OrderOf(w) = msg[w][1] /\ msg[w][1] \in OrderIds /\ rows[msg[w][1]] # NoOrder
      BY <3>1, OrderIsStored
    <3>3. agg[w] = [status |-> "shipped", version |-> 2, post |-> rows[msg[w][1]].post]
      BY <1>0, <3>1 DEF WorkerSound
    <3>4. rows[msg[w][1]].version = 1
      BY <2>2, <3>2, <3>3 DEF Save, VersionMatches
    <3>5. rows[msg[w][1]].status = "placed"
      BY <1>0, <3>2, <3>4 DEF RowsSound, VersionOf
    <3>. QED
      BY <2>0, <3>1, <3>3, <3>5 DEF WorkerSound
  <2>3. CASE Stage(w)
    BY <1>0, <2>0, <2>3 DEF Stage, Goto, TypeOK, WorkerSound
  <2>4. CASE \/ ShipAlreadyShipped(w) \/ Ack(w) \/ CrashWorker(w) \/ SaveConflict(w) \/ Abort(w)
             \/ \E o \in OrderIds : Receive(w, o)
    <3>1. pc'[w] \in {"idle", "load", "ack"}
      BY <1>0, <2>4 DEF ShipAlreadyShipped, Ack, CrashWorker, SaveConflict, Abort, Receive, Refuse, Nack,
                        Goto, TypeOK
    <3>. QED
      BY <3>1, <1>3
  <2>. QED
    BY <1>0, <1>5, <2>1, <2>2, <2>3, <2>4 DEF Local
<1>6. CASE UNCHANGED <<rows, pc, agg, msg, answer>>
  BY <1>6, <1>b
<1>. QED
  BY <1>0, <1>1, <1>2, <1>4, <1>5, <1>6, StepKinds, ReadersKeep

LEMMA ExclusiveStep ==
  ASSUME Inductive, [Next]_vars
  PROVE  Exclusive'
<1>0. TypeOK /\ Exclusive
  BY DEF Inductive
<1>1. ASSUME NEW c \in Clients, Local(c) \/ Commits(c) PROVE Exclusive'
  <2>1. \A d \in Clients : d # c => pc'[d] = pc[d] /\ OrderOf(d)' = OrderOf(d)
    BY <1>0, <1>1, OthersKeep, ClientKinds DEF OrderOf
  <2>2. CASE Save(c) \/ Stage(c)
    <3>1. OrderOf(c)' = OrderOf(c)
      BY <2>2 DEF Save, Stage, OrderOf
    <3>2. \A d \in Clients : d # c /\ pc[d] \in {"saved", "staged"} => OrderOf(d) # OrderOf(c)
      BY <1>0, <2>2 DEF Save, Stage, RowLocked, Exclusive
    <3>. QED
      BY <1>0, <2>1, <3>1, <3>2 DEF Exclusive
  <2>3. CASE ~(Save(c) \/ Stage(c))
    <3>1. pc'[c] \notin {"saved", "staged"}
      BY <1>0, <1>1, <2>3 DEF Local, Commits, Place, PlaceRefused, Ship, ShipAlreadyShipped, Ack, CrashWorker,
           Receive, SaveConflict, Abort, Succeed, Refuse, Respond, Nack, Goto, TypeOK
    <3>. QED
      BY <1>0, <2>1, <3>1 DEF Exclusive
  <2>. QED
    BY <2>2, <2>3
<1>2. CASE UNCHANGED <<rows, pc, agg, msg, answer>>
  BY <1>0, <1>2 DEF Exclusive, OrderOf
<1>. QED
  BY <1>0, <1>1, <1>2, StepKinds, ReadersKeep

LEMMA CreatedStep ==
  ASSUME Inductive, [Next]_vars
  PROVE  CreatedIsStored'
<1>0. TypeOK /\ CreatedIsStored /\ RowsSound
  BY DEF Inductive
<1>. SUFFICES ASSUME NEW p \in Posts
              PROVE  /\ answer'[p] = "created" => rows'[PostOrder[p]].post = p
                     /\ answer'[p] = "conflict" => rows'[PostOrder[p]].post # p
  BY DEF CreatedIsStored
<1>1. p \in Clients /\ p \notin Workers /\ PostOrder[p] \in OrderIds /\ OrderOf(p) = PostOrder[p]
  BY ClientKinds DEF Clients
<1>2. CASE answer'[p] = answer[p]
  <2>1. answer[p] \in {"created", "conflict"} => rows[PostOrder[p]] # NoOrder
    BY DEF Inductive, PostSound
  <2>. QED
    BY <1>0, <1>1, <1>2, <2>1, RowStable DEF CreatedIsStored
<1>3. CASE Commits(p)
  <2>1. rows'[PostOrder[p]] = agg[p]
    BY <1>1, <1>3, CommitEffect
  <2>2. agg[p].post = p
    <3>1. pc[p] = "staged" /\ PostSound(p)
      BY <1>3 DEF Commits, Committed, Inductive
    <3>2. agg[p] = [status |-> "placed", version |-> 1, post |-> p]
      BY <3>1 DEF PostSound
    <3>. QED
      BY <3>2
  <2>3. answer'[p] # "conflict"
    BY <1>0, <1>3 DEF Commits, Succeed, Refuse, Respond, TypeOK
  <2>. QED
    BY <2>1, <2>2, <2>3
<1>4. CASE Local(p)
  <2>1. CASE SaveConflict(p)
    <3>1. answer'[p] = "conflict" /\ pc[p] = "ready" /\ rows' = rows /\ rows[PostOrder[p]] # NoOrder
      BY <1>0, <1>1, <2>1 DEF SaveConflict, Refuse, Respond, TypeOK, VersionMatches
    <3>2. pc[rows[PostOrder[p]].post] = "done"
      BY <1>0, <1>1, <3>1 DEF RowsSound
    <3>3. rows[PostOrder[p]].post # p
      BY <3>1, <3>2
    <3>. QED
      BY <3>1, <3>3
  <2>2. CASE PlaceRefused(p) \/ Abort(p)
    BY <1>0, <2>2 DEF PlaceRefused, Abort, Refuse, Respond, TypeOK
  <2>3. CASE Place(p) \/ Save(p) \/ Stage(p)
    BY <1>2, <2>3 DEF Place, Save, Stage
  <2>. QED
    BY <1>1, <1>4, <2>1, <2>2, <2>3 DEF Local
<1>5. ASSUME NEW c \in Clients, c # p, Local(c) \/ Commits(c) PROVE answer'[p] = answer[p]
  BY <1>0, <1>1, <1>5, OthersKeep
<1>. QED
  BY <1>0, <1>2, <1>3, <1>4, <1>5, StepKinds, ReadersKeep

LEMMA FollowStep ==
  ASSUME Inductive, [Next]_vars
  PROVE  EventsFollowRows'
<1>0. TypeOK /\ LogSound /\ EventsFollowRows /\ EventsSound /\ OneEventPerTransition /\ RowsSound
  BY DEF Inductive
<1>1. TypeOK' /\ LogSound' /\ EventsSound' /\ OneEventPerTransition'
  BY TypeStep, LogStep, EventsStep
<1>2. RowsSound' => \A i \in DOMAIN events' : events'[i].version <= rows'[events'[i].order].version
  <2>. SUFFICES ASSUME RowsSound', NEW i \in DOMAIN events'
                PROVE  events'[i].version <= rows'[events'[i].order].version
    OBVIOUS
  <2>1. events'[i] \in EventRecord
    BY <1>1 DEF TypeOK
  <2>2. events'[i].topic \in {"placed", "shipped"} /\ events'[i].order \in OrderIds
    BY <2>1 DEF EventRecord, Topics
  <2>3. CASE events'[i].topic = "placed"
    <3>1. rows'[events'[i].order] # NoOrder
      BY <1>1, <2>2, <2>3 DEF OneEventPerTransition
    <3>. QED
      BY <1>1, <2>2, <2>3, <3>1 DEF EventsSound, RowsSound, VersionOf
  <2>4. CASE events'[i].topic = "shipped"
    <3>1. rows'[events'[i].order].status = "shipped"
      BY <1>1, <2>2, <2>4 DEF OneEventPerTransition
    <3>. QED
      BY <1>1, <2>2, <2>4, <3>1 DEF EventsSound, RowsSound, VersionOf, NoOrder
  <2>. QED
    BY <2>2, <2>3, <2>4
<1>3. RowsSound' => \A k \in DOMAIN log' : \A i \in DOMAIN log'[k] : events'[log'[k][i]].version <= rows'[k[2]].version
  BY <1>1, <1>2 DEF TypeOK, LogSound
<1>4. \A o \in OrderIds : view'[o].version <= rows'[o].version
  <2>1. CASE UNCHANGED <<rows, view>>
    BY <1>0, <2>1 DEF EventsFollowRows
  <2>2. ASSUME NEW c \in Clients, Commits(c), NEW o \in OrderIds PROVE view'[o].version <= rows'[o].version
    <3>0. view' = view /\ Committed(c)
      BY <2>2 DEF Commits
    <3>1. CASE o # OrderOf(c)
      BY <1>0, <2>2, <3>0, <3>1, CommitEffect DEF EventsFollowRows
    <3>2. CASE o = OrderOf(c)
      <4>1. rows[o].version \in Nat /\ view[o].version \in Nat /\ view[o].version <= rows[o].version
        BY <1>0 DEF EventsFollowRows, TypeOK, Order
      <4>2. rows'[o].version = agg[c].version
        BY <2>2, <3>2, CommitEffect
      <4>3. CASE c \in Posts
        <5>1. rows[o] = NoOrder /\ agg[c] = [status |-> "placed", version |-> 1, post |-> c]
          BY <3>0, <3>2, <4>3, CommitFacts DEF Inductive
        <5>2. rows[o].version = 0 /\ agg[c].version = 1
          BY <5>1 DEF NoOrder
        <5>. QED
          BY <3>0, <4>1, <4>2, <5>2
      <4>4. CASE c \in Workers
        <5>1. /\ rows[o].status = "placed"
              /\ agg[c] = [status |-> "shipped", version |-> 2, post |-> rows[o].post]
          BY <3>0, <3>2, <4>4, CommitFacts DEF Inductive
        <5>2. rows[o].version = 1
          BY <5>1 DEF Inductive, RowsSound, VersionOf, NoOrder
        <5>3. agg[c].version = 2
          BY <5>1
        <5>. QED
          BY <3>0, <4>1, <4>2, <5>2, <5>3
      <4>. QED
        BY <4>3, <4>4, ClientKinds
    <3>. QED
      BY <3>1, <3>2
  <2>3. ASSUME NEW k \in Topics \X OrderIds, Reads(k), NEW o \in OrderIds
        PROVE  view'[o].version <= rows'[o].version
    <3>1. rows' = rows /\ seen[k] + 1 \in DOMAIN log[k] /\ k[2] \in OrderIds
      BY <1>0, <2>3 DEF Reads, Project, TypeOK
    <3>2. view'[o] = IF o = k[2] THEN Projected(view[o], events[log[k][seen[k] + 1]]) ELSE view[o]
      BY <1>0, <2>3, <3>1 DEF Reads, Project, TypeOK
    <3>3. events[log[k][seen[k] + 1]].version <= rows[k[2]].version
      BY <1>0, <3>1 DEF EventsFollowRows, TypeOK
    <3>. QED
      BY <1>0, <3>1, <3>2, <3>3 DEF EventsFollowRows, Projected
  <2>4. ASSUME NEW c \in Clients, Local(c) PROVE UNCHANGED <<rows, view>>
    BY <2>4, LocalKeeps
  <2>5. ASSUME NEW e \in DOMAIN events, Publish(e) PROVE UNCHANGED <<rows, view>>
    BY <2>5 DEF Publish
  <2>. QED
    BY <1>0, <2>1, <2>2, <2>3, <2>4, <2>5, StepKinds DEF vars
<1>. QED
  BY <1>3, <1>4, RowsStep DEF EventsFollowRows

-----------------------------------------------------------------------------
(* Theorems                                                                *)

LEMMA InductiveInit == Init => Inductive
<1>. SUFFICES ASSUME Init PROVE Inductive
  OBVIOUS
<1>1. NoOrder \in Order
  BY DEF NoOrder, Order
<1>2. TypeOK
  BY <1>1, OrdersAssumption DEF Init, TypeOK, Clients, PostLabels, WorkerLabels
<1>3. LogSound /\ EventsSound /\ CausationChain
  BY DEF Init, LogSound, EventsSound, CausationChain
<1>4. MessagesSound /\ RowsSound
  BY OrdersAssumption DEF Init, MessagesSound, RowsSound, Clients
<1>5. ASSUME NEW p \in Posts PROVE PostSound(p)
  BY DEF Init, PostSound, Clients
<1>6. ASSUME NEW w \in Workers PROVE WorkerSound(w)
  BY OrdersAssumption DEF Init, WorkerSound, Clients
<1>7. Exclusive
  BY DEF Init, Exclusive
<1>8. OneEventPerTransition
  BY DEF Init, OneEventPerTransition, NoOrder
<1>9. CreatedIsStored
  BY DEF Init, CreatedIsStored
<1>10. EventsFollowRows
  BY DEF Init, EventsFollowRows, NoOrder
<1>. QED
  BY <1>2, <1>3, <1>4, <1>5, <1>6, <1>7, <1>8, <1>9, <1>10 DEF Inductive

LEMMA InductiveStep == Inductive /\ [Next]_vars => Inductive'
<1>. SUFFICES ASSUME Inductive, [Next]_vars PROVE Inductive'
  OBVIOUS
<1>1. \A p \in Posts : PostSound(p)'
  BY PostStep
<1>2. \A w \in Workers : WorkerSound(w)'
  BY WorkerStep
<1>. QED
  BY <1>1, <1>2, TypeStep, LogStep, MessagesStep, EventsStep, RowsStep, ExclusiveStep, CreatedStep, FollowStep
     DEF Inductive

LEMMA InductiveHolds == Spec => []Inductive
BY InductiveInit, InductiveStep, PTL DEF Spec

\* Racing requests for one id, redeliveries, takeovers and lost commits leave
\* one OrderPlaced per stored order and one OrderShipped per shipped one: the
\* version guard of Save and the transaction around Save and Stage at work.
THEOREM TransitionsHaveOneEvent == Spec => []OneEventPerTransition
BY InductiveHolds, PTL DEF Inductive

\* The broker and the projection never run ahead of the orders table.
THEOREM RowsComeFirst == Spec => []EventsFollowRows
BY InductiveHolds, PTL DEF Inductive

\* 201 means stored for good, 409 means that this request stored nothing.
THEOREM AnswersAreTrue == Spec => []CreatedIsStored
BY InductiveHolds, PTL DEF Inductive

\* Every OrderShipped names the OrderPlaced of its order as its cause.
THEOREM CausesAreRecorded == Spec => []CausationChain
BY InductiveHolds, PTL DEF Inductive
=============================================================================
