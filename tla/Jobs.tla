-------------------------------- MODULE Jobs --------------------------------
(***************************************************************************)
(* Background jobs over asynq (jobs/asynq): producers Enqueue, workers     *)
(* Register their handlers and Run until their context is cancelled.       *)
(* asynq and Redis are external: a task waits until it is due, a worker    *)
(* leases it, a failed attempt is retried MaxRetry times and then archived *)
(* (at once when the handler asks for that), and a task whose lease ran    *)
(* out is recovered as a failed attempt.  A worker may crash, stall past   *)
(* its lease or fail to hand tasks back.                                   *)
(***************************************************************************)
EXTENDS Integers, Sequences, FiniteSets, SequencesExt

CONSTANTS Jobs,         \* the jobs, each submitted once
          Requests,     \* what may be submitted: job, type (a sequence of words,
                        \* <<>> when empty), delay (ProcessAt, counted from
                        \* Enqueue; 0 or less means at once)
          Handled,      \* the types that have a handler
          Workers,      \* the worker processes
          Concurrency,  \* WithConcurrency
          MaxRetry,     \* WithMaxRetry
          Horizon,      \* WithSchedulingHorizon
          RetryDelays,  \* what WithRetryDelay may return
          MaxFaults,    \* bound on faults
          MaxStops      \* bound on cancellations

\* validateEnqueuer, validateWorker
ASSUME JobsAssumption ==
  /\ \A r \in Requests : r.job \in Jobs /\ r.delay \in Int
  /\ Concurrency \in Nat \ {0}
  /\ MaxRetry \in Nat
  /\ Horizon \in Nat \ {0}
  /\ RetryDelays \subseteq Nat
  /\ MaxFaults \in Nat /\ MaxStops \in Nat

VARIABLES task,      \* asynq's record of each job
          answer,    \* what Enqueue returned
          due,       \* the time left until ProcessAt
          pc,        \* where each worker's Run is
          cancelled, \* Run's context, and so that of its handlers
          handlers,  \* Worker.handlers
          runs,      \* the jobs whose handler a worker is in
          done,      \* how often a handler returned nil in time
          failed,    \* how often an attempt failed
          skipped,   \* jobs whose handler returned an error wrapping SkipRetry
          early,     \* jobs handled before ProcessAt or without a handler
          faults, stops

jobVars == <<task, answer, due, done, failed, skipped, early>>
workerVars == <<pc, cancelled, handlers, runs>>
vars == <<jobVars, workerVars, faults, stops>>

Nobody == "nobody"

NoTask == [st |-> "none", type |-> <<>>, wait |-> 0, retried |-> 0, by |-> Nobody]

Init ==
  /\ task = [j \in Jobs |-> NoTask]
  /\ answer = [j \in Jobs |-> "none"]
  /\ due = [j \in Jobs |-> 0]
  /\ pc = [w \in Workers |-> "new"]
  /\ cancelled = [w \in Workers |-> FALSE]
  /\ handlers = [w \in Workers |-> {}]
  /\ runs = [w \in Workers |-> {}]
  /\ done = [j \in Jobs |-> 0]
  /\ failed = [j \in Jobs |-> 0]
  /\ skipped = {}
  /\ early = {}
  /\ faults = 0
  /\ stops = 0

Fault == faults < MaxFaults /\ faults' = faults + 1

-----------------------------------------------------------------------------
(* Enqueue                                                                 *)

Malformed(r) == r.type = <<>> \/ r.delay > Horizon

Delay(r) == IF r.delay > 0 THEN r.delay ELSE 0

\* Mutation: ProcessAt is checked but not passed on.
SubmittedAtOnce(r) == [NoTask EXCEPT !.st = "pending", !.type = r.type]

Submitted(r) == [st |-> "pending", type |-> r.type, wait |-> Delay(r), retried |-> 0, by |-> Nobody]

Answer(r, a) == answer[r.job] = "none" /\ answer' = [answer EXCEPT ![r.job] = a]

\* The checks before the backend: arguments first, then the context.
EnqueueRefused(r) ==
  /\ Answer(r, IF Malformed(r) THEN "invalid" ELSE "ctx")
  /\ UNCHANGED <<task, due, done, failed, skipped, early, workerVars, faults, stops>>

\* The backend stores the task; its answer may be lost, which is reported as
\* an error of the context or of the connection.
EnqueueStored(r) ==
  /\ ~Malformed(r)
  /\ \/ Answer(r, "ok") /\ UNCHANGED faults
     \/ \E a \in {"ctx", "error"} : Answer(r, a) /\ Fault
  /\ task' = [task EXCEPT ![r.job] = Submitted(r)]
  /\ due' = [due EXCEPT ![r.job] = Delay(r)]
  /\ UNCHANGED <<done, failed, skipped, early, workerVars, stops>>

EnqueueUnreachable(r) ==
  /\ ~Malformed(r)
  /\ Answer(r, "error")
  /\ Fault
  /\ UNCHANGED <<task, due, done, failed, skipped, early, workerVars, stops>>

-----------------------------------------------------------------------------
(* Worker                                                                  *)

\* A type is registered once, a second handler for it is refused; the package
\* comment asks for all of it to happen during wiring.
Register(w, type) ==
  /\ pc[w] = "new"
  /\ type \notin handlers[w]
  /\ handlers' = [handlers EXCEPT ![w] = @ \cup {type}]
  /\ UNCHANGED <<jobVars, pc, cancelled, runs, faults, stops>>

Goto(w, l) == pc' = [pc EXCEPT ![w] = l]

Run(w) ==
  /\ pc[w] = "new"
  /\ Goto(w, IF cancelled[w] THEN "nil" ELSE "probe")
  /\ UNCHANGED <<jobVars, cancelled, handlers, runs, faults, stops>>

\* The ping fails when Redis does not answer, and when the context ends;
\* otherwise the server starts, or fails to.
ProbeReachable(w) ==
  /\ pc[w] = "probe"
  /\ \/ ~cancelled[w] /\ Goto(w, "running") /\ UNCHANGED faults
     \/ cancelled[w] /\ Goto(w, "error") /\ UNCHANGED faults
     \/ Goto(w, "error") /\ Fault
  /\ UNCHANGED <<jobVars, cancelled, handlers, runs, stops>>

Cancel(w) ==
  /\ pc[w] \in {"new", "probe", "running"}
  /\ ~cancelled[w]
  /\ stops < MaxStops
  /\ stops' = stops + 1
  /\ cancelled' = [cancelled EXCEPT ![w] = TRUE]
  /\ UNCHANGED <<jobVars, pc, handlers, runs, faults>>

BeginShutdown(w) ==
  /\ pc[w] = "running"
  /\ cancelled[w]
  /\ Goto(w, "drain")
  /\ UNCHANGED <<jobVars, cancelled, handlers, runs, faults, stops>>

\* Mutation: Run returns the error of its context.
RunReturnsCtxErr(w) ==
  /\ pc[w] = "drain"
  /\ runs[w] = {}
  /\ Goto(w, "error")
  /\ UNCHANGED <<jobVars, cancelled, handlers, runs, faults, stops>>

\* Shutdown has waited for the handlers or given up on them.
RunReturns(w) ==
  /\ pc[w] = "drain"
  /\ runs[w] = {}
  /\ Goto(w, "nil")
  /\ UNCHANGED <<jobVars, cancelled, handlers, runs, faults, stops>>

\* A new process takes the place of one that ended.
Replace(w) ==
  /\ pc[w] \in {"nil", "error", "crashed"}
  /\ Goto(w, "new")
  /\ cancelled' = [cancelled EXCEPT ![w] = FALSE]
  /\ handlers' = [handlers EXCEPT ![w] = {}]
  /\ UNCHANGED <<jobVars, runs, faults, stops>>

-----------------------------------------------------------------------------
(* Attempts                                                                *)

\* root: exact match only.
Dispatches(w, j) == task[j].type \in handlers[w]

\* Mutation: the two halves are given different queues.
LeaseOtherQueue(w, j) == pc[w] = "nowhere" /\ UNCHANGED vars

Lease(w, j) ==
  /\ pc[w] = "running"
  /\ task[j].st = "pending"
  /\ task[j].wait = 0
  /\ j \notin runs[w]
  /\ Cardinality(runs[w]) < Concurrency
  /\ task' = [task EXCEPT ![j].st = "active", ![j].by = w]
  /\ runs' = [runs EXCEPT ![w] = @ \cup {j}]
  /\ early' = IF Dispatches(w, j) /\ (due[j] > 0 \/ task[j].type \notin handlers[w])
              THEN early \cup {j} ELSE early
  /\ UNCHANGED <<answer, due, done, failed, skipped, pc, cancelled, handlers, faults, stops>>

\* w still holds the lease on j: no recovery gave the task to somebody else.
Holder(w, j) == j \in runs[w] /\ task[j].st = "active" /\ task[j].by = w

Leaves(w, j) == runs' = [runs EXCEPT ![w] = @ \ {j}]

\* Mutation: an unhandled type is acknowledged.
SucceedsUnhandled(w, j) == TRUE

Succeeds(w, j) == Dispatches(w, j)

Complete(w, j) ==
  /\ Holder(w, j)
  /\ Succeeds(w, j)
  /\ task' = [task EXCEPT ![j].st = "completed", ![j].by = Nobody]
  /\ done' = IF Dispatches(w, j) THEN [done EXCEPT ![j] = @ + 1] ELSE done
  /\ Leaves(w, j)
  /\ UNCHANGED <<answer, due, failed, skipped, early, pc, cancelled, handlers, faults, stops>>

Exhausted(t) == t.retried >= MaxRetry

Archive(j) == task' = [task EXCEPT ![j].st = "archived", ![j].by = Nobody]

\* A failed attempt: retried later, or archived.
Attempt(j) ==
  /\ \/ Exhausted(task[j]) /\ Archive(j)
     \/ /\ ~Exhausted(task[j])
        /\ \E d \in RetryDelays :
             task' = [task EXCEPT ![j].st = "pending", ![j].wait = d, ![j].retried = @ + 1, ![j].by = Nobody]
  /\ failed' = [failed EXCEPT ![j] = @ + 1]
  /\ UNCHANGED skipped

\* No handler, an error, a panic, the task timeout or a cancelled context.
Fail(w, j) ==
  /\ Holder(w, j)
  /\ Attempt(j)
  /\ Leaves(w, j)
  /\ \/ (~Dispatches(w, j) \/ cancelled[w]) /\ UNCHANGED faults
     \/ Fault
  /\ UNCHANGED <<answer, due, done, early, pc, cancelled, handlers, stops>>

\* The handler's error wraps asynq.SkipRetry; root returns it as it is.
FailForGood(w, j) ==
  /\ Holder(w, j)
  /\ Dispatches(w, j)
  /\ Fault
  /\ Archive(j)
  /\ failed' = [failed EXCEPT ![j] = @ + 1]
  /\ skipped' = skipped \cup {j}
  /\ Leaves(w, j)
  /\ UNCHANGED <<answer, due, done, early, pc, cancelled, handlers, stops>>

\* A stalled attempt ends after its lease ran out: its result is ignored.
Stale(w, j) ==
  /\ j \in runs[w]
  /\ ~Holder(w, j)
  /\ Leaves(w, j)
  /\ UNCHANGED <<jobVars, pc, cancelled, handlers, faults, stops>>

\* The drain ran out of time: asynq hands the task back, or fails to.
Abort(w, j) ==
  /\ pc[w] = "drain"
  /\ Holder(w, j)
  /\ Leaves(w, j)
  /\ \/ task' = [task EXCEPT ![j].st = "pending", ![j].by = Nobody] /\ UNCHANGED faults
     \/ UNCHANGED task /\ Fault
  /\ UNCHANGED <<answer, due, done, failed, skipped, early, pc, cancelled, handlers, stops>>

Crash(w) ==
  /\ pc[w] \in {"running", "drain"}
  /\ Fault
  /\ Goto(w, "crashed")
  /\ runs' = [runs EXCEPT ![w] = {}]
  /\ UNCHANGED <<jobVars, cancelled, handlers, stops>>

Abandoned(j) == \A w \in Workers : j \notin runs[w]

\* The recoverer finds a lease that ran out: nobody works on the task, or the
\* worker that does has stalled.
Recover(j) ==
  /\ task[j].st = "active"
  /\ IF Abandoned(j) THEN UNCHANGED faults ELSE Fault
  /\ Attempt(j)
  /\ UNCHANGED <<answer, due, done, early, workerVars, stops>>

Tick ==
  /\ \E j \in Jobs : task[j].wait > 0 \/ due[j] > 0
  /\ task' = [j \in Jobs |-> [task[j] EXCEPT !.wait = IF @ > 0 THEN @ - 1 ELSE 0]]
  /\ due' = [j \in Jobs |-> IF due[j] > 0 THEN due[j] - 1 ELSE 0]
  /\ UNCHANGED <<answer, done, failed, skipped, early, workerVars, faults, stops>>

-----------------------------------------------------------------------------
Enqueue(r) == EnqueueRefused(r) \/ EnqueueStored(r) \/ EnqueueUnreachable(r)

Lifecycle(w) ==
  \/ Run(w) \/ ProbeReachable(w)
  \/ BeginShutdown(w) \/ RunReturns(w) \/ Replace(w)

Process(w, j) == Complete(w, j) \/ Fail(w, j) \/ FailForGood(w, j) \/ Stale(w, j) \/ Abort(w, j)

Next ==
  \/ \E r \in Requests : Enqueue(r)
  \/ \E j \in Jobs : Recover(j)
  \/ \E w \in Workers :
       \/ Lifecycle(w) \/ Cancel(w) \/ Crash(w)
       \/ \E type \in Handled : Register(w, type)
       \/ \E j \in Jobs : Lease(w, j) \/ Process(w, j)
  \/ Tick

Spec == Init /\ [][Next]_vars

\* Workers run and are replaced, they poll, handlers return or time out, the
\* recoverer polls and time passes.
Fairness ==
  /\ \A w \in Workers : WF_vars(Lifecycle(w)) /\ WF_vars(\E j \in Jobs : Process(w, j))
  /\ WF_vars(\E w \in Workers, j \in Jobs : Lease(w, j))
  /\ WF_vars(\E j \in Jobs : Abandoned(j) /\ Recover(j))
  /\ WF_vars(Tick)

FairSpec == Spec /\ Fairness

-----------------------------------------------------------------------------
(* Properties                                                              *)

\* A handler runs only for jobs of exactly its type, never before ProcessAt,
\* whatever was retried, recovered or handed back in between, and a refused
\* job never reaches the queue.
DeliveredAsAsked ==
  /\ early = {}
  /\ \A j \in Jobs : answer[j] = "invalid" => task[j] = NoTask

\* "never acked as success": a job is completed only by a handler of its type
\* that returned nil while it held the lease, and once at most.  It is archived
\* by the failure after MaxRetry retries (one attempt more than WithMaxRetry's
\* comment allows, as asynq.MaxRetry counts retries), be it an error, a missing
\* handler or a lease that ran out, and earlier only if its handler asked for
\* that; handing a task back at shutdown costs no retry.
OutcomesEarned ==
  \A j \in Jobs :
    /\ done[j] = IF task[j].st = "completed" THEN 1 ELSE 0
    /\ task[j].st = "archived" => failed[j] = MaxRetry + 1 \/ (j \in skipped /\ failed[j] <= MaxRetry)
    /\ j \in skipped => task[j].st = "archived"
    /\ task[j].st \in {"pending", "active"} => failed[j] = task[j].retried

\* "Cancellation endpoint: commit to nil": once the server has started, a
\* cancelled Run returns, and it returns nil unless the process dies.
RunEndsNil ==
  \A w \in Workers : pc[w] = "running" /\ cancelled[w] ~> pc[w] \in {"nil", "crashed"}

\* "not silently dropped": a stored job is completed or archived in the end,
\* whatever was cancelled, crashed, stalled or not handed back.
EventuallyResolved ==
  \A j \in Jobs : task[j].st # "none" ~> task[j].st \in {"completed", "archived"}
=============================================================================
