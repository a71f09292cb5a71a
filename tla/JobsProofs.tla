----------------------------- MODULE JobsProofs -----------------------------
(***************************************************************************)
(* Proofs about Jobs for any set of jobs, requests and workers, any retry  *)
(* limit and retry delays, and any number of faults and cancellations.     *)
(***************************************************************************)
EXTENDS Jobs, TLAPS

-----------------------------------------------------------------------------
(* The inductive invariant                                                 *)

States == {"none", "pending", "active", "completed", "archived"}

Types == {<<>>} \cup {r.type : r \in Requests}

Task == [st : States, type : Types, wait : Nat, retried : Nat, by : Workers \cup {Nobody}]

TypeOK ==
  /\ task \in [Jobs -> Task]
  /\ answer \in [Jobs -> {"none", "ok", "invalid", "ctx", "error"}]
  /\ due \in [Jobs -> Nat]
  /\ done \in [Jobs -> Nat]
  /\ failed \in [Jobs -> Nat]

\* asynq never lets a task go before ProcessAt: what is left of the delay is
\* at least what is left until ProcessAt, and nothing is left once leased.
Punctual(j) ==
  /\ due[j] <= task[j].wait
  /\ task[j].st = "active" => task[j].wait = 0

\* A job that was not answered, or was refused, was not stored.
RefusedIsAbsent(j) == answer[j] \in {"none", "invalid"} => task[j] = NoTask

\* The retry count of a task that is still alive counts its failed attempts
\* and stays within the limit; a task whose handler gave up is archived.
RetriesCounted(j) ==
  /\ task[j].st = "none" => failed[j] = 0
  /\ task[j].st \in {"pending", "active"} => failed[j] = task[j].retried /\ task[j].retried <= MaxRetry
  /\ task[j].st = "archived" => failed[j] = MaxRetry + 1 \/ (j \in skipped /\ failed[j] <= MaxRetry)
  /\ j \in skipped => task[j].st = "archived"

DoneOnce(j) == done[j] = IF task[j].st = "completed" THEN 1 ELSE 0

JobSound(j) == Punctual(j) /\ RefusedIsAbsent(j) /\ RetriesCounted(j) /\ DoneOnce(j)

Inductive ==
  /\ TypeOK
  /\ early = {}
  /\ \A j \in Jobs : JobSound(j)

-----------------------------------------------------------------------------
(* What a step does to one job                                             *)

SameSkip(j) == j \in skipped' <=> j \in skipped

Untouched(j) ==
  /\ SameSkip(j)
  /\ task'[j] = task[j] /\ answer'[j] = answer[j] /\ due'[j] = due[j]
  /\ done'[j] = done[j] /\ failed'[j] = failed[j]

\* Enqueue answers without storing anything.
Answered(j) ==
  /\ SameSkip(j)
  /\ answer[j] = "none"
  /\ task'[j] = task[j] /\ due'[j] = due[j] /\ done'[j] = done[j] /\ failed'[j] = failed[j]

\* Enqueue stores the task.
Stored(j) ==
  /\ SameSkip(j)
  /\ answer[j] = "none" /\ answer'[j] \notin {"none", "invalid"}
  /\ task'[j].st = "pending" /\ task'[j].wait = due'[j] /\ task'[j].retried = 0
  /\ done'[j] = done[j] /\ failed'[j] = failed[j]

\* A worker leases the task, completes it or hands it back.
Moved(j) ==
  /\ SameSkip(j)
  /\ \/ task[j].st = "pending" /\ task'[j].st = "active" /\ task[j].wait = 0 /\ done'[j] = done[j]
     \/ task[j].st = "active" /\ task'[j].st = "pending" /\ done'[j] = done[j]
     \/ task[j].st = "active" /\ task'[j].st = "completed" /\ done'[j] = done[j] + 1
  /\ task'[j].wait = task[j].wait /\ task'[j].retried = task[j].retried
  /\ answer'[j] = answer[j] /\ due'[j] = due[j] /\ failed'[j] = failed[j]

\* An attempt failed.
Failed(j) ==
  /\ SameSkip(j)
  /\ task[j].st = "active"
  /\ \/ /\ task[j].retried >= MaxRetry
        /\ task'[j].st = "archived" /\ task'[j].wait = task[j].wait
     \/ /\ task[j].retried < MaxRetry
        /\ task'[j].st = "pending" /\ task'[j].retried = task[j].retried + 1
  /\ failed'[j] = failed[j] + 1
  /\ answer'[j] = answer[j] /\ due'[j] = due[j] /\ done'[j] = done[j]

\* The handler gave up.
GaveUp(j) ==
  /\ j \in skipped'
  /\ task[j].st = "active" /\ task'[j].st = "archived" /\ task'[j].wait = task[j].wait
  /\ failed'[j] = failed[j] + 1
  /\ answer'[j] = answer[j] /\ due'[j] = due[j] /\ done'[j] = done[j]

Ticked(j) ==
  /\ SameSkip(j)
  /\ task'[j] = [task[j] EXCEPT !.wait = IF task[j].wait > 0 THEN task[j].wait - 1 ELSE 0]
  /\ due'[j] = IF due[j] > 0 THEN due[j] - 1 ELSE 0
  /\ answer'[j] = answer[j] /\ done'[j] = done[j] /\ failed'[j] = failed[j]

JobStep(j) ==
  Untouched(j) \/ Answered(j) \/ Stored(j) \/ Moved(j) \/ Failed(j) \/ GaveUp(j) \/ Ticked(j)

LEMMA NoTaskType == NoTask \in Task
BY DEF NoTask, Task, States, Types

LEMMA StoredFields ==
  ASSUME NEW r \in Requests
  PROVE  /\ Delay(r) \in Nat
         /\ Submitted(r) \in Task
         /\ Submitted(r).st = "pending" /\ Submitted(r).wait = Delay(r) /\ Submitted(r).retried = 0
<1>1. Delay(r) \in Nat /\ r.type \in Types
  BY JobsAssumption DEF Delay, Types
<1>. HIDE DEF Delay
<1>. QED
  BY <1>1 DEF Submitted, Task, States

\* Updating the entry of j leaves the other jobs alone.
LEMMA OneTask ==
  ASSUME TypeOK, NEW j \in Jobs, NEW st \in States, NEW by \in Workers \cup {Nobody},
         task' = [task EXCEPT ![j].st = st, ![j].by = by]
  PROVE  /\ task' \in [Jobs -> Task]
         /\ \A i \in Jobs : i # j => task'[i] = task[i]
         /\ task'[j].st = st /\ task'[j].wait = task[j].wait /\ task'[j].retried = task[j].retried
<1>1. task[j] \in Task
  BY DEF TypeOK
<1>2. task'[j] = [task[j] EXCEPT !.st = st, !.by = by]
  BY DEF TypeOK
<1>3. \A i \in Jobs : i # j => task'[i] = task[i]
  BY DEF TypeOK
<1>4. task'[j] \in Task /\ task'[j].st = st /\ task'[j].wait = task[j].wait /\ task'[j].retried = task[j].retried
  BY DEF TypeOK, Task
<1>. QED
  BY <1>3, <1>4 DEF TypeOK

LEMMA AttemptEffect ==
  ASSUME TypeOK, NEW j \in Jobs, Attempt(j), task[j].st = "active",
         answer' = answer, due' = due, done' = done
  PROVE  Failed(j) /\ TypeOK' /\ \A i \in Jobs \ {j} : Untouched(i)
<1>1. failed' \in [Jobs -> Nat] /\ failed'[j] = failed[j] + 1 /\ \A i \in Jobs \ {j} : failed'[i] = failed[i]
  <2>1. failed' = [failed EXCEPT ![j] = @ + 1]
    BY DEF Attempt
  <2>. QED
    BY <2>1 DEF TypeOK
<1>s. \A i \in Jobs : SameSkip(i)
  BY DEF Attempt, SameSkip
<1>2. CASE Exhausted(task[j]) /\ Archive(j)
  <2>1. /\ task' \in [Jobs -> Task]
        /\ \A i \in Jobs : i # j => task'[i] = task[i]
        /\ task'[j].st = "archived" /\ task'[j].wait = task[j].wait
    BY <1>2, OneTask DEF Archive, States
  <2>. QED
    BY <1>1, <1>s, <1>2, <2>1 DEF Exhausted, Failed, Untouched, TypeOK
<1>3. ASSUME ~Exhausted(task[j]), NEW d \in RetryDelays,
             task' = [task EXCEPT ![j].st = "pending", ![j].wait = d, ![j].retried = @ + 1, ![j].by = Nobody]
      PROVE  Failed(j) /\ TypeOK' /\ \A i \in Jobs \ {j} : Untouched(i)
  <2>0. d \in Nat /\ task[j].retried \in Nat
    BY JobsAssumption DEF TypeOK, Task
  <2>1. ASSUME NEW n \in Nat, n = task[j].retried + 1
        PROVE  /\ task' \in [Jobs -> Task]
               /\ \A i \in Jobs : i # j => task'[i] = task[i]
               /\ task'[j].st = "pending" /\ task'[j].retried = n
    BY <1>3, <2>0, <2>1 DEF TypeOK, Task, States
  <2>2. task[j].retried < MaxRetry
    BY <1>3, <2>0, JobsAssumption DEF Exhausted
  <2>. QED
    BY <1>1, <1>s, <2>0, <2>1, <2>2 DEF Failed, Untouched, TypeOK
<1>. QED
  BY <1>2, <1>3 DEF Attempt

LEMMA GiveUpEffect ==
  ASSUME TypeOK, NEW w \in Workers, NEW j \in Jobs, FailForGood(w, j)
  PROVE  GaveUp(j) /\ TypeOK' /\ \A i \in Jobs \ {j} : Untouched(i)
<1>1. /\ skipped' = skipped \cup {j} /\ failed' = [failed EXCEPT ![j] = @ + 1]
      /\ task[j].st = "active" /\ Archive(j)
      /\ answer' = answer /\ due' = due /\ done' = done
  BY DEF FailForGood, Holder
<1>2. /\ task' \in [Jobs -> Task]
      /\ \A i \in Jobs : i # j => task'[i] = task[i]
      /\ task'[j].st = "archived" /\ task'[j].wait = task[j].wait
  BY <1>1, OneTask DEF Archive, States
<1>3. failed' \in [Jobs -> Nat] /\ failed'[j] = failed[j] + 1 /\ \A i \in Jobs \ {j} : failed'[i] = failed[i]
  BY <1>1 DEF TypeOK
<1>. QED
  BY <1>1, <1>2, <1>3 DEF GaveUp, Untouched, SameSkip, TypeOK

LEMMA TickEffect ==
  ASSUME TypeOK, Tick
  PROVE  TypeOK' /\ \A j \in Jobs : Ticked(j)
<1>1. ASSUME NEW j \in Jobs
      PROVE  /\ Ticked(j)
             /\ task'[j] \in Task
             /\ due'[j] \in Nat
  <2>1. Ticked(j)
    BY DEF Tick, Ticked, SameSkip, TypeOK
  <2>2. PICK n \in Nat : n = IF task[j].wait > 0 THEN task[j].wait - 1 ELSE 0
    BY DEF TypeOK, Task
  <2>3. task'[j] = [task[j] EXCEPT !.wait = n]
    BY <2>1, <2>2 DEF Ticked
  <2>4. task'[j] \in Task
    BY <2>3 DEF TypeOK, Task
  <2>. QED
    BY <2>1, <2>4 DEF Ticked, TypeOK
<1>. QED
  BY <1>1 DEF Tick, TypeOK

LEMMA EnqueueStep ==
  ASSUME TypeOK, NEW r \in Requests, Enqueue(r)
  PROVE  TypeOK' /\ early' = early /\ \A j \in Jobs : JobStep(j)
<1>0. r.job \in Jobs
  BY JobsAssumption
<1>1. ASSUME NEW a \in {"ok", "invalid", "ctx", "error"}, Answer(r, a)
      PROVE  /\ answer[r.job] = "none"
             /\ answer' \in [Jobs -> {"none", "ok", "invalid", "ctx", "error"}]
             /\ answer'[r.job] = a
             /\ \A j \in Jobs \ {r.job} : answer'[j] = answer[j]
  BY <1>0, <1>1 DEF Answer, TypeOK
<1>2. CASE EnqueueRefused(r) \/ EnqueueUnreachable(r)
  <2>1. /\ UNCHANGED <<task, due, done, failed, skipped, early>>
        /\ \E a \in {"ok", "invalid", "ctx", "error"} : Answer(r, a)
    BY <1>2 DEF EnqueueRefused, EnqueueUnreachable
  <2>. QED
    BY <1>1, <2>1 DEF TypeOK, JobStep, Answered, Untouched, SameSkip
<1>3. CASE EnqueueStored(r)
  <2>1. \E a \in {"ok", "ctx", "error"} : Answer(r, a)
    BY <1>3 DEF EnqueueStored
  <2>2. /\ task' = [task EXCEPT ![r.job] = Submitted(r)]
        /\ due' = [due EXCEPT ![r.job] = Delay(r)]
        /\ UNCHANGED <<done, failed, skipped, early>>
    BY <1>3 DEF EnqueueStored
  <2>3. TypeOK' /\ task'[r.job] = Submitted(r) /\ due'[r.job] = Delay(r)
    BY <1>0, <1>1, <2>1, <2>2, StoredFields DEF TypeOK
  <2>4. Stored(r.job)
    BY <1>0, <1>1, <2>1, <2>2, <2>3, StoredFields DEF Stored, SameSkip
  <2>5. \A j \in Jobs \ {r.job} : Untouched(j)
    BY <1>0, <1>1, <2>1, <2>2 DEF Untouched, SameSkip, TypeOK
  <2>. QED
    BY <2>2, <2>3, <2>4, <2>5 DEF JobStep
<1>. QED
  BY <1>2, <1>3 DEF Enqueue

LEMMA MoveEffect ==
  ASSUME TypeOK, NEW j \in Jobs, NEW st \in States, NEW by \in Workers \cup {Nobody},
         task' = [task EXCEPT ![j].st = st, ![j].by = by],
         UNCHANGED <<answer, due, failed, skipped>>,
         \/ task[j].st = "pending" /\ st = "active" /\ task[j].wait = 0 /\ done' = done
         \/ task[j].st = "active" /\ st = "pending" /\ done' = done
         \/ task[j].st = "active" /\ st = "completed" /\ done' = [done EXCEPT ![j] = @ + 1]
  PROVE  TypeOK' /\ \A i \in Jobs : JobStep(i)
<1>1. /\ task' \in [Jobs -> Task]
      /\ \A i \in Jobs : i # j => task'[i] = task[i]
      /\ task'[j].st = st /\ task'[j].wait = task[j].wait /\ task'[j].retried = task[j].retried
  BY OneTask
<1>2. done' \in [Jobs -> Nat] /\ \A i \in Jobs : i # j => done'[i] = done[i]
  BY DEF TypeOK
<1>3. done' = [done EXCEPT ![j] = @ + 1] => done'[j] = done[j] + 1
  BY DEF TypeOK
<1>4. Moved(j)
  BY <1>1, <1>3 DEF Moved, SameSkip
<1>5. \A i \in Jobs \ {j} : Untouched(i)
  BY <1>1, <1>2 DEF Untouched, SameSkip
<1>. QED
  BY <1>1, <1>2, <1>4, <1>5 DEF TypeOK, JobStep

LEMMA SameJobs ==
  ASSUME TypeOK, UNCHANGED <<task, answer, due, done, failed, skipped>>
  PROVE  TypeOK' /\ \A j \in Jobs : JobStep(j)
BY DEF TypeOK, JobStep, Untouched, SameSkip

\* A worker that leases a task finds it due and of a type it handles.
LEMMA LeaseIsTimely ==
  ASSUME Inductive, NEW w \in Workers, NEW j \in Jobs, Lease(w, j)
  PROVE  early' = early
<1>1. due[j] = 0
  BY DEF Inductive, JobSound, Punctual, Lease, TypeOK
<1>. QED
  BY <1>1 DEF Lease, Dispatches

LEMMA Steps ==
  ASSUME Inductive, [Next]_vars
  PROVE  TypeOK' /\ early' = early /\ \A j \in Jobs : JobStep(j)
<1>0. TypeOK
  BY DEF Inductive
<1>1. ASSUME NEW r \in Requests, Enqueue(r)
      PROVE  TypeOK' /\ early' = early /\ \A j \in Jobs : JobStep(j)
  BY <1>0, <1>1, EnqueueStep
<1>2. ASSUME NEW j \in Jobs, Recover(j)
      PROVE  TypeOK' /\ early' = early /\ \A i \in Jobs : JobStep(i)
  <2>1. Failed(j) /\ TypeOK' /\ \A i \in Jobs \ {j} : Untouched(i)
    BY <1>0, <1>2, AttemptEffect DEF Recover
  <2>. QED
    BY <1>2, <2>1 DEF Recover, JobStep
<1>3. ASSUME NEW w \in Workers, Lifecycle(w) \/ Cancel(w) \/ Crash(w)
      PROVE  TypeOK' /\ early' = early /\ \A j \in Jobs : JobStep(j)
  <2>1. UNCHANGED jobVars
    BY <1>3 DEF Lifecycle, Run, ProbeReachable, BeginShutdown, RunReturns, Replace, Cancel, Crash
  <2>. QED
    BY <1>0, <2>1, SameJobs DEF jobVars
<1>4. ASSUME NEW w \in Workers, NEW type \in Handled, Register(w, type)
      PROVE  TypeOK' /\ early' = early /\ \A j \in Jobs : JobStep(j)
  BY <1>0, <1>4, SameJobs DEF Register, jobVars
<1>5. ASSUME NEW w \in Workers, NEW j \in Jobs, Lease(w, j)
      PROVE  TypeOK' /\ early' = early /\ \A i \in Jobs : JobStep(i)
  <2>1. early' = early
    BY <1>5, LeaseIsTimely
  <2>2. /\ task' = [task EXCEPT ![j].st = "active", ![j].by = w]
        /\ task[j].st = "pending" /\ task[j].wait = 0
        /\ UNCHANGED <<answer, due, failed, skipped, done>>
    BY <1>5 DEF Lease
  <2>. QED
    BY <1>0, <2>1, <2>2, MoveEffect DEF States
<1>6. ASSUME NEW w \in Workers, NEW j \in Jobs, Process(w, j)
      PROVE  TypeOK' /\ early' = early /\ \A i \in Jobs : JobStep(i)
  <2>1. CASE Complete(w, j)
    <3>1. /\ task' = [task EXCEPT ![j].st = "completed", ![j].by = Nobody]
          /\ task[j].st = "active"
          /\ done' = [done EXCEPT ![j] = @ + 1]
          /\ UNCHANGED <<answer, due, failed, skipped, early>>
      BY <2>1 DEF Complete, Holder, Succeeds
    <3>. QED
      BY <1>0, <3>1, MoveEffect DEF States
  <2>2. CASE Fail(w, j)
    <3>1. Failed(j) /\ TypeOK' /\ \A i \in Jobs \ {j} : Untouched(i)
      BY <1>0, <2>2, AttemptEffect DEF Fail, Holder
    <3>. QED
      BY <2>2, <3>1 DEF Fail, JobStep
  <2>3. CASE Stale(w, j)
    BY <1>0, <2>3, SameJobs DEF Stale, jobVars
  <2>4. CASE Abort(w, j)
    <3>1. /\ task[j].st = "active"
          /\ UNCHANGED <<answer, due, failed, skipped, done, early>>
          /\ task' = [task EXCEPT ![j].st = "pending", ![j].by = Nobody] \/ UNCHANGED task
      BY <2>4 DEF Abort, Holder
    <3>2. CASE UNCHANGED task
      BY <1>0, <3>1, <3>2, SameJobs
    <3>3. CASE task' = [task EXCEPT ![j].st = "pending", ![j].by = Nobody]
      BY <1>0, <3>1, <3>3, MoveEffect DEF States
    <3>. QED
      BY <3>1, <3>2, <3>3
  <2>5. CASE FailForGood(w, j)
    <3>1. GaveUp(j) /\ TypeOK' /\ \A i \in Jobs \ {j} : Untouched(i)
      BY <1>0, <2>5, GiveUpEffect
    <3>. QED
      BY <2>5, <3>1 DEF FailForGood, JobStep
  <2>. QED
    BY <1>6, <2>1, <2>2, <2>3, <2>4, <2>5 DEF Process
<1>7. CASE Tick
  BY <1>0, <1>7, TickEffect DEF Tick, JobStep
<1>8. CASE UNCHANGED vars
  BY <1>0, <1>8, SameJobs DEF vars, jobVars
<1>. QED
  BY <1>1, <1>2, <1>3, <1>4, <1>5, <1>6, <1>7, <1>8 DEF Next

-----------------------------------------------------------------------------
(* The invariant is kept                                                   *)

LEMMA TickedFields ==
  ASSUME TypeOK, NEW j \in Jobs, Ticked(j)
  PROVE  /\ task'[j].st = task[j].st /\ task'[j].retried = task[j].retried
         /\ task'[j].wait = IF task[j].wait > 0 THEN task[j].wait - 1 ELSE 0
         /\ task[j] = NoTask => task'[j] = NoTask
<1>1. PICK n \in Nat : n = IF task[j].wait > 0 THEN task[j].wait - 1 ELSE 0
  BY DEF TypeOK, Task
<1>2. task'[j] = [task[j] EXCEPT !.wait = n]
  BY <1>1 DEF Ticked
<1>3. task'[j].st = task[j].st /\ task'[j].retried = task[j].retried /\ task'[j].wait = n
  BY <1>2 DEF TypeOK, Task
<1>4. ASSUME task[j] = NoTask PROVE task'[j] = NoTask
  <2>1. n = 0
    BY <1>1, <1>4 DEF NoTask
  <2>2. ASSUME NEW t, t = NoTask PROVE [t EXCEPT !.wait = 0] = t
    BY <2>2 DEF NoTask
  <2>. QED
    BY <1>2, <1>4, <2>1, <2>2
<1>. QED
  BY <1>1, <1>3, <1>4

LEMMA JobStepSound ==
  ASSUME TypeOK, TypeOK', NEW j \in Jobs, JobSound(j), JobStep(j)
  PROVE  JobSound(j)'
<1>0. /\ task[j] \in Task /\ task'[j] \in Task
      /\ due[j] \in Nat /\ done[j] \in Nat /\ failed[j] \in Nat
      /\ due'[j] \in Nat /\ MaxRetry \in Nat
  BY JobsAssumption DEF TypeOK
<1>1. CASE Untouched(j)
  BY <1>1 DEF SameSkip, Untouched, JobSound, Punctual, RefusedIsAbsent, RetriesCounted, DoneOnce
<1>2. CASE Answered(j)
  BY <1>2 DEF SameSkip, Answered, JobSound, Punctual, RefusedIsAbsent, RetriesCounted, DoneOnce
<1>3. CASE Stored(j)
  <2>1. done[j] = 0 /\ failed[j] = 0 /\ j \notin skipped
    BY <1>3 DEF Stored, JobSound, RefusedIsAbsent, RetriesCounted, DoneOnce, NoTask
  <2>2. Punctual(j)' /\ RefusedIsAbsent(j)'
    BY <1>0, <1>3 DEF Stored, Punctual, RefusedIsAbsent
  <2>3. RetriesCounted(j)' /\ DoneOnce(j)'
    BY <1>0, <1>3, <2>1 DEF SameSkip, Stored, RetriesCounted, DoneOnce
  <2>. QED
    BY <2>2, <2>3 DEF JobSound
<1>4. CASE Moved(j)
  <2>1. task[j] # NoTask
    BY <1>4 DEF Moved, NoTask
  <2>2. Punctual(j)' /\ RefusedIsAbsent(j)'
    BY <1>4, <2>1 DEF Moved, JobSound, Punctual, RefusedIsAbsent
  <2>3. RetriesCounted(j)' /\ DoneOnce(j)'
    BY <1>0, <1>4 DEF SameSkip, Moved, JobSound, RetriesCounted, DoneOnce
  <2>. QED
    BY <2>2, <2>3 DEF JobSound
<1>5. CASE Failed(j)
  <2>0. /\ task[j].retried \in Nat /\ task[j].wait = 0 /\ task'[j].wait \in Nat /\ task[j] # NoTask
        /\ failed[j] = task[j].retried /\ task[j].retried <= MaxRetry
    BY <1>0, <1>5 DEF Failed, JobSound, Punctual, RetriesCounted, Task, NoTask
  <2>1. Punctual(j)' /\ RefusedIsAbsent(j)'
    BY <1>0, <1>5, <2>0 DEF Failed, JobSound, Punctual, RefusedIsAbsent
  <2>2. RetriesCounted(j)' /\ DoneOnce(j)'
    BY <1>0, <1>5, <2>0 DEF SameSkip, Failed, JobSound, RetriesCounted, DoneOnce
  <2>. QED
    BY <2>1, <2>2 DEF JobSound
<1>6. CASE Ticked(j)
  <2>1. Punctual(j)'
    BY <1>0, <1>6, TickedFields DEF Ticked, JobSound, Punctual, Task
  <2>2. RefusedIsAbsent(j)' /\ RetriesCounted(j)' /\ DoneOnce(j)'
    BY <1>0, <1>6, TickedFields DEF SameSkip, Ticked, JobSound, RefusedIsAbsent, RetriesCounted, DoneOnce
  <2>. QED
    BY <2>1, <2>2 DEF JobSound
<1>7. CASE GaveUp(j)
  <2>0. /\ task[j].retried \in Nat /\ task[j].wait = 0 /\ task[j] # NoTask
        /\ failed[j] = task[j].retried /\ task[j].retried <= MaxRetry
    BY <1>0, <1>7 DEF GaveUp, JobSound, Punctual, RetriesCounted, Task, NoTask
  <2>1. Punctual(j)' /\ RefusedIsAbsent(j)'
    BY <1>0, <1>7, <2>0 DEF GaveUp, JobSound, Punctual, RefusedIsAbsent
  <2>2. RetriesCounted(j)' /\ DoneOnce(j)'
    BY <1>0, <1>7, <2>0 DEF GaveUp, JobSound, RetriesCounted, DoneOnce
  <2>. QED
    BY <2>1, <2>2 DEF JobSound
<1>. QED
  BY <1>1, <1>2, <1>3, <1>4, <1>5, <1>6, <1>7 DEF JobStep

LEMMA InductiveInit == Init => Inductive
<1>. SUFFICES ASSUME Init PROVE Inductive
  OBVIOUS
<1>1. TypeOK
  BY NoTaskType DEF Init, TypeOK
<1>2. ASSUME NEW j \in Jobs PROVE JobSound(j)
  BY <1>2, JobsAssumption DEF Init, NoTask, JobSound, Punctual, RefusedIsAbsent, RetriesCounted, DoneOnce
<1>. QED
  BY <1>1, <1>2 DEF Inductive, Init

LEMMA InductiveNext == Inductive /\ [Next]_vars => Inductive'
<1>. SUFFICES ASSUME Inductive, [Next]_vars PROVE Inductive'
  OBVIOUS
<1>1. TypeOK' /\ early' = early /\ \A j \in Jobs : JobStep(j)
  BY Steps
<1>2. \A j \in Jobs : JobSound(j)'
  BY <1>1, JobStepSound DEF Inductive
<1>. QED
  BY <1>1, <1>2 DEF Inductive

LEMMA InductiveHolds == Spec => []Inductive
BY InductiveInit, InductiveNext, PTL DEF Spec

-----------------------------------------------------------------------------
(* Theorems                                                                *)

\* Enqueue and Lease: no handler ever runs before ProcessAt or for another
\* type, and a job Enqueue refused as invalid never reaches the queue.
THEOREM JobsRunAsAsked == Spec => []DeliveredAsAsked
<1>1. Inductive => DeliveredAsAsked
  BY DEF Inductive, JobSound, RefusedIsAbsent, DeliveredAsAsked
<1>. QED
  BY <1>1, InductiveHolds, PTL

\* Complete, Attempt and Abort: a job is completed once at most and by a
\* handler of its type; it is archived by the failure after MaxRetry retries,
\* whichever mix of errors, crashes, stalls and hand-backs it went through, and
\* earlier only if its handler returned SkipRetry, which no retry follows.
THEOREM OutcomesAreEarned == Spec => []OutcomesEarned
<1>1. Inductive => OutcomesEarned
  BY DEF Inductive, JobSound, RetriesCounted, DoneOnce, OutcomesEarned
<1>. QED
  BY <1>1, InductiveHolds, PTL
=============================================================================
