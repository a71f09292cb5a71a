# Verification of go-ddd-adapters

TLA+ models of the adapters in this repository that carry a protocol of their
own: the transactional outbox and its relay, the idempotency store, background
jobs, the adapters behind an HTTP API, the processes that start and stop them,
and the orders service built on them. TLC checks small instances; TLAPS proves
the safety of the Postgres outbox for every number of relays, events and
transactions.

    tlc -config PgxOutboxSafety.cfg MCPgxOutbox      # one line per run below
    tlapm PgxOutboxProofs.tla

## 1. Inventory of the system

| Component | State | Operations | Interacts with | What is hard | What makes it correct |
| --- | --- | --- | --- | --- | --- |
| Postgres outbox store (`eventbus/outbox/pgx`) | `outbox_records` with attempts, available_at, claim_token, claimed_until; `outbox_dead_letters` | Stage, Fetch, MarkSent, MarkFailed, Terminate | the caller's transaction; relays | relays of several processes; leases that run out; statements whose answer is lost | nothing lost, nothing early, one dead letter, exact retry budget, leases respected |
| Relay (`eventbus/outbox/relay.go`, `module.go`) | running flag, run context, the batch in hand | Run, drainOnce, process, fail, Start, Stop | store, codec, publisher | decides on snapshots; cancelled in mid batch; panics | every committed event settles; duplicates only by faults |
| Transaction manager (`ports/database/pgx`) | the transaction in the context | WithinTx | Stage, repositories | rollback on error and panic | row and event commit together |
| In-memory outbox store (`eventbus/outbox/memory.go`) | slice of records, dead-letter map, id counter, one mutex | Stage, Fetch, MarkSent, MarkFailed, Terminate | relays of the same process | no claims; capacity; order of ids | the limit holds; same contract as the Postgres store |
| Redis idempotency store (`idempotency/redis`) | one hash per (scope, key): fp, st, tok, resp, TTL | Begin, Finish, Cancel as Lua scripts | HTTP callers, Redis expiry, go-redis retries | stale owners, lost replies, expiry while working | executions accounted for, answers match, completed is final, nobody waits for ever |
| Orders service (`examples/orders`) | orders table, outbox, consumer offsets, projection | POST, Ship on OrderPlaced, Apply | all of the above and Kafka | read outside the transaction, redelivery, rebalance, two topics | one event per transition, never ahead of the row, every order shipped |
| Kafka publisher, subscriber, consumer modules (`eventbus/kafka`) | consumer context, WaitGroup, channels | Publish, Subscribe, Start, Stop, processEnvelope | relay, handlers, bootstrap | partial start, drain, redelivery | no handler outlives a clean Stop; every message is acked or nacked once |
| Inbox (`eventbus/inbox`) | map of key to time | Seen, Record, eviction | consumers | check-then-act, TTL boundary, eviction of half | a second execution always has a cause: something was forgotten, or two callers overlapped |
| Processes (`examples/orders/cmd`, `observability/otel`) | the clients that are open, the modules started so far | setup, Start and Stop of every module, exit | bootstrap (go-ddd-core), everything above | failure half way through start or stop, order of closing | no client closed under its user, shutdown completes, nothing left open |
| Jobs (`jobs/asynq`) | handler table; asynq's task records and leases | Enqueue, Register, Run | asynq, Redis | cancellation, crash, stalled handlers, lost answers | outcomes are earned, nothing runs early, every stored job resolves |
| HTTP server (`transport/http/stdlib`) | listener, server | Start, serve, Stop | bootstrap | Serve racing Shutdown, binding in the goroutine | nothing begins after Stop |
| Health (`transport/http/stdlib/health`) | checks, probe timeout | Register, SetProbeTimeout, readiness | dependencies, probes | hanging checks, change during a probe | probes tell the truth and end |
| JWT verifier, Casbin authorizer, auth middleware | keys and options; the policy | New, Verify, Allow, extract, respond | HTTP | expiry and revocation between steps, key and algorithm choice | only the entitled are served, nobody is refused without cause |
| Cache, rate limiter (`cache/redis`, `ratelimit/redisrate`) | Redis keys | Get, Set, Delete, Exists, Allow | Redis, redis_rate | colliding names, lost answers, boundary of the quota | names do not disturb each other, the quota is exact |
| HTTP client, logger | none of their own | one library call each | net/http, slog | none | not modelled |

`PROJECT.json` lists for each component what is modelled and why anything is
left out, and every hazard with the properties that cover it.

## 2. Modules

| Module | Models | State and actions |
| --- | --- | --- |
| `OutboxRecord` | the record a relay holds after Fetch | event, claim token, attempts snapshot |
| `Relay` | `relay.go`, `module.go`: the relay's half of every step | `pc`, `batch`, `cancelled`; Start, Cancel, Exit, Receive, PublishReturns, PublishFails, MarkPanics, Advance, Exhausted |
| `PgxStore` | `pgx/store.go`, `pgx/sql.go`, `txmanager.go` | `tx`, `uncommitted`, `records`, `tokens`, `dead_letters`, `now`; each SQL statement is one step |
| `PgxOutbox` | callers, several relays and the Postgres store together, with crashes, cancellations, lost answers and overrun leases | joins the halves; all properties of the Postgres outbox |
| `OutboxDelivery` | the contract: accepted events are delivered at least once or dead-lettered | the abstract specification |
| `MemoryStore`, `MemoryOutbox` | `memory.go`, and the same relay on it | every locked section one step; Stage reads its clock before the lock |
| `Idempotency` | `idempotency/redis` and the calling protocol of the repository's README | the hash, requests, faults, time |
| `Orders` | `examples/orders`: api, worker, reader | table, commands in flight, outbox contract, partitions, projection |
| `KafkaConsumer` | `kafka/subscriber.go`, `kafka/module.go`: consumer group lifecycle | the module's phase, two goroutines per topic, the message in flight |
| `HttpServer` | `transport/http/stdlib/server.go` and the example's `HTTPModule` | the listener, the serving goroutine, Shutdown, requests in progress |
| `Inbox` | `eventbus/inbox/memory.go` and its callers | the map, the clock, who works on which key; history of what was forgotten |
| `Process` | the four commands of the example, a consumer over the inbox, the stdlib server: composes the three modules above and the relay loop | the program, bootstrap's position, the open clients |
| `Jobs` | `jobs/asynq` over asynq | task records and leases, each worker's Run, its handlers |
| `Access` | `auth/jwt`, `auth/casbin`, `authmw`: a protected request step by step | the configuration, the policy, the requests |
| `Health` | `transport/http/stdlib/health` | the registry, the dependencies, the probes |
| `RedisData` | `cache/redis`, `ratelimit/redisrate` | the keys of one Redis, what the last call returned |
| `Api` | the three modules above under one clock | |
| `MC...` | values for constants a cfg cannot write | |
| `PgxOutboxProofs`, `MemoryOutboxProofs`, `IdempotencyProofs`, `OrdersProofs`, `JobsProofs`, `ProcessProofs`, `ApiProofs` | theorems and proofs about the module of that name | |
| `InboxProofs` | the invariant of `Inbox`, step by step, for `ProcessProofs` | |

`Relay` is used twice, over `PgxStore` and over `MemoryStore`: the code's
`OutboxStore` interface is the seam. `OutboxDelivery` is what both compositions
implement, and what `Orders` assumes of the outbox instead of its detail.
`Process` puts the lifecycles together: bootstrap decides when a consumer group
starts and stops, the inbox is what its handlers do, and what a handler uses is
what setup opened. The parts of `Api` share nothing but the clock, so each
behaviour exercises one of them.

Definitions called "Mutation" in a module are plausible defects of the
definition that follows them. No specification uses them; replacing the
definition by its mutation breaks the property listed with it in
`PROJECT.json`.

### How faults are modelled

A crash, a cancellation, a lost reply, an overrun lease or a redelivery is an
action of its own that increments `spent`, up to `MaxFaults`. Properties may
mention `spent`: `published[e] <= 1 + spent` says that every duplicate has a
cause. Time is an integer clock that advances only while something waits for
it; the tick that ends a lease somebody still works under is a fault
(`Overrun`), any other tick is not.

## 3. Runs

| Run | cfg | Checks | States |
| --- | --- | --- | --- |
| pgx_safety | `PgxOutboxSafety` | two relays, two events in one transaction (one undecodable), two faults: all safety properties and the inductive invariant | 287k |
| pgx_liveness | `PgxOutboxLiveness` | two transactions, one fault: a healthy event whose failures stay under the cap reaches the broker; the contract with its liveness | 208k |
| pgx_order | `PgxOutboxOrder` | expected violation (section 6) | |
| memory | `MemoryOutbox` | two concurrent Stage calls against a full store, two relays with restarts and no claims: the limit, the contract, and exactness while only one relay at a time runs | 370k |
| memory_order | `MemoryOutboxOrder` | expected violation | |
| idempotency | `Idempotency` | three requests, two fingerprints, two faults, a client that repeats commands: safety, and nobody waits for ever | 251k |
| idempotency_conflict | `IdempotencyConflict` | expected violation | |
| orders | `Orders` | two competing POSTs and an invalid one, two workers, three faults: safety, and every order is shipped and projected | 189k |
| orders_projection | `OrdersProjection` | expected violation | |
| process | `Process` | six programs from setup to exit: failing setup and start, a handler failure, an undecodable message, a duplicate event, a signal once it runs, deadlines that run out | 120k |
| jobs | `Jobs` | a delayed job and one nobody handles, malformed and far-off submissions, two workers, one fault and one cancellation | 123k |
| api | `Api` | eleven tokens against nine configurations while the policy changes; an order, the order collection and an object without a type; two dependencies that fail and hang; two colliding names and an empty key | 375k |

`process` shows for the consumer what its comments promise (`EndedIsClean`,
`NobodyForgets`, `AcknowledgedIsHandled`, `EventuallyHandled`), for the inbox
that every repeated execution has a cause (`DuplicatesExcused`), and for the
whole process that clients are closed after their users and all of them
(`ClosedAfterUse`) and that no Stop hook waits for ever (`ShutdownCompletes`).

`jobs` shows that a completed job was handled and an archived one had all its
retries, unless its handler asked for none (`OutcomesEarned`), that nothing runs before ProcessAt or under
another type's handler (`DeliveredAsAsked`), that a cancelled Run ends with nil
(`RunEndsNil`) and that no stored job is forgotten (`EventuallyResolved`).

`api` shows that a served request was entitled at a moment since it arrived
(`ServedIsEntitled`), that refusals have the cause they name
(`NobodyRefusedWrongly`), that a readiness answer is true of its checks
(`ReadinessHonest`) and always comes unless the timeout is disabled
(`ProbesAnswer`), and that cache and limiter keep names apart and the quota
exact (`CacheIsolated`, `QuotaIsExact`).

### Bounds and why they are enough

- Two relays, two workers: the races are between one stale and one current
  owner. Two events in a batch: one is processed while the other one's lease
  runs. Two faults let a lease lapse and the second owner fail as well; three
  in `orders` allow a redelivery, a takeover and a lost commit answer
  together.
- `Lease = 2` ticks and retry delays of -1 and 1: a lease can run out before,
  at and after a retry is due, and the relay's clock may lag the database's.
- `FirstId = 8` makes the second id of the in-memory store the first one with
  two digits.
- `FailureBound` keeps broker failures of a healthy event finite, `StageUntil`,
  `MaxStops` and `MaxFaults` bound the environment. All are CONSTANTS used in
  guards.
- Requests 1 and 2 of the idempotency runs are retries of each other, request 3
  reuses the key with another body.
- `process`: two topics, since the group starts and stops them together and a
  later one may fail; the second message of one topic is undecodable, and one
  event arrives in both topics, so that two goroutines meet in the inbox. An
  inbox of one entry with a TTL of one tick and a clock of two ticks reaches
  eviction, expiry and the last moment of the TTL.
- `jobs`: two workers with one slot each, so that a recovered task goes to the
  other one while the stalled handler still runs; one retry, so that the second
  failure archives, and an error that wraps `asynq.SkipRetry`, which archives at
  once. The fault may be any of a crash, a stall, a lost answer, a
  handler error or an unreachable Redis.
- `api`: a key size on either side of each limit, one token per way to fail and
  one per family. A burst of two calls with an interval of two ticks and four
  ticks of time let a bucket fill, drain in part and fill again. The two names
  are the same string without the length of the prefix.

`Orders`, `Idempotency` and `Jobs` really come to rest when all requests have
ended, and `Process` when it exits, so their runs do not check deadlock; the
others do.

## 4. Fairness

- Relays: weak fairness of each relay's steps and of its restart. `Run` polls
  on a ticker and processes a batch without waiting for anything but the store
  and the broker; the process is supervised.
- Time: weak fairness of the tick.
- Callers, faults, broker failures: none.
- Idempotency: a request that did not crash goes on (a client that got
  StatusInProgress asks again), and time passes.
- Orders: requests and workers go on, the outbox delivers every committed event
  (what pgx_liveness shows for events whose failures stay under the cap), and
  the reader reads.
- Process: setup and bootstrap go on, goroutines run, handlers and requests
  end. A select with several ready cases picks at random, so a cancelled
  context is noticed in the end. Nobody has to send the signal, and the deadline
  of a Stop hook is never what makes it return.
- Jobs: workers run and are replaced by their supervisor, asynq polls, handlers
  return or reach their task timeout, the recoverer polls, time passes.
- Health: the goroutine of a probe goes on. A check that hangs returns only
  because its context is done.

## 5. What is proved

Every safety invariant and every action property that a passing run checks is
also a theorem, proved by TLAPS from the named assumptions on the constants
only: for all sets of relays, events, requests, workers, topics or names, for
any lease, limit or retry cap, and for any number of faults. The runs show that
the properties are not vacuous and that the models move; the theorems that
nothing depends on their bounds.

| Module | Theorem | Statement |
| --- | --- | --- |
| `PgxOutboxProofs` | `TypeCorrect`, `InductiveHolds` | the type invariant and the inductive one |
| | `NeverLost` | a committed event is queued, published or dead-lettered |
| | `NeverPremature` | nothing of an uncommitted or rolled back transaction is visible |
| | `DeadLetteredOnce` | one dead letter at most, and then out of the queue |
| | `BudgetExact` | every dead letter records exactly `MaxAttempts` failures, and there is none when it is 0 |
| | `LeasesRespected` | while a lease runs only its holder's Mark call changes the row |
| | `DisturbancesArePriced` | a disturbance costs one more publication and one more claim at most, and nothing else costs any |
| | `Refinement` | the system implements the safety part of `OutboxDelivery` |
| `MemoryOutboxProofs` | `LimitHolds` | the store never exceeds `MaxSize` |
| | `TurnsAreExact` | relays that take turns publish once plus once per lost acknowledgement, and use the budget exactly |
| | `MemoryRefinement` | the safety part of `OutboxDelivery`, also when relays share the store |
| `IdempotencyProofs` | `ExecutionsArePaid` | the handler runs once, plus once per release, end of retention or fault |
| | `AnswersMatch` | an answer is a stored response for the request's own fingerprint |
| | `ConflictsStoreNothing` | a conflict from Finish means that nothing was stored, unless the client library repeated the command |
| | `CompletedStays` | no script changes a completed record before its retention ends |
| `OrdersProofs` | `TransitionsHaveOneEvent` | one event per transition of an order |
| | `RowsComeFirst` | no event is seen before its row is committed |
| | `AnswersAreTrue` | a 201 names a stored order, a 409 a request that stored nothing |
| | `CausesAreRecorded` | every OrderShipped names the OrderPlaced that caused it |
| `ProcessProofs`, over `InboxProofs` | `EndsAreClean` | no goroutine is left when Stop returned nil or Start an error |
| | `AcknowledgedWereHandled` | only handled messages are acknowledged |
| | `EveryMessageIsHeld` | a message watermill waits for is with a goroutine that will answer it |
| | `DuplicatesAreExcused` | the inbox handles a key again only after it forgot it or for overlapping callers, and respects `MaxSize` |
| | `ClientsOutliveTheirUsers` | clients are closed after the modules that use them, and all of them before run returns |
| `JobsProofs` | `JobsRunAsAsked` | nothing runs before ProcessAt or under another type's handler; refused jobs are not stored |
| | `OutcomesAreEarned` | completed once at most, archived by the failure that follows `MaxRetry` retries, earlier only when its handler returned an error wrapping `asynq.SkipRetry` |
| `ApiProofs` | `ServedAreEntitled` | a served request had a good token and a permission since it arrived |
| | `RefusalsHaveCause` | no refusal without the cause it names |
| | `ReadinessIsHonest` | a readiness answer is true of its checks |
| | `CacheNamesAreIsolated` | the cache reads under a name what was last set under it |
| | `QuotasAreExact` | one leaky bucket per name, and an exact RetryAfter |

### From which assumptions

Each module names what it assumes of its constants (`RelayAssumption`,
`StoreAssumption`, ...), and TLC evaluates these on every run. Most say that a
bound is a natural number. The others:

- `MemoryAssumption`: an event is staged by one call, once. The store would
  accept the same event twice, and then "published once" has no meaning; the
  events of the code carry an id of their own.
- `OrdersAssumption`: a request names one order id, and requests and workers are
  different clients.
- `ProcessAssumption`: each topic's consumer is one caller of the inbox. The six
  programs are definitions of `Process`, not constants; `WellFormed` is what the
  proof uses of them, and `ProgramsWellFormed` establishes it for each.
- `RedisAssumption`: two lengths are written alike only if they are the same and
  none is written `rate:`. This is a fact about decimal notation, which would
  need an induction over data; and `none`, which stands for "no value", is not a
  value.

### Along which argument

None of the properties but the simplest is inductive: whether a step is right
depends on what its actor read long before. For each system `Inductive` adds
what ties the actors' memory to the shared state; that of the Postgres outbox
is also an invariant of `pgx_safety`.

- Postgres outbox. `TokensTracked`: a record in a batch belongs to a committed
  event, its token was handed out for that row, and as long as the row still
  carries the token the record's attempts are the row's. So a Mark statement
  whose token matches acts on current data, and any other one does nothing.
  `TokensUnique`: no two records in flight carry the same token of the same
  row. `SentIsPublished`: a relay is at MarkSent only for an event the broker
  has. For `DisturbancesArePriced` comes the counting invariant `Prices`:
  publications and the relays about to publish an event are at most
  `1 + spent` together, and at most `spent` when no relay with a running lease
  works on the row, so every new claim finds its publication paid for; the
  tokens of a row are at most its failures and `spent`, and one more while it
  is in somebody's hands.
- In-memory outbox. `Identified` and `StoredOnce`: ids are used once, an event
  is stored once. While relays take turns, `InTurns`: one of them at most is
  running (`Alone`), its batch holds current copies (`InHand`), and
  publications and failures are counted (`Priced`, `Budgeted`). For the refinement, which also
  covers relays that overlap, `Contract`: the id in a stale copy names the
  copy's event or nothing, and a dead-lettered id never comes back.
- Idempotency. `TokensMatch` and `TokensOwned`: a lease token is known to one
  request and belongs to that request's fingerprint. `ExecutionsReserved` and
  `ReservationsPaid`: a reservation pays for one execution, and every
  reservation but the first was paid for by what ended the one before.
- Orders. `Exclusive`, `PostSound` and `WorkerSound` are the row lock: a command
  that has saved is alone at its order and the row is still what it found.
  `LogSound`, `MessagesSound`, `EventsSound` and `RowsSound` say what an entry
  of a partition proves about the row it was written with.
- Process. `TopicSound`: the two goroutines of a topic and its message move
  together. `InboxInv` has per key what `DuplicatesExcused` needs: of the callers
  at a key one at most began alone (`OneBeganAlone`), and every end but the
  last, or every one while such a caller works, is paid for (`Covered`). `Shape`
  and `ModuleSound`: a module bootstrap has not come to has not begun, one it
  has left is at rest unless its Stop gave up.
- Jobs. Per job: what is left of the delay covers what is left until ProcessAt
  (`Punctual`), the retry count is the number of failures (`RetriesCounted`),
  and completion is final (`DoneOnce`).
- Api. A request's and a probe's history covers the present while it runs
  (`RequestSound`, `ProbeSound`), and the verifier's keys are as long as their
  algorithm asks (`KeyIsLongEnough`). Each Redis key is at what the calls under
  its name add up to (`CacheSound`, `BucketSound`), which rests on
  `EncodeInjective` and `RateKeysApart`: different names have different keys.

The proofs sort the steps by effect where several actions have the same one
(`StepEffects`, `JobStep`, `Local`, `Commits`) and have one lemma per effect
and conjunct. The refinements map each effect to a step of the contract or a
stutter.

### Only model-checked

- Liveness under fairness is outside the prover's reach: `EventuallyPublished`,
  the fairness of `DeliversAtLeastOnce` (its safety part is `Refinement` and
  `MemoryRefinement`), `ProbesAnswer`, `EveryRequestEnds`, `RunEndsNil`,
  `EventuallyResolved`, `EventuallyShipped`, `EventuallyProjected`,
  `EventuallyHandled` and `ShutdownCompletes`.
- That the systems do not deadlock (`ENABLED`).
- What recursive definitions compute, such as the order of decimal ids in
  `IDLess`; no safety theorem needs it.

## 6. Disagreements found

| Run | The code | What the documentation says |
| --- | --- | --- |
| pgx_order | a failed event is overtaken by the next one of the same aggregate | `examples/orders/README.md:12-13`: order is preserved through the outbox |
| memory_order | ids are compared as strings: 10 before 9 | `memory_test.go:236-238`: the sort preserves stage order |
| idempotency_conflict | a command repeated by go-redis makes an applied Finish a conflict | `doc.go:40-41`: CodeConflict means not applied, for certain |
| orders_projection | OrderPlaced after OrderShipped takes the shipment out of the view | `order_view.go:62-65`: it fills the missing fields |

More are visible without a run:

- `examples/orders/README.md:165-166` calls the behaviour of `orders.version`
  last-write-wins, while `Save` updates only the version before its own and
  returns `ErrConcurrencyConflict` (`SaveConflict`).
- `relay.go:70-72` says that a record whose attempts reached the cap is
  terminated by the next failure; `fail` terminates it by the failure that
  reaches the cap (`Exhausted`; `BudgetUsedExactly` states what holds). The same
  comment names both 0 and 10 as the default; it is 10.
- `jobs/asynq/options.go:105` says that `WithMaxRetry` caps the attempts before
  asynq archives a task; so do `jobs/asynq/doc.go:17-18` and
  `2026-06-16-jobs-asynq-adapter-design.md:205` ("default 25 attempts").
  `Enqueue` passes the number on as `asynq.MaxRetry` (`enqueuer.go:78`), which
  counts the retries after the first attempt, so a job that keeps failing is
  attempted once more than that; the test for unhandled types
  (`contract_test.go:183-187`) relies on the one attempt of `WithMaxRetry(0)`.
  `OutcomesEarned` states what holds: the failure that follows `MaxRetry`
  retries archives. A handler error that wraps `asynq.SkipRetry`, which
  `worker.go:116` passes on, archives at once (`FailForGood`), which none of
  these texts mentions.
- `subscriber.go:80-82` says that a message the codec rejects is skipped; it is
  Nacked, which makes watermill send it again (`Take`, `Resend`).
- `health/registry.go:63-65` says that a zero or negative probe timeout disables
  it; zero is the default of two seconds (`effectiveProbeTimeout`, on which
  `ProbesAnswer` rests), only a negative value disables it.
- `worker.go:80-81` says that Run returns nil once its context is cancelled; a
  cancellation while it pings Redis returns `CodeUnavailable`
  (`ProbeReachable`). `RunEndsNil` states what holds after the server has
  started.

And two consequences of the design that a reader may not expect:

- `Run` cancels the contexts of its handlers before asynq's drain begins, so an
  attempt in progress may fail at shutdown, which costs the job one of its
  attempts (`Fail`). asynq itself is external; the model also allows that it
  hands a task back at the end of the drain without that cost (`Abort`).
- A go-redis client that repeats a command whose reply it lost charges a
  rate-limit call once per repetition. `QuotaIsExact` counts executions of the
  limiter's script, of which one call of `Allow` may then make several.

## 7. What the models leave out

- Payloads, headers (except the causation id), JSON, id encodings, logging and
  metrics. A record is named by its event; an event that cannot be decoded is
  in `Poison`.
- The arithmetic of `defaultBackoff`: `RetryDelays` is any set of delays. Its
  64-bit shift is outside TLC's integers.
- A panic inside the recover handler of `process` has no action of its own:
  nothing recovers it, so it ends the process, which is `Crash`.
- A restart of the reader, which loses its in-memory projection while the
  consumer group keeps its offsets; the example's README lists this as a
  shortcut.
- `FindByID` returning not-found and `Ship` meeting a draft: `EventsFollowRows`
  shows that no consumed event can lead there.
- Custom extractors, responders and request builders; roles, tenants and other
  claims; the action of a request. The default tuple uses none but the action,
  which the model fixes. Of a resource, type and id are sequences of characters
  without ":", as `authorizer.go:121-124` asks of callers. The zero identity
  `Allow` refuses has no action: `Verify` returns none without a subject.
- `Remaining` and `Limit` of the rate limiter, which are advisory; the liveness
  route, which answers without looking at anything; `runtime.ConsumerModule` and
  `memrepo`, which no command uses.
- The HTTP client and the logger: configuration of libraries.
- PostgreSQL, Redis and Kafka themselves: row locks, SKIP LOCKED, PEXPIRE and
  consumer groups are modelled by the behaviour the code relies on, and marked
  external in the map, and so are bootstrap, watermill, asynq, golang-jwt, casbin
  and redis_rate.

## 8. Plan

Order: what can corrupt or lose data first, lifecycles next, pure decisions
last.

1. (done) Outbox: `Relay`, `PgxStore`, `PgxOutbox`, `OutboxDelivery`,
   `PgxOutboxProofs`.
2. (done) `MemoryStore`/`MemoryOutbox`, `Idempotency`, `Orders`.
3. (done) `KafkaConsumer`, `Inbox`, `HttpServer` and `Process`.
4. (done) `Jobs`; `Access`, `Health` and `RedisData` under `Api`.
5. (done) Proofs: every safety invariant and action property of the passing
   runs, and the safety part of the contract for both stores.
6. Next: what the proofs use of single components, stated as theorems a reader
   can cite (the type invariants of the other systems, the order of the rows in
   one claim of `PgxStore`), and action properties about what a restart may not
   undo in `Jobs` and `Orders`.
