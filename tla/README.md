# goforj/queue: formal specifications

TLA+ models of the parts of this repository that are hard to test: the SQL
driver's claims, leases, unique keys and migrations, the RabbitMQ, SQS, NATS and
Redis drivers, the workflow engine's chains and batches over at-least-once
delivery, the transactions of the SQL workflow store, and the lifecycle of both
runtimes. TLC checks them on small instances (`*.cfg`); TLAPS proves the safety
of the SQL driver, of chains and batches, of the SQL workflow store and of the
native runtime for every instance (section 6). `PROJECT.json` maps every definition to the lines it models
and lists the hazards, runs and theorems.

    tlc -workers 2 -config DatabaseQueueOneJob.cfg MCDatabaseQueue
    tlapm DatabaseQueueProofs.tla

## 1. The system

| Part | State | Operations | What makes it hard | Modelled in |
|---|---|---|---|---|
| SQL driver `driver/sqlqueuecore` | rows of `queue_jobs`, processing tokens, in-memory `dbJob` | Dispatch, claim, stale recovery, markDone, markFailed, lineage repair, Retry/Cancel/Delete/Clear | leases that end under a running handler, statements that commit and report an error, crashes | `DatabaseQueue`, promise in `DeliveryQueue` |
| the same, around the rows | schema, `queue_unique_locks`, worker generation, owned handle | migration, unique dispatch, prune, start, drain, close | several processes on one database, older releases, implicit starts against Shutdown | `DatabaseBackend` |
| Broker drivers `driver/{rabbitmq,sqs,nats,redis}queue` | messages in the broker, deliveries in goroutines, unique claims | Dispatch, receive, republish, settle, start, stop; Retry/Cancel/Delete on Redis | calls that fail after they took effect, holds that end under a handler, deadlines, crashes | `RabbitMQDriver`, `SQSDriver`, `NATSDriver`, `RedisDriver` over `Broker` |
| Statistics `observability.go` | Active gauge and its executions | Observe | failed settlements and duplicates end executions out of order | `StatsCollector` |
| Attempt classification `busruntime` | none | ClassifyAttempt, Exhausted | one decision shared by all drivers and the engine | `Attempt` |
| Settlement boundary, provenance `busruntime` | deferred facts, generation ids | commit after settlement | facts must not precede the settlement that makes them true | `Transport`, `WorkflowRuntime` |
| Chains `internal/workflow/chain.go` | ChainState, node receipts | builder, node handler, recovery | duplicates, lost successors, unclear commits | `ChainWorkflow` |
| Batches `internal/workflow/batch.go` | BatchState, member receipts | builder with rejection, member handler, recovery, terminal ownership | concurrent last members, builder against members | `BatchWorkflow` |
| Callbacks `internal/workflow/runtime.go` | closures of the builder's process, stored markers | dispatch, claim, invoke, inline invoke | at most once over duplicate envelopes | `WorkflowRuntime` |
| Workflow stores | the above | settle, advance, fail, cancel, prune | interleaved transactions, unclear commits and their read-back | promise in `WorkflowStore`, `WorkflowStoreSQL`; one step each inside the two workflow modules |
| Local queue `queue_local.go` | channel, workers, reservations, unique claims, pause | Dispatch, delays, worker loop, drain | full channel, acceptance gate, drain against dispatch | `LocalQueue` |
| Runtime lifecycle `queue.go` | start/shutdown attempts, operation leases, handlers | Register, StartWorkers, Dispatch, Shutdown, Pause, Resume | concurrent and timed-out lifecycle calls | `QueueRuntime` (native), `ExternalRuntime` (brokers) |
| Direct jobs, fakes, builders, null queue | see section 7 | | | no |

A job goes from the façade through the runtime's operation lease to a driver;
the driver delivers it to a handler, perhaps several times; workflow handlers
keep their state in a workflow store, dispatch further envelopes through the
same driver, and return an error whose class (`Attempt`) tells the driver how to
settle.

## 2. Modules

```
Attempt ── DatabaseQueue ── MCDatabaseQueue         DeliveryQueue (abstract)
   │            └──────────────────────────────────────┘ Abstract == INSTANCE
   ├────── Transport ── WorkflowRuntime ─┬─ ChainWorkflow ── MCChainWorkflow
   │                                     └─ BatchWorkflow ── MCBatchWorkflow
   ├────── LocalQueue ── QueueRuntime ── MCQueueRuntime
   └────── Broker ─┬─ RabbitMQDriver ─┐
   StatsCollector ─┘  SQSDriver ──────┼─ ExternalRuntime ── MCExternalRuntime
                      NATSDriver ─────┤
                      RedisDriver ────┘
DatabaseBackend ── MCDatabaseBackend
WorkflowStoreSQL ── MCWorkflowStoreSQL              WorkflowStore (abstract)
           └────────────────────────────────────────────┘ Promise == INSTANCE

Proofs:
DatabaseQueue ── DatabaseQueueProofs
DatabaseBackend ── DatabaseBackendProofs
ChainWorkflow ── ChainWorkflowProofs
BatchWorkflow ── BatchWorkflowProofs
WorkflowStoreSQL ── WorkflowStoreMapping ── WorkflowStoreSafety
                      ── WorkflowStoreRefinement
QueueRuntime ── QueueRuntimeProofs
```

**DatabaseQueue.** `rows` is the table, `workers[w]` the `dbJob` and place of one
worker loop, `issued` the token source; `receipt` is the workflow transition
receipt a handler may have committed. `claims` is history: what became of each
token. One database statement (or claim transaction) is one step. Statements end
`ok`, `failed` or `ambiguous` (took effect, reported an error). `available_at`
and the lease are flags that time turns (`BecomeAvailable`, `LeaseExpires`).
`Claim`, `recoverStaleProcessing`, `Settle` (one try of `markDone`/`markFailed`
and the commit of the deferred facts), `RestoreLineage` and the operators'
`RetryJob`, `CancelJob`, `DeleteJob`, `ClearQueue` are the code's statements.
A panic in a handler ends the process: `Crash`.

**DeliveryQueue** is what the driver promises to the code above it, with no
workers, tokens or faults: an accepted job stays live until completed or
archived once, within its retry budget, and its success is announced only with
its completion.

**DatabaseBackend** follows several processes, each a `nativeQueueRuntime` over a
`databaseQueue`, that share one database. One statement or critical section is
one step. `schema` is what the database has of the tables, columns and index;
`locks` and `rows` are the committed tables, `tx[d]` what the transaction of a
Dispatch has written and not yet committed (another claim of the same key
waits). A unique job has two keys that need not agree: `Digest`, the historical
hash of its physical bytes, and `Identity`, the canonical one; jobs of one
identity may differ in their bytes, and two identities may share a digest.
`host[p]` has the fields of `databaseQueue` and of the runtime. `scene`
is the deployment: who starts, who stops, who has `DisableAutoMigrate`, what an
older release left. Claiming and settling a row, which `DatabaseQueue` has in
detail, are one step each.

**Broker and its drivers.** `ready` is the bag of message copies a worker may
receive, `parked` the copies a NATS worker keeps until they are due and the tasks
Asynq archived; `slots` are the goroutines that process a delivery, from receive
to settlement; `disp` is the progress of each Dispatch. A call to a broker is
`ok`, `failed` or `unclear` (took effect, reported an error). The broker itself
is external: it hands a copy to one slot, and takes it back when its hold (AMQP
channel, SQS visibility, Asynq lease) ends. Asynq also settles a task whose
context has ended (by its timeout or `CancelProcessing`) without what its handler
returns; the handler goes on as an orphan, `Orphan(s)`. `variant` says which driver, which
jobs share a unique key, have a delay or a backoff, or are dispatched by another
job's handler, and how many faults happen. `past` is history. Each driver module has its producer, its worker's start and stop,
and its receive, return and settlement steps. `StatsCollector` is the collector
as a value the observed events change.

**ExternalRuntime** composes the drivers with `externalQueueRuntime`: admission
by operation lease or continuation permit, `Register`, `StartWorkers` in three
steps (announced; worker created, published and caught up; activated), and
`Shutdown` in the order of the code: operations, worker, operations again,
producer. `Crash` ends the process.

**WorkflowStore** is what a store promises the engine: every operation atomic, the
first writer of a member wins, one writer ends the workflow, answers are true.
**WorkflowStoreSQL** has the transactions statement by statement: `locks` says
which transaction has written a row, `calls` where each settlement stands,
`pruner` where a Prune stands. On SQLite one writer runs at a time; PostgreSQL,
at its default READ COMMITTED, locks the rows a statement changes or selects
`FOR UPDATE`, and a subselect reads committed rows without a lock. MySQL is not a
dialect of the model (section 7). `history` is what the refinement mapping shows
`WorkflowStore`.

**Transport** is a driver as the workflow engine sees it: envelopes, deliveries
(generations), lost claims, duplicates and settlement by decision. `Provenance`
is TRUE for the SQL driver (deliveries carry generation ids) and FALSE for the
brokers; `Deferring` says whether positive facts wait for settlement.

**WorkflowRuntime** has what chains and batches share: `emit`, receipts,
`transitionReceiptOwnsRecoveredFacts`, callbacks with their markers and
closures, and crashes of the builder's and of other processes.

**ChainWorkflow / BatchWorkflow.** The builder and the handler are split at every
store call and every dispatch, so any number of deliveries of one node or member
interleave between them. A fact is identified by what its event id is computed
from (kind, member, envelope, attempt), so "published twice with the same id" is
one fact and "under another id" is two. `swallowed` and `rejected` are history.

**LocalQueue / QueueRuntime.** `job[j].call` is where the goroutine submitting a
job stands and `job[j].work` where its execution stands; the two move
independently. `driver` is chosen in `Init`, so each run covers the sync driver
and the worker pool. `workPending`/`workGen` stand for the reservation counter
and the generations of its idle channel: a waiter holds the generation it read
under the lock, as the code holds the channel. `QueueRuntime` adds
`nativeQueueRuntime`: each critical section of a mutex is one action, joined with
the wait before it. Joining loses nothing: the idle channels, the end of a start
attempt under a drain and the end of the workers of a closed channel are stable
conditions, so a call that stops waiting and is then delayed looks to the others
like one that still waits.

## 3. Runs

All pass unless marked. Properties are stated, with the code they are about, at
the end of each module.

| Run | Question | Bounds | States |
|---|---|---|---|
| `sql_one_job` | Do tokens fence? Does `attempt` count settled failures only, within the budget? Do recovery proofs tell the truth, and lead back to the receipt? Do facts follow settlement? | 1 job with 1 retry, 2 workers, 5 claims, 3 disruptions, 2 settlement tries | 1.7 M |
| `sql_two_jobs` | Does the driver implement `DeliveryQueue`, liveness included? | 2 jobs (one left in processing by an older release, one with backoff), ordered claims, 3 claims, 1 disruption | 96 k |
| `sql_backend` | Do unique claims exclude each other and end with their jobs? Do processes that start together converge? Is the handle closed under nobody? | 2 processes, 4 dispatches (two of one identity and other bytes, two of one digest and other identities, one continuation), 9 deployments, 2 clock ticks, 1 fault | 800 k |
| `chain_receipts` | SQL delivery: order of nodes, first transition wins, truthful facts, continuation never lost (one stated exception) | 2 nodes, 1 retry, 4 generations, 2 disruptions | 287 k |
| `chain_broker` | Delivery without provenance, callbacks: closures at most once, the chain ends | 2 nodes, 2 closures, 5 generations, 1 disruption | 145 k |
| `chain_lost` (**violation**) | The continuation is recovered without exception | as above, 6 generations | |
| `batch_receipts` | First outcome wins, one owner of the terminal transition, truthful facts | 2 members, 1 retry, fail-fast, 3 generations, 2 disruptions | 541 k |
| `batch_ends` | The closure runs at most once and only in its state; a batch whose members are all queued ends | 2 members, failures allowed, 1 closure, 3 envelopes, 4 generations, 1 disruption | 220 k |
| `runtime_drain` | Is a successful Shutdown clean? Is the channel never used after close, no job run before acceptance, a registered handler served, no claim released by a stranger? | 3 jobs (two with one unique key, one delayed continuation that may ask for redelivery), 1 worker, 1 slot, 1 starter, 2 Shutdown calls that may time out | 1.1 M |
| `runtime_ends` | Does the pool never lock up, accepted work end and Shutdown return? | 3 jobs (two continuations their handler waits for, one delayed, one with a retry), pause and resume, 1 Shutdown without deadline | 84 k |
| `store_sql` | Do the transactions implement the atomic store, ambiguous commits included? Do counters agree, is nothing reported corrupt, nothing orphaned, nobody deadlocked? | 2 members or nodes, 3 settlements, 1 cancellation, 1 Prune, 1 fault; batch and chain, with and without receipts, PostgreSQL and SQLite | 494 k |
| `brokers` | Is no message lost, no attempt beyond the budget? Is a published success final, the Active gauge exact, the unique claim kept, Shutdown clean? | each driver with 2 jobs (one retry; a continuation, a delay, a backoff, a shared key), 2 goroutines, 1 fault (NATS 2) | 1.3 M |

The violation is a disagreement of the code with its own comment: `chain.go:520`
drops a duplicate's terminal failure after the node had succeeded and does not
look at the pending successor; if the first delivery was lost before it enqueued
that successor, the chain stays active for ever, against the comment at
`chain.go:465`.

Each module has a `TypeOK` or names the shape of its variables; only the one of
`DatabaseQueue`, which the proofs need, is a result of its own.

### Known deviations

Where a property holds with an exception, or is left out, the code does less than
a comment or a document says:

- `batch.go:150` cancels a batch unconditionally after reading that nothing was
  processed; a member queued by a dispatch that reported an error can complete
  the batch in between, and both outcomes are published, against `batch.go:239`
  ("one aggregate terminal outcome"). `BatchWorkflow` has the behaviour.
- `batch.go:454` returns nil for a recovered delivery whose failure loses the
  race to a recorded failure, and the row is settled as a success, against
  `batch.go:398` (chains keep the failure there). `BatchWorkflow` has it, too.
- `queue_rabbitmq_impl.go:299`: a context that ends between the send and the wait
  for its confirmation yields a plain context error, so the unique claim is
  released although the message may be stored, against
  `docs/backend-guarantees.md:142` ("a missing, canceled, or failed confirmation
  is treated as ambiguous"). Exception of `ClaimIsKept`.
- `worker_redis_impl.go:105`: a panic, a type the mux does not know, or a context
  that ends (by the timeout every task has, or by `CancelJob` of an active task)
  before Asynq has read what the handler returned does not pass
  `redisSettlementError`, so Asynq spends the reserved retry on one more
  attempt, against the comment at line 152. Exception of `AttemptBudget`; once
  the reserve is spent, an uncommitted attempt or one whose lease ended may be
  archived, an exception of `NoJobLost`.
- `queue.go:980` says that a handler's permit has expired when the worker's drain
  returns. Asynq does not wait for an orphan, whose permit may still admit a
  dispatch after the last wait for operations; the producer is then closed under
  it. Exception of `CleanShutdown`.
- `store_sql.go:1058`: a `CancelBatch` or a duplicate settlement that refreshes
  the parent between two statements of a Prune leaves a batch whose member rows
  are deleted. `NoOrphans` is about rows without a parent and does not forbid it.

## 4. Bounds, and why they are enough

- *Disruptions* (`MaxDisruptions`) count crashes, failed or unclear statements,
  leases lost under a running handler, operators, and handlers that ask for
  redelivery. Two or three let a fault hit the recovery from a fault, which is
  where lineage and receipts matter; a liveness run has one, and then the
  system must come to its end.
- *Claims / generations* bound deliveries. A retry, a late worker and a recovery
  of a recovery need three to five. In the liveness runs the bound exceeds what
  the disruptions and the retry budget can use up, so progress never stops for
  want of a generation.
- *Envelopes* bound dispatches in the same way, callbacks and duplicated
  successors included.
- Two nodes or members have a first, a last and a concurrent pair; one worker
  and one slot are the smallest pool a handler could lock up.
- *Faults* (`MaxFaults` of `sql_backend` and `store_sql`, `faults` of a variant of
  `brokers`) count failed or unclear statements and calls, lost connections,
  ended holds, crashes and expired contexts. A physical duplicate on Redis is
  not one: another producer holds the key. One hits every statement of every operation; NATS has two, because
  it forgets what a crash held. Three settlements in `store_sql` are two for one
  row and one for another; two clock ticks in `sql_backend` let a claim expire
  and its successor be dispatched.
- *Deployments* (`Scenes`) and *variants* (`Variants`) are the combinations that
  meet: upgrades, claims and drains of `sql_backend` each have their own, and in
  `brokers` each driver has its continuation, its delay, its backoff and its
  shared key. A combination is chosen in `Init` and never changes.
- Workers and Shutdown callers are interchangeable; `SYMMETRY` is used in
  `sql_one_job` and `runtime_drain` only, neither of which checks liveness.
- All runs but those of the SQL workers set `CHECK_DEADLOCK FALSE`: a finished
  chain, a finished batch, a closed runtime, a settled store and a closed
  process have nothing left to do. `NoDeadlock` says of `store_sql` that no
  transactions wait for each other in a circle on SQLite and PostgreSQL. The SQL workers poll for ever and deadlock
  is checked.

## 5. Fairness

Weak fairness only, on what the code keeps doing by itself: worker loops poll,
handlers return, settlement is tried, delays and leases end (`DatabaseQueue`,
`Transport`); goroutines that can go on do, timers fire, and a handler or
`Shutdown` that has begun goes on (`QueueRuntime`). No fairness on dispatches,
operators, crashes, faults, context expiry or `Resume`. A handler that asks for
redelivery for ever keeps its job for ever, which is why that request is bounded.
`sql_backend`, `store_sql` and `brokers` check safety only and assume no fairness.

## 6. Proofs

All proofs are for any value of the constants that the named assumptions of each
module allow: any number of jobs, workers, processes, members, deliveries,
lifecycle calls and faults. Every inductive invariant was checked by TLC on the
component's run before it was proved.

| Module | Theorem | Statement |
|---|---|---|
| `DatabaseQueueProofs` | `TypeCorrect` | `Spec => []TypeOK` |
| | `OneOpenClaim` | `Spec => []OpenClaimFencesRow` |
| | `LateWorkersHaveNoEffect` | `Spec => EndedClaimsStayEnded` |
| | `RecoveryProofsAreTruthful` | `Spec => []RecoveryProofTruthful` |
| | `FactsAreSettled` | `Spec => []FactsFollowSettlement` |
| | `AttemptsCountFailures` | `Spec => []AttemptCountsFailures` |
| | `ReceiptLineageIsKept` | `Spec => []ReceiptLineageKept` |
| | `DriverImplementsQueue` | `Spec => Abstract!Spec` (safety of `DeliveryQueue`) |
| `DatabaseBackendProofs` | `StartsConverge` | `Spec => []ConcurrentStartsConverge` |
| | `HandleClosedWhenQuiet` | `Spec => []ClosedWhenQuiet` |
| | `UniqueClaimsAreTruthful` | `Spec => []ClaimsTruthful` |
| `ChainWorkflowProofs` | `NodesInOrderTheorem` | `Spec => []NodesInOrder` |
| | `FactsTruthfulTheorem` | `Spec => []FactsTruthful` |
| | `ContinuationRetainedTheorem` | `Spec => []ContinuationRetained` |
| | `CallbackAtMostOnceTheorem` | `Spec => []CallbackAtMostOnce` |
| | `FirstTransitionTheorem` | `Spec => FirstTransitionWins` |
| `BatchWorkflowProofs` | `TerminalOwnerTheorem` | `Spec => []TerminalOwner` |
| | `FactsTruthfulTheorem` | `Spec => []FactsTruthful` |
| | `CallbackAtMostOnceTheorem` | `Spec => []CallbackAtMostOnce` |
| | `FirstOutcomeTheorem` | `Spec => FirstOutcomeWins` |
| `WorkflowStoreMapping` | `TransactionsNeverDeadlock` | `Spec => []NoDeadlock` |
| `WorkflowStoreRefinement` | `TransactionsImplementStore` | `Spec => ImplementsWorkflowStore` |
| | `BatchCountersAgree` | `Spec => []CountersAgree` |
| | `ReceiptsAreReadable` | `Spec => []NoCorruptionReported` |
| | `PruneLeavesNoOrphans` | `Spec => []NoOrphans` |
| `QueueRuntimeProofs` | `ClosedQueueIsQuiet` | `Spec => []NoSendOnClosedQueue` |
| | `AcceptanceComesFirst` | `Spec => []AcceptedBeforeRun` |
| | `ShutdownIsClean` | `Spec => []CleanShutdown` |
| | `RegistrationIsServed` | `Spec => []RegisteredIsServed` |
| | `DrainingIsFinal` | `Spec => DrainIsFinal` |
| | `AcceptedClaimEndsByTTL` | `Spec => AcceptedClaimIsKept` |

**SQL driver, claims** (`JobsAssumption`, `RetryAssumption`, `BoundsAssumption`).
None of the properties is inductive alone: a late settlement is harmless only
because a worker's memory agrees with its claim, and because a token that fences
a row is open. The invariant is `ClaimInv == TypeOK /\ TableInv /\ WorkerInv`.
`TableInv` relates rows to tokens (a processing row's token is open and is that
row's; an open token fences its row; unissued tokens are free; a proof, carried
by a row or inherited by a claim, names an earlier generation of the same
attempt; a done claim's row is done, and done once). `WorkerInv` says that a busy
worker remembers the job, attempt and inherited proof of its own claim.

**SQL driver, attempts, receipts and refinement.** `CountInv` adds that `attempt`
is the number of failed claims and that no claim runs ahead of its row: a
settlement writes the attempt it remembers plus one, which counts right only
because nobody else can have settled in between. `ReceiptInv` ties the receipt of a row
to the claim that may own it, also while the owner's commit is still to come,
and to the row through at most one inheriting claim; two workers never hold one
token. With both, every statement is one step of `DeliveryQueue` or none:
`Retry` stays within the budget because the failures it counts are the attempt
`Attempt` compared.

**SQL driver, processes** (`BackendAssumption`, `ScenesAssumption`). `SchemaInv`
says what a start has found or made by each of its steps, and that no peer takes
it away. `DrainInv` says what a Shutdown has established by each of its waits,
and why nothing admitted later undoes it: a start and an outside call find the
runtime draining, a continuation finds no handler running. `ClaimInv` (of this
module) says who owns each lock row, committed or written by an open
transaction, and that a queued job has both of its keys until its window has
passed. Each key serialises its own claimants: a digest is claimed by old and new
releases, an identity by new ones only. A job of an older release and a new one
of the same identity but other bytes therefore do not exclude each other, the
duplicate window of `docs/backend-guarantees.md:80`.

**Chains** (`ChainAssumption`, `TransportAssumption`, `RuntimeAssumption`). The
stored chain only moves forward, so the invariant relates everything else to it
by conditions that survive such a move. `OrderInv`: no envelope and no delivery is
ahead of the chain. `ReceiptInv`: a receipt records the transition the chain has
made, and a delivery that reads its unclear commit back finds its own. `FactInv`
extends truthfulness to the facts that still wait for a settlement: they are
published later, by a driver that no longer looks at the store. `CallbackInv`:
the delivery about to run a closure is the only one that claimed its marker.
`ContinuationInv` carries the hardest argument: the driver forgets an envelope
only when its node is `Discharged` (the chain has ended or gone beyond, or the
successor is queued), so a handler must be discharged when it returns an error
class that settles its envelope, however it came there. Each action is first
shown to be a `StepOK`, a step described by what it may do to each variable; that
such a step keeps the invariant is then proved once.

**Batches** (`BatchAssumption` and the same two). `StoreInv` says how a batch can
have ended (cancelled, or every member settled) and which receipt owns that end;
`ConfirmInv`, `FactInv` and `CallbackInv` are as for chains, with every condition
in the form that the builder's late cancellation (section 3, deviations) cannot
revoke: `Allowed` is what it leaves of `CallbackReady`. The terminal transition
has one owner because a settlement completes a batch only if it was not complete
before, and a member is settled only once. The counters of `BatchState` are
cardinalities; what the lemmas need of them is the hypothesis `Counting`, which
`MembersCount` proves from the finite-set library.

**SQL workflow store** (`StoreAssumption`; SQLite and PostgreSQL).
`WorkflowStoreMapping` proves types,
the lock discipline `LockInv` (who holds which row at which statement, from which
the absence of circular waits follows) and that `StoreInv`, `CallInv` and
`PruneOK` tie tables, calls and the Prune to `history`, and takes each statement
that changes the workflow to its step of `WorkflowStore`.
`WorkflowStoreSafety` adds `CounterInv` (counters are those of the history),
`ReceiptInv` (a delivery settles one member; a chain only moves forward, so a
lost compare-and-swap has an answer) and `OrphanInv` (what a Prune has selected
is the whole workflow, unless a settlement has touched it since; then the Prune
leaves it). What these two modules need of cardinalities is the hypothesis
`CountsPending` or `Counting` of their lemmas; `WorkflowStoreRefinement` proves
both from the finite-set library (`PendingCount`, `MemberCount`) and concludes.

**Native runtime** (`LocalAssumption`, `RuntimeAssumption`). The argument turns on
one equation, `TreeOK`: the counter a drain waits on is the number of jobs with a
reservation that has not been given back. Once a drain has begun only a running
handler can add to that tree, so a counter that has come down to zero stays
there. `JobsOK` and `ChannelOK` say how far submitter and execution of a job can
be apart, `StopOK` what a Shutdown call knows at each of its stations, the
generation it read under the lock included.

Only model-checked:

- everything about the broker drivers and their runtime (`ExternalRuntime`):
  messages are counted in bags whose laws the prover's library does not have, and
  no invariant has been worked out for them yet;
- all liveness (`ImplementsDeliveryQueue` as far as `FairSpec`, `ChainEnds`,
  `BatchEnds`, `AcceptedWorkEnds`, `ShutdownReturns`), which is out of this
  prover's reach.

## 7. Abstractions, and what is not modelled

- Payloads, event wording, logging and metrics; the local queue's counters and
  all gauges of the collector but Active. Options of jobs are constants.
- SQL driver: listings and history only read. Two concurrent claims without SKIP
  LOCKED are serialised. `CREATE ... IF NOT EXISTS` is atomic. `DatabaseBackend`
  has one Shutdown caller per process, and the return of a start from the backend
  and the runtime's critical section after it are one step.
- Workflow stores: inside the two workflow modules one operation is one step,
  with unclear commits and their read-backs; `WorkflowStoreSQL` justifies that
  for the SQL store on SQLite and on PostgreSQL at READ COMMITTED. MySQL at
  REPEATABLE READ locks more: the row of an UPDATE that matches nothing, the
  parent a subselect of Prune reads, and gaps in the index of the receipts, which
  reach other workflows. Its settlements can be deadlock victims, as
  `integration/root/workflow_store_integration_test.go:57` expects; a victim is a
  failed statement, after which a redelivery tries again. Nothing is claimed
  about who waits for whom there. Schema creation and `Discard` are
  left out, and a callback marker is one statement there as here. Two workflows
  do not share a store.
- Workflow handlers: the facts of one handler step are published together before
  its callbacks are dispatched. The progress closure, middleware, payload
  validation and execution inside a synchronous `Dispatch` are left out.
- Local queue: the runtime's and the backend's continuation scopes are one; a
  worker's recovered panic equals a permanent failure; a panic under the sync
  driver is not modelled; one handler type and one unique key; Pause and Resume
  take their lease and act in one step; a handler does not call `Shutdown`. The
  worker count does not change.
- Brokers are external. A receive takes one message: what waits in an SQS batch
  or an AMQP prefetch buffer is as if not yet received. A draining SQS worker
  still processes the rest of its batch; in the model those messages stay for the
  next worker. An orphan of Asynq keeps its slot until it returns. An SQS delete with an old
  receipt leaves the later delivery in place. A panic under RabbitMQ, SQS and
  NATS ends the process, which is `Crash`. Redis: no `ClearQueue`, `Pause` or
  `Resume`, and every job has an explicit retry budget.
- Direct jobs (one handler without stored state), fakes, the null queue and value
  builders are not modelled; `PROJECT.json` gives the reason for each.

## 8. Plan

Model: direct jobs over `Transport` and synchronous execution in the builders;
statistics of the local queue and the collector; a SQL run in which a handler
asks for redelivery for ever and another job must still run; `ClearQueue` of
Redis.

Prove: `CleanShutdown`, `ClaimIsKept` and `NoJobLost` of the broker drivers.
