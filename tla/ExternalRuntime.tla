--------------------------- MODULE ExternalRuntime ---------------------------
(***************************************************************************)
(* externalQueueRuntime over a broker driver: admission of dispatches,     *)
(* registration of handlers, StartWorkers and Shutdown, composed with the  *)
(* drivers' producers and workers.                                         *)
(*                                                                         *)
(* StartWorkers runs in three steps (the attempt is announced; the worker  *)
(* is created, published and given its handlers; the worker is activated), *)
(* because it releases the mutex in between.  Shutdown waits for the       *)
(* admitted operations, stops the worker, waits for the operations again   *)
(* and closes the producer, each in a step of its own; a deadline may end  *)
(* it at each wait.                                                        *)
(***************************************************************************)
EXTENDS RabbitMQDriver, SQSDriver, NATSDriver, RedisDriver

vars == <<variant, ready, parked, slots, collector, claim, disp, worker, runtime, past, faults>>

Operations == {j \in Jobs : disp[j] = "publishing"}

(***************************************************************************)
(* Dispatch                                                                *)
(***************************************************************************)
\* A continuation holds a permit while the handler that issued it runs.
HasPermit(j) == j \in variant.children /\ \E s \in SlotIds : slots[s].pc = "run" /\ slots[s].job = 1

Admits(j) == ~runtime.closed /\ (~runtime.draining \/ HasPermit(j))

\* acquireOperation and the claim; then the driver publishes.
Dispatch(j) ==
  /\ disp[j] = "new"
  /\ j \in variant.children => HasPermit(j)
  /\ IF Admits(j) /\ (Redis => RedisAccepts(j)) /\ Acquires(j)
     THEN disp' = [disp EXCEPT ![j] = "publishing"] /\ claim' = Acquired(j)
     ELSE disp' = [disp EXCEPT ![j] = "done"] /\ UNCHANGED claim
  /\ UNCHANGED <<variant, ready, parked, slots, collector, worker, runtime, past, faults>>

Publish(j) ==
  \/ \E o \in RabbitEnqueues, arrived \in BOOLEAN : RabbitDispatch(j, o, arrived)
  \/ \E o \in Outcomes, arrived \in BOOLEAN : SQSDispatch(j, o, arrived)
  \/ \E o \in Outcomes, arrived \in BOOLEAN : NATSDispatch(j, o, arrived)
  \/ \E o \in RedisEnqueues, arrived \in BOOLEAN : RedisDispatch(j, o, arrived)

(***************************************************************************)
(* Register and StartWorkers                                               *)
(***************************************************************************)
\* A published worker generation is given the handler at once.
Installs == ~runtime.draining /\ runtime.worker /\ (runtime.start # "no" \/ runtime.started)

\* owed: types registered before the drain began, which a worker must serve.
Register(j) ==
  /\ j \notin runtime.registered
  /\ runtime' = [runtime EXCEPT !.registered = @ \cup {j},
                                !.handlers = IF Installs THEN @ \cup {j} ELSE @,
                                !.owed = IF runtime.draining THEN @ ELSE @ \cup {j}]
  /\ UNCHANGED <<variant, ready, parked, slots, collector, claim, disp, worker, past, faults>>

StartWorkers ==
  /\ ~runtime.closed /\ ~runtime.draining /\ ~runtime.started /\ runtime.start = "no"
  /\ runtime' = [runtime EXCEPT !.start = "begun"]
  /\ UNCHANGED <<variant, ready, parked, slots, collector, claim, disp, worker, past, faults>>

\* The worker is created, unless one was kept, published and caught up.
PublishWorker(o) ==
  /\ runtime.start = "begun"
  /\ Charged(o)
  /\ runtime' = IF o = "failed" THEN [runtime EXCEPT !.start = "no"]
                ELSE [runtime EXCEPT !.start = "published", !.worker = TRUE,
                                     !.handlers = @ \cup runtime.registered]
  /\ o = "failed" => ~runtime.worker
  /\ UNCHANGED <<variant, ready, parked, slots, collector, claim, disp, worker, past>>

DriverStarted(w) ==
  CASE Rabbit -> RabbitWorkerStarted(w) [] SQS -> SQSWorkerStarted(w)
    [] NATS -> NATSWorkerStarted(w) [] Redis -> RedisWorkerStarted(w)

\* The driver's StartWorkers; the worker stays owned when it fails.
ActivateWorker(o) ==
  /\ runtime.start = "published"
  /\ o = "ok" => (NATS => NATSCanStart(worker))
  /\ Charged(o)
  /\ worker' = IF o = "ok" THEN DriverStarted(worker) ELSE worker
  /\ runtime' = [runtime EXCEPT !.start = "no", !.started = (o = "ok")]
  /\ UNCHANGED <<variant, ready, parked, slots, collector, claim, disp, past>>

\* RabbitMQ and SQS loops also end with the context given to StartWorkers.
StartContextEnds ==
  /\ Rabbit \/ SQS
  /\ worker.loops
  /\ Fault
  /\ worker' = [worker EXCEPT !.loops = FALSE]
  /\ UNCHANGED <<variant, ready, parked, slots, collector, claim, disp, runtime, past>>

(***************************************************************************)
(* Shutdown                                                                *)
(***************************************************************************)
\* Shutdown during a start: no new work, then it waits for the start to end.
DrainWhileStarting ==
  /\ runtime.start # "no" /\ ~runtime.draining
  /\ runtime' = [runtime EXCEPT !.draining = TRUE]
  /\ UNCHANGED <<variant, ready, parked, slots, collector, claim, disp, worker, past, faults>>

Shutdown ==
  /\ runtime.start = "no" /\ runtime.stop = "no" /\ ~runtime.closed
  /\ runtime' = [runtime EXCEPT !.draining = TRUE,
                                !.stop = IF Operations = {} THEN "drain" ELSE "operations"]
  /\ UNCHANGED <<variant, ready, parked, slots, collector, claim, disp, worker, past, faults>>

DriverStopping(w) ==
  CASE Rabbit -> RabbitWorkerStopping(w) [] SQS -> SQSWorkerStopping(w)
    [] NATS -> NATSWorkerStopping(w) [] Redis -> RedisWorkerStopping(w)

\* waitForRuntimeOperations, before and after the drain of the worker.
OperationsEnd ==
  /\ runtime.stop \in {"operations", "again"} /\ Operations = {}
  /\ runtime' = [runtime EXCEPT !.stop = IF @ = "again" THEN "close" ELSE "drain"]
  /\ UNCHANGED <<variant, ready, parked, slots, collector, claim, disp, worker, past, faults>>

\* Mutant: the operations are not waited for a second time.
AfterDrainAtOnce == "close"

\* A handler may have admitted a descendant after the first wait.
AfterDrain == IF Operations = {} THEN "close" ELSE "again"

\* A running worker is told to stop.
StopWorker ==
  /\ runtime.stop = "drain"
  /\ runtime' = [runtime EXCEPT !.stop = IF runtime.worker THEN "worker" ELSE AfterDrain]
  /\ worker' = IF worker.started /\ ~worker.stopping THEN DriverStopping(worker) ELSE worker
  /\ UNCHANGED <<variant, ready, parked, slots, collector, claim, disp, past, faults>>

DriverDrained ==
  CASE Rabbit -> RabbitWorkerDrained [] SQS -> SQSWorkerDrained
    [] NATS -> NATSWorkerDrained [] Redis -> RedisWorkerDrained
DriverStopped(w) ==
  CASE Rabbit -> RabbitWorkerStopped(w) [] SQS -> SQSWorkerStopped(w)
    [] NATS -> NATSWorkerStopped(w) [] Redis -> RedisWorkerStopped(w)

\* The driver's own goroutine ends the drain.
WorkerDrained ==
  /\ worker.stopping /\ DriverDrained
  /\ worker' = DriverStopped(worker)
  /\ UNCHANGED <<variant, ready, parked, slots, collector, claim, disp, runtime, past, faults>>

\* NATS may report that its connection did not drain, once.
WorkerStopped(o) ==
  /\ runtime.stop = "worker" /\ ~worker.started
  /\ o = "failed" => NATS /\ worker.spent
  /\ Charged(o)
  /\ runtime' = IF o = "failed" THEN [runtime EXCEPT !.stop = "no"]
                ELSE [runtime EXCEPT !.stop = AfterDrain, !.worker = FALSE, !.started = FALSE, !.handlers = {}]
  /\ UNCHANGED <<variant, ready, parked, slots, collector, claim, disp, worker, past>>

\* The producer is closed, and no operation is admitted any more.
CloseProducer ==
  /\ runtime.stop = "close"
  /\ runtime' = [runtime EXCEPT !.stop = "no", !.draining = FALSE, !.closed = TRUE]
  /\ UNCHANGED <<variant, ready, parked, slots, collector, claim, disp, worker, past, faults>>

\* The caller's deadline: Shutdown fails and can be called again.  RabbitMQ
\* closes its channel under the deliveries in flight.
ShutdownDeadline ==
  /\ runtime.stop \in {"operations", "worker", "again"}
  /\ Fault
  /\ runtime' = [runtime EXCEPT !.stop = "no"]
  /\ IF Rabbit /\ runtime.stop = "worker" /\ worker.started
     THEN worker' = RabbitChannelCloses /\ ready' = AllReturned /\ slots' = AllLetGo
          /\ past' = Duplicated(Held)
     ELSE UNCHANGED <<worker, ready, slots, past>>
  /\ UNCHANGED <<variant, parked, collector, claim, disp>>

(***************************************************************************)
(* Crash                                                                   *)
(***************************************************************************)
\* Tasks whose lease ends with the process when their transport budget is spent.
LeasesSpent == {s \in Held : Redis /\ Archives(s, "lease")}

\* The process ends and a new one starts.  Leases and channels end with it;
\* claims in memory are gone, and so is what NATS had handed out.
Crash ==
  /\ Fault
  /\ ready' = IF NATS THEN EmptyBag ELSE WithCopies(ready, Held \ LeasesSpent)
  /\ parked' = IF Redis THEN WithCopies(parked, LeasesSpent) ELSE EmptyBag
  /\ slots' = [s \in SlotIds |-> IdleSlot]
  /\ collector' = NewStatsCollector(Keys)
  /\ claim' = IF Redis THEN claim ELSE Nobody
  /\ disp' = [j \in Jobs |-> IF disp[j] = "publishing" THEN "done" ELSE disp[j]]
  /\ worker' = NoWorker
  /\ runtime' = NewRuntime
  /\ past' = [Duplicated({s \in Held : Replaced(s)}) EXCEPT
                          !.lapsed = IF Redis THEN @ ELSE @ \cup ({claim} \ {Nobody}),
                          !.excused = IF NATS THEN Jobs ELSE @ \cup {slots[s].job : s \in LeasesSpent}]
  /\ UNCHANGED variant

(***************************************************************************)
(* Specification                                                           *)
(***************************************************************************)
RuntimeStep ==
  \/ StartWorkers \/ Shutdown \/ DrainWhileStarting
  \/ \E o \in {"ok", "failed"} : PublishWorker(o) \/ ActivateWorker(o) \/ WorkerStopped(o)
  \/ OperationsEnd \/ StopWorker \/ WorkerDrained \/ CloseProducer
  \/ \E j \in Jobs : Dispatch(j) \/ Publish(j) \/ Register(j)

SlotStep == \E s \in SlotIds : RabbitSlot(s) \/ SQSSlot(s) \/ NATSSlot(s) \/ RedisSlot(s)

BrokerStep ==
  \/ \E m \in DOMAIN ready : BecomeDue(m)
  \/ \E m \in DOMAIN parked, o \in Outcomes : NATSTimer(m, o)
  \/ Redis /\ \E m \in DOMAIN ready \cup DOMAIN parked : RetryJob(m) \/ CancelJob(m) \/ DeleteJob(m)
  \/ RabbitConnectionLost \/ RedisShutdownTimeout \/ StartContextEnds \/ ExpireClaim
  \/ ShutdownDeadline \/ Crash

Next == RuntimeStep \/ SlotStep \/ BrokerStep
Spec == Init /\ [][Next]_vars

(***************************************************************************)
(* Properties                                                              *)
(***************************************************************************)
\* Where a job that is not over still is: in the broker, or, with NATS, in the
\* hands of the worker.
InTheBroker(j) ==
  \/ \E m \in DOMAIN ready : m.job = j
  \/ NATS /\ \E m \in DOMAIN parked : m.job = j
  \/ \E s \in SlotIds : slots[s].job = j /\ (slots[s].held \/ NATS)

\* A message the broker took is never lost before an attempt succeeded or
\* failed for good: replace-then-acknowledge, requeueing on every error path,
\* the Redis transport reserve and the drain of a NATS worker keep it.  It may
\* be dropped when its type was not registered before the drain, by an operator,
\* where Core NATS documents a loss, and when Asynq archives an uncommitted or
\* lost attempt whose reserve a panic, an unknown type, a timeout or a
\* cancellation had spent.
NoJobLost ==
  \A j \in past.sent \ (past.ended \cup past.excused) : InTheBroker(j)

\* No handler runs an attempt beyond the job's retry budget, whichever side
\* counts it: the message the driver publishes again, or Asynq with the slot
\* the driver reserved.  That slot becomes an attempt, and no more than one,
\* only when the last attempt passed redisSettlementError by: a panic, a type
\* the mux did not know, or a context that ended by the timeout or CancelJob
\* before Asynq read what the handler returned.
AttemptBudget ==
  \A s \in SlotIds : slots[s].pc = "run" =>
    LET j == slots[s].job
    IN  slots[s].attempt <= IF j \in past.unclassified THEN MaxRetry[j] + 1 ELSE MaxRetry[j]

\* With a settlement boundary (RabbitMQ, SQS) a published success is final: the
\* broker holds no copy of the job that another attempt could come from, through
\* failed deletions, closed channels, retries and crashes.  The exception is a
\* second copy, made when a hold ended, an answer was lost, or an original could
\* not be settled after its replacement.
SuccessIsFinal ==
  Deferring => \A j \in past.facts \ past.copied :
    /\ \A m \in DOMAIN ready : m.job # j
    /\ \A s \in Held : slots[s].job = j => Replaced(s)

\* The collector's Active gauge is exactly the number of executions that are
\* not over: handlers that run and successes that wait for their settlement,
\* through failed settlements, duplicate deliveries and replacements.
ActiveGaugeExact ==
  collector.active =
    Cardinality({s \in SlotIds : slots[s].pc = "run" \/ (Deferring /\ Succeeds(s))})

\* The unique key stays claimed by a job whose message the broker may hold
\* until the claim's TTL or, for claims in memory, the end of the process;
\* neither an unclear publication nor the late release of another job's
\* expired claim gives it up.  The exception is RabbitMQ: a context that ends
\* between the send and the wait for its confirmation releases the claim.
ClaimIsKept ==
  variant.keyed =>
    \A j \in Jobs : (disp[j] = "publishing" \/ j \in past.sent \ past.cancelled)
                      /\ j \notin past.lapsed => claim = j

\* When Shutdown has closed the producer, nothing uses it: the worker has
\* stopped, no NATS timer is pending, no handler runs and no dispatch is in
\* progress.  The exception is a handler Asynq no longer waits for, because its
\* context, its lease or the server's shutdown timeout ended: it may still run,
\* and the permit it keeps may admit a dispatch that the close overtakes.
CleanShutdown ==
  runtime.closed =>
    /\ ~worker.started
    /\ NATS => parked = EmptyBag
    /\ \A s \in SlotIds : slots[s].pc = "idle" \/ Orphan(s)
    /\ Operations = {} \/ past.abandoned
=============================================================================
