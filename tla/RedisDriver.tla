---------------------------- MODULE RedisDriver ----------------------------
(***************************************************************************)
(* driver/redisqueue over Asynq.  The task, its retry counter and its      *)
(* lease live in Redis, and Asynq settles a task by what the handler       *)
(* returns, or by the end of its context or lease while the handler runs:  *)
(* it archives on SkipRetry or when the transport budget is used up,       *)
(* before it asks whether the error is a failure.  The driver reserves one *)
(* transport retry so that this never ends an uncommitted attempt.         *)
(***************************************************************************)
EXTENDS Broker

Redis == Driver("redis")

(***************************************************************************)
(* Producer                                                                *)
(***************************************************************************)
\* A backoff is refused before the claim.
RedisAccepts(j) == j \notin variant.backoff

\* The budget given to Asynq: the application's and one reserved slot.
TransportMaxRetry(j) == MaxRetry[j] + 1

\* "failed": Acquire returned an error; "duplicate": Asynq's physical key is held
\* by another producer, which is no fault; "unclear": any other enqueue error.
RedisEnqueues == {"ok", "failed", "duplicate", "unclear"}
RedisArrives(o) ==
  CASE o = "ok" -> {TRUE} [] o \in {"failed", "duplicate"} -> {FALSE} [] o = "unclear" -> BOOLEAN

\* An Acquire that failed may have set the key; compensation by token may fail.
RedisClaims(j, o) == IF o \in {"failed", "duplicate"} THEN {Release(j), claim} ELSE {claim}

RedisDispatch(j, o, arrived) ==
  /\ Redis /\ disp[j] = "publishing"
  /\ o \in {"failed", "duplicate"} => variant.keyed
  /\ arrived \in RedisArrives(o)
  /\ IF o = "duplicate" THEN UNCHANGED faults ELSE Charged(o)
  /\ Delivery(j, arrived)
  /\ claim' \in RedisClaims(j, o)
  /\ past' = Sent(j, arrived)
  /\ DispatchEnds(j)
  /\ UNCHANGED <<variant, parked, slots, collector, worker, runtime>>

(***************************************************************************)
(* Worker                                                                  *)
(***************************************************************************)
RedisWorkerStarted(w) == [w EXCEPT !.started = TRUE, !.loops = TRUE, !.open = TRUE]
RedisWorkerStopping(w) == [w EXCEPT !.stopping = TRUE, !.loops = FALSE]

\* Asynq does not wait for a handler whose task it has settled or given back.
Orphan(s) == Redis /\ slots[s].pc = "run" /\ ~slots[s].held
RedisWorkerDrained == \A s \in SlotIds : slots[s].pc = "idle" \/ Orphan(s)
RedisWorkerStopped(w) == NoWorker

\* The budget a handler sees: the header's, when Asynq's is one more.
redisApplicationMaxRetry(j) ==
  IF MaxRetry[j] + 1 = TransportMaxRetry(j) THEN MaxRetry[j] ELSE TransportMaxRetry(j)

RedisDecision(s, err) == ClassifyAttempt(slots[s].attempt, redisApplicationMaxRetry(slots[s].job), err)

\* An attempt ends past redisSettlementError: when it was the last one, the
\* reserved retry becomes an attempt.
Unclassified(j, attempt) ==
  IF attempt < MaxRetry[j] THEN past.unclassified ELSE past.unclassified \cup {j}

\* Asynq delivers a delayed task when it is due.  Its mux answers an unknown
\* type with an error of its own, which archives the task on its last attempt.
RedisReceive(s, m) ==
  LET known == m.job \in runtime.handlers
      pc == IF known THEN "run" ELSE "ack"
  IN  /\ Redis /\ worker.loops /\ Takes(s, m) /\ m.due
      /\ ready' = BagRemove(ready, m)
      /\ slots' = [slots EXCEPT ![s] = [Taken(m, pc, TRUE) EXCEPT !.err = IF known THEN @ ELSE "unknown"]]
      /\ collector' = Starts(s, m, pc)
      /\ past' = IF known THEN past
                 ELSE [Unserved(m, IF m.attempt < TransportMaxRetry(m.job) THEN pc ELSE "drop")
                         EXCEPT !.unclassified = Unclassified(m.job, m.attempt)]
      /\ UNCHANGED <<variant, parked, claim, disp, worker, runtime, faults>>

\* Nobody reads what an orphan returns.
RedisReturns(s, err) == Redis /\ HandlerReturns(s, err, IF Orphan(s) THEN "idle" ELSE "ack")

\* processTask publishes the failure and panics again; Asynq recovers.
RedisPanics(s) ==
  LET f == Finishes(s, "panic")
  IN  /\ Redis /\ slots[s].pc = "run"
      /\ slots' = [slots EXCEPT ![s] = IF Orphan(s) THEN IdleSlot
                                       ELSE [@ EXCEPT !.pc = "ack", !.err = "panic"]]
      /\ collector' = f.collector
      /\ past' = IF Orphan(s) THEN past
                 ELSE [past EXCEPT !.unclassified = Unclassified(slots[s].job, slots[s].attempt)]
      /\ UNCHANGED <<variant, ready, parked, claim, disp, worker, runtime, faults>>

\* Mutant: a terminal failure is returned as it is.
SkipsRetryNever(s, err) == FALSE

\* redisSettlementError joins SkipRetry to a terminal failure; it sees only
\* what a handler returned.
SkipsRetry(s, err) == err \in Errors /\ RedisDecision(s, err) = "failed"

redisAttemptIsFailure(err) == err \notin {"nil", "uncommitted", "lease"}

\* Asynq archives a task that ends by err, or gives it another attempt.
Archives(s, err) ==
  err # "nil" /\ (SkipsRetry(s, err) \/ slots[s].attempt >= TransportMaxRetry(slots[s].job))
AsynqSettles(s, err) ==
  /\ ready' = IF err = "nil" \/ Archives(s, err) THEN ready
              ELSE BagAdd(ready, [Copy(s) EXCEPT !.attempt = IF redisAttemptIsFailure(err) THEN @ + 1 ELSE @])
  /\ parked' = IF Archives(s, err) THEN BagAdd(parked, Copy(s)) ELSE parked

\* A panic or an ended context on the last transport attempt ends the job.  An
\* uncommitted attempt or an ended lease archives it, too, once the reserved
\* retry was spent on an attempt the driver did not classify.
Archived(s, err) ==
  IF ~(Archives(s, err) /\ slots[s].job \in past.unclassified) THEN past
  ELSE CASE err \in {"panic", "context"} -> [past EXCEPT !.ended = @ \cup {slots[s].job}]
         [] err \in {"uncommitted", "lease"} -> [past EXCEPT !.excused = @ \cup {slots[s].job}]
         [] OTHER -> past

\* A settlement that failed leaves the task to the end of its lease.
RedisSettle(s, o) ==
  LET err == IF o = "ok" THEN slots[s].err ELSE "lease"
  IN  /\ Redis /\ slots[s].pc = "ack"
      /\ Charged(o)
      /\ IF slots[s].held THEN AsynqSettles(s, err) /\ past' = Archived(s, err)
         ELSE UNCHANGED <<ready, parked, past>>
      /\ Finish(s)
      /\ UNCHANGED <<variant, collector, claim, disp, worker, runtime>>

\* Asynq ends an attempt by err while its handler runs or before it reads what
\* the handler returned.
AsynqEnds(s, err, history) ==
  /\ Redis /\ slots[s].held
  /\ Fault
  /\ AsynqSettles(s, err)
  /\ past' = [history EXCEPT !.abandoned = @ \/ slots[s].pc = "run"]
  /\ UNCHANGED <<variant, collector, claim, disp, worker, runtime>>

\* The context ends: by the timeout every task has, or by CancelProcessing,
\* which is CancelJob of an active task.  A handler that returns in time is
\* settled by RedisSettle instead.
RedisContextEnds(s) ==
  /\ AsynqEnds(s, "context", [Archived(s, "context") EXCEPT
                  !.unclassified = Unclassified(slots[s].job, slots[s].attempt)])
  /\ slots' = [slots EXCEPT ![s] = IF @.pc = "run" THEN [@ EXCEPT !.held = FALSE] ELSE IdleSlot]

\* A lease runs out: Asynq hands the task out again on the same attempt.
RedisLeaseExpires(s) ==
  /\ AsynqEnds(s, "lease", Archived(s, "lease"))
  /\ slots' = [slots EXCEPT ![s].held = FALSE]

\* Asynq's own shutdown timeout: unfinished tasks go back to the queue while
\* their handlers still run.
RedisShutdownTimeout ==
  /\ Redis /\ worker.stopping /\ ~RedisWorkerDrained
  /\ Fault
  /\ worker' = RedisWorkerStopped(worker)
  /\ ready' = AllReturned
  /\ slots' = [s \in SlotIds |-> IF slots[s].pc = "run" THEN [slots[s] EXCEPT !.held = FALSE] ELSE IdleSlot]
  /\ past' = [past EXCEPT !.abandoned = @ \/ \E s \in SlotIds : slots[s].pc = "run"]
  /\ UNCHANGED <<variant, parked, collector, claim, disp, runtime>>

(***************************************************************************)
(* Administration: the Asynq inspector refuses a task that is being        *)
(* processed.  CancelJob ends such a task's context instead, see           *)
(* RedisContextEnds.  Fault bounds how often an operator intervenes.       *)
(***************************************************************************)
\* RunTask: an archived or a scheduled task is pending again.
RetryJob(m) ==
  /\ \/ m \in DOMAIN parked /\ ready' = BagAdd(ready, m) /\ parked' = BagRemove(parked, m)
     \/ m \in DOMAIN ready /\ ~m.due /\ ready' = BagAdd(BagRemove(ready, m), [m EXCEPT !.due = TRUE])
        /\ UNCHANGED parked
  /\ Fault
  /\ past' = [past EXCEPT !.excused = @ \ {m.job}]
  /\ UNCHANGED <<variant, slots, collector, claim, disp, worker, runtime>>

\* ArchiveTask of a task that is not active.
CancelJob(m) ==
  /\ m \in DOMAIN ready
  /\ ready' = BagRemove(ready, m)
  /\ parked' = BagAdd(parked, [m EXCEPT !.due = TRUE])
  /\ Fault
  /\ past' = [past EXCEPT !.excused = @ \cup {m.job}]
  /\ UNCHANGED <<variant, slots, collector, claim, disp, worker, runtime>>

DeleteJob(m) ==
  /\ \/ m \in DOMAIN ready /\ ready' = BagRemove(ready, m) /\ UNCHANGED parked
     \/ m \in DOMAIN parked /\ parked' = BagRemove(parked, m) /\ UNCHANGED ready
  /\ Fault
  /\ past' = [past EXCEPT !.excused = @ \cup {m.job}]
  /\ UNCHANGED <<variant, slots, collector, claim, disp, worker, runtime>>

RedisSlot(s) ==
  \/ \E m \in DOMAIN ready : RedisReceive(s, m)
  \/ \E err \in Errors : RedisReturns(s, err)
  \/ RedisPanics(s)
  \/ \E o \in {"ok", "failed"} : RedisSettle(s, o)
  \/ RedisContextEnds(s) \/ RedisLeaseExpires(s)
=============================================================================
