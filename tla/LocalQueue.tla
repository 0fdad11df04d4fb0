----------------------------- MODULE LocalQueue -----------------------------
(***************************************************************************)
(* The in-memory backend (queue_local.go) for its two drivers.  "sync"     *)
(* runs a job inside the caller's Dispatch; "workerpool" sends it over a   *)
(* bounded channel to worker goroutines.  A job is dispatched by an        *)
(* outside caller (Roots) or by the running handler of another job, whose  *)
(* context carries a continuation permit (busruntime.ContinuationScope).   *)
(*                                                                         *)
(* job[j].call is where the goroutine submitting j stands, job[j].work     *)
(* where the job's execution stands; both move independently, as the       *)
(* submitter and a worker do.  job[j].permits holds the jobs whose active  *)
(* permit the submitting context carries, job[j].caller the job whose      *)
(* handler waits for this Dispatch to return, 0 if none does.              *)
(*                                                                         *)
(* This module has the operations; QueueRuntime owns the lifecycle and     *)
(* puts them together.                                                     *)
(***************************************************************************)
EXTENDS Attempt, Sequences, FiniteSets

CONSTANTS
  N,            \* number of jobs ever dispatched
  Roots,        \* jobs dispatched from outside a handler
  Delayed,      \* jobs with a Delay option
  Unique,       \* jobs that share one UniqueFor key
  Awaited,      \* continuations whose handler waits for Dispatch to return
  Workers,      \* worker goroutines of the pool
  Capacity,     \* WorkerpoolConfig.QueueCapacity
  MaxRetry,     \* the Retry option of each job
  Redelivering  \* jobs whose handler may ask for redelivery

Jobs == 1..N

ASSUME LocalAssumption ==
  /\ N \in Nat \ {0}
  /\ {Roots, Delayed, Unique, Awaited, Redelivering} \subseteq SUBSET Jobs
  /\ Capacity \in Nat \ {0}
  /\ MaxRetry \in [Jobs -> Nat]

VARIABLES
  driver,        \* chosen at construction
  handlers,      \* is the handler installed on this backend
  paused,        \* pausedQueues
  claim,         \* the job whose token holds the unique key, 0 if none
  job,
  workQueue,     \* the channel: "none", "open" or "closed"
  buffer,        \* what the channel holds
  alive,         \* worker goroutines counted by workerWG
  serving,       \* the job each worker took from the channel, 0 if none
  workPending,   \* workPending, or syncWorkPending for the sync driver
  workGen,       \* generations of workIdle (syncWorkIdle) channels made
  shuttingDown

poolVars == <<workQueue, alive>>
pendingVars == <<workPending, workGen>>
localVars == <<driver, handlers, paused, claim, job, workQueue, buffer,
               alive, serving, workPending, workGen, shuttingDown>>

Calls == {"none", "called", "claimed", "reserved", "timer", "send", "record",
          "overflow", "inline", "returned", "rejected", "dropped"}
Works == {"none", "buffered", "taken", "running", "waiting", "ending",
          "finished"}

NewJob == [call |-> "none", work |-> "none", caller |-> 0, permits |-> {},
           attempt |-> 0, accepted |-> FALSE]

LocalTypeOK ==
  /\ driver \in {"sync", "workerpool"}
  /\ {handlers, paused, shuttingDown} \subseteq BOOLEAN
  /\ claim \in 0..N
  /\ job \in [Jobs -> [call: Calls, work: Works, caller: 0..N,
                       permits: SUBSET Jobs, attempt: Nat,
                       accepted: BOOLEAN]]
  /\ \A j \in Jobs : job[j].attempt <= MaxRetry[j]
  /\ workQueue \in {"none", "open", "closed"}
  /\ buffer \in Seq(Jobs) /\ Len(buffer) <= Capacity
  /\ alive \subseteq Workers
  /\ serving \in [Workers -> 0..N]
  /\ workPending \in 0..N
  /\ workGen \in 0..N

LocalInit ==
  /\ driver \in {"sync", "workerpool"}
  /\ handlers = FALSE
  /\ paused = FALSE
  /\ claim = 0
  /\ job = [j \in Jobs |-> NewJob]
  /\ workQueue = "none"
  /\ buffer = <<>>
  /\ alive = {}
  /\ serving = [w \in Workers |-> 0]
  /\ workPending = 0
  /\ workGen = 0
  /\ shuttingDown = FALSE

-----------------------------------------------------------------------------
(* Continuation permits and unique claims.                                 *)

\* Any permit among those the context carries suffices.
Owns(j) == job[j].permits # {}

\* The permit of a handler ends for every context derived from it.
ReleasePermit(jobs, p) ==
  [k \in Jobs |-> [jobs[k] EXCEPT !.permits = @ \ {p}]]

\* The context a running handler dispatches with carries its ancestors' permits.
HandlerPermits(p) == job[p].permits \cup {p}

Acquires(j) == j \notin Unique \/ claim = 0

\* Mutant: release by key alone.
ReleaseByKey(j) == IF j \in Unique THEN 0 ELSE claim

\* Only the token that still owns the key releases it.
Release(j) == IF claim = j THEN 0 ELSE claim

\* The claim's TTL elapses.
ExpireClaim ==
  /\ claim # 0
  /\ claim' = 0
  /\ UNCHANGED <<driver, handlers, paused, job, workQueue, buffer, alive,
                 serving, workPending, workGen, shuttingDown>>

-----------------------------------------------------------------------------
(* The work tree: reservations and the idle channel a drain waits on.      *)

reserve ==
  /\ workPending' = workPending + 1
  /\ workGen' = IF workPending = 0 THEN workGen + 1 ELSE workGen

finishWork ==
  /\ workPending' = workPending - 1
  /\ UNCHANGED workGen

\* Mutant: the pool is idle when its channel is empty and its workers are idle.
NothingQueued ==
  IF driver = "sync" THEN workPending = 0
  ELSE buffer = <<>> /\ \A w \in Workers : serving[w] = 0

\* What a drain waits for: no job of the work tree is left.
WorkDone == workPending = 0

\* The idle channel of generation g is closed.
WorkIdleClosed(g) == g < workGen \/ workPending = 0

startMemoryWorkers ==
  IF driver = "workerpool" /\ workQueue = "none" /\ ~shuttingDown
  THEN workQueue' = "open" /\ alive' = Workers
  ELSE UNCHANGED poolVars

validateEnqueue == ~paused /\ handlers

-----------------------------------------------------------------------------
(* Dispatch.                                                               *)

\* The entry checks, up to and including the unique claim.
Dispatch(j) ==
  /\ job[j].call = "called"
  /\ LET admitted == /\ ~shuttingDown \/ Owns(j)
                     /\ validateEnqueue
                     /\ Acquires(j)
     IN /\ job' = [job EXCEPT ![j].call =
                     IF admitted THEN "claimed" ELSE "rejected"]
        /\ claim' = IF admitted /\ j \in Unique THEN j ELSE claim
  /\ UNCHANGED <<driver, handlers, paused, workQueue, buffer, alive, serving,
                 workPending, workGen, shuttingDown>>

\* The pool validates an immediate job once more before it reserves.
Reservable(j) ==
  /\ ~shuttingDown \/ Owns(j)
  /\ driver = "workerpool" =>
        /\ workQueue = "open" \/ ~shuttingDown
        /\ j \in Delayed \/ validateEnqueue

\* The dispatch has crossed its acceptance boundary, for good; whoever shares
\* the boundary of the call hears of it before an inline delivery begins.
markAccepted(r) == [r EXCEPT !.accepted = TRUE]

\* A delayed job is accepted with its reservation, and its Dispatch returns.
Reserve(j) ==
  /\ job[j].call = "claimed"
  /\ IF Reservable(j)
     THEN /\ reserve
          /\ startMemoryWorkers
          /\ job' = [job EXCEPT ![j] =
               IF j \in Delayed THEN markAccepted([@ EXCEPT !.call = "timer"])
               ELSE [@ EXCEPT !.call = IF driver = "sync" THEN "reserved" ELSE "send"]]
          /\ UNCHANGED claim
     ELSE /\ job' = [job EXCEPT ![j].call = "rejected"]
          /\ claim' = Release(j)
          /\ UNCHANGED <<poolVars, pendingVars>>
  /\ UNCHANGED <<driver, handlers, paused, buffer, serving, shuttingDown>>

\* The delay elapses; the goroutine started by Dispatch goes on.
TimerFires(j) ==
  /\ job[j].call = "timer"
  /\ job' = [job EXCEPT ![j].call =
               IF driver = "sync" THEN "reserved" ELSE "send"]
  /\ UNCHANGED <<driver, handlers, paused, claim, workQueue, buffer, alive,
                 serving, workPending, workGen, shuttingDown>>

\* enqueueNow of the sync driver: accept and run, or refuse.  A delayed job
\* refused here was accepted before: it is dropped and keeps its claim.
RunInline(j) ==
  /\ job[j].call = "reserved"
  /\ IF validateEnqueue
     THEN /\ job' = [job EXCEPT ![j] =
                       markAccepted([@ EXCEPT !.call = "inline", !.work = "running"])]
          /\ UNCHANGED <<claim, pendingVars>>
     ELSE /\ job' = [job EXCEPT ![j].call =
                       IF j \in Delayed THEN "dropped" ELSE "rejected"]
          /\ claim' = IF j \in Delayed THEN claim ELSE Release(j)
          /\ finishWork
  /\ UNCHANGED <<driver, handlers, paused, workQueue, buffer, alive, serving,
                 shuttingDown>>

Room == Len(buffer) < Capacity

\* The channel takes the job; a closed channel takes nothing.
Enters(j) ==
  /\ workQueue = "open"
  /\ Room
  /\ buffer' = Append(buffer, j)

\* Mutant: a continuation waits for room like any other sender.
SendBlocking(j) ==
  /\ job[j].call = "send"
  /\ Enters(j)
  /\ job' = [job EXCEPT ![j].call = "record", ![j].work = "buffered"]
  /\ UNCHANGED <<driver, handlers, paused, claim, poolVars, serving,
                 pendingVars, shuttingDown>>

\* The send of enqueueReservedAsync: with room the job enters the channel;
\* without, a continuation is accepted and left to a goroutine of its own.
Send(j) ==
  /\ job[j].call = "send"
  /\ \/ /\ Enters(j)
        /\ job' = [job EXCEPT ![j].call = "record", ![j].work = "buffered"]
     \/ /\ Owns(j) /\ ~Room
        /\ job' = [job EXCEPT ![j] = markAccepted([@ EXCEPT !.call = "overflow"])]
        /\ UNCHANGED buffer
  /\ UNCHANGED <<driver, handlers, paused, claim, poolVars, serving,
                 pendingVars, shuttingDown>>

\* Mutant: the reservation outlives the cancelled send.
SendCancelledHolding(j) ==
  /\ job[j].call = "send" /\ j \notin Delayed /\ ~Owns(j)
  /\ job' = [job EXCEPT ![j].call = "rejected"]
  /\ claim' = Release(j)
  /\ UNCHANGED <<driver, handlers, paused, poolVars, buffer, serving,
                 pendingVars, shuttingDown>>

\* The caller's context ends while it waits for room.  A delayed job's
\* context cannot be cancelled.
SendCancelled(j) ==
  /\ job[j].call = "send" /\ j \notin Delayed /\ ~Owns(j)
  /\ finishWork
  /\ job' = [job EXCEPT ![j].call = "rejected"]
  /\ claim' = Release(j)
  /\ UNCHANGED <<driver, handlers, paused, poolVars, buffer, serving,
                 shuttingDown>>

\* recordQueuedJob: acceptance, then the gate the worker waits on opens.
Record(j) ==
  /\ job[j].call = "record"
  /\ job' = [job EXCEPT ![j] = markAccepted([@ EXCEPT !.call = "returned"])]
  /\ UNCHANGED <<driver, handlers, paused, claim, workQueue, buffer, alive,
                 serving, workPending, workGen, shuttingDown>>

OverflowSend(j) ==
  /\ job[j].call = "overflow"
  /\ Enters(j)
  /\ job' = [job EXCEPT ![j].call = "returned", ![j].work = "buffered"]
  /\ UNCHANGED <<driver, handlers, paused, claim, poolVars, serving,
                 pendingVars, shuttingDown>>

-----------------------------------------------------------------------------
(* Execution.                                                              *)

\* A worker takes the oldest job from the channel.
Receive(w) ==
  /\ w \in alive /\ serving[w] = 0
  /\ buffer # <<>>
  /\ serving' = [serving EXCEPT ![w] = Head(buffer)]
  /\ buffer' = Tail(buffer)
  /\ job' = [job EXCEPT ![Head(buffer)].work = "taken"]
  /\ UNCHANGED <<driver, handlers, paused, claim, poolVars, pendingVars,
                 shuttingDown>>

\* Mutant: the worker does not wait for the acceptance gate.
GateIgnored(j) == TRUE

\* An immediate job's first run waits until its acceptance was recorded.
GateOpen(j) == j \in Delayed \/ job[j].call # "record"

\* The first attempt of a pool job.
Begin(w) ==
  /\ serving[w] # 0
  /\ LET j == serving[w] IN
       /\ job[j].work = "taken"
       /\ GateOpen(j)
       /\ job' = [job EXCEPT ![j].work = "running"]
  /\ UNCHANGED <<driver, handlers, paused, claim, poolVars, buffer, serving,
                 pendingVars, shuttingDown>>

\* The Dispatch of j has not returned to its caller.
Calling(j) ==
  \/ job[j].call \in {"called", "claimed"}
  \/ /\ j \notin Delayed
     /\ job[j].call \in {"reserved", "send", "record", "inline"}

\* The handler still waits for one of its own Dispatch calls.
Blocked(j) == \E k \in Jobs : job[k].caller = j /\ Calling(k)

\* One pass of the attempt loop of runWithRetry: the handler returns, its
\* permit ends, and the outcome decides whether the loop goes on.
HandlerReturns(j, err) ==
  /\ job[j].work = "running"
  /\ ~Blocked(j)
  /\ LET decision == ClassifyAttempt(job[j].attempt, MaxRetry[j], err)
         ran == IF decision \in {"succeeded", "failed"}
                THEN [job EXCEPT ![j].work = "ending"]
                ELSE [job EXCEPT ![j].work = "waiting",
                        ![j].attempt = IF decision = "retry" THEN @ + 1 ELSE @]
     IN /\ decision = "redeliver" => j \in Redelivering
        /\ job' = ReleasePermit(ran, j)
  /\ UNCHANGED <<driver, handlers, paused, claim, workQueue, buffer, alive,
                 serving, workPending, workGen, shuttingDown>>

\* The wait before the next attempt ends, or the job's context does.
RetryWaitEnds(j) ==
  /\ job[j].work = "waiting"
  /\ \/ job' = [job EXCEPT ![j].work = "running"]
     \/ job' = [job EXCEPT ![j].work = "ending"]
  /\ UNCHANGED <<driver, handlers, paused, claim, workQueue, buffer, alive,
                 serving, workPending, workGen, shuttingDown>>

\* finishQueuedWork, and the worker is free again.
Finish(w) ==
  /\ serving[w] # 0
  /\ job[serving[w]].work = "ending"
  /\ finishWork
  /\ job' = [job EXCEPT ![serving[w]].work = "finished"]
  /\ serving' = [serving EXCEPT ![w] = 0]
  /\ UNCHANGED <<driver, handlers, paused, claim, poolVars, buffer,
                 shuttingDown>>

\* finishSyncWork as the inline Dispatch, or the delaying goroutine, ends.
FinishInline(j) ==
  /\ job[j].call = "inline" /\ job[j].work = "ending"
  /\ finishWork
  /\ job' = [job EXCEPT ![j].call = "returned", ![j].work = "finished"]
  /\ UNCHANGED <<driver, handlers, paused, claim, poolVars, buffer, serving,
                 shuttingDown>>

\* The range loop over the closed and empty channel ends.
WorkerExits(w) ==
  /\ w \in alive /\ serving[w] = 0
  /\ workQueue = "closed" /\ buffer = <<>>
  /\ alive' = alive \ {w}
  /\ UNCHANGED <<driver, handlers, paused, claim, job, workQueue, buffer,
                 serving, pendingVars, shuttingDown>>

-----------------------------------------------------------------------------
(* Steps of one goroutine each; what the scheduler must keep running.      *)

Submits(j) ==
  \/ Dispatch(j) \/ Reserve(j) \/ TimerFires(j) \/ RunInline(j)
  \/ Send(j) \/ Record(j) \/ OverflowSend(j) \/ FinishInline(j)

Executes(j) ==
  \/ \E err \in Errors : HandlerReturns(j, err)
  \/ RetryWaitEnds(j)

Serves(w) == Receive(w) \/ Begin(w) \/ Finish(w) \/ WorkerExits(w)

-----------------------------------------------------------------------------
(* Properties of the work tree.                                            *)

\* closeWorkerQueueWhenIdle closes the channel only when no goroutine, the
\* overflow and delay goroutines included, can still send on it: a send on a
\* closed channel would panic.
NoSendOnClosedQueue ==
  workQueue = "closed" =>
    /\ buffer = <<>>
    /\ \A j \in Jobs : job[j].call \notin {"timer", "send", "overflow"}

\* A handler of an immediate job never runs before its dispatch was accepted
\* (the ready gate of enqueueReservedAsync), and a job that was accepted is
\* never reported as rejected.
AcceptedBeforeRun ==
  \A j \in Jobs :
    /\ job[j].work \in {"running", "waiting", "ending", "finished"} => job[j].accepted
    /\ job[j].accepted => job[j].call # "rejected"
=============================================================================
