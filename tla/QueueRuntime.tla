---------------------------- MODULE QueueRuntime ----------------------------
(***************************************************************************)
(* The native runtime of queue.go (nativeQueueRuntime) over the in-memory  *)
(* backend: concurrent Register, StartWorkers, Dispatch and Shutdown       *)
(* calls.  Every critical section of a mutex is one action, joined with    *)
(* the wait before it: what these waits are for, once true, stays true.    *)
(* An idle channel is the number of its generation: a waiter holds the     *)
(* generation it read under the lock, 0 for a nil channel.                 *)
(***************************************************************************)
EXTENDS LocalQueue

CONSTANTS
  Starters,   \* goroutines that call StartWorkers, any number of times
  Stoppers,   \* goroutines that call Shutdown once
  Deadline,   \* the stoppers whose context may expire
  Controls    \* what an operator does: "pause", "resume"

ASSUME RuntimeAssumption ==
  /\ Deadline \subseteq Stoppers
  /\ Controls \subseteq {"pause", "resume"}
  /\ "none" \notin Starters \cup Stoppers

VARIABLES
  registered,   \* the application registered its handler
  started, draining, closed,
  start,        \* the goroutine that owns the start attempt, or "none"
  shutdown,     \* the goroutine that owns the shutdown attempt, or "none"
  starter,      \* where each StartWorkers call stands
  stopper,      \* where each Shutdown call stands
  leases,       \* dispatches holding an operation lease
  opGen         \* generations of the operations' idle channel

lifeVars == <<registered, started, draining, closed, start, shutdown>>
callVars == <<starter, stopper>>
opVars == <<leases, opGen>>
vars == <<localVars, lifeVars, callVars, opVars>>

StarterAt == {"idle", "starting", "activated"}
StopperAt == {"idle", "startWait", "sharing", "operations", "quiesce",
              "quiesceWait", "workers", "operations2", "ok", "err"}

\* Every field and counter stays in its range.
TypeOK ==
  /\ LocalTypeOK
  /\ {registered, started, draining, closed} \subseteq BOOLEAN
  /\ start \in Starters \cup {"none"}
  /\ shutdown \in Stoppers \cup {"none"}
  /\ starter \in [Starters -> StarterAt]
  /\ stopper \in [Stoppers -> [at: StopperAt, seen: 0..N,
                               owner: Stoppers \cup {"none"}]]
  /\ leases \subseteq Jobs
  /\ opGen \in 0..N

Init ==
  /\ LocalInit
  /\ registered = FALSE
  /\ started = FALSE /\ draining = FALSE /\ closed = FALSE
  /\ start = "none" /\ shutdown = "none"
  /\ starter = [c \in Starters |-> "idle"]
  /\ stopper = [s \in Stoppers |-> [at |-> "idle", seen |-> 0, owner |-> "none"]]
  /\ leases = {}
  /\ opGen = 0

-----------------------------------------------------------------------------
(* Operation leases.                                                       *)

\* acquireOperation for a dispatch whose context carries these permits.
Admits(permits) == ~closed /\ (draining => permits # {})

\* An outside caller, or the running handler of p, calls Dispatch.
acquireOperation(j, p) ==
  LET permits == IF p = 0 THEN {} ELSE HandlerPermits(p) IN
  /\ job[j].call = "none"
  /\ IF p = 0 THEN j \in Roots
     ELSE j \notin Roots /\ p # j /\ job[p].work = "running"
  /\ IF Admits(permits)
     THEN /\ job' = [job EXCEPT ![j].call = "called", ![j].permits = permits,
                                ![j].caller = IF j \in Awaited THEN p ELSE 0]
          /\ leases' = leases \cup {j}
          /\ opGen' = IF leases = {} THEN opGen + 1 ELSE opGen
     ELSE /\ job' = [job EXCEPT ![j].call = "rejected"]
          /\ UNCHANGED opVars
  /\ UNCHANGED <<driver, handlers, paused, claim, poolVars, buffer, serving,
                 pendingVars, shuttingDown, lifeVars, callVars>>

\* The deferred release once Dispatch has returned.
releaseOperation(j) ==
  /\ j \in leases
  /\ ~Calling(j)
  /\ leases' = leases \ {j}
  /\ UNCHANGED <<opGen, localVars, lifeVars, callVars>>

\* The idle channel a caller reads under the lock.
OperationsIdle == IF leases = {} THEN 0 ELSE opGen

OperationsClosed(g) == g = 0 \/ g < opGen \/ leases = {}

\* Pause and Resume hold a lease a draining runtime refuses.
Pause ==
  /\ "pause" \in Controls /\ ~closed /\ ~draining
  /\ paused' = TRUE
  /\ UNCHANGED <<driver, handlers, claim, job, poolVars, buffer, serving,
                 pendingVars, shuttingDown, lifeVars, callVars, opVars>>

Resume ==
  /\ "resume" \in Controls /\ ~closed /\ ~draining
  /\ paused' = FALSE
  /\ UNCHANGED <<driver, handlers, claim, job, poolVars, buffer, serving,
                 pendingVars, shuttingDown, lifeVars, callVars, opVars>>

-----------------------------------------------------------------------------
(* Register and StartWorkers.                                              *)

\* Mutant: only a started runtime installs a late handler.
InstallsWhenStarted == started

\* A handler registered while a start attempt runs is installed at once.
InstallsNow == ~draining /\ (start # "none" \/ started)

\* A trampoline is installed on the backend once; later handlers of the type
\* only replace its target.
installRuntimeHandler(now) == handlers' = (handlers \/ now)

Register ==
  /\ ~registered
  /\ registered' = TRUE
  /\ installRuntimeHandler(InstallsNow)
  /\ UNCHANGED <<driver, paused, claim, job, poolVars, buffer, serving,
                 pendingVars, shuttingDown, started, draining, closed, start,
                 shutdown, callVars, opVars>>

\* The first critical section of StartWorkers.  A call that finds the runtime
\* draining, closed or started returns here; one that finds a start attempt
\* waits for it and returns its result.  None of these changes anything.
StartWorkers(c) ==
  /\ starter[c] = "idle"
  /\ ~closed /\ ~draining /\ ~started /\ start = "none"
  /\ starter' = [starter EXCEPT ![c] = "starting"]
  /\ start' = c
  /\ installRuntimeHandler(registered)
  /\ UNCHANGED <<driver, paused, claim, job, poolVars, buffer, serving,
                 pendingVars, shuttingDown, registered, started, draining,
                 closed, shutdown, stopper, opVars>>

\* The backend starts its workers outside the lock.
ActivateBackend(c) ==
  /\ starter[c] = "starting"
  /\ startMemoryWorkers
  /\ starter' = [starter EXCEPT ![c] = "activated"]
  /\ UNCHANGED <<driver, handlers, paused, claim, job, buffer, serving,
                 pendingVars, shuttingDown, lifeVars, stopper, opVars>>

\* The second critical section.
EndStart(c) ==
  /\ starter[c] = "activated"
  /\ starter' = [starter EXCEPT ![c] = "idle"]
  /\ started' = TRUE
  /\ start' = "none"
  /\ UNCHANGED <<localVars, registered, draining, closed, shutdown, stopper,
                 opVars>>

-----------------------------------------------------------------------------
(* Shutdown.                                                               *)

To(s, at) == stopper' = [stopper EXCEPT ![s].at = at]

\* The first critical section.  A call that meets a start attempt waits for it
\* (waitForRuntimeStartCompletion) and enters the section again.
Shutdown(s) ==
  /\ stopper[s].at = "idle" \/ (stopper[s].at = "startWait" /\ start = "none")
  /\ \/ /\ start # "none"
        /\ draining' = TRUE
        /\ To(s, "startWait")
        /\ UNCHANGED shutdown
     \/ /\ start = "none" /\ shutdown # "none"
        /\ stopper' = [stopper EXCEPT ![s].at = "sharing", ![s].owner = shutdown]
        /\ UNCHANGED <<draining, shutdown>>
     \/ /\ start = "none" /\ shutdown = "none" /\ closed
        /\ To(s, "ok")
        /\ UNCHANGED <<draining, shutdown>>
     \/ /\ start = "none" /\ shutdown = "none" /\ ~closed
        /\ draining' = TRUE
        /\ shutdown' = s
        /\ stopper' = [stopper EXCEPT ![s].at = "operations",
                                      ![s].seen = OperationsIdle]
  /\ UNCHANGED <<localVars, registered, started, closed, start, starter, opVars>>

\* waitForRuntimeShutdown: the owner's result is everyone's.
ShutdownShared(s) ==
  /\ stopper[s].at = "sharing"
  /\ stopper[stopper[s].owner].at \in {"ok", "err"}
  /\ To(s, stopper[stopper[s].owner].at)
  /\ UNCHANGED <<localVars, lifeVars, starter, opVars>>

\* The operations admitted before the drain have ended, and DrainWorkers closes
\* the backend's own gate.
DrainWorkers(s) ==
  /\ stopper[s].at = "operations" /\ OperationsClosed(stopper[s].seen)
  /\ shuttingDown' = TRUE
  /\ To(s, "quiesce")
  /\ UNCHANGED <<driver, handlers, paused, claim, job, poolVars, buffer,
                 serving, pendingVars, lifeVars, starter, opVars>>

\* The idle channel a drain has read is closed.
Quiesced(s) == stopper[s].at = "quiesceWait" /\ WorkIdleClosed(stopper[s].seen)

\* One pass of closeWorkerQueueWhenIdle, or waitForSyncWork up to its select.
\* Only the pool looks again when the channel it waited for is closed.
Quiesce(s) ==
  /\ stopper[s].at = "quiesce" \/ (Quiesced(s) /\ driver = "workerpool")
  /\ \/ /\ WorkDone
        /\ workQueue' = IF workQueue = "open" THEN "closed" ELSE workQueue
        /\ To(s, "workers")
     \/ /\ ~WorkDone
        /\ stopper' = [stopper EXCEPT ![s].at = "quiesceWait", ![s].seen = workGen]
        /\ UNCHANGED workQueue
  /\ UNCHANGED <<driver, handlers, paused, claim, job, buffer, alive, serving,
                 pendingVars, shuttingDown, lifeVars, starter, opVars>>

\* workerWG has been released by every worker; the sync driver has none.
Drained(s) ==
  \/ stopper[s].at = "workers" /\ alive = {}
  \/ driver = "sync" /\ Quiesced(s)

\* The second operation snapshot, once the drain has ended every permit.
ReadOperations(s) ==
  /\ Drained(s)
  /\ stopper' = [stopper EXCEPT ![s].at = "operations2",
                                ![s].seen = OperationsIdle]
  /\ UNCHANGED <<localVars, lifeVars, starter, opVars>>

\* Mutant: the operations admitted during the drain are not waited for.
OperationsEndedUnseen(s) == TRUE

\* The wait on that snapshot; no further one follows.
OperationsEnded(s) == OperationsClosed(stopper[s].seen)

\* inner.Shutdown drains the drained backend again, and the attempt ends.
EndShutdown(s) ==
  /\ stopper[s].at = "operations2" /\ OperationsEnded(s)
  /\ started' = FALSE /\ draining' = FALSE /\ closed' = TRUE
  /\ shutdown' = "none"
  /\ To(s, "ok")
  /\ UNCHANGED <<localVars, registered, start, starter, opVars>>

\* The call is at a select that also listens to its context.  A nil idle
\* channel is not waited for, and neither the sync driver nor its second drain
\* waits for workers.
Waits(s) ==
  \/ stopper[s].at \in {"startWait", "sharing", "quiesceWait"}
  \/ stopper[s].at \in {"operations", "operations2"} /\ stopper[s].seen # 0
  \/ stopper[s].at \in {"workers", "operations2"} /\ driver = "workerpool"

\* Mutant: a timed-out drain admits callers again.
ShutdownExpiresReopening(s) ==
  /\ s \in Deadline
  /\ Waits(s)
  /\ shutdown' = IF shutdown = s THEN "none" ELSE shutdown
  /\ draining' = FALSE
  /\ To(s, "err")
  /\ UNCHANGED <<localVars, registered, started, closed, start, starter, opVars>>

\* The context of a waiting Shutdown ends.  An owner ends its attempt and
\* leaves the runtime draining.
ShutdownExpires(s) ==
  /\ s \in Deadline
  /\ Waits(s)
  /\ shutdown' = IF shutdown = s THEN "none" ELSE shutdown
  /\ To(s, "err")
  /\ UNCHANGED <<localVars, registered, started, draining, closed, start,
                 starter, opVars>>

-----------------------------------------------------------------------------
(* The specification.                                                      *)

Starts(c) == ActivateBackend(c) \/ EndStart(c)

Stops(s) ==
  \/ stopper[s].at = "startWait" /\ Shutdown(s)
  \/ ShutdownShared(s) \/ DrainWorkers(s) \/ Quiesce(s)
  \/ ReadOperations(s) \/ EndShutdown(s)

RuntimeUnchanged == UNCHANGED <<lifeVars, callVars, opVars>>

Next ==
  \/ Register \/ Pause \/ Resume
  \/ ExpireClaim /\ RuntimeUnchanged
  \/ \E c \in Starters : StartWorkers(c) \/ Starts(c)
  \/ \E s \in Stoppers : Shutdown(s) \/ Stops(s) \/ ShutdownExpires(s)
  \/ \E j \in Jobs :
       \/ \E p \in 0..N : acquireOperation(j, p)
       \/ releaseOperation(j)
       \/ (Submits(j) \/ SendCancelled(j) \/ Executes(j)) /\ RuntimeUnchanged
  \/ \E w \in Workers : Serves(w) /\ RuntimeUnchanged

Spec == Init /\ [][Next]_vars

\* Every goroutine that can go on does: the Go scheduler is fair, timers fire,
\* and handlers return.  Nothing obliges a caller to call, a context to expire
\* or an operator to pause.
Fairness ==
  /\ \A c \in Starters : WF_vars(Starts(c))
  /\ \A s \in Stoppers : WF_vars(Stops(s))
  /\ \A j \in Jobs : /\ WF_vars(Submits(j) /\ RuntimeUnchanged)
                     /\ WF_vars(Executes(j) /\ RuntimeUnchanged)
                     /\ WF_vars(releaseOperation(j))
  /\ \A w \in Workers : WF_vars(Serves(w) /\ RuntimeUnchanged)

FairSpec == Spec /\ Fairness

-----------------------------------------------------------------------------
(* Properties.                                                             *)

\* A Shutdown that returns nil, its own attempt or a shared one, has closed the
\* runtime; and a closed runtime is quiet: no operation holds a lease, no
\* submitting, delaying or overflow goroutine is left, every worker is gone
\* and every job accepted before or during the drain has run.  Two exceptions:
\* a delayed sync job refused by enqueueNow never runs, and the goroutine of a
\* delayed pool job, its send done, may still be updating its counters.
CleanShutdown ==
  /\ (\E s \in Stoppers : stopper[s].at = "ok") => closed
  /\ closed =>
       /\ leases = {} /\ alive = {} /\ workPending = 0
       /\ \A j \in Jobs :
            /\ \/ job[j].call \in {"none", "returned", "rejected", "dropped"}
               \/ job[j].call = "record" /\ j \in Delayed
            /\ job[j].accepted => \/ job[j].work = "finished"
                                  \/ job[j].call = "dropped"

\* Register linearizes with StartWorkers: whatever the order of the two, a
\* started runtime that admits work has the registered handler on its backend.
RegisteredIsServed ==
  started /\ ~draining /\ registered => handlers

\* Once a Shutdown has begun the runtime never admits outside callers again: a
\* drain that times out stays a drain until a later Shutdown closes it.
DrainIsFinal ==
  [][draining \/ closed => draining' \/ closed']_vars

\* The unique claim of an accepted job ends by its TTL only.  No late failure
\* of another dispatch of the same key, whose own claim has expired meanwhile,
\* releases it.
AcceptedClaimIsKept ==
  [][\A j \in Jobs : claim = j /\ job[j].accepted /\ claim' # j => UNCHANGED job]_vars

\* Every accepted job runs to its end.  The pool cannot lock up on a full
\* channel: a handler's own dispatch never waits for the worker it occupies.
AcceptedWorkEnds ==
  \A j \in Jobs :
    job[j].accepted ~> job[j].work = "finished" \/ job[j].call = "dropped"

\* Every Shutdown call returns, whatever start, shutdown, dispatch and drain it
\* meets, also without a deadline of its own.
ShutdownReturns ==
  \A s \in Stoppers : stopper[s].at # "idle" ~> stopper[s].at \in {"ok", "err"}
=============================================================================
