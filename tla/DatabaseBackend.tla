-------------------------- MODULE DatabaseBackend --------------------------
(***************************************************************************)
(* The life of the SQL driver around the rows DatabaseQueue follows:       *)
(* several processes, each a nativeQueueRuntime over a databaseQueue, that *)
(* share one database.  They migrate its schema while they start, claim    *)
(* unique keys in the transaction that inserts a job, and close their      *)
(* handle when they shut down.                                             *)
(*                                                                         *)
(* Every statement and every critical section is one step.  A transaction  *)
(* keeps the lock rows it has written to itself until it commits; another  *)
(* one that needs such a row waits.  Claiming and settling a row is one    *)
(* step each here, DatabaseQueue has the detail.                           *)
(***************************************************************************)
EXTENDS Integers, FiniteSets

CONSTANTS
  Processes,     \* databaseQueue values over one database
  Dispatches,    \* Dispatch calls; each names the job it would insert
  Proc,          \* the process a call is made in
  Identities,    \* canonical identities of unique jobs
  Identity,      \* the identity of a call's job, "none" without UniqueTTL
  Digests,       \* what older releases tell jobs apart by: a digest of the
                 \* physical queue, type and payload bytes
  Digest,        \* the digest of a call's job; jobs of one identity may differ in
                 \* it, and jobs of two identities may share it
  Continuations, \* calls made by a running handler
  Scenes,        \* the deployments to look at, see Scene
  MySQL,         \* the dialect that has no CREATE INDEX IF NOT EXISTS
  PruneInterval, \* databaseUniquePruneInterval
  TTL,           \* UniqueTTL
  MaxClock,      \* bound: the database clock
  MaxFaults      \* bound: failed statements, expired contexts

ASSUME BackendAssumption ==
  /\ Proc \in [Dispatches -> Processes]
  /\ Identity \in [Dispatches -> Identities \cup {"none"}]
  /\ Digest \in [Dispatches -> Digests]
  /\ Continuations \subseteq Dispatches
  /\ {PruneInterval, TTL} \subseteq Nat \ {0} /\ {MaxClock, MaxFaults} \subseteq Nat
  /\ Dispatches \cap {"none", "old", "free", "runtime"} = {}

VARIABLES
  scene,   \* the deployment, which never changes
  schema,  \* what the database has of Artefacts
  clock,   \* the database clock
  locks,   \* queue_unique_locks, as committed
  rows,    \* queue_jobs, as committed
  tx,      \* the lock rows an open transaction has written
  call,    \* where each Dispatch call stands
  host,    \* the state of each process
  faults   \* faults so far

vars == <<scene, schema, clock, locks, rows, tx, call, host, faults>>
dataVars == <<clock, locks, rows, tx>>

\* The two tables, the two columns older releases lack, and the index.
Artefacts == {"jobs", "locks", "token", "metadata", "index"}

\* A deployment: the processes that start workers, those that shut down and
\* those configured with DisableAutoMigrate, the calls that are made, and what
\* an older release left: its schema, and the digests it has claimed.
Scene == [starters: SUBSET Processes, stoppers: SUBSET Processes,
          managed: SUBSET Processes, calls: SUBSET Dispatches,
          schema: SUBSET Artefacts, claimed: SUBSET Digests]

ASSUME ScenesAssumption == Scenes \subseteq Scene

\* The lock rows of both formats, and the two a unique job needs.
Keys == ({"legacy"} \X Digests) \cup ({"canonical"} \X Identities)
legacyUniqueJobKey(d) == <<"legacy", Digest[d]>>
uniqueJobKey(d) == <<"canonical", Identity[d]>>
JobKeys(d) == {legacyUniqueJobKey(d), uniqueJobKey(d)}
NoClaim == [exp |-> 0, by |-> "none"]
NoTx == [k \in {} |-> NoClaim]

Results == {"accepted", "unknown", "duplicate", "rejected", "error"}
CallAt == {"none", "entered", "startMu", "starting", "insert", "time", "prune",
           "legacy", "canonical", "row"} \cup Results
StopAt == {"idle", "startWait", "operations", "drain", "workers", "operations2",
           "closeWait", "ok"}

\* Every field stays in its range, and only an open transaction holds locks.
TypeOK ==
  /\ scene \in Scenes /\ schema \subseteq Artefacts /\ clock \in 0..MaxClock /\ faults \in 0..MaxFaults
  /\ locks \in [Keys -> [exp: Nat, by: Dispatches \cup {"none", "old"}]]
  /\ rows \in [Dispatches -> {"none", "pending", "running", "done"}]
  /\ \A d \in Dispatches : /\ DOMAIN tx[d] \subseteq Keys
                           /\ call[d].at \in CallAt
                           /\ call[d].at \in Results => tx[d] = NoTx
  /\ \A p \in Processes : host[p].stop \in StopAt

Active(d) == call[d].at \notin Results \cup {"none"}
Operations(p) == {d \in Dispatches : Proc[d] = p /\ Active(d)}

Init ==
  /\ scene \in Scenes
  /\ schema = scene.schema
  /\ clock = 0
  /\ locks = [k \in Keys |-> IF k \in {"legacy"} \X scene.claimed
                             THEN [exp |-> TTL, by |-> "old"] ELSE NoClaim]
  /\ rows = [d \in Dispatches |-> "none"]
  /\ tx = [d \in Dispatches |-> NoTx]
  /\ call = [d \in Dispatches |-> [at |-> "none", now |-> 0, caller |-> "none"]]
  /\ host = [p \in Processes |->
       [handlers |-> FALSE, started |-> FALSE, shuttingDown |-> FALSE,
        mu |-> "free", step |-> "none", failed |-> FALSE,
        worker |-> "none", serving |-> "none", uniqueClaims |-> 0,
        close |-> "no", shutdownErr |-> FALSE, open |-> TRUE,
        start |-> FALSE, up |-> FALSE, draining |-> FALSE, closed |-> FALSE,
        stop |-> "idle", seen |-> 0, opGen |-> 0]]
  /\ faults = 0

\* How a statement ends.  Inside a transaction "ambiguous" is a failure too.
DBResults == {"ok", "failed", "ambiguous"}
Disrupt == faults < MaxFaults /\ faults' = faults + 1
Fault(db) == IF db = "ok" THEN UNCHANGED faults ELSE Disrupt

Tick ==
  /\ clock < MaxClock
  /\ clock' = clock + 1
  /\ UNCHANGED <<schema, locks, rows, tx, call, host, faults>>

-----------------------------------------------------------------------------
(* Operation leases of the runtime.                                        *)

\* The call runs inside a handler this process is still running.
Owns(d) == call[d].caller # "none" /\ host[Proc[d]].serving = call[d].caller

\* A call returns with its result; a transaction it had open is gone.
Return(d, result) ==
  /\ call' = [call EXCEPT ![d].at = result]
  /\ tx' = [tx EXCEPT ![d] = NoTx]

\* acquireOperation: an outside caller, or the running handler of job j,
\* calls Dispatch.
acquireOperation(d, j) ==
  LET p == Proc[d] IN
  /\ d \in scene.calls /\ call[d].at = "none"
  /\ IF d \in Continuations THEN host[p].serving = j ELSE j = "none"
  /\ (d \in Continuations) = (j \in Dispatches)
  /\ IF host[p].closed \/ (host[p].draining /\ j = "none")
     THEN /\ call' = [call EXCEPT ![d].at = "rejected"]
          /\ UNCHANGED host
     ELSE /\ call' = [call EXCEPT ![d].at = "entered", ![d].caller = j]
          /\ host' = [host EXCEPT ![p].opGen =
                        IF Operations(p) = {} THEN @ + 1 ELSE @]
  /\ UNCHANGED <<schema, dataVars, faults>>

\* The idle channel a Shutdown reads, and whether it has been closed since.
OperationsIdle(p) == IF Operations(p) = {} THEN 0 ELSE host[p].opGen
OperationsClosed(p) ==
  LET g == host[p].seen IN g = 0 \/ g < host[p].opGen \/ Operations(p) = {}

-----------------------------------------------------------------------------
(* StartWorkers and the schema.                                            *)

\* Where a Dispatch goes on once the workers need no start.
Submit(d) == IF Identity[d] = "none" THEN "insert" ELSE "time"

\* The runtime's StartWorkers installs the handlers and calls the backend.
StartRuntime(p) ==
  /\ p \in scene.starters
  /\ ~host[p].closed /\ ~host[p].draining /\ ~host[p].up /\ ~host[p].start
  /\ host' = [host EXCEPT ![p].start = TRUE, ![p].handlers = TRUE]
  /\ UNCHANGED <<schema, dataVars, call, faults>>

\* What holds startMu: the runtime's own start, or a Dispatch's.
Starters(p) == {"runtime"} \cup {d \in Dispatches : Proc[d] = p}
WaitsToStart(p, t) ==
  IF t = "runtime" THEN host[p].start /\ host[p].mu # t ELSE call[t].at = "startMu"

\* The start call of t in p returns.  The runtime's attempt ends with it.
StartReturns(p, t, result, h) ==
  IF t = "runtime"
  THEN /\ host' = [host EXCEPT ![p] = [h EXCEPT !.start = FALSE, !.up = result = "ok"]]
       /\ UNCHANGED call
  ELSE /\ host' = [host EXCEPT ![p] = h]
       /\ call' = [call EXCEPT ![t].at = IF result = "ok" THEN Submit(t) ELSE result]

\* StartWorkers of the backend, up to the first statement.
StartWorkers(p, t) ==
  /\ WaitsToStart(p, t) /\ host[p].mu = "free"
  /\ IF host[p].shuttingDown THEN StartReturns(p, t, "rejected", host[p])
     ELSE IF host[p].started THEN StartReturns(p, t, "ok", host[p])
     ELSE /\ host' = [host EXCEPT ![p].mu = t, ![p].step =
                        IF p \in scene.managed THEN "requireJobs" ELSE "createJobs"]
          /\ call' = IF t = "runtime" THEN call ELSE [call EXCEPT ![t].at = "starting"]
  /\ UNCHANGED <<schema, dataVars, faults>>

StartFails(p) ==
  StartReturns(p, host[p].mu, "error",
    [host[p] EXCEPT !.mu = "free", !.step = "none", !.failed = TRUE])

Step(p, step) == host' = [host EXCEPT ![p].step = step] /\ UNCHANGED call

\* The columns and the index that ensureSchema adds one by one.
Checks == [token |-> "checkToken", metadata |-> "checkMetadata", index |-> "checkIndex"]
Alters == [token |-> "alterToken", metadata |-> "alterMetadata", index |-> "alterIndex"]
Rechecks == [token |-> "recheckToken", metadata |-> "recheckMetadata",
             index |-> "recheckIndex"]
After(c) == IF c = "token" THEN "checkMetadata"
            ELSE IF c = "metadata" /\ MySQL THEN "checkIndex" ELSE "prune"

\* schemaStatements: IF NOT EXISTS leaves an older table as it is.
CreateTables(p, db) ==
  LET at == host[p].step
      created == IF at = "createLocks" THEN {"locks"} \cup (IF MySQL THEN {} ELSE {"index"})
                 ELSE IF "jobs" \in schema THEN {} ELSE {"jobs", "token", "metadata"}
  IN  /\ at \in {"createJobs", "createLocks"}
      /\ Fault(db)
      /\ schema' = IF db = "failed" THEN schema ELSE schema \cup created
      /\ IF db = "ok"
         THEN Step(p, IF at = "createJobs" THEN "createLocks" ELSE "checkToken")
         ELSE StartFails(p)
      /\ UNCHANGED dataVars

\* queueJobColumnExists, mysqlIndexExists.
CheckColumn(p, c, db) ==
  /\ host[p].step = Checks[c] /\ db # "ambiguous"
  /\ Fault(db)
  /\ IF db = "failed" THEN StartFails(p)
     ELSE Step(p, IF c \in schema THEN After(c) ELSE Alters[c])
  /\ UNCHANGED <<schema, dataVars>>

\* Mutant: a lost race ends the start.
AlterLostFatal(p, c) == StartFails(p)

\* The ALTER failed: look again whether a peer has made the change.
AlterLost(p, c) == Step(p, Rechecks[c])

\* ALTER TABLE has no IF NOT EXISTS: it fails when a peer was first.
AlterTable(p, c, db) ==
  /\ host[p].step = Alters[c]
  /\ Fault(db)
  /\ schema' = IF db = "failed" THEN schema ELSE schema \cup {c}
  /\ IF db = "ok" /\ c \notin schema THEN Step(p, After(c)) ELSE AlterLost(p, c)
  /\ UNCHANGED dataVars

RecheckColumn(p, c, db) ==
  /\ host[p].step = Rechecks[c] /\ db # "ambiguous"
  /\ Fault(db)
  /\ IF db = "ok" /\ c \in schema THEN Step(p, After(c)) ELSE StartFails(p)
  /\ UNCHANGED <<schema, dataVars>>

\* requireManagedQueueSchema reads one table at a time and changes nothing.
\* The table of the lock rows has had its columns in every release.
Required(step) ==
  IF step = "requireJobs" THEN {"jobs"}
  ELSE IF step = "requireColumns" THEN {"token", "metadata"} ELSE {"locks"}

requireManagedQueueSchema(p, db) ==
  LET at == host[p].step IN
  /\ at \in {"requireJobs", "requireColumns", "requireLocks"} /\ db # "ambiguous"
  /\ Fault(db)
  /\ IF db = "ok" /\ Required(at) \subseteq schema
     THEN Step(p, IF at = "requireJobs" THEN "requireColumns"
                  ELSE IF at = "requireColumns" THEN "requireLocks" ELSE "go")
     ELSE StartFails(p)
  /\ UNCHANGED <<schema, dataVars>>

Expired(k, now) == locks[k] # NoClaim /\ locks[k].exp <= now
Locked(k) == \E d \in Dispatches : k \in DOMAIN tx[d]

\* The last statement of ensureSchema, by itself.  It waits for the rows that
\* open transactions hold.
PruneAtStart(p, db) ==
  /\ host[p].step = "prune"
  /\ \A k \in Keys : Expired(k, clock) => ~Locked(k)
  /\ Fault(db)
  /\ locks' = IF db = "failed" THEN locks
              ELSE [k \in Keys |-> IF Expired(k, clock) THEN NoClaim ELSE locks[k]]
  /\ IF db = "ok" THEN Step(p, "go") ELSE StartFails(p)
  /\ UNCHANGED <<schema, clock, rows, tx>>

\* The worker loops start, and startMu is released.
Go(p) ==
  /\ host[p].step = "go"
  /\ StartReturns(p, host[p].mu, "ok",
       [host[p] EXCEPT !.mu = "free", !.step = "none", !.started = TRUE, !.worker = "top"])
  /\ UNCHANGED <<schema, dataVars, faults>>

Migrates(p, db) ==
  \/ CreateTables(p, db) \/ requireManagedQueueSchema(p, db) \/ PruneAtStart(p, db)
  \/ \E c \in DOMAIN Checks :
       CheckColumn(p, c, db) \/ AlterTable(p, c, db) \/ RecheckColumn(p, c, db)

-----------------------------------------------------------------------------
(* Dispatch.                                                               *)

At(d, at) == call' = [call EXCEPT ![d].at = at] /\ UNCHANGED tx

\* The entry of the backend's Dispatch: its own gate, then the start a backend
\* with handlers still needs.
Dispatch(d) ==
  LET h == host[Proc[d]] IN
  /\ call[d].at = "entered"
  /\ IF h.shuttingDown /\ ~Owns(d) THEN At(d, "rejected")
     ELSE At(d, IF ~h.started /\ h.handlers THEN "startMu" ELSE Submit(d))
  /\ UNCHANGED <<schema, clock, locks, rows, host, faults>>

\* What a statement names is there.
HasTable(at) ==
  IF at \in {"insert", "row"} THEN {"jobs", "metadata"} \subseteq schema
  ELSE "locks" \in schema

\* A job without UniqueTTL: one INSERT, which has no retry.
Insert(d, db) ==
  /\ call[d].at = "insert"
  /\ Fault(db)
  /\ rows' = IF HasTable("insert") /\ db # "failed"
             THEN [rows EXCEPT ![d] = "pending"] ELSE rows
  /\ Return(d, IF ~HasTable("insert") \/ db = "failed" THEN "error"
               ELSE IF db = "ok" THEN "accepted" ELSE "unknown")
  /\ UNCHANGED <<schema, clock, locks, host>>

\* Mutant: only the versioned key is claimed.
FirstKeyVersioned == "canonical"

\* acquireUnique claims the historical key first, then the versioned one.
FirstKey == "legacy"

\* acquireUnique reads the database clock; every PruneInterval-th claim of the
\* process prunes first.
databaseNowMillis(d) ==
  LET p == Proc[d]
      n == (host[p].uniqueClaims + 1) % PruneInterval
  IN  /\ call[d].at = "time"
      /\ call' = [call EXCEPT ![d].now = clock, ![d].at = IF n = 0 THEN "prune" ELSE FirstKey]
      /\ host' = [host EXCEPT ![p].uniqueClaims = n]
      /\ UNCHANGED <<schema, dataVars, faults>>

HeldByOther(d, k) == \E e \in Dispatches \ {d} : k \in DOMAIN tx[e]
Write(d, k, row) ==
  tx' = [tx EXCEPT ![d] = [i \in DOMAIN @ \cup {k} |-> IF i = k THEN row ELSE @[i]]]

\* The rows the DELETE of d has still to lock.
ToPrune(d) == {k \in Keys : Expired(k, call[d].now) /\ k \notin DOMAIN tx[d]}

\* The DELETE locks its rows one after the other.
pruneExpiredUniqueLocks(d) ==
  /\ call[d].at = "prune" /\ HasTable("prune")
  /\ \/ /\ ToPrune(d) = {} /\ At(d, FirstKey)
     \/ /\ \E k \in ToPrune(d) : ~HeldByOther(d, k) /\ Write(d, k, NoClaim)
        /\ UNCHANGED call
  /\ UNCHANGED <<schema, clock, locks, rows, host, faults>>

\* The key a call claims now.
UniqueKey(d) == IF call[d].at = "legacy" THEN legacyUniqueJobKey(d) ELSE uniqueJobKey(d)

Visible(d, k) == IF k \in DOMAIN tx[d] THEN tx[d][k] ELSE locks[k]

\* Insert the lock row, or take over an expired one.
acquireUniqueKey(d) ==
  LET k == UniqueKey(d) IN
  /\ call[d].at \in {"legacy", "canonical"} /\ HasTable("legacy")
  /\ ~HeldByOther(d, k)
  /\ IF Visible(d, k) = NoClaim \/ Visible(d, k).exp <= call[d].now
     THEN /\ Write(d, k, [exp |-> call[d].now + TTL, by |-> d])
          /\ call' = [call EXCEPT ![d].at = IF @ = "legacy" THEN "canonical" ELSE "row"]
     ELSE Return(d, "duplicate")
  /\ UNCHANGED <<schema, clock, locks, rows, host, faults>>

\* The claims and the job become visible together.
Committed(d) ==
  /\ locks' = [k \in Keys |-> Visible(d, k)]
  /\ rows' = [rows EXCEPT ![d] = "pending"]

\* The INSERT of the job and the commit.  After an ambiguous commit the caller
\* has an error and the job is queued.
Commit(d, db) ==
  /\ call[d].at = "row" /\ HasTable("row") /\ db # "failed"
  /\ Fault(db)
  /\ Committed(d)
  /\ Return(d, IF db = "ok" THEN "accepted" ELSE "unknown")
  /\ UNCHANGED <<schema, clock, host>>

InTx(d) == call[d].at \in {"time", "prune", "legacy", "canonical", "row"}

\* Two transactions wait for each other's lock rows.
Needs(d) == IF call[d].at = "prune" THEN ToPrune(d)
            ELSE IF call[d].at \in {"legacy", "canonical"} THEN {UniqueKey(d)} ELSE {}
Deadlocked(d) ==
  \E e \in Dispatches \ {d} : /\ Needs(d) \cap DOMAIN tx[e] # {}
                              /\ Needs(e) \cap DOMAIN tx[d] # {}

\* A statement of the transaction fails, names what is not there, or is the
\* victim of a deadlock: the deferred Rollback undoes everything.
Rollback(d) ==
  /\ InTx(d)
  /\ IF Deadlocked(d) \/ (call[d].at # "time" /\ ~HasTable(call[d].at))
     THEN UNCHANGED faults ELSE Disrupt
  /\ Return(d, "error")
  /\ UNCHANGED <<schema, clock, locks, rows, host>>

Submits(d) ==
  \/ Dispatch(d) \/ databaseNowMillis(d) \/ pruneExpiredUniqueLocks(d)
  \/ acquireUniqueKey(d) \/ Rollback(d)
  \/ \E db \in DBResults : Insert(d, db) \/ Commit(d, db)

-----------------------------------------------------------------------------
(* The worker loop, one per process.                                       *)

Worker(p, at, j) == [host EXCEPT ![p].worker = at, ![p].serving = j]

\* The loop looks at shutdownCh only between two jobs.  A poll that finds no
\* job changes nothing.
workerLoop(p) ==
  /\ \/ /\ host[p].worker = "top" /\ host[p].shuttingDown
        /\ host' = Worker(p, "exited", "none")
        /\ UNCHANGED rows
     \/ \E j \in Dispatches :
        /\ host[p].worker = "top" /\ ~host[p].shuttingDown
        /\ rows[j] = "pending"
        /\ rows' = [rows EXCEPT ![j] = "running"]
        /\ host' = Worker(p, "processJob", j)
     \/ /\ host[p].worker = "processJob"
        /\ rows' = [rows EXCEPT ![host[p].serving] = "done"]
        /\ host' = Worker(p, "top", "none")
  /\ UNCHANGED <<schema, clock, locks, tx, call, faults>>

-----------------------------------------------------------------------------
(* Shutdown of the runtime over Shutdown and DrainWorkers of the backend.  *)

Stop(p, at) == host' = [host EXCEPT ![p].stop = at]

\* workerWG: no worker of the process is left.
WorkersGone(p) == host[p].worker \in {"none", "exited"}

\* The first critical section; a start attempt is waited for.
Shutdown(p) ==
  /\ p \in scene.stoppers /\ ~host[p].closed
  /\ host[p].stop = "idle" \/ (host[p].stop = "startWait" /\ ~host[p].start)
  /\ host' = [host EXCEPT ![p].draining = TRUE, ![p].seen = OperationsIdle(p),
                          ![p].stop = IF host[p].start THEN "startWait" ELSE "operations"]

OperationsEnd(p) ==
  host[p].stop = "operations" /\ OperationsClosed(p) /\ Stop(p, "drain")

\* DrainWorkers closes the backend's gate under startMu.
DrainWorkers(p) ==
  /\ host[p].stop = "drain" /\ host[p].mu = "free"
  /\ host' = [host EXCEPT ![p].shuttingDown = TRUE, ![p].stop = "workers"]

finishWorkerDrain(p) ==
  /\ host[p].stop = "workers" /\ WorkersGone(p)
  /\ host' = [host EXCEPT ![p].stop = "operations2", ![p].seen = OperationsIdle(p)]

\* Mutant: the operations admitted during the drain are not waited for.
OperationsEndedUnseen(p) == TRUE

\* The second wait of the runtime, for what handlers dispatched meanwhile.
OperationsEnded(p) == OperationsClosed(p)

\* Shutdown of the backend: one goroutine closes the handle.
CloseBackend(p) ==
  /\ host[p].stop = "operations2" /\ OperationsEnded(p)
  /\ host' = [host EXCEPT ![p].stop = "closeWait",
                          ![p].close = IF @ = "no" THEN "closing" ELSE @]

\* That goroutine outlives a caller whose context ends.  The error of a Close
\* is kept for the caller.
finishResourceClose(p, ok) ==
  /\ host[p].close = "closing"
  /\ host' = [host EXCEPT ![p].close = "done", ![p].open = FALSE, ![p].shutdownErr = ~ok]

\* takeShutdownError reports a failed Close once: the runtime then stays
\* draining, and the next Shutdown ends.
EndShutdown(p) ==
  /\ host[p].stop = "closeWait" /\ host[p].close = "done"
  /\ host' = IF host[p].shutdownErr
             THEN [host EXCEPT ![p].shutdownErr = FALSE, ![p].stop = "idle"]
             ELSE [host EXCEPT ![p].stop = "ok", ![p].closed = TRUE, ![p].up = FALSE,
                               ![p].draining = FALSE]

\* The context of a waiting Shutdown ends; waiting for startMu ignores it.
ShutdownExpires(p) ==
  /\ host[p].stop \in {"startWait", "operations", "workers", "operations2", "closeWait"}
  /\ Stop(p, "idle")

Stops(p) ==
  /\ \/ /\ \/ Shutdown(p) \/ OperationsEnd(p) \/ DrainWorkers(p) \/ finishWorkerDrain(p)
           \/ CloseBackend(p) \/ finishResourceClose(p, TRUE) \/ EndShutdown(p)
        /\ UNCHANGED faults
     \/ (ShutdownExpires(p) \/ finishResourceClose(p, FALSE)) /\ Disrupt
  /\ UNCHANGED <<schema, dataVars, call>>

-----------------------------------------------------------------------------
Next ==
  /\ \/ Tick
     \/ \E p \in Processes :
          \/ StartRuntime(p) \/ Go(p) \/ workerLoop(p) \/ Stops(p)
          \/ \E t \in Starters(p) : StartWorkers(p, t)
          \/ \E db \in DBResults : Migrates(p, db)
     \/ \E d \in Dispatches :
          \/ \E j \in Dispatches \cup {"none"} : acquireOperation(d, j)
          \/ Submits(d)
  /\ UNCHANGED scene

Spec == Init /\ [][Next]_vars

-----------------------------------------------------------------------------
(* Properties.                                                             *)

\* A job is queued and the window of its claim has not passed.
LiveJob(d) == rows[d] # "none" /\ Identity[d] # "none" /\ clock < call[d].now + TTL

\* The jobs, one of an older release included, that a key is taken by.
Holders(k) ==
  {d \in Dispatches : k \in JobKeys(d) /\ LiveJob(d)}
    \cup (IF locks[k].by = "old" /\ clock < locks[k].exp THEN {"old"} ELSE {})

\* Through pruning, rollbacks, ambiguous commits and clocks read early in a
\* transaction, acquireUnique lets one job at a time hold a canonical identity,
\* whatever bytes it came in, and one at a time hold a historical digest, a job
\* of an older release included; and no claim that still refuses jobs belongs to
\* a job that was never queued.  A job of an older release and a new one of the
\* same identity but other bytes do not exclude each other.
ClaimsTruthful ==
  \A k \in Keys :
    /\ Cardinality(Holders(k)) <= 1
    /\ clock < locks[k].exp => locks[k].by \in Holders(k)

\* Processes that start together on any older schema do not disturb each
\* other: workers run only on a complete schema, and a migrating start fails
\* only because a statement failed, never because a peer was faster.
ConcurrentStartsConverge ==
  \A p \in Processes :
    /\ ~WorkersGone(p) =>
         (IF p \in scene.managed THEN {"jobs", "locks", "token", "metadata"} ELSE Artefacts) \subseteq schema
    /\ host[p].failed /\ p \notin scene.managed => faults > 0

\* The handle a process owns is closed under nobody: by then the start it met,
\* its workers, also those a Dispatch started, and every operation admitted
\* before or during the drain have ended; and a Shutdown that returned nil has
\* closed it.
ClosedWhenQuiet ==
  \A p \in Processes :
    /\ ~host[p].open => WorkersGone(p) /\ host[p].mu = "free" /\ Operations(p) = {}
    /\ host[p].stop = "ok" => ~host[p].open
=============================================================================
