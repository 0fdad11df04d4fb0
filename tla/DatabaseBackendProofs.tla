----------------------- MODULE DatabaseBackendProofs -----------------------
(***************************************************************************)
(* Proofs about the life of the SQL driver around its rows, for any number *)
(* of processes, Dispatch calls and identities, any deployment, any        *)
(* UniqueTTL and pruning interval and any number of faults: concurrent     *)
(* starts converge, the database handle is closed under nobody, and        *)
(* acquireUnique keeps what it promises about claims and jobs.             *)
(***************************************************************************)
EXTENDS DatabaseBackend, TLAPS

Columns == {"token", "metadata", "index"}
Steps == {"none", "createJobs", "createLocks", "checkToken", "alterToken", "recheckToken",
          "checkMetadata", "alterMetadata", "recheckMetadata", "checkIndex", "alterIndex",
          "recheckIndex", "prune", "requireJobs", "requireColumns", "requireLocks", "go"}

Host == [handlers: BOOLEAN, started: BOOLEAN, shuttingDown: BOOLEAN,
         mu: Dispatches \cup {"free", "runtime"}, step: Steps, failed: BOOLEAN,
         worker: {"none", "top", "processJob", "exited"}, serving: Dispatches \cup {"none"},
         uniqueClaims: Nat, close: {"no", "closing", "done"}, shutdownErr: BOOLEAN,
         open: BOOLEAN, start: BOOLEAN, up: BOOLEAN, draining: BOOLEAN, closed: BOOLEAN,
         stop: StopAt, seen: Nat, opGen: Nat]
Call == [at: CallAt, now: Nat, caller: Dispatches \cup {"none"}]

\* The part of the state the two arguments are about.  A start that has a next
\* statement holds startMu.
HostInv ==
  /\ host \in [Processes -> Host]
  /\ \A p \in Processes : host[p].step # "none" => host[p].mu # "free"
TypeInv ==
  /\ HostInv
  /\ call \in [Dispatches -> Call]
  /\ clock \in Nat /\ faults \in Nat

TokenSteps == {"checkToken", "alterToken", "recheckToken"}
MetadataSteps == {"checkMetadata", "alterMetadata", "recheckMetadata"}
IndexSteps == {"checkIndex", "alterIndex", "recheckIndex"}
Requiring == {"requireJobs", "requireColumns", "requireLocks"}
Migrating == {"createJobs", "createLocks", "prune"} \cup TokenSteps \cup MetadataSteps \cup IndexSteps

Complete(p) ==
  IF p \in scene.managed THEN {"jobs", "locks", "token", "metadata"} ELSE Artefacts

\* What a start that has come to step s has found or made: no statement of a
\* peer takes it away again.
Prepared(p, s) ==
  /\ s \notin {"none", "createJobs", "requireJobs"} => "jobs" \in schema
  /\ s \in TokenSteps \cup MetadataSteps \cup IndexSteps \cup {"prune"} =>
       "locks" \in schema /\ (MySQL \/ "index" \in schema)
  /\ s \in MetadataSteps \cup IndexSteps \cup {"prune", "requireLocks"} => "token" \in schema
  /\ s \in IndexSteps \cup {"prune", "requireLocks"} => "metadata" \in schema
  /\ s = "prune" => "index" \in schema
  /\ s = "go" => Complete(p) \subseteq schema

\* A start keeps to one of the two paths, and one that looks again after a lost
\* ALTER finds what it misses unless a statement has failed.
SchemaOK(p) ==
  /\ Prepared(p, host[p].step)
  /\ host[p].step \notin (IF p \in scene.managed THEN Migrating ELSE Requiring)
  /\ ~WorkersGone(p) => Complete(p) \subseteq schema
  /\ host[p].failed /\ p \notin scene.managed => faults > 0
  /\ \A c \in Columns : host[p].step = Rechecks[c] /\ c \notin schema => faults > 0
SchemaInv == \A p \in Processes : SchemaOK(p)

\* No operation of p is admitted.
Idle(p) == \A d \in Dispatches : Proc[d] = p => ~Active(d)

\* What a Shutdown has established by each of its waits, and why nothing
\* admitted later undoes it: a start and an outside call find the runtime
\* draining or closed, a continuation finds no handler running.
DrainOK(p) ==
  LET h == host[p] IN
  /\ h.worker # "processJob" => h.serving = "none"
  /\ h.worker # "none" => h.started /\ h.mu = "free"
  /\ h.mu \notin {"free", "runtime"} => Proc[h.mu] = p /\ call[h.mu].at = "starting"
  /\ h.mu = "runtime" => h.start
  /\ h.shuttingDown \/ h.stop \notin {"idle", "ok"} => h.draining \/ h.closed
  /\ h.shuttingDown \/ h.stop \notin {"idle", "ok", "startWait"} => ~h.start
  /\ h.shuttingDown => h.mu = "free"
  /\ h.stop \in {"workers", "operations2", "closeWait"} => h.shuttingDown
  /\ h.stop = "operations2" => WorkersGone(p)
  /\ h.stop = "operations2" /\ (h.seen = 0 \/ h.seen < h.opGen) => Idle(p)
  /\ ~Idle(p) => h.opGen > 0
  /\ h.close # "no" => h.shuttingDown /\ WorkersGone(p) /\ Idle(p)
  /\ h.stop = "closeWait" => h.close # "no"
  /\ h.open = (h.close # "done")
  /\ h.stop = "ok" => h.close = "done"
DrainInv == \A p \in Processes : DrainOK(p)

-----------------------------------------------------------------------------
(* Types.                                                                  *)

\* The start steps of the columns are steps.
LEMMA ColumnSteps ==
  ASSUME NEW c \in DOMAIN Checks
  PROVE  /\ c \in Columns
         /\ Checks[c] \in Steps /\ Alters[c] \in Steps /\ Rechecks[c] \in Steps
         /\ After(c) \in Steps
BY DEF Checks, Alters, Rechecks, After, Columns, Steps

\* The processes start and no call has been made.
LEMMA TypeInit == Init => TypeInv
<1> SUFFICES ASSUME Init PROVE TypeInv
  BY Zenon
<1>1. \A p \in Processes : host[p] \in Host /\ host[p].step = "none"
  BY Zenon DEF Init, Host, Steps, StopAt
<1>2. host = [p \in Processes |-> host[p]]
  BY Zenon DEF Init
<1>3. HostInv
  BY <1>1, <1>2, Zenon DEF HostInv
<1>4. call \in [Dispatches -> Call]
  BY Zenon DEF Init, Call, CallAt
<1> QED
  BY <1>3, <1>4, Zenon DEF Init, TypeInv

\* A process whose record is replaced by another keeps the records well formed.
LEMMA HostUpdate ==
  ASSUME HostInv, NEW p \in Processes, NEW h \in Host, h.step # "none" => h.mu # "free",
         host' = [host EXCEPT ![p] = h]
  PROVE  HostInv'
BY Zenon DEF HostInv

\* Two records of a process agree about its start and its worker.
SameWork(g, h) ==
  /\ h.step = g.step /\ h.mu = g.mu /\ h.failed = g.failed /\ h.start = g.start
  /\ h.worker = g.worker /\ h.serving = g.serving /\ h.started = g.started

\* A step changes nothing of the processes but the record of p, and there
\* nothing of the start and the worker.
ChangesRestOf(p) ==
  \E h \in Host : host' = [host EXCEPT ![p] = h] /\ SameWork(host[p], h)

\* Such a step keeps the records well formed.
LEMMA RestUpdate ==
  ASSUME HostInv, NEW p \in Processes, ChangesRestOf(p)
  PROVE  HostInv'
BY HostUpdate, Zenon DEF ChangesRestOf, SameWork, HostInv

\* A start call that returns leaves the state well formed.
LEMMA StartReturnsType ==
  ASSUME TypeInv, NEW p \in Processes, NEW t \in Dispatches \cup {"runtime"}, NEW h \in Host,
         h.step # "none" => h.mu # "free",
         NEW result \in {"ok", "rejected", "error"}, StartReturns(p, t, result, h)
  PROVE  HostInv' /\ call' \in [Dispatches -> Call]
<1>1. CASE t = "runtime"
  <2> DEFINE g == [h EXCEPT !.start = FALSE, !.up = (result = "ok")]
  <2>0. (result = "ok") \in BOOLEAN
    BY Zenon
  <2>1. g \in Host /\ (g.step # "none" => g.mu # "free")
    <3>1. ASSUME NEW b \in BOOLEAN
          PROVE  LET k == [h EXCEPT !.start = FALSE, !.up = b] IN k \in Host /\ k.step = h.step /\ k.mu = h.mu
      BY ZenonT(60) DEF Host
    <3> QED
      BY <2>0, <3>1, Zenon
  <2>2. host' = [host EXCEPT ![p] = g] /\ call' = call
    BY <1>1, Zenon DEF StartReturns
  <2> QED
    BY <2>1, <2>2, HostUpdate, Zenon DEF TypeInv
<1>2. CASE t # "runtime"
  <2>1. HostInv'
    BY <1>2, HostUpdate, Zenon DEF StartReturns, TypeInv
  <2>2. call' \in [Dispatches -> Call]
    BY <1>2 DEF StartReturns, TypeInv, Call, CallAt, Results, Submit
  <2> QED
    BY <2>1, <2>2, Zenon
<1> QED
  BY <1>1, <1>2, Zenon

\* A failed start leaves the state well formed.
LEMMA StartFailsType ==
  ASSUME TypeInv, NEW p \in Processes, host[p].step # "none", StartFails(p)
  PROVE  HostInv' /\ call' \in [Dispatches -> Call]
<1> DEFINE h == [host[p] EXCEPT !.mu = "free", !.step = "none", !.failed = TRUE]
<1>1. h \in Host /\ h.step = "none"
  <2> SUFFICES ASSUME NEW g \in Host
               PROVE  /\ [g EXCEPT !.mu = "free", !.step = "none", !.failed = TRUE] \in Host
                      /\ [g EXCEPT !.mu = "free", !.step = "none", !.failed = TRUE].step = "none"
    BY Zenon DEF TypeInv, HostInv
  <2> QED
    BY ZenonT(60) DEF Host, Steps
<1>2. host[p].mu \in Dispatches \cup {"runtime"}
  BY Zenon DEF TypeInv, HostInv, Host
<1>3. StartReturns(p, host[p].mu, "error", h)
  BY Zenon DEF StartFails
<1> HIDE DEF h
<1> QED
  BY <1>1, <1>2, <1>3, StartReturnsType, Zenon

\* A start that goes on to its next statement leaves the state well formed.
LEMMA StepType ==
  ASSUME TypeInv, NEW p \in Processes, host[p].step # "none", NEW s \in Steps, Step(p, s)
  PROVE  HostInv' /\ call' \in [Dispatches -> Call]
<1> DEFINE h == [host[p] EXCEPT !.step = s]
<1>1. h \in Host /\ h.mu # "free"
  BY DEF TypeInv, HostInv, Host
<1>2. host' = [host EXCEPT ![p] = h] /\ call' = call
  BY Zenon DEF Step
<1> HIDE DEF h
<1> QED
  BY <1>1, <1>2, HostUpdate, Zenon DEF TypeInv

\* A step counts at most one fault.
Counts == faults' \in {faults, faults + 1} /\ clock' \in {clock, clock + 1}

\* A statement that fails is a fault, and only that.
LEMMA FaultCounts ==
  ASSUME NEW db, Fault(db) \/ Disrupt \/ UNCHANGED faults
  PROVE  faults' \in {faults, faults + 1}
BY Zenon DEF Fault, Disrupt

\* The clock and the fault count stay natural numbers.
LEMMA CountsType ==
  ASSUME TypeInv, [Next]_vars
  PROVE  clock' \in Nat /\ faults' \in Nat /\ faults' >= faults
<1>1. CASE UNCHANGED vars
  BY <1>1 DEF TypeInv, vars
<1>2. CASE Tick
  BY <1>2 DEF TypeInv, Tick
<1>3. ASSUME NEW p \in Processes, NEW db \in DBResults, Migrates(p, db)
      PROVE  Counts
  <2>1. Fault(db) /\ clock' = clock
    BY <1>3, Zenon DEF Migrates, CreateTables, requireManagedQueueSchema, PruneAtStart,
              CheckColumn, AlterTable, RecheckColumn, dataVars
  <2> QED
    BY <2>1, FaultCounts, Zenon DEF Counts
<1>4. ASSUME NEW p \in Processes, Stops(p)
      PROVE  Counts
  <2>1. (Disrupt \/ UNCHANGED faults) /\ clock' = clock
    BY <1>4, Zenon DEF Stops, dataVars
  <2> QED
    BY <2>1, FaultCounts, Zenon DEF Counts
<1>5. ASSUME NEW p \in Processes,
             \/ StartRuntime(p) \/ Go(p) \/ workerLoop(p)
             \/ \E t \in Starters(p) : StartWorkers(p, t)
      PROVE  Counts
  <2>1. faults' = faults /\ clock' = clock
    BY <1>5, Zenon DEF StartRuntime, Go, workerLoop, StartWorkers, dataVars
  <2> QED
    BY <2>1, Zenon DEF Counts
<1>6. ASSUME NEW d \in Dispatches,
             \/ \E j \in Dispatches \cup {"none"} : acquireOperation(d, j)
             \/ Submits(d)
      PROVE  Counts
  <2>1. (\E db \in DBResults : Fault(db) \/ Disrupt \/ UNCHANGED faults) /\ clock' = clock
    <3>1. "ok" \in DBResults
      BY Zenon DEF DBResults
    <3>2. ASSUME NEW db \in DBResults, Insert(d, db) \/ Commit(d, db)
          PROVE  Fault(db) /\ clock' = clock
      BY <3>2, Zenon DEF Insert, Commit
    <3>3. CASE \E j \in Dispatches \cup {"none"} : acquireOperation(d, j)
      BY <3>1, <3>3, Zenon DEF acquireOperation, dataVars
    <3>4. CASE Rollback(d)
      BY <3>1, <3>4, Zenon DEF Rollback
    <3>5. CASE Dispatch(d) \/ databaseNowMillis(d) \/ pruneExpiredUniqueLocks(d) \/ acquireUniqueKey(d)
      BY <3>1, <3>5, Zenon DEF Dispatch, databaseNowMillis, pruneExpiredUniqueLocks, acquireUniqueKey,
                               dataVars
    <3> QED
      BY <1>6, <3>2, <3>3, <3>4, <3>5, Zenon DEF Submits
  <2> QED
    BY <2>1, FaultCounts, Zenon DEF Counts
<1> QED
  BY <1>1, <1>2, <1>3, <1>4, <1>5, <1>6 DEF Next, Counts, TypeInv

\* Each statement of a start fails it or takes it to its next one.
LEMMA MigratesMoves ==
  ASSUME NEW p \in Processes, NEW db \in DBResults, Migrates(p, db)
  PROVE  host[p].step # "none" /\ (StartFails(p) \/ \E s \in Steps : Step(p, s))
<1>1. CASE CreateTables(p, db)
  BY <1>1, Zenon DEF CreateTables, Steps
<1>2. CASE requireManagedQueueSchema(p, db)
  BY <1>2, Zenon DEF requireManagedQueueSchema, Steps
<1>3. CASE PruneAtStart(p, db)
  BY <1>3, Zenon DEF PruneAtStart, Steps
<1>4. ASSUME NEW c \in DOMAIN Checks, CheckColumn(p, c, db) \/ AlterTable(p, c, db) \/ RecheckColumn(p, c, db)
      PROVE  host[p].step # "none" /\ (StartFails(p) \/ \E s \in Steps : Step(p, s))
  <2>1. host[p].step # "none"
    BY <1>4 DEF CheckColumn, AlterTable, RecheckColumn, Checks, Alters, Rechecks
  <2>2. StartFails(p) \/ Step(p, After(c)) \/ Step(p, Alters[c]) \/ Step(p, Rechecks[c])
    BY <1>4, Zenon DEF CheckColumn, AlterTable, AlterLost, RecheckColumn
  <2> QED
    BY <2>1, <2>2, ColumnSteps, Zenon
<1> QED
  BY <1>1, <1>2, <1>3, <1>4, Zenon DEF Migrates

\* The operations of a start leave the state well formed.
LEMMA StartType ==
  ASSUME TypeInv, NEW p \in Processes, NEW db \in DBResults, NEW t \in Starters(p),
         StartRuntime(p) \/ StartWorkers(p, t) \/ Go(p) \/ Migrates(p, db)
  PROVE  HostInv' /\ call' \in [Dispatches -> Call]
<1> USE DEF TypeInv
<1>0. host[p] \in Host
  BY Zenon DEF HostInv
<1>t. t \in Dispatches \cup {"runtime"}
  BY Zenon DEF Starters
<1>1. CASE StartRuntime(p)
  <2> DEFINE h == [host[p] EXCEPT !.start = TRUE, !.handlers = TRUE]
  <2>1. h \in Host /\ h.step = host[p].step /\ h.mu = host[p].mu
    BY <1>0, Zenon DEF Host
  <2>2. host' = [host EXCEPT ![p] = h] /\ call' = call
    BY <1>1, Zenon DEF StartRuntime
  <2> HIDE DEF h
  <2> QED
    BY <2>1, <2>2, HostUpdate, Zenon DEF HostInv
<1>2. CASE StartWorkers(p, t)
  <2>1. CASE host[p].shuttingDown \/ host[p].started
    <3>1. StartReturns(p, t, "rejected", host[p]) \/ StartReturns(p, t, "ok", host[p])
      BY <1>2, <2>1, Zenon DEF StartWorkers
    <3> QED
      BY <1>0, <1>t, <3>1, StartReturnsType, Zenon DEF HostInv
  <2>2. CASE ~(host[p].shuttingDown \/ host[p].started)
    <3>1. PICK s \in {"requireJobs", "createJobs"} :
            host' = [host EXCEPT ![p] = [host[p] EXCEPT !.mu = t, !.step = s]]
      BY <1>2, <2>2, Zenon DEF StartWorkers
    <3> DEFINE h == [host[p] EXCEPT !.mu = t, !.step = s]
    <3>2. h \in Host /\ h.mu # "free"
      BY <1>0, <1>t, BackendAssumption, ZenonT(60) DEF Host, Steps
    <3>3. host' = [host EXCEPT ![p] = h]
      BY <3>1, Zenon
    <3>4. call' \in [Dispatches -> Call]
      BY <1>2, <2>2 DEF StartWorkers, Call, CallAt
    <3> HIDE DEF h
    <3> QED
      BY <3>2, <3>3, <3>4, HostUpdate, Zenon
  <2> QED
    BY <2>1, <2>2, Zenon
<1>3. CASE Go(p)
  <2> DEFINE h == [host[p] EXCEPT !.mu = "free", !.step = "none", !.started = TRUE, !.worker = "top"]
  <2>1. h \in Host /\ h.step = "none"
    BY <1>0, ZenonT(60) DEF Host, Steps
  <2>2. host[p].mu \in Dispatches \cup {"runtime"} /\ StartReturns(p, host[p].mu, "ok", h)
    BY <1>0, <1>3, Zenon DEF Go, HostInv, Host
  <2> HIDE DEF h
  <2> QED
    BY <2>1, <2>2, StartReturnsType, Zenon
<1>4. CASE Migrates(p, db)
  <2>1. host[p].step # "none" /\ (StartFails(p) \/ \E s \in Steps : Step(p, s))
    BY <1>4, MigratesMoves, Zenon
  <2> QED
    BY <2>1, StartFailsType, StepType, Zenon
<1> QED
  BY <1>1, <1>2, <1>3, <1>4, Zenon

\* The steps of a Dispatch change of the processes at most the counters of its
\* own.
LEMMA DispatchChanges ==
  ASSUME TypeInv, NEW d \in Dispatches, NEW j \in Dispatches \cup {"none"},
         acquireOperation(d, j) \/ Submits(d)
  PROVE  /\ host' = host \/ ChangesRestOf(Proc[d])
         /\ call' \in [Dispatches -> Call]
<1> USE DEF TypeInv
<1> DEFINE p == Proc[d]
<1>0. p \in Processes /\ host[p] \in Host
  BY BackendAssumption, Zenon DEF HostInv
<1> HIDE DEF p
<1>1. CASE acquireOperation(d, j)
  <2>1. call' \in [Dispatches -> Call]
    BY <1>1 DEF acquireOperation, Call, CallAt, Results
  <2> DEFINE n == IF Operations(p) = {} THEN host[p].opGen + 1 ELSE host[p].opGen
             h == [host[p] EXCEPT !.opGen = n]
  <2>2. host' = host \/ host' = [host EXCEPT ![p] = h]
    BY <1>1, Zenon DEF acquireOperation, p
  <2>3. n \in Nat
    BY <1>0 DEF Host
  <2> HIDE DEF n
  <2>4. h \in Host /\ SameWork(host[p], h)
    BY <1>0, <2>3, Zenon DEF Host, SameWork
  <2> HIDE DEF h
  <2> QED
    BY <2>1, <2>2, <2>4, Zenon DEF ChangesRestOf, p
<1>2. CASE databaseNowMillis(d)
  <2>1. call' \in [Dispatches -> Call]
    BY <1>2 DEF databaseNowMillis, FirstKey, Call, CallAt
  <2> DEFINE n == (host[p].uniqueClaims + 1) % PruneInterval
             h == [host[p] EXCEPT !.uniqueClaims = n]
  <2>2. n \in Nat
    BY <1>0, BackendAssumption DEF Host
  <2>3. host' = [host EXCEPT ![p] = h]
    BY <1>2, Zenon DEF databaseNowMillis, p
  <2> HIDE DEF n
  <2>4. h \in Host /\ SameWork(host[p], h)
    BY <1>0, <2>2, Zenon DEF Host, SameWork
  <2> HIDE DEF h
  <2> QED
    BY <2>1, <2>3, <2>4, Zenon DEF ChangesRestOf, p
<1>3. CASE \/ Dispatch(d) \/ pruneExpiredUniqueLocks(d) \/ acquireUniqueKey(d) \/ Rollback(d)
           \/ \E db \in DBResults : Insert(d, db) \/ Commit(d, db)
  <2>1. host' = host
    BY <1>3, Zenon DEF Dispatch, pruneExpiredUniqueLocks, acquireUniqueKey, Rollback, Insert, Commit
  <2>2. call' = call \/ \E a \in CallAt : call' = [call EXCEPT ![d].at = a]
    BY <1>3, Zenon DEF Dispatch, pruneExpiredUniqueLocks, acquireUniqueKey, Rollback, Insert, Commit, At,
                Return, CallAt, Results, Submit, FirstKey
  <2> QED
    BY <2>1, <2>2, Zenon DEF Call
<1> QED
  BY <1>1, <1>2, <1>3, Zenon DEF Submits

\* The steps of the worker loop leave the state well formed.
LEMMA WorkerType ==
  ASSUME TypeInv, NEW p \in Processes, workerLoop(p)
  PROVE  HostInv' /\ call' \in [Dispatches -> Call]
<1>0. host[p] \in Host
  BY Zenon DEF TypeInv, HostInv
<1>1. PICK w \in {"top", "processJob", "exited"}, j \in Dispatches \cup {"none"} : host' = Worker(p, w, j)
  BY Zenon DEF workerLoop
<1> DEFINE h == [host[p] EXCEPT !.worker = w, !.serving = j]
<1>2. h \in Host /\ h.step = host[p].step /\ h.mu = host[p].mu
  BY <1>0, Zenon DEF Host
<1>3. host' = [host EXCEPT ![p] = h] /\ call' = call
  BY <1>1, Zenon DEF Worker, workerLoop
<1> HIDE DEF h
<1> QED
  BY <1>2, <1>3, HostUpdate, Zenon DEF TypeInv, HostInv

\* The steps of a Shutdown are about other fields than the start's and the
\* worker's.
LEMMA StopsChange ==
  ASSUME TypeInv, NEW p \in Processes, Stops(p)
  PROVE  ChangesRestOf(p) /\ call' = call
<1>0. host[p] \in Host
  BY Zenon DEF TypeInv, HostInv
<1>c. call' = call
  BY Zenon DEF Stops
<1>o. OperationsIdle(p) \in Nat
  BY <1>0, Zenon DEF OperationsIdle, Host
<1>1. CASE Shutdown(p)
  <2> DEFINE h == [host[p] EXCEPT !.draining = TRUE, !.seen = OperationsIdle(p),
                               !.stop = IF host[p].start THEN "startWait" ELSE "operations"]
  <2>0. (IF host[p].start THEN "startWait" ELSE "operations") \in StopAt
    BY Zenon DEF StopAt
  <2>1. h \in Host /\ SameWork(host[p], h)
    <3>1. ASSUME NEW n \in Nat, NEW s \in StopAt
          PROVE  LET k == [host[p] EXCEPT !.draining = TRUE, !.seen = n, !.stop = s] IN
                 k \in Host /\ SameWork(host[p], k)
      BY <1>0, Zenon DEF Host, SameWork
    <3> QED
      BY <1>o, <2>0, <3>1, Zenon
  <2>2. host' = [host EXCEPT ![p] = h]
    BY <1>1, Zenon DEF Shutdown
  <2> HIDE DEF h
  <2> QED
    BY <1>c, <2>1, <2>2, Zenon DEF ChangesRestOf
<1>2. CASE OperationsEnd(p)
  <2> DEFINE h == [host[p] EXCEPT !.stop = "drain"]
  <2>1. h \in Host /\ SameWork(host[p], h)
    BY <1>0 DEF Host, StopAt, SameWork
  <2>2. host' = [host EXCEPT ![p] = h]
    BY <1>2, Zenon DEF OperationsEnd, Stop
  <2> HIDE DEF h
  <2> QED
    BY <1>c, <2>1, <2>2, Zenon DEF ChangesRestOf
<1>3. CASE DrainWorkers(p)
  <2> DEFINE h == [host[p] EXCEPT !.shuttingDown = TRUE, !.stop = "workers"]
  <2>1. h \in Host /\ SameWork(host[p], h)
    BY <1>0, ZenonT(60) DEF Host, StopAt, SameWork
  <2>2. host' = [host EXCEPT ![p] = h]
    BY <1>3, Zenon DEF DrainWorkers
  <2> HIDE DEF h
  <2> QED
    BY <1>c, <2>1, <2>2, Zenon DEF ChangesRestOf
<1>4. CASE finishWorkerDrain(p)
  <2> DEFINE h == [host[p] EXCEPT !.stop = "operations2", !.seen = OperationsIdle(p)]
  <2>1. h \in Host /\ SameWork(host[p], h)
    BY <1>0, <1>o, ZenonT(60) DEF Host, StopAt, SameWork
  <2>2. host' = [host EXCEPT ![p] = h]
    BY <1>4, Zenon DEF finishWorkerDrain
  <2> HIDE DEF h
  <2> QED
    BY <1>c, <2>1, <2>2, Zenon DEF ChangesRestOf
<1>5. CASE CloseBackend(p)
  <2> DEFINE h == [host[p] EXCEPT !.stop = "closeWait",
                               !.close = IF host[p].close = "no" THEN "closing" ELSE host[p].close]
  <2>1. h \in Host /\ SameWork(host[p], h)
    BY <1>0, ZenonT(60) DEF Host, StopAt, SameWork
  <2>2. host' = [host EXCEPT ![p] = h]
    BY <1>5, Zenon DEF CloseBackend
  <2> HIDE DEF h
  <2> QED
    BY <1>c, <2>1, <2>2, Zenon DEF ChangesRestOf
<1>6. ASSUME NEW ok \in BOOLEAN, finishResourceClose(p, ok)
      PROVE  ChangesRestOf(p)
  <2> DEFINE h == [host[p] EXCEPT !.close = "done", !.open = FALSE, !.shutdownErr = ~ok]
  <2>0. (~ok) \in BOOLEAN
    BY Zenon
  <2>1. h \in Host /\ SameWork(host[p], h)
    <3>1. ASSUME NEW b \in BOOLEAN
          PROVE  LET k == [host[p] EXCEPT !.close = "done", !.open = FALSE, !.shutdownErr = b] IN
                 k \in Host /\ SameWork(host[p], k)
      BY <1>0, ZenonT(60) DEF Host, SameWork
    <3> QED
      BY <2>0, <3>1, Zenon
  <2>2. host' = [host EXCEPT ![p] = h]
    BY <1>6, Zenon DEF finishResourceClose
  <2> HIDE DEF h
  <2> QED
    BY <2>1, <2>2, Zenon DEF ChangesRestOf
<1>7. CASE EndShutdown(p)
  <2> DEFINE g == [host[p] EXCEPT !.shutdownErr = FALSE, !.stop = "idle"]
             h == [host[p] EXCEPT !.stop = "ok", !.closed = TRUE, !.up = FALSE, !.draining = FALSE]
  <2>0. "idle" \in StopAt /\ "ok" \in StopAt
    BY Zenon DEF StopAt
  <2>1. g \in Host /\ SameWork(host[p], g)
    BY <1>0, <2>0, Zenon DEF Host, SameWork
  <2>2. h \in Host /\ SameWork(host[p], h)
    BY <1>0, <2>0, Zenon DEF Host, SameWork
  <2>3. host' = [host EXCEPT ![p] = g] \/ host' = [host EXCEPT ![p] = h]
    BY <1>7, Zenon DEF EndShutdown
  <2> HIDE DEF g, h
  <2> QED
    BY <1>c, <2>1, <2>2, <2>3, Zenon DEF ChangesRestOf
<1>8. CASE ShutdownExpires(p)
  <2> DEFINE h == [host[p] EXCEPT !.stop = "idle"]
  <2>1. h \in Host /\ SameWork(host[p], h)
    BY <1>0 DEF Host, StopAt, SameWork
  <2>2. host' = [host EXCEPT ![p] = h]
    BY <1>8, Zenon DEF ShutdownExpires, Stop
  <2> HIDE DEF h
  <2> QED
    BY <1>c, <2>1, <2>2, Zenon DEF ChangesRestOf
<1> QED
  BY <1>c, <1>1, <1>2, <1>3, <1>4, <1>5, <1>6, <1>7, <1>8, Zenon DEF Stops

\* Every step leaves the state well formed.
LEMMA TypeStep ==
  ASSUME TypeInv, [Next]_vars
  PROVE  TypeInv'
<1>1. HostInv' /\ call' \in [Dispatches -> Call]
  <2>1. CASE UNCHANGED vars \/ Tick
    BY <2>1, Zenon DEF TypeInv, HostInv, vars, Tick
  <2>2. ASSUME NEW p \in Processes, \/ StartRuntime(p) \/ Go(p) \/ \E t \in Starters(p) : StartWorkers(p, t)
                                    \/ \E db \in DBResults : Migrates(p, db)
        PROVE  HostInv' /\ call' \in [Dispatches -> Call]
    BY <2>2, StartType, Zenon DEF Starters, DBResults
  <2>3. ASSUME NEW p \in Processes, workerLoop(p) \/ Stops(p)
        PROVE  HostInv' /\ call' \in [Dispatches -> Call]
    BY <2>3, WorkerType, StopsChange, RestUpdate, Zenon DEF TypeInv
  <2>4. ASSUME NEW d \in Dispatches,
               (\E j \in Dispatches \cup {"none"} : acquireOperation(d, j)) \/ Submits(d)
        PROVE  HostInv' /\ call' \in [Dispatches -> Call]
    <3>1. (host' = host \/ ChangesRestOf(Proc[d])) /\ call' \in [Dispatches -> Call]
      BY <2>4, DispatchChanges, Zenon
    <3>2. host' = host => HostInv'
      BY Zenon DEF TypeInv, HostInv
    <3> QED
      BY <3>1, <3>2, RestUpdate, BackendAssumption, Zenon DEF TypeInv
  <2> QED
    BY <2>1, <2>2, <2>3, <2>4, Zenon DEF Next
<1> QED
  BY <1>1, CountsType, Zenon DEF TypeInv

-----------------------------------------------------------------------------
(* Concurrent starts.                                                      *)

\* A process starts on whatever an older release left, with no start begun.
LEMMA SchemaInit == Init => SchemaInv
<1> SUFFICES ASSUME Init, NEW p \in Processes PROVE SchemaOK(p)
  BY Zenon DEF SchemaInv
<1>1. host[p].step = "none" /\ host[p].worker = "none" /\ ~host[p].failed
  BY Zenon DEF Init
<1> QED
  BY <1>1 DEF SchemaOK, Prepared, WorkersGone, TokenSteps, MetadataSteps, IndexSteps, Requiring,
              Migrating, Columns, Rechecks

\* A step of somebody else, as far as the start of q is concerned.
Keeps(q) ==
  /\ host'[q].step = host[q].step
  /\ host'[q].failed = host[q].failed
  /\ WorkersGone(q) => WorkersGone(q)'

\* Nothing is ever dropped from the schema, and faults are not forgotten, so
\* what a start has found stays found.
LEMMA SchemaFrame ==
  ASSUME TypeInv, TypeInv', NEW q \in Processes, SchemaOK(q), Keeps(q),
         schema \subseteq schema', faults' >= faults, scene' = scene
  PROVE  SchemaOK(q)'
<1>1. faults \in Nat /\ faults' \in Nat
  BY Zenon DEF TypeInv
<1>2. Complete(q)' = Complete(q)
  BY Zenon DEF Complete
<1>3. Prepared(q, host[q].step)'
  <2> DEFINE s == host[q].step
  <2>1. Prepared(q, s) /\ s' = s
    BY Zenon DEF SchemaOK, Keeps
  <2> HIDE DEF s
  <2>2. Prepared(q, s)'
    BY <1>2, <2>1, Zenon DEF Prepared, TokenSteps, MetadataSteps, IndexSteps
  <2> QED
    BY <2>2, Zenon DEF s
<1>4. (\A c \in Columns : host[q].step = Rechecks[c] /\ c \notin schema => faults > 0)'
  BY <1>1 DEF SchemaOK, Keeps
<1> QED
  BY <1>1, <1>2, <1>3, <1>4 DEF SchemaOK, Keeps

\* Handlers, calls and a Shutdown neither start workers nor touch a start.
LEMMA OthersKeep ==
  ASSUME TypeInv, NEW q \in Processes,
         \/ UNCHANGED vars \/ Tick
         \/ \E p \in Processes : StartRuntime(p) \/ workerLoop(p) \/ Stops(p)
         \/ \E d \in Dispatches : \/ \E j \in Dispatches \cup {"none"} : acquireOperation(d, j)
                                  \/ Submits(d)
  PROVE  Keeps(q) /\ UNCHANGED schema
<1> USE DEF TypeInv, HostInv, Keeps, WorkersGone
<1>1. CASE UNCHANGED vars \/ Tick
  BY <1>1, Zenon DEF vars, Tick
<1>2. CASE \E p \in Processes : StartRuntime(p)
  BY <1>2 DEF StartRuntime
<1>3. ASSUME NEW p \in Processes, workerLoop(p)
      PROVE  Keeps(q) /\ UNCHANGED schema
  <2>1. PICK w \in {"top", "processJob", "exited"}, j \in Dispatches \cup {"none"} : host' = Worker(p, w, j)
    BY <1>3, Zenon DEF workerLoop
  <2>2. ~WorkersGone(p) /\ schema' = schema
    BY <1>3, Zenon DEF workerLoop
  <2> QED
    BY <2>1, <2>2 DEF Worker
<1>4. ASSUME NEW p \in Processes, Stops(p)
      PROVE  Keeps(q) /\ UNCHANGED schema
  <2>1. ChangesRestOf(p) /\ schema' = schema
    BY <1>4, StopsChange, Zenon DEF Stops
  <2> QED
    BY <2>1, Zenon DEF ChangesRestOf, SameWork
<1>5. ASSUME NEW d \in Dispatches,
             (\E j \in Dispatches \cup {"none"} : acquireOperation(d, j)) \/ Submits(d)
      PROVE  Keeps(q) /\ UNCHANGED schema
  <2>1. host' = host \/ ChangesRestOf(Proc[d])
    BY <1>5, DispatchChanges, Zenon
  <2>2. schema' = schema
    BY <1>5, Zenon DEF acquireOperation, Submits, Dispatch, databaseNowMillis,
             pruneExpiredUniqueLocks, acquireUniqueKey, Rollback, Insert, Commit
  <2> QED
    BY <2>1, <2>2, BackendAssumption, Zenon DEF ChangesRestOf, SameWork
<1> QED
  BY <1>1, <1>2, <1>3, <1>4, <1>5, Zenon

\* Two records of a process agree about its Shutdown.
SameStop(g, h) ==
  /\ h.stop = g.stop /\ h.shuttingDown = g.shuttingDown /\ h.draining = g.draining
  /\ h.closed = g.closed /\ h.close = g.close /\ h.open = g.open
  /\ h.seen = g.seen /\ h.opGen = g.opGen

\* Only the record of p changes.
OthersSame(p) == \A q \in Processes \ {p} : host'[q] = host[q]

\* A start call that returns leaves the record it is given, up to the runtime's
\* own attempt.
LEMMA StartReturnsChange ==
  ASSUME HostInv, NEW p \in Processes, NEW t, NEW result, NEW h \in Host,
         StartReturns(p, t, result, h)
  PROVE  /\ OthersSame(p)
         /\ host'[p].step = h.step /\ host'[p].mu = h.mu /\ host'[p].failed = h.failed
         /\ host'[p].worker = h.worker /\ host'[p].serving = h.serving /\ host'[p].started = h.started
         /\ host'[p].start = IF t = "runtime" THEN FALSE ELSE h.start
         /\ SameStop(h, host'[p])
<1> DEFINE g == [h EXCEPT !.start = FALSE, !.up = (result = "ok")]
<1>1. host' = [host EXCEPT ![p] = IF t = "runtime" THEN g ELSE h]
  BY Zenon DEF StartReturns
<1>2. host'[p] = (IF t = "runtime" THEN g ELSE h) /\ OthersSame(p)
  BY <1>1, Zenon DEF HostInv, OthersSame
<1>3. /\ g.step = h.step /\ g.mu = h.mu /\ g.failed = h.failed
      /\ g.worker = h.worker /\ g.serving = h.serving /\ g.started = h.started /\ g.start = FALSE
      /\ SameStop(h, g)
  BY Zenon DEF Host, SameStop
<1> HIDE DEF g
<1> QED
  BY <1>2, <1>3, Zenon DEF SameStop

\* What a failed start makes of the record of its process.
LEMMA FailedRecord ==
  ASSUME NEW g \in Host
  PROVE  LET f == [g EXCEPT !.mu = "free", !.step = "none", !.failed = TRUE] IN
         /\ f \in Host /\ f.step = "none" /\ f.mu = "free" /\ f.failed
         /\ f.worker = g.worker /\ f.serving = g.serving /\ f.start = g.start /\ f.started = g.started
         /\ SameStop(g, f)
BY ZenonT(60) DEF Host, Steps, SameStop

\* A failed start gives startMu back and leaves everything else.
LEMMA StartFailsChange ==
  ASSUME HostInv, NEW p \in Processes, StartFails(p)
  PROVE  /\ OthersSame(p)
         /\ host'[p].step = "none" /\ host'[p].mu = "free" /\ host'[p].failed
         /\ host'[p].worker = host[p].worker /\ host'[p].serving = host[p].serving
         /\ host'[p].started = host[p].started
         /\ host'[p].start = IF host[p].mu = "runtime" THEN FALSE ELSE host[p].start
         /\ SameStop(host[p], host'[p])
<1> DEFINE h == [host[p] EXCEPT !.mu = "free", !.step = "none", !.failed = TRUE]
<1>0. host[p] \in Host
  BY Zenon DEF HostInv
<1>1. /\ h \in Host /\ h.step = "none" /\ h.mu = "free" /\ h.failed
      /\ h.worker = host[p].worker /\ h.serving = host[p].serving /\ h.start = host[p].start
      /\ h.started = host[p].started
      /\ SameStop(host[p], h)
  BY <1>0, FailedRecord, Zenon
<1>2. StartReturns(p, host[p].mu, "error", h)
  BY Zenon DEF StartFails
<1> HIDE DEF h
<1>3. /\ OthersSame(p)
      /\ host'[p].step = h.step /\ host'[p].mu = h.mu /\ host'[p].failed = h.failed
      /\ host'[p].worker = h.worker /\ host'[p].serving = h.serving /\ host'[p].started = h.started
      /\ host'[p].start = IF host[p].mu = "runtime" THEN FALSE ELSE h.start
      /\ SameStop(h, host'[p])
  BY <1>1, <1>2, StartReturnsChange, Zenon
<1> QED
  BY <1>1, <1>3, Zenon DEF SameStop

\* What a start that succeeds makes of the record of its process.
LEMMA StartedRecord ==
  ASSUME NEW g \in Host
  PROVE  LET f == [g EXCEPT !.mu = "free", !.step = "none", !.started = TRUE, !.worker = "top"] IN
         /\ f \in Host /\ f.step = "none" /\ f.mu = "free" /\ f.failed = g.failed
         /\ f.worker = "top" /\ f.serving = g.serving /\ f.start = g.start /\ f.started
         /\ SameStop(g, f)
BY ZenonT(60) DEF Host, Steps, SameStop

\* A start that succeeds gives startMu back and leaves a worker.
LEMMA GoChange ==
  ASSUME HostInv, NEW p \in Processes, Go(p)
  PROVE  /\ OthersSame(p)
         /\ host'[p].step = "none" /\ host'[p].mu = "free" /\ host'[p].failed = host[p].failed
         /\ host'[p].worker = "top" /\ host'[p].serving = host[p].serving /\ host'[p].started
         /\ host'[p].start = IF host[p].mu = "runtime" THEN FALSE ELSE host[p].start
         /\ SameStop(host[p], host'[p])
<1> DEFINE h == [host[p] EXCEPT !.mu = "free", !.step = "none", !.started = TRUE, !.worker = "top"]
<1>0. host[p] \in Host
  BY Zenon DEF HostInv
<1>1. /\ h \in Host /\ h.step = "none" /\ h.mu = "free" /\ h.failed = host[p].failed
      /\ h.worker = "top" /\ h.serving = host[p].serving /\ h.start = host[p].start
      /\ h.started
      /\ SameStop(host[p], h)
  BY <1>0, StartedRecord, Zenon
<1>2. StartReturns(p, host[p].mu, "ok", h)
  BY Zenon DEF Go
<1> HIDE DEF h
<1>3. /\ OthersSame(p)
      /\ host'[p].step = h.step /\ host'[p].mu = h.mu /\ host'[p].failed = h.failed
      /\ host'[p].worker = h.worker /\ host'[p].serving = h.serving /\ host'[p].started = h.started
      /\ host'[p].start = IF host[p].mu = "runtime" THEN FALSE ELSE h.start
      /\ SameStop(h, host'[p])
  BY <1>1, <1>2, StartReturnsChange, Zenon
<1> QED
  BY <1>1, <1>3, Zenon DEF SameStop

\* A start that goes on changes only its step.
LEMMA StepChange ==
  ASSUME HostInv, NEW p \in Processes, NEW s, Step(p, s)
  PROVE  /\ OthersSame(p)
         /\ host'[p].step = s /\ host'[p].mu = host[p].mu /\ host'[p].failed = host[p].failed
         /\ host'[p].worker = host[p].worker /\ host'[p].serving = host[p].serving
         /\ host'[p].started = host[p].started
         /\ host'[p].start = host[p].start
         /\ SameStop(host[p], host'[p])
<1>1. host' = [host EXCEPT ![p] = [host[p] EXCEPT !.step = s]]
  BY Zenon DEF Step
<1>2. host'[p] = [host[p] EXCEPT !.step = s] /\ OthersSame(p) /\ host[p] \in Host
  BY <1>1, Zenon DEF HostInv, OthersSame
<1> QED
  BY <1>2, Zenon DEF Host, SameStop

\* A start that fails has met a fault, or was refused by a schema that its
\* caller manages.
LEMMA SchemaAfterFailure ==
  ASSUME TypeInv, TypeInv', NEW p \in Processes, SchemaOK(p), StartFails(p),
         schema \subseteq schema', scene' = scene, faults' >= faults,
         p \in scene.managed \/ faults' > 0
  PROVE  SchemaOK(p)'
<1>1. /\ host'[p].step = "none" /\ host'[p].worker = host[p].worker
  BY StartFailsChange, Zenon DEF TypeInv
<1>2. Complete(p)' = Complete(p)
  BY Zenon DEF Complete
<1> QED
  BY <1>1, <1>2 DEF SchemaOK, Prepared, WorkersGone, TokenSteps, MetadataSteps, IndexSteps,
                    Requiring, Migrating, Columns, Rechecks

\* A start that goes on has what its next statement rests on.
LEMMA SchemaAfterStep ==
  ASSUME TypeInv, TypeInv', NEW p \in Processes, SchemaOK(p), NEW s \in Steps, Step(p, s),
         schema \subseteq schema', scene' = scene, faults' >= faults,
         Prepared(p, s)', s \notin (IF p \in scene.managed THEN Migrating ELSE Requiring),
         \A c \in Columns : s = Rechecks[c] /\ c \notin schema' => faults' > 0
  PROVE  SchemaOK(p)'
<1>1. /\ host'[p].step = s /\ host'[p].worker = host[p].worker
      /\ host'[p].failed = host[p].failed
  BY StepChange, Zenon DEF TypeInv
<1>2. Complete(p)' = Complete(p)
  BY Zenon DEF Complete
<1>3. faults \in Nat /\ faults' \in Nat
  BY Zenon DEF TypeInv
<1>4. Prepared(p, host[p].step)'
  BY <1>1, Zenon DEF Prepared, Complete
<1> QED
  BY <1>1, <1>2, <1>3, <1>4 DEF SchemaOK, WorkersGone

\* Each statement of a start leaves its process prepared for the next one.
LEMMA MigratesSchema ==
  ASSUME TypeInv, TypeInv', NEW p \in Processes, SchemaOK(p), NEW db \in DBResults,
         Migrates(p, db), scene' = scene, faults' >= faults
  PROVE  SchemaOK(p)' /\ schema \subseteq schema'
<1> USE DEF TokenSteps, MetadataSteps, IndexSteps, Requiring, Migrating
<1>0. faults \in Nat /\ faults' \in Nat
  BY Zenon DEF TypeInv
<1>f. Fault(db) /\ db # "ok" => faults' > 0
  BY <1>0 DEF Fault, Disrupt
<1>1. CASE CreateTables(p, db)
  <2>1. schema \subseteq schema' /\ Fault(db) /\ p \notin scene.managed
    BY <1>1, Zenon DEF CreateTables, SchemaOK
  <2>2. CASE db # "ok"
    BY <1>1, <1>f, <2>1, <2>2, SchemaAfterFailure, Zenon DEF CreateTables
  <2>3. CASE db = "ok" /\ host[p].step = "createJobs"
    <3>1. "jobs" \in schema' /\ Step(p, "createLocks")
      BY <1>1, <2>3, Zenon DEF CreateTables
    <3>2. Prepared(p, "createLocks")'
      BY <3>1, Zenon DEF Prepared
    <3> QED
      BY <2>1, <3>1, <3>2, SchemaAfterStep DEF Steps, Rechecks, Columns
  <2>4. CASE db = "ok" /\ host[p].step = "createLocks"
    <3>1. "locks" \in schema' /\ (MySQL \/ "index" \in schema') /\ Step(p, "checkToken")
      BY <1>1, <2>4, Zenon DEF CreateTables
    <3>2. "jobs" \in schema
      BY <2>4, Zenon DEF SchemaOK, Prepared
    <3>3. Prepared(p, "checkToken")'
      BY <2>1, <3>1, <3>2, Zenon DEF Prepared
    <3> QED
      BY <2>1, <3>1, <3>3, SchemaAfterStep DEF Steps, Rechecks, Columns
  <2> QED
    BY <1>1, <2>1, <2>2, <2>3, <2>4, Zenon DEF CreateTables
<1>2. CASE requireManagedQueueSchema(p, db)
  <2>1. schema' = schema /\ Fault(db) /\ p \in scene.managed
    BY <1>2, Zenon DEF requireManagedQueueSchema, SchemaOK
  <2>2. CASE StartFails(p)
    BY <2>1, <2>2, SchemaAfterFailure, Zenon
  <2>3. CASE ~StartFails(p)
    <3>1. PICK s \in {"requireColumns", "requireLocks", "go"} :
            /\ Step(p, s)
            /\ s = "requireColumns" => host[p].step = "requireJobs"
            /\ s = "requireLocks" => host[p].step = "requireColumns"
            /\ s = "go" => host[p].step = "requireLocks"
            /\ Required(host[p].step) \subseteq schema
      BY <1>2, <2>3, Zenon DEF requireManagedQueueSchema
    <3>2. Prepared(p, s)'
      BY <2>1, <3>1, Zenon DEF SchemaOK, Prepared, Required, Complete
    <3> QED
      BY <2>1, <3>1, <3>2, SchemaAfterStep DEF Steps, Rechecks, Columns
  <2> QED
    BY <2>1, <2>2, <2>3, Zenon
<1>3. CASE PruneAtStart(p, db)
  <2>1. schema' = schema /\ Fault(db) /\ p \notin scene.managed
    BY <1>3, Zenon DEF PruneAtStart, SchemaOK
  <2>2. CASE db # "ok"
    BY <1>3, <1>f, <2>1, <2>2, SchemaAfterFailure, Zenon DEF PruneAtStart
  <2>3. CASE db = "ok"
    <3>1. Step(p, "go") /\ host[p].step = "prune"
      BY <1>3, <2>3, Zenon DEF PruneAtStart
    <3>2. Prepared(p, "go")'
      BY <2>1, <3>1, Zenon DEF SchemaOK, Prepared, Complete, Artefacts
    <3> QED
      BY <2>1, <3>1, <3>2, SchemaAfterStep DEF Steps, Rechecks, Columns
  <2> QED
    BY <2>1, <2>2, <2>3, Zenon
<1>4. ASSUME NEW c \in DOMAIN Checks,
             CheckColumn(p, c, db) \/ AlterTable(p, c, db) \/ RecheckColumn(p, c, db)
      PROVE  SchemaOK(p)' /\ schema \subseteq schema'
  <2>1. c \in Columns /\ host[p].step \in {Checks[c], Alters[c], Rechecks[c]}
    BY <1>4, ColumnSteps, Zenon DEF CheckColumn, AlterTable, RecheckColumn
  <2>2. schema \subseteq schema' /\ Fault(db) /\ p \notin scene.managed
    BY <1>4, <2>1 DEF CheckColumn, AlterTable, RecheckColumn, SchemaOK, Columns, Checks, Alters, Rechecks
  <2>3. /\ c \in schema' => Prepared(p, After(c))'
        /\ Prepared(p, Alters[c])' /\ Prepared(p, Rechecks[c])'
    BY <2>1, <2>2 DEF SchemaOK, Prepared, Columns, Checks, Alters, Rechecks, After
  <2>4. /\ After(c) \in Steps \ (Requiring \cup {Rechecks[e] : e \in Columns})
        /\ Alters[c] \in Steps \ (Requiring \cup {Rechecks[e] : e \in Columns})
        /\ Rechecks[c] \in Steps \ Requiring
        /\ \A e \in Columns : Rechecks[e] = Rechecks[c] => e = c
    BY <2>1 DEF Steps, Columns, Checks, Alters, Rechecks, After
  <2>5. CASE StartFails(p) /\ faults' > 0
    BY <2>2, <2>5, SchemaAfterFailure, Zenon
  <2>6. CASE Step(p, After(c)) /\ c \in schema'
    BY <2>2, <2>3, <2>4, <2>6, SchemaAfterStep, Zenon
  <2>7. CASE Step(p, Alters[c])
    BY <2>2, <2>3, <2>4, <2>7, SchemaAfterStep, Zenon
  <2>8. CASE Step(p, Rechecks[c]) /\ (c \in schema' \/ faults' > 0)
    BY <2>2, <2>3, <2>4, <2>8, SchemaAfterStep, Zenon
  <2>9. CASE CheckColumn(p, c, db)
    BY <1>f, <2>2, <2>5, <2>6, <2>7, <2>9, Zenon DEF CheckColumn
  <2>10. CASE AlterTable(p, c, db)
    BY <1>f, <2>2, <2>6, <2>8, <2>10, Zenon DEF AlterTable, AlterLost
  <2>11. CASE RecheckColumn(p, c, db)
    <3>1. c \notin schema => faults > 0
      BY <2>1, <2>11, Zenon DEF RecheckColumn, SchemaOK
    <3>2. schema' = schema /\ (IF db = "ok" /\ c \in schema THEN Step(p, After(c)) ELSE StartFails(p))
      BY <2>11, Zenon DEF RecheckColumn
    <3>3. faults > 0 => faults' > 0
      BY <1>0
    <3>4. CASE db = "ok" /\ c \in schema
      BY <2>6, <3>2, <3>4, Zenon
    <3>5. CASE ~(db = "ok" /\ c \in schema)
      BY <1>f, <2>2, <2>5, <3>1, <3>2, <3>3, <3>5, Zenon
    <3> QED
      BY <3>4, <3>5, Zenon
  <2> QED
    BY <1>4, <2>9, <2>10, <2>11, Zenon
<1> QED
  BY <1>1, <1>2, <1>3, <1>4, Zenon DEF Migrates

\* Every step leaves every process prepared for the statement it is at.
LEMMA SchemaStep ==
  ASSUME TypeInv, TypeInv', SchemaInv, [Next]_vars
  PROVE  SchemaInv'
<1> SUFFICES ASSUME NEW q \in Processes PROVE SchemaOK(q)'
  BY Zenon DEF SchemaInv
<1>0. SchemaOK(q) /\ scene' = scene /\ faults' >= faults /\ HostInv
  BY CountsType, Zenon DEF SchemaInv, Next, vars, TypeInv
<1>1. CASE \/ UNCHANGED vars \/ Tick
           \/ \E p \in Processes : StartRuntime(p) \/ workerLoop(p) \/ Stops(p)
           \/ \E d \in Dispatches : \/ \E j \in Dispatches \cup {"none"} : acquireOperation(d, j)
                                    \/ Submits(d)
  <2>1. Keeps(q) /\ schema' = schema
    BY <1>1, OthersKeep, Zenon
  <2> QED
    BY <1>0, <2>1, SchemaFrame, Zenon
<1>2. ASSUME NEW p \in Processes, NEW t \in Starters(p), StartWorkers(p, t)
      PROVE  SchemaOK(q)'
  <2>1. schema' = schema
    BY <1>2, Zenon DEF StartWorkers
  <2>2. CASE host[p].shuttingDown \/ host[p].started
    <3>1. StartReturns(p, t, "rejected", host[p]) \/ StartReturns(p, t, "ok", host[p])
      BY <1>2, <2>2, Zenon DEF StartWorkers
    <3>2. host[p] \in Host
      BY <1>0, Zenon DEF HostInv
    <3>3. /\ OthersSame(p) /\ host'[p].step = host[p].step /\ host'[p].failed = host[p].failed
          /\ host'[p].worker = host[p].worker
      BY <1>0, <3>1, <3>2, StartReturnsChange, Zenon
    <3>4. Keeps(q)
      BY <3>3, Zenon DEF Keeps, OthersSame, WorkersGone
    <3> QED
      BY <1>0, <2>1, <3>4, SchemaFrame, Zenon
  <2>3. CASE ~(host[p].shuttingDown \/ host[p].started)
    <3>1. CASE q # p
      <4>1. host'[q] = host[q]
        BY <1>2, <2>3, <3>1, <1>0, Zenon DEF StartWorkers, HostInv
      <4> QED
        BY <1>0, <2>1, <4>1, SchemaFrame, Zenon DEF Keeps, WorkersGone
    <3>2. CASE q = p
      <4>1. PICK s \in {"requireJobs", "createJobs"} :
              /\ s = IF p \in scene.managed THEN "requireJobs" ELSE "createJobs"
              /\ host' = [host EXCEPT ![p] = [host[p] EXCEPT !.mu = t, !.step = s]]
        BY <1>2, <2>3, Zenon DEF StartWorkers
      <4>2. /\ host'[p].step = s /\ host'[p].failed = host[p].failed
            /\ host'[p].worker = host[p].worker
        BY <1>0, <4>1 DEF HostInv, Host
      <4>3. Complete(p)' = Complete(p)
        BY <1>0, Zenon DEF Complete
      <4>4. faults \in Nat /\ faults' \in Nat
        BY Zenon DEF TypeInv
      <4>5. Prepared(p, host[p].step)'
        BY <4>2, Zenon DEF Prepared, TokenSteps, MetadataSteps, IndexSteps
      <4> QED
        BY <1>0, <2>1, <3>2, <4>1, <4>2, <4>3, <4>4, <4>5
           DEF SchemaOK, WorkersGone, TokenSteps, MetadataSteps, IndexSteps, Requiring, Migrating,
               Columns, Rechecks
    <3> QED
      BY <3>1, <3>2, Zenon
  <2> QED
    BY <2>2, <2>3, Zenon
<1>3. ASSUME NEW p \in Processes, Go(p)
      PROVE  SchemaOK(q)'
  <2>1. schema' = schema /\ host[p].step = "go"
    BY <1>3, Zenon DEF Go
  <2>2. OthersSame(p) /\ host'[p].step = "none" /\ host'[p].failed = host[p].failed
    BY <1>0, <1>3, GoChange, Zenon
  <2>3. CASE q # p
    BY <1>0, <2>1, <2>2, <2>3, SchemaFrame, Zenon DEF OthersSame, Keeps, WorkersGone
  <2>4. CASE q = p
    <3>1. Complete(p)' = Complete(p)
      BY <1>0, Zenon DEF Complete
    <3>2. Complete(p) \subseteq schema
      BY <1>0, <2>1, <2>4, Zenon DEF SchemaOK, Prepared
    <3>3. faults \in Nat /\ faults' \in Nat
      BY Zenon DEF TypeInv
    <3>4. Prepared(p, host[p].step)'
      BY <2>2, Zenon DEF Prepared, TokenSteps, MetadataSteps, IndexSteps
    <3> QED
      BY <1>0, <2>1, <2>2, <2>4, <3>1, <3>2, <3>3, <3>4
         DEF SchemaOK, TokenSteps, MetadataSteps, IndexSteps, Requiring, Migrating, Columns, Rechecks
  <2> QED
    BY <2>3, <2>4, Zenon
<1>4. ASSUME NEW p \in Processes, NEW db \in DBResults, Migrates(p, db)
      PROVE  SchemaOK(q)'
  <2>1. SchemaOK(p)' /\ schema \subseteq schema'
    BY <1>0, <1>4, MigratesSchema, Zenon DEF SchemaInv
  <2>2. StartFails(p) \/ \E s \in Steps : Step(p, s)
    BY <1>4, MigratesMoves, Zenon
  <2>3. OthersSame(p)
    BY <1>0, <2>2, StartFailsChange, StepChange, Zenon
  <2>4. CASE q # p
    BY <1>0, <2>1, <2>3, <2>4, SchemaFrame DEF OthersSame, Keeps, WorkersGone
  <2> QED
    BY <2>1, <2>4, Zenon
<1> QED
  BY <1>1, <1>2, <1>3, <1>4, Zenon DEF Next

\* Processes that start together converge, whatever schema they find: workers
\* run only on a complete schema, and no start fails because a peer was faster.
THEOREM StartsConverge == Spec => []ConcurrentStartsConverge
<1>1. TypeInv /\ SchemaInv => ConcurrentStartsConverge
  BY Zenon DEF SchemaInv, SchemaOK, ConcurrentStartsConverge, Complete
<1>2. TypeInv /\ SchemaInv /\ [Next]_vars => (TypeInv /\ SchemaInv)'
  BY TypeStep, SchemaStep, Zenon
<1> QED
  BY <1>1, <1>2, TypeInit, SchemaInit, PTL DEF Spec

-----------------------------------------------------------------------------
(* Shutdown.                                                               *)

\* The runtime counts as idle exactly when no operation is admitted.
LEMMA IdleOperations ==
  ASSUME NEW p \in Processes
  PROVE  (Operations(p) = {}) <=> Idle(p)
BY Zenon DEF Operations, Idle

\* Nothing is running at first.
LEMMA DrainInit == Init => DrainInv
<1> SUFFICES ASSUME Init, NEW p \in Processes PROVE DrainOK(p)
  BY Zenon DEF DrainInv
<1>1. Idle(p)
  BY Zenon DEF Init, Idle, Active
<1>2. /\ host[p].worker = "none" /\ host[p].serving = "none" /\ host[p].mu = "free"
      /\ ~host[p].shuttingDown /\ host[p].stop = "idle" /\ host[p].close = "no" /\ host[p].open = TRUE
  BY ZenonT(60) DEF Init
<1> QED
  BY <1>1, <1>2, Zenon DEF DrainOK, WorkersGone

\* Where the calls of q stand has not changed in a way that matters to q: none
\* was admitted, and one that starts the workers still does.
CallsSettle(q) ==
  /\ Idle(q) => Idle(q)'
  /\ host'[q].mu \in Dispatches => call'[host'[q].mu].at = "starting"

\* A step about other things than the start, the worker and the Shutdown of q.
LEMMA DrainFrame ==
  ASSUME TypeInv, TypeInv', NEW q \in Processes, DrainOK(q), CallsSettle(q),
         SameWork(host[q], host'[q]), SameStop(host[q], host'[q])
  PROVE  DrainOK(q)'
<1>1. host'[q].mu \in Dispatches \cup {"free", "runtime"}
  BY Zenon DEF TypeInv, HostInv, Host
<1> QED
  BY <1>1 DEF DrainOK, CallsSettle, SameWork, SameStop, WorkersGone

\* A step of another process leaves q alone.
LEMMA DrainOther ==
  ASSUME TypeInv, TypeInv', NEW q \in Processes, DrainOK(q), host'[q] = host[q],
         \A d \in Dispatches : Proc[d] = q => call'[d].at = call[d].at
  PROVE  DrainOK(q)'
<1>1. Idle(q) => Idle(q)'
  BY Zenon DEF Idle, Active
<1>2. host[q].mu \in Dispatches => call'[host[q].mu].at = "starting"
  BY BackendAssumption, Zenon DEF DrainOK
<1>3. SameWork(host[q], host'[q]) /\ SameStop(host[q], host'[q]) /\ CallsSettle(q)
  BY <1>1, <1>2, Zenon DEF SameWork, SameStop, CallsSettle
<1> QED
  BY <1>3, DrainFrame, Zenon

\* The start of p: it takes startMu only while the backend's gate is open.
LEMMA StartDrain ==
  ASSUME TypeInv, TypeInv', NEW p \in Processes, DrainOK(p), NEW t \in Starters(p),
         NEW db \in DBResults,
         StartRuntime(p) \/ StartWorkers(p, t) \/ Go(p) \/ Migrates(p, db)
  PROVE  DrainOK(p)'
<1>0. HostInv /\ host[p] \in Host /\ host'[p] \in Host
  BY Zenon DEF TypeInv, HostInv
<1>1. CASE StartRuntime(p)
  <2>1. host' = [host EXCEPT ![p] = [host[p] EXCEPT !.start = TRUE, !.handlers = TRUE]] /\ call' = call
    BY <1>1, Zenon DEF StartRuntime
  <2>2. /\ host'[p].step = host[p].step /\ host'[p].mu = host[p].mu /\ host'[p].failed = host[p].failed
        /\ host'[p].worker = host[p].worker /\ host'[p].serving = host[p].serving
        /\ host'[p].started = host[p].started /\ host'[p].start
        /\ SameStop(host[p], host'[p])
    BY <1>0, <2>1 DEF HostInv, Host, SameStop
  <2>3. Idle(p)' <=> Idle(p)
    BY <2>1, Zenon DEF Idle, Active
  <2>4. ~host[p].closed /\ ~host[p].draining
    BY <1>1, Zenon DEF StartRuntime
  <2> QED
    BY <2>1, <2>2, <2>3, <2>4 DEF DrainOK, SameStop, WorkersGone
<1>2. CASE StartWorkers(p, t)
  <2>0. host[p].mu = "free" /\ WaitsToStart(p, t)
    BY <1>2, ZenonT(60) DEF StartWorkers
  <2>1. CASE host[p].shuttingDown \/ host[p].started
    <3>1. PICK r \in {"rejected", "ok"} : StartReturns(p, t, r, host[p])
      BY <1>2, <2>1, Zenon DEF StartWorkers
    <3>2. /\ host'[p].step = host[p].step /\ host'[p].mu = host[p].mu
          /\ host'[p].failed = host[p].failed
          /\ host'[p].worker = host[p].worker /\ host'[p].serving = host[p].serving
          /\ host'[p].started = host[p].started
          /\ host'[p].start = IF t = "runtime" THEN FALSE ELSE host[p].start
          /\ SameStop(host[p], host'[p])
      BY <1>0, <3>1, StartReturnsChange, ZenonT(60)
    <3>3. Idle(p) => Idle(p)'
      BY <2>0, <3>1, Zenon DEF Idle, Active, Results, StartReturns, WaitsToStart, Starters, TypeInv, Call
    <3> QED
      BY <2>0, <3>2, <3>3 DEF DrainOK, SameStop, WorkersGone
  <2>2. CASE ~(host[p].shuttingDown \/ host[p].started)
    <3>1. PICK s : host' = [host EXCEPT ![p] = [host[p] EXCEPT !.mu = t, !.step = s]]
      BY <1>2, <2>2, ZenonT(60) DEF StartWorkers
    <3>2. /\ host'[p].mu = t /\ host'[p].start = host[p].start
          /\ host'[p].worker = host[p].worker /\ host'[p].serving = host[p].serving
          /\ host'[p].started = host[p].started
          /\ SameStop(host[p], host'[p])
      BY <1>0, <3>1 DEF HostInv, Host, SameStop
    <3>3. t # "runtime" => t \in Dispatches /\ Proc[t] = p /\ call'[t].at = "starting" /\ call[t].at = "startMu"
      BY <1>2, <2>0, <2>2 DEF StartWorkers, Starters, WaitsToStart, TypeInv, Call
    <3>4. t = "runtime" => host[p].start
      BY <2>0, Zenon DEF WaitsToStart
    <3>5. Idle(p)' <=> Idle(p)
      BY <1>2, <2>2, <3>3, ZenonT(60) DEF StartWorkers, Idle, Active, Results, TypeInv, Call
    <3> QED
      BY <2>0, <2>2, <3>2, <3>3, <3>4, <3>5, ZenonT(60) DEF DrainOK, SameStop, WorkersGone
  <2> QED
    BY <2>1, <2>2, Zenon
<1>3. CASE Go(p)
  <2>1. /\ host'[p].mu = "free"
        /\ host'[p].worker = "top" /\ host'[p].serving = host[p].serving /\ host'[p].started
        /\ host'[p].start = IF host[p].mu = "runtime" THEN FALSE ELSE host[p].start
        /\ SameStop(host[p], host'[p])
    BY <1>0, <1>3, GoChange, Zenon
  <2>2. host[p].mu # "free"
    BY <1>0, <1>3, Zenon DEF Go, HostInv
  <2>3. Idle(p) => Idle(p)'
    BY <1>0, <1>3, <2>2, Zenon DEF Go, StartReturns, Idle, Active, Results, TypeInv, Call, DrainOK, Host
  <2> QED
    BY <2>1, <2>2, <2>3, Zenon DEF DrainOK, SameStop, WorkersGone
<1>4. CASE Migrates(p, db)
  <2>1. host[p].mu # "free" /\ (StartFails(p) \/ \E s \in Steps : Step(p, s))
    BY <1>0, <1>4, MigratesMoves, ZenonT(60) DEF HostInv
  <2>2. ASSUME NEW s \in Steps, Step(p, s)
        PROVE  DrainOK(p)'
    <3>1. /\ host'[p].mu = host[p].mu /\ host'[p].start = host[p].start
          /\ host'[p].worker = host[p].worker /\ host'[p].serving = host[p].serving
          /\ host'[p].started = host[p].started
          /\ SameStop(host[p], host'[p])
      BY <1>0, <2>2, StepChange, Zenon
    <3>2. call' = call
      BY <2>2, Zenon DEF Step
    <3>3. Idle(p)' <=> Idle(p)
      BY <3>2, ZenonT(60) DEF Idle, Active
    <3> QED
      BY <3>1, <3>2, <3>3, SMTT(30) DEF DrainOK, SameStop, WorkersGone
  <2>3. CASE StartFails(p)
    <3>1. /\ host'[p].mu = "free"
          /\ host'[p].worker = host[p].worker /\ host'[p].serving = host[p].serving
          /\ host'[p].started = host[p].started
          /\ host'[p].start = IF host[p].mu = "runtime" THEN FALSE ELSE host[p].start
          /\ SameStop(host[p], host'[p])
      BY <1>0, <2>3, StartFailsChange, Zenon
    <3>2. Idle(p) => Idle(p)'
      BY <1>0, <2>1, <2>3, Zenon DEF StartFails, StartReturns, Idle, Active, Results, TypeInv, Call, DrainOK, Host
    <3>3. WorkersGone(p)' <=> WorkersGone(p)
      BY <3>1, Zenon DEF WorkersGone
    <3>4. host'[p].open = (host'[p].close # "done")
      BY <2>1, <3>1, ZenonT(60) DEF DrainOK, SameStop
    <3> QED
      BY <2>1, <3>1, <3>2, <3>3, <3>4, ZenonT(60) DEF DrainOK, SameStop
  <2> QED
    BY <2>1, <2>2, <2>3, Zenon
<1> QED
  BY <1>1, <1>2, <1>3, <1>4, Zenon

\* The worker of p: it serves a job only while it is processing one.
LEMMA WorkerDrain ==
  ASSUME TypeInv, TypeInv', NEW p \in Processes, DrainOK(p), workerLoop(p)
  PROVE  DrainOK(p)'
<1>0. HostInv /\ host[p] \in Host
  BY Zenon DEF TypeInv, HostInv
<1>1. PICK w \in {"top", "processJob", "exited"}, j \in Dispatches \cup {"none"} :
        host' = Worker(p, w, j) /\ (w # "processJob" => j = "none")
  BY Zenon DEF workerLoop
<1>2. /\ host'[p].mu = host[p].mu /\ host'[p].start = host[p].start
      /\ host'[p].worker = w /\ host'[p].serving = j /\ host'[p].started = host[p].started
      /\ SameStop(host[p], host'[p])
  BY <1>0, <1>1, Zenon DEF Worker, HostInv, Host, SameStop
<1>3. ~WorkersGone(p) /\ call' = call
  BY Zenon DEF workerLoop, WorkersGone
<1>4. Idle(p)' <=> Idle(p)
  BY <1>3, Zenon DEF Idle, Active
<1> QED
  BY <1>1, <1>2, <1>3, <1>4 DEF DrainOK, SameStop, WorkersGone

\* The calls in p: once the workers of a draining process are gone no call is
\* admitted any more.
LEMMA DispatchDrain ==
  ASSUME TypeInv, TypeInv', NEW d \in Dispatches, NEW j \in Dispatches \cup {"none"},
         NEW p \in Processes, p = Proc[d], DrainOK(p),
         acquireOperation(d, j) \/ Submits(d)
  PROVE  DrainOK(p)'
<1>0. HostInv /\ host[p] \in Host /\ call[d] \in Call
  BY Zenon DEF TypeInv, HostInv
<1>1. CASE acquireOperation(d, j)
  <2>0. call[d].at = "none" /\ ~Active(d)
    BY <1>1, Zenon DEF acquireOperation, Active
  <2>1. CASE host[p].closed \/ (host[p].draining /\ j = "none")
    <3>1. host' = host /\ call' = [call EXCEPT ![d].at = "rejected"]
      BY <1>1, <2>1, Zenon DEF acquireOperation
    <3>2. CallsSettle(p)
      BY <2>0, <3>1, BackendAssumption DEF CallsSettle, Idle, Active, Results, DrainOK, TypeInv, Call
    <3> QED
      BY <3>1, <3>2, DrainFrame, Zenon DEF SameWork, SameStop
  <2>2. CASE ~(host[p].closed \/ (host[p].draining /\ j = "none"))
    <3> DEFINE n == IF Operations(p) = {} THEN host[p].opGen + 1 ELSE host[p].opGen
    <3>1. /\ host' = [host EXCEPT ![p] = [host[p] EXCEPT !.opGen = n]]
          /\ call' = [call EXCEPT ![d].at = "entered", ![d].caller = j]
      BY <1>1, <2>2, ZenonT(60) DEF acquireOperation
    <3>2. n \in Nat /\ n > 0
      BY <1>0, IdleOperations DEF DrainOK, Host
    <3> HIDE DEF n
    <3>3. /\ host'[p].mu = host[p].mu /\ host'[p].start = host[p].start
          /\ host'[p].worker = host[p].worker /\ host'[p].serving = host[p].serving
          /\ host'[p].started = host[p].started
          /\ host'[p].stop = host[p].stop /\ host'[p].shuttingDown = host[p].shuttingDown
          /\ host'[p].draining = host[p].draining /\ host'[p].closed = host[p].closed
          /\ host'[p].close = host[p].close /\ host'[p].open = host[p].open
          /\ host'[p].opGen = n
      BY <1>0, <3>1, Zenon DEF HostInv, Host
    <3>4. host[p].draining => host[p].worker = "processJob"
      <4>1. host[p].draining => j # "none" /\ host[p].serving = j
        BY <1>1, <2>2, Zenon DEF acquireOperation
      <4> QED
        BY <4>1, Zenon DEF DrainOK
    <3>5. host[p].close = "no" /\ host[p].stop # "operations2"
      BY <2>2, <3>4, Zenon DEF DrainOK, WorkersGone
    <3>6. host[p].mu \in Dispatches => call'[host[p].mu].at = "starting"
      BY <2>0, <3>1, BackendAssumption, SMTT(30) DEF DrainOK, TypeInv, Call
    <3>7. DrainOK(p) /\ host[p].mu \in Dispatches \cup {"free", "runtime"}
      BY <1>0, Zenon DEF Host
    <3>8. host'[p].opGen > 0
      BY <3>2, <3>3, Zenon
    <3>9. host'[p].open = (host'[p].close # "done")
      BY <3>3, <3>7, ZenonT(60) DEF DrainOK
    <3>10. host[p].stop # "closeWait" /\ host[p].stop # "ok"
      BY <3>5, <3>7, ZenonT(60) DEF DrainOK
    <3>11. /\ host'[p].worker # "processJob" => host'[p].serving = "none"
           /\ host'[p].worker # "none" => host'[p].started /\ host'[p].mu = "free"
           /\ host'[p].mu = "runtime" => host'[p].start
           /\ host'[p].shuttingDown => host'[p].mu = "free"
      BY <3>3, <3>7, ZenonT(60) DEF DrainOK
    <3>12. host'[p].mu \notin {"free", "runtime"} => Proc[host'[p].mu] = p /\ call'[host'[p].mu].at = "starting"
      <4>1. host[p].mu \notin {"free", "runtime"} => Proc[host[p].mu] = p
        BY <3>7, ZenonT(60) DEF DrainOK
      <4> QED
        BY <3>3, <3>6, <3>7, <4>1, Zenon
    <3>13. /\ host'[p].shuttingDown \/ host'[p].stop \notin {"idle", "ok"} => host'[p].draining \/ host'[p].closed
           /\ host'[p].shuttingDown \/ host'[p].stop \notin {"idle", "ok", "startWait"} => ~host'[p].start
           /\ host'[p].stop \in {"workers", "operations2", "closeWait"} => host'[p].shuttingDown
      BY <3>3, <3>7, ZenonT(60) DEF DrainOK
    <3>14. host'[p].stop # "operations2" /\ host'[p].close = "no" /\ host'[p].stop # "closeWait" /\ host'[p].stop # "ok"
      BY <3>3, <3>5, <3>10, Zenon
    <3> QED
      BY <3>8, <3>9, <3>11, <3>12, <3>13, <3>14, ZenonT(60) DEF DrainOK
  <2> QED
    BY <2>1, <2>2, Zenon
<1>2. CASE Submits(d)
  <2>1. SameWork(host[p], host'[p]) /\ SameStop(host[p], host'[p])
    <3>1. CASE databaseNowMillis(d)
      <4>1. PICK n : host' = [host EXCEPT ![p] = [host[p] EXCEPT !.uniqueClaims = n]]
        BY <3>1, Zenon DEF databaseNowMillis
      <4> QED
        BY <1>0, <4>1, Zenon DEF HostInv, Host, SameWork, SameStop
    <3>2. CASE ~databaseNowMillis(d)
      <4>1. host' = host
        BY <1>2, <3>2, ZenonT(60) DEF Submits, Dispatch, pruneExpiredUniqueLocks, acquireUniqueKey, Rollback,
                             Insert, Commit
      <4> QED
        BY <4>1, Zenon DEF SameWork, SameStop
    <3> QED
      BY <3>1, <3>2, Zenon
  <2>2. Active(d) /\ call[d].at # "starting"
    BY <1>2, Zenon DEF Submits, Dispatch, databaseNowMillis, pruneExpiredUniqueLocks, acquireUniqueKey, Rollback,
                Insert, Commit, InTx, Active, Results
  <2>3. \A e \in Dispatches \ {d} : call'[e] = call[e]
    BY <1>2, Zenon DEF Submits, Dispatch, databaseNowMillis, pruneExpiredUniqueLocks, acquireUniqueKey, Rollback,
                Insert, Commit, At, Return, TypeInv
  <2>4. host'[p].mu = host[p].mu
    BY <2>1, Zenon DEF SameWork
  <2>5. Idle(p) => Idle(p)'
    BY <2>2, Zenon DEF Idle
  <2>6. host[p].mu \in Dispatches => call'[host[p].mu].at = "starting"
    BY <2>2, <2>3, BackendAssumption, Zenon DEF DrainOK
  <2> QED
    BY <2>1, <2>4, <2>5, <2>6, DrainFrame, Zenon DEF CallsSettle
<1> QED
  BY <1>1, <1>2, Zenon

\* The Shutdown of p: each wait establishes what the next one rests on.
LEMMA StopsDrain ==
  ASSUME TypeInv, TypeInv', NEW p \in Processes, DrainOK(p), Stops(p)
  PROVE  DrainOK(p)'
<1>0. HostInv /\ host[p] \in Host /\ host'[p] \in Host
  BY Zenon DEF TypeInv, HostInv
<1>c. call' = call
  BY Zenon DEF Stops
<1>i. Idle(p)' <=> Idle(p)
  BY <1>c, Zenon DEF Idle, Active
<1>w. SameWork(host[p], host'[p])
  BY <1>0, StopsChange, Zenon DEF ChangesRestOf, HostInv
<1>r. /\ host'[p].mu = host[p].mu /\ host'[p].start = host[p].start
      /\ host'[p].worker = host[p].worker /\ host'[p].serving = host[p].serving
      /\ host'[p].started = host[p].started
      /\ WorkersGone(p)' <=> WorkersGone(p)
      /\ call' = call /\ (Idle(p)' <=> Idle(p))
      /\ host[p].mu \in Dispatches \cup {"free", "runtime"}
      /\ host[p].seen \in Nat /\ host[p].opGen \in Nat
  BY <1>0, <1>c, <1>i, <1>w, Zenon DEF SameWork, WorkersGone, Host
<1>o. /\ Idle(p) => OperationsIdle(p) = 0
      /\ ~Idle(p) => OperationsIdle(p) = host[p].opGen
  BY IdleOperations, Zenon DEF OperationsIdle
<1>1. CASE Shutdown(p)
  <2>1. host' = [host EXCEPT ![p] = [host[p] EXCEPT !.draining = TRUE, !.seen = OperationsIdle(p),
                               !.stop = IF host[p].start THEN "startWait" ELSE "operations"]]
    BY <1>1, Zenon DEF Shutdown
  <2>2. /\ host'[p].stop = (IF host[p].start THEN "startWait" ELSE "operations")
        /\ host'[p].shuttingDown = host[p].shuttingDown
        /\ host'[p].draining = TRUE /\ host'[p].closed = host[p].closed
        /\ host'[p].close = host[p].close /\ host'[p].open = host[p].open
        /\ host'[p].seen = OperationsIdle(p) /\ host'[p].opGen = host[p].opGen
    BY <1>0, <2>1 DEF HostInv, Host
  <2>3. ~host[p].closed
    BY <1>1, Zenon DEF Shutdown
  <2> QED
    BY <1>r, <2>2, <2>3 DEF DrainOK
<1>2. CASE OperationsEnd(p)
  <2>1. host' = [host EXCEPT ![p] = [host[p] EXCEPT !.stop = "drain"]]
    BY <1>2, Zenon DEF OperationsEnd, Stop
  <2>2. /\ host'[p].stop = "drain" /\ host'[p].shuttingDown = host[p].shuttingDown
        /\ host'[p].draining = host[p].draining /\ host'[p].closed = host[p].closed
        /\ host'[p].close = host[p].close /\ host'[p].open = host[p].open
        /\ host'[p].seen = host[p].seen /\ host'[p].opGen = host[p].opGen
    BY <1>0, <2>1 DEF HostInv, Host
  <2>3. host[p].stop = "operations"
    BY <1>2, Zenon DEF OperationsEnd, Stop
  <2> QED
    BY <1>r, <2>2, <2>3 DEF DrainOK
<1>3. CASE DrainWorkers(p)
  <2>1. host' = [host EXCEPT ![p] = [host[p] EXCEPT !.shuttingDown = TRUE, !.stop = "workers"]]
    BY <1>3, Zenon DEF DrainWorkers
  <2>2. /\ host'[p].stop = "workers" /\ host'[p].shuttingDown = TRUE
        /\ host'[p].draining = host[p].draining /\ host'[p].closed = host[p].closed
        /\ host'[p].close = host[p].close /\ host'[p].open = host[p].open
        /\ host'[p].seen = host[p].seen /\ host'[p].opGen = host[p].opGen
    BY <1>0, <2>1 DEF HostInv, Host
  <2>3. host[p].stop = "drain" /\ host[p].mu = "free"
    BY <1>3, Zenon DEF DrainWorkers
  <2> QED
    BY <1>r, <2>2, <2>3 DEF DrainOK
<1>4. CASE finishWorkerDrain(p)
  <2>1. host' = [host EXCEPT ![p] = [host[p] EXCEPT !.stop = "operations2", !.seen = OperationsIdle(p)]]
    BY <1>4, Zenon DEF finishWorkerDrain
  <2>2. /\ host'[p].stop = "operations2" /\ host'[p].shuttingDown = host[p].shuttingDown
        /\ host'[p].draining = host[p].draining /\ host'[p].closed = host[p].closed
        /\ host'[p].close = host[p].close /\ host'[p].open = host[p].open
        /\ host'[p].seen = OperationsIdle(p) /\ host'[p].opGen = host[p].opGen
    BY <1>0, <2>1 DEF HostInv, Host
  <2>3. host[p].stop = "workers" /\ WorkersGone(p)
    BY <1>4, Zenon DEF finishWorkerDrain
  <2> QED
    BY <1>r, <2>2, <2>3, <1>o DEF DrainOK
<1>5. CASE CloseBackend(p)
  <2>1. host' = [host EXCEPT ![p] = [host[p] EXCEPT !.stop = "closeWait",
                               !.close = IF host[p].close = "no" THEN "closing" ELSE host[p].close]]
    BY <1>5, Zenon DEF CloseBackend, OperationsEnded, OperationsClosed
  <2>2. /\ host'[p].stop = "closeWait" /\ host'[p].shuttingDown = host[p].shuttingDown
        /\ host'[p].draining = host[p].draining /\ host'[p].closed = host[p].closed
        /\ host'[p].close = (IF host[p].close = "no" THEN "closing" ELSE host[p].close)
        /\ host'[p].open = host[p].open
        /\ host'[p].seen = host[p].seen /\ host'[p].opGen = host[p].opGen
    BY <1>0, <2>1 DEF HostInv, Host
  <2>3. host[p].stop = "operations2" /\ (host[p].seen = 0 \/ host[p].seen < host[p].opGen \/ Operations(p) = {})
    BY <1>5, Zenon DEF CloseBackend, OperationsEnded, OperationsClosed
  <2> QED
    BY <1>r, <2>2, <2>3, IdleOperations DEF DrainOK
<1>6. ASSUME NEW ok \in BOOLEAN, finishResourceClose(p, ok)
      PROVE  DrainOK(p)'
  <2>1. host' = [host EXCEPT ![p] = [host[p] EXCEPT !.close = "done", !.open = FALSE, !.shutdownErr = ~ok]]
    BY <1>6, Zenon DEF finishResourceClose
  <2>2. /\ host'[p].stop = host[p].stop /\ host'[p].shuttingDown = host[p].shuttingDown
        /\ host'[p].draining = host[p].draining /\ host'[p].closed = host[p].closed
        /\ host'[p].close = "done" /\ host'[p].open = FALSE
        /\ host'[p].seen = host[p].seen /\ host'[p].opGen = host[p].opGen
    BY <1>0, <2>1 DEF HostInv, Host
  <2>3. host[p].close = "closing"
    BY <1>6, Zenon DEF finishResourceClose
  <2> QED
    BY <1>r, <2>2, <2>3, ZenonT(60) DEF DrainOK
<1>7. CASE EndShutdown(p) /\ host[p].shutdownErr
  <2>1. host' = [host EXCEPT ![p] = [host[p] EXCEPT !.shutdownErr = FALSE, !.stop = "idle"]]
    BY <1>7, Zenon DEF EndShutdown
  <2>2. /\ host'[p].stop = "idle" /\ host'[p].shuttingDown = host[p].shuttingDown
        /\ host'[p].draining = host[p].draining /\ host'[p].closed = host[p].closed
        /\ host'[p].close = host[p].close /\ host'[p].open = host[p].open
        /\ host'[p].seen = host[p].seen /\ host'[p].opGen = host[p].opGen
    <3>1. host \in [Processes -> Host]
      BY <1>0, Zenon DEF HostInv
    <3>2. host[p] \in Host /\ host'[p] = [host[p] EXCEPT !.shutdownErr = FALSE, !.stop = "idle"]
      BY <2>1, <3>1, Zenon
    <3> QED
      BY <3>2, Zenon DEF Host
  <2> QED
    BY <1>r, <2>2 DEF DrainOK
<1>8. CASE EndShutdown(p) /\ ~host[p].shutdownErr
  <2>1. host' = [host EXCEPT ![p] = [host[p] EXCEPT !.stop = "ok", !.closed = TRUE, !.up = FALSE,
                                                    !.draining = FALSE]]
    BY <1>8, Zenon DEF EndShutdown
  <2>2. /\ host'[p].stop = "ok" /\ host'[p].shuttingDown = host[p].shuttingDown
        /\ host'[p].draining = FALSE /\ host'[p].closed = TRUE
        /\ host'[p].close = host[p].close /\ host'[p].open = host[p].open
        /\ host'[p].seen = host[p].seen /\ host'[p].opGen = host[p].opGen
    BY <1>0, <2>1 DEF HostInv, Host
  <2>3. host[p].stop = "closeWait" /\ host[p].close = "done"
    BY <1>8, Zenon DEF EndShutdown
  <2> QED
    BY <1>r, <2>2, <2>3, Zenon DEF DrainOK
<1>9. CASE ShutdownExpires(p)
  <2>1. host' = [host EXCEPT ![p] = [host[p] EXCEPT !.stop = "idle"]]
    BY <1>9, Zenon DEF ShutdownExpires, Stop
  <2>2. /\ host'[p].stop = "idle" /\ host'[p].shuttingDown = host[p].shuttingDown
        /\ host'[p].draining = host[p].draining /\ host'[p].closed = host[p].closed
        /\ host'[p].close = host[p].close /\ host'[p].open = host[p].open
        /\ host'[p].seen = host[p].seen /\ host'[p].opGen = host[p].opGen
    BY <1>0, <2>1 DEF HostInv, Host
  <2>3. host[p].stop # "ok"
    BY <1>9, Zenon DEF ShutdownExpires, Stop
  <2> QED
    BY <1>r, <2>2, <2>3 DEF DrainOK
<1> QED
  BY <1>1, <1>2, <1>3, <1>4, <1>5, <1>6, <1>7, <1>8, <1>9, Zenon DEF Stops

\* The steps of a start touch the calls and the record of their own process.
LEMMA StartsOnlyOwn ==
  ASSUME TypeInv, DrainInv, NEW p \in Processes, NEW t \in Starters(p), NEW db \in DBResults,
         StartRuntime(p) \/ StartWorkers(p, t) \/ Go(p) \/ Migrates(p, db)
  PROVE  /\ OthersSame(p)
         /\ \A d \in Dispatches : Proc[d] # p => call'[d] = call[d]
<1>0. HostInv /\ host[p] \in Host /\ DrainOK(p)
  BY Zenon DEF TypeInv, HostInv, DrainInv
<1>s. ASSUME NEW u, u = "runtime" \/ Proc[u] = p, NEW r, NEW h, StartReturns(p, u, r, h)
      PROVE  /\ OthersSame(p)
             /\ \A d \in Dispatches : Proc[d] # p => call'[d] = call[d]
  BY <1>0, <1>s, Zenon DEF StartReturns, OthersSame, HostInv, TypeInv
<1>1. CASE StartRuntime(p)
  BY <1>0, <1>1, Zenon DEF StartRuntime, OthersSame, HostInv
<1>2. CASE StartWorkers(p, t)
  <2>1. t = "runtime" \/ Proc[t] = p
    BY Zenon DEF Starters
  <2>2. CASE host[p].shuttingDown \/ host[p].started
    <3>1. StartReturns(p, t, "rejected", host[p]) \/ StartReturns(p, t, "ok", host[p])
      BY <1>2, <2>2, Zenon DEF StartWorkers
    <3> QED
      BY <1>s, <2>1, <3>1, Zenon
  <2>3. CASE ~(host[p].shuttingDown \/ host[p].started)
    BY <1>0, <1>2, <2>1, <2>3, Zenon DEF StartWorkers, OthersSame, HostInv, TypeInv
  <2> QED
    BY <2>2, <2>3, Zenon
<1>3. CASE Go(p) \/ Migrates(p, db)
  <2>1. host[p].mu # "free"
    BY <1>0, <1>3, MigratesMoves, Zenon DEF Go, HostInv
  <2>2. host[p].mu = "runtime" \/ Proc[host[p].mu] = p
    BY <1>0, <2>1, Zenon DEF DrainOK
  <2>3. CASE \E r, h : StartReturns(p, host[p].mu, r, h)
    BY <1>s, <2>2, <2>3, Zenon
  <2>4. CASE \E s \in Steps : Step(p, s)
    BY <1>0, <2>4, Zenon DEF Step, OthersSame, HostInv
  <2>5. (\E r, h : StartReturns(p, host[p].mu, r, h)) \/ \E s \in Steps : Step(p, s)
    <3>1. CASE Go(p)
      BY <3>1, Zenon DEF Go
    <3>2. CASE StartFails(p)
      BY <3>2, Zenon DEF StartFails
    <3> QED
      BY <1>3, <3>1, <3>2, MigratesMoves, Zenon
  <2> QED
    BY <2>3, <2>4, <2>5, Zenon
<1> QED
  BY <1>1, <1>2, <1>3, Zenon

\* Every step keeps what the Shutdowns have established.
LEMMA DrainStep ==
  ASSUME TypeInv, TypeInv', DrainInv, [Next]_vars
  PROVE  DrainInv'
<1> SUFFICES ASSUME NEW q \in Processes PROVE DrainOK(q)'
  BY Zenon DEF DrainInv
<1>0. DrainOK(q) /\ HostInv
  BY Zenon DEF DrainInv, TypeInv
<1>1. CASE UNCHANGED vars \/ Tick
  BY <1>0, <1>1, DrainOther, Zenon DEF vars, Tick
<1>2. ASSUME NEW p \in Processes, NEW t \in Starters(p), NEW db \in DBResults,
             StartRuntime(p) \/ StartWorkers(p, t) \/ Go(p) \/ Migrates(p, db)
      PROVE  DrainOK(q)'
  <2>1. CASE q = p
    BY <1>0, <1>2, <2>1, StartDrain, Zenon
  <2>2. CASE q # p
    <3>1. host'[q] = host[q]
      BY <1>2, <2>2, StartsOnlyOwn, <1>0, Zenon DEF OthersSame
    <3>2. \A d \in Dispatches : Proc[d] = q => call'[d].at = call[d].at
      BY <1>0, <1>2, <2>2, StartsOnlyOwn, Zenon DEF DrainInv
    <3> QED
      BY <1>0, <3>1, <3>2, DrainOther, Zenon
  <2> QED
    BY <2>1, <2>2, Zenon
<1>3. ASSUME NEW p \in Processes, workerLoop(p) \/ Stops(p)
      PROVE  DrainOK(q)'
  <2>1. CASE q = p
    BY <1>0, <1>3, <2>1, WorkerDrain, StopsDrain, Zenon
  <2>2. CASE q # p
    <3>1. call' = call
      BY <1>3, Zenon DEF workerLoop, Stops
    <3>2. host'[q] = host[q]
      <4>1. CASE workerLoop(p)
        BY <1>0, <2>2, <4>1, Zenon DEF workerLoop, Worker, HostInv
      <4>2. CASE Stops(p)
        BY <1>0, <2>2, <4>2, StopsChange, Zenon DEF ChangesRestOf, HostInv
      <4> QED
        BY <1>3, <4>1, <4>2, Zenon
    <3> QED
      BY <1>0, <3>1, <3>2, DrainOther, Zenon
  <2> QED
    BY <2>1, <2>2, Zenon
<1>4. ASSUME NEW d \in Dispatches, NEW j \in Dispatches \cup {"none"},
             acquireOperation(d, j) \/ Submits(d)
      PROVE  DrainOK(q)'
  <2>1. CASE q = Proc[d]
    BY <1>0, <1>4, <2>1, DispatchDrain, Zenon
  <2>2. CASE q # Proc[d]
    <3>1. host'[q] = host[q]
      BY <1>0, <1>4, <2>2, DispatchChanges, BackendAssumption, ZenonT(60) DEF ChangesRestOf, HostInv
    <3>2. \A e \in Dispatches \ {d} : call'[e] = call[e]
      BY <1>4, Zenon DEF acquireOperation, Submits, Dispatch, databaseNowMillis, pruneExpiredUniqueLocks,
                  acquireUniqueKey, Rollback, Insert, Commit, At, Return, TypeInv
    <3> QED
      BY <1>0, <2>2, <3>1, <3>2, DrainOther, Zenon
  <2> QED
    BY <2>1, <2>2, Zenon
<1> QED
  <2>1. \A p \in Processes : "runtime" \in Starters(p)
    BY Zenon DEF Starters
  <2>2. "ok" \in DBResults
    BY Zenon DEF DBResults
  <2> QED
    BY <1>1, <1>2, <1>3, <1>4, <2>1, <2>2, Zenon DEF Next

\* The handle a process owns is closed under nobody, and a Shutdown that has
\* returned nil has closed it: for any number of calls, handlers, starts and
\* Shutdowns that give up and come again.
THEOREM HandleClosedWhenQuiet == Spec => []ClosedWhenQuiet
<1>1. TypeInv /\ DrainInv => ClosedWhenQuiet
  <2> SUFFICES ASSUME TypeInv, DrainInv, NEW p \in Processes
               PROVE  /\ ~host[p].open => WorkersGone(p) /\ host[p].mu = "free" /\ Operations(p) = {}
                      /\ host[p].stop = "ok" => ~host[p].open
    BY Zenon DEF ClosedWhenQuiet
  <2>1. DrainOK(p) /\ host[p].open \in BOOLEAN
    BY Zenon DEF DrainInv, TypeInv, HostInv, Host
  <2>2. ~host[p].open <=> host[p].close = "done"
    BY <2>1, Zenon DEF DrainOK
  <2> QED
    BY <2>1, <2>2, IdleOperations, Zenon DEF DrainOK
<1>2. TypeInv /\ DrainInv /\ [Next]_vars => (TypeInv /\ DrainInv)'
  BY TypeStep, DrainStep, Zenon
<1> QED
  BY <1>1, <1>2, TypeInit, DrainInit, PTL DEF Spec

-----------------------------------------------------------------------------
(* Unique jobs.                                                            *)

LockRow == [exp: Nat, by: Dispatches \cup {"none", "old"}]

\* The lock row call d writes.
Claim(d) == [exp |-> call[d].now + TTL, by |-> d]

\* A lock row an open transaction has written: it is written by no other, and
\* what it replaces had expired when the transaction read the clock.
TxOK(d, k) ==
  /\ k \in Keys
  /\ tx[d][k] = NoClaim \/ (tx[d][k] = Claim(d) /\ k \in JobKeys(d))
  /\ locks[k] = NoClaim \/ locks[k].exp <= call[d].now
  /\ \A e \in Dispatches \ {d} : k \notin DOMAIN tx[e]

\* How far the transaction of call d has come is what its position says.
CallOK(d) ==
  /\ call[d].now <= clock
  /\ call[d].at = "insert" => Identity[d] = "none"
  /\ InTx(d) => Identity[d] # "none"
  /\ ~InTx(d) \/ call[d].at = "time" => DOMAIN tx[d] = {}
  /\ call[d].at \notin Results => rows[d] = "none"
  /\ call[d].at \in {"canonical", "row"} => legacyUniqueJobKey(d) \in DOMAIN tx[d] /\ tx[d][legacyUniqueJobKey(d)] = Claim(d)
  /\ call[d].at = "row" => uniqueJobKey(d) \in DOMAIN tx[d] /\ tx[d][uniqueJobKey(d)] = Claim(d)
  /\ \A k \in DOMAIN tx[d] : TxOK(d, k)

\* A committed lock row names the job it was committed with.
LockOK(k) ==
  /\ locks[k] \in LockRow
  /\ locks[k].by = "none" => locks[k] = NoClaim
  /\ locks[k].by \in Dispatches => LET d == locks[k].by IN
       /\ locks[k] = Claim(d) /\ rows[d] # "none"
       /\ k \in JobKeys(d) /\ Identity[d] # "none"

\* A queued job has both of its keys until its window has passed.
JobOK(d) == LiveJob(d) => \A k \in JobKeys(d) : locks[k] = Claim(d)

ClaimInv ==
  /\ DOMAIN tx = Dispatches /\ DOMAIN rows = Dispatches
  /\ \A d \in Dispatches : CallOK(d) /\ JobOK(d)
  /\ \A k \in Keys : LockOK(k)
  /\ \A p \in Processes : host[p].serving # "none" => rows[host[p].serving] # "none"

-----------------------------------------------------------------------------

\* The keys of a job with an identity.
LEMMA KeysOfJobs ==
  ASSUME NEW d \in Dispatches, Identity[d] # "none"
  PROVE  /\ JobKeys(d) \subseteq Keys
         /\ legacyUniqueJobKey(d) \in JobKeys(d) /\ uniqueJobKey(d) \in JobKeys(d)
         /\ legacyUniqueJobKey(d) # uniqueJobKey(d)
<1>1. Identity[d] \in Identities /\ Digest[d] \in Digests
  BY BackendAssumption, Zenon
<1> QED
  BY <1>1 DEF JobKeys, legacyUniqueJobKey, uniqueJobKey, Keys

\* A set with at most one element counts at most one.
LEMMA CountsOne ==
  ASSUME NEW S, NEW y, S \subseteq {y}
  PROVE  Cardinality(S) <= 1
<1> DEFINE F(f) == [T \in SUBSET S |-> IF T = {} THEN 0 ELSE 1 + f[T \ {CHOOSE x : x \in T}]]
           g == [T \in SUBSET S |-> IF T = {} THEN 0 ELSE 1]
           c == CHOOSE f : f = F(f)
<1>1. \A T \in SUBSET S : T # {} => T \ {CHOOSE x : x \in T} = {}
  BY Zenon
<1>2. g = F(g)
  BY <1>1
<1>3. c = F(c)
  <2> HIDE DEF F, g
  <2> QED
    BY <1>2, Zenon
<1>4. Cardinality(S) = c[S]
  BY Zenon DEF Cardinality
<1>5. F(c)[{}] = 0 /\ F(c)[S] = IF S = {} THEN 0 ELSE 1 + c[S \ {CHOOSE x : x \in S}]
  <2> HIDE DEF c
  <2> QED
    BY Zenon
<1>6. S # {} => S \ {CHOOSE x : x \in S} = {}
  BY <1>1, Zenon
<1> HIDE DEF c, F
<1>7. c[{}] = 0 /\ c[S] = IF S = {} THEN 0 ELSE 1 + c[S \ {CHOOSE x : x \in S}]
  BY <1>3, <1>5, Zenon
<1>8. c[S] \in {0, 1}
  BY <1>6, <1>7
<1> QED
  BY <1>4, <1>8

\* The invariant says what acquireUnique promises.
LEMMA ClaimsFollow ==
  ASSUME TypeInv, ClaimInv
  PROVE  ClaimsTruthful
<1> SUFFICES ASSUME NEW k \in Keys
             PROVE  /\ Cardinality(Holders(k)) <= 1
                    /\ clock < locks[k].exp => locks[k].by \in Holders(k)
  BY Zenon DEF ClaimsTruthful
<1>0. clock \in Nat /\ TTL \in Nat /\ \A d \in Dispatches : call[d].now \in Nat
  BY BackendAssumption, Zenon DEF TypeInv, Call
<1>1. Cardinality(Holders(k)) <= 1
  <2> DEFINE x == locks[k].by
  <2>1. ASSUME NEW h \in Holders(k)
        PROVE  h = x
    <3>1. CASE h \in Dispatches /\ k \in JobKeys(h) /\ LiveJob(h)
      <4>1. locks[k] = Claim(h)
        BY <3>1, Zenon DEF ClaimInv, JobOK
      <4> QED
        BY <4>1 DEF Claim
    <3> QED
      BY <3>1, Zenon DEF Holders
  <2> HIDE DEF x
  <2> QED
    BY <2>1, CountsOne, Zenon
<1>2. ASSUME clock < locks[k].exp
      PROVE  locks[k].by \in Holders(k)
  <2>1. LockOK(k)
    BY Zenon DEF ClaimInv
  <2>2. CASE locks[k].by = "none"
    BY <1>0, <1>2, <2>1, <2>2 DEF LockOK, NoClaim
  <2>3. CASE locks[k].by = "old"
    BY <1>2, <2>3, Zenon DEF Holders
  <2>4. CASE locks[k].by \in Dispatches
    BY <1>0, <1>2, <2>1, <2>4 DEF LockOK, Claim, Holders, LiveJob
  <2> QED
    BY <2>1, <2>2, <2>3, <2>4, Zenon DEF LockOK, LockRow
<1> QED
  BY <1>1, <1>2, Zenon

\* At first there are only the claims of an older release.
LEMMA ClaimInit == Init => ClaimInv
<1> SUFFICES ASSUME Init PROVE ClaimInv
  BY Zenon
<1>1. DOMAIN tx = Dispatches /\ DOMAIN rows = Dispatches
  BY Zenon DEF Init
<1>2. ASSUME NEW d \in Dispatches
      PROVE  CallOK(d) /\ JobOK(d)
  BY DEF Init, CallOK, JobOK, LiveJob, InTx, NoTx, Results
<1>3. ASSUME NEW k \in Keys
      PROVE  LockOK(k)
  BY BackendAssumption, Zenon DEF Init, LockOK, LockRow, NoClaim, Keys
<1>4. \A p \in Processes : host[p].serving = "none"
  BY Zenon DEF Init
<1> QED
  BY <1>1, <1>2, <1>3, <1>4, Zenon DEF ClaimInv

-----------------------------------------------------------------------------
(* Steps outside the transactions.                                         *)

Waiting == {"none", "entered", "startMu", "starting"}

\* A call that has not begun its statements moves on, or stays where it is.
Moves(d) ==
  /\ call'[d].now = call[d].now
  /\ \/ call'[d].at = call[d].at
     \/ call[d].at \in Waiting /\ call'[d].at \in Waiting \cup {"rejected", "error", Submit(d)}

\* A lock row goes only when it has expired.
LocksPruned ==
  \A k \in Keys : locks'[k] = locks[k] \/ (locks'[k] = NoClaim /\ locks[k].exp <= clock)

\* Time, pruning and whatever happens around the transactions break no claim.
LEMMA ClaimFrame ==
  ASSUME TypeInv, TypeInv', ClaimInv, \A d \in Dispatches : Moves(d), LocksPruned,
         clock' \in {clock, clock + 1}, UNCHANGED <<rows, tx>>,
         \A p \in Processes : host'[p].serving = host[p].serving
  PROVE  ClaimInv'
<1>0. /\ clock \in Nat /\ clock' \in Nat /\ clock' >= clock /\ TTL \in Nat
      /\ \A d \in Dispatches : call[d].now \in Nat /\ call[d].at \in CallAt /\ call'[d].at \in CallAt
  BY BackendAssumption DEF TypeInv, Call
<1>1. ASSUME NEW d \in Dispatches PROVE Claim(d)' = Claim(d)
  BY Zenon DEF Moves, Claim
<1>2. ASSUME NEW d \in Dispatches PROVE CallOK(d)'
  <2>0. CallOK(d) /\ Moves(d)
    BY Zenon DEF ClaimInv
  <2>1. (\A k \in DOMAIN tx[d] : TxOK(d, k))'
    <3> SUFFICES ASSUME NEW k \in DOMAIN tx[d] PROVE TxOK(d, k)'
      BY Zenon
    <3>1. TxOK(d, k)
      BY <2>0, Zenon DEF CallOK
    <3>2. k \in Keys /\ (locks'[k] = locks[k] \/ locks'[k] = NoClaim)
      BY <3>1, Zenon DEF TxOK, LocksPruned
    <3>3. call'[d].now = call[d].now
      BY Zenon DEF Moves
    <3> QED
      BY <1>1, <3>1, <3>2, <3>3, Zenon DEF TxOK
  <2>2. CASE call'[d].at = call[d].at
    BY <1>0, <1>1, <2>0, <2>1, <2>2, SMTT(30) DEF CallOK, InTx, Moves, legacyUniqueJobKey, uniqueJobKey
  <2>3. CASE call[d].at \in Waiting /\ call'[d].at \in Waiting \cup {"rejected", "error", Submit(d)}
    <3>1. ~InTx(d) /\ DOMAIN tx[d] = {} /\ rows[d] = "none"
      BY <2>0, <2>3, Zenon DEF CallOK, InTx, Waiting, Results
    <3>2. /\ call'[d].at = "insert" => Identity[d] = "none"
          /\ InTx(d)' => Identity[d] # "none" /\ call'[d].at = "time"
          /\ call'[d].at \notin {"canonical", "row"}
      BY <2>3, Zenon DEF Submit, InTx, Waiting
    <3> QED
      BY <1>0, <2>0, <2>1, <3>1, <3>2 DEF CallOK, Moves
  <2> QED
    BY <2>0, <2>2, <2>3, Zenon DEF Moves
<1>3. ASSUME NEW d \in Dispatches PROVE JobOK(d)'
  <2> SUFFICES ASSUME LiveJob(d)', NEW k \in JobKeys(d) PROVE (locks[k] = Claim(d))'
    BY Zenon DEF JobOK, JobKeys, legacyUniqueJobKey, uniqueJobKey
  <2>1. LiveJob(d) /\ clock < call[d].now + TTL
    BY <1>0 DEF LiveJob, Moves
  <2>2. locks[k] = Claim(d) /\ k \in Keys
    BY <2>1, KeysOfJobs, Zenon DEF ClaimInv, JobOK, LiveJob
  <2>3. locks'[k] = locks[k]
    BY <1>0, <2>1, <2>2 DEF LocksPruned, Claim
  <2> QED
    BY <1>1, <2>2, <2>3, Zenon
<1>4. ASSUME NEW k \in Keys PROVE LockOK(k)'
  <2>0. LockOK(k)
    BY Zenon DEF ClaimInv
  <2>1. CASE locks'[k] = locks[k]
    BY <1>1, <2>0, <2>1, Zenon DEF LockOK
  <2>2. CASE locks'[k] = NoClaim
    BY <2>2, BackendAssumption DEF LockOK, LockRow, NoClaim
  <2> QED
    BY <2>1, <2>2, Zenon DEF LocksPruned
<1> QED
  BY <1>2, <1>3, <1>4, Zenon DEF ClaimInv

\* A start moves only the call that holds or waits for startMu.
LEMMA StartMoves ==
  ASSUME TypeInv, DrainInv, NEW p \in Processes, NEW t \in Starters(p), NEW db \in DBResults,
         StartRuntime(p) \/ StartWorkers(p, t) \/ Go(p) \/ Migrates(p, db)
  PROVE  /\ \A d \in Dispatches : Moves(d)
         /\ \A q \in Processes : host'[q].serving = host[q].serving
<1> USE DEF TypeInv
<1>0. HostInv /\ host[p] \in Host /\ DrainOK(p)
  BY Zenon DEF HostInv, DrainInv
<1>s. ASSUME NEW u, u = "runtime" \/ (u \in Dispatches /\ call[u].at \in Waiting),
             NEW r \in {"ok", "rejected", "error"}, NEW h, StartReturns(p, u, r, h)
      PROVE  \A d \in Dispatches : Moves(d)
  BY <1>s DEF StartReturns, Moves, Call
<1>q. ASSUME OthersSame(p), host'[p].serving = host[p].serving
      PROVE  \A q \in Processes : host'[q].serving = host[q].serving
  BY <1>q, Zenon DEF OthersSame
<1>1. CASE StartRuntime(p)
  BY <1>0, <1>1 DEF StartRuntime, Moves, HostInv
<1>2. CASE StartWorkers(p, t)
  <2>1. t = "runtime" \/ (t \in Dispatches /\ call[t].at = "startMu")
    BY <1>2, Zenon DEF StartWorkers, WaitsToStart, Starters
  <2>2. CASE host[p].shuttingDown \/ host[p].started
    <3>1. PICK r \in {"rejected", "ok"} : StartReturns(p, t, r, host[p])
      BY <1>2, <2>2, Zenon DEF StartWorkers
    <3>2. OthersSame(p) /\ host'[p].serving = host[p].serving
      BY <1>0, <3>1, StartReturnsChange, Zenon
    <3> QED
      BY <1>s, <1>q, <2>1, <3>1, <3>2, ZenonT(60) DEF Waiting
  <2>3. CASE ~(host[p].shuttingDown \/ host[p].started)
    <3>1. PICK s : host' = [host EXCEPT ![p] = [host[p] EXCEPT !.mu = t, !.step = s]]
      BY <1>2, <2>3, ZenonT(60) DEF StartWorkers
    <3>2. \A q \in Processes : host'[q].serving = host[q].serving
      BY <1>0, <3>1 DEF HostInv
    <3>3. \A d \in Dispatches : Moves(d)
      BY <1>2, <2>1, <2>3 DEF StartWorkers, Moves, Waiting, Call
    <3> QED
      BY <3>2, <3>3, Zenon
  <2> QED
    BY <2>2, <2>3, Zenon
<1>3. CASE Go(p) \/ Migrates(p, db)
  <2>1. host[p].mu # "free"
    BY <1>0, <1>3, MigratesMoves, Zenon DEF Go, HostInv
  <2>2. host[p].mu = "runtime" \/ (host[p].mu \in Dispatches /\ call[host[p].mu].at \in Waiting)
    BY <1>0, <2>1, Zenon DEF DrainOK, Host, Waiting
  <2>3. CASE Go(p)
    <3>1. \E h : StartReturns(p, host[p].mu, "ok", h)
      BY <2>3, Zenon DEF Go
    <3>2. OthersSame(p) /\ host'[p].serving = host[p].serving
      BY <1>0, <2>3, GoChange, Zenon
    <3> QED
      BY <1>s, <1>q, <2>2, <3>1, <3>2, Zenon
  <2>4. CASE StartFails(p)
    <3>1. \E h : StartReturns(p, host[p].mu, "error", h)
      BY <2>4, Zenon DEF StartFails
    <3>2. OthersSame(p) /\ host'[p].serving = host[p].serving
      BY <1>0, <2>4, StartFailsChange, Zenon
    <3> QED
      BY <1>s, <1>q, <2>2, <3>1, <3>2, Zenon
  <2>5. ASSUME NEW s \in Steps, Step(p, s)
        PROVE  /\ \A d \in Dispatches : Moves(d)
               /\ \A q \in Processes : host'[q].serving = host[q].serving
    <3>1. OthersSame(p) /\ host'[p].serving = host[p].serving
      BY <1>0, <2>5, StepChange, Zenon
    <3>2. call' = call
      BY <2>5, Zenon DEF Step
    <3> QED
      BY <1>q, <3>1, <3>2, Zenon DEF Moves
  <2> QED
    BY <1>3, <2>3, <2>4, <2>5, MigratesMoves, Zenon
<1> QED
  BY <1>1, <1>2, <1>3, Zenon

-----------------------------------------------------------------------------
(* Steps of a transaction.                                                 *)

\* What a step of one call leaves to another call e.
LEMMA OtherCall ==
  ASSUME ClaimInv, NEW e \in Dispatches, call'[e] = call[e], tx'[e] = tx[e], rows'[e] = rows[e],
         clock' = clock,
         \A k \in DOMAIN tx[e] : /\ locks'[k] = locks[k]
                                 /\ \A f \in Dispatches \ {e} : k \notin DOMAIN tx'[f]
  PROVE  CallOK(e)'
<1>1. CallOK(e) /\ Claim(e)' = Claim(e)
  BY Zenon DEF ClaimInv, Claim
<1>2. ASSUME NEW k \in DOMAIN tx[e] PROVE TxOK(e, k)'
  BY <1>1, Zenon DEF CallOK, TxOK
<1> QED
  BY <1>1, <1>2, Zenon DEF CallOK, InTx, legacyUniqueJobKey, uniqueJobKey

\* The steps of call d that commit nothing.
LEMMA Uncommitted ==
  ASSUME TypeInv, TypeInv', ClaimInv, NEW d \in Dispatches, CallOK(d)',
         \A e \in Dispatches \ {d} : call'[e] = call[e] /\ tx'[e] = tx[e],
         call'[d].now = call[d].now \/ rows[d] = "none",
         \A k \in DOMAIN tx'[d] : \A e \in Dispatches \ {d} : k \notin DOMAIN tx[e],
         DOMAIN tx' = DOMAIN tx, UNCHANGED <<clock, locks, rows>>,
         \A p \in Processes : host'[p].serving = host[p].serving
  PROVE  ClaimInv'
<1>1. ASSUME NEW e \in Dispatches PROVE CallOK(e)'
  <2>1. CASE e # d
    <3>1. \A k \in DOMAIN tx[e] : \A f \in Dispatches \ {e} : k \notin DOMAIN tx'[f]
      <4> SUFFICES ASSUME NEW k \in DOMAIN tx[e], NEW f \in Dispatches \ {e}
                   PROVE  k \notin DOMAIN tx'[f]
        BY Zenon
      <4>1. CASE f = d
        BY <2>1, <4>1, Zenon
      <4>2. CASE f # d
        BY <2>1, <4>2, Zenon DEF ClaimInv, CallOK, TxOK
      <4> QED
        BY <4>1, <4>2, Zenon
    <3> QED
      BY <2>1, <3>1, OtherCall, Zenon
  <2> QED
    BY <2>1, Zenon
<1>2. ASSUME NEW e \in Dispatches, rows[e] # "none" PROVE Claim(e)' = Claim(e) /\ call'[e].now = call[e].now
  BY <1>2, Zenon DEF Claim
<1>3. ASSUME NEW e \in Dispatches PROVE JobOK(e)'
  <2>1. JobOK(e)
    BY Zenon DEF ClaimInv
  <2> QED
    BY <1>2, <2>1, Zenon DEF JobOK, LiveJob, JobKeys, legacyUniqueJobKey, uniqueJobKey
<1>4. ASSUME NEW k \in Keys PROVE LockOK(k)'
  <2>1. LockOK(k)
    BY Zenon DEF ClaimInv
  <2> QED
    BY <1>2, <2>1, Zenon DEF LockOK
<1> QED
  BY <1>1, <1>3, <1>4, Zenon DEF ClaimInv

\* A call that returns without having committed takes its claims with it.
LEMMA ReturnClaims ==
  ASSUME TypeInv, TypeInv', ClaimInv, NEW d \in Dispatches, NEW r \in Results, Return(d, r),
         UNCHANGED <<clock, locks, rows, host>>
  PROVE  ClaimInv'
<1>1. /\ call' = [call EXCEPT ![d].at = r] /\ tx' = [tx EXCEPT ![d] = NoTx]
      /\ call \in [Dispatches -> Call] /\ DOMAIN tx = Dispatches /\ CallOK(d)
  BY Zenon DEF Return, TypeInv, ClaimInv
<1>2. /\ call'[d].at = r /\ call'[d].now = call[d].now /\ DOMAIN tx'[d] = {} /\ DOMAIN tx' = DOMAIN tx
      /\ \A e \in Dispatches \ {d} : call'[e] = call[e] /\ tx'[e] = tx[e]
  BY <1>1, Zenon DEF NoTx, Call
<1>3. CallOK(d)'
  BY <1>1, <1>2, Zenon DEF CallOK, InTx, Results
<1> QED
  BY <1>2, <1>3, Uncommitted, Zenon

\* Reading the clock and counting the claim.
LEMMA TimeClaims ==
  ASSUME TypeInv, TypeInv', ClaimInv, NEW d \in Dispatches, databaseNowMillis(d),
         \A p \in Processes : host'[p].serving = host[p].serving
  PROVE  ClaimInv'
<1>1. /\ call[d].at = "time" /\ UNCHANGED <<clock, locks, rows, tx>> /\ CallOK(d)
      /\ call \in [Dispatches -> Call] /\ clock \in Nat
      /\ \E a \in {"prune", "legacy"} : call' = [call EXCEPT ![d].now = clock, ![d].at = a]
  BY Zenon DEF databaseNowMillis, dataVars, TypeInv, ClaimInv, FirstKey
<1>2. /\ call'[d].at \in {"prune", "legacy"} /\ call'[d].now = clock
      /\ \A e \in Dispatches \ {d} : call'[e] = call[e]
  BY <1>1, Zenon DEF Call
<1>3. DOMAIN tx[d] = {} /\ rows[d] = "none" /\ Identity[d] # "none"
  BY <1>1, Zenon DEF CallOK, InTx, Results
<1>4. CallOK(d)'
  BY <1>1, <1>2, <1>3 DEF CallOK, InTx, Results
<1> QED
  BY <1>1, <1>2, <1>3, <1>4, Uncommitted, Zenon

\* A transaction writes a row that no other has written and that has expired.
LEMMA WriteClaims ==
  ASSUME TypeInv, TypeInv', ClaimInv, NEW d \in Dispatches, NEW k \in Keys, ~HeldByOther(d, k),
         locks[k] = NoClaim \/ locks[k].exp <= call[d].now,
         NEW row, row = NoClaim \/ (row = Claim(d) /\ k \in JobKeys(d)), Write(d, k, row),
         call[d].at \in {"prune", "legacy", "canonical"},
         call[d].at = "canonical" => k # legacyUniqueJobKey(d),
         call'[d].now = call[d].now,
         \A e \in Dispatches \ {d} : call'[e] = call[e],
         \/ call'[d].at = call[d].at /\ call[d].at = "prune"
         \/ call[d].at = "legacy" /\ call'[d].at = "canonical" /\ k = legacyUniqueJobKey(d) /\ row = Claim(d)
         \/ call[d].at = "canonical" /\ call'[d].at = "row" /\ k = uniqueJobKey(d) /\ row = Claim(d),
         UNCHANGED <<clock, locks, rows, host>>
  PROVE  ClaimInv'
<1>0. DOMAIN tx = Dispatches /\ CallOK(d) /\ Claim(d)' = Claim(d)
  BY Zenon DEF ClaimInv, Claim
<1>1. /\ DOMAIN tx' = DOMAIN tx /\ \A e \in Dispatches \ {d} : tx'[e] = tx[e]
      /\ DOMAIN tx'[d] = DOMAIN tx[d] \cup {k}
      /\ \A i \in DOMAIN tx'[d] : tx'[d][i] = IF i = k THEN row ELSE tx[d][i]
  BY <1>0, Zenon DEF Write
<1>2. ASSUME NEW i \in DOMAIN tx'[d] PROVE TxOK(d, i)'
  <2>1. CASE i = k
    BY <1>0, <1>1, <2>1, Zenon DEF TxOK, HeldByOther
  <2>2. CASE i # k
    <3>1. TxOK(d, i) /\ i \in DOMAIN tx[d]
      BY <1>0, <1>1, <2>2, Zenon DEF CallOK
    <3> QED
      BY <1>0, <1>1, <2>2, <3>1, Zenon DEF TxOK
  <2> QED
    BY <2>1, <2>2, Zenon
<1>3. CallOK(d)'
  BY <1>0, <1>1, <1>2, ZenonT(60) DEF CallOK, InTx, Results, legacyUniqueJobKey, uniqueJobKey
<1>4. \A i \in DOMAIN tx'[d] : \A e \in Dispatches \ {d} : i \notin DOMAIN tx[e]
  BY <1>1, <1>2, Zenon DEF TxOK
<1> QED
  BY <1>1, <1>3, <1>4, Uncommitted, ZenonT(60)

\* The DELETE of expired rows inside a transaction.
LEMMA PruneClaims ==
  ASSUME TypeInv, TypeInv', ClaimInv, NEW d \in Dispatches, pruneExpiredUniqueLocks(d)
  PROVE  ClaimInv'
<1>0. /\ call[d].at = "prune" /\ UNCHANGED <<clock, locks, rows, host>> /\ CallOK(d)
      /\ call \in [Dispatches -> Call]
  BY Zenon DEF pruneExpiredUniqueLocks, ClaimInv, TypeInv
<1>1. CASE At(d, FirstKey)
  <2>1. /\ call'[d].at = "legacy" /\ call'[d].now = call[d].now /\ tx' = tx
        /\ \A e \in Dispatches \ {d} : call'[e] = call[e]
    BY <1>0, <1>1, Zenon DEF At, FirstKey, Call
  <2>2. Claim(d)' = Claim(d)
    BY <2>1, Zenon DEF Claim
  <2>3. ASSUME NEW k \in DOMAIN tx[d] PROVE TxOK(d, k) /\ TxOK(d, k)'
    BY <1>0, <2>1, <2>2, Zenon DEF CallOK, TxOK
  <2>4. CallOK(d)'
    BY <1>0, <2>1, <2>3, Zenon DEF CallOK, InTx, Results
  <2> QED
    BY <1>0, <2>1, <2>3, <2>4, Uncommitted, Zenon DEF TxOK
<1>2. ASSUME NEW k \in ToPrune(d), ~HeldByOther(d, k), Write(d, k, NoClaim), UNCHANGED call
      PROVE  ClaimInv'
  <2>1. k \in Keys /\ locks[k].exp <= call[d].now
    BY Zenon DEF ToPrune, Expired
  <2> QED
    BY <1>0, <1>2, <2>1, WriteClaims, ZenonT(60)
<1> QED
  BY <1>1, <1>2, Zenon DEF pruneExpiredUniqueLocks

\* Claiming one of the two keys of a job.
LEMMA AcquireClaims ==
  ASSUME TypeInv, TypeInv', ClaimInv, NEW d \in Dispatches, acquireUniqueKey(d)
  PROVE  ClaimInv'
<1> DEFINE k == UniqueKey(d)
<1>0. /\ call[d].at \in {"legacy", "canonical"} /\ ~HeldByOther(d, k)
      /\ UNCHANGED <<clock, locks, rows, host>> /\ CallOK(d)
      /\ call \in [Dispatches -> Call]
  BY Zenon DEF acquireUniqueKey, ClaimInv, TypeInv
<1>1. CASE Return(d, "duplicate")
  BY <1>0, <1>1, ReturnClaims, Zenon DEF Results
<1>2. CASE ~Return(d, "duplicate")
  <2>1. /\ Visible(d, k) = NoClaim \/ Visible(d, k).exp <= call[d].now
        /\ Write(d, k, Claim(d))
        /\ call' = [call EXCEPT ![d].at = IF @ = "legacy" THEN "canonical" ELSE "row"]
    BY <1>2, Zenon DEF acquireUniqueKey, Claim
  <2>2. /\ call'[d].at = (IF call[d].at = "legacy" THEN "canonical" ELSE "row")
        /\ call'[d].now = call[d].now
        /\ \A e \in Dispatches \ {d} : call'[e] = call[e]
    BY <1>0, <2>1, Zenon DEF Call
  <2>3. Identity[d] # "none"
    BY <1>0, Zenon DEF CallOK, InTx
  <2>4. /\ k = (IF call[d].at = "legacy" THEN legacyUniqueJobKey(d) ELSE uniqueJobKey(d))
        /\ k \in JobKeys(d) /\ k \in Keys /\ legacyUniqueJobKey(d) # uniqueJobKey(d)
    BY <2>3, KeysOfJobs, Zenon DEF UniqueKey
  <2>5. locks[k] = NoClaim \/ locks[k].exp <= call[d].now
    <3>1. CASE k \in DOMAIN tx[d]
      BY <1>0, <3>1, Zenon DEF CallOK, TxOK
    <3>2. CASE k \notin DOMAIN tx[d]
      BY <2>1, <3>2, Zenon DEF Visible
    <3> QED
      BY <3>1, <3>2, Zenon
  <2> HIDE DEF k
  <2> QED
    BY <1>0, <2>1, <2>2, <2>4, <2>5, WriteClaims, ZenonT(60)
<1> QED
  BY <1>1, <1>2, Zenon

\* The INSERT of a job without UniqueTTL touches no claim.
LEMMA InsertClaims ==
  ASSUME TypeInv, TypeInv', ClaimInv, NEW d \in Dispatches, NEW db \in DBResults, Insert(d, db)
  PROVE  ClaimInv'
<1>0. /\ call[d].at = "insert" /\ UNCHANGED <<clock, locks, host>> /\ CallOK(d)
      /\ call \in [Dispatches -> Call] /\ DOMAIN tx = Dispatches /\ DOMAIN rows = Dispatches
  BY Zenon DEF Insert, ClaimInv, TypeInv
<1>1. Identity[d] = "none" /\ DOMAIN tx[d] = {} /\ rows[d] = "none"
  BY <1>0, Zenon DEF CallOK, InTx, Results
<1>2. PICK r \in Results : Return(d, r)
  BY Zenon DEF Insert, Results
<1>3. /\ call'[d].at = r /\ call'[d].now = call[d].now /\ DOMAIN tx'[d] = {} /\ DOMAIN tx' = Dispatches
      /\ \A e \in Dispatches \ {d} : call'[e] = call[e] /\ tx'[e] = tx[e]
  BY <1>0, <1>2, Zenon DEF Return, NoTx, Call
<1>4. DOMAIN rows' = Dispatches /\ \A e \in Dispatches \ {d} : rows'[e] = rows[e]
  BY <1>0, Zenon DEF Insert
<1>5. ASSUME NEW e \in Dispatches PROVE Claim(e)' = Claim(e) /\ call'[e].now = call[e].now
  BY <1>3, Zenon DEF Claim
<1>6. ASSUME NEW e \in Dispatches PROVE CallOK(e)'
  <2>1. CASE e = d
    BY <1>0, <1>1, <1>3, <2>1, Zenon DEF CallOK, InTx, Results
  <2>2. CASE e # d
    <3>1. \A k \in DOMAIN tx[e] : \A f \in Dispatches \ {e} : k \notin DOMAIN tx'[f]
      BY <1>3, <2>2, Zenon DEF ClaimInv, CallOK, TxOK
    <3> QED
      BY <1>0, <1>3, <1>4, <2>2, <3>1, OtherCall, ZenonT(60)
  <2> QED
    BY <2>1, <2>2, Zenon
<1>7. ASSUME NEW e \in Dispatches PROVE JobOK(e)'
  <2>1. JobOK(e)
    BY Zenon DEF ClaimInv
  <2> QED
    BY <1>0, <1>1, <1>4, <1>5, <2>1, Zenon DEF JobOK, LiveJob, JobKeys, legacyUniqueJobKey, uniqueJobKey
<1>8. ASSUME NEW k \in Keys PROVE LockOK(k)'
  <2>1. LockOK(k)
    BY Zenon DEF ClaimInv
  <2> QED
    BY <1>0, <1>1, <1>4, <1>5, <2>1, Zenon DEF LockOK
<1>9. ASSUME NEW p \in Processes, host'[p].serving # "none" PROVE rows'[host'[p].serving] # "none"
  <2>1. host[p].serving \in Dispatches /\ rows[host[p].serving] # "none"
    BY <1>0, <1>9, Zenon DEF ClaimInv, TypeInv, HostInv, Host
  <2> QED
    BY <1>0, <1>1, <1>4, <2>1, Zenon
<1> QED
  BY <1>3, <1>4, <1>6, <1>7, <1>8, <1>9, ZenonT(60) DEF ClaimInv

\* The commit makes the job and its two claims visible together.
LEMMA CommitClaims ==
  ASSUME TypeInv, TypeInv', ClaimInv, NEW d \in Dispatches, NEW db \in DBResults, Commit(d, db)
  PROVE  ClaimInv'
<1>0. /\ call[d].at = "row" /\ UNCHANGED <<clock, host>> /\ CallOK(d) /\ Committed(d)
      /\ call \in [Dispatches -> Call] /\ DOMAIN tx = Dispatches /\ DOMAIN rows = Dispatches
  BY Zenon DEF Commit, ClaimInv, TypeInv
<1>n. clock \in Nat /\ TTL \in Nat /\ \A e \in Dispatches : call[e].now \in Nat
  BY BackendAssumption, Zenon DEF TypeInv, Call
<1>1. /\ Identity[d] # "none" /\ call[d].now <= clock
      /\ \A k \in JobKeys(d) : k \in DOMAIN tx[d] /\ tx[d][k] = Claim(d)
      /\ \A k \in DOMAIN tx[d] : TxOK(d, k)
  BY <1>0, Zenon DEF CallOK, InTx, JobKeys
<1>2. PICK r \in Results : Return(d, r)
  BY Zenon DEF Commit, Results
<1>3. /\ call'[d].at = r /\ call'[d].now = call[d].now /\ DOMAIN tx'[d] = {} /\ DOMAIN tx' = Dispatches
      /\ \A e \in Dispatches \ {d} : call'[e] = call[e] /\ tx'[e] = tx[e]
  BY <1>0, <1>2, Zenon DEF Return, NoTx, Call
<1>4. /\ DOMAIN rows' = Dispatches /\ rows'[d] = "pending"
      /\ \A e \in Dispatches \ {d} : rows'[e] = rows[e]
      /\ \A k \in Keys : locks'[k] = IF k \in DOMAIN tx[d] THEN tx[d][k] ELSE locks[k]
  BY <1>0, Zenon DEF Committed, Visible
<1>5. ASSUME NEW e \in Dispatches PROVE Claim(e)' = Claim(e) /\ call'[e].now = call[e].now
  BY <1>3, Zenon DEF Claim
<1>6. ASSUME NEW e \in Dispatches PROVE CallOK(e)'
  <2>1. CASE e = d
    BY <1>0, <1>1, <1>3, <2>1, Zenon DEF CallOK, InTx, Results
  <2>2. CASE e # d
    <3>1. ASSUME NEW k \in DOMAIN tx[e]
          PROVE  locks'[k] = locks[k] /\ \A f \in Dispatches \ {e} : k \notin DOMAIN tx'[f]
      <4>1. TxOK(e, k)
        BY Zenon DEF ClaimInv, CallOK
      <4> QED
        BY <1>3, <1>4, <2>2, <4>1, Zenon DEF TxOK
    <3> QED
      BY <1>0, <1>3, <1>4, <2>2, <3>1, OtherCall, ZenonT(60)
  <2> QED
    BY <2>1, <2>2, Zenon
<1>7. ASSUME NEW e \in Dispatches PROVE JobOK(e)'
  <2>1. CASE e = d
    <3>1. \A k \in JobKeys(d) : locks'[k] = Claim(d)
      BY <1>1, <1>4, KeysOfJobs, Zenon
    <3> QED
      BY <1>5, <2>1, <3>1, Zenon DEF JobOK, JobKeys, legacyUniqueJobKey, uniqueJobKey
  <2>2. CASE e # d
    <3> SUFFICES ASSUME LiveJob(e)', NEW k \in JobKeys(e) PROVE (locks[k] = Claim(e))'
      BY Zenon DEF JobOK, JobKeys, legacyUniqueJobKey, uniqueJobKey
    <3>1. LiveJob(e) /\ clock < call[e].now + TTL /\ Identity[e] # "none"
      BY <1>0, <1>4, <1>5, <2>2, Zenon DEF LiveJob
    <3>2. locks[k] = Claim(e) /\ k \in Keys
      BY <3>1, KeysOfJobs, Zenon DEF ClaimInv, JobOK
    <3>3. locks[k].exp > clock
      BY <1>n, <3>1, <3>2 DEF Claim
    <3>4. k \notin DOMAIN tx[d]
      <4> SUFFICES ASSUME k \in DOMAIN tx[d] PROVE FALSE
        BY Zenon
      <4>1. locks[k] = NoClaim \/ locks[k].exp <= call[d].now
        BY <1>1, Zenon DEF TxOK
      <4>2. locks[k].exp \in Nat
        BY <1>n, <3>2 DEF Claim
      <4> QED
        BY <1>1, <1>n, <3>3, <4>1, <4>2, SMTT(30) DEF NoClaim
    <3>5. locks'[k] = locks[k]
      BY <1>4, <3>2, <3>4, Zenon
    <3> QED
      BY <1>5, <3>2, <3>5, Zenon
  <2> QED
    BY <2>1, <2>2, Zenon
<1>8. ASSUME NEW k \in Keys PROVE LockOK(k)'
  <2>1. LockOK(k)
    BY Zenon DEF ClaimInv
  <2>2. CASE k \notin DOMAIN tx[d]
    BY <1>4, <1>5, <2>1, <2>2, Zenon DEF LockOK
  <2>3. CASE k \in DOMAIN tx[d] /\ tx[d][k] = NoClaim
    BY <1>4, <2>3, BackendAssumption DEF LockOK, LockRow, NoClaim
  <2>4. CASE k \in DOMAIN tx[d] /\ tx[d][k] # NoClaim
    <3>1. locks'[k] = Claim(d) /\ k \in JobKeys(d)
      BY <1>1, <1>4, <2>4, Zenon DEF TxOK
    <3>2. locks'[k] \in LockRow /\ locks'[k].by = d
      BY <1>n, <3>1 DEF Claim, LockRow
    <3> QED
      BY <1>1, <1>4, <1>5, <3>1, <3>2, BackendAssumption, ZenonT(60) DEF LockOK
  <2> QED
    BY <2>2, <2>3, <2>4, Zenon
<1>9. ASSUME NEW p \in Processes, host'[p].serving # "none" PROVE rows'[host'[p].serving] # "none"
  <2>1. host[p].serving \in Dispatches /\ rows[host[p].serving] # "none"
    BY <1>0, <1>9, Zenon DEF ClaimInv, TypeInv, HostInv, Host
  <2> QED
    BY <1>0, <1>4, <2>1, Zenon
<1> QED
  BY <1>3, <1>4, <1>6, <1>7, <1>8, <1>9, ZenonT(60) DEF ClaimInv

\* A worker takes queued jobs only, and what it runs stays in the table.
LEMMA WorkerClaims ==
  ASSUME TypeInv, TypeInv', ClaimInv, NEW p \in Processes, workerLoop(p)
  PROVE  ClaimInv'
<1>0. /\ UNCHANGED <<clock, locks, tx, call>> /\ DOMAIN rows = Dispatches /\ HostInv
      /\ host[p].serving \in Dispatches \cup {"none"}
  BY Zenon DEF workerLoop, ClaimInv, TypeInv, HostInv, Host
<1>1. DOMAIN rows' = Dispatches /\ \A e \in Dispatches : rows'[e] = "none" <=> rows[e] = "none"
  <2>1. host[p].serving # "none" => rows[host[p].serving] # "none"
    BY Zenon DEF ClaimInv
  <2>2. CASE rows' = rows
    BY <1>0, <2>2, Zenon
  <2>3. ASSUME NEW j \in Dispatches, rows[j] = "pending", rows' = [rows EXCEPT ![j] = "running"]
        PROVE  DOMAIN rows' = Dispatches /\ \A e \in Dispatches : rows'[e] = "none" <=> rows[e] = "none"
    BY <1>0, <2>3, Zenon
  <2>4. CASE rows' = [rows EXCEPT ![host[p].serving] = "done"]
    BY <1>0, <2>1, <2>4, BackendAssumption, Zenon
  <2> QED
    BY <2>2, <2>3, <2>4, Zenon DEF workerLoop
<1>2. PICK j \in Dispatches \cup {"none"}, w \in {"top", "processJob", "exited"} :
        host' = Worker(p, w, j) /\ (j # "none" => rows[j] # "none")
  BY Zenon DEF workerLoop
<1>3. host'[p].serving = j /\ \A q \in Processes \ {p} : host'[q] = host[q]
  BY <1>0, <1>2 DEF Worker, HostInv, Host
<1>4. ASSUME NEW q \in Processes, host'[q].serving # "none" PROVE rows'[host'[q].serving] # "none"
  <2>1. host'[q].serving \in Dispatches
    BY <1>4, ZenonT(60) DEF TypeInv, HostInv, Host
  <2>2. rows[host'[q].serving] # "none"
    BY <1>2, <1>3, <1>4, Zenon DEF ClaimInv
  <2> QED
    BY <1>1, <2>1, <2>2, Zenon
<1>5. ASSUME NEW e \in Dispatches PROVE CallOK(e)' /\ JobOK(e)'
  <2>1. CallOK(e) /\ JobOK(e) /\ Claim(e)' = Claim(e)
    BY <1>0, Zenon DEF ClaimInv, Claim
  <2>2. ASSUME NEW k \in DOMAIN tx[e] PROVE TxOK(e, k)'
    BY <1>0, <2>1, Zenon DEF CallOK, TxOK
  <2>3. CallOK(e)'
    BY <1>0, <1>1, <2>1, <2>2, Zenon DEF CallOK, InTx, legacyUniqueJobKey, uniqueJobKey
  <2>4. JobOK(e)'
    BY <1>0, <1>1, <2>1, Zenon DEF JobOK, LiveJob, JobKeys, legacyUniqueJobKey, uniqueJobKey
  <2> QED
    BY <2>3, <2>4, Zenon
<1>6. ASSUME NEW k \in Keys PROVE LockOK(k)'
  <2>1. LockOK(k) /\ \A e \in Dispatches : Claim(e)' = Claim(e)
    BY <1>0, Zenon DEF ClaimInv, Claim
  <2> QED
    BY <1>0, <1>1, <2>1, Zenon DEF LockOK
<1> QED
  BY <1>0, <1>1, <1>4, <1>5, <1>6, Zenon DEF ClaimInv

-----------------------------------------------------------------------------

\* Every step leaves the claims, the transactions and the jobs in agreement.
LEMMA ClaimStep ==
  ASSUME TypeInv, TypeInv', DrainInv, ClaimInv, [Next]_vars
  PROVE  ClaimInv'
<1>0. HostInv /\ call \in [Dispatches -> Call]
  BY Zenon DEF TypeInv
<1>1. CASE UNCHANGED vars \/ Tick
  <2>1. /\ UNCHANGED <<locks, rows, tx, call, host>> /\ clock' \in {clock, clock + 1}
    BY <1>1, Zenon DEF vars, Tick
  <2>2. LocksPruned /\ \A d \in Dispatches : Moves(d)
    BY <2>1, Zenon DEF LocksPruned, Moves
  <2> QED
    BY <2>1, <2>2, ClaimFrame, Zenon
<1>2. ASSUME NEW p \in Processes, NEW t \in Starters(p), NEW db \in DBResults,
             StartRuntime(p) \/ StartWorkers(p, t) \/ Go(p) \/ Migrates(p, db)
      PROVE  ClaimInv'
  <2>1. UNCHANGED <<clock, rows, tx>> /\ (UNCHANGED locks \/ PruneAtStart(p, db))
    BY <1>2, Zenon DEF StartRuntime, StartWorkers, Go, Migrates, CreateTables, requireManagedQueueSchema,
                PruneAtStart, CheckColumn, AlterTable, RecheckColumn, dataVars
  <2>2. LocksPruned
    BY <2>1, Zenon DEF LocksPruned, PruneAtStart, Expired
  <2>3. /\ \A d \in Dispatches : Moves(d)
        /\ \A q \in Processes : host'[q].serving = host[q].serving
    BY <1>2, StartMoves, Zenon
  <2> QED
    BY <2>1, <2>2, <2>3, ClaimFrame, Zenon
<1>3. ASSUME NEW p \in Processes, Stops(p)
      PROVE  ClaimInv'
  <2>1. UNCHANGED <<clock, rows, tx, locks, call>>
    BY <1>3, Zenon DEF Stops, dataVars
  <2>2. \A q \in Processes : host'[q].serving = host[q].serving
    BY <1>0, <1>3, StopsChange, Zenon DEF ChangesRestOf, SameWork, HostInv
  <2>3. LocksPruned /\ \A d \in Dispatches : Moves(d)
    BY <2>1, Zenon DEF LocksPruned, Moves
  <2> QED
    BY <2>1, <2>2, <2>3, ClaimFrame, Zenon
<1>4. ASSUME NEW p \in Processes, workerLoop(p)
      PROVE  ClaimInv'
  BY <1>4, WorkerClaims, Zenon
<1>5. ASSUME NEW d \in Dispatches, NEW j \in Dispatches \cup {"none"},
             acquireOperation(d, j) \/ Submits(d)
      PROVE  ClaimInv'
  <2>0. \A q \in Processes : host'[q].serving = host[q].serving
    BY <1>0, <1>5, DispatchChanges, BackendAssumption, ZenonT(60) DEF ChangesRestOf, SameWork, HostInv
  <2>1. CASE acquireOperation(d, j) \/ Dispatch(d)
    <3>1. UNCHANGED <<clock, locks, rows, tx>>
      BY <2>1, Zenon DEF acquireOperation, Dispatch, At, dataVars
    <3>2. \A e \in Dispatches : Moves(e)
      <4>1. CASE acquireOperation(d, j)
        BY <1>0, <4>1 DEF acquireOperation, Moves, Waiting, Call
      <4>2. CASE Dispatch(d)
        BY <1>0, <4>2 DEF Dispatch, At, Moves, Waiting, Call
      <4> QED
        BY <2>1, <4>1, <4>2, Zenon
    <3>3. LocksPruned
      BY <3>1, Zenon DEF LocksPruned
    <3> QED
      BY <2>0, <3>1, <3>2, <3>3, ClaimFrame, Zenon
  <2>2. CASE Rollback(d)
    <3>1. Return(d, "error") /\ UNCHANGED <<clock, locks, rows, host>>
      BY <2>2, Zenon DEF Rollback
    <3> QED
      BY <3>1, ReturnClaims, Zenon DEF Results
  <2>3. CASE databaseNowMillis(d)
    BY <2>0, <2>3, TimeClaims, Zenon
  <2>4. CASE pruneExpiredUniqueLocks(d) \/ acquireUniqueKey(d)
    BY <2>4, PruneClaims, AcquireClaims, Zenon
  <2>5. CASE \E db \in DBResults : Insert(d, db) \/ Commit(d, db)
    BY <2>5, InsertClaims, CommitClaims, Zenon
  <2> QED
    BY <1>5, <2>1, <2>2, <2>3, <2>4, <2>5, ZenonT(60) DEF Submits
<1> QED
  <2>1. \A p \in Processes : "runtime" \in Starters(p)
    BY Zenon DEF Starters
  <2>2. "ok" \in DBResults
    BY Zenon DEF DBResults
  <2> QED
    BY <1>1, <1>2, <1>3, <1>4, <1>5, <2>1, <2>2, ZenonT(60) DEF Next

\* One job at a time holds an identity, and no claim that still refuses jobs
\* belongs to a job that was never queued: acquireUnique, pruneExpiredUniqueLocks,
\* the prune at a start, rollbacks, deadlocks and ambiguous commits together.
THEOREM UniqueClaimsAreTruthful == Spec => []ClaimsTruthful
<1>1. Init => TypeInv /\ DrainInv /\ ClaimInv
  BY TypeInit, DrainInit, ClaimInit, Zenon
<1>2. TypeInv /\ DrainInv /\ ClaimInv /\ [Next]_vars => (TypeInv /\ DrainInv /\ ClaimInv)'
  BY TypeStep, DrainStep, ClaimStep, Zenon
<1>3. TypeInv /\ ClaimInv => ClaimsTruthful
  BY ClaimsFollow, Zenon
<1> QED
  BY <1>1, <1>2, <1>3, PTL DEF Spec

=============================================================================
