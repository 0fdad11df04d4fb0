------------------------- MODULE QueueRuntimeProofs -------------------------
(***************************************************************************)
(* Safety of the native runtime over the in-memory backend, for any number *)
(* of jobs, workers, starters and stoppers.  The whole argument turns on   *)
(* one equation: the counter a drain waits on is the number of jobs of the *)
(* work tree.  Once a drain has begun only a running handler can add to    *)
(* that tree, so a counter that has come down to zero stays there.         *)
(***************************************************************************)
EXTENDS QueueRuntime, FiniteSetTheorems, TLAPS

JobRecord == [call: Calls, work: Works, caller: 0..N, permits: SUBSET Jobs,
              attempt: Nat, accepted: BOOLEAN]

\* The work tree: jobs with a reservation that has not been given back.
Underway == {"buffered", "taken", "running", "waiting", "ending"}
InTree(r) == r.call \in {"reserved", "timer", "send", "overflow"} \/ r.work \in Underway
WorkTree == {j \in Jobs : InTree(job[j])}

\* How far the submitter and the execution of one job can be apart.
Entered == {"record", "returned"}
Before == {"none", "called", "claimed", "rejected"}
Shape(j, r) ==
  /\ r.call \notin {"record", "returned", "inline"} => r.work = "none"
  /\ r.call = "inline" => r.work \in {"running", "waiting", "ending"}
  /\ r.call \in Entered => r.work # "none"
  /\ r.call = "record" /\ j \notin Delayed => r.work \in {"buffered", "taken"}
  /\ r.call = "timer" => j \in Delayed
  /\ r.call \in Before => ~r.accepted
  /\ r.call \in {"reserved", "send", "record"} /\ j \notin Delayed => ~r.accepted
  /\ r.call \in {"reserved", "send", "record"} /\ j \in Delayed => r.accepted
  /\ r.call \in {"timer", "overflow", "inline", "returned", "dropped"} => r.accepted

JobsOK ==
  /\ job \in [Jobs -> JobRecord]
  /\ \A j \in Jobs : Shape(j, job[j])
  /\ \A j, p \in Jobs : p \in job[j].permits => job[p].work = "running"

\* The channel holds each job once; a worker serves only what came through it.
ChannelOK ==
  /\ buffer \in Seq(Jobs) /\ serving \in [Workers -> 0..N]
  /\ \A i \in 1..Len(buffer) : job[buffer[i]].work = "buffered" /\ job[buffer[i]].call \in Entered
  /\ \A i, k \in 1..Len(buffer) : i # k => buffer[i] # buffer[k]
  /\ \A w \in Workers : serving[w] # 0 => job[serving[w]].call \in Entered

TreeOK == workPending = Cardinality(WorkTree)

PoolOK ==
  /\ driver \in {"sync", "workerpool"} /\ workQueue \in {"none", "open", "closed"}
  /\ workGen \in Nat /\ opGen \in Nat /\ leases \subseteq Jobs
  /\ shutdown \in Stoppers \cup {"none"}
  /\ leases # {} => opGen # 0
  /\ driver = "sync" => workQueue = "none"
  /\ workQueue = "none" => alive = {}
  /\ workQueue = "closed" => shuttingDown /\ workPending = 0

\* What a Shutdown call knows at each of its stations.
StopOK(s) ==
  /\ stopper[s].at \in {"operations", "quiesce", "quiesceWait", "workers", "operations2"} =>
       (draining \/ closed) /\ start = "none"
  /\ stopper[s].at \in {"quiesce", "quiesceWait", "workers", "operations2"} => shuttingDown
  /\ stopper[s].at = "quiesceWait" => stopper[s].seen = workGen
  /\ stopper[s].at \in {"workers", "operations2"} => workPending = 0
  /\ stopper[s].at = "operations2" =>
       /\ alive = {}
       /\ stopper[s].seen = 0 => leases = {}
       /\ stopper[s].seen # 0 => stopper[s].seen = opGen
  /\ stopper[s].at = "ok" => closed
  /\ stopper[s].at = "sharing" => stopper[s].owner # "none"

StationRecord == [at: StopperAt, seen: Nat, owner: Stoppers \cup {"none"}]
StoppersTyped == stopper \in [Stoppers -> StationRecord]
ClosedOK ==
  closed => /\ shuttingDown /\ workPending = 0 /\ alive = {}
            /\ leases = {} /\ start = "none"
StartersOK ==
  starter \in [Starters -> StarterAt] /\ \A c \in Starters : starter[c] # "idle" => start = c
ServedOK == (start # "none" \/ started) /\ ~draining /\ registered => handlers
LeasesOK == \A j \in Jobs : Calling(j) => j \in leases
LifeOK == StoppersTyped /\ ClosedOK /\ StartersOK /\ ServedOK /\ LeasesOK

TreeInv == JobsOK /\ ChannelOK /\ TreeOK
Inv == TreeInv /\ PoolOK /\ LifeOK /\ \A s \in Stoppers : StopOK(s)

-----------------------------------------------------------------------------
(* The work tree.                                                          *)

\* The tree is finite, so its size tells whether it is empty.
LEMMA TreeFinite ==
  ASSUME NEW S, S \subseteq Jobs
  PROVE  IsFiniteSet(S) /\ Cardinality(S) \in Nat /\ (Cardinality(S) = 0 <=> S = {})
<1>1. IsFiniteSet(Jobs)
  BY LocalAssumption, FS_Interval DEF Jobs
<1>2. IsFiniteSet(S)
  BY <1>1, FS_Subset, Zenon
<1> QED BY <1>2, FS_CardinalityType, FS_EmptySet, Zenon

\* An empty tree has no running handler, so nobody holds a permit.
LEMMA EmptyTree ==
  ASSUME TreeInv, workPending = 0
  PROVE  \A j \in Jobs : ~InTree(job[j]) /\ job[j].permits = {} /\ job[j].work \in {"none", "finished"}
<1>1. WorkTree = {}
  BY TreeFinite, Zenon DEF TreeInv, TreeOK, WorkTree
<1>2. \A j \in Jobs : ~InTree(job[j])
  BY <1>1, Zenon DEF WorkTree
<1>3. \A j \in Jobs : job[j].permits \subseteq Jobs /\ job[j].work \in Works
  BY Zenon DEF TreeInv, JobsOK, JobRecord
<1>4. \A j \in Jobs : job[j].work \in {"none", "finished"}
  BY <1>2, <1>3, Zenon DEF InTree, Underway, Works
<1>5. \A j \in Jobs : job[j].permits = {}
  BY <1>3, <1>4, Zenon DEF TreeInv, JobsOK
<1> QED BY <1>2, <1>4, <1>5, Zenon

\* Only the tree membership of j changes.
LEMMA TreeChange ==
  ASSUME TreeInv, NEW j \in Jobs,
         \A k \in Jobs \ {j} : job'[k].call = job[k].call /\ job'[k].work = job[k].work
  PROVE  /\ workPending \in Nat
         /\ (InTree(job'[j]) <=> InTree(job[j])) /\ workPending' = workPending => TreeOK'
         /\ InTree(job'[j]) /\ ~InTree(job[j]) /\ workPending' = workPending + 1 => TreeOK'
         /\ ~InTree(job'[j]) /\ InTree(job[j]) /\ workPending' = workPending - 1 => TreeOK'
<1> DEFINE W == WorkTree
           V == {k \in Jobs : InTree(job'[k])}
<1>0. WorkTree' = V /\ W \subseteq Jobs /\ workPending = Cardinality(W)
  BY Zenon DEF WorkTree, TreeInv, TreeOK, InTree
<1>1. IsFiniteSet(W) /\ Cardinality(W) \in Nat
  BY <1>0, TreeFinite, Zenon
<1>2. \A k \in Jobs \ {j} : InTree(job'[k]) <=> InTree(job[k])
  BY Zenon DEF InTree
<1>3. ASSUME InTree(job'[j]) <=> InTree(job[j]) PROVE V = W
  BY <1>2, <1>3, Zenon DEF WorkTree
<1>4. ASSUME InTree(job'[j]), ~InTree(job[j]) PROVE Cardinality(V) = Cardinality(W) + 1
  <2>1. V = W \cup {j} /\ j \notin W
    BY <1>2, <1>4, Zenon DEF WorkTree
  <2> HIDE DEF V, W
  <2> QED BY <2>1, <1>1, FS_AddElement, Zenon
<1>5. ASSUME ~InTree(job'[j]), InTree(job[j]) PROVE Cardinality(V) = Cardinality(W) - 1
  <2>1. V = W \ {j} /\ j \in W
    BY <1>2, <1>5, Zenon DEF WorkTree
  <2> HIDE DEF V, W
  <2> QED BY <2>1, <1>1, FS_RemoveElement, Zenon
<1> HIDE DEF V, W
<1>6. TreeOK' <=> workPending' = Cardinality(V)
  BY <1>0, Zenon DEF TreeOK
<1> QED BY <1>0, <1>1, <1>3, <1>4, <1>5, <1>6, Zenon
-----------------------------------------------------------------------------
(* Changing one job.                                                       *)

Called(r, c) == [r EXCEPT !.call = c]
Worked(r, w) == [r EXCEPT !.work = w]

\* The fields after each of the three updates the operations are made of.
LEMMA CalledFields ==
  ASSUME NEW r \in JobRecord, NEW c \in Calls
  PROVE  /\ Called(r, c) \in JobRecord /\ Called(r, c).call = c
         /\ Called(r, c).work = r.work /\ Called(r, c).permits = r.permits
         /\ Called(r, c).accepted <=> r.accepted
<1>1. /\ Called(r, c) \in JobRecord /\ Called(r, c).call = c
      /\ Called(r, c).work = r.work /\ Called(r, c).permits = r.permits
  BY Zenon DEF Called, JobRecord
<1>2. Called(r, c).accepted <=> r.accepted
  BY Zenon DEF Called, JobRecord
<1> QED BY <1>1, <1>2, Zenon

\* A record whose handler side alone moved on keeps its other fields.
LEMMA WorkedFields ==
  ASSUME NEW r \in JobRecord, NEW w \in Works
  PROVE  /\ Worked(r, w) \in JobRecord /\ Worked(r, w).work = w
         /\ Worked(r, w).call = r.call /\ Worked(r, w).permits = r.permits
         /\ Worked(r, w).accepted <=> r.accepted
<1>1. /\ Worked(r, w) \in JobRecord /\ Worked(r, w).work = w
      /\ Worked(r, w).call = r.call /\ Worked(r, w).permits = r.permits
  BY Zenon DEF Worked, JobRecord
<1>2. Worked(r, w).accepted <=> r.accepted
  BY Zenon DEF Worked, JobRecord
<1> QED BY <1>1, <1>2, Zenon

\* markAccepted sets the acceptance and nothing else of the record.
LEMMA AcceptedFields ==
  ASSUME NEW r \in JobRecord
  PROVE  /\ markAccepted(r) \in JobRecord /\ markAccepted(r).call = r.call
         /\ markAccepted(r).work = r.work /\ markAccepted(r).permits = r.permits
         /\ markAccepted(r).accepted
<1>1. /\ markAccepted(r) \in JobRecord /\ markAccepted(r).call = r.call
      /\ markAccepted(r).work = r.work /\ markAccepted(r).permits = r.permits
  BY Zenon DEF markAccepted, JobRecord
<1>2. markAccepted(r).accepted
  BY Zenon DEF markAccepted, JobRecord
<1> QED BY <1>1, <1>2, Zenon

\* A job's record can be replaced when the new one has a possible shape, keeps
\* its permits and does not end a running handler.
LEMMA OneJob ==
  ASSUME TreeInv, NEW j \in Jobs, NEW r \in JobRecord, job' = [job EXCEPT ![j] = r],
         Shape(j, r), r.permits = job[j].permits, job[j].work = "running" => r.work = "running"
  PROVE  JobsOK' /\ job'[j] = r /\ (\A k \in Jobs \ {j} : job'[k] = job[k])
<1>1. job'[j] = r /\ (\A k \in Jobs \ {j} : job'[k] = job[k]) /\ job' \in [Jobs -> JobRecord]
  BY Zenon DEF TreeInv, JobsOK
<1>2. \A k \in Jobs : Shape(k, job'[k])
  BY <1>1, Zenon DEF TreeInv, JobsOK
<1>3. \A k \in Jobs : job'[k].permits = job[k].permits /\ (job[k].work = "running" => job'[k].work = "running")
  BY <1>1, Zenon
<1>4. \A k, p \in Jobs : p \in job'[k].permits => job'[p].work = "running"
  BY <1>3, Zenon DEF TreeInv, JobsOK
<1> QED BY <1>1, <1>2, <1>4, Zenon DEF JobsOK

\* A step that leaves the channel alone keeps what came through it.
LEMMA ChannelKept ==
  ASSUME TreeInv, buffer' = buffer,
         \A w \in Workers : serving'[w] = serving[w] \/ serving'[w] = 0,
         serving' \in [Workers -> 0..N],
         \A k \in Jobs : /\ job[k].call \in Entered => job'[k].call \in Entered
                         /\ job[k].work = "buffered" => job'[k].work = "buffered"
  PROVE  ChannelOK'
<1>1. \A i \in 1..Len(buffer) : buffer[i] \in Jobs
  BY DEF TreeInv, ChannelOK
<1>2. \A w \in Workers : serving[w] # 0 => serving[w] \in Jobs
  BY LocalAssumption DEF TreeInv, ChannelOK, Jobs
<1> QED BY <1>1, <1>2, Zenon DEF TreeInv, ChannelOK

\* A job that enters the channel was not in it.
LEMMA ChannelEntered ==
  ASSUME TreeInv, NEW j \in Jobs, buffer' = Append(buffer, j), serving' = serving,
         job[j].work = "none", job'[j].work = "buffered", job'[j].call \in Entered,
         \A k \in Jobs \ {j} : job'[k] = job[k]
  PROVE  ChannelOK'
<1>1. /\ buffer' \in Seq(Jobs) /\ Len(buffer') = Len(buffer) + 1 /\ Len(buffer) \in Nat
      /\ buffer'[Len(buffer) + 1] = j /\ \A i \in 1..Len(buffer) : buffer'[i] = buffer[i]
  BY DEF TreeInv, ChannelOK
<1>2. \A i \in 1..Len(buffer) : buffer[i] \in Jobs /\ buffer[i] # j
  BY DEF TreeInv, ChannelOK
<1>3. \A i \in 1..Len(buffer') : i \in 1..Len(buffer) \/ i = Len(buffer) + 1
  BY <1>1
<1>4. \A i \in 1..Len(buffer') : job'[buffer'[i]].work = "buffered" /\ job'[buffer'[i]].call \in Entered
  BY <1>1, <1>2, <1>3 DEF TreeInv, ChannelOK
<1>5. \A i, k \in 1..Len(buffer') : i # k => buffer'[i] # buffer'[k]
  BY <1>1, <1>2, <1>3 DEF TreeInv, ChannelOK
<1>6. \A w \in Workers : serving[w] # 0 => serving[w] \in Jobs
  BY LocalAssumption DEF TreeInv, ChannelOK, Jobs
<1>7. \A w \in Workers : serving'[w] # 0 => job'[serving'[w]].call \in Entered
  BY <1>6, Zenon DEF TreeInv, ChannelOK
<1> QED BY <1>1, <1>4, <1>5, <1>7, Zenon DEF TreeInv, ChannelOK

\* The oldest job leaves the channel for a worker.
LEMMA ChannelLeft ==
  ASSUME TreeInv, NEW w \in Workers, buffer # <<>>, buffer' = Tail(buffer),
         serving' = [serving EXCEPT ![w] = Head(buffer)], job'[Head(buffer)].call = job[Head(buffer)].call,
         \A k \in Jobs \ {Head(buffer)} : job'[k] = job[k]
  PROVE  ChannelOK' /\ Head(buffer) \in Jobs /\ job[Head(buffer)].work = "buffered"
         /\ job[Head(buffer)].call \in Entered
<1>1. /\ buffer' \in Seq(Jobs) /\ Len(buffer) \in Nat \ {0} /\ Len(buffer') = Len(buffer) - 1
      /\ Head(buffer) = buffer[1] /\ \A i \in 1..Len(buffer') : buffer'[i] = buffer[i + 1]
  BY DEF TreeInv, ChannelOK
<1>2. Head(buffer) \in Jobs /\ job[Head(buffer)].work = "buffered" /\ job[Head(buffer)].call \in Entered
  BY <1>1 DEF TreeInv, ChannelOK
<1>3. \A i \in 1..Len(buffer') : i + 1 \in 1..Len(buffer) /\ buffer[i + 1] \in Jobs \ {Head(buffer)}
  BY <1>1 DEF TreeInv, ChannelOK
<1>4. \A i \in 1..Len(buffer') : job'[buffer'[i]].work = "buffered" /\ job'[buffer'[i]].call \in Entered
  BY <1>1, <1>3 DEF TreeInv, ChannelOK
<1>5. \A i, k \in 1..Len(buffer') : i # k => buffer'[i] # buffer'[k]
  BY <1>1, <1>3 DEF TreeInv, ChannelOK
<1>6. \A v \in Workers : serving[v] # 0 => serving[v] \in Jobs
  BY LocalAssumption DEF TreeInv, ChannelOK, Jobs
<1>7. serving' \in [Workers -> 0..N]
  BY <1>2, LocalAssumption DEF TreeInv, ChannelOK, Jobs
<1>8. \A v \in Workers : serving'[v] # 0 => job'[serving'[v]].call \in Entered
  BY <1>2, <1>6, Zenon DEF TreeInv, ChannelOK
<1> QED BY <1>1, <1>2, <1>4, <1>5, <1>7, <1>8, Zenon DEF ChannelOK

\* How the counter follows the tree membership of one job.
Counted(old, new) ==
  \/ (InTree(new) <=> InTree(old)) /\ workPending' = workPending
  \/ InTree(new) /\ ~InTree(old) /\ workPending' = workPending + 1
  \/ ~InTree(new) /\ InTree(old) /\ workPending' = workPending - 1

\* What the rest of the runtime sees of a step of the backend: with its gate
\* closed and its counter at zero, the backend can do nothing any more.
Effect ==
  /\ UNCHANGED <<driver, handlers, shuttingDown>>
  /\ workGen' \in Nat
  /\ shuttingDown => workGen' = workGen
  /\ shuttingDown /\ workPending = 0 => workPending' = 0
  /\ \/ workQueue' = workQueue /\ alive' \subseteq alive
     \/ driver = "workerpool" /\ workQueue = "none" /\ workQueue' = "open" /\ ~shuttingDown
  /\ \A k \in Jobs : Calling(k)' => Calling(k)

\* What a step leaves to the reservation, the only one that needs an open gate.
GateOpenFor(j) == ~shuttingDown \/ Owns(j)
Reserves(j) == workPending = 0 /\ workGen' = workGen + 1 /\ GateOpenFor(j)
PoolKept == workQueue' = workQueue /\ alive' \subseteq alive
PoolStarted == driver = "workerpool" /\ workQueue = "none" /\ workQueue' = "open" /\ ~shuttingDown

\* No call goes back to a place where its caller waits for it.
Forward(j, old, new) ==
  /\ new \in {"called", "claimed"} => old \in {"called", "claimed"}
  /\ new \in {"reserved", "send", "record", "inline"} /\ j \notin Delayed =>
       old \in {"called", "claimed", "reserved", "send", "record", "inline"}

\* A step that changes only job j has no effect but these.
LEMMA EffectOfUpdate ==
  ASSUME TreeInv, PoolOK, NEW j \in Jobs, \A k \in Jobs \ {j} : job'[k].call = job[k].call,
         Forward(j, job[j].call, job'[j].call), Counted(job[j], job'[j]),
         InTree(job'[j]) => InTree(job[j]) \/ GateOpenFor(j),
         UNCHANGED <<driver, handlers, shuttingDown>>,
         workGen' = workGen \/ Reserves(j), PoolKept \/ PoolStarted
  PROVE  Effect
<1>1. workPending = 0 => ~InTree(job[j]) /\ ~Owns(j)
  BY EmptyTree, Zenon DEF Owns
<1>2. shuttingDown /\ workPending = 0 => workPending' = 0
  BY <1>1, Zenon DEF Counted, GateOpenFor
<1>3. workGen' \in Nat /\ (shuttingDown => workGen' = workGen)
  BY <1>1 DEF PoolOK, Reserves, GateOpenFor
<1>4. \A k \in Jobs : Calling(k)' => Calling(k)
  BY Zenon DEF Calling, Forward
<1> QED BY <1>2, <1>3, <1>4, Zenon DEF Effect, PoolKept, PoolStarted

\* A step of one job that leaves the channel alone.
LEMMA Move ==
  ASSUME TreeInv, PoolOK, NEW j \in Jobs, NEW r \in JobRecord, job' = [job EXCEPT ![j] = r],
         Shape(j, r), r.permits = job[j].permits, job[j].work = "running" => r.work = "running",
         job[j].call \in Entered => r.call \in Entered, job[j].work = "buffered" => r.work = "buffered",
         buffer' = buffer, serving' \in [Workers -> 0..N],
         \A w \in Workers : serving'[w] = serving[w] \/ serving'[w] = 0,
         Forward(j, job[j].call, r.call), Counted(job[j], r),
         InTree(r) => InTree(job[j]) \/ GateOpenFor(j),
         UNCHANGED <<driver, handlers, shuttingDown>>,
         workGen' = workGen \/ Reserves(j), PoolKept \/ PoolStarted
  PROVE  TreeInv' /\ Effect
<1>1. JobsOK' /\ job'[j] = r /\ (\A k \in Jobs \ {j} : job'[k] = job[k])
  BY OneJob, Zenon
<1>2. ChannelOK'
  BY <1>1, ChannelKept, Zenon
<1>3. TreeOK'
  BY <1>1, TreeChange, Zenon DEF Counted
<1>4. Effect
  BY <1>1, EffectOfUpdate, Zenon
<1> QED BY <1>1, <1>2, <1>3, <1>4, Zenon DEF TreeInv

\* A job's record has the type, the shape and the tree of its two places.
LEMMA JobFacts ==
  ASSUME TreeInv, PoolOK, NEW j \in Jobs
  PROVE  /\ job[j] \in JobRecord /\ Shape(j, job[j]) /\ workPending \in Nat
         /\ serving \in [Workers -> 0..N]
<1>1. workPending \in Nat
  BY TreeFinite, Zenon DEF TreeInv, TreeOK, WorkTree
<1> QED BY <1>1, Zenon DEF TreeInv, JobsOK, ChannelOK

\* Dispatch, up to the reservation.
LEMMA DispatchStep ==
  ASSUME TreeInv, PoolOK, NEW j \in Jobs, Dispatch(j)
  PROVE  TreeInv' /\ Effect
<1> DEFINE c == IF (~shuttingDown \/ Owns(j)) /\ validateEnqueue /\ Acquires(j)
                THEN "claimed" ELSE "rejected"
           r == Called(job[j], c)
<1>0. c \in {"claimed", "rejected"} /\ c \in Calls
  BY Zenon DEF Calls
<1>1. job' = [job EXCEPT ![j] = r] /\ job[j].call = "called"
  BY Zenon DEF Dispatch, Called
<1>2. UNCHANGED <<driver, handlers, shuttingDown, workQueue, workGen, alive, workPending, buffer, serving>>
  BY Zenon DEF Dispatch
<1> HIDE DEF c
<1>3. /\ r \in JobRecord /\ r.call = c /\ r.work = job[j].work /\ r.permits = job[j].permits
      /\ r.accepted <=> job[j].accepted
  BY <1>0, JobFacts, CalledFields, Zenon
<1> HIDE DEF r
<1>4. Shape(j, r) /\ job[j].work = "none"
  BY <1>0, <1>1, <1>3, JobFacts, Zenon DEF Shape, Entered, Before
<1>5. Counted(job[j], r) /\ ~InTree(r) /\ Forward(j, job[j].call, r.call)
  BY <1>0, <1>1, <1>2, <1>3, <1>4, Zenon DEF Counted, InTree, Underway, Forward
<1> QED BY <1>1, <1>2, <1>3, <1>4, <1>5, JobFacts, Move, Zenon DEF Entered, PoolKept
\* The reservation, which alone can start the pool or a generation.
LEMMA ReserveStep ==
  ASSUME TreeInv, PoolOK, NEW j \in Jobs, Reserve(j)
  PROVE  TreeInv' /\ Effect
<1>0. job[j].call = "claimed" /\ UNCHANGED <<driver, handlers, shuttingDown, buffer, serving>>
  BY Zenon DEF Reserve
<1>1. job[j].work = "none" /\ ~job[j].accepted /\ ~InTree(job[j])
  BY <1>0, JobFacts, Zenon DEF Shape, Entered, Before, InTree, Underway
<1>2. CASE Reservable(j)
  <2> DEFINE c == IF driver = "sync" THEN "reserved" ELSE "send"
             r == IF j \in Delayed THEN markAccepted(Called(job[j], "timer")) ELSE Called(job[j], c)
  <2>1. c \in {"reserved", "send"} /\ c \in Calls /\ "timer" \in Calls
    BY Zenon DEF Calls
  <2>2. job' = [job EXCEPT ![j] = r]
    BY <1>2, Zenon DEF Reserve, Called
  <2>3. reserve /\ startMemoryWorkers
    BY <1>2, Zenon DEF Reserve
  <2> HIDE DEF c
  <2>4. ASSUME j \in Delayed
        PROVE  /\ r \in JobRecord /\ r.permits = job[j].permits /\ r.work = "none"
               /\ r.call = "timer" /\ r.accepted
    <3> DEFINE q == Called(job[j], "timer")
    <3>1. q \in JobRecord /\ q.call = "timer" /\ q.work = "none" /\ q.permits = job[j].permits
      BY <1>1, <2>1, JobFacts, CalledFields, Zenon
    <3>2. r = markAccepted(q)
      BY <2>4, Zenon
    <3> HIDE DEF q, r
    <3>3. /\ markAccepted(q) \in JobRecord /\ markAccepted(q).call = q.call
          /\ markAccepted(q).work = q.work /\ markAccepted(q).permits = q.permits
          /\ markAccepted(q).accepted
      BY <3>1, AcceptedFields, Zenon
    <3> QED BY <3>1, <3>2, <3>3, Zenon
  <2>5. ASSUME j \notin Delayed
        PROVE  /\ r \in JobRecord /\ r.permits = job[j].permits /\ r.work = "none"
               /\ r.call \in {"reserved", "send"} /\ ~r.accepted
    <3> DEFINE q == Called(job[j], c)
    <3>1. /\ q \in JobRecord /\ q.call = c /\ q.work = "none" /\ q.permits = job[j].permits
          /\ ~q.accepted
      BY <1>1, <2>1, JobFacts, CalledFields, Zenon
    <3>2. r = q
      BY <2>5, Zenon
    <3> HIDE DEF q, r
    <3> QED BY <2>1, <3>1, <3>2, Zenon
  <2>6. /\ r \in JobRecord /\ r.permits = job[j].permits /\ r.work = "none"
        /\ j \in Delayed => r.call = "timer" /\ r.accepted
        /\ j \notin Delayed => r.call \in {"reserved", "send"} /\ ~r.accepted
    BY <2>1, <2>4, <2>5, Zenon
  <2> HIDE DEF r
  <2>7. Shape(j, r)
    BY <2>6, Zenon DEF Shape, Entered, Before
  <2>8. Counted(job[j], r) /\ Forward(j, job[j].call, r.call) /\ GateOpenFor(j)
    BY <1>0, <1>1, <1>2, <2>3, <2>6, Zenon DEF Counted, InTree, Forward, reserve, Reservable, GateOpenFor
  <2>9. workGen' = workGen \/ Reserves(j)
    BY <2>3, <2>8, Zenon DEF reserve, Reserves
  <2>10. PoolKept \/ PoolStarted
    BY <2>3, Zenon DEF startMemoryWorkers, PoolKept, PoolStarted, poolVars
  <2> QED BY <1>0, <1>1, <2>2, <2>6, <2>7, <2>8, <2>9, <2>10, JobFacts, Move, Zenon DEF Entered
<1>3. CASE ~Reservable(j)
  <2> DEFINE r == Called(job[j], "rejected")
  <2>1. job' = [job EXCEPT ![j] = r] /\ UNCHANGED <<workQueue, alive, workPending, workGen>>
    BY <1>3, Zenon DEF Reserve, Called, poolVars, pendingVars
  <2>2. /\ r \in JobRecord /\ r.call = "rejected" /\ r.work = "none" /\ r.permits = job[j].permits
        /\ ~r.accepted
    BY <1>1, JobFacts, CalledFields, ZenonT(60) DEF Calls
  <2> HIDE DEF r
  <2>3. Shape(j, r)
    BY <2>2, Zenon DEF Shape, Entered, Before
  <2>4. Counted(job[j], r) /\ ~InTree(r) /\ Forward(j, job[j].call, r.call)
    BY <1>1, <2>1, <2>2, Zenon DEF Counted, InTree, Underway, Forward
  <2> QED BY <1>0, <1>1, <2>1, <2>2, <2>3, <2>4, JobFacts, Move, Zenon DEF Entered, PoolKept
<1> QED BY <1>2, <1>3, Zenon

\* The delay of an accepted job elapses.
LEMMA TimerFiresStep ==
  ASSUME TreeInv, PoolOK, NEW j \in Jobs, TimerFires(j)
  PROVE  TreeInv' /\ Effect
<1> DEFINE c == IF driver = "sync" THEN "reserved" ELSE "send"
           r == Called(job[j], c)
<1>0. c \in {"reserved", "send"} /\ c \in Calls
  BY Zenon DEF Calls
<1>1. job' = [job EXCEPT ![j] = r] /\ job[j].call = "timer"
  BY Zenon DEF TimerFires, Called
<1>2. UNCHANGED <<driver, handlers, shuttingDown, workQueue, workGen, alive, workPending, buffer, serving>>
  BY Zenon DEF TimerFires
<1> HIDE DEF c
<1>3. /\ r \in JobRecord /\ r.call = c /\ r.work = job[j].work /\ r.permits = job[j].permits
      /\ r.accepted <=> job[j].accepted
  BY <1>0, JobFacts, CalledFields, Zenon
<1> HIDE DEF r
<1>4. Shape(j, r) /\ job[j].work = "none" /\ j \in Delayed
  BY <1>0, <1>1, <1>3, JobFacts, Zenon DEF Shape, Entered, Before
<1>5. Counted(job[j], r) /\ InTree(job[j]) /\ Forward(j, job[j].call, r.call)
  BY <1>0, <1>1, <1>2, <1>3, <1>4, Zenon DEF Counted, InTree, Forward
<1> QED BY <1>1, <1>2, <1>3, <1>4, <1>5, JobFacts, Move, Zenon DEF Entered, PoolKept

\* A call and its execution move together.
LEMMA CalledWorkedFields ==
  ASSUME NEW r \in JobRecord, NEW c \in Calls, NEW w \in Works
  PROVE  LET q == Worked(Called(r, c), w) IN
         /\ q \in JobRecord /\ q.call = c /\ q.work = w /\ q.permits = r.permits
         /\ q.accepted <=> r.accepted
<1> DEFINE p == Called(r, c)
<1>1. p \in JobRecord /\ p.call = c /\ p.permits = r.permits /\ (p.accepted <=> r.accepted)
  BY CalledFields, Zenon
<1> HIDE DEF p
<1>2. /\ Worked(p, w) \in JobRecord /\ Worked(p, w).work = w /\ Worked(p, w).call = p.call
      /\ Worked(p, w).permits = p.permits /\ (Worked(p, w).accepted <=> p.accepted)
  BY <1>1, WorkedFields, Zenon
<1>3. /\ Worked(p, w) \in JobRecord /\ Worked(p, w).call = c /\ Worked(p, w).work = w
      /\ Worked(p, w).permits = r.permits /\ (Worked(p, w).accepted <=> r.accepted)
  BY <1>1, <1>2, Zenon
<1> QED BY <1>3, Zenon DEF p

\* The sync driver runs the job in the caller, or refuses it.
LEMMA RunInlineStep ==
  ASSUME TreeInv, PoolOK, NEW j \in Jobs, RunInline(j)
  PROVE  TreeInv' /\ Effect
<1>0. /\ job[j].call = "reserved"
      /\ UNCHANGED <<driver, handlers, shuttingDown, workQueue, alive, buffer, serving>>
  BY Zenon DEF RunInline
<1>1. /\ job[j].work = "none" /\ InTree(job[j])
      /\ (j \in Delayed => job[j].accepted) /\ (j \notin Delayed => ~job[j].accepted)
  BY <1>0, JobFacts, Zenon DEF Shape, Entered, Before, InTree
<1>2. CASE validateEnqueue
  <2> DEFINE q == Worked(Called(job[j], "inline"), "running")
             r == markAccepted(q)
  <2>1. job' = [job EXCEPT ![j] = r] /\ UNCHANGED <<workPending, workGen>>
    BY <1>2, ZenonT(60) DEF RunInline, Called, Worked, pendingVars
  <2>2. q \in JobRecord /\ q.call = "inline" /\ q.work = "running" /\ q.permits = job[j].permits
    BY JobFacts, CalledWorkedFields DEF Calls, Works
  <2> HIDE DEF q
  <2>3. /\ r \in JobRecord /\ r.call = q.call /\ r.work = q.work /\ r.permits = q.permits
        /\ r.accepted
    BY <2>2, AcceptedFields, Zenon
  <2> HIDE DEF r
  <2>4. Shape(j, r)
    BY <2>2, <2>3, Zenon DEF Shape, Entered, Before
  <2>5. Counted(job[j], r) /\ Forward(j, job[j].call, r.call)
    BY <1>0, <1>1, <2>1, <2>2, <2>3, Zenon DEF Counted, InTree, Underway, Forward
  <2> QED BY <1>0, <1>1, <2>1, <2>2, <2>3, <2>4, <2>5, JobFacts, Move, Zenon DEF Entered, PoolKept
<1>3. CASE ~validateEnqueue
  <2> DEFINE c == IF j \in Delayed THEN "dropped" ELSE "rejected"
             r == Called(job[j], c)
  <2>0. c \in Calls
    BY Zenon DEF Calls
  <2>1. job' = [job EXCEPT ![j] = r] /\ workPending' = workPending - 1 /\ workGen' = workGen
    BY <1>3, Zenon DEF RunInline, Called, finishWork
  <2>2. /\ r \in JobRecord /\ r.call = c /\ r.work = "none" /\ r.permits = job[j].permits
        /\ r.accepted <=> job[j].accepted
    BY <1>1, <2>0, JobFacts, CalledFields, Zenon
  <2> HIDE DEF r
  <2>3. Shape(j, r)
    BY <1>1, <2>2, Zenon DEF Shape, Entered, Before
  <2>4. Counted(job[j], r) /\ ~InTree(r) /\ Forward(j, job[j].call, r.call)
    BY <1>1, <2>1, <2>2, Zenon DEF Counted, InTree, Underway, Forward
  <2> QED BY <1>0, <1>1, <2>1, <2>2, <2>3, <2>4, JobFacts, Move, Zenon DEF Entered, PoolKept
<1> QED BY <1>2, <1>3, Zenon

\* A job enters the channel.
LEMMA Enter ==
  ASSUME TreeInv, PoolOK, NEW j \in Jobs, NEW c \in Entered,
         job[j].call \in {"send", "overflow"}, c = "returned" => job[j].call = "overflow",
         job' = [job EXCEPT ![j] = Worked(Called(@, c), "buffered")],
         c = "record" => job[j].call = "send", buffer' = Append(buffer, j), serving' = serving,
         UNCHANGED <<driver, handlers, shuttingDown, workQueue, alive, workPending, workGen>>
  PROVE  TreeInv' /\ Effect
<1> DEFINE r == Worked(Called(job[j], c), "buffered")
<1>1. job' = [job EXCEPT ![j] = r]
  BY ZenonT(60)
<1>2. /\ r \in JobRecord /\ r.call = c /\ r.work = "buffered" /\ r.permits = job[j].permits
      /\ r.accepted <=> job[j].accepted
  BY JobFacts, CalledWorkedFields, SMTT(30) DEF Calls, Works, Entered
<1> HIDE DEF r
<1>3. job[j].work = "none" /\ Shape(j, r)
  BY <1>2, JobFacts, Zenon DEF Shape, Entered, Before
<1>4. Counted(job[j], r) /\ InTree(job[j]) /\ Forward(j, job[j].call, r.call)
  BY <1>2, <1>3, Zenon DEF Counted, InTree, Underway, Forward, Entered
<1>5. JobsOK' /\ job'[j] = r /\ (\A k \in Jobs \ {j} : job'[k] = job[k])
  BY <1>1, <1>2, <1>3, OneJob, Zenon
<1>6. ChannelOK'
  BY <1>2, <1>3, <1>5, ChannelEntered, Zenon
<1>7. TreeOK'
  BY <1>4, <1>5, TreeChange, Zenon DEF Counted
<1>8. Effect
  BY <1>4, <1>5, EffectOfUpdate, Zenon DEF PoolKept
<1> QED BY <1>5, <1>6, <1>7, <1>8, Zenon DEF TreeInv

\* A send enters the channel, overflows, or is given up by its caller.
LEMMA SendStep ==
  ASSUME TreeInv, PoolOK, NEW j \in Jobs, Send(j) \/ OverflowSend(j)
  PROVE  TreeInv' /\ Effect
<1>0. UNCHANGED <<driver, handlers, shuttingDown, workQueue, alive, serving, workPending, workGen>>
  BY Zenon DEF Send, OverflowSend, poolVars, pendingVars
<1>1. CASE /\ job[j].call = "send" /\ Enters(j)
           /\ job' = [job EXCEPT ![j].call = "record", ![j].work = "buffered"]
  <2>1. job' = [job EXCEPT ![j] = Worked(Called(@, "record"), "buffered")]
    BY <1>1, Zenon DEF Called, Worked
  <2> QED BY <1>0, <1>1, <2>1, Enter, Zenon DEF Enters, Entered
<1>2. CASE OverflowSend(j)
  <2>1. job' = [job EXCEPT ![j] = Worked(Called(@, "returned"), "buffered")]
    BY <1>2, Zenon DEF OverflowSend, Called, Worked
  <2> QED BY <1>0, <1>2, <2>1, Enter, Zenon DEF OverflowSend, Enters, Entered
<1>3. CASE /\ job[j].call = "send" /\ Owns(j) /\ buffer' = buffer
           /\ job' = [job EXCEPT ![j] = markAccepted([@ EXCEPT !.call = "overflow"])]
  <2> DEFINE q == Called(job[j], "overflow")
             r == markAccepted(q)
  <2>1. job' = [job EXCEPT ![j] = r]
    BY <1>3, Zenon DEF Called
  <2>2. q \in JobRecord /\ q.call = "overflow" /\ q.work = job[j].work /\ q.permits = job[j].permits
    BY JobFacts, CalledFields, Zenon DEF Calls
  <2> HIDE DEF q
  <2>3. /\ r \in JobRecord /\ r.call = q.call /\ r.work = q.work /\ r.permits = q.permits
        /\ r.accepted
    BY <2>2, AcceptedFields, Zenon
  <2> HIDE DEF r
  <2>4. job[j].work = "none" /\ Shape(j, r)
    BY <1>3, <2>2, <2>3, JobFacts, Zenon DEF Shape, Entered, Before
  <2>5. Counted(job[j], r) /\ InTree(job[j]) /\ Forward(j, job[j].call, r.call)
    BY <1>0, <1>3, <2>2, <2>3, Zenon DEF Counted, InTree, Forward
  <2> QED BY <1>0, <1>3, <2>1, <2>2, <2>3, <2>4, <2>5, JobFacts, Move, Zenon DEF Entered, PoolKept
<1> QED BY <1>1, <1>2, <1>3, Zenon DEF Send

\* A send given up on its context takes its job out of the tree it was counted in.
LEMMA SendCancelledStep ==
  ASSUME TreeInv, PoolOK, NEW j \in Jobs, SendCancelled(j)
  PROVE  TreeInv' /\ Effect
<1> DEFINE r == Called(job[j], "rejected")
<1>1. /\ job' = [job EXCEPT ![j] = r] /\ job[j].call = "send" /\ j \notin Delayed
      /\ workPending' = workPending - 1 /\ workGen' = workGen
      /\ UNCHANGED <<driver, handlers, shuttingDown, workQueue, alive, buffer, serving>>
  BY Zenon DEF SendCancelled, Called, finishWork, poolVars
<1>2. /\ r \in JobRecord /\ r.call = "rejected" /\ r.work = job[j].work /\ r.permits = job[j].permits
      /\ r.accepted <=> job[j].accepted
  BY JobFacts, CalledFields, Zenon DEF Calls
<1> HIDE DEF r
<1>3. job[j].work = "none" /\ Shape(j, r)
  BY <1>1, <1>2, JobFacts, Zenon DEF Shape, Entered, Before
<1>4. Counted(job[j], r) /\ ~InTree(r) /\ Forward(j, job[j].call, r.call)
  BY <1>1, <1>2, <1>3, Zenon DEF Counted, InTree, Underway, Forward
<1> QED BY <1>1, <1>2, <1>3, <1>4, JobFacts, Move, Zenon DEF Entered, PoolKept

\* Acceptance is recorded while the worker may already hold the job.
LEMMA RecordStep ==
  ASSUME TreeInv, PoolOK, NEW j \in Jobs, Record(j)
  PROVE  TreeInv' /\ Effect
<1> DEFINE q == Called(job[j], "returned")
           r == markAccepted(q)
<1>1. /\ job' = [job EXCEPT ![j] = r] /\ job[j].call = "record"
      /\ UNCHANGED <<driver, handlers, shuttingDown, workQueue, alive, buffer, serving, workPending, workGen>>
  BY Zenon DEF Record, Called
<1>2. q \in JobRecord /\ q.call = "returned" /\ q.work = job[j].work /\ q.permits = job[j].permits
  BY JobFacts, CalledFields, Zenon DEF Calls
<1> HIDE DEF q
<1>3. /\ r \in JobRecord /\ r.call = q.call /\ r.work = q.work /\ r.permits = q.permits
      /\ r.accepted
  BY <1>2, AcceptedFields, Zenon
<1> HIDE DEF r
<1>4. Shape(j, r)
  BY <1>1, <1>2, <1>3, JobFacts, Zenon DEF Shape, Entered, Before
<1>5. Counted(job[j], r) /\ (InTree(r) => InTree(job[j])) /\ Forward(j, job[j].call, r.call)
  BY <1>1, <1>2, <1>3, Zenon DEF Counted, InTree, Forward
<1> QED BY <1>1, <1>2, <1>3, <1>4, <1>5, JobFacts, Move, Zenon DEF Entered, PoolKept

\* A worker takes the oldest job.
LEMMA ReceiveStep ==
  ASSUME TreeInv, PoolOK, NEW w \in Workers, Receive(w)
  PROVE  TreeInv' /\ Effect
<1> DEFINE j == Head(buffer)
           r == Worked(job[j], "taken")
<1>1. /\ buffer # <<>> /\ buffer' = Tail(buffer) /\ serving' = [serving EXCEPT ![w] = j]
      /\ job' = [job EXCEPT ![j] = r]
      /\ UNCHANGED <<driver, handlers, shuttingDown, workQueue, alive, workPending, workGen>>
  BY Zenon DEF Receive, Worked, poolVars, pendingVars
<1>2. j \in Jobs
  BY <1>1 DEF TreeInv, ChannelOK
<1> HIDE DEF j
<1>3. /\ r \in JobRecord /\ r.work = "taken" /\ r.call = job[j].call /\ r.permits = job[j].permits
      /\ r.accepted <=> job[j].accepted
  BY <1>2, JobFacts, WorkedFields, Zenon DEF Works
<1>4. job'[j] = r /\ (\A k \in Jobs \ {j} : job'[k] = job[k])
  BY <1>1, <1>2, Zenon DEF TreeInv, JobsOK
<1> HIDE DEF r
<1>5. ChannelOK' /\ job[j].work = "buffered" /\ job[j].call \in Entered
  BY <1>1, <1>3, <1>4, ChannelLeft, Zenon DEF j
<1>6. Shape(j, r)
  BY <1>2, <1>3, <1>5, JobFacts, Zenon DEF Shape, Entered, Before
<1>7. JobsOK'
  BY <1>1, <1>2, <1>3, <1>5, <1>6, OneJob, ZenonT(60)
<1>8. Counted(job[j], r) /\ InTree(job[j]) /\ Forward(j, job[j].call, r.call)
  BY <1>1, <1>3, <1>5, Zenon DEF Counted, InTree, Underway, Forward, Entered
<1>9. TreeOK'
  BY <1>1, <1>2, <1>4, <1>8, TreeChange, Zenon DEF Counted
<1>10. Effect
  BY <1>1, <1>2, <1>4, <1>8, EffectOfUpdate, Zenon DEF PoolKept
<1> QED BY <1>5, <1>7, <1>9, <1>10, Zenon DEF TreeInv

\* The execution of one job moves while its call stands still.
LEMMA WorkMoves ==
  ASSUME TreeInv, PoolOK, NEW j \in Jobs, NEW w \in {"running", "ending"},
         job' = [job EXCEPT ![j] = Worked(@, w)],
         job[j].work \in {"taken", "waiting"},
         job[j].call = "record" => j \in Delayed,
         UNCHANGED <<driver, handlers, shuttingDown, workQueue, alive, buffer, serving, workPending, workGen>>
  PROVE  TreeInv' /\ Effect
<1> DEFINE r == Worked(job[j], w)
<1>1. job' = [job EXCEPT ![j] = r]
  BY Zenon
<1>2. /\ r \in JobRecord /\ r.work = w /\ r.call = job[j].call /\ r.permits = job[j].permits
      /\ r.accepted <=> job[j].accepted
  BY JobFacts, WorkedFields DEF Works
<1> HIDE DEF r
<1>3. Shape(j, r)
  BY <1>2, JobFacts, Zenon DEF Shape, Entered, Before
<1>4. Counted(job[j], r) /\ InTree(job[j]) /\ Forward(j, job[j].call, r.call)
  BY <1>2, Zenon DEF Counted, InTree, Underway, Forward
<1> QED BY <1>1, <1>2, <1>3, <1>4, JobFacts, Move, Zenon DEF Entered, PoolKept

\* The first attempt waits for the gate.
LEMMA BeginStep ==
  ASSUME TreeInv, PoolOK, NEW w \in Workers, Begin(w)
  PROVE  TreeInv' /\ Effect
<1>1. serving[w] \in Jobs
  BY LocalAssumption DEF Begin, TreeInv, ChannelOK, Jobs
<1>2. /\ job[serving[w]].work = "taken" /\ GateOpen(serving[w])
      /\ job' = [job EXCEPT ![serving[w]] = Worked(@, "running")]
      /\ UNCHANGED <<driver, handlers, shuttingDown, workQueue, alive, buffer, serving, workPending, workGen>>
  BY Zenon DEF Begin, Worked, poolVars, pendingVars
<1> QED BY <1>1, <1>2, WorkMoves, Zenon DEF GateOpen

\* The end of a retry wait, by the timer or by the context, keeps the job counted.
LEMMA RetryWaitEndsStep ==
  ASSUME TreeInv, PoolOK, NEW j \in Jobs, RetryWaitEnds(j)
  PROVE  TreeInv' /\ Effect
<1>1. /\ job[j].work = "waiting"
      /\ \/ job' = [job EXCEPT ![j] = Worked(@, "running")]
         \/ job' = [job EXCEPT ![j] = Worked(@, "ending")]
      /\ UNCHANGED <<driver, handlers, shuttingDown, workQueue, alive, buffer, serving, workPending, workGen>>
  BY Zenon DEF RetryWaitEnds, Worked
<1>2. job[j].call = "record" => j \in Delayed
  BY <1>1, JobFacts, Zenon DEF Shape
<1> QED BY <1>1, <1>2, WorkMoves, Zenon

\* The end of a job gives its reservation back.
LEMMA FinishStep ==
  ASSUME TreeInv, PoolOK, NEW w \in Workers, Finish(w)
  PROVE  TreeInv' /\ Effect
<1> DEFINE j == serving[w]
           r == Worked(job[j], "finished")
<1>1. j \in Jobs /\ job[j].call \in Entered
  BY LocalAssumption DEF Finish, TreeInv, ChannelOK, Jobs
<1>2. /\ job' = [job EXCEPT ![j] = r] /\ job[j].work = "ending"
      /\ serving' = [serving EXCEPT ![w] = 0]
      /\ workPending' = workPending - 1 /\ workGen' = workGen
      /\ UNCHANGED <<driver, handlers, shuttingDown, workQueue, alive, buffer>>
  BY Zenon DEF Finish, Worked, finishWork, poolVars
<1>3. /\ serving' \in [Workers -> 0..N]
      /\ \A v \in Workers : serving'[v] = serving[v] \/ serving'[v] = 0
  BY <1>2, LocalAssumption DEF TreeInv, ChannelOK
<1> HIDE DEF j
<1>4. /\ r \in JobRecord /\ r.work = "finished" /\ r.call = job[j].call /\ r.permits = job[j].permits
      /\ r.accepted <=> job[j].accepted
  BY <1>1, JobFacts, WorkedFields, Zenon DEF Works
<1> HIDE DEF r
<1>5. Shape(j, r)
  BY <1>1, <1>2, <1>4, JobFacts, Zenon DEF Shape, Entered, Before
<1>6. Counted(job[j], r) /\ ~InTree(r) /\ Forward(j, job[j].call, r.call)
  BY <1>1, <1>2, <1>4, Zenon DEF Counted, InTree, Underway, Forward, Entered
<1> QED BY <1>1, <1>2, <1>3, <1>4, <1>5, <1>6, JobFacts, Move, ZenonT(60) DEF PoolKept

\* A job run by its own caller leaves the tree when that caller returns.
LEMMA FinishInlineStep ==
  ASSUME TreeInv, PoolOK, NEW j \in Jobs, FinishInline(j)
  PROVE  TreeInv' /\ Effect
<1> DEFINE r == Worked(Called(job[j], "returned"), "finished")
<1>1. /\ job' = [job EXCEPT ![j] = r] /\ job[j].call = "inline" /\ job[j].work = "ending"
      /\ workPending' = workPending - 1 /\ workGen' = workGen
      /\ UNCHANGED <<driver, handlers, shuttingDown, workQueue, alive, buffer, serving>>
  BY ZenonT(60) DEF FinishInline, Called, Worked, finishWork, poolVars
<1>2. /\ r \in JobRecord /\ r.call = "returned" /\ r.work = "finished" /\ r.permits = job[j].permits
      /\ r.accepted <=> job[j].accepted
  BY JobFacts, CalledWorkedFields, SMTT(30) DEF Calls, Works
<1> HIDE DEF r
<1>3. Shape(j, r)
  BY <1>1, <1>2, JobFacts, Zenon DEF Shape, Entered, Before
<1>4. Counted(job[j], r) /\ ~InTree(r) /\ Forward(j, job[j].call, r.call)
  BY <1>1, <1>2, Zenon DEF Counted, InTree, Underway, Forward
<1> QED BY <1>1, <1>2, <1>3, <1>4, JobFacts, Move, Zenon DEF Entered, PoolKept

\* A worker leaves a closed, empty channel.
LEMMA WorkerExitsStep ==
  ASSUME TreeInv, PoolOK, NEW w \in Workers, WorkerExits(w)
  PROVE  TreeInv' /\ Effect
<1>1. /\ UNCHANGED <<driver, handlers, job, workQueue, buffer, serving, workPending, workGen, shuttingDown>>
      /\ alive' \subseteq alive
  BY Zenon DEF WorkerExits, pendingVars
<1>2. TreeInv'
  BY <1>1, Zenon DEF TreeInv, JobsOK, ChannelOK, TreeOK, WorkTree
<1>3. Effect
  BY <1>1, Zenon DEF Effect, PoolOK, Calling
<1> QED BY <1>2, <1>3, Zenon

\* A record after the permit of p has ended.
Freed(r, p) == [r EXCEPT !.permits = @ \ {p}]

\* Ending one permit leaves the other fields of the record as they were.
LEMMA FreedFields ==
  ASSUME NEW r \in JobRecord, NEW p
  PROVE  /\ Freed(r, p) \in JobRecord /\ Freed(r, p).call = r.call /\ Freed(r, p).work = r.work
         /\ Freed(r, p).permits = r.permits \ {p}
         /\ Freed(r, p).accepted <=> r.accepted
<1>1. r.permits \ {p} \in SUBSET Jobs
  BY Zenon DEF JobRecord
<1>2. /\ Freed(r, p) \in JobRecord /\ Freed(r, p).call = r.call /\ Freed(r, p).work = r.work
      /\ Freed(r, p).permits = r.permits \ {p}
  BY <1>1, Zenon DEF Freed, JobRecord
<1>3. Freed(r, p).accepted <=> r.accepted
  BY Zenon DEF Freed, JobRecord
<1> QED BY <1>2, <1>3, Zenon

\* The handler returns: its permit ends in every context that carries it.
LEMMA HandlerReturnsStep ==
  ASSUME TreeInv, PoolOK, NEW j \in Jobs, NEW err \in Errors, HandlerReturns(j, err)
  PROVE  TreeInv' /\ Effect
<1> DEFINE d == ClassifyAttempt(job[j].attempt, MaxRetry[j], err)
           w == IF d \in {"succeeded", "failed"} THEN "ending" ELSE "waiting"
           n == IF d = "retry" THEN job[j].attempt + 1 ELSE job[j].attempt
           q == IF d \in {"succeeded", "failed"} THEN [job[j] EXCEPT !.work = "ending"]
                ELSE [job[j] EXCEPT !.work = "waiting", !.attempt = n]
           ran == [job EXCEPT ![j] = q]
<1>0. job \in [Jobs -> JobRecord] /\ job[j] \in JobRecord
  BY Zenon DEF TreeInv, JobsOK
<1>1. /\ job' = ReleasePermit(ran, j) /\ job[j].work = "running"
      /\ UNCHANGED <<driver, handlers, shuttingDown, workQueue, alive, buffer, serving, workPending, workGen>>
  <2>1. job' = ReleasePermit(IF d \in {"succeeded", "failed"}
                THEN [job EXCEPT ![j].work = "ending"]
                ELSE [job EXCEPT ![j].work = "waiting",
                        ![j].attempt = IF d = "retry" THEN @ + 1 ELSE @], j)
    BY Zenon DEF HandlerReturns
  <2>2. (IF d \in {"succeeded", "failed"}
                THEN [job EXCEPT ![j].work = "ending"]
                ELSE [job EXCEPT ![j].work = "waiting",
                        ![j].attempt = IF d = "retry" THEN @ + 1 ELSE @]) = ran
    <3> HIDE DEF d
    <3> QED BY <1>0, Zenon
  <2>3. /\ job[j].work = "running"
        /\ UNCHANGED <<driver, handlers, shuttingDown, workQueue, alive, buffer, serving, workPending, workGen>>
    BY Zenon DEF HandlerReturns
  <2> HIDE DEF ran, d
  <2> QED BY <2>1, <2>2, <2>3, Zenon
<1> HIDE DEF d
<1>2. n \in Nat /\ w \in {"ending", "waiting"}
  BY <1>0 DEF JobRecord
<1>3. q \in JobRecord /\ q.call = job[j].call /\ q.work = w /\ q.permits = job[j].permits
  <2> HIDE DEF n
  <2> QED BY <1>0, <1>2, Zenon DEF JobRecord, Works
<1>4. q.accepted <=> job[j].accepted
  BY <1>0, Zenon DEF JobRecord
<1> HIDE DEF q
<1>5. ran \in [Jobs -> JobRecord] /\ ran[j] = q /\ \A k \in Jobs \ {j} : ran[k] = job[k]
  BY <1>0, <1>3, Zenon
<1> HIDE DEF ran, w, n
<1>6. \A k \in Jobs : ran[k] \in JobRecord /\ job'[k] = Freed(ran[k], j)
  BY <1>1, <1>5, Zenon DEF ReleasePermit, Freed
<1>7. \A k \in Jobs : /\ job'[k] \in JobRecord /\ job'[k].call = ran[k].call /\ job'[k].work = ran[k].work
                      /\ job'[k].permits = ran[k].permits \ {j}
                      /\ job'[k].accepted <=> ran[k].accepted
  <2> TAKE k \in Jobs
  <2>1. ran[k] \in JobRecord /\ job'[k] = Freed(ran[k], j)
    BY <1>6, Zenon
  <2> DEFINE x == ran[k]
  <2>2. /\ Freed(x, j) \in JobRecord /\ Freed(x, j).call = x.call /\ Freed(x, j).work = x.work
        /\ Freed(x, j).permits = x.permits \ {j}
        /\ Freed(x, j).accepted <=> x.accepted
    BY <2>1, FreedFields, Zenon
  <2> QED BY <2>1, <2>2, Zenon
<1>9. job' \in [Jobs -> JobRecord]
  BY <1>1, <1>7, Zenon DEF ReleasePermit
<1>10. Shape(j, job'[j])
  <2>1. job'[j].call = job[j].call /\ job'[j].work = w /\ job[j].work = "running"
    BY <1>1, <1>3, <1>5, <1>7, Zenon
  <2>2. job'[j].accepted <=> job[j].accepted
    BY <1>4, <1>5, <1>7, Zenon
  <2>3. Shape(j, job[j])
    BY JobFacts, Zenon
  <2> QED BY <1>2, <2>1, <2>2, <2>3, Zenon DEF Shape, Entered, Before
<1>11. ASSUME NEW k \in Jobs, k # j PROVE Shape(k, job'[k])
  <2>1. Shape(k, ran[k])
    BY <1>5, <1>11, Zenon DEF TreeInv, JobsOK
  <2>2. job'[k].call = ran[k].call /\ job'[k].work = ran[k].work /\ (job'[k].accepted <=> ran[k].accepted)
    BY <1>7, Zenon
  <2> QED BY <2>1, <2>2, Zenon DEF Shape
<1>12. \A k, p \in Jobs : p \in job'[k].permits => job'[p].work = "running"
  BY <1>3, <1>5, <1>7 DEF TreeInv, JobsOK
<1>13. JobsOK'
  BY <1>9, <1>10, <1>11, <1>12, Zenon DEF JobsOK
<1>14. \A k \in Jobs : job'[k].call = job[k].call /\ (k # j => job'[k].work = job[k].work)
  BY <1>3, <1>5, <1>7, Zenon
<1>15. job'[j].work \in {"ending", "waiting"}
  BY <1>2, <1>3, <1>5, <1>7, Zenon
<1>16. ChannelOK'
  BY <1>1, <1>14, ChannelKept, Zenon DEF TreeInv, ChannelOK
<1>17. Counted(job[j], job'[j]) /\ InTree(job[j]) /\ Forward(j, job[j].call, job'[j].call)
  BY <1>1, <1>14, <1>15, Zenon DEF Counted, InTree, Underway, Forward
<1>18. TreeOK'
  BY <1>1, <1>14, <1>17, TreeChange, Zenon DEF Counted
<1>19. Effect
  BY <1>1, <1>14, <1>17, EffectOfUpdate, Zenon DEF PoolKept
<1> QED BY <1>13, <1>16, <1>18, <1>19, Zenon DEF TreeInv

-----------------------------------------------------------------------------
(* The runtime around the backend.                                         *)

BackendStep ==
  \/ \E j \in Jobs : Submits(j) \/ SendCancelled(j) \/ Executes(j)
  \/ \E w \in Workers : Serves(w)

\* Every step of the backend keeps the tree invariant and does to the pool no more than Effect says.
LEMMA BackendEffect ==
  ASSUME TreeInv, PoolOK, BackendStep
  PROVE  TreeInv' /\ Effect
<1>1. ASSUME NEW j \in Jobs, Submits(j) PROVE TreeInv' /\ Effect
  BY <1>1, DispatchStep, ReserveStep, TimerFiresStep, RunInlineStep, SendStep, RecordStep,
     FinishInlineStep, Zenon DEF Submits
<1>2. ASSUME NEW j \in Jobs, SendCancelled(j) PROVE TreeInv' /\ Effect
  BY <1>2, SendCancelledStep, Zenon
<1>3. ASSUME NEW j \in Jobs, Executes(j) PROVE TreeInv' /\ Effect
  BY <1>3, HandlerReturnsStep, RetryWaitEndsStep, Zenon DEF Executes
<1>4. ASSUME NEW w \in Workers, Serves(w) PROVE TreeInv' /\ Effect
  BY <1>4, ReceiveStep, BeginStep, FinishStep, WorkerExitsStep, Zenon DEF Serves
<1> QED BY <1>1, <1>2, <1>3, <1>4, Zenon DEF BackendStep

\* No step of the backend undoes what a Shutdown call relies on.
LEMMA BackendKeeps ==
  ASSUME Inv, BackendStep, RuntimeUnchanged
  PROVE  Inv'
<1>1. TreeInv' /\ Effect
  BY BackendEffect, Zenon DEF Inv
<1>2. /\ UNCHANGED <<registered, started, draining, closed, start, shutdown, starter, stopper, leases, opGen>>
  BY Zenon DEF RuntimeUnchanged, lifeVars, callVars, opVars
<1>3. PoolOK'
  BY <1>1, <1>2, Zenon DEF Inv, PoolOK, Effect
<1>4. LifeOK'
  <2>1. closed => shuttingDown' /\ workPending' = 0 /\ alive' = {}
    BY <1>1, Zenon DEF Inv, LifeOK, ClosedOK, Effect
  <2>2. ClosedOK'
    BY <1>2, <2>1, Zenon DEF Inv, LifeOK, ClosedOK
  <2>3. LeasesOK'
    BY <1>1, <1>2, Zenon DEF Inv, LifeOK, LeasesOK, Effect
  <2>4. StoppersTyped' /\ StartersOK' /\ ServedOK'
    BY <1>1, <1>2, Zenon DEF Inv, LifeOK, StoppersTyped, StartersOK, ServedOK, Effect
  <2> QED BY <2>2, <2>3, <2>4, Zenon DEF LifeOK
<1>5. \A s \in Stoppers : StopOK(s)'
  BY <1>1, <1>2, Zenon DEF Inv, StopOK, Effect
<1> QED BY <1>1, <1>3, <1>4, <1>5, Zenon DEF Inv

\* A step that leaves the jobs alone leaves the tree alone.
LEMMA TreeUntouched ==
  ASSUME TreeInv, UNCHANGED <<job, buffer, serving, workPending>>
  PROVE  TreeInv'
BY ZenonT(60) DEF TreeInv, JobsOK, ChannelOK, TreeOK, WorkTree

\* A Dispatch is admitted with the permits of running handlers, or refused; a
\* drain that has emptied the tree admits nobody.
LEMMA AcquireKeeps ==
  ASSUME Inv, NEW j \in Jobs, NEW p \in 0..N, acquireOperation(j, p)
  PROVE  Inv'
<1>i. TreeInv /\ PoolOK /\ LifeOK /\ \A s \in Stoppers : StopOK(s)
  BY Zenon DEF Inv
<1> DEFINE permits == IF p = 0 THEN {} ELSE HandlerPermits(p)
           r == IF Admits(permits)
                THEN [job[j] EXCEPT !.call = "called", !.permits = permits,
                                    !.caller = IF j \in Awaited THEN p ELSE 0]
                ELSE Called(job[j], "rejected")
<1>0. job[j] \in JobRecord /\ Shape(j, job[j])
  BY <1>i, JobFacts, Zenon
<1>1. /\ job[j].call = "none" /\ (p # 0 => p \in Jobs /\ job[p].work = "running")
      /\ job' = [job EXCEPT ![j] = r]
      /\ UNCHANGED <<driver, handlers, alive, workQueue, buffer, serving, workPending, workGen, shuttingDown,
                     registered, started, draining, closed, start, shutdown, starter, stopper>>
  <2>1. p # 0 => p \in Jobs
    BY LocalAssumption DEF Jobs
  <2>2. job' = [job EXCEPT ![j] = r]
    BY Zenon DEF acquireOperation, Called
  <2>3. job[j].call = "none" /\ (p # 0 => job[p].work = "running")
    BY Zenon DEF acquireOperation
  <2>4. UNCHANGED <<driver, handlers, alive, workQueue, buffer, serving, workPending, workGen, shuttingDown,
                    registered, started, draining, closed, start, shutdown, starter, stopper>>
    BY Zenon DEF acquireOperation, poolVars, pendingVars, lifeVars, callVars
  <2> HIDE DEF r
  <2> QED BY <2>1, <2>2, <2>3, <2>4, Zenon
<1>2. /\ Admits(permits) => /\ leases' = leases \cup {j}
                            /\ opGen' = IF leases = {} THEN opGen + 1 ELSE opGen
      /\ ~Admits(permits) => UNCHANGED <<leases, opGen>>
  BY Zenon DEF acquireOperation, opVars
<1>3. permits \subseteq Jobs /\ \A q \in permits : q \in Jobs /\ job[q].work = "running"
  <2>1. p # 0 => job[p].permits \subseteq Jobs /\ \A q \in job[p].permits : job[q].work = "running"
    BY <1>i, <1>1, Zenon DEF TreeInv, JobsOK, JobRecord
  <2> QED BY <1>1, <2>1, Zenon DEF HandlerPermits
<1>4. workPending = 0 => permits = {}
  BY <1>i, <1>3, EmptyTree, Zenon
<1> HIDE DEF permits
<1>5. /\ r \in JobRecord /\ r.call \in {"called", "rejected"} /\ r.work = job[j].work
      /\ r.permits \subseteq permits \cup job[j].permits
      /\ ~Admits(permits) => r.call = "rejected"
  <2>1. CASE Admits(permits)
    <3>1. (IF j \in Awaited THEN p ELSE 0) \in 0..N
      BY LocalAssumption
    <3> QED BY <1>0, <1>3, <2>1, <3>1, Zenon DEF JobRecord, Calls
  <2>2. CASE ~Admits(permits)
    BY <1>0, <2>2, CalledFields, Zenon DEF Calls
  <2> QED BY <2>1, <2>2, Zenon
<1>6. r.accepted <=> job[j].accepted
  <2>1. CASE Admits(permits)
    BY <1>0, <2>1, Zenon DEF JobRecord
  <2>2. CASE ~Admits(permits)
    <3>1. r = Called(job[j], "rejected")
      BY <2>2, Zenon
    <3> HIDE DEF r
    <3> QED BY <1>0, <3>1, CalledFields, Zenon DEF Calls
  <2> QED BY <2>1, <2>2, Zenon
<1> HIDE DEF r
<1>7. job[j].work = "none" /\ Shape(j, r) /\ ~InTree(job[j]) /\ ~InTree(r)
  BY <1>0, <1>1, <1>5, <1>6, ZenonT(60) DEF Shape, Entered, Before, InTree, Underway
<1>8. job' \in [Jobs -> JobRecord] /\ job'[j] = r /\ \A k \in Jobs \ {j} : job'[k] = job[k]
  BY <1>i, <1>1, <1>5, Zenon DEF TreeInv, JobsOK
<1>9. JobsOK'
  <2>1. \A k \in Jobs : Shape(k, job'[k])
    BY <1>i, <1>7, <1>8, Zenon DEF TreeInv, JobsOK
  <2>2. \A k, q \in Jobs : q \in job'[k].permits => job[q].work = "running"
    BY <1>i, <1>3, <1>5, <1>8, Zenon DEF TreeInv, JobsOK
  <2>3. \A q \in Jobs : job[q].work = "running" => job'[q].work = "running"
    BY <1>5, <1>8, Zenon
  <2> QED BY <1>i, <1>8, <2>1, <2>2, <2>3, ZenonT(60) DEF JobsOK
<1>10. ChannelOK'
  <2>1. \A k \in Jobs : /\ job[k].call \in Entered => job'[k].call \in Entered
                        /\ job[k].work = "buffered" => job'[k].work = "buffered"
    BY <1>1, <1>5, <1>8, Zenon DEF Entered
  <2> QED BY <1>i, <1>1, <2>1, ChannelKept, Zenon DEF TreeInv, ChannelOK
<1>11. TreeOK'
  BY <1>i, <1>1, <1>7, <1>8, TreeChange, Zenon

<1>12. PoolOK'
  BY <1>i, <1>1, <1>2 DEF PoolOK
<1>13. LifeOK'
  <2>1. ClosedOK'
    BY <1>i, <1>1, <1>2, Zenon DEF LifeOK, ClosedOK, Admits
  <2>2. LeasesOK'
    <3>1. \A k \in Jobs \ {j} : Calling(k)' => Calling(k)
      BY <1>8, Zenon DEF Calling
    <3>2. Calling(j)' => Admits(permits)
      BY <1>5, <1>8, Zenon DEF Calling
    <3> QED BY <1>i, <1>2, <3>1, <3>2, ZenonT(60) DEF LifeOK, LeasesOK
  <2>3. StoppersTyped' /\ StartersOK' /\ ServedOK'
    BY <1>i, <1>1, Zenon DEF LifeOK, StoppersTyped, StartersOK, ServedOK
  <2> QED BY <2>1, <2>2, <2>3, Zenon DEF LifeOK
<1>14. \A s \in Stoppers : StopOK(s)'
  <2>1. \A s \in Stoppers : stopper[s].at = "operations2" => UNCHANGED <<leases, opGen>>
    BY <1>i, <1>2, <1>4, Zenon DEF StopOK, Admits
  <2> QED BY <1>i, <1>1, <2>1, Zenon DEF StopOK
<1> QED BY <1>i, <1>9, <1>10, <1>11, <1>12, <1>13, <1>14, Zenon DEF TreeInv, Inv

\* A lease is given back once its Dispatch has returned.
LEMMA ReleaseKeeps ==
  ASSUME Inv, NEW j \in Jobs, releaseOperation(j)
  PROVE  Inv'
<1>i. TreeInv /\ PoolOK /\ LifeOK /\ \A s \in Stoppers : StopOK(s)
  BY Zenon DEF Inv
<1>1. /\ leases' = leases \ {j} /\ opGen' = opGen /\ ~Calling(j)
      /\ UNCHANGED <<driver, handlers, job, workQueue, buffer, alive, serving, workPending, workGen, shuttingDown,
                     registered, started, draining, closed, start, shutdown, starter, stopper>>
  BY Zenon DEF releaseOperation, localVars, lifeVars, callVars
<1>2. TreeInv' /\ PoolOK'
  BY <1>i, <1>1, TreeUntouched, Zenon DEF PoolOK
<1>3. \A k \in Jobs : Calling(k)' <=> Calling(k)
  BY <1>1, Zenon DEF Calling
<1>4. LifeOK'
  <2>1. ClosedOK' /\ LeasesOK'
    BY <1>i, <1>1, <1>3, Zenon DEF LifeOK, ClosedOK, LeasesOK
  <2>2. StoppersTyped' /\ StartersOK' /\ ServedOK'
    BY <1>i, <1>1, Zenon DEF LifeOK, StoppersTyped, StartersOK, ServedOK
  <2> QED BY <2>1, <2>2, Zenon DEF LifeOK
<1>5. \A s \in Stoppers : StopOK(s)'
  BY <1>i, <1>1, Zenon DEF StopOK
<1> QED BY <1>2, <1>4, <1>5, Zenon DEF Inv

\* Operators, registration and the start of the workers.
LEMMA ControlKeeps ==
  ASSUME Inv, Register \/ Pause \/ Resume \/ (ExpireClaim /\ RuntimeUnchanged)
  PROVE  Inv'
<1>i. TreeInv /\ PoolOK /\ LifeOK /\ \A s \in Stoppers : StopOK(s)
  BY Zenon DEF Inv
<1>1. /\ UNCHANGED <<driver, job, workQueue, buffer, alive, serving, workPending, workGen, shuttingDown>>
      /\ UNCHANGED <<started, draining, closed, start, shutdown, starter, stopper, leases, opGen>>
  BY Zenon DEF Register, Pause, Resume, ExpireClaim, RuntimeUnchanged, lifeVars, callVars, opVars, poolVars, pendingVars
<1>2. \/ registered' = TRUE /\ handlers' = (handlers \/ InstallsNow)
      \/ UNCHANGED <<registered, handlers>>
  BY Zenon DEF Register, Pause, Resume, ExpireClaim, RuntimeUnchanged, lifeVars, installRuntimeHandler
<1>3. TreeInv' /\ PoolOK'
  BY <1>i, <1>1, TreeUntouched, Zenon DEF PoolOK
<1>4. \A k \in Jobs : Calling(k)' <=> Calling(k)
  BY <1>1, Zenon DEF Calling
<1>5. ServedOK'
  BY <1>i, <1>1, <1>2, Zenon DEF LifeOK, ServedOK, InstallsNow
<1>6. LifeOK'
  BY <1>i, <1>1, <1>4, <1>5, ZenonT(60) DEF LifeOK, StoppersTyped, StartersOK, ClosedOK, LeasesOK
<1>7. \A s \in Stoppers : StopOK(s)'
  BY <1>i, <1>1, Zenon DEF StopOK
<1> QED BY <1>3, <1>6, <1>7, Zenon DEF Inv

\* The calls that start the workers keep the invariant.
LEMMA StartKeeps ==
  ASSUME Inv, NEW c \in Starters, StartWorkers(c) \/ Starts(c)
  PROVE  Inv'
<1>i. TreeInv /\ PoolOK /\ LifeOK /\ \A s \in Stoppers : StopOK(s)
  BY Zenon DEF Inv
<1>1. UNCHANGED <<driver, job, buffer, serving, workPending, workGen, shuttingDown, registered, draining, closed,
                  shutdown, stopper, leases, opGen>>
  BY Zenon DEF StartWorkers, Starts, ActivateBackend, EndStart, localVars, lifeVars, opVars, poolVars, pendingVars
<1>2. \A k \in Jobs : Calling(k)' <=> Calling(k)
  BY <1>1, Zenon DEF Calling
<1>3. TreeInv' /\ StoppersTyped' /\ LeasesOK'
  BY <1>i, <1>1, <1>2, TreeUntouched, Zenon DEF LifeOK, StoppersTyped, LeasesOK
<1>4. CASE StartWorkers(c)
  <2>1. /\ ~closed /\ ~draining /\ start = "none" /\ start' = c /\ starter' = [starter EXCEPT ![c] = "starting"]
        /\ handlers' = (handlers \/ registered) /\ started' = started /\ UNCHANGED <<workQueue, alive>>
    BY <1>4, Zenon DEF StartWorkers, installRuntimeHandler, poolVars
  <2>2. \A s \in Stoppers : StopOK(s)'
    BY <1>i, <1>1, <2>1, Zenon DEF StopOK
  <2>3. StartersOK'
    BY <1>i, <2>1, RuntimeAssumption, Zenon DEF LifeOK, StartersOK, StarterAt
  <2>4. ClosedOK' /\ ServedOK'
    BY <1>1, <2>1, Zenon DEF ClosedOK, ServedOK
  <2>5. PoolOK'
    BY <1>i, <1>1, <2>1, Zenon DEF PoolOK
  <2> QED BY <1>3, <2>2, <2>3, <2>4, <2>5, ZenonT(60) DEF Inv, LifeOK
<1>5. CASE ActivateBackend(c)
  <2>1. /\ starter[c] = "starting" /\ starter' = [starter EXCEPT ![c] = "activated"]
        /\ startMemoryWorkers /\ UNCHANGED <<handlers, started, start>>
    BY <1>5, Zenon DEF ActivateBackend, lifeVars
  <2>2. StartersOK'
    BY <1>i, <2>1, Zenon DEF LifeOK, StartersOK, StarterAt
  <2>3. PoolKept \/ PoolStarted
    BY <2>1, Zenon DEF startMemoryWorkers, PoolKept, PoolStarted, poolVars
  <2>4. PoolOK' /\ (shuttingDown => alive' \subseteq alive)
    BY <1>i, <1>1, <2>3, Zenon DEF PoolOK, PoolKept, PoolStarted
  <2>5. ClosedOK' /\ ServedOK'
    BY <1>i, <1>1, <2>1, <2>4, Zenon DEF LifeOK, ClosedOK, ServedOK
  <2>6. \A s \in Stoppers : StopOK(s)'
    BY <1>i, <1>1, <2>1, <2>4, Zenon DEF StopOK
  <2> QED BY <1>3, <2>2, <2>4, <2>5, <2>6, Zenon DEF Inv, LifeOK
<1>6. CASE EndStart(c)
  <2>1. /\ starter[c] = "activated" /\ starter' = [starter EXCEPT ![c] = "idle"]
        /\ started' = TRUE /\ start' = "none" /\ UNCHANGED <<handlers, workQueue, alive>>
    BY <1>6, Zenon DEF EndStart, localVars
  <2>2. start = c /\ c # "none"
    BY <1>i, <2>1, RuntimeAssumption, Zenon DEF LifeOK, StartersOK
  <2>3. StartersOK'
    BY <1>i, <2>1, <2>2, Zenon DEF LifeOK, StartersOK, StarterAt
  <2>4. ClosedOK' /\ ServedOK'
    BY <1>i, <1>1, <2>1, <2>2, Zenon DEF LifeOK, ClosedOK, ServedOK
  <2>5. PoolOK'
    BY <1>i, <1>1, <2>1, Zenon DEF PoolOK
  <2>6. \A s \in Stoppers : StopOK(s)'
    BY <1>i, <1>1, <2>1, <2>2, ZenonT(60) DEF StopOK
  <2> QED BY <1>3, <2>3, <2>4, <2>5, <2>6, Zenon DEF Inv, LifeOK
<1> QED BY <1>4, <1>5, <1>6, Zenon DEF Starts

\* What one call may do to the stations: s moves to a, with snapshot n.
Moves(s, a, n) ==
  /\ stopper'[s].at = a /\ stopper'[s].seen = n
  /\ \A t \in Stoppers \ {s} : stopper'[t] = stopper[t]

\* A Shutdown call goes on to its next station, and may take a snapshot there.
LEMMA StationChange ==
  ASSUME StoppersTyped, NEW s \in Stoppers, NEW r \in StationRecord, stopper' = [stopper EXCEPT ![s] = r]
  PROVE  StoppersTyped' /\ Moves(s, r.at, r.seen)
BY Zenon DEF StoppersTyped, StationRecord, Moves

\* A stopper that changes its place only is still typed, and no other stopper moved.
LEMMA ToMoves ==
  ASSUME StoppersTyped, NEW s \in Stoppers, NEW a \in StopperAt, To(s, a)
  PROVE  StoppersTyped' /\ Moves(s, a, stopper[s].seen)
<1> DEFINE r == [stopper[s] EXCEPT !.at = a]
<1>1. stopper' = [stopper EXCEPT ![s] = r]
  BY Zenon DEF To
<1>2. r \in StationRecord /\ r.at = a /\ r.seen = stopper[s].seen
  BY Zenon DEF StoppersTyped, StationRecord
<1> HIDE DEF r
<1> QED BY <1>1, <1>2, StationChange, Zenon

\* The same for a stopper that also reads a generation.
LEMMA SeenMoves ==
  ASSUME StoppersTyped, NEW s \in Stoppers, NEW a \in StopperAt, NEW n \in Nat,
         stopper' = [stopper EXCEPT ![s].at = a, ![s].seen = n]
  PROVE  StoppersTyped' /\ Moves(s, a, n)
<1> DEFINE r == [stopper[s] EXCEPT !.at = a, !.seen = n]
<1>1. stopper' = [stopper EXCEPT ![s] = r]
  BY Zenon
<1>2. r \in StationRecord /\ r.at = a /\ r.seen = n
  BY Zenon DEF StoppersTyped, StationRecord
<1> HIDE DEF r
<1> QED BY <1>1, <1>2, StationChange, Zenon

\* The same for a stopper that also joins the shutdown of another.
LEMMA OwnerMoves ==
  ASSUME StoppersTyped, NEW s \in Stoppers, NEW a \in StopperAt, NEW o \in Stoppers \cup {"none"},
         stopper' = [stopper EXCEPT ![s].at = a, ![s].owner = o]
  PROVE  StoppersTyped' /\ Moves(s, a, stopper[s].seen) /\ stopper'[s].owner = o
<1> DEFINE r == [stopper[s] EXCEPT !.at = a, !.owner = o]
<1>1. stopper' = [stopper EXCEPT ![s] = r]
  BY Zenon
<1>2. r \in StationRecord /\ r.at = a /\ r.seen = stopper[s].seen /\ r.owner = o
  BY Zenon DEF StoppersTyped, StationRecord
<1> HIDE DEF r
<1>3. stopper'[s] = r
  BY <1>1, Zenon DEF StoppersTyped
<1> QED BY <1>1, <1>2, <1>3, StationChange, Zenon
\* What every step of a Shutdown call leaves alone.
StopFrame ==
  UNCHANGED <<driver, handlers, job, buffer, alive, serving, workPending, workGen, registered, start, starter,
              leases, opGen>>

\* The runtime's own lifecycle during a Shutdown call.
LEMMA StopKeeps ==
  ASSUME Inv, StopFrame, StoppersTyped', PoolOK', ServedOK', ClosedOK', \A s \in Stoppers : StopOK(s)'
  PROVE  Inv'
<1>1. TreeInv'
  BY TreeUntouched, Zenon DEF Inv, StopFrame
<1>2. StartersOK' /\ LeasesOK'
  BY Zenon DEF Inv, LifeOK, StopFrame, StartersOK, LeasesOK, Calling
<1> QED BY <1>1, <1>2, Zenon DEF Inv, LifeOK

\* The stations of the other calls survive a step that takes nothing from them.
LEMMA OthersKept ==
  ASSUME Inv, StopFrame, NEW s \in Stoppers, \A t \in Stoppers \ {s} : stopper'[t] = stopper[t],
         draining \/ closed => draining' \/ closed', closed => closed', shuttingDown => shuttingDown'
  PROVE  \A t \in Stoppers \ {s} : StopOK(t)'
<1>1. \A t \in Stoppers : StopOK(t)
  BY Zenon DEF Inv
<1> QED BY <1>1, Zenon DEF StopOK, StopFrame

\* Only the end of a drain touches the pool.
LEMMA PoolStands ==
  ASSUME PoolOK, StopFrame, workQueue' = workQueue, shuttingDown => shuttingDown',
         shutdown' \in Stoppers \cup {"none"}
  PROVE  PoolOK'
<1>1. UNCHANGED <<driver, workGen, opGen, leases, alive, workPending>>
  BY Zenon DEF StopFrame
<1> QED BY <1>1, Zenon DEF PoolOK

\* The first critical section of Shutdown.
LEMMA ShutdownKeeps ==
  ASSUME Inv, NEW s \in Stoppers, Shutdown(s)
  PROVE  Inv'
<1>i. PoolOK /\ StoppersTyped /\ ClosedOK /\ ServedOK /\ StopOK(s)
  BY Zenon DEF Inv, LifeOK
<1>1. StopFrame /\ UNCHANGED <<workQueue, shuttingDown, started, closed>> /\ (draining => draining')
  BY DEF Shutdown, StopFrame, localVars, opVars
<1>2. ClosedOK' /\ ServedOK'
  BY <1>i, <1>1, Zenon DEF ClosedOK, ServedOK, StopFrame
<1>6. PoolOK'
  <2>1. shutdown' \in Stoppers \cup {"none"}
    BY <1>i, Zenon DEF Shutdown, PoolOK
  <2> QED BY <1>i, <1>1, <2>1, PoolStands, Zenon
<1>3. /\ StoppersTyped'
      /\ \/ Moves(s, "startWait", stopper[s].seen)
         \/ Moves(s, "sharing", stopper[s].seen) /\ stopper'[s].owner # "none"
         \/ Moves(s, "ok", stopper[s].seen) /\ closed
         \/ Moves(s, "operations", OperationsIdle) /\ draining' /\ start = "none"
  <2>1. ASSUME To(s, "startWait") PROVE StoppersTyped' /\ Moves(s, "startWait", stopper[s].seen)
    BY <1>i, <2>1, ToMoves, Zenon DEF StopperAt
  <2>2. ASSUME To(s, "ok") PROVE StoppersTyped' /\ Moves(s, "ok", stopper[s].seen)
    BY <1>i, <2>2, ToMoves, Zenon DEF StopperAt
  <2>3. ASSUME stopper' = [stopper EXCEPT ![s].at = "sharing", ![s].owner = shutdown], shutdown \in Stoppers \cup {"none"}
        PROVE  StoppersTyped' /\ Moves(s, "sharing", stopper[s].seen) /\ stopper'[s].owner = shutdown
    BY <1>i, <2>3, OwnerMoves, ZenonT(60) DEF StopperAt
  <2>4. ASSUME stopper' = [stopper EXCEPT ![s].at = "operations", ![s].seen = OperationsIdle]
        PROVE  StoppersTyped' /\ Moves(s, "operations", OperationsIdle)
    <3>1. OperationsIdle \in Nat
      BY <1>i, Zenon DEF OperationsIdle, PoolOK
    <3> QED BY <1>i, <2>4, <3>1, SeenMoves, Zenon DEF StopperAt
  <2>5. shutdown \in Stoppers \cup {"none"}
    BY <1>i, Zenon DEF PoolOK
  <2>6. \/ To(s, "startWait")
        \/ shutdown # "none" /\ stopper' = [stopper EXCEPT ![s].at = "sharing", ![s].owner = shutdown]
        \/ closed /\ To(s, "ok")
        \/ /\ draining' /\ start = "none"
           /\ stopper' = [stopper EXCEPT ![s].at = "operations", ![s].seen = OperationsIdle]
    BY Zenon DEF Shutdown
  <2>7. CASE To(s, "startWait")
    BY <2>1, <2>7, Zenon
  <2>8. CASE shutdown # "none" /\ stopper' = [stopper EXCEPT ![s].at = "sharing", ![s].owner = shutdown]
    <3>1. StoppersTyped' /\ Moves(s, "sharing", stopper[s].seen) /\ stopper'[s].owner = shutdown
      BY <2>3, <2>5, <2>8, Zenon
    <3> QED BY <2>8, <3>1, Zenon
  <2>9. CASE closed /\ To(s, "ok")
    BY <2>2, <2>9, Zenon
  <2>10. CASE /\ draining' /\ start = "none"
              /\ stopper' = [stopper EXCEPT ![s].at = "operations", ![s].seen = OperationsIdle]
    BY <2>4, <2>10, Zenon
  <2> QED BY <2>6, <2>7, <2>8, <2>9, <2>10, Zenon
<1>4. StopOK(s)'
  BY <1>1, <1>3, Zenon DEF StopOK, Moves, StopFrame
<1>5. \A t \in Stoppers \ {s} : StopOK(t)'
  BY <1>1, <1>3, OthersKept, Zenon DEF Moves
<1> QED BY <1>1, <1>2, <1>3, <1>4, <1>5, <1>6, StopKeeps, Zenon

\* The steps that only wait, or give up waiting.
LEMMA WaitKeeps ==
  ASSUME Inv, NEW s \in Stoppers, ShutdownShared(s) \/ ShutdownExpires(s)
  PROVE  Inv'
<1>i. PoolOK /\ StoppersTyped /\ ClosedOK /\ ServedOK /\ \A t \in Stoppers : StopOK(t)
  BY Zenon DEF Inv, LifeOK
<1>1. StopFrame /\ UNCHANGED <<workQueue, shuttingDown, started, draining, closed>>
  BY Zenon DEF ShutdownShared, ShutdownExpires, StopFrame, localVars, lifeVars, opVars
<1>2. shutdown' \in Stoppers \cup {"none"}
  BY <1>i, Zenon DEF ShutdownShared, ShutdownExpires, PoolOK, lifeVars
<1>3. PoolOK' /\ ClosedOK' /\ ServedOK'
  <2>1. ClosedOK' /\ ServedOK'
    BY <1>i, <1>1, Zenon DEF ClosedOK, ServedOK, StopFrame
  <2> QED BY <1>i, <1>1, <1>2, <2>1, PoolStands, Zenon
<1>4. StoppersTyped' /\ (Moves(s, "err", stopper[s].seen) \/ (Moves(s, "ok", stopper[s].seen) /\ closed))
  <2>1. CASE ShutdownExpires(s)
    <3>1. To(s, "err")
      BY <2>1, Zenon DEF ShutdownExpires
    <3> QED BY <1>i, <3>1, ToMoves, Zenon DEF StopperAt
  <2>2. CASE ShutdownShared(s)
    <3> DEFINE o == stopper[s].owner
    <3>1. stopper[o].at \in {"ok", "err"} /\ To(s, stopper[o].at) /\ o \in Stoppers \cup {"none"}
      BY <1>i, <2>2, Zenon DEF ShutdownShared, StoppersTyped, StationRecord
    <3>2. CASE o \in Stoppers
      <4>1. stopper[o].at = "ok" => closed
        BY <1>i, <3>2, Zenon DEF StopOK
      <4> HIDE DEF o
      <4>2. StoppersTyped' /\ Moves(s, stopper[o].at, stopper[s].seen)
        BY <1>i, <3>1, ToMoves, Zenon DEF StopperAt
      <4> QED BY <3>1, <4>1, <4>2, Zenon
    <3>3. o # "none"
      BY <1>i, <2>2, Zenon DEF ShutdownShared, StopOK
    <3> QED BY <3>1, <3>2, <3>3, Zenon
  <2> QED BY <2>1, <2>2, Zenon
<1>5. StopOK(s)'
  BY <1>1, <1>4, Zenon DEF StopOK, Moves
<1>6. \A t \in Stoppers \ {s} : StopOK(t)'
  BY <1>1, <1>4, OthersKept, Zenon DEF Moves
<1> QED BY <1>1, <1>3, <1>4, <1>5, <1>6, StopKeeps, Zenon

\* DrainWorkers closes the gate of the backend.
LEMMA DrainKeeps ==
  ASSUME Inv, NEW s \in Stoppers, DrainWorkers(s)
  PROVE  Inv'
<1>i. PoolOK /\ StoppersTyped /\ ClosedOK /\ ServedOK /\ StopOK(s)
  BY Zenon DEF Inv, LifeOK
<1>1. /\ StopFrame /\ UNCHANGED <<workQueue, started, draining, closed, shutdown>> /\ shuttingDown' = TRUE
      /\ stopper[s].at = "operations" /\ To(s, "quiesce")
  BY Zenon DEF DrainWorkers, StopFrame, lifeVars, opVars, poolVars, pendingVars
<1>2. ClosedOK' /\ ServedOK'
  BY <1>i, <1>1, Zenon DEF ClosedOK, ServedOK, StopFrame
<1>3. PoolOK'
  <2>1. shutdown' \in Stoppers \cup {"none"}
    BY <1>i, <1>1, Zenon DEF PoolOK
  <2> QED BY <1>i, <1>1, <2>1, PoolStands, Zenon
<1>4. StoppersTyped' /\ Moves(s, "quiesce", stopper[s].seen)
  BY <1>i, <1>1, ToMoves, Zenon DEF StopperAt
<1>5. StopOK(s)'
  BY <1>i, <1>1, <1>4, Zenon DEF StopOK, Moves, StopFrame
<1>6. \A t \in Stoppers \ {s} : StopOK(t)'
  BY <1>1, <1>4, OthersKept, Zenon DEF Moves
<1> QED BY <1>1, <1>2, <1>3, <1>4, <1>5, <1>6, StopKeeps, Zenon

\* One pass of the wait for the work tree.  The gate is closed, so the counter
\* is at zero for good when it is found there, and the generation a call waits
\* for is the last one.
LEMMA QuiesceKeeps ==
  ASSUME Inv, NEW s \in Stoppers, Quiesce(s)
  PROVE  Inv'
<1>i. TreeInv /\ PoolOK /\ StoppersTyped /\ ClosedOK /\ ServedOK /\ StopOK(s)
  BY Zenon DEF Inv, LifeOK
<1>1. /\ StopFrame /\ UNCHANGED <<started, draining, closed, shutdown, shuttingDown>>
      /\ stopper[s].at \in {"quiesce", "quiesceWait"}
  BY Zenon DEF Quiesce, Quiesced, StopFrame, lifeVars, opVars, pendingVars
<1>2. ClosedOK' /\ ServedOK'
  BY <1>i, <1>1, Zenon DEF ClosedOK, ServedOK, StopFrame
<1>3. shuttingDown /\ (draining \/ closed) /\ start = "none"
  BY <1>i, <1>1, Zenon DEF StopOK
<1>4. CASE WorkDone
  <2>1. To(s, "workers") /\ workPending = 0 /\ workQueue' = IF workQueue = "open" THEN "closed" ELSE workQueue
    BY <1>4, Zenon DEF Quiesce, WorkDone
  <2>2. StoppersTyped' /\ Moves(s, "workers", stopper[s].seen)
    BY <1>i, <2>1, ToMoves, Zenon DEF StopperAt
  <2>3. UNCHANGED <<driver, workGen, opGen, leases, alive, workPending, shutdown, shuttingDown, start, draining, closed>>
    BY <1>1, Zenon DEF StopFrame
  <2>4. PoolOK'
    BY <1>i, <1>3, <2>1, <2>3, Zenon DEF PoolOK
  <2>5. StopOK(s)'
    BY <1>3, <2>1, <2>2, <2>3, Zenon DEF StopOK, Moves
  <2>6. \A t \in Stoppers \ {s} : StopOK(t)'
    BY <1>1, <2>2, OthersKept, Zenon DEF Moves
  <2> QED BY <1>1, <1>2, <2>2, <2>4, <2>5, <2>6, StopKeeps, ZenonT(60)
<1>5. CASE ~WorkDone
  <2>1. stopper' = [stopper EXCEPT ![s].at = "quiesceWait", ![s].seen = workGen] /\ workQueue' = workQueue
    BY <1>5, Zenon DEF Quiesce
  <2>2. StoppersTyped' /\ Moves(s, "quiesceWait", workGen)
    BY <1>i, <2>1, SeenMoves, Zenon DEF StopperAt, PoolOK
  <2>3. UNCHANGED <<workGen, shutdown, shuttingDown, start, draining, closed>>
    BY <1>1, Zenon DEF StopFrame
  <2>4. PoolOK'
    <3>1. shutdown' \in Stoppers \cup {"none"}
      BY <1>i, <2>3, Zenon DEF PoolOK
    <3> QED BY <1>i, <1>1, <2>1, <2>3, <3>1, PoolStands, SMTT(30)
  <2>5. StopOK(s)'
    BY <1>3, <2>2, <2>3, Zenon DEF StopOK, Moves
  <2>6. \A t \in Stoppers \ {s} : StopOK(t)'
    BY <1>1, <2>2, OthersKept, Zenon DEF Moves
  <2> QED BY <1>1, <1>2, <2>2, <2>4, <2>5, <2>6, StopKeeps, ZenonT(60)
<1> QED BY <1>4, <1>5, Zenon

\* The second snapshot of the operations is taken with the backend drained.
LEMMA ReadKeeps ==
  ASSUME Inv, NEW s \in Stoppers, ReadOperations(s)
  PROVE  Inv'
<1>i. PoolOK /\ StoppersTyped /\ ClosedOK /\ ServedOK /\ StopOK(s)
  BY Zenon DEF Inv, LifeOK
<1>1. StopFrame /\ UNCHANGED <<workQueue, started, draining, closed, shutdown, shuttingDown>>
  BY Zenon DEF ReadOperations, StopFrame, localVars, lifeVars, opVars
<1>2. ClosedOK' /\ ServedOK'
  BY <1>i, <1>1, Zenon DEF ClosedOK, ServedOK, StopFrame
<1>3. PoolOK'
  <2>1. shutdown' \in Stoppers \cup {"none"}
    BY <1>i, <1>1, Zenon DEF PoolOK
  <2> QED BY <1>i, <1>1, <2>1, PoolStands, Zenon
<1>4. shuttingDown /\ (draining \/ closed) /\ start = "none" /\ workPending = 0 /\ alive = {}
  BY <1>i DEF ReadOperations, Drained, Quiesced, WorkIdleClosed, StopOK, PoolOK
<1>5. OperationsIdle \in Nat /\ (OperationsIdle # 0 => OperationsIdle = opGen)
  BY <1>i, Zenon DEF OperationsIdle, PoolOK
<1>6. StoppersTyped' /\ Moves(s, "operations2", OperationsIdle)
  BY <1>i, <1>5, SeenMoves, Zenon DEF StopperAt, ReadOperations
<1>7. StopOK(s)'
  <2>1. UNCHANGED <<start, workPending, alive, leases, opGen>>
    BY <1>1, Zenon DEF StopFrame
  <2>2. OperationsIdle = 0 => leases = {}
    BY <1>i, Zenon DEF OperationsIdle, PoolOK
  <2> QED BY <1>1, <1>4, <1>5, <1>6, <2>1, <2>2, Zenon DEF StopOK, Moves
<1>8. \A t \in Stoppers \ {s} : StopOK(t)'
  BY <1>1, <1>6, OthersKept, Zenon DEF Moves
<1> QED BY <1>1, <1>2, <1>3, <1>6, <1>7, <1>8, StopKeeps, ZenonT(60)

\* The attempt ends: nothing of the backend or of the operations is left.
LEMMA EndKeeps ==
  ASSUME Inv, NEW s \in Stoppers, EndShutdown(s)
  PROVE  Inv'
<1>i. PoolOK /\ StoppersTyped /\ StopOK(s)
  BY Zenon DEF Inv, LifeOK
<1>1. /\ StopFrame /\ UNCHANGED <<workQueue, shuttingDown>>
      /\ started' = FALSE /\ draining' = FALSE /\ closed' = TRUE /\ shutdown' = "none"
      /\ stopper[s].at = "operations2" /\ OperationsEnded(s) /\ To(s, "ok")
  BY Zenon DEF EndShutdown, StopFrame, localVars, opVars
<1>2. leases = {} /\ alive = {} /\ workPending = 0 /\ shuttingDown /\ start = "none"
  <2>1. stopper[s].seen \in Nat /\ opGen \in Nat
    BY <1>i, Zenon DEF StoppersTyped, StationRecord, PoolOK
  <2> QED BY <1>i, <1>1, <2>1 DEF StopOK, OperationsEnded, OperationsClosed
<1>3. ClosedOK' /\ ServedOK'
  BY <1>1, <1>2, Zenon DEF ClosedOK, ServedOK, StopFrame
<1>4. PoolOK'
  BY <1>i, <1>1, PoolStands, Zenon
<1>5. StoppersTyped' /\ Moves(s, "ok", stopper[s].seen)
  BY <1>i, <1>1, ToMoves, Zenon DEF StopperAt
<1>6. StopOK(s)'
  BY <1>1, <1>5, Zenon DEF StopOK, Moves
<1>7. \A t \in Stoppers \ {s} : StopOK(t)'
  BY <1>1, <1>5, OthersKept, Zenon DEF Moves
<1> QED BY <1>1, <1>3, <1>4, <1>5, <1>6, <1>7, StopKeeps, ZenonT(60)

-----------------------------------------------------------------------------
(* The invariant and what it says.                                         *)

\* The queue as it is built satisfies the invariant.
LEMMA InvInit ==
  ASSUME Init
  PROVE  Inv
<1>1. /\ job = [j \in Jobs |-> NewJob] /\ buffer = <<>> /\ serving = [w \in Workers |-> 0] /\ workPending = 0
      /\ driver \in {"sync", "workerpool"} /\ workQueue = "none" /\ alive = {} /\ workGen = 0 /\ ~shuttingDown
      /\ ~closed /\ ~started /\ start = "none" /\ shutdown = "none" /\ leases = {} /\ opGen = 0
      /\ starter = [c \in Starters |-> "idle"]
      /\ stopper = [s \in Stoppers |-> [at |-> "idle", seen |-> 0, owner |-> "none"]]
  BY Zenon DEF Init, LocalInit
<1>2. NewJob \in JobRecord /\ NewJob.call = "none" /\ NewJob.work = "none" /\ NewJob.permits = {}
  BY LocalAssumption DEF NewJob, JobRecord, Calls, Works
<1>3. ~NewJob.accepted
  BY Zenon DEF NewJob
<1> HIDE DEF NewJob
<1>4. \A j \in Jobs : Shape(j, NewJob) /\ ~InTree(NewJob)
  BY <1>2, <1>3, Zenon DEF Shape, Entered, Before, InTree, Underway
<1>5. JobsOK
  BY <1>1, <1>2, <1>4, Zenon DEF JobsOK
<1>6. ChannelOK
  BY <1>1, LocalAssumption, SMTT(30) DEF ChannelOK
<1>7. TreeOK
  <2>1. WorkTree = {}
    BY <1>1, <1>4, Zenon DEF WorkTree
  <2> QED BY <1>1, <2>1, TreeFinite, Zenon DEF TreeOK
<1>8. PoolOK
  BY <1>1, Zenon DEF PoolOK
<1>9. LifeOK
  <2>1. LeasesOK
    BY <1>1, <1>2, Zenon DEF LeasesOK, Calling
  <2>2. StoppersTyped /\ StartersOK
    BY <1>1, Zenon DEF StoppersTyped, StationRecord, StopperAt, StartersOK, StarterAt
  <2> QED BY <1>1, <2>1, <2>2, Zenon DEF LifeOK, ClosedOK, ServedOK
<1>10. \A s \in Stoppers : StopOK(s)
  BY <1>1, Zenon DEF StopOK
<1> QED BY <1>5, <1>6, <1>7, <1>8, <1>9, <1>10, Zenon DEF Inv, TreeInv

\* Every step of the runtime over its backend keeps the invariant.
LEMMA InvStep ==
  ASSUME Inv, [Next]_vars
  PROVE  Inv'
<1>1. CASE Register \/ Pause \/ Resume \/ (ExpireClaim /\ RuntimeUnchanged)
  BY <1>1, ControlKeeps, Zenon
<1>2. ASSUME NEW c \in Starters, StartWorkers(c) \/ Starts(c) PROVE Inv'
  BY <1>2, StartKeeps, Zenon
<1>3. ASSUME NEW s \in Stoppers, Shutdown(s) \/ Stops(s) \/ ShutdownExpires(s) PROVE Inv'
  BY <1>3, ShutdownKeeps, WaitKeeps, DrainKeeps, QuiesceKeeps, ReadKeeps, EndKeeps, ZenonT(60) DEF Stops
<1>4. ASSUME NEW j \in Jobs, NEW p \in 0..N, acquireOperation(j, p) PROVE Inv'
  BY <1>4, AcquireKeeps, Zenon
<1>5. ASSUME NEW j \in Jobs, releaseOperation(j) PROVE Inv'
  BY <1>5, ReleaseKeeps, Zenon
<1>6. ASSUME BackendStep, RuntimeUnchanged PROVE Inv'
  BY <1>6, BackendKeeps, Zenon
<1>7. CASE UNCHANGED vars
  <2>1. /\ UNCHANGED <<driver, handlers, job, workQueue, buffer, alive, serving, workPending, workGen, shuttingDown>>
        /\ UNCHANGED <<registered, started, draining, closed, start, shutdown, starter, stopper, leases, opGen>>
    BY <1>7, Zenon DEF vars, localVars, lifeVars, callVars, opVars
  <2>2. TreeInv' /\ PoolOK'
    BY <2>1, TreeUntouched, Zenon DEF Inv, PoolOK
  <2>3. StoppersTyped' /\ ClosedOK' /\ StartersOK' /\ ServedOK' /\ LeasesOK'
    BY <2>1, Zenon DEF Inv, LifeOK, StoppersTyped, ClosedOK, StartersOK, ServedOK, LeasesOK, Calling
  <2>4. \A s \in Stoppers : StopOK(s)'
    BY <2>1, Zenon DEF Inv, StopOK
  <2> QED BY <2>2, <2>3, <2>4, Zenon DEF Inv, LifeOK
<1> QED BY <1>1, <1>2, <1>3, <1>4, <1>5, <1>6, <1>7, Zenon DEF Next, BackendStep

\* The work counter is the size of the work tree in every reachable state.
LEMMA RuntimeInvariant == Spec => []Inv
BY InvInit, InvStep, PTL DEF Spec

\* A send on a closed channel never happens: when closeWorkerQueueWhenIdle
\* closes the pool's channel the channel is empty and no submitting, delaying
\* or overflow goroutine can still send, for any number of jobs and workers.
THEOREM ClosedQueueIsQuiet == Spec => []NoSendOnClosedQueue
<1>1. Inv => NoSendOnClosedQueue
  <2> SUFFICES ASSUME Inv, workQueue = "closed"
               PROVE  buffer = <<>> /\ \A j \in Jobs : job[j].call \notin {"timer", "send", "overflow"}
    BY Zenon DEF NoSendOnClosedQueue
  <2>1. TreeInv /\ workPending = 0
    BY Zenon DEF Inv, PoolOK
  <2>2. \A j \in Jobs : ~InTree(job[j])
    BY <2>1, EmptyTree, Zenon
  <2>3. \A i \in 1..Len(buffer) : buffer[i] \in Jobs /\ job[buffer[i]].work = "buffered"
    BY <2>1, SMTT(30) DEF TreeInv, ChannelOK
  <2>4. 1..Len(buffer) = {} /\ buffer \in Seq(Jobs)
    BY <2>1, <2>2, <2>3, Zenon DEF InTree, Underway, TreeInv, ChannelOK
  <2>5. buffer = <<>>
    BY <2>4, SMTT(30)
  <2> QED BY <2>2, <2>5, Zenon DEF InTree
<1> QED BY <1>1, RuntimeInvariant, PTL

\* No handler of the in-memory backend runs before its dispatch was accepted,
\* and no accepted job is reported as rejected, whatever the interleaving of
\* submitters, timers and workers.
THEOREM AcceptanceComesFirst == Spec => []AcceptedBeforeRun
<1>1. Inv => AcceptedBeforeRun
  <2> SUFFICES ASSUME Inv, NEW j \in Jobs
               PROVE  /\ job[j].work \in {"running", "waiting", "ending", "finished"} => job[j].accepted
                      /\ job[j].accepted => job[j].call # "rejected"
    BY Zenon DEF AcceptedBeforeRun
  <2>1. Shape(j, job[j]) /\ job[j] \in JobRecord
    BY Zenon DEF Inv, TreeInv, JobsOK
  <2> QED BY <2>1, Zenon DEF Shape, JobRecord, Calls, Entered, Before
<1> QED BY <1>1, RuntimeInvariant, PTL

\* A Shutdown that returns nil has closed the runtime, and a closed runtime is
\* quiet: no lease, no worker, no reservation, no goroutine that could still
\* submit, and every accepted job has run or was a dropped delayed sync job.
THEOREM ShutdownIsClean == Spec => []CleanShutdown
<1>1. ASSUME Inv PROVE CleanShutdown
  <2>1. (\E s \in Stoppers : stopper[s].at = "ok") => closed
    BY <1>1, Zenon DEF Inv, StopOK
  <2>2. ASSUME closed PROVE leases = {} /\ alive = {} /\ workPending = 0
    BY <1>1, <2>2, Zenon DEF Inv, LifeOK, ClosedOK
  <2>3. ASSUME closed, NEW j \in Jobs
        PROVE  /\ \/ job[j].call \in {"none", "returned", "rejected", "dropped"}
                  \/ job[j].call = "record" /\ j \in Delayed
               /\ job[j].accepted => job[j].work = "finished" \/ job[j].call = "dropped"
    <3>1. ~InTree(job[j]) /\ job[j].work \in {"none", "finished"}
      BY <1>1, <2>2, <2>3, EmptyTree, Zenon DEF Inv
    <3>2. ~Calling(j)
      BY <1>1, <2>2, <2>3, Zenon DEF Inv, LifeOK, LeasesOK
    <3>3. Shape(j, job[j]) /\ job[j].call \in Calls
      BY <1>1, Zenon DEF Inv, TreeInv, JobsOK, JobRecord
    <3>4. \/ job[j].call \in {"none", "returned", "rejected", "dropped"}
          \/ job[j].call = "record" /\ j \in Delayed
      BY <3>1, <3>2, <3>3, Zenon DEF InTree, Calling, Calls, Shape
    <3>5. job[j].accepted => job[j].work = "finished" \/ job[j].call = "dropped"
      BY <3>1, <3>3, <3>4, Zenon DEF Shape, Entered, Before
    <3> QED BY <3>4, <3>5, Zenon
  <2> QED BY <2>1, <2>2, <2>3, Zenon DEF CleanShutdown
<1> QED BY <1>1, RuntimeInvariant, PTL

\* Whatever the order of Register and StartWorkers, a started runtime that
\* admits work has the registered handler on its backend.
THEOREM RegistrationIsServed == Spec => []RegisteredIsServed
<1>1. Inv => RegisteredIsServed
  BY Zenon DEF Inv, LifeOK, ServedOK, RegisteredIsServed
<1> QED BY <1>1, RuntimeInvariant, PTL

\* A runtime that has begun to drain never admits outside callers again, a
\* drain that timed out included.
THEOREM DrainingIsFinal == Spec => DrainIsFinal
<1>1. ASSUME [Next]_vars, draining \/ closed PROVE draining' \/ closed'
  <2>1. CASE UNCHANGED vars
    BY <1>1, <2>1, Zenon DEF vars, lifeVars
  <2>2. ASSUME NEW s \in Stoppers, Shutdown(s) \/ Stops(s) \/ ShutdownExpires(s) PROVE draining' \/ closed'
    BY <1>1, <2>2, Zenon DEF Stops, Shutdown, ShutdownShared, DrainWorkers, Quiesce, ReadOperations, EndShutdown,
                      ShutdownExpires, lifeVars
  <2>3. ASSUME NEW c \in Starters, StartWorkers(c) \/ Starts(c) PROVE draining' \/ closed'
    BY <1>1, <2>3, Zenon DEF StartWorkers, Starts, ActivateBackend, EndStart, lifeVars
  <2>4. CASE Register \/ Pause \/ Resume
    BY <1>1, <2>4, Zenon DEF Register, Pause, Resume, lifeVars
  <2>5. CASE RuntimeUnchanged
    BY <1>1, <2>5, Zenon DEF RuntimeUnchanged, lifeVars
  <2>6. ASSUME NEW j \in Jobs, releaseOperation(j) \/ (\E p \in 0..N : acquireOperation(j, p))
        PROVE  draining' \/ closed'
    BY <1>1, <2>6, Zenon DEF releaseOperation, acquireOperation, lifeVars
  <2> QED BY <1>1, <2>1, <2>2, <2>3, <2>4, <2>5, <2>6, Zenon DEF Next
<1> QED BY <1>1, PTL DEF Spec, DrainIsFinal

\* The unique claim of an accepted job ends by its TTL only: no late failure of
\* another dispatch of the key releases it.
THEOREM AcceptedClaimEndsByTTL == Spec => AcceptedClaimIsKept
<1> DEFINE Kept == \A j \in Jobs : claim = j /\ job[j].accepted /\ claim' # j => UNCHANGED job
<1>1. ASSUME Inv, [Next]_vars PROVE Kept
  <2> SUFFICES ASSUME NEW j \in Jobs, claim = j, job[j].accepted, claim' # j PROVE UNCHANGED job
    BY Zenon
  <2>0. j # 0 /\ Shape(j, job[j])
    BY <1>1, LocalAssumption DEF Jobs, Inv, TreeInv, JobsOK
  <2>1. ASSUME NEW k \in Jobs, Dispatch(k) PROVE FALSE
    BY <2>0, <2>1, Zenon DEF Dispatch, Acquires
  <2>2. ASSUME NEW k \in Jobs, Reserve(k) \/ RunInline(k) \/ SendCancelled(k) PROVE FALSE
    <3>1. claim' = Release(k) /\ (job[k].call = "claimed" \/ (k \notin Delayed /\ job[k].call \in {"reserved", "send"}))
      BY <2>2, Zenon DEF Reserve, RunInline, SendCancelled
    <3>2. k = j
      BY <3>1, Zenon DEF Release
    <3> QED BY <2>0, <3>1, <3>2, Zenon DEF Shape, Before
  <2>3. ASSUME NEW k \in Jobs, TimerFires(k) \/ Send(k) \/ Record(k) \/ OverflowSend(k) \/ FinishInline(k) PROVE FALSE
    BY <2>3, Zenon DEF TimerFires, Send, Record, OverflowSend, FinishInline
  <2>4. ASSUME NEW k \in Jobs, Executes(k) PROVE FALSE
    BY <2>4, Zenon DEF Executes, HandlerReturns, RetryWaitEnds
  <2>5. ASSUME NEW w \in Workers, Serves(w) PROVE FALSE
    BY <2>5, Zenon DEF Serves, Receive, Begin, Finish, WorkerExits
  <2>6. ASSUME NEW k \in Jobs, releaseOperation(k) \/ (\E p \in 0..N : acquireOperation(k, p)) PROVE FALSE
    BY <2>6, Zenon DEF releaseOperation, acquireOperation, localVars
  <2>7. CASE Register \/ Pause \/ Resume
    BY <2>7, Zenon DEF Register, Pause, Resume
  <2>8. ASSUME NEW c \in Starters, StartWorkers(c) \/ Starts(c) PROVE FALSE
    BY <2>8, ZenonT(60) DEF StartWorkers, Starts, ActivateBackend, EndStart, localVars
  <2>9. ASSUME NEW s \in Stoppers, Shutdown(s) \/ Stops(s) \/ ShutdownExpires(s) PROVE FALSE
    BY <2>9, Zenon DEF Stops, Shutdown, ShutdownShared, DrainWorkers, Quiesce, ReadOperations, EndShutdown,
                ShutdownExpires, localVars
  <2>10. CASE ExpireClaim
    BY <2>10, Zenon DEF ExpireClaim
  <2>11. CASE UNCHANGED vars
    BY <2>11, Zenon DEF vars, localVars
  <2> QED BY <1>1, <2>1, <2>2, <2>3, <2>4, <2>5, <2>6, <2>7, <2>8, <2>9, <2>10, <2>11, SMTT(30) DEF Next, Submits
<1> QED BY <1>1, RuntimeInvariant, PTL DEF Spec, AcceptedClaimIsKept

=============================================================================
