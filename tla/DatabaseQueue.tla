--------------------------- MODULE DatabaseQueue ---------------------------
(***************************************************************************)
(* The SQL driver (driver/sqlqueuecore): one row of queue_jobs per job,    *)
(* and the worker loops that claim a row, run its handler and settle the   *)
(* row under the claim's processing token.                                 *)
(*                                                                         *)
(* Each database statement is one step; workers, operators (the admin      *)
(* API), crashes and time interleave between statements.  A statement may  *)
(* fail without taking effect, or take effect and still report an error.   *)
(*                                                                         *)
(* Time is abstracted to two flags of a row: avail (available_at has       *)
(* passed) and stale (the processing lease has run out).                   *)
(***************************************************************************)
EXTENDS Attempt, Integers, FiniteSets

CONSTANTS Jobs,            \* row ids, in insertion order
          Legacy,          \* rows a pre-token release left in processing
          Workers,         \* worker loops, of one or of several processes
          MaxRetry,        \* max_retry of each job
          Backoff,         \* the jobs with backoff_millis > 0
          SkipLocked,      \* TRUE: claims use FOR UPDATE SKIP LOCKED (not sqlite)
          FinalizeRetries, \* databaseFinalizeRetryCount
          MaxClaims,       \* bound: processing tokens ever issued
          MaxDisruptions   \* bound: faults, crashes, late handlers, operators

ASSUME JobsAssumption == Jobs \subseteq Nat \ {0} /\ Legacy \subseteq Jobs /\ Backoff \subseteq Jobs
ASSUME RetryAssumption == MaxRetry \in [Jobs -> Nat]
ASSUME BoundsAssumption ==
  /\ FinalizeRetries \in Nat \ {0}
  /\ MaxClaims \in Nat
  /\ MaxDisruptions \in Nat
  /\ SkipLocked \in BOOLEAN

VARIABLES rows,        \* the queue_jobs table
          workers,     \* the local state of each worker loop
          issued,      \* processing tokens issued so far
          claims,      \* history: what became of each issued token
          receipt,     \* the token that owns a job's workflow receipt
          requeued,    \* history: jobs an operator has retried
          disruptions  \* number of disruptions so far

vars == <<rows, workers, issued, claims, receipt, requeued, disruptions>>

(***************************************************************************)
(* Values                                                                  *)
(***************************************************************************)
Tokens == 1..MaxClaims
NoToken == 0          \* SQL NULL, and the empty string in memory
RecoveryMarker == -1  \* databaseRecoveryMarker

\* "none", "done" and "removed" are rows the table does not hold: never
\* inserted, deleted by markDone, deleted by an operator.
RowStates == {"none", "pending", "processing", "dead", "done", "removed"}

Row == [state: RowStates, attempt: Nat, token: Tokens \cup {NoToken, RecoveryMarker},
        avail: BOOLEAN, stale: BOOLEAN]

\* What became of an issued token: "open" while it fences its row, then what
\* ended it: its own settlement ("done", "retried", "returned", "dead"), its
\* own repair, stale recovery or an operator.
Fates == {"free", "open", "done", "retried", "returned", "dead",
          "repaired", "recovered", "revoked"}

Claims == [job: Jobs \cup {0}, attempt: Nat, inherited: Tokens \cup {NoToken},
           fate: Fates, published: BOOLEAN]

\* The in-memory dbJob of a worker and its place in workerLoop/processJob.
Worker == [pc: {"idle", "claim", "run", "settle", "repair"},
           job: Jobs \cup {0}, attempt: Nat, token: Tokens \cup {NoToken},
           recoveryToken: Tokens \cup {NoToken}, recovered: BOOLEAN,
           committed: BOOLEAN, handled: BOOLEAN, err: Errors, tries: Nat]

Idle == [pc |-> "idle", job |-> 0, attempt |-> 0, token |-> NoToken,
         recoveryToken |-> NoToken, recovered |-> FALSE, committed |-> FALSE,
         handled |-> FALSE, err |-> "nil", tries |-> 0]

TypeOK ==
  /\ rows \in [Jobs -> Row]
  /\ workers \in [Workers -> Worker]
  /\ issued \in 0..MaxClaims
  /\ claims \in [Tokens -> Claims]
  /\ receipt \in [Jobs -> Tokens \cup {NoToken}]
  /\ requeued \subseteq Jobs
  /\ disruptions \in 0..MaxDisruptions

Live(j) == rows[j].state \in {"pending", "processing"}

\* A disruption uses up one unit of the bound.
Disrupt == disruptions < MaxDisruptions /\ disruptions' = disruptions + 1

\* How a statement ends: it takes effect, it fails, or it takes effect and the
\* connection breaks before the result is read.
DBResults == {"ok", "failed", "ambiguous"}
Fault(db) == IF db = "ok" THEN UNCHANGED disruptions ELSE Disrupt

(***************************************************************************)
(* The pure decisions of the driver                                        *)
(***************************************************************************)
\* The recovery proof a pending row hands to its next claim.
databaseRecoveryProof(token) ==
  [token |-> IF token \in Tokens THEN token ELSE NoToken, recovered |-> token # NoToken]

\* The stored form of a claim's inherited proof.
InheritedProof(m) ==
  IF ~m.recovered THEN NoToken
  ELSE IF m.recoveryToken = NoToken THEN RecoveryMarker ELSE m.recoveryToken

Decision(m) == ClassifyAttempt(m.attempt, MaxRetry[m.job], m.err)

\* Mutant: a redelivery costs an attempt.
classifyDatabaseFailureCounting(m) ==
  [state   |-> IF Decision(m) = "failed" THEN "dead" ELSE "pending",
   attempt |-> m.attempt + 1]

classifyDatabaseFailure(m) ==
  [state   |-> IF Decision(m) = "failed" THEN "dead" ELSE "pending",
   attempt |-> IF Decision(m) = "redeliver" THEN m.attempt ELSE m.attempt + 1]

\* Mutants: a retry keeps the link to earlier generations; a generation that
\* committed application state hands on its inherited proof, not its own.
databasePendingRecoveryTokenAlways(m, settlement) ==
  IF settlement.state # "pending" THEN NoToken
  ELSE IF m.committed THEN m.token ELSE InheritedProof(m)
databasePendingRecoveryTokenInherited(m, settlement) ==
  IF settlement.state # "pending" \/ settlement.attempt # m.attempt THEN NoToken
  ELSE InheritedProof(m)

\* An application retry clears every link to earlier generations.
databasePendingRecoveryToken(m, settlement) ==
  IF settlement.state # "pending" \/ settlement.attempt # m.attempt THEN NoToken
  ELSE IF m.committed THEN m.token ELSE InheritedProof(m)

\* Repair only an inherited proof this generation has not superseded.
NeedsLineageRepair(m) == m.recovered /\ ~m.committed

\* Mutants: the fence forgets the token; the fence forgets the state.
FencedByState(m) == rows[m.job].state = "processing"
FencedByToken(m) == rows[m.job].token = m.token

\* WHERE id=? AND state='processing' AND processing_token=?
Fenced(m) == rows[m.job].state = "processing" /\ rows[m.job].token = m.token

(***************************************************************************)
(* Producers, operators and time                                           *)
(***************************************************************************)
NewRow(state, attempt, token, avail) ==
  [state |-> state, attempt |-> attempt, token |-> token, avail |-> avail, stale |-> FALSE]
AbsentRow(state) == NewRow(state, 0, NoToken, FALSE)
NewClaim(job, attempt, inherited, fate) ==
  [job |-> job, attempt |-> attempt, inherited |-> inherited, fate |-> fate, published |-> FALSE]

Init ==
  /\ rows = [j \in Jobs |-> IF j \in Legacy THEN NewRow("processing", 0, NoToken, FALSE)
                         ELSE AbsentRow("none")]
  /\ workers = [w \in Workers |-> Idle]
  /\ issued = 0
  /\ claims = [t \in Tokens |-> NewClaim(0, 0, NoToken, "free")]
  /\ receipt = [j \in Jobs |-> NoToken]
  /\ requeued = {}
  /\ disruptions = 0

\* Dispatch inserts one pending row; a delayed job is not yet available.
Dispatch(j) ==
  /\ rows[j].state = "none"
  /\ \A i \in Jobs : i < j => rows[i].state # "none"
  /\ \E now \in BOOLEAN :
       rows' = [rows EXCEPT ![j] = NewRow("pending", 0, NoToken, now)]
  /\ UNCHANGED <<workers, issued, claims, receipt, requeued, disruptions>>

BecomeAvailable(j) ==
  /\ rows[j].state = "pending" /\ ~rows[j].avail
  /\ rows' = [rows EXCEPT ![j] = [@ EXCEPT !.avail = TRUE]]
  /\ UNCHANGED <<workers, issued, claims, receipt, requeued, disruptions>>

\* A lease runs out.  It is a disruption when the claim's worker is still busy.
LeaseExpires(j) ==
  /\ rows[j].state = "processing" /\ ~rows[j].stale
  /\ IF \E w \in Workers : workers[w].token # NoToken /\ workers[w].token = rows[j].token
     THEN Disrupt ELSE UNCHANGED disruptions
  /\ rows' = [rows EXCEPT ![j] = [@ EXCEPT !.stale = TRUE]]
  /\ UNCHANGED <<workers, issued, claims, receipt, requeued>>

\* The tokens that fence the rows of js stop fencing them.
EndClaims(js, fate) ==
  [t \in Tokens |-> IF \E j \in js : rows[j].state = "processing" /\ rows[j].token = t
                    THEN [claims[t] EXCEPT !.fate = fate] ELSE claims[t]]

Stored == {j \in Jobs : rows[j].state \in {"pending", "processing", "dead"}}

\* RetryJob makes any stored row pending again, whoever is processing it.
RetryJob(j) ==
  /\ j \in Stored
  /\ Disrupt
  /\ rows' = [rows EXCEPT ![j] = NewRow("pending", rows[j].attempt, NoToken, TRUE)]
  /\ claims' = EndClaims({j}, "revoked")
  /\ requeued' = requeued \cup {j}
  /\ UNCHANGED <<workers, issued, receipt>>

\* CancelJob archives any stored row.
CancelJob(j) ==
  /\ j \in Stored
  /\ Disrupt
  /\ rows' = [rows EXCEPT ![j] = NewRow("dead", rows[j].attempt, NoToken, FALSE)]
  /\ claims' = EndClaims({j}, "revoked")
  /\ UNCHANGED <<workers, issued, receipt, requeued>>

\* DeleteJob removes one stored row, ClearQueue all of them.
DeleteRows(js) ==
  /\ Disrupt
  /\ rows' = [j \in Jobs |-> IF j \in js THEN AbsentRow("removed") ELSE rows[j]]
  /\ claims' = EndClaims(js, "revoked")
  /\ UNCHANGED <<workers, issued, receipt, requeued>>

DeleteJob(j) == j \in Stored /\ DeleteRows({j})

ClearQueue == Stored # {} /\ DeleteRows(Stored)

(***************************************************************************)
(* The worker loop                                                         *)
(***************************************************************************)
\* Mutant: rows without a token are never recovered.
StaleTokenRows ==
  {j \in Jobs : rows[j].state = "processing" /\ rows[j].stale /\ rows[j].token # NoToken}

StaleRows == {j \in Jobs : rows[j].state = "processing" /\ rows[j].stale}

\* A recovered row is pending at once and keeps its token as recovery proof.
RecoveredRow(row) ==
  NewRow("pending", row.attempt, IF row.token = NoToken THEN RecoveryMarker ELSE row.token, TRUE)

\* The bulk UPDATE that opens claimOne.  When the statement fails the worker
\* polls again; an ambiguous failure has still recovered the rows.
recoverStaleProcessing(w, db) ==
  /\ workers[w].pc = "idle"
  /\ Fault(db)
  /\ workers' = [workers EXCEPT ![w] = [@ EXCEPT !.pc = IF db = "ok" THEN "claim" ELSE "idle"]]
  /\ rows' = [j \in Jobs |-> IF j \in StaleRows THEN RecoveredRow(rows[j]) ELSE rows[j]]
  /\ claims' = EndClaims(StaleRows, "recovered")
  /\ UNCHANGED <<issued, receipt, requeued>>

Claimable(j) == rows[j].state = "pending" /\ rows[j].avail

\* ORDER BY id LIMIT 1; SKIP LOCKED passes over rows other claims hold.
selectPendingJob(j) ==
  /\ Claimable(j)
  /\ SkipLocked \/ \A i \in Jobs : i < j => ~Claimable(i)

\* The claim transaction: the row moves to processing under a fresh token.
\* When the commit is ambiguous the row is claimed and no worker knows it.
Claim(w, j, db) ==
  LET proof == databaseRecoveryProof(rows[j].token)
      token == issued + 1
  IN  /\ workers[w].pc = "claim"
      /\ selectPendingJob(j)
      /\ issued < MaxClaims
      /\ issued' = token
      /\ rows' = [rows EXCEPT ![j] = NewRow("processing", @.attempt, token, FALSE)]
      /\ claims' = [claims EXCEPT ![token] =
                      NewClaim(j, rows[j].attempt, proof.token, "open")]
      /\ Fault(db)
      /\ workers' = [workers EXCEPT ![w] =
           IF db = "ok"
           THEN [pc |-> "run", job |-> j, attempt |-> rows[j].attempt, token |-> token,
                 recoveryToken |-> proof.token, recovered |-> proof.recovered,
                 committed |-> FALSE, handled |-> FALSE, err |-> "nil", tries |-> 0]
           ELSE Idle]
      /\ UNCHANGED <<receipt, requeued>>

\* Nothing to claim, or the claim failed: the worker sleeps and polls again.
ClaimNothing(w) ==
  /\ workers[w].pc = "claim"
  /\ IF \E j \in Jobs : Claimable(j) THEN Disrupt ELSE UNCHANGED disruptions
  /\ workers' = [workers EXCEPT ![w] = Idle]
  /\ UNCHANGED <<rows, issued, claims, receipt, requeued>>

\* The worker has no handler for the job's type: a plain failed attempt.
HandlerMissing(w) ==
  /\ workers[w].pc = "run" /\ ~workers[w].committed
  /\ workers' = [workers EXCEPT ![w] = [@ EXCEPT !.pc = "settle", !.err = "error"]]
  /\ UNCHANGED <<rows, issued, claims, receipt, requeued, disruptions>>

\* The workflow engine, inside the handler, becomes the first writer of the
\* job's transition and marks the delivery.
MarkApplicationStateCommitted(w) ==
  /\ workers[w].pc = "run"
  /\ receipt[workers[w].job] = NoToken
  /\ receipt' = [receipt EXCEPT ![workers[w].job] = workers[w].token]
  /\ workers' = [workers EXCEPT ![w] = [@ EXCEPT !.committed = TRUE]]
  /\ UNCHANGED <<rows, issued, claims, requeued, disruptions>>

\* Mutant: facts are published when the handler returns.
HandlerReturnsPublishing(w, err) ==
  /\ workers[w].pc = "run"
  /\ workers' = [workers EXCEPT ![w] = [@ EXCEPT !.pc = "settle", !.err = err,
                                                       !.handled = TRUE]]
  /\ claims' = [claims EXCEPT ![workers[w].token] = [@ EXCEPT !.published = TRUE]]
  /\ IF err = "uncommitted" THEN Disrupt ELSE UNCHANGED disruptions
  /\ UNCHANGED <<rows, issued, receipt, requeued>>

\* The handler returns.  Asking for redelivery is a disruption: an
\* application that asks for ever keeps its job for ever.
HandlerReturns(w, err) ==
  /\ workers[w].pc = "run"
  /\ workers' = [workers EXCEPT ![w] = [@ EXCEPT !.pc = "settle", !.err = err,
                                                       !.handled = TRUE]]
  /\ IF err = "uncommitted" THEN Disrupt ELSE UNCHANGED disruptions
  /\ UNCHANGED <<rows, issued, claims, receipt, requeued>>

\* The row a settlement writes, and the fate it gives the claim.
SettledRow(m) ==
  LET settlement == classifyDatabaseFailure(m)
  IN  IF m.err = "nil" THEN AbsentRow("done")
      ELSE NewRow(settlement.state, settlement.attempt,
                  databasePendingRecoveryToken(m, settlement), m.job \notin Backoff)

SettledFate(m) ==
  IF Decision(m) = "succeeded" THEN "done"
  ELSE IF Decision(m) = "retry" THEN "retried"
  ELSE IF Decision(m) = "failed" THEN "dead" ELSE "returned"

\* A statement that must affect exactly the row of claim m: it does so when the
\* fence holds and the statement is not lost.
Applies(m, db) == Fenced(m) /\ db # "failed"

\* One try of markDone or markFailed.  A confirmed settlement commits the
\* deferred facts of the delivery; after the last failed try comes the repair.
Settle(w, db) ==
  LET m == workers[w]
  IN  /\ m.pc = "settle"
      /\ Fault(db)
      /\ rows' = IF Applies(m, db) THEN [rows EXCEPT ![m.job] = SettledRow(m)] ELSE rows
      /\ claims' = IF Applies(m, db)
                   THEN [claims EXCEPT ![m.token] =
                           [@ EXCEPT !.fate = SettledFate(m),
                                     !.published = db = "ok" /\ m.handled]]
                   ELSE claims
      /\ workers' = [workers EXCEPT ![w] =
           IF Fenced(m) /\ db = "ok" THEN Idle
           ELSE IF m.tries + 1 < FinalizeRetries THEN [m EXCEPT !.tries = @ + 1]
           ELSE [m EXCEPT !.pc = "repair"]]
      /\ UNCHANGED <<issued, receipt, requeued>>

\* handleSettlementFailure: one fenced attempt to give the row back with the
\* proof it was claimed with, then the settlement_failed event.
RestoreLineage(w, db) ==
  LET m == workers[w]
  IN  /\ m.pc = "repair"
      /\ Fault(db)
      /\ IF NeedsLineageRepair(m) /\ Applies(m, db) /\ rows[m.job].attempt = m.attempt
         THEN /\ rows' = [rows EXCEPT ![m.job] =
                            NewRow("pending", m.attempt, InheritedProof(m), FALSE)]
              /\ claims' = [claims EXCEPT ![m.token] = [@ EXCEPT !.fate = "repaired"]]
         ELSE UNCHANGED <<rows, claims>>
      /\ workers' = [workers EXCEPT ![w] = Idle]
      /\ UNCHANGED <<issued, receipt, requeued>>

\* The worker's process dies (a handler panic included) and is restarted.
Crash(w) ==
  /\ workers[w].pc # "idle"
  /\ Disrupt
  /\ workers' = [workers EXCEPT ![w] = Idle]
  /\ UNCHANGED <<rows, issued, claims, receipt, requeued>>

WorkerStep(w) ==
  \/ \E db \in {"ok", "ambiguous"} :
       recoverStaleProcessing(w, db) \/ \E j \in Jobs : Claim(w, j, db)
  \/ ClaimNothing(w)
  \/ \E err \in Errors : HandlerReturns(w, err)
  \/ \E db \in DBResults : Settle(w, db) \/ RestoreLineage(w, db)

Next ==
  \/ \E j \in Jobs : \/ Dispatch(j) \/ BecomeAvailable(j) \/ LeaseExpires(j)
                     \/ RetryJob(j) \/ CancelJob(j) \/ DeleteJob(j)
  \/ ClearQueue
  \/ \E w \in Workers : \/ WorkerStep(w) \/ HandlerMissing(w)
                        \/ MarkApplicationStateCommitted(w) \/ Crash(w)

Spec == Init /\ [][Next]_vars

\* Workers keep polling, handlers return, and time passes.
Fairness ==
  /\ \A w \in Workers : WF_vars(WorkerStep(w))
  /\ \A j \in Jobs : WF_vars(BecomeAvailable(j)) /\ WF_vars(LeaseExpires(j))

FairSpec == Spec /\ Fairness

(***************************************************************************)
(* Properties                                                              *)
(***************************************************************************)
\* A token is open exactly while it fences its row: stale recovery, operators
\* and other claims can interleave with a running handler in any order, and
\* two open claims of one row never coexist.
OpenClaimFencesRow ==
  \A t \in Tokens :
    claims[t].fate = "open" <=>
      \E j \in Jobs : /\ claims[t].job = j
                      /\ rows[j].state = "processing" /\ rows[j].token = t

\* Once a claim has been settled, recovered, repaired or revoked nothing its
\* worker still does (late settlement, blind settlement retry, repair) counts.
EndedClaimsStayEnded ==
  [][\A t \in Tokens : claims[t].fate \notin {"free", "open"} => claims'[t] = claims[t]]_vars

\* attempt counts the handler failures settled for the job, neither more (a
\* repeated try, a redelivery, a recovery or a repair) nor fewer.
AttemptCountsFailures ==
  \A j \in Jobs : rows[j].state \in {"pending", "processing", "dead"} =>
    rows[j].attempt =
      Cardinality({t \in Tokens : claims[t].job = j /\ claims[t].fate \in {"retried", "dead"}})

\* The proof a pending row carries names an earlier generation of that row, of
\* the same application attempt, that ended without settling the attempt.
RecoveryProofTruthful ==
  \A j \in Jobs : rows[j].state = "pending" /\ rows[j].token \in Tokens =>
    LET c == claims[rows[j].token]
    IN  c.job = j /\ c.attempt = rows[j].attempt /\ c.fate \in {"recovered", "returned"}

\* A claim that itself inherited a proof and went stale takes the older
\* generation's name with it; so does an operator's retry.
LineageBroken(j) ==
  \/ j \in requeued
  \/ \E t \in Tokens : /\ claims[t].job = j /\ claims[t].inherited # NoToken
                       /\ claims[t].fate = "recovered" /\ receipt[j] # t

\* While the attempt that committed the workflow receipt is unsettled, the row
\* leads back to the receipt's owner: through lost settlements, redeliveries
\* and repairs the next delivery can prove it replays that transition.
ReceiptLineageKept ==
  \A j \in Jobs :
    LET g == receipt[j]
        t == rows[j].token
    IN  (g # NoToken /\ Live(j) /\ rows[j].attempt = claims[g].attempt /\ ~LineageBroken(j))
        => t = g \/ (rows[j].state = "processing" /\ t \in Tokens /\ claims[t].inherited = g)

\* Deferred facts are published only by the claim whose own settlement stands,
\* so at most one success fact is ever published for a row.
FactsFollowSettlement ==
  /\ \A t \in Tokens : claims[t].published =>
       claims[t].fate \in {"done", "retried", "returned", "dead"}
  /\ \A s, t \in Tokens :
       (claims[s].fate = "done" /\ claims[t].fate = "done" /\ claims[s].job = claims[t].job)
         => s = t

\* The abstract queue this driver implements.
Status(j) ==
  CASE rows[j].state = "none" -> "new"
    [] rows[j].state \in {"pending", "processing"} -> "live"
    [] rows[j].state = "removed" -> "gone"
    [] OTHER -> rows[j].state

Failures(j) ==
  Cardinality({t \in Tokens : claims[t].job = j /\ claims[t].fate \in {"retried", "dead"}})

Announced ==
  {j \in Jobs : \E t \in Tokens :
     claims[t].job = j /\ claims[t].fate = "done" /\ claims[t].published}

Abstract == INSTANCE DeliveryQueue WITH
  Accepted <- Legacy,
  status <- [j \in Jobs |-> Status(j)],
  failures <- [j \in Jobs |-> Failures(j)],
  announced <- Announced

\* Through crashes, lost statements, late workers and operators the driver
\* keeps the promise of DeliveryQueue: no accepted job is forgotten, completed
\* twice, retried beyond its budget or announced before it is completed, and
\* every live job is eventually completed, archived or removed.
ImplementsDeliveryQueue == Abstract!FairSpec
=============================================================================
