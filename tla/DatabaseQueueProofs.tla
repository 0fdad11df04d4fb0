------------------------ MODULE DatabaseQueueProofs ------------------------
(***************************************************************************)
(* Proofs about the SQL driver, for every number of jobs and workers and   *)
(* every value of the bounds: its safety, and then that it implements      *)
(* DeliveryQueue.                                                          *)
(***************************************************************************)
EXTENDS DatabaseQueue, TLAPS

\* The classification of a failed attempt is a storable settlement.
LEMMA FailureSettlementType ==
  ASSUME NEW m \in Worker, m.job \in Jobs
  PROVE  /\ classifyDatabaseFailure(m) \in [state: {"pending", "dead"}, attempt: Nat]
         /\ classifyDatabaseFailure(m).attempt \in {m.attempt, m.attempt + 1}
BY DEF classifyDatabaseFailure, Worker

\* Neither SQL NULL nor the recovery marker is ever issued as a token.
LEMMA SpecialTokens == NoToken \notin Tokens /\ RecoveryMarker \notin Tokens
BY DEF NoToken, RecoveryMarker, Tokens

\* What a worker passes on of its own lineage is a storable token.
LEMMA InheritedProofType ==
  ASSUME NEW m \in Worker
  PROVE  InheritedProof(m) \in Tokens \cup {NoToken, RecoveryMarker}
BY Zenon DEF InheritedProof, Worker

\* Whatever a settlement writes is a row of the table.
LEMMA SettledRowType ==
  ASSUME NEW m \in Worker, m.job \in Jobs
  PROVE  SettledRow(m) \in Row
<1> DEFINE s == classifyDatabaseFailure(m)
<1>1. s.state \in {"pending", "dead"} /\ s.attempt \in Nat
  BY FailureSettlementType, Zenon
<1>2. databasePendingRecoveryToken(m, s) \in Tokens \cup {NoToken, RecoveryMarker}
  BY InheritedProofType, Zenon DEF databasePendingRecoveryToken, Worker
<1> QED
  BY <1>1, <1>2, Zenon DEF SettledRow, NewRow, AbsentRow, Row, RowStates, NoToken

\* A settled claim is done, archived or handed back.
LEMMA SettledFateType ==
  ASSUME NEW m
  PROVE  SettledFate(m) \in {"done", "retried", "returned", "dead"}
BY Zenon DEF SettledFate

\* Ending claims leaves the token history well formed.
LEMMA EndClaimsType ==
  ASSUME TypeOK, NEW js \in SUBSET Jobs, NEW fate \in Fates
  PROVE  EndClaims(js, fate) \in [Tokens -> Claims]
BY DEF TypeOK, EndClaims, Claims

\* The rows the statements write whole are rows of the table.
LEMMA NewRowType ==
  ASSUME NEW s \in RowStates, NEW a \in Nat,
         NEW t \in Tokens \cup {NoToken, RecoveryMarker}, NEW v \in BOOLEAN
  PROVE  NewRow(s, a, t, v) \in Row
BY Zenon DEF NewRow, Row

\* The initial table, with its legacy rows, is well typed.
LEMMA TypeInit == Init => TypeOK
<1> SUFFICES ASSUME Init PROVE TypeOK
  BY Zenon
<1>1. rows \in [Jobs -> Row]
  BY NewRowType, Zenon DEF Init, AbsentRow, RowStates
<1>2. workers \in [Workers -> Worker]
  BY Zenon DEF Init, Idle, Worker, NoToken, Errors
<1>3. claims \in [Tokens -> Claims]
  BY Zenon DEF Init, NewClaim, Claims, Fates, NoToken
<1>4. issued \in 0..MaxClaims /\ disruptions \in 0..MaxDisruptions
  BY BoundsAssumption DEF Init
<1>5. receipt \in [Jobs -> Tokens \cup {NoToken}] /\ requeued \subseteq Jobs
  BY Zenon DEF Init
<1> QED
  BY <1>1, <1>2, <1>3, <1>4, <1>5, Zenon DEF TypeOK

\* The updates the actions make to one worker's memory stay in Worker.
LEMMA WorkerUpdateType ==
  ASSUME NEW m \in Worker
  PROVE  /\ \A x \in {"idle", "claim", "settle", "repair"} : [m EXCEPT !.pc = x] \in Worker
         /\ \A e \in Errors : [m EXCEPT !.pc = "settle", !.err = e] \in Worker
         /\ \A e \in Errors : [m EXCEPT !.pc = "settle", !.err = e, !.handled = TRUE] \in Worker
         /\ [m EXCEPT !.committed = TRUE] \in Worker
         /\ [m EXCEPT !.tries = @ + 1] \in Worker
<1>1. ASSUME NEW x \in {"idle", "claim", "settle", "repair"} PROVE [m EXCEPT !.pc = x] \in Worker
  BY Zenon DEF Worker
<1>2. ASSUME NEW e \in Errors
      PROVE  /\ [m EXCEPT !.pc = "settle", !.err = e] \in Worker
             /\ [m EXCEPT !.pc = "settle", !.err = e, !.handled = TRUE] \in Worker
  BY Zenon DEF Worker
<1>3. [m EXCEPT !.committed = TRUE] \in Worker
  BY Zenon DEF Worker
<1>4. [m EXCEPT !.tries = @ + 1] \in Worker
  BY DEF Worker
<1> QED
  BY <1>1, <1>2, <1>3, <1>4, Zenon

\* A worker between two polls.
LEMMA IdleType == Idle \in Worker
BY Zenon DEF Idle, Worker, NoToken, Errors

\* Settling or publishing a claim keeps it a claim.
LEMMA ClaimUpdateType ==
  ASSUME NEW c \in Claims, NEW f \in Fates, NEW p \in BOOLEAN
  PROVE  /\ [c EXCEPT !.fate = f] \in Claims
         /\ [c EXCEPT !.fate = f, !.published = p] \in Claims
BY Zenon DEF Claims

\* The single-column updates of the statements stay in Row.
LEMMA RowUpdateType ==
  ASSUME NEW r \in Row
  PROVE  /\ [r EXCEPT !.avail = TRUE] \in Row
         /\ [r EXCEPT !.stale = TRUE] \in Row
         /\ RecoveredRow(r) \in Row
         /\ r.attempt \in Nat
         /\ r.token \in Tokens \cup {NoToken, RecoveryMarker}
BY Zenon DEF Row, RecoveredRow, NewRow, RowStates

\* A worker with a claim in hand works on a stored job under an issued token.
BusyWorkersHaveJobs ==
  \A w \in Workers : workers[w].pc \in {"run", "settle", "repair"} =>
    workers[w].job \in Jobs /\ workers[w].token \in Tokens

\* The bound on disruptions holds whether or not a step uses one.
LEMMA DisruptionsType ==
  ASSUME TypeOK, Disrupt \/ UNCHANGED disruptions
  PROVE  disruptions' \in 0..MaxDisruptions
BY BoundsAssumption DEF TypeOK, Disrupt

\* Every step keeps the types, given that busy workers own a job and a token.
LEMMA TypeStep == TypeOK /\ BusyWorkersHaveJobs /\ [Next]_vars => TypeOK'
<1> SUFFICES ASSUME TypeOK, BusyWorkersHaveJobs, [Next]_vars PROVE TypeOK'
  BY Zenon
<1>0. /\ rows \in [Jobs -> Row] /\ workers \in [Workers -> Worker]
      /\ claims \in [Tokens -> Claims] /\ receipt \in [Jobs -> Tokens \cup {NoToken}]
      /\ issued \in 0..MaxClaims
  BY Zenon DEF TypeOK
<1>1. ASSUME NEW j \in Jobs, Dispatch(j) PROVE TypeOK'
  <2>1. rows' \in [Jobs -> Row]
    <3>1. ASSUME NEW now \in BOOLEAN PROVE NewRow("pending", 0, NoToken, now) \in Row
      BY NewRowType, Zenon DEF RowStates
    <3> QED BY <1>0, <1>1, <3>1, Zenon DEF Dispatch
  <2> QED BY <1>1, <2>1, Zenon DEF TypeOK, Dispatch
<1>2. ASSUME NEW j \in Jobs, BecomeAvailable(j) PROVE TypeOK'
  <2>1. rows' \in [Jobs -> Row]
    BY <1>0, <1>2, RowUpdateType, Zenon DEF BecomeAvailable
  <2> QED BY <1>2, <2>1, Zenon DEF TypeOK, BecomeAvailable
<1>3. ASSUME NEW j \in Jobs, LeaseExpires(j) PROVE TypeOK'
  <2>1. rows' \in [Jobs -> Row]
    BY <1>0, <1>3, RowUpdateType, Zenon DEF LeaseExpires
  <2>2. disruptions' \in 0..MaxDisruptions
    BY <1>3, DisruptionsType, Zenon DEF LeaseExpires
  <2> QED BY <1>3, <2>1, <2>2, Zenon DEF TypeOK, LeaseExpires
<1>4. ASSUME NEW j \in Jobs, RetryJob(j) PROVE TypeOK'
  <2>1. rows' \in [Jobs -> Row]
    BY <1>0, <1>4, RowUpdateType, NewRowType, Zenon DEF RetryJob, RowStates
  <2>2. claims' \in [Tokens -> Claims] /\ disruptions' \in 0..MaxDisruptions
    BY <1>4, EndClaimsType, DisruptionsType, Zenon DEF RetryJob, Fates
  <2> QED BY <1>4, <2>1, <2>2, Zenon DEF TypeOK, RetryJob
<1>5. ASSUME NEW j \in Jobs, CancelJob(j) PROVE TypeOK'
  <2>1. rows' \in [Jobs -> Row]
    BY <1>0, <1>5, RowUpdateType, NewRowType, Zenon DEF CancelJob, RowStates
  <2>2. claims' \in [Tokens -> Claims] /\ disruptions' \in 0..MaxDisruptions
    BY <1>5, EndClaimsType, DisruptionsType, Zenon DEF CancelJob, Fates
  <2> QED BY <1>5, <2>1, <2>2, Zenon DEF TypeOK, CancelJob
<1>6. ASSUME NEW js \in SUBSET Jobs, DeleteRows(js) PROVE TypeOK'
  <2>1. rows' \in [Jobs -> Row]
    BY <1>0, <1>6, NewRowType, Zenon DEF DeleteRows, AbsentRow, RowStates
  <2>2. claims' \in [Tokens -> Claims] /\ disruptions' \in 0..MaxDisruptions
    BY <1>6, EndClaimsType, DisruptionsType, Zenon DEF DeleteRows, Fates
  <2> QED BY <1>6, <2>1, <2>2, Zenon DEF TypeOK, DeleteRows
<1>7. ASSUME NEW w \in Workers, NEW db \in DBResults, recoverStaleProcessing(w, db) PROVE TypeOK'
  <2>1. rows' \in [Jobs -> Row]
    BY <1>0, <1>7, RowUpdateType, Zenon DEF recoverStaleProcessing
  <2>2. claims' \in [Tokens -> Claims]
    BY <1>7, EndClaimsType, Zenon DEF recoverStaleProcessing, Fates, StaleRows
  <2>3. workers' \in [Workers -> Worker] /\ disruptions' \in 0..MaxDisruptions
    BY <1>0, <1>7, WorkerUpdateType, DisruptionsType, Zenon DEF recoverStaleProcessing, Fault
  <2> QED BY <1>7, <2>1, <2>2, <2>3, Zenon DEF TypeOK, recoverStaleProcessing
<1>8. ASSUME NEW w \in Workers, NEW j \in Jobs, NEW db \in DBResults, Claim(w, j, db) PROVE TypeOK'
  <2> DEFINE proof == databaseRecoveryProof(rows[j].token)
             claimed == [pc |-> "run", job |-> j, attempt |-> rows[j].attempt,
                         token |-> issued + 1, recoveryToken |-> proof.token,
                         recovered |-> proof.recovered, committed |-> FALSE,
                         handled |-> FALSE, err |-> "nil", tries |-> 0]
  <2>1. proof.token \in Tokens \cup {NoToken} /\ proof.recovered \in BOOLEAN
    BY Zenon DEF databaseRecoveryProof
  <2>2. issued + 1 \in Tokens /\ rows[j].attempt \in Nat
    <3>1. issued + 1 \in Tokens
      BY <1>0, <1>8, BoundsAssumption DEF Claim, Tokens
    <3> QED BY <1>0, <3>1, RowUpdateType, Zenon
  <2>3. rows' \in [Jobs -> Row]
    BY <1>0, <1>8, <2>2, NewRowType, Zenon DEF Claim, RowStates
  <2>4. NewClaim(j, rows[j].attempt, proof.token, "open") \in Claims
    BY <2>1, <2>2, Zenon DEF NewClaim, Claims, Fates
  <2>5. claims' \in [Tokens -> Claims]
    BY <1>0, <1>8, <2>4, Zenon DEF Claim
  <2>6. claimed \in Worker
    BY <2>1, <2>2, Zenon DEF Worker, Errors
  <2>7. workers' \in [Workers -> Worker] /\ disruptions' \in 0..MaxDisruptions
    BY <1>0, <1>8, <2>6, IdleType, DisruptionsType, Zenon DEF Claim, Fault
  <2>8. issued' \in 0..MaxClaims
    BY <1>8, <2>2 DEF Claim, Tokens
  <2> QED BY <1>8, <2>3, <2>5, <2>7, <2>8, Zenon DEF TypeOK, Claim
<1>9. ASSUME NEW w \in Workers, ClaimNothing(w) PROVE TypeOK'
  <2>1. workers' \in [Workers -> Worker]
    BY <1>0, <1>9, IdleType, Zenon DEF ClaimNothing
  <2>2. disruptions' \in 0..MaxDisruptions
    BY <1>9, DisruptionsType, Zenon DEF ClaimNothing
  <2> QED BY <1>9, <2>1, <2>2, Zenon DEF TypeOK, ClaimNothing
<1>10. ASSUME NEW w \in Workers, HandlerMissing(w) PROVE TypeOK'
  <2>1. workers' \in [Workers -> Worker]
    BY <1>0, <1>10, WorkerUpdateType, Zenon DEF HandlerMissing, Errors
  <2> QED BY <1>10, <2>1, Zenon DEF TypeOK, HandlerMissing
<1>11. ASSUME NEW w \in Workers, MarkApplicationStateCommitted(w) PROVE TypeOK'
  <2>1. workers' \in [Workers -> Worker]
    BY <1>0, <1>11, WorkerUpdateType, Zenon DEF MarkApplicationStateCommitted
  <2>2. receipt' \in [Jobs -> Tokens \cup {NoToken}]
    BY <1>0, <1>11, Zenon DEF MarkApplicationStateCommitted, BusyWorkersHaveJobs
  <2> QED BY <1>11, <2>1, <2>2, Zenon DEF TypeOK, MarkApplicationStateCommitted
<1>12. ASSUME NEW w \in Workers, NEW err \in Errors, HandlerReturns(w, err) PROVE TypeOK'
  <2>1. workers' \in [Workers -> Worker] /\ disruptions' \in 0..MaxDisruptions
    BY <1>0, <1>12, WorkerUpdateType, DisruptionsType, Zenon DEF HandlerReturns
  <2> QED BY <1>12, <2>1, Zenon DEF TypeOK, HandlerReturns
<1>13. ASSUME NEW w \in Workers, NEW db \in DBResults, Settle(w, db) PROVE TypeOK'
  <2> DEFINE m == workers[w]
  <2>1. m \in Worker /\ m.job \in Jobs /\ m.token \in Tokens
    BY <1>0, <1>13, Zenon DEF Settle, BusyWorkersHaveJobs
  <2>2. SettledRow(m) \in Row /\ SettledFate(m) \in Fates /\ claims[m.token] \in Claims
    BY <1>0, <2>1, SettledRowType, SettledFateType, Zenon DEF Fates
  <2>3. m.handled \in BOOLEAN
    BY <2>1, Zenon DEF Worker
  <2>4. rows' \in [Jobs -> Row]
    BY <1>0, <1>13, <2>1, <2>2, Zenon DEF Settle
  <2>5. claims' \in [Tokens -> Claims]
    BY <1>0, <1>13, <2>1, <2>2, <2>3, ClaimUpdateType, Zenon DEF Settle
  <2>6. workers' \in [Workers -> Worker] /\ disruptions' \in 0..MaxDisruptions
    BY <1>0, <1>13, <2>1, WorkerUpdateType, IdleType, DisruptionsType, Zenon DEF Settle, Fault
  <2> QED BY <1>13, <2>4, <2>5, <2>6, Zenon DEF TypeOK, Settle
<1>14. ASSUME NEW w \in Workers, NEW db \in DBResults, RestoreLineage(w, db) PROVE TypeOK'
  <2> DEFINE m == workers[w]
  <2>1. m \in Worker /\ m.job \in Jobs /\ m.token \in Tokens
    BY <1>0, <1>14, Zenon DEF RestoreLineage, BusyWorkersHaveJobs
  <2>2. NewRow("pending", m.attempt, InheritedProof(m), FALSE) \in Row
    BY <2>1, InheritedProofType, NewRowType, Zenon DEF RowStates, Worker
  <2>3. [claims[m.token] EXCEPT !.fate = "repaired"] \in Claims
    BY <1>0, <2>1, ClaimUpdateType, Zenon DEF Fates
  <2>4. rows' \in [Jobs -> Row] /\ claims' \in [Tokens -> Claims]
    BY <1>0, <1>14, <2>1, <2>2, <2>3, Zenon DEF RestoreLineage
  <2>5. workers' \in [Workers -> Worker] /\ disruptions' \in 0..MaxDisruptions
    BY <1>0, <1>14, IdleType, DisruptionsType, Zenon DEF RestoreLineage, Fault
  <2> QED BY <1>14, <2>4, <2>5, Zenon DEF TypeOK, RestoreLineage
<1>15. ASSUME NEW w \in Workers, Crash(w) PROVE TypeOK'
  <2>1. workers' \in [Workers -> Worker] /\ disruptions' \in 0..MaxDisruptions
    BY <1>0, <1>15, IdleType, DisruptionsType, Zenon DEF Crash
  <2> QED BY <1>15, <2>1, Zenon DEF TypeOK, Crash
<1>16. CASE UNCHANGED vars
  BY <1>16, Zenon DEF TypeOK, vars
<1> QED
  BY <1>1, <1>2, <1>3, <1>4, <1>5, <1>6, <1>7, <1>8, <1>9, <1>10, <1>11, <1>12, <1>13,
     <1>14, <1>15, <1>16, Zenon DEF Next, WorkerStep, DeleteJob, ClearQueue, Stored, DBResults

(***************************************************************************)
(* The inductive invariant of the claim protocol, by row, by token and by  *)
(* worker.                                                                 *)
(***************************************************************************)
Stalled == {"recovered", "returned"}

\* Tokens are issued in order; an issued token belongs to a job.
IssuedOK(t) ==
  /\ claims[t].fate = "free" <=> t > issued
  /\ claims[t].fate # "free" => claims[t].job \in Jobs

\* A processing row is fenced by an open claim of the row's attempt.
FencedOK(j) ==
  rows[j].state = "processing" =>
    /\ rows[j].token # RecoveryMarker
    /\ rows[j].token \in Tokens =>
         /\ claims[rows[j].token].fate = "open"
         /\ claims[rows[j].token].job = j
         /\ claims[rows[j].token].attempt = rows[j].attempt

OpenOK(t) ==
  claims[t].fate = "open" =>
    rows[claims[t].job].state = "processing" /\ rows[claims[t].job].token = t

\* g is an earlier generation of job j, of attempt a, that ended unsettled.
EarlierGeneration(g, j, a) ==
  claims[g].job = j /\ claims[g].attempt = a /\ claims[g].fate \in Stalled

ProofOK(j) ==
  rows[j].state = "pending" /\ rows[j].token \in Tokens =>
    EarlierGeneration(rows[j].token, j, rows[j].attempt)

InheritedOK(t) ==
  claims[t].inherited \in Tokens =>
    EarlierGeneration(claims[t].inherited, claims[t].job, claims[t].attempt)

DoneOK(t) ==
  /\ claims[t].fate = "done" => rows[claims[t].job].state = "done"
  /\ claims[t].published => claims[t].fate \in {"done", "retried", "returned", "dead"}

DoneOnce ==
  \A s, t \in Tokens :
    (claims[s].fate = "done" /\ claims[t].fate = "done" /\ claims[s].job = claims[t].job)
      => s = t

\* A busy worker's memory agrees with its claim.
WorkerOK(w) ==
  workers[w].pc \in {"run", "settle", "repair"} =>
    /\ workers[w].job \in Jobs /\ workers[w].token \in Tokens
    /\ claims[workers[w].token].fate # "free"
    /\ claims[workers[w].token].job = workers[w].job
    /\ claims[workers[w].token].attempt = workers[w].attempt
    /\ claims[workers[w].token].inherited = workers[w].recoveryToken
    /\ workers[w].recoveryToken # NoToken => workers[w].recovered

TableInv ==
  /\ \A j \in Jobs : FencedOK(j) /\ ProofOK(j)
  /\ \A t \in Tokens : IssuedOK(t) /\ OpenOK(t) /\ InheritedOK(t) /\ DoneOK(t)
  /\ DoneOnce

WorkerInv == \A w \in Workers : WorkerOK(w)

ClaimInv == TypeOK /\ TableInv /\ WorkerInv

\* Steps that touch neither the fence, the proof nor the attempt of a row.
LEMMA TableFrame ==
  ASSUME TableInv,
         \A j \in Jobs : /\ rows'[j].state = rows[j].state
                         /\ rows'[j].token = rows[j].token
                         /\ rows'[j].attempt = rows[j].attempt,
         \A t \in Tokens : claims[t].fate # "free" => claims[t].job \in Jobs,
         claims' = claims, issued' = issued
  PROVE  TableInv'
<1>1. ASSUME NEW j \in Jobs PROVE FencedOK(j)' /\ ProofOK(j)'
  BY DEF TableInv, FencedOK, ProofOK, EarlierGeneration
<1>2. ASSUME NEW t \in Tokens PROVE (IssuedOK(t) /\ OpenOK(t) /\ InheritedOK(t) /\ DoneOK(t))'
  <2>1. IssuedOK(t) /\ OpenOK(t) /\ InheritedOK(t) /\ DoneOK(t)
    BY Zenon DEF TableInv
  <2>2. CASE claims[t].fate = "free"
    BY <2>1, <2>2, Zenon DEF IssuedOK, OpenOK, InheritedOK, DoneOK, EarlierGeneration
  <2>3. CASE claims[t].job \in Jobs
    BY <2>1, <2>3, Zenon DEF IssuedOK, OpenOK, InheritedOK, DoneOK, EarlierGeneration
  <2> QED BY <2>2, <2>3, Zenon
<1>3. DoneOnce'
  BY Zenon DEF TableInv, DoneOnce
<1> QED BY <1>1, <1>2, <1>3, Zenon DEF TableInv

\* Ending the claims of some rows changes their fate and nothing else.
LEMMA EndClaimsFields ==
  ASSUME TypeOK, NEW js \in SUBSET Jobs, NEW f \in Fates, NEW t \in Tokens
  PROVE  LET c == EndClaims(js, f)[t]
         IN  /\ c.job = claims[t].job /\ c.attempt = claims[t].attempt
             /\ c.inherited = claims[t].inherited /\ c.published = claims[t].published
             /\ c.fate = IF \E j \in js : rows[j].state = "processing" /\ rows[j].token = t
                         THEN f ELSE claims[t].fate
BY Zenon DEF TypeOK, EndClaims, Claims

\* Moving the rows of js out of processing, and ending their claims.
LEMMA EndClaimsTable ==
  ASSUME TypeOK, TableInv, NEW js \in SUBSET Jobs, NEW f \in {"recovered", "revoked"},
         \A j \in js : rows'[j].state \in {"pending", "dead", "removed"},
         \A j \in js : rows'[j].token \in Tokens =>
            /\ f = "recovered" /\ rows[j].state = "processing"
            /\ rows'[j].token = rows[j].token /\ rows'[j].attempt = rows[j].attempt,
         \A j \in js : rows[j].state # "done",
         \A j \in Jobs \ js : rows'[j] = rows[j],
         claims' = EndClaims(js, f), issued' = issued
  PROVE  TableInv'
<1> DEFINE Ended(t) == \E j \in js : rows[j].state = "processing" /\ rows[j].token = t
<1>1. \A t \in Tokens :
        /\ claims'[t].job = claims[t].job /\ claims'[t].attempt = claims[t].attempt
        /\ claims'[t].inherited = claims[t].inherited
        /\ claims'[t].published = claims[t].published
        /\ claims'[t].fate = IF Ended(t) THEN f ELSE claims[t].fate
  BY EndClaimsFields DEF Fates
<1>2. \A t \in Tokens : Ended(t) => claims[t].fate = "open" /\ claims[t].job \in js
  BY DEF TableInv, FencedOK
<1>3. \A g \in Tokens : claims[g].fate \in Stalled => claims'[g].fate = claims[g].fate
  BY <1>1, <1>2, Zenon DEF Stalled
<1>4. ASSUME NEW j \in Jobs PROVE FencedOK(j)' /\ ProofOK(j)'
  <2>1. CASE j \in js
    <3>1. FencedOK(j)'
      BY <2>1, Zenon DEF FencedOK
    <3>2. ASSUME rows'[j].token \in Tokens
          PROVE  EarlierGeneration(rows[j].token, j, rows[j].attempt)'
                 /\ rows'[j].token = rows[j].token /\ rows'[j].attempt = rows[j].attempt
      <4>1. f = "recovered" /\ rows[j].state = "processing" /\ rows[j].token \in Tokens
            /\ rows'[j].token = rows[j].token /\ rows'[j].attempt = rows[j].attempt
        BY <2>1, <3>2, Zenon
      <4>2. claims[rows[j].token].job = j /\ claims[rows[j].token].attempt = rows[j].attempt
        BY <4>1, Zenon DEF TableInv, FencedOK
      <4>3. claims'[rows[j].token].fate = "recovered"
        BY <1>1, <2>1, <4>1, Zenon
      <4> QED BY <1>1, <4>1, <4>2, <4>3 DEF EarlierGeneration, Stalled
    <3> QED BY <3>1, <3>2, Zenon DEF ProofOK, EarlierGeneration
  <2>2. CASE j \notin js
    <3>1. rows'[j] = rows[j]
      BY <2>2, Zenon
    <3>2. rows[j].state = "processing" /\ rows[j].token \in Tokens => ~Ended(rows[j].token)
      BY <1>2, <2>2, Zenon DEF TableInv, FencedOK
    <3>3. FencedOK(j)'
      BY <1>1, <3>1, <3>2 DEF TableInv, FencedOK
    <3>4. ProofOK(j)'
      BY <1>1, <1>3, <3>1 DEF TableInv, ProofOK, EarlierGeneration
    <3> QED BY <3>3, <3>4, Zenon
  <2> QED BY <2>1, <2>2, Zenon
<1>5. ASSUME NEW t \in Tokens PROVE (IssuedOK(t) /\ OpenOK(t) /\ InheritedOK(t) /\ DoneOK(t))'
  <2>1. IssuedOK(t) /\ OpenOK(t) /\ InheritedOK(t) /\ DoneOK(t)
    BY Zenon DEF TableInv
  <2>2. IssuedOK(t)'
    BY <1>1, <1>2, <2>1, Zenon DEF IssuedOK
  <2>3. OpenOK(t)'
    <3>1. ASSUME claims'[t].fate = "open"
          PROVE  claims[t].fate = "open" /\ ~Ended(t) /\ claims[t].job \in Jobs
      BY <1>1, <2>1, <3>1, Zenon DEF IssuedOK
    <3>2. ASSUME claims'[t].fate = "open"
          PROVE  rows[claims[t].job].state = "processing" /\ rows[claims[t].job].token = t
                 /\ claims[t].job \notin js
      BY <2>1, <3>1, <3>2, Zenon DEF OpenOK
    <3> QED BY <1>1, <3>1, <3>2 DEF OpenOK
  <2>4. InheritedOK(t)'
    BY <1>1, <1>3, <2>1 DEF InheritedOK, EarlierGeneration
  <2>5. DoneOK(t)'
    <3>1. claims'[t].fate = "done" => claims[t].fate = "done" /\ claims[t].job \in Jobs
      BY <1>1, <2>1, Zenon DEF IssuedOK
    <3>2. claims'[t].fate = "done" => rows'[claims[t].job].state = "done"
      BY <2>1, <3>1, Zenon DEF DoneOK
    <3>3. claims'[t].published => claims'[t].fate \in {"done", "retried", "returned", "dead"}
      BY <1>1, <1>2, <2>1, Zenon DEF DoneOK
    <3> QED BY <1>1, <3>2, <3>3, Zenon DEF DoneOK
  <2> QED BY <2>2, <2>3, <2>4, <2>5, Zenon
<1>6. DoneOnce'
  BY <1>1 DEF TableInv, DoneOnce
<1> QED BY <1>4, <1>5, <1>6, Zenon DEF TableInv

\* The fenced statement of the claim's own worker: job j leaves processing.
LEMMA SettleTable ==
  ASSUME TypeOK, TableInv, NEW j \in Jobs, NEW t \in Tokens, NEW r \in Row, NEW c \in Claims,
         rows[j].state = "processing", rows[j].token = t,
         rows' = [rows EXCEPT ![j] = r], claims' = [claims EXCEPT ![t] = c], issued' = issued,
         c.job = claims[t].job, c.attempt = claims[t].attempt,
         c.inherited = claims[t].inherited,
         c.fate \in {"done", "retried", "returned", "dead", "repaired"},
         c.published => c.fate # "repaired",
         r.state \in {"pending", "dead", "done"},
         r.state = "done" <=> c.fate = "done",
         r.state = "pending" /\ r.token \in Tokens =>
           /\ r.attempt = rows[j].attempt
           /\ (r.token = t /\ c.fate = "returned") \/ r.token = claims[t].inherited
  PROVE  TableInv'
<1>1. claims[t].fate = "open" /\ claims[t].job = j /\ claims[t].attempt = rows[j].attempt
  BY Zenon DEF TableInv, FencedOK
<1>2. /\ rows'[j] = r /\ \A k \in Jobs \ {j} : rows'[k] = rows[k]
      /\ claims'[t] = c /\ \A s \in Tokens \ {t} : claims'[s] = claims[s]
  BY Zenon DEF TypeOK
<1>3. \A g \in Tokens : /\ claims'[g].job = claims[g].job /\ claims'[g].attempt = claims[g].attempt
                        /\ claims'[g].inherited = claims[g].inherited
                        /\ claims[g].fate \in Stalled => claims'[g].fate = claims[g].fate
  BY <1>1, <1>2 DEF Stalled
<1>4. ASSUME NEW k \in Jobs PROVE FencedOK(k)' /\ ProofOK(k)'
  <2>1. CASE k = j
    <3>1. FencedOK(k)'
      BY <1>2, <2>1, Zenon DEF FencedOK
    <3>2. ASSUME r.state = "pending", r.token \in Tokens
          PROVE  EarlierGeneration(r.token, j, r.attempt)'
      <4>1. CASE r.token = t /\ c.fate = "returned"
        BY <1>1, <1>2, <3>2, <4>1, Zenon DEF EarlierGeneration, Stalled
      <4>2. CASE r.token = claims[t].inherited
        <5>1. EarlierGeneration(r.token, j, rows[j].attempt)
          BY <1>1, <3>2, <4>2, Zenon DEF TableInv, InheritedOK
        <5> QED BY <1>3, <3>2, <5>1, Zenon DEF EarlierGeneration
      <4> QED BY <3>2, <4>1, <4>2, Zenon
    <3>3. ProofOK(k)'
      BY <1>2, <2>1, <3>2, Zenon DEF ProofOK, EarlierGeneration
    <3> QED BY <3>1, <3>3, Zenon
  <2>2. CASE k # j
    <3>1. rows'[k] = rows[k]
      BY <1>2, <2>2, Zenon
    <3>2. rows[k].state = "processing" /\ rows[k].token \in Tokens => rows[k].token # t
      BY <1>1, <2>2 DEF TableInv, FencedOK
    <3>3. FencedOK(k)'
      BY <1>2, <3>1, <3>2 DEF TableInv, FencedOK
    <3>4. ProofOK(k)'
      BY <1>3, <3>1 DEF TableInv, ProofOK, EarlierGeneration
    <3> QED BY <3>3, <3>4, Zenon
  <2> QED BY <2>1, <2>2, Zenon
<1>5. ASSUME NEW s \in Tokens PROVE (IssuedOK(s) /\ OpenOK(s) /\ InheritedOK(s) /\ DoneOK(s))'
  <2>1. IssuedOK(s) /\ OpenOK(s) /\ InheritedOK(s) /\ DoneOK(s)
    BY Zenon DEF TableInv
  <2>2. IssuedOK(s)'
    BY <1>1, <1>2, <2>1 DEF IssuedOK
  <2>3. InheritedOK(s)'
    BY <1>3, <2>1 DEF InheritedOK, EarlierGeneration
  <2>4. CASE s = t
    BY <1>1, <1>2, <2>2, <2>3, <2>4 DEF OpenOK, DoneOK
  <2>5. CASE s # t
    <3>1. claims'[s] = claims[s]
      BY <1>2, <2>5, Zenon
    <3>2. claims[s].fate = "open" => claims[s].job # j /\ claims[s].job \in Jobs
      BY <2>1, <2>5, Zenon DEF OpenOK, IssuedOK
    <3>3. claims[s].fate = "done" => claims[s].job # j /\ claims[s].job \in Jobs
      BY <2>1, Zenon DEF DoneOK, IssuedOK
    <3>4. OpenOK(s)'
      BY <1>2, <2>1, <3>1, <3>2 DEF OpenOK
    <3>5. DoneOK(s)'
      BY <1>2, <2>1, <3>1, <3>3 DEF DoneOK
    <3> QED BY <2>2, <2>3, <3>4, <3>5, Zenon
  <2> QED BY <2>4, <2>5, Zenon
<1>6. DoneOnce'
  <2>1. \A s \in Tokens \ {t} : claims[s].fate = "done" => claims[s].job # j
    BY Zenon DEF TableInv, DoneOK
  <2> QED BY <1>1, <1>2, <2>1 DEF TableInv, DoneOnce
<1> QED BY <1>4, <1>5, <1>6, Zenon DEF TableInv

\* A claim opens the next token on a pending row.
LEMMA ClaimTable ==
  ASSUME TypeOK, TableInv, NEW w \in Workers, NEW j \in Jobs, NEW db \in DBResults,
         Claim(w, j, db)
  PROVE  TableInv' /\ issued + 1 \in Tokens
<1> DEFINE t == issued + 1
           proof == databaseRecoveryProof(rows[j].token)
<1>1. t \in Tokens /\ issued \in Nat
  BY BoundsAssumption DEF Claim, TypeOK, Tokens
<1>2. /\ rows[j].state = "pending" /\ issued' = t
      /\ rows' = [rows EXCEPT ![j] = NewRow("processing", rows[j].attempt, t, FALSE)]
      /\ claims' = [claims EXCEPT ![t] = NewClaim(j, rows[j].attempt, proof.token, "open")]
  BY Zenon DEF Claim, selectPendingJob, Claimable
<1>3. /\ rows'[j].state = "processing" /\ rows'[j].token = t
      /\ rows'[j].attempt = rows[j].attempt /\ \A k \in Jobs \ {j} : rows'[k] = rows[k]
      /\ claims'[t].job = j /\ claims'[t].attempt = rows[j].attempt
      /\ claims'[t].inherited = proof.token /\ claims'[t].fate = "open" /\ ~claims'[t].published
      /\ \A s \in Tokens \ {t} : claims'[s] = claims[s]
  BY <1>1, <1>2, Zenon DEF TypeOK, NewRow, NewClaim
<1>4. claims[t].fate = "free"
  BY <1>1 DEF TableInv, IssuedOK
<1>5. \A g \in Tokens : claims[g].fate \in Stalled => claims'[g] = claims[g] /\ g # t
  BY <1>3, <1>4, Zenon DEF Stalled
<1>6. t # RecoveryMarker
  BY <1>1 DEF Tokens, RecoveryMarker
<1>7. ASSUME NEW k \in Jobs PROVE FencedOK(k)' /\ ProofOK(k)'
  <2>1. CASE k = j
    BY <1>1, <1>3, <1>6, <2>1, Zenon DEF FencedOK, ProofOK
  <2>2. CASE k # j
    <3>1. rows'[k] = rows[k]
      BY <1>3, <2>2, Zenon
    <3>2. rows[k].state = "processing" /\ rows[k].token \in Tokens => rows[k].token # t
      BY <1>4, Zenon DEF TableInv, FencedOK
    <3>3. FencedOK(k)'
      BY <1>3, <3>1, <3>2 DEF TableInv, FencedOK
    <3>4. ProofOK(k)'
      BY <1>5, <3>1 DEF TableInv, ProofOK, EarlierGeneration
    <3> QED BY <3>3, <3>4, Zenon
  <2> QED BY <2>1, <2>2, Zenon
<1>8. ASSUME NEW s \in Tokens PROVE (IssuedOK(s) /\ OpenOK(s) /\ InheritedOK(s) /\ DoneOK(s))'
  <2>1. IssuedOK(s) /\ OpenOK(s) /\ InheritedOK(s) /\ DoneOK(s)
    BY Zenon DEF TableInv
  <2>2. CASE s = t
    <3>0. ~(s > issued')
      BY <1>1, <1>2, <2>2
    <3>1. IssuedOK(s)' /\ OpenOK(s)' /\ DoneOK(s)'
      BY <1>3, <2>2, <3>0, Zenon DEF IssuedOK, OpenOK, DoneOK
    <3>2. proof.token \in Tokens =>
            proof.token = rows[j].token /\ EarlierGeneration(proof.token, j, rows[j].attempt)
      BY <1>2 DEF databaseRecoveryProof, TableInv, ProofOK, Tokens, NoToken
    <3>3. InheritedOK(s)'
      BY <1>3, <1>5, <2>2, <3>2, ZenonT(60) DEF InheritedOK, EarlierGeneration
    <3> QED BY <3>1, <3>3, Zenon
  <2>3. CASE s # t
    <3>1. claims'[s] = claims[s]
      BY <1>3, <2>3, Zenon
    <3>2. IssuedOK(s)'
      <4>1. s > issued <=> s > issued'
        BY <1>1, <1>2, <2>3 DEF Tokens
      <4> QED BY <2>1, <3>1, <4>1, Zenon DEF IssuedOK
    <3>3. claims[s].fate \in {"open", "done"} => claims[s].job \in Jobs /\ claims[s].job # j
      BY <1>2, <2>1, Zenon DEF IssuedOK, OpenOK, DoneOK
    <3>4. OpenOK(s)' /\ DoneOK(s)'
      BY <1>3, <2>1, <3>1, <3>3 DEF OpenOK, DoneOK
    <3>5. InheritedOK(s)'
      BY <1>5, <2>1, <3>1, Zenon DEF InheritedOK, EarlierGeneration
    <3> QED BY <3>2, <3>4, <3>5, Zenon
  <2> QED BY <2>2, <2>3, Zenon
<1>9. DoneOnce'
  BY <1>3 DEF TableInv, DoneOnce
<1> QED BY <1>1, <1>7, <1>8, <1>9, Zenon DEF TableInv

\* A settlement that leaves the row pending under a proof is a redelivery of
\* the same attempt, and the proof is the claim's own token or its inheritance.
LEMMA SettledRowFacts ==
  ASSUME NEW m \in Worker, m.job \in Jobs
  PROVE  /\ SettledRow(m).state \in {"pending", "dead", "done"}
         /\ SettledRow(m).state = "done" <=> SettledFate(m) = "done"
         /\ SettledRow(m).state = "pending" /\ SettledRow(m).token \in Tokens =>
              /\ SettledRow(m).attempt = m.attempt /\ SettledFate(m) = "returned"
              /\ SettledRow(m).token \in {m.token, m.recoveryToken}
<1> DEFINE s == classifyDatabaseFailure(m)
<1>1. m.attempt \in Nat /\ m.attempt + 1 # m.attempt
  BY DEF Worker
<1>2. Decision(m) = "succeeded" <=> m.err = "nil"
  BY Zenon DEF Decision, ClassifyAttempt
<1>3. CASE m.err = "nil"
  <2>1. SettledRow(m).state = "done" /\ SettledFate(m) = "done"
    BY <1>2, <1>3, Zenon DEF SettledRow, SettledFate, AbsentRow, NewRow
  <2> QED BY <2>1, Zenon
<1>4. CASE m.err # "nil"
  <2>1. /\ SettledRow(m).state = s.state /\ SettledRow(m).attempt = s.attempt
        /\ SettledRow(m).token = databasePendingRecoveryToken(m, s)
    BY <1>4, Zenon DEF SettledRow, NewRow
  <2>2. s.state \in {"pending", "dead"} /\ SettledFate(m) # "done"
    BY <1>2, <1>4, Zenon DEF classifyDatabaseFailure, SettledFate
  <2>3. ASSUME s.state = "pending", databasePendingRecoveryToken(m, s) \in Tokens
        PROVE  /\ s.attempt = m.attempt
               /\ databasePendingRecoveryToken(m, s) \in {m.token, m.recoveryToken}
    <3>1. 0 \notin Tokens /\ -1 \notin Tokens
      BY DEF Tokens
    <3> QED
      BY <2>3, <3>1, Zenon DEF databasePendingRecoveryToken, InheritedProof, NoToken, RecoveryMarker
  <2>4. s.attempt = m.attempt => Decision(m) = "redeliver"
    BY <1>1, Zenon DEF classifyDatabaseFailure
  <2>5. Decision(m) = "redeliver" => SettledFate(m) = "returned"
    BY Zenon DEF SettledFate
  <2> QED BY <2>1, <2>2, <2>3, <2>4, <2>5, Zenon
<1> QED BY <1>3, <1>4, Zenon

\* Settle, applied or lost, keeps the table half of the invariant.
LEMMA SettleStepTable ==
  ASSUME TypeOK, TableInv, NEW w \in Workers, NEW db \in DBResults, Settle(w, db), WorkerOK(w)
  PROVE  TableInv'
<1> DEFINE m == workers[w]
           c == [claims[m.token] EXCEPT !.fate = SettledFate(m),
                                        !.published = db = "ok" /\ m.handled]
<1>1. m \in Worker /\ m.job \in Jobs /\ m.token \in Tokens
  BY Zenon DEF Settle, TypeOK, WorkerOK
<1>2. /\ claims[m.token].attempt = m.attempt /\ claims[m.token].inherited = m.recoveryToken
      /\ claims[m.token] \in Claims
  BY <1>1, Zenon DEF Settle, WorkerOK, TypeOK
<1>3. CASE Applies(m, db)
  <2>1. rows[m.job].state = "processing" /\ rows[m.job].token = m.token
    BY <1>3, Zenon DEF Applies, Fenced
  <2>2. /\ rows' = [rows EXCEPT ![m.job] = SettledRow(m)]
        /\ claims' = [claims EXCEPT ![m.token] = c] /\ issued' = issued
    BY <1>3, Zenon DEF Settle
  <2>3. SettledRow(m) \in Row
    BY <1>1, SettledRowType, Zenon
  <2>4. SettledFate(m) \in {"done", "retried", "returned", "dead"} /\ m.handled \in BOOLEAN
    BY <1>1, SettledFateType, Zenon DEF Worker
  <2>5. /\ c \in Claims /\ c.fate = SettledFate(m) /\ c.job = claims[m.token].job
        /\ c.attempt = claims[m.token].attempt /\ c.inherited = claims[m.token].inherited
    <3>1. c \in Claims
      BY <1>2, <2>4, ClaimUpdateType, Zenon DEF Fates
    <3> QED BY <1>2, <3>1, Zenon DEF Claims
  <2>6. rows[m.job].attempt = m.attempt
    BY <1>1, <1>2, <2>1, Zenon DEF TableInv, FencedOK
  <2>7. /\ SettledRow(m).state \in {"pending", "dead", "done"}
        /\ SettledRow(m).state = "done" <=> SettledFate(m) = "done"
        /\ SettledRow(m).state = "pending" /\ SettledRow(m).token \in Tokens =>
             /\ SettledRow(m).attempt = m.attempt /\ SettledFate(m) = "returned"
             /\ SettledRow(m).token \in {m.token, m.recoveryToken}
    BY <1>1, SettledRowFacts, Zenon
  <2> HIDE DEF m, c
  <2> QED
    BY <1>1, <1>2, <2>1, <2>2, <2>3, <2>4, <2>5, <2>6, <2>7, SettleTable, Zenon
<1>4. CASE ~Applies(m, db)
  <2>1. rows' = rows /\ claims' = claims /\ issued' = issued
    BY <1>4, Zenon DEF Settle
  <2> QED BY <2>1, TableFrame, Zenon DEF TableInv, IssuedOK
<1> QED BY <1>3, <1>4, Zenon

\* restoreRecoveredSettlementLineage keeps the table half of the invariant.
LEMMA RepairStepTable ==
  ASSUME TypeOK, TableInv, NEW w \in Workers, NEW db \in DBResults, RestoreLineage(w, db),
         WorkerOK(w)
  PROVE  TableInv'
<1> DEFINE m == workers[w]
           r == NewRow("pending", m.attempt, InheritedProof(m), FALSE)
           c == [claims[m.token] EXCEPT !.fate = "repaired"]
           repaired == NeedsLineageRepair(m) /\ Applies(m, db) /\ rows[m.job].attempt = m.attempt
<1>1. m \in Worker /\ m.job \in Jobs /\ m.token \in Tokens /\ m.attempt \in Nat
  BY Zenon DEF RestoreLineage, TypeOK, WorkerOK, Worker
<1>2. claims[m.token].inherited = m.recoveryToken /\ claims[m.token] \in Claims
  BY <1>1, Zenon DEF RestoreLineage, WorkerOK, TypeOK
<1>3. CASE repaired
  <2>1. /\ rows[m.job].state = "processing" /\ rows[m.job].token = m.token
        /\ rows[m.job].attempt = m.attempt
    BY <1>3, Zenon DEF Applies, Fenced
  <2>2. /\ rows' = [rows EXCEPT ![m.job] = r] /\ claims' = [claims EXCEPT ![m.token] = c]
        /\ issued' = issued
    BY <1>3, Zenon DEF RestoreLineage
  <2>3. r \in Row /\ r.state = "pending" /\ r.attempt = m.attempt /\ r.token = InheritedProof(m)
    BY <1>1, InheritedProofType, NewRowType, Zenon DEF RowStates, NewRow
  <2>4. c \in Claims
    BY <1>2, ClaimUpdateType, Zenon DEF Fates
  <2>5. /\ c.fate = "repaired" /\ c.job = claims[m.token].job
        /\ c.attempt = claims[m.token].attempt /\ c.inherited = claims[m.token].inherited
        /\ c.published = claims[m.token].published
    BY <1>2, Zenon DEF Claims
  <2>6. ~claims[m.token].published
    BY <1>1, <2>1, Zenon DEF TableInv, FencedOK, DoneOK
  <2>7. InheritedProof(m) \in Tokens => InheritedProof(m) = m.recoveryToken
    BY DEF InheritedProof, Tokens, NoToken, RecoveryMarker
  <2> HIDE DEF m, c, r
  <2> QED
    BY <1>1, <1>2, <2>1, <2>2, <2>3, <2>4, <2>5, <2>6, <2>7, SettleTable, Zenon
<1>4. CASE ~repaired
  <2>1. rows' = rows /\ claims' = claims /\ issued' = issued
    BY <1>4, Zenon DEF RestoreLineage
  <2> QED BY <2>1, TableFrame, Zenon DEF TableInv, IssuedOK
<1> QED BY <1>3, <1>4, Zenon

\* What no step does to the history of tokens: an ended claim never changes,
\* and an issued token keeps its job, attempt and inheritance.
EndedKept ==
  \A t \in Tokens : claims[t].fate \notin {"free", "open"} => claims'[t] = claims[t]
IdentityKept ==
  \A t \in Tokens : claims[t].fate # "free" =>
    /\ claims'[t].fate # "free" /\ claims'[t].job = claims[t].job
    /\ claims'[t].attempt = claims[t].attempt /\ claims'[t].inherited = claims[t].inherited

\* Ending the open claims of some rows revives no ended claim.
LEMMA EndClaimsKeep ==
  ASSUME TypeOK, TableInv, NEW js \in SUBSET Jobs, NEW f \in {"recovered", "revoked"},
         claims' = EndClaims(js, f)
  PROVE  EndedKept /\ IdentityKept
<1>1. ASSUME NEW t \in Tokens, \E j \in js : rows[j].state = "processing" /\ rows[j].token = t
      PROVE  claims[t].fate = "open"
  BY <1>1 DEF TableInv, FencedOK
<1>2. EndedKept
  BY <1>1, Zenon DEF EndedKept, EndClaims
<1>3. IdentityKept
  BY EndClaimsFields DEF IdentityKept, Fates
<1> QED BY <1>2, <1>3, Zenon

\* A step on one open claim revives no ended claim.
LEMMA OwnClaimKeep ==
  ASSUME TypeOK, TableInv, NEW j \in Jobs, NEW t \in Tokens, NEW c,
         rows[j].state = "processing", rows[j].token = t,
         claims' = [claims EXCEPT ![t] = c], c.fate # "free", c.job = claims[t].job,
         c.attempt = claims[t].attempt, c.inherited = claims[t].inherited
  PROVE  EndedKept /\ IdentityKept
<1>1. claims[t].fate = "open"
  BY Zenon DEF TableInv, FencedOK
<1> QED BY <1>1, Zenon DEF TypeOK, EndedKept, IdentityKept

\* A step that leaves the token history alone revives nothing.
LEMMA SameClaimsKeep == claims' = claims => EndedKept /\ IdentityKept
BY Zenon DEF EndedKept, IdentityKept

\* A settlement touches only the claim it is fenced by.
LEMMA SettleKeep ==
  ASSUME TypeOK, TableInv, NEW w \in Workers, NEW db \in DBResults, WorkerOK(w),
         Settle(w, db) \/ RestoreLineage(w, db)
  PROVE  EndedKept /\ IdentityKept
<1> DEFINE m == workers[w]
           c1 == [claims[m.token] EXCEPT !.fate = SettledFate(m),
                                         !.published = db = "ok" /\ m.handled]
           c2 == [claims[m.token] EXCEPT !.fate = "repaired"]
<1>1. m.job \in Jobs /\ m.token \in Tokens /\ claims[m.token] \in Claims
  BY Zenon DEF Settle, RestoreLineage, TypeOK, WorkerOK
<1>2. \/ claims' = claims
      \/ Applies(m, db) /\ claims' = [claims EXCEPT ![m.token] = c1]
      \/ Applies(m, db) /\ claims' = [claims EXCEPT ![m.token] = c2]
  BY Zenon DEF Settle, RestoreLineage
<1>3. SettledFate(m) # "free"
  BY SettledFateType, Zenon
<1>4. /\ c1.job = claims[m.token].job /\ c1.attempt = claims[m.token].attempt
      /\ c1.inherited = claims[m.token].inherited /\ c1.fate # "free"
      /\ c2.job = claims[m.token].job /\ c2.attempt = claims[m.token].attempt
      /\ c2.inherited = claims[m.token].inherited /\ c2.fate # "free"
  BY <1>1, <1>3, Zenon DEF Claims
<1>5. Applies(m, db) => rows[m.job].state = "processing" /\ rows[m.job].token = m.token
  BY Zenon DEF Applies, Fenced
<1> HIDE DEF m, c1, c2
<1> QED BY <1>1, <1>2, <1>4, <1>5, OwnClaimKeep, SameClaimsKeep, Zenon

\* What recoverStaleProcessing writes to a stale row.
LEMMA RecoveredRowFields ==
  ASSUME NEW r
  PROVE  /\ RecoveredRow(r).state = "pending" /\ RecoveredRow(r).attempt = r.attempt
         /\ RecoveredRow(r).token \in Tokens => RecoveredRow(r).token = r.token
<1>1. RecoveredRow(r).token = IF r.token = NoToken THEN RecoveryMarker ELSE r.token
  BY Zenon DEF RecoveredRow, NewRow
<1>2. RecoveredRow(r).state = "pending" /\ RecoveredRow(r).attempt = r.attempt
  BY Zenon DEF RecoveredRow, NewRow
<1> QED BY <1>1, <1>2, SpecialTokens, Zenon

\* The table half of the step: one case per action.
LEMMA TableStep ==
  ASSUME ClaimInv, [Next]_vars
  PROVE  TableInv' /\ EndedKept /\ IdentityKept
<1> USE DEF ClaimInv
<1>0. /\ rows \in [Jobs -> Row]
      /\ \A t \in Tokens : claims[t].fate # "free" => claims[t].job \in Jobs
  BY Zenon DEF TypeOK, TableInv, IssuedOK
<1>1. ASSUME NEW j \in Jobs, Dispatch(j) PROVE TableInv' /\ EndedKept /\ IdentityKept
  <2>1. PICK now \in BOOLEAN : rows' = [rows EXCEPT ![j] = NewRow("pending", 0, NoToken, now)]
    BY <1>1, Zenon DEF Dispatch
  <2>2. rows[j].state = "none" /\ claims' = claims /\ issued' = issued
    BY <1>1, Zenon DEF Dispatch
  <2>3. /\ rows'[j].state = "pending" /\ rows'[j].token \notin Tokens
        /\ \A k \in Jobs \ {j} : rows'[k] = rows[k]
    BY <1>0, <2>1 DEF NewRow, Tokens, NoToken
  <2>4. ASSUME NEW k \in Jobs PROVE FencedOK(k)' /\ ProofOK(k)'
    BY <2>2, <2>3 DEF TableInv, FencedOK, ProofOK, EarlierGeneration
  <2>5. ASSUME NEW t \in Tokens PROVE (IssuedOK(t) /\ OpenOK(t) /\ InheritedOK(t) /\ DoneOK(t))'
    <3>1. IssuedOK(t) /\ OpenOK(t) /\ InheritedOK(t) /\ DoneOK(t)
      BY Zenon DEF TableInv
    <3>2. IssuedOK(t)' /\ InheritedOK(t)'
      BY <2>2, <3>1, Zenon DEF IssuedOK, InheritedOK, EarlierGeneration
    <3>3. claims[t].fate \in {"open", "done"} => claims[t].job # j /\ claims[t].job \in Jobs
      BY <1>0, <2>2, <3>1, Zenon DEF OpenOK, DoneOK
    <3>4. OpenOK(t)' /\ DoneOK(t)'
      BY <2>2, <2>3, <3>1, <3>3, Zenon DEF OpenOK, DoneOK
    <3> QED BY <3>2, <3>4, Zenon
  <2>6. DoneOnce'
    BY <2>2, Zenon DEF TableInv, DoneOnce
  <2> QED BY <2>2, <2>4, <2>5, <2>6, SameClaimsKeep, Zenon DEF TableInv
<1>2. ASSUME NEW j \in Jobs, BecomeAvailable(j) \/ LeaseExpires(j)
      PROVE  TableInv' /\ EndedKept /\ IdentityKept
  <2>1. claims' = claims /\ issued' = issued
    BY <1>2, Zenon DEF BecomeAvailable, LeaseExpires
  <2>2. \A k \in Jobs : /\ rows'[k].state = rows[k].state /\ rows'[k].token = rows[k].token
                        /\ rows'[k].attempt = rows[k].attempt
    BY <1>0, <1>2 DEF BecomeAvailable, LeaseExpires, Row
  <2> QED BY <1>0, <2>1, <2>2, TableFrame, SameClaimsKeep, Zenon
<1>3. ASSUME NEW j \in Jobs, RetryJob(j) \/ CancelJob(j)
      PROVE  TableInv' /\ EndedKept /\ IdentityKept
  <2>1. claims' = EndClaims({j}, "revoked") /\ issued' = issued /\ rows[j].state # "done"
    BY <1>3, Zenon DEF RetryJob, CancelJob, Stored
  <2>2. /\ rows'[j].state \in {"pending", "dead"} /\ rows'[j].token \notin Tokens
        /\ \A k \in Jobs \ {j} : rows'[k] = rows[k]
    BY <1>0, <1>3 DEF RetryJob, CancelJob, NewRow, Tokens, NoToken
  <2> QED BY <2>1, <2>2, EndClaimsTable, EndClaimsKeep
<1>4. ASSUME NEW js \in SUBSET Stored, DeleteRows(js)
      PROVE  TableInv' /\ EndedKept /\ IdentityKept
  <2>1. /\ js \in SUBSET Jobs /\ claims' = EndClaims(js, "revoked") /\ issued' = issued
        /\ \A j \in js : rows[j].state # "done"
    BY <1>4, Zenon DEF DeleteRows, Stored
  <2>2. /\ \A j \in js : rows'[j].state = "removed" /\ rows'[j].token \notin Tokens
        /\ \A k \in Jobs \ js : rows'[k] = rows[k]
    BY <1>0, <1>4, <2>1 DEF DeleteRows, AbsentRow, NewRow, Tokens, NoToken
  <2> QED BY <2>1, <2>2, EndClaimsTable, EndClaimsKeep, Zenon
<1>5. ASSUME NEW w \in Workers, NEW db \in DBResults, recoverStaleProcessing(w, db)
      PROVE  TableInv' /\ EndedKept /\ IdentityKept
  <2>1. /\ StaleRows \in SUBSET Jobs /\ issued' = issued
        /\ claims' = EndClaims(StaleRows, "recovered")
        /\ \A j \in StaleRows : rows[j].state = "processing"
    BY <1>5, Zenon DEF recoverStaleProcessing, StaleRows
  <2>2. \A j \in StaleRows : rows'[j] = RecoveredRow(rows[j])
    BY <1>5, <2>1, Zenon DEF recoverStaleProcessing
  <2>3. \A k \in Jobs \ StaleRows : rows'[k] = rows[k]
    BY <1>5, Zenon DEF recoverStaleProcessing
  <2>4. \A j \in StaleRows :
          /\ rows'[j].state = "pending" /\ rows'[j].attempt = rows[j].attempt
          /\ rows'[j].token \in Tokens => rows'[j].token = rows[j].token
    BY <2>2, RecoveredRowFields, Zenon
  <2> QED BY <2>1, <2>3, <2>4, EndClaimsTable, EndClaimsKeep, Zenon
<1>6. ASSUME NEW w \in Workers, NEW j \in Jobs, NEW db \in DBResults, Claim(w, j, db)
      PROVE  TableInv' /\ EndedKept /\ IdentityKept
  <2>1. TableInv' /\ issued + 1 \in Tokens
    BY <1>6, ClaimTable, Zenon
  <2>2. claims[issued + 1].fate = "free"
    <3>1. issued + 1 > issued
      BY DEF TypeOK
    <3> QED BY <2>1, <3>1, Zenon DEF TableInv, IssuedOK
  <2>3. \A t \in Tokens \ {issued + 1} : claims'[t] = claims[t]
    BY <1>6, Zenon DEF Claim, TypeOK
  <2> QED BY <2>1, <2>2, <2>3, Zenon DEF EndedKept, IdentityKept
<1>7. ASSUME NEW w \in Workers, NEW db \in DBResults, Settle(w, db) \/ RestoreLineage(w, db)
      PROVE  TableInv' /\ EndedKept /\ IdentityKept
  BY <1>7, SettleStepTable, RepairStepTable, SettleKeep, Zenon DEF WorkerInv
<1>8. ASSUME rows' = rows, claims' = claims, issued' = issued
      PROVE  TableInv' /\ EndedKept /\ IdentityKept
  BY <1>0, <1>8, TableFrame, SameClaimsKeep, Zenon
<1>9. ASSUME NEW w \in Workers, NEW err \in Errors,
             \/ ClaimNothing(w) \/ HandlerMissing(w) \/ MarkApplicationStateCommitted(w)
             \/ HandlerReturns(w, err) \/ Crash(w)
      PROVE  rows' = rows /\ claims' = claims /\ issued' = issued
  BY <1>9, Zenon DEF ClaimNothing, HandlerMissing, MarkApplicationStateCommitted, HandlerReturns, Crash
<1>10. CASE UNCHANGED vars
  BY <1>8, <1>10, Zenon DEF vars
<1>11. "nil" \in Errors
  BY Zenon DEF Errors
<1> QED
  BY <1>1, <1>2, <1>3, <1>4, <1>5, <1>6, <1>7, <1>8, <1>9, <1>10, <1>11, Zenon
  DEF Next, WorkerStep, DeleteJob, ClearQueue, DBResults

\* A step gives a worker a new claim or leaves it the one it has.
KeepsDelivery(m, n) ==
  n.pc \in {"run", "settle", "repair"} =>
    /\ m.pc \in {"run", "settle", "repair"} /\ n.job = m.job /\ n.token = m.token
    /\ n.attempt = m.attempt /\ n.recoveryToken = m.recoveryToken
    /\ n.recovered = m.recovered

\* The steps inside a delivery keep the delivery's identity.
LEMMA WorkerUpdatesKeepDelivery ==
  ASSUME NEW m \in Worker
  PROVE  /\ KeepsDelivery(m, m) /\ KeepsDelivery(m, Idle)
         /\ \A x \in {"idle", "claim"} : KeepsDelivery(m, [m EXCEPT !.pc = x])
         /\ m.pc \in {"run", "settle", "repair"} =>
              /\ \A e \in Errors : KeepsDelivery(m, [m EXCEPT !.pc = "settle", !.err = e])
              /\ \A e \in Errors :
                   KeepsDelivery(m, [m EXCEPT !.pc = "settle", !.err = e, !.handled = TRUE])
              /\ KeepsDelivery(m, [m EXCEPT !.committed = TRUE])
              /\ KeepsDelivery(m, [m EXCEPT !.tries = @ + 1])
              /\ KeepsDelivery(m, [m EXCEPT !.pc = "repair"])
<1>1. KeepsDelivery(m, m) /\ KeepsDelivery(m, Idle)
  BY Zenon DEF KeepsDelivery, Idle
<1>2. ASSUME NEW x \in {"idle", "claim"} PROVE KeepsDelivery(m, [m EXCEPT !.pc = x])
  BY Zenon DEF KeepsDelivery, Worker
<1>3. ASSUME m.pc \in {"run", "settle", "repair"}, NEW e \in Errors
      PROVE  /\ KeepsDelivery(m, [m EXCEPT !.pc = "settle", !.err = e])
             /\ KeepsDelivery(m, [m EXCEPT !.pc = "settle", !.err = e, !.handled = TRUE])
  BY <1>3, Zenon DEF KeepsDelivery, Worker
<1>4. ASSUME m.pc \in {"run", "settle", "repair"}
      PROVE  /\ KeepsDelivery(m, [m EXCEPT !.committed = TRUE])
             /\ KeepsDelivery(m, [m EXCEPT !.tries = @ + 1])
             /\ KeepsDelivery(m, [m EXCEPT !.pc = "repair"])
  BY <1>4, Zenon DEF KeepsDelivery, Worker
<1> QED BY <1>1, <1>2, <1>3, <1>4, Zenon

\* A worker whose delivery is kept still agrees with its claim.
LEMMA KeptDeliveryOK ==
  ASSUME WorkerInv, IdentityKept, NEW w \in Workers, KeepsDelivery(workers[w], workers'[w])
  PROVE  WorkerOK(w)'
BY DEF WorkerInv, WorkerOK, IdentityKept, KeepsDelivery

\* The worker half of the step: memories agree with the token history.
LEMMA WorkerInvStep ==
  ASSUME ClaimInv, [Next]_vars, TableInv', IdentityKept
  PROVE  WorkerInv'
<1> USE DEF ClaimInv
<1>0. workers \in [Workers -> Worker]
  BY Zenon DEF TypeOK
<1>1. ASSUME workers' = workers PROVE WorkerInv'
  BY <1>0, <1>1, WorkerUpdatesKeepDelivery, KeptDeliveryOK, Zenon DEF WorkerInv
<1>2. ASSUME NEW w \in Workers, NEW n, workers' = [workers EXCEPT ![w] = n],
             KeepsDelivery(workers[w], n)
      PROVE  WorkerInv'
  <2>1. \A v \in Workers : KeepsDelivery(workers[v], workers'[v])
    BY <1>0, <1>2, WorkerUpdatesKeepDelivery, Zenon
  <2> QED BY <2>1, KeptDeliveryOK, Zenon DEF WorkerInv
<1>3. ASSUME NEW w \in Workers, NEW db \in DBResults, recoverStaleProcessing(w, db)
      PROVE  WorkerInv'
  BY <1>0, <1>2, <1>3, WorkerUpdatesKeepDelivery, Zenon DEF recoverStaleProcessing
<1>4. ASSUME NEW w \in Workers, NEW j \in Jobs, NEW db \in DBResults, Claim(w, j, db)
      PROVE  WorkerInv'
  <2> DEFINE t == issued + 1
             proof == databaseRecoveryProof(rows[j].token)
  <2>1. t \in Tokens
    BY <1>4, ClaimTable, Zenon
  <2>2. \A v \in Workers \ {w} : workers'[v] = workers[v]
    BY <1>0, <1>4, Zenon DEF Claim
  <2>3. \A v \in Workers \ {w} : WorkerOK(v)'
    BY <1>0, <2>2, WorkerUpdatesKeepDelivery, KeptDeliveryOK, Zenon
  <2>4. claims'[t] = NewClaim(j, rows[j].attempt, proof.token, "open")
    BY <1>4, <2>1, Zenon DEF Claim, TypeOK
  <2>5. CASE db = "ok"
    <3>1. /\ workers'[w].job = j /\ workers'[w].token = t
          /\ workers'[w].attempt = rows[j].attempt
          /\ workers'[w].recoveryToken = proof.token /\ workers'[w].recovered = proof.recovered
      BY <1>0, <1>4, <2>5, Zenon DEF Claim
    <3>2. proof.token # NoToken => proof.recovered
      BY Zenon DEF databaseRecoveryProof
    <3>3. WorkerOK(w)'
      BY <2>1, <2>4, <3>1, <3>2 DEF WorkerOK, NewClaim
    <3> QED BY <2>3, <3>3, Zenon DEF WorkerInv
  <2>6. CASE db # "ok"
    <3>1. workers'[w].pc = "idle"
      BY <1>0, <1>4, <2>6, Zenon DEF Claim, Idle
    <3> QED BY <2>3, <3>1, Zenon DEF WorkerInv, WorkerOK
  <2> QED BY <2>5, <2>6, Zenon
<1>5. ASSUME NEW w \in Workers, ClaimNothing(w) \/ Crash(w) PROVE WorkerInv'
  BY <1>0, <1>2, <1>5, WorkerUpdatesKeepDelivery, Zenon DEF ClaimNothing, Crash
<1>6. ASSUME NEW w \in Workers, HandlerMissing(w) PROVE WorkerInv'
  BY <1>0, <1>2, <1>6, WorkerUpdatesKeepDelivery, Zenon DEF HandlerMissing, Errors
<1>7. ASSUME NEW w \in Workers, MarkApplicationStateCommitted(w) PROVE WorkerInv'
  BY <1>0, <1>2, <1>7, WorkerUpdatesKeepDelivery, Zenon DEF MarkApplicationStateCommitted
<1>8. ASSUME NEW w \in Workers, NEW err \in Errors, HandlerReturns(w, err) PROVE WorkerInv'
  <2> DEFINE n == [workers[w] EXCEPT !.pc = "settle", !.err = err, !.handled = TRUE]
  <2>1. workers[w].pc = "run" /\ workers' = [workers EXCEPT ![w] = n]
    BY <1>8, Zenon DEF HandlerReturns
  <2>2. KeepsDelivery(workers[w], n)
    BY <1>0, <2>1, WorkerUpdatesKeepDelivery, Zenon
  <2> HIDE DEF n
  <2> QED BY <1>2, <2>1, <2>2, Zenon
<1>9. ASSUME NEW w \in Workers, NEW db \in DBResults, Settle(w, db) PROVE WorkerInv'
  <2> DEFINE m == workers[w]
  <2>1. m \in Worker /\ m.pc = "settle"
    BY <1>0, <1>9, Zenon DEF Settle
  <2>2. PICK n \in {Idle, [m EXCEPT !.tries = @ + 1], [m EXCEPT !.pc = "repair"]} :
          workers' = [workers EXCEPT ![w] = n]
    BY <1>9, Zenon DEF Settle
  <2>3. KeepsDelivery(m, n)
    BY <2>1, <2>2, WorkerUpdatesKeepDelivery, Zenon
  <2> QED BY <1>2, <2>2, <2>3, Zenon
<1>10. ASSUME NEW w \in Workers, NEW db \in DBResults, RestoreLineage(w, db) PROVE WorkerInv'
  BY <1>0, <1>2, <1>10, WorkerUpdatesKeepDelivery, Zenon DEF RestoreLineage
<1>11. ASSUME NEW j \in Jobs, \/ Dispatch(j) \/ BecomeAvailable(j) \/ LeaseExpires(j)
                              \/ RetryJob(j) \/ CancelJob(j)
       PROVE  WorkerInv'
  BY <1>1, <1>11, Zenon DEF Dispatch, BecomeAvailable, LeaseExpires, RetryJob, CancelJob
<1>12. ASSUME NEW js, DeleteRows(js) PROVE WorkerInv'
  BY <1>1, <1>12, Zenon DEF DeleteRows
<1>13. CASE UNCHANGED vars
  BY <1>1, <1>13, Zenon DEF vars
<1> QED
  BY <1>3, <1>4, <1>5, <1>6, <1>7, <1>8, <1>9, <1>10, <1>11, <1>12, <1>13, Zenon
  DEF Next, WorkerStep, DeleteJob, ClearQueue, DBResults

\* The inductive invariant holds of the initial table.
LEMMA ClaimInvInit == Init => ClaimInv
<1> SUFFICES ASSUME Init PROVE ClaimInv
  BY Zenon
<1>1. TypeOK
  BY TypeInit, Zenon
<1>2. \A t \in Tokens : claims[t] = NewClaim(0, 0, NoToken, "free") /\ t > issued
  BY DEF Init, Tokens
<1>3. \A j \in Jobs : /\ rows[j].state \in {"none", "processing"}
                      /\ rows[j].token = NoToken
  BY Zenon DEF Init, AbsentRow, NewRow
<1>4. TableInv
  <2>1. ASSUME NEW j \in Jobs PROVE FencedOK(j) /\ ProofOK(j)
    <3>1. rows[j].token \notin Tokens /\ rows[j].token # RecoveryMarker
      BY <1>3, SpecialTokens DEF NoToken, RecoveryMarker
    <3> QED BY <1>3, <3>1, Zenon DEF FencedOK, ProofOK
  <2>2. ASSUME NEW t \in Tokens
        PROVE  IssuedOK(t) /\ OpenOK(t) /\ InheritedOK(t) /\ DoneOK(t)
    <3>1. /\ claims[t].fate = "free" /\ claims[t].published = FALSE
          /\ claims[t].inherited \notin Tokens
      BY <1>2, <2>2, SpecialTokens DEF NewClaim
    <3>2. IssuedOK(t)
      BY <1>2, <2>2, <3>1, Zenon DEF IssuedOK
    <3> QED BY <3>1, <3>2, Zenon DEF OpenOK, InheritedOK, DoneOK
  <2>3. DoneOnce
    BY <1>2 DEF DoneOnce, NewClaim
  <2> QED BY <2>1, <2>2, <2>3, Zenon DEF TableInv
<1>5. WorkerInv
  BY Zenon DEF Init, Idle, WorkerInv, WorkerOK
<1> QED BY <1>1, <1>4, <1>5, Zenon DEF ClaimInv

\* The inductive invariant is preserved: types, table and workers together.
LEMMA ClaimInvStep == ClaimInv /\ [Next]_vars => ClaimInv'
<1> SUFFICES ASSUME ClaimInv, [Next]_vars PROVE ClaimInv'
  BY Zenon
<1>1. TypeOK'
  <2>1. BusyWorkersHaveJobs
    BY Zenon DEF ClaimInv, WorkerInv, WorkerOK, BusyWorkersHaveJobs
  <2> QED BY <2>1, TypeStep, Zenon DEF ClaimInv
<1>2. TableInv' /\ IdentityKept
  BY TableStep, Zenon
<1>3. WorkerInv'
  BY <1>2, WorkerInvStep, Zenon
<1> QED BY <1>1, <1>2, <1>3, Zenon DEF ClaimInv

\* The inductive invariant holds in every reachable state.
LEMMA ClaimInvariant == Spec => []ClaimInv
<1>1. Init => ClaimInv
  BY ClaimInvInit, Zenon
<1>2. ClaimInv /\ [Next]_vars => ClaimInv'
  BY ClaimInvStep, Zenon
<1> QED BY <1>1, <1>2, PTL DEF Spec

\* The state of the driver always has its declared type: the table, the worker
\* memories and the token history of queue_database_impl.go.
THEOREM TypeCorrect == Spec => []TypeOK
<1>1. ClaimInv => TypeOK
  BY Zenon DEF ClaimInv
<1> QED BY <1>1, ClaimInvariant, PTL

\* A processing token is open exactly while it fences its row, so no row is
\* ever fenced by two claims, whatever recovery and operators do meanwhile.
THEOREM OneOpenClaim == Spec => []OpenClaimFencesRow
<1>1. ClaimInv => OpenClaimFencesRow
  <2> SUFFICES ASSUME ClaimInv, NEW t \in Tokens
               PROVE  claims[t].fate = "open" <=>
                        \E j \in Jobs : /\ claims[t].job = j
                                        /\ rows[j].state = "processing" /\ rows[j].token = t
    BY Zenon DEF OpenClaimFencesRow
  <2>1. FencedOK(claims[t].job) \/ claims[t].job \notin Jobs
    BY Zenon DEF ClaimInv, TableInv
  <2>2. IssuedOK(t) /\ OpenOK(t)
    BY Zenon DEF ClaimInv, TableInv
  <2> QED BY <2>1, <2>2, Zenon DEF FencedOK, IssuedOK, OpenOK
<1> QED BY <1>1, ClaimInvariant, PTL

\* The fence of markDone, markFailed and the lineage repair: nothing a worker
\* does under a token that was recovered, revoked or settled has any effect.
THEOREM LateWorkersHaveNoEffect == Spec => EndedClaimsStayEnded
<1>1. ClaimInv /\ [Next]_vars =>
        [\A t \in Tokens : claims[t].fate \notin {"free", "open"} => claims'[t] = claims[t]]_vars
  BY TableStep, Zenon DEF EndedKept
<1> QED BY <1>1, ClaimInvariant, PTL DEF Spec, EndedClaimsStayEnded

\* A pending row's recovery proof names an unsettled generation of the same
\* attempt of the same row (databaseRecoveryProof and its two producers).
THEOREM RecoveryProofsAreTruthful == Spec => []RecoveryProofTruthful
<1>1. ClaimInv => RecoveryProofTruthful
  BY Zenon DEF ClaimInv, TableInv, ProofOK, EarlierGeneration, Stalled, RecoveryProofTruthful
<1> QED BY <1>1, ClaimInvariant, PTL

\* processJob commits deferred facts only for the claim whose settlement
\* stands, and one success per row at most.
THEOREM FactsAreSettled == Spec => []FactsFollowSettlement
<1>1. ClaimInv => FactsFollowSettlement
  BY Zenon DEF ClaimInv, TableInv, DoneOK, DoneOnce, FactsFollowSettlement
<1> QED BY <1>1, ClaimInvariant, PTL

(***************************************************************************)
(* Attempts and failures.  A row's attempt column and the token history    *)
(* are written by different statements; they agree because only a          *)
(* settlement that stands adds a failure, and it adds both.                *)
(***************************************************************************)
StoredStates == {"pending", "processing", "dead"}
FailedFates == {"retried", "dead"}

\* The claims of job j that were settled as a failed attempt.
FailedClaims(j) == {t \in Tokens : claims[t].job = j /\ claims[t].fate \in FailedFates}

CountOK(j) == rows[j].state \in StoredStates => rows[j].attempt = Cardinality(FailedClaims(j))

\* A row that was never inserted has no claim.
UnclaimedOK(j) == rows[j].state = "none" => \A t \in Tokens : claims[t].fate # "free" => claims[t].job # j

\* No claim runs ahead of its row.
AttemptOK(t) ==
  claims[t].fate # "free" /\ rows[claims[t].job].state \in StoredStates =>
    claims[t].attempt <= rows[claims[t].job].attempt

CountInv ==
  /\ \A j \in Jobs : CountOK(j) /\ UnclaimedOK(j)
  /\ \A t \in Tokens : AttemptOK(t)

\* What a step that settles nothing does to a row and to the history.
RowKept(j) ==
  /\ rows'[j].state = "none" => rows[j].state = "none"
  /\ rows'[j].state \in StoredStates =>
       \/ rows[j].state \in StoredStates /\ rows'[j].attempt = rows[j].attempt
       \/ rows[j].state = "none" /\ rows'[j].attempt = 0
Verdicts == {"done", "retried", "dead"}
NoNewVerdict == \A t \in Tokens : claims'[t].fate \in Verdicts => claims[t].fate \in Verdicts

\* A step that issues a token issues it for a pending row at that row's attempt.
IssuedForRow ==
  \A t \in Tokens : claims[t].fate = "free" /\ claims'[t].fate # "free" =>
    /\ claims'[t].job \in Jobs /\ rows[claims'[t].job].state = "pending"
    /\ claims'[t].attempt = rows[claims'[t].job].attempt

\* What a settlement writes, by the fate it gives the claim.
LEMMA SettledRowByFate ==
  ASSUME NEW m \in Worker, m.job \in Jobs
  PROVE  /\ SettledFate(m) = "retried" =>
              /\ SettledRow(m).state = "pending" /\ SettledRow(m).attempt = m.attempt + 1
              /\ m.attempt < MaxRetry[m.job]
         /\ SettledFate(m) = "dead" =>
              SettledRow(m).state = "dead" /\ SettledRow(m).attempt = m.attempt + 1
         /\ SettledFate(m) = "returned" =>
              /\ SettledRow(m).state = "pending" /\ SettledRow(m).attempt = m.attempt
              /\ SettledRow(m).token = IF m.committed THEN m.token ELSE InheritedProof(m)
         /\ SettledFate(m) = "done" => SettledRow(m).state = "done"
<1> DEFINE s == classifyDatabaseFailure(m)
<1>1. m.attempt \in Nat /\ MaxRetry[m.job] \in Nat
  BY RetryAssumption, Zenon DEF Worker
<1>2. Decision(m) = "succeeded" <=> m.err = "nil"
  BY Zenon DEF Decision, ClassifyAttempt
<1>3. m.err # "nil" => /\ SettledRow(m).state = s.state /\ SettledRow(m).attempt = s.attempt
                       /\ SettledRow(m).token = databasePendingRecoveryToken(m, s)
  BY Zenon DEF SettledRow, NewRow
<1>4. /\ s.state = IF Decision(m) = "failed" THEN "dead" ELSE "pending"
      /\ s.attempt = IF Decision(m) = "redeliver" THEN m.attempt ELSE m.attempt + 1
  BY Zenon DEF classifyDatabaseFailure
<1>5. Decision(m) \in {"succeeded", "redeliver", "failed", "retry"}
  BY Zenon DEF Decision, ClassifyAttempt
<1>6. SettledFate(m) = "retried" => Decision(m) = "retry"
  BY <1>5, Zenon DEF SettledFate
<1>7. SettledFate(m) = "dead" => Decision(m) = "failed"
  BY <1>5, Zenon DEF SettledFate
<1>8. SettledFate(m) = "returned" => Decision(m) = "redeliver"
  BY <1>5, Zenon DEF SettledFate
<1>9. Decision(m) = "retry" => m.attempt < MaxRetry[m.job]
  BY <1>1 DEF Decision, ClassifyAttempt, Exhausted
<1>10. s.state = "pending" /\ s.attempt = m.attempt =>
         databasePendingRecoveryToken(m, s) = IF m.committed THEN m.token ELSE InheritedProof(m)
  BY Zenon DEF databasePendingRecoveryToken
<1>11. SettledFate(m) = "done" => SettledRow(m).state = "done"
  BY SettledRowFacts, Zenon
<1> HIDE DEF s
<1> QED BY <1>2, <1>3, <1>4, <1>6, <1>7, <1>8, <1>9, <1>10, <1>11, Zenon

INSTANCE FiniteSetTheorems

\* The failed claims are finitely many, and a new one counts once.
LEMMA FailedClaimsFinite ==
  ASSUME NEW j
  PROVE  IsFiniteSet(FailedClaims(j)) /\ Cardinality(FailedClaims(j)) \in Nat
<1>1. IsFiniteSet(Tokens)
  BY BoundsAssumption, FS_Interval DEF Tokens
<1>2. FailedClaims(j) \subseteq Tokens
  BY Zenon DEF FailedClaims
<1> QED BY <1>1, <1>2, FS_Subset, FS_CardinalityType, Zenon

\* Only settlements that stand add failures or attempts.
LEMMA StepCounts ==
  ASSUME ClaimInv, [Next]_vars,
         ~\E w \in Workers, db \in DBResults : Settle(w, db) /\ Applies(workers[w], db)
  PROVE  (\A j \in Jobs : RowKept(j)) /\ NoNewVerdict
<1> USE DEF ClaimInv
<1>0. rows \in [Jobs -> Row] /\ claims \in [Tokens -> Claims]
  BY Zenon DEF TypeOK
<1> DEFINE G == (\A j \in Jobs : RowKept(j)) /\ NoNewVerdict
<1>1. ASSUME NEW j \in Jobs, Dispatch(j) PROVE G
  BY <1>0, <1>1 DEF Dispatch, NewRow, RowKept, NoNewVerdict, StoredStates
<1>2. ASSUME NEW j \in Jobs, BecomeAvailable(j) \/ LeaseExpires(j) PROVE G
  <2>1. \A k \in Jobs : rows'[k].state = rows[k].state /\ rows'[k].attempt = rows[k].attempt
    BY <1>0, <1>2 DEF BecomeAvailable, LeaseExpires, Row
  <2>2. claims' = claims
    BY <1>2, Zenon DEF BecomeAvailable, LeaseExpires
  <2> QED BY <2>1, <2>2, Zenon DEF RowKept, NoNewVerdict
<1>3. ASSUME NEW js \in SUBSET Jobs, NEW f \in {"recovered", "revoked"}, claims' = EndClaims(js, f)
      PROVE  NoNewVerdict
  BY <1>3, EndClaimsFields DEF NoNewVerdict, Verdicts, Fates
<1>4. ASSUME NEW j \in Jobs, RetryJob(j) \/ CancelJob(j) PROVE G
  <2>1. claims' = EndClaims({j}, "revoked") /\ rows[j].state \in StoredStates
    BY <1>4, Zenon DEF RetryJob, CancelJob, Stored, StoredStates
  <2>2. /\ rows'[j].state \in {"pending", "dead"} /\ rows'[j].attempt = rows[j].attempt
        /\ \A k \in Jobs \ {j} : rows'[k] = rows[k]
    BY <1>0, <1>4 DEF RetryJob, CancelJob, NewRow
  <2> QED BY <1>3, <2>1, <2>2, Zenon DEF RowKept, StoredStates
<1>5. ASSUME NEW js \in SUBSET Stored, DeleteRows(js) PROVE G
  <2>1. js \in SUBSET Jobs /\ claims' = EndClaims(js, "revoked")
    BY <1>5, Zenon DEF DeleteRows, Stored
  <2>2. /\ \A j \in js : rows'[j].state = "removed"
        /\ \A k \in Jobs \ js : rows'[k] = rows[k]
    BY <1>0, <1>5, <2>1, Zenon DEF DeleteRows, AbsentRow, NewRow
  <2> QED BY <1>3, <2>1, <2>2, Zenon DEF RowKept, StoredStates
<1>6. ASSUME NEW w \in Workers, NEW db \in DBResults, recoverStaleProcessing(w, db) PROVE G
  <2>1. StaleRows \in SUBSET Jobs /\ claims' = EndClaims(StaleRows, "recovered")
        /\ \A j \in StaleRows : rows[j].state = "processing"
    BY <1>6, Zenon DEF recoverStaleProcessing, StaleRows
  <2>2. \A j \in Jobs : rows'[j] = IF j \in StaleRows THEN RecoveredRow(rows[j]) ELSE rows[j]
    BY <1>6, Zenon DEF recoverStaleProcessing
  <2> QED BY <1>3, <2>1, <2>2, RecoveredRowFields, Zenon DEF RowKept, StoredStates
<1>7. ASSUME NEW w \in Workers, NEW j \in Jobs, NEW db \in DBResults, Claim(w, j, db) PROVE G
  <2>1. /\ rows' = [rows EXCEPT ![j] = NewRow("processing", rows[j].attempt, issued + 1, FALSE)]
        /\ rows[j].state = "pending"
        /\ \A t \in Tokens \ {issued + 1} : claims'[t] = claims[t]
        /\ issued + 1 \in Tokens => claims'[issued + 1].fate = "open"
    BY <1>0, <1>7, Zenon DEF Claim, selectPendingJob, Claimable, NewClaim
  <2>2. \A k \in Jobs : RowKept(k)
    BY <1>0, <2>1, Zenon DEF RowKept, StoredStates, NewRow
  <2>3. NoNewVerdict
    BY <2>1, Zenon DEF NoNewVerdict, Verdicts
  <2> QED BY <2>2, <2>3, Zenon
<1>8. ASSUME rows' = rows, claims' = claims PROVE G
  BY <1>8, Zenon DEF RowKept, NoNewVerdict
<1>9. ASSUME NEW w \in Workers, NEW db \in DBResults, Settle(w, db) PROVE G
  BY <1>8, <1>9, Zenon DEF Settle
<1>10. ASSUME NEW w \in Workers, NEW db \in DBResults, RestoreLineage(w, db) PROVE G
  <2> DEFINE m == workers[w]
  <2>1. m.job \in Jobs /\ m.token \in Tokens
    BY <1>10, Zenon DEF RestoreLineage, WorkerInv, WorkerOK
  <2>2. CASE rows' = rows /\ claims' = claims
    BY <1>8, <2>2, Zenon
  <2>3. CASE /\ rows' = [rows EXCEPT ![m.job] = NewRow("pending", m.attempt, InheritedProof(m), FALSE)]
             /\ claims' = [claims EXCEPT ![m.token] = [@ EXCEPT !.fate = "repaired"]]
             /\ Fenced(m) /\ rows[m.job].attempt = m.attempt
    <3>1. \A j \in Jobs : RowKept(j)
      BY <1>0, <2>1, <2>3, Zenon DEF RowKept, StoredStates, NewRow, Fenced
    <3>2. NoNewVerdict
      BY <1>0, <2>1, <2>3, Zenon DEF NoNewVerdict, Verdicts, Claims
    <3> QED BY <3>1, <3>2, Zenon
  <2> QED BY <1>10, <2>2, <2>3, Zenon DEF RestoreLineage, Applies
<1>11. ASSUME NEW w \in Workers, NEW err \in Errors,
              \/ ClaimNothing(w) \/ HandlerMissing(w) \/ MarkApplicationStateCommitted(w)
              \/ HandlerReturns(w, err) \/ Crash(w)
       PROVE  rows' = rows /\ claims' = claims
  BY <1>11, Zenon DEF ClaimNothing, HandlerMissing, MarkApplicationStateCommitted, HandlerReturns, Crash
<1>12. ASSUME UNCHANGED vars PROVE G
  BY <1>8, <1>12, Zenon DEF vars
<1>13. "nil" \in Errors
  BY Zenon DEF Errors
<1>14. ASSUME NEW j \in Jobs, DeleteJob(j) PROVE G
  BY <1>5, <1>14, Zenon DEF DeleteJob
<1>15. ASSUME ClearQueue PROVE G
  BY <1>5, <1>15, Zenon DEF ClearQueue
<1> HIDE DEF G
<1>16. G
  BY <1>1, <1>2, <1>4, <1>5, <1>6, <1>7, <1>8, <1>9, <1>10, <1>11, <1>12, <1>13, <1>14, <1>15, ZenonT(60)
  DEF Next, WorkerStep, DBResults
<1> QED BY <1>16, Zenon DEF G

\* Tokens are issued by claims alone, each for a pending row at its attempt.
LEMMA TokensAreIssued ==
  ASSUME ClaimInv, [Next]_vars, TableInv'
  PROVE  IssuedForRow
<1> USE DEF ClaimInv
<1>1. CASE issued' = issued
  <2>1. \A t \in Tokens : claims'[t].fate = "free" <=> claims[t].fate = "free"
    BY <1>1, Zenon DEF TableInv, IssuedOK
  <2> QED BY <2>1, Zenon DEF IssuedForRow
<1>2. ASSUME NEW w \in Workers, NEW j \in Jobs, NEW db \in DBResults, Claim(w, j, db)
      PROVE  IssuedForRow
  <2>1. issued + 1 \in Tokens
    BY <1>2, ClaimTable, Zenon
  <2>2. /\ \A t \in Tokens \ {issued + 1} : claims'[t] = claims[t]
        /\ claims'[issued + 1].job = j /\ claims'[issued + 1].attempt = rows[j].attempt
        /\ rows[j].state = "pending"
    BY <1>2, <2>1, Zenon DEF Claim, selectPendingJob, Claimable, NewClaim, TypeOK
  <2> QED BY <2>1, <2>2, Zenon DEF IssuedForRow
<1>3. issued' = issued \/ \E w \in Workers, j \in Jobs, db \in DBResults : Claim(w, j, db)
  BY ZenonT(60) DEF Next, WorkerStep, vars, DeleteJob, ClearQueue, DBResults, Dispatch, BecomeAvailable,
     LeaseExpires, RetryJob, CancelJob, DeleteRows, recoverStaleProcessing, ClaimNothing,
     HandlerMissing, MarkApplicationStateCommitted, HandlerReturns, Settle, RestoreLineage, Crash
<1> QED BY <1>1, <1>2, <1>3, Zenon

\* A step that settles nothing keeps the failures of every row.
LEMMA CountsKept ==
  ASSUME ClaimInv, CountInv, EndedKept, IdentityKept, IssuedForRow, NoNewVerdict,
         \A j \in Jobs : RowKept(j), TableInv'
  PROVE  CountInv'
<1> USE DEF ClaimInv
<1>1. ASSUME NEW j \in Jobs PROVE FailedClaims(j)' = FailedClaims(j)
  <2>1. \A t \in Tokens : claims[t].fate \in FailedFates \/ claims'[t].fate \in FailedFates =>
          claims'[t] = claims[t]
    BY Zenon DEF NoNewVerdict, Verdicts, EndedKept, FailedFates
  <2> QED BY <2>1, Zenon DEF FailedClaims
<1>2. ASSUME NEW j \in Jobs PROVE CountOK(j)' /\ UnclaimedOK(j)'
  <2>1. RowKept(j) /\ CountOK(j) /\ UnclaimedOK(j)
    BY Zenon DEF CountInv
  <2>2. CASE rows[j].state = "none"
    <3>1. FailedClaims(j) = {}
      BY <2>1, <2>2, Zenon DEF FailedClaims, FailedFates, UnclaimedOK
    <3>2. Cardinality(FailedClaims(j)) = 0
      BY <3>1, FS_EmptySet, Zenon
    <3>3. CountOK(j)'
      BY <1>1, <2>1, <2>2, <3>2, Zenon DEF CountOK, RowKept, StoredStates
    <3>4. UnclaimedOK(j)'
      BY <2>1, <2>2, Zenon DEF UnclaimedOK, IdentityKept, IssuedForRow
    <3> QED BY <3>3, <3>4, Zenon
  <2>3. CASE rows[j].state # "none"
    BY <1>1, <2>1, <2>3, Zenon DEF CountOK, RowKept, UnclaimedOK
  <2> QED BY <2>2, <2>3, Zenon
<1>3. ASSUME NEW t \in Tokens PROVE AttemptOK(t)'
  <2>1. CASE claims[t].fate = "free"
    BY <2>1 DEF IssuedForRow, AttemptOK, RowKept, TypeOK, Row, StoredStates
  <2>2. CASE claims[t].fate # "free"
    <3>1. claims[t].job \in Jobs /\ AttemptOK(t)
      BY <2>2, Zenon DEF TableInv, IssuedOK, CountInv
    <3>2. rows[claims[t].job].state # "none"
      BY <2>2, <3>1, ZenonT(60) DEF CountInv, UnclaimedOK
    <3> QED BY <2>2, <3>1, <3>2, Zenon DEF AttemptOK, IdentityKept, RowKept
  <2> QED BY <2>1, <2>2, Zenon
<1> QED BY <1>2, <1>3, Zenon DEF CountInv

\* What a settlement that stands does to the table and to the history.
LEMMA SettlementEffect ==
  ASSUME ClaimInv, NEW w \in Workers, NEW db \in DBResults, Settle(w, db), Applies(workers[w], db)
  PROVE  LET m == workers[w] IN
         /\ m \in Worker /\ m.job \in Jobs /\ m.token \in Tokens
         /\ rows[m.job].state = "processing" /\ rows[m.job].token = m.token
         /\ rows[m.job].attempt = m.attempt /\ m.attempt \in Nat
         /\ claims[m.token].fate = "open" /\ claims[m.token].job = m.job
         /\ claims[m.token].attempt = m.attempt /\ claims[m.token].inherited = m.recoveryToken
         /\ rows'[m.job] = SettledRow(m) /\ \A j \in Jobs \ {m.job} : rows'[j] = rows[j]
         /\ claims'[m.token].fate = SettledFate(m) /\ claims'[m.token].job = m.job
         /\ claims'[m.token].attempt = m.attempt
         /\ claims'[m.token].inherited = m.recoveryToken
         /\ \A t \in Tokens \ {m.token} : claims'[t] = claims[t]
         /\ requeued' = requeued /\ receipt' = receipt
<1> USE DEF ClaimInv
<1> DEFINE m == workers[w]
           c == [claims[m.token] EXCEPT !.fate = SettledFate(m),
                                        !.published = db = "ok" /\ m.handled]
<1>1. m \in Worker /\ m.job \in Jobs /\ m.token \in Tokens /\ m.attempt \in Nat
  BY Zenon DEF Settle, TypeOK, WorkerInv, WorkerOK, Worker
<1>2. /\ claims[m.token].attempt = m.attempt /\ claims[m.token].inherited = m.recoveryToken
      /\ claims[m.token].job = m.job /\ claims[m.token] \in Claims
  BY <1>1, Zenon DEF Settle, WorkerInv, WorkerOK, TypeOK
<1>3. rows[m.job].state = "processing" /\ rows[m.job].token = m.token
  BY ZenonT(60) DEF Applies, Fenced
<1>4. claims[m.token].fate = "open" /\ rows[m.job].attempt = m.attempt
  BY <1>1, <1>2, <1>3, Zenon DEF TableInv, FencedOK
<1>5. /\ rows' = [rows EXCEPT ![m.job] = SettledRow(m)]
      /\ claims' = [claims EXCEPT ![m.token] = c]
      /\ requeued' = requeued /\ receipt' = receipt
  BY Zenon DEF Settle
<1>6. /\ c.fate = SettledFate(m) /\ c.job = claims[m.token].job
      /\ c.attempt = claims[m.token].attempt /\ c.inherited = claims[m.token].inherited
  BY <1>2, Zenon DEF Claims
<1>7. /\ rows'[m.job] = SettledRow(m) /\ \A j \in Jobs \ {m.job} : rows'[j] = rows[j]
      /\ claims'[m.token] = c /\ \A t \in Tokens \ {m.token} : claims'[t] = claims[t]
  BY <1>1, <1>5, ZenonT(60) DEF TypeOK
<1> HIDE DEF m, c
<1>8. /\ m \in Worker /\ m.job \in Jobs /\ m.token \in Tokens
      /\ rows[m.job].state = "processing" /\ rows[m.job].token = m.token
      /\ rows[m.job].attempt = m.attempt /\ m.attempt \in Nat
      /\ claims[m.token].fate = "open" /\ claims[m.token].job = m.job
      /\ claims[m.token].attempt = m.attempt /\ claims[m.token].inherited = m.recoveryToken
      /\ rows'[m.job] = SettledRow(m) /\ \A j \in Jobs \ {m.job} : rows'[j] = rows[j]
      /\ claims'[m.token].fate = SettledFate(m) /\ claims'[m.token].job = m.job
      /\ claims'[m.token].attempt = m.attempt
      /\ claims'[m.token].inherited = m.recoveryToken
      /\ \A t \in Tokens \ {m.token} : claims'[t] = claims[t]
      /\ requeued' = requeued /\ receipt' = receipt
  BY <1>1, <1>2, <1>3, <1>4, <1>5, <1>6, <1>7, Zenon
<1> QED BY <1>8, Zenon DEF m

\* A settlement that stands adds its failure to the row and to the history.
LEMMA CountsSettled ==
  ASSUME ClaimInv, CountInv, NEW w \in Workers, NEW db \in DBResults, Settle(w, db),
         Applies(workers[w], db), NEW m, m = workers[w], NEW j, j = m.job, NEW t, t = m.token
  PROVE  /\ CountInv'
         /\ \A k \in Jobs \ {j} : FailedClaims(k)' = FailedClaims(k)
         /\ Cardinality(FailedClaims(j)') =
              IF SettledFate(m) \in FailedFates THEN m.attempt + 1 ELSE m.attempt
<1>1. /\ m \in Worker /\ j \in Jobs /\ t \in Tokens
      /\ rows[j].state = "processing" /\ rows[j].attempt = m.attempt /\ m.attempt \in Nat
      /\ claims[t].fate = "open" /\ claims[t].job = j /\ claims[t].attempt = m.attempt
      /\ rows'[j] = SettledRow(m) /\ \A k \in Jobs \ {j} : rows'[k] = rows[k]
      /\ claims'[t].fate = SettledFate(m) /\ claims'[t].job = j /\ claims'[t].attempt = m.attempt
      /\ \A s \in Tokens \ {t} : claims'[s] = claims[s]
  BY SettlementEffect, Zenon
<1>2. SettledFate(m) \in {"done", "retried", "returned", "dead"}
  BY SettledFateType, Zenon
<1>3. /\ SettledFate(m) \in FailedFates => SettledRow(m).attempt = m.attempt + 1
      /\ SettledFate(m) = "returned" => SettledRow(m).attempt = m.attempt
      /\ SettledFate(m) = "done" => SettledRow(m).state = "done"
      /\ SettledRow(m).state # "none"
  BY <1>1, SettledRowByFate, SettledRowFacts, Zenon DEF FailedFates
<1>4. t \notin FailedClaims(j) /\ IsFiniteSet(FailedClaims(j))
      /\ Cardinality(FailedClaims(j)) = m.attempt
  BY <1>1, FailedClaimsFinite, ZenonT(60) DEF FailedClaims, FailedFates, CountInv, CountOK, StoredStates
<1>5. \A k \in Jobs \ {j} : FailedClaims(k)' = FailedClaims(k)
  BY <1>1 DEF FailedClaims
<1>6. Cardinality(FailedClaims(j)') = IF SettledFate(m) \in FailedFates THEN m.attempt + 1 ELSE m.attempt
  <2>1. CASE SettledFate(m) \in FailedFates
    <3>1. FailedClaims(j)' = FailedClaims(j) \cup {t}
      <4>1. t \in FailedClaims(j)'
        BY <1>1, <2>1, Zenon DEF FailedClaims
      <4>2. \A s \in Tokens \ {t} : s \in FailedClaims(j)' <=> s \in FailedClaims(j)
        BY <1>1, Zenon DEF FailedClaims
      <4>3. FailedClaims(j) \subseteq Tokens /\ FailedClaims(j)' \subseteq Tokens
        BY Zenon DEF FailedClaims
      <4>4. \A s : s \in FailedClaims(j)' <=> s \in FailedClaims(j) \/ s = t
        BY <4>1, <4>2, <4>3, Zenon
      <4> QED BY <4>4, Zenon
    <3>2. Cardinality(FailedClaims(j) \cup {t}) = Cardinality(FailedClaims(j)) + 1
      BY <1>4, FS_AddElement, Zenon
    <3> QED BY <1>4, <2>1, <3>1, <3>2, Zenon
  <2>2. CASE SettledFate(m) \notin FailedFates
    <3>1. FailedClaims(j)' = FailedClaims(j)
      BY <1>1, <1>4, <2>2 DEF FailedClaims
    <3> QED BY <1>4, <2>2, <3>1, ZenonT(60)
  <2> QED BY <2>1, <2>2, Zenon
<1>7. ASSUME NEW k \in Jobs PROVE CountOK(k)' /\ UnclaimedOK(k)'
  <2>0. CountOK(k) /\ UnclaimedOK(k)
    BY Zenon DEF CountInv
  <2>1. CASE k = j
    <3>1. CountOK(j)'
      BY <1>1, <1>2, <1>3, <1>6, Zenon DEF CountOK, FailedFates, StoredStates
    <3> QED BY <1>1, <1>3, <2>1, <3>1, Zenon DEF UnclaimedOK
  <2>2. CASE k # j
    BY <1>1, <1>5, <2>0, <2>2, ZenonT(60) DEF CountOK, UnclaimedOK
  <2> QED BY <2>1, <2>2, Zenon
<1>8. ASSUME NEW s \in Tokens PROVE AttemptOK(s)'
  <2>1. AttemptOK(s) /\ claims'[s].job = claims[s].job /\ claims'[s].attempt = claims[s].attempt
    BY <1>1, Zenon DEF CountInv
  <2>2. claims'[s].fate # "free" => claims[s].fate # "free"
    BY <1>1, Zenon
  <2>3. CASE claims[s].job = j /\ claims[s].fate # "free"
    <3>1. claims[s].attempt <= m.attempt /\ claims[s].attempt \in Nat
      BY <1>1, <2>1, <2>3, Zenon DEF AttemptOK, StoredStates, ClaimInv, TypeOK, Claims
    <3>2. rows'[j].state \in StoredStates => rows'[j].attempt \in {m.attempt, m.attempt + 1}
      BY <1>1, <1>2, <1>3, Zenon DEF FailedFates, StoredStates
    <3>3. m.attempt \in Nat
      BY <1>1, Zenon
    <3> QED BY <2>1, <2>3, <3>1, <3>2, <3>3 DEF AttemptOK
  <2>4. CASE claims[s].job # j \/ claims[s].fate = "free"
    <3>1. claims[s].fate # "free" => claims[s].job \in Jobs
      BY Zenon DEF ClaimInv, TableInv, IssuedOK
    <3> QED BY <1>1, <2>1, <2>2, <2>4, <3>1, ZenonT(60) DEF AttemptOK
  <2> QED BY <2>3, <2>4, Zenon
<1>9. CountInv'
  BY <1>7, <1>8, Zenon DEF CountInv
<1> QED BY <1>5, <1>6, <1>9, ZenonT(60)

\* Row counts and history agree after every step.
LEMMA CountInvStep ==
  ASSUME ClaimInv, CountInv, [Next]_vars, ClaimInv'
  PROVE  CountInv'
<1>1. EndedKept /\ IdentityKept /\ IssuedForRow
  BY TableStep, TokensAreIssued, Zenon DEF ClaimInv
<1>2. CASE \E w \in Workers, db \in DBResults : Settle(w, db) /\ Applies(workers[w], db)
  BY <1>2, CountsSettled, Zenon
<1>3. CASE ~\E w \in Workers, db \in DBResults : Settle(w, db) /\ Applies(workers[w], db)
  BY <1>1, <1>3, StepCounts, CountsKept, Zenon DEF ClaimInv
<1> QED BY <1>2, <1>3, Zenon

\* Nothing has failed in the initial table.
LEMMA CountInvInit == Init => CountInv
<1> SUFFICES ASSUME Init PROVE CountInv
  BY Zenon
<1>1. \A t \in Tokens : claims[t].fate = "free"
  BY Zenon DEF Init, NewClaim
<1>2. \A j \in Jobs : FailedClaims(j) = {} /\ rows[j].attempt = 0
  BY <1>1, Zenon DEF FailedClaims, FailedFates, Init, NewRow, AbsentRow
<1>3. Cardinality({}) = 0
  BY FS_EmptySet, Zenon
<1> QED BY <1>1, <1>2, <1>3, Zenon DEF CountInv, CountOK, UnclaimedOK, AttemptOK

(***************************************************************************)
(* The lineage of a workflow receipt.  Until its application attempt is    *)
(* settled, a job's row leads back to the generation that owns the         *)
(* receipt, or that may still become its owner: the first delivery whose   *)
(* handler commits.                                                        *)
(***************************************************************************)
Busy(w) == workers[w].pc \in {"run", "settle", "repair"}

\* A later generation that inherited a proof and went stale hides g.
Hidden(j, g) ==
  \E t \in Tokens : /\ claims[t].job = j /\ claims[t].inherited # NoToken
                    /\ claims[t].fate = "recovered" /\ t # g

LeadsTo(j, g) ==
  \/ rows[j].token = g
  \/ /\ rows[j].state = "processing" /\ rows[j].token \in Tokens
     /\ claims[rows[j].token].inherited = g

LineageOK(j, g) ==
  Live(j) /\ rows[j].attempt = claims[g].attempt /\ j \notin requeued /\ ~Hidden(j, g)
    => LeadsTo(j, g)

\* The owner of the receipt, or a running delivery while there is none.
MayOwn(j, g) ==
  \/ receipt[j] = g
  \/ receipt[j] = NoToken /\ \E w \in Workers : /\ workers[w].pc = "run"
                                                /\ workers[w].job = j /\ workers[w].token = g

ReceiptInv ==
  /\ \A j \in Jobs, g \in Tokens : MayOwn(j, g) =>
       claims[g].fate # "free" /\ claims[g].job = j /\ LineageOK(j, g)
  /\ \A w \in Workers : Busy(w) => (workers[w].committed <=> receipt[workers[w].job] = workers[w].token)
  /\ \A v, w \in Workers : Busy(v) /\ Busy(w) /\ workers[v].token = workers[w].token => v = w

\* A worker that only goes on with its delivery, or drops it.
GoesOn(m, n) ==
  n.pc \in {"run", "settle", "repair"} =>
    /\ m.pc \in {"run", "settle", "repair"} /\ n.job = m.job /\ n.token = m.token
    /\ n.committed = m.committed /\ (n.pc = "run" => m.pc = "run")

\* Between claim and settlement a worker only goes on.
LEMMA UpdatesGoOn ==
  ASSUME NEW m \in Worker
  PROVE  /\ GoesOn(m, m) /\ GoesOn(m, Idle)
         /\ \A x \in {"idle", "claim"} : GoesOn(m, [m EXCEPT !.pc = x])
         /\ m.pc \in {"run", "settle", "repair"} =>
              /\ \A e \in Errors : GoesOn(m, [m EXCEPT !.pc = "settle", !.err = e])
              /\ \A e \in Errors : GoesOn(m, [m EXCEPT !.pc = "settle", !.err = e, !.handled = TRUE])
              /\ GoesOn(m, [m EXCEPT !.tries = @ + 1])
              /\ GoesOn(m, [m EXCEPT !.pc = "repair"])
<1>1. GoesOn(m, m) /\ GoesOn(m, Idle)
  BY Zenon DEF GoesOn, Idle
<1>2. ASSUME NEW x \in {"idle", "claim"} PROVE GoesOn(m, [m EXCEPT !.pc = x])
  BY Zenon DEF GoesOn, Worker
<1>3. ASSUME m.pc \in {"run", "settle", "repair"}, NEW e \in Errors
      PROVE  /\ GoesOn(m, [m EXCEPT !.pc = "settle", !.err = e])
             /\ GoesOn(m, [m EXCEPT !.pc = "settle", !.err = e, !.handled = TRUE])
  BY <1>3, Zenon DEF GoesOn, Worker
<1>4. ASSUME m.pc \in {"run", "settle", "repair"}
      PROVE  /\ GoesOn(m, [m EXCEPT !.tries = @ + 1]) /\ GoesOn(m, [m EXCEPT !.pc = "repair"])
  BY <1>4, Zenon DEF GoesOn, Worker
<1> QED BY <1>1, <1>2, <1>3, <1>4, Zenon

\* Only claims and first commits give a worker or a receipt anything new.
LEMMA WorkersGoOn ==
  ASSUME ClaimInv, [Next]_vars
  PROVE  \/ (\A v \in Workers : GoesOn(workers[v], workers'[v])) /\ receipt' = receipt
         \/ \E w \in Workers, j \in Jobs, db \in DBResults : Claim(w, j, db)
         \/ \E w \in Workers : MarkApplicationStateCommitted(w)
<1> DEFINE G == (\A v \in Workers : GoesOn(workers[v], workers'[v])) /\ receipt' = receipt
<1>0. workers \in [Workers -> Worker]
  BY Zenon DEF ClaimInv, TypeOK
<1>1. ASSUME workers' = workers, receipt' = receipt PROVE G
  BY <1>0, <1>1, UpdatesGoOn, Zenon
<1>2. ASSUME NEW w \in Workers, NEW n, workers' = [workers EXCEPT ![w] = n], receipt' = receipt,
             GoesOn(workers[w], n)
      PROVE  G
  BY <1>0, <1>2, UpdatesGoOn, Zenon
<1>3. ASSUME NEW w \in Workers, NEW db \in DBResults, recoverStaleProcessing(w, db) PROVE G
  BY <1>0, <1>2, <1>3, UpdatesGoOn, Zenon DEF recoverStaleProcessing
<1>4. ASSUME NEW w \in Workers, ClaimNothing(w) \/ Crash(w) PROVE G
  BY <1>0, <1>2, <1>4, UpdatesGoOn, Zenon DEF ClaimNothing, Crash
<1>5. ASSUME NEW w \in Workers, HandlerMissing(w) PROVE G
  BY <1>0, <1>2, <1>5, UpdatesGoOn, ZenonT(60) DEF HandlerMissing, Errors
<1>6. ASSUME NEW w \in Workers, NEW err \in Errors, HandlerReturns(w, err) PROVE G
  <2> DEFINE n == [workers[w] EXCEPT !.pc = "settle", !.err = err, !.handled = TRUE]
  <2>1. workers[w].pc = "run" /\ workers' = [workers EXCEPT ![w] = n] /\ receipt' = receipt
    BY <1>6, Zenon DEF HandlerReturns
  <2>2. GoesOn(workers[w], n)
    BY <1>0, <2>1, UpdatesGoOn, Zenon
  <2> HIDE DEF n
  <2> QED BY <1>2, <2>1, <2>2, Zenon
<1>7. ASSUME NEW w \in Workers, NEW db \in DBResults, Settle(w, db) PROVE G
  <2> DEFINE m == workers[w]
  <2>1. m \in Worker /\ m.pc = "settle" /\ receipt' = receipt
    BY <1>0, <1>7, Zenon DEF Settle
  <2>2. PICK n \in {Idle, [m EXCEPT !.tries = @ + 1], [m EXCEPT !.pc = "repair"]} :
          workers' = [workers EXCEPT ![w] = n]
    BY <1>7, Zenon DEF Settle
  <2>3. GoesOn(m, n)
    BY <2>1, <2>2, UpdatesGoOn, Zenon
  <2> QED BY <1>2, <2>1, <2>2, <2>3, Zenon
<1>8. ASSUME NEW w \in Workers, NEW db \in DBResults, RestoreLineage(w, db) PROVE G
  BY <1>0, <1>2, <1>8, UpdatesGoOn, Zenon DEF RestoreLineage
<1>9. ASSUME NEW j \in Jobs, \/ Dispatch(j) \/ BecomeAvailable(j) \/ LeaseExpires(j)
                             \/ RetryJob(j) \/ CancelJob(j)
      PROVE  G
  BY <1>1, <1>9, Zenon DEF Dispatch, BecomeAvailable, LeaseExpires, RetryJob, CancelJob
<1>10. ASSUME NEW js, DeleteRows(js) PROVE G
  BY <1>1, <1>10, Zenon DEF DeleteRows
<1>11. ASSUME UNCHANGED vars PROVE G
  BY <1>1, <1>11, Zenon DEF vars
<1> HIDE DEF G
<1>12. \/ G \/ \E w \in Workers, j \in Jobs, db \in DBResults : Claim(w, j, db)
       \/ \E w \in Workers : MarkApplicationStateCommitted(w)
  BY <1>3, <1>4, <1>5, <1>6, <1>7, <1>8, <1>9, <1>10, <1>11, ZenonT(60)
  DEF Next, WorkerStep, DeleteJob, ClearQueue, DBResults
<1> QED BY <1>12, Zenon DEF G

\* The condition under which a step on row j carries the lineage of g on.
CarriesOn(j, g) ==
  Live(j)' /\ rows'[j].attempt = claims[g].attempt /\ j \notin requeued' /\ ~Hidden(j, g)' =>
    /\ Live(j) /\ rows'[j].attempt = rows[j].attempt
    /\ LeadsTo(j, g) => LeadsTo(j, g)'

\* Lineage, once hidden, stays hidden; otherwise the step has carried it on.
LEMMA LineageCarried ==
  ASSUME ClaimInv, EndedKept, IdentityKept, requeued \subseteq requeued', NEW j \in Jobs,
         NEW g \in Tokens, claims[g].fate # "free", LineageOK(j, g), CarriesOn(j, g)
  PROVE  LineageOK(j, g)'
<1>1. Hidden(j, g) => Hidden(j, g)'
  BY Zenon DEF Hidden, EndedKept
<1>2. claims'[g].attempt = claims[g].attempt
  BY Zenon DEF IdentityKept
<1> QED BY <1>1, <1>2, Zenon DEF LineageOK, CarriesOn

\* A row whose fence, proof and attempt a step leaves alone.
SameRow(j) ==
  rows'[j].state = rows[j].state /\ rows'[j].token = rows[j].token /\ rows'[j].attempt = rows[j].attempt

\* Leaving the row alone leaves its lineage alone.
LEMMA SameRowCarries ==
  ASSUME ClaimInv, IdentityKept, NEW j \in Jobs, NEW g \in Tokens, SameRow(j)
  PROVE  CarriesOn(j, g)
<1>1. rows[j].state = "processing" /\ rows[j].token \in Tokens =>
        claims'[rows[j].token].inherited = claims[rows[j].token].inherited
  BY Zenon DEF ClaimInv, TableInv, FencedOK, IdentityKept
<1> QED BY <1>1, Zenon DEF SameRow, CarriesOn, Live, LeadsTo

\* A worker that hands its row back hands on the proof that leads to g.
LEMMA HandsBackProof ==
  ASSUME ClaimInv, ReceiptInv, NEW w \in Workers, Busy(w), workers[w].pc # "run",
         NEW g \in Tokens, MayOwn(workers[w].job, g), rows[workers[w].job].token = workers[w].token,
         LeadsTo(workers[w].job, g)
  PROVE  g = IF workers[w].committed THEN workers[w].token ELSE InheritedProof(workers[w])
<1> DEFINE m == workers[w]
<1>1. /\ m.job \in Jobs /\ m.token \in Tokens /\ claims[m.token].inherited = m.recoveryToken
      /\ m.recoveryToken # NoToken => m.recovered
  BY Zenon DEF ClaimInv, WorkerInv, WorkerOK, Busy
<1>2. m.committed <=> receipt[m.job] = m.token
  BY Zenon DEF ReceiptInv
<1>3. g # NoToken /\ m.token # NoToken
  BY <1>1, SpecialTokens, Zenon
<1>4. CASE m.committed
  BY <1>1, <1>2, <1>3, <1>4, Zenon DEF MayOwn
<1>5. CASE ~m.committed
  <2>1. g # m.token
    BY <1>2, <1>5 DEF MayOwn, ReceiptInv, Busy
  <2>2. m.recoveryToken = g
    BY <1>1, <2>1, Zenon DEF LeadsTo
  <2> QED BY <1>1, <1>3, <1>5, <2>2, ZenonT(60) DEF InheritedProof
<1> QED BY <1>4, <1>5, Zenon

\* The settlement of row j carries the lineage of its possible owners on.
LEMMA SettleCarries ==
  ASSUME ClaimInv, CountInv, ReceiptInv, IdentityKept, NEW w \in Workers, NEW db \in DBResults,
         Settle(w, db), Applies(workers[w], db), NEW g \in Tokens, NEW m, m = workers[w],
         NEW j, j = m.job, MayOwn(j, g)
  PROVE  CarriesOn(j, g)
<1>1. /\ m \in Worker /\ j \in Jobs /\ rows[j].state = "processing" /\ rows[j].token = m.token
      /\ rows[j].attempt = m.attempt /\ m.attempt \in Nat /\ rows'[j] = SettledRow(m)
  BY SettlementEffect, Zenon
<1>2. m.pc = "settle"
  BY Zenon DEF Settle
<1>3. LeadsTo(j, g) => g = IF m.committed THEN m.token ELSE InheritedProof(m)
  BY <1>1, <1>2, HandsBackProof, Zenon DEF Busy
<1>4. claims[g].attempt <= m.attempt /\ claims[g].attempt \in Nat
  <2>1. claims[g].fate # "free" /\ claims[g].job = j /\ AttemptOK(g)
    BY <1>1, Zenon DEF ReceiptInv, CountInv
  <2> QED BY <1>1, <2>1, Zenon DEF AttemptOK, StoredStates, ClaimInv, TypeOK, Claims
<1>5. SettledFate(m) \in {"done", "retried", "returned", "dead"}
  BY SettledFateType, Zenon
<1>6. CASE SettledFate(m) = "returned"
  <2>1. /\ SettledRow(m).attempt = m.attempt
        /\ SettledRow(m).token = IF m.committed THEN m.token ELSE InheritedProof(m)
    BY <1>1, <1>6, SettledRowByFate, Zenon
  <2> QED BY <1>1, <1>3, <2>1, Zenon DEF CarriesOn, Live, LeadsTo
<1>7. CASE SettledFate(m) = "retried"
  <2>1. rows'[j].attempt # claims[g].attempt
    BY <1>1, <1>4, <1>7, SettledRowByFate
  <2> QED BY <2>1, Zenon DEF CarriesOn
<1>8. CASE SettledFate(m) \in {"done", "dead"}
  <2>1. rows'[j].state \in {"done", "dead"}
    BY <1>1, <1>8, SettledRowByFate, Zenon
  <2> QED BY <2>1, Zenon DEF CarriesOn, Live
<1> QED BY <1>5, <1>6, <1>7, <1>8, ZenonT(60)

\* Every step carries the lineage of a possible owner on, or ends or hides it.
LEMMA StepCarries ==
  ASSUME ClaimInv, CountInv, ReceiptInv, [Next]_vars, EndedKept, IdentityKept,
         NEW j \in Jobs, NEW g \in Tokens, MayOwn(j, g)
  PROVE  CarriesOn(j, g) /\ requeued \subseteq requeued'
<1> USE DEF ClaimInv
<1> DEFINE G == CarriesOn(j, g) /\ requeued \subseteq requeued'
<1>0. /\ rows \in [Jobs -> Row] /\ claims[g].fate # "free" /\ claims[g].job = j
      /\ rows[j].state # "none" /\ g # NoToken
  BY SpecialTokens DEF TypeOK, ReceiptInv, CountInv, UnclaimedOK
<1>1. ASSUME SameRow(j), requeued' = requeued PROVE G
  BY <1>1, SameRowCarries, Zenon
<1>2. ASSUME rows'[j] = rows[j], requeued' = requeued PROVE G
  BY <1>1, <1>2, Zenon DEF SameRow
<1>3. ASSUME NEW k \in Jobs, Dispatch(k) PROVE G
  BY <1>0, <1>2, <1>3, Zenon DEF Dispatch
<1>4. ASSUME NEW k \in Jobs, BecomeAvailable(k) \/ LeaseExpires(k) PROVE G
  BY <1>0, <1>1, <1>4 DEF BecomeAvailable, LeaseExpires, SameRow, Row
<1>5. ASSUME NEW k \in Jobs, RetryJob(k) PROVE G
  <2>1. CASE k = j
    BY <1>5, <2>1, Zenon DEF RetryJob, CarriesOn
  <2>2. CASE k # j
    <3>1. rows'[j] = rows[j] /\ requeued \subseteq requeued'
      BY <1>0, <1>5, <2>2, Zenon DEF RetryJob
    <3> QED BY <3>1, SameRowCarries, Zenon DEF SameRow
  <2> QED BY <2>1, <2>2, Zenon
<1>6. ASSUME NEW k \in Jobs, CancelJob(k) PROVE G
  <2>1. CASE k = j
    BY <1>0, <1>6, <2>1, Zenon DEF CancelJob, CarriesOn, Live, NewRow
  <2>2. CASE k # j
    BY <1>0, <1>2, <1>6, <2>2, Zenon DEF CancelJob
  <2> QED BY <2>1, <2>2, Zenon
<1>7. ASSUME NEW js \in SUBSET Jobs, DeleteRows(js) PROVE G
  <2>1. CASE j \in js
    BY <1>7, <2>1, Zenon DEF DeleteRows, CarriesOn, Live, AbsentRow, NewRow
  <2>2. CASE j \notin js
    BY <1>2, <1>7, <2>2, Zenon DEF DeleteRows
  <2> QED BY <2>1, <2>2, Zenon
<1>8. ASSUME NEW w \in Workers, NEW db \in DBResults, recoverStaleProcessing(w, db) PROVE G
  <2>1. rows' = [k \in Jobs |-> IF k \in StaleRows THEN RecoveredRow(rows[k]) ELSE rows[k]]
        /\ claims' = EndClaims(StaleRows, "recovered") /\ requeued' = requeued
    BY <1>8, Zenon DEF recoverStaleProcessing
  <2>2. CASE j \notin StaleRows
    BY <1>2, <2>1, <2>2, Zenon
  <2>3. CASE j \in StaleRows
    <3>1. /\ rows[j].state = "processing" /\ rows'[j].attempt = rows[j].attempt
          /\ rows'[j].token = IF rows[j].token = NoToken THEN RecoveryMarker ELSE rows[j].token
      BY <2>1, <2>3, Zenon DEF StaleRows, RecoveredRow, NewRow
    <3>2. CASE rows[j].token = g
      BY <1>0, <2>1, <3>1, <3>2, Zenon DEF CarriesOn, Live, LeadsTo
    <3>3. CASE rows[j].token # g /\ LeadsTo(j, g)
      <4> DEFINE t == rows[j].token
      <4>1. t \in Tokens /\ claims[t].inherited = g /\ claims[t].job = j
        BY <3>1, <3>3, ZenonT(60) DEF LeadsTo, TableInv, FencedOK
      <4>2. claims'[t].fate = "recovered" /\ claims'[t].inherited = g /\ claims'[t].job = j
        <5>1. StaleRows \in SUBSET Jobs /\ "recovered" \in Fates
          BY Zenon DEF StaleRows, Fates
        <5>2. \E k \in StaleRows : rows[k].state = "processing" /\ rows[k].token = t
          BY <2>3, <3>1, Zenon
        <5> QED BY <2>1, <4>1, <5>1, <5>2, EndClaimsFields, SMTT(30)
      <4>3. Hidden(j, g)'
        BY <1>0, <3>3, <4>1, <4>2, ZenonT(60) DEF Hidden
      <4> QED BY <2>1, <4>3, Zenon DEF CarriesOn
    <3>4. CASE ~LeadsTo(j, g)
      BY <2>1, <3>1, <3>4, Zenon DEF CarriesOn, Live
    <3> QED BY <3>2, <3>3, <3>4, Zenon
  <2> QED BY <2>2, <2>3, Zenon
<1>9. ASSUME NEW w \in Workers, NEW k \in Jobs, NEW db \in DBResults, Claim(w, k, db) PROVE G
  <2>1. /\ rows[k].state = "pending" /\ requeued' = requeued /\ issued + 1 \in Tokens
        /\ rows' = [rows EXCEPT ![k] = NewRow("processing", rows[k].attempt, issued + 1, FALSE)]
        /\ claims' = [claims EXCEPT ![issued + 1] =
             NewClaim(k, rows[k].attempt, databaseRecoveryProof(rows[k].token).token, "open")]
    BY <1>9, ClaimTable, Zenon DEF Claim, selectPendingJob, Claimable
  <2>2. CASE k # j
    BY <1>0, <1>2, <2>1, <2>2, Zenon
  <2>3. CASE k = j
    <3>1. /\ rows'[j].state = "processing" /\ rows'[j].token = issued + 1
          /\ rows'[j].attempt = rows[j].attempt
          /\ claims'[issued + 1].inherited = databaseRecoveryProof(rows[j].token).token
      BY <1>0, <2>1, <2>3, Zenon DEF NewRow, NewClaim, TypeOK
    <3>2. LeadsTo(j, g) => databaseRecoveryProof(rows[j].token).token = g
      BY <2>1, <2>3, Zenon DEF LeadsTo, databaseRecoveryProof
    <3> QED BY <2>1, <2>3, <3>1, <3>2, ZenonT(60) DEF CarriesOn, Live, LeadsTo
  <2> QED BY <2>2, <2>3, Zenon
<1>10. ASSUME NEW w \in Workers, NEW db \in DBResults, Settle(w, db) PROVE G
  <2>1. CASE Applies(workers[w], db)
    <3>1. \A k \in Jobs \ {workers[w].job} : rows'[k] = rows[k]
      BY <1>10, <2>1, SettlementEffect, Zenon
    <3>2. requeued' = requeued
      BY <1>10, Zenon DEF Settle
    <3> QED BY <1>2, <1>10, <2>1, <3>1, <3>2, SettleCarries, ZenonT(60)
  <2>2. CASE ~Applies(workers[w], db)
    BY <1>2, <1>10, <2>2, Zenon DEF Settle
  <2> QED BY <2>1, <2>2, Zenon
<1>11. ASSUME NEW w \in Workers, NEW db \in DBResults, RestoreLineage(w, db) PROVE G
  <2> DEFINE m == workers[w]
             repaired == NeedsLineageRepair(m) /\ Applies(m, db) /\ rows[m.job].attempt = m.attempt
  <2>1. m.job \in Jobs /\ m.pc = "repair" /\ requeued' = requeued
    BY <1>11, Zenon DEF RestoreLineage, WorkerInv, WorkerOK
  <2>2. CASE ~repaired
    BY <1>2, <1>11, <2>1, <2>2, ZenonT(60) DEF RestoreLineage
  <2>3. CASE repaired
    <3>1. /\ rows' = [rows EXCEPT ![m.job] = NewRow("pending", m.attempt, InheritedProof(m), FALSE)]
          /\ rows[m.job].state = "processing" /\ rows[m.job].token = m.token
          /\ rows[m.job].attempt = m.attempt /\ ~m.committed
      BY <1>11, <2>3, Zenon DEF RestoreLineage, Applies, Fenced, NeedsLineageRepair
    <3>2. CASE m.job # j
      BY <1>0, <1>2, <2>1, <3>1, <3>2, ZenonT(60)
    <3>3. CASE m.job = j
      <4>1. LeadsTo(j, g) => InheritedProof(m) = g
        BY <2>1, <3>1, <3>3, HandsBackProof, Zenon DEF Busy
      <4>2. rows'[j].token = InheritedProof(m) /\ rows'[j].attempt = rows[j].attempt
        BY <1>0, <3>1, <3>3, Zenon DEF NewRow
      <4> QED BY <2>1, <3>1, <3>3, <4>1, <4>2, ZenonT(60) DEF CarriesOn, Live, LeadsTo
    <3> QED BY <3>2, <3>3, Zenon
  <2> QED BY <2>2, <2>3, ZenonT(60)
<1>12. ASSUME NEW w \in Workers, NEW err \in Errors,
              \/ ClaimNothing(w) \/ HandlerMissing(w) \/ MarkApplicationStateCommitted(w)
              \/ HandlerReturns(w, err) \/ Crash(w)
       PROVE  rows' = rows /\ requeued' = requeued
  BY <1>12, Zenon DEF ClaimNothing, HandlerMissing, MarkApplicationStateCommitted, HandlerReturns, Crash
<1>13. ASSUME UNCHANGED vars PROVE G
  BY <1>2, <1>13, Zenon DEF vars
<1>14. "nil" \in Errors
  BY Zenon DEF Errors
<1> HIDE DEF G
<1>15. G
  BY <1>2, <1>3, <1>4, <1>5, <1>6, <1>7, <1>8, <1>9, <1>10, <1>11, <1>12, <1>13, <1>14, ZenonT(60)
  DEF Next, WorkerStep, DeleteJob, ClearQueue, DBResults, Stored
<1> QED BY <1>15, Zenon DEF G

\* The receipts and their possible owners stay consistent with the workers.
LEMMA ReceiptInvStep ==
  ASSUME ClaimInv, CountInv, ReceiptInv, [Next]_vars, ClaimInv'
  PROVE  ReceiptInv'
<1> USE DEF ClaimInv
<1>1. EndedKept /\ IdentityKept
  BY TableStep, Zenon
<1>2. ASSUME NEW j \in Jobs, NEW g \in Tokens, MayOwn(j, g)
      PROVE  (claims[g].fate # "free" /\ claims[g].job = j /\ LineageOK(j, g))'
  <2>1. claims[g].fate # "free" /\ claims[g].job = j /\ LineageOK(j, g)
    BY <1>2, Zenon DEF ReceiptInv
  <2>2. CarriesOn(j, g) /\ requeued \subseteq requeued'
    BY <1>1, <1>2, StepCarries, Zenon
  <2> QED BY <1>1, <2>1, <2>2, LineageCarried, ZenonT(60) DEF IdentityKept
<1>3. ASSUME \A v \in Workers : GoesOn(workers[v], workers'[v]), receipt' = receipt
      PROVE  ReceiptInv'
  <2>1. ASSUME NEW j \in Jobs, NEW g \in Tokens, MayOwn(j, g)' PROVE MayOwn(j, g)
    BY <1>3, <2>1, Zenon DEF MayOwn, GoesOn
  <2>2. ASSUME NEW v \in Workers, Busy(v)'
        PROVE  /\ Busy(v) /\ workers'[v].token = workers[v].token
               /\ workers'[v].job = workers[v].job /\ workers'[v].committed = workers[v].committed
    BY <1>3, <2>2, Zenon DEF Busy, GoesOn
  <2>3. \A v \in Workers : Busy(v)' =>
          (workers[v].committed <=> receipt[workers[v].job] = workers[v].token)'
    BY <1>3, <2>2, Zenon DEF ReceiptInv
  <2>4. \A v, w \in Workers : (Busy(v) /\ Busy(w) /\ workers[v].token = workers[w].token)' => v = w
    BY <2>2, ZenonT(60) DEF ReceiptInv
  <2> QED BY <1>2, <2>1, <2>3, <2>4, Zenon DEF ReceiptInv
<1>4. ASSUME NEW w \in Workers, NEW j \in Jobs, NEW db \in DBResults, Claim(w, j, db)
      PROVE  ReceiptInv'
  <2> DEFINE t == issued + 1
  <2>1. /\ t \in Tokens /\ claims[t].fate = "free" /\ receipt' = receipt
        /\ \A v \in Workers \ {w} : workers'[v] = workers[v]
        /\ Busy(w)' => /\ workers'[w].job = j /\ workers'[w].token = t
                       /\ workers'[w].committed = FALSE
    <3>1. t \in Tokens
      BY <1>4, ClaimTable, Zenon
    <3>0. issued \in 0..MaxClaims
      BY Zenon DEF TypeOK
    <3>2. t > issued
      BY <3>0
    <3> QED BY <1>4, <3>1, <3>2, ZenonT(60) DEF Claim, TypeOK, TableInv, IssuedOK, Busy, Idle
  <2>2. /\ claims'[t].fate = "open" /\ claims'[t].job = j
        /\ rows'[j].token = t /\ rows[j].state = "pending"
    BY <1>4, <2>1, Zenon DEF Claim, TypeOK, NewClaim, NewRow, selectPendingJob, Claimable
  <2> HIDE DEF t
  <2>3. \A k \in Jobs : receipt[k] # t
    BY <2>1, ZenonT(60) DEF ReceiptInv, MayOwn
  <2>4. \A v \in Workers : Busy(v) => workers[v].token # t
    BY <2>1, Zenon DEF WorkerInv, WorkerOK, Busy
  <2>5. ASSUME NEW k \in Jobs, NEW g \in Tokens, MayOwn(k, g)'
        PROVE  (claims[g].fate # "free" /\ claims[g].job = k /\ LineageOK(k, g))'
    <3>1. CASE MayOwn(k, g)
      BY <1>2, <3>1, Zenon
    <3>2. CASE g = t /\ k = j
      BY <2>2, <3>2, Zenon DEF LineageOK, LeadsTo
    <3>3. MayOwn(k, g) \/ (g = t /\ k = j)
      BY <2>1, <2>5, Zenon DEF MayOwn, Busy
    <3> QED BY <3>1, <3>2, <3>3, Zenon
  <2>6. ASSUME NEW v \in Workers, Busy(v)'
        PROVE  (workers[v].committed <=> receipt[workers[v].job] = workers[v].token)'
    BY <2>1, <2>3, <2>6 DEF ReceiptInv, Busy
  <2>7. ASSUME NEW u \in Workers, NEW v \in Workers,
               (Busy(u) /\ Busy(v) /\ workers[u].token = workers[v].token)'
        PROVE  u = v
    BY <2>1, <2>4, <2>7 DEF ReceiptInv, Busy
  <2> QED BY <2>5, <2>6, <2>7, Zenon DEF ReceiptInv
<1>5. ASSUME NEW w \in Workers, MarkApplicationStateCommitted(w) PROVE ReceiptInv'
  <2> DEFINE m == workers[w]
  <2>1. /\ m.pc = "run" /\ m.job \in Jobs /\ m.token \in Tokens /\ receipt[m.job] = NoToken
        /\ receipt' = [receipt EXCEPT ![m.job] = m.token]
        /\ workers' = [workers EXCEPT ![w] = [m EXCEPT !.committed = TRUE]]
    BY <1>5, Zenon DEF MarkApplicationStateCommitted, WorkerInv, WorkerOK
  <2>2. /\ m \in Worker /\ \A v \in Workers \ {w} : workers'[v] = workers[v]
        /\ workers'[w].pc = "run" /\ workers'[w].job = m.job /\ workers'[w].token = m.token
        /\ workers'[w].committed = TRUE
        /\ receipt'[m.job] = m.token /\ \A k \in Jobs \ {m.job} : receipt'[k] = receipt[k]
        /\ m.token # NoToken
    BY <2>1, SpecialTokens DEF TypeOK, Worker
  <2> HIDE DEF m
  <2>3. \A v \in Workers : /\ workers'[v].pc = workers[v].pc /\ workers'[v].job = workers[v].job
                           /\ workers'[v].token = workers[v].token
    BY <2>1, <2>2, Zenon DEF m
  <2>4. ASSUME NEW k \in Jobs, NEW g \in Tokens, MayOwn(k, g)' PROVE MayOwn(k, g)
    BY <2>1, <2>2, <2>3, <2>4 DEF MayOwn, m
  <2>5. ASSUME NEW v \in Workers, Busy(v)'
        PROVE  (workers[v].committed <=> receipt[workers[v].job] = workers[v].token)'
    <3>1. CASE v = w
      BY <2>2, <3>1, Zenon
    <3>2. CASE v # w
      <4>1. /\ Busy(v) /\ workers[v].job \in Jobs /\ workers[v].token \in Tokens
            /\ workers[v].token # m.token /\ workers'[v] = workers[v]
        BY <2>1, <2>2, <2>5, <3>2, ZenonT(60) DEF ReceiptInv, Busy, WorkerInv, WorkerOK, m
      <4>2. ~workers[v].committed \/ workers[v].job # m.job
        BY <2>1, <4>1, SpecialTokens, Zenon DEF ReceiptInv
      <4>3. workers[v].committed <=> receipt[workers[v].job] = workers[v].token
        BY <4>1, Zenon DEF ReceiptInv
      <4> QED BY <2>2, <4>1, <4>2, <4>3, ZenonT(60)
    <3> QED BY <3>1, <3>2, Zenon
  <2>6. ASSUME NEW u \in Workers, NEW v \in Workers,
               (Busy(u) /\ Busy(v) /\ workers[u].token = workers[v].token)'
        PROVE  u = v
    BY <2>3, <2>6 DEF ReceiptInv, Busy
  <2> QED BY <1>2, <2>4, <2>5, <2>6, ZenonT(60) DEF ReceiptInv
<1> QED BY <1>3, <1>4, <1>5, WorkersGoOn, Zenon

\* No receipt and no delivery exists in the initial state.
LEMMA ReceiptInvInit == Init => ReceiptInv
<1> SUFFICES ASSUME Init PROVE ReceiptInv
  BY Zenon
<1>1. \A w \in Workers : workers[w].pc = "idle"
  BY Zenon DEF Init, Idle
<1>2. \A j \in Jobs, g \in Tokens : ~MayOwn(j, g)
  BY <1>1, SpecialTokens, Zenon DEF Init, MayOwn
<1> QED BY <1>1, <1>2, Zenon DEF ReceiptInv, Busy

\* The whole inductive invariant: claims, counts and receipts.
LEMMA DriverInvariant == Spec => [](ClaimInv /\ CountInv /\ ReceiptInv)
<1>1. Init => ClaimInv /\ CountInv /\ ReceiptInv
  BY ClaimInvInit, CountInvInit, ReceiptInvInit, Zenon
<1>2. ClaimInv /\ CountInv /\ ReceiptInv /\ [Next]_vars => (ClaimInv /\ CountInv /\ ReceiptInv)'
  BY ClaimInvStep, CountInvStep, ReceiptInvStep, Zenon
<1> QED BY <1>1, <1>2, PTL DEF Spec

\* A row's attempt column counts exactly the failed attempts settled for the
\* job: markFailed's fenced update writes both or neither, and recovery,
\* repair, redelivery and operators write neither.
THEOREM AttemptsCountFailures == Spec => []AttemptCountsFailures
<1>1. CountInv => AttemptCountsFailures
  BY Zenon DEF CountInv, CountOK, FailedClaims, FailedFates, StoredStates, AttemptCountsFailures
<1> QED BY <1>1, DriverInvariant, PTL

\* While the attempt that committed a workflow receipt is unsettled, the row
\* leads back to the receipt's owner (databasePendingRecoveryToken, the repair
\* and stale recovery), unless an operator or a second stale claim hid it.
THEOREM ReceiptLineageIsKept == Spec => []ReceiptLineageKept
<1>1. ClaimInv /\ ReceiptInv => ReceiptLineageKept
  <2> SUFFICES ASSUME ClaimInv, ReceiptInv, NEW j \in Jobs, receipt[j] # NoToken, Live(j),
                      rows[j].attempt = claims[receipt[j]].attempt, ~LineageBroken(j)
               PROVE  \/ rows[j].token = receipt[j]
                      \/ /\ rows[j].state = "processing" /\ rows[j].token \in Tokens
                         /\ claims[rows[j].token].inherited = receipt[j]
    BY Zenon DEF ReceiptLineageKept
  <2>1. receipt[j] \in Tokens
    BY Zenon DEF ClaimInv, TypeOK
  <2>2. LineageOK(j, receipt[j])
    BY <2>1, Zenon DEF ReceiptInv, MayOwn
  <2> QED BY <2>2, Zenon DEF LineageOK, LeadsTo, LineageBroken, Hidden
<1> QED BY <1>1, DriverInvariant, PTL

(***************************************************************************)
(* The driver implements the safety part of DeliveryQueue: every statement *)
(* is one step of the abstract queue or none.                              *)
(***************************************************************************)
StatusMap == [j \in Jobs |-> Status(j)]
FailureMap == [j \in Jobs |-> Failures(j)]

\* A job's status depends on the state column alone.
LEMMA StatusOfState ==
  ASSUME TypeOK, NEW j \in Jobs
  PROVE  /\ rows[j].state = "none" => Status(j) = "new"
         /\ rows[j].state \in {"pending", "processing"} => Status(j) = "live"
         /\ rows[j].state = "done" => Status(j) = "done"
         /\ rows[j].state = "dead" => Status(j) = "dead"
         /\ rows[j].state = "removed" => Status(j) = "gone"
<1>1. rows[j].state \in RowStates
  BY Zenon DEF TypeOK, Row
<1> QED BY <1>1, Zenon DEF Status, RowStates

\* The mapped failures follow the failed claims.
LEMMA FailuresFollow ==
  /\ \A j \in Jobs : FailureMap[j] = Cardinality(FailedClaims(j))
  /\ FailureMap' = [j \in Jobs |-> Cardinality(FailedClaims(j)')]
BY Zenon DEF FailureMap, Failures, FailedClaims, FailedFates

\* A step that gives no claim a verdict changes neither failures nor facts.
LEMMA NoVerdictKeeps ==
  ASSUME EndedKept, NoNewVerdict
  PROVE  FailureMap' = FailureMap /\ Announced' = Announced
<1>1. \A t \in Tokens : claims[t].fate \in Verdicts \/ claims'[t].fate \in Verdicts => claims'[t] = claims[t]
  BY Zenon DEF EndedKept, NoNewVerdict, Verdicts
<1>2. ASSUME NEW j \in Jobs PROVE FailedClaims(j)' = FailedClaims(j)
  BY <1>1, Zenon DEF FailedClaims, FailedFates, Verdicts
<1>3. FailureMap' = FailureMap
  BY <1>2, Zenon DEF FailureMap, Failures, FailedClaims, FailedFates
<1>4. Announced' = Announced
  BY <1>1, Zenon DEF Announced, Verdicts
<1> QED BY <1>3, <1>4, Zenon

\* Rows that keep their state keep their status.
LEMMA SameStatus ==
  ASSUME TypeOK, TypeOK', NEW j \in Jobs, rows'[j].state = rows[j].state
  PROVE  Status(j)' = Status(j)
BY Zenon DEF Status

\* One row moves, all others keep their status.
LEMMA OneMoves ==
  ASSUME TypeOK, TypeOK', NEW j \in Jobs, NEW a, Status(j)' = a,
         \A k \in Jobs \ {j} : rows'[k].state = rows[k].state
  PROVE  StatusMap' = [StatusMap EXCEPT ![j] = a]
<1>1. \A k \in Jobs \ {j} : Status(k)' = Status(k)
  BY SameStatus, Zenon
<1> QED BY <1>1, Zenon DEF StatusMap

\* The same for the row after a step.
LEMMA StatusOfStateNext ==
  ASSUME TypeOK', NEW j \in Jobs
  PROVE  /\ rows'[j].state = "none" => Status(j)' = "new"
         /\ rows'[j].state \in {"pending", "processing"} => Status(j)' = "live"
         /\ rows'[j].state = "done" => Status(j)' = "done"
         /\ rows'[j].state = "dead" => Status(j)' = "dead"
         /\ rows'[j].state = "removed" => Status(j)' = "gone"
<1>1. rows'[j].state \in RowStates
  BY Zenon DEF TypeOK, Row
<1> QED BY <1>1, Zenon DEF Status, RowStates

\* A step of the abstract queue, or none.
AbstractStep ==
  Abstract!Next \/ (StatusMap' = StatusMap /\ FailureMap' = FailureMap /\ Announced' = Announced)

\* A step that keeps every live row live and every other row as it was.
LEMMA QuietStep ==
  ASSUME TypeOK, TypeOK', FailureMap' = FailureMap, Announced' = Announced,
         \A j \in Jobs : \/ rows'[j].state = rows[j].state
                         \/ Live(j) /\ Live(j)'
  PROVE  AbstractStep
<1>1. ASSUME NEW j \in Jobs PROVE Status(j)' = Status(j)
  <2>1. CASE rows'[j].state = rows[j].state
    BY <2>1, SameStatus, Zenon
  <2>2. CASE Live(j) /\ Live(j)'
    BY <2>2, StatusOfState, StatusOfStateNext, Zenon DEF Live
  <2> QED BY <2>1, <2>2, Zenon
<1>2. StatusMap' = StatusMap
  BY <1>1, Zenon DEF StatusMap
<1> QED BY <1>2, Zenon DEF AbstractStep

\* An operator's RetryJob, CancelJob or DeleteJob is Operate.
LEMMA OperatorStep ==
  ASSUME TypeOK, TypeOK', FailureMap' = FailureMap, Announced' = Announced, NEW j \in Jobs,
         RetryJob(j) \/ CancelJob(j) \/ DeleteJob(j)
  PROVE  AbstractStep
<1>1. /\ rows[j].state \in {"pending", "processing", "dead"}
      /\ rows'[j].state \in {"pending", "dead", "removed"}
      /\ \A k \in Jobs \ {j} : rows'[k].state = rows[k].state
  BY DEF RetryJob, CancelJob, DeleteJob, DeleteRows, Stored, NewRow, AbsentRow, TypeOK
<1>2. Status(j) \in {"live", "dead"}
  BY <1>1, StatusOfState, Zenon
<1>3. PICK a \in {"live", "dead", "gone"} : Status(j)' = a
  BY <1>1, StatusOfStateNext, Zenon
<1>4. StatusMap' = [StatusMap EXCEPT ![j] = a] /\ StatusMap[j] \in {"live", "dead"}
  BY <1>1, <1>2, <1>3, OneMoves, Zenon DEF StatusMap
<1>5. Abstract!Operate(j)
  BY <1>3, <1>4, Zenon DEF Abstract!Operate, Abstract!Move, StatusMap, FailureMap
<1> QED BY <1>5, Zenon DEF AbstractStep, Abstract!Next

\* ClearQueue is Clear.
LEMMA ClearStep ==
  ASSUME TypeOK, TypeOK', FailureMap' = FailureMap, Announced' = Announced, ClearQueue
  PROVE  AbstractStep
<1>1. ASSUME NEW j \in Jobs
      PROVE  Status(j)' = IF Status(j) \in {"live", "dead"} THEN "gone" ELSE Status(j)
  <2>1. rows'[j] = IF j \in Stored THEN AbsentRow("removed") ELSE rows[j]
    BY Zenon DEF ClearQueue, DeleteRows
  <2>2. CASE j \in Stored
    <3>1. rows'[j].state = "removed" /\ rows[j].state \in {"pending", "processing", "dead"}
      BY <2>1, <2>2 DEF AbsentRow, NewRow, Stored
    <3> QED BY <3>1, StatusOfState, StatusOfStateNext, ZenonT(60)
  <2>3. CASE j \notin Stored
    <3>1. rows[j].state \in {"none", "done", "removed"}
      BY <2>3, Zenon DEF Stored, TypeOK, Row, RowStates
    <3> QED BY <2>1, <2>3, <3>1, StatusOfState, SameStatus, ZenonT(60)
  <2> QED BY <2>2, <2>3, Zenon
<1>2. StatusMap' = [j \in Jobs |-> IF StatusMap[j] \in {"live", "dead"} THEN "gone" ELSE StatusMap[j]]
  BY <1>1, Zenon DEF StatusMap
<1>3. Abstract!Clear
  BY <1>2, Zenon DEF Abstract!Clear, StatusMap, FailureMap
<1> QED BY <1>3, Zenon DEF AbstractStep, Abstract!Next

\* Dispatch is Accept.
LEMMA DispatchStep ==
  ASSUME TypeOK, TypeOK', FailureMap' = FailureMap, Announced' = Announced, NEW j \in Jobs, Dispatch(j)
  PROVE  AbstractStep
<1>1. /\ rows[j].state = "none" /\ rows'[j].state = "pending"
      /\ \A k \in Jobs \ {j} : rows'[k].state = rows[k].state
  BY DEF Dispatch, NewRow, TypeOK
<1>2. Status(j) = "new" /\ Status(j)' = "live"
  BY <1>1, StatusOfState, StatusOfStateNext, Zenon
<1>3. StatusMap' = [StatusMap EXCEPT ![j] = "live"] /\ StatusMap[j] \in {"new"}
  BY <1>1, <1>2, OneMoves, Zenon DEF StatusMap
<1>4. Abstract!Accept(j)
  BY <1>3, Zenon DEF Abstract!Accept, Abstract!Move, StatusMap, FailureMap
<1> QED BY <1>4, Zenon DEF AbstractStep, Abstract!Next

\* A settlement that stands completes, retries or archives its job, or hands
\* the same attempt back.
LEMMA SettlementStep ==
  ASSUME ClaimInv, CountInv, ClaimInv', NEW w \in Workers, NEW db \in DBResults, Settle(w, db),
         Applies(workers[w], db)
  PROVE  AbstractStep
<1>0. PICK m, j, t : m = workers[w] /\ j = m.job /\ t = m.token
  BY Zenon
<1>1. /\ m \in Worker /\ j \in Jobs /\ t \in Tokens /\ rows[j].state = "processing"
      /\ rows[j].attempt = m.attempt /\ m.attempt \in Nat
      /\ claims[t].fate = "open" /\ claims[t].job = j /\ rows'[j] = SettledRow(m)
      /\ \A k \in Jobs \ {j} : rows'[k] = rows[k]
      /\ claims'[t].fate = SettledFate(m) /\ claims'[t].job = j
      /\ \A s \in Tokens \ {t} : claims'[s] = claims[s]
  BY <1>0, SettlementEffect, Zenon
<1>2. /\ \A k \in Jobs \ {j} : FailedClaims(k)' = FailedClaims(k)
      /\ Cardinality(FailedClaims(j)') =
           IF SettledFate(m) \in FailedFates THEN m.attempt + 1 ELSE m.attempt
  BY <1>0, CountsSettled, ZenonT(60)
<1>3. Cardinality(FailedClaims(j)) = m.attempt
  BY <1>1, Zenon DEF CountInv, CountOK, StoredStates
<1>4. FailureMap' = IF SettledFate(m) \in FailedFates
                    THEN [FailureMap EXCEPT ![j] = FailureMap[j] + 1] ELSE FailureMap
  <2>1. \A k \in Jobs \ {j} : Cardinality(FailedClaims(k)') = Cardinality(FailedClaims(k))
    BY <1>2, Zenon
  <2>2. FailureMap = [k \in Jobs |-> Cardinality(FailedClaims(k))]
    BY Zenon DEF FailureMap, Failures, FailedClaims, FailedFates
  <2> QED BY <1>2, <1>3, <2>1, <2>2, FailuresFollow, ZenonT(60)
<1>5. SettledFate(m) # "done" => Announced' = Announced
  BY <1>1, ZenonT(60) DEF Announced
<1>6. Announced' \in {Announced, Announced \cup {j}}
  <2>1. \A k \in Jobs \ {j} : k \in Announced' <=> k \in Announced
    BY <1>1, ZenonT(60) DEF Announced
  <2>2. j \in Announced => j \in Announced'
    BY <1>1, Zenon DEF Announced
  <2>3. Announced \subseteq Jobs /\ Announced' \subseteq Jobs
    BY Zenon DEF Announced
  <2>4. j \in Jobs
    BY <1>1, Zenon
  <2> QED BY <2>1, <2>2, <2>3, <2>4
<1>7. TypeOK /\ TypeOK'
  BY Zenon DEF ClaimInv
<1>8. Status(j) = "live" /\ StatusMap[j] = "live" /\ FailureMap[j] = m.attempt
  BY <1>1, <1>3, <1>7, StatusOfState, FailuresFollow, ZenonT(60) DEF StatusMap
<1>9. \A k \in Jobs \ {j} : rows'[k].state = rows[k].state
  BY <1>1, Zenon
<1>10. CASE SettledFate(m) = "done"
  <2>1. rows'[j].state = "done"
    BY <1>0, <1>1, <1>10, SettledRowByFate, ZenonT(60)
  <2>2. StatusMap' = [StatusMap EXCEPT ![j] = "done"]
    BY <1>1, <1>7, <1>9, <2>1, StatusOfStateNext, OneMoves, ZenonT(60)
  <2>3. FailureMap' = FailureMap
    BY <1>4, <1>10, Zenon DEF FailedFates
  <2>4. Abstract!Complete(j)
    BY <1>6, <1>8, <2>2, <2>3, ZenonT(60) DEF Abstract!Complete, Abstract!Move, StatusMap, FailureMap
  <2> QED BY <1>1, <2>4, Zenon DEF AbstractStep, Abstract!Next
<1>11. CASE SettledFate(m) = "dead"
  <2>1. rows'[j].state = "dead"
    BY <1>0, <1>1, <1>11, SettledRowByFate, ZenonT(60)
  <2>2. StatusMap' = [StatusMap EXCEPT ![j] = "dead"]
    BY <1>1, <1>7, <1>9, <2>1, StatusOfStateNext, OneMoves, ZenonT(60)
  <2>3. FailureMap' = [FailureMap EXCEPT ![j] = FailureMap[j] + 1] /\ Announced' = Announced
    BY <1>4, <1>5, <1>11, Zenon DEF FailedFates
  <2>4. Abstract!Archive(j)
    BY <1>8, <2>2, <2>3, Zenon DEF Abstract!Archive, Abstract!Move, StatusMap, FailureMap
  <2> QED BY <1>1, <2>4, Zenon DEF AbstractStep, Abstract!Next
<1>12. CASE SettledFate(m) = "retried"
  <2>1. rows'[j].state = "pending" /\ m.attempt < MaxRetry[j]
    BY <1>0, <1>1, <1>12, SettledRowByFate, ZenonT(60)
  <2>2. StatusMap' = StatusMap
    BY <1>1, <1>7, <1>8, <1>9, <2>1, StatusOfStateNext, SameStatus, ZenonT(60) DEF StatusMap
  <2>3. FailureMap' = [FailureMap EXCEPT ![j] = FailureMap[j] + 1] /\ Announced' = Announced
    BY <1>4, <1>5, <1>12, Zenon DEF FailedFates
  <2>4. Abstract!Retry(j)
    BY <1>8, <2>1, <2>2, <2>3, ZenonT(60) DEF Abstract!Retry, StatusMap, FailureMap
  <2> QED BY <1>1, <2>4, Zenon DEF AbstractStep, Abstract!Next
<1>13. CASE SettledFate(m) = "returned"
  <2>1. rows'[j].state = "pending"
    BY <1>0, <1>1, <1>13, SettledRowByFate, ZenonT(60)
  <2>2. StatusMap' = StatusMap
    BY <1>1, <1>7, <1>8, <1>9, <2>1, StatusOfStateNext, SameStatus, ZenonT(60) DEF StatusMap
  <2>3. FailureMap' = FailureMap /\ Announced' = Announced
    BY <1>4, <1>5, <1>13, ZenonT(60) DEF FailedFates
  <2> QED BY <2>2, <2>3, Zenon DEF AbstractStep
<1> QED BY <1>10, <1>11, <1>12, <1>13, SettledFateType, ZenonT(60)

\* Recovery, claims, repairs, leases and everything a worker does between its
\* claim and its settlement are no step of the abstract queue.
LEMMA QuietRows ==
  ASSUME ClaimInv, [Next]_vars,
         ~\E w \in Workers, db \in DBResults : Settle(w, db) /\ Applies(workers[w], db)
  PROVE  \/ \A j \in Jobs : rows'[j].state = rows[j].state \/ (Live(j) /\ Live(j)')
         \/ \E j \in Jobs : Dispatch(j) \/ RetryJob(j) \/ CancelJob(j) \/ DeleteJob(j)
         \/ ClearQueue
<1> DEFINE G == \A j \in Jobs : rows'[j].state = rows[j].state \/ (Live(j) /\ Live(j)')
<1>0. rows \in [Jobs -> Row]
  BY Zenon DEF ClaimInv, TypeOK
<1>1. ASSUME rows' = rows PROVE G
  BY <1>1, Zenon
<1>2. ASSUME NEW j \in Jobs, BecomeAvailable(j) \/ LeaseExpires(j) PROVE G
  BY <1>0, <1>2, Zenon DEF BecomeAvailable, LeaseExpires, Row
<1>3. ASSUME NEW w \in Workers, NEW db \in DBResults, recoverStaleProcessing(w, db) PROVE G
  <2>1. \A j \in Jobs : rows'[j] = IF j \in StaleRows THEN RecoveredRow(rows[j]) ELSE rows[j]
    BY <1>3, Zenon DEF recoverStaleProcessing
  <2>2. \A j \in StaleRows : rows[j].state = "processing"
    BY Zenon DEF StaleRows
  <2> QED BY <2>1, <2>2, RecoveredRowFields, Zenon DEF Live
<1>4. ASSUME NEW w \in Workers, NEW j \in Jobs, NEW db \in DBResults, Claim(w, j, db) PROVE G
  BY <1>0, <1>4, Zenon DEF Claim, selectPendingJob, Claimable, NewRow, Live
<1>5. ASSUME NEW w \in Workers, NEW db \in DBResults, Settle(w, db) PROVE G
  BY <1>1, <1>5, Zenon DEF Settle
<1>6. ASSUME NEW w \in Workers, NEW db \in DBResults, RestoreLineage(w, db) PROVE G
  <2>1. CASE rows' = rows
    BY <1>1, <2>1, Zenon
  <2>2. CASE /\ rows' = [rows EXCEPT ![workers[w].job] =
                           NewRow("pending", workers[w].attempt, InheritedProof(workers[w]), FALSE)]
             /\ rows[workers[w].job].state = "processing"
    BY <1>0, <2>2, Zenon DEF NewRow, Live
  <2> QED BY <1>6, <2>1, <2>2, Zenon DEF RestoreLineage, Applies, Fenced
<1>7. ASSUME NEW w \in Workers, NEW err \in Errors,
             \/ ClaimNothing(w) \/ HandlerMissing(w) \/ MarkApplicationStateCommitted(w)
             \/ HandlerReturns(w, err) \/ Crash(w)
      PROVE  rows' = rows
  BY <1>7, Zenon DEF ClaimNothing, HandlerMissing, MarkApplicationStateCommitted, HandlerReturns, Crash
<1>8. ASSUME UNCHANGED vars PROVE G
  BY <1>1, <1>8, Zenon DEF vars
<1>9. "nil" \in Errors
  BY Zenon DEF Errors
<1> HIDE DEF G
<1>10. \/ G
       \/ \E j \in Jobs : Dispatch(j) \/ RetryJob(j) \/ CancelJob(j) \/ DeleteJob(j)
       \/ ClearQueue
  BY <1>1, <1>2, <1>3, <1>4, <1>5, <1>6, <1>7, <1>8, <1>9, ZenonT(60) DEF Next, WorkerStep, DBResults
<1> QED BY <1>10, Zenon DEF G

\* Every step of the driver is a step of the abstract queue, or none.
LEMMA StepImplements ==
  ASSUME ClaimInv, CountInv, [Next]_vars, ClaimInv'
  PROVE  AbstractStep
<1>1. CASE \E w \in Workers, db \in DBResults : Settle(w, db) /\ Applies(workers[w], db)
  BY <1>1, SettlementStep, Zenon
<1>2. CASE ~\E w \in Workers, db \in DBResults : Settle(w, db) /\ Applies(workers[w], db)
  <2>1. FailureMap' = FailureMap /\ Announced' = Announced
    BY <1>2, StepCounts, TableStep, NoVerdictKeeps, ZenonT(60) DEF ClaimInv
  <2>2. TypeOK /\ TypeOK'
    BY Zenon DEF ClaimInv
  <2> QED
    BY <1>2, <2>1, <2>2, QuietRows, QuietStep, OperatorStep, ClearStep, DispatchStep, ZenonT(60)
<1> QED BY <1>1, <1>2, Zenon

\* The rows an older release left behind are the jobs already accepted.
LEMMA InitImplements == Init => Abstract!Init
<1> SUFFICES ASSUME Init PROVE Abstract!Init
  BY Zenon
<1>1. \A t \in Tokens : claims[t].fate = "free"
  BY Zenon DEF Init, NewClaim
<1>2. \A j \in Jobs : Failures(j) = 0
  <2>1. \A j \in Jobs : {t \in Tokens : claims[t].job = j /\ claims[t].fate \in {"retried", "dead"}} = {}
    BY <1>1, Zenon
  <2> QED BY <2>1, FS_EmptySet, Zenon DEF Failures
<1>3. Announced = {}
  BY <1>1, Zenon DEF Announced
<1>4. \A j \in Jobs : Status(j) = IF j \in Legacy THEN "live" ELSE "new"
  <2>1. \A j \in Jobs : rows[j].state = IF j \in Legacy THEN "processing" ELSE "none"
    BY Zenon DEF Init, NewRow, AbsentRow
  <2> QED BY <2>1, TypeInit, StatusOfState, Zenon
<1> QED BY <1>2, <1>3, <1>4, ZenonT(60) DEF Abstract!Init

\* Through crashes, lost and ambiguous statements, late workers and operators
\* the driver keeps the safety promise of DeliveryQueue, for any number of
\* jobs and workers: no accepted job is forgotten, completed twice, retried
\* beyond its budget or announced before it is completed.
THEOREM DriverImplementsQueue == Spec => Abstract!Spec
<1>1. Init => Abstract!Init
  BY InitImplements, Zenon
<1>2. ClaimInv /\ CountInv /\ [Next]_vars /\ ClaimInv' => [Abstract!Next]_(Abstract!vars)
  BY StepImplements, Zenon DEF AbstractStep, Abstract!vars, StatusMap, FailureMap
<1> QED BY <1>1, <1>2, DriverInvariant, PTL DEF Spec, Abstract!Spec
=============================================================================
