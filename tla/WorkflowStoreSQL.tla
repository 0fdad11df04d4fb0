-------------------------- MODULE WorkflowStoreSQL --------------------------
(***************************************************************************)
(* The SQL workflow store: store_sql.go.  Every settlement is a database   *)
(* transaction of several statements, run by concurrent deliveries beside  *)
(* CancelBatch or FailChain and a Prune.  The databases are SQLite, where  *)
(* one writer runs at a time, and PostgreSQL at its default READ COMMITTED *)
(* (BeginTx takes no options): a statement that meets a row another        *)
(* transaction has written waits for it, and what a transaction wrote is   *)
(* visible to the others once it commits.  The gap, next-key and shared    *)
(* locks InnoDB adds at REPEATABLE READ are not modelled.  A behaviour is  *)
(* about one workflow, a batch or a chain; row 0 is its parent row, row m  *)
(* the row of member or node m.                                            *)
(***************************************************************************)
EXTENDS Integers, FiniteSets

CONSTANTS
  N,        \* members of the batch, or nodes of the chain
  Variants, \* the combinations of kind, database, provenance and allow_failed
  MaxCalls, \* settlements, over all deliveries
  MaxFaults \* statements and commits that fail

ASSUME StoreAssumption ==
  /\ N \in Nat \ {0}
  /\ MaxCalls \in Nat
  /\ MaxFaults \in Nat
  /\ Variants \subseteq [kind : {"batch", "chain"}, dialect : {"sqlite", "postgres"},
                          valid : BOOLEAN, allow : BOOLEAN]

VARIABLES
  kind,     \* "batch" or "chain"
  valid,    \* transitionClaim.valid(): the transport names each delivery
  dialect,  \* "sqlite" or "postgres"
  batch,    \* bus_batches
  members,  \* bus_batch_jobs: "pending", "succeeded", "failed" or "gone"
  chain,    \* bus_chains
  nodes,    \* bus_chain_completed_nodes
  receipts, \* bus_workflow_transition_receipts; 0 is the aggregate receipt
  calls,    \* the settlements in progress
  pruner,   \* the Prune in progress
  locks,    \* the transaction that wrote each row, or Nobody
  faults,
  history   \* who recorded which outcome and who ended the workflow

storeVars == <<kind, valid, dialect, batch, members, chain, nodes, receipts>>
vars == <<storeVars, calls, pruner, locks, faults, history>>

Members == 1..N
Rows == 0..N
Calls == 1..MaxCalls
Nobody == 0
Stopped == -1
Pruner == MaxCalls + 1
Outcomes == {"succeeded", "failed"}
Answers == {"ended", "claimed", "wrote", "owned", "lost", "error"}

NoReceipt == [owner |-> Nobody, outcome |-> "none", completed |-> FALSE]
Known(r) == r.owner # Nobody
IdleCall == [pc |-> "idle", member |-> 0, outcome |-> "none",
             claimed |-> FALSE, seen |-> 0, reply |-> "none", corrupt |-> FALSE, answer |-> "none"]
NoPrune == [pc |-> "idle", receipts |-> {}, rows |-> FALSE, parent |-> FALSE]

\* updated_at_ms is written on every change of a parent; it matters to a Prune
\* that has already begun.
Pruning == pruner.pc \notin {"idle", "done"}

Fault(db) == IF db = "ok" THEN UNCHANGED faults
             ELSE faults < MaxFaults /\ faults' = faults + 1

\* CreateBatch commits the parent and its members together; CreateChain is one
\* insert.  A workflow is settled only after it was created.
Init ==
  /\ \E v \in Variants : /\ kind = v.kind /\ dialect = v.dialect /\ valid = v.valid
                         /\ batch = [exists |-> kind = "batch", allow |-> v.allow, pending |-> N,
                                     processed |-> 0, failed |-> 0, cancelled |-> FALSE,
                                     completed |-> FALSE, touched |-> FALSE]
  /\ members = [m \in Members |-> "pending"]
  /\ chain = [exists |-> kind = "chain", next |-> 1, completed |-> FALSE, failed |-> FALSE,
              touched |-> FALSE]
  /\ nodes = {}
  /\ receipts = [r \in Rows |-> NoReceipt]
  /\ calls = [c \in Calls |-> IdleCall]
  /\ pruner = NoPrune
  /\ locks = [r \in Rows |-> Nobody]
  /\ faults = 0
  /\ history = [outcome |-> [m \in Members |-> "pending"], writer |-> [m \in Members |-> Nobody],
                ender |-> Nobody]

(***************************************************************************)
(* Transactions                                                            *)
(***************************************************************************)
\* lockWriteTransaction and SQLite's single writer; PostgreSQL's row locks, which
\* a statement takes on the rows it changes or selects FOR UPDATE.
CanWrite(t, r) ==
  /\ locks[r] \in {Nobody, t}
  /\ dialect = "sqlite" => \A k \in Rows : locks[k] \in {Nobody, t}

Released(t) == [r \in Rows |-> IF locks[r] = t THEN Nobody ELSE locks[r]]

Return(c, a) == [calls EXCEPT ![c] = [IdleCall EXCEPT !.pc = "returned", !.answer = a]]
ReturnCorrupt(c) == [Return(c, "error") EXCEPT ![c].corrupt = TRUE]

\* A delivery calls the store for a member of the batch, or for a chain node it
\* was dispatched for: node 1, or the successor of a node that has succeeded.
Invoked(c, m, o) ==
  /\ calls[c].pc = "idle"
  /\ \A b \in Calls : b < c => calls[b].pc # "idle"
  /\ kind = "chain" => \A k \in Members : k < m => history.outcome[k] = "succeeded"

Call(m, o, step) == [IdleCall EXCEPT !.pc = step, !.member = m, !.outcome = o]

\* A statement fails: the deferred rollback and an error.
StatementFails(c) ==
  /\ calls[c].pc \in {"receipt", "parent", "insert", "cas", "reread"}
  /\ Fault("failed")
  /\ calls' = Return(c, "error")
  /\ locks' = Released(c)
  /\ UNCHANGED <<storeVars, pruner, history>>

(***************************************************************************)
(* A batch: markBatchTerminal                                              *)
(***************************************************************************)
\* Mutant: the member is claimed whatever its row says.
ClaimsAgain(m) == members[m] # "gone"

\* UPDATE bus_batch_jobs ... WHERE done=0.
Claims(m) == members[m] = "pending"

ClaimMember(c, m, o) ==
  /\ kind = "batch"
  /\ Invoked(c, m, o)
  /\ CanWrite(c, m)
  /\ calls' = [calls EXCEPT ![c] = [Call(m, o, "parent") EXCEPT !.claimed = Claims(m)]]
  /\ locks' = IF Claims(m) \/ dialect = "sqlite" THEN [locks EXCEPT ![m] = c] ELSE locks
  /\ UNCHANGED <<storeVars, pruner, faults, history>>

\* getBatchTransitionReceipt, validateBatchAggregateReceiptOwner: an aggregate
\* receipt must name the owner and the outcome of exactly one member receipt.
Readable ==
  Known(receipts[0]) =>
    LET owners == {m \in Members : receipts[m].owner = receipts[0].owner} IN
    /\ Cardinality(owners) = 1
    /\ \A m \in owners : receipts[m].outcome = receipts[0].outcome

\* Mutant: completion reads the count after it was decremented, as MySQL would
\* with the assignments in another order.
SettledDecrementedFirst(c) ==
  LET failing == calls[c].outcome = "failed" IN
  [batch EXCEPT !.cancelled = @ \/ (failing /\ ~batch.allow),
                !.completed = @ \/ batch.pending - 1 <= 1 \/ (failing /\ ~batch.allow),
                !.pending = IF @ > 0 THEN @ - 1 ELSE 0,
                !.processed = @ + 1,
                !.failed = @ + IF failing THEN 1 ELSE 0,
                !.touched = Pruning]

\* The parent after the arithmetic update of a claimed settlement.
Settled(c) ==
  LET failing == calls[c].outcome = "failed" IN
  [batch EXCEPT !.cancelled = @ \/ (failing /\ ~batch.allow),
                !.completed = @ \/ batch.pending <= 1 \/ (failing /\ ~batch.allow),
                !.pending = IF @ > 0 THEN @ - 1 ELSE 0,
                !.processed = @ + 1,
                !.failed = @ + IF failing THEN 1 ELSE 0,
                !.touched = Pruning]

\* The settlement that crosses into completion.
Completes(c) == calls[c].seen = 0 /\ Settled(c).completed

\* insertTransitionReceipt fails when another owner's receipt is there.
Conflicts(c) ==
  /\ calls[c].claimed
  /\ valid
  /\ \/ Known(receipts[calls[c].member])
     \/ ~batch.completed /\ Settled(c).completed /\ Known(receipts[0])

\* Mutant: the parent is read without FOR UPDATE, from a snapshot.
ReadParentUnlocked(c) ==
  /\ calls[c].pc = "parent"
  /\ calls' = IF ~batch.exists THEN Return(c, "error")
              ELSE [calls EXCEPT ![c].pc = "commit", ![c].seen = IF batch.completed THEN 1 ELSE 0]
  /\ locks' = IF ~batch.exists THEN Released(c) ELSE locks
  /\ UNCHANGED <<storeVars, pruner, faults, history>>

\* owned: the committed outcome of the member is the requested one.
DuplicateAnswer(c) == IF members[calls[c].member] = calls[c].outcome THEN "owned" ELSE "lost"

\* getBatchTx locks the parent and reads it; the rest of the transaction writes
\* only rows it has locked.  A missing parent or member is ErrNotFound.
LockParent(c) ==
  LET missing == ~batch.exists \/ members[calls[c].member] = "gone"
      corrupt == IF calls[c].claimed THEN Conflicts(c) ELSE ~Readable
  IN
  /\ calls[c].pc = "parent"
  /\ CanWrite(c, 0)
  /\ calls' = CASE missing -> Return(c, "error")
               [] ~missing /\ corrupt -> ReturnCorrupt(c)
               [] OTHER -> [calls EXCEPT ![c].pc = "commit",
                                         ![c].seen = IF batch.completed THEN 1 ELSE 0,
                                         ![c].reply = IF calls[c].claimed THEN "none"
                                                      ELSE DuplicateAnswer(c)]
  /\ locks' = IF missing \/ corrupt THEN Released(c) ELSE [locks EXCEPT ![0] = c]
  /\ UNCHANGED <<storeVars, pruner, faults, history>>

BatchReceipts(c) ==
  LET r == [owner |-> c, outcome |-> calls[c].outcome, completed |-> FALSE] IN
  [receipts EXCEPT ![calls[c].member] = r,
                   ![0] = IF Completes(c) THEN [r EXCEPT !.completed = TRUE] ELSE @]

\* What a claimed settlement leaves, for the batch and for the chain.
Recorded(c, ends) ==
  [history EXCEPT !.outcome[calls[c].member] = calls[c].outcome,
                  !.writer[calls[c].member] = c,
                  !.ender = IF ends THEN c ELSE @]

AfterCommit(c, db, answer) ==
  CASE db = "ok" -> Return(c, answer)
    [] db # "ok" /\ valid -> [calls EXCEPT ![c].pc = "readback"]
    [] OTHER -> Return(c, "error")

CommitBatch(c, db) ==
  /\ kind = "batch" /\ calls[c].pc = "commit"
  /\ Fault(db)
  /\ IF db = "failed" THEN UNCHANGED <<batch, members, receipts, history>>
     ELSE IF ~calls[c].claimed
     THEN /\ batch' = [batch EXCEPT !.touched = Pruning]
          /\ UNCHANGED <<members, receipts, history>>
     ELSE /\ batch' = Settled(c)
          /\ members' = [members EXCEPT ![calls[c].member] = calls[c].outcome]
          /\ receipts' = IF valid THEN BatchReceipts(c) ELSE receipts
          /\ history' = Recorded(c, Completes(c))
  /\ calls' = AfterCommit(c, db,
                 CASE ~calls[c].claimed -> calls[c].reply
                   [] calls[c].claimed /\ ~valid -> "wrote"
                   [] OTHER -> IF Completes(c) THEN "ended" ELSE "claimed")
  /\ locks' = Released(c)
  /\ UNCHANGED <<kind, valid, dialect, chain, nodes, pruner>>

\* CancelBatch: one unconditional UPDATE.
CancelBatch ==
  /\ batch.exists
  /\ CanWrite(Nobody, 0)
  /\ batch' = [batch EXCEPT !.cancelled = TRUE, !.completed = TRUE, !.touched = Pruning]
  /\ history' = [history EXCEPT !.ender = IF batch.completed THEN @ ELSE Stopped]
  /\ UNCHANGED <<kind, valid, dialect, members, chain, nodes, receipts, calls, pruner, locks, faults>>

(***************************************************************************)
(* A chain: advanceChainOutcome, failChainOutcome                          *)
(***************************************************************************)
ChainOpen == ~chain.completed /\ ~chain.failed

\* chainNodeAdvanceDisposition and chainNodeFailureDisposition: what a call finds
\* for its node, of a chain that may be gone or behind.
Disposition(n, o) ==
  CASE ~chain.exists -> "error"
    [] chain.exists /\ n > chain.next -> "corrupt"
    [] chain.exists /\ n = chain.next /\ ChainOpen -> "claimable"
    [] OTHER -> IF o = (IF n < chain.next THEN "succeeded" ELSE "failed") THEN "owned" ELSE "lost"

\* GetChain and the dispositions, before any transaction.
ReadChain(c, n, o) ==
  LET d == Disposition(n, o)
      next == IF d # "claimable" THEN "receipt" ELSE IF o = "succeeded" THEN "insert" ELSE "cas"
  IN
  /\ kind = "chain"
  /\ Invoked(c, n, o)
  /\ calls' = [calls EXCEPT ![c] = [Call(n, o, next) EXCEPT !.seen = chain.next, !.reply = d]]
  /\ UNCHANGED <<storeVars, pruner, locks, faults, history>>

\* An error is returned as it is; an answer waits for chainTransitionReceipt,
\* which reads the chain again and fails when it is gone.
ReadReceipt(c) ==
  /\ calls[c].pc = "receipt"
  /\ calls' = CASE calls[c].reply = "corrupt" -> ReturnCorrupt(c)
               [] calls[c].reply # "corrupt" /\ ~chain.exists -> Return(c, "error")
               [] OTHER -> Return(c, calls[c].reply)
  /\ UNCHANGED <<storeVars, pruner, locks, faults, history>>

\* The compare-and-swap was lost: the node must have an answer now.
RereadChain(c) ==
  LET d == Disposition(calls[c].member, calls[c].outcome) IN
  /\ calls[c].pc = "reread"
  /\ calls' = [calls EXCEPT ![c].pc = "receipt",
                            ![c].reply = IF d = "claimable" THEN "corrupt" ELSE d]
  /\ UNCHANGED <<storeVars, pruner, locks, faults, history>>

\* insertChainCompletedNode: a node row that is already there is ignored.
InsertNode(c) ==
  LET n == calls[c].member IN
  /\ calls[c].pc = "insert"
  /\ CanWrite(c, n)
  /\ calls' = [calls EXCEPT ![c].pc = "cas"]
  /\ locks' = IF n \notin nodes \/ dialect = "sqlite" THEN [locks EXCEPT ![n] = c] ELSE locks
  /\ UNCHANGED <<storeVars, pruner, faults, history>>

\* UPDATE bus_chains ... WHERE next_index=? AND completed=0 AND failed=0.
Swaps(c) == chain.exists /\ ChainOpen /\ chain.next = calls[c].seen

SwapChain(c) ==
  /\ calls[c].pc = "cas"
  /\ CanWrite(c, 0)
  /\ calls' = CASE ~Swaps(c) -> [calls EXCEPT ![c].pc = "reread"]
               [] Swaps(c) /\ valid /\ Known(receipts[calls[c].member]) -> ReturnCorrupt(c)
               [] OTHER -> [calls EXCEPT ![c].pc = "commit", ![c].claimed = TRUE]
  /\ locks' = IF calls'[c].pc = "commit" THEN [locks EXCEPT ![0] = c] ELSE Released(c)
  /\ UNCHANGED <<storeVars, pruner, faults, history>>

\* The chain after the transaction: advanced, and completed by its last node,
\* or failed.
Advanced(c) ==
  IF calls[c].outcome = "succeeded"
  THEN [chain EXCEPT !.next = @ + 1, !.completed = (chain.next = N), !.touched = Pruning]
  ELSE [chain EXCEPT !.failed = TRUE, !.touched = Pruning]

EndsChain(c) == calls[c].outcome = "failed" \/ calls[c].member = N

CommitChain(c, db) ==
  LET n == calls[c].member IN
  /\ kind = "chain" /\ calls[c].pc = "commit"
  /\ Fault(db)
  /\ IF db = "failed" THEN UNCHANGED <<chain, nodes, receipts, history>>
     ELSE /\ chain' = Advanced(c)
          /\ nodes' = IF calls[c].outcome = "succeeded" THEN nodes \cup {n} ELSE nodes
          /\ receipts' = IF ~valid THEN receipts
                         ELSE [receipts EXCEPT ![n] =
                                 [owner |-> c, outcome |-> calls[c].outcome, completed |-> Advanced(c).completed]]
          /\ history' = Recorded(c, EndsChain(c))
  /\ calls' = AfterCommit(c, db, IF EndsChain(c) THEN "ended" ELSE "claimed")
  /\ locks' = Released(c)
  /\ UNCHANGED <<kind, valid, dialect, batch, members, pruner>>

\* FailChain: one UPDATE of an unfinished chain.
FailChain ==
  /\ chain.exists /\ ChainOpen
  /\ CanWrite(Nobody, 0)
  /\ chain' = [chain EXCEPT !.failed = TRUE, !.touched = Pruning]
  /\ history' = [history EXCEPT !.ender = Stopped, !.outcome[chain.next] = "failed",
                                !.writer[chain.next] = Stopped]
  /\ UNCHANGED <<kind, valid, dialect, batch, members, nodes, receipts, calls, pruner, locks, faults>>

(***************************************************************************)
(* An ambiguous commit                                                     *)
(***************************************************************************)
\* The receipt names this delivery and its outcome in a workflow that exists.
OwnsReceipt(c) ==
  LET r == receipts[calls[c].member] IN
  (batch.exists \/ chain.exists) /\ r.owner = c /\ r.outcome = calls[c].outcome

\* readCommittedBatchSettlement takes the end from the aggregate receipt,
\* readCommittedChainAdvance and readCommittedChainFailure from the node's.
ReadBack(c, db) ==
  LET ends == IF kind = "batch" THEN receipts[0].owner = c ELSE EndsChain(c)
      unreadable == kind = "batch" /\ ~Readable
  IN
  /\ calls[c].pc = "readback"
  /\ Fault(db)
  /\ calls' = IF db = "failed" \/ unreadable \/ ~OwnsReceipt(c) THEN Return(c, "error")
              ELSE Return(c, IF ends THEN "ended" ELSE "claimed")
  /\ UNCHANGED <<storeVars, pruner, locks, history>>

(***************************************************************************)
(* Prune: three statements for each kind, in one transaction               *)
(***************************************************************************)
Terminal == \/ batch.exists /\ batch.completed
            \/ chain.exists /\ ~ChainOpen

\* updated_at_ms < cutoff AND terminal, on the committed row.  The cutoff lies
\* before this Prune began: a row written since then is too young.
Expired == Terminal /\ ~batch.touched /\ ~chain.touched

DependentRows == IF kind = "batch" THEN {m \in Members : members[m] # "gone"} ELSE nodes

\* The receipts of expired workflows.  One that is not terminal by now will be
\* too young for the later statements.
PruneReceipts ==
  /\ pruner.pc = "idle"
  /\ Terminal
  /\ CanWrite(Pruner, 0)
  /\ batch' = [batch EXCEPT !.touched = FALSE]
  /\ chain' = [chain EXCEPT !.touched = FALSE]
  /\ pruner' = [NoPrune EXCEPT !.pc = "select", !.receipts = {r \in Rows : Known(receipts[r])}]
  /\ locks' = IF dialect = "sqlite" THEN [locks EXCEPT ![0] = Pruner] ELSE locks
  /\ UNCHANGED <<kind, valid, dialect, members, nodes, receipts, calls, faults, history>>

\* Mutant: the parent is deleted before the members.
PruneSelectParentFirst ==
  /\ pruner.pc = "select"
  /\ CanWrite(Pruner, 0)
  /\ pruner' = [pruner EXCEPT !.pc = "rows", !.rows = Expired]
  /\ locks' = IF Expired THEN [locks EXCEPT ![0] = Pruner] ELSE locks
  /\ UNCHANGED <<storeVars, calls, faults, history>>

\* The members or node rows: the subselect reads the parent as it is committed
\* when the statement starts, without a lock, then each row is deleted as its
\* writer lets go of it.
PruneSelect ==
  /\ pruner.pc = "select"
  /\ pruner' = [pruner EXCEPT !.pc = "rows", !.rows = Expired]
  /\ UNCHANGED <<storeVars, calls, locks, faults, history>>

PruneRow(m) ==
  /\ pruner.pc = "rows" /\ pruner.rows
  /\ m \in DependentRows /\ locks[m] # Pruner
  /\ CanWrite(Pruner, m)
  /\ locks' = [locks EXCEPT ![m] = Pruner]
  /\ UNCHANGED <<storeVars, calls, pruner, faults, history>>

\* Mutant: the parent goes with the rows selected before, whatever its age.
ParentSelected == pruner.rows

\* The parent: its own row decides, once no other transaction holds it.
ParentExpired == Expired

PruneParent ==
  /\ pruner.pc = "rows"
  /\ pruner.rows => \A m \in DependentRows : locks[m] = Pruner
  /\ CanWrite(Pruner, 0)
  /\ pruner' = [pruner EXCEPT !.pc = "commit", !.parent = ParentExpired]
  /\ locks' = IF ParentExpired THEN [locks EXCEPT ![0] = Pruner] ELSE locks
  /\ UNCHANGED <<storeVars, calls, faults, history>>

PruneCommit(db) ==
  /\ pruner.pc = "commit"
  /\ Fault(db)
  /\ IF db = "failed" THEN UNCHANGED <<batch, members, chain, nodes, receipts>>
     ELSE /\ receipts' = [r \in Rows |-> IF r \in pruner.receipts THEN NoReceipt ELSE receipts[r]]
          /\ members' = IF pruner.rows /\ kind = "batch" THEN [m \in Members |-> "gone"] ELSE members
          /\ nodes' = IF pruner.rows THEN {} ELSE nodes
          /\ batch' = [batch EXCEPT !.exists = @ /\ ~pruner.parent]
          /\ chain' = [chain EXCEPT !.exists = @ /\ ~pruner.parent]
  /\ pruner' = [NoPrune EXCEPT !.pc = "done"]
  /\ locks' = Released(Pruner)
  /\ UNCHANGED <<kind, valid, dialect, calls, history>>

PruneFails ==
  /\ pruner.pc \in {"select", "rows"}
  /\ Fault("failed")
  /\ pruner' = [NoPrune EXCEPT !.pc = "done"]
  /\ locks' = Released(Pruner)
  /\ UNCHANGED <<storeVars, calls, history>>

(***************************************************************************)
(* The specification                                                       *)
(***************************************************************************)
CallStep(c) ==
  \/ LockParent(c)
  \/ \E db \in {"ok", "failed", "ambiguous"} : CommitBatch(c, db) \/ CommitChain(c, db)
  \/ ReadReceipt(c)
  \/ RereadChain(c)
  \/ InsertNode(c)
  \/ SwapChain(c)
  \/ \E db \in {"ok", "failed"} : ReadBack(c, db)

PruneStep ==
  \/ PruneSelect
  \/ \E m \in Members : PruneRow(m)
  \/ PruneParent
  \/ \E db \in {"ok", "failed", "ambiguous"} : PruneCommit(db)

Next ==
  \/ \E c \in Calls, m \in Members, o \in Outcomes :
       ClaimMember(c, m, o) \/ ReadChain(c, m, o)
  \/ \E c \in Calls : CallStep(c) \/ StatementFails(c)
  \/ CancelBatch
  \/ FailChain
  \/ PruneReceipts
  \/ PruneStep
  \/ PruneFails

Spec == Init /\ [][Next]_vars

(***************************************************************************)
(* Properties                                                              *)
(***************************************************************************)
\* Rows, counters and lock owners keep their range.
TypeOK ==
  /\ members \in [Members -> {"pending", "succeeded", "failed", "gone"}]
  /\ nodes \subseteq Members
  /\ batch.pending \in 0..N /\ batch.processed \in 0..N /\ batch.failed \in 0..N
  /\ chain.next \in 1..N + 1
  /\ locks \in [Rows -> {Nobody, Pruner} \cup Calls]
  /\ \A c \in Calls : calls[c].answer \in Answers \cup {"none"}

Settlements(recorded) == Cardinality({m \in Members : members[m] \in recorded})

\* The counters of the batch row are those of its member rows, and the batch is
\* complete exactly when its last member has settled, a failure has cancelled
\* it or it was stopped, however the settlements interleave
\* (markBatchTerminal's arithmetic UPDATE).
CountersAgree ==
  batch.exists /\ (\A m \in Members : members[m] # "gone") =>
    /\ batch.pending = Settlements({"pending"})
    /\ batch.processed = Settlements({"succeeded", "failed"})
    /\ batch.failed = Settlements({"failed"})
    /\ batch.completed <=> \/ batch.pending = 0
                           \/ batch.failed > 0 /\ ~batch.allow
                           \/ history.ender = Stopped

\* The stored receipts can always be read back, and no delivery is ever told
\* that its receipt conflicts, that the aggregate receipt has no single owner
\* or that a claimable node could not be claimed (the fail-closed errors of
\* insertTransitionReceipt, validateBatchAggregateReceiptOwner and
\* advanceChainOutcome).
NoCorruptionReported == Readable /\ \A c \in Calls : ~calls[c].corrupt

\* Prune never deletes a workflow and leaves rows of it behind, nor a workflow
\* that is still running ("in one transaction to avoid orphaned state").  The
\* converse is not promised: a parent that CancelBatch or a duplicate settlement
\* refreshes between the statements outlives its member rows.
NoOrphans ==
  /\ ~batch.exists /\ ~chain.exists =>
       /\ DependentRows = {}
       /\ \A r \in Rows : ~Known(receipts[r])
       /\ history.ender # Nobody
  /\ history.ender = Nobody => \A m \in Members : members[m] # "gone"

\* The promise of the store, kept by the transactions: the first writer of each
\* member wins, one settlement ends the workflow, and every answer is true,
\* ambiguous commits and their read-backs included.
Promise == INSTANCE WorkflowStore
  WITH rule <- CASE kind = "chain" -> "chain" [] kind = "batch" /\ batch.allow -> "all" [] OTHER -> "failfast",
       request <- [c \in Calls |-> [member |-> calls[c].member, outcome |-> calls[c].outcome]],
       outcome <- history.outcome,
       writer <- history.writer,
       ender <- history.ender,
       answer <- [c \in Calls |-> calls[c].answer]
ImplementsWorkflowStore == Promise!Spec

\* The transactions holding the row a transaction waits for.
WaitsFor(t) ==
  LET need == IF t = Pruner
              THEN IF pruner.pc # "rows" THEN {}
                   ELSE IF pruner.rows /\ \E m \in DependentRows : locks[m] # Pruner
                   THEN {m \in DependentRows : locks[m] # Pruner} ELSE {0}
              ELSE IF calls[t].pc = "insert" THEN {calls[t].member}
              ELSE IF calls[t].pc \in {"parent", "cas"} THEN {0} ELSE {}
  IN  {locks[r] : r \in need} \ {Nobody, t}

\* On SQLite and PostgreSQL, settlements of a workflow and a Prune never wait for
\* each other's rows in a circle: all of them take members before parents
\* (markBatchTerminal, "Reading the parent after the member CAS", and the order
\* of Prune's statements).  MySQL's subselects lock the parent first, and its gap
\* locks reach other workflows: there a settlement may be a deadlock victim, a
\* statement that fails.
NoDeadlock ==
  LET Transactions == Calls \cup {Pruner} IN
  ~ \E waiting \in SUBSET Transactions :
      /\ waiting # {}
      /\ \A t \in waiting : WaitsFor(t) \cap waiting # {}
=============================================================================
