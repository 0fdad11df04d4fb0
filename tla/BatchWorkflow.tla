--------------------------- MODULE BatchWorkflow ---------------------------
(***************************************************************************)
(* One batch of the workflow engine (internal/workflow/batch.go): the      *)
(* builder that creates it and dispatches its members one by one, the      *)
(* handler of its member envelopes, and the workflow store's batch state   *)
(* with its transition receipts.                                           *)
(*                                                                         *)
(* As in ChainWorkflow every store call and every dispatch is one step.    *)
(* The progress closure changes no state of the engine and is left out.    *)
(***************************************************************************)
EXTENDS WorkflowRuntime

CONSTANTS N,            \* number of members
          MaxRetry,     \* retry budget of each member's job
          AllowFailed   \* a failed member does not cancel the batch

ASSUME BatchAssumption ==
  N \in Nat \ {0} /\ MaxRetry \in Nat /\ AllowFailed \in BOOLEAN

VARIABLES batch,     \* the stored BatchState and the outcome of each member
          receipts,  \* the stored transition receipt of each member
          builder,   \* the builder's place in Dispatch, and the next member
          rejected   \* history: the builder cancelled the batch

batchVars == <<batch, receipts, builder, rejected>>
vars == <<msgs, dels, disruptions, runtimeVars, batchVars>>

Members == 1..N

(***************************************************************************)
(* Values                                                                  *)
(***************************************************************************)
BatchStates == [created: BOOLEAN, outcome: [Members -> {"pending", "succeeded", "failed"}],
                completed: BOOLEAN, cancelled: BOOLEAN]
\* The counters of BatchState.
Pending(b) == Cardinality({m \in Members : b.outcome[m] = "pending"})
FailedCount(b) == Cardinality({m \in Members : b.outcome[m] = "failed"})

\* completes, cancels: the transition that made the batch terminal.
MemberReceipts ==
  [gen: Generations \cup {NoGeneration}, env: Envelopes \cup {0}, attempt: Nat,
   outcome: {"none", "succeeded", "failed"}, completes: BOOLEAN, cancels: BOOLEAN]
MemberReceipt(r, completes, cancels) ==
  [gen |-> r.gen, env |-> r.env, attempt |-> r.attempt, outcome |-> r.outcome,
   completes |-> completes /\ Known(r), cancels |-> cancels /\ Known(r)]

\* A member's success or failure stands for its job fact with batch_progressed;
\* "cancelled" for batch_failed with batch_cancelled.
FactKinds == {"succeeded", "failed", "completed", "cancelled"}

Steps == {"execute", "settle_member", "confirm", "callbacks", "invoke", "finish"}
BuilderSteps == {"new", "dispatch", "reject", "cancel", "read", "catch", "finally", "returned"}

TypeOK ==
  /\ msgs \in [Envelopes -> MessageType({"member"} \cup Callbacks, Members)]
  /\ dels \in [Generations -> DeliveryType(Steps, {"member"} \cup Callbacks, Members,
                                           CallbackLists, FactType(FactKinds, Members))]
  /\ disruptions \in 0..MaxDisruptions
  /\ RuntimeTypeOK(FactKinds, Members)
  /\ batch \in BatchStates
  /\ receipts \in [Members -> MemberReceipts]
  /\ builder \in [pc: BuilderSteps, next: 1..(N + 1)]
  /\ rejected \in BOOLEAN

Init ==
  /\ TransportInit
  /\ RuntimeInit
  /\ batch = [created |-> FALSE, outcome |-> [m \in Members |-> "pending"],
              completed |-> FALSE, cancelled |-> FALSE]
  /\ receipts = [m \in Members |-> MemberReceipt(NoReceipt, FALSE, FALSE)]
  /\ builder = [pc |-> "new", next |-> 1]
  /\ rejected = FALSE

(***************************************************************************)
(* The store                                                               *)
(***************************************************************************)
\* Mutant: a late failure replaces a success.
UnsettledUnlessFailed(m) == batch.outcome[m] # "failed"

\* Only a member without an outcome is settled.
Unsettled(m) == batch.outcome[m] = "pending"

\* Mutant: failures of tolerant batches are never counted as processed.
settleUnlessFailed(b, m, outcome) ==
  LET settled == [b EXCEPT !.outcome = [@ EXCEPT ![m] = outcome]]
      failFast == outcome = "failed" /\ ~AllowFailed
  IN  [settled EXCEPT !.cancelled = @ \/ failFast,
                      !.completed = @ \/ failFast \/ Pending(settled) + FailedCount(settled) = 0]

\* settleBatchOutcome on a member that has no outcome yet.
settleBatchOutcome(b, m, outcome) ==
  LET settled == [b EXCEPT !.outcome = [@ EXCEPT ![m] = outcome]]
      failFast == outcome = "failed" /\ ~AllowFailed
  IN  [settled EXCEPT !.cancelled = @ \/ failFast,
                      !.completed = @ \/ failFast \/ Pending(settled) = 0]

\* Mutant: every settlement of a terminal batch claims the terminal transition.
completesAlways(b, settled) == settled.completed

\* The settlement that made the batch terminal.
completesBatch(b, settled) == ~b.completed /\ settled.completed

createBatch == [batch EXCEPT !.created = TRUE]
CancelBatch(b) == [b EXCEPT !.cancelled = TRUE, !.completed = TRUE]

(***************************************************************************)
(* The builder: batchBuilder.Dispatch                                      *)
(***************************************************************************)
BuilderAt(pc) == builder.pc = pc
BuilderTo(pc) == builder' = [builder EXCEPT !.pc = pc]

CreateBatch ==
  /\ BuilderAt("new")
  /\ batch' = createBatch
  /\ closures' = Callbacks
  /\ BuilderTo("dispatch")
  /\ UNCHANGED <<msgs, dels, disruptions, markers, facts, invoked, receipts, rejected>>

DispatchMember(db) ==
  /\ BuilderAt("dispatch")
  /\ BusDispatch("member", builder.next, db)
  /\ Fault(db)
  /\ builder' = IF db # "ok" THEN [builder EXCEPT !.pc = "reject"]
                ELSE [pc |-> IF builder.next = N THEN "returned" ELSE "dispatch",
                      next |-> builder.next + 1]
  /\ UNCHANGED <<dels, runtimeVars, batch, receipts, rejected>>

\* After a rejection: a batch some member of which was settled is left alone.
\* A state that cannot be read is treated as untouched.
ReadRejected(db) ==
  /\ BuilderAt("reject")
  /\ db \in {"ok", "failed"} /\ Fault(db)
  /\ BuilderTo(IF db = "ok" /\ (batch.completed \/ Pending(batch) < N) THEN "returned" ELSE "cancel")
  /\ UNCHANGED <<msgs, dels, runtimeVars, batch, receipts, rejected>>

\* CancelBatch writes the terminal flags whatever the batch has become since.
CancelRejected(db) ==
  /\ BuilderAt("cancel")
  /\ Fault(db)
  /\ IF db = "failed" THEN UNCHANGED <<batch, rejected>>
     ELSE batch' = CancelBatch(batch) /\ rejected' = TRUE
  /\ BuilderTo(IF db = "ok" THEN "read" ELSE "returned")
  /\ facts' = facts \cup IF db = "ok" THEN {BuilderFact("cancelled", builder.next)} ELSE {}
  /\ UNCHANGED <<msgs, dels, markers, closures, invoked, receipts>>

\* The closures that remain for the terminal outcome.
prepareBatchTerminalCallbacks(succeeded, hasFailures) ==
  closures \ ((IF succeeded /\ ~hasFailures THEN {"catch"} ELSE {})
              \cup (IF succeeded THEN {} ELSE {"then"}))

ReadCancelled(db) ==
  /\ BuilderAt("read")
  /\ db \in {"ok", "failed"} /\ Fault(db)
  /\ BuilderTo(IF db = "ok" THEN "catch" ELSE "returned")
  /\ closures' = IF db = "ok" THEN prepareBatchTerminalCallbacks(FALSE, FailedCount(batch) > 0)
                           ELSE closures
  /\ UNCHANGED <<msgs, dels, markers, facts, invoked, batch, receipts, rejected>>

CallbackInline(kind, db) ==
  /\ BuilderAt(kind)
  /\ invokeCallbackInline(kind, db)
  /\ BuilderTo(IF kind = "catch" THEN "finally" ELSE "returned")
  /\ UNCHANGED <<batch, receipts, rejected>>

(***************************************************************************)
(* The member handler: handleInternalBatchJob                              *)
(***************************************************************************)
Outcome(g) == IF dels[g].err = "nil" THEN "succeeded" ELSE "failed"

\* Mutant: the receipt's claim on the terminal transition is not looked at.
OwnsTerminalByOutcome(b, r, outcome) == b.completed /\ (~Known(r) \/ r.outcome = outcome)

batchSettlementOwnsTerminal(b, r, outcome) ==
  /\ b.completed
  /\ ~Known(r) \/ (r.outcome = outcome /\ r.completes /\ r.cancels = b.cancelled)

validateRecoveredBatchReceiptShape(b, r) ==
  /\ r.cancels => r.completes /\ r.outcome = "failed"
  /\ r.completes => b.completed /\ r.cancels = b.cancelled

\* recoverCommittedBatchTransition for a member that has a receipt: success
\* facts for the exact owner, and the recorded failure for every delivery.
recoverCommittedBatchTransition(g) ==
  LET r == receipts[dels[g].member]
      exact == transitionReceiptOwnsRecoveredFacts(g, r)
      own == IF exact /\ r.outcome = "succeeded" THEN {Fact(g, "succeeded")} ELSE {}
      terminal == IF /\ exact /\ r.completes /\ ~r.cancels
                     /\ batch.completed /\ ~batch.cancelled /\ Pending(batch) = 0
                  THEN {Fact(g, "completed")} ELSE {}
  IN  IF validateRecoveredBatchReceiptShape(batch, r)
      THEN emit(g, Return(g, IF r.outcome = "failed" THEN "permanent" ELSE "nil"), own \cup terminal, {})
      ELSE dels' = Return(g, "uncommitted") /\ UNCHANGED facts

\* Recovery, then MarkBatchJobStarted, which changes nothing but a marker.
Begin(g, db) ==
  /\ At(g, "member", "start")
  /\ Fault(db)
  /\ IF db # "ok" THEN dels' = Return(g, "uncommitted") /\ UNCHANGED facts
     ELSE IF Recovered(g) /\ Known(receipts[dels[g].member])
     THEN recoverCommittedBatchTransition(g)
     ELSE dels' = Goto(g, "execute") /\ UNCHANGED facts
  /\ UNCHANGED <<msgs, markers, closures, invoked, batchVars>>

\* executeStoredJobAttempt and the classification of its outcome.
Execute(g, err) ==
  /\ At(g, "member", "execute")
  /\ LET d == ClassifyAttempt(dels[g].attempt, MaxRetry, err)
     IN  /\ dels' = IF d \in {"retry", "redeliver"} THEN Return(g, err)
                    ELSE [dels EXCEPT ![g].pc = "settle_member", ![g].err = err]
         /\ IF d = "redeliver" THEN Disrupt ELSE UNCHANGED disruptions
  /\ UNCHANGED <<msgs, runtimeVars, batchVars>>

\* The callbacks a delivery dispatches, from the state b the store returned.
CatchList(b, outcome) == IF outcome = "failed" /\ FailedCount(b) = 1 THEN <<"catch">> ELSE <<>>
TerminalList(b) == IF b.cancelled THEN <<"finally">> ELSE <<"then", "finally">>
Effects(d, b, outcome, owns) == Callback(d, CatchList(b, outcome) \o IF owns THEN TerminalList(b) ELSE <<>>)
Prepare(g, b, owns) ==
  closures' = IF owns /\ dels[g].home
              THEN prepareBatchTerminalCallbacks(~b.cancelled, FailedCount(b) > 0) ELSE closures

\* A settlement this delivery made, continued on the state b and the receipt r
\* the store returned.
Continue(g, b, r) ==
  LET out == Outcome(g)
      owns == batchSettlementOwnsTerminal(b, r, out)
      positive == (IF out = "succeeded" THEN {Fact(g, "succeeded")} ELSE {})
                  \cup (IF owns /\ ~b.cancelled THEN {Fact(g, "completed")} ELSE {})
      negative == (IF out = "failed" THEN {Fact(g, "failed")} ELSE {})
                  \cup (IF out = "failed" /\ owns /\ b.cancelled THEN {Fact(g, "cancelled")} ELSE {})
      d == Effects(markDeliveryTransitionCommitted(g), b, out, owns)
  IN  /\ emit(g, [dels EXCEPT ![g] = d], positive, negative)
      /\ Prepare(g, b, owns)

\* settleBatchJob on a member that was settled before.  A recovered delivery
\* recovers the stored transition when it meant to succeed and the member did,
\* or meant to fail and the member did not; in the other two cases it is done.
Duplicate(g) ==
  LET m == dels[g].member
      out == Outcome(g)
      owned == batch.outcome[m] = out
      owns == owned /\ batchSettlementOwnsTerminal(batch, receipts[m], out)
  IN  IF Recovered(g) /\ Known(receipts[m]) /\ (owned <=> out = "succeeded")
      THEN recoverCommittedBatchTransition(g) /\ UNCHANGED closures
      ELSE IF Recovered(g) \/ ~owned
      THEN dels' = Return(g, "nil") /\ UNCHANGED <<facts, closures>>
      ELSE /\ dels' = [dels EXCEPT ![g] = Effects([@ EXCEPT !.err = "nil"], batch, out, owns)]
           /\ Prepare(g, batch, owns)
           /\ UNCHANGED facts

SettleMember(g, db) ==
  /\ At(g, "member", "settle_member")
  /\ Fault(db)
  /\ LET m == dels[g].member
         settled == settleBatchOutcome(batch, m, Outcome(g))
         completes == completesBatch(batch, settled)
         r == MemberReceipt(Receipt(g, Outcome(g)), completes, completes /\ settled.cancelled)
     IN  \/ /\ Unsettled(m) /\ db # "failed"
            /\ batch' = settled
            /\ receipts' = [receipts EXCEPT ![m] = r]
            /\ \/ db = "ok" /\ Continue(g, settled, r)
               \/ /\ db = "ambiguous"
                  /\ \/ dels' = Return(g, "uncommitted")
                     \/ Provenance /\ dels' = Goto(g, "confirm")
                  /\ UNCHANGED <<facts, closures>>
         \/ /\ db = "failed"
            /\ dels' = Return(g, "uncommitted")
            /\ UNCHANGED <<facts, closures, batch, receipts>>
         \/ /\ ~Unsettled(m) /\ db = "ok"
            /\ Duplicate(g)
            /\ UNCHANGED <<batch, receipts>>
  /\ UNCHANGED <<msgs, markers, invoked, builder, rejected>>

\* readCommittedBatchSettlement: the unclear commit is found by its receipt.
ConfirmSettlement(g) ==
  /\ At(g, "member", "confirm")
  /\ Continue(g, batch, receipts[dels[g].member])
  /\ UNCHANGED <<msgs, disruptions, markers, invoked, batchVars>>

(***************************************************************************)
(* The system                                                              *)
(***************************************************************************)
CallbackReady(kind) ==
  \/ kind = "catch" /\ (FailedCount(batch) > 0 \/ batch.cancelled)
  \/ kind = "then" /\ batch.completed /\ ~batch.cancelled
  \/ kind = "finally" /\ batch.completed

MemberStep(g) ==
  \/ \E err \in Errors : Execute(g, err)
  \/ \E db \in Results : Begin(g, db) \/ SettleMember(g, db)
  \/ ConfirmSettlement(g)

RuntimeStep(g) ==
  /\ \/ \E db \in Results, kind \in Callbacks : claimCallback(g, kind, CallbackReady(kind), db)
     \/ \E kind \in Callbacks : invokeCallback(g, kind)
     \/ \E kind \in Callbacks, err \in {"nil", "error"} : finishCallback(g, kind, err)
     \/ \E db \in Results : dispatchCallback(g, db)
     \/ \E db \in Results : settleDelivery(g, IF dels[g].kind = "member" THEN MaxRetry ELSE 0, db)
     \/ CrashAway(g)
  /\ UNCHANGED batchVars

BuilderStep ==
  \/ CreateBatch
  \/ \E db \in Results : \/ DispatchMember(db) \/ ReadRejected(db) \/ CancelRejected(db)
                         \/ ReadCancelled(db)
                         \/ CallbackInline("catch", db) \/ CallbackInline("finally", db)

Envelope(e) == TransportStep(e) /\ UNCHANGED batchVars

CrashBuilder ==
  /\ builder.pc # "new" /\ BuilderTo("returned")
  /\ CrashHome
  /\ UNCHANGED <<batch, receipts, rejected>>

Next ==
  \/ BuilderStep
  \/ \E g \in Generations : MemberStep(g) \/ RuntimeStep(g)
  \/ \E e \in Envelopes : Envelope(e)
  \/ CrashBuilder

Spec == Init /\ [][Next]_vars

\* Workers poll, handlers run to their end, and a dead claim's lease runs out.
Fairness ==
  /\ \A g \in Generations : WF_vars(MemberStep(g) \/ RuntimeStep(g))
  /\ \A e \in Envelopes : WF_vars(Envelope(e))

FairSpec == Spec /\ Fairness

(***************************************************************************)
(* Properties                                                              *)
(***************************************************************************)
\* The first outcome of a member wins (settleBatchOutcome): no later delivery
\* changes it or its receipt, a terminal batch stays terminal, and members
\* never cancel a batch that ended otherwise.
FirstOutcomeWins ==
  [][/\ \A m \in Members : batch.outcome[m] # "pending" =>
          batch'.outcome[m] = batch.outcome[m] /\ receipts'[m] = receipts[m]
     /\ batch.completed =>
          batch'.completed /\ (~rejected' => batch'.cancelled = batch.cancelled)]_vars

\* Exactly one member's receipt owns the transition that made the batch
\* terminal, and it records how the batch ended (recordTransitionReceipt,
\* markBatchTerminal), unless the builder cancelled the batch.
TerminalOwner ==
  LET owners == {m \in Members : receipts[m].completes}
  IN  /\ Cardinality(owners) <= 1
      /\ (Provenance /\ batch.completed /\ ~rejected) =>
           \E m \in owners : receipts[m].cancels = batch.cancelled

\* A published fact tells what the store decided, under one event id: members'
\* facts match their outcome and receipt, and batch_completed and worker
\* batch_cancelled come from the one receipt that owns the terminal transition
\* (batch.go 291-302, 380-414, 462-505).
FactsTruthful ==
  \A f \in facts :
     /\ f.kind \in {"succeeded", "failed"} => batch.outcome[f.member] = f.kind
     /\ f.kind = "completed" => Pending(batch) = 0 /\ (batch.cancelled => rejected)
     /\ f.kind = "cancelled" => batch.cancelled
     /\ f.env # 0 /\ Provenance =>
          /\ receipts[f.member].env = f.env /\ receipts[f.member].attempt = f.attempt
          /\ f.kind \in {"completed", "cancelled"} => receipts[f.member].completes

\* Each closure runs at most once, whatever the number of callback envelopes
\* and inline invocations (callbackOnce, batch.go 618-624), and only in a
\* state of its kind, which no member revokes.
CallbackAtMostOnce ==
  /\ \A i, j \in invoked : i[1] = j[1] => i = j
  /\ \A i \in invoked : CallbackReady(i[1]) \/ (i[1] = "then" /\ rejected)

\* A batch whose members were all queued comes to its end.
AllQueued == \A m \in Members : \E e \in Envelopes : msgs[e].kind = "member" /\ msgs[e].member = m
BatchEnds == AllQueued ~> batch.completed
=============================================================================
