--------------------------- MODULE ChainWorkflow ---------------------------
(***************************************************************************)
(* One chain of the workflow engine (internal/workflow/chain.go): the      *)
(* builder that creates and dispatches it, the handler of its node         *)
(* envelopes, and the workflow store's chain state with its transition     *)
(* receipts.                                                               *)
(*                                                                         *)
(* Every store call and every dispatch of a handler is one step, so any    *)
(* number of deliveries of one node interleave between them, and each call *)
(* can fail or take effect and report an error.  The stores serialise each *)
(* operation (a mutex in memory, one guarded transaction in SQL).          *)
(***************************************************************************)
EXTENDS WorkflowRuntime

CONSTANTS N,        \* number of nodes
          MaxRetry  \* retry budget of each node's job

ASSUME ChainAssumption ==
  N \in Nat \ {0} /\ MaxRetry \in Nat /\ "then" \notin Callbacks

VARIABLES chain,     \* the stored ChainState
          receipts,  \* the stored transition receipt of each node
          builder,   \* the builder's place in Dispatch
          swallowed  \* history: nodes whose late failure was dropped

chainVars == <<chain, receipts, builder, swallowed>>
vars == <<msgs, dels, disruptions, runtimeVars, chainVars>>

Nodes == 1..N

(***************************************************************************)
(* Values                                                                  *)
(***************************************************************************)
\* next is NextIndex counted from 1; Completed is next = N + 1.
ChainStates == [created: BOOLEAN, next: 1..(N + 1), failed: BOOLEAN]

\* A node's success stands for job_succeeded with chain_advanced, or with
\* chain_completed on the last node; its failure for job_failed, chain_failed.
FactKinds == {"succeeded", "failed"}

Steps == {"execute", "fail", "advance", "confirm", "successor", "callbacks", "invoke", "finish"}

TypeOK ==
  /\ msgs \in [Envelopes -> MessageType({"node"} \cup Callbacks, Nodes)]
  /\ dels \in [Generations -> DeliveryType(Steps, {"node"} \cup Callbacks, Nodes, CallbackLists,
                                           FactType(FactKinds, Nodes))]
  /\ disruptions \in 0..MaxDisruptions
  /\ RuntimeTypeOK(FactKinds, Nodes)
  /\ chain \in ChainStates
  /\ receipts \in [Nodes -> ReceiptType]
  /\ builder \in {"new", "dispatch", "reject", "catch", "finally", "returned"}
  /\ swallowed \subseteq Nodes

IsCompleted(c) == c.next = N + 1
IsActive(c) == c.created /\ ~IsCompleted(c) /\ ~c.failed
Completed == IsCompleted(chain)
Active == IsActive(chain)

Init ==
  /\ TransportInit
  /\ RuntimeInit
  /\ chain = [created |-> FALSE, next |-> 1, failed |-> FALSE]
  /\ receipts = [n \in Nodes |-> NoReceipt]
  /\ builder = "new"
  /\ swallowed = {}

(***************************************************************************)
(* The store                                                               *)
(***************************************************************************)
\* Mutant: a node that has succeeded can succeed again.
AdvanceableAgain(n) == Active /\ n <= chain.next

\* chainNodeAdvanceDisposition, chainNodeFailureDisposition: a node can advance
\* or fail the chain while it is the current node of an active chain.
Advanceable(n) == Active /\ n = chain.next
Failable(n) == Active /\ n = chain.next
advanceChainOutcome(n) == [chain EXCEPT !.next = n + 1]
failChainOutcome(n) == [chain EXCEPT !.failed = TRUE]
successOwned(n) == n < chain.next
failureOwned(n) == chain.failed /\ ~Completed /\ n = chain.next
\* A delivery ahead of the chain is an error, never a transition.
Premature(n) == n > chain.next

createChain == [chain EXCEPT !.created = TRUE]

(***************************************************************************)
(* The builder: chainBuilder.Dispatch                                      *)
(***************************************************************************)
CreateChain ==
  /\ builder = "new"
  /\ chain' = createChain
  /\ closures' = Callbacks
  /\ builder' = "dispatch"
  /\ UNCHANGED <<msgs, dels, disruptions, markers, facts, invoked, receipts, swallowed>>

DispatchFirst(db) ==
  /\ builder = "dispatch"
  /\ BusDispatch("node", 1, db)
  /\ Fault(db)
  /\ builder' = IF db = "ok" THEN "returned" ELSE "reject"
  /\ UNCHANGED <<dels, runtimeVars, chain, receipts, swallowed>>

\* failChainNode without a claim: no receipt.  The rejected envelope may have
\* been queued all the same and a worker may have moved the chain.
RejectChain(db) ==
  /\ builder = "reject"
  /\ Fault(db)
  /\ chain' = IF Failable(1) /\ db # "failed" THEN failChainOutcome(1) ELSE chain
  /\ builder' = IF db = "ok" /\ (Failable(1) \/ failureOwned(1)) THEN "catch" ELSE "returned"
  /\ facts' = facts \cup IF builder' = "catch" THEN {BuilderFact("failed", 1)} ELSE {}
  /\ UNCHANGED <<msgs, dels, markers, closures, invoked, receipts, swallowed>>

\* GetChain after the rejection fails: Dispatch returns without callbacks.
RejectedChainUnread ==
  /\ builder = "catch"
  /\ Disrupt
  /\ builder' = "returned"
  /\ UNCHANGED <<msgs, dels, runtimeVars, chain, receipts, swallowed>>

CallbackInline(kind, db) ==
  /\ builder = kind
  /\ invokeCallbackInline(kind, db)
  /\ builder' = IF kind = "catch" THEN "finally" ELSE "returned"
  /\ UNCHANGED <<chain, receipts, swallowed>>

(***************************************************************************)
(* The node handler: handleInternalChainNode                               *)
(***************************************************************************)
Successor(d, c) == [d EXCEPT !.pc = "successor", !.next = c.next]

\* recoverCommittedChainSuccess for a node whose success is stored: its facts
\* for the exact owner of the receipt, and the successor while it is pending.
recoverCommittedChainSuccess(g) ==
  LET n == dels[g].member
      own == IF transitionReceiptOwnsRecoveredFacts(g, receipts[n])
             THEN {Fact(g, "succeeded")} ELSE {}
      d == IF Active /\ chain.next = n + 1
           THEN [dels EXCEPT ![g] = Successor(@, chain)] ELSE Return(g, "nil")
  IN  emit(g, d, own, {})

\* Before application code runs a recovered delivery looks for a transition
\* that is already stored.
Recover(g, db) ==
  /\ At(g, "node", "start") /\ Recovered(g)
  /\ db \in {"ok", "failed"} /\ Fault(db)
  /\ LET n == dels[g].member
     IN  IF db = "failed" \/ Premature(n)
         THEN dels' = Return(g, "uncommitted") /\ UNCHANGED facts
         ELSE IF failureOwned(n) /\ Known(receipts[n])
         THEN dels' = Return(g, "permanent") /\ UNCHANGED facts
         ELSE IF successOwned(n) THEN recoverCommittedChainSuccess(g)
         ELSE dels' = Goto(g, "execute") /\ UNCHANGED facts
  /\ UNCHANGED <<msgs, markers, closures, invoked, chainVars>>

\* Mutant: the successor is dispatched before the chain is advanced.
ExecuteThenDispatch(g, err) ==
  /\ At(g, "node", "execute") \/ (At(g, "node", "start") /\ ~Recovered(g))
  /\ LET d == ClassifyAttempt(dels[g].attempt, MaxRetry, err)
         early == d = "succeeded" /\ dels[g].member < N
     IN  /\ dels' = IF d \in {"retry", "redeliver"} THEN Return(g, err)
                    ELSE [dels EXCEPT ![g].pc = IF d = "failed" THEN "fail"
                                                ELSE IF early THEN "successor" ELSE "advance",
                                      ![g].next = IF early THEN dels[g].member + 1 ELSE 0,
                                      ![g].err = err]
         /\ IF d = "redeliver" THEN Disrupt ELSE UNCHANGED disruptions
  /\ UNCHANGED <<msgs, runtimeVars, chainVars>>

\* executeStoredJobAttempt and the classification of its outcome.
Execute(g, err) ==
  /\ At(g, "node", "execute") \/ (At(g, "node", "start") /\ ~Recovered(g))
  /\ LET d == ClassifyAttempt(dels[g].attempt, MaxRetry, err)
     IN  /\ dels' = IF d \in {"retry", "redeliver"} THEN Return(g, err)
                    ELSE [dels EXCEPT ![g].pc = IF d = "failed" THEN "fail" ELSE "advance",
                                      ![g].err = err]
         /\ IF d = "redeliver" THEN Disrupt ELSE UNCHANGED disruptions
  /\ UNCHANGED <<msgs, runtimeVars, chainVars>>

\* failChainNodeOutcome and what follows it.  After an unclear commit SQL reads
\* the receipt back: the claim stands if that read succeeds.
FailNode(g, db) ==
  /\ At(g, "node", "fail")
  /\ Fault(db)
  /\ LET n == dels[g].member
     IN  \/ /\ Failable(n) /\ db # "failed"
            /\ chain' = failChainOutcome(n)
            /\ receipts' = [receipts EXCEPT ![n] = Receipt(g, "failed")]
            /\ \/ /\ db = "ok" \/ Provenance
                  /\ LET d == Callback(markDeliveryTransitionCommitted(g), <<"catch", "finally">>)
                     IN  emit(g, [dels EXCEPT ![g] = d], {}, {Fact(g, "failed")})
               \/ /\ db = "ambiguous"
                  /\ dels' = Return(g, "uncommitted") /\ UNCHANGED facts
            /\ UNCHANGED swallowed
         \/ /\ db = "failed" \/ Premature(n)
            /\ dels' = Return(g, "uncommitted")
            /\ UNCHANGED <<facts, chain, receipts, swallowed>>
         \/ /\ ~Failable(n) /\ db = "ok" /\ ~Premature(n)
            /\ IF Recovered(g) /\ successOwned(n)
               THEN recoverCommittedChainSuccess(g)
               ELSE /\ dels' = IF Recovered(g) /\ failureOwned(n)
                               THEN Return(g, IF Known(receipts[n]) THEN "permanent" ELSE dels[g].err)
                               ELSE Return(g, "nil")
                    /\ UNCHANGED facts
            /\ swallowed' = IF successOwned(n) /\ ~Recovered(g)
                            THEN swallowed \cup {n} ELSE swallowed
            /\ UNCHANGED <<chain, receipts>>
  /\ UNCHANGED <<msgs, markers, closures, invoked, builder>>

\* prepareChainSuccessCallbacks: success drops the failure closure.
prepareChainSuccessCallbacks(g) ==
  closures' = IF dels[g].home THEN closures \ {"catch"} ELSE closures

\* What a claimed advance continues with, on the state c the store returned: a
\* read-back may return a state that other deliveries have moved since.
Continue(g, c) ==
  LET d == markDeliveryTransitionCommitted(g)
      facted(e) == emit(g, [dels EXCEPT ![g] = e], {Fact(g, "succeeded")}, {})
  IN  IF IsActive(c) THEN facted(Successor(d, c)) /\ UNCHANGED closures
      ELSE IF IsCompleted(c) /\ dels[g].member = N
      THEN facted(Callback(d, <<"finally">>)) /\ prepareChainSuccessCallbacks(g)
      ELSE dels' = [dels EXCEPT ![g] = Callback(d, <<>>)] /\ UNCHANGED <<facts, closures>>

\* advanceChainNode and what follows it.
AdvanceNode(g, db) ==
  /\ At(g, "node", "advance")
  /\ Fault(db)
  /\ LET n == dels[g].member
     IN  \/ /\ Advanceable(n) /\ db # "failed"
            /\ chain' = advanceChainOutcome(n)
            /\ receipts' = [receipts EXCEPT ![n] = Receipt(g, "succeeded")]
            /\ \/ db = "ok" /\ Continue(g, chain')
               \/ /\ db = "ambiguous"
                  /\ \/ dels' = Return(g, "uncommitted")
                     \/ Provenance /\ dels' = Goto(g, "confirm")
                  /\ UNCHANGED <<facts, closures>>
         \/ /\ db = "failed" \/ Premature(n)
            /\ dels' = Return(g, "uncommitted")
            /\ UNCHANGED <<chain, receipts, facts, closures>>
         \/ /\ ~Advanceable(n) /\ db = "ok" /\ ~Premature(n)
            /\ IF successOwned(n) /\ Recovered(g)
               THEN recoverCommittedChainSuccess(g) /\ UNCHANGED closures
               ELSE /\ dels' = IF successOwned(n) /\ Active
                               THEN [dels EXCEPT ![g] = Successor(@, chain)]
                               ELSE IF Completed /\ n = N
                               THEN [dels EXCEPT ![g] = Callback(@, <<"finally">>)]
                               ELSE Return(g, "nil")
                    /\ IF Completed /\ n = N THEN prepareChainSuccessCallbacks(g)
                                             ELSE UNCHANGED closures
                    /\ UNCHANGED facts
            /\ UNCHANGED <<chain, receipts>>
  /\ UNCHANGED <<msgs, markers, invoked, builder, swallowed>>

\* readCommittedChainAdvance: the unclear commit is found by its receipt.
ConfirmAdvance(g) ==
  /\ At(g, "node", "confirm")
  /\ Continue(g, chain)
  /\ UNCHANGED <<msgs, disruptions, markers, invoked, chainVars>>

\* Mutant: a rejected dispatch is ignored.
dispatchSuccessorOnce(g, db) ==
  /\ At(g, "node", "successor")
  /\ BusDispatch("node", dels[g].next, db)
  /\ Fault(db)
  /\ dels' = Return(g, "nil")
  /\ UNCHANGED <<runtimeVars, chainVars>>

\* dispatchChainSuccessor: a rejected dispatch asks for redelivery.
dispatchChainSuccessor(g, db) ==
  /\ At(g, "node", "successor")
  /\ BusDispatch("node", dels[g].next, db)
  /\ Fault(db)
  /\ dels' = Return(g, IF db = "ok" THEN "nil" ELSE "uncommitted")
  /\ UNCHANGED <<runtimeVars, chainVars>>

(***************************************************************************)
(* The system                                                              *)
(***************************************************************************)
CallbackReady(kind) == chain.failed \/ (kind = "finally" /\ Completed)

NodeStep(g) ==
  \/ \E err \in Errors : Execute(g, err)
  \/ \E db \in Results : Recover(g, db) \/ FailNode(g, db) \/ AdvanceNode(g, db)
                         \/ dispatchChainSuccessor(g, db)
  \/ ConfirmAdvance(g)

RuntimeStep(g) ==
  /\ \/ \E db \in Results, kind \in Callbacks : claimCallback(g, kind, CallbackReady(kind), db)
     \/ \E kind \in Callbacks : invokeCallback(g, kind)
     \/ \E kind \in Callbacks, err \in {"nil", "error"} : finishCallback(g, kind, err)
     \/ \E db \in Results : dispatchCallback(g, db)
     \/ \E db \in Results : settleDelivery(g, IF dels[g].kind = "node" THEN MaxRetry ELSE 0, db)
     \/ CrashAway(g)
  /\ UNCHANGED chainVars

BuilderStep ==
  \/ CreateChain
  \/ \E db \in Results : \/ DispatchFirst(db) \/ RejectChain(db)
                         \/ CallbackInline("catch", db) \/ CallbackInline("finally", db)
  \/ RejectedChainUnread

Envelope(e) == TransportStep(e) /\ UNCHANGED chainVars

CrashBuilder ==
  /\ builder # "new" /\ builder' = "returned"
  /\ CrashHome
  /\ UNCHANGED <<chain, receipts, swallowed>>

Next ==
  \/ BuilderStep
  \/ \E g \in Generations : NodeStep(g) \/ RuntimeStep(g)
  \/ \E e \in Envelopes : Envelope(e)
  \/ CrashBuilder

Spec == Init /\ [][Next]_vars

\* Workers poll, handlers run to their end, and a dead claim's lease runs out.
Fairness ==
  /\ \A g \in Generations : WF_vars(NodeStep(g) \/ RuntimeStep(g))
  /\ \A e \in Envelopes : WF_vars(Envelope(e))

FairSpec == Spec /\ Fairness

(***************************************************************************)
(* Properties                                                              *)
(***************************************************************************)
\* A node is queued or delivered only when every node before it succeeded: no
\* crash, duplicate or unclear answer makes the engine dispatch ahead of the
\* stored chain (chain.go 143-152, 470-481), so the store's "premature
\* delivery" error (store.go 362) is never raised.
NodesInOrder ==
  /\ \A e \in Envelopes : msgs[e].kind = "node" => ~Premature(msgs[e].member)
  /\ \A g \in Generations : dels[g].kind = "node" => ~Premature(dels[g].member)
  /\ \A g \in Generations : dels[g].next <= chain.next

\* The first transition of a node wins (advanceChainOutcome, failChainOutcome):
\* no later delivery changes its outcome, replaces its receipt, or moves a
\* chain that has failed or completed.
FirstTransitionWins ==
  [][/\ \A n \in Nodes : Known(receipts[n]) => receipts'[n] = receipts[n]
     /\ \A n \in Nodes : successOwned(n) => successOwned(n)'
     /\ ~Active /\ chain.created => chain' = chain]_vars

\* A published fact tells what the store decided: a node's success is published
\* only for a node the chain has passed, under one event id (the receipt's
\* owner where there is a receipt), and never beside a failure of that node
\* (chain.go 380, 554-555, 615-623; runtime.go 564-569).
FactsTruthful ==
  \A f \in facts :
     /\ f.kind = "succeeded" =>
          /\ successOwned(f.member)
          /\ \A h \in facts : h.member = f.member => h = f
          /\ Provenance => /\ receipts[f.member].outcome = "succeeded"
                           /\ receipts[f.member].env = f.env
                           /\ receipts[f.member].attempt = f.attempt
     /\ f.kind = "failed" => failureOwned(f.member)

\* Each closure runs at most once, whatever the number of callback envelopes
\* and inline invocations (callbackOnce, batch.go 618-624), and only in a
\* terminal state of its kind, which no later step revokes.
CallbackAtMostOnce ==
  /\ \A i, j \in invoked : i[1] = j[1] => i = j
  /\ \A i \in invoked : CallbackReady(i[1])

\* While a chain that was dispatched is not terminal, the queue still holds an
\* envelope that can move it: the pending node's, or its predecessor's whose
\* redelivery enqueues it again (chain.go 465-491), unless the predecessor's
\* late failure was dropped by the handler (chain.go 520-523).
Dispatched == \E e \in Envelopes : msgs[e].kind = "node"
CanMove(n) == \E e \in Envelopes : /\ msgs[e].kind = "node" /\ msgs[e].member = n
                                   /\ msgs[e].state \in {"queued", "held"}
ContinuationRetained ==
  (Active /\ Dispatched) =>
     \/ CanMove(chain.next)
     \/ chain.next > 1 /\ (CanMove(chain.next - 1) \/ (chain.next - 1) \in swallowed)

\* A dispatched chain comes to its end: it completes or fails, except where a
\* late failure was dropped.
ChainEnds == Dispatched ~> (~Active \/ swallowed # {})

\* The same without the exception.  dispatchChainSuccessor "retains
\* at-least-once continuation recovery after a predecessor transition committed
\* but its first enqueue did not complete" (chain.go 465-466).
ContinuationRecovered == Dispatched ~> ~Active
=============================================================================
