-------------------------- MODULE WorkflowRuntime --------------------------
(***************************************************************************)
(* What chains and batches share in the workflow engine (internal/workflow *)
(* runtime.go): publishing facts, recovering facts by transition receipt,  *)
(* and the ephemeral callbacks: closures kept by the builder's process and *)
(* run by a delivery that first claims a marker in the store.              *)
(***************************************************************************)
EXTENDS Transport

CONSTANT Callbacks  \* the closures the builder registers, in dispatch order

ASSUME RuntimeAssumption == Callbacks \subseteq {"catch", "then", "finally"}

VARIABLES markers,   \* callback keys claimed in the store
          closures,  \* the callback registry of the builder's process
          facts,     \* history: workflow facts published
          invoked    \* history: closures that ran, by claiming delivery

runtimeVars == <<markers, closures, facts, invoked>>
CallbackKinds == {"catch", "then", "finally"}
CallbackLists == {<<>>, <<"catch">>, <<"finally">>, <<"then", "finally">>,
                  <<"catch", "finally">>, <<"catch", "then", "finally">>}

\* env and attempt are what the event id of a fact is computed from.
FactType(kinds, members) ==
  [kind: kinds, member: members \cup {0}, env: Envelopes \cup {0}, attempt: Nat]
Fact(g, kind) ==
  [kind |-> kind, member |-> dels[g].member, env |-> dels[g].env, attempt |-> dels[g].attempt]
BuilderFact(kind, member) == [kind |-> kind, member |-> member, env |-> 0, attempt |-> 0]

RuntimeTypeOK(kinds, members) ==
  /\ markers \subseteq CallbackKinds
  /\ closures \subseteq Callbacks
  /\ facts \subseteq FactType(kinds, members)
  /\ invoked \subseteq CallbackKinds \X (Generations \cup {NoGeneration})

RuntimeInit == markers = {} /\ closures = {} /\ facts = {} /\ invoked = {}

At(g, kind, pc) == dels[g].kind = kind /\ dels[g].pc = pc
Goto(g, pc) == [dels EXCEPT ![g].pc = pc]
Return(g, err) ==
  [dels EXCEPT ![g].pc = "settle", ![g].err = err, ![g].next = 0, ![g].work = <<>>]
\* The callbacks of ks that d has to dispatch before it returns its error.
Callback(d, ks) ==
  [d EXCEPT !.pc = IF ks = <<>> THEN "settle" ELSE "callbacks", !.work = ks]

\* emit: positive facts wait for settlement where the driver has that boundary.
emit(g, d, positive, negative) ==
  /\ dels' = IF Deferring THEN [d EXCEPT ![g].facts = @ \cup positive] ELSE d
  /\ facts' = facts \cup negative \cup IF Deferring THEN {} ELSE positive

\* A receipt is stored only for a claim with a complete identity.
NoReceipt == [gen |-> NoGeneration, env |-> 0, attempt |-> 0, outcome |-> "none"]
ReceiptType == [gen: Generations \cup {NoGeneration}, env: Envelopes \cup {0},
                attempt: Nat, outcome: {"none", "succeeded", "failed"}]
Receipt(g, outcome) ==
  IF ~Provenance THEN NoReceipt
  ELSE [gen |-> g, env |-> dels[g].env, attempt |-> dels[g].attempt, outcome |-> outcome]
Known(r) == r.gen # NoGeneration

\* Mutant: any recovered delivery publishes the facts of the receipt.
AnyRecoveryOwnsFacts(g, r) == Recovered(g) /\ Known(r)

transitionReceiptOwnsRecoveredFacts(g, r) ==
  /\ Recovered(g) /\ r.gen = dels[g].proof
  /\ r.attempt = dels[g].attempt /\ r.env = dels[g].env

\* markDeliveryTransitionCommitted: g itself now owns a receipt.
markDeliveryTransitionCommitted(g) == [dels[g] EXCEPT !.committed = Provenance]

(***************************************************************************)
(* Callbacks                                                               *)
(***************************************************************************)
callbackConfigured(home, kind) == home /\ kind \in closures

\* dispatchCallback: only closures of this process; a rejection is ignored.
dispatchCallback(g, db) ==
  /\ dels[g].pc = "callbacks"
  /\ LET kind == Head(dels[g].work)
     IN  IF callbackConfigured(dels[g].home, kind)
         THEN BusDispatch(kind, 0, db) /\ Fault(db)
         ELSE db = "ok" /\ UNCHANGED <<msgs, disruptions>>
  /\ dels' = [dels EXCEPT ![g] = Callback(@, Tail(@.work))]
  /\ UNCHANGED runtimeVars

\* Mutant: a key that was claimed before is not noticed.
callbackEveryTime(kind, db) == db = "ok"

\* callbackOnce: the key is claimed before the closure runs, and an unclear
\* answer is taken for a failure.
callbackOnce(kind, db) == kind \notin markers /\ db = "ok"
Mark(kind, db) == IF db = "failed" THEN markers ELSE markers \cup {kind}

\* handleCallbackEnvelope, up to the claim of the key.
claimCallback(g, kind, ready, db) ==
  /\ At(g, kind, "start")
  /\ Fault(db)
  /\ IF ~ready
     THEN dels' = Return(g, IF db = "ok" THEN "error" ELSE "uncommitted") /\ UNCHANGED markers
     ELSE /\ markers' = Mark(kind, db)
          /\ dels' = IF db # "ok" THEN Return(g, "uncommitted")
                     ELSE IF callbackOnce(kind, db) THEN Goto(g, "invoke") ELSE Return(g, "nil")
  /\ UNCHANGED <<msgs, closures, facts, invoked>>

\* The closure is looked up once the key is claimed; another process has none.
invokeCallback(g, kind) ==
  /\ At(g, kind, "invoke")
  /\ IF callbackConfigured(dels[g].home, kind)
     THEN dels' = Goto(g, "finish") /\ invoked' = invoked \cup {<<kind, g>>}
     ELSE dels' = Return(g, "error") /\ UNCHANGED invoked
  /\ UNCHANGED <<msgs, disruptions, markers, closures, facts>>

\* finishChainCallback, finishBatchCallback: the closure that ran is dropped.
finishCallback(g, kind, err) ==
  /\ At(g, kind, "finish")
  /\ closures' = closures \ {kind}
  /\ dels' = Return(g, err)
  /\ UNCHANGED <<msgs, disruptions, markers, facts, invoked>>

\* invokeCallbackInline by the builder, in its own process.
invokeCallbackInline(kind, db) ==
  /\ Fault(db)
  /\ IF callbackConfigured(TRUE, kind)
     THEN /\ markers' = Mark(kind, db)
          /\ IF callbackOnce(kind, db)
             THEN /\ invoked' = invoked \cup {<<kind, NoGeneration>>}
                  /\ closures' = closures \ {kind}
             ELSE UNCHANGED <<invoked, closures>>
     ELSE db = "ok" /\ UNCHANGED <<markers, invoked, closures>>
  /\ UNCHANGED <<msgs, dels, facts>>

(***************************************************************************)
(* Delivery, settlement and crashes                                        *)
(***************************************************************************)
\* The driver settles what the handler returned, then runs the deferred facts.
settleDelivery(g, maxRetry, db) ==
  /\ SettleDelivery(g, maxRetry, db)
  /\ facts' = facts \cup Committed(g, db)
  /\ UNCHANGED <<markers, closures, invoked>>

TransportStep(e) ==
  /\ \/ \E g \in Generations, home \in Homes : Deliver(g, e, home)
     \/ LoseClaim(e)
     \/ Requeue(e)
  /\ UNCHANGED runtimeVars

\* The builder's process dies with its closures and deliveries; any other
\* worker process dies with one delivery.
CrashHome ==
  /\ Disrupt
  /\ dels' = [g \in Generations |-> IF g \in Running /\ dels[g].home THEN Over ELSE dels[g]]
  /\ closures' = {}
  /\ UNCHANGED <<msgs, markers, facts, invoked>>

CrashAway(g) ==
  /\ g \in Running /\ ~dels[g].home
  /\ Disrupt
  /\ dels' = [dels EXCEPT ![g] = Over]
  /\ UNCHANGED <<msgs, runtimeVars>>
=============================================================================
