------------------------ MODULE ChainWorkflowProofs ------------------------
(***************************************************************************)
(* Safety of one chain of the workflow engine, for any number of nodes,    *)
(* envelopes, deliveries, retries and faults, with and without provenance. *)
(* The stored chain only moves forward; everything else (envelopes,        *)
(* deliveries, receipts, facts, closures) is related to it by conditions   *)
(* that stay true when it moves.                                           *)
(***************************************************************************)
EXTENDS ChainWorkflow, TLAPS

Kinds == {"node"} \cup Callbacks
Sent == MessageType(Kinds, Nodes)
Successes == [kind: {"succeeded"}, member: Nodes, env: Envelopes, attempt: Nat]
Delivery == DeliveryType(Steps, Kinds, Nodes, Seq(CallbackKinds), Successes)
BuilderSteps == {"new", "dispatch", "reject", "catch", "finally", "returned"}

\* The types, with the facts a delivery keeps narrowed to successes of nodes.
Types ==
  /\ msgs \in [Envelopes -> Sent]
  /\ dels \in [Generations -> Delivery]
  /\ facts \subseteq FactType(FactKinds, Nodes)
  /\ closures \subseteq Callbacks
  /\ chain \in ChainStates
  /\ receipts \in [Nodes -> ReceiptType]
  /\ builder \in BuilderSteps
  /\ \A g \in Generations : dels[g].pc = "callbacks" => dels[g].work # <<>>

-----------------------------------------------------------------------------
(* Envelopes and deliveries.                                               *)

\* A delivery in progress is about an envelope that exists.
CarriesOK(g) ==
  /\ dels[g].env \in Envelopes
  /\ msgs[dels[g].env].state # "none"
  /\ msgs[dels[g].env].kind = dels[g].kind
  /\ msgs[dels[g].env].member = dels[g].member

\* Before the chain is created there is nothing.
Nothing ==
  /\ builder = "new" /\ chain.next = 1 /\ ~chain.failed
  /\ \A e \in Envelopes : msgs[e].state = "none"
  /\ \A g \in Generations : dels[g].pc = "free"

TransportInv ==
  /\ \A e \in Envelopes : msgs[e].state = "none" <=> msgs[e].kind = "none"
  /\ \A g \in Running : CarriesOK(g)
  /\ \A g \in Generations \ Running : dels[g].kind = "none" /\ dels[g].next = 0 /\ dels[g].facts = {}
  /\ ~chain.created => Nothing
  /\ chain.created => builder # "new"
  /\ ~Provenance => /\ \A e \in Envelopes : msgs[e].state # "held" => msgs[e].token = NoGeneration
                    /\ \A g \in Generations : dels[g].proof = NoGeneration

\* No envelope and no delivery is ahead of the chain.
OrderInv ==
  /\ \A e \in Envelopes : msgs[e].kind = "node" => msgs[e].member \in 1..chain.next /\ msgs[e].member \in Nodes
  /\ \A g \in Generations : dels[g].next <= chain.next
  /\ \A g \in Generations : dels[g].pc = "successor" =>
       /\ dels[g].kind = "node" /\ dels[g].next \in Nodes /\ dels[g].member < dels[g].next

-----------------------------------------------------------------------------
(* Receipts and facts.                                                     *)

\* A receipt records the transition that the chain has made.
ReceiptOK(n) ==
  Known(receipts[n]) =>
    \/ receipts[n].outcome = "succeeded" /\ successOwned(n)
    \/ receipts[n].outcome = "failed" /\ failureOwned(n)

\* A delivery that reads its own commit back finds its receipt.
ConfirmOK(g) ==
  dels[g].pc = "confirm" =>
    /\ dels[g].kind = "node" /\ dels[g].member \in Nodes /\ Provenance
    /\ receipts[dels[g].member] = Receipt(g, "succeeded")

ReceiptInv ==
  /\ \A n \in Nodes : ReceiptOK(n)
  /\ \A g \in Generations : ConfirmOK(g)

\* A success the chain has made, under the identity the receipt keeps.
Truthful(f) ==
  /\ successOwned(f.member)
  /\ Provenance => /\ Known(receipts[f.member]) /\ receipts[f.member].outcome = "succeeded"
                   /\ receipts[f.member].env = f.env
                   /\ receipts[f.member].attempt = f.attempt

\* The successes published or waiting for a settlement.
AllSuccesses == {f \in facts : f.kind = "succeeded"} \cup UNION {dels[g].facts : g \in Generations}

FactInv ==
  /\ \A f \in AllSuccesses : f.kind = "succeeded" /\ f.member \in Nodes /\ Truthful(f)
  /\ \A f \in facts : f.kind = "failed" => failureOwned(f.member)
  /\ \A f, h \in AllSuccesses : f.member = h.member => f = h

-----------------------------------------------------------------------------
(* Callbacks.                                                              *)

\* A delivery that may run a closure is the one that claimed its marker.
InvokeOK(g) ==
  dels[g].pc = "invoke" =>
    /\ dels[g].kind \in markers /\ CallbackReady(dels[g].kind)
    /\ \A i \in invoked : i[1] # dels[g].kind
    /\ \A h \in Generations : dels[h].pc = "invoke" /\ dels[h].kind = dels[g].kind => h = g

CallbackInv ==
  /\ CallbackAtMostOnce
  /\ \A i \in invoked : i[1] \in markers
  /\ \A g \in Generations : InvokeOK(g)
  /\ builder \in {"catch", "finally"} => chain.failed

-----------------------------------------------------------------------------
(* Continuation.                                                           *)

\* Node n needs no further delivery: the chain has ended, has gone beyond its
\* successor, or its successor is queued (or was lost by a dropped failure).
Discharged(n) ==
  \/ ~Active
  \/ chain.next > n + 1
  \/ chain.next = n + 1 /\ (CanMove(n + 1) \/ n \in swallowed)

\* The driver may forget an envelope of a node that is discharged, no other.
SettledOK(e) ==
  msgs[e].kind = "node" /\ msgs[e].state \in {"done", "dead"} => Discharged(msgs[e].member)
ReturnsOK(g) ==
  dels[g].kind = "node" =>
    /\ dels[g].pc = "callbacks" => Discharged(dels[g].member)
    /\ dels[g].pc = "settle" /\ DecisionOf(dels[g], MaxRetry) \in {"succeeded", "failed"} =>
         Discharged(dels[g].member)

ContinuationInv ==
  /\ \A e \in Envelopes : SettledOK(e)
  /\ \A g \in Generations : ReturnsOK(g)
  /\ chain.next > 1 => \E e \in Envelopes : msgs[e].kind = "node" /\ msgs[e].member = chain.next - 1

Inv == Types /\ TransportInv /\ OrderInv /\ ReceiptInv /\ FactInv /\ CallbackInv /\ ContinuationInv


-----------------------------------------------------------------------------
(* What a step of the system may do.  Every action is shown to be such a   *)
(* step once; the invariant is shown to survive such a step once.          *)

\* The chain is created, advances from its current node, or fails at it.
Records(outcome) ==
  /\ receipts' \in [Nodes -> ReceiptType]
  /\ \A n \in Nodes \ {chain.next} : receipts'[n] = receipts[n]
  /\ Known(receipts'[chain.next]) => receipts'[chain.next].outcome = outcome
ChainMove ==
  \/ chain' = chain /\ receipts' = receipts
  \/ chain' = createChain /\ builder = "new" /\ receipts' = receipts
  \/ /\ Active /\ chain' = advanceChainOutcome(chain.next) /\ Records("succeeded")
     /\ \E e \in Envelopes : msgs[e].kind = "node" /\ msgs[e].member = chain.next
  \/ /\ Active /\ chain' = failChainOutcome(chain.next)
     /\ receipts' = receipts \/ Records("failed")

\* An envelope is dispatched for a node the chain has reached, or moves on; it
\* is settled for good only when its node is discharged.
NewEnvelope(m) ==
  \E k \in Kinds, n \in Nodes \cup {0} :
    m = Message(k, n) /\ (k = "node" => n \in Nodes /\ n <= chain'.next)
OldEnvelope(old, m) ==
  /\ m \in Sent /\ m.state # "none" /\ m.kind = old.kind /\ m.member = old.member
  /\ ~Provenance /\ m.state # "held" => m.token = NoGeneration
  /\ m.kind = "node" /\ m.state \in {"done", "dead"} => Discharged(m.member)
MessagesMove ==
  /\ msgs' \in [Envelopes -> Sent]
  /\ \A e \in Envelopes :
       \/ msgs'[e] = msgs[e]
       \/ msgs[e].state = "none" /\ chain.created /\ NewEnvelope(msgs'[e])
       \/ msgs[e].state # "none" /\ OldEnvelope(msgs[e], msgs'[e])

\* A delivery begins, goes on about its envelope, or is over.
Begins(g) ==
  \E e \in Envelopes, home \in BOOLEAN :
    msgs[e].state = "queued" /\ dels[g].pc = "free" /\ dels'[g] = NewDelivery(e, home)
SameDelivery(d, c) ==
  /\ d.env = c.env /\ d.kind = c.kind /\ d.member = c.member
  /\ d.attempt = c.attempt /\ d.proof = c.proof
GoesOn(g) ==
  LET d == dels'[g] IN
  /\ g \in Running /\ SameDelivery(d, dels[g]) /\ d.pc \notin {"free", "over"}
  /\ d.pc = "callbacks" => d.work # <<>>
  /\ d.next <= chain'.next
  /\ d.pc = "successor" => d.kind = "node" /\ d.next \in Nodes /\ d.member < d.next
  /\ ConfirmOK(g)'
  /\ ReturnsOK(g)'
DeliveriesMove ==
  /\ dels' \in [Generations -> Delivery]
  /\ \A g \in Generations : \/ dels'[g] = dels[g] \/ (g \in Running /\ dels'[g] = Over)
                            \/ Begins(g) \/ GoesOn(g)

\* At most one success is new, of a node that succeeds now unless the receipt
\* identifies it; a failure is published when the chain has failed at its node.
NewSuccess(f) ==
  /\ Truthful(f)'
  /\ AllSuccesses' \subseteq AllSuccesses \cup {f}
  /\ Provenance \/ ~successOwned(f.member)
FactsMove ==
  /\ facts' \subseteq FactType(FactKinds, Nodes)
  /\ AllSuccesses' \subseteq AllSuccesses \/ \E f \in Successes : NewSuccess(f)
  /\ \A f \in facts' : f.kind = "failed" => f \in facts \/ failureOwned(f.member)'

\* A marker is claimed once, by the delivery or the builder that then runs the
\* closure.
NoNewInvoke == \A g \in Generations : dels'[g].pc = "invoke" => dels'[g] = dels[g]
Claims(g) ==
  /\ dels'[g].pc = "invoke" /\ dels'[g].kind \notin markers /\ CallbackReady(dels'[g].kind)
  /\ markers' = markers \cup {dels'[g].kind} /\ invoked' = invoked
  /\ \A h \in Generations \ {g} : dels'[h] = dels[h]
Invokes(g) ==
  /\ dels[g].pc = "invoke" /\ dels'[g].pc # "invoke"
  /\ markers' = markers /\ invoked' = invoked \cup {<<dels[g].kind, g>>}
  /\ \A h \in Generations \ {g} : dels'[h] = dels[h]
InvokesInline(kind) ==
  /\ kind \notin markers /\ CallbackReady(kind) /\ dels' = dels
  /\ markers' = markers \cup {kind} /\ invoked' = invoked \cup {<<kind, NoGeneration>>}
CallbacksMove ==
  /\ \/ markers \subseteq markers' /\ invoked' = invoked /\ NoNewInvoke
     \/ \E g \in Generations : Claims(g) \/ Invokes(g)
     \/ \E kind \in CallbackKinds : InvokesInline(kind)
  /\ builder' \in {"catch", "finally"} => chain'.failed

StepOK ==
  /\ ChainMove /\ MessagesMove /\ DeliveriesMove /\ FactsMove /\ CallbacksMove
  /\ swallowed \subseteq swallowed'
  /\ closures' \subseteq Callbacks /\ builder' \in BuilderSteps
  /\ builder' = "new" => builder = "new" /\ chain' = chain
  /\ builder = "new" /\ builder' # "new" => chain'.created
-----------------------------------------------------------------------------
(* The invariant survives such a step.                                     *)

\* CallbackReady in the next state.
ReadyNext(kind) == chain'.failed \/ (kind = "finally" /\ IsCompleted(chain'))

\* The stored chain and its receipts only move forward.
Forward ==
  /\ chain' \in ChainStates /\ chain.next <= chain'.next
  /\ chain.created => chain'.created
  /\ chain.created /\ ~Active => chain' = chain
  /\ \A n \in Nodes : successOwned(n) => successOwned(n)'
  /\ \A n \in Nodes : failureOwned(n) => failureOwned(n)'
  /\ \A kind : CallbackReady(kind) => ReadyNext(kind)
  /\ \A n \in Nodes : Known(receipts[n]) => receipts'[n] = receipts[n]

\* A step of the store takes the chain and its receipts forward.
LEMMA ForwardStep ==
  ASSUME Types, TransportInv, ReceiptInv, ChainMove
  PROVE  Forward
<1> USE ChainAssumption
<1>0. chain \in ChainStates /\ chain.next \in Nat /\ N \in Nat \ {0}
  BY DEF Types, ChainStates
<1>1. CASE chain' = chain /\ receipts' = receipts
  BY <1>0, <1>1 DEF Forward, successOwned, failureOwned, Completed, IsCompleted, CallbackReady, ReadyNext
<1>2. CASE chain' = createChain /\ builder = "new" /\ receipts' = receipts
  <2>1. ~chain.created /\ chain.next = 1 /\ ~chain.failed
    BY <1>2, Zenon DEF TransportInv, Nothing
  <2>2. chain' \in ChainStates /\ chain'.created /\ chain'.next = 1 /\ chain'.failed = chain.failed
    BY <1>0, <1>2, <2>1, Zenon DEF createChain, ChainStates
  <2>3. chain.next <= chain'.next
    BY <2>1, <2>2
  <2> QED
    BY <1>2, <2>1, <2>2, <2>3, Zenon DEF Forward, successOwned, failureOwned, Completed, IsCompleted,
                                   CallbackReady, ReadyNext
<1> DEFINE n == chain.next
<1>3. ASSUME Active PROVE n \in Nodes /\ ~chain.failed /\ chain.created /\ ~Completed
  BY <1>0, <1>3 DEF Active, IsActive, IsCompleted, Completed, ChainStates, Nodes
<1>4. ASSUME Active, NEW m \in Nodes, Known(receipts[m]) PROVE m # n
  BY <1>0, <1>3, <1>4 DEF ReceiptInv, ReceiptOK, successOwned, failureOwned
<1>5. CASE Active /\ chain' = advanceChainOutcome(n) /\ Records("succeeded")
  <2>1. /\ chain' \in ChainStates /\ chain'.created = chain.created
        /\ chain'.next = n + 1 /\ chain'.failed = chain.failed
    BY <1>0, <1>3, <1>5 DEF advanceChainOutcome, ChainStates, Nodes
  <2>2. \A m \in Nodes : Known(receipts[m]) => receipts'[m] = receipts[m]
    BY <1>4, <1>5, Zenon DEF Records
  <2> QED
    BY <1>0, <1>3, <1>5, <2>1, <2>2 DEF Forward, successOwned, failureOwned, CallbackReady, ReadyNext, Nodes,
                                        Completed, IsCompleted
<1>6. CASE Active /\ chain' = failChainOutcome(n) /\ (receipts' = receipts \/ Records("failed"))
  <2>1. /\ chain' \in ChainStates /\ chain'.created = chain.created
        /\ chain'.next = n /\ chain'.failed
    BY <1>0, <1>3, <1>6, Zenon DEF failChainOutcome, ChainStates, Nodes
  <2>2. \A m \in Nodes : Known(receipts[m]) => receipts'[m] = receipts[m]
    BY <1>3, <1>4, <1>6, Zenon DEF Records
  <2> QED
    BY <1>0, <1>3, <1>6, <2>1, <2>2 DEF Forward, successOwned, failureOwned, CallbackReady, ReadyNext, Nodes,
                                        Completed, IsCompleted
<1> QED
  BY <1>1, <1>2, <1>5, <1>6, Zenon DEF ChainMove

\* How envelopes and deliveries move, for the conditions below.
EnvelopesForward ==
  \A e \in Envelopes : msgs[e].state # "none" =>
    msgs'[e].state # "none" /\ msgs'[e].kind = msgs[e].kind /\ msgs'[e].member = msgs[e].member

\* An envelope that exists keeps its kind and its node.
LEMMA EnvelopesStep ==
  ASSUME MessagesMove
  PROVE  EnvelopesForward
BY Zenon DEF MessagesMove, EnvelopesForward, OldEnvelope

\* The types are kept.
LEMMA TypesStep ==
  ASSUME Types, StepOK, Forward
  PROVE  Types'
<1>1. msgs' \in [Envelopes -> Sent] /\ dels' \in [Generations -> Delivery]
  BY Zenon DEF StepOK, MessagesMove, DeliveriesMove
<1>2. /\ facts' \subseteq FactType(FactKinds, Nodes) /\ closures' \subseteq Callbacks
      /\ chain' \in ChainStates /\ builder' \in BuilderSteps
  BY Zenon DEF StepOK, FactsMove, Forward
<1>3. receipts' \in [Nodes -> ReceiptType]
  BY Zenon DEF Types, StepOK, ChainMove, Records
<1>4. ASSUME NEW g \in Generations, dels'[g].pc = "callbacks"
      PROVE  dels'[g].work # <<>>
  <2>1. \/ dels'[g] = dels[g] \/ dels'[g] = Over \/ Begins(g) \/ GoesOn(g)
    BY Zenon DEF StepOK, DeliveriesMove
  <2>2. CASE dels'[g] = dels[g]
    BY <1>4, <2>2, Zenon DEF Types
  <2>3. CASE dels'[g] = Over
    BY <1>4, <2>3 DEF Over
  <2>4. CASE Begins(g)
    BY <1>4, <2>4 DEF Begins, NewDelivery
  <2>5. CASE GoesOn(g)
    BY <1>4, <2>5, Zenon DEF GoesOn
  <2> QED
    BY <2>1, <2>2, <2>3, <2>4, <2>5, Zenon
<1> QED
  BY <1>1, <1>2, <1>3, <1>4, Zenon DEF Types

\* Before the chain is created nothing but its creation happens.
LEMMA NothingStep ==
  ASSUME Types, TransportInv, StepOK, Forward, ~chain'.created
  PROVE  Nothing'
<1>1. ~chain.created /\ chain' = chain
  <2>1. chain' # createChain
    BY Zenon DEF createChain, Types, ChainStates
  <2> QED
    BY <2>1, Zenon DEF StepOK, ChainMove, Active, IsActive, Forward
<1>2. Nothing
  BY <1>1, Zenon DEF TransportInv
<1>3. builder' = "new"
  BY <1>2, Zenon DEF StepOK, Nothing
<1>4. \A e \in Envelopes : msgs'[e].state = "none"
  BY <1>1, <1>2, Zenon DEF StepOK, MessagesMove, Nothing
<1>5. ASSUME NEW g \in Generations
      PROVE  dels'[g].pc = "free"
  <2>1. dels[g].pc = "free" /\ g \notin Running
    BY <1>2, Zenon DEF Nothing, Running
  <2>2. ~Begins(g)
    BY <1>2, Zenon DEF Begins, Nothing
  <2>3. ~GoesOn(g)
    BY <2>1, Zenon DEF GoesOn
  <2> QED
    BY <2>1, <2>2, <2>3, Zenon DEF StepOK, DeliveriesMove
<1> QED
  BY <1>1, <1>2, <1>3, <1>4, <1>5, Zenon DEF Nothing

\* The relation between envelopes and deliveries is kept.
LEMMA TransportStepOK ==
  ASSUME Types, TransportInv, StepOK, Forward, EnvelopesForward
  PROVE  TransportInv'
<1>1. ASSUME NEW e \in Envelopes
      PROVE  /\ msgs'[e].state = "none" <=> msgs'[e].kind = "none"
             /\ ~Provenance /\ msgs'[e].state # "held" => msgs'[e].token = NoGeneration
  <2>1. CASE msgs'[e] = msgs[e]
    BY <2>1, Zenon DEF TransportInv
  <2>2. CASE NewEnvelope(msgs'[e])
    BY <2>2, RuntimeAssumption DEF NewEnvelope, Message, Kinds
  <2>3. CASE msgs[e].state # "none" /\ OldEnvelope(msgs[e], msgs'[e])
    BY <2>3, Zenon DEF OldEnvelope, TransportInv
  <2> QED
    BY <2>1, <2>2, <2>3, Zenon DEF StepOK, MessagesMove
<1>2. ASSUME NEW g \in Generations
      PROVE  /\ g \in Running' => CarriesOK(g)'
             /\ g \notin Running' => dels'[g].kind = "none" /\ dels'[g].next = 0 /\ dels'[g].facts = {}
             /\ ~Provenance => dels'[g].proof = NoGeneration
  <2>1. CASE dels'[g] = dels[g]
    <3>1. g \in Running' <=> g \in Running
      BY <2>1, Zenon DEF Running
    <3>2. CarriesOK(g) => CarriesOK(g)'
      BY <2>1, Zenon DEF CarriesOK, EnvelopesForward
    <3> QED
      BY <2>1, <3>1, <3>2, Zenon DEF TransportInv
  <2>2. CASE dels'[g] = Over
    BY <2>2 DEF Over, Running
  <2>3. CASE Begins(g)
    <3> PICK e \in Envelopes, home \in BOOLEAN :
            msgs[e].state = "queued" /\ dels'[g] = NewDelivery(e, home)
      BY <2>3, Zenon DEF Begins
    <3>1. /\ dels'[g].pc = "start" /\ dels'[g].env = e /\ dels'[g].kind = msgs[e].kind
          /\ dels'[g].member = msgs[e].member /\ dels'[g].proof = msgs[e].token
      BY DEF NewDelivery
    <3>2. g \in Running' /\ CarriesOK(g)'
      BY <3>1, Zenon DEF Running, CarriesOK, EnvelopesForward
    <3> QED
      BY <3>1, <3>2, Zenon DEF TransportInv
  <2>4. CASE GoesOn(g)
    <3>1. /\ g \in Running /\ g \in Running' /\ dels'[g].env = dels[g].env
          /\ dels'[g].kind = dels[g].kind /\ dels'[g].member = dels[g].member
          /\ dels'[g].proof = dels[g].proof
      BY <2>4, Zenon DEF GoesOn, SameDelivery, Running
    <3>2. CarriesOK(g)
      BY <3>1, Zenon DEF TransportInv
    <3>3. CarriesOK(g)'
      BY <3>1, <3>2, Zenon DEF CarriesOK, EnvelopesForward
    <3> QED
      BY <3>1, <3>3, Zenon DEF TransportInv
  <2> QED
    BY <2>1, <2>2, <2>3, <2>4, Zenon DEF StepOK, DeliveriesMove
<1>3. ~chain'.created => Nothing'
  BY NothingStep, Zenon
<1>4. chain'.created => builder' # "new"
  BY Zenon DEF StepOK, TransportInv
<1>5. \A g \in Running' : g \in Generations
  BY Zenon DEF Running
<1> QED
  BY <1>1, <1>2, <1>3, <1>4, <1>5, Zenon DEF TransportInv

\* No step gets ahead of the chain.
LEMMA OrderStep ==
  ASSUME Types, TransportInv, OrderInv, StepOK, Forward
  PROVE  OrderInv'
<1>0. chain.next \in Nat /\ chain'.next \in Nat /\ chain.next <= chain'.next
  BY ChainAssumption DEF Types, Forward, ChainStates
<1>1. ASSUME NEW e \in Envelopes, msgs'[e].kind = "node"
      PROVE  msgs'[e].member \in 1..chain'.next /\ msgs'[e].member \in Nodes
  <2>1. CASE msgs'[e].kind = msgs[e].kind /\ msgs'[e].member = msgs[e].member
    BY <1>0, <1>1, <2>1 DEF OrderInv
  <2>2. CASE NewEnvelope(msgs'[e])
    BY <1>0, <1>1, <2>2 DEF NewEnvelope, Message, Nodes
  <2> QED
    BY <2>1, <2>2, Zenon DEF StepOK, MessagesMove, OldEnvelope
<1>2. ASSUME NEW g \in Generations
      PROVE  /\ dels'[g].next <= chain'.next
             /\ dels'[g].pc = "successor" =>
                  dels'[g].kind = "node" /\ dels'[g].next \in Nodes /\ dels'[g].member < dels'[g].next
  <2>1. CASE dels'[g] = dels[g]
    <3>1. dels[g].next \in Nat
      BY ChainAssumption DEF Types, Delivery, DeliveryType, Nodes
    <3> QED
      BY <1>0, <2>1, <3>1 DEF OrderInv
  <2>2. CASE dels'[g] = Over
    BY <1>0, <2>2 DEF Over
  <2>3. CASE Begins(g)
    BY <1>0, <2>3 DEF Begins, NewDelivery
  <2>4. CASE GoesOn(g)
    BY <2>4, Zenon DEF GoesOn
  <2> QED
    BY <2>1, <2>2, <2>3, <2>4, Zenon DEF StepOK, DeliveriesMove
<1> QED
  BY <1>1, <1>2, Zenon DEF OrderInv

\* Receipts keep recording what the chain has done.
LEMMA ReceiptStep ==
  ASSUME Types, ReceiptInv, StepOK, Forward
  PROVE  ReceiptInv'
<1>0. chain \in ChainStates /\ chain.next \in Nat /\ N \in Nat
  BY ChainAssumption DEF Types, ChainStates
<1>1. ASSUME NEW n \in Nodes
      PROVE  ReceiptOK(n)'
  <2>1. CASE receipts'[n] = receipts[n]
    BY <2>1, Zenon DEF ReceiptInv, ReceiptOK, Forward, Known
  <2>2. CASE n = chain.next /\ chain' = advanceChainOutcome(n) /\ Records("succeeded")
    <3>1. chain'.next = n + 1
      BY <1>0, <2>2, Zenon DEF advanceChainOutcome, ChainStates
    <3> QED
      BY <1>0, <2>2, <3>1 DEF ReceiptOK, Records, Known, successOwned
  <2>3. CASE n = chain.next /\ chain' = failChainOutcome(n) /\ Records("failed")
    <3>1. chain'.next = n /\ chain'.failed /\ n <= N
      BY <1>0, <2>3 DEF failChainOutcome, ChainStates, Nodes
    <3> QED
      BY <1>0, <2>3, <3>1 DEF ReceiptOK, Records, Known, failureOwned, Completed, IsCompleted
  <2> QED
    BY <2>1, <2>2, <2>3, Zenon DEF StepOK, ChainMove, Records
<1>2. ASSUME NEW g \in Generations
      PROVE  ConfirmOK(g)'
  <2>1. CASE dels'[g] = dels[g]
    <3> SUFFICES ASSUME dels[g].pc = "confirm" PROVE ConfirmOK(g)'
      BY <2>1, Zenon DEF ConfirmOK
    <3>1. /\ dels[g].kind = "node" /\ dels[g].member \in Nodes /\ Provenance
          /\ receipts[dels[g].member] = Receipt(g, "succeeded")
      BY Zenon DEF ReceiptInv, ConfirmOK
    <3>2. g # NoGeneration /\ Receipt(g, "succeeded").gen = g
      BY <3>1, TransportAssumption DEF Receipt, Generations, NoGeneration
    <3>3. Receipt(g, "succeeded")' = Receipt(g, "succeeded")
      BY <2>1, Zenon DEF Receipt
    <3>4. receipts'[dels[g].member] = receipts[dels[g].member]
      BY <3>1, <3>2, Zenon DEF Forward, Known
    <3> QED
      BY <2>1, <3>1, <3>3, <3>4, Zenon DEF ConfirmOK
  <2>2. CASE dels'[g] = Over
    BY <2>2 DEF Over, ConfirmOK
  <2>3. CASE Begins(g)
    BY <2>3 DEF Begins, NewDelivery, ConfirmOK
  <2>4. CASE GoesOn(g)
    BY <2>4, Zenon DEF GoesOn
  <2> QED
    BY <2>1, <2>2, <2>3, <2>4, Zenon DEF StepOK, DeliveriesMove
<1> QED
  BY <1>1, <1>2, Zenon DEF ReceiptInv

\* A success stays truthful.
LEMMA TruthfulStep ==
  ASSUME Forward, NEW f, f.member \in Nodes, Truthful(f)
  PROVE  Truthful(f)'
BY Zenon DEF Forward, Truthful

\* Facts stay truthful, under one event id for each node.
LEMMA FactStep ==
  ASSUME Types, FactInv, StepOK, Forward
  PROVE  FactInv'
<1>0. chain \in ChainStates /\ chain.next \in Nat /\ N \in Nat
  BY ChainAssumption DEF Types, ChainStates
<1> DEFINE Shape == FactType(FactKinds, Nodes)
<1>1. AllSuccesses \subseteq Shape
  BY DEF AllSuccesses, Types, Delivery, DeliveryType, Successes, FactType, FactKinds
<1>2. \A f \in AllSuccesses : f.kind = "succeeded" /\ f.member \in Nodes /\ Truthful(f)'
  BY TruthfulStep, Zenon DEF FactInv
<1>3. ASSUME NEW f \in Successes, NewSuccess(f)
      PROVE  /\ f \in Shape /\ f.kind = "succeeded" /\ f.member \in Nodes
             /\ \A h \in AllSuccesses : h.member = f.member => h = f
  <2>1. f \in Shape /\ f.kind = "succeeded" /\ f.member \in Nodes /\ Truthful(f)'
    BY <1>3, Zenon DEF NewSuccess, Successes, FactType, FactKinds
  <2>2. ASSUME NEW h \in AllSuccesses, h.member = f.member
        PROVE  h = f
    <3>1. Provenance
      BY <1>3, <2>2, Zenon DEF NewSuccess, FactInv, Truthful
    <3>2. h.env = f.env /\ h.attempt = f.attempt
      BY <1>2, <2>1, <2>2, <3>1, Zenon DEF Truthful
    <3> QED
      BY <1>1, <1>2, <2>1, <2>2, <3>2 DEF FactType
  <2> QED
    BY <2>1, <2>2, Zenon
<1>4. /\ \A f \in AllSuccesses' : f.kind = "succeeded" /\ f.member \in Nodes /\ Truthful(f)'
      /\ \A f, h \in AllSuccesses' : f.member = h.member => f = h
  <2>1. CASE AllSuccesses' \subseteq AllSuccesses
    BY <1>2, <2>1, Zenon DEF FactInv
  <2>2. ASSUME NEW f \in Successes, NewSuccess(f)
        PROVE  /\ \A h \in AllSuccesses' : h.kind = "succeeded" /\ h.member \in Nodes /\ Truthful(h)'
               /\ \A i, h \in AllSuccesses' : i.member = h.member => i = h
    <3>1. AllSuccesses' \subseteq AllSuccesses \cup {f} /\ Truthful(f)'
      BY <2>2, Zenon DEF NewSuccess
    <3>2. \A i, h \in AllSuccesses : i.member = h.member => i = h
      BY Zenon DEF FactInv
    <3>3. /\ f.kind = "succeeded" /\ f.member \in Nodes
          /\ \A h \in AllSuccesses : h.member = f.member => h = f
      BY <1>3, <2>2, Zenon
    <3> QED
      BY <1>2, <3>1, <3>2, <3>3, Zenon
  <2> QED
    BY <2>1, <2>2, Zenon DEF StepOK, FactsMove
<1>5. ASSUME NEW f \in facts', f.kind = "failed"
      PROVE  failureOwned(f.member)'
  <2>1. CASE f \in facts
    <3>1. failureOwned(f.member)
      BY <1>5, <2>1, Zenon DEF FactInv
    <3>2. f.member \in Nodes
      BY <1>0, <3>1 DEF failureOwned, Completed, IsCompleted, ChainStates, Nodes
    <3> QED
      BY <3>1, <3>2, Zenon DEF Forward
  <2> QED
    BY <1>5, <2>1, Zenon DEF StepOK, FactsMove
<1> QED
  BY <1>4, <1>5, Zenon DEF FactInv

\* A closure is run by the one delivery, or the builder, that claimed its key.
LEMMA CallbackStep ==
  ASSUME CallbackInv, StepOK, Forward
  PROVE  CallbackInv'
<1> DEFINE Once(s) == \A i, j \in s : i[1] = j[1] => i = j
           Clear == \A g \in Generations : InvokeOK(g)
<1>0. /\ Once(invoked) /\ Clear
      /\ \A i \in invoked : i[1] \in markers /\ CallbackReady(i[1]) /\ ReadyNext(i[1])
  BY Zenon DEF CallbackInv, CallbackAtMostOnce, Forward
<1> SUFFICES /\ Once(invoked') /\ \A g \in Generations : InvokeOK(g)'
             /\ \A i \in invoked' : i[1] \in markers' /\ ReadyNext(i[1])
  BY Zenon DEF CallbackInv, CallbackAtMostOnce, StepOK, CallbacksMove, CallbackReady, ReadyNext, Completed
<1>r. ASSUME NEW g \in Generations, dels'[g].kind \in markers', ReadyNext(dels'[g].kind),
             \A i \in invoked' : i[1] # dels'[g].kind,
             \A h \in Generations : dels'[h].pc = "invoke" /\ dels'[h].kind = dels'[g].kind => h = g
      PROVE  InvokeOK(g)'
  BY <1>r, Zenon DEF InvokeOK, CallbackReady, ReadyNext, Completed
<1>1. CASE markers \subseteq markers' /\ invoked' = invoked /\ NoNewInvoke
  <2>1. ASSUME NEW g \in Generations, dels'[g].pc = "invoke"
        PROVE  InvokeOK(g)'
    <3>1. dels'[g] = dels[g] /\ InvokeOK(g)
      BY <1>0, <1>1, <2>1, Zenon DEF NoNewInvoke
    <3>2. /\ dels[g].kind \in markers /\ CallbackReady(dels[g].kind)
          /\ \A i \in invoked : i[1] # dels[g].kind
          /\ \A h \in Generations : dels[h].pc = "invoke" /\ dels[h].kind = dels[g].kind => h = g
      BY <2>1, <3>1, Zenon DEF InvokeOK
    <3>3. \A h \in Generations : dels'[h].pc = "invoke" /\ dels'[h].kind = dels[g].kind => h = g
      BY <1>1, <3>2, Zenon DEF NoNewInvoke
    <3>4. ReadyNext(dels[g].kind)
      BY <3>1, <3>2, Zenon DEF Forward
    <3> QED
      BY <1>1, <1>r, <3>1, <3>2, <3>3, <3>4, Zenon
  <2> QED
    BY <1>0, <1>1, <2>1, Zenon DEF InvokeOK
<1>2. ASSUME NEW g \in Generations, Claims(g)
      PROVE  /\ Once(invoked') /\ \A h \in Generations : InvokeOK(h)'
             /\ \A i \in invoked' : i[1] \in markers' /\ ReadyNext(i[1])
  <2> DEFINE k == dels'[g].kind
  <2>1. /\ k \notin markers /\ ReadyNext(k) /\ markers' = markers \cup {k} /\ invoked' = invoked
        /\ \A h \in Generations \ {g} : dels'[h] = dels[h]
    BY <1>2, Zenon DEF Claims, Forward
  <2>2. \A i \in invoked : i[1] # k
    BY <1>0, <2>1, Zenon
  <2>3. ASSUME NEW h \in Generations, h # g, dels'[h].pc = "invoke"
        PROVE  /\ dels'[h] = dels[h] /\ dels[h].kind # k
               /\ InvokeOK(h)
    BY <1>0, <2>1, <2>3, Zenon DEF InvokeOK
  <2>4. InvokeOK(g)'
    BY <1>r, <2>1, <2>2, <2>3, Zenon
  <2>5. ASSUME NEW h \in Generations, h # g, dels'[h].pc = "invoke"
        PROVE  InvokeOK(h)'
    <3>1. /\ dels[h].kind \in markers /\ CallbackReady(dels[h].kind)
          /\ \A i \in invoked : i[1] # dels[h].kind
          /\ \A j \in Generations : dels[j].pc = "invoke" /\ dels[j].kind = dels[h].kind => j = h
      BY <2>3, <2>5, Zenon DEF InvokeOK
    <3>2. ReadyNext(dels[h].kind)
      BY <3>1, Zenon DEF Forward
    <3>3. \A j \in Generations : dels'[j].pc = "invoke" /\ dels'[j].kind = dels[h].kind => j = h
      BY <2>1, <2>3, <2>5, <3>1, Zenon
    <3>4. dels'[h] = dels[h] /\ dels[h].kind \in markers' /\ invoked' = invoked
      BY <2>1, <2>3, <2>5, <3>1, Zenon
    <3> QED
      BY <1>r, <3>1, <3>2, <3>3, <3>4, Zenon
  <2> QED
    BY <1>0, <2>1, <2>4, <2>5, Zenon DEF InvokeOK
<1>3. ASSUME NEW g \in Generations, Invokes(g)
      PROVE  /\ Once(invoked') /\ \A h \in Generations : InvokeOK(h)'
             /\ \A i \in invoked' : i[1] \in markers' /\ ReadyNext(i[1])
  <2> DEFINE k == dels[g].kind
  <2>1. /\ k \in markers /\ CallbackReady(k) /\ \A i \in invoked : i[1] # k
        /\ \A h \in Generations : dels[h].pc = "invoke" /\ dels[h].kind = k => h = g
    BY <1>0, <1>3, Zenon DEF Invokes, InvokeOK
  <2>2. /\ dels'[g].pc # "invoke" /\ markers' = markers /\ invoked' = invoked \cup {<<k, g>>}
        /\ \A h \in Generations \ {g} : dels'[h] = dels[h]
    BY <1>3, Zenon DEF Invokes
  <2>3. ReadyNext(k)
    BY <2>1, Zenon DEF Forward
  <2>4. ASSUME NEW h \in Generations, dels'[h].pc = "invoke"
        PROVE  InvokeOK(h)'
    <3>1. h # g /\ dels'[h] = dels[h]
      BY <2>2, <2>4, Zenon
    <3>2. /\ dels[h].kind \in markers /\ CallbackReady(dels[h].kind)
          /\ \A i \in invoked : i[1] # dels[h].kind
          /\ \A j \in Generations : dels[j].pc = "invoke" /\ dels[j].kind = dels[h].kind => j = h
      BY <1>0, <2>4, <3>1, Zenon DEF InvokeOK
    <3>3. ReadyNext(dels[h].kind) /\ dels[h].kind # k
      BY <2>1, <2>4, <3>1, <3>2, Zenon DEF Forward
    <3>4. \A i \in invoked' : i[1] # dels[h].kind
      BY <2>2, <3>2, <3>3
    <3>5. \A j \in Generations : dels'[j].pc = "invoke" /\ dels'[j].kind = dels[h].kind => j = h
      BY <2>2, <3>2, Zenon
    <3> QED
      BY <1>r, <2>2, <3>1, <3>2, <3>3, <3>4, <3>5, Zenon
  <2>5. Once(invoked') /\ \A i \in invoked' : i[1] \in markers' /\ ReadyNext(i[1])
    BY <1>0, <2>1, <2>2, <2>3
  <2> QED
    BY <2>4, <2>5, Zenon DEF InvokeOK
<1>4. ASSUME NEW k \in CallbackKinds, InvokesInline(k)
      PROVE  /\ Once(invoked') /\ \A h \in Generations : InvokeOK(h)'
             /\ \A i \in invoked' : i[1] \in markers' /\ ReadyNext(i[1])
  <2>1. /\ k \notin markers /\ ReadyNext(k) /\ dels' = dels
        /\ markers' = markers \cup {k} /\ invoked' = invoked \cup {<<k, NoGeneration>>}
    BY <1>4, Zenon DEF InvokesInline, Forward
  <2>2. ASSUME NEW h \in Generations, dels[h].pc = "invoke"
        PROVE  InvokeOK(h)'
    <3>1. /\ dels[h].kind \in markers /\ CallbackReady(dels[h].kind)
          /\ \A i \in invoked : i[1] # dels[h].kind
          /\ \A j \in Generations : dels[j].pc = "invoke" /\ dels[j].kind = dels[h].kind => j = h
      BY <1>0, <2>2, Zenon DEF InvokeOK
    <3>2. ReadyNext(dels[h].kind)
      BY <3>1, Zenon DEF Forward
    <3> QED
      BY <1>r, <2>1, <2>2, <3>1, <3>2
  <2>3. Once(invoked') /\ \A i \in invoked' : i[1] \in markers' /\ ReadyNext(i[1])
    BY <1>0, <2>1
  <2> QED
    BY <2>1, <2>2, <2>3, Zenon DEF InvokeOK
<1> QED
  BY <1>1, <1>2, <1>3, <1>4, Zenon DEF StepOK, CallbacksMove

\* A node that is discharged stays so: the envelope of its successor is only
\* forgotten when the successor is discharged in its turn.
LEMMA DischargedStep ==
  ASSUME Types, Forward, MessagesMove, EnvelopesForward, swallowed \subseteq swallowed', chain.created,
         NEW n \in Nodes, Discharged(n)
  PROVE  Discharged(n)'
<1>0. chain.next \in Nat /\ chain'.next \in Nat /\ chain.next <= chain'.next /\ n \in Nat
  BY ChainAssumption DEF Types, Forward, ChainStates, Nodes
<1>1. CASE ~Active
  BY <1>1, Zenon DEF Forward, Discharged, Active
<1>2. CASE chain'.next > n + 1
  BY <1>2, Zenon DEF Discharged
<1>3. CASE Active /\ chain.next = n + 1 /\ chain'.next = n + 1 /\ n \in swallowed
  BY <1>3, Zenon DEF Discharged
<1>4. CASE Active /\ chain.next = n + 1 /\ chain'.next = n + 1 /\ CanMove(n + 1)
  <2> PICK e \in Envelopes : /\ msgs[e].kind = "node" /\ msgs[e].member = n + 1
                             /\ msgs[e].state \in {"queued", "held"}
    BY <1>4, Zenon DEF CanMove
  <2>1. /\ msgs'[e].kind = "node" /\ msgs'[e].member = n + 1 /\ msgs'[e].state # "none"
        /\ msgs'[e].state \in {"none", "queued", "held", "done", "dead"}
    BY Zenon DEF EnvelopesForward, MessagesMove, Sent, MessageType
  <2>2. CASE msgs'[e].state \in {"queued", "held"}
    BY <1>4, <2>1, <2>2, Zenon DEF Discharged, CanMove
  <2>3. CASE msgs'[e].state \in {"done", "dead"}
    <3>1. OldEnvelope(msgs[e], msgs'[e])
      BY <2>3, Zenon DEF MessagesMove
    <3>2. Discharged(n + 1)
      BY <2>1, <2>3, <3>1, Zenon DEF OldEnvelope
    <3> QED
      BY <1>0, <1>4, <3>2 DEF Discharged
  <2> QED
    BY <2>1, <2>2, <2>3, Zenon
<1> QED
  BY <1>0, <1>1, <1>2, <1>3, <1>4 DEF Discharged

\* The envelope or the delivery of a node names one, once the chain exists.
LEMMA NodeEnvelope ==
  ASSUME TransportInv, OrderInv, NEW e \in Envelopes, msgs[e].kind = "node"
  PROVE  chain.created /\ msgs[e].state # "none" /\ msgs[e].member \in Nodes
<1>1. msgs[e].state # "none" /\ msgs[e].member \in Nodes
  BY Zenon DEF TransportInv, OrderInv
<1> QED
  BY <1>1, Zenon DEF TransportInv, Nothing

\* The same for a delivery of a node.
LEMMA NodeDelivery ==
  ASSUME TransportInv, OrderInv, NEW g \in Generations, dels[g].kind = "node"
  PROVE  /\ g \in Running /\ chain.created /\ dels[g].env \in Envelopes
         /\ dels[g].member \in Nodes /\ dels[g].member <= chain.next
<1>1. g \in Running
  BY Zenon DEF TransportInv
<1>2. /\ dels[g].env \in Envelopes /\ msgs[dels[g].env].kind = "node"
      /\ msgs[dels[g].env].member = dels[g].member
  BY <1>1, Zenon DEF TransportInv, CarriesOK
<1>3. dels[g].member \in 1..chain.next /\ dels[g].member \in Nodes
  BY <1>2, Zenon DEF OrderInv
<1> QED
  BY <1>1, <1>2, <1>3, NodeEnvelope

\* An envelope that is dispatched is queued.
LEMMA NewIsQueued ==
  ASSUME NEW m, NewEnvelope(m)
  PROVE  m.state = "queued"
BY DEF NewEnvelope, Message

\* The queue keeps what the chain needs in order to move.
LEMMA ContinuationStep ==
  ASSUME Types, TransportInv, OrderInv, ContinuationInv, StepOK, Forward, EnvelopesForward
  PROVE  ContinuationInv'
<1>0. chain \in ChainStates /\ chain.next \in Nat
  BY ChainAssumption DEF Types, ChainStates
<1>d. MessagesMove /\ swallowed \subseteq swallowed'
  BY Zenon DEF StepOK
<1>1. ASSUME NEW e \in Envelopes, msgs'[e].kind = "node", msgs'[e].state \in {"done", "dead"}
      PROVE  \E n \in Nodes : n = msgs'[e].member /\ Discharged(n)'
  <2>1. ~NewEnvelope(msgs'[e])
    BY <1>1, NewIsQueued, Zenon
  <2>2. msgs[e].kind = "node" /\ msgs[e].member = msgs'[e].member
    BY <1>1, <2>1, Zenon DEF StepOK, MessagesMove, OldEnvelope
  <2>3. chain.created /\ msgs[e].member \in Nodes
    BY <2>2, NodeEnvelope, Zenon
  <2>4. Discharged(msgs[e].member)
    BY <1>1, <2>1, <2>2, Zenon DEF StepOK, MessagesMove, OldEnvelope, ContinuationInv, SettledOK
  <2> QED
    BY <1>d, <2>2, <2>3, <2>4, DischargedStep, Zenon
<1>2. ASSUME NEW g \in Generations
      PROVE  ReturnsOK(g)'
  <2>1. CASE dels'[g] = dels[g] /\ dels[g].kind = "node"
    <3>1. chain.created /\ dels[g].member \in Nodes
      BY <2>1, NodeDelivery, Zenon
    <3> DEFINE n == dels[g].member
    <3>2. ASSUME NEW m \in Nodes, m = n, Discharged(m)
          PROVE  Discharged(n)'
      <4>1. Discharged(m)'
        BY <1>d, <3>1, <3>2, DischargedStep, Zenon
      <4> QED
        BY <2>1, <3>2, <4>1, Zenon
    <3>3. DecisionOf(dels[g], MaxRetry)' = DecisionOf(dels[g], MaxRetry)
      BY <2>1, Zenon DEF DecisionOf
    <3>4. ReturnsOK(g)
      BY Zenon DEF ContinuationInv
    <3>5. Discharged(n) => Discharged(n)'
      BY <3>1, <3>2, Zenon
    <3> QED
      BY <2>1, <3>3, <3>4, <3>5, Zenon DEF ReturnsOK
  <2>2. CASE dels'[g] = dels[g] /\ dels[g].kind # "node"
    BY <2>2, Zenon DEF ReturnsOK
  <2>3. CASE dels'[g] = Over
    BY <2>3 DEF Over, ReturnsOK
  <2>4. CASE Begins(g)
    BY <2>4 DEF Begins, NewDelivery, ReturnsOK
  <2>5. CASE GoesOn(g)
    BY <2>5, Zenon DEF GoesOn
  <2> QED
    BY <2>1, <2>2, <2>3, <2>4, <2>5, Zenon DEF StepOK, DeliveriesMove
<1>3. ASSUME chain'.next > 1
      PROVE  \E e \in Envelopes : msgs'[e].kind = "node" /\ msgs'[e].member = chain'.next - 1
  <2>1. \E e \in Envelopes : msgs[e].kind = "node" /\ msgs[e].member = chain'.next - 1
    <3>1. CASE chain'.next = chain.next
      BY <1>3, <3>1, Zenon DEF ContinuationInv
    <3>2. CASE chain'.next = chain.next + 1 /\ \E e \in Envelopes : msgs[e].kind = "node" /\ msgs[e].member = chain.next
      BY <1>0, <3>2
    <3> QED
      BY <1>0, <3>1, <3>2, Zenon DEF StepOK, ChainMove, createChain, advanceChainOutcome, failChainOutcome, ChainStates
  <2> QED
    BY <2>1, NodeEnvelope, Zenon DEF EnvelopesForward
<1> QED
  BY <1>1, <1>2, <1>3, Zenon DEF ContinuationInv, SettledOK

\* The whole invariant survives a step of this kind.
LEMMA InvStep ==
  ASSUME Inv, StepOK
  PROVE  Inv' /\ Forward
<1>1. Forward
  BY ForwardStep, Zenon DEF Inv, StepOK
<1>2. EnvelopesForward
  BY EnvelopesStep, Zenon DEF StepOK
<1>3. Types' /\ TransportInv' /\ OrderInv'
  BY <1>1, <1>2, TypesStep, TransportStepOK, OrderStep, Zenon DEF Inv
<1>4. ReceiptInv' /\ FactInv' /\ CallbackInv'
  BY <1>1, ReceiptStep, FactStep, CallbackStep, Zenon DEF Inv
<1>5. ContinuationInv'
  BY <1>1, <1>2, ContinuationStep, Zenon DEF Inv
<1> QED
  BY <1>1, <1>3, <1>4, <1>5, Zenon DEF Inv

-----------------------------------------------------------------------------
(* What the invariant says.                                                *)

\* What the invariant says of NodesInOrder.
LEMMA OrderFollows ==
  ASSUME Inv
  PROVE  NodesInOrder
<1>0. Types /\ TransportInv /\ OrderInv
  BY Zenon DEF Inv
<1>1. chain.next \in Nat
  BY <1>0, ChainAssumption DEF Types, ChainStates
<1>2. \A e \in Envelopes : msgs[e].kind = "node" => ~Premature(msgs[e].member)
  BY <1>0, <1>1 DEF OrderInv, Premature
<1>3. ASSUME NEW g \in Generations, dels[g].kind = "node"
      PROVE  ~Premature(dels[g].member)
  <2>1. dels[g].member \in Nodes /\ dels[g].member <= chain.next
    BY <1>0, <1>3, NodeDelivery, Zenon
  <2> QED
    BY <1>1, <2>1, ChainAssumption DEF Premature, Nodes
<1> QED
  BY <1>0, <1>2, <1>3, Zenon DEF NodesInOrder, OrderInv

\* What the invariant says of FactsTruthful.
LEMMA FactsFollow ==
  ASSUME Inv
  PROVE  FactsTruthful
<1>0. Types /\ FactInv
  BY Zenon DEF Inv
<1>1. chain \in ChainStates /\ chain.next \in Nat /\ N \in Nat
  BY <1>0, ChainAssumption DEF Types, ChainStates
<1>2. ASSUME NEW f \in facts, f.kind = "failed"
      PROVE  failureOwned(f.member) /\ ~successOwned(f.member)
  BY <1>0, <1>1, <1>2 DEF FactInv, failureOwned, successOwned
<1>3. ASSUME NEW f \in facts, f.kind = "succeeded"
      PROVE  /\ f \in AllSuccesses /\ Truthful(f)
             /\ \A h \in facts : h.member = f.member => h = f
  <2>1. f \in AllSuccesses
    BY <1>3, Zenon DEF AllSuccesses
  <2>2. Truthful(f) /\ successOwned(f.member)
    BY <1>0, <2>1, Zenon DEF FactInv, Truthful
  <2>3. ASSUME NEW h \in facts, h.member = f.member
        PROVE  h = f
    <3>1. h.kind \in {"succeeded", "failed"}
      BY <1>0, Zenon DEF Types, FactType, FactKinds
    <3>2. h.kind = "succeeded"
      BY <1>2, <2>2, <2>3, <3>1, Zenon
    <3>3. h \in AllSuccesses
      BY <3>2, Zenon DEF AllSuccesses
    <3> QED
      BY <1>0, <2>1, <2>3, <3>3, Zenon DEF FactInv
  <2> QED
    BY <2>1, <2>2, <2>3, Zenon
<1> QED
  BY <1>2, <1>3, Zenon DEF FactsTruthful, Truthful

\* What the invariant says of ContinuationRetained.
LEMMA ContinuationFollows ==
  ASSUME Inv
  PROVE  ContinuationRetained
<1>0. Types /\ TransportInv /\ OrderInv /\ ContinuationInv
  BY Zenon DEF Inv
<1> SUFFICES ASSUME Active, Dispatched
             PROVE  \/ CanMove(chain.next)
                    \/ chain.next > 1 /\ (CanMove(chain.next - 1) \/ (chain.next - 1) \in swallowed)
  BY Zenon DEF ContinuationRetained
<1>1. chain.next \in Nat \ {0}
  BY <1>0, ChainAssumption DEF Types, ChainStates
<1>2. ASSUME NEW e \in Envelopes, msgs[e].kind = "node"
      PROVE  CanMove(msgs[e].member) \/ Discharged(msgs[e].member)
  <2>1. msgs[e].state \in {"queued", "held", "done", "dead"}
    BY <1>0, <1>2, Zenon DEF TransportInv, Types, Sent, MessageType
  <2> QED
    BY <1>0, <1>2, <2>1, Zenon DEF CanMove, ContinuationInv, SettledOK
<1>3. CASE chain.next = 1
  <2> PICK e \in Envelopes : msgs[e].kind = "node"
    BY Zenon DEF Dispatched
  <2>1. msgs[e].member = 1
    BY <1>0, <1>3 DEF OrderInv
  <2>2. ~Discharged(1)
    BY <1>3 DEF Discharged
  <2> QED
    BY <1>2, <1>3, <2>1, <2>2, Zenon
<1>4. CASE chain.next > 1
  <2> PICK e \in Envelopes : msgs[e].kind = "node" /\ msgs[e].member = chain.next - 1
    BY <1>0, <1>4, Zenon DEF ContinuationInv
  <2>1. CASE Discharged(chain.next - 1)
    <3>1. chain.next - 1 + 1 = chain.next /\ ~(chain.next > chain.next)
      BY <1>1
    <3> QED
      BY <1>4, <2>1, <3>1, Zenon DEF Discharged
  <2> QED
    BY <1>2, <1>4, <2>1, Zenon
<1> QED
  BY <1>1, <1>3, <1>4

\* Initially there is nothing.
LEMMA InvInit == Init => Inv
<1> SUFFICES ASSUME Init PROVE Inv
  BY Zenon
<1> USE ChainAssumption, TransportAssumption, RuntimeAssumption
<1>1. /\ msgs = [e \in Envelopes |-> [kind |-> "none", member |-> 0, state |-> "none", attempt |-> 0, token |-> 0]]
      /\ dels = [g \in Generations |-> Free]
  BY DEF Init, TransportInit, Message, NoGeneration
<1>2. /\ Free.pc = "free" /\ Free.kind = "none" /\ Free.next = 0 /\ Free.facts = {}
      /\ Free.proof = NoGeneration
  BY Zenon DEF Free, Over
<1>3. /\ markers = {} /\ closures = {} /\ facts = {} /\ invoked = {} /\ builder = "new"
      /\ receipts = [n \in Nodes |-> NoReceipt]
      /\ chain = [created |-> FALSE, next |-> 1, failed |-> FALSE]
  BY Zenon DEF Init, RuntimeInit
<1>4. Types
  <2>1. msgs \in [Envelopes -> Sent]
    BY <1>1, Zenon DEF Sent, MessageType, NoGeneration
  <2>2. <<>> \in Seq(CallbackKinds)
    OBVIOUS
  <2>3. Free \in Delivery
    <3>1. Over \in Delivery
      BY <2>2, Zenon DEF Over, Delivery, DeliveryType, NoGeneration, Errors
    <3> QED
      BY <3>1, Zenon DEF Free, Delivery, DeliveryType
  <2>4. chain \in ChainStates /\ receipts \in [Nodes -> ReceiptType]
    BY <1>3 DEF ChainStates, ReceiptType, NoReceipt
  <2> QED
    BY <1>1, <1>2, <1>3, <2>1, <2>3, <2>4, Zenon DEF Types, BuilderSteps
<1>5. TransportInv
  BY <1>1, <1>2, <1>3, Zenon DEF TransportInv, Running, Nothing, NoGeneration
<1>6. OrderInv /\ ContinuationInv
  BY <1>1, <1>2, <1>3 DEF OrderInv, ContinuationInv, SettledOK, ReturnsOK
<1>7. ReceiptInv
  BY <1>1, <1>2, <1>3, Zenon DEF ReceiptInv, ReceiptOK, ConfirmOK, Known, NoReceipt
<1>8. FactInv
  BY <1>1, <1>2, <1>3 DEF FactInv, AllSuccesses
<1>9. CallbackInv
  BY <1>1, <1>2, <1>3, Zenon DEF CallbackInv, CallbackAtMostOnce, InvokeOK
<1> QED
  BY <1>4, <1>5, <1>6, <1>7, <1>8, <1>9, Zenon DEF Inv

-----------------------------------------------------------------------------
(* Every action is such a step.  First the parts that an action leaves     *)
(* alone, and the operators the handlers are built from.                   *)

\* A step that leaves the store alone.
LEMMA ChainStill ==
  ASSUME chain' = chain, receipts' = receipts
  PROVE  ChainMove
BY Zenon DEF ChainMove

\* A step that leaves the queue alone.
LEMMA MessagesStill ==
  ASSUME Types, msgs' = msgs
  PROVE  MessagesMove
BY Zenon DEF MessagesMove, Types

\* A step that leaves all deliveries alone.
LEMMA DeliveriesStill ==
  ASSUME Types, dels' = dels
  PROVE  DeliveriesMove /\ NoNewInvoke
BY Zenon DEF DeliveriesMove, NoNewInvoke, Types

\* A step that publishes nothing.
LEMMA FactsStill ==
  ASSUME Types, facts' = facts, \A g \in Generations : dels'[g].facts \subseteq dels[g].facts
  PROVE  FactsMove
<1>1. AllSuccesses' \subseteq AllSuccesses
  BY Zenon DEF AllSuccesses
<1> QED
  BY <1>1, Zenon DEF FactsMove, Types

\* A step that neither claims nor runs a closure.
LEMMA CallbacksStill ==
  ASSUME CallbackInv, chain.failed => chain'.failed, builder' = builder,
         markers \subseteq markers', invoked' = invoked, NoNewInvoke
  PROVE  CallbacksMove
BY Zenon DEF CallbacksMove, CallbackInv

\* A new envelope is dispatched, if the dispatch takes effect.
LEMMA DispatchMoves ==
  ASSUME Types, chain.created, NEW kind \in Kinds, NEW n \in Nodes \cup {0}, NEW db,
         kind = "node" => n \in Nodes /\ n <= chain'.next,
         BusDispatch(kind, n, db)
  PROVE  /\ MessagesMove
         /\ db # "failed" => \E e \in Envelopes : msgs[e].state = "none" /\ msgs'[e] = Message(kind, n)
<1>1. CASE db = "failed"
  BY <1>1, MessagesStill, Zenon DEF BusDispatch
<1>2. CASE db # "failed"
  <2> PICK e \in Unused : msgs' = [msgs EXCEPT ![e] = Message(kind, n)]
    BY <1>2, Zenon DEF BusDispatch
  <2>1. e \in Envelopes /\ msgs[e].state = "none"
    BY Zenon DEF Unused
  <2>2. Message(kind, n) \in Sent
    BY Zenon DEF Message, Sent, MessageType, NoGeneration
  <2>3. msgs'[e] = Message(kind, n) /\ \A f \in Envelopes \ {e} : msgs'[f] = msgs[f]
    BY <2>1, Zenon DEF Types
  <2>4. msgs' \in [Envelopes -> Sent]
    BY <2>1, <2>2, Zenon DEF Types
  <2>5. NewEnvelope(msgs'[e])
    BY <2>3, Zenon DEF NewEnvelope
  <2> QED
    BY <2>1, <2>3, <2>4, <2>5, Zenon DEF MessagesMove
<1> QED
  BY <1>1, <1>2, Zenon

\* A delivery goes on alone, in its handler.
Handles(g) ==
  /\ dels' \in [Generations -> Delivery]
  /\ \A h \in Generations \ {g} : dels'[h] = dels[h]
  /\ SameDelivery(dels'[g], dels[g])

\* The conditions a handler step has to meet; n is the node.
LEMMA HandlerGoesOn ==
  ASSUME NEW g \in Running, Handles(g), NEW n, n = dels[g].member,
         dels'[g].pc \notin {"free", "over", "confirm"},
         dels'[g].pc = "callbacks" => dels'[g].work # <<>>,
         dels'[g].next <= chain'.next,
         dels'[g].pc = "successor" =>
           dels[g].kind = "node" /\ dels'[g].next \in Nodes /\ n < dels'[g].next,
         dels[g].kind = "node" /\ dels'[g].pc = "callbacks" => Discharged(n)',
         dels[g].kind = "node" /\ dels'[g].pc = "settle"
           /\ ClassifyAttempt(dels[g].attempt, MaxRetry, dels'[g].err) \in {"succeeded", "failed"} => Discharged(n)'
  PROVE  DeliveriesMove
<1>1. /\ dels'[g].env = dels[g].env /\ dels'[g].kind = dels[g].kind /\ dels'[g].member = n
      /\ dels'[g].attempt = dels[g].attempt
  BY Zenon DEF Handles, SameDelivery
<1>2. ConfirmOK(g)'
  BY Zenon DEF ConfirmOK
<1>3. ReturnsOK(g)'
  BY <1>1, Zenon DEF ReturnsOK, DecisionOf
<1>4. GoesOn(g)
  BY <1>1, <1>2, <1>3, Zenon DEF GoesOn, Handles
<1> QED
  BY <1>4, Zenon DEF DeliveriesMove, Handles

\* The same for a step that claims no closure.
LEMMA HandlerMoves ==
  ASSUME NEW g \in Running, Handles(g), NEW n, n = dels[g].member,
         dels'[g].pc \notin {"free", "over", "confirm", "invoke"},
         dels'[g].pc = "callbacks" => dels'[g].work # <<>>,
         dels'[g].next <= chain'.next,
         dels'[g].pc = "successor" =>
           dels[g].kind = "node" /\ dels'[g].next \in Nodes /\ n < dels'[g].next,
         dels[g].kind = "node" /\ dels'[g].pc = "callbacks" => Discharged(n)',
         dels[g].kind = "node" /\ dels'[g].pc = "settle"
           /\ ClassifyAttempt(dels[g].attempt, MaxRetry, dels'[g].err) \in {"succeeded", "failed"} => Discharged(n)'
  PROVE  DeliveriesMove /\ NoNewInvoke
<1>1. DeliveriesMove
  BY HandlerGoesOn, Zenon
<1>2. NoNewInvoke
  BY Zenon DEF NoNewInvoke, Handles
<1> QED
  BY <1>1, <1>2, Zenon

\* Return: the handler is done with its delivery.
LEMMA ReturnHandles ==
  ASSUME Types, NEW g \in Generations, NEW err \in Errors, NEW d, d = Return(g, err)
  PROVE  /\ d \in [Generations -> Delivery]
         /\ \A h \in Generations \ {g} : d[h] = dels[h]
         /\ SameDelivery(d[g], dels[g]) /\ d[g].facts = dels[g].facts
         /\ d[g].pc = "settle" /\ d[g].err = err /\ d[g].next = 0
<1> DEFINE r == [[[[dels[g] EXCEPT !.pc = "settle"] EXCEPT !.err = err] EXCEPT !.next = 0] EXCEPT !.work = <<>>]
<1>0. <<>> \in Seq(CallbackKinds) /\ dels[g] \in Delivery
  BY DEF Types
<1>1. d = [dels EXCEPT ![g] = r]
  BY Zenon DEF Return, Types
<1>2. /\ r \in Delivery /\ SameDelivery(r, dels[g]) /\ r.facts = dels[g].facts
      /\ r.pc = "settle" /\ r.err = err /\ r.next = 0
  BY <1>0, Zenon DEF Delivery, DeliveryType, SameDelivery
<1> HIDE DEF r
<1> QED
  BY <1>1, <1>2, Zenon DEF Types

\* Goto: the handler goes on to its next call.
LEMMA GotoHandles ==
  ASSUME Types, NEW g \in Generations, NEW pc \in Steps, NEW d, d = Goto(g, pc)
  PROVE  /\ d \in [Generations -> Delivery]
         /\ \A h \in Generations \ {g} : d[h] = dels[h]
         /\ SameDelivery(d[g], dels[g]) /\ d[g].facts = dels[g].facts
         /\ d[g].pc = pc /\ d[g].next = dels[g].next /\ d[g].err = dels[g].err
<1> DEFINE r == [dels[g] EXCEPT !.pc = pc]
<1>0. dels[g] \in Delivery
  BY Zenon DEF Types
<1>1. d = [dels EXCEPT ![g] = r]
  BY Zenon DEF Goto, Types
<1>2. /\ r \in Delivery /\ SameDelivery(r, dels[g]) /\ r.facts = dels[g].facts
      /\ r.pc = pc /\ r.next = dels[g].next /\ r.err = dels[g].err
  BY <1>0, Zenon DEF Delivery, DeliveryType, SameDelivery
<1> HIDE DEF r
<1> QED
  BY <1>1, <1>2, Zenon DEF Types

\* Publishing: what emit makes of deliveries d.
Emitted(g, d, positive, negative) ==
  /\ dels' \in [Generations -> Delivery]
  /\ \A h \in Generations \ {g} : dels'[h] = d[h]
  /\ SameDelivery(dels'[g], d[g])
  /\ dels'[g].pc = d[g].pc /\ dels'[g].err = d[g].err /\ dels'[g].next = d[g].next
  /\ dels'[g].work = d[g].work
  /\ dels'[g].facts \subseteq d[g].facts \cup positive
  /\ facts' \subseteq facts \cup positive \cup negative

\* emit changes the kept and the published facts, and nothing else.
LEMMA EmitHandles ==
  ASSUME NEW g \in Generations, NEW d \in [Generations -> Delivery],
         NEW positive \in SUBSET Successes, NEW negative, emit(g, d, positive, negative)
  PROVE  Emitted(g, d, positive, negative)
<1>1. CASE Deferring
  <2> DEFINE r == [d[g] EXCEPT !.facts = d[g].facts \cup positive]
  <2>1. dels' = [d EXCEPT ![g] = r] /\ facts' = facts \cup negative
    BY <1>1, Zenon DEF emit
  <2>2. /\ r \in Delivery /\ SameDelivery(r, d[g]) /\ r.facts = d[g].facts \cup positive
        /\ r.pc = d[g].pc /\ r.err = d[g].err /\ r.next = d[g].next /\ r.work = d[g].work
    BY DEF Delivery, DeliveryType, SameDelivery
  <2> HIDE DEF r
  <2> QED
    BY <2>1, <2>2, Zenon DEF Emitted
<1>2. CASE ~Deferring
  BY <1>2, Zenon DEF emit, SameDelivery, Emitted
<1> QED
  BY <1>1, <1>2, Zenon

\* The facts of a step that publishes at most one success.
Publishes(g, positive, negative) ==
  /\ \A h \in Generations \ {g} : dels'[h].facts = dels[h].facts
  /\ dels'[g].facts \subseteq dels[g].facts \cup positive
  /\ facts' \subseteq facts \cup positive \cup negative
Owned(positive, negative) ==
  /\ \/ positive = {}
     \/ \E f \in Successes : positive = {f} /\ Truthful(f)' /\ (Provenance \/ ~successOwned(f.member))
  /\ negative \subseteq {f \in FactType(FactKinds, Nodes) : f.kind = "failed"}
  /\ \A f \in negative : failureOwned(f.member)'

\* What emit publishes is allowed when the store has decided it.
LEMMA EmitFacts ==
  ASSUME Types, NEW g \in Generations, NEW positive \in SUBSET Successes, NEW negative,
         Publishes(g, positive, negative), Owned(positive, negative)
  PROVE  FactsMove
<1> USE DEF Publishes, Owned
<1>1. Successes \subseteq FactType(FactKinds, Nodes) /\ \A f \in Successes : f.kind = "succeeded"
  BY Zenon DEF Successes, FactType, FactKinds
<1>2. AllSuccesses' \subseteq AllSuccesses \cup positive
  <2> SUFFICES ASSUME NEW f \in AllSuccesses', f \notin positive PROVE f \in AllSuccesses
    BY Zenon
  <2>1. CASE f \in facts' /\ f.kind = "succeeded"
    BY <2>1, Zenon DEF AllSuccesses
  <2>2. ASSUME NEW h \in Generations, f \in dels'[h].facts
        PROVE  f \in AllSuccesses
    BY <2>2, Zenon DEF AllSuccesses
  <2> QED
    BY <2>1, <2>2, Zenon DEF AllSuccesses
<1>3. facts' \subseteq FactType(FactKinds, Nodes)
  BY <1>1, Zenon DEF Types
<1>4. \A f \in facts' : f.kind = "failed" => f \in facts \/ failureOwned(f.member)'
  BY <1>1, Zenon
<1> QED
  BY <1>2, <1>3, <1>4, Zenon DEF FactsMove, NewSuccess

\* Records a handler puts in place of its delivery d.
Like(r, d) == r \in Delivery /\ SameDelivery(r, d) /\ r.facts = d.facts /\ r.err = d.err

\* A delivery that is about to dispatch the successor.
LEMMA SuccessorRecord ==
  ASSUME NEW d \in Delivery, NEW c, c.next \in Nodes
  PROVE  /\ Like(Successor(d, c), d)
         /\ Successor(d, c).pc = "successor" /\ Successor(d, c).next = c.next
BY Zenon DEF Successor, Like, Delivery, DeliveryType, SameDelivery, Steps

\* A delivery that is about to dispatch callbacks, or has none to dispatch.
LEMMA CallbackRecord ==
  ASSUME NEW d \in Delivery, NEW ks \in Seq(CallbackKinds)
  PROVE  /\ Like(Callback(d, ks), d) /\ Callback(d, ks).next = d.next /\ Callback(d, ks).work = ks
         /\ Callback(d, ks).pc = IF ks = <<>> THEN "settle" ELSE "callbacks"
<1> DEFINE pc == IF ks = <<>> THEN "settle" ELSE "callbacks"
           S == Seq(CallbackKinds)
<1>1. pc \in Steps \cup {"free", "start", "settle", "over"}
  BY Zenon DEF Steps
<1>2. Callback(d, ks) = [d EXCEPT !.pc = pc, !.work = ks]
  BY Zenon DEF Callback
<1>3. ks \in S
  BY Zenon
<1> HIDE DEF pc, S
<1>4. [d EXCEPT !.pc = pc, !.work = ks] \in Delivery
  BY <1>1, <1>3, Zenon DEF Delivery, DeliveryType, S
<1>5. /\ [d EXCEPT !.pc = pc, !.work = ks].pc = pc /\ [d EXCEPT !.pc = pc, !.work = ks].work = ks
      /\ [d EXCEPT !.pc = pc, !.work = ks].next = d.next
      /\ Like([d EXCEPT !.pc = pc, !.work = ks], d)
  BY <1>4, Zenon DEF Delivery, DeliveryType, Like, SameDelivery
<1> QED
  BY <1>2, <1>5, Zenon DEF pc

\* markDeliveryTransitionCommitted changes a mark only.
LEMMA MarkedRecord ==
  ASSUME Types, NEW g \in Generations
  PROVE  /\ Like(markDeliveryTransitionCommitted(g), dels[g])
         /\ markDeliveryTransitionCommitted(g).next = dels[g].next
<1>1. ASSUME NEW d \in Delivery
      PROVE  /\ Like([d EXCEPT !.committed = Provenance], d)
             /\ [d EXCEPT !.committed = Provenance].next = d.next
  <2>1. Provenance \in BOOLEAN
    BY TransportAssumption, Zenon
  <2> QED
    BY <2>1, ZenonT(60) DEF Like, Delivery, DeliveryType, SameDelivery
<1>2. dels[g] \in Delivery
  BY Zenon DEF Types
<1> QED
  BY <1>1, <1>2, Zenon DEF markDeliveryTransitionCommitted

\* Two such changes in a row are one.
LEMMA LikeTrans ==
  ASSUME NEW d1, NEW d2, NEW d3, Like(d1, d2), Like(d2, d3)
  PROVE  Like(d1, d3)
BY Zenon DEF Like, SameDelivery

\* The facts of a node's delivery.
LEMMA NodeFacts ==
  ASSUME Types, TransportInv, OrderInv, NEW g \in Generations, dels[g].kind = "node"
  PROVE  /\ Fact(g, "succeeded") \in Successes
         /\ Fact(g, "failed") \in FactType(FactKinds, Nodes)
<1>1. dels[g].member \in Nodes /\ dels[g].env \in Envelopes
  BY NodeDelivery, Zenon
<1>2. dels[g].attempt \in Nat
  BY Zenon DEF Types, Delivery, DeliveryType
<1> QED
  BY <1>1, <1>2, Zenon DEF Fact, Successes, FactType, FactKinds

\* What is left of a step once its parts are known.
LEMMA WorkerStep ==
  ASSUME Inv, chain.created, ChainMove, MessagesMove, DeliveriesMove, FactsMove, CallbacksMove,
         swallowed \subseteq swallowed', closures' \subseteq closures, builder' = builder
  PROVE  StepOK
<1>1. builder # "new" /\ builder \in BuilderSteps /\ closures \subseteq Callbacks
  BY Zenon DEF Inv, TransportInv, Types
<1> QED
  BY <1>1, Zenon DEF StepOK

\* The same for a step that neither claims nor runs a closure.
LEMMA HandlerStep ==
  ASSUME Inv, chain.created, ChainMove, chain.failed => chain'.failed,
         MessagesMove, DeliveriesMove, NoNewInvoke, FactsMove,
         markers \subseteq markers', invoked' = invoked, swallowed \subseteq swallowed',
         closures' \subseteq closures, builder' = builder
  PROVE  StepOK
<1>1. CallbacksMove
  BY CallbacksStill, Zenon DEF Inv
<1> QED
  BY <1>1, WorkerStep, Zenon

\* recoverCommittedChainSuccess: only the exact owner of the receipt publishes,
\* and the node is given up only when its successor is not pending.
LEMMA RecoverMoves ==
  ASSUME Inv, NEW g \in Generations, dels[g].kind = "node", NEW n, n = dels[g].member, successOwned(n),
         recoverCommittedChainSuccess(g), chain' = chain, receipts' = receipts
  PROVE  DeliveriesMove /\ NoNewInvoke /\ FactsMove
<1> DEFINE own == IF transitionReceiptOwnsRecoveredFacts(g, receipts[n])
                  THEN {Fact(g, "succeeded")} ELSE {}
           next == Active /\ chain.next = n + 1
           d == IF next THEN [dels EXCEPT ![g] = Successor(@, chain)] ELSE Return(g, "nil")
<1>0. Types /\ TransportInv /\ OrderInv /\ ReceiptInv
  BY Zenon DEF Inv
<1>1. /\ g \in Running /\ n \in Nodes /\ n \in Nat /\ chain.next \in Nat /\ n < chain.next
      /\ chain \in ChainStates
  BY <1>0, NodeDelivery, ChainAssumption DEF Types, ChainStates, Nodes, successOwned
<1>2. emit(g, d, own, {})
  BY Zenon DEF recoverCommittedChainSuccess
<1>3. own \in SUBSET Successes
  BY <1>0, NodeFacts, Zenon
<1>4. /\ d \in [Generations -> Delivery]
      /\ \A h \in Generations \ {g} : d[h] = dels[h]
      /\ SameDelivery(d[g], dels[g]) /\ d[g].facts = dels[g].facts
      /\ next => d[g].pc = "successor" /\ d[g].next = chain.next /\ chain.next \in Nodes
      /\ ~next => d[g].pc = "settle" /\ d[g].next = 0
  <2>1. CASE next
    <3>1. chain.next \in Nodes
      BY <1>1, <2>1, ChainAssumption DEF Active, IsActive, IsCompleted, ChainStates, Nodes
    <3>2. /\ Like(Successor(dels[g], chain), dels[g])
          /\ Successor(dels[g], chain).pc = "successor" /\ Successor(dels[g], chain).next = chain.next
      BY <1>0, <3>1, SuccessorRecord, Zenon DEF Types
    <3>3. d = [dels EXCEPT ![g] = Successor(dels[g], chain)]
      BY <2>1, Zenon
    <3> DEFINE r == Successor(dels[g], chain)
    <3> HIDE DEF d, next, r
    <3>4. /\ d \in [Generations -> Delivery] /\ d[g] = r
          /\ \A h \in Generations \ {g} : d[h] = dels[h]
          /\ SameDelivery(d[g], dels[g]) /\ d[g].facts = dels[g].facts
      <4>1. Like(r, dels[g]) /\ d = [dels EXCEPT ![g] = r]
        BY <3>2, <3>3, Zenon DEF r
      <4> QED
        BY <1>0, <4>1, Zenon DEF Types, Like
    <3>5. r.pc = "successor" /\ r.next = chain.next
      BY <3>2, Zenon DEF r
    <3> QED
      BY <2>1, <3>1, <3>4, <3>5, Zenon
  <2>2. CASE ~next
    <3>1. d = Return(g, "nil") /\ "nil" \in Errors
      BY <2>2, Zenon DEF Errors
    <3> HIDE DEF d, next
    <3> QED
      BY <1>0, <2>2, <3>1, ReturnHandles
  <2> QED
    BY <2>1, <2>2, Zenon
<1> HIDE DEF d, own
<1>5. Emitted(g, d, own, {})
  BY <1>2, <1>3, <1>4, EmitHandles, Zenon
<1>6. /\ Handles(g) /\ Publishes(g, own, {})
      /\ dels'[g].pc = d[g].pc /\ dels'[g].next = d[g].next
  BY <1>4, <1>5, Zenon DEF Emitted, Handles, SameDelivery, Publishes
<1>7. DeliveriesMove /\ NoNewInvoke
  <2>1. ~next => Discharged(n)'
    BY <1>1 DEF Discharged, Active
  <2> QED
    BY <1>1, <1>4, <1>6, <2>1, HandlerMoves
<1>8. FactsMove
  <2>1. ASSUME own # {}
        PROVE  \E f \in Successes : own = {f} /\ Truthful(f)' /\ Provenance
    <3>1. own = {Fact(g, "succeeded")} /\ transitionReceiptOwnsRecoveredFacts(g, receipts[n])
      BY <2>1, Zenon DEF own
    <3>2. Known(receipts[n]) /\ Provenance
      BY <1>0, <3>1, Zenon DEF transitionReceiptOwnsRecoveredFacts, Recovered, Known, TransportInv
    <3>3. receipts[n].outcome = "succeeded"
      BY <1>0, <1>1, <3>2 DEF ReceiptInv, ReceiptOK, failureOwned
    <3> PICK f : f = Fact(g, "succeeded")
      BY Zenon
    <3>4. /\ f \in Successes /\ f.member = n /\ receipts[n].env = f.env
          /\ receipts[n].attempt = f.attempt
      BY <1>0, <3>1, NodeFacts, Zenon DEF Fact, transitionReceiptOwnsRecoveredFacts
    <3>5. Truthful(f)'
      BY <1>1, <3>2, <3>3, <3>4, Zenon DEF Truthful, successOwned
    <3> QED
      BY <3>1, <3>2, <3>4, <3>5, Zenon
  <2>2. Owned(own, {})
    BY <2>1, Zenon DEF Owned
  <2> QED
    BY <1>0, <1>3, <1>6, <2>2, EmitFacts, Zenon
<1> QED
  BY <1>7, <1>8, Zenon

\* A record that replaces its delivery.
LEMMA PutHandles ==
  ASSUME Types, NEW g \in Generations, NEW r, Like(r, dels[g]), dels' = [dels EXCEPT ![g] = r]
  PROVE  /\ Handles(g) /\ dels'[g] = r
         /\ \A h \in Generations : dels'[h].facts = dels[h].facts
<1>1. dels \in [Generations -> Delivery] /\ r \in Delivery
  BY Zenon DEF Types, Like
<1> QED
  BY <1>1, Zenon DEF Handles, Like

\* Returning to the driver.
LEMMA ReturnMoves ==
  ASSUME Types, NEW g \in Running, NEW err \in Errors, dels' = Return(g, err), chain' \in ChainStates,
         NEW n, n = dels[g].member,
         dels[g].kind = "node" /\ ClassifyAttempt(dels[g].attempt, MaxRetry, err) \in {"succeeded", "failed"}
           => Discharged(n)'
  PROVE  /\ DeliveriesMove /\ NoNewInvoke
         /\ \A h \in Generations : dels'[h].facts = dels[h].facts
<1>0. g \in Generations /\ 0 <= chain'.next
  BY ChainAssumption DEF Running, ChainStates
<1>1. /\ Handles(g) /\ \A h \in Generations : dels'[h].facts = dels[h].facts
      /\ dels'[g].pc = "settle" /\ dels'[g].err = err /\ dels'[g].next = 0
  BY <1>0, ReturnHandles DEF Handles
<1> QED
  BY <1>0, <1>1, HandlerMoves, Zenon

\* The state of a chain in which node n needs no further delivery.
LEMMA EndDischarges ==
  ASSUME NEW n, ~IsActive(chain')
  PROVE  Discharged(n)'
BY Zenon DEF Discharged, Active

\* Recover: a recovered delivery looks for the stored transition.
LEMMA NodeRecover ==
  ASSUME Inv, NEW g \in Generations, NEW db, Recover(g, db)
  PROVE  StepOK
<1> PICK n : n = dels[g].member
  BY Zenon
<1>0. Types /\ TransportInv /\ OrderInv
  BY Zenon DEF Inv
<1>1. /\ dels[g].kind = "node" /\ msgs' = msgs /\ markers' = markers /\ closures' = closures /\ invoked' = invoked
      /\ chain' = chain /\ receipts' = receipts /\ builder' = builder /\ swallowed' = swallowed
  BY Zenon DEF Recover, At, chainVars
<1>2. /\ g \in Running /\ chain.created /\ n \in Nodes /\ n <= chain.next
      /\ chain \in ChainStates /\ chain.next \in Nat /\ n \in Nat
  BY <1>0, <1>1, NodeDelivery, ChainAssumption DEF Types, ChainStates, Nodes
<1>3. DeliveriesMove /\ NoNewInvoke /\ FactsMove
  <2>1. CASE dels' = Return(g, "uncommitted") /\ facts' = facts
    <3>1. "uncommitted" \in Errors /\ ClassifyAttempt(dels[g].attempt, MaxRetry, "uncommitted") = "redeliver"
      BY Zenon DEF Errors, ClassifyAttempt
    <3> QED
      BY <1>0, <1>1, <1>2, <2>1, <3>1, ReturnMoves, FactsStill, Zenon
  <2>2. CASE dels' = Return(g, "permanent") /\ facts' = facts /\ failureOwned(n)
    <3>1. "permanent" \in Errors /\ Discharged(n)'
      BY <1>1, <2>2, EndDischarges, Zenon DEF Errors, failureOwned, IsActive
    <3> QED
      BY <1>0, <1>1, <1>2, <2>2, <3>1, ReturnMoves, FactsStill, Zenon
  <2>3. CASE successOwned(n) /\ recoverCommittedChainSuccess(g)
    BY <1>1, <2>3, RecoverMoves, Zenon
  <2>4. CASE dels' = Goto(g, "execute") /\ facts' = facts
    <3>1. "execute" \in Steps
      BY Zenon DEF Steps
    <3>2. /\ Handles(g) /\ \A h \in Generations : dels'[h].facts = dels[h].facts
          /\ dels'[g].pc = "execute" /\ dels'[g].next = dels[g].next
      BY <1>0, <2>4, <3>1, GotoHandles DEF Handles
    <3>3. dels[g].next <= chain'.next
      BY <1>0, <1>1, Zenon DEF OrderInv
    <3> QED
      BY <1>0, <1>2, <2>4, <3>2, <3>3, HandlerMoves, FactsStill, Zenon
  <2> QED
    BY <2>1, <2>2, <2>3, <2>4, Zenon DEF Recover
<1> QED
  BY <1>0, <1>1, <1>2, <1>3, HandlerStep, ChainStill, MessagesStill, Zenon

\* Execute: the job runs and its outcome is classified.
LEMMA NodeExecute ==
  ASSUME Inv, NEW g \in Generations, NEW err \in Errors, Execute(g, err)
  PROVE  StepOK
<1> PICK n : n = dels[g].member
  BY Zenon
<1>0. Types /\ TransportInv /\ OrderInv
  BY Zenon DEF Inv
<1>1. /\ dels[g].kind = "node" /\ msgs' = msgs /\ facts' = facts
      /\ markers' = markers /\ closures' = closures /\ invoked' = invoked
      /\ chain' = chain /\ receipts' = receipts /\ builder' = builder /\ swallowed' = swallowed
  BY Zenon DEF Execute, At, chainVars, runtimeVars
<1>2. /\ g \in Running /\ chain.created /\ chain \in ChainStates
  BY <1>0, <1>1, NodeDelivery, Zenon DEF Types
<1> DEFINE decision == ClassifyAttempt(dels[g].attempt, MaxRetry, err)
           pc == IF decision = "failed" THEN "fail" ELSE "advance"
<1>3. /\ DeliveriesMove /\ NoNewInvoke
      /\ \A h \in Generations : dels'[h].facts = dels[h].facts
  <2>1. CASE decision \in {"retry", "redeliver"} /\ dels' = Return(g, err)
    BY <1>0, <1>1, <1>2, <2>1, ReturnMoves, Zenon
  <2>2. CASE dels' = [dels EXCEPT ![g].pc = pc, ![g].err = err]
    <3> DEFINE r == [[dels[g] EXCEPT !.pc = pc] EXCEPT !.err = err]
    <3>1. dels \in [Generations -> Delivery] /\ pc \in Steps /\ pc \in {"fail", "advance"}
      BY <1>0, Zenon DEF Types, Steps
    <3> HIDE DEF pc
    <3>2. dels' = [dels EXCEPT ![g] = r]
      BY <2>2, <3>1, Zenon
    <3>3. ASSUME NEW d \in Delivery
          PROVE  LET x == [[d EXCEPT !.pc = pc] EXCEPT !.err = err]
                 IN  x \in Delivery /\ SameDelivery(x, d) /\ x.facts = d.facts /\ x.pc = pc /\ x.next = d.next
      BY <3>1, Zenon DEF Delivery, DeliveryType, SameDelivery
    <3>4. /\ r \in Delivery /\ SameDelivery(r, dels[g]) /\ r.facts = dels[g].facts
          /\ r.pc = pc /\ r.next = dels[g].next
      BY <3>1, <3>3, Zenon
    <3> HIDE DEF r
    <3>5. /\ Handles(g) /\ dels'[g] = r
          /\ \A h \in Generations : dels'[h].facts = dels[h].facts
      BY <3>1, <3>2, <3>4, Zenon DEF Handles
    <3>6. dels[g].next <= chain'.next
      BY <1>0, <1>1, Zenon DEF OrderInv
    <3> QED
      BY <1>2, <3>1, <3>4, <3>5, <3>6, HandlerMoves, Zenon
  <2> QED
    BY <2>1, <2>2, Zenon DEF Execute
<1> QED
  BY <1>0, <1>1, <1>2, <1>3, HandlerStep, ChainStill, MessagesStill, FactsStill, Zenon

\* The receipt of a transition by the current node.
LEMMA ReceiptRecords ==
  ASSUME Types, TransportInv, OrderInv, NEW g \in Generations, dels[g].kind = "node",
         NEW n \in Nodes, n = chain.next, NEW outcome \in {"succeeded", "failed"},
         receipts' = [receipts EXCEPT ![n] = Receipt(g, outcome)]
  PROVE  Records(outcome) /\ receipts'[n] = Receipt(g, outcome)
<1>1. dels[g].env \in Envelopes /\ dels[g].attempt \in Nat
  BY NodeDelivery, Zenon DEF Types, Delivery, DeliveryType
<1>2. /\ Receipt(g, outcome) \in ReceiptType
      /\ Known(Receipt(g, outcome)) => Receipt(g, outcome).outcome = outcome
  BY <1>1, Zenon DEF Receipt, ReceiptType, NoReceipt, Known, NoGeneration
<1> DEFINE r == Receipt(g, outcome)
<1> HIDE DEF r
<1>3. receipts \in [Nodes -> ReceiptType] /\ receipts' = [receipts EXCEPT ![n] = r] /\ r \in ReceiptType
  BY <1>2, Zenon DEF Types, r
<1>4. receipts'[n] = r /\ receipts' \in [Nodes -> ReceiptType] /\ \A m \in Nodes \ {n} : receipts'[m] = receipts[m]
  BY <1>3
<1> QED
  BY <1>2, <1>4, Zenon DEF r, Records

\* A handler that returns "redelivery, please" gives nothing up.
LEMMA UncommittedMoves ==
  ASSUME Types, NEW g \in Running, dels' = Return(g, "uncommitted"), chain' \in ChainStates, facts' = facts
  PROVE  DeliveriesMove /\ NoNewInvoke /\ FactsMove
<1>1. "uncommitted" \in Errors /\ ClassifyAttempt(dels[g].attempt, MaxRetry, "uncommitted") = "redeliver"
  BY Zenon DEF Errors, ClassifyAttempt
<1> QED
  BY <1>1, ReturnMoves, FactsStill, Zenon

\* The three ways failChainNodeOutcome ends.
LEMMA NodeFails ==
  ASSUME Inv, NEW g \in Generations, NEW db, dels[g].kind = "node", NEW n, n = dels[g].member, n \in Nodes,
         Failable(n), chain' = failChainOutcome(n),
         receipts' = [receipts EXCEPT ![n] = Receipt(g, "failed")],
         \/ LET d == Callback(markDeliveryTransitionCommitted(g), <<"catch", "finally">>)
            IN  emit(g, [dels EXCEPT ![g] = d], {}, {Fact(g, "failed")})
         \/ dels' = Return(g, "uncommitted") /\ facts' = facts
  PROVE  ChainMove /\ chain'.failed /\ DeliveriesMove /\ NoNewInvoke /\ FactsMove
<1>0. Types /\ TransportInv /\ OrderInv
  BY Zenon DEF Inv
<1>1. Active /\ n = chain.next /\ chain \in ChainStates
  BY <1>0, Zenon DEF Failable, Types
<1>2. ChainMove
  <2>1. Records("failed")
    BY <1>0, <1>1, ReceiptRecords, Zenon
  <2> QED
    BY <1>1, <2>1, Zenon DEF ChainMove
<1>3. chain'.failed /\ chain'.next = n /\ chain' \in ChainStates
  BY <1>1, Zenon DEF failChainOutcome, ChainStates
<1>4. g \in Running /\ dels[g] \in Delivery
  BY <1>0, NodeDelivery, Zenon DEF Types
<1>5. CASE dels' = Return(g, "uncommitted") /\ facts' = facts
  BY <1>0, <1>2, <1>3, <1>4, <1>5, UncommittedMoves, Zenon
<1> DEFINE ks == <<"catch", "finally">>
           r == Callback(markDeliveryTransitionCommitted(g), ks)
           d == [dels EXCEPT ![g] = r]
           fs == {Fact(g, "failed")}
<1>6. CASE emit(g, d, {}, fs)
  <2>1. ks \in Seq(CallbackKinds) /\ ks # <<>>
    BY DEF CallbackKinds
  <2>2. /\ Like(markDeliveryTransitionCommitted(g), dels[g])
        /\ markDeliveryTransitionCommitted(g).next = dels[g].next
        /\ markDeliveryTransitionCommitted(g) \in Delivery
    BY <1>0, MarkedRecord, Zenon DEF Like
  <2> HIDE DEF ks
  <2>3. Like(r, dels[g]) /\ r.next = dels[g].next /\ r.work = ks /\ r.pc = "callbacks"
    BY <2>1, <2>2, CallbackRecord, LikeTrans
  <2> HIDE DEF r
  <2>4. /\ d \in [Generations -> Delivery] /\ d[g] = r
        /\ \A h \in Generations \ {g} : d[h] = dels[h]
    BY <1>0, <2>3, Zenon DEF Types, Like
  <2> HIDE DEF d
  <2>5. Emitted(g, d, {}, fs)
    BY <1>6, <2>4, EmitHandles, Zenon
  <2>6. /\ Handles(g) /\ Publishes(g, {}, fs)
        /\ dels'[g].pc = "callbacks" /\ dels'[g].next = dels[g].next /\ dels'[g].work = ks
    BY <2>3, <2>4, <2>5, Zenon DEF Emitted, Handles, SameDelivery, Publishes, Like
  <2>7. dels[g].next <= chain'.next /\ Discharged(n)'
    BY <1>0, <1>1, <1>3, EndDischarges, Zenon DEF OrderInv, IsActive
  <2>8. DeliveriesMove /\ NoNewInvoke
    BY <1>4, <2>1, <2>6, <2>7, HandlerMoves, Zenon
  <2>9. Owned({}, fs)
    <3>1. fs \subseteq {f \in FactType(FactKinds, Nodes) : f.kind = "failed"} /\ \A f \in fs : f.member = n
      <4>1. Fact(g, "failed") \in FactType(FactKinds, Nodes)
        BY <1>0, NodeFacts, Zenon
      <4>2. Fact(g, "failed").kind = "failed" /\ Fact(g, "failed").member = n
        BY Zenon DEF Fact
      <4> QED
        BY <4>1, <4>2, Zenon
    <3>2. failureOwned(n)'
      BY <1>3, ChainAssumption DEF failureOwned, Completed, IsCompleted, Nodes
    <3> HIDE DEF fs
    <3> QED
      BY <3>1, <3>2, Zenon DEF Owned
  <2>10. FactsMove
    BY <1>0, <2>6, <2>9, EmitFacts, Zenon
  <2> QED
    BY <1>2, <1>3, <2>8, <2>10, Zenon
<1> QED
  BY <1>5, <1>6, Zenon

\* FailNode: failChainNodeOutcome and what follows it.
LEMMA NodeFail ==
  ASSUME Inv, NEW g \in Generations, NEW db, FailNode(g, db)
  PROVE  StepOK
<1> PICK n : n = dels[g].member
  BY Zenon
<1>0. Types /\ TransportInv /\ OrderInv
  BY Zenon DEF Inv
<1>1. /\ dels[g].kind = "node" /\ msgs' = msgs /\ markers' = markers /\ closures' = closures
      /\ invoked' = invoked /\ builder' = builder
  BY Zenon DEF FailNode, At
<1>2. /\ g \in Running /\ chain.created /\ n \in Nodes /\ n <= chain.next
      /\ chain \in ChainStates /\ chain.next \in Nat /\ n \in Nat /\ dels[g].err \in Errors
  BY <1>0, <1>1, NodeDelivery, ChainAssumption DEF Types, ChainStates, Nodes, Delivery, DeliveryType
<1>3. /\ ChainMove /\ (chain.failed => chain'.failed) /\ swallowed \subseteq swallowed'
      /\ DeliveriesMove /\ NoNewInvoke /\ FactsMove
  <2>1. CASE /\ Failable(n) /\ chain' = failChainOutcome(n)
             /\ receipts' = [receipts EXCEPT ![n] = Receipt(g, "failed")]
             /\ \/ LET d == Callback(markDeliveryTransitionCommitted(g), <<"catch", "finally">>)
                   IN  emit(g, [dels EXCEPT ![g] = d], {}, {Fact(g, "failed")})
                \/ dels' = Return(g, "uncommitted") /\ facts' = facts
             /\ swallowed' = swallowed
    BY <1>1, <1>2, <2>1, NodeFails, Zenon
  <2>2. CASE /\ dels' = Return(g, "uncommitted")
             /\ UNCHANGED <<facts, chain, receipts, swallowed>>
    BY <1>0, <1>2, <2>2, UncommittedMoves, ChainStill, Zenon
  <2>3. CASE /\ ~Failable(n) /\ ~Premature(n)
             /\ IF Recovered(g) /\ successOwned(n)
                THEN recoverCommittedChainSuccess(g)
                ELSE /\ dels' = IF Recovered(g) /\ failureOwned(n)
                                THEN Return(g, IF Known(receipts[n]) THEN "permanent" ELSE dels[g].err)
                                ELSE Return(g, "nil")
                     /\ UNCHANGED facts
             /\ swallowed' = IF successOwned(n) /\ ~Recovered(g)
                             THEN swallowed \cup {n} ELSE swallowed
             /\ UNCHANGED <<chain, receipts>>
    <3>1. swallowed \subseteq swallowed' /\ chain' = chain /\ receipts' = receipts
      BY <2>3, Zenon
    <3>2. CASE successOwned(n) /\ recoverCommittedChainSuccess(g)
      BY <1>1, <3>1, <3>2, RecoverMoves, ChainStill, Zenon
    <3>3. ASSUME NEW err \in Errors, dels' = Return(g, err), facts' = facts,
                 failureOwned(n) \/ ~(Recovered(g) /\ successOwned(n))
          PROVE  DeliveriesMove /\ NoNewInvoke /\ FactsMove
      <4>1. CASE ~Active
        <5>1. Discharged(n)'
          BY <3>1, <4>1, EndDischarges, ZenonT(60) DEF Active
        <5> QED
          BY <1>0, <1>2, <3>1, <3>3, <5>1, ReturnMoves, FactsStill, Zenon
      <4>2. CASE Active
        <5>1. successOwned(n) /\ ~Recovered(g)
          BY <1>2, <2>3, <3>3, <4>2 DEF Failable, successOwned, failureOwned, Active, IsActive
        <5>2. n \in swallowed'
          BY <2>3, <5>1, Zenon
        <5>3. Discharged(n)'
          BY <1>2, <3>1, <5>1, <5>2 DEF Discharged, successOwned
        <5> QED
          BY <1>0, <1>2, <3>1, <3>3, <5>3, ReturnMoves, FactsStill, Zenon
      <4> QED
        BY <4>1, <4>2, Zenon
    <3>4. CASE ~(Recovered(g) /\ successOwned(n)) /\ facts' = facts
      <4>1. \E err \in Errors : dels' = Return(g, err)
        BY <1>2, <2>3, <3>4, Zenon DEF Errors
      <4> QED
        BY <3>1, <3>3, <3>4, <4>1, ChainStill, Zenon
    <3> QED
      BY <2>3, <3>1, <3>2, <3>4, ChainStill, Zenon
  <2> QED
    BY <2>1, <2>2, <2>3, Zenon DEF FailNode
<1> QED
  BY <1>0, <1>1, <1>2, <1>3, HandlerStep, MessagesStill, Zenon

\* A delivery that owns the success of its node: r is what becomes of it.
LEMMA SuccessMoves ==
  ASSUME Inv, NEW g \in Generations, dels[g].kind = "node", NEW n \in Nodes, n = dels[g].member,
         NEW r, Like(r, dels[g]), emit(g, [dels EXCEPT ![g] = r], {Fact(g, "succeeded")}, {}),
         chain' \in ChainStates, n < chain'.next, r.next <= chain'.next,
         receipts'[n] = Receipt(g, "succeeded"), Provenance \/ ~successOwned(n),
         \/ r.pc = "successor" /\ r.next \in Nodes /\ n < r.next
         \/ r.pc = "callbacks" /\ r.work # <<>> /\ Discharged(n)'
  PROVE  DeliveriesMove /\ NoNewInvoke /\ FactsMove
<1> DEFINE d == [dels EXCEPT ![g] = r]
           fs == {Fact(g, "succeeded")}
<1>0. Types /\ TransportInv /\ OrderInv
  BY Zenon DEF Inv
<1>1. g \in Running /\ fs \in SUBSET Successes
  BY <1>0, NodeDelivery, NodeFacts, Zenon
<1>2. /\ d \in [Generations -> Delivery] /\ d[g] = r
      /\ \A h \in Generations \ {g} : d[h] = dels[h]
  BY <1>0, Zenon DEF Types, Like
<1>3. emit(g, d, fs, {})
  BY Zenon
<1> HIDE DEF d, fs
<1>4. Emitted(g, d, fs, {})
  BY <1>1, <1>2, <1>3, EmitHandles, Zenon
<1>5. /\ Handles(g) /\ Publishes(g, fs, {})
      /\ dels'[g].pc = r.pc /\ dels'[g].next = r.next /\ dels'[g].work = r.work
  BY <1>2, <1>4, Zenon DEF Emitted, Handles, SameDelivery, Publishes, Like
<1>6. DeliveriesMove /\ NoNewInvoke
  BY <1>1, <1>5, HandlerMoves, Zenon
<1>7. Owned(fs, {})
  <2> PICK f : f = Fact(g, "succeeded")
    BY Zenon
  <2>1. f \in Successes /\ fs = {f}
    BY <1>1, Zenon DEF fs
  <2>2. f.member = n /\ f.env = dels[g].env /\ f.attempt = dels[g].attempt
    BY Zenon DEF Fact
  <2>3. Truthful(f)'
    <3>1. Provenance => /\ receipts'[n].gen = g /\ receipts'[n].outcome = "succeeded"
                        /\ receipts'[n].env = f.env /\ receipts'[n].attempt = f.attempt
      BY <2>2 DEF Receipt
    <3>2. g # NoGeneration
      BY TransportAssumption DEF Generations, NoGeneration
    <3> QED
      BY <2>2, <3>1, <3>2, Zenon DEF Truthful, Known, successOwned
  <2> QED
    BY <2>1, <2>2, <2>3, Zenon DEF Owned
<1>8. FactsMove
  BY <1>0, <1>1, <1>5, <1>7, EmitFacts, Zenon
<1> QED
  BY <1>6, <1>8, Zenon

\* Continue: what a claimed advance goes on with.
LEMMA ContinueMoves ==
  ASSUME Inv, NEW g \in Generations, dels[g].kind = "node", NEW n \in Nodes, n = dels[g].member,
         NEW c, c = chain', Continue(g, c), c \in ChainStates, n < c.next, chain.next <= c.next,
         receipts'[n] = Receipt(g, "succeeded"), Provenance \/ ~successOwned(n)
  PROVE  DeliveriesMove /\ NoNewInvoke /\ FactsMove /\ closures' \subseteq closures
<1> DEFINE m == markDeliveryTransitionCommitted(g)
<1>0. Types /\ TransportInv /\ OrderInv
  BY Zenon DEF Inv
<1>1. g \in Running /\ dels[g] \in Delivery
  BY <1>0, NodeDelivery, Zenon DEF Types
<1>2. Like(m, dels[g]) /\ m.next = dels[g].next /\ m \in Delivery
  BY <1>0, MarkedRecord, Zenon DEF Like
<1>3. dels[g].next <= c.next
  <2>1. dels[g].next \in Nat /\ chain.next \in Nat /\ c.next \in Nat
    BY <1>0, <1>1, ChainAssumption DEF Types, ChainStates, Delivery, DeliveryType, Nodes
  <2> QED
    BY <1>0, <2>1 DEF OrderInv
<1>4. ~IsActive(c) => Discharged(n)'
  BY EndDischarges, Zenon
<1> HIDE DEF m
<1>5. CASE /\ IsActive(c) /\ closures' = closures
           /\ emit(g, [dels EXCEPT ![g] = Successor(m, c)], {Fact(g, "succeeded")}, {})
  <2>1. c.next \in Nodes
    BY <1>5, ChainAssumption DEF IsActive, IsCompleted, ChainStates, Nodes
  <2>2. /\ Like(Successor(m, c), dels[g])
        /\ Successor(m, c).pc = "successor" /\ Successor(m, c).next = c.next
    BY <1>2, <2>1, SuccessorRecord, LikeTrans, Zenon
  <2>3. c.next <= c.next
    BY ChainAssumption DEF ChainStates
  <2> QED
    BY <1>5, <2>1, <2>2, <2>3, SuccessMoves, Zenon
<1>6. CASE /\ ~IsActive(c) /\ closures' \subseteq closures
           /\ emit(g, [dels EXCEPT ![g] = Callback(m, <<"finally">>)], {Fact(g, "succeeded")}, {})
  <2> DEFINE ks == <<"finally">>
             r == Callback(m, ks)
  <2>1. ks \in Seq(CallbackKinds) /\ ks # <<>>
    BY DEF CallbackKinds
  <2>2. emit(g, [dels EXCEPT ![g] = r], {Fact(g, "succeeded")}, {})
    BY <1>6, Zenon
  <2> HIDE DEF ks
  <2>3. Like(r, dels[g]) /\ r.next = dels[g].next /\ r.pc = "callbacks" /\ r.work # <<>>
    BY <1>2, <2>1, CallbackRecord, LikeTrans
  <2> HIDE DEF r
  <2> QED
    BY <1>3, <1>4, <1>6, <2>2, <2>3, SuccessMoves, Zenon
<1>7. CASE /\ ~IsActive(c) /\ facts' = facts /\ closures' = closures
           /\ dels' = [dels EXCEPT ![g] = Callback(m, <<>>)]
  <2> DEFINE ks == <<>>
             r == Callback(m, ks)
  <2>1. ks \in Seq(CallbackKinds) /\ ks = <<>>
    OBVIOUS
  <2>2. dels' = [dels EXCEPT ![g] = r]
    BY <1>7, Zenon
  <2> HIDE DEF ks
  <2>3. Like(r, dels[g]) /\ r.next = dels[g].next /\ r.pc = "settle"
    <3>1. Like(r, m) /\ r.next = m.next /\ r.pc = IF ks = <<>> THEN "settle" ELSE "callbacks"
      BY <1>2, <2>1, CallbackRecord, Zenon
    <3> HIDE DEF r
    <3>2. r.pc = "settle"
      BY <2>1, <3>1, Zenon
    <3> QED
      BY <1>2, <3>1, <3>2, LikeTrans, Zenon
  <2> HIDE DEF r
  <2>4. Handles(g) /\ dels'[g] = r /\ \A h \in Generations : dels'[h].facts = dels[h].facts
    BY <1>0, <2>2, <2>3, PutHandles, Zenon
  <2>5. DeliveriesMove /\ NoNewInvoke
    BY <1>1, <1>3, <1>4, <1>7, <2>3, <2>4, HandlerMoves, Zenon
  <2> QED
    BY <1>0, <1>7, <2>4, <2>5, FactsStill, Zenon
<1> QED
  <2>1. prepareChainSuccessCallbacks(g) => closures' \subseteq closures
    BY Zenon DEF prepareChainSuccessCallbacks
  <2>2. IsCompleted(c) => ~IsActive(c)
    BY Zenon DEF IsActive
  <2> QED
    BY <1>5, <1>6, <1>7, <2>1, <2>2, Zenon DEF Continue, m

\* The chain advances: a delivery of its current node commits the success.
LEMMA NodeAdvances ==
  ASSUME Inv, NEW g \in Generations, dels[g].kind = "node", NEW n \in Nodes, n = dels[g].member,
         Advanceable(n), chain' = advanceChainOutcome(n),
         receipts' = [receipts EXCEPT ![n] = Receipt(g, "succeeded")],
         \/ Continue(g, chain')
         \/ dels' = Return(g, "uncommitted") /\ UNCHANGED <<facts, closures>>
         \/ Provenance /\ dels' = Goto(g, "confirm") /\ UNCHANGED <<facts, closures>>
  PROVE  ChainMove /\ DeliveriesMove /\ NoNewInvoke /\ FactsMove /\ closures' \subseteq closures
<1>0. Types /\ TransportInv /\ OrderInv
  BY Zenon DEF Inv
<1>1. Active /\ n = chain.next /\ chain \in ChainStates /\ n \in Nat /\ N \in Nat
  BY <1>0, ChainAssumption DEF Advanceable, Types, Nodes
<1>2. /\ g \in Running /\ dels[g].env \in Envelopes
      /\ msgs[dels[g].env].kind = "node" /\ msgs[dels[g].env].member = n
  BY <1>0, NodeDelivery, Zenon DEF TransportInv, CarriesOK
<1>3. Records("succeeded") /\ receipts'[n] = Receipt(g, "succeeded")
  BY <1>0, <1>1, ReceiptRecords, Zenon
<1>4. ChainMove
  <2>1. \E e \in Envelopes : msgs[e].kind = "node" /\ msgs[e].member = chain.next
    BY <1>1, <1>2, Zenon
  <2> QED
    BY <1>1, <1>3, <2>1, Zenon DEF ChainMove
<1>5. chain'.next = n + 1 /\ chain' \in ChainStates
  BY <1>1 DEF advanceChainOutcome, ChainStates, Nodes
<1>6. CASE Continue(g, chain')
  <2> PICK c : c = chain'
    BY Zenon
  <2>1. n < c.next /\ chain.next <= c.next /\ ~successOwned(n) /\ c \in ChainStates
    BY <1>1, <1>5 DEF successOwned
  <2>2. Continue(g, c)
    BY <1>6, Zenon
  <2> QED
    BY <1>3, <1>4, <2>1, <2>2, ContinueMoves, Zenon
<1>7. CASE dels' = Return(g, "uncommitted") /\ UNCHANGED <<facts, closures>>
  BY <1>0, <1>2, <1>4, <1>5, <1>7, UncommittedMoves, Zenon
<1>8. CASE Provenance /\ dels' = Goto(g, "confirm") /\ UNCHANGED <<facts, closures>>
  <2>1. "confirm" \in Steps
    BY Zenon DEF Steps
  <2>2. /\ Handles(g) /\ \A h \in Generations : dels'[h].facts = dels[h].facts
        /\ dels'[g].pc = "confirm" /\ dels'[g].next = dels[g].next
    BY <1>0, <1>8, <2>1, GotoHandles DEF Handles
  <2>3. dels[g].next <= chain'.next
    <3>1. dels[g].next \in Nat
      BY <1>0, ChainAssumption DEF Types, Delivery, DeliveryType, Nodes
    <3> QED
      BY <1>0, <1>1, <1>5, <3>1 DEF OrderInv
  <2>4. /\ dels'[g].env = dels[g].env /\ dels'[g].kind = "node" /\ dels'[g].member = n
        /\ dels'[g].attempt = dels[g].attempt
    BY <2>2, Zenon DEF Handles, SameDelivery
  <2>5. ConfirmOK(g)'
    BY <1>3, <1>8, <2>4, Zenon DEF ConfirmOK, Receipt
  <2>6. ReturnsOK(g)'
    BY <2>2, Zenon DEF ReturnsOK
  <2>7. GoesOn(g)
    BY <1>2, <2>2, <2>3, <2>5, <2>6, Zenon DEF GoesOn, Handles
  <2>8. DeliveriesMove /\ NoNewInvoke
    BY <2>2, <2>7, Zenon DEF DeliveriesMove, NoNewInvoke, Handles
  <2> QED
    BY <1>0, <1>4, <1>8, <2>2, <2>8, FactsStill, Zenon
<1> QED
  BY <1>6, <1>7, <1>8, Zenon

\* A late delivery of a node whose transition is made.
LEMMA NodeLate ==
  ASSUME Inv, NEW g \in Generations, dels[g].kind = "node", NEW n \in Nodes, n = dels[g].member,
         ~Advanceable(n), ~Premature(n), chain' = chain,
         dels' = IF successOwned(n) /\ Active
                 THEN [dels EXCEPT ![g] = Successor(@, chain)]
                 ELSE IF Completed /\ n = N
                 THEN [dels EXCEPT ![g] = Callback(@, <<"finally">>)]
                 ELSE Return(g, "nil")
  PROVE  /\ DeliveriesMove /\ NoNewInvoke
         /\ \A h \in Generations : dels'[h].facts = dels[h].facts
<1>0. Types /\ TransportInv /\ OrderInv
  BY Zenon DEF Inv
<1>1. /\ g \in Running /\ chain \in ChainStates /\ chain.next \in Nat /\ n \in Nat /\ N \in Nat
      /\ dels[g] \in Delivery /\ dels[g].next <= chain.next
  BY <1>0, NodeDelivery, ChainAssumption DEF Types, ChainStates, Nodes, OrderInv
<1>2. CASE successOwned(n) /\ Active
  <2> DEFINE r == Successor(dels[g], chain)
  <2>1. chain.next \in Nodes /\ n < chain.next /\ chain.next <= chain.next
    BY <1>1, <1>2 DEF Active, IsActive, IsCompleted, ChainStates, Nodes, successOwned
  <2>2. Like(r, dels[g]) /\ r.pc = "successor" /\ r.next = chain.next
    BY <1>1, <2>1, SuccessorRecord, Zenon
  <2>3. dels' = [dels EXCEPT ![g] = r]
    BY <1>2, Zenon
  <2> HIDE DEF r
  <2>4. Handles(g) /\ dels'[g] = r /\ \A h \in Generations : dels'[h].facts = dels[h].facts
    BY <1>0, <2>2, <2>3, PutHandles, Zenon
  <2> QED
    BY <1>1, <2>1, <2>2, <2>4, HandlerMoves, Zenon
<1>3. ~(successOwned(n) /\ Active) => ~Active
  BY <1>1 DEF Advanceable, Premature, successOwned
<1>4. ~Active => Discharged(n)'
  BY EndDischarges, Zenon DEF Active
<1>5. CASE ~(successOwned(n) /\ Active) /\ Completed /\ n = N
  <2> DEFINE ks == <<"finally">>
             r == Callback(dels[g], ks)
  <2>1. ks \in Seq(CallbackKinds) /\ ks # <<>>
    BY DEF CallbackKinds
  <2>2. dels' = [dels EXCEPT ![g] = r]
    BY <1>5, Zenon
  <2> HIDE DEF ks
  <2>3. Like(r, dels[g]) /\ r.next = dels[g].next /\ r.pc = "callbacks" /\ r.work # <<>>
    BY <1>1, <2>1, CallbackRecord, Zenon
  <2> HIDE DEF r
  <2>4. Handles(g) /\ dels'[g] = r /\ \A h \in Generations : dels'[h].facts = dels[h].facts
    BY <1>0, <2>2, <2>3, PutHandles, Zenon
  <2> QED
    BY <1>1, <1>3, <1>4, <1>5, <2>3, <2>4, HandlerMoves, Zenon
<1>6. CASE ~(successOwned(n) /\ Active) /\ ~(Completed /\ n = N)
  <2>1. dels' = Return(g, "nil") /\ "nil" \in Errors
    BY <1>6, Zenon DEF Errors
  <2> QED
    BY <1>0, <1>1, <1>3, <1>4, <1>6, <2>1, ReturnMoves, Zenon
<1> QED
  BY <1>2, <1>5, <1>6, Zenon

\* AdvanceNode: advanceChainNode and what follows it.
LEMMA NodeAdvance ==
  ASSUME Inv, NEW g \in Generations, NEW db, AdvanceNode(g, db)
  PROVE  StepOK
<1> PICK n : n = dels[g].member
  BY Zenon
<1>0. Types /\ TransportInv /\ OrderInv
  BY Zenon DEF Inv
<1>1. /\ dels[g].kind = "node" /\ msgs' = msgs /\ markers' = markers
      /\ invoked' = invoked /\ builder' = builder /\ swallowed' = swallowed
  BY Zenon DEF AdvanceNode, At
<1>2. g \in Running /\ chain.created /\ n \in Nodes /\ chain \in ChainStates
  BY <1>0, <1>1, NodeDelivery, Zenon DEF Types
<1>3. /\ ChainMove /\ (chain.failed => chain'.failed)
      /\ DeliveriesMove /\ NoNewInvoke /\ FactsMove /\ closures' \subseteq closures
  <2>1. CASE /\ Advanceable(n) /\ chain' = advanceChainOutcome(n)
             /\ receipts' = [receipts EXCEPT ![n] = Receipt(g, "succeeded")]
             /\ \/ Continue(g, chain')
                \/ dels' = Return(g, "uncommitted") /\ UNCHANGED <<facts, closures>>
                \/ Provenance /\ dels' = Goto(g, "confirm") /\ UNCHANGED <<facts, closures>>
    <3>1. ChainMove /\ DeliveriesMove /\ NoNewInvoke /\ FactsMove /\ closures' \subseteq closures
      BY <1>1, <1>2, <2>1, NodeAdvances, Zenon
    <3>2. chain.failed => chain'.failed
      BY <1>2, <2>1, Zenon DEF advanceChainOutcome, ChainStates
    <3> QED
      BY <3>1, <3>2, Zenon
  <2>2. CASE dels' = Return(g, "uncommitted") /\ UNCHANGED <<chain, receipts, facts, closures>>
    BY <1>0, <1>2, <2>2, UncommittedMoves, ChainStill, Zenon
  <2>3. CASE /\ successOwned(n) /\ recoverCommittedChainSuccess(g)
             /\ UNCHANGED <<chain, receipts, closures>>
    BY <1>1, <2>3, RecoverMoves, ChainStill, Zenon
  <2>4. CASE /\ ~Advanceable(n) /\ ~Premature(n) /\ UNCHANGED <<chain, receipts, facts>>
             /\ dels' = IF successOwned(n) /\ Active
                        THEN [dels EXCEPT ![g] = Successor(@, chain)]
                        ELSE IF Completed /\ n = N
                        THEN [dels EXCEPT ![g] = Callback(@, <<"finally">>)]
                        ELSE Return(g, "nil")
             /\ IF Completed /\ n = N THEN prepareChainSuccessCallbacks(g) ELSE UNCHANGED closures
    <3>1. closures' \subseteq closures
      BY <2>4, Zenon DEF prepareChainSuccessCallbacks
    <3>2. /\ DeliveriesMove /\ NoNewInvoke
          /\ \A h \in Generations : dels'[h].facts = dels[h].facts
      <4>1. chain' = chain
        BY <2>4, Zenon
      <4> QED
        BY <1>1, <1>2, <2>4, <4>1, NodeLate, Zenon
    <3> QED
      BY <1>0, <2>4, <3>1, <3>2, FactsStill, ChainStill, Zenon
  <2> QED
    BY <2>1, <2>2, <2>3, <2>4, Zenon DEF AdvanceNode
<1> QED
  BY <1>0, <1>1, <1>2, <1>3, HandlerStep, MessagesStill, Zenon

\* ConfirmAdvance: the advance is found again by its receipt.
LEMMA NodeConfirm ==
  ASSUME Inv, NEW g \in Generations, ConfirmAdvance(g)
  PROVE  StepOK
<1> PICK n : n = dels[g].member
  BY Zenon
<1>0. Types /\ TransportInv /\ OrderInv /\ ReceiptInv
  BY Zenon DEF Inv
<1>1. /\ dels[g].kind = "node" /\ dels[g].pc = "confirm" /\ msgs' = msgs /\ markers' = markers
      /\ invoked' = invoked /\ chain' = chain /\ receipts' = receipts
      /\ builder' = builder /\ swallowed' = swallowed
  BY Zenon DEF ConfirmAdvance, At, chainVars
<1>2. /\ g \in Running /\ chain.created /\ n \in Nodes /\ chain \in ChainStates
      /\ chain.next \in Nat /\ n \in Nat /\ n <= chain.next
  BY <1>0, <1>1, NodeDelivery, ChainAssumption DEF Types, ChainStates, Nodes
<1>3. Provenance /\ receipts[n] = Receipt(g, "succeeded")
  BY <1>0, <1>1, Zenon DEF ReceiptInv, ConfirmOK
<1>4. n < chain.next
  <2>1. Known(receipts[n]) /\ receipts[n].outcome = "succeeded"
    BY <1>3, TransportAssumption DEF Receipt, Known, Generations, NoGeneration
  <2> QED
    BY <1>0, <1>2, <2>1, Zenon DEF ReceiptInv, ReceiptOK, successOwned
<1>5. DeliveriesMove /\ NoNewInvoke /\ FactsMove /\ closures' \subseteq closures
  <2> PICK c : c = chain'
    BY Zenon
  <2>1. /\ c \in ChainStates /\ n < c.next /\ chain.next <= c.next /\ Continue(g, c)
        /\ receipts'[n] = Receipt(g, "succeeded")
    BY <1>1, <1>2, <1>3, <1>4 DEF ConfirmAdvance
  <2> QED
    BY <1>1, <1>2, <1>3, <2>1, ContinueMoves, Zenon
<1> QED
  BY <1>0, <1>1, <1>2, <1>5, HandlerStep, MessagesStill, ChainStill, Zenon

\* dispatchChainSuccessor: the node is given up only once its successor is queued.
LEMMA NodeSuccessor ==
  ASSUME Inv, NEW g \in Generations, NEW db \in Results, dispatchChainSuccessor(g, db)
  PROVE  StepOK
<1> PICK n : n = dels[g].member
  BY Zenon
<1> DEFINE s == dels[g].next
<1>0. Types /\ TransportInv /\ OrderInv
  BY Zenon DEF Inv
<1>1. /\ dels[g].kind = "node" /\ dels[g].pc = "successor" /\ facts' = facts /\ markers' = markers
      /\ closures' = closures /\ invoked' = invoked /\ chain' = chain /\ receipts' = receipts
      /\ builder' = builder /\ swallowed' = swallowed
  BY Zenon DEF dispatchChainSuccessor, At, chainVars, runtimeVars
<1>2. /\ g \in Running /\ chain.created /\ n \in Nodes /\ chain \in ChainStates
      /\ chain.next \in Nat /\ n \in Nat
  BY <1>0, <1>1, NodeDelivery, ChainAssumption DEF Types, ChainStates, Nodes
<1>3. s \in Nodes /\ s \in Nat /\ n < s /\ s <= chain.next
  BY <1>0, <1>1, ChainAssumption DEF OrderInv, Nodes
<1>4. /\ MessagesMove
      /\ db # "failed" => \E e \in Envelopes : msgs'[e] = Message("node", s)
  <2>1. "node" \in Kinds /\ BusDispatch("node", s, db) /\ s <= chain'.next /\ s \in Nodes \cup {0}
    BY <1>1, <1>3, Zenon DEF Kinds, dispatchChainSuccessor
  <2> HIDE DEF s
  <2> QED
    BY <1>0, <1>2, <1>3, <2>1, DispatchMoves, Zenon
<1>5. CASE db = "ok"
  <2>1. dels' = Return(g, "nil") /\ "nil" \in Errors
    BY <1>5, Zenon DEF dispatchChainSuccessor, Errors
  <2>2. Discharged(n)'
    <3>1. CASE chain.next > n + 1
      BY <1>1, <3>1, Zenon DEF Discharged
    <3>2. CASE chain.next = n + 1
      <4>1. s = n + 1
        BY <1>2, <1>3, <3>2
      <4> PICK e \in Envelopes : msgs'[e] = Message("node", n + 1)
        BY <1>4, <1>5, <4>1, ZenonT(60)
      <4>2. /\ msgs'[e].kind = "node" /\ msgs'[e].member = n + 1 /\ msgs'[e].state = "queued"
        BY DEF Message
      <4> QED
        BY <1>1, <3>2, <4>2, Zenon DEF Discharged, CanMove
    <3> QED
      BY <1>2, <1>3, <3>1, <3>2
  <2>3. /\ DeliveriesMove /\ NoNewInvoke
        /\ \A h \in Generations : dels'[h].facts = dels[h].facts
    BY <1>0, <1>1, <1>2, <2>1, <2>2, ReturnMoves, Zenon
  <2> QED
    BY <1>0, <1>1, <1>2, <1>4, <2>3, HandlerStep, FactsStill, ChainStill, Zenon
<1>6. CASE db # "ok"
  <2>1. dels' = Return(g, "uncommitted")
    BY <1>6, Zenon DEF dispatchChainSuccessor
  <2> QED
    BY <1>0, <1>1, <1>2, <1>4, <2>1, HandlerStep, UncommittedMoves, ChainStill, Zenon
<1> QED
  BY <1>5, <1>6, Zenon

-----------------------------------------------------------------------------
(* The callbacks, the driver and the builder.                              *)

\* A delivery is in progress only once the chain exists.
LEMMA RunningCreated ==
  ASSUME TransportInv, NEW g \in Running
  PROVE  chain.created /\ g \in Generations
BY Zenon DEF TransportInv, Nothing, Running

\* A callback's handler that returns.
LEMMA CallbackReturns ==
  ASSUME Inv, NEW g \in Running, dels[g].kind # "node", NEW err \in Errors, dels' = Return(g, err),
         UNCHANGED <<msgs, facts, invoked, chainVars>>, markers \subseteq markers', closures' \subseteq closures
  PROVE  StepOK
<1>0. Types /\ TransportInv /\ chain \in ChainStates
  BY Zenon DEF Inv, Types
<1>1. chain' = chain /\ receipts' = receipts /\ builder' = builder /\ swallowed' = swallowed
  BY Zenon DEF chainVars
<1>2. /\ DeliveriesMove /\ NoNewInvoke
      /\ \A h \in Generations : dels'[h].facts = dels[h].facts
  BY <1>0, <1>1, ReturnMoves, Zenon
<1>3. FactsMove
  BY <1>0, <1>2, FactsStill, Zenon
<1> QED
  BY <1>0, <1>1, <1>2, <1>3, RunningCreated, ChainStill, MessagesStill, HandlerStep, Zenon

\* A callback's handler that goes on.
LEMMA CallbackGoesOn ==
  ASSUME Inv, NEW g \in Running, dels[g].kind # "node", NEW pc \in {"invoke", "finish"}, dels' = Goto(g, pc),
         UNCHANGED <<msgs, facts, closures, chainVars>>, CallbacksMove
  PROVE  StepOK
<1>0. Types /\ TransportInv /\ OrderInv /\ g \in Generations
  BY Zenon DEF Inv, Running
<1>1. chain' = chain /\ receipts' = receipts /\ builder' = builder /\ swallowed' = swallowed
  BY Zenon DEF chainVars
<1>2. /\ Handles(g) /\ \A h \in Generations : dels'[h].facts = dels[h].facts
      /\ dels'[g].pc = pc /\ dels'[g].next = dels[g].next
  <2>1. pc \in Steps
    BY Zenon DEF Steps
  <2> QED
    BY <1>0, <2>1, GotoHandles DEF Handles
<1>3. dels[g].next <= chain'.next
  BY <1>0, <1>1, Zenon DEF OrderInv
<1>4. DeliveriesMove /\ FactsMove
  BY <1>0, <1>2, <1>3, HandlerGoesOn, FactsStill, Zenon
<1> QED
  BY <1>0, <1>1, <1>4, RunningCreated, ChainStill, MessagesStill, WorkerStep, Zenon

\* claimCallback: the key is claimed before the closure runs.
LEMMA CallbackClaim ==
  ASSUME Inv, NEW g \in Generations, NEW db \in Results, NEW kind \in Callbacks,
         claimCallback(g, kind, CallbackReady(kind), db), UNCHANGED chainVars
  PROVE  StepOK
<1>1. /\ dels[g].kind = kind /\ dels[g].pc = "start" /\ msgs' = msgs /\ closures' = closures
      /\ facts' = facts /\ invoked' = invoked
  BY Zenon DEF claimCallback, At
<1>2. g \in Running /\ kind # "node" /\ Types
  BY <1>1, RuntimeAssumption, Zenon DEF Running, Inv
<1>3. markers \subseteq markers'
  BY Zenon DEF claimCallback, Mark
<1>4. ASSUME NEW err \in Errors, dels' = Return(g, err)
      PROVE  StepOK
  BY <1>1, <1>2, <1>3, <1>4, CallbackReturns, Zenon
<1>5. CASE callbackOnce(kind, db) /\ CallbackReady(kind) /\ dels' = Goto(g, "invoke") /\ markers' = Mark(kind, db)
  <2>1. kind \notin markers /\ markers' = markers \cup {kind}
    BY <1>5, Zenon DEF callbackOnce, Mark
  <2>2. "invoke" \in Steps
    BY Zenon DEF Steps
  <2>3. /\ \A h \in Generations \ {g} : dels'[h] = dels[h]
        /\ SameDelivery(dels'[g], dels[g]) /\ dels'[g].pc = "invoke"
    BY <1>2, <1>5, <2>2, GotoHandles
  <2>4. dels'[g].kind = kind
    BY <1>1, <2>3, Zenon DEF SameDelivery
  <2>5. Claims(g)
    BY <1>1, <1>5, <2>1, <2>3, <2>4, Zenon DEF Claims
  <2>6. CallbacksMove
    BY <2>5, Zenon DEF CallbacksMove, Inv, CallbackInv, chainVars
  <2> QED
    BY <1>1, <1>2, <1>5, <2>6, CallbackGoesOn, Zenon
<1>6. \/ \E err \in Errors : dels' = Return(g, err)
      \/ callbackOnce(kind, db) /\ CallbackReady(kind) /\ dels' = Goto(g, "invoke") /\ markers' = Mark(kind, db)
  <2>1. "error" \in Errors /\ "uncommitted" \in Errors /\ "nil" \in Errors
    BY Zenon DEF Errors
  <2> QED
    BY <2>1, Zenon DEF claimCallback
<1> QED
  BY <1>4, <1>5, <1>6, Zenon

\* invokeCallback: the delivery that claimed the key runs the closure.
LEMMA CallbackInvoke ==
  ASSUME Inv, NEW g \in Generations, NEW kind \in Callbacks, invokeCallback(g, kind), UNCHANGED chainVars
  PROVE  StepOK
<1>1. /\ dels[g].kind = kind /\ dels[g].pc = "invoke" /\ msgs' = msgs /\ closures' = closures
      /\ facts' = facts /\ markers' = markers
  BY Zenon DEF invokeCallback, At
<1>2. g \in Running /\ kind # "node" /\ Types
  BY <1>1, RuntimeAssumption, Zenon DEF Running, Inv
<1>3. CASE dels' = Return(g, "error") /\ invoked' = invoked
  <2>1. "error" \in Errors
    BY Zenon DEF Errors
  <2> QED
    BY <1>1, <1>2, <1>3, <2>1, CallbackReturns, Zenon
<1>4. CASE dels' = Goto(g, "finish") /\ invoked' = invoked \cup {<<kind, g>>}
  <2>1. "finish" \in Steps
    BY Zenon DEF Steps
  <2>2. /\ \A h \in Generations \ {g} : dels'[h] = dels[h]
        /\ SameDelivery(dels'[g], dels[g]) /\ dels'[g].pc = "finish"
    BY <1>2, <1>4, <2>1, GotoHandles
  <2>3. Invokes(g)
    BY <1>1, <1>4, <2>2, Zenon DEF Invokes
  <2>4. CallbacksMove
    BY <2>3, Zenon DEF CallbacksMove, Inv, CallbackInv, chainVars
  <2> QED
    BY <1>1, <1>2, <1>4, <2>4, CallbackGoesOn, Zenon
<1> QED
  BY <1>3, <1>4, Zenon DEF invokeCallback

\* finishCallback: the closure is dropped.
LEMMA CallbackFinish ==
  ASSUME Inv, NEW g \in Generations, NEW kind \in Callbacks, NEW err \in {"nil", "error"},
         finishCallback(g, kind, err), UNCHANGED chainVars
  PROVE  StepOK
<1>1. /\ dels[g].kind = kind /\ dels[g].pc = "finish" /\ dels' = Return(g, err)
      /\ msgs' = msgs /\ facts' = facts /\ markers' = markers /\ invoked' = invoked
      /\ closures' \subseteq closures
  BY Zenon DEF finishCallback, At
<1>2. g \in Running /\ kind # "node" /\ err \in Errors
  BY <1>1, RuntimeAssumption, Zenon DEF Running, Errors
<1> QED
  BY <1>1, <1>2, CallbackReturns, Zenon

\* dispatchCallback: one callback envelope after the other.
LEMMA CallbackDispatch ==
  ASSUME Inv, NEW g \in Generations, NEW db \in Results, dispatchCallback(g, db), UNCHANGED chainVars
  PROVE  StepOK
<1> PICK n : n = dels[g].member
  BY Zenon
<1> DEFINE ks == Tail(dels[g].work)
           r == Callback(dels[g], ks)
<1>0. Types /\ TransportInv /\ OrderInv /\ ReceiptInv
  BY Zenon DEF Inv
<1>1. /\ dels[g].pc = "callbacks" /\ markers' = markers /\ closures' = closures
      /\ facts' = facts /\ invoked' = invoked /\ chain' = chain /\ receipts' = receipts
      /\ builder' = builder /\ swallowed' = swallowed /\ dels' = [dels EXCEPT ![g] = r]
  BY Zenon DEF dispatchCallback, chainVars, runtimeVars
<1>2. g \in Running /\ chain.created
  BY <1>0, <1>1, RunningCreated, Zenon DEF Running
<1>3. MessagesMove
  <2> DEFINE kind == Head(dels[g].work)
  <2>1. CASE kind \in closures /\ BusDispatch(kind, 0, db)
    <3>1. kind \in Kinds /\ kind # "node" /\ 0 \in Nodes \cup {0}
      BY <1>0, <2>1, RuntimeAssumption, Zenon DEF Types, Kinds
    <3> HIDE DEF kind
    <3> QED
      BY <1>0, <1>2, <2>1, <3>1, DispatchMoves, Zenon
  <2>2. CASE msgs' = msgs
    BY <1>0, <2>2, MessagesStill, Zenon
  <2> QED
    BY <2>1, <2>2, Zenon DEF dispatchCallback, callbackConfigured
<1>4. ks \in Seq(CallbackKinds) /\ dels[g] \in Delivery
  <2>1. dels[g].work \in Seq(CallbackKinds) /\ dels[g].work # <<>> /\ dels[g] \in Delivery
    BY <1>0, <1>1, Zenon DEF Types, Delivery, DeliveryType
  <2> QED
    BY <2>1
<1> HIDE DEF ks
<1>5. /\ Like(r, dels[g]) /\ r.next = dels[g].next /\ r.work = ks
      /\ r.pc = IF ks = <<>> THEN "settle" ELSE "callbacks"
  BY <1>4, CallbackRecord, Zenon
<1> HIDE DEF r
<1>6. Handles(g) /\ dels'[g] = r /\ \A h \in Generations : dels'[h].facts = dels[h].facts
  BY <1>0, <1>1, <1>5, PutHandles, Zenon
<1>7. dels[g].kind = "node" => Discharged(n)'
  <2> SUFFICES ASSUME dels[g].kind = "node" PROVE Discharged(n)'
    BY Zenon
  <2>1. Discharged(n) /\ n \in Nodes
    BY <1>0, <1>1, NodeDelivery, Zenon DEF Inv, ContinuationInv, ReturnsOK
  <2>2. ChainMove /\ Forward /\ EnvelopesForward
    BY <1>0, <1>1, <1>3, ChainStill, ForwardStep, EnvelopesStep, Zenon
  <2> QED
    BY <1>0, <1>1, <1>2, <1>3, <2>1, <2>2, DischargedStep, Zenon
<1>8. dels[g].next <= chain'.next
  BY <1>0, <1>1, Zenon DEF OrderInv
<1>9. DeliveriesMove /\ NoNewInvoke
  <2>1. dels'[g].pc \in {"settle", "callbacks"} /\ (dels'[g].pc = "callbacks" => dels'[g].work # <<>>)
    BY <1>5, <1>6, Zenon
  <2> QED
    BY <1>2, <1>5, <1>6, <1>7, <1>8, <2>1, HandlerMoves, Zenon
<1> QED
  BY <1>0, <1>1, <1>2, <1>3, <1>6, <1>9, FactsStill, ChainStill, HandlerStep, ZenonT(60)

\* Deliveries that are over, settled or with their process.
LEMMA OverMoves ==
  ASSUME Types, NEW S \in SUBSET Running, dels' = [h \in Generations |-> IF h \in S THEN Over ELSE dels[h]]
  PROVE  /\ DeliveriesMove /\ NoNewInvoke
         /\ \A h \in Generations : dels'[h].facts \subseteq dels[h].facts
<1>1. Over.pc = "over" /\ Over.facts = {}
  BY Zenon DEF Over
<1>2. Over \in Delivery
  <2>1. <<>> \in Seq(CallbackKinds)
    OBVIOUS
  <2> QED
    BY <2>1, Zenon DEF Over, Delivery, DeliveryType, NoGeneration, Errors
<1>3. dels' \in [Generations -> Delivery] /\ \A h \in Generations : dels'[h] = IF h \in S THEN Over ELSE dels[h]
  BY <1>2, Zenon DEF Types
<1> QED
  BY <1>1, <1>3, Zenon DEF DeliveriesMove, NoNewInvoke

\* The same for one delivery.
LEMMA OneOver ==
  ASSUME Types, NEW g \in Running, dels' = [dels EXCEPT ![g] = Over]
  PROVE  /\ DeliveriesMove /\ NoNewInvoke
         /\ \A h \in Generations : dels'[h].facts \subseteq dels[h].facts
<1>1. dels' = [h \in Generations |-> IF h \in {g} THEN Over ELSE dels[h]]
  BY Zenon DEF Types
<1> QED
  BY <1>1, OverMoves, Zenon

\* The envelope a settlement leaves.
LEMMA SettlementMoves ==
  ASSUME Inv, NEW g \in Running, dels[g].pc = "settle", NEW maxRetry,
         dels[g].kind = "node" => maxRetry = MaxRetry,
         msgs' = [msgs EXCEPT ![dels[g].env] = Settlement(g, maxRetry)]
  PROVE  MessagesMove
<1> DEFINE e == dels[g].env
           s == Settlement(g, maxRetry)
           decision == DecisionOf(dels[g], maxRetry)
<1>0. Types /\ TransportInv /\ g \in Generations
  BY Zenon DEF Inv, Running
<1>1. /\ e \in Envelopes /\ msgs[e] \in Sent /\ msgs[e].state # "none"
      /\ msgs[e].kind = dels[g].kind /\ msgs[e].member = dels[g].member
  BY <1>0, Zenon DEF TransportInv, CarriesOK, Types
<1>2. /\ dels[g].attempt \in Nat /\ dels[g].proof \in Generations \cup {NoGeneration}
      /\ ~Provenance => dels[g].proof = NoGeneration
  BY <1>0, Zenon DEF Types, Delivery, DeliveryType, TransportInv
<1>3. PendingProof(g) \in Generations \cup {NoGeneration} /\ (~Provenance => PendingProof(g) = NoGeneration)
  BY <1>0, <1>2, Zenon DEF PendingProof
<1> DEFINE token == PendingProof(g)
<1>4. \/ decision = "succeeded" /\ s = [msgs[e] EXCEPT !.state = "done", !.token = NoGeneration]
      \/ decision = "redeliver" /\ s = [msgs[e] EXCEPT !.state = "queued", !.token = token]
      \/ decision = "retry" /\ s = [msgs[e] EXCEPT !.state = "queued", !.attempt = dels[g].attempt + 1,
                                                    !.token = NoGeneration]
      \/ decision = "failed" /\ s = [msgs[e] EXCEPT !.state = "dead", !.attempt = dels[g].attempt + 1,
                                                    !.token = NoGeneration]
  BY Zenon DEF Settlement, DecisionOf, ClassifyAttempt
<1> HIDE DEF token
<1>5. /\ s \in Sent /\ s.kind = msgs[e].kind /\ s.member = msgs[e].member /\ s.state # "none"
      /\ ~Provenance => s.token = NoGeneration
      /\ s.state \in {"done", "dead"} => decision \in {"succeeded", "failed"}
  <2> HIDE DEF s, e, decision
  <2>1. msgs[e] \in Sent /\ dels[g].attempt + 1 \in Nat /\ token \in Generations \cup {NoGeneration}
        /\ (~Provenance => token = NoGeneration)
    BY <1>1, <1>2, <1>3 DEF token
  <2> QED
    BY <1>4, <2>1, ZenonT(60) DEF Sent, MessageType
<1>6. dels[g].kind = "node" /\ decision \in {"succeeded", "failed"} => Discharged(dels[g].member)
  BY <1>0, Zenon DEF Inv, ContinuationInv, ReturnsOK
<1>7. OldEnvelope(msgs[e], s)
  <2> HIDE DEF s, e, decision
  <2> QED
    BY <1>1, <1>5, <1>6, Zenon DEF OldEnvelope
<1>8. msgs \in [Envelopes -> Sent] /\ msgs' = [msgs EXCEPT ![e] = s]
  BY <1>0, Zenon DEF Types
<1> HIDE DEF s, e
<1> QED
  BY <1>1, <1>5, <1>7, <1>8, Zenon DEF MessagesMove

\* A settlement publishes what its delivery kept.
LEMMA DriverSettles ==
  ASSUME Inv, NEW g \in Generations, NEW db \in Results,
         settleDelivery(g, IF dels[g].kind = "node" THEN MaxRetry ELSE 0, db), UNCHANGED chainVars
  PROVE  StepOK
<1>0. Types
  BY Zenon DEF Inv
<1>1. /\ dels[g].pc = "settle" /\ markers' = markers /\ closures' = closures
      /\ invoked' = invoked /\ chain' = chain /\ receipts' = receipts
      /\ builder' = builder /\ swallowed' = swallowed /\ dels' = [dels EXCEPT ![g] = Over]
      /\ facts' = facts \cup Committed(g, db)
  BY Zenon DEF settleDelivery, SettleDelivery, chainVars
<1>2. g \in Running /\ chain.created
  BY <1>1, RunningCreated, Zenon DEF Running, Inv
<1>3. MessagesMove
  <2>1. PICK r : r = IF dels[g].kind = "node" THEN MaxRetry ELSE 0
    BY Zenon
  <2>2. \/ msgs' = msgs
        \/ msgs' = [msgs EXCEPT ![dels[g].env] = Settlement(g, r)]
    BY <2>1, Zenon DEF settleDelivery, SettleDelivery
  <2>3. CASE msgs' = msgs
    BY <1>0, <2>3, MessagesStill, Zenon
  <2>4. CASE msgs' = [msgs EXCEPT ![dels[g].env] = Settlement(g, r)]
    <3>1. dels[g].kind = "node" => r = MaxRetry
      BY <2>1, Zenon
    <3> QED
      BY <1>1, <1>2, <2>4, <3>1, SettlementMoves, Zenon
  <2> QED
    BY <2>2, <2>3, <2>4, Zenon
<1>4. DeliveriesMove /\ NoNewInvoke /\ \A h \in Generations : dels'[h].facts \subseteq dels[h].facts
  BY <1>0, <1>1, <1>2, OneOver, Zenon
<1>5. FactsMove
  <2>1. Committed(g, db) \subseteq dels[g].facts
    BY Zenon DEF Committed
  <2>2. dels[g].facts \subseteq Successes
    BY <1>0, Zenon DEF Types, Delivery, DeliveryType
  <2>3. Successes \subseteq FactType(FactKinds, Nodes) /\ \A f \in Successes : f.kind = "succeeded"
    BY Zenon DEF Successes, FactType, FactKinds
  <2>4. AllSuccesses' \subseteq AllSuccesses
    BY <1>1, <1>4, <2>1, ZenonT(60) DEF AllSuccesses
  <2>5. facts' \subseteq FactType(FactKinds, Nodes)
    BY <1>0, <1>1, <2>1, <2>2, <2>3, Zenon DEF Types
  <2>6. \A f \in facts' : f.kind = "failed" => f \in facts
    BY <1>1, <2>1, <2>2, <2>3, Zenon
  <2> QED
    BY <2>4, <2>5, <2>6, Zenon DEF FactsMove
<1> QED
  BY <1>0, <1>1, <1>2, <1>3, <1>4, <1>5, ChainStill, HandlerStep, Zenon

\* CrashAway: a worker dies with its delivery.
LEMMA WorkerCrash ==
  ASSUME Inv, NEW g \in Generations, CrashAway(g), UNCHANGED chainVars
  PROVE  StepOK
<1>0. Types
  BY Zenon DEF Inv
<1>1. /\ g \in Running /\ msgs' = msgs /\ markers' = markers /\ closures' = closures /\ facts' = facts
      /\ invoked' = invoked /\ chain' = chain /\ receipts' = receipts
      /\ builder' = builder /\ swallowed' = swallowed /\ dels' = [dels EXCEPT ![g] = Over]
  BY Zenon DEF CrashAway, chainVars, runtimeVars
<1>2. chain.created
  BY <1>1, RunningCreated, Zenon DEF Running, Inv
<1>4. DeliveriesMove /\ NoNewInvoke /\ \A h \in Generations : dels'[h].facts \subseteq dels[h].facts
  BY <1>0, <1>1, OneOver, Zenon
<1> QED
  BY <1>0, <1>1, <1>2, <1>4, ChainStill, MessagesStill, FactsStill, HandlerStep, Zenon

-----------------------------------------------------------------------------
(* The driver.                                                             *)

\* An envelope that is not settled changes its state and its token only.
LEMMA EnvelopeMoves ==
  ASSUME Types, NEW e \in Envelopes, msgs[e].state # "none", NEW s \in {"queued", "held"},
         NEW t \in Generations \cup {NoGeneration}, ~Provenance /\ s # "held" => t = NoGeneration,
         msgs' = [msgs EXCEPT ![e].state = s, ![e].token = t]
  PROVE  MessagesMove
<1> DEFINE m == [msgs[e] EXCEPT !.state = s, !.token = t]
<1>1. msgs \in [Envelopes -> Sent] /\ msgs' = [msgs EXCEPT ![e] = m]
  BY Zenon DEF Types, Sent, MessageType
<1>2. /\ m \in Sent /\ m.state = s /\ m.token = t /\ m.kind = msgs[e].kind /\ m.member = msgs[e].member
  <2>1. msgs[e] \in Sent
    BY Zenon DEF Types
  <2> QED
    BY <2>1, Zenon DEF Sent, MessageType
<1> HIDE DEF m
<1>3. OldEnvelope(msgs[e], m)
  BY <1>2, Zenon DEF OldEnvelope
<1> QED
  BY <1>1, <1>2, <1>3, ZenonT(60) DEF MessagesMove

\* Something is queued or in progress only once the chain exists.
LEMMA EnvelopeCreated ==
  ASSUME Inv, NEW e \in Envelopes, msgs[e].state # "none"
  PROVE  chain.created
BY Zenon DEF Inv, TransportInv, Nothing

\* Deliver: a queued envelope is claimed.
LEMMA DriverDelivers ==
  ASSUME Inv, NEW g \in Generations, NEW e \in Envelopes, NEW home \in Homes,
         Deliver(g, e, home), UNCHANGED runtimeVars, UNCHANGED chainVars
  PROVE  StepOK
<1>0. Types
  BY Zenon DEF Inv
<1>1. /\ dels[g].pc = "free" /\ msgs[e].state = "queued"
      /\ msgs' = [msgs EXCEPT ![e].state = "held", ![e].token = g]
      /\ dels' = [dels EXCEPT ![g] = NewDelivery(e, home)]
      /\ markers' = markers /\ closures' = closures /\ facts' = facts
      /\ invoked' = invoked /\ chain' = chain /\ receipts' = receipts
      /\ builder' = builder /\ swallowed' = swallowed
  BY Zenon DEF Deliver, chainVars, runtimeVars
<1>2. chain.created
  BY <1>1, EnvelopeCreated, Zenon
<1>3. MessagesMove
  BY <1>0, <1>1, EnvelopeMoves, Zenon
<1> DEFINE d == NewDelivery(e, home)
<1>4. d \in Delivery
  <2>1. msgs[e] \in Sent /\ home \in BOOLEAN /\ <<>> \in Seq(CallbackKinds)
    BY <1>0, TransportAssumption DEF Types
  <2>2. /\ msgs[e].kind \in Kinds \cup {"none"} /\ msgs[e].member \in Nodes \cup {0}
        /\ msgs[e].attempt \in Nat /\ msgs[e].token \in Generations \cup {NoGeneration}
    BY <2>1, Zenon DEF Sent, MessageType
  <2>3. "nil" \in Errors
    BY Zenon DEF Errors
  <2> QED
    BY <2>1, <2>2, <2>3, ZenonT(60) DEF NewDelivery, Delivery, DeliveryType
<1>5. d.pc = "start" /\ d.facts = {}
  BY Zenon DEF NewDelivery
<1>6. /\ dels' \in [Generations -> Delivery] /\ dels'[g] = d
      /\ \A h \in Generations \ {g} : dels'[h] = dels[h]
  <2> HIDE DEF d
  <2>1. dels \in [Generations -> Delivery] /\ dels' = [dels EXCEPT ![g] = d]
    BY <1>0, <1>1, Zenon DEF Types, d
  <2> QED
    BY <1>4, <2>1, Zenon
<1>7. Begins(g)
  BY <1>1, <1>6, TransportAssumption, Zenon DEF Begins
<1> HIDE DEF d
<1>8. DeliveriesMove
  BY <1>6, <1>7, Zenon DEF DeliveriesMove
<1>9. NoNewInvoke /\ \A h \in Generations : dels'[h].facts \subseteq dels[h].facts
  BY <1>5, <1>6, Zenon DEF NoNewInvoke
<1> QED
  BY <1>0, <1>1, <1>2, <1>3, <1>8, <1>9, ChainStill, FactsStill, HandlerStep, Zenon

\* A claim that is lost, an envelope that is put back.
LEMMA DriverRequeues ==
  ASSUME Inv, NEW e \in Envelopes, LoseClaim(e) \/ Requeue(e), UNCHANGED runtimeVars, UNCHANGED chainVars
  PROVE  StepOK
<1>0. Types
  BY Zenon DEF Inv
<1>1. /\ msgs[e].state # "none" /\ dels' = dels
      /\ markers' = markers /\ closures' = closures /\ facts' = facts
      /\ invoked' = invoked /\ chain' = chain /\ receipts' = receipts
      /\ builder' = builder /\ swallowed' = swallowed
  BY Zenon DEF LoseClaim, Requeue, chainVars, runtimeVars
<1>2. chain.created
  BY <1>1, EnvelopeCreated, Zenon
<1>3. PICK t \in Generations \cup {NoGeneration} :
        /\ ~Provenance => t = NoGeneration
        /\ msgs' = [msgs EXCEPT ![e].state = "queued", ![e].token = t]
  <2>1. msgs[e].token \in Generations \cup {NoGeneration} /\ msgs \in [Envelopes -> Sent]
    BY <1>0, Zenon DEF Types, Sent, MessageType
  <2>2. CASE LoseClaim(e) /\ Provenance
    <3>1. msgs' = [msgs EXCEPT ![e].state = "queued", ![e].token = msgs[e].token]
      BY <2>1, <2>2, Zenon DEF LoseClaim, Sent, MessageType
    <3> QED
      BY <2>1, <2>2, <3>1, Zenon
  <2>3. CASE Requeue(e) \/ (LoseClaim(e) /\ ~Provenance)
    <3>1. msgs' = [msgs EXCEPT ![e].state = "queued", ![e].token = NoGeneration]
      BY <2>3, Zenon DEF LoseClaim, Requeue
    <3> QED
      BY <3>1, Zenon
  <2> QED
    BY <2>2, <2>3, Zenon
<1>4. MessagesMove
  BY <1>0, <1>1, <1>3, EnvelopeMoves, Zenon
<1>5. DeliveriesMove /\ NoNewInvoke /\ \A h \in Generations : dels'[h].facts \subseteq dels[h].facts
  BY <1>0, <1>1, DeliveriesStill, Zenon
<1> QED
  BY <1>0, <1>1, <1>2, <1>4, <1>5, ChainStill, FactsStill, HandlerStep, Zenon

-----------------------------------------------------------------------------
(* The builder.                                                            *)

\* A step of a builder that has created its chain.
LEMMA BuilderMoves ==
  ASSUME Inv, builder # "new", ChainMove, MessagesMove, DeliveriesMove, FactsMove, CallbacksMove,
         swallowed' = swallowed, closures' \subseteq closures, builder' \in BuilderSteps \ {"new"}
  PROVE  StepOK
BY Zenon DEF StepOK, Inv, Types

\* A builder that has begun has created its chain.
LEMMA BuilderCreated ==
  ASSUME Inv, builder # "new"
  PROVE  chain.created /\ chain.next >= 1 /\ 1 \in Nodes
<1>1. chain.created /\ chain.next \in 1..(N + 1)
  BY Zenon DEF Inv, TransportInv, Nothing, Types, ChainStates
<1> QED
  BY <1>1, ChainAssumption DEF Nodes

\* CreateChain stores the chain and registers the closures.
LEMMA BuilderCreates ==
  ASSUME Inv, CreateChain
  PROVE  StepOK
<1>0. Types
  BY Zenon DEF Inv
<1>1. /\ builder = "new" /\ chain' = createChain /\ closures' = Callbacks /\ builder' = "dispatch"
      /\ msgs' = msgs /\ dels' = dels /\ markers' = markers /\ facts' = facts /\ invoked' = invoked
      /\ receipts' = receipts /\ swallowed' = swallowed
  BY Zenon DEF CreateChain
<1>2. ChainMove /\ chain'.created
  <2>1. chain'.created
    BY <1>0, <1>1, Zenon DEF Types, ChainStates, createChain
  <2> QED
    BY <1>1, <2>1, Zenon DEF ChainMove
<1>3. MessagesMove /\ DeliveriesMove /\ NoNewInvoke
  BY <1>0, <1>1, MessagesStill, DeliveriesStill, Zenon
<1>4. FactsMove
  BY <1>0, <1>1, FactsStill, Zenon
<1>5. CallbacksMove /\ builder' \in BuilderSteps
  BY <1>1, <1>3, Zenon DEF CallbacksMove, BuilderSteps
<1> QED
  BY <1>1, <1>2, <1>3, <1>4, <1>5, Zenon DEF StepOK

\* DispatchFirst: the first node is queued, or rejected.
LEMMA BuilderDispatches ==
  ASSUME Inv, NEW db \in Results, DispatchFirst(db)
  PROVE  StepOK
<1>0. Types
  BY Zenon DEF Inv
<1>1. /\ builder = "dispatch" /\ BusDispatch("node", 1, db) /\ builder' \in {"returned", "reject"}
      /\ dels' = dels /\ markers' = markers /\ closures' = closures /\ facts' = facts
      /\ invoked' = invoked /\ chain' = chain /\ receipts' = receipts /\ swallowed' = swallowed
  BY Zenon DEF DispatchFirst, runtimeVars
<1>2. chain.created /\ 1 <= chain'.next /\ 1 \in Nodes
  <2>1. chain.next \in Nat
    BY <1>0, ChainAssumption DEF Types, ChainStates
  <2> QED
    BY <1>1, <2>1, BuilderCreated, Zenon
<1>3. MessagesMove
  <2>1. "node" \in Kinds /\ 1 \in Nodes \cup {0}
    BY <1>2, Zenon DEF Kinds
  <2> QED
    BY <1>0, <1>1, <1>2, <2>1, DispatchMoves, Zenon
<1>4. DeliveriesMove /\ NoNewInvoke
  BY <1>0, <1>1, DeliveriesStill, Zenon
<1>5. FactsMove /\ ChainMove
  BY <1>0, <1>1, FactsStill, ChainStill, Zenon
<1>6. CallbacksMove /\ builder' \in BuilderSteps \ {"new"}
  BY <1>1, <1>4, Zenon DEF CallbacksMove, BuilderSteps
<1> QED
  BY <1>1, <1>3, <1>4, <1>5, <1>6, BuilderMoves, Zenon

\* The builder fails the chain at its first node, or finds that it has failed
\* there, before it publishes the failure.
LEMMA RejectFails ==
  ASSUME Inv, NEW db \in Results, RejectChain(db)
  PROVE  ChainMove /\ (builder' = "catch" => failureOwned(1)' /\ chain'.failed)
<1>0. Types
  BY Zenon DEF Inv
<1>1. receipts' = receipts
  BY Zenon DEF RejectChain
<1>2. CASE Failable(1) /\ db # "failed"
  <2>1. chain' = failChainOutcome(chain.next) /\ chain.next = 1 /\ Active /\ ~IsCompleted(chain)
    BY <1>2, Zenon DEF RejectChain, Failable, Active, IsActive, failChainOutcome
  <2>2. chain'.failed /\ chain'.next = chain.next
    BY <1>0, <2>1, Zenon DEF Types, ChainStates, failChainOutcome
  <2> QED
    BY <1>1, <2>1, <2>2, Zenon DEF ChainMove, failureOwned, Completed, IsCompleted
<1>3. CASE ~(Failable(1) /\ db # "failed")
  <2>1. chain' = chain
    BY <1>3, Zenon DEF RejectChain
  <2>2. builder' = "catch" => failureOwned(1)
    BY <1>3, Zenon DEF RejectChain
  <2> QED
    BY <1>1, <2>1, <2>2, ChainStill, Zenon DEF failureOwned, Completed
<1> QED
  BY <1>2, <1>3, Zenon

\* RejectChain: the builder publishes a failure the store has recorded.
LEMMA BuilderRejects ==
  ASSUME Inv, NEW db \in Results, RejectChain(db)
  PROVE  StepOK
<1>0. Types
  BY Zenon DEF Inv
<1>1. /\ builder = "reject" /\ builder' \in {"catch", "returned"}
      /\ facts' = facts \cup IF builder' = "catch" THEN {BuilderFact("failed", 1)} ELSE {}
      /\ msgs' = msgs /\ dels' = dels /\ markers' = markers /\ closures' = closures
      /\ invoked' = invoked /\ receipts' = receipts /\ swallowed' = swallowed
  BY Zenon DEF RejectChain
<1>2. ChainMove /\ (builder' = "catch" => failureOwned(1)' /\ chain'.failed)
  BY RejectFails, Zenon
<1>3. MessagesMove /\ DeliveriesMove /\ NoNewInvoke
  BY <1>0, <1>1, MessagesStill, DeliveriesStill, Zenon
<1>4. FactsMove
  <2> DEFINE b == BuilderFact("failed", 1)
  <2>1. b \in FactType(FactKinds, Nodes) /\ b.kind = "failed" /\ b.member = 1
    BY <1>1, BuilderCreated, Zenon DEF BuilderFact, FactType, FactKinds
  <2> HIDE DEF b
  <2>2. facts' = facts \/ (facts' = facts \cup {b} /\ builder' = "catch")
    BY <1>1, Zenon DEF b
  <2>3. AllSuccesses' \subseteq AllSuccesses
    BY <1>1, <2>1, <2>2, Zenon DEF AllSuccesses
  <2>4. facts' \subseteq FactType(FactKinds, Nodes)
    BY <1>0, <2>1, <2>2, Zenon DEF Types
  <2>5. \A f \in facts' : f.kind = "failed" => f \in facts \/ (f = b /\ builder' = "catch")
    BY <2>2, Zenon
  <2>6. builder' = "catch" => failureOwned(b.member)'
    BY <1>2, <2>1, Zenon DEF failureOwned, b, BuilderFact
  <2>7. \A f \in facts' : f.kind = "failed" => f \in facts \/ failureOwned(f.member)'
    BY <2>5, <2>6, Zenon DEF b
  <2> QED
    BY <2>3, <2>4, <2>7, Zenon DEF FactsMove
<1>5. CallbacksMove /\ builder' \in BuilderSteps \ {"new"}
  BY <1>1, <1>2, <1>3, Zenon DEF CallbacksMove, BuilderSteps
<1> QED
  BY <1>1, <1>2, <1>3, <1>4, <1>5, BuilderMoves, ZenonT(60)

\* RejectedChainUnread runs no closure.
LEMMA BuilderGivesUp ==
  ASSUME Inv, RejectedChainUnread
  PROVE  StepOK
<1>0. Types
  BY Zenon DEF Inv
<1>1. /\ builder = "catch" /\ builder' = "returned" /\ msgs' = msgs /\ dels' = dels /\ markers' = markers
      /\ closures' = closures /\ facts' = facts /\ invoked' = invoked
      /\ chain' = chain /\ receipts' = receipts /\ swallowed' = swallowed
  BY Zenon DEF RejectedChainUnread, runtimeVars
<1>2. MessagesMove /\ DeliveriesMove /\ NoNewInvoke
  BY <1>0, <1>1, MessagesStill, DeliveriesStill, Zenon
<1>3. FactsMove /\ ChainMove
  BY <1>0, <1>1, FactsStill, ChainStill, Zenon
<1>4. CallbacksMove /\ builder' \in BuilderSteps \ {"new"}
  BY <1>1, <1>2, Zenon DEF CallbacksMove, BuilderSteps
<1> QED
  BY <1>1, <1>2, <1>3, <1>4, BuilderMoves, Zenon

\* The closure of a rejected chain, in the builder's own process.
LEMMA BuilderCallback ==
  ASSUME Inv, NEW kind \in {"catch", "finally"}, NEW db \in Results, CallbackInline(kind, db)
  PROVE  StepOK
<1>0. Types
  BY Zenon DEF Inv
<1>1. /\ builder = kind /\ builder' \in {"finally", "returned"} /\ msgs' = msgs /\ dels' = dels
      /\ facts' = facts /\ chain' = chain /\ receipts' = receipts /\ swallowed' = swallowed
      /\ closures' \subseteq closures
  BY Zenon DEF CallbackInline, invokeCallbackInline
<1>2. chain.failed /\ chain'.failed /\ CallbackReady(kind)
  BY <1>1, Zenon DEF Inv, CallbackInv, CallbackReady
<1>3. MessagesMove /\ DeliveriesMove /\ NoNewInvoke
  BY <1>0, <1>1, MessagesStill, DeliveriesStill, Zenon
<1>4. FactsMove /\ ChainMove
  BY <1>0, <1>1, FactsStill, ChainStill, Zenon
<1>5. (markers \subseteq markers' /\ invoked' = invoked) \/ InvokesInline(kind)
  BY <1>1, <1>2, Zenon DEF CallbackInline, invokeCallbackInline, callbackOnce, Mark, InvokesInline
<1>6. CallbacksMove /\ builder' \in BuilderSteps \ {"new"}
  BY <1>1, <1>2, <1>3, <1>5, Zenon DEF CallbacksMove, BuilderSteps, CallbackKinds
<1> QED
  BY <1>1, <1>3, <1>4, <1>6, BuilderMoves, Zenon

\* CrashBuilder: the process dies with its closures and deliveries.
LEMMA BuilderCrash ==
  ASSUME Inv, CrashBuilder
  PROVE  StepOK
<1>0. Types
  BY Zenon DEF Inv
<1> DEFINE S == {g \in Running : dels[g].home}
<1>1. /\ builder # "new" /\ builder' = "returned" /\ msgs' = msgs /\ closures' = {}
      /\ markers' = markers /\ facts' = facts /\ invoked' = invoked
      /\ chain' = chain /\ receipts' = receipts /\ swallowed' = swallowed
      /\ dels' = [g \in Generations |-> IF g \in S THEN Over ELSE dels[g]]
  BY Zenon DEF CrashBuilder, CrashHome
<1>2. S \in SUBSET Running
  BY Zenon
<1> HIDE DEF S
<1>3. DeliveriesMove /\ NoNewInvoke /\ \A h \in Generations : dels'[h].facts \subseteq dels[h].facts
  BY <1>0, <1>1, <1>2, OverMoves, Zenon
<1>4. MessagesMove /\ FactsMove /\ ChainMove
  BY <1>0, <1>1, <1>3, MessagesStill, FactsStill, ChainStill, Zenon
<1>5. CallbacksMove /\ builder' \in BuilderSteps \ {"new"}
  BY <1>1, <1>3, Zenon DEF CallbacksMove, BuilderSteps
<1> QED
  BY <1>1, <1>3, <1>4, <1>5, BuilderMoves, Zenon

-----------------------------------------------------------------------------
(* The theorems.                                                           *)

\* A step of a node's handler.
LEMMA NodeSteps ==
  ASSUME Inv, NEW g \in Generations, NodeStep(g)
  PROVE  StepOK
<1>1. CASE \E err \in Errors : Execute(g, err)
  BY <1>1, NodeExecute, Zenon
<1>2. CASE \E db \in Results : Recover(g, db)
  BY <1>2, NodeRecover, Zenon
<1>3. CASE \E db \in Results : FailNode(g, db)
  BY <1>3, NodeFail, Zenon
<1>4. CASE \E db \in Results : AdvanceNode(g, db)
  BY <1>4, NodeAdvance, Zenon
<1>5. CASE \E db \in Results : dispatchChainSuccessor(g, db)
  BY <1>5, NodeSuccessor, Zenon
<1>6. CASE ConfirmAdvance(g)
  BY <1>6, NodeConfirm, Zenon
<1> QED
  BY <1>1, <1>2, <1>3, <1>4, <1>5, <1>6, Zenon DEF NodeStep

\* A step of a callback's handler, of a settlement, or a crash.
LEMMA RuntimeSteps ==
  ASSUME Inv, NEW g \in Generations, RuntimeStep(g)
  PROVE  StepOK
<1>0. UNCHANGED chainVars
  BY Zenon DEF RuntimeStep
<1>1. CASE \E db \in Results, kind \in Callbacks : claimCallback(g, kind, CallbackReady(kind), db)
  BY <1>0, <1>1, CallbackClaim, Zenon
<1>2. CASE \E kind \in Callbacks : invokeCallback(g, kind)
  BY <1>0, <1>2, CallbackInvoke, Zenon
<1>3. CASE \E kind \in Callbacks, err \in {"nil", "error"} : finishCallback(g, kind, err)
  BY <1>0, <1>3, CallbackFinish, Zenon
<1>4. CASE \E db \in Results : dispatchCallback(g, db)
  BY <1>0, <1>4, CallbackDispatch, Zenon
<1>5. CASE \E db \in Results : settleDelivery(g, IF dels[g].kind = "node" THEN MaxRetry ELSE 0, db)
  BY <1>0, <1>5, DriverSettles, Zenon
<1>6. CASE CrashAway(g)
  BY <1>0, <1>6, WorkerCrash, Zenon
<1> QED
  BY <1>1, <1>2, <1>3, <1>4, <1>5, <1>6, Zenon DEF RuntimeStep

\* A step of the driver.
LEMMA EnvelopeSteps ==
  ASSUME Inv, NEW e \in Envelopes, Envelope(e)
  PROVE  StepOK
<1>0. UNCHANGED chainVars /\ UNCHANGED runtimeVars
  BY Zenon DEF Envelope, TransportStep
<1>1. CASE \E g \in Generations, home \in Homes : Deliver(g, e, home)
  BY <1>0, <1>1, DriverDelivers, Zenon
<1>2. CASE LoseClaim(e) \/ Requeue(e)
  BY <1>0, <1>2, DriverRequeues, Zenon
<1> QED
  BY <1>1, <1>2, Zenon DEF Envelope, TransportStep

\* A step of the builder.
LEMMA BuilderStepsOK ==
  ASSUME Inv, BuilderStep
  PROVE  StepOK
<1>1. CASE CreateChain
  BY <1>1, BuilderCreates, Zenon
<1>2. CASE \E db \in Results : DispatchFirst(db)
  BY <1>2, BuilderDispatches, Zenon
<1>3. CASE \E db \in Results : RejectChain(db)
  BY <1>3, BuilderRejects, Zenon
<1>4. CASE \E db \in Results : CallbackInline("catch", db) \/ CallbackInline("finally", db)
  BY <1>4, BuilderCallback, Zenon
<1>5. CASE RejectedChainUnread
  BY <1>5, BuilderGivesUp, Zenon
<1> QED
  BY <1>1, <1>2, <1>3, <1>4, <1>5, Zenon DEF BuilderStep

\* Every step keeps the invariant and moves the stored chain forward.
LEMMA NextStep ==
  ASSUME Inv, [Next]_vars
  PROVE  Inv' /\ Forward
<1>1. CASE Next
  <2>1. StepOK
    BY <1>1, NodeSteps, RuntimeSteps, EnvelopeSteps, BuilderStepsOK, BuilderCrash, Zenon DEF Next
  <2> QED
    BY <2>1, InvStep, Zenon
<1>2. CASE UNCHANGED vars
  <2>1. /\ msgs' = msgs /\ dels' = dels /\ markers' = markers /\ closures' = closures /\ facts' = facts
        /\ invoked' = invoked /\ chain' = chain /\ receipts' = receipts
        /\ builder' = builder /\ swallowed' = swallowed
    BY <1>2, Zenon DEF vars, chainVars, runtimeVars
  <2>2. Types
    BY Zenon DEF Inv
  <2>3. ChainMove /\ MessagesMove /\ DeliveriesMove /\ NoNewInvoke
    BY <2>1, <2>2, ChainStill, MessagesStill, DeliveriesStill, Zenon
  <2>4. FactsMove
    BY <2>1, <2>2, FactsStill, Zenon
  <2>5. CallbacksMove
    BY <2>1, <2>3, CallbacksStill, Zenon DEF Inv
  <2>6. closures' \subseteq Callbacks /\ builder' \in BuilderSteps
    BY <2>1, <2>2, Zenon DEF Types
  <2>7. StepOK
    BY <2>1, <2>3, <2>4, <2>5, <2>6, Zenon DEF StepOK
  <2> QED
    BY <2>7, InvStep, Zenon
<1> QED
  BY <1>1, <1>2, Zenon

\* The invariant of the chain, for every number of nodes, envelopes, deliveries
\* and disruptions.
THEOREM ChainInvariant == Spec => []Inv
<1>1. Inv /\ [Next]_vars => Inv'
  BY NextStep, Zenon
<1> QED
  BY <1>1, InvInit, PTL DEF Spec

\* No node is queued or delivered before every node before it succeeded: neither
\* the handlers of chain.go nor a crash, a duplicate delivery or an unclear
\* answer makes the engine dispatch ahead of the stored chain.
THEOREM NodesInOrderTheorem == Spec => []NodesInOrder
<1>1. Inv => NodesInOrder
  BY OrderFollows, Zenon
<1> QED
  BY <1>1, ChainInvariant, PTL

\* A published success or failure is the one the store decided, under one event
\* id: emit, and the recovery of facts by transition receipt.
THEOREM FactsTruthfulTheorem == Spec => []FactsTruthful
<1>1. Inv => FactsTruthful
  BY FactsFollow, Zenon
<1> QED
  BY <1>1, ChainInvariant, PTL

\* A chain that was dispatched and has not ended is still held by the queue: the
\* envelope of its current node, or of the node before it, can move it, unless
\* a late failure of that node was dropped (dispatchChainSuccessor).
THEOREM ContinuationRetainedTheorem == Spec => []ContinuationRetained
<1>1. Inv => ContinuationRetained
  BY ContinuationFollows, Zenon
<1> QED
  BY <1>1, ChainInvariant, PTL

\* Each closure runs at most once, in a state that allows it (callbackOnce).
THEOREM CallbackAtMostOnceTheorem == Spec => []CallbackAtMostOnce
<1>1. Inv => CallbackAtMostOnce
  BY Zenon DEF Inv, CallbackInv
<1> QED
  BY <1>1, ChainInvariant, PTL

\* The first transition of a node is final, and so is the end of the chain
\* (advanceChainOutcome, failChainOutcome).
THEOREM FirstTransitionTheorem == Spec => FirstTransitionWins
<1>1. Inv /\ [Next]_vars =>
        [/\ \A n \in Nodes : Known(receipts[n]) => receipts'[n] = receipts[n]
         /\ \A n \in Nodes : successOwned(n) => successOwned(n)'
         /\ ~Active /\ chain.created => chain' = chain]_vars
  BY NextStep, Zenon DEF Forward
<1> QED
  BY <1>1, ChainInvariant, PTL DEF Spec, FirstTransitionWins

=============================================================================
