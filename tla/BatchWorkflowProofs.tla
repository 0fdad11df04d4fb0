------------------------ MODULE BatchWorkflowProofs ------------------------
(***************************************************************************)
(* Safety of one batch of the workflow engine, for any number of members,  *)
(* envelopes, deliveries, retries and faults, with and without provenance, *)
(* fail-fast and tolerant.  The stored outcomes, the end of the batch and  *)
(* its cancellation only move forward; receipts, facts and closures are    *)
(* related to them by conditions that stay true when they move.            *)
(***************************************************************************)
EXTENDS BatchWorkflow, TLAPS

Kinds == {"member"} \cup Callbacks
Sent == MessageType(Kinds, Members)
Positives == [kind: {"succeeded", "completed"}, member: Members, env: Envelopes \cup {0}, attempt: Nat]
Published == FactType(FactKinds, Members)
Delivery == DeliveryType(Steps, Kinds, Members, Seq(CallbackKinds), Positives)

\* The types, with the facts a delivery keeps narrowed to those of members.
Types ==
  /\ msgs \in [Envelopes -> Sent]
  /\ dels \in [Generations -> Delivery]
  /\ facts \subseteq Published
  /\ closures \subseteq Callbacks
  /\ batch \in BatchStates
  /\ receipts \in [Members -> MemberReceipts]
  /\ builder \in [pc: BuilderSteps, next: 1..(N + 1)]
  /\ rejected \in BOOLEAN
  /\ \A g \in Generations : dels[g].pc = "callbacks" => dels[g].work # <<>>

\* Envelopes and deliveries of members name one.
TransportInv ==
  /\ \A e \in Envelopes : msgs[e].kind = "member" => msgs[e].member \in Members
  /\ \A g \in Generations : dels[g].kind = "member" => dels[g].member \in Members
  /\ \A g \in Running : dels[g].env \in Envelopes
  /\ builder.pc \in {"new", "dispatch", "reject", "cancel"} => builder.next \in Members

-----------------------------------------------------------------------------
(* The store.                                                              *)

AllSettled == \A m \in Members : batch.outcome[m] # "pending"
SomeFailed == \E m \in Members : batch.outcome[m] = "failed"

\* A receipt records the outcome of its member; the one that completes a batch
\* is that of a batch that has ended.
ReceiptOK(m) ==
  /\ Known(receipts[m]) => receipts[m].outcome = batch.outcome[m] /\ batch.outcome[m] # "pending"
  /\ receipts[m].completes => Known(receipts[m]) /\ batch.completed

\* A batch ends when it is cancelled, by its builder or by a failed member, or
\* when every member is settled; with receipts, one of them owns that end.
StoreInv ==
  /\ rejected => batch.cancelled
  /\ batch.cancelled => batch.completed
  /\ batch.completed /\ ~batch.cancelled => AllSettled
  /\ builder.pc \in {"read", "catch", "finally"} => rejected
  /\ \A m \in Members : ReceiptOK(m)
  /\ \A m, n \in Members : receipts[m].completes /\ receipts[n].completes => m = n
  /\ Provenance /\ batch.completed /\ ~rejected =>
       \E m \in Members : receipts[m].completes /\ receipts[m].cancels = batch.cancelled

\* A delivery that reads its own commit back finds its receipt.
ConfirmOK(g) ==
  dels[g].pc = "confirm" =>
    /\ dels[g].kind = "member" /\ dels[g].member \in Members /\ Provenance
    /\ batch.outcome[dels[g].member] = Outcome(g)
    /\ LET r == receipts[dels[g].member] IN
       r.gen = g /\ r.env = dels[g].env /\ r.attempt = dels[g].attempt /\ r.outcome = Outcome(g)

ConfirmInv == \A g \in Generations : ConfirmOK(g)

-----------------------------------------------------------------------------
(* Facts and callbacks.                                                    *)

\* A fact the store has decided, under the identity the receipt keeps.
FactOK(f) ==
  /\ f.member \in Members
  /\ f.kind \in {"succeeded", "failed"} => batch.outcome[f.member] = f.kind
  /\ f.kind = "completed" => AllSettled /\ (batch.cancelled => rejected)
  /\ f.kind = "cancelled" => batch.cancelled
  /\ f.env # 0 /\ Provenance =>
       /\ Known(receipts[f.member])
       /\ receipts[f.member].env = f.env /\ receipts[f.member].attempt = f.attempt
       /\ f.kind \in {"completed", "cancelled"} => receipts[f.member].completes

\* The facts published or waiting for a settlement.
AllFacts == facts \cup UNION {dels[g].facts : g \in Generations}

FactInv == \A f \in AllFacts : FactOK(f)

\* What CallbackReady leaves of a closure's condition when the builder cancels.
Allowed(kind) ==
  \/ kind = "catch" /\ (SomeFailed \/ batch.cancelled)
  \/ kind = "then" /\ (rejected \/ (batch.completed /\ ~batch.cancelled))
  \/ kind = "finally" /\ batch.completed

\* A delivery that may run a closure is the one that claimed its marker.
InvokeOK(g) ==
  dels[g].pc = "invoke" =>
    /\ dels[g].kind \in markers /\ Allowed(dels[g].kind)
    /\ \A i \in invoked : i[1] # dels[g].kind
    /\ \A h \in Generations : dels[h].pc = "invoke" /\ dels[h].kind = dels[g].kind => h = g

CallbackInv ==
  /\ \A i, j \in invoked : i[1] = j[1] => i = j
  /\ \A i \in invoked : i[1] \in markers /\ Allowed(i[1])
  /\ \A g \in Generations : InvokeOK(g)

Inv == Types /\ TransportInv /\ StoreInv /\ ConfirmInv /\ FactInv /\ CallbackInv

-----------------------------------------------------------------------------
(* What a step of the system may do.  Every action is shown to be such a   *)
(* step once; the invariant is shown to survive such a step once.          *)

\* The batch is created, settles a member that has no outcome, or is cancelled.
Settles(m, o, r) ==
  LET settled == settleBatchOutcome(batch, m, o)
      completes == completesBatch(batch, settled)
  IN  /\ Unsettled(m) /\ batch' = settled /\ rejected' = rejected
      /\ receipts' = [receipts EXCEPT ![m] = MemberReceipt(r, completes, completes /\ settled.cancelled)]
Stays == batch' = batch /\ receipts' = receipts /\ rejected' = rejected
Creates == batch' = createBatch /\ receipts' = receipts /\ rejected' = rejected
Cancels == batch' = CancelBatch(batch) /\ receipts' = receipts /\ rejected' = TRUE
BatchMove ==
  \/ Stays \/ Creates \/ Cancels
  \/ \E m \in Members, o \in {"succeeded", "failed"}, r \in ReceiptType :
       Settles(m, o, r) /\ (Known(r) <=> Provenance) /\ (Known(r) => r.outcome = o)

MessagesMove ==
  /\ msgs' \in [Envelopes -> Sent]
  /\ \A e \in Envelopes : msgs'[e].kind = "member" => msgs'[e].member \in Members

\* A delivery begins, goes on about its envelope, or is over.
Begins(g) ==
  \E e \in Envelopes, home \in BOOLEAN : dels'[g] = NewDelivery(e, home)
SameDelivery(d, c) == d.env = c.env /\ d.kind = c.kind /\ d.member = c.member /\ d.attempt = c.attempt
GoesOn(g) ==
  /\ g \in Running /\ SameDelivery(dels'[g], dels[g])
  /\ dels'[g].pc = "callbacks" => dels'[g].work # <<>>
  /\ ConfirmOK(g)'
DeliveriesMove ==
  /\ dels' \in [Generations -> Delivery]
  /\ \A g \in Generations : dels'[g] = dels[g] \/ dels'[g] = Over \/ Begins(g) \/ GoesOn(g)

\* A fact is published or kept when the store has decided it.
FactsMove ==
  /\ facts' \subseteq Published
  /\ \A f \in AllFacts' : f \in AllFacts \/ FactOK(f)'

\* A marker is claimed once, by the delivery or the builder that then runs the
\* closure.
NoNewInvoke == \A g \in Generations : dels'[g].pc = "invoke" => dels'[g] = dels[g]
Claims(g) ==
  /\ dels'[g].pc = "invoke" /\ dels'[g].kind \notin markers /\ Allowed(dels'[g].kind)
  /\ markers' = markers \cup {dels'[g].kind} /\ invoked' = invoked
  /\ \A h \in Generations \ {g} : dels'[h] = dels[h]
Invokes(g) ==
  /\ dels[g].pc = "invoke" /\ dels'[g].pc # "invoke"
  /\ markers' = markers /\ invoked' = invoked \cup {<<dels[g].kind, g>>}
  /\ \A h \in Generations \ {g} : dels'[h] = dels[h]
InvokesInline(kind) ==
  /\ kind \notin markers /\ Allowed(kind) /\ dels' = dels
  /\ markers' = markers \cup {kind} /\ invoked' = invoked \cup {<<kind, NoGeneration>>}
CallbacksMove ==
  \/ markers \subseteq markers' /\ invoked' = invoked /\ NoNewInvoke
  \/ \E g \in Generations : Claims(g) \/ Invokes(g)
  \/ \E kind \in CallbackKinds : InvokesInline(kind)

\* The builder goes on; it cancels before it runs closures.
BuilderMove ==
  /\ builder' \in [pc: BuilderSteps, next: 1..(N + 1)]
  /\ builder'.pc \in {"new", "dispatch", "reject", "cancel"} => builder'.next \in Members
  /\ builder'.pc \in {"read", "catch", "finally"} => rejected'

StepOK ==
  /\ BatchMove /\ MessagesMove /\ DeliveriesMove /\ FactsMove /\ CallbacksMove /\ BuilderMove
  /\ closures' \subseteq Callbacks
-----------------------------------------------------------------------------
(* The store moves forward and keeps its invariant.                        *)

\* Sets of members are counted.
Counting ==
  /\ \A S \in SUBSET Members : Cardinality(S) \in Nat /\ (Cardinality(S) = 0 <=> S = {})
  /\ \A m \in Members : Cardinality({m}) = 1

\* The stored batch, its receipts and its rejection only move forward.
Forward ==
  /\ batch' \in BatchStates /\ receipts' \in [Members -> MemberReceipts] /\ rejected' \in BOOLEAN
  /\ \A m \in Members : batch.outcome[m] # "pending" =>
       batch'.outcome[m] = batch.outcome[m] /\ receipts'[m] = receipts[m]
  /\ batch.completed => batch'.completed /\ (~rejected' => batch'.cancelled = batch.cancelled)
  /\ batch.cancelled => batch'.cancelled
  /\ rejected => rejected'

\* settleBatchOutcome gives one member its outcome, and ends the batch when the
\* failure of that member does or when no member is left.
SettledFrom(s, b, m, o) ==
  /\ s \in BatchStates /\ s.outcome[m] = o
  /\ \A n \in Members \ {m} : s.outcome[n] = b.outcome[n]
  /\ s.cancelled <=> (b.cancelled \/ (o = "failed" /\ ~AllowFailed))
  /\ s.completed <=> b.completed \/ (o = "failed" /\ ~AllowFailed)
                       \/ \A n \in Members : s.outcome[n] # "pending"

\* That is what settleBatchOutcome computes.
LEMMA SettledFacts ==
  ASSUME Counting, NEW b \in BatchStates, NEW m \in Members, NEW o \in {"succeeded", "failed"}
  PROVE  SettledFrom(settleBatchOutcome(b, m, o), b, m, o)
<1>s. PICK s : s = settleBatchOutcome(b, m, o)
  BY Zenon
<1> DEFINE t == [b EXCEPT !.outcome = [b.outcome EXCEPT ![m] = o]]
           ff == o = "failed" /\ ~AllowFailed
           cancelled == t.cancelled \/ ff
           completed == t.completed \/ ff \/ Pending(t) = 0
<1>1. /\ t \in BatchStates /\ t.outcome = [b.outcome EXCEPT ![m] = o]
      /\ t.cancelled = b.cancelled /\ t.completed = b.completed
  BY Zenon DEF BatchStates
<1>2. s = [t EXCEPT !.cancelled = cancelled, !.completed = completed]
  BY <1>s, Zenon DEF settleBatchOutcome
<1> HIDE DEF t
<1>3. cancelled \in BOOLEAN /\ completed \in BOOLEAN /\ ff \in BOOLEAN
  BY <1>1, Zenon DEF BatchStates
<1>4. Pending(t) = 0 <=> \A n \in Members : t.outcome[n] # "pending"
  <2> DEFINE S == {n \in Members : t.outcome[n] = "pending"}
  <2>1. Cardinality(S) = 0 <=> S = {}
    BY Zenon DEF Counting
  <2> QED
    BY <2>1, Zenon DEF Pending
<1> HIDE DEF cancelled, completed
<1>5. s \in BatchStates /\ s.outcome = t.outcome /\ s.cancelled = cancelled /\ s.completed = completed
  BY <1>1, <1>2, <1>3, Zenon DEF BatchStates
<1>6. s.outcome[m] = o /\ \A n \in Members \ {m} : s.outcome[n] = b.outcome[n]
  BY <1>1, <1>5, Zenon DEF BatchStates
<1>7. /\ s.cancelled <=> (b.cancelled \/ ff)
      /\ s.completed <=> b.completed \/ ff \/ \A n \in Members : s.outcome[n] # "pending"
  BY <1>1, <1>3, <1>4, <1>5, Zenon DEF cancelled, completed
<1>8. SettledFrom(s, b, m, o)
  BY <1>5, <1>6, <1>7, Zenon DEF SettledFrom
<1> QED
  BY <1>s, <1>8, Zenon

\* The receipt of a settlement: that of its delivery, with its part in the end
\* of the batch.
ReceiptFrom(q, r, completes, cancels) ==
  /\ q \in MemberReceipts /\ (Known(q) <=> Known(r)) /\ q.gen = r.gen /\ q.env = r.env
  /\ q.attempt = r.attempt /\ q.outcome = r.outcome
  /\ q.completes <=> (completes /\ Known(r))
  /\ q.cancels <=> (cancels /\ Known(r))

\* That is what MemberReceipt makes.
LEMMA MemberReceiptFacts ==
  ASSUME NEW r \in ReceiptType, NEW completes \in BOOLEAN, NEW cancels \in BOOLEAN
  PROVE  ReceiptFrom(MemberReceipt(r, completes, cancels), r, completes, cancels)
<1>1. Known(r) \in BOOLEAN
  BY Zenon DEF Known
<1> QED
  BY <1>1, Zenon DEF MemberReceipt, MemberReceipts, ReceiptType, Known, ReceiptFrom

\* One member is settled.
LEMMA SettlesFacts ==
  ASSUME Counting, Types, NEW m \in Members, NEW o \in {"succeeded", "failed"}, NEW r \in ReceiptType,
         Settles(m, o, r), Known(r) <=> Provenance, Known(r) => r.outcome = o
  PROVE  LET failFast == o = "failed" /\ ~AllowFailed
             completes == ~batch.completed /\ batch'.completed
         IN
         /\ batch.outcome[m] = "pending" /\ rejected' = rejected
         /\ batch' \in BatchStates /\ receipts' \in [Members -> MemberReceipts]
         /\ batch'.outcome[m] = o
         /\ \A n \in Members \ {m} : batch'.outcome[n] = batch.outcome[n] /\ receipts'[n] = receipts[n]
         /\ batch'.cancelled <=> (batch.cancelled \/ failFast)
         /\ batch'.completed <=> batch.completed \/ failFast \/ AllSettled'
         /\ Known(receipts'[m]) <=> Provenance
         /\ Known(receipts'[m]) => receipts'[m].outcome = o
         /\ receipts'[m].completes <=> (completes /\ Provenance)
         /\ receipts'[m].cancels <=> (completes /\ batch'.cancelled /\ Provenance)
<1>0. batch \in BatchStates
  BY Zenon DEF Types
<1>1. /\ batch.outcome[m] = "pending" /\ rejected' = rejected /\ batch' = settleBatchOutcome(batch, m, o)
      /\ batch \in BatchStates /\ receipts \in [Members -> MemberReceipts]
  BY Zenon DEF Settles, Unsettled, Types
<1>2. /\ batch' \in BatchStates /\ batch'.outcome[m] = o
      /\ \A n \in Members \ {m} : batch'.outcome[n] = batch.outcome[n]
      /\ batch'.cancelled <=> (batch.cancelled \/ (o = "failed" /\ ~AllowFailed))
      /\ batch'.completed <=> batch.completed \/ (o = "failed" /\ ~AllowFailed)
                                \/ \A n \in Members : batch'.outcome[n] # "pending"
  <2>1. SettledFrom(settleBatchOutcome(batch, m, o), batch, m, o)
    BY <1>0, SettledFacts, Zenon
  <2>2. SettledFrom(batch', batch, m, o)
    BY <1>1, <2>1, Zenon
  <2> QED
    BY <2>2, Zenon DEF SettledFrom
<1>3. PICK c \in BOOLEAN : c = completesBatch(batch, batch')
  <2>1. completesBatch(batch, batch') \in BOOLEAN
    BY Zenon DEF completesBatch
  <2> QED
    BY <2>1, Zenon
<1>4. PICK d \in BOOLEAN : d = (c /\ batch'.cancelled)
  BY Zenon
<1>5. PICK q : q = MemberReceipt(r, c, d) /\ receipts' = [receipts EXCEPT ![m] = q]
  <2>1. receipts' = [receipts EXCEPT ![m] = MemberReceipt(r, completesBatch(batch, batch'),
                                               completesBatch(batch, batch') /\ batch'.cancelled)]
    BY Zenon DEF Settles
  <2> QED
    BY <1>3, <1>4, <2>1, Zenon
<1>6. /\ q \in MemberReceipts /\ (Known(q) <=> Known(r)) /\ q.outcome = r.outcome
      /\ q.completes <=> (c /\ Known(r))
      /\ q.cancels <=> (d /\ Known(r))
  <2>1. ReceiptFrom(MemberReceipt(r, c, d), r, c, d)
    BY MemberReceiptFacts, Zenon
  <2>2. ReceiptFrom(q, r, c, d)
    BY <1>5, <2>1, Zenon
  <2> QED
    BY <2>2, Zenon DEF ReceiptFrom
<1>7. /\ receipts' \in [Members -> MemberReceipts] /\ receipts'[m] = q
      /\ \A n \in Members \ {m} : receipts'[n] = receipts[n]
  BY <1>1, <1>5, <1>6, Zenon
<1>9. /\ q.completes <=> ((~batch.completed /\ batch'.completed) /\ Provenance)
      /\ q.cancels <=> ((~batch.completed /\ batch'.completed) /\ batch'.cancelled /\ Provenance)
  <2>1. Known(r) <=> Provenance
    BY TransportAssumption, Zenon DEF Known
  <2>2. c <=> (~batch.completed /\ batch'.completed)
    BY <1>3, Zenon DEF completesBatch
  <2> QED
    BY <1>4, <1>6, <2>1, <2>2, Zenon
<1> QED
  BY <1>1, <1>2, <1>6, <1>7, <1>9, ZenonT(60) DEF AllSettled

\* The terminal flags that CancelBatch writes.
LEMMA CancelFacts ==
  ASSUME NEW b \in BatchStates
  PROVE  /\ CancelBatch(b) \in BatchStates /\ CancelBatch(b).outcome = b.outcome
         /\ CancelBatch(b).cancelled = TRUE /\ CancelBatch(b).completed = TRUE
BY Zenon DEF CancelBatch, BatchStates
\* The batch is only marked as created, if anything.
Keeps ==
  /\ batch' \in BatchStates /\ batch'.outcome = batch.outcome
  /\ batch'.completed = batch.completed /\ batch'.cancelled = batch.cancelled
  /\ receipts' = receipts /\ rejected' = rejected

\* A step that settles and cancels nothing.
LEMMA KeepsFacts ==
  ASSUME Types, Stays \/ Creates
  PROVE  Keeps
<1>1. batch \in BatchStates
  BY Zenon DEF Types
<1>2. CASE Stays
  BY <1>1, <1>2, Zenon DEF Stays, Keeps
<1>3. CASE Creates
  BY <1>1, <1>3, Zenon DEF Creates, Keeps, createBatch, BatchStates
<1> QED
  BY <1>2, <1>3, Zenon

\* The builder cancels.
Ends ==
  /\ batch' \in BatchStates /\ batch'.outcome = batch.outcome
  /\ batch'.completed = TRUE /\ batch'.cancelled = TRUE
  /\ receipts' = receipts /\ rejected' = TRUE

\* What the builder's cancellation does.
LEMMA EndsFacts ==
  ASSUME Types, Cancels
  PROVE  Ends
<1>1. batch \in BatchStates
  BY Zenon DEF Types
<1> QED
  BY <1>1, CancelFacts, Zenon DEF Cancels, Ends

\* A member is settled.
SettledNow(m) ==
  /\ batch.outcome[m] = "pending" /\ rejected' = rejected
  /\ batch' \in BatchStates /\ receipts' \in [Members -> MemberReceipts]
  /\ batch'.outcome[m] # "pending"
  /\ \A n \in Members \ {m} : batch'.outcome[n] = batch.outcome[n] /\ receipts'[n] = receipts[n]
  /\ batch.cancelled => batch'.cancelled
  /\ batch'.cancelled => batch.cancelled \/ batch'.completed
  /\ batch.completed => batch'.completed
  /\ batch'.completed => batch.completed \/ batch'.cancelled \/ AllSettled'
  /\ Known(receipts'[m]) => receipts'[m].outcome = batch'.outcome[m] /\ Provenance
  /\ receipts'[m].completes => ~batch.completed /\ batch'.completed /\ Known(receipts'[m])
  /\ ~batch.completed /\ batch'.completed /\ Provenance =>
       receipts'[m].completes /\ receipts'[m].cancels = batch'.cancelled

\* What a settlement does.
LEMMA SettledNowFacts ==
  ASSUME Counting, Types, NEW m \in Members, NEW o \in {"succeeded", "failed"}, NEW r \in ReceiptType,
         Settles(m, o, r), Known(r) <=> Provenance, Known(r) => r.outcome = o
  PROVE  SettledNow(m)
<1> DEFINE failFast == o = "failed" /\ ~AllowFailed
           completes == ~batch.completed /\ batch'.completed
<1>1. /\ batch.outcome[m] = "pending" /\ rejected' = rejected
      /\ batch' \in BatchStates /\ receipts' \in [Members -> MemberReceipts]
      /\ batch'.outcome[m] = o
      /\ \A n \in Members \ {m} : batch'.outcome[n] = batch.outcome[n] /\ receipts'[n] = receipts[n]
  BY SettlesFacts, Zenon
<1>2. /\ batch'.cancelled <=> (batch.cancelled \/ failFast)
      /\ batch'.completed <=> batch.completed \/ failFast \/ AllSettled'
  BY SettlesFacts, Zenon
<1>3. /\ Known(receipts'[m]) <=> Provenance
      /\ Known(receipts'[m]) => receipts'[m].outcome = o
      /\ receipts'[m].completes <=> (completes /\ Provenance)
      /\ receipts'[m].cancels <=> (completes /\ batch'.cancelled /\ Provenance)
  BY SettlesFacts, Zenon
<1>4. receipts'[m].cancels \in BOOLEAN /\ batch'.cancelled \in BOOLEAN
  BY <1>1, Zenon DEF MemberReceipts, BatchStates
<1>5. completes /\ Provenance => receipts'[m].completes /\ receipts'[m].cancels = batch'.cancelled
  BY <1>3, <1>4, Zenon
<1> QED
  BY <1>1, <1>2, <1>3, <1>5, Zenon DEF SettledNow

\* A step of the store is one of these.
StoreMovesTo == Keeps \/ Ends \/ \E m \in Members : SettledNow(m)

\* There is no other.
LEMMA StoreMoves ==
  ASSUME Counting, Types, BatchMove
  PROVE  StoreMovesTo
BY KeepsFacts, EndsFacts, SettledNowFacts, Zenon DEF BatchMove, StoreMovesTo

\* A member is settled before the batch ends, unless it was cancelled.
LEMMA SettledInTime ==
  ASSUME StoreInv, NEW m \in Members, SettledNow(m)
  PROVE  batch.completed => batch.cancelled
BY Zenon DEF StoreInv, SettledNow, AllSettled

\* A step of the store takes the batch and its receipts forward.
LEMMA ForwardStep ==
  ASSUME Types, StoreInv, StoreMovesTo
  PROVE  Forward
<1>0. /\ batch \in BatchStates /\ receipts \in [Members -> MemberReceipts] /\ rejected \in BOOLEAN
      /\ batch.cancelled \in BOOLEAN /\ batch.completed \in BOOLEAN
  BY Zenon DEF Types, BatchStates
<1>1. CASE Keeps
  BY <1>0, <1>1, Zenon DEF Keeps, Forward
<1>2. CASE Ends
  BY <1>0, <1>2, Zenon DEF Ends, Forward
<1>3. ASSUME NEW m \in Members, SettledNow(m)
      PROVE  Forward
  <2>1. batch.completed => batch.cancelled
    BY <1>3, SettledInTime, Zenon
  <2>2. /\ batch.outcome[m] = "pending" /\ rejected' = rejected
        /\ batch' \in BatchStates /\ receipts' \in [Members -> MemberReceipts]
        /\ batch.cancelled => batch'.cancelled
        /\ batch.completed => batch'.completed
    BY <1>3, Zenon DEF SettledNow
  <2>3. \A n \in Members : batch.outcome[n] # "pending" =>
          batch'.outcome[n] = batch.outcome[n] /\ receipts'[n] = receipts[n]
    BY <1>3, Zenon DEF SettledNow
  <2>4. batch.completed => batch'.cancelled = batch.cancelled
    <3>1. batch'.cancelled \in BOOLEAN
      BY <2>2, Zenon DEF BatchStates
    <3> QED
      BY <1>0, <2>1, <2>2, <3>1, Zenon
  <2> QED
    BY <1>0, <2>2, <2>3, <2>4, Zenon DEF Forward
<1> QED
  BY <1>1, <1>2, <1>3, Zenon DEF StoreMovesTo

\* Receipts keep recording the outcomes, and one of them owns the end.
LEMMA StoreStep ==
  ASSUME Types, StoreInv, BuilderMove, StoreMovesTo
  PROVE  StoreInv'
<1>0. /\ batch \in BatchStates /\ receipts \in [Members -> MemberReceipts] /\ rejected \in BOOLEAN
      /\ batch.cancelled \in BOOLEAN /\ batch.completed \in BOOLEAN
  BY Zenon DEF Types, BatchStates
<1>b. builder'.pc \in {"read", "catch", "finally"} => rejected'
  BY Zenon DEF BuilderMove
<1>1. CASE Keeps
  BY <1>0, <1>1, <1>b, Zenon DEF Keeps, StoreInv, AllSettled, ReceiptOK, Known
<1>2. CASE Ends
  BY <1>0, <1>2, <1>b, Zenon DEF Ends, StoreInv, AllSettled, ReceiptOK, Known
<1>3. ASSUME NEW m \in Members, SettledNow(m)
      PROVE  StoreInv'
  <2>0. batch.completed => batch.cancelled
    BY <1>3, SettledInTime, Zenon
  <2>1. /\ rejected' => batch'.cancelled
        /\ batch'.cancelled => batch'.completed
        /\ batch'.completed /\ ~batch'.cancelled => AllSettled'
    BY <1>3, <2>0, Zenon DEF SettledNow, StoreInv
  <2>2. ASSUME NEW n \in Members
        PROVE  ReceiptOK(n)'
    <3>1. CASE n = m
      BY <1>3, <3>1, Zenon DEF SettledNow, ReceiptOK, Known
    <3>2. CASE n # m
      <4>1. ReceiptOK(n) /\ batch'.outcome[n] = batch.outcome[n] /\ receipts'[n] = receipts[n]
        BY <1>3, <3>2, Zenon DEF SettledNow, StoreInv
      <4>2. batch.completed => batch'.completed
        BY <1>3, Zenon DEF SettledNow
      <4> QED
        BY <4>1, <4>2, Zenon DEF ReceiptOK, Known
    <3> QED
      BY <3>1, <3>2, Zenon
  <2>3. /\ \A n \in Members : receipts[n].completes => batch.completed
        /\ \A n \in Members \ {m} : receipts'[n] = receipts[n]
        /\ receipts'[m].completes => ~batch.completed
    BY <1>3, Zenon DEF StoreInv, ReceiptOK, SettledNow
  <2>4. \A k, n \in Members : receipts'[k].completes /\ receipts'[n].completes => k = n
    <3>1. \A k, n \in Members : receipts[k].completes /\ receipts[n].completes => k = n
      BY Zenon DEF StoreInv
    <3> QED
      BY <2>3, <3>1, Zenon
  <2>5. ASSUME Provenance, batch'.completed, ~rejected'
        PROVE  \E n \in Members : receipts'[n].completes /\ receipts'[n].cancels = batch'.cancelled
    <3>1. CASE ~batch.completed
      BY <1>3, <2>5, <3>1, Zenon DEF SettledNow
    <3>2. CASE batch.completed
      <4>1. PICK n \in Members : receipts[n].completes /\ receipts[n].cancels = batch.cancelled
        BY <1>3, <2>5, <3>2, Zenon DEF SettledNow, StoreInv
      <4>2. n # m
        BY <1>3, <4>1, Zenon DEF SettledNow, StoreInv, ReceiptOK
      <4>3. batch.cancelled = batch'.cancelled
        <5>1. batch'.cancelled /\ batch'.cancelled \in BOOLEAN
          BY <1>3, <2>0, <3>2, Zenon DEF SettledNow, BatchStates
        <5> QED
          BY <1>0, <2>0, <3>2, <5>1, Zenon
      <4> QED
        BY <2>3, <4>1, <4>2, <4>3, Zenon
    <3> QED
      BY <3>1, <3>2, Zenon
  <2> QED
    BY <1>b, <2>1, <2>2, <2>4, <2>5, Zenon DEF StoreInv
<1> QED
  BY <1>1, <1>2, <1>3, Zenon DEF StoreMovesTo


-----------------------------------------------------------------------------
(* The invariant survives a step.                                          *)

\* Allowed in the next state.
AllowedNext(kind) ==
  \/ kind = "catch" /\ (SomeFailed' \/ batch'.cancelled)
  \/ kind = "then" /\ (rejected' \/ (batch'.completed /\ ~batch'.cancelled))
  \/ kind = "finally" /\ batch'.completed
StaysAllowed == \A kind : Allowed(kind) => AllowedNext(kind)

\* The condition of a closure stays true.
LEMMA AllowedStep ==
  ASSUME Forward
  PROVE  StaysAllowed
<1>1. SomeFailed => SomeFailed'
  BY Zenon DEF Forward, SomeFailed
<1> QED
  BY <1>1, Zenon DEF Forward, StaysAllowed, Allowed, AllowedNext

\* A closure is run by the one delivery, or the builder, that claimed its key.
LEMMA CallbackStep ==
  ASSUME CallbackInv, StepOK, StaysAllowed
  PROVE  CallbackInv'
<1> DEFINE Once(s) == \A i, j \in s : i[1] = j[1] => i = j
           Clear == \A g \in Generations : InvokeOK(g)
<1>0. /\ Once(invoked) /\ Clear
      /\ \A i \in invoked : i[1] \in markers /\ Allowed(i[1]) /\ AllowedNext(i[1])
  BY Zenon DEF CallbackInv, StaysAllowed
<1> SUFFICES /\ Once(invoked') /\ \A g \in Generations : InvokeOK(g)'
             /\ \A i \in invoked' : i[1] \in markers' /\ AllowedNext(i[1])
  BY Zenon DEF CallbackInv, Allowed, AllowedNext
<1>r. ASSUME NEW g \in Generations, dels'[g].kind \in markers', AllowedNext(dels'[g].kind),
             \A i \in invoked' : i[1] # dels'[g].kind,
             \A h \in Generations : dels'[h].pc = "invoke" /\ dels'[h].kind = dels'[g].kind => h = g
      PROVE  InvokeOK(g)'
  BY <1>r, Zenon DEF InvokeOK, Allowed, AllowedNext
<1>1. CASE markers \subseteq markers' /\ invoked' = invoked /\ NoNewInvoke
  <2>1. ASSUME NEW g \in Generations, dels'[g].pc = "invoke"
        PROVE  InvokeOK(g)'
    <3>1. dels'[g] = dels[g] /\ InvokeOK(g)
      BY <1>0, <1>1, <2>1, Zenon DEF NoNewInvoke
    <3>2. /\ dels[g].kind \in markers /\ Allowed(dels[g].kind)
          /\ \A i \in invoked : i[1] # dels[g].kind
          /\ \A h \in Generations : dels[h].pc = "invoke" /\ dels[h].kind = dels[g].kind => h = g
      BY <2>1, <3>1, Zenon DEF InvokeOK
    <3>3. \A h \in Generations : dels'[h].pc = "invoke" /\ dels'[h].kind = dels[g].kind => h = g
      BY <1>1, <3>2, Zenon DEF NoNewInvoke
    <3>4. AllowedNext(dels[g].kind)
      BY <3>1, <3>2, Zenon DEF StaysAllowed
    <3> QED
      BY <1>1, <1>r, <3>1, <3>2, <3>3, <3>4, Zenon
  <2> QED
    BY <1>0, <1>1, <2>1, Zenon DEF InvokeOK
<1>2. ASSUME NEW g \in Generations, Claims(g)
      PROVE  /\ Once(invoked') /\ \A h \in Generations : InvokeOK(h)'
             /\ \A i \in invoked' : i[1] \in markers' /\ AllowedNext(i[1])
  <2> DEFINE k == dels'[g].kind
  <2>1. /\ k \notin markers /\ AllowedNext(k) /\ markers' = markers \cup {k} /\ invoked' = invoked
        /\ \A h \in Generations \ {g} : dels'[h] = dels[h]
    BY <1>2, Zenon DEF Claims, StaysAllowed
  <2>2. \A i \in invoked : i[1] # k
    BY <1>0, <2>1, Zenon
  <2>3. ASSUME NEW h \in Generations, h # g, dels'[h].pc = "invoke"
        PROVE  /\ dels'[h] = dels[h] /\ dels[h].kind # k
               /\ InvokeOK(h)
    BY <1>0, <2>1, <2>3, Zenon DEF InvokeOK
  <2>4. InvokeOK(g)'
    BY <1>r, <2>1, <2>2, <2>3, Zenon
  <2>5. ASSUME NEW h \in Generations, h # g, dels'[h].pc = "invoke"
        PROVE  InvokeOK(h)'
    <3>1. /\ dels[h].kind \in markers /\ Allowed(dels[h].kind)
          /\ \A i \in invoked : i[1] # dels[h].kind
          /\ \A j \in Generations : dels[j].pc = "invoke" /\ dels[j].kind = dels[h].kind => j = h
      BY <2>3, <2>5, Zenon DEF InvokeOK
    <3>2. AllowedNext(dels[h].kind)
      BY <3>1, Zenon DEF StaysAllowed
    <3>3. \A j \in Generations : dels'[j].pc = "invoke" /\ dels'[j].kind = dels[h].kind => j = h
      BY <2>1, <2>3, <2>5, <3>1, Zenon
    <3>4. dels'[h] = dels[h] /\ dels[h].kind \in markers' /\ invoked' = invoked
      BY <2>1, <2>3, <2>5, <3>1, Zenon
    <3> QED
      BY <1>r, <3>1, <3>2, <3>3, <3>4, Zenon
  <2> QED
    BY <1>0, <2>1, <2>4, <2>5, Zenon DEF InvokeOK
<1>3. ASSUME NEW g \in Generations, Invokes(g)
      PROVE  /\ Once(invoked') /\ \A h \in Generations : InvokeOK(h)'
             /\ \A i \in invoked' : i[1] \in markers' /\ AllowedNext(i[1])
  <2> DEFINE k == dels[g].kind
  <2>1. /\ k \in markers /\ Allowed(k) /\ \A i \in invoked : i[1] # k
        /\ \A h \in Generations : dels[h].pc = "invoke" /\ dels[h].kind = k => h = g
    BY <1>0, <1>3, Zenon DEF Invokes, InvokeOK
  <2>2. /\ dels'[g].pc # "invoke" /\ markers' = markers /\ invoked' = invoked \cup {<<k, g>>}
        /\ \A h \in Generations \ {g} : dels'[h] = dels[h]
    BY <1>3, Zenon DEF Invokes
  <2>3. AllowedNext(k)
    BY <2>1, Zenon DEF StaysAllowed
  <2>4. ASSUME NEW h \in Generations, dels'[h].pc = "invoke"
        PROVE  InvokeOK(h)'
    <3>1. h # g /\ dels'[h] = dels[h]
      BY <2>2, <2>4, Zenon
    <3>2. /\ dels[h].kind \in markers /\ Allowed(dels[h].kind)
          /\ \A i \in invoked : i[1] # dels[h].kind
          /\ \A j \in Generations : dels[j].pc = "invoke" /\ dels[j].kind = dels[h].kind => j = h
      BY <1>0, <2>4, <3>1, Zenon DEF InvokeOK
    <3>3. AllowedNext(dels[h].kind) /\ dels[h].kind # k
      BY <2>1, <2>4, <3>1, <3>2, Zenon DEF StaysAllowed
    <3>4. \A i \in invoked' : i[1] # dels[h].kind
      BY <2>2, <3>2, <3>3
    <3>5. \A j \in Generations : dels'[j].pc = "invoke" /\ dels'[j].kind = dels[h].kind => j = h
      BY <2>2, <3>2, Zenon
    <3> QED
      BY <1>r, <2>2, <3>1, <3>2, <3>3, <3>4, <3>5, Zenon
  <2>5. Once(invoked') /\ \A i \in invoked' : i[1] \in markers' /\ AllowedNext(i[1])
    BY <1>0, <2>1, <2>2, <2>3
  <2> QED
    BY <2>4, <2>5, Zenon DEF InvokeOK
<1>4. ASSUME NEW k \in CallbackKinds, InvokesInline(k)
      PROVE  /\ Once(invoked') /\ \A h \in Generations : InvokeOK(h)'
             /\ \A i \in invoked' : i[1] \in markers' /\ AllowedNext(i[1])
  <2>1. /\ k \notin markers /\ AllowedNext(k) /\ dels' = dels
        /\ markers' = markers \cup {k} /\ invoked' = invoked \cup {<<k, NoGeneration>>}
    BY <1>4, Zenon DEF InvokesInline, StaysAllowed
  <2>2. ASSUME NEW h \in Generations, dels[h].pc = "invoke"
        PROVE  InvokeOK(h)'
    <3>1. /\ dels[h].kind \in markers /\ Allowed(dels[h].kind)
          /\ \A i \in invoked : i[1] # dels[h].kind
          /\ \A j \in Generations : dels[j].pc = "invoke" /\ dels[j].kind = dels[h].kind => j = h
      BY <1>0, <2>2, Zenon DEF InvokeOK
    <3>2. AllowedNext(dels[h].kind)
      BY <3>1, Zenon DEF StaysAllowed
    <3> QED
      BY <1>r, <2>1, <2>2, <3>1, <3>2
  <2>3. Once(invoked') /\ \A i \in invoked' : i[1] \in markers' /\ AllowedNext(i[1])
    BY <1>0, <2>1
  <2> QED
    BY <2>1, <2>2, <2>3, Zenon DEF InvokeOK
<1> QED
  BY <1>1, <1>2, <1>3, <1>4, Zenon DEF StepOK, CallbacksMove

\* The types are kept.
LEMMA TypesStep ==
  ASSUME Types, StepOK, Forward
  PROVE  Types'
<1>1. msgs' \in [Envelopes -> Sent] /\ dels' \in [Generations -> Delivery]
  BY Zenon DEF StepOK, MessagesMove, DeliveriesMove
<1>2. /\ facts' \subseteq Published /\ closures' \subseteq Callbacks
      /\ builder' \in [pc: BuilderSteps, next: 1..(N + 1)]
  BY Zenon DEF StepOK, FactsMove, BuilderMove
<1>3. batch' \in BatchStates /\ receipts' \in [Members -> MemberReceipts] /\ rejected' \in BOOLEAN
  BY Zenon DEF Forward
<1>4. ASSUME NEW g \in Generations, dels'[g].pc = "callbacks"
      PROVE  dels'[g].work # <<>>
  <2>1. \/ dels'[g] = dels[g] \/ dels'[g] = Over \/ Begins(g) \/ GoesOn(g)
    BY Zenon DEF StepOK, DeliveriesMove
  <2>2. CASE dels'[g] = dels[g]
    BY <1>4, <2>2, Zenon DEF Types
  <2>3. CASE dels'[g] = Over
    BY <1>4, <2>3 DEF Over
  <2>4. CASE Begins(g)
    BY <1>4, <2>4 DEF Begins, NewDelivery
  <2>5. CASE GoesOn(g)
    BY <1>4, <2>5, Zenon DEF GoesOn
  <2> QED
    BY <2>1, <2>2, <2>3, <2>4, <2>5, Zenon
<1> QED
  BY <1>1, <1>2, <1>3, <1>4, Zenon DEF Types

\* Envelopes and deliveries of members keep naming one.
LEMMA TransportStepOK ==
  ASSUME TransportInv, StepOK
  PROVE  TransportInv'
<1>1. /\ \A e \in Envelopes : msgs'[e].kind = "member" => msgs'[e].member \in Members
      /\ builder'.pc \in {"new", "dispatch", "reject", "cancel"} => builder'.next \in Members
  BY Zenon DEF StepOK, MessagesMove, BuilderMove
<1>2. ASSUME NEW g \in Generations
      PROVE  /\ dels'[g].kind = "member" => dels'[g].member \in Members
             /\ g \in Running' => dels'[g].env \in Envelopes
  <2>1. CASE dels'[g] = dels[g]
    BY <2>1, Zenon DEF TransportInv, Running
  <2>2. CASE dels'[g] = Over
    BY <2>2 DEF Over, Running
  <2>3. CASE Begins(g)
    <3>1. PICK e \in Envelopes, home \in BOOLEAN : dels'[g] = NewDelivery(e, home)
      BY <2>3, Zenon DEF Begins
    <3>2. dels'[g].env = e /\ dels'[g].kind = msgs[e].kind /\ dels'[g].member = msgs[e].member
      BY <3>1 DEF NewDelivery
    <3> QED
      BY <3>2, Zenon DEF TransportInv
  <2>4. CASE GoesOn(g)
    BY <2>4, Zenon DEF GoesOn, SameDelivery, TransportInv
  <2> QED
    BY <2>1, <2>2, <2>3, <2>4, Zenon DEF StepOK, DeliveriesMove
<1>3. \A g \in Running' : g \in Generations
  BY Zenon DEF Running
<1> QED
  BY <1>1, <1>2, <1>3, Zenon DEF TransportInv

\* The receipt of a delivery that confirms its commit stays.
LEMMA ConfirmStep ==
  ASSUME ConfirmInv, StepOK, Forward
  PROVE  ConfirmInv'
<1>1. ASSUME NEW g \in Generations
      PROVE  ConfirmOK(g)'
  <2>1. CASE dels'[g] = dels[g]
    <3> SUFFICES ASSUME dels[g].pc = "confirm" PROVE ConfirmOK(g)'
      BY <2>1, Zenon DEF ConfirmOK
    <3>1. /\ dels[g].kind = "member" /\ dels[g].member \in Members /\ Provenance
          /\ batch.outcome[dels[g].member] = Outcome(g)
      BY Zenon DEF ConfirmInv, ConfirmOK
    <3>2. Outcome(g)' = Outcome(g) /\ Outcome(g) # "pending"
      BY <2>1, Zenon DEF Outcome
    <3>3. /\ batch'.outcome[dels[g].member] = batch.outcome[dels[g].member]
          /\ receipts'[dels[g].member] = receipts[dels[g].member]
      BY <3>1, <3>2, Zenon DEF Forward
    <3>4. LET r == receipts[dels[g].member] IN
          r.gen = g /\ r.env = dels[g].env /\ r.attempt = dels[g].attempt /\ r.outcome = Outcome(g)
      BY Zenon DEF ConfirmInv, ConfirmOK
    <3> QED
      BY <2>1, <3>1, <3>2, <3>3, <3>4, Zenon DEF ConfirmOK
  <2>2. CASE dels'[g] = Over
    BY <2>2 DEF Over, ConfirmOK
  <2>3. CASE Begins(g)
    BY <2>3 DEF Begins, NewDelivery, ConfirmOK
  <2>4. CASE GoesOn(g)
    BY <2>4, Zenon DEF GoesOn
  <2> QED
    BY <2>1, <2>2, <2>3, <2>4, Zenon DEF StepOK, DeliveriesMove
<1> QED
  BY <1>1, Zenon DEF ConfirmInv

\* A fact the store has decided stays decided.
LEMMA FactStep ==
  ASSUME StoreInv, FactInv, StepOK, Forward, StoreMovesTo
  PROVE  FactInv'
<1>1. ASSUME NEW f, FactOK(f)
      PROVE  FactOK(f)'
  <2>0. f.member \in Members
    BY <1>1, Zenon DEF FactOK
  <2>1. f.kind \in {"succeeded", "failed"} => batch'.outcome[f.member] = f.kind
    BY <1>1, <2>0, Zenon DEF FactOK, Forward
  <2>2. f.kind = "completed" => AllSettled' /\ (batch'.cancelled => rejected')
    <3> SUFFICES ASSUME f.kind = "completed" PROVE AllSettled' /\ (batch'.cancelled => rejected')
      BY Zenon
    <3>1. AllSettled /\ (batch.cancelled => rejected)
      BY <1>1, Zenon DEF FactOK
    <3>2. AllSettled'
      BY <3>1, Zenon DEF AllSettled, Forward
    <3>3. batch'.cancelled /\ ~rejected' => batch.cancelled
      <4>1. CASE batch.completed
        BY <4>1, Zenon DEF Forward
      <4>2. CASE ~batch.completed
        <5>1. \A m \in Members : ~SettledNow(m)
          BY <3>1, Zenon DEF SettledNow, AllSettled
        <5> QED
          BY <4>2, <5>1, Zenon DEF StoreMovesTo, Keeps, Ends
      <4> QED
        BY <4>1, <4>2, Zenon
    <3> QED
      BY <3>1, <3>2, <3>3, Zenon DEF Forward
  <2>3. f.kind = "cancelled" => batch'.cancelled
    BY <1>1, Zenon DEF FactOK, Forward
  <2>4. Known(receipts[f.member]) => receipts'[f.member] = receipts[f.member]
    BY <2>0, Zenon DEF StoreInv, ReceiptOK, Forward
  <2> QED
    BY <1>1, <2>0, <2>1, <2>2, <2>3, <2>4, Zenon DEF FactOK, Known
<1> QED
  BY <1>1, Zenon DEF FactInv, StepOK, FactsMove

\* The whole invariant survives a step of this kind.
LEMMA InvStep ==
  ASSUME Counting, Inv, StepOK
  PROVE  Inv' /\ Forward
<1>0. StoreMovesTo /\ BuilderMove
  BY StoreMoves, Zenon DEF Inv, StepOK
<1>1. Forward
  BY <1>0, ForwardStep, Zenon DEF Inv
<1>2. Types' /\ TransportInv' /\ StoreInv'
  BY <1>0, <1>1, TypesStep, TransportStepOK, StoreStep, Zenon DEF Inv
<1>3. ConfirmInv' /\ FactInv'
  BY <1>0, <1>1, ConfirmStep, FactStep, Zenon DEF Inv
<1>4. CallbackInv'
  BY <1>1, AllowedStep, CallbackStep, Zenon DEF Inv
<1> QED
  BY <1>1, <1>2, <1>3, <1>4, Zenon DEF Inv

\* Initially there is nothing.
LEMMA InvInit == Init => Inv
<1> SUFFICES ASSUME Init PROVE Inv
  BY Zenon
<1> USE BatchAssumption, TransportAssumption, RuntimeAssumption
<1>1. /\ msgs = [e \in Envelopes |-> [kind |-> "none", member |-> 0, state |-> "none", attempt |-> 0, token |-> 0]]
      /\ dels = [g \in Generations |-> Free]
  BY DEF Init, TransportInit, Message, NoGeneration
<1>2. Free.pc = "free" /\ Free.kind = "none" /\ Free.facts = {}
  BY Zenon DEF Free, Over
<1>3. /\ markers = {} /\ closures = {} /\ facts = {} /\ invoked = {} /\ rejected = FALSE
      /\ builder = [pc |-> "new", next |-> 1]
      /\ batch = [created |-> FALSE, outcome |-> [m \in Members |-> "pending"],
                  completed |-> FALSE, cancelled |-> FALSE]
  BY Zenon DEF Init, RuntimeInit
<1>4. ASSUME NEW m \in Members
      PROVE  /\ receipts[m] \in MemberReceipts /\ ~Known(receipts[m])
             /\ ~receipts[m].completes
  <2>1. receipts[m] = [gen |-> NoGeneration, env |-> 0, attempt |-> 0, outcome |-> "none",
                       completes |-> FALSE, cancels |-> FALSE]
    BY Zenon DEF Init, MemberReceipt, NoReceipt, Known
  <2> QED
    BY <2>1 DEF MemberReceipts, Known
<1>5. receipts \in [Members -> MemberReceipts]
  <2>1. receipts = [m \in Members |-> receipts[m]]
    BY Zenon DEF Init
  <2> QED
    BY <1>4, <2>1, Zenon
<1>6. 1 \in Members /\ 1 \in 1..(N + 1)
  BY DEF Members
<1>7. Types
  <2>1. msgs \in [Envelopes -> Sent]
    BY <1>1, Zenon DEF Sent, MessageType, NoGeneration
  <2>2. <<>> \in Seq(CallbackKinds)
    OBVIOUS
  <2>3. Free \in Delivery
    <3>1. Over \in Delivery
      BY <2>2, Zenon DEF Over, Delivery, DeliveryType, NoGeneration, Errors
    <3> QED
      BY <3>1, Zenon DEF Free, Delivery, DeliveryType
  <2>4. batch \in BatchStates /\ builder \in [pc: BuilderSteps, next: 1..(N + 1)]
    BY <1>3, <1>6, Zenon DEF BatchStates, BuilderSteps
  <2> QED
    BY <1>1, <1>2, <1>3, <1>5, <2>1, <2>3, <2>4, Zenon DEF Types
<1>8. TransportInv
  BY <1>1, <1>2, <1>3, <1>6, Zenon DEF TransportInv, Running
<1>9. StoreInv
  BY <1>3, <1>4, Zenon DEF StoreInv, ReceiptOK
<1>10. ConfirmInv
  BY <1>1, <1>2, Zenon DEF ConfirmInv, ConfirmOK
<1>11. FactInv
  BY <1>1, <1>2, <1>3, Zenon DEF FactInv, AllFacts
<1>12. CallbackInv
  BY <1>1, <1>2, <1>3, Zenon DEF CallbackInv, InvokeOK
<1> QED
  BY <1>7, <1>8, <1>9, <1>10, <1>11, <1>12, Zenon DEF Inv

-----------------------------------------------------------------------------
(* What the invariant says.                                                *)

\* What the invariant says of TerminalOwner.
LEMMA OwnerFollows ==
  ASSUME Counting, Inv
  PROVE  TerminalOwner
<1> DEFINE owners == {m \in Members : receipts[m].completes}
<1>1. StoreInv
  BY Zenon DEF Inv
<1>2. Cardinality(owners) <= 1
  <2>1. CASE owners = {}
    <3>1. Cardinality(owners) = 0
      BY <2>1, Zenon DEF Counting
    <3> QED
      BY <3>1
  <2>2. CASE owners # {}
    <3>1. PICK m \in Members : receipts[m].completes
      BY <2>2, Zenon
    <3>2. owners = {m}
      BY <1>1, <3>1, Zenon DEF StoreInv
    <3>3. Cardinality({m}) = 1
      BY <3>1, Zenon DEF Counting
    <3> QED
      BY <3>2, <3>3
  <2> QED
    BY <2>1, <2>2, Zenon
<1>3. Provenance /\ batch.completed /\ ~rejected => \E m \in owners : receipts[m].cancels = batch.cancelled
  BY <1>1, Zenon DEF StoreInv
<1> QED
  BY <1>2, <1>3, Zenon DEF TerminalOwner

\* The two counters, as the conditions they stand for.
LEMMA CountersSay ==
  ASSUME Counting
  PROVE  (Pending(batch) = 0 <=> AllSettled) /\ (FailedCount(batch) > 0 <=> SomeFailed)
<1>1. Pending(batch) = 0 <=> AllSettled
  <2> DEFINE S == {m \in Members : batch.outcome[m] = "pending"}
  <2>1. Cardinality(S) = 0 <=> S = {}
    BY Zenon DEF Counting
  <2> QED
    BY <2>1, Zenon DEF Pending, AllSettled
<1>2. FailedCount(batch) > 0 <=> SomeFailed
  <2> DEFINE S == {m \in Members : batch.outcome[m] = "failed"}
  <2>1. Cardinality(S) \in Nat /\ (Cardinality(S) = 0 <=> S = {})
    BY Zenon DEF Counting
  <2>2. S = {} <=> ~SomeFailed
    BY Zenon DEF SomeFailed
  <2>3. FailedCount(batch) = Cardinality(S)
    BY Zenon DEF FailedCount
  <2> HIDE DEF S
  <2> QED
    BY <2>1, <2>2, <2>3
<1> QED
  BY <1>1, <1>2, Zenon

\* What the invariant says of FactsTruthful.
LEMMA FactsFollow ==
  ASSUME Counting, Inv
  PROVE  FactsTruthful
<1>1. \A f \in facts : FactOK(f)
  BY Zenon DEF Inv, FactInv, AllFacts
<1>2. AllSettled => Pending(batch) = 0
  BY CountersSay, Zenon
<1> QED
  BY <1>1, <1>2, Zenon DEF FactsTruthful, FactOK

\* What the invariant says of CallbackAtMostOnce.
LEMMA CallbacksFollow ==
  ASSUME Counting, Inv
  PROVE  CallbackAtMostOnce
<1>1. /\ \A i, j \in invoked : i[1] = j[1] => i = j
      /\ \A i \in invoked : Allowed(i[1])
  BY Zenon DEF Inv, CallbackInv
<1>2. SomeFailed => FailedCount(batch) > 0
  BY CountersSay, Zenon
<1> QED
  BY <1>1, <1>2, Zenon DEF CallbackAtMostOnce, CallbackReady, Allowed


-----------------------------------------------------------------------------
(* Every action is such a step.  First the parts that an action leaves     *)
(* alone, and the operators the handlers are built from.                   *)

\* A step that leaves the store alone.
LEMMA StoreStill ==
  ASSUME batch' = batch, receipts' = receipts, rejected' = rejected
  PROVE  BatchMove
BY Zenon DEF BatchMove, Stays

\* A step that leaves the queue alone.
LEMMA MessagesStill ==
  ASSUME Types, TransportInv, msgs' = msgs
  PROVE  MessagesMove
BY Zenon DEF MessagesMove, Types, TransportInv

\* A step that leaves all deliveries alone.
LEMMA DeliveriesStill ==
  ASSUME Types, dels' = dels
  PROVE  DeliveriesMove /\ NoNewInvoke
BY Zenon DEF DeliveriesMove, NoNewInvoke, Types

\* A step that publishes nothing.
LEMMA FactsStill ==
  ASSUME Types, facts' = facts, \A g \in Generations : dels'[g].facts \subseteq dels[g].facts
  PROVE  FactsMove
<1>1. AllFacts' \subseteq AllFacts
  BY Zenon DEF AllFacts
<1> QED
  BY <1>1, Zenon DEF FactsMove, Types

\* A step that neither claims nor runs a closure.
LEMMA CallbacksStill ==
  ASSUME markers \subseteq markers', invoked' = invoked, NoNewInvoke
  PROVE  CallbacksMove
BY Zenon DEF CallbacksMove

\* A step that leaves the builder alone.
LEMMA BuilderStill ==
  ASSUME Inv, builder' = builder, rejected' = rejected
  PROVE  BuilderMove
BY Zenon DEF BuilderMove, Inv, Types, TransportInv, StoreInv

\* A new envelope is dispatched, if the dispatch takes effect.
LEMMA DispatchMoves ==
  ASSUME Types, TransportInv, NEW kind \in Kinds, NEW n \in Members \cup {0}, NEW db,
         kind = "member" => n \in Members, BusDispatch(kind, n, db)
  PROVE  MessagesMove
<1>1. CASE db = "failed"
  BY <1>1, MessagesStill, Zenon DEF BusDispatch
<1>2. CASE db # "failed"
  <2> PICK e \in Unused : msgs' = [msgs EXCEPT ![e] = Message(kind, n)]
    BY <1>2, Zenon DEF BusDispatch
  <2>1. e \in Envelopes
    BY Zenon DEF Unused
  <2>2. Message(kind, n) \in Sent /\ Message(kind, n).kind = kind /\ Message(kind, n).member = n
    BY Zenon DEF Message, Sent, MessageType, NoGeneration
  <2>3. msgs'[e] = Message(kind, n) /\ \A f \in Envelopes \ {e} : msgs'[f] = msgs[f]
    BY <2>1, Zenon DEF Types
  <2>4. msgs' \in [Envelopes -> Sent]
    BY <2>1, <2>2, Zenon DEF Types
  <2> QED
    BY <2>1, <2>2, <2>3, <2>4, Zenon DEF MessagesMove, TransportInv
<1> QED
  BY <1>1, <1>2, Zenon

\* A delivery goes on alone, in its handler.
Handles(g) ==
  /\ dels' \in [Generations -> Delivery]
  /\ \A h \in Generations \ {g} : dels'[h] = dels[h]
  /\ SameDelivery(dels'[g], dels[g])

\* The conditions a handler step has to meet.
LEMMA HandlerGoesOn ==
  ASSUME NEW g \in Running, Handles(g), dels'[g].pc = "callbacks" => dels'[g].work # <<>>, ConfirmOK(g)'
  PROVE  DeliveriesMove
<1>1. GoesOn(g)
  BY Zenon DEF GoesOn, Handles
<1> QED
  BY <1>1, Zenon DEF DeliveriesMove, Handles

\* The same for a step that claims no closure and confirms no commit.
LEMMA HandlerMoves ==
  ASSUME NEW g \in Running, Handles(g), dels'[g].pc = "callbacks" => dels'[g].work # <<>>,
         dels'[g].pc \notin {"confirm", "invoke"}
  PROVE  DeliveriesMove /\ NoNewInvoke
<1>1. ConfirmOK(g)'
  BY Zenon DEF ConfirmOK
<1>2. NoNewInvoke
  BY Zenon DEF NoNewInvoke, Handles
<1> QED
  BY <1>1, <1>2, HandlerGoesOn, Zenon

\* The deliveries d differ from those of this state in the handler of g.
Replaced(d, g, pc, err) ==
  /\ d \in [Generations -> Delivery]
  /\ \A h \in Generations \ {g} : d[h] = dels[h]
  /\ SameDelivery(d[g], dels[g]) /\ d[g].facts = dels[g].facts
  /\ d[g].pc = pc /\ d[g].err = err

\* Return: the handler is done with its delivery.
LEMMA ReturnHandles ==
  ASSUME Types, NEW g \in Generations, NEW err \in Errors
  PROVE  Replaced(Return(g, err), g, "settle", err)
<1> DEFINE r == [[[[dels[g] EXCEPT !.pc = "settle"] EXCEPT !.err = err] EXCEPT !.next = 0] EXCEPT !.work = <<>>]
<1>s. PICK d : d = Return(g, err)
  BY Zenon
<1>0. <<>> \in Seq(CallbackKinds) /\ dels[g] \in Delivery
  BY DEF Types
<1>1. d = [dels EXCEPT ![g] = r]
  BY <1>s, Zenon DEF Return, Types
<1>2. /\ r \in Delivery /\ SameDelivery(r, dels[g]) /\ r.facts = dels[g].facts
      /\ r.pc = "settle" /\ r.err = err
  BY <1>0, Zenon DEF Delivery, DeliveryType, SameDelivery
<1> HIDE DEF r
<1>3. Replaced(d, g, "settle", err)
  BY <1>1, <1>2, Zenon DEF Types, Replaced
<1> QED
  BY <1>s, <1>3, Zenon

\* Goto: the handler goes on to its next call.
LEMMA GotoHandles ==
  ASSUME Types, NEW g \in Generations, NEW pc \in Steps
  PROVE  Replaced(Goto(g, pc), g, pc, dels[g].err)
<1> DEFINE r == [dels[g] EXCEPT !.pc = pc]
<1>s. PICK d : d = Goto(g, pc)
  BY Zenon
<1>0. dels[g] \in Delivery
  BY Zenon DEF Types
<1>1. d = [dels EXCEPT ![g] = r]
  BY <1>s, Zenon DEF Goto, Types
<1>2. /\ r \in Delivery /\ SameDelivery(r, dels[g]) /\ r.facts = dels[g].facts
      /\ r.pc = pc /\ r.err = dels[g].err
  BY <1>0, Zenon DEF Delivery, DeliveryType, SameDelivery
<1> HIDE DEF r
<1>3. Replaced(d, g, pc, dels[g].err)
  BY <1>1, <1>2, Zenon DEF Types, Replaced
<1> QED
  BY <1>s, <1>3, Zenon

\* Publishing: what emit makes of deliveries d.
Emitted(g, d, positive, negative) ==
  /\ dels' \in [Generations -> Delivery]
  /\ \A h \in Generations \ {g} : dels'[h] = d[h]
  /\ SameDelivery(dels'[g], d[g])
  /\ dels'[g].pc = d[g].pc /\ dels'[g].err = d[g].err /\ dels'[g].work = d[g].work
  /\ dels'[g].facts \subseteq d[g].facts \cup positive
  /\ facts' \subseteq facts \cup positive \cup negative

\* emit changes the kept and the published facts, and nothing else.
LEMMA EmitHandles ==
  ASSUME NEW g \in Generations, NEW d \in [Generations -> Delivery],
         NEW positive \in SUBSET Positives, NEW negative, emit(g, d, positive, negative)
  PROVE  Emitted(g, d, positive, negative)
<1>1. CASE Deferring
  <2> DEFINE r == [d[g] EXCEPT !.facts = d[g].facts \cup positive]
  <2>1. dels' = [d EXCEPT ![g] = r] /\ facts' = facts \cup negative
    BY <1>1, Zenon DEF emit
  <2>2. /\ r \in Delivery /\ SameDelivery(r, d[g]) /\ r.facts = d[g].facts \cup positive
        /\ r.pc = d[g].pc /\ r.err = d[g].err /\ r.work = d[g].work
    BY Zenon DEF Delivery, DeliveryType, SameDelivery
  <2> HIDE DEF r
  <2> QED
    BY <2>1, <2>2, Zenon DEF Emitted
<1>2. CASE ~Deferring
  BY <1>2, Zenon DEF emit, SameDelivery, Emitted
<1> QED
  BY <1>1, <1>2, Zenon

\* The facts of a step that publishes some.
Publishes(g, positive, negative) ==
  /\ \A h \in Generations \ {g} : dels'[h].facts = dels[h].facts
  /\ dels'[g].facts \subseteq dels[g].facts \cup positive
  /\ facts' \subseteq facts \cup positive \cup negative

\* What emit publishes is allowed when the store has decided it.
LEMMA EmitFacts ==
  ASSUME Types, NEW g \in Generations, NEW positive, NEW negative, Publishes(g, positive, negative),
         \A f \in positive \cup negative : f \in Published /\ FactOK(f)'
  PROVE  FactsMove
<1>1. facts' \subseteq Published
  BY Zenon DEF Types, Publishes
<1>2. AllFacts' \subseteq AllFacts \cup (positive \cup negative)
  <2> SUFFICES ASSUME NEW f \in AllFacts', f \notin positive \cup negative PROVE f \in AllFacts
    BY Zenon
  <2>1. CASE f \in facts'
    BY <2>1, Zenon DEF AllFacts, Publishes
  <2>2. ASSUME NEW h \in Generations, f \in dels'[h].facts
        PROVE  f \in AllFacts
    BY <2>2, Zenon DEF AllFacts, Publishes
  <2> QED
    BY <2>1, <2>2, Zenon DEF AllFacts
<1> QED
  BY <1>1, <1>2, Zenon DEF FactsMove

\* Records a handler puts in place of its delivery d.
Like(r, d) == r \in Delivery /\ SameDelivery(r, d) /\ r.facts = d.facts /\ r.err = d.err

\* A delivery that is about to dispatch callbacks, or has none to dispatch.
LEMMA CallbackRecord ==
  ASSUME NEW d \in Delivery, NEW ks \in Seq(CallbackKinds)
  PROVE  /\ Like(Callback(d, ks), d) /\ Callback(d, ks).work = ks
         /\ Callback(d, ks).pc = IF ks = <<>> THEN "settle" ELSE "callbacks"
<1> DEFINE pc == IF ks = <<>> THEN "settle" ELSE "callbacks"
           S == Seq(CallbackKinds)
<1>1. pc \in Steps \cup {"free", "start", "settle", "over"}
  BY Zenon DEF Steps
<1>2. Callback(d, ks) = [d EXCEPT !.pc = pc, !.work = ks]
  BY Zenon DEF Callback
<1>3. ks \in S
  BY Zenon
<1> HIDE DEF pc, S
<1>4. [d EXCEPT !.pc = pc, !.work = ks] \in Delivery
  BY <1>1, <1>3, Zenon DEF Delivery, DeliveryType, S
<1>5. /\ [d EXCEPT !.pc = pc, !.work = ks].pc = pc /\ [d EXCEPT !.pc = pc, !.work = ks].work = ks
      /\ Like([d EXCEPT !.pc = pc, !.work = ks], d)
  BY <1>4, Zenon DEF Delivery, DeliveryType, Like, SameDelivery
<1> QED
  BY <1>2, <1>5, Zenon DEF pc

\* markDeliveryTransitionCommitted changes a mark only.
LEMMA MarkedRecord ==
  ASSUME Types, NEW g \in Generations
  PROVE  /\ Like(markDeliveryTransitionCommitted(g), dels[g])
         /\ markDeliveryTransitionCommitted(g).next = dels[g].next
<1>1. ASSUME NEW d \in Delivery
      PROVE  /\ Like([d EXCEPT !.committed = Provenance], d)
             /\ [d EXCEPT !.committed = Provenance].next = d.next
  <2>1. Provenance \in BOOLEAN
    BY TransportAssumption, Zenon
  <2> QED
    BY <2>1, ZenonT(60) DEF Like, Delivery, DeliveryType, SameDelivery
<1>2. dels[g] \in Delivery
  BY Zenon DEF Types
<1> QED
  BY <1>1, <1>2, Zenon DEF markDeliveryTransitionCommitted

\* Two such changes in a row are one.
LEMMA LikeTrans ==
  ASSUME NEW d1, NEW d2, NEW d3, Like(d1, d2), Like(d2, d3)
  PROVE  Like(d1, d3)
BY Zenon DEF Like, SameDelivery

\* A record that replaces its delivery.
LEMMA PutHandles ==
  ASSUME Types, NEW g \in Generations, NEW r, Like(r, dels[g]), dels' = [dels EXCEPT ![g] = r]
  PROVE  /\ Handles(g) /\ dels'[g] = r
         /\ \A h \in Generations : dels'[h].facts = dels[h].facts
<1>1. dels \in [Generations -> Delivery] /\ r \in Delivery
  BY Zenon DEF Types, Like
<1> QED
  BY <1>1, Zenon DEF Handles, Like

\* Returning to the driver.
LEMMA ReturnMoves ==
  ASSUME Types, NEW g \in Running, NEW err \in Errors, dels' = Return(g, err)
  PROVE  /\ DeliveriesMove /\ NoNewInvoke
         /\ \A h \in Generations : dels'[h].facts = dels[h].facts
<1>0. g \in Generations
  BY Zenon DEF Running
<1>1. /\ Handles(g) /\ \A h \in Generations : dels'[h].facts = dels[h].facts
      /\ dels'[g].pc = "settle"
  <2>1. Replaced(dels', g, "settle", err)
    BY <1>0, ReturnHandles, Zenon
  <2> QED
    BY <2>1, Zenon DEF Replaced, Handles
<1> QED
  BY <1>1, HandlerMoves, Zenon

\* What is left of a step of a worker once its parts are known.
LEMMA WorkerStep ==
  ASSUME Inv, BatchMove, rejected' = rejected, MessagesMove, DeliveriesMove, FactsMove, CallbacksMove,
         closures' \subseteq closures, builder' = builder
  PROVE  StepOK
<1>1. closures \subseteq Callbacks /\ BuilderMove
  BY BuilderStill, Zenon DEF Inv, Types
<1> QED
  BY <1>1, Zenon DEF StepOK

\* The same for a step that neither claims nor runs a closure.
LEMMA HandlerStep ==
  ASSUME Inv, BatchMove, rejected' = rejected, MessagesMove, DeliveriesMove, NoNewInvoke, FactsMove,
         markers \subseteq markers', invoked' = invoked, closures' \subseteq closures, builder' = builder
  PROVE  StepOK
<1>1. CallbacksMove
  BY CallbacksStill, Zenon
<1> QED
  BY <1>1, WorkerStep, Zenon

\* A fact of a member's delivery.
FactOf(f, g, kind) ==
  /\ f = Fact(g, kind) /\ f \in Published
  /\ f.kind = kind /\ f.member = dels[g].member /\ f.env = dels[g].env /\ f.attempt = dels[g].attempt

\* The facts of a member's delivery have their types.
LEMMA MemberFacts ==
  ASSUME Types, TransportInv, NEW g \in Running, dels[g].kind = "member"
  PROVE  /\ \A kind \in FactKinds : FactOf(Fact(g, kind), g, kind)
         /\ \A kind \in {"succeeded", "completed"} : Fact(g, kind) \in Positives
<1>0. g \in Generations
  BY Zenon DEF Running
<1>1. dels[g].member \in Members /\ dels[g].env \in Envelopes
  BY <1>0, Zenon DEF TransportInv
<1>2. dels[g].attempt \in Nat
  BY <1>0, Zenon DEF Types, Delivery, DeliveryType
<1>3. \A kind \in FactKinds : FactOf(Fact(g, kind), g, kind)
  BY <1>1, <1>2, Zenon DEF Fact, FactOf, Published, FactType
<1>4. \A kind \in {"succeeded", "completed"} : Fact(g, kind) \in Positives
  BY <1>1, <1>2, Zenon DEF Fact, Positives
<1> QED
  BY <1>3, <1>4, Zenon

\* A delivery of a member, in progress.
LEMMA MemberDelivery ==
  ASSUME TransportInv, NEW g \in Generations, NEW pc \in Steps \cup {"start"}, At(g, "member", pc)
  PROVE  g \in Running /\ dels[g].kind = "member" /\ dels[g].member \in Members /\ dels[g].env \in Envelopes
<1>1. g \in Running /\ dels[g].kind = "member"
  BY Zenon DEF At, Running, Steps
<1> QED
  BY <1>1, Zenon DEF TransportInv

\* A step that leaves the store alone keeps facts decided.
LEMMA FactStill ==
  ASSUME batch' = batch, receipts' = receipts, rejected' = rejected, NEW f, FactOK(f)
  PROVE  FactOK(f)'
BY Zenon DEF FactOK, AllSettled, Known

\* recoverCommittedBatchTransition: only the exact owner of the receipt
\* publishes, and the end of the batch only when the receipt owns that too.
LEMMA RecoverMoves ==
  ASSUME Counting, Inv, NEW g \in Running, dels[g].kind = "member", NEW m \in Members, m = dels[g].member,
         Known(receipts[m]), recoverCommittedBatchTransition(g),
         batch' = batch, receipts' = receipts, rejected' = rejected
  PROVE  DeliveriesMove /\ NoNewInvoke /\ FactsMove
<1> DEFINE r == receipts[m]
           exact == transitionReceiptOwnsRecoveredFacts(g, r)
           own == IF exact /\ r.outcome = "succeeded" THEN {Fact(g, "succeeded")} ELSE {}
           terminal == IF /\ exact /\ r.completes /\ ~r.cancels
                          /\ batch.completed /\ ~batch.cancelled /\ Pending(batch) = 0
                       THEN {Fact(g, "completed")} ELSE {}
           err == IF r.outcome = "failed" THEN "permanent" ELSE "nil"
<1>0. Types /\ TransportInv /\ StoreInv /\ g \in Generations
  BY Zenon DEF Inv, Running
<1>1. CASE dels' = Return(g, "uncommitted") /\ facts' = facts
  <2>1. "uncommitted" \in Errors
    BY Zenon DEF Errors
  <2> QED
    BY <1>0, <1>1, <2>1, ReturnMoves, FactsStill, Zenon
<1>2. CASE emit(g, Return(g, err), own \cup terminal, {})
  <2>1. PICK d : d = Return(g, err)
    BY Zenon
  <2>2. err \in Errors
    BY Zenon DEF Errors
  <2>3. /\ d \in [Generations -> Delivery]
        /\ \A h \in Generations \ {g} : d[h] = dels[h]
        /\ SameDelivery(d[g], dels[g]) /\ d[g].facts = dels[g].facts /\ d[g].pc = "settle"
    <3> HIDE DEF err
    <3>1. Replaced(d, g, "settle", err)
      BY <1>0, <2>1, <2>2, ReturnHandles, Zenon
    <3> QED
      BY <3>1, Zenon DEF Replaced
  <2>4. PICK p : p = own \cup terminal
    BY Zenon
  <2>5. p \in SUBSET Positives
    BY <1>0, <2>4, MemberFacts, Zenon
  <2>6. Emitted(g, d, p, {})
    <3>1. emit(g, d, p, {})
      BY <1>2, <2>1, <2>4, Zenon
    <3> QED
      BY <1>0, <2>3, <2>5, <3>1, EmitHandles, Zenon
  <2>7. Handles(g) /\ Publishes(g, p, {}) /\ dels'[g].pc = "settle"
    BY <2>3, <2>6, Zenon DEF Emitted, Handles, SameDelivery, Publishes
  <2>8. DeliveriesMove /\ NoNewInvoke
    BY <2>7, HandlerMoves, Zenon
  <2>9. ASSUME NEW f \in p
        PROVE  f \in Published /\ FactOK(f)
    <3>1. /\ exact /\ r.gen = dels[g].proof
          /\ r.env = dels[g].env /\ r.attempt = dels[g].attempt
      BY <2>4, <2>9, Zenon DEF transitionReceiptOwnsRecoveredFacts
    <3>2. CASE f = Fact(g, "succeeded") /\ r.outcome = "succeeded"
      <4>1. FactOf(f, g, "succeeded")
        BY <1>0, <3>2, MemberFacts, Zenon DEF FactKinds
      <4>2. batch.outcome[m] = "succeeded"
        BY <1>0, <3>2, Zenon DEF StoreInv, ReceiptOK
      <4> QED
        BY <3>1, <4>1, <4>2, Zenon DEF FactOf, FactOK
    <3>3. CASE f = Fact(g, "completed") /\ r.completes /\ ~batch.cancelled /\ Pending(batch) = 0
      <4>1. FactOf(f, g, "completed")
        BY <1>0, <3>3, MemberFacts, Zenon DEF FactKinds
      <4>2. AllSettled
        BY <3>3, CountersSay, Zenon
      <4> QED
        BY <3>1, <3>3, <4>1, <4>2, Zenon DEF FactOf, FactOK
    <3> QED
      BY <2>4, <2>9, <3>2, <3>3, Zenon
  <2>10. \A f \in p \cup {} : f \in Published /\ FactOK(f)'
    BY <2>9, FactStill, Zenon
  <2>11. FactsMove
    BY <1>0, <2>7, <2>10, EmitFacts, Zenon
  <2> QED
    BY <2>8, <2>11, Zenon
<1> QED
  BY <1>1, <1>2, Zenon DEF recoverCommittedBatchTransition

-----------------------------------------------------------------------------
(* The member handler.                                                     *)

\* Begin: a recovered delivery looks for the stored transition.
LEMMA MemberBegin ==
  ASSUME Counting, Inv, NEW g \in Generations, NEW db, Begin(g, db)
  PROVE  StepOK
<1>0. Types /\ TransportInv
  BY Zenon DEF Inv
<1>1. /\ At(g, "member", "start") /\ msgs' = msgs /\ markers' = markers /\ closures' = closures
      /\ invoked' = invoked /\ batch' = batch /\ receipts' = receipts /\ builder' = builder
      /\ rejected' = rejected
  BY Zenon DEF Begin, batchVars
<1>2. PICK m \in Members : m = dels[g].member
  BY <1>0, <1>1, MemberDelivery, Zenon
<1>3. g \in Running /\ dels[g].kind = "member"
  BY <1>0, <1>1, MemberDelivery, Zenon
<1>4. DeliveriesMove /\ NoNewInvoke /\ FactsMove
  <2>1. CASE dels' = Return(g, "uncommitted") /\ facts' = facts
    <3>1. "uncommitted" \in Errors
      BY Zenon DEF Errors
    <3> QED
      BY <1>0, <1>3, <2>1, <3>1, ReturnMoves, FactsStill, Zenon
  <2>2. CASE Known(receipts[m]) /\ recoverCommittedBatchTransition(g)
    BY <1>1, <1>2, <1>3, <2>2, RecoverMoves, Zenon
  <2>3. CASE dels' = Goto(g, "execute") /\ facts' = facts
    <3>1. "execute" \in Steps
      BY Zenon DEF Steps
    <3>2. Replaced(dels', g, "execute", dels[g].err)
      BY <1>0, <2>3, <3>1, GotoHandles, Zenon
    <3>3. /\ Handles(g) /\ dels'[g].pc = "execute"
          /\ \A h \in Generations : dels'[h].facts \subseteq dels[h].facts
      BY <3>2, Zenon DEF Replaced, Handles
    <3> QED
      BY <1>0, <1>3, <2>3, <3>3, HandlerMoves, FactsStill, Zenon
  <2> QED
    BY <1>2, <2>1, <2>2, <2>3, Zenon DEF Begin
<1>5. BatchMove /\ MessagesMove
  BY <1>0, <1>1, StoreStill, MessagesStill, Zenon
<1> QED
  BY <1>1, <1>4, <1>5, HandlerStep, Zenon

\* Execute: the member's job runs and its outcome is classified.
LEMMA MemberExecute ==
  ASSUME Inv, NEW g \in Generations, NEW err \in Errors, Execute(g, err)
  PROVE  StepOK
<1>0. Types /\ TransportInv
  BY Zenon DEF Inv
<1>1. /\ At(g, "member", "execute") /\ msgs' = msgs /\ markers' = markers /\ closures' = closures
      /\ facts' = facts /\ invoked' = invoked /\ batch' = batch /\ receipts' = receipts
      /\ builder' = builder /\ rejected' = rejected
  BY Zenon DEF Execute, runtimeVars, batchVars
<1>2. g \in Running
  BY <1>0, <1>1, MemberDelivery, Zenon DEF Steps
<1>3. DeliveriesMove /\ NoNewInvoke /\ FactsMove
  <2>1. CASE dels' = Return(g, err)
    BY <1>0, <1>1, <1>2, <2>1, ReturnMoves, FactsStill, Zenon
  <2>2. CASE dels' = [dels EXCEPT ![g].pc = "settle_member", ![g].err = err]
    <3> DEFINE r == [[dels[g] EXCEPT !.pc = "settle_member"] EXCEPT !.err = err]
    <3>0. dels[g] \in Delivery
      BY <1>0, Zenon DEF Types
    <3>1. dels' = [dels EXCEPT ![g] = r]
      BY <1>0, <2>2, Zenon DEF Types
    <3>2. /\ r \in Delivery /\ SameDelivery(r, dels[g]) /\ r.facts = dels[g].facts
          /\ r.pc = "settle_member"
      BY <3>0, Zenon DEF Delivery, DeliveryType, SameDelivery, Steps
    <3> HIDE DEF r
    <3>3. /\ Handles(g) /\ dels'[g].pc = "settle_member"
          /\ \A h \in Generations : dels'[h].facts \subseteq dels[h].facts
      BY <1>0, <3>1, <3>2, Zenon DEF Types, Handles
    <3> QED
      BY <1>0, <1>1, <1>2, <3>3, HandlerMoves, FactsStill, Zenon
  <2> QED
    BY <2>1, <2>2, Zenon DEF Execute
<1>4. BatchMove /\ MessagesMove
  BY <1>0, <1>1, StoreStill, MessagesStill, Zenon
<1> QED
  BY <1>1, <1>3, <1>4, HandlerStep, Zenon

\* Two lists of callbacks make one.
LEMMA ConcatIsList ==
  ASSUME NEW S, NEW x \in Seq(S), NEW y \in Seq(S)
  PROVE  x \o y \in Seq(S)
BY SMTT(60)

\* The callbacks to dispatch are a list of callbacks.
LEMMA EffectsRecord ==
  ASSUME NEW d \in Delivery, NEW b, NEW o, NEW owns \in BOOLEAN
  PROVE  /\ Like(Effects(d, b, o, owns), d)
         /\ Effects(d, b, o, owns).pc \in {"settle", "callbacks"}
         /\ Effects(d, b, o, owns).pc = "callbacks" => Effects(d, b, o, owns).work # <<>>
<1>1. PICK c : c = CatchList(b, o)
  BY Zenon
<1>2. c \in Seq(CallbackKinds)
  <2>1. CASE c = <<>>
    BY <2>1
  <2>2. CASE c = <<"catch">>
    BY <2>2 DEF CallbackKinds
  <2> QED
    BY <1>1, <2>1, <2>2, Zenon DEF CatchList
<1>3. PICK t : t = IF owns THEN TerminalList(b) ELSE <<>>
  BY Zenon
<1>4. t \in Seq(CallbackKinds)
  <2>1. CASE t = <<>>
    BY <2>1
  <2>2. CASE t = <<"finally">>
    BY <2>2 DEF CallbackKinds
  <2>3. CASE t = <<"then", "finally">>
    BY <2>3 DEF CallbackKinds
  <2> QED
    BY <1>3, <2>1, <2>2, <2>3, Zenon DEF TerminalList
<1>5. PICK ks \in Seq(CallbackKinds) : ks = c \o t
  BY <1>2, <1>4, ConcatIsList, Zenon
<1>6. Effects(d, b, o, owns) = Callback(d, ks)
  BY <1>1, <1>3, <1>5, Zenon DEF Effects
<1>7. /\ Like(Callback(d, ks), d) /\ Callback(d, ks).work = ks
      /\ Callback(d, ks).pc = IF ks = <<>> THEN "settle" ELSE "callbacks"
  BY <1>5, CallbackRecord, Zenon
<1> QED
  BY <1>6, <1>7, Zenon

\* Closures are only dropped.
LEMMA PrepareDrops ==
  ASSUME NEW g, NEW b, NEW owns, Prepare(g, b, owns)
  PROVE  closures' \subseteq closures
BY Zenon DEF Prepare, prepareBatchTerminalCallbacks

\* The transition that delivery g made and that is stored now.
Made(g, b, r, m) ==
  /\ b = batch' /\ r = receipts'[m] /\ batch'.outcome[m] = Outcome(g)
  /\ Provenance => r.gen = g /\ r.env = dels[g].env /\ r.attempt = dels[g].attempt
  /\ batch'.completed /\ ~batch'.cancelled => AllSettled'

\* The facts of that transition are decided.
LEMMA MadeFacts ==
  ASSUME Types, TransportInv, NEW g \in Running, dels[g].kind = "member",
         NEW m \in Members, m = dels[g].member, NEW b, NEW r, Made(g, b, r, m),
         NEW owns, owns <=> batchSettlementOwnsTerminal(b, r, Outcome(g)), NEW kind \in FactKinds, NEW f,
         f = Fact(g, kind),
         kind \in {"succeeded", "failed"} => kind = Outcome(g),
         kind = "completed" => owns /\ ~b.cancelled,
         kind = "cancelled" => owns /\ b.cancelled
  PROVE  f \in Published /\ FactOK(f)'
<1>1. FactOf(f, g, kind)
  BY MemberFacts, Zenon
<1>2. f \in Published /\ f.kind = kind /\ f.member = m /\ f.env = dels[g].env /\ f.attempt = dels[g].attempt
  BY <1>1, Zenon DEF FactOf
<1>3. /\ b = batch' /\ r = receipts'[m] /\ batch'.outcome[m] = Outcome(g)
      /\ batch'.completed /\ ~batch'.cancelled => AllSettled'
  BY Zenon DEF Made
<1>4. Provenance => Known(receipts'[m]) /\ receipts'[m].env = f.env /\ receipts'[m].attempt = f.attempt
  <2>1. g # NoGeneration
    BY TransportAssumption DEF Running, Generations, NoGeneration
  <2> QED
    BY <1>2, <2>1, Zenon DEF Made, Known
<1>5. owns => batch'.completed /\ (Known(receipts'[m]) => receipts'[m].completes)
  BY <1>3, Zenon DEF batchSettlementOwnsTerminal
<1>6. kind = "completed" => AllSettled' /\ ~batch'.cancelled
  BY <1>3, <1>5, Zenon
<1>7. kind = "cancelled" => batch'.cancelled
  BY <1>3, Zenon
<1>8. kind \in {"completed", "cancelled"} /\ Provenance => receipts'[m].completes
  BY <1>4, <1>5, Zenon
<1> QED
  BY <1>2, <1>3, <1>4, <1>6, <1>7, <1>8, Zenon DEF FactOK

\* Continue: the facts and the callbacks of the transition this delivery made.
LEMMA ContinueMoves ==
  ASSUME Types, TransportInv, NEW g \in Running, dels[g].kind = "member",
         NEW m \in Members, m = dels[g].member, NEW b, NEW r, Made(g, b, r, m), Continue(g, b, r)
  PROVE  DeliveriesMove /\ NoNewInvoke /\ FactsMove /\ closures' \subseteq closures
<1>0. g \in Generations
  BY Zenon DEF Running
<1>1. PICK owns \in BOOLEAN : owns = batchSettlementOwnsTerminal(b, r, Outcome(g))
  <2>1. batchSettlementOwnsTerminal(b, r, Outcome(g)) \in BOOLEAN
    BY Zenon DEF batchSettlementOwnsTerminal
  <2> QED
    BY <2>1, Zenon
<1> DEFINE out == Outcome(g)
           positive == (IF out = "succeeded" THEN {Fact(g, "succeeded")} ELSE {})
                       \cup (IF owns /\ ~b.cancelled THEN {Fact(g, "completed")} ELSE {})
           negative == (IF out = "failed" THEN {Fact(g, "failed")} ELSE {})
                       \cup (IF out = "failed" /\ owns /\ b.cancelled THEN {Fact(g, "cancelled")} ELSE {})
<1>2. PICK p : p = positive
  BY Zenon
<1>3. PICK n : n = negative
  BY Zenon
<1>4. PICK c : c = Effects(markDeliveryTransitionCommitted(g), b, out, owns)
  BY Zenon
<1>5. PICK d : d = [dels EXCEPT ![g] = c]
  BY Zenon
<1>6. emit(g, d, p, n) /\ Prepare(g, b, owns)
  BY <1>1, <1>2, <1>3, <1>4, <1>5, Zenon DEF Continue
<1>7. Like(c, dels[g]) /\ c.pc \in {"settle", "callbacks"} /\ (c.pc = "callbacks" => c.work # <<>>)
  <2>1. PICK k : k = markDeliveryTransitionCommitted(g)
    BY Zenon
  <2>2. Like(k, dels[g]) /\ k \in Delivery
    BY <1>0, <2>1, MarkedRecord, Zenon DEF Like
  <2>3. Like(c, k) /\ c.pc \in {"settle", "callbacks"} /\ (c.pc = "callbacks" => c.work # <<>>)
    BY <1>4, <2>1, <2>2, EffectsRecord, Zenon
  <2> QED
    BY <2>2, <2>3, LikeTrans, Zenon
<1>8. /\ d \in [Generations -> Delivery] /\ d[g] = c
      /\ \A h \in Generations \ {g} : d[h] = dels[h]
  BY <1>0, <1>5, <1>7, Zenon DEF Types, Like
<1>9. p \in SUBSET Positives
  BY <1>2, MemberFacts, Zenon
<1>10. Emitted(g, d, p, n)
  BY <1>0, <1>6, <1>8, <1>9, EmitHandles, Zenon
<1>11. /\ Handles(g) /\ Publishes(g, p, n)
       /\ dels'[g].pc \in {"settle", "callbacks"} /\ (dels'[g].pc = "callbacks" => dels'[g].work # <<>>)
  BY <1>7, <1>8, <1>10, Zenon DEF Emitted, Handles, Publishes, SameDelivery, Like
<1>12. ASSUME NEW f \in p \cup n
       PROVE  f \in Published /\ FactOK(f)'
  <2>1. PICK kind \in FactKinds : /\ f = Fact(g, kind)
                                  /\ kind \in {"succeeded", "failed"} => kind = Outcome(g)
                                  /\ kind = "completed" => owns /\ ~b.cancelled
                                  /\ kind = "cancelled" => owns /\ b.cancelled
    BY <1>2, <1>3, <1>12, Zenon DEF FactKinds
  <2> QED
    BY <1>1, <2>1, MadeFacts, Zenon
<1>13. FactsMove
  BY <1>0, <1>11, <1>12, EmitFacts, Zenon
<1>14. DeliveriesMove /\ NoNewInvoke
  BY <1>11, HandlerMoves, Zenon
<1> QED
  BY <1>6, <1>13, <1>14, PrepareDrops, Zenon

\* ConfirmSettlement: the delivery that reads its own commit back.
LEMMA MemberConfirm ==
  ASSUME Inv, NEW g \in Generations, ConfirmSettlement(g)
  PROVE  StepOK
<1>0. Types /\ TransportInv /\ StoreInv /\ ConfirmInv
  BY Zenon DEF Inv
<1>1. /\ At(g, "member", "confirm") /\ msgs' = msgs /\ markers' = markers
      /\ invoked' = invoked /\ batch' = batch /\ receipts' = receipts /\ builder' = builder
      /\ rejected' = rejected
  BY Zenon DEF ConfirmSettlement, batchVars
<1>2. PICK m \in Members : m = dels[g].member
  BY <1>0, <1>1, MemberDelivery, Zenon DEF Steps
<1>3. g \in Running /\ dels[g].kind = "member" /\ dels[g].pc = "confirm"
  BY <1>0, <1>1, MemberDelivery, Zenon DEF Steps, At
<1>4. /\ batch.outcome[m] = Outcome(g)
      /\ receipts[m].gen = g /\ receipts[m].env = dels[g].env /\ receipts[m].attempt = dels[g].attempt
  BY <1>0, <1>2, <1>3, Zenon DEF ConfirmInv, ConfirmOK
<1>5. batch'.completed /\ ~batch'.cancelled => AllSettled'
  BY <1>0, <1>1, Zenon DEF StoreInv, AllSettled
<1>6. Made(g, batch, receipts[m], m) /\ Continue(g, batch, receipts[m])
  BY <1>1, <1>2, <1>4, <1>5, Zenon DEF Made, ConfirmSettlement
<1>7. DeliveriesMove /\ NoNewInvoke /\ FactsMove /\ closures' \subseteq closures
  BY <1>0, <1>2, <1>3, <1>6, ContinueMoves, Zenon
<1>8. BatchMove /\ MessagesMove
  BY <1>0, <1>1, StoreStill, MessagesStill, Zenon
<1> QED
  BY <1>1, <1>7, <1>8, HandlerStep, Zenon

\* Duplicate: a member that was settled before.
LEMMA DuplicateMoves ==
  ASSUME Counting, Inv, NEW g \in Running, dels[g].kind = "member", Duplicate(g),
         batch' = batch, receipts' = receipts, rejected' = rejected
  PROVE  DeliveriesMove /\ NoNewInvoke /\ FactsMove /\ closures' \subseteq closures
<1>0. Types /\ TransportInv /\ g \in Generations
  BY Zenon DEF Inv, Running
<1>1. PICK m \in Members : m = dels[g].member
  BY <1>0, Zenon DEF TransportInv
<1>2. CASE Known(receipts[m]) /\ recoverCommittedBatchTransition(g) /\ closures' = closures
  BY <1>1, <1>2, RecoverMoves, Zenon
<1>3. CASE dels' = Return(g, "nil") /\ facts' = facts /\ closures' = closures
  <2>1. "nil" \in Errors
    BY Zenon DEF Errors
  <2> QED
    BY <1>0, <1>3, <2>1, ReturnMoves, FactsStill, Zenon
<1>4. ASSUME NEW owns \in BOOLEAN,
             dels' = [dels EXCEPT ![g] = Effects([@ EXCEPT !.err = "nil"], batch, Outcome(g), owns)],
             Prepare(g, batch, owns), facts' = facts
      PROVE  DeliveriesMove /\ NoNewInvoke /\ FactsMove /\ closures' \subseteq closures
  <2> DEFINE k == [dels[g] EXCEPT !.err = "nil"]
  <2>1. dels[g] \in Delivery
    BY <1>0, Zenon DEF Types
  <2>2. k \in Delivery /\ SameDelivery(k, dels[g]) /\ k.facts = dels[g].facts
    BY <2>1, Zenon DEF Delivery, DeliveryType, SameDelivery, Errors
  <2> HIDE DEF k
  <2>3. PICK c : c = Effects(k, batch, Outcome(g), owns)
    BY Zenon
  <2>4. Like(c, k) /\ c.pc \in {"settle", "callbacks"} /\ (c.pc = "callbacks" => c.work # <<>>)
    BY <2>2, <2>3, EffectsRecord, Zenon
  <2>5. dels' = [dels EXCEPT ![g] = c]
    BY <1>0, <1>4, <2>3, Zenon DEF k, Types
  <2>6. c \in Delivery /\ SameDelivery(c, dels[g]) /\ c.facts = dels[g].facts
    BY <2>2, <2>4, Zenon DEF Like, SameDelivery
  <2>7. /\ Handles(g) /\ dels'[g] = c
        /\ \A h \in Generations : dels'[h].facts \subseteq dels[h].facts
    BY <1>0, <2>5, <2>6, Zenon DEF Types, Handles
  <2>8. DeliveriesMove /\ NoNewInvoke
    BY <2>4, <2>7, HandlerMoves, Zenon
  <2> QED
    BY <1>0, <1>4, <2>7, <2>8, FactsStill, PrepareDrops, Zenon
<1>5. PICK owns \in BOOLEAN :
        owns = (batch.outcome[m] = Outcome(g) /\ batchSettlementOwnsTerminal(batch, receipts[m], Outcome(g)))
  BY Zenon
<1> QED
  BY <1>1, <1>2, <1>3, <1>4, <1>5, Zenon DEF Duplicate

\* The receipt of the delivery that settles a member.
LEMMA OwnReceipt ==
  ASSUME Types, NEW g \in Generations, NEW o \in {"succeeded", "failed"}
  PROVE  /\ Receipt(g, o) \in ReceiptType
         /\ Known(Receipt(g, o)) <=> Provenance
         /\ Provenance => /\ Receipt(g, o).gen = g /\ Receipt(g, o).env = dels[g].env
                          /\ Receipt(g, o).attempt = dels[g].attempt /\ Receipt(g, o).outcome = o
<1>1. dels[g].env \in Envelopes \cup {0} /\ dels[g].attempt \in Nat
  BY Zenon DEF Types, Delivery, DeliveryType
<1>2. CASE Provenance
  <2>1. Receipt(g, o) = [gen |-> g, env |-> dels[g].env, attempt |-> dels[g].attempt, outcome |-> o]
    BY <1>2, Zenon DEF Receipt
  <2>2. g # NoGeneration
    BY TransportAssumption DEF Generations, NoGeneration
  <2> QED
    BY <1>1, <1>2, <2>1, <2>2 DEF ReceiptType, Known
<1>3. CASE ~Provenance
  BY <1>3, Zenon DEF Receipt, ReceiptType, Known, NoReceipt
<1> QED
  BY <1>2, <1>3, Zenon

\* A member is settled by its delivery: what the store and the receipt say now.
LEMMA MemberSettles ==
  ASSUME Counting, Inv, NEW g \in Generations, NEW m \in Members, m = dels[g].member,
         NEW o \in {"succeeded", "failed"}, o = Outcome(g), Settles(m, o, Receipt(g, o))
  PROVE  /\ BatchMove /\ rejected' = rejected
         /\ Made(g, batch', receipts'[m], m)
         /\ Provenance => receipts'[m].outcome = o
<1>0. Types /\ StoreInv
  BY Zenon DEF Inv
<1>1. PICK r \in ReceiptType : r = Receipt(g, o)
  BY <1>0, OwnReceipt, Zenon
<1>2. /\ Known(r) <=> Provenance
      /\ Provenance => /\ r.gen = g /\ r.env = dels[g].env
                       /\ r.attempt = dels[g].attempt /\ r.outcome = o
  BY <1>0, <1>1, OwnReceipt, Zenon
<1>3. Settles(m, o, r) /\ (Known(r) => r.outcome = o)
  BY <1>1, <1>2, Zenon
<1>4. SettledNow(m)
  BY <1>0, <1>2, <1>3, SettledNowFacts, Zenon
<1>5. batch'.outcome[m] = o /\ rejected' = rejected
  <2>1. batch \in BatchStates
    BY <1>0, Zenon DEF Types
  <2>2. SettledFrom(settleBatchOutcome(batch, m, o), batch, m, o)
    BY <2>1, SettledFacts, Zenon
  <2>3. batch' = settleBatchOutcome(batch, m, o) /\ rejected' = rejected
    BY <1>3, Zenon DEF Settles
  <2> QED
    BY <2>2, <2>3, Zenon DEF SettledFrom
<1>6. batch'.completed /\ ~batch'.cancelled => AllSettled'
  <2>1. batch.completed => batch.cancelled
    BY <1>0, <1>4, SettledInTime, Zenon
  <2> QED
    BY <1>4, <2>1, Zenon DEF SettledNow
<1>7. /\ receipts'[m].gen = r.gen /\ receipts'[m].env = r.env
      /\ receipts'[m].attempt = r.attempt /\ receipts'[m].outcome = r.outcome
  <2>1. PICK q : (\E c, d : q = MemberReceipt(r, c, d)) /\ receipts' = [receipts EXCEPT ![m] = q]
    BY <1>3, Zenon DEF Settles
  <2>2. receipts'[m] = q
    BY <1>0, <2>1, Zenon DEF Types
  <2>3. q.gen = r.gen /\ q.env = r.env /\ q.attempt = r.attempt /\ q.outcome = r.outcome
    BY <2>1 DEF MemberReceipt
  <2> QED
    BY <2>2, <2>3, Zenon
<1>8. Made(g, batch', receipts'[m], m)
  BY <1>2, <1>5, <1>6, <1>7, Zenon DEF Made
<1>9. BatchMove
  BY <1>2, <1>3, Zenon DEF BatchMove
<1> QED
  BY <1>2, <1>5, <1>7, <1>8, <1>9, Zenon

\* An unclear commit is read back.
LEMMA MemberGoesToConfirm ==
  ASSUME Types, TransportInv, NEW g \in Running, dels[g].kind = "member",
         NEW m \in Members, m = dels[g].member, dels' = Goto(g, "confirm"), Provenance,
         Made(g, batch', receipts'[m], m), receipts'[m].outcome = Outcome(g), facts' = facts
  PROVE  DeliveriesMove /\ NoNewInvoke /\ FactsMove
<1>0. g \in Generations /\ "confirm" \in Steps
  BY Zenon DEF Running, Steps
<1>1. Replaced(dels', g, "confirm", dels[g].err)
  BY <1>0, GotoHandles, Zenon
<1>2. /\ Handles(g) /\ dels'[g].pc = "confirm" /\ dels'[g].err = dels[g].err
      /\ \A h \in Generations : dels'[h].facts \subseteq dels[h].facts
      /\ \A h \in Generations \ {g} : dels'[h] = dels[h]
  BY <1>1, Zenon DEF Replaced, Handles
<1>3. /\ dels'[g].env = dels[g].env /\ dels'[g].kind = "member" /\ dels'[g].member = m
      /\ dels'[g].attempt = dels[g].attempt
  BY <1>2, Zenon DEF Handles, SameDelivery
<1>4. Outcome(g)' = Outcome(g)
  BY <1>2, Zenon DEF Outcome
<1>5. ConfirmOK(g)'
  BY <1>3, <1>4, Zenon DEF ConfirmOK, Made
<1>6. NoNewInvoke
  BY <1>2, Zenon DEF NoNewInvoke
<1>7. DeliveriesMove
  BY <1>2, <1>5, HandlerGoesOn, Zenon
<1> QED
  BY <1>2, <1>6, <1>7, FactsStill, Zenon

\* SettleMember: the store settles the member, fails, or finds it settled.
LEMMA MemberSettle ==
  ASSUME Counting, Inv, NEW g \in Generations, NEW db, SettleMember(g, db)
  PROVE  StepOK
<1>0. Types /\ TransportInv
  BY Zenon DEF Inv
<1>1. /\ At(g, "member", "settle_member") /\ msgs' = msgs /\ markers' = markers
      /\ invoked' = invoked /\ builder' = builder /\ rejected' = rejected
  BY Zenon DEF SettleMember
<1>2. PICK m \in Members : m = dels[g].member
  BY <1>0, <1>1, MemberDelivery, Zenon DEF Steps
<1>3. g \in Running /\ dels[g].kind = "member"
  BY <1>0, <1>1, MemberDelivery, Zenon DEF Steps
<1>4. PICK o \in {"succeeded", "failed"} : o = Outcome(g)
  BY Zenon DEF Outcome
<1>u. "uncommitted" \in Errors
  BY Zenon DEF Errors
<1> DEFINE Moves == BatchMove /\ DeliveriesMove /\ NoNewInvoke /\ FactsMove /\ closures' \subseteq closures
           Said == \/ Continue(g, batch', receipts'[m])
                   \/ dels' = Return(g, "uncommitted") /\ facts' = facts /\ closures' = closures
                   \/ Provenance /\ dels' = Goto(g, "confirm") /\ facts' = facts /\ closures' = closures
<1> SUFFICES Moves
  BY <1>0, <1>1, MessagesStill, HandlerStep, Zenon
<1>5. CASE Settles(m, o, Receipt(g, o)) /\ Said
  <2>1. /\ BatchMove /\ Made(g, batch', receipts'[m], m)
        /\ Provenance => receipts'[m].outcome = Outcome(g)
    BY <1>2, <1>4, <1>5, MemberSettles, Zenon
  <2>2. CASE Continue(g, batch', receipts'[m])
    BY <1>0, <1>2, <1>3, <2>1, <2>2, ContinueMoves, Zenon
  <2>3. CASE dels' = Return(g, "uncommitted") /\ facts' = facts /\ closures' = closures
    BY <1>0, <1>3, <1>u, <2>1, <2>3, ReturnMoves, FactsStill, Zenon
  <2>4. CASE Provenance /\ dels' = Goto(g, "confirm") /\ facts' = facts /\ closures' = closures
    BY <1>0, <1>2, <1>3, <2>1, <2>4, MemberGoesToConfirm, Zenon
  <2> QED
    BY <1>5, <2>2, <2>3, <2>4, Zenon
<1>6. CASE dels' = Return(g, "uncommitted") /\ facts' = facts /\ closures' = closures /\ batch' = batch
           /\ receipts' = receipts
  BY <1>0, <1>1, <1>3, <1>6, <1>u, ReturnMoves, FactsStill, StoreStill, Zenon
<1>7. CASE Duplicate(g) /\ batch' = batch /\ receipts' = receipts
  BY <1>1, <1>3, <1>7, DuplicateMoves, StoreStill, Zenon
<1>8. \/ Settles(m, o, Receipt(g, o)) /\ Said
      \/ /\ dels' = Return(g, "uncommitted") /\ facts' = facts /\ closures' = closures
         /\ batch' = batch /\ receipts' = receipts
      \/ Duplicate(g) /\ batch' = batch /\ receipts' = receipts
  <2> DEFINE settled == settleBatchOutcome(batch, m, o)
             completes == completesBatch(batch, settled)
             q == MemberReceipt(Receipt(g, o), completes, completes /\ settled.cancelled)
  <2>1. CASE /\ Unsettled(m) /\ batch' = settled /\ receipts' = [receipts EXCEPT ![m] = q]
             /\ \/ Continue(g, settled, q)
                \/ dels' = Return(g, "uncommitted") /\ facts' = facts /\ closures' = closures
                \/ Provenance /\ dels' = Goto(g, "confirm") /\ facts' = facts /\ closures' = closures
    <3>1. Settles(m, o, Receipt(g, o))
      BY <1>1, <2>1, Zenon DEF Settles
    <3>2. receipts'[m] = q
      BY <1>0, <2>1, Zenon DEF Types
    <3> QED
      BY <2>1, <3>1, <3>2, Zenon
  <2> HIDE DEF settled, completes, q
  <2> QED
    BY <1>2, <1>4, <2>1, Zenon DEF SettleMember, settled, completes, q
<1> QED
  BY <1>5, <1>6, <1>7, <1>8, Zenon

-----------------------------------------------------------------------------
(* The callbacks and the driver.                                           *)

\* A callback's handler that returns.
LEMMA CallbackReturns ==
  ASSUME Inv, NEW g \in Running, NEW err \in Errors, dels' = Return(g, err),
         UNCHANGED <<msgs, facts, invoked, batchVars>>, markers \subseteq markers', closures' \subseteq closures
  PROVE  StepOK
<1>0. Types /\ TransportInv
  BY Zenon DEF Inv
<1>1. batch' = batch /\ receipts' = receipts /\ builder' = builder /\ rejected' = rejected
  BY Zenon DEF batchVars
<1>2. /\ DeliveriesMove /\ NoNewInvoke
      /\ \A h \in Generations : dels'[h].facts = dels[h].facts
  BY <1>0, ReturnMoves, Zenon
<1>3. FactsMove
  BY <1>0, <1>2, FactsStill, Zenon
<1> QED
  BY <1>0, <1>1, <1>2, <1>3, StoreStill, MessagesStill, HandlerStep, Zenon

\* A callback's handler that goes on.
LEMMA CallbackGoesOn ==
  ASSUME Inv, NEW g \in Running, NEW pc \in {"invoke", "finish"}, dels' = Goto(g, pc),
         UNCHANGED <<msgs, facts, closures, batchVars>>, CallbacksMove
  PROVE  StepOK
<1>0. Types /\ TransportInv /\ g \in Generations /\ pc \in Steps
  BY Zenon DEF Inv, Running, Steps
<1>1. batch' = batch /\ receipts' = receipts /\ builder' = builder /\ rejected' = rejected
  BY Zenon DEF batchVars
<1>2. Replaced(dels', g, pc, dels[g].err)
  BY <1>0, GotoHandles, Zenon
<1>3. Handles(g) /\ dels'[g].pc = pc /\ \A h \in Generations : dels'[h].facts \subseteq dels[h].facts
  BY <1>2, Zenon DEF Replaced, Handles
<1>4. ConfirmOK(g)'
  BY <1>3, Zenon DEF ConfirmOK
<1>5. DeliveriesMove
  BY <1>3, <1>4, HandlerGoesOn, Zenon
<1>6. FactsMove
  BY <1>0, <1>3, FactsStill, Zenon
<1> QED
  BY <1>0, <1>1, <1>5, <1>6, StoreStill, MessagesStill, WorkerStep, Zenon

\* claimCallback: the key is claimed before the closure runs.
LEMMA CallbackClaim ==
  ASSUME Counting, Inv, NEW g \in Generations, NEW db \in Results, NEW kind \in Callbacks,
         claimCallback(g, kind, CallbackReady(kind), db), UNCHANGED batchVars
  PROVE  StepOK
<1>1. /\ dels[g].kind = kind /\ dels[g].pc = "start" /\ msgs' = msgs /\ closures' = closures
      /\ facts' = facts /\ invoked' = invoked
  BY Zenon DEF claimCallback, At
<1>2. g \in Running /\ Types
  BY <1>1, Zenon DEF Running, Inv
<1>3. markers \subseteq markers'
  BY Zenon DEF claimCallback, Mark
<1>4. ASSUME NEW err \in Errors, dels' = Return(g, err)
      PROVE  StepOK
  BY <1>1, <1>2, <1>3, <1>4, CallbackReturns, Zenon
<1>5. CASE callbackOnce(kind, db) /\ CallbackReady(kind) /\ dels' = Goto(g, "invoke") /\ markers' = Mark(kind, db)
  <2>1. kind \notin markers /\ markers' = markers \cup {kind}
    BY <1>5, Zenon DEF callbackOnce, Mark
  <2>2. Allowed(kind)
    <3>1. FailedCount(batch) > 0 => SomeFailed
      BY CountersSay, Zenon
    <3> QED
      BY <1>5, <3>1, Zenon DEF CallbackReady, Allowed
  <2>3. "invoke" \in Steps
    BY Zenon DEF Steps
  <2>4. Replaced(dels', g, "invoke", dels[g].err)
    BY <1>2, <1>5, <2>3, GotoHandles, Zenon
  <2>5. /\ \A h \in Generations \ {g} : dels'[h] = dels[h]
        /\ dels'[g].pc = "invoke" /\ dels'[g].kind = kind
    BY <1>1, <2>4, Zenon DEF Replaced, SameDelivery
  <2>6. Claims(g)
    BY <1>1, <2>1, <2>2, <2>5, Zenon DEF Claims
  <2>7. CallbacksMove
    BY <2>6, Zenon DEF CallbacksMove
  <2> QED
    BY <1>1, <1>2, <1>5, <2>7, CallbackGoesOn, Zenon
<1>6. \/ \E err \in Errors : dels' = Return(g, err)
      \/ callbackOnce(kind, db) /\ CallbackReady(kind) /\ dels' = Goto(g, "invoke") /\ markers' = Mark(kind, db)
  <2>1. "error" \in Errors /\ "uncommitted" \in Errors /\ "nil" \in Errors
    BY Zenon DEF Errors
  <2> QED
    BY <2>1, Zenon DEF claimCallback
<1> QED
  BY <1>4, <1>5, <1>6, Zenon

\* invokeCallback: the delivery that claimed the key runs the closure.
LEMMA CallbackInvoke ==
  ASSUME Inv, NEW g \in Generations, NEW kind \in Callbacks, invokeCallback(g, kind), UNCHANGED batchVars
  PROVE  StepOK
<1>1. /\ dels[g].kind = kind /\ dels[g].pc = "invoke" /\ msgs' = msgs /\ closures' = closures
      /\ facts' = facts /\ markers' = markers
  BY Zenon DEF invokeCallback, At
<1>2. g \in Running /\ Types
  BY <1>1, Zenon DEF Running, Inv
<1>3. CASE dels' = Return(g, "error") /\ invoked' = invoked
  <2>1. "error" \in Errors
    BY Zenon DEF Errors
  <2> QED
    BY <1>1, <1>2, <1>3, <2>1, CallbackReturns, Zenon
<1>4. CASE dels' = Goto(g, "finish") /\ invoked' = invoked \cup {<<kind, g>>}
  <2>1. "finish" \in Steps
    BY Zenon DEF Steps
  <2>2. Replaced(dels', g, "finish", dels[g].err)
    BY <1>2, <1>4, <2>1, GotoHandles, Zenon
  <2>3. Invokes(g)
    BY <1>1, <1>4, <2>2, Zenon DEF Invokes, Replaced
  <2>4. CallbacksMove
    BY <2>3, Zenon DEF CallbacksMove
  <2> QED
    BY <1>1, <1>2, <1>4, <2>4, CallbackGoesOn, Zenon
<1> QED
  BY <1>3, <1>4, Zenon DEF invokeCallback

\* finishCallback: the closure is dropped.
LEMMA CallbackFinish ==
  ASSUME Inv, NEW g \in Generations, NEW kind \in Callbacks, NEW err \in {"nil", "error"},
         finishCallback(g, kind, err), UNCHANGED batchVars
  PROVE  StepOK
<1>1. /\ dels[g].kind = kind /\ dels[g].pc = "finish" /\ dels' = Return(g, err)
      /\ msgs' = msgs /\ facts' = facts /\ markers' = markers /\ invoked' = invoked
      /\ closures' \subseteq closures
  BY Zenon DEF finishCallback, At
<1>2. g \in Running /\ err \in Errors
  BY <1>1, Zenon DEF Running, Errors
<1> QED
  BY <1>1, <1>2, CallbackReturns, Zenon

\* dispatchCallback: one callback envelope after the other.
LEMMA CallbackDispatch ==
  ASSUME Inv, NEW g \in Generations, NEW db \in Results, dispatchCallback(g, db), UNCHANGED batchVars
  PROVE  StepOK
<1> DEFINE ks == Tail(dels[g].work)
           r == Callback(dels[g], ks)
<1>0. Types /\ TransportInv
  BY Zenon DEF Inv
<1>1. /\ dels[g].pc = "callbacks" /\ markers' = markers /\ closures' = closures
      /\ facts' = facts /\ invoked' = invoked /\ batch' = batch /\ receipts' = receipts
      /\ builder' = builder /\ rejected' = rejected /\ dels' = [dels EXCEPT ![g] = r]
  BY Zenon DEF dispatchCallback, batchVars, runtimeVars
<1>2. g \in Running
  BY <1>1, Zenon DEF Running
<1>3. MessagesMove
  <2> DEFINE kind == Head(dels[g].work)
  <2>1. CASE kind \in closures /\ BusDispatch(kind, 0, db)
    <3>1. kind \in Kinds /\ kind # "member" /\ 0 \in Members \cup {0}
      BY <1>0, <2>1, RuntimeAssumption, Zenon DEF Types, Kinds
    <3> HIDE DEF kind
    <3> QED
      BY <1>0, <2>1, <3>1, DispatchMoves, Zenon
  <2>2. CASE msgs' = msgs
    BY <1>0, <2>2, MessagesStill, Zenon
  <2> QED
    BY <2>1, <2>2, Zenon DEF dispatchCallback, callbackConfigured
<1>4. ks \in Seq(CallbackKinds) /\ dels[g] \in Delivery
  <2>1. dels[g].work \in Seq(CallbackKinds) /\ dels[g].work # <<>> /\ dels[g] \in Delivery
    BY <1>0, <1>1, Zenon DEF Types, Delivery, DeliveryType
  <2> QED
    BY <2>1
<1> HIDE DEF ks
<1>5. Like(r, dels[g]) /\ r.work = ks /\ r.pc = IF ks = <<>> THEN "settle" ELSE "callbacks"
  BY <1>4, CallbackRecord, Zenon
<1> HIDE DEF r
<1>6. Handles(g) /\ dels'[g] = r /\ \A h \in Generations : dels'[h].facts = dels[h].facts
  BY <1>0, <1>1, <1>5, PutHandles, Zenon
<1>7. DeliveriesMove /\ NoNewInvoke
  <2>1. dels'[g].pc \in {"settle", "callbacks"} /\ (dels'[g].pc = "callbacks" => dels'[g].work # <<>>)
    BY <1>5, <1>6, Zenon
  <2> QED
    BY <1>2, <1>6, <2>1, HandlerMoves, Zenon
<1>8. FactsMove
  BY <1>0, <1>1, <1>6, FactsStill, Zenon
<1> QED
  BY <1>1, <1>3, <1>7, <1>8, StoreStill, HandlerStep, Zenon

\* Deliveries that are over, settled or with their process.
LEMMA OverMoves ==
  ASSUME Types, NEW S \in SUBSET Running, dels' = [h \in Generations |-> IF h \in S THEN Over ELSE dels[h]]
  PROVE  /\ DeliveriesMove /\ NoNewInvoke
         /\ \A h \in Generations : dels'[h].facts \subseteq dels[h].facts
<1>1. Over.pc = "over" /\ Over.facts = {}
  BY Zenon DEF Over
<1>2. Over \in Delivery
  <2>1. <<>> \in Seq(CallbackKinds)
    OBVIOUS
  <2> QED
    BY <2>1, Zenon DEF Over, Delivery, DeliveryType, NoGeneration, Errors
<1>3. dels' \in [Generations -> Delivery] /\ \A h \in Generations : dels'[h] = IF h \in S THEN Over ELSE dels[h]
  BY <1>2, Zenon DEF Types
<1> QED
  BY <1>1, <1>3, Zenon DEF DeliveriesMove, NoNewInvoke

\* The same for one delivery.
LEMMA OneOver ==
  ASSUME Types, NEW g \in Running, dels' = [dels EXCEPT ![g] = Over]
  PROVE  /\ DeliveriesMove /\ NoNewInvoke
         /\ \A h \in Generations : dels'[h].facts \subseteq dels[h].facts
<1>1. dels' = [h \in Generations |-> IF h \in {g} THEN Over ELSE dels[h]]
  BY Zenon DEF Types
<1> QED
  BY <1>1, OverMoves, Zenon

\* An envelope that stays about its member.
LEMMA SameMember ==
  ASSUME Types, TransportInv, NEW e \in Envelopes, NEW s \in Sent, s.kind = msgs[e].kind,
         s.member = msgs[e].member, msgs' = [msgs EXCEPT ![e] = s]
  PROVE  MessagesMove
<1>1. msgs \in [Envelopes -> Sent]
  BY Zenon DEF Types
<1> QED
  BY <1>1, Zenon DEF MessagesMove, TransportInv

\* The envelope a settlement leaves.
LEMMA SettlementMoves ==
  ASSUME Types, TransportInv, NEW g \in Running, NEW maxRetry,
         msgs' = [msgs EXCEPT ![dels[g].env] = Settlement(g, maxRetry)]
  PROVE  MessagesMove
<1> DEFINE e == dels[g].env
           s == Settlement(g, maxRetry)
<1>1. g \in Generations /\ e \in Envelopes /\ msgs[e] \in Sent
  BY Zenon DEF Running, TransportInv, Types
<1>2. /\ dels[g].attempt \in Nat /\ dels[g].proof \in Generations \cup {NoGeneration}
  BY <1>1, Zenon DEF Types, Delivery, DeliveryType
<1>3. PendingProof(g) \in Generations \cup {NoGeneration}
  BY <1>1, <1>2, Zenon DEF PendingProof
<1> DEFINE token == PendingProof(g)
<1>4. \/ s = [msgs[e] EXCEPT !.state = "done", !.token = NoGeneration]
      \/ s = [msgs[e] EXCEPT !.state = "queued", !.token = token]
      \/ s = [msgs[e] EXCEPT !.state = "queued", !.attempt = dels[g].attempt + 1, !.token = NoGeneration]
      \/ s = [msgs[e] EXCEPT !.state = "dead", !.attempt = dels[g].attempt + 1, !.token = NoGeneration]
  BY Zenon DEF Settlement, DecisionOf, ClassifyAttempt
<1>5. dels[g].attempt + 1 \in Nat
  BY <1>2
<1>6. s \in Sent /\ s.kind = msgs[e].kind /\ s.member = msgs[e].member
  <2> HIDE DEF s, e, token
  <2>1. token \in Generations \cup {NoGeneration}
    BY <1>3, Zenon DEF token
  <2> QED
    BY <1>1, <1>4, <1>5, <2>1, ZenonT(60) DEF Sent, MessageType
<1> HIDE DEF s, e
<1> QED
  BY <1>1, <1>6, SameMember, Zenon DEF s, e

\* A settlement publishes what its delivery kept.
LEMMA DriverSettles ==
  ASSUME Inv, NEW g \in Generations, NEW db \in Results,
         settleDelivery(g, IF dels[g].kind = "member" THEN MaxRetry ELSE 0, db), UNCHANGED batchVars
  PROVE  StepOK
<1>0. Types /\ TransportInv
  BY Zenon DEF Inv
<1>1. /\ dels[g].pc = "settle" /\ markers' = markers /\ closures' = closures
      /\ invoked' = invoked /\ batch' = batch /\ receipts' = receipts
      /\ builder' = builder /\ rejected' = rejected /\ dels' = [dels EXCEPT ![g] = Over]
      /\ facts' = facts \cup Committed(g, db)
  BY Zenon DEF settleDelivery, SettleDelivery, batchVars
<1>2. g \in Running
  BY <1>1, Zenon DEF Running
<1>3. MessagesMove
  <2>1. PICK r : r = IF dels[g].kind = "member" THEN MaxRetry ELSE 0
    BY Zenon
  <2>2. \/ msgs' = msgs
        \/ msgs' = [msgs EXCEPT ![dels[g].env] = Settlement(g, r)]
    BY <2>1, Zenon DEF settleDelivery, SettleDelivery
  <2>3. CASE msgs' = msgs
    BY <1>0, <2>3, MessagesStill, Zenon
  <2>4. CASE msgs' = [msgs EXCEPT ![dels[g].env] = Settlement(g, r)]
    BY <1>0, <1>2, <2>4, SettlementMoves, Zenon
  <2> QED
    BY <2>2, <2>3, <2>4, Zenon
<1>4. DeliveriesMove /\ NoNewInvoke /\ \A h \in Generations : dels'[h].facts \subseteq dels[h].facts
  BY <1>0, <1>1, <1>2, OneOver, Zenon
<1>5. FactsMove
  <2>1. Committed(g, db) \subseteq dels[g].facts
    BY Zenon DEF Committed
  <2>2. dels[g].facts \subseteq Positives
    BY <1>0, Zenon DEF Types, Delivery, DeliveryType
  <2>3. Positives \subseteq Published
    BY Zenon DEF Positives, Published, FactType, FactKinds
  <2>4. AllFacts' \subseteq AllFacts
    BY <1>1, <1>4, <2>1, ZenonT(60) DEF AllFacts
  <2>5. facts' \subseteq Published
    BY <1>0, <1>1, <2>1, <2>2, <2>3, Zenon DEF Types
  <2> QED
    BY <2>4, <2>5, Zenon DEF FactsMove
<1> QED
  BY <1>0, <1>1, <1>3, <1>4, <1>5, StoreStill, HandlerStep, Zenon

\* CrashAway: a worker dies with its delivery.
LEMMA WorkerCrash ==
  ASSUME Inv, NEW g \in Generations, CrashAway(g), UNCHANGED batchVars
  PROVE  StepOK
<1>0. Types /\ TransportInv
  BY Zenon DEF Inv
<1>1. /\ g \in Running /\ msgs' = msgs /\ markers' = markers /\ closures' = closures /\ facts' = facts
      /\ invoked' = invoked /\ batch' = batch /\ receipts' = receipts
      /\ builder' = builder /\ rejected' = rejected /\ dels' = [dels EXCEPT ![g] = Over]
  BY Zenon DEF CrashAway, batchVars, runtimeVars
<1>2. DeliveriesMove /\ NoNewInvoke /\ \A h \in Generations : dels'[h].facts \subseteq dels[h].facts
  BY <1>0, <1>1, OneOver, Zenon
<1> QED
  BY <1>0, <1>1, <1>2, StoreStill, MessagesStill, FactsStill, HandlerStep, Zenon

\* An envelope that is not settled changes its state and its token only.
LEMMA EnvelopeMoves ==
  ASSUME Types, TransportInv, NEW e \in Envelopes, NEW s \in {"queued", "held"},
         NEW t \in Generations \cup {NoGeneration},
         msgs' = [msgs EXCEPT ![e].state = s, ![e].token = t]
  PROVE  MessagesMove
<1> DEFINE m == [msgs[e] EXCEPT !.state = s, !.token = t]
<1>1. msgs' = [msgs EXCEPT ![e] = m]
  BY Zenon DEF Types, Sent, MessageType
<1>2. m \in Sent /\ m.kind = msgs[e].kind /\ m.member = msgs[e].member
  <2>1. msgs[e] \in Sent
    BY Zenon DEF Types
  <2> QED
    BY <2>1, Zenon DEF Sent, MessageType
<1> HIDE DEF m
<1> QED
  BY <1>1, <1>2, SameMember, Zenon

\* Deliver: a queued envelope is claimed.
LEMMA DriverDelivers ==
  ASSUME Inv, NEW g \in Generations, NEW e \in Envelopes, NEW home \in Homes,
         Deliver(g, e, home), UNCHANGED runtimeVars, UNCHANGED batchVars
  PROVE  StepOK
<1>0. Types /\ TransportInv
  BY Zenon DEF Inv
<1>1. /\ msgs' = [msgs EXCEPT ![e].state = "held", ![e].token = g]
      /\ dels' = [dels EXCEPT ![g] = NewDelivery(e, home)]
      /\ markers' = markers /\ closures' = closures /\ facts' = facts
      /\ invoked' = invoked /\ batch' = batch /\ receipts' = receipts
      /\ builder' = builder /\ rejected' = rejected
  BY Zenon DEF Deliver, batchVars, runtimeVars
<1>2. MessagesMove
  BY <1>0, <1>1, EnvelopeMoves, Zenon
<1> DEFINE d == NewDelivery(e, home)
<1>4. d \in Delivery
  <2>1. msgs[e] \in Sent /\ home \in BOOLEAN /\ <<>> \in Seq(CallbackKinds)
    BY <1>0, TransportAssumption DEF Types
  <2>2. /\ msgs[e].kind \in Kinds \cup {"none"} /\ msgs[e].member \in Members \cup {0}
        /\ msgs[e].attempt \in Nat /\ msgs[e].token \in Generations \cup {NoGeneration}
    BY <2>1, Zenon DEF Sent, MessageType
  <2>3. "nil" \in Errors
    BY Zenon DEF Errors
  <2> QED
    BY <2>1, <2>2, <2>3, ZenonT(60) DEF NewDelivery, Delivery, DeliveryType
<1>5. d.pc = "start" /\ d.facts = {}
  BY Zenon DEF NewDelivery
<1>6. /\ dels' \in [Generations -> Delivery] /\ dels'[g] = d
      /\ \A h \in Generations \ {g} : dels'[h] = dels[h]
  <2> HIDE DEF d
  <2>1. dels \in [Generations -> Delivery] /\ dels' = [dels EXCEPT ![g] = d]
    BY <1>0, <1>1, Zenon DEF Types, d
  <2> QED
    BY <1>4, <2>1, Zenon
<1>7. Begins(g)
  BY <1>6, TransportAssumption, Zenon DEF Begins
<1> HIDE DEF d
<1>8. DeliveriesMove
  BY <1>6, <1>7, Zenon DEF DeliveriesMove
<1>9. NoNewInvoke /\ \A h \in Generations : dels'[h].facts \subseteq dels[h].facts
  BY <1>5, <1>6, Zenon DEF NoNewInvoke
<1> QED
  BY <1>0, <1>1, <1>2, <1>8, <1>9, StoreStill, FactsStill, HandlerStep, Zenon

\* A claim that is lost, an envelope that is put back.
LEMMA DriverRequeues ==
  ASSUME Inv, NEW e \in Envelopes, LoseClaim(e) \/ Requeue(e), UNCHANGED runtimeVars, UNCHANGED batchVars
  PROVE  StepOK
<1>0. Types /\ TransportInv
  BY Zenon DEF Inv
<1>1. /\ dels' = dels /\ markers' = markers /\ closures' = closures /\ facts' = facts
      /\ invoked' = invoked /\ batch' = batch /\ receipts' = receipts
      /\ builder' = builder /\ rejected' = rejected
  BY Zenon DEF LoseClaim, Requeue, batchVars, runtimeVars
<1>2. PICK t \in Generations \cup {NoGeneration} :
        msgs' = [msgs EXCEPT ![e].state = "queued", ![e].token = t]
  <2>1. msgs[e].token \in Generations \cup {NoGeneration} /\ msgs \in [Envelopes -> Sent]
    BY <1>0, Zenon DEF Types, Sent, MessageType
  <2>2. CASE LoseClaim(e) /\ Provenance
    <3>1. msgs' = [msgs EXCEPT ![e].state = "queued", ![e].token = msgs[e].token]
      BY <2>1, <2>2, Zenon DEF LoseClaim, Sent, MessageType
    <3> QED
      BY <2>1, <3>1, Zenon
  <2>3. CASE Requeue(e) \/ (LoseClaim(e) /\ ~Provenance)
    <3>1. msgs' = [msgs EXCEPT ![e].state = "queued", ![e].token = NoGeneration]
      BY <2>3, Zenon DEF LoseClaim, Requeue
    <3> QED
      BY <3>1, Zenon
  <2> QED
    BY <2>2, <2>3, Zenon
<1>4. MessagesMove
  BY <1>0, <1>2, EnvelopeMoves, Zenon
<1>5. DeliveriesMove /\ NoNewInvoke /\ \A h \in Generations : dels'[h].facts \subseteq dels[h].facts
  BY <1>0, <1>1, DeliveriesStill, Zenon
<1> QED
  BY <1>0, <1>1, <1>4, <1>5, StoreStill, FactsStill, HandlerStep, Zenon

-----------------------------------------------------------------------------
(* The builder.                                                            *)

\* A step of the builder that leaves the deliveries alone.
LEMMA BuilderOK ==
  ASSUME Inv, dels' = dels, BatchMove, MessagesMove, FactsMove, CallbacksMove, BuilderMove,
         closures' \subseteq Callbacks
  PROVE  StepOK
<1>1. Types
  BY Zenon DEF Inv
<1>2. DeliveriesMove
  BY <1>1, DeliveriesStill, Zenon
<1> QED
  BY <1>2, Zenon DEF StepOK

\* The builder's next place, with the same next member.
LEMMA BuilderPlace ==
  ASSUME Types, NEW pc \in BuilderSteps, BuilderTo(pc)
  PROVE  builder' \in [pc: BuilderSteps, next: 1..(N + 1)] /\ builder'.pc = pc /\ builder'.next = builder.next
<1>1. builder \in [pc: BuilderSteps, next: 1..(N + 1)] /\ builder' = [builder EXCEPT !.pc = pc]
  BY Zenon DEF Types, BuilderTo
<1> QED
  BY <1>1, Zenon

\* A step of the builder that runs no closure.
LEMMA BuilderQuiet ==
  ASSUME Inv, dels' = dels, markers' = markers, invoked' = invoked
  PROVE  CallbacksMove /\ (facts' = facts => FactsMove) /\ (msgs' = msgs => MessagesMove)
<1>1. Types /\ TransportInv
  BY Zenon DEF Inv
<1>2. NoNewInvoke /\ \A g \in Generations : dels'[g].facts \subseteq dels[g].facts
  BY Zenon DEF NoNewInvoke
<1> QED
  BY <1>1, <1>2, CallbacksStill, FactsStill, MessagesStill, Zenon

\* CreateBatch stores the batch and registers the closures.
LEMMA BuilderCreates ==
  ASSUME Inv, CreateBatch
  PROVE  StepOK
<1>0. Types /\ TransportInv
  BY Zenon DEF Inv
<1>1. /\ builder.pc = "new" /\ batch' = createBatch /\ closures' = Callbacks /\ BuilderTo("dispatch")
      /\ msgs' = msgs /\ dels' = dels /\ markers' = markers /\ facts' = facts /\ invoked' = invoked
      /\ receipts' = receipts /\ rejected' = rejected
  BY Zenon DEF CreateBatch, BuilderAt
<1>2. BatchMove
  BY <1>1, Zenon DEF BatchMove, Creates
<1>3. CallbacksMove /\ FactsMove /\ MessagesMove
  BY <1>1, BuilderQuiet, Zenon
<1>4. BuilderMove
  <2>1. "dispatch" \in BuilderSteps
    BY Zenon DEF BuilderSteps
  <2>2. /\ builder' \in [pc: BuilderSteps, next: 1..(N + 1)]
        /\ builder'.pc = "dispatch" /\ builder'.next = builder.next
    BY <1>0, <1>1, <2>1, BuilderPlace, Zenon
  <2> QED
    BY <1>0, <1>1, <2>2, Zenon DEF BuilderMove, TransportInv
<1> QED
  BY <1>1, <1>2, <1>3, <1>4, BuilderOK, Zenon

\* DispatchMember: the next member is queued, or rejected.
LEMMA BuilderDispatches ==
  ASSUME Inv, NEW db \in Results, DispatchMember(db)
  PROVE  StepOK
<1>0. Types /\ TransportInv
  BY Zenon DEF Inv
<1>1. /\ builder.pc = "dispatch" /\ BusDispatch("member", builder.next, db)
      /\ dels' = dels /\ markers' = markers /\ closures' = closures /\ facts' = facts
      /\ invoked' = invoked /\ batch' = batch /\ receipts' = receipts /\ rejected' = rejected
  BY Zenon DEF DispatchMember, BuilderAt, runtimeVars
<1>2. builder.next \in Members
  BY <1>0, <1>1, Zenon DEF TransportInv
<1>3. MessagesMove
  <2>1. "member" \in Kinds /\ builder.next \in Members \cup {0}
    BY <1>2, Zenon DEF Kinds
  <2> QED
    BY <1>0, <1>1, <1>2, <2>1, DispatchMoves, Zenon
<1>4. BatchMove /\ FactsMove /\ CallbacksMove
  BY <1>1, StoreStill, BuilderQuiet, Zenon
<1>5. BuilderMove
  <2>1. {"reject", "returned", "dispatch"} \subseteq BuilderSteps
    BY Zenon DEF BuilderSteps
  <2>2. CASE BuilderTo("reject")
    <3>1. /\ builder' \in [pc: BuilderSteps, next: 1..(N + 1)]
          /\ builder'.pc = "reject" /\ builder'.next = builder.next
      BY <1>0, <2>1, <2>2, BuilderPlace, Zenon
    <3> QED
      BY <1>2, <3>1, Zenon DEF BuilderMove
  <2>3. CASE builder' = [pc |-> IF builder.next = N THEN "returned" ELSE "dispatch", next |-> builder.next + 1]
    <3>1. builder.next + 1 \in 1..(N + 1) /\ (builder.next # N => builder.next + 1 \in Members)
      BY <1>2, BatchAssumption DEF Members
    <3>2. PICK k : k = builder.next + 1
      BY Zenon
    <3>3. PICK pc \in {"returned", "dispatch"} : pc = IF builder.next = N THEN "returned" ELSE "dispatch"
      BY Zenon
    <3>4. /\ builder' = [pc |-> pc, next |-> k] /\ k \in 1..(N + 1) /\ pc \in BuilderSteps
          /\ pc = "dispatch" => k \in Members
      BY <2>1, <2>3, <3>1, <3>2, <3>3, Zenon
    <3> QED
      BY <3>3, <3>4, Zenon DEF BuilderMove
  <2> QED
    BY <2>2, <2>3, Zenon DEF DispatchMember, BuilderTo
<1>6. closures' \subseteq Callbacks
  BY <1>0, <1>1, Zenon DEF Types
<1> QED
  BY <1>1, <1>3, <1>4, <1>5, <1>6, BuilderOK, Zenon

\* ReadRejected leaves a batch alone that some member has settled.
LEMMA BuilderReads ==
  ASSUME Inv, NEW db \in Results, ReadRejected(db)
  PROVE  StepOK
<1>0. Types /\ TransportInv
  BY Zenon DEF Inv
<1>1. /\ builder.pc = "reject" /\ msgs' = msgs /\ dels' = dels /\ markers' = markers
      /\ closures' = closures /\ facts' = facts /\ invoked' = invoked
      /\ batch' = batch /\ receipts' = receipts /\ rejected' = rejected
  BY Zenon DEF ReadRejected, BuilderAt, runtimeVars
<1>2. PICK pc \in {"returned", "cancel"} : BuilderTo(pc)
  BY Zenon DEF ReadRejected
<1>3. BuilderMove
  <2>1. pc \in BuilderSteps
    BY Zenon DEF BuilderSteps
  <2>2. /\ builder' \in [pc: BuilderSteps, next: 1..(N + 1)]
        /\ builder'.pc = pc /\ builder'.next = builder.next
    BY <1>0, <1>2, <2>1, BuilderPlace, Zenon
  <2> QED
    BY <1>0, <1>1, <2>2, Zenon DEF BuilderMove, TransportInv
<1>4. BatchMove /\ FactsMove /\ CallbacksMove /\ MessagesMove
  BY <1>1, StoreStill, BuilderQuiet, Zenon
<1>5. closures' \subseteq Callbacks
  BY <1>0, <1>1, Zenon DEF Types
<1> QED
  BY <1>1, <1>3, <1>4, <1>5, BuilderOK, Zenon

\* CancelRejected publishes the cancellation once the store has it.
LEMMA BuilderCancels ==
  ASSUME Inv, NEW db \in Results, CancelRejected(db)
  PROVE  StepOK
<1>0. Types /\ TransportInv
  BY Zenon DEF Inv
<1>1. /\ builder.pc = "cancel" /\ msgs' = msgs /\ dels' = dels /\ markers' = markers
      /\ closures' = closures /\ invoked' = invoked /\ receipts' = receipts
  BY Zenon DEF CancelRejected, BuilderAt
<1>2. builder.next \in Members
  BY <1>0, <1>1, Zenon DEF TransportInv
<1>3. Stays \/ Cancels
  BY <1>1, Zenon DEF CancelRejected, Stays, Cancels
<1>4. db = "ok" => rejected' /\ batch'.cancelled
  <2>1. CASE db = "ok"
    <3>1. Cancels
      BY <1>1, <2>1, Zenon DEF CancelRejected, Cancels
    <3>2. Ends
      BY <1>0, <3>1, EndsFacts, Zenon
    <3> QED
      BY <3>2, Zenon DEF Ends
  <2> QED
    BY <2>1, Zenon
<1>5. BuilderMove
  <2>1. PICK pc \in {"read", "returned"} : BuilderTo(pc) /\ (pc = "read" => db = "ok")
    BY Zenon DEF CancelRejected
  <2>2. pc \in BuilderSteps
    BY Zenon DEF BuilderSteps
  <2>3. /\ builder' \in [pc: BuilderSteps, next: 1..(N + 1)]
        /\ builder'.pc = pc /\ builder'.next = builder.next
    BY <1>0, <2>1, <2>2, BuilderPlace, Zenon
  <2> QED
    BY <1>4, <2>1, <2>3, Zenon DEF BuilderMove
<1>6. FactsMove
  <2> DEFINE b == BuilderFact("cancelled", builder.next)
  <2>1. b \in Published /\ b.kind = "cancelled" /\ b.member = builder.next /\ b.env = 0
    <3>1. 0 \in Nat
      BY Zenon
    <3> QED
      BY <1>2, <3>1, Zenon DEF BuilderFact, Published, FactType, FactKinds
  <2>2. facts' = facts \/ (facts' = facts \cup {b} /\ db = "ok")
    BY Zenon DEF CancelRejected
  <2>3. PICK c : c = b
    BY Zenon
  <2>4. facts' \subseteq Published
    BY <1>0, <2>1, <2>2, Zenon DEF Types
  <2>5. \A f \in AllFacts' : f \in AllFacts \/ (f = c /\ db = "ok")
    BY <1>1, <2>2, <2>3, Zenon DEF AllFacts
  <2>6. db = "ok" => FactOK(c)'
    <3>1. c.kind = "cancelled" /\ c.member \in Members /\ c.env = 0
      BY <1>2, <2>1, <2>3, Zenon
    <3> QED
      BY <1>4, <3>1, Zenon DEF FactOK
  <2> QED
    BY <2>4, <2>5, <2>6, Zenon DEF FactsMove
<1>7. BatchMove /\ CallbacksMove /\ MessagesMove
  BY <1>1, <1>3, BuilderQuiet, Zenon DEF BatchMove
<1>8. closures' \subseteq Callbacks
  BY <1>0, <1>1, Zenon DEF Types
<1> QED
  BY <1>1, <1>5, <1>6, <1>7, <1>8, BuilderOK, Zenon

\* ReadCancelled drops the closure of a success.
LEMMA BuilderPrepares ==
  ASSUME Inv, NEW db \in Results, ReadCancelled(db)
  PROVE  StepOK
<1>0. Types
  BY Zenon DEF Inv
<1>1. /\ builder.pc = "read" /\ msgs' = msgs /\ dels' = dels /\ markers' = markers
      /\ facts' = facts /\ invoked' = invoked /\ closures' \subseteq closures
      /\ batch' = batch /\ receipts' = receipts /\ rejected' = rejected
  BY Zenon DEF ReadCancelled, BuilderAt, prepareBatchTerminalCallbacks
<1>2. PICK pc \in {"catch", "returned"} : BuilderTo(pc)
  BY Zenon DEF ReadCancelled
<1>3. BuilderMove
  <2>1. pc \in BuilderSteps
    BY Zenon DEF BuilderSteps
  <2>2. builder' \in [pc: BuilderSteps, next: 1..(N + 1)] /\ builder'.pc = pc
    BY <1>0, <1>2, <2>1, BuilderPlace, Zenon
  <2>3. rejected'
    BY <1>1, Zenon DEF Inv, StoreInv
  <2> QED
    BY <2>2, <2>3, Zenon DEF BuilderMove
<1>4. BatchMove /\ FactsMove /\ CallbacksMove /\ MessagesMove
  BY <1>1, StoreStill, BuilderQuiet, Zenon
<1>5. closures' \subseteq Callbacks
  BY <1>0, <1>1, Zenon DEF Types
<1> QED
  BY <1>1, <1>3, <1>4, <1>5, BuilderOK, Zenon

\* The closures of a batch its builder cancelled, in the builder's own process.
LEMMA BuilderCallback ==
  ASSUME Inv, NEW kind \in {"catch", "finally"}, NEW db \in Results, CallbackInline(kind, db)
  PROVE  StepOK
<1>0. Types /\ TransportInv
  BY Zenon DEF Inv
<1>1. /\ builder.pc = kind /\ msgs' = msgs /\ dels' = dels /\ facts' = facts
      /\ closures' \subseteq closures /\ batch' = batch /\ receipts' = receipts /\ rejected' = rejected
  BY Zenon DEF CallbackInline, BuilderAt, invokeCallbackInline
<1>2. rejected /\ Allowed(kind)
  BY <1>1, Zenon DEF Inv, StoreInv, Allowed
<1>3. BuilderMove
  <2>1. PICK pc \in {"finally", "returned"} : BuilderTo(pc)
    BY Zenon DEF CallbackInline
  <2>2. pc \in BuilderSteps
    BY Zenon DEF BuilderSteps
  <2>3. builder' \in [pc: BuilderSteps, next: 1..(N + 1)] /\ builder'.pc = pc
    BY <1>0, <2>1, <2>2, BuilderPlace, Zenon
  <2> QED
    BY <1>1, <1>2, <2>3, Zenon DEF BuilderMove
<1>4. MessagesMove /\ DeliveriesMove /\ NoNewInvoke /\ FactsMove
  BY <1>0, <1>1, MessagesStill, DeliveriesStill, FactsStill, Zenon
<1>5. (markers \subseteq markers' /\ invoked' = invoked) \/ InvokesInline(kind)
  BY <1>1, <1>2, Zenon DEF CallbackInline, invokeCallbackInline, callbackOnce, Mark, InvokesInline
<1>6. CallbacksMove
  BY <1>4, <1>5, Zenon DEF CallbacksMove, CallbackKinds
<1>7. BatchMove /\ closures' \subseteq Callbacks
  BY <1>0, <1>1, StoreStill, Zenon DEF Types
<1> QED
  BY <1>1, <1>3, <1>4, <1>6, <1>7, BuilderOK, Zenon

\* CrashBuilder: the process dies with its closures and deliveries.
LEMMA BuilderCrash ==
  ASSUME Inv, CrashBuilder
  PROVE  StepOK
<1>0. Types /\ TransportInv
  BY Zenon DEF Inv
<1> DEFINE S == {g \in Running : dels[g].home}
<1>1. /\ BuilderTo("returned") /\ msgs' = msgs /\ closures' = {}
      /\ markers' = markers /\ facts' = facts /\ invoked' = invoked
      /\ batch' = batch /\ receipts' = receipts /\ rejected' = rejected
      /\ dels' = [g \in Generations |-> IF g \in S THEN Over ELSE dels[g]]
  BY Zenon DEF CrashBuilder, CrashHome
<1>2. S \in SUBSET Running
  BY Zenon
<1> HIDE DEF S
<1>3. DeliveriesMove /\ NoNewInvoke /\ \A h \in Generations : dels'[h].facts \subseteq dels[h].facts
  BY <1>0, <1>1, <1>2, OverMoves, Zenon
<1>4. MessagesMove /\ FactsMove /\ BatchMove /\ CallbacksMove
  BY <1>0, <1>1, <1>3, MessagesStill, FactsStill, StoreStill, CallbacksStill, Zenon
<1>5. BuilderMove
  <2>1. "returned" \in BuilderSteps
    BY Zenon DEF BuilderSteps
  <2>2. builder' \in [pc: BuilderSteps, next: 1..(N + 1)] /\ builder'.pc = "returned"
    BY <1>0, <1>1, <2>1, BuilderPlace, Zenon
  <2> QED
    BY <2>2, Zenon DEF BuilderMove
<1>6. closures' \subseteq Callbacks
  BY <1>1, Zenon
<1> QED
  BY <1>3, <1>4, <1>5, <1>6, Zenon DEF StepOK

-----------------------------------------------------------------------------
(* The theorems.                                                           *)

\* A step of a member's handler.
LEMMA MemberSteps ==
  ASSUME Counting, Inv, NEW g \in Generations, MemberStep(g)
  PROVE  StepOK
<1>1. CASE \E err \in Errors : Execute(g, err)
  BY <1>1, MemberExecute, Zenon
<1>2. CASE \E db \in Results : Begin(g, db)
  BY <1>2, MemberBegin, Zenon
<1>3. CASE \E db \in Results : SettleMember(g, db)
  BY <1>3, MemberSettle, Zenon
<1>4. CASE ConfirmSettlement(g)
  BY <1>4, MemberConfirm, Zenon
<1> QED
  BY <1>1, <1>2, <1>3, <1>4, Zenon DEF MemberStep

\* A step of a callback's handler, of a settlement, or a crash.
LEMMA RuntimeSteps ==
  ASSUME Counting, Inv, NEW g \in Generations, RuntimeStep(g)
  PROVE  StepOK
<1>0. UNCHANGED batchVars
  BY Zenon DEF RuntimeStep
<1>1. CASE \E db \in Results, kind \in Callbacks : claimCallback(g, kind, CallbackReady(kind), db)
  BY <1>0, <1>1, CallbackClaim, Zenon
<1>2. CASE \E kind \in Callbacks : invokeCallback(g, kind)
  BY <1>0, <1>2, CallbackInvoke, Zenon
<1>3. CASE \E kind \in Callbacks, err \in {"nil", "error"} : finishCallback(g, kind, err)
  BY <1>0, <1>3, CallbackFinish, Zenon
<1>4. CASE \E db \in Results : dispatchCallback(g, db)
  BY <1>0, <1>4, CallbackDispatch, Zenon
<1>5. CASE \E db \in Results : settleDelivery(g, IF dels[g].kind = "member" THEN MaxRetry ELSE 0, db)
  BY <1>0, <1>5, DriverSettles, Zenon
<1>6. CASE CrashAway(g)
  BY <1>0, <1>6, WorkerCrash, Zenon
<1> QED
  BY <1>1, <1>2, <1>3, <1>4, <1>5, <1>6, Zenon DEF RuntimeStep

\* A step of the driver.
LEMMA EnvelopeSteps ==
  ASSUME Inv, NEW e \in Envelopes, Envelope(e)
  PROVE  StepOK
<1>0. UNCHANGED batchVars /\ UNCHANGED runtimeVars
  BY Zenon DEF Envelope, TransportStep
<1>1. CASE \E g \in Generations, home \in Homes : Deliver(g, e, home)
  BY <1>0, <1>1, DriverDelivers, Zenon
<1>2. CASE LoseClaim(e) \/ Requeue(e)
  BY <1>0, <1>2, DriverRequeues, Zenon
<1> QED
  BY <1>1, <1>2, Zenon DEF Envelope, TransportStep

\* A step of the builder.
LEMMA BuilderStepsOK ==
  ASSUME Inv, BuilderStep
  PROVE  StepOK
<1>1. CASE CreateBatch
  BY <1>1, BuilderCreates, Zenon
<1>2. CASE \E db \in Results : DispatchMember(db)
  BY <1>2, BuilderDispatches, Zenon
<1>3. CASE \E db \in Results : ReadRejected(db)
  BY <1>3, BuilderReads, Zenon
<1>4. CASE \E db \in Results : CancelRejected(db)
  BY <1>4, BuilderCancels, Zenon
<1>5. CASE \E db \in Results : ReadCancelled(db)
  BY <1>5, BuilderPrepares, Zenon
<1>6. CASE \E db \in Results : CallbackInline("catch", db) \/ CallbackInline("finally", db)
  BY <1>6, BuilderCallback, Zenon
<1> QED
  BY <1>1, <1>2, <1>3, <1>4, <1>5, <1>6, Zenon DEF BuilderStep

\* Every step keeps the invariant and moves the stored batch forward.
LEMMA NextStep ==
  ASSUME Counting, Inv, [Next]_vars
  PROVE  Inv' /\ Forward
<1>1. CASE Next
  <2>1. StepOK
    BY <1>1, MemberSteps, RuntimeSteps, EnvelopeSteps, BuilderStepsOK, BuilderCrash, Zenon DEF Next
  <2> QED
    BY <2>1, InvStep, Zenon
<1>2. CASE UNCHANGED vars
  <2>1. /\ msgs' = msgs /\ dels' = dels /\ markers' = markers /\ closures' = closures /\ facts' = facts
        /\ invoked' = invoked /\ batch' = batch /\ receipts' = receipts
        /\ builder' = builder /\ rejected' = rejected
    BY <1>2, Zenon DEF vars, batchVars, runtimeVars
  <2>2. BatchMove /\ MessagesMove /\ FactsMove /\ CallbacksMove /\ BuilderMove
    BY <2>1, StoreStill, BuilderQuiet, BuilderStill, Zenon
  <2>3. closures' \subseteq Callbacks
    BY <2>1, Zenon DEF Inv, Types
  <2>4. StepOK
    BY <2>1, <2>2, <2>3, BuilderOK, Zenon
  <2> QED
    BY <2>4, InvStep, Zenon
<1> QED
  BY <1>1, <1>2, Zenon

INSTANCE FiniteSetTheorems

\* The members are finitely many, so the counters of BatchState count them.
LEMMA MembersCount == Counting
<1>1. IsFiniteSet(Members)
  <2>1. 1 \in Int /\ N \in Int
    BY BatchAssumption
  <2> QED
    BY <2>1, FS_Interval, Zenon DEF Members
<1>2. ASSUME NEW S \in SUBSET Members
      PROVE  Cardinality(S) \in Nat /\ (Cardinality(S) = 0 <=> S = {})
  <2>1. IsFiniteSet(S)
    BY <1>1, FS_Subset, Zenon
  <2> QED
    BY <2>1, FS_CardinalityType, FS_EmptySet, Zenon
<1>3. ASSUME NEW m \in Members
      PROVE  Cardinality({m}) = 1
  BY FS_Singleton, Zenon
<1> QED
  BY <1>2, <1>3, Zenon DEF Counting

\* The invariant of the batch, for every number of members, envelopes,
\* deliveries and disruptions, tolerant or fail-fast.
THEOREM BatchInvariant == Spec => []Inv
<1>1. Inv /\ [Next]_vars => Inv'
  BY MembersCount, NextStep, Zenon
<1> QED
  BY <1>1, InvInit, PTL DEF Spec

\* Exactly one receipt owns the transition that ended the batch, unless the
\* builder cancelled it: recordTransitionReceipt and markBatchTerminal, over
\* every interleaving of members, duplicates, unclear commits and crashes.
THEOREM TerminalOwnerTheorem == Spec => []TerminalOwner
<1>1. Inv => TerminalOwner
  BY MembersCount, OwnerFollows, Zenon
<1> QED
  BY <1>1, BatchInvariant, PTL

\* A published fact is the one the store decided, under the identity of the
\* receipt that decided it: emit, Continue and the recovery of facts.
THEOREM FactsTruthfulTheorem == Spec => []FactsTruthful
<1>1. Inv => FactsTruthful
  BY MembersCount, FactsFollow, Zenon
<1> QED
  BY <1>1, BatchInvariant, PTL

\* Each closure runs at most once, in a state that allows it (callbackOnce).
THEOREM CallbackAtMostOnceTheorem == Spec => []CallbackAtMostOnce
<1>1. Inv => CallbackAtMostOnce
  BY MembersCount, CallbacksFollow, Zenon
<1> QED
  BY <1>1, BatchInvariant, PTL

\* The first outcome of a member is final, and so is the end of the batch
\* (settleBatchOutcome), whatever arrives after it.
THEOREM FirstOutcomeTheorem == Spec => FirstOutcomeWins
<1>1. Inv /\ [Next]_vars =>
        [/\ \A m \in Members : batch.outcome[m] # "pending" =>
              batch'.outcome[m] = batch.outcome[m] /\ receipts'[m] = receipts[m]
         /\ batch.completed =>
              batch'.completed /\ (~rejected' => batch'.cancelled = batch.cancelled)]_vars
  BY MembersCount, NextStep, Zenon DEF Forward
<1> QED
  BY <1>1, BatchInvariant, PTL DEF Spec, FirstOutcomeWins


=============================================================================
