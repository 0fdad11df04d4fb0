------------------------ MODULE WorkflowStoreSafety ------------------------
(***************************************************************************)
(* Safety of the SQL workflow store, for any number of members or nodes,   *)
(* of deliveries and of faults: the counters of the batch row agree with   *)
(* its members, stored receipts can always be read back, and Prune deletes *)
(* a workflow altogether or not at all.  Each rests on an invariant of its *)
(* own beside Inv, which is assumed before and after each step.            *)
(***************************************************************************)
EXTENDS WorkflowStoreMapping

\* Sets of members are counted one by one.
Counting ==
  \A S \in SUBSET Members :
    /\ Cardinality(S) \in Nat
    /\ Cardinality(S) = 0 <=> S = {}
    /\ \A m \in Members : Cardinality({m}) = 1
    /\ \A m \in Members \ S : Cardinality(S \cup {m}) = Cardinality(S) + 1

-----------------------------------------------------------------------------
(* The counters of the batch row.                                          *)

SettledMembers == {m \in Members : history.outcome[m] # "pending"}
FailedMembers == {m \in Members : history.outcome[m] = "failed"}

\* The batch row counts outcomes, and is complete for one of three reasons.
CounterInv ==
  kind = "batch" =>
    /\ batch.processed = Cardinality(SettledMembers)
    /\ batch.failed = Cardinality(FailedMembers)
    /\ batch.completed <=> \/ PendingMembers = {}
                           \/ ~batch.allow /\ FailedMembers # {}
                           \/ history.ender = Stopped

-----------------------------------------------------------------------------
(* Receipts that can be read back.                                         *)

\* A delivery settles one member, and the aggregate receipt names one of them.
OwnersOK ==
  /\ \A m, k \in Members, c \in Calls : history.writer[m] = c /\ history.writer[k] = c => m = k
  /\ Known(receipts[0]) => /\ kind = "batch"
                           /\ \E m \in Members : /\ history.writer[m] = receipts[0].owner
                                                 /\ history.outcome[m] = receipts[0].outcome

\* A chain node is asked for when its predecessors have succeeded, and the
\* chain moves forward only: a lost compare-and-swap has an answer.
ClearCall(c) ==
  LET r == calls[c] IN
  /\ ~r.corrupt
  /\ r.pc = "receipt" => r.reply # "corrupt"
  /\ kind = "chain" /\ r.pc \in {"insert", "cas", "reread", "commit"} => r.member <= chain.next
  /\ r.pc = "reread" => ~(chain.exists /\ ChainOpen /\ chain.next = r.member)

ReceiptInv == OwnersOK /\ \A c \in Calls : ClearCall(c)

-----------------------------------------------------------------------------
(* Prune leaves nothing behind.                                            *)

Exists == batch.exists \/ chain.exists
Touched == batch.touched \/ chain.touched
KnownReceipts == {r \in Rows : Known(receipts[r])}

\* What a Prune has selected is the whole workflow, unless a settlement has
\* touched it since the Prune began; then the Prune leaves it.
PruneSelects ==
  /\ pruner.pc \in {"select", "rows", "commit"} => Exists
  /\ pruner.pc \in {"select", "rows", "commit"} /\ ~Touched => KnownReceipts \subseteq pruner.receipts
  /\ pruner.pc \in {"rows", "commit"} /\ ~Touched => pruner.rows
  /\ pruner.pc = "commit" /\ pruner.parent =>
       /\ pruner.rows /\ KnownReceipts \subseteq pruner.receipts
       /\ locks[0] = Pruner

\* A settlement commits to a workflow that is there, and a workflow that is
\* gone has ended and is gone altogether.
OrphanInv ==
  /\ PruneSelects
  /\ \A c \in Calls : calls[c].pc = "commit" => Exists
  /\ ~Exists => DependentRows = {} /\ KnownReceipts = {} /\ history.ender # Nobody
  /\ history.ender = Nobody => \A m \in Members : members[m] # "gone"

-----------------------------------------------------------------------------
(* The batch row counts.                                                   *)

\* What the arithmetic update leaves in the counters.
LEMMA SettledCounters ==
  ASSUME RowsTyped, NEW c \in Calls
  PROVE  /\ Settled(c).processed = batch.processed + 1
         /\ Settled(c).failed = batch.failed + IF calls[c].outcome = "failed" THEN 1 ELSE 0
         /\ Settled(c).touched = Pruning
BY Zenon DEF Settled, RowsTyped, BatchRecord

\* A step that touches neither history nor counters keeps their agreement.
LEMMA CountersKept ==
  ASSUME CounterInv, kind' = kind,
         kind = "batch" => /\ history' = history
                           /\ batch'.processed = batch.processed /\ batch'.failed = batch.failed
                           /\ batch'.completed = batch.completed /\ batch'.allow = batch.allow
  PROVE  CounterInv'
BY Zenon DEF CounterInv, SettledMembers, FailedMembers, PendingMembers

\* A claimed settlement counts itself.
LEMMA CommitCounts ==
  ASSUME Inv, Counting, CountsPending, CounterInv, NEW c \in Calls, kind = "batch", calls[c].pc = "commit", calls[c].claimed,
         kind' = kind, batch' = Settled(c), history' = Recorded(c, Completes(c))
  PROVE  CounterInv'
<1> DEFINE m == calls[c].member
           o == calls[c].outcome
<1>1. /\ m \in Members /\ o \in Outcomes /\ history.outcome[m] = "pending" /\ m \in PendingMembers
      /\ calls[c].seen = 0 <=> history.ender = Nobody
  BY BatchCommitReady, Zenon
<1>2. RowsTyped
  BY Zenon DEF Inv, StoreInv
<1>3. /\ history'.outcome = [history.outcome EXCEPT ![m] = o]
      /\ history'.ender = IF Completes(c) THEN c ELSE history.ender
  BY <1>1, <1>2, RecordedFacts, Zenon
<1>4. history.outcome \in [Members -> Outcomes \cup {"pending"}]
  BY <1>2, Zenon DEF RowsTyped, HistoryRecord
<1>5. o # "pending" /\ o \in {"succeeded", "failed"}
  BY <1>1, Zenon DEF Outcomes
<1> HIDE DEF m, o
<1>6. /\ SettledMembers' = SettledMembers \cup {m} /\ m \notin SettledMembers
      /\ PendingMembers' = PendingMembers \ {m}
  BY <1>1, <1>3, <1>4, <1>5, ZenonT(60) DEF SettledMembers, PendingMembers
<1>7. /\ o = "failed" => FailedMembers' = FailedMembers \cup {m}
      /\ o # "failed" => FailedMembers' = FailedMembers
      /\ m \notin FailedMembers
  BY <1>1, <1>3, <1>4, <1>5, ZenonT(60) DEF FailedMembers
<1>8. /\ SettledMembers \in SUBSET Members /\ FailedMembers \in SUBSET Members
      /\ PendingMembers \in SUBSET Members
  BY Zenon DEF SettledMembers, FailedMembers, PendingMembers
<1>9. Cardinality(SettledMembers') = Cardinality(SettledMembers) + 1
  BY <1>1, <1>6, <1>8, Zenon DEF Counting
<1>10. Cardinality(FailedMembers') = Cardinality(FailedMembers) + IF o = "failed" THEN 1 ELSE 0
  <2>1. CASE o = "failed"
    <3>1. Cardinality(FailedMembers \cup {m}) = Cardinality(FailedMembers) + 1
      BY <1>1, <1>7, <1>8, Zenon DEF Counting
    <3> QED
      BY <1>7, <2>1, <3>1, Zenon
  <2>2. CASE o # "failed"
    <3>1. Cardinality(FailedMembers) \in Nat
      BY <1>8, Zenon DEF Counting
    <3> QED
      BY <1>7, <2>2, <3>1
  <2> QED
    BY <2>1, <2>2, Zenon
<1>11. /\ batch.processed = Cardinality(SettledMembers) /\ batch.failed = Cardinality(FailedMembers)
       /\ batch.completed <=> \/ PendingMembers = {}
                              \/ ~batch.allow /\ FailedMembers # {}
                              \/ history.ender = Stopped
  BY Zenon DEF CounterInv
<1>12. /\ batch'.processed = batch.processed + 1
       /\ batch'.failed = batch.failed + IF o = "failed" THEN 1 ELSE 0
  BY <1>2, SettledCounters, Zenon DEF o
<1>13. /\ batch'.allow = batch.allow
       /\ batch'.completed <=> batch.completed \/ batch.pending <= 1 \/ (o = "failed" /\ ~batch.allow)
  BY <1>2, SettledFacts, Zenon DEF o
<1>14. batch.pending <= 1 <=> PendingMembers' = {}
  <2>1. /\ Cardinality(PendingMembers) \in Nat \ {0}
        /\ Cardinality(PendingMembers) = 1 <=> PendingMembers = {m}
    BY <1>1, Zenon DEF CountsPending
  <2>2. batch.pending = Cardinality(PendingMembers)
    BY Zenon DEF Inv, StoreInv, BatchOK
  <2>3. PendingMembers \ {m} = {} <=> PendingMembers = {m}
    BY <1>1, Zenon
  <2>4. batch.pending <= 1 <=> Cardinality(PendingMembers) = 1
    BY <2>1, <2>2
  <2> QED
    BY <1>6, <2>1, <2>3, <2>4, Zenon
<1>15. history'.ender = Stopped <=> history.ender = Stopped
  <2>1. Stopped # c /\ Stopped # Nobody
    BY StoreAssumption DEF Stopped, Nobody, Calls
  <2> QED
    BY <1>1, <1>3, <2>1, Zenon DEF Completes
<1>16. FailedMembers' # {} <=> FailedMembers # {} \/ o = "failed"
  BY <1>7, Zenon
<1>17. PendingMembers # {}
  BY <1>1, Zenon
<1>18. batch'.completed <=> \/ PendingMembers' = {}
                            \/ ~batch'.allow /\ FailedMembers' # {}
                            \/ history'.ender = Stopped
  BY <1>11, <1>13, <1>14, <1>15, <1>16, <1>17, Zenon
<1>19. batch'.processed = Cardinality(SettledMembers') /\ batch'.failed = Cardinality(FailedMembers')
  BY <1>9, <1>10, <1>11, <1>12, Zenon
<1> QED
  BY <1>18, <1>19, Zenon DEF CounterInv

\* CancelBatch completes the batch as stopped, unless it was complete.
LEMMA CancelCounts ==
  ASSUME Inv, CounterInv, CancelBatch
  PROVE  CounterInv'
<1>1. /\ batch'.completed /\ batch'.processed = batch.processed /\ batch'.failed = batch.failed
      /\ batch'.allow = batch.allow
  BY Zenon DEF Inv, StoreInv, RowsTyped, BatchRecord, CancelBatch
<1>2. /\ history'.outcome = history.outcome
      /\ history'.ender = IF batch.completed THEN history.ender ELSE Stopped
  BY Zenon DEF Inv, StoreInv, RowsTyped, HistoryRecord, CancelBatch
<1>3. kind' = kind
  BY Zenon DEF CancelBatch
<1>4. SettledMembers' = SettledMembers /\ FailedMembers' = FailedMembers /\ PendingMembers' = PendingMembers
  BY <1>2, Zenon DEF SettledMembers, FailedMembers, PendingMembers
<1> QED
  BY <1>1, <1>2, <1>3, <1>4, Zenon DEF CounterInv

-----------------------------------------------------------------------------
(* Receipts can be read back.                                              *)

\* What OwnersOK says is what reading back validates.
LEMMA OwnersRead ==
  ASSUME Inv, Counting, OwnersOK
  PROVE  Readable
<1> SUFFICES ASSUME Known(receipts[0])
             PROVE  LET owners == {m \in Members : receipts[m].owner = receipts[0].owner} IN
                    /\ Cardinality(owners) = 1
                    /\ \A m \in owners : receipts[m].outcome = receipts[0].outcome
  BY Zenon DEF Readable
<1> DEFINE d == receipts[0].owner
           owners == {m \in Members : receipts[m].owner = d}
<1>1. d \in Calls
  <2>1. receipts[0] \in Receipt
    BY Transactions, Zenon DEF Inv, StoreInv, RowsTyped
  <2> QED
    BY <2>1, Zenon DEF Receipt, Known
<1>2. kind = "batch" /\ history.ender = d
  BY Zenon DEF OwnersOK, Inv, StoreInv, ReceiptsOK
<1>3. PICK m \in Members : history.writer[m] = d /\ history.outcome[m] = receipts[0].outcome
  BY Zenon DEF OwnersOK
<1>4. receipts[m].owner = d
  BY <1>1, <1>2, <1>3, Zenon DEF Inv, StoreInv, BatchOK
<1>5. ASSUME NEW k \in owners PROVE k = m
  <2>1. k \in Members /\ Known(receipts[k])
    BY <1>5, Zenon DEF Known
  <2>2. history.writer[k] = d
    BY <1>5, <2>1, Zenon DEF Inv, StoreInv, ReceiptsOK
  <2> QED
    BY <1>1, <1>3, <2>1, <2>2, Zenon DEF OwnersOK
<1>6. owners = {m}
  BY <1>3, <1>4, <1>5, Zenon
<1>7. Cardinality(owners) = 1
  BY <1>3, <1>6, Zenon DEF Counting
<1>8. receipts[m].outcome = receipts[0].outcome
  <2>1. Known(receipts[m])
    BY <1>4, Zenon DEF Known
  <2> QED
    BY <1>3, <2>1, Zenon DEF Inv, StoreInv, ReceiptsOK
<1> QED
  BY <1>6, <1>7, <1>8, Zenon

\* The owners of receipts stay told apart while no outcome is recorded.
LEMMA OwnersKept ==
  ASSUME OwnersOK, kind' = kind, history'.writer = history.writer, history'.outcome = history.outcome,
         receipts'[0] = receipts[0] \/ receipts'[0] = NoReceipt
  PROVE  OwnersOK'
<1>1. ~Known(NoReceipt)
  BY Zenon DEF Known, NoReceipt
<1> QED
  BY <1>1, Zenon DEF OwnersOK, Known

\* A settlement records one outcome, and signs the aggregate receipt with it.
LEMMA OwnersRecorded ==
  ASSUME Inv, OwnersOK, NEW c \in Calls, calls[c].member \in Members,
         kind' = kind, history.outcome[calls[c].member] = "pending", calls[c].pc = "commit",
         history'.outcome = [history.outcome EXCEPT ![calls[c].member] = calls[c].outcome],
         history'.writer = [history.writer EXCEPT ![calls[c].member] = c],
         \/ receipts'[0] = receipts[0]
         \/ kind = "batch" /\ receipts'[0].owner = c /\ receipts'[0].outcome = calls[c].outcome
  PROVE  OwnersOK'
<1> DEFINE m == calls[c].member
           o == calls[c].outcome
<1>1. /\ history.outcome \in [Members -> Outcomes \cup {"pending"}]
      /\ history.writer \in [Members -> Owners]
  BY Zenon DEF Inv, StoreInv, RowsTyped, HistoryRecord
<1>2. /\ history'.outcome[m] = o /\ history'.writer[m] = c
      /\ \A k \in Members \ {m} : /\ history'.outcome[k] = history.outcome[k]
                                  /\ history'.writer[k] = history.writer[k]
  BY <1>1, Zenon
<1>3. history.writer[m] = Nobody
  BY Zenon DEF Inv, StoreInv, ReceiptsOK
<1>4. \A k \in Members : history.writer[k] # c
  BY Zenon DEF Inv, CallInv, CallOK
<1>5. ASSUME NEW j \in Members, NEW k \in Members, NEW d \in Calls,
             history'.writer[j] = d, history'.writer[k] = d
      PROVE  j = k
  <2>1. CASE d = c
    <3>1. \A i \in Members : history'.writer[i] = c => i = m
      BY <1>2, <1>4, Zenon
    <3> QED
      BY <1>5, <2>1, <3>1, Zenon
  <2>2. CASE d # c
    <3>1. j # m /\ k # m
      BY <1>2, <1>5, <2>2, Zenon
    <3>2. history.writer[j] = d /\ history.writer[k] = d
      BY <1>2, <1>5, <3>1, Zenon
    <3> QED
      BY <3>2, Zenon DEF OwnersOK
  <2> QED
    BY <2>1, <2>2, Zenon
<1>6. ASSUME Known(receipts'[0])
      PROVE  kind = "batch" /\ \E k \in Members : /\ history'.writer[k] = receipts'[0].owner
                                                  /\ history'.outcome[k] = receipts'[0].outcome
  <2>1. CASE receipts'[0] = receipts[0]
    <3>1. kind = "batch"
      BY <1>6, <2>1, Zenon DEF OwnersOK
    <3>2. PICK k \in Members : /\ history.writer[k] = receipts[0].owner
                               /\ history.outcome[k] = receipts[0].outcome
      BY <1>6, <2>1, Zenon DEF OwnersOK
    <3>3. k # m
      BY <1>3, <1>6, <2>1, <3>2, Zenon DEF Known
    <3> QED
      BY <1>2, <2>1, <3>1, <3>2, <3>3, Zenon
  <2>2. CASE kind = "batch" /\ receipts'[0].owner = c /\ receipts'[0].outcome = o
    BY <1>2, <2>2, ZenonT(60)
  <2> QED
    BY <2>1, <2>2, Zenon
<1> QED
  BY <1>5, <1>6, ZenonT(60) DEF OwnersOK

\* A chain only moves forward, and what is gone or has ended stays so.
Forward ==
  /\ kind' = kind
  /\ chain'.exists => chain.exists
  /\ ChainOpen' => ChainOpen
  /\ chain'.next = chain.next \/ chain'.next = chain.next + 1

\* A settlement that does not move stays clear of corruption.
LEMMA ClearKept ==
  ASSUME Inv, NEW c \in Calls, ClearCall(c), calls'[c] = calls[c], Forward
  PROVE  ClearCall(c)'
<1>1. calls[c].member \in Nat /\ chain.next \in Nat
  <2>1. calls[c].member \in Rows /\ chain.next \in Nat
    BY Zenon DEF Inv, TypeInv, CallsTyped, CallRecord, TablesTyped, ChainRecord
  <2> QED
    BY <2>1, StoreAssumption DEF Rows
<1>2. calls[c].pc = "reread" => kind = "chain"
  <2>1. Shape(calls[c], kind) /\ kind \in {"batch", "chain"}
    BY Zenon DEF Inv, TypeInv, CallsTyped, TablesTyped
  <2> QED
    BY <2>1, Zenon DEF Shape, BatchPlaces
<1>3. calls[c].member <= chain.next => calls[c].member <= chain'.next
  BY <1>1 DEF Forward
<1>4. calls[c].member <= chain.next /\ chain'.next = calls[c].member => chain.next = calls[c].member
  BY <1>1 DEF Forward
<1>5. calls[c].pc = "reread" => ~(chain'.exists /\ ChainOpen' /\ chain'.next = calls[c].member)
  BY <1>2, <1>4, Zenon DEF ClearCall, Forward
<1>6. kind = "chain" /\ calls[c].pc \in {"insert", "cas", "reread", "commit"} => calls[c].member <= chain'.next
  BY <1>3, Zenon DEF ClearCall
<1>7. ~calls[c].corrupt /\ (calls[c].pc = "receipt" => calls[c].reply # "corrupt")
  BY Zenon DEF ClearCall
<1> QED
  BY <1>5, <1>6, <1>7, Zenon DEF ClearCall, Forward

\* The record a settlement returns with has no complaint.
LEMMA ReturnClear ==
  ASSUME Inv, NEW c \in Calls, NEW a, calls' = Return(c, a)
  PROVE  /\ ClearCall(c)' /\ calls'[c].pc = "returned"
         /\ \A e \in Calls \ {c} : calls'[e] = calls[e]
<1>1. calls' = [calls EXCEPT ![c] = ReturnRecord(a)]
  BY ReturnIs, Zenon DEF Inv, TypeInv
<1>2. calls \in [Calls -> CallRecord]
  BY Zenon DEF Inv, TypeInv, CallsTyped
<1>3. calls'[c] = ReturnRecord(a) /\ \A e \in Calls \ {c} : calls'[e] = calls[e]
  BY <1>1, <1>2, Zenon
<1>4. calls'[c].pc = "returned" /\ calls'[c].corrupt = FALSE
  BY <1>3, Zenon DEF ReturnRecord, IdleCall
<1> QED
  BY <1>3, <1>4, Zenon DEF ClearCall

\* A batch settlement begins.
LEMMA ClaimMemberClear ==
  ASSUME Inv, NEW c \in Calls, NEW m \in Members, NEW o \in Outcomes, ClaimMember(c, m, o)
  PROVE  /\ ClearCall(c)' /\ calls'[c].pc = "parent"
         /\ \A e \in Calls \ {c} : calls'[e] = calls[e]
<1>1. calls \in [Calls -> CallRecord] /\ kind = "batch" /\ kind' = kind
  BY Zenon DEF Inv, TypeInv, CallsTyped, ClaimMember, storeVars
<1>2. calls' = [calls EXCEPT ![c] = [Call(m, o, "parent") EXCEPT !.claimed = Claims(m)]]
  BY Zenon DEF ClaimMember
<1>3. /\ calls'[c] = [Call(m, o, "parent") EXCEPT !.claimed = Claims(m)]
      /\ \A e \in Calls \ {c} : calls'[e] = calls[e]
  BY <1>1, <1>2, Zenon
<1>4. calls'[c].pc = "parent" /\ calls'[c].corrupt = FALSE
  BY <1>3, Zenon DEF Call, IdleCall
<1> QED
  BY <1>1, <1>3, <1>4, Zenon DEF ClearCall

\* A node that a delivery was dispatched for is not beyond the chain's next.
LEMMA InvokedNode ==
  ASSUME Inv, NEW c \in Calls, NEW n \in Members, NEW o \in Outcomes, kind = "chain", Invoked(c, n, o)
  PROVE  n <= chain.next
<1>1. \A k \in Members : k < n => history.outcome[k] = "succeeded"
  BY Zenon DEF Invoked
<1>2. /\ chain.next \in 1..N + 1
      /\ chain.failed => history.outcome[chain.next] = "failed"
      /\ \A m \in Members : m = chain.next /\ ~chain.failed => history.outcome[m] = "pending"
  BY Zenon DEF Inv, StoreInv, ChainOK
<1> SUFFICES ASSUME n > chain.next PROVE FALSE
  BY <1>2, StoreAssumption DEF Members
<1>3. chain.next \in Members /\ chain.next < n
  BY <1>2, StoreAssumption DEF Members
<1> QED
  BY <1>1, <1>2, <1>3, Zenon

\* What a disposition can be for such a node.
LEMMA NodeDisposition ==
  ASSUME NEW n \in Members, NEW o \in Outcomes, chain.next \in Nat, n <= chain.next
  PROVE  /\ Disposition(n, o) # "corrupt"
         /\ Disposition(n, o) = "claimable" => chain.exists /\ ChainOpen /\ chain.next = n
<1>1. n \in Nat /\ ~(n > chain.next)
  BY StoreAssumption DEF Members
<1> QED
  BY <1>1, Zenon DEF Disposition

\* A chain settlement begins.
LEMMA ReadChainClear ==
  ASSUME Inv, NEW c \in Calls, NEW n \in Members, NEW o \in Outcomes, ReadChain(c, n, o)
  PROVE  /\ ClearCall(c)' /\ calls'[c].pc \in {"receipt", "insert", "cas"}
         /\ \A e \in Calls \ {c} : calls'[e] = calls[e]
<1> DEFINE d == Disposition(n, o)
           next == IF d # "claimable" THEN "receipt" ELSE IF o = "succeeded" THEN "insert" ELSE "cas"
<1>1. /\ calls \in [Calls -> CallRecord] /\ kind = "chain" /\ kind' = kind /\ chain' = chain
      /\ Invoked(c, n, o)
  BY Zenon DEF Inv, TypeInv, CallsTyped, ReadChain, storeVars
<1>2. chain.next \in Nat
  BY Zenon DEF Inv, TypeInv, TablesTyped, ChainRecord
<1>3. n <= chain.next
  BY <1>1, InvokedNode, Zenon
<1>4. d # "corrupt"
  BY <1>2, <1>3, NodeDisposition, Zenon
<1>5. calls' = [calls EXCEPT ![c] = [Call(n, o, next) EXCEPT !.seen = chain.next, !.reply = d]]
  BY Zenon DEF ReadChain
<1> HIDE DEF d
<1>6. next \in {"receipt", "insert", "cas"}
  BY Zenon
<1> HIDE DEF next
<1>7. /\ calls'[c] = [Call(n, o, next) EXCEPT !.seen = chain.next, !.reply = d]
      /\ \A e \in Calls \ {c} : calls'[e] = calls[e]
  BY <1>1, <1>5, Zenon
<1>8. calls'[c].pc = next /\ calls'[c].corrupt = FALSE /\ calls'[c].reply = d /\ calls'[c].member = n
  BY <1>7, Zenon DEF Call, IdleCall
<1> QED
  BY <1>1, <1>3, <1>4, <1>6, <1>7, <1>8, Zenon DEF ClearCall

\* No receipt of a pending member is there, so none conflicts.
LEMMA NothingConflicts ==
  ASSUME Inv, NEW m \in Members, history.outcome[m] = "pending"
  PROVE  ~Known(receipts[m])
BY Zenon DEF Inv, StoreInv, ReceiptsOK, Known

\* The parent is locked: no conflict, and the receipts are readable.
LEMMA LockParentClear ==
  ASSUME Inv, Counting, OwnersOK, NEW c \in Calls, ClearCall(c), LockParent(c)
  PROVE  /\ ClearCall(c)' /\ calls'[c].pc \in {"returned", "commit"}
         /\ calls'[c].pc = "commit" => Exists
         /\ \A e \in Calls \ {c} : calls'[e] = calls[e]
<1> DEFINE m == calls[c].member
           missing == ~batch.exists \/ members[m] = "gone"
           corrupt == IF calls[c].claimed THEN Conflicts(c) ELSE ~Readable
<1>1. calls[c].pc = "parent" /\ kind' = kind
  BY Zenon DEF LockParent, storeVars
<1>2. kind = "batch" /\ m \in Members
  <2>1. Shape(calls[c], kind) /\ kind \in {"batch", "chain"}
    BY Zenon DEF Inv, TypeInv, CallsTyped, TablesTyped
  <2> QED
    BY <1>1, <2>1, Zenon DEF Shape, Places
<1>3. calls \in [Calls -> CallRecord]
  BY Zenon DEF Inv, TypeInv, CallsTyped
<1>4. ASSUME ~missing PROVE ~corrupt
  <2>1. CASE calls[c].claimed
    <3>1. members[m] = "pending"
      BY <1>1, <1>2, <2>1, Zenon DEF Inv, CallInv, CallOK, BatchCall
    <3>2. history.outcome[m] = "pending"
      BY <1>2, <1>4, <3>1, Zenon DEF Inv, StoreInv, BatchOK
    <3>3. ~Known(receipts[m])
      BY <1>2, <3>2, NothingConflicts, Zenon
    <3>4. Known(receipts[0]) => batch.completed
      BY <1>2, Zenon DEF Inv, StoreInv, ReceiptsOK, BatchOK, Known
    <3> QED
      BY <2>1, <3>3, <3>4, Zenon DEF Conflicts
  <2>2. CASE ~calls[c].claimed
    BY <2>2, OwnersRead, Zenon
  <2> QED
    BY <2>1, <2>2, Zenon
<1>5. CASE missing
  <2>1. calls' = Return(c, "error")
    BY <1>5, Zenon DEF LockParent
  <2> QED
    BY <2>1, ReturnClear, Zenon
<1>6. CASE ~missing
  <2> DEFINE s == IF batch.completed THEN 1 ELSE 0
             y == IF calls[c].claimed THEN "none" ELSE DuplicateAnswer(c)
  <2>1. calls' = [calls EXCEPT ![c].pc = "commit", ![c].seen = s, ![c].reply = y]
    BY <1>4, <1>6, Zenon DEF LockParent
  <2> HIDE DEF s, y
  <2>2. calls'[c] = [calls[c] EXCEPT !.pc = "commit", !.seen = s, !.reply = y]
        /\ \A e \in Calls \ {c} : calls'[e] = calls[e]
    BY <1>3, <2>1, Zenon
  <2>3. calls[c] \in CallRecord
    BY <1>3, Zenon
  <2>4. calls'[c].pc = "commit" /\ calls'[c].corrupt = calls[c].corrupt
    BY <2>2, <2>3, Zenon DEF CallRecord
  <2>5. Exists
    BY <1>6, Zenon DEF Exists
  <2> QED
    BY <1>1, <1>2, <2>2, <2>4, <2>5, Zenon DEF ClearCall
<1> QED
  BY <1>5, <1>6, Zenon

\* The settlements at these places are of a chain, about one of its nodes.
LEMMA ChainPlaces ==
  ASSUME Inv, NEW c \in Calls, calls[c].pc \in {"receipt", "insert", "cas", "reread"}
  PROVE  /\ kind = "chain" /\ calls[c].member \in Members /\ calls[c].outcome \in Outcomes
         /\ chain.next \in Nat /\ calls \in [Calls -> CallRecord] /\ calls[c] \in CallRecord
<1>1. Shape(calls[c], kind) /\ kind \in {"batch", "chain"} /\ calls \in [Calls -> CallRecord]
  BY Zenon DEF Inv, TypeInv, CallsTyped, TablesTyped
<1>2. chain.next \in Nat
  BY Zenon DEF Inv, TypeInv, TablesTyped, ChainRecord
<1>3. kind = "chain"
  BY <1>1, Zenon DEF Shape, BatchPlaces
<1>4. calls[c].member \in Members /\ calls[c].outcome \in Outcomes
  BY <1>1, Zenon DEF Shape
<1> QED
  BY <1>1, <1>2, <1>3, <1>4, Zenon

\* The answer for a node is no complaint.
LEMMA ReadReceiptClear ==
  ASSUME Inv, NEW c \in Calls, ClearCall(c), ReadReceipt(c)
  PROVE  /\ ClearCall(c)' /\ calls'[c].pc = "returned"
         /\ \A e \in Calls \ {c} : calls'[e] = calls[e]
<1>1. calls[c].reply # "corrupt"
  BY Zenon DEF ReadReceipt, ClearCall
<1>2. calls' = Return(c, "error") \/ calls' = Return(c, calls[c].reply)
  BY <1>1, Zenon DEF ReadReceipt
<1>3. CASE calls' = Return(c, "error")
  BY <1>3, ReturnClear, Zenon
<1>4. CASE calls' = Return(c, calls[c].reply)
  BY <1>4, ReturnClear, Zenon
<1> QED
  BY <1>2, <1>3, <1>4, Zenon

\* A lost compare-and-swap has an answer.
LEMMA RereadChainClear ==
  ASSUME Inv, NEW c \in Calls, ClearCall(c), RereadChain(c)
  PROVE  /\ ClearCall(c)' /\ calls'[c].pc = "receipt"
         /\ \A e \in Calls \ {c} : calls'[e] = calls[e]
<1> DEFINE n == calls[c].member
           o == calls[c].outcome
           d == Disposition(n, o)
<1>1. calls[c].pc = "reread"
  BY Zenon DEF RereadChain
<1>2. /\ kind = "chain" /\ n \in Members /\ o \in Outcomes
      /\ chain.next \in Nat /\ calls \in [Calls -> CallRecord] /\ calls[c] \in CallRecord
  BY <1>1, ChainPlaces, Zenon
<1>3. n <= chain.next /\ ~(chain.exists /\ ChainOpen /\ chain.next = n) /\ ~calls[c].corrupt
  BY <1>1, <1>2, Zenon DEF ClearCall
<1>4. d # "corrupt" /\ d # "claimable"
  BY <1>2, <1>3, NodeDisposition, Zenon
<1>5. calls' = [calls EXCEPT ![c].pc = "receipt", ![c].reply = d]
  BY <1>4, Zenon DEF RereadChain
<1> HIDE DEF d
<1>6. /\ calls'[c] = [calls[c] EXCEPT !.pc = "receipt", !.reply = d]
      /\ \A e \in Calls \ {c} : calls'[e] = calls[e]
  BY <1>2, <1>5, Zenon
<1>7. calls'[c].pc = "receipt" /\ calls'[c].reply = d /\ calls'[c].corrupt = calls[c].corrupt
  BY <1>2, <1>6, Zenon DEF CallRecord
<1> QED
  BY <1>3, <1>4, <1>6, <1>7, Zenon DEF ClearCall

\* The node row is inserted.
LEMMA InsertNodeClear ==
  ASSUME Inv, NEW c \in Calls, ClearCall(c), InsertNode(c)
  PROVE  /\ ClearCall(c)' /\ calls'[c].pc = "cas"
         /\ \A e \in Calls \ {c} : calls'[e] = calls[e]
<1>1. calls[c].pc = "insert" /\ kind' = kind /\ chain' = chain
  BY Zenon DEF InsertNode, storeVars
<1>2. kind = "chain" /\ calls \in [Calls -> CallRecord] /\ calls[c] \in CallRecord
  BY <1>1, ChainPlaces, Zenon
<1>3. calls' = [calls EXCEPT ![c].pc = "cas"]
  BY Zenon DEF InsertNode
<1>4. calls'[c] = [calls[c] EXCEPT !.pc = "cas"] /\ \A e \in Calls \ {c} : calls'[e] = calls[e]
  BY <1>2, <1>3, Zenon
<1>5. /\ calls'[c].pc = "cas" /\ calls'[c].member = calls[c].member
      /\ calls'[c].corrupt = calls[c].corrupt
  BY <1>2, <1>4, Zenon DEF CallRecord
<1>6. calls[c].member <= chain.next /\ ~calls[c].corrupt
  BY <1>1, <1>2, Zenon DEF ClearCall
<1> QED
  BY <1>1, <1>4, <1>5, <1>6, Zenon DEF ClearCall

\* The compare-and-swap finds no receipt, or is lost to a chain that moved on.
LEMMA SwapChainClear ==
  ASSUME Inv, NEW c \in Calls, ClearCall(c), SwapChain(c)
  PROVE  /\ ClearCall(c)' /\ calls'[c].pc \in {"reread", "commit"}
         /\ calls'[c].pc = "commit" => Exists
         /\ \A e \in Calls \ {c} : calls'[e] = calls[e]
<1> DEFINE n == calls[c].member
<1>1. calls[c].pc = "cas" /\ kind' = kind /\ chain' = chain
  BY Zenon DEF SwapChain, storeVars
<1>2. /\ kind = "chain" /\ n \in Members /\ chain.next \in Nat
      /\ calls \in [Calls -> CallRecord] /\ calls[c] \in CallRecord
  BY <1>1, ChainPlaces, Zenon
<1>3. calls[c].seen = n
  BY <1>1, <1>2, Zenon DEF Inv, CallInv, CallOK, ChainCall
<1>4. n <= chain.next /\ ~calls[c].corrupt
  BY <1>1, <1>2, Zenon DEF ClearCall
<1>5. CASE Swaps(c)
  <2>1. chain.exists /\ ChainOpen /\ chain.next = n
    BY <1>3, <1>5, Zenon DEF Swaps
  <2>2. history.outcome[n] = "pending"
    BY <1>2, <2>1, Zenon DEF Inv, StoreInv, ChainOK, ChainOpen
  <2>3. ~Known(receipts[n])
    BY <1>2, <2>2, NothingConflicts, Zenon
  <2>4. calls' = [calls EXCEPT ![c].pc = "commit", ![c].claimed = TRUE]
    BY <1>5, <2>3, Zenon DEF SwapChain
  <2>5. /\ calls'[c] = [calls[c] EXCEPT !.pc = "commit", !.claimed = TRUE]
        /\ \A e \in Calls \ {c} : calls'[e] = calls[e]
    BY <1>2, <2>4, Zenon
  <2>6. calls'[c].pc = "commit" /\ calls'[c].member = n /\ calls'[c].corrupt = calls[c].corrupt
    BY <1>2, <2>5, Zenon DEF CallRecord
  <2>7. Exists
    BY <2>1, Zenon DEF Exists
  <2> QED
    BY <1>1, <1>4, <2>5, <2>6, <2>7, Zenon DEF ClearCall
<1>6. CASE ~Swaps(c)
  <2>1. ~(chain.exists /\ ChainOpen /\ chain.next = n)
    BY <1>3, <1>6, Zenon DEF Swaps
  <2>2. calls' = [calls EXCEPT ![c].pc = "reread"]
    BY <1>6, Zenon DEF SwapChain
  <2>3. calls'[c] = [calls[c] EXCEPT !.pc = "reread"] /\ \A e \in Calls \ {c} : calls'[e] = calls[e]
    BY <1>2, <2>2, Zenon
  <2>4. calls'[c].pc = "reread" /\ calls'[c].member = n /\ calls'[c].corrupt = calls[c].corrupt
    BY <1>2, <2>3, Zenon DEF CallRecord
  <2>5. ChainOpen' <=> ChainOpen
    BY <1>1, Zenon DEF ChainOpen
  <2> QED
    BY <1>1, <1>4, <2>1, <2>3, <2>4, <2>5, ZenonT(60) DEF ClearCall
<1> QED
  BY <1>5, <1>6, Zenon

\* A commit leaves a settlement where it was told nothing yet, or returned.
LEMMA AfterCommitClear ==
  ASSUME Inv, NEW c \in Calls, ClearCall(c), NEW db, NEW a, calls' = AfterCommit(c, db, a)
  PROVE  /\ ClearCall(c)' /\ calls'[c].pc \in {"readback", "returned"}
         /\ \A e \in Calls \ {c} : calls'[e] = calls[e]
<1>1. calls' = Return(c, a) \/ calls' = Return(c, "error") \/ calls' = [calls EXCEPT ![c].pc = "readback"]
  BY Zenon DEF AfterCommit
<1>2. CASE calls' = Return(c, a)
  BY <1>2, ReturnClear, Zenon
<1>3. CASE calls' = Return(c, "error")
  BY <1>3, ReturnClear, Zenon
<1>4. CASE calls' = [calls EXCEPT ![c].pc = "readback"]
  <2>1. calls \in [Calls -> CallRecord] /\ calls[c] \in CallRecord
    BY Zenon DEF Inv, TypeInv, CallsTyped
  <2>2. calls'[c] = [calls[c] EXCEPT !.pc = "readback"] /\ \A e \in Calls \ {c} : calls'[e] = calls[e]
    BY <1>4, <2>1, Zenon
  <2>3. calls'[c].pc = "readback" /\ calls'[c].corrupt = calls[c].corrupt
    BY <2>1, <2>2, Zenon DEF CallRecord
  <2> QED
    BY <2>2, <2>3, Zenon DEF ClearCall
<1> QED
  BY <1>1, <1>2, <1>3, <1>4, Zenon

-----------------------------------------------------------------------------
(* Prune leaves nothing behind.                                            *)

\* What a lock on the parent tells: a settlement about to commit holds it.
LEMMA CommitHolds ==
  ASSUME Inv, NEW c \in Calls, calls[c].pc = "commit"
  PROVE  locks[0] = c /\ locks[0] # Pruner
<1>1. kind \in {"batch", "chain"}
  BY Zenon DEF Inv, TypeInv, TablesTyped
<1>2. kind = "batch" => BatchCall(c)
  BY Zenon DEF Inv, CallInv, CallOK
<1>3. kind = "chain" => ChainCall(c)
  BY Zenon DEF Inv, CallInv, CallOK
<1>4. locks[0] = c
  BY <1>1, <1>2, <1>3, Zenon DEF BatchCall, ChainCall
<1> QED
  BY <1>4, Transactions, Zenon

\* Nothing of the workflow changes, and the Prune does not move.
LEMMA OrphansKept ==
  ASSUME OrphanInv, UNCHANGED <<kind, batch, members, chain, nodes, receipts, history, pruner>>,
         \A c \in Calls : calls'[c].pc = "commit" => Exists,
         locks[0] = Pruner => locks'[0] = Pruner
  PROVE  OrphanInv'
<1>1. /\ (Exists' <=> Exists) /\ (Touched' <=> Touched) /\ KnownReceipts' = KnownReceipts
      /\ DependentRows' = DependentRows
  BY Zenon DEF Exists, Touched, KnownReceipts, DependentRows
<1>2. PruneSelects'
  BY <1>1, Zenon DEF OrphanInv, PruneSelects
<1> QED
  BY <1>1, <1>2, Zenon DEF OrphanInv

\* A commit or a stop touches the parent, which a Prune that is about to delete
\* it would hold.
LEMMA OrphansTouched ==
  ASSUME OrphanInv, Exists, locks[0] # Pruner, pruner' = pruner,
         batch'.exists = batch.exists, chain'.exists = chain.exists,
         Pruning => Touched',
         \A m \in Members : members'[m] = "gone" => members[m] = "gone",
         history'.ender = Nobody => history.ender = Nobody,
         \A c \in Calls : calls'[c].pc = "commit" => calls[c].pc = "commit"
  PROVE  OrphanInv'
<1>1. Exists'
  BY Zenon DEF Exists
<1>2. pruner.pc \in {"select", "rows", "commit"} => Touched'
  BY Zenon DEF Pruning
<1>3. ~(pruner.pc = "commit" /\ pruner.parent)
  BY Zenon DEF OrphanInv, PruneSelects
<1>4. PruneSelects'
  BY <1>1, <1>2, <1>3, Zenon DEF PruneSelects
<1>5. history'.ender = Nobody => \A m \in Members : members'[m] # "gone"
  BY Zenon DEF OrphanInv
<1> QED
  BY <1>1, <1>4, <1>5, Zenon DEF OrphanInv

\* A workflow that has ended and exists is terminal.
LEMMA EndedTerminal ==
  ASSUME Inv, Exists, history.ender # Nobody
  PROVE  Terminal
<1>1. kind \in {"batch", "chain"}
  BY Zenon DEF Inv, TypeInv, TablesTyped
<1>2. CASE kind = "batch"
  BY <1>2, Zenon DEF Inv, StoreInv, BatchOK, Exists, Terminal
<1>3. CASE kind = "chain"
  BY <1>3, Zenon DEF Inv, StoreInv, ChainOK, Exists, Terminal
<1> QED
  BY <1>1, <1>2, <1>3, Zenon

\* Prune's first statement selects every receipt there is.
LEMMA PruneReceiptsOrphans ==
  ASSUME Inv, OrphanInv, PruneReceipts
  PROVE  OrphanInv'
<1>1. batch \in BatchRecord /\ chain \in ChainRecord
  BY Zenon DEF Inv, StoreInv, RowsTyped, TypeInv, TablesTyped
<1>2. /\ batch' = [batch EXCEPT !.touched = FALSE] /\ chain' = [chain EXCEPT !.touched = FALSE]
      /\ UNCHANGED <<kind, members, nodes, receipts, calls, history>>
      /\ pruner' = [NoPrune EXCEPT !.pc = "select", !.receipts = KnownReceipts]
  BY Zenon DEF PruneReceipts, KnownReceipts
<1>3. batch'.exists = batch.exists /\ chain'.exists = chain.exists
  BY <1>1, <1>2, Zenon DEF BatchRecord, ChainRecord
<1>4. Exists /\ (Exists' <=> Exists)
  BY <1>3, Zenon DEF Exists, PruneReceipts, Terminal
<1>5. pruner'.pc = "select" /\ pruner'.receipts = KnownReceipts
  BY <1>2, Zenon DEF NoPrune
<1>6. KnownReceipts' = KnownReceipts /\ DependentRows' = DependentRows
  BY <1>2, Zenon DEF KnownReceipts, DependentRows
<1>7. PruneSelects'
  BY <1>4, <1>5, <1>6, Zenon DEF PruneSelects
<1> QED
  BY <1>2, <1>4, <1>6, <1>7, Zenon DEF OrphanInv

\* The steps of a Prune that change only what it has selected and locked.
LEMMA PruneMoves ==
  ASSUME Inv, OrphanInv, UNCHANGED <<storeVars, calls, history>>, PruneSelects'
  PROVE  OrphanInv'
<1>1. (Exists' <=> Exists) /\ KnownReceipts' = KnownReceipts /\ DependentRows' = DependentRows
  BY Zenon DEF Exists, KnownReceipts, DependentRows, storeVars
<1> QED
  BY <1>1, Zenon DEF OrphanInv, storeVars

\* The rows are selected, unless the workflow was touched.
LEMMA PruneSelectOrphans ==
  ASSUME Inv, OrphanInv, PruneSelect
  PROVE  OrphanInv'
<1>1. UNCHANGED <<storeVars, calls, history>> /\ pruner \in PrunerRecord /\ pruner.pc = "select"
      /\ pruner' = [pruner EXCEPT !.pc = "rows", !.rows = Expired]
  BY Zenon DEF Inv, TypeInv, LocksTyped, PruneSelect
<1>2. pruner'.pc = "rows" /\ pruner'.rows = Expired /\ pruner'.receipts = pruner.receipts
  BY <1>1, Zenon DEF PrunerRecord
<1>3. (Exists' <=> Exists) /\ (Touched' <=> Touched) /\ KnownReceipts' = KnownReceipts
  BY <1>1, Zenon DEF Exists, Touched, KnownReceipts, storeVars
<1>4. Exists /\ (~Touched => KnownReceipts \subseteq pruner.receipts)
  BY <1>1, Zenon DEF OrphanInv, PruneSelects
<1>5. history.ender # Nobody
  BY <1>1, Zenon DEF Inv, PruneOK
<1>6. ~Touched => Expired
  BY <1>4, <1>5, EndedTerminal, Zenon DEF Expired, Touched
<1>7. PruneSelects'
  BY <1>2, <1>3, <1>4, <1>6, Zenon DEF PruneSelects
<1> QED
  BY <1>1, <1>7, PruneMoves, Zenon

\* A row is locked, the parent is not.
LEMMA PruneRowOrphans ==
  ASSUME Inv, OrphanInv, NEW m \in Members, PruneRow(m)
  PROVE  OrphanInv'
<1>1. UNCHANGED <<storeVars, calls, history, pruner>> /\ locks' = [locks EXCEPT ![m] = Pruner]
  BY Zenon DEF PruneRow
<1>2. pruner.pc = "rows"
  BY Zenon DEF PruneRow
<1>3. (Exists' <=> Exists) /\ (Touched' <=> Touched) /\ KnownReceipts' = KnownReceipts
  BY <1>1, Zenon DEF Exists, Touched, KnownReceipts, storeVars
<1>4. PruneSelects'
  BY <1>1, <1>2, <1>3, Zenon DEF OrphanInv, PruneSelects
<1> QED
  BY <1>1, <1>4, PruneMoves, Zenon

\* The parent is selected while it is untouched, so its rows were, too.
LEMMA PruneParentOrphans ==
  ASSUME Inv, OrphanInv, PruneParent
  PROVE  OrphanInv'
<1>1. UNCHANGED <<storeVars, calls, history>> /\ pruner \in PrunerRecord /\ pruner.pc = "rows"
      /\ pruner' = [pruner EXCEPT !.pc = "commit", !.parent = Expired]
      /\ locks \in [Rows -> {Nobody, Pruner} \cup Calls]
  BY Zenon DEF Inv, TypeInv, LocksTyped, PruneParent, ParentExpired
<1>2. /\ pruner'.pc = "commit" /\ pruner'.parent = Expired /\ pruner'.rows = pruner.rows
      /\ pruner'.receipts = pruner.receipts
  BY <1>1, Zenon DEF PrunerRecord
<1>3. (Exists' <=> Exists) /\ (Touched' <=> Touched) /\ KnownReceipts' = KnownReceipts
  BY <1>1, Zenon DEF Exists, Touched, KnownReceipts, storeVars
<1>4. /\ Exists
      /\ ~Touched => pruner.rows /\ KnownReceipts \subseteq pruner.receipts
  BY <1>1, Zenon DEF OrphanInv, PruneSelects
<1>5. Expired => ~Touched
  BY Zenon DEF Expired, Touched
<1>6. Expired => locks'[0] = Pruner
  <2>1. Expired => locks' = [locks EXCEPT ![0] = Pruner]
    BY Zenon DEF PruneParent, ParentExpired
  <2> QED
    BY <1>1, <2>1, Transactions, Zenon
<1>7. PruneSelects'
  BY <1>2, <1>3, <1>4, <1>5, <1>6, Zenon DEF PruneSelects
<1> QED
  BY <1>1, <1>7, PruneMoves, Zenon

\* A Prune that fails selects nothing any more.
LEMMA PruneFailsOrphans ==
  ASSUME Inv, OrphanInv, UNCHANGED <<storeVars, calls, history>>,
         pruner' = [NoPrune EXCEPT !.pc = "done"]
  PROVE  OrphanInv'
<1>1. pruner'.pc = "done"
  BY Zenon DEF NoPrune
<1>2. PruneSelects'
  BY <1>1, Zenon DEF PruneSelects
<1> QED
  BY <1>2, PruneMoves, Zenon

\* What is deleted with the parent is all there is.
LEMMA PruneCommitOrphans ==
  ASSUME Inv, OrphanInv, NEW db, PruneCommit(db)
  PROVE  OrphanInv'
<1>1. CASE db = "failed"
  BY <1>1, PruneFailsOrphans, Zenon DEF PruneCommit, storeVars
<1>2. CASE db # "failed"
  <2>1. /\ receipts' = [r \in Rows |-> IF r \in pruner.receipts THEN NoReceipt ELSE receipts[r]]
        /\ members' = IF pruner.rows /\ kind = "batch" THEN [m \in Members |-> "gone"] ELSE members
        /\ nodes' = IF pruner.rows THEN {} ELSE nodes
        /\ batch' = [batch EXCEPT !.exists = @ /\ ~pruner.parent]
        /\ chain' = [chain EXCEPT !.exists = @ /\ ~pruner.parent]
        /\ pruner' = [NoPrune EXCEPT !.pc = "done"]
        /\ UNCHANGED <<kind, calls, history>> /\ pruner.pc = "commit"
    BY <1>2, Zenon DEF PruneCommit
  <2>2. batch'.exists = (batch.exists /\ ~pruner.parent) /\ chain'.exists = (chain.exists /\ ~pruner.parent)
    <3>1. batch \in BatchRecord /\ chain \in ChainRecord
      BY Zenon DEF Inv, StoreInv, RowsTyped, TypeInv, TablesTyped
    <3> QED
      BY <2>1, <3>1, Zenon DEF BatchRecord, ChainRecord
  <2>3. Exists /\ (Exists' <=> ~pruner.parent)
    <3>1. Exists
      BY <2>1, Zenon DEF OrphanInv, PruneSelects
    <3> QED
      BY <2>2, <3>1, Zenon DEF Exists
  <2>4. pruner.parent => /\ pruner.rows /\ KnownReceipts \subseteq pruner.receipts
                         /\ locks[0] = Pruner
    BY <2>1, Zenon DEF OrphanInv, PruneSelects
  <2>5. PruneSelects'
    <3>1. pruner'.pc = "done"
      BY <2>1, Zenon DEF NoPrune
    <3> QED
      BY <3>1, Zenon DEF PruneSelects
  <2>6. ASSUME NEW c \in Calls, calls'[c].pc = "commit" PROVE Exists'
    BY <2>1, <2>3, <2>4, <2>6, CommitHolds, Zenon
  <2>7. history'.ender # Nobody
    BY <2>1, Zenon DEF Inv, PruneOK
  <2>8. ASSUME ~Exists' PROVE DependentRows' = {} /\ KnownReceipts' = {}
    <3>1. pruner.rows /\ KnownReceipts \subseteq pruner.receipts
      BY <2>3, <2>4, <2>8, Zenon
    <3>2. DependentRows' = {}
      BY <2>1, <3>1, Zenon DEF DependentRows
    <3>3. ASSUME NEW r \in Rows PROVE ~Known(receipts'[r])
      <4>1. receipts'[r] = IF r \in pruner.receipts THEN NoReceipt ELSE receipts[r]
        BY <2>1, Zenon
      <4>2. r \notin pruner.receipts => ~Known(receipts[r])
        BY <3>1, Zenon DEF KnownReceipts
      <4>3. ~Known(NoReceipt)
        BY Zenon DEF Known, NoReceipt
      <4> QED
        BY <4>1, <4>2, <4>3, Zenon
    <3> QED
      BY <3>2, <3>3, Zenon DEF KnownReceipts
  <2> QED
    BY <2>5, <2>6, <2>7, <2>8, Zenon DEF OrphanInv
<1> QED
  BY <1>1, <1>2, Zenon

-----------------------------------------------------------------------------
(* The steps.                                                              *)

Safe == CounterInv /\ ReceiptInv /\ OrphanInv

\* A statement of settlement c writes no row yet, and answers without complaint.
LEMMA StatementSafe ==
  ASSUME Inv, Safe, NEW c \in Calls,
         UNCHANGED <<kind, batch, members, chain, nodes, receipts, history, pruner>>,
         ClearCall(c)', \A e \in Calls \ {c} : calls'[e] = calls[e],
         calls'[c].pc = "commit" => Exists,
         locks[0] = Pruner => locks'[0] = Pruner
  PROVE  Safe'
<1>1. CounterInv'
  BY CountersKept, Zenon DEF Safe
<1>2. OwnersOK'
  BY OwnersKept, Zenon DEF Safe, ReceiptInv
<1>3. Forward
  BY Zenon DEF Forward, ChainOpen
<1>4. ASSUME NEW e \in Calls PROVE ClearCall(e)'
  BY <1>3, ClearKept, Zenon DEF Safe, ReceiptInv
<1>5. \A e \in Calls : calls'[e].pc = "commit" => Exists
  BY Zenon DEF Safe, OrphanInv
<1>6. OrphanInv'
  BY <1>5, OrphansKept, Zenon DEF Safe
<1> QED
  BY <1>1, <1>2, <1>4, <1>6, Zenon DEF Safe, ReceiptInv

\* A settlement that holds rows or returns leaves a Prune the parent.
LEMMA PrunerKeepsParent ==
  ASSUME Inv, NEW c \in Calls,
         \/ locks' = locks
         \/ locks' = Released(c)
         \/ \E r \in Rows : CanWrite(c, r) /\ locks' = [locks EXCEPT ![r] = c]
  PROVE  locks[0] = Pruner => locks'[0] = Pruner
<1> SUFFICES ASSUME locks[0] = Pruner PROVE locks'[0] = Pruner
  BY Zenon
<1>1. locks \in [Rows -> {Nobody, Pruner} \cup Calls] /\ Pruner # c /\ Pruner # Nobody /\ 0 \in Rows
  BY Transactions, Zenon DEF Inv, TypeInv, LocksTyped
<1>2. CASE locks' = Released(c)
  BY <1>1, <1>2, Zenon DEF Released
<1>3. ASSUME NEW r \in Rows, CanWrite(c, r), locks' = [locks EXCEPT ![r] = c]
      PROVE  locks'[0] = Pruner
  <2>1. r # 0
    BY <1>1, <1>3, Zenon DEF CanWrite
  <2> QED
    BY <1>1, <1>3, <2>1, Zenon
<1> QED
  BY <1>2, <1>3, Zenon

\* The statements of a settlement.
LEMMA CallStatementsSafe ==
  ASSUME Inv, Counting, Safe, NEW c \in Calls,
         \/ \E m \in Members, o \in Outcomes : ClaimMember(c, m, o) \/ ReadChain(c, m, o)
         \/ LockParent(c)
         \/ ReadReceipt(c)
         \/ RereadChain(c)
         \/ InsertNode(c)
         \/ SwapChain(c)
         \/ \E db \in {"ok", "failed"} : ReadBack(c, db)
         \/ StatementFails(c)
  PROVE  Safe'
<1> DEFINE Rest == /\ UNCHANGED <<kind, batch, members, chain, nodes, receipts, history, pruner>>
                   /\ locks[0] = Pruner => locks'[0] = Pruner
           Replies == /\ ClearCall(c)' /\ \A e \in Calls \ {c} : calls'[e] = calls[e]
                      /\ calls'[c].pc = "commit" => Exists
<1>0. OwnersOK /\ ClearCall(c)
  BY Zenon DEF Safe, ReceiptInv
<1> SUFFICES Rest /\ Replies
  BY StatementSafe, Zenon
<1>a. Members \subseteq Rows /\ 0 \in Rows
  BY Transactions, Zenon
<1>1. ASSUME NEW m \in Members, NEW o \in Outcomes, ClaimMember(c, m, o) PROVE Rest /\ Replies
  <2>1. UNCHANGED <<kind, batch, members, chain, nodes, receipts, history, pruner>>
    BY <1>1, Zenon DEF ClaimMember, storeVars
  <2>2. locks' = locks \/ (CanWrite(c, m) /\ locks' = [locks EXCEPT ![m] = c])
    BY <1>1, Zenon DEF ClaimMember
  <2>3. locks[0] = Pruner => locks'[0] = Pruner
    BY <1>a, <2>2, PrunerKeepsParent, Zenon
  <2>4. ClearCall(c)' /\ calls'[c].pc = "parent" /\ \A e \in Calls \ {c} : calls'[e] = calls[e]
    BY <1>1, ClaimMemberClear, Zenon
  <2> QED
    BY <2>1, <2>3, <2>4, Zenon
<1>2. ASSUME NEW m \in Members, NEW o \in Outcomes, ReadChain(c, m, o) PROVE Rest /\ Replies
  <2>1. UNCHANGED <<kind, batch, members, chain, nodes, receipts, history, pruner, locks>>
    BY <1>2, Zenon DEF ReadChain, storeVars
  <2>2. /\ ClearCall(c)' /\ calls'[c].pc \in {"receipt", "insert", "cas"}
        /\ \A e \in Calls \ {c} : calls'[e] = calls[e]
    BY <1>2, ReadChainClear, Zenon
  <2> QED
    BY <2>1, <2>2, Zenon
<1>3. ASSUME LockParent(c) PROVE Rest /\ Replies
  <2>1. UNCHANGED <<kind, batch, members, chain, nodes, receipts, history, pruner>>
    BY <1>3, Zenon DEF LockParent, storeVars
  <2>2. locks' = Released(c) \/ (CanWrite(c, 0) /\ locks' = [locks EXCEPT ![0] = c])
    BY <1>3, Zenon DEF LockParent
  <2>3. locks[0] = Pruner => locks'[0] = Pruner
    BY <1>a, <2>2, PrunerKeepsParent, Zenon
  <2> QED
    BY <1>0, <1>3, <2>1, <2>3, LockParentClear, ZenonT(60)
<1>4. ASSUME ReadReceipt(c) PROVE Rest /\ Replies
  <2>1. UNCHANGED <<kind, batch, members, chain, nodes, receipts, history, pruner, locks>>
    BY <1>4, Zenon DEF ReadReceipt, storeVars
  <2>2. ClearCall(c)' /\ calls'[c].pc = "returned" /\ \A e \in Calls \ {c} : calls'[e] = calls[e]
    BY <1>0, <1>4, ReadReceiptClear, Zenon
  <2> QED
    BY <2>1, <2>2, Zenon
<1>5. ASSUME RereadChain(c) PROVE Rest /\ Replies
  <2>1. UNCHANGED <<kind, batch, members, chain, nodes, receipts, history, pruner, locks>>
    BY <1>5, Zenon DEF RereadChain, storeVars
  <2>2. ClearCall(c)' /\ calls'[c].pc = "receipt" /\ \A e \in Calls \ {c} : calls'[e] = calls[e]
    BY <1>0, <1>5, RereadChainClear, Zenon
  <2> QED
    BY <2>1, <2>2, Zenon
<1>6. ASSUME InsertNode(c) PROVE Rest /\ Replies
  <2>1. UNCHANGED <<kind, batch, members, chain, nodes, receipts, history, pruner>>
    BY <1>6, Zenon DEF InsertNode, storeVars
  <2>2. calls[c].member \in Members
    BY <1>6, ChainPlaces, Zenon DEF InsertNode
  <2>3. locks' = locks \/ (CanWrite(c, calls[c].member) /\ locks' = [locks EXCEPT ![calls[c].member] = c])
    BY <1>6, Zenon DEF InsertNode
  <2>4. locks[0] = Pruner => locks'[0] = Pruner
    BY <1>a, <2>2, <2>3, PrunerKeepsParent, Zenon
  <2>5. ClearCall(c)' /\ calls'[c].pc = "cas" /\ \A e \in Calls \ {c} : calls'[e] = calls[e]
    BY <1>0, <1>6, InsertNodeClear, Zenon
  <2> QED
    BY <2>1, <2>4, <2>5, Zenon
<1>7. ASSUME SwapChain(c) PROVE Rest /\ Replies
  <2>1. UNCHANGED <<kind, batch, members, chain, nodes, receipts, history, pruner>>
    BY <1>7, Zenon DEF SwapChain, storeVars
  <2>2. locks' = Released(c) \/ (CanWrite(c, 0) /\ locks' = [locks EXCEPT ![0] = c])
    BY <1>7, ZenonT(60) DEF SwapChain
  <2>3. locks[0] = Pruner => locks'[0] = Pruner
    BY <1>a, <2>2, PrunerKeepsParent, Zenon
  <2> QED
    BY <1>0, <1>7, <2>1, <2>3, SwapChainClear, Zenon
<1>8. ASSUME NEW db \in {"ok", "failed"}, ReadBack(c, db) PROVE Rest /\ Replies
  <2>1. UNCHANGED <<kind, batch, members, chain, nodes, receipts, history, pruner, locks>>
    BY <1>8, Zenon DEF ReadBack, storeVars
  <2>2. calls' = Return(c, "error") \/ calls' = Return(c, "ended") \/ calls' = Return(c, "claimed")
    BY <1>8, Zenon DEF ReadBack
  <2>3. ClearCall(c)' /\ calls'[c].pc = "returned" /\ \A e \in Calls \ {c} : calls'[e] = calls[e]
    BY <2>2, ReturnClear, Zenon
  <2> QED
    BY <2>1, <2>3, Zenon
<1>9. ASSUME StatementFails(c) PROVE Rest /\ Replies
  <2>1. UNCHANGED <<kind, batch, members, chain, nodes, receipts, history, pruner>>
    BY <1>9, Zenon DEF StatementFails, storeVars
  <2>2. locks' = Released(c) /\ calls' = Return(c, "error")
    BY <1>9, Zenon DEF StatementFails
  <2>3. locks[0] = Pruner => locks'[0] = Pruner
    BY <2>2, PrunerKeepsParent, Zenon
  <2>4. ClearCall(c)' /\ calls'[c].pc = "returned" /\ \A e \in Calls \ {c} : calls'[e] = calls[e]
    BY <2>2, ReturnClear, Zenon
  <2> QED
    BY <2>1, <2>3, <2>4, Zenon
<1> HIDE DEF Rest, Replies
<1> QED
  BY <1>1, <1>2, <1>3, <1>4, <1>5, <1>6, <1>7, <1>8, <1>9, ZenonT(60)

\* Nobody's settlement is disturbed by a step that only moves the chain on.
LEMMA OthersClear ==
  ASSUME Inv, ReceiptInv, Forward, OwnersOK',
         \A e \in Calls : calls'[e] = calls[e] \/ ClearCall(e)'
  PROVE  ReceiptInv'
<1>1. ASSUME NEW e \in Calls PROVE ClearCall(e)'
  BY ClearKept, Zenon DEF ReceiptInv
<1> QED
  BY <1>1, Zenon DEF ReceiptInv

\* The commit of a batch settlement.
LEMMA CommitBatchSafe ==
  ASSUME Inv, Counting, CountsPending, Safe, NEW c \in Calls, NEW db, CommitBatch(c, db)
  PROVE  Safe'
<1>1. /\ kind = "batch" /\ calls[c].pc = "commit" /\ locks' = Released(c)
      /\ UNCHANGED <<kind, chain, nodes, pruner>>
  BY Zenon DEF CommitBatch
<1>2. /\ ClearCall(c)' /\ calls'[c].pc \in {"readback", "returned"}
      /\ \A e \in Calls \ {c} : calls'[e] = calls[e]
  <2>1. PICK a : calls' = AfterCommit(c, db, a)
    BY Zenon DEF CommitBatch
  <2> QED
    BY <2>1, AfterCommitClear, Zenon DEF Safe, ReceiptInv
<1>3. Exists /\ locks[0] # Pruner
  BY <1>1, CommitHolds, Zenon DEF Safe, OrphanInv
<1>4. calls'[c].pc # "commit"
  BY <1>2, Zenon
<1>5. \A e \in Calls : calls'[e].pc = "commit" => calls[e].pc = "commit"
  BY <1>2, <1>4, Zenon
<1>6. Forward
  BY <1>1, Zenon DEF Forward, ChainOpen
<1>7. RowsTyped
  BY Zenon DEF Inv, StoreInv
<1>8. CASE db = "failed"
  <2>1. UNCHANGED <<kind, batch, members, chain, nodes, receipts, history, pruner>>
    BY <1>1, <1>8, Zenon DEF CommitBatch
  <2> QED
    BY <1>2, <1>3, <1>4, <2>1, StatementSafe, Zenon
<1>9. CASE db # "failed" /\ ~calls[c].claimed
  <2>1. batch' = [batch EXCEPT !.touched = Pruning] /\ UNCHANGED <<members, receipts, history>>
    BY <1>9, Zenon DEF CommitBatch
  <2>2. /\ batch'.processed = batch.processed /\ batch'.failed = batch.failed
        /\ batch'.completed = batch.completed /\ batch'.allow = batch.allow
        /\ batch'.exists = batch.exists /\ batch'.touched = Pruning
    BY <1>7, <2>1, Zenon DEF RowsTyped, BatchRecord
  <2>3. CounterInv'
    BY <1>1, <2>1, <2>2, CountersKept, Zenon DEF Safe
  <2>4. OwnersOK'
    BY <1>1, <2>1, OwnersKept, Zenon DEF Safe, ReceiptInv
  <2>5. ReceiptInv'
    BY <1>2, <1>6, <2>4, OthersClear, Zenon DEF Safe
  <2>6. OrphanInv'
    BY <1>1, <1>3, <1>5, <2>1, <2>2, OrphansTouched, ZenonT(60) DEF Safe, Touched
  <2> QED
    BY <2>3, <2>5, <2>6, Zenon DEF Safe
<1>10. CASE db # "failed" /\ calls[c].claimed
  <2>1. /\ batch' = Settled(c) /\ history' = Recorded(c, Completes(c))
        /\ members' = [members EXCEPT ![calls[c].member] = calls[c].outcome]
        /\ receipts' = IF valid THEN BatchReceipts(c) ELSE receipts
    BY <1>10, Zenon DEF CommitBatch
  <2>2. CounterInv'
    BY <1>1, <1>10, <2>1, CommitCounts, Zenon DEF Safe
  <2>3. calls[c].member \in Members /\ calls[c].outcome \in Outcomes /\ history.outcome[calls[c].member] = "pending"
    BY <1>1, <1>10, BatchCommitReady, Zenon
  <2>4. /\ history'.outcome = [history.outcome EXCEPT ![calls[c].member] = calls[c].outcome]
        /\ history'.writer = [history.writer EXCEPT ![calls[c].member] = c]
        /\ history'.ender = IF Completes(c) THEN c ELSE history.ender
    BY <1>7, <2>1, <2>3, RecordedFacts
  <2>5. receipts'[0] = receipts[0] \/ (receipts'[0].owner = c /\ receipts'[0].outcome = calls[c].outcome)
    <3> DEFINE r == [owner |-> c, outcome |-> calls[c].outcome, completed |-> FALSE]
    <3>1. receipts \in [Rows -> Receipt] /\ 0 \in Rows /\ calls[c].member # 0
      BY <1>7, <2>3, Transactions, Zenon DEF RowsTyped
    <3>2. BatchReceipts(c)[0] = IF Completes(c) THEN [r EXCEPT !.completed = TRUE] ELSE receipts[0]
      BY <3>1, Zenon DEF BatchReceipts
    <3>3. [r EXCEPT !.completed = TRUE].owner = c /\ [r EXCEPT !.completed = TRUE].outcome = calls[c].outcome
      BY Zenon
    <3> QED
      BY <2>1, <3>2, <3>3, Zenon
  <2>6. OwnersOK'
    <3>1. OwnersOK
      BY Zenon DEF Safe, ReceiptInv
    <3> QED
      BY <1>1, <2>3, <2>4, <2>5, <3>1, OwnersRecorded, Zenon
  <2>7. ReceiptInv'
    BY <1>2, <1>6, <2>6, OthersClear, Zenon DEF Safe
  <2>8. batch'.exists = batch.exists /\ batch'.touched = Pruning
    BY <1>7, <2>1, SettledFacts, SettledCounters, Zenon
  <2>9. \A m \in Members : members'[m] = "gone" => members[m] = "gone"
    <3>1. members \in [Members -> {"pending", "succeeded", "failed", "gone"}] /\ calls[c].outcome # "gone"
      BY <1>7, <2>3, Zenon DEF RowsTyped, Outcomes
    <3> QED
      BY <2>1, <3>1, Zenon
  <2>10. history'.ender = Nobody => history.ender = Nobody
    BY <2>4, Transactions, Zenon
  <2>11. OrphanInv'
    BY <1>1, <1>3, <1>5, <2>8, <2>9, <2>10, OrphansTouched, ZenonT(60) DEF Safe, Touched
  <2> QED
    BY <2>2, <2>7, <2>11, Zenon DEF Safe
<1> QED
  BY <1>8, <1>9, <1>10, Zenon

\* The commit of a chain settlement.
LEMMA CommitChainSafe ==
  ASSUME Inv, Safe, NEW c \in Calls, NEW db, CommitChain(c, db)
  PROVE  Safe'
<1>1. /\ kind = "chain" /\ calls[c].pc = "commit" /\ locks' = Released(c)
      /\ UNCHANGED <<kind, batch, members, pruner>>
  BY Zenon DEF CommitChain
<1>2. /\ ClearCall(c)' /\ calls'[c].pc \in {"readback", "returned"}
      /\ \A e \in Calls \ {c} : calls'[e] = calls[e]
  <2>1. PICK a : calls' = AfterCommit(c, db, a)
    BY Zenon DEF CommitChain
  <2> QED
    BY <2>1, AfterCommitClear, Zenon DEF Safe, ReceiptInv
<1>3. Exists /\ locks[0] # Pruner
  BY <1>1, CommitHolds, Zenon DEF Safe, OrphanInv
<1>4. calls'[c].pc # "commit"
  BY <1>2, Zenon
<1>5. \A e \in Calls : calls'[e].pc = "commit" => calls[e].pc = "commit"
  BY <1>2, <1>4, Zenon
<1>6. CASE db = "failed"
  <2>1. UNCHANGED <<kind, batch, members, chain, nodes, receipts, history, pruner>>
    BY <1>1, <1>6, Zenon DEF CommitChain
  <2> QED
    BY <1>2, <1>3, <1>4, <2>1, StatementSafe, Zenon
<1>7. CASE db # "failed"
  <2>1. /\ chain' = Advanced(c) /\ history' = Recorded(c, EndsChain(c))
        /\ receipts' = IF ~valid THEN receipts
                       ELSE [receipts EXCEPT ![calls[c].member] =
                               [owner |-> c, outcome |-> calls[c].outcome, completed |-> Advanced(c).completed]]
    BY <1>7, Zenon DEF CommitChain
  <2>2. CounterInv'
    BY <1>1, CountersKept, Zenon DEF Safe
  <2>3. /\ calls[c].member \in Members /\ calls[c].outcome \in Outcomes
        /\ history.outcome[calls[c].member] = "pending" /\ ChainOpen
    BY <1>1, ChainCommitReady, Zenon
  <2>4. RowsTyped /\ chain \in ChainRecord
    BY Zenon DEF Inv, StoreInv, TypeInv, TablesTyped
  <2>5. /\ history'.outcome = [history.outcome EXCEPT ![calls[c].member] = calls[c].outcome]
        /\ history'.writer = [history.writer EXCEPT ![calls[c].member] = c]
        /\ history'.ender = IF EndsChain(c) THEN c ELSE history.ender
    BY <2>1, <2>3, <2>4, RecordedFacts
  <2>6. receipts'[0] = receipts[0]
    <3>1. receipts \in [Rows -> Receipt] /\ 0 \in Rows /\ calls[c].member # 0
      BY <2>3, <2>4, Transactions, Zenon DEF RowsTyped
    <3> QED
      BY <2>1, <3>1, Zenon
  <2>7. OwnersOK'
    <3>1. OwnersOK
      BY Zenon DEF Safe, ReceiptInv
    <3> QED
      BY <1>1, <2>3, <2>5, <2>6, <3>1, OwnersRecorded, ZenonT(60)
  <2>8. chain'.exists = chain.exists /\ chain'.touched = Pruning
    BY <2>1, <2>4, Zenon DEF Advanced, ChainRecord
  <2>9. chain'.next = chain.next \/ chain'.next = chain.next + 1
    BY <2>1, <2>4, AdvancedFacts, Zenon
  <2>10. Forward
    BY <1>1, <2>3, <2>8, <2>9, Zenon DEF Forward
  <2>11. ReceiptInv'
    BY <1>2, <2>7, <2>10, OthersClear, Zenon DEF Safe
  <2>12. history'.ender = Nobody => history.ender = Nobody
    BY <2>5, Transactions, Zenon
  <2>13. OrphanInv'
    BY <1>1, <1>3, <1>5, <2>8, <2>12, OrphansTouched, ZenonT(60) DEF Safe, Touched
  <2> QED
    BY <2>2, <2>11, <2>13, Zenon DEF Safe
<1> QED
  BY <1>6, <1>7, Zenon

\* CancelBatch and FailChain.
LEMMA StopSafe ==
  ASSUME Inv, Safe, CancelBatch \/ FailChain
  PROVE  Safe'
<1>1. RowsTyped /\ chain \in ChainRecord
  BY Zenon DEF Inv, StoreInv, TypeInv, TablesTyped
<1>2. Stopped # Nobody /\ Stopped \notin Calls
  BY StoreAssumption DEF Stopped, Nobody, Calls
<1>3. locks[0] # Pruner
  BY Transactions, Zenon DEF CancelBatch, FailChain, CanWrite
<1>4. CASE CancelBatch
  <2>1. UNCHANGED <<kind, members, chain, receipts, calls, pruner>> /\ batch.exists
    BY <1>4, Zenon DEF CancelBatch
  <2>2. batch'.exists = batch.exists /\ batch'.touched = Pruning
    BY <1>1, <1>4, Zenon DEF CancelBatch, RowsTyped, BatchRecord
  <2>3. /\ history'.outcome = history.outcome /\ history'.writer = history.writer
        /\ history'.ender = IF batch.completed THEN history.ender ELSE Stopped
    BY <1>1, <1>4, Zenon DEF CancelBatch, RowsTyped, HistoryRecord
  <2>4. CounterInv'
    BY <1>4, CancelCounts, Zenon DEF Safe
  <2>5. OwnersOK'
    BY <2>1, <2>3, OwnersKept, Zenon DEF Safe, ReceiptInv
  <2>6. Forward
    BY <2>1, Zenon DEF Forward, ChainOpen
  <2>7. ReceiptInv'
    BY <2>1, <2>5, <2>6, OthersClear, Zenon DEF Safe
  <2>8. history'.ender = Nobody => history.ender = Nobody
    BY <1>2, <2>3, Zenon
  <2>9. OrphanInv'
    BY <1>3, <2>1, <2>2, <2>8, OrphansTouched, ZenonT(60) DEF Safe, Touched, Exists
  <2> QED
    BY <2>4, <2>7, <2>9, Zenon DEF Safe
<1>5. CASE FailChain
  <2>1. UNCHANGED <<kind, batch, members, receipts, calls, pruner>> /\ chain.exists /\ ChainOpen
    BY <1>5, Zenon DEF FailChain
  <2>2. kind = "chain"
    BY <2>1, Zenon DEF Inv, TypeInv, TablesTyped, StoreInv, BatchOK
  <2>3. chain'.exists = chain.exists /\ chain'.touched = Pruning /\ chain'.next = chain.next
    BY <1>1, <1>5, Zenon DEF FailChain, ChainRecord
  <2>4. history'.writer = [history.writer EXCEPT ![chain.next] = Stopped] /\ history'.ender = Stopped
    BY <1>1, <1>5, Zenon DEF FailChain, RowsTyped, HistoryRecord
  <2>5. CounterInv'
    BY <2>1, <2>2, CountersKept, Zenon DEF Safe
  <2>6. OwnersOK'
    <3>1. history.writer \in [Members -> Owners]
      BY <1>1, Zenon DEF RowsTyped, HistoryRecord
    <3>2. \A k \in Members, d \in Calls : history'.writer[k] = d => history.writer[k] = d
      BY <1>2, <2>4, <3>1, Zenon
    <3>3. ~Known(receipts'[0])
      BY <2>1, <2>2, Zenon DEF Safe, ReceiptInv, OwnersOK
    <3> QED
      BY <3>2, <3>3, Zenon DEF Safe, ReceiptInv, OwnersOK
  <2>7. Forward
    BY <2>1, <2>3, Zenon DEF Forward
  <2>8. ReceiptInv'
    BY <2>1, <2>6, <2>7, OthersClear, Zenon DEF Safe
  <2>9. OrphanInv'
    BY <1>2, <1>3, <2>1, <2>3, <2>4, OrphansTouched, ZenonT(60) DEF Safe, Touched, Exists
  <2> QED
    BY <2>5, <2>8, <2>9, Zenon DEF Safe
<1> QED
  BY <1>4, <1>5, Zenon

\* A Prune changes no outcome and no counter, and no settlement.
LEMMA PruneKeeps ==
  ASSUME Inv, Safe, OrphanInv', UNCHANGED <<kind, calls, history>>,
         batch'.processed = batch.processed, batch'.failed = batch.failed,
         batch'.completed = batch.completed, batch'.allow = batch.allow,
         chain'.exists => chain.exists, chain'.next = chain.next,
         chain'.completed = chain.completed, chain'.failed = chain.failed,
         receipts'[0] = receipts[0] \/ receipts'[0] = NoReceipt
  PROVE  Safe'
<1>1. CounterInv'
  BY CountersKept, Zenon DEF Safe
<1>2. OwnersOK'
  BY OwnersKept, Zenon DEF Safe, ReceiptInv
<1>3. Forward
  BY Zenon DEF Forward, ChainOpen
<1>4. ReceiptInv'
  BY <1>2, <1>3, OthersClear, Zenon DEF Safe
<1> QED
  BY <1>1, <1>4, Zenon DEF Safe

\* The statements and the commit of a Prune.
LEMMA PruneSafe ==
  ASSUME Inv, Safe, PruneReceipts \/ PruneStep \/ PruneFails
  PROVE  Safe'
<1>1. OrphanInv /\ batch \in BatchRecord /\ chain \in ChainRecord
  BY Zenon DEF Safe, Inv, StoreInv, RowsTyped, TypeInv, TablesTyped
<1>2. ASSUME UNCHANGED <<storeVars, calls, history>>, OrphanInv' PROVE Safe'
  BY <1>2, PruneKeeps, Zenon DEF storeVars
<1>3. CASE PruneReceipts
  <2>1. /\ batch' = [batch EXCEPT !.touched = FALSE] /\ chain' = [chain EXCEPT !.touched = FALSE]
        /\ UNCHANGED <<kind, calls, history, receipts>>
    BY <1>3, Zenon DEF PruneReceipts
  <2>2. /\ batch'.processed = batch.processed /\ batch'.failed = batch.failed
        /\ batch'.completed = batch.completed /\ batch'.allow = batch.allow
    BY <1>1, <2>1, Zenon DEF BatchRecord
  <2>3. /\ chain'.exists = chain.exists /\ chain'.next = chain.next
        /\ chain'.completed = chain.completed /\ chain'.failed = chain.failed
    BY <1>1, <2>1, Zenon DEF ChainRecord
  <2>4. OrphanInv'
    BY <1>1, <1>3, PruneReceiptsOrphans, Zenon
  <2> QED
    BY <2>1, <2>2, <2>3, <2>4, PruneKeeps, ZenonT(60)
<1>4. CASE PruneSelect
  BY <1>1, <1>2, <1>4, PruneSelectOrphans, Zenon DEF PruneSelect
<1>5. ASSUME NEW m \in Members, PruneRow(m) PROVE Safe'
  BY <1>1, <1>2, <1>5, PruneRowOrphans, Zenon DEF PruneRow
<1>6. CASE PruneParent
  BY <1>1, <1>2, <1>6, PruneParentOrphans, Zenon DEF PruneParent
<1>7. CASE PruneFails
  BY <1>1, <1>2, <1>7, PruneFailsOrphans, Zenon DEF PruneFails
<1>8. ASSUME NEW db, PruneCommit(db) PROVE Safe'
  <2>1. OrphanInv'
    BY <1>1, <1>8, PruneCommitOrphans, Zenon
  <2>2. CASE db = "failed"
    BY <1>2, <1>8, <2>1, <2>2, Zenon DEF PruneCommit, storeVars
  <2>3. CASE db # "failed"
    <3>1. /\ receipts' = [r \in Rows |-> IF r \in pruner.receipts THEN NoReceipt ELSE receipts[r]]
          /\ batch' = [batch EXCEPT !.exists = @ /\ ~pruner.parent]
          /\ chain' = [chain EXCEPT !.exists = @ /\ ~pruner.parent]
          /\ UNCHANGED <<kind, calls, history>>
      BY <1>8, <2>3, Zenon DEF PruneCommit
    <3>2. /\ batch'.processed = batch.processed /\ batch'.failed = batch.failed
          /\ batch'.completed = batch.completed /\ batch'.allow = batch.allow
      BY <1>1, <3>1, Zenon DEF BatchRecord
    <3>3. /\ chain'.exists => chain.exists
          /\ chain'.next = chain.next /\ chain'.completed = chain.completed /\ chain'.failed = chain.failed
      BY <1>1, <3>1, Zenon DEF ChainRecord
    <3>4. receipts'[0] = receipts[0] \/ receipts'[0] = NoReceipt
      BY <3>1, Transactions, Zenon
    <3> QED
      BY <2>1, <3>1, <3>2, <3>3, <3>4, PruneKeeps, ZenonT(60)
  <2> QED
    BY <2>2, <2>3, Zenon
<1> QED
  BY <1>3, <1>4, <1>5, <1>6, <1>7, <1>8, ZenonT(60) DEF PruneStep

\* Every step keeps the three invariants.
LEMMA SafeStep ==
  ASSUME Inv, Counting, CountsPending, Safe, [Next]_vars
  PROVE  Safe'
<1>1. ASSUME UNCHANGED vars PROVE Safe'
  <2>1. UNCHANGED <<kind, batch, members, chain, nodes, receipts, history, pruner, calls, locks>>
    BY <1>1, Zenon DEF vars, storeVars
  <2>2. OrphanInv'
    BY <2>1, OrphansKept, Zenon DEF Safe, OrphanInv
  <2> QED
    BY <2>1, <2>2, PruneKeeps, Zenon
<1>2. ASSUME NEW c \in Calls, CallStep(c) PROVE Safe'
  BY <1>2, CallStatementsSafe, CommitBatchSafe, CommitChainSafe, Zenon DEF CallStep
<1>3. ASSUME NEW c \in Calls, NEW m \in Members, NEW o \in Outcomes,
             ClaimMember(c, m, o) \/ ReadChain(c, m, o)
      PROVE  Safe'
  BY <1>3, CallStatementsSafe, Zenon
<1>4. ASSUME NEW c \in Calls, StatementFails(c) PROVE Safe'
  BY <1>4, CallStatementsSafe, Zenon
<1> QED
  BY <1>1, <1>2, <1>3, <1>4, StopSafe, PruneSafe, ZenonT(60) DEF Next

-----------------------------------------------------------------------------
(* What the invariants imply, and where they begin.                        *)

\* A workflow that was just created.
LEMMA SafeInit ==
  ASSUME Init, Inv, Counting
  PROVE  Safe
<1>1. /\ history.outcome = [m \in Members |-> "pending"] /\ history.writer = [m \in Members |-> Nobody]
      /\ history.ender = Nobody
  BY Zenon DEF Init
<1>2. /\ batch.processed = 0 /\ batch.failed = 0 /\ batch.completed = FALSE
      /\ batch.exists = (kind = "batch")
  BY DEF Init
<1>3. members = [m \in Members |-> "pending"] /\ receipts = [r \in Rows |-> NoReceipt]
      /\ calls = [c \in Calls |-> IdleCall] /\ pruner = NoPrune /\ chain.exists = (kind = "chain")
  BY Zenon DEF Init
<1>4. SettledMembers = {} /\ FailedMembers = {} /\ PendingMembers = Members
  BY <1>1, Zenon DEF SettledMembers, FailedMembers, PendingMembers
<1>5. 1 \in Members
  BY StoreAssumption DEF Members
<1>6. Cardinality({}) = 0
  BY Zenon DEF Counting
<1>7. Stopped # Nobody
  BY DEF Stopped, Nobody
<1>8. CounterInv
  BY <1>1, <1>2, <1>4, <1>5, <1>6, <1>7, ZenonT(60) DEF CounterInv
<1>9. \A r \in Rows : ~Known(receipts[r])
  BY <1>3, Zenon DEF Known, NoReceipt
<1>10. OwnersOK
  BY <1>1, <1>9, Transactions, Zenon DEF OwnersOK
<1>11. ASSUME NEW c \in Calls PROVE ClearCall(c) /\ calls[c].pc = "idle"
  <2>1. calls[c].pc = "idle" /\ calls[c].corrupt = FALSE
    BY <1>3, Zenon DEF IdleCall
  <2> QED
    BY <2>1, Zenon DEF ClearCall
<1>12. Exists
  BY <1>2, <1>3, Zenon DEF Exists, Inv, TypeInv, TablesTyped
<1>13. PruneSelects
  <2>1. pruner.pc = "idle"
    BY <1>3, Zenon DEF NoPrune
  <2> QED
    BY <2>1, Zenon DEF PruneSelects
<1>14. \A m \in Members : members[m] # "gone"
  BY <1>3, Zenon
<1> QED
  BY <1>8, <1>10, <1>11, <1>12, <1>13, <1>14, ZenonT(60) DEF Safe, ReceiptInv, OrphanInv

\* The counters of the row are those of the member rows.
LEMMA CountersFromHistory ==
  ASSUME Inv, Counting, Safe
  PROVE  CountersAgree
<1> SUFFICES ASSUME batch.exists, \A m \in Members : members[m] # "gone"
             PROVE  /\ batch.pending = Settlements({"pending"})
                    /\ batch.processed = Settlements({"succeeded", "failed"})
                    /\ batch.failed = Settlements({"failed"})
                    /\ batch.completed <=> \/ batch.pending = 0
                                           \/ batch.failed > 0 /\ ~batch.allow
                                           \/ history.ender = Stopped
  BY Zenon DEF CountersAgree
<1>1. kind = "batch"
  BY Zenon DEF Inv, TypeInv, TablesTyped, StoreInv, ChainOK
<1>2. BatchOK /\ RowsTyped
  BY <1>1, Zenon DEF Inv, StoreInv
<1>3. \A m \in Members : members[m] = history.outcome[m]
  BY <1>2, Zenon DEF BatchOK
<1>4. \A m \in Members : history.outcome[m] \in {"pending", "succeeded", "failed"}
  BY <1>2, Zenon DEF RowsTyped, HistoryRecord, Outcomes
<1>5. /\ PendingMembers = {m \in Members : members[m] \in {"pending"}}
      /\ SettledMembers = {m \in Members : members[m] \in {"succeeded", "failed"}}
      /\ FailedMembers = {m \in Members : members[m] \in {"failed"}}
  BY <1>3, <1>4, Zenon DEF PendingMembers, SettledMembers, FailedMembers
<1>6. /\ batch.pending = Cardinality(PendingMembers)
      /\ batch.processed = Cardinality(SettledMembers)
      /\ batch.failed = Cardinality(FailedMembers)
      /\ batch.completed <=> \/ PendingMembers = {}
                             \/ ~batch.allow /\ FailedMembers # {}
                             \/ history.ender = Stopped
  BY <1>1, <1>2, Zenon DEF BatchOK, Safe, CounterInv
<1>7. PendingMembers \in SUBSET Members /\ FailedMembers \in SUBSET Members
  BY Zenon DEF PendingMembers, FailedMembers
<1>8. /\ Cardinality(PendingMembers) = 0 <=> PendingMembers = {}
      /\ Cardinality(FailedMembers) \in Nat /\ (Cardinality(FailedMembers) = 0 <=> FailedMembers = {})
  BY <1>7, Zenon DEF Counting
<1>9. batch.failed > 0 <=> FailedMembers # {}
  BY <1>6, <1>8
<1> QED
  BY <1>5, <1>6, <1>8, <1>9, Zenon DEF Settlements

\* Nothing is reported corrupt, and no row is orphaned.
LEMMA SafetyFromInvariants ==
  ASSUME Inv, Counting, Safe
  PROVE  NoCorruptionReported /\ NoOrphans
<1>1. NoCorruptionReported
  BY OwnersRead, Zenon DEF Safe, ReceiptInv, ClearCall, NoCorruptionReported
<1>2. NoOrphans
  BY Zenon DEF Safe, OrphanInv, NoOrphans, Exists, KnownReceipts
<1> QED
  BY <1>1, <1>2, Zenon

=============================================================================
