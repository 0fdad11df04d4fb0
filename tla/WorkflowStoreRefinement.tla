---------------------- MODULE WorkflowStoreRefinement ----------------------
(***************************************************************************)
(* The theorems about the SQL workflow store, for any number of members or *)
(* nodes, of deliveries and of faults: it implements the atomic store, its *)
(* counters agree, its receipts can be read back and Prune leaves nothing  *)
(* behind.                                                                 *)
(***************************************************************************)
EXTENDS WorkflowStoreSafety, FiniteSetTheorems

\* One outcome more leaves one pending member less.
LEMMA PendingCount ==
  ASSUME RowsTyped, NEW m \in Members, history.outcome[m] = "pending"
  PROVE  /\ Cardinality(PendingMembers) \in Nat \ {0}
         /\ Cardinality(PendingMembers \ {m}) = Cardinality(PendingMembers) - 1
         /\ Cardinality(PendingMembers) = 1 <=> PendingMembers = {m}
<1>1. IsFiniteSet(Members)
  BY StoreAssumption, FS_Interval, SMTT(30) DEF Members
<1>2. IsFiniteSet(PendingMembers) /\ m \in PendingMembers
  BY <1>1, FS_Subset, ZenonT(60) DEF PendingMembers
<1> DEFINE p == Cardinality(PendingMembers)
           q == Cardinality(PendingMembers \ {m})
<1>3. p \in Nat /\ p # 0
  BY <1>2, FS_CardinalityType, FS_EmptySet, ZenonT(60)
<1>4. q = p - 1 /\ IsFiniteSet(PendingMembers \ {m})
  BY <1>2, FS_RemoveElement, ZenonT(60)
<1>5. q = 0 <=> PendingMembers \ {m} = {}
  BY <1>4, FS_EmptySet, ZenonT(60)
<1>6. PendingMembers \ {m} = {} <=> PendingMembers = {m}
  BY <1>2, Zenon
<1> HIDE DEF p, q
<1>7. p \in Nat \ {0} /\ (p = 1 <=> q = 0)
  BY <1>3, <1>4
<1> QED
  BY <1>4, <1>5, <1>6, <1>7, ZenonT(60) DEF p, q

\* Sets of members are finite, and one member more is one more.
LEMMA MemberCount == Counting
<1> SUFFICES ASSUME NEW S \in SUBSET Members
             PROVE  /\ Cardinality(S) \in Nat
                    /\ Cardinality(S) = 0 <=> S = {}
                    /\ \A m \in Members : Cardinality({m}) = 1
                    /\ \A m \in Members \ S : Cardinality(S \cup {m}) = Cardinality(S) + 1
  BY Zenon DEF Counting
<1>1. IsFiniteSet(Members)
  BY StoreAssumption, FS_Interval DEF Members
<1>2. IsFiniteSet(S)
  BY <1>1, FS_Subset, Zenon
<1>3. Cardinality(S) \in Nat /\ (Cardinality(S) = 0 <=> S = {})
  BY <1>2, FS_CardinalityType, FS_EmptySet, ZenonT(60)
<1>4. \A m \in Members : Cardinality({m}) = 1
  BY FS_Singleton, ZenonT(60)
<1>5. ASSUME NEW m \in Members \ S PROVE Cardinality(S \cup {m}) = Cardinality(S) + 1
  <2>1. m \notin S
    BY <1>5, ZenonT(60)
  <2> QED
    BY <1>2, <2>1, FS_AddElement, ZenonT(60)
<1> QED
  BY <1>3, <1>4, <1>5, ZenonT(60)

\* A workflow that was just created.
LEMMA RefinementInit ==
  ASSUME Init PROVE Inv
<1>0. /\ TypeInv /\ LockInv /\ N \in Nat \ {0} /\ 0 \notin Calls /\ Nobody \notin Calls
      /\ kind \in {"batch", "chain"} /\ Members \subseteq Rows /\ 0 \in Rows
  <2>1. TypeInv /\ LockInv
    BY StoreInit, ZenonT(60)
  <2>2. kind \in {"batch", "chain"}
    BY <2>1, Zenon DEF TypeInv, TablesTyped
  <2> QED
    BY <2>1, <2>2, StoreAssumption, Transactions, ZenonT(60) DEF Nobody
<1>1. PICK v \in Variants :
        batch = [exists |-> kind = "batch", allow |-> v.allow, pending |-> N, processed |-> 0, failed |-> 0,
                 cancelled |-> FALSE, completed |-> FALSE, touched |-> FALSE]
  BY Zenon DEF Init
<1>2. /\ members = [m \in Members |-> "pending"] /\ receipts = [r \in Rows |-> NoReceipt]
      /\ chain = [exists |-> kind = "chain", next |-> 1, completed |-> FALSE, failed |-> FALSE, touched |-> FALSE]
      /\ calls = [c \in Calls |-> IdleCall] /\ pruner = NoPrune
      /\ history = [outcome |-> [m \in Members |-> "pending"], writer |-> [m \in Members |-> Nobody],
                    ender |-> Nobody]
  BY ZenonT(60) DEF Init
<1>3. RowsTyped
  <2>1. batch \in BatchRecord
    <3>1. v.allow \in BOOLEAN /\ (kind = "batch") \in BOOLEAN
      BY StoreAssumption, Zenon
    <3> QED
      BY <1>0, <1>1, <3>1, ZenonT(60) DEF BatchRecord
  <2>2. NoReceipt \in Receipt
    BY ZenonT(60) DEF NoReceipt, Receipt
  <2>3. history \in HistoryRecord
    BY <1>2, ZenonT(60) DEF HistoryRecord, Owners
  <2> QED
    BY <1>2, <2>1, <2>2, <2>3, ZenonT(60) DEF RowsTyped
<1>4. ReceiptsOK
  BY <1>0, <1>2, ZenonT(60) DEF ReceiptsOK, Known, NoReceipt
<1>5. ASSUME kind = "batch" PROVE BatchOK
  <2>1. PendingMembers = 1..N
    BY <1>2, Zenon DEF PendingMembers, Members
  <2>2. Cardinality(PendingMembers) = N
    <3>1. 1 \in Int /\ N \in Int /\ ~(1 > N) /\ N - 1 + 1 = N
      BY <1>0
    <3>2. Cardinality(1..N) = IF 1 > N THEN 0 ELSE N - 1 + 1
      BY <3>1, FS_Interval, Zenon
    <3> QED
      BY <2>1, <3>1, <3>2, ZenonT(60)
  <2>3. batch.pending = N /\ ~batch.completed
    BY <1>1, Zenon
  <2>4. ~chain.exists
    BY <1>2, <1>5, ZenonT(60)
  <2>5. \A m \in Members : members[m] = history.outcome[m] /\ history.outcome[m] # "failed"
    BY <1>2, ZenonT(60)
  <2>6. history.ender = Nobody
    BY <1>2, Zenon
  <2> QED
    BY <1>0, <2>2, <2>3, <2>4, <2>5, <2>6, ZenonT(60) DEF BatchOK
<1>6. ASSUME kind = "chain" PROVE ChainOK
  <2>1. ~batch.exists
    BY <1>1, <1>6, Zenon
  <2>2. chain.next = 1 /\ ~chain.completed /\ ~chain.failed
    BY <1>2, Zenon
  <2>3. 1 \in 1..N + 1 /\ 1 # N + 1 /\ \A m \in Members : ~(m < 1)
    BY <1>0 DEF Members
  <2>4. history.ender = Nobody /\ \A m \in Members : history.outcome[m] = "pending" /\ history.writer[m] = Nobody
    BY <1>2, ZenonT(60)
  <2> QED
    BY <1>0, <2>1, <2>2, <2>3, <2>4, ZenonT(60) DEF ChainOK, ChainOpen
<1>7. CallInv
  <2> SUFFICES ASSUME NEW c \in Calls PROVE CallOK(c)
    BY ZenonT(60) DEF CallInv
  <2>1. calls[c].pc = "idle"
    BY <1>2, Zenon DEF IdleCall
  <2>2. history.ender # c /\ \A m \in Members : history.writer[m] # c
    BY <1>0, <1>2, ZenonT(60)
  <2> QED
    BY <2>1, <2>2, ZenonT(60) DEF CallOK, BatchCall, ChainCall, Answering
<1>8. PruneOK
  BY <1>2, ZenonT(60) DEF PruneOK, NoPrune
<1> QED
  BY <1>0, <1>3, <1>4, <1>5, <1>6, <1>7, <1>8, ZenonT(60) DEF Inv, StoreInv

\* Every step keeps the invariant and is a step of the atomic store or none.
LEMMA RefinementStep ==
  ASSUME Inv, [Next]_vars
  PROVE  Inv' /\ Implements
<1> SUFFICES StoreInv' /\ CallInv' /\ PruneOK' /\ Implements
  BY StoreStep, Zenon DEF Inv
<1>0. CountsPending
  BY PendingCount, ZenonT(60) DEF CountsPending, Inv, StoreInv
<1>1. ASSUME NEW c \in Calls, NEW m \in Members, NEW o \in Outcomes, ClaimMember(c, m, o) \/ ReadChain(c, m, o)
      PROVE  StoreInv' /\ CallInv' /\ PruneOK' /\ Implements
  BY <1>1, ClaimMemberImplements, ReadChainImplements, ZenonT(60)
<1>2. ASSUME NEW c \in Calls, CallStep(c)
      PROVE  StoreInv' /\ CallInv' /\ PruneOK' /\ Implements
  BY <1>2, <1>0, LockParentImplements, CommitBatchImplements, CommitChainImplements, ReadReceiptImplements,
     RereadChainImplements, InsertNodeImplements, SwapChainImplements, ReadBackImplements, ZenonT(60) DEF CallStep
<1>3. CASE PruneStep
  BY <1>3, PruneStatementsImplement, PruneCommitImplements, ZenonT(60) DEF PruneStep
<1>4. CASE UNCHANGED vars
  <2>1. UNCHANGED <<storeVars, history>> /\ kind' = kind /\ batch' = batch /\ chain' = chain
        /\ members' = members /\ calls' = calls /\ locks' = locks /\ pruner' = pruner /\ history' = history
    BY <1>4, ZenonT(60) DEF vars, storeVars
  <2>2. StoreInv'
    BY <2>1, SameTables, ZenonT(60) DEF Inv
  <2>3. CallInv'
    <3> SUFFICES ASSUME NEW c \in Calls PROVE CallOK(c)'
      BY ZenonT(60) DEF CallInv
    <3>1. Keeps(c)
      BY <2>1, ZenonT(60) DEF Keeps, ChainOpen
    <3> QED
      BY <3>1, KeptCall, ZenonT(60) DEF Inv, CallInv
  <2>4. PruneOK'
    BY <2>1, ZenonT(60) DEF Inv, PruneOK
  <2>5. Implements
    BY <2>1, Stutters, ZenonT(60) DEF Implements
  <2> QED
    BY <2>2, <2>3, <2>4, <2>5, ZenonT(60)
<1> QED
  BY <1>1, <1>2, <1>3, <1>4, StatementFailsImplements, CancelBatchImplements, FailChainImplements,
     PruneReceiptsImplements, PruneStatementsImplement, ZenonT(60) DEF Next

\* The transactions of the SQL store, interleaved, failing and pruned, keep the
\* promise of the memory store: the first writer of each member or node wins,
\* one settlement ends the workflow, and every answer is true, the answers read
\* back after an ambiguous commit included.
THEOREM TransactionsImplementStore == Spec => ImplementsWorkflowStore
<1>1. Init => Inv /\ Promise!Init
  BY RefinementInit, InitImplements, ZenonT(60)
<1>2. Inv /\ [Next]_vars => Inv' /\ [Promise!Next]_(Promise!vars)
  BY RefinementStep, ZenonT(60) DEF Implements
<1> QED
  BY <1>1, <1>2, PTL, ZenonT(60) DEF Spec, ImplementsWorkflowStore, Promise!Spec
\* The three invariants beside Inv hold in every state.
LEMMA StoreIsSafe == Spec => [](Inv /\ Safe)
<1>1. Init => Inv /\ Safe
  BY RefinementInit, SafeInit, MemberCount, ZenonT(60)
<1>2. Inv /\ Safe /\ [Next]_vars => Inv' /\ Safe'
  <2> SUFFICES ASSUME Inv, Safe, [Next]_vars PROVE Inv' /\ Safe'
    BY Zenon
  <2>1. CountsPending
    BY PendingCount, ZenonT(60) DEF CountsPending, Inv, StoreInv
  <2> QED
    BY <2>1, RefinementStep, SafeStep, MemberCount, ZenonT(60)
<1> QED
  BY <1>1, <1>2, PTL DEF Spec

\* The counters of a batch row are those of its member rows in every state,
\* however settlements, a cancel and a Prune interleave and wherever statements
\* and commits fail: only the settlement that claimed a member counts it, under
\* the lock of the parent (markBatchTerminal's arithmetic UPDATE).
THEOREM BatchCountersAgree == Spec => []CountersAgree
<1>1. Inv /\ Safe => CountersAgree
  BY CountersFromHistory, MemberCount, ZenonT(60)
<1> QED
  BY <1>1, StoreIsSafe, PTL, ZenonT(60)

\* The fail-closed errors of the store are never met by its own deliveries:
\* receipts name one owner each, the aggregate receipt is that of the settlement
\* that ended the batch, and a lost compare-and-swap finds a chain that has
\* moved on (insertTransitionReceipt, validateBatchAggregateReceiptOwner,
\* advanceChainOutcome).
THEOREM ReceiptsAreReadable == Spec => []NoCorruptionReported
<1>1. Inv /\ Safe => NoCorruptionReported
  BY SafetyFromInvariants, MemberCount, ZenonT(60)
<1> QED
  BY <1>1, StoreIsSafe, PTL

\* Prune deletes the parent of a workflow only with all its members, nodes and
\* receipts, and only of a workflow that has ended, although its statements
\* select at different times: what was written between them touched the parent.
THEOREM PruneLeavesNoOrphans == Spec => []NoOrphans
<1>1. Inv /\ Safe => NoOrphans
  BY SafetyFromInvariants, MemberCount, Zenon
<1> QED
  BY <1>1, StoreIsSafe, PTL


=============================================================================
