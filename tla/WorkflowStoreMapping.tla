----------------------- MODULE WorkflowStoreMapping ------------------------
(***************************************************************************)
(* Proofs about the SQL workflow store, for any number of members or       *)
(* nodes, of deliveries and of faults, on both kinds of databases.  First  *)
(* the row locks: transactions never wait for each other in a circle.      *)
(* Then the inductive invariant of the stored rows, the statements of a    *)
(* settlement before its commit, and the steps that others can see (its    *)
(* commit, CancelBatch, FailChain and Prune): each of them keeps the       *)
(* invariant and is a step of the atomic store, or none.                   *)
(***************************************************************************)
EXTENDS WorkflowStoreSQL, TLAPS

Places == {"idle", "receipt", "parent", "insert", "cas", "reread", "commit", "readback", "returned"}
BatchPlaces == {"idle", "parent", "commit", "readback", "returned"}
CallRecord == [pc: Places, member: Rows, outcome: Outcomes \cup {"none"}, claimed: BOOLEAN, seen: Nat,
               reply: Answers \cup {"none", "claimable", "corrupt"}, corrupt: BOOLEAN,
               answer: Answers \cup {"none"}]
ChainRecord == [exists: BOOLEAN, next: Nat, completed: BOOLEAN, failed: BOOLEAN, touched: BOOLEAN]
PrunerRecord == [pc: {"idle", "select", "rows", "commit", "done"}, receipts: SUBSET Rows,
                 rows: BOOLEAN, parent: BOOLEAN]

\* A settlement of kind k that stands at r.pc has these fields.
Shape(r, k) ==
  /\ r \in CallRecord
  /\ r.pc \in (IF k = "batch" THEN BatchPlaces ELSE Places \ {"parent"})
  /\ IF r.pc \in {"idle", "returned"} THEN r.member = 0 /\ r.outcome = "none"
     ELSE r.member \in Members /\ r.outcome \in Outcomes
  /\ r.pc = "returned" <=> r.answer # "none"
  /\ r.pc = "receipt" => r.reply \in {"error", "corrupt", "owned", "lost"}
  /\ r.pc = "commit" /\ ~r.claimed => k = "batch" /\ r.reply \in {"owned", "lost"}

TablesTyped ==
  /\ kind \in {"batch", "chain"} /\ dialect \in {"sqlite", "postgres"}
  /\ chain \in ChainRecord
  /\ nodes \subseteq Members
CallsTyped == calls \in [Calls -> CallRecord] /\ \A c \in Calls : Shape(calls[c], kind)
LocksTyped == pruner \in PrunerRecord /\ locks \in [Rows -> {Nobody, Pruner} \cup Calls]
TypeInv == TablesTyped /\ CallsTyped /\ LocksTyped

\* A settlement keeps rows locked only from the claim of its member to its
\* commit, and the parent only when it waits for nothing any more.
HeldByCalls ==
  \A r \in Rows, c \in Calls :
    locks[r] = c => calls[c].pc \in {"parent", "cas", "commit"} /\ (r = 0 => calls[c].pc = "commit")

\* A Prune holds the parent at its end only, except where it is alone anyway.
HeldByPrune ==
  \A r \in Rows :
    locks[r] = Pruner => /\ pruner.pc \in {"select", "rows", "commit"}
                         /\ r = 0 => pruner.pc = "commit" \/ dialect = "sqlite"

\* On SQLite one transaction writes at a time.
OneWriter ==
  dialect = "sqlite" =>
    \A r, s \in Rows : locks[r] # Nobody /\ locks[s] # Nobody => locks[r] = locks[s]

LockInv == HeldByCalls /\ HeldByPrune /\ OneWriter

-----------------------------------------------------------------------------

\* The tokens of transactions are told apart.
LEMMA Transactions ==
  /\ Pruner \notin Calls /\ Nobody \notin Calls /\ Pruner # Nobody
  /\ 0 \in Rows /\ Members \subseteq Rows /\ 0 \notin Members
  /\ Calls \subseteq Nat
BY StoreAssumption DEF Pruner, Calls, Nobody, Rows, Members

\* Where everybody who waits in a circle waits, the locks are held by nobody
\* who waits.
LEMMA NoCircle ==
  ASSUME TypeInv, LockInv
  PROVE  NoDeadlock
<1> SUFFICES ASSUME NEW W \in SUBSET (Calls \cup {Pruner}), W # {},
                    \A t \in W : WaitsFor(t) \cap W # {}
             PROVE  FALSE
  BY Zenon DEF NoDeadlock
<1>0. 0 \in Rows /\ Members \subseteq Rows /\ Pruner \notin Calls /\ pruner \in PrunerRecord
  BY Transactions, Zenon DEF TypeInv, LocksTyped
<1>d. DependentRows \subseteq Members
  BY Zenon DEF DependentRows, TypeInv, TablesTyped
<1>1. ASSUME NEW c \in Calls, c \in W
      PROVE  calls[c].pc \in {"insert", "parent", "cas"}
  BY <1>0, <1>1 DEF WaitsFor
<1>2. ASSUME NEW c \in Calls, c \in W
      PROVE  locks[0] # c
  BY <1>0, <1>1, <1>2, Zenon DEF LockInv, HeldByCalls
<1>3. ASSUME Pruner \in W
      PROVE  locks[0] # Pruner
  <2> SUFFICES ASSUME locks[0] = Pruner PROVE FALSE
    BY Zenon
  <2>1. pruner.pc = "rows"
    BY <1>3 DEF WaitsFor
  <2>2. dialect = "sqlite"
    BY <1>0, <2>1, Zenon DEF LockInv, HeldByPrune
  <2>3. \A r \in Rows : locks[r] \in {Nobody, Pruner}
    BY <1>0, <2>2, Transactions, Zenon DEF LockInv, OneWriter
  <2>4. WaitsFor(Pruner) = {}
    BY <1>0, <1>d, <2>3 DEF WaitsFor
  <2> QED
    BY <1>3, <2>4, Zenon
<1>4. locks[0] \notin W
  BY <1>2, <1>3, Zenon
<1>5. ASSUME NEW c \in Calls, c \in W
      PROVE  calls[c].pc = "insert" /\ Pruner \in W
  <2>1. PICK u \in W : u \in WaitsFor(c)
    BY <1>5, Zenon
  <2>2. calls[c].pc = "insert" /\ u = locks[calls[c].member]
    BY <1>0, <1>1, <1>4, <1>5, <2>1 DEF WaitsFor
  <2>3. calls[c].member \in Rows
    BY <2>2, Zenon DEF TypeInv, CallsTyped, CallRecord
  <2>4. CASE u \in Calls
    <3>1. calls[u].pc \in {"parent", "cas"}
      BY <1>1, <2>2, <2>3, <2>4, Zenon DEF LockInv, HeldByCalls
    <3>2. WaitsFor(u) \subseteq {locks[0]}
      BY <1>0, <2>4, <3>1, Zenon DEF WaitsFor
    <3> QED
      BY <1>4, <3>2, Zenon
  <2> QED
    BY <2>2, <2>4, Zenon
<1>6. Pruner \in W
  BY <1>5, Zenon
<1>7. PICK u \in W : u \in WaitsFor(Pruner)
  BY <1>6, Zenon
<1>8. u \in Calls /\ \E m \in Members : locks[m] = u
  BY <1>0, <1>4, <1>7, <1>d, Zenon DEF WaitsFor
<1>9. calls[u].pc \in {"parent", "cas", "commit"}
  BY <1>0, <1>8, Zenon DEF LockInv, HeldByCalls
<1> QED
  BY <1>5, <1>8, <1>9, Zenon

-----------------------------------------------------------------------------
(* Settlements.                                                            *)

\* One settlement moves: its record stays well formed, and so do the others.
LEMMA CallUpdate ==
  ASSUME CallsTyped, NEW c \in Calls, NEW r, Shape(r, kind), calls' = [calls EXCEPT ![c] = r],
         kind' = kind
  PROVE  /\ CallsTyped' /\ calls'[c] = r
         /\ \A e \in Calls \ {c} : calls'[e] = calls[e]
BY DEF CallsTyped, Shape

\* The record of a settlement that returns, and of one that reports corruption.
ReturnRecord(a) == [IdleCall EXCEPT !.pc = "returned", !.answer = a]
CorruptRecord == [ReturnRecord("error") EXCEPT !.corrupt = TRUE]

\* Both are well formed for both kinds of workflows.
LEMMA ReturnShape ==
  ASSUME NEW a \in Answers, NEW k
  PROVE  /\ Shape(ReturnRecord(a), k) /\ ReturnRecord(a).pc = "returned" /\ ReturnRecord(a).answer = a
         /\ Shape(CorruptRecord, k) /\ CorruptRecord.pc = "returned" /\ CorruptRecord.answer = "error"
<1>1. ASSUME NEW b \in Answers
      PROVE  Shape(ReturnRecord(b), k) /\ ReturnRecord(b).pc = "returned" /\ ReturnRecord(b).answer = b
  BY <1>1, Transactions, Zenon DEF ReturnRecord, IdleCall, Shape, CallRecord, Places, BatchPlaces, Answers, Outcomes
<1>2. ASSUME NEW r \in CallRecord, Shape(r, k), r.pc = "returned", r.answer = "error"
      PROVE  LET q == [r EXCEPT !.corrupt = TRUE] IN
             Shape(q, k) /\ q.pc = "returned" /\ q.answer = "error"
  BY <1>2, Zenon DEF Shape, CallRecord
<1>3. ReturnRecord("error") \in CallRecord /\ "error" \in Answers
  BY <1>1, Zenon DEF Shape, Answers
<1> QED
  BY <1>1, <1>2, <1>3, Zenon DEF CorruptRecord

\* Return and ReturnCorrupt write those records.
LEMMA ReturnIs ==
  ASSUME CallsTyped, NEW c \in Calls, NEW a
  PROVE  /\ Return(c, a) = [calls EXCEPT ![c] = ReturnRecord(a)]
         /\ ReturnCorrupt(c) = [calls EXCEPT ![c] = CorruptRecord]
<1>1. \A f : [[calls EXCEPT ![c] = f] EXCEPT ![c].corrupt = TRUE]
              = [calls EXCEPT ![c] = [f EXCEPT !.corrupt = TRUE]]
  BY Zenon DEF CallsTyped
<1>2. Return(c, "error") = [calls EXCEPT ![c] = ReturnRecord("error")]
  BY Zenon DEF Return, ReturnRecord
<1>3. ReturnCorrupt(c) = [calls EXCEPT ![c] = CorruptRecord]
  BY <1>1, <1>2, Zenon DEF ReturnCorrupt, CorruptRecord
<1> QED
  BY <1>3, Zenon DEF Return, ReturnRecord

\* A settlement takes a row, or finds that it needs none, and goes on.
LEMMA AcquireLock ==
  ASSUME TypeInv, LockInv, NEW c \in Calls, NEW r \in Rows, CanWrite(c, r),
         locks' = locks \/ locks' = [locks EXCEPT ![r] = c],
         \A e \in Calls \ {c} : calls'[e] = calls[e],
         calls[c].pc # "commit", calls'[c].pc \in {"parent", "cas", "commit"},
         r = 0 => calls'[c].pc = "commit",
         UNCHANGED <<dialect, pruner>>
  PROVE  LockInv' /\ LocksTyped'
<1>0. locks \in [Rows -> {Nobody, Pruner} \cup Calls] /\ Pruner \notin Calls /\ Nobody \notin Calls
  BY Transactions, Zenon DEF TypeInv, LocksTyped
<1>1. LocksTyped'
  BY <1>0, Zenon DEF TypeInv, LocksTyped
<1>2. \A s \in Rows : locks'[s] = locks[s] \/ (s = r /\ locks'[s] = c)
  BY <1>0, Zenon
<1>3. HeldByCalls'
  <2> SUFFICES ASSUME NEW s \in Rows, NEW e \in Calls, locks'[s] = e
               PROVE  calls'[e].pc \in {"parent", "cas", "commit"} /\ (s = 0 => calls'[e].pc = "commit")
    BY Zenon DEF HeldByCalls
  <2>1. CASE e = c
    BY <1>2, <2>1, Zenon DEF LockInv, HeldByCalls
  <2>2. CASE e # c
    BY <1>2, <2>2 DEF LockInv, HeldByCalls
  <2> QED
    BY <2>1, <2>2, Zenon
<1>4. HeldByPrune'
  BY <1>0, <1>2, Zenon DEF LockInv, HeldByPrune
<1>5. OneWriter'
  <2>1. CASE locks' = locks
    BY <2>1, Zenon DEF LockInv, OneWriter
  <2>2. CASE locks' = [locks EXCEPT ![r] = c]
    BY <1>0, <2>2, Zenon DEF CanWrite, OneWriter
  <2> QED
    BY <2>1, <2>2, Zenon
<1> QED
  BY <1>1, <1>3, <1>4, <1>5, Zenon DEF LockInv

\* A settlement lets go of what it holds.
LEMMA ReleaseLocks ==
  ASSUME TypeInv, LockInv, NEW c \in Calls,
         \/ locks' = Released(c)
         \/ locks' = locks /\ \A r \in Rows : locks[r] # c,
         \A e \in Calls \ {c} : calls'[e] = calls[e],
         UNCHANGED <<dialect, pruner>>
  PROVE  LockInv' /\ LocksTyped'
<1>0. locks \in [Rows -> {Nobody, Pruner} \cup Calls] /\ Pruner \notin Calls /\ Nobody \notin Calls
      /\ Nobody # Pruner
  BY Transactions, Zenon DEF TypeInv, LocksTyped
<1>1. locks' \in [Rows -> {Nobody, Pruner} \cup Calls]
      /\ \A s \in Rows : locks'[s] \in {Nobody, locks[s]} /\ locks'[s] # c
  BY <1>0, Zenon DEF Released
<1>2. HeldByCalls' /\ HeldByPrune'
  BY <1>0, <1>1 DEF LockInv, HeldByCalls, HeldByPrune
<1>3. OneWriter'
  BY <1>1, Zenon DEF LockInv, OneWriter
<1> QED
  BY <1>1, <1>2, <1>3, Zenon DEF LockInv, LocksTyped, TypeInv

\* A settlement that is not between its claim and its commit holds nothing.
LEMMA HoldsNothing ==
  ASSUME LockInv, NEW c \in Calls, calls[c].pc \notin {"parent", "cas", "commit"}
  PROVE  \A r \in Rows : locks[r] # c
BY Zenon DEF LockInv, HeldByCalls

\* A settlement that returns lets go of what it holds.
LEMMA ReturnStep ==
  ASSUME TypeInv, LockInv, NEW c \in Calls, NEW a \in Answers,
         calls' = Return(c, a) \/ calls' = ReturnCorrupt(c),
         \/ locks' = Released(c)
         \/ locks' = locks /\ \A r \in Rows : locks[r] # c,
         UNCHANGED <<kind, dialect, pruner>>
  PROVE  CallsTyped' /\ LocksTyped' /\ LockInv'
<1>1. PICK r : Shape(r, kind) /\ calls' = [calls EXCEPT ![c] = r]
  BY ReturnShape, ReturnIs DEF TypeInv
<1>2. CallsTyped' /\ \A e \in Calls \ {c} : calls'[e] = calls[e]
  BY <1>1, CallUpdate, Zenon DEF TypeInv
<1> QED
  BY <1>2, ReleaseLocks, Zenon

\* markBatchTerminal claims the member.
LEMMA ClaimMemberStep ==
  ASSUME TypeInv, LockInv, NEW c \in Calls, NEW m \in Members, NEW o \in Outcomes, ClaimMember(c, m, o)
  PROVE  CallsTyped' /\ LocksTyped' /\ LockInv'
<1> DEFINE r == [Call(m, o, "parent") EXCEPT !.claimed = Claims(m)]
<1>1. Shape(r, kind) /\ r.pc = "parent"
  <2>1. kind = "batch" /\ Claims(m) \in BOOLEAN
    BY Zenon DEF ClaimMember, Claims
  <2> HIDE DEF Claims
  <2> QED
    BY <2>1, Transactions, Zenon DEF Call, IdleCall, Shape, CallRecord, Places, BatchPlaces, Answers, Outcomes
<1>2. calls' = [calls EXCEPT ![c] = r] /\ UNCHANGED <<kind, dialect, pruner>>
  BY Zenon DEF ClaimMember, storeVars
<1> HIDE DEF r
<1>3. CallsTyped' /\ calls'[c] = r /\ \A e \in Calls \ {c} : calls'[e] = calls[e]
  BY <1>1, <1>2, CallUpdate, Zenon DEF TypeInv
<1>4. CanWrite(c, m) /\ (locks' = locks \/ locks' = [locks EXCEPT ![m] = c]) /\ calls[c].pc # "commit"
  BY Zenon DEF ClaimMember, Invoked
<1> QED
  BY <1>1, <1>2, <1>3, <1>4, AcquireLock, Transactions, Zenon

\* getBatchTx locks the parent, or the transaction rolls back.
LEMMA LockParentStep ==
  ASSUME TypeInv, LockInv, NEW c \in Calls, LockParent(c)
  PROVE  CallsTyped' /\ LocksTyped' /\ LockInv'
<1> DEFINE missing == ~batch.exists \/ members[calls[c].member] = "gone"
           corrupt == IF calls[c].claimed THEN Conflicts(c) ELSE ~Readable
           seen == IF batch.completed THEN 1 ELSE 0
           reply == IF calls[c].claimed THEN "none" ELSE DuplicateAnswer(c)
           r == [calls[c] EXCEPT !.pc = "commit", !.seen = seen, !.reply = reply]
<1>1. calls[c].pc = "parent" /\ CanWrite(c, 0) /\ UNCHANGED <<kind, dialect, pruner>>
  BY Zenon DEF LockParent, storeVars
<1>2. CASE missing \/ corrupt
  <2>1. (calls' = Return(c, "error") \/ calls' = ReturnCorrupt(c)) /\ locks' = Released(c)
    BY <1>2, Zenon DEF LockParent
  <2> QED
    BY <1>1, <2>1, ReturnStep, Zenon DEF Answers
<1>3. CASE ~missing /\ ~corrupt
  <2>1. /\ calls' = [calls EXCEPT ![c].pc = "commit", ![c].seen = seen, ![c].reply = reply]
        /\ locks' = [locks EXCEPT ![0] = c]
    BY <1>3, Zenon DEF LockParent
  <2>2. seen \in Nat /\ reply \in {"none", "owned", "lost"} /\ (~calls[c].claimed => reply \in {"owned", "lost"})
    BY Zenon DEF DuplicateAnswer
  <2> HIDE DEF seen, reply, missing, corrupt
  <2>3. calls' = [calls EXCEPT ![c] = r]
    BY <2>1, Zenon DEF TypeInv, CallsTyped, CallRecord
  <2>4. Shape(calls[c], kind) /\ calls[c] \in CallRecord
    BY Zenon DEF TypeInv, CallsTyped
  <2>5. Shape(r, kind) /\ r.pc = "commit"
    BY <1>1, <2>2, <2>4, Zenon DEF Shape, CallRecord, Places, BatchPlaces, Answers
  <2> HIDE DEF r
  <2>6. CallsTyped' /\ calls'[c] = r /\ \A e \in Calls \ {c} : calls'[e] = calls[e]
    BY <1>1, <2>3, <2>5, CallUpdate, Zenon DEF TypeInv
  <2> QED
    BY <1>1, <2>1, <2>5, <2>6, AcquireLock, Transactions, Zenon
<1> QED
  BY <1>2, <1>3, Zenon

\* A commit, of a batch or of a chain, acknowledged or not, ends the transaction.
LEMMA CommitStep ==
  ASSUME TypeInv, LockInv, NEW c \in Calls, NEW db, NEW a \in Answers, calls[c].pc = "commit",
         calls' = AfterCommit(c, db, a), locks' = Released(c), UNCHANGED <<kind, dialect, pruner>>
  PROVE  CallsTyped' /\ LocksTyped' /\ LockInv'
<1>1. CASE calls' = Return(c, a) \/ calls' = Return(c, "error")
  BY <1>1, ReturnStep, Zenon DEF Answers
<1>2. CASE calls' = [calls EXCEPT ![c].pc = "readback"]
  <2> DEFINE r == [calls[c] EXCEPT !.pc = "readback"]
  <2>1. calls' = [calls EXCEPT ![c] = r]
    BY <1>2, Zenon DEF TypeInv, CallsTyped
  <2>2. Shape(calls[c], kind) /\ calls[c] \in CallRecord
    BY Zenon DEF TypeInv, CallsTyped
  <2>3. Shape(r, kind)
    BY <2>2, Zenon DEF Shape, CallRecord, Places, BatchPlaces
  <2> HIDE DEF r
  <2>4. CallsTyped' /\ \A e \in Calls \ {c} : calls'[e] = calls[e]
    BY <2>1, <2>3, CallUpdate, Zenon DEF TypeInv
  <2> QED
    BY <2>4, ReleaseLocks, Zenon
<1> QED
  BY <1>1, <1>2, Zenon DEF AfterCommit

\* markBatchTerminal and its commit.
LEMMA CommitBatchStep ==
  ASSUME TypeInv, LockInv, NEW c \in Calls, NEW db, CommitBatch(c, db)
  PROVE  CallsTyped' /\ LocksTyped' /\ LockInv'
<1> DEFINE a == CASE ~calls[c].claimed -> calls[c].reply
                  [] calls[c].claimed /\ ~valid -> "wrote"
                  [] OTHER -> IF Completes(c) THEN "ended" ELSE "claimed"
<1>1. /\ calls[c].pc = "commit" /\ calls' = AfterCommit(c, db, a) /\ locks' = Released(c)
      /\ UNCHANGED <<kind, dialect, pruner>>
  BY Zenon DEF CommitBatch
<1>2. Shape(calls[c], kind)
  BY Zenon DEF TypeInv, CallsTyped
<1>3. a \in Answers
  BY <1>1, <1>2, Zenon DEF Shape, Answers
<1> HIDE DEF a
<1> QED
  BY <1>1, <1>3, CommitStep, Zenon

\* The commit of advanceChainOutcome and failChainOutcome.
LEMMA CommitChainStep ==
  ASSUME TypeInv, LockInv, NEW c \in Calls, NEW db, CommitChain(c, db)
  PROVE  CallsTyped' /\ LocksTyped' /\ LockInv'
<1> DEFINE a == IF EndsChain(c) THEN "ended" ELSE "claimed"
<1>1. /\ calls[c].pc = "commit" /\ calls' = AfterCommit(c, db, a) /\ locks' = Released(c)
      /\ UNCHANGED <<kind, dialect, pruner>>
  BY Zenon DEF CommitChain
<1>2. a \in Answers
  BY Zenon DEF Answers
<1> HIDE DEF a
<1> QED
  BY <1>1, <1>2, CommitStep, Zenon

\* A settlement that holds nothing moves on without taking a row.
LEMMA MoveStep ==
  ASSUME TypeInv, LockInv, NEW c \in Calls, NEW r, Shape(r, kind), calls' = [calls EXCEPT ![c] = r],
         calls[c].pc \notin {"parent", "cas", "commit"}, UNCHANGED <<kind, dialect, pruner, locks>>
  PROVE  CallsTyped' /\ LocksTyped' /\ LockInv'
<1>1. CallsTyped' /\ \A e \in Calls \ {c} : calls'[e] = calls[e]
  BY CallUpdate, Zenon DEF TypeInv
<1> QED
  BY <1>1, ReleaseLocks, HoldsNothing, Zenon

\* What a call finds for its node.
LEMMA Dispositions ==
  ASSUME NEW n, NEW o
  PROVE  Disposition(n, o) \in {"error", "corrupt", "claimable", "owned", "lost"}
BY Zenon DEF Disposition

\* GetChain, before any transaction.
LEMMA ReadChainStep ==
  ASSUME TypeInv, LockInv, NEW c \in Calls, NEW n \in Members, NEW o \in Outcomes, ReadChain(c, n, o)
  PROVE  CallsTyped' /\ LocksTyped' /\ LockInv'
<1> DEFINE d == Disposition(n, o)
           next == IF d # "claimable" THEN "receipt" ELSE IF o = "succeeded" THEN "insert" ELSE "cas"
           r == [Call(n, o, next) EXCEPT !.seen = chain.next, !.reply = d]
<1>1. /\ kind = "chain" /\ calls[c].pc = "idle" /\ calls' = [calls EXCEPT ![c] = r]
      /\ UNCHANGED <<kind, dialect, pruner, locks>>
  BY Zenon DEF ReadChain, Invoked, storeVars
<1>2. d \in {"error", "corrupt", "claimable", "owned", "lost"} /\ chain.next \in Nat
  BY Dispositions, Zenon DEF TypeInv, TablesTyped, ChainRecord
<1>3. next \in {"receipt", "insert", "cas"} /\ (next = "receipt" => d # "claimable")
  BY Zenon
<1> HIDE DEF d, next
<1>4. Shape(r, kind)
  BY <1>1, <1>2, <1>3, Transactions, Zenon DEF Call, IdleCall, Shape, CallRecord, Places, Answers, Outcomes
<1> HIDE DEF r
<1> QED
  BY <1>1, <1>4, MoveStep, Zenon

\* chainTransitionReceipt.
LEMMA ReadReceiptStep ==
  ASSUME TypeInv, LockInv, NEW c \in Calls, ReadReceipt(c)
  PROVE  CallsTyped' /\ LocksTyped' /\ LockInv'
<1>1. /\ calls[c].pc = "receipt" /\ UNCHANGED <<kind, dialect, pruner, locks>>
      /\ \/ calls' = ReturnCorrupt(c) \/ calls' = Return(c, "error")
         \/ calls[c].reply # "corrupt" /\ calls' = Return(c, calls[c].reply)
  BY Zenon DEF ReadReceipt, storeVars
<1>2. Shape(calls[c], kind)
  BY Zenon DEF TypeInv, CallsTyped
<1>3. \E a \in Answers : calls' = Return(c, a) \/ calls' = ReturnCorrupt(c)
  BY <1>1, <1>2, Zenon DEF Shape, Answers
<1>4. \A r \in Rows : locks[r] # c
  BY <1>1, HoldsNothing, Zenon
<1> QED
  BY <1>1, <1>3, <1>4, ReturnStep, Zenon

\* The dispositions again, after a lost compare-and-swap.
LEMMA RereadChainStep ==
  ASSUME TypeInv, LockInv, NEW c \in Calls, RereadChain(c)
  PROVE  CallsTyped' /\ LocksTyped' /\ LockInv'
<1> DEFINE d == Disposition(calls[c].member, calls[c].outcome)
           reply == IF d = "claimable" THEN "corrupt" ELSE d
           r == [calls[c] EXCEPT !.pc = "receipt", !.reply = reply]
<1>1. /\ calls[c].pc = "reread" /\ UNCHANGED <<kind, dialect, pruner, locks>>
      /\ calls' = [calls EXCEPT ![c].pc = "receipt", ![c].reply = reply]
  BY Zenon DEF RereadChain, storeVars
<1>2. reply \in {"error", "corrupt", "owned", "lost"}
  BY Dispositions, Zenon
<1> HIDE DEF d, reply
<1>3. calls' = [calls EXCEPT ![c] = r]
  BY <1>1, Zenon DEF TypeInv, CallsTyped, CallRecord
<1>4. Shape(calls[c], kind) /\ calls[c] \in CallRecord
  BY Zenon DEF TypeInv, CallsTyped
<1>5. Shape(r, kind)
  BY <1>1, <1>2, <1>4, Zenon DEF Shape, CallRecord, Places, BatchPlaces, Answers
<1> HIDE DEF r
<1> QED
  BY <1>1, <1>3, <1>5, MoveStep, Zenon

\* insertChainCompletedNode.
LEMMA InsertNodeStep ==
  ASSUME TypeInv, LockInv, NEW c \in Calls, InsertNode(c)
  PROVE  CallsTyped' /\ LocksTyped' /\ LockInv'
<1> DEFINE r == [calls[c] EXCEPT !.pc = "cas"]
           n == calls[c].member
<1>1. /\ calls[c].pc = "insert" /\ CanWrite(c, n) /\ UNCHANGED <<kind, dialect, pruner>>
      /\ calls' = [calls EXCEPT ![c].pc = "cas"]
      /\ locks' = locks \/ locks' = [locks EXCEPT ![n] = c]
  BY Zenon DEF InsertNode, storeVars
<1>2. Shape(calls[c], kind) /\ calls[c] \in CallRecord
  BY Zenon DEF TypeInv, CallsTyped
<1>3. calls' = [calls EXCEPT ![c] = r] /\ n \in Members
  BY <1>1, <1>2, Zenon DEF TypeInv, CallsTyped, Shape
<1>4. Shape(r, kind) /\ r.pc = "cas"
  BY <1>1, <1>2, Zenon DEF Shape, CallRecord, Places, BatchPlaces
<1> HIDE DEF r, n
<1>5. CallsTyped' /\ calls'[c] = r /\ \A e \in Calls \ {c} : calls'[e] = calls[e]
  BY <1>1, <1>3, <1>4, CallUpdate, Zenon DEF TypeInv
<1> QED
  BY <1>1, <1>3, <1>4, <1>5, AcquireLock, Transactions, Zenon

\* The compare-and-swap of the chain row.
LEMMA SwapChainStep ==
  ASSUME TypeInv, LockInv, NEW c \in Calls, SwapChain(c)
  PROVE  CallsTyped' /\ LocksTyped' /\ LockInv'
<1>1. /\ calls[c].pc = "cas" /\ CanWrite(c, 0) /\ UNCHANGED <<kind, dialect, pruner>>
      /\ locks' = IF calls'[c].pc = "commit" THEN [locks EXCEPT ![0] = c] ELSE Released(c)
      /\ \/ calls' = [calls EXCEPT ![c].pc = "reread"]
         \/ calls' = ReturnCorrupt(c)
         \/ calls' = [calls EXCEPT ![c].pc = "commit", ![c].claimed = TRUE]
  BY Zenon DEF SwapChain, storeVars
<1>2. Shape(calls[c], kind) /\ calls[c] \in CallRecord
  BY Zenon DEF TypeInv, CallsTyped
<1>3. CASE calls' = [calls EXCEPT ![c].pc = "reread"]
  <2> DEFINE r == [calls[c] EXCEPT !.pc = "reread"]
  <2>1. calls' = [calls EXCEPT ![c] = r]
    BY <1>3, Zenon DEF TypeInv, CallsTyped
  <2>2. Shape(r, kind) /\ r.pc = "reread"
    BY <1>1, <1>2, Zenon DEF Shape, CallRecord, Places, BatchPlaces
  <2> HIDE DEF r
  <2>3. CallsTyped' /\ calls'[c] = r /\ \A e \in Calls \ {c} : calls'[e] = calls[e]
    BY <1>1, <2>1, <2>2, CallUpdate, Zenon DEF TypeInv
  <2> QED
    BY <1>1, <2>2, <2>3, ReleaseLocks, Zenon
<1>4. CASE calls' = ReturnCorrupt(c)
  <2>1. calls'[c].pc # "commit"
    BY <1>4, ReturnIs, ReturnShape, Zenon DEF TypeInv, CallsTyped, Answers
  <2> QED
    BY <1>1, <1>4, <2>1, ReturnStep, Zenon DEF Answers
<1>5. CASE calls' = [calls EXCEPT ![c].pc = "commit", ![c].claimed = TRUE]
  <2> DEFINE r == [calls[c] EXCEPT !.pc = "commit", !.claimed = TRUE]
  <2>1. calls' = [calls EXCEPT ![c] = r]
    BY <1>5, Zenon DEF TypeInv, CallsTyped
  <2>2. Shape(r, kind) /\ r.pc = "commit"
    BY <1>1, <1>2, Zenon DEF Shape, CallRecord, Places, BatchPlaces
  <2> HIDE DEF r
  <2>3. CallsTyped' /\ calls'[c] = r /\ \A e \in Calls \ {c} : calls'[e] = calls[e]
    BY <1>1, <2>1, <2>2, CallUpdate, Zenon DEF TypeInv
  <2>4. locks' = [locks EXCEPT ![0] = c]
    BY <1>1, <2>2, <2>3, Zenon
  <2> QED
    BY <1>1, <2>2, <2>3, <2>4, AcquireLock, Transactions, Zenon
<1> QED
  BY <1>1, <1>3, <1>4, <1>5, Zenon

\* The read-back after an ambiguous commit.
LEMMA ReadBackStep ==
  ASSUME TypeInv, LockInv, NEW c \in Calls, NEW db, ReadBack(c, db)
  PROVE  CallsTyped' /\ LocksTyped' /\ LockInv'
<1>1. calls[c].pc = "readback" /\ UNCHANGED <<kind, dialect, pruner, locks>>
  BY Zenon DEF ReadBack, storeVars
<1>2. \E a \in Answers : calls' = Return(c, a)
  BY Zenon DEF ReadBack, Answers
<1>3. \A r \in Rows : locks[r] # c
  BY <1>1, HoldsNothing, Zenon
<1> QED
  BY <1>1, <1>2, <1>3, ReturnStep, Zenon

\* A statement fails.
LEMMA StatementFailsStep ==
  ASSUME TypeInv, LockInv, NEW c \in Calls, StatementFails(c)
  PROVE  CallsTyped' /\ LocksTyped' /\ LockInv'
<1>1. calls' = Return(c, "error") /\ locks' = Released(c) /\ UNCHANGED <<kind, dialect, pruner>>
  BY Zenon DEF StatementFails, storeVars
<1> QED
  BY <1>1, ReturnStep, Zenon DEF Answers

-----------------------------------------------------------------------------
(* Prune.                                                                  *)

\* Prune takes a row, or needs none, and goes on.
LEMMA PruneAcquires ==
  ASSUME TypeInv, LockInv, NEW r \in Rows, CanWrite(Pruner, r),
         locks' = locks \/ locks' = [locks EXCEPT ![r] = Pruner],
         pruner' \in PrunerRecord, pruner'.pc \in {"select", "rows", "commit"},
         pruner.pc # "commit",
         r = 0 => pruner'.pc = "commit" \/ dialect = "sqlite" \/ locks' = locks,
         UNCHANGED <<kind, dialect, calls>>
  PROVE  CallsTyped' /\ LocksTyped' /\ LockInv'
<1>0. locks \in [Rows -> {Nobody, Pruner} \cup Calls] /\ Pruner \notin Calls /\ Pruner # Nobody
  BY Transactions, Zenon DEF TypeInv, LocksTyped
<1>1. CallsTyped' /\ LocksTyped'
  BY <1>0, Zenon DEF TypeInv, LocksTyped, CallsTyped
<1>2. \A s \in Rows : locks'[s] = locks[s] \/ (locks' # locks /\ s = r /\ locks'[s] = Pruner)
  BY <1>0, Zenon
<1>3. HeldByCalls'
  <2> SUFFICES ASSUME NEW s \in Rows, NEW e \in Calls, locks'[s] = e
               PROVE  calls'[e].pc \in {"parent", "cas", "commit"} /\ (s = 0 => calls'[e].pc = "commit")
    BY Zenon DEF HeldByCalls
  <2>1. locks[s] = e /\ calls'[e] = calls[e]
    BY <1>0, <1>2, Zenon
  <2> QED
    BY <2>1, Zenon DEF LockInv, HeldByCalls
<1>4. HeldByPrune'
  <2> SUFFICES ASSUME NEW s \in Rows, locks'[s] = Pruner
               PROVE  s = 0 => pruner'.pc = "commit" \/ dialect = "sqlite"
    BY Zenon DEF HeldByPrune
  <2>1. CASE locks[s] = Pruner
    BY <2>1, Zenon DEF LockInv, HeldByPrune
  <2>2. CASE locks[s] # Pruner
    BY <1>2, <2>2, Zenon
  <2> QED
    BY <2>1, <2>2, Zenon
<1>5. OneWriter'
  <2>1. CASE locks' = locks
    BY <2>1, Zenon DEF LockInv, OneWriter
  <2>2. CASE locks' = [locks EXCEPT ![r] = Pruner]
    BY <1>0, <2>2, Zenon DEF CanWrite, OneWriter
  <2> QED
    BY <2>1, <2>2, Zenon
<1> QED
  BY <1>1, <1>3, <1>4, <1>5, Zenon DEF LockInv

\* Prune ends.
LEMMA PruneReleases ==
  ASSUME TypeInv, LockInv, pruner' = [NoPrune EXCEPT !.pc = "done"], locks' = Released(Pruner),
         UNCHANGED <<kind, dialect, calls>>
  PROVE  CallsTyped' /\ LocksTyped' /\ LockInv'
<1>0. locks \in [Rows -> {Nobody, Pruner} \cup Calls] /\ Pruner \notin Calls /\ Nobody \notin Calls
      /\ Nobody # Pruner
  BY Transactions, Zenon DEF TypeInv, LocksTyped
<1>1. locks' \in [Rows -> {Nobody, Pruner} \cup Calls]
      /\ \A s \in Rows : locks'[s] \in {Nobody, locks[s]} /\ locks'[s] # Pruner
  BY <1>0, Zenon DEF Released
<1>2. pruner' \in PrunerRecord
  BY Zenon DEF NoPrune, PrunerRecord
<1>3. HeldByCalls' /\ HeldByPrune'
  BY <1>0, <1>1, Zenon DEF LockInv, HeldByCalls, HeldByPrune
<1>4. OneWriter'
  BY <1>1, Zenon DEF LockInv, OneWriter
<1> QED
  BY <1>1, <1>2, <1>3, <1>4, Zenon DEF LockInv, LocksTyped, CallsTyped, TypeInv

\* Every step of a Prune.
LEMMA PruneSteps ==
  ASSUME TypeInv, LockInv, PruneReceipts \/ PruneStep \/ PruneFails
  PROVE  CallsTyped' /\ LocksTyped' /\ LockInv'
<1>0. pruner \in PrunerRecord /\ 0 \in Rows /\ Members \subseteq Rows
  BY Transactions, Zenon DEF TypeInv, LocksTyped
<1>1. CASE PruneReceipts
  <2>1. pruner' \in PrunerRecord /\ pruner'.pc = "select"
    BY <1>1, Zenon DEF PruneReceipts, NoPrune, PrunerRecord
  <2>2. /\ CanWrite(Pruner, 0) /\ pruner.pc # "commit" /\ UNCHANGED <<kind, dialect, calls>>
        /\ locks' = locks \/ (dialect = "sqlite" /\ locks' = [locks EXCEPT ![0] = Pruner])
    BY <1>1, Zenon DEF PruneReceipts
  <2> QED
    BY <1>0, <2>1, <2>2, PruneAcquires, Zenon
<1>2. CASE PruneSelect
  <2>1. /\ pruner.pc = "select" /\ pruner' = [pruner EXCEPT !.pc = "rows", !.rows = Expired]
        /\ UNCHANGED <<kind, dialect, calls, locks>>
    BY <1>2, Zenon DEF PruneSelect, storeVars
  <2>2. Expired \in BOOLEAN
    BY Zenon DEF Expired
  <2>3. pruner' \in PrunerRecord /\ pruner'.pc = "rows"
    BY <1>0, <2>1, <2>2, Zenon DEF PrunerRecord
  <2>4. LocksTyped' /\ CallsTyped'
    BY <2>1, <2>3, Zenon DEF TypeInv, LocksTyped, CallsTyped
  <2> QED
    BY <2>1, <2>3, <2>4, Zenon DEF LockInv, HeldByCalls, HeldByPrune, OneWriter
<1>3. CASE \E m \in Members : PruneRow(m)
  <2>1. PICK m \in Members : PruneRow(m)
    BY <1>3, Zenon
  <2>2. /\ CanWrite(Pruner, m) /\ pruner.pc = "rows" /\ pruner' = pruner /\ UNCHANGED <<kind, dialect, calls>>
        /\ locks' = [locks EXCEPT ![m] = Pruner]
    BY <2>1, Zenon DEF PruneRow, storeVars
  <2> QED
    BY <1>0, <2>2, PruneAcquires, Transactions, Zenon
<1>4. CASE PruneParent
  <2>1. /\ pruner.pc = "rows" /\ pruner' = [pruner EXCEPT !.pc = "commit", !.parent = ParentExpired]
        /\ CanWrite(Pruner, 0) /\ UNCHANGED <<kind, dialect, calls>>
        /\ locks' = locks \/ locks' = [locks EXCEPT ![0] = Pruner]
    BY <1>4, Zenon DEF PruneParent, storeVars
  <2>2. ParentExpired \in BOOLEAN
    BY Zenon DEF ParentExpired, Expired
  <2>3. pruner' \in PrunerRecord /\ pruner'.pc = "commit"
    BY <1>0, <2>1, <2>2, Zenon DEF PrunerRecord
  <2> QED
    BY <1>0, <2>1, <2>3, PruneAcquires, Zenon
<1>5. CASE \E db \in {"ok", "failed", "ambiguous"} : PruneCommit(db)
  BY <1>5, PruneReleases, Zenon DEF PruneCommit
<1>6. CASE PruneFails
  BY <1>6, PruneReleases, Zenon DEF PruneFails, storeVars
<1> QED
  BY <1>1, <1>2, <1>3, <1>4, <1>5, <1>6, Zenon DEF PruneStep

-----------------------------------------------------------------------------
(* The specification.                                                      *)

\* The workflow's own rows keep their types.
LEMMA TablesStep ==
  ASSUME TypeInv, [Next]_vars
  PROVE  TablesTyped'
<1>0. TablesTyped /\ CallsTyped
  BY Zenon DEF TypeInv
<1>1. ASSUME UNCHANGED <<kind, dialect, chain, nodes>> PROVE TablesTyped'
  BY <1>0, <1>1, Zenon DEF TablesTyped
<1>2. ASSUME NEW c \in Calls, NEW db, CommitChain(c, db) PROVE TablesTyped'
  <2>1. calls[c].member \in Members
    BY <1>0, <1>2, Zenon DEF CallsTyped, Shape, CommitChain
  <2>2. Advanced(c) \in ChainRecord
    <3> DEFINE last == chain.next = N
    <3>1. last \in BOOLEAN /\ Pruning \in BOOLEAN /\ chain \in ChainRecord
      BY <1>0, Zenon DEF Pruning, TablesTyped
    <3>2. Advanced(c) = IF calls[c].outcome = "succeeded"
                        THEN [chain EXCEPT !.next = @ + 1, !.completed = last, !.touched = Pruning]
                        ELSE [chain EXCEPT !.failed = TRUE, !.touched = Pruning]
      BY Zenon DEF Advanced
    <3> HIDE DEF last
    <3>3. [chain EXCEPT !.next = @ + 1, !.completed = last, !.touched = Pruning] \in ChainRecord
      <4>1. chain.next + 1 \in Nat
        BY <3>1 DEF ChainRecord
      <4>2. ASSUME NEW n \in Nat, NEW b \in BOOLEAN, NEW t \in BOOLEAN
            PROVE  [chain EXCEPT !.next = n, !.completed = b, !.touched = t] \in ChainRecord
        BY <3>1, Zenon DEF ChainRecord
      <4> QED
        BY <3>1, <4>1, <4>2, Zenon
    <3>4. [chain EXCEPT !.failed = TRUE, !.touched = Pruning] \in ChainRecord
      BY <3>1, Zenon DEF ChainRecord
    <3> QED
      BY <3>2, <3>3, <3>4, Zenon
  <2> QED
    BY <1>0, <1>2, <2>1, <2>2, Zenon DEF CommitChain, TablesTyped
<1>3. ASSUME FailChain PROVE TablesTyped'
  <2>1. Pruning \in BOOLEAN
    BY Zenon DEF Pruning
  <2> QED
    BY <1>0, <1>3, <2>1, Zenon DEF FailChain, TablesTyped, ChainRecord
<1>4. ASSUME PruneReceipts PROVE TablesTyped'
  BY <1>0, <1>4, Zenon DEF PruneReceipts, TablesTyped, ChainRecord
<1>5. ASSUME NEW db, PruneCommit(db) PROVE TablesTyped'
  <2>1. (chain.exists /\ ~pruner.parent) \in BOOLEAN
    BY Zenon
  <2>2. chain' \in ChainRecord
    BY <1>0, <1>5, <2>1, Zenon DEF PruneCommit, TablesTyped, ChainRecord
  <2> QED
    BY <1>0, <1>5, <2>2, Zenon DEF PruneCommit, TablesTyped
<1>6. ASSUME NEW c \in Calls, CallStep(c) PROVE TablesTyped'
  <2>1. CASE \E db \in {"ok", "failed", "ambiguous"} : CommitBatch(c, db) \/ CommitChain(c, db)
    BY <1>1, <1>2, <2>1, Zenon DEF CommitBatch
  <2>2. CASE LockParent(c) \/ ReadReceipt(c) \/ RereadChain(c) \/ InsertNode(c) \/ SwapChain(c)
    BY <1>1, <2>2, Zenon DEF LockParent, ReadReceipt, RereadChain, InsertNode, SwapChain, storeVars
  <2>3. CASE \E db \in {"ok", "failed"} : ReadBack(c, db)
    BY <1>1, <2>3, Zenon DEF ReadBack, storeVars
  <2> QED
    BY <1>6, <2>1, <2>2, <2>3, Zenon DEF CallStep
<1>7. ASSUME PruneStep PROVE TablesTyped'
  BY <1>1, <1>5, <1>7, Zenon DEF PruneStep, PruneSelect, PruneRow, PruneParent, storeVars
<1>8. CASE UNCHANGED vars
  BY <1>1, <1>8, Zenon DEF vars, storeVars
<1>9. ASSUME NEW c \in Calls, StatementFails(c) PROVE TablesTyped'
  BY <1>1, <1>9, Zenon DEF StatementFails, storeVars
<1>10. ASSUME NEW c \in Calls, NEW m, NEW o, ClaimMember(c, m, o) \/ ReadChain(c, m, o) PROVE TablesTyped'
  BY <1>1, <1>10, Zenon DEF ClaimMember, ReadChain, storeVars
<1>11. ASSUME CancelBatch \/ PruneFails PROVE TablesTyped'
  BY <1>1, <1>11, Zenon DEF CancelBatch, PruneFails, storeVars
<1> QED
  BY <1>3, <1>4, <1>6, <1>7, <1>8, <1>9, <1>10, <1>11, Zenon DEF Next

\* The rows are typed at first, and nobody holds one.
LEMMA StoreInit ==
  ASSUME Init PROVE TypeInv /\ LockInv
<1>1. TablesTyped
  <2>1. PICK v \in Variants : kind = v.kind /\ dialect = v.dialect
    BY Zenon DEF Init
  <2>2. kind \in {"batch", "chain"} /\ dialect \in {"sqlite", "postgres"}
    BY <2>1, StoreAssumption, Zenon
  <2>3. (kind = "chain") \in BOOLEAN
    BY Zenon
  <2> QED
    BY <2>2, <2>3, Zenon DEF Init, TablesTyped, ChainRecord
<1>2. CallsTyped
  BY <1>1, Transactions, Zenon DEF Init, TablesTyped, CallsTyped, Shape, CallRecord, IdleCall, Places, BatchPlaces
<1>3. LocksTyped
  BY Zenon DEF Init, LocksTyped, PrunerRecord, NoPrune
<1>4. LockInv
  BY Transactions, Zenon DEF Init, LockInv, HeldByCalls, HeldByPrune, OneWriter
<1> QED
  BY <1>1, <1>2, <1>3, <1>4, Zenon DEF TypeInv

\* Every step keeps both invariants.
LEMMA StoreStep ==
  ASSUME TypeInv, LockInv, [Next]_vars
  PROVE  TypeInv' /\ LockInv'
<1> SUFFICES CallsTyped' /\ LocksTyped' /\ LockInv'
  BY TablesStep, Zenon DEF TypeInv
<1>1. ASSUME UNCHANGED <<kind, dialect, calls, pruner, locks>>
      PROVE  CallsTyped' /\ LocksTyped' /\ LockInv'
  BY <1>1, Zenon DEF TypeInv, CallsTyped, LocksTyped, LockInv, HeldByCalls, HeldByPrune, OneWriter
<1>2. CASE CancelBatch \/ FailChain \/ UNCHANGED vars
  BY <1>1, <1>2, Zenon DEF CancelBatch, FailChain, vars, storeVars
<1>3. ASSUME NEW c \in Calls, CallStep(c)
      PROVE  CallsTyped' /\ LocksTyped' /\ LockInv'
  BY <1>3, LockParentStep, CommitBatchStep, CommitChainStep, ReadReceiptStep, RereadChainStep,
     InsertNodeStep, SwapChainStep, ReadBackStep, Zenon DEF CallStep
<1> QED
  BY <1>2, <1>3, ClaimMemberStep, ReadChainStep, StatementFailsStep, PruneSteps, Zenon DEF Next

\* On SQLite and under PostgreSQL's row locks, no settlements of a workflow and no
\* Prune ever wait for each other's rows in a circle, of however many members
\* and deliveries and wherever statements fail: a
\* settlement waits for its own member before it holds anything and for the
\* parent before it holds that, and Prune deletes members before parents.
THEOREM TransactionsNeverDeadlock == Spec => []NoDeadlock
<1>1. Init => TypeInv /\ LockInv
  BY StoreInit, Zenon
<1>2. TypeInv /\ LockInv /\ [Next]_vars => TypeInv' /\ LockInv'
  BY StoreStep, Zenon
<1>3. TypeInv /\ LockInv => NoDeadlock
  BY NoCircle, Zenon
<1> QED
  BY <1>1, <1>2, <1>3, PTL DEF Spec

-----------------------------------------------------------------------------
(* The stored rows.                                                        *)

Owners == {Nobody, Stopped} \cup Calls
Receipt == [owner: {Nobody} \cup Calls, outcome: Outcomes \cup {"none"}, completed: BOOLEAN]
BatchRecord == [exists: BOOLEAN, allow: BOOLEAN, pending: Nat, processed: Nat, failed: Nat,
                cancelled: BOOLEAN, completed: BOOLEAN, touched: BOOLEAN]
HistoryRecord == [outcome: [Members -> Outcomes \cup {"pending"}], writer: [Members -> Owners],
                  ender: Owners]

RowsTyped ==
  /\ batch \in BatchRecord
  /\ members \in [Members -> {"pending", "succeeded", "failed", "gone"}]
  /\ receipts \in [Rows -> Receipt]
  /\ history \in HistoryRecord

\* Receipts name the writers of the outcomes and of the end.
ReceiptsOK ==
  /\ \A m \in Members : history.outcome[m] = "pending" => history.writer[m] = Nobody
  /\ \A m \in Members : Known(receipts[m]) => /\ history.writer[m] = receipts[m].owner
                                              /\ history.outcome[m] = receipts[m].outcome
  /\ Known(receipts[0]) => history.ender = receipts[0].owner

PendingMembers == {m \in Members : history.outcome[m] = "pending"}

\* The batch row counts the members without an outcome, and is complete once the
\* batch has ended; the receipt of the settlement that ended it and the aggregate
\* receipt are there together.
BatchOK ==
  /\ ~chain.exists
  /\ \A m \in Members : members[m] # "gone" => members[m] = history.outcome[m]
  /\ batch.pending = Cardinality(PendingMembers)
  /\ batch.completed <=> history.ender # Nobody
  /\ ~batch.completed /\ ~batch.allow => \A m \in Members : history.outcome[m] # "failed"
  /\ \A m \in Members, c \in Calls :
       history.ender = c /\ history.writer[m] = c => (receipts[m].owner = c <=> receipts[0].owner = c)

\* The chain row points behind the nodes that succeeded.
ChainOK ==
  /\ ~batch.exists
  /\ chain.next \in 1..N + 1
  /\ chain.completed <=> chain.next = N + 1
  /\ chain.failed => chain.next \in Members /\ history.outcome[chain.next] = "failed"
  /\ \A m \in Members : /\ m < chain.next => history.outcome[m] = "succeeded"
                        /\ m > chain.next \/ (m = chain.next /\ ~chain.failed) => history.outcome[m] = "pending"
  /\ ChainOpen <=> history.ender = Nobody
  /\ \A m \in Members, c \in Calls :
       history.writer[m] = c => (history.ender = c <=> history.outcome[m] = "failed" \/ m = N)

StoreInv == RowsTyped /\ ReceiptsOK /\ (kind = "batch" => BatchOK) /\ (kind = "chain" => ChainOK)

\* What settlement c knows, and keeps true by its locks.
Answering(r) == r.pc = "receipt" \/ (r.pc = "commit" /\ ~r.claimed)
BatchCall(c) ==
  LET r == calls[c] IN
  /\ r.pc \in {"parent", "commit"} /\ r.claimed => locks[r.member] = c /\ members[r.member] = "pending"
  /\ r.pc = "parent" /\ ~r.claimed => members[r.member] # "pending"
  /\ r.pc = "commit" => locks[0] = c /\ (r.seen = 0 <=> ~batch.completed)
ChainCall(c) ==
  LET r == calls[c] IN
  /\ r.pc \in {"insert", "cas", "commit"} => r.seen = r.member
  /\ r.pc = "commit" => locks[0] = c /\ ChainOpen /\ chain.next = r.seen
CallOK(c) ==
  LET r == calls[c] IN
  /\ r.pc \notin {"readback", "returned"} =>
       history.ender # c /\ \A m \in Members : history.writer[m] # c
  /\ Answering(r) /\ r.reply = "owned" => history.outcome[r.member] = r.outcome
  /\ Answering(r) /\ r.reply = "lost" => history.outcome[r.member] \notin {"pending", r.outcome}
  /\ kind = "batch" => BatchCall(c)
  /\ kind = "chain" => ChainCall(c)
CallInv == \A c \in Calls : CallOK(c)

\* A Prune is about a workflow that has ended, takes the receipts of its end
\* together and deletes only members it has locked.
PruneOK ==
  /\ pruner.pc \in {"select", "rows", "commit"} =>
       /\ history.ender # Nobody
       /\ kind = "batch" => \A m \in Members, c \in Calls :
            history.ender = c /\ history.writer[m] = c => (m \in pruner.receipts <=> 0 \in pruner.receipts)
  /\ pruner.pc = "commit" /\ pruner.rows /\ kind = "batch" =>
       \A m \in Members : members[m] # "gone" => locks[m] = Pruner

-----------------------------------------------------------------------------
(* What the statements write.                                              *)

\* The arithmetic update of the batch row.
LEMMA SettledFacts ==
  ASSUME RowsTyped, NEW c \in Calls
  PROVE  LET failing == calls[c].outcome = "failed" IN
         /\ Settled(c) \in BatchRecord
         /\ Settled(c).exists = batch.exists /\ Settled(c).allow = batch.allow
         /\ Settled(c).completed <=> batch.completed \/ batch.pending <= 1 \/ (failing /\ ~batch.allow)
         /\ Settled(c).pending = IF batch.pending > 0 THEN batch.pending - 1 ELSE 0
<1> DEFINE failing == calls[c].outcome = "failed"
           cancelled == batch.cancelled \/ (failing /\ ~batch.allow)
           completed == batch.completed \/ batch.pending <= 1 \/ (failing /\ ~batch.allow)
           pending == IF batch.pending > 0 THEN batch.pending - 1 ELSE 0
           failed == batch.failed + IF failing THEN 1 ELSE 0
<1>1. batch \in BatchRecord /\ batch.pending \in Nat /\ batch.processed \in Nat /\ batch.failed \in Nat
  BY Zenon DEF RowsTyped, BatchRecord
<1>2. pending \in Nat /\ failed \in Nat /\ batch.processed + 1 \in Nat
  BY <1>1
<1>3. cancelled \in BOOLEAN /\ completed \in BOOLEAN /\ Pruning \in BOOLEAN
  BY Zenon DEF Pruning
<1>5. Settled(c) = [batch EXCEPT !.cancelled = cancelled, !.completed = completed, !.pending = pending,
                                 !.processed = batch.processed + 1, !.failed = failed, !.touched = Pruning]
  BY Zenon DEF Settled
<1> DEFINE processed == batch.processed + 1
           b == [batch EXCEPT !.cancelled = cancelled, !.completed = completed, !.pending = pending,
                              !.processed = processed, !.failed = failed, !.touched = Pruning]
<1> HIDE DEF cancelled, completed, pending, failed, processed
<1>a. processed \in Nat /\ Settled(c) = b
  BY <1>2, <1>5, Zenon DEF processed
<1>b. b \in BatchRecord /\ b.exists = batch.exists /\ b.allow = batch.allow
      /\ b.completed = completed /\ b.pending = pending
  BY <1>1, <1>2, <1>3, <1>a, ZenonT(60) DEF BatchRecord
<1> HIDE DEF b
<1>6. /\ Settled(c) \in BatchRecord
      /\ Settled(c).exists = batch.exists /\ Settled(c).allow = batch.allow
      /\ Settled(c).completed = completed /\ Settled(c).pending = pending
  BY <1>a, <1>b, Zenon
<1> QED
  BY <1>6, Zenon DEF completed, pending

\* The history after a claimed settlement.
LEMMA RecordedFacts ==
  ASSUME RowsTyped, NEW c \in Calls, calls[c].member \in Members, calls[c].outcome \in Outcomes, NEW ends
  PROVE  LET h == Recorded(c, ends) m == calls[c].member IN
         /\ h \in HistoryRecord
         /\ h.outcome = [history.outcome EXCEPT ![m] = calls[c].outcome]
         /\ h.writer = [history.writer EXCEPT ![m] = c]
         /\ h.ender = IF ends THEN c ELSE history.ender
<1>1. history \in HistoryRecord /\ c \in Owners /\ history.ender \in Owners
  BY Zenon DEF RowsTyped, HistoryRecord, Owners
<1> DEFINE e == IF ends THEN c ELSE history.ender
<1>2. e \in Owners
  BY <1>1, Zenon
<1>3. Recorded(c, ends) = [history EXCEPT !.outcome[calls[c].member] = calls[c].outcome,
                                          !.writer[calls[c].member] = c, !.ender = e]
  BY Zenon DEF Recorded
<1> HIDE DEF e
<1>4. /\ Recorded(c, ends).outcome = [history.outcome EXCEPT ![calls[c].member] = calls[c].outcome]
      /\ Recorded(c, ends).writer = [history.writer EXCEPT ![calls[c].member] = c]
      /\ Recorded(c, ends).ender = e
  BY <1>1, <1>3, Zenon DEF HistoryRecord
<1>5. Recorded(c, ends) \in HistoryRecord
  <2> DEFINE o == [history.outcome EXCEPT ![calls[c].member] = calls[c].outcome]
             w == [history.writer EXCEPT ![calls[c].member] = c]
  <2>1. Recorded(c, ends) = [history EXCEPT !.outcome = o, !.writer = w, !.ender = e]
    BY <1>1, <1>3, Zenon DEF HistoryRecord
  <2>2. o \in [Members -> Outcomes \cup {"pending"}] /\ w \in [Members -> Owners]
    BY <1>1, Zenon DEF HistoryRecord
  <2> HIDE DEF o, w
  <2> QED
    BY <1>1, <1>2, <2>1, <2>2, Zenon DEF HistoryRecord
<1> QED
  BY <1>4, <1>5, Zenon DEF e

-----------------------------------------------------------------------------
(* Settlements that do not move.                                           *)

\* A step of another actor leaves settlement c what it relies on.
Keeps(c) ==
  /\ kind' = kind
  /\ calls'[c] = calls[c]
  /\ \A r \in Rows : locks[r] = c => locks'[r] = c
  /\ \A m \in Members : locks[m] = c => members'[m] = members[m]
  /\ \A m \in Members : members[m] # "pending" => members'[m] # "pending"
  /\ \A m \in Members : history.outcome[m] # "pending" => history'.outcome[m] = history.outcome[m]
  /\ \A m \in Members : history'.writer[m] = c => history.writer[m] = c
  /\ history'.ender = c => history.ender = c
  /\ locks[0] = c => /\ batch'.completed <=> batch.completed
                     /\ chain'.next = chain.next
                     /\ ChainOpen' <=> ChainOpen

\* What it knew stays true.
LEMMA KeptCall ==
  ASSUME TypeInv, NEW c \in Calls, CallOK(c), Keeps(c)
  PROVE  CallOK(c)'
<1> DEFINE r == calls[c]
<1>1. Shape(r, kind) /\ 0 \in Rows /\ Members \subseteq Rows
  BY Transactions, Zenon DEF TypeInv, CallsTyped
<1>2. r.pc \notin {"idle", "returned"} => r.member \in Members /\ r.outcome \in Outcomes
  BY <1>1, Zenon DEF Shape
<1>3. calls'[c] = r /\ kind' = kind
  BY Zenon DEF Keeps
<1>4. r.pc \notin {"readback", "returned"} =>
        history'.ender # c /\ \A m \in Members : history'.writer[m] # c
  BY Zenon DEF CallOK, Keeps
<1>5. Answering(r) => r.member \in Members /\ r.outcome \in Outcomes
  BY <1>2, Zenon DEF Answering
<1>6. Answering(r) /\ r.reply = "owned" => history'.outcome[r.member] = r.outcome
  BY <1>5, Zenon DEF CallOK, Keeps, Outcomes
<1>7. Answering(r) /\ r.reply = "lost" => history'.outcome[r.member] \notin {"pending", r.outcome}
  BY <1>5, Zenon DEF CallOK, Keeps
<1>8. ASSUME kind = "batch" PROVE BatchCall(c)'
  <2>1. BatchCall(c)
    BY <1>8, Zenon DEF CallOK
  <2>2. /\ r.pc \in {"parent", "commit"} /\ r.claimed => locks'[r.member] = c /\ members'[r.member] = "pending"
        /\ r.pc = "parent" /\ ~r.claimed => members'[r.member] # "pending"
        /\ r.pc = "commit" => locks'[0] = c /\ (r.seen = 0 <=> ~batch'.completed)
    BY <1>1, <1>2, <2>1, Zenon DEF BatchCall, Keeps
  <2> QED
    BY <1>3, <2>2, Zenon DEF BatchCall
<1>9. ASSUME kind = "chain" PROVE ChainCall(c)'
  <2>1. ChainCall(c)
    BY <1>9, Zenon DEF CallOK
  <2>2. /\ r.pc \in {"insert", "cas", "commit"} => r.seen = r.member
        /\ r.pc = "commit" => locks'[0] = c /\ ChainOpen' /\ chain'.next = r.seen
    BY <1>1, <2>1, Zenon DEF ChainCall, Keeps
  <2> QED
    BY <1>3, <2>2, Zenon DEF ChainCall
<1> HIDE DEF r
<1> QED
  BY <1>3, <1>4, <1>6, <1>7, <1>8, <1>9, Zenon DEF CallOK, Answering

-----------------------------------------------------------------------------
(* The refinement mapping.                                                 *)

\* A created workflow is one nobody has settled.
LEMMA InitImplements ==
  ASSUME Init PROVE Promise!Init
<1>1. TypeInv
  BY StoreInit, Zenon
<1> QED
  BY <1>1, Zenon DEF Init, Promise!Init, Promise!NoRequest, Promise!Nobody, Nobody, IdleCall, TypeInv, TablesTyped

\* The mapping reads these parts of the state only.
LEMMA Stutters ==
  ASSUME kind' = kind, batch'.allow = batch.allow, history' = history,
         \A c \in Calls : /\ calls'[c].member = calls[c].member /\ calls'[c].outcome = calls[c].outcome
                          /\ calls'[c].answer = calls[c].answer
  PROVE  UNCHANGED Promise!vars
BY Zenon DEF Promise!vars

\* The mapping of a settlement that returns.
LEMMA AnsweredImplements ==
  ASSUME TypeInv, NEW c \in Calls, NEW a \in Answers,
         calls' = Return(c, a) \/ (a = "error" /\ calls' = ReturnCorrupt(c))
  PROVE  Promise!Answered(c, a)
<1>1. PICK r : /\ calls' = [calls EXCEPT ![c] = r] /\ Shape(r, kind)
               /\ r.pc = "returned" /\ r.answer = a
  BY ReturnIs, ReturnShape, Zenon DEF TypeInv
<1>2. r.member = 0 /\ r.outcome = "none" /\ calls \in [Calls -> CallRecord]
  BY <1>1, Zenon DEF Shape, TypeInv, CallsTyped
<1>3. /\ calls'[c] = r
      /\ \A e \in Calls \ {c} : calls'[e] = calls[e]
  BY <1>1, <1>2, Zenon
<1>4. [e \in Calls |-> calls'[e].answer] = [[e \in Calls |-> calls[e].answer] EXCEPT ![c] = a]
  <2> DEFINE Ans(q) == q.answer
  <2>1. Ans(calls'[c]) = a /\ \A e \in Calls \ {c} : Ans(calls'[e]) = Ans(calls[e])
    BY <1>1, <1>3, Zenon
  <2>2. [e \in Calls |-> Ans(calls'[e])] = [[e \in Calls |-> Ans(calls[e])] EXCEPT ![c] = a]
    <3> HIDE DEF Ans
    <3> QED
      BY <2>1, Zenon
  <2> QED
    BY <2>2, Zenon
<1>5. [e \in Calls |-> [member |-> calls'[e].member, outcome |-> calls'[e].outcome]]
        = [[e \in Calls |-> [member |-> calls[e].member, outcome |-> calls[e].outcome]]
           EXCEPT ![c] = [member |-> 0, outcome |-> "none"]]
  <2> DEFINE Req(q) == [member |-> q.member, outcome |-> q.outcome]
  <2>1. Req(calls'[c]) = [member |-> 0, outcome |-> "none"]
    BY <1>2, <1>3, Zenon
  <2>2. \A e \in Calls \ {c} : Req(calls'[e]) = Req(calls[e])
    BY <1>3, Zenon
  <2>3. [e \in Calls |-> Req(calls'[e])]
          = [[e \in Calls |-> Req(calls[e])] EXCEPT ![c] = [member |-> 0, outcome |-> "none"]]
    <3> HIDE DEF Req
    <3> QED
      BY <2>1, <2>2, Zenon
  <2> QED
    BY <2>3, Zenon
<1> QED
  BY <1>4, <1>5, Zenon DEF Promise!Answered, Promise!NoRequest

\* A settlement in progress has a request and no answer.
LEMMA Requested ==
  ASSUME TypeInv, NEW c \in Calls, calls[c].pc \notin {"idle", "returned"}
  PROVE  /\ calls[c].member \in Members /\ calls[c].outcome \in Outcomes /\ calls[c].answer = "none"
         /\ [member |-> calls[c].member, outcome |-> calls[c].outcome] # Promise!NoRequest
<1>1. Shape(calls[c], kind)
  BY Zenon DEF TypeInv, CallsTyped
<1>2. calls[c].member \in Members /\ calls[c].outcome \in Outcomes /\ calls[c].answer = "none"
  BY <1>1, Zenon DEF Shape
<1>3. calls[c].member # 0
  BY <1>2, Transactions, Zenon
<1> QED
  BY <1>2, <1>3, Zenon DEF Promise!NoRequest

\* A settlement returns an error, or an answer that is true.
LEMMA ReturnImplements ==
  ASSUME TypeInv, NEW c \in Calls, NEW a \in Answers, calls[c].pc \notin {"idle", "returned"},
         calls' = Return(c, a) \/ (a = "error" /\ calls' = ReturnCorrupt(c)),
         Promise!Truthful(c, a), UNCHANGED <<kind, history>>, batch'.allow = batch.allow
  PROVE  Promise!Next
<1>1. Promise!Return(c, a)
  BY AnsweredImplements, Requested, Zenon DEF Promise!Return
<1> QED
  BY <1>1, Zenon DEF Promise!Next, Promise!Answers, Answers

\* An error is always true.
LEMMA ErrorImplements ==
  ASSUME TypeInv, NEW c \in Calls, calls[c].pc \notin {"idle", "returned"},
         calls' = Return(c, "error") \/ calls' = ReturnCorrupt(c),
         UNCHANGED <<kind, history>>, batch'.allow = batch.allow
  PROVE  Promise!Next
<1>1. Promise!Truthful(c, "error") /\ "error" \in Answers
  BY Zenon DEF Promise!Truthful, Answers
<1> QED
  BY <1>1, ReturnImplements, Zenon

-----------------------------------------------------------------------------
(* Steps that write no table.                                              *)

Inv == TypeInv /\ LockInv /\ StoreInv /\ CallInv /\ PruneOK
Implements == [Promise!Next]_(Promise!vars)

\* A settlement that has returned, or asks what its commit did, relies on nothing.
LEMMA FreeCall ==
  ASSUME NEW c \in Calls, calls'[c].pc \in {"readback", "returned"}
  PROVE  CallOK(c)'
BY Zenon DEF CallOK, BatchCall, ChainCall, Answering

\* The tables and the history stay as they are.
LEMMA SameTables ==
  ASSUME StoreInv, UNCHANGED <<storeVars, history>>
  PROVE  StoreInv'
<1>1. kind' = kind /\ batch' = batch /\ members' = members /\ chain' = chain /\ receipts' = receipts
      /\ history' = history
  BY Zenon DEF storeVars
<1>2. RowsTyped' /\ ReceiptsOK'
  BY <1>1, Zenon DEF StoreInv, RowsTyped, ReceiptsOK
<1>3. BatchOK => BatchOK'
  BY <1>1, Zenon DEF BatchOK, PendingMembers
<1>4. ChainOK => ChainOK'
  BY <1>1 DEF ChainOK, ChainOpen
<1> QED
  BY <1>1, <1>2, <1>3, <1>4, Zenon DEF StoreInv

\* One settlement moves, taking or leaving rows.
LEMMA QuietStep ==
  ASSUME Inv, NEW c \in Calls, UNCHANGED <<storeVars, pruner, history>>,
         \A e \in Calls \ {c} : calls'[e] = calls[e],
         \A r \in Rows : locks[r] \in {Nobody, c} \/ locks'[r] = locks[r],
         CallOK(c)'
  PROVE  StoreInv' /\ CallInv' /\ PruneOK'
<1>1. StoreInv'
  BY SameTables, Zenon DEF Inv
<1>2. CallInv'
  <2> SUFFICES ASSUME NEW e \in Calls, e # c PROVE CallOK(e)'
    BY Zenon DEF CallInv
  <2>1. Keeps(e)
    BY Transactions, Zenon DEF Keeps, storeVars, ChainOpen
  <2> QED
    BY <2>1, KeptCall, Zenon DEF Inv, CallInv
<1>3. PruneOK'
  BY Transactions, Zenon DEF Inv, PruneOK, storeVars
<1> QED
  BY <1>1, <1>2, <1>3, Zenon

\* One settlement returns without writing.
LEMMA QuietReturn ==
  ASSUME Inv, NEW c \in Calls, calls[c].pc \notin {"idle", "returned"}, UNCHANGED <<storeVars, pruner, history>>,
         locks' = locks \/ locks' = Released(c), NEW a \in Answers,
         calls' = Return(c, a) \/ (a = "error" /\ calls' = ReturnCorrupt(c)),
         Promise!Truthful(c, a)
  PROVE  StoreInv' /\ CallInv' /\ PruneOK' /\ Implements
<1>1. PICK r : calls' = [calls EXCEPT ![c] = r] /\ r.pc = "returned"
  BY ReturnIs, ReturnShape DEF Inv, TypeInv
<1>2. calls'[c].pc = "returned" /\ \A e \in Calls \ {c} : calls'[e] = calls[e]
  BY <1>1, Zenon DEF Inv, TypeInv, CallsTyped
<1>3. \A s \in Rows : locks[s] \in {Nobody, c} \/ locks'[s] = locks[s]
  BY Zenon DEF Released
<1>4. CallOK(c)'
  BY <1>2, FreeCall, Zenon
<1>5. Implements
  BY ReturnImplements, Zenon DEF Inv, Implements, storeVars
<1> QED
  BY <1>2, <1>3, <1>4, <1>5, QuietStep, Zenon

\* One settlement fails without writing.
LEMMA QuietError ==
  ASSUME Inv, NEW c \in Calls, calls[c].pc \notin {"idle", "returned"}, UNCHANGED <<storeVars, pruner, history>>,
         locks' = locks \/ locks' = Released(c),
         calls' = Return(c, "error") \/ calls' = ReturnCorrupt(c)
  PROVE  StoreInv' /\ CallInv' /\ PruneOK' /\ Implements
<1>1. Promise!Truthful(c, "error") /\ "error" \in Answers
  BY Zenon DEF Promise!Truthful, Answers
<1> QED
  BY <1>1, QuietReturn, Zenon

\* One settlement goes on: the atomic store has not moved.
LEMMA QuietMove ==
  ASSUME Inv, NEW c \in Calls, NEW r, calls' = [calls EXCEPT ![c] = r],
         r.member = calls[c].member, r.outcome = calls[c].outcome, r.answer = calls[c].answer,
         UNCHANGED <<storeVars, pruner, history>>,
         \A s \in Rows : locks[s] \in {Nobody, c} \/ locks'[s] = locks[s],
         CallOK(c)'
  PROVE  StoreInv' /\ CallInv' /\ PruneOK' /\ Implements
<1>1. calls'[c] = r /\ \A e \in Calls \ {c} : calls'[e] = calls[e]
  BY Zenon DEF Inv, TypeInv, CallsTyped
<1>2. UNCHANGED Promise!vars
  BY <1>1, Stutters, Zenon DEF storeVars
<1> QED
  BY <1>1, <1>2, QuietStep, Zenon DEF Implements

\* Released and taken rows were free or the transaction's own.
LEMMA TakenRows ==
  ASSUME Inv, NEW c, NEW r \in Rows, CanWrite(c, r),
         locks' = locks \/ locks' = [locks EXCEPT ![r] = c] \/ locks' = Released(c)
  PROVE  \A s \in Rows : locks[s] \in {Nobody, c} \/ locks'[s] = locks[s]
BY Zenon DEF CanWrite, Released, Inv, TypeInv, LocksTyped

\* The mapping of a settlement that begins.
LEMMA InvokeImplements ==
  ASSUME Inv, NEW c \in Calls, NEW m \in Members, NEW o \in Outcomes, NEW r,
         calls[c].pc = "idle", calls' = [calls EXCEPT ![c] = r],
         r.member = m, r.outcome = o, r.answer = "none", UNCHANGED <<storeVars, history>>
  PROVE  Implements
<1>0. Shape(calls[c], kind) /\ calls \in [Calls -> CallRecord]
  BY Zenon DEF Inv, TypeInv, CallsTyped
<1>1. calls[c].member = 0 /\ calls[c].outcome = "none" /\ calls[c].answer = "none"
  BY <1>0, Zenon DEF Shape
<1>2. calls'[c] = r /\ \A e \in Calls \ {c} : calls'[e] = calls[e]
  BY <1>0, Zenon
<1> DEFINE Req(q) == [member |-> q.member, outcome |-> q.outcome]
           Ans(q) == q.answer
<1>3. Req(calls[c]) = Promise!NoRequest /\ Req(calls'[c]) = [member |-> m, outcome |-> o]
  BY <1>1, <1>2, Zenon DEF Promise!NoRequest
<1>4. \A e \in Calls \ {c} : Req(calls'[e]) = Req(calls[e])
  BY <1>2, Zenon
<1>5. [e \in Calls |-> Req(calls'[e])]
        = [[e \in Calls |-> Req(calls[e])] EXCEPT ![c] = [member |-> m, outcome |-> o]]
  <2> HIDE DEF Req
  <2> QED
    BY <1>3, <1>4, Zenon
<1>6. [e \in Calls |-> Ans(calls'[e])] = [e \in Calls |-> Ans(calls[e])]
  <2>1. \A e \in Calls : Ans(calls'[e]) = Ans(calls[e])
    BY <1>1, <1>2, Zenon
  <2> HIDE DEF Ans
  <2> QED
    BY <2>1, Zenon
<1>7. Promise!Invoke(c, m, o)
  BY <1>1, <1>3, <1>5, <1>6, Zenon DEF Promise!Invoke, storeVars
<1> QED
  BY <1>7, Zenon DEF Implements, Promise!Next, Promise!Outcomes, Outcomes

\* markBatchTerminal claims the member: its row is locked, or already settled.
LEMMA ClaimMemberImplements ==
  ASSUME Inv, NEW c \in Calls, NEW m \in Members, NEW o \in Outcomes, ClaimMember(c, m, o)
  PROVE  StoreInv' /\ CallInv' /\ PruneOK' /\ Implements
<1> DEFINE r == [Call(m, o, "parent") EXCEPT !.claimed = Claims(m)]
<1>1. /\ kind = "batch" /\ calls[c].pc = "idle" /\ CanWrite(c, m)
      /\ calls' = [calls EXCEPT ![c] = r] /\ UNCHANGED <<storeVars, pruner, history>>
      /\ locks' = IF Claims(m) \/ dialect = "sqlite" THEN [locks EXCEPT ![m] = c] ELSE locks
  BY Zenon DEF ClaimMember, Invoked
<1>2. /\ r.pc = "parent" /\ r.member = m /\ r.outcome = o /\ r.answer = "none"
      /\ r.claimed <=> members[m] = "pending"
  BY Zenon DEF Call, IdleCall, Claims
<1> HIDE DEF r
<1>3. calls'[c] = r /\ \A e \in Calls \ {c} : calls'[e] = calls[e]
  BY <1>1, Zenon DEF Inv, TypeInv, CallsTyped
<1>4. m \in Rows /\ locks \in [Rows -> {Nobody, Pruner} \cup Calls]
  BY Transactions, Zenon DEF Inv, TypeInv, LocksTyped
<1>5. r.claimed => locks'[m] = c
  BY <1>1, <1>2, <1>4, Zenon DEF Claims
<1>6. kind' = kind /\ members' = members /\ history' = history
  BY <1>1, Zenon DEF storeVars
<1>7. BatchCall(c)'
  BY <1>2, <1>3, <1>5, <1>6, Zenon DEF BatchCall
<1>8. CallOK(c)
  BY Zenon DEF Inv, CallInv
<1>9. history'.ender # c /\ \A k \in Members : history'.writer[k] # c
  BY <1>1, <1>6, <1>8, Zenon DEF CallOK
<1>10. CallOK(c)'
  BY <1>1, <1>2, <1>3, <1>6, <1>7, <1>9, Zenon DEF CallOK, Answering
<1>11. \A s \in Rows : locks[s] \in {Nobody, c} \/ locks'[s] = locks[s]
  BY <1>1, <1>4, TakenRows, Zenon
<1>12. Implements
  BY <1>1, <1>2, InvokeImplements, Zenon
<1> QED
  BY <1>1, <1>3, <1>10, <1>11, <1>12, QuietStep, Zenon

\* getBatchTx: the answer of a duplicate is read from a settled member.
LEMMA LockParentImplements ==
  ASSUME Inv, NEW c \in Calls, LockParent(c)
  PROVE  StoreInv' /\ CallInv' /\ PruneOK' /\ Implements
<1> DEFINE missing == ~batch.exists \/ members[calls[c].member] = "gone"
           corrupt == IF calls[c].claimed THEN Conflicts(c) ELSE ~Readable
           seen == IF batch.completed THEN 1 ELSE 0
           reply == IF calls[c].claimed THEN "none" ELSE DuplicateAnswer(c)
           r == [calls[c] EXCEPT !.pc = "commit", !.seen = seen, !.reply = reply]
<1>1. calls[c].pc = "parent" /\ CanWrite(c, 0) /\ UNCHANGED <<storeVars, pruner, history>>
  BY Zenon DEF LockParent
<1>2. CASE missing \/ corrupt
  <2>1. (calls' = Return(c, "error") \/ calls' = ReturnCorrupt(c)) /\ locks' = Released(c)
    BY <1>2, Zenon DEF LockParent
  <2> QED
    BY <1>1, <2>1, QuietError, Zenon
<1>3. CASE ~missing /\ ~corrupt
  <2>1. /\ calls' = [calls EXCEPT ![c].pc = "commit", ![c].seen = seen, ![c].reply = reply]
        /\ locks' = [locks EXCEPT ![0] = c]
    BY <1>3, Zenon DEF LockParent
  <2>2. Shape(calls[c], kind) /\ calls[c] \in CallRecord /\ CallOK(c) /\ kind \in {"batch", "chain"}
    BY Zenon DEF Inv, TypeInv, CallsTyped, TablesTyped, CallInv
  <2>3. /\ kind = "batch" /\ calls[c].member \in Members /\ calls[c].outcome \in Outcomes
    BY <1>1, <2>2, Zenon DEF Shape
  <2>4. BatchCall(c) /\ BatchOK /\ history \in HistoryRecord
    BY <2>2, <2>3, Zenon DEF CallOK, Inv, StoreInv, RowsTyped
  <2>5. members[calls[c].member] = history.outcome[calls[c].member]
    BY <1>3, <2>3, <2>4, Zenon DEF BatchOK
  <2>6. seen = 0 <=> ~batch.completed
    OBVIOUS
  <2>7. ~calls[c].claimed => /\ reply = "owned" => history.outcome[calls[c].member] = calls[c].outcome
                             /\ reply = "lost" => history.outcome[calls[c].member] \notin {"pending", calls[c].outcome}
    BY <1>1, <2>4, <2>5, Zenon DEF DuplicateAnswer, BatchCall
  <2> HIDE DEF seen, reply, missing, corrupt
  <2>8. calls' = [calls EXCEPT ![c] = r]
    BY <2>1, Zenon DEF Inv, TypeInv, CallsTyped, CallRecord
  <2>9. /\ r.pc = "commit" /\ r.seen = seen /\ r.reply = reply /\ r.claimed = calls[c].claimed
        /\ r.member = calls[c].member /\ r.outcome = calls[c].outcome /\ r.answer = calls[c].answer
    BY <2>2, Zenon DEF CallRecord
  <2> HIDE DEF r
  <2>10. calls'[c] = r /\ kind' = kind /\ members' = members /\ history' = history /\ batch' = batch
    BY <1>1, <2>8, Zenon DEF storeVars, Inv, TypeInv, CallsTyped
  <2>11. locks'[0] = c /\ \A m \in Members : locks[m] = c => locks'[m] = c
    BY <2>1, Transactions, Zenon DEF Inv, TypeInv, LocksTyped
  <2>12. BatchCall(c)'
    BY <1>1, <2>3, <2>4, <2>6, <2>9, <2>10, <2>11, ZenonT(60) DEF BatchCall
  <2>13. history'.ender # c /\ \A k \in Members : history'.writer[k] # c
    BY <1>1, <2>2, <2>10, Zenon DEF CallOK
  <2>14. CallOK(c)'
    BY <2>3, <2>7, <2>9, <2>10, <2>12, <2>13, Zenon DEF CallOK, Answering
  <2>15. \A s \in Rows : locks[s] \in {Nobody, c} \/ locks'[s] = locks[s]
    BY <1>1, <2>1, TakenRows, Transactions, Zenon
  <2> QED
    BY <1>1, <2>8, <2>9, <2>14, <2>15, QuietMove, Zenon
<1> QED
  BY <1>2, <1>3, Zenon

\* The dispositions tell the truth, and a claimable node is the chain's next.
LEMMA DispositionTruth ==
  ASSUME Inv, kind = "chain", NEW n \in Members, NEW o \in Outcomes
  PROVE  LET d == Disposition(n, o) IN
         /\ d = "owned" => history.outcome[n] = o
         /\ d = "lost" => history.outcome[n] \notin {"pending", o}
         /\ d = "claimable" => chain.next = n
<1>1. ChainOK /\ n \in Nat /\ N \in Nat /\ n <= N /\ chain.next \in Nat
  BY StoreAssumption DEF Inv, StoreInv, ChainOK, Members
<1>2. CASE n < chain.next
  BY <1>1, <1>2, Zenon DEF Disposition, ChainOK, Outcomes
<1>3. CASE n > chain.next
  BY <1>1, <1>3, Zenon DEF Disposition
<1>4. CASE n = chain.next
  <2>1. ~ChainOpen => chain.failed
    BY <1>1, <1>4 DEF ChainOK, ChainOpen
  <2>2. ~ChainOpen => history.outcome[n] = "failed"
    BY <1>1, <1>4, <2>1, Zenon DEF ChainOK
  <2> QED
    BY <1>1, <1>4, <2>2, Zenon DEF Disposition, Outcomes
<1> QED
  BY <1>1, <1>2, <1>3, <1>4

\* A settlement of a chain moves: what it must know.
LEMMA ChainCallMoves ==
  ASSUME Inv, kind = "chain", NEW c \in Calls, NEW r, calls'[c] = r, UNCHANGED <<storeVars, history>>,
         calls[c].pc \notin {"readback", "returned"},
         r.pc \in {"insert", "cas"} => r.seen = r.member,
         r.pc = "receipt" /\ r.reply = "owned" => history.outcome[r.member] = r.outcome,
         r.pc = "receipt" /\ r.reply = "lost" => history.outcome[r.member] \notin {"pending", r.outcome},
         r.pc = "commit" => r.claimed /\ r.seen = r.member /\ locks'[0] = c /\ ChainOpen /\ chain.next = r.seen
  PROVE  CallOK(c)'
<1>1. kind' = kind /\ history' = history /\ chain' = chain
  BY Zenon DEF storeVars
<1>2. ChainCall(c)'
  BY <1>1, Zenon DEF ChainCall, ChainOpen
<1>3. history'.ender # c /\ \A k \in Members : history'.writer[k] # c
  BY <1>1, Zenon DEF Inv, CallInv, CallOK
<1> QED
  BY <1>1, <1>2, <1>3, Zenon DEF CallOK, Answering

\* GetChain, before any transaction.
LEMMA ReadChainImplements ==
  ASSUME Inv, NEW c \in Calls, NEW n \in Members, NEW o \in Outcomes, ReadChain(c, n, o)
  PROVE  StoreInv' /\ CallInv' /\ PruneOK' /\ Implements
<1> DEFINE d == Disposition(n, o)
           next == IF d # "claimable" THEN "receipt" ELSE IF o = "succeeded" THEN "insert" ELSE "cas"
           r == [Call(n, o, next) EXCEPT !.seen = chain.next, !.reply = d]
<1>1. /\ kind = "chain" /\ calls[c].pc = "idle" /\ calls' = [calls EXCEPT ![c] = r]
      /\ UNCHANGED <<storeVars, pruner, locks, history>>
  BY Zenon DEF ReadChain, Invoked
<1>2. /\ d = "owned" => history.outcome[n] = o
      /\ d = "lost" => history.outcome[n] \notin {"pending", o}
      /\ d = "claimable" => chain.next = n
  BY <1>1, DispositionTruth, Zenon
<1>3. next \in {"receipt", "insert", "cas"} /\ (next # "receipt" => d = "claimable")
  BY Zenon
<1> HIDE DEF d, next
<1>4. /\ r.pc = next /\ r.member = n /\ r.outcome = o /\ r.answer = "none" /\ r.seen = chain.next /\ r.reply = d
  BY Zenon DEF Call, IdleCall
<1> HIDE DEF r
<1>5. calls'[c] = r /\ \A e \in Calls \ {c} : calls'[e] = calls[e]
  BY <1>1, Zenon DEF Inv, TypeInv, CallsTyped
<1>6. CallOK(c)'
  BY <1>1, <1>2, <1>3, <1>4, <1>5, ChainCallMoves, Zenon
<1>7. Implements
  BY <1>1, <1>4, InvokeImplements, Zenon
<1> QED
  BY <1>1, <1>5, <1>6, <1>7, QuietStep, Zenon

\* An answer about a settled member is true for the atomic store, too.
LEMMA AnswerTruth ==
  ASSUME Inv, NEW c \in Calls, Answering(calls[c]), calls[c].reply \in {"owned", "lost", "error"}
  PROVE  Promise!Truthful(c, calls[c].reply) /\ calls[c].reply \in Answers
<1>1. CallOK(c) /\ Shape(calls[c], kind)
  BY Zenon DEF Inv, CallInv, TypeInv, CallsTyped
<1>2. calls[c].member \in Members /\ calls[c].pc \notin {"readback", "returned"}
  BY <1>1, Zenon DEF Shape, Answering
<1>3. history.writer[calls[c].member] # c
  BY <1>1, <1>2, Zenon DEF CallOK
<1>4. /\ calls[c].reply = "owned" => history.outcome[calls[c].member] = calls[c].outcome
      /\ calls[c].reply = "lost" => history.outcome[calls[c].member] # calls[c].outcome
  BY <1>1, Zenon DEF CallOK
<1> QED
  BY <1>3, <1>4, Zenon DEF Promise!Truthful, Answers

\* chainTransitionReceipt.
LEMMA ReadReceiptImplements ==
  ASSUME Inv, NEW c \in Calls, ReadReceipt(c)
  PROVE  StoreInv' /\ CallInv' /\ PruneOK' /\ Implements
<1>1. /\ calls[c].pc = "receipt" /\ UNCHANGED <<storeVars, pruner, locks, history>>
      /\ \/ calls' = ReturnCorrupt(c) \/ calls' = Return(c, "error")
         \/ calls[c].reply # "corrupt" /\ calls' = Return(c, calls[c].reply)
  BY Zenon DEF ReadReceipt
<1>2. Shape(calls[c], kind)
  BY Zenon DEF Inv, TypeInv, CallsTyped
<1>3. CASE calls' = ReturnCorrupt(c) \/ calls' = Return(c, "error")
  BY <1>1, <1>3, QuietError, Zenon
<1>4. CASE calls[c].reply # "corrupt" /\ calls' = Return(c, calls[c].reply)
  <2>1. Answering(calls[c]) /\ calls[c].reply \in {"owned", "lost", "error"}
    BY <1>1, <1>2, <1>4, Zenon DEF Shape, Answering
  <2>2. Promise!Truthful(c, calls[c].reply) /\ calls[c].reply \in Answers
    BY <2>1, AnswerTruth, Zenon
  <2> QED
    BY <1>1, <1>4, <2>2, QuietReturn, Zenon
<1> QED
  BY <1>1, <1>3, <1>4, Zenon

\* The dispositions again, after a lost compare-and-swap.
LEMMA RereadChainImplements ==
  ASSUME Inv, NEW c \in Calls, RereadChain(c)
  PROVE  StoreInv' /\ CallInv' /\ PruneOK' /\ Implements
<1> DEFINE d == Disposition(calls[c].member, calls[c].outcome)
           reply == IF d = "claimable" THEN "corrupt" ELSE d
           r == [calls[c] EXCEPT !.pc = "receipt", !.reply = reply]
<1>1. /\ calls[c].pc = "reread" /\ UNCHANGED <<storeVars, pruner, locks, history>>
      /\ calls' = [calls EXCEPT ![c].pc = "receipt", ![c].reply = reply]
  BY Zenon DEF RereadChain
<1>2. Shape(calls[c], kind) /\ calls[c] \in CallRecord /\ kind \in {"batch", "chain"}
  BY Zenon DEF Inv, TypeInv, CallsTyped, TablesTyped
<1>3. kind = "chain" /\ calls[c].member \in Members /\ calls[c].outcome \in Outcomes
  BY <1>1, <1>2, Zenon DEF Shape, BatchPlaces
<1>4. /\ reply = "owned" => history.outcome[calls[c].member] = calls[c].outcome
      /\ reply = "lost" => history.outcome[calls[c].member] \notin {"pending", calls[c].outcome}
  BY <1>3, DispositionTruth, Zenon
<1> HIDE DEF d, reply
<1>5. calls' = [calls EXCEPT ![c] = r]
  BY <1>1, Zenon DEF Inv, TypeInv, CallsTyped, CallRecord
<1>6. /\ r.pc = "receipt" /\ r.reply = reply /\ r.member = calls[c].member /\ r.outcome = calls[c].outcome
      /\ r.answer = calls[c].answer
  BY <1>2, Zenon DEF CallRecord
<1> HIDE DEF r
<1>7. calls'[c] = r
  BY <1>5, Zenon DEF Inv, TypeInv, CallsTyped
<1>8. CallOK(c)'
  BY <1>1, <1>3, <1>4, <1>6, <1>7, ChainCallMoves, ZenonT(60)
<1> QED
  BY <1>1, <1>5, <1>6, <1>8, QuietMove, Zenon

\* insertChainCompletedNode.
LEMMA InsertNodeImplements ==
  ASSUME Inv, NEW c \in Calls, InsertNode(c)
  PROVE  StoreInv' /\ CallInv' /\ PruneOK' /\ Implements
<1> DEFINE r == [calls[c] EXCEPT !.pc = "cas"]
           n == calls[c].member
<1>1. /\ calls[c].pc = "insert" /\ CanWrite(c, n) /\ UNCHANGED <<storeVars, pruner, history>>
      /\ calls' = [calls EXCEPT ![c].pc = "cas"]
      /\ locks' = locks \/ locks' = [locks EXCEPT ![n] = c]
  BY Zenon DEF InsertNode
<1>2. Shape(calls[c], kind) /\ calls[c] \in CallRecord /\ CallOK(c) /\ kind \in {"batch", "chain"}
  BY Zenon DEF Inv, TypeInv, CallsTyped, TablesTyped, CallInv
<1>3. kind = "chain" /\ n \in Rows
  BY <1>1, <1>2, Transactions, Zenon DEF Shape, BatchPlaces
<1>4. calls' = [calls EXCEPT ![c] = r]
  BY <1>1, Zenon DEF Inv, TypeInv, CallsTyped
<1>5. /\ r.pc = "cas" /\ r.member = n /\ r.outcome = calls[c].outcome
      /\ r.answer = calls[c].answer /\ r.seen = calls[c].seen
  BY <1>2, Zenon DEF CallRecord
<1> HIDE DEF r
<1>6. calls'[c] = r /\ calls[c].seen = n
  BY <1>1, <1>2, <1>3, <1>4, Zenon DEF Inv, TypeInv, CallsTyped, CallOK, ChainCall
<1>7. CallOK(c)'
  BY <1>1, <1>3, <1>5, <1>6, ChainCallMoves, SMTT(30)
<1>8. \A s \in Rows : locks[s] \in {Nobody, c} \/ locks'[s] = locks[s]
  BY <1>1, <1>3, TakenRows, Zenon
<1> HIDE DEF n
<1> QED
  BY <1>1, <1>4, <1>5, <1>7, <1>8, QuietMove, Zenon DEF n

\* The compare-and-swap of the chain row.
LEMMA SwapChainImplements ==
  ASSUME Inv, NEW c \in Calls, SwapChain(c)
  PROVE  StoreInv' /\ CallInv' /\ PruneOK' /\ Implements
<1>1. /\ calls[c].pc = "cas" /\ CanWrite(c, 0) /\ UNCHANGED <<storeVars, pruner, history>>
      /\ locks' = IF calls'[c].pc = "commit" THEN [locks EXCEPT ![0] = c] ELSE Released(c)
      /\ \/ calls' = [calls EXCEPT ![c].pc = "reread"]
         \/ calls' = ReturnCorrupt(c)
         \/ Swaps(c) /\ calls' = [calls EXCEPT ![c].pc = "commit", ![c].claimed = TRUE]
  BY Zenon DEF SwapChain
<1>2. Shape(calls[c], kind) /\ calls[c] \in CallRecord /\ CallOK(c) /\ kind \in {"batch", "chain"}
      /\ calls \in [Calls -> CallRecord]
  BY Zenon DEF Inv, TypeInv, CallsTyped, TablesTyped, CallInv
<1>3. kind = "chain" /\ calls[c].seen = calls[c].member
  BY <1>1, <1>2, Zenon DEF Shape, BatchPlaces, CallOK, ChainCall
<1>4. \A s \in Rows : locks[s] \in {Nobody, c} \/ locks'[s] = locks[s]
  BY <1>1, TakenRows, Transactions, Zenon
<1>5. CASE calls' = [calls EXCEPT ![c].pc = "reread"]
  <2> DEFINE r == [calls[c] EXCEPT !.pc = "reread"]
  <2>1. calls' = [calls EXCEPT ![c] = r]
    BY <1>2, <1>5, Zenon
  <2>2. /\ r.pc = "reread" /\ r.member = calls[c].member /\ r.outcome = calls[c].outcome
        /\ r.answer = calls[c].answer
    BY <1>2, Zenon DEF CallRecord
  <2> HIDE DEF r
  <2>3. calls'[c] = r
    BY <1>2, <2>1, Zenon
  <2>4. CallOK(c)'
    BY <1>1, <1>3, <2>2, <2>3, ChainCallMoves, Zenon
  <2> QED
    BY <1>1, <1>4, <2>1, <2>2, <2>4, QuietMove, Zenon
<1>6. CASE calls' = ReturnCorrupt(c)
  <2>1. calls'[c].pc # "commit"
    BY <1>2, <1>6, ReturnIs, ReturnShape, Zenon DEF Inv, TypeInv, Answers
  <2> QED
    BY <1>1, <1>6, <2>1, QuietError, Zenon
<1>7. CASE Swaps(c) /\ calls' = [calls EXCEPT ![c].pc = "commit", ![c].claimed = TRUE]
  <2> DEFINE r == [calls[c] EXCEPT !.pc = "commit", !.claimed = TRUE]
  <2>1. calls' = [calls EXCEPT ![c] = r]
    BY <1>2, <1>7, Zenon
  <2>2. /\ r.pc = "commit" /\ r.claimed /\ r.member = calls[c].member /\ r.outcome = calls[c].outcome
        /\ r.answer = calls[c].answer /\ r.seen = calls[c].seen
    BY <1>2, Zenon DEF CallRecord
  <2> HIDE DEF r
  <2>3. calls'[c] = r
    BY <1>2, <2>1, Zenon
  <2>4. locks'[0] = c
    BY <1>1, <2>2, <2>3, Transactions, Zenon DEF Inv, TypeInv, LocksTyped
  <2>5. ChainOpen /\ chain.next = r.seen
    BY <1>7, <2>2, Zenon DEF Swaps
  <2>6. CallOK(c)'
    BY <1>1, <1>3, <2>2, <2>3, <2>4, <2>5, ChainCallMoves, ZenonT(60)
  <2> QED
    BY <1>1, <1>4, <2>1, <2>2, <2>6, QuietMove, Zenon
<1> QED
  BY <1>1, <1>5, <1>6, <1>7, Zenon

\* A receipt that names the delivery proves what the lost commit did.
LEMMA ReadBackTruth ==
  ASSUME Inv, NEW c \in Calls, calls[c].pc = "readback", OwnsReceipt(c),
         NEW ends \in BOOLEAN, ends <=> IF kind = "batch" THEN receipts[0].owner = c ELSE EndsChain(c)
  PROVE  Promise!Truthful(c, IF ends THEN "ended" ELSE "claimed")
<1> DEFINE m == calls[c].member
<1>1. m \in Members /\ calls[c].outcome \in Outcomes /\ c # Nobody /\ kind \in {"batch", "chain"}
  BY Requested, Transactions, Zenon DEF Inv, TypeInv, TablesTyped
<1>2. Known(receipts[m]) /\ receipts[m].owner = c /\ receipts[m].outcome = calls[c].outcome
  BY <1>1, Zenon DEF OwnsReceipt, Known
<1>3. history.writer[m] = c /\ history.outcome[m] = calls[c].outcome
  BY <1>1, <1>2, Zenon DEF Inv, StoreInv, ReceiptsOK
<1>4. CASE kind = "batch"
  <2>1. BatchOK /\ ReceiptsOK
    BY <1>4, Zenon DEF Inv, StoreInv
  <2>2. ends => history.ender = c
    BY <1>1, <1>4, <2>1, Zenon DEF ReceiptsOK, Known
  <2>3. ~ends => history.ender # c
    BY <1>1, <1>2, <1>3, <1>4, <2>1, Zenon DEF BatchOK
  <2> QED
    BY <1>3, <2>2, <2>3, Zenon DEF Promise!Truthful
<1>5. CASE kind = "chain"
  <2>1. ends <=> history.ender = c
    BY <1>1, <1>3, <1>5 DEF EndsChain, Inv, StoreInv, ChainOK
  <2> QED
    BY <1>3, <2>1, Zenon DEF Promise!Truthful
<1> QED
  BY <1>1, <1>4, <1>5, Zenon

\* The read-back after an ambiguous commit.
LEMMA ReadBackImplements ==
  ASSUME Inv, NEW c \in Calls, NEW db, ReadBack(c, db)
  PROVE  StoreInv' /\ CallInv' /\ PruneOK' /\ Implements
<1> DEFINE ends == IF kind = "batch" THEN receipts[0].owner = c ELSE EndsChain(c)
<1>1. calls[c].pc = "readback" /\ UNCHANGED <<storeVars, pruner, locks, history>>
  BY Zenon DEF ReadBack
<1>2. \/ calls' = Return(c, "error")
      \/ OwnsReceipt(c) /\ calls' = Return(c, IF ends THEN "ended" ELSE "claimed")
  BY Zenon DEF ReadBack
<1>3. CASE calls' = Return(c, "error")
  BY <1>1, <1>3, QuietError, Zenon
<1>4. CASE OwnsReceipt(c) /\ calls' = Return(c, IF ends THEN "ended" ELSE "claimed")
  <2>1. ends \in BOOLEAN
    BY Zenon DEF EndsChain
  <2>2. Promise!Truthful(c, IF ends THEN "ended" ELSE "claimed")
    BY <1>1, <1>4, <2>1, ReadBackTruth, Zenon
  <2>3. (IF ends THEN "ended" ELSE "claimed") \in Answers
    BY Zenon DEF Answers
  <2> HIDE DEF ends
  <2> QED
    BY <1>1, <1>4, <2>2, <2>3, QuietReturn, Zenon
<1> QED
  BY <1>2, <1>3, <1>4, Zenon

\* A statement fails.
LEMMA StatementFailsImplements ==
  ASSUME Inv, NEW c \in Calls, StatementFails(c)
  PROVE  StoreInv' /\ CallInv' /\ PruneOK' /\ Implements
<1>1. /\ calls[c].pc \notin {"idle", "returned"} /\ UNCHANGED <<storeVars, pruner, history>>
      /\ calls' = Return(c, "error") /\ locks' = Released(c)
  BY Zenon DEF StatementFails
<1> QED
  BY <1>1, QuietError, Zenon

\* Deleting rows changes nothing that was recorded.
LEMMA PrunedTables ==
  ASSUME Inv, UNCHANGED <<kind, history>>,
         batch' \in BatchRecord, batch'.exists => batch.exists, batch'.allow = batch.allow,
         batch'.pending = batch.pending, batch'.completed = batch.completed,
         chain'.exists => chain.exists, chain'.next = chain.next,
         chain'.completed = chain.completed, chain'.failed = chain.failed,
         members' \in [Members -> {"pending", "succeeded", "failed", "gone"}],
         \A m \in Members : members'[m] \in {members[m], "gone"},
         receipts' \in [Rows -> Receipt],
         \A r \in Rows : receipts'[r] \in {receipts[r], NoReceipt},
         kind = "batch" => \A m \in Members, c \in Calls :
           history.ender = c /\ history.writer[m] = c => (receipts'[m].owner = c <=> receipts'[0].owner = c)
  PROVE  StoreInv'
<1>0. Members \subseteq Rows /\ 0 \in Rows
  BY Transactions, Zenon
<1>1. RowsTyped'
  BY Zenon DEF Inv, StoreInv, RowsTyped
<1>2. ReceiptsOK'
  <2>1. \A r \in Rows : Known(receipts'[r]) => receipts'[r] = receipts[r]
    BY DEF Known, NoReceipt
  <2> QED
    BY <1>0, <2>1 DEF Inv, StoreInv, ReceiptsOK, Known
<1>3. ASSUME kind = "batch" PROVE BatchOK'
  BY <1>3 DEF Inv, StoreInv, BatchOK, PendingMembers
<1>4. ASSUME kind = "chain" PROVE ChainOK'
  BY <1>4 DEF Inv, StoreInv, ChainOK, ChainOpen
<1> QED
  BY <1>1, <1>2, <1>3, <1>4, Zenon DEF StoreInv

-----------------------------------------------------------------------------
(* The steps that others can see: Prune, CancelBatch, FailChain and the    *)
(* commits of settlements.                                                 *)

\* A recorded outcome leaves one pending member less.
CountsPending ==
  \A m \in Members : history.outcome[m] = "pending" =>
    /\ Cardinality(PendingMembers) \in Nat \ {0}
    /\ Cardinality(PendingMembers \ {m}) = Cardinality(PendingMembers) - 1
    /\ Cardinality(PendingMembers) = 1 <=> PendingMembers = {m}

-----------------------------------------------------------------------------
(* Prune.                                                                  *)

\* A Prune moves without deleting anything yet.
LEMMA PruneQuiet ==
  ASSUME Inv, UNCHANGED <<storeVars, calls, history>>,
         \A r \in Rows : locks[r] \in {Nobody, Pruner} \/ locks'[r] = locks[r]
  PROVE  StoreInv' /\ CallInv' /\ Implements
<1>1. StoreInv'
  BY SameTables, Zenon DEF Inv
<1>2. CallInv'
  <2> SUFFICES ASSUME NEW c \in Calls PROVE CallOK(c)'
    BY Zenon DEF CallInv
  <2>1. Keeps(c)
    BY Transactions, Zenon DEF Keeps, storeVars, ChainOpen
  <2> QED
    BY <2>1, KeptCall, Zenon DEF Inv, CallInv
<1>3. Implements
  BY Stutters, Zenon DEF Implements, storeVars
<1> QED
  BY <1>1, <1>2, <1>3, Zenon

\* The receipts of a workflow that has ended.
LEMMA PruneReceiptsImplements ==
  ASSUME Inv, PruneReceipts
  PROVE  StoreInv' /\ CallInv' /\ PruneOK' /\ Implements
<1>0. /\ batch \in BatchRecord /\ chain \in ChainRecord /\ kind \in {"batch", "chain"} /\ ReceiptsOK
      /\ (kind = "batch" => BatchOK) /\ (kind = "chain" => ChainOK)
      /\ members \in [Members -> {"pending", "succeeded", "failed", "gone"}] /\ receipts \in [Rows -> Receipt]
  BY Zenon DEF Inv, StoreInv, RowsTyped, TypeInv, TablesTyped
<1>1. /\ Terminal /\ CanWrite(Pruner, 0)
      /\ batch' = [batch EXCEPT !.touched = FALSE] /\ chain' = [chain EXCEPT !.touched = FALSE]
      /\ locks' = locks \/ locks' = [locks EXCEPT ![0] = Pruner]
      /\ UNCHANGED <<kind, members, receipts, calls, history>>
  BY Zenon DEF PruneReceipts
<1>2. /\ batch' \in BatchRecord /\ batch'.exists = batch.exists /\ batch'.allow = batch.allow
      /\ batch'.pending = batch.pending /\ batch'.completed = batch.completed
  BY <1>0, <1>1, Zenon DEF BatchRecord
<1>3. /\ chain'.exists = chain.exists /\ chain'.next = chain.next
      /\ chain'.completed = chain.completed /\ chain'.failed = chain.failed
  BY <1>0, <1>1, Zenon DEF ChainRecord
<1>4. StoreInv'
  <2>1. kind = "batch" => \A m \in Members, c \in Calls :
          history.ender = c /\ history.writer[m] = c => (receipts'[m].owner = c <=> receipts'[0].owner = c)
    BY <1>0, <1>1, Zenon DEF BatchOK
  <2> QED
    BY <1>0, <1>1, <1>2, <1>3, <2>1, PrunedTables, Zenon
<1>5. \A r \in Rows : locks[r] \in {Nobody, Pruner} \/ locks'[r] = locks[r]
  BY <1>1, TakenRows, Transactions, Zenon
<1>6. CallInv'
  <2> SUFFICES ASSUME NEW c \in Calls PROVE CallOK(c)'
    BY Zenon DEF CallInv
  <2>1. Keeps(c)
    BY <1>1, <1>2, <1>3, <1>5, Transactions, Zenon DEF Keeps, ChainOpen
  <2> QED
    BY <2>1, KeptCall, Zenon DEF Inv, CallInv
<1>7. PruneOK'
  <2>1. history.ender # Nobody
    BY <1>0, <1>1, Zenon DEF Terminal, BatchOK, ChainOK
  <2>2. pruner'.pc = "select" /\ pruner'.receipts = {r \in Rows : Known(receipts[r])}
    BY Zenon DEF PruneReceipts, NoPrune
  <2>3. ASSUME kind = "batch", NEW m \in Members, NEW c \in Calls, history.ender = c, history.writer[m] = c
        PROVE  Known(receipts[m]) <=> Known(receipts[0])
    <3>1. Known(receipts[m]) <=> receipts[m].owner = c
      BY <1>0, <2>3, Transactions, Zenon DEF ReceiptsOK, Known
    <3>2. Known(receipts[0]) <=> receipts[0].owner = c
      BY <1>0, <2>3, Transactions, Zenon DEF ReceiptsOK, Known
    <3> QED
      BY <1>0, <2>3, <3>1, <3>2, Zenon DEF BatchOK
  <2>4. ASSUME kind = "batch", NEW m \in Members, NEW c \in Calls, history.ender = c, history.writer[m] = c
        PROVE  m \in pruner'.receipts <=> 0 \in pruner'.receipts
    BY <2>2, <2>3, <2>4, Transactions, Zenon
  <2> QED
    BY <1>1, <2>1, <2>2, <2>4, Zenon DEF PruneOK
<1>8. Implements
  BY <1>1, <1>2, Stutters, Zenon DEF Implements
<1> QED
  BY <1>4, <1>6, <1>7, <1>8, Zenon

\* The steps of a Prune between its first statement and its commit.
LEMMA PruneStatementsImplement ==
  ASSUME Inv, PruneSelect \/ (\E m \in Members : PruneRow(m)) \/ PruneParent \/ PruneFails
  PROVE  StoreInv' /\ CallInv' /\ PruneOK' /\ Implements
<1>0. pruner \in PrunerRecord /\ locks \in [Rows -> {Nobody, Pruner} \cup Calls]
  BY Zenon DEF Inv, TypeInv, LocksTyped
<1>1. CASE PruneSelect
  <2>1. UNCHANGED <<storeVars, calls, history, locks>> /\ pruner.pc = "select"
    BY <1>1, Zenon DEF PruneSelect
  <2>2. pruner'.pc = "rows" /\ pruner'.receipts = pruner.receipts
    BY <1>0, <1>1, Zenon DEF PruneSelect, PrunerRecord
  <2>3. PruneOK'
    BY <2>1, <2>2, Zenon DEF Inv, PruneOK, storeVars
  <2> QED
    BY <2>1, <2>3, PruneQuiet, Zenon
<1>2. CASE \E m \in Members : PruneRow(m)
  <2>1. PICK m \in Members : PruneRow(m)
    BY <1>2, Zenon
  <2>2. UNCHANGED <<storeVars, calls, history, pruner>> /\ pruner.pc = "rows" /\ CanWrite(Pruner, m)
        /\ locks' = [locks EXCEPT ![m] = Pruner]
    BY <2>1, Zenon DEF PruneRow
  <2>3. PruneOK'
    BY <2>2, Zenon DEF Inv, PruneOK, storeVars
  <2>4. \A r \in Rows : locks[r] \in {Nobody, Pruner} \/ locks'[r] = locks[r]
    BY <2>2, TakenRows, Transactions, ZenonT(60)
  <2> QED
    BY <2>2, <2>3, <2>4, PruneQuiet, Zenon
<1>3. CASE PruneParent
  <2>1. UNCHANGED <<storeVars, calls, history>> /\ pruner.pc = "rows" /\ CanWrite(Pruner, 0)
        /\ (locks' = locks \/ locks' = [locks EXCEPT ![0] = Pruner])
        /\ (pruner.rows => \A m \in DependentRows : locks[m] = Pruner)
    BY <1>3, Zenon DEF PruneParent
  <2>2. pruner'.pc = "commit" /\ pruner'.receipts = pruner.receipts /\ pruner'.rows = pruner.rows
    BY <1>0, <1>3, Zenon DEF PruneParent, PrunerRecord
  <2>3. \A r \in Rows : locks[r] \in {Nobody, Pruner} \/ locks'[r] = locks[r]
    BY <2>1, TakenRows, Transactions, Zenon
  <2>4. ASSUME pruner.rows, kind = "batch", NEW m \in Members, members[m] # "gone" PROVE locks'[m] = Pruner
    <3>1. locks[m] = Pruner
      BY <2>1, <2>4, Zenon DEF DependentRows
    <3> QED
      BY <1>0, <2>1, <3>1, Transactions, Zenon
  <2>5. kind' = kind /\ members' = members /\ history' = history
    BY <2>1, Zenon DEF storeVars
  <2>6. PruneOK'
    BY <2>1, <2>2, <2>4, <2>5, Zenon DEF Inv, PruneOK
  <2> QED
    BY <2>1, <2>3, <2>6, PruneQuiet, Zenon
<1>4. CASE PruneFails
  <2>1. UNCHANGED <<storeVars, calls, history>> /\ locks' = Released(Pruner) /\ pruner'.pc = "done"
    BY <1>4, Zenon DEF PruneFails, NoPrune
  <2>2. PruneOK'
    BY <2>1, Zenon DEF PruneOK
  <2>3. \A r \in Rows : locks[r] \in {Nobody, Pruner} \/ locks'[r] = locks[r]
    BY <2>1, Zenon DEF Released
  <2> QED
    BY <2>1, <2>2, <2>3, PruneQuiet, Zenon
<1> QED
  BY <1>1, <1>2, <1>3, <1>4, Zenon

\* The commit of a Prune: no settlement had locked what it deletes.
LEMMA PruneCommitImplements ==
  ASSUME Inv, NEW db, PruneCommit(db)
  PROVE  StoreInv' /\ CallInv' /\ PruneOK' /\ Implements
<1>0. /\ batch \in BatchRecord /\ chain \in ChainRecord /\ (kind = "batch" => BatchOK)
      /\ members \in [Members -> {"pending", "succeeded", "failed", "gone"}] /\ receipts \in [Rows -> Receipt]
      /\ pruner \in PrunerRecord /\ PruneOK
  BY Zenon DEF Inv, StoreInv, RowsTyped, TypeInv, TablesTyped, LocksTyped
<1>1. /\ pruner.pc = "commit" /\ pruner'.pc = "done" /\ locks' = Released(Pruner)
      /\ UNCHANGED <<kind, calls, history>>
  BY Zenon DEF PruneCommit, NoPrune
<1>2. /\ batch' \in BatchRecord /\ (batch'.exists => batch.exists) /\ batch'.allow = batch.allow
      /\ batch'.pending = batch.pending /\ batch'.completed = batch.completed
  <2> DEFINE x == batch.exists /\ ~pruner.parent
  <2>1. batch' = batch \/ batch' = [batch EXCEPT !.exists = x]
    BY Zenon DEF PruneCommit
  <2>2. x \in BOOLEAN /\ (x => batch.exists)
    BY Zenon
  <2> HIDE DEF x
  <2> QED
    BY <1>0, <2>1, <2>2, Zenon DEF BatchRecord
<1>3. /\ chain'.exists => chain.exists
      /\ chain'.next = chain.next /\ chain'.completed = chain.completed /\ chain'.failed = chain.failed
  <2> DEFINE x == chain.exists /\ ~pruner.parent
  <2>1. chain' = chain \/ chain' = [chain EXCEPT !.exists = x]
    BY Zenon DEF PruneCommit
  <2>2. x \in BOOLEAN /\ (x => chain.exists)
    BY Zenon
  <2> HIDE DEF x
  <2> QED
    BY <1>0, <2>1, <2>2, Zenon DEF ChainRecord
<1>4. /\ members' \in [Members -> {"pending", "succeeded", "failed", "gone"}]
      /\ \A m \in Members : members'[m] \in {members[m], "gone"}
      /\ \A m \in Members : members'[m] # members[m] => pruner.rows /\ kind = "batch"
  <2>1. members' = members \/ (pruner.rows /\ kind = "batch" /\ members' = [m \in Members |-> "gone"])
    BY Zenon DEF PruneCommit
  <2> QED
    BY <1>0, <2>1, Zenon
<1>5. /\ receipts' \in [Rows -> Receipt]
      /\ \/ receipts' = receipts
         \/ \A r \in Rows : receipts'[r] = IF r \in pruner.receipts THEN NoReceipt ELSE receipts[r]
  <2>1. NoReceipt \in Receipt
    BY Zenon DEF NoReceipt, Receipt
  <2>2. receipts' = receipts \/ receipts' = [r \in Rows |-> IF r \in pruner.receipts THEN NoReceipt ELSE receipts[r]]
    BY Zenon DEF PruneCommit
  <2> QED
    BY <1>0, <2>1, <2>2, Zenon
<1>6. ASSUME kind = "batch", NEW m \in Members, NEW c \in Calls, history.ender = c, history.writer[m] = c
      PROVE  receipts'[m].owner = c <=> receipts'[0].owner = c
  <2>1. receipts[m].owner = c <=> receipts[0].owner = c
    BY <1>0, <1>6, Zenon DEF BatchOK
  <2>2. m \in pruner.receipts <=> 0 \in pruner.receipts
    BY <1>0, <1>1, <1>6, Zenon DEF PruneOK
  <2>3. m \in Rows /\ 0 \in Rows
    BY Transactions, Zenon
  <2>4. CASE receipts' = receipts
    BY <2>1, <2>4, Zenon
  <2>5. CASE \A r \in Rows : receipts'[r] = IF r \in pruner.receipts THEN NoReceipt ELSE receipts[r]
    BY <2>1, <2>2, <2>3, <2>5, Zenon
  <2> QED
    BY <1>5, <2>4, <2>5, Zenon
<1>7. StoreInv'
  BY <1>1, <1>2, <1>3, <1>4, <1>5, <1>6, PrunedTables, ZenonT(60)
<1>8. CallInv'
  <2> SUFFICES ASSUME NEW c \in Calls PROVE CallOK(c)'
    BY Zenon DEF CallInv
  <2>0. c # Pruner
    BY Transactions, Zenon
  <2>1. \A r \in Rows : locks[r] = c => locks'[r] = c
    BY <1>1, <2>0, Zenon DEF Released
  <2>2. \A m \in Members : locks[m] = c => members'[m] = members[m]
    <3> SUFFICES ASSUME NEW m \in Members, locks[m] = c, members'[m] # members[m] PROVE FALSE
      BY Zenon
    <3>1. members[m] # "gone"
      BY <1>4, Zenon
    <3> QED
      BY <1>0, <1>1, <1>4, <2>0, <3>1, ZenonT(60) DEF PruneOK
  <2>3. \A m \in Members : members[m] # "pending" => members'[m] # "pending"
    BY <1>4, Zenon
  <2>4. Keeps(c)
    BY <1>1, <1>2, <1>3, <2>1, <2>2, <2>3, Zenon DEF Keeps, ChainOpen
  <2> QED
    BY <2>4, KeptCall, Zenon DEF Inv, CallInv
<1>9. PruneOK'
  BY <1>1, Zenon DEF PruneOK
<1>10. Implements
  BY <1>1, <1>2, Stutters, Zenon DEF Implements
<1> QED
  BY <1>7, <1>8, <1>9, <1>10, Zenon

-----------------------------------------------------------------------------
(* Steps that stop a workflow.                                             *)

\* CancelBatch ends a batch that nobody has ended.
LEMMA CancelBatchImplements ==
  ASSUME Inv, CancelBatch
  PROVE  StoreInv' /\ CallInv' /\ PruneOK' /\ Implements
<1>0. /\ batch \in BatchRecord /\ kind \in {"batch", "chain"} /\ ReceiptsOK /\ RowsTyped /\ history \in HistoryRecord
      /\ (kind = "chain" => ChainOK) /\ (kind = "batch" => BatchOK)
  BY Zenon DEF Inv, StoreInv, RowsTyped, TypeInv, TablesTyped
<1>1. /\ batch.exists /\ CanWrite(Nobody, 0)
      /\ batch' = [batch EXCEPT !.cancelled = TRUE, !.completed = TRUE, !.touched = Pruning]
      /\ history' = [history EXCEPT !.ender = IF batch.completed THEN @ ELSE Stopped]
      /\ UNCHANGED <<kind, members, chain, receipts, calls, pruner, locks>>
  BY Zenon DEF CancelBatch
<1>2. kind = "batch" /\ BatchOK
  BY <1>0, <1>1, Zenon DEF ChainOK
<1>3. /\ batch' \in BatchRecord /\ batch'.exists = batch.exists /\ batch'.allow = batch.allow
      /\ batch'.pending = batch.pending /\ batch'.completed
  <2>1. Pruning \in BOOLEAN
    BY Zenon DEF Pruning
  <2>2. /\ batch' \in BatchRecord /\ batch'.exists = batch.exists /\ batch'.allow = batch.allow
        /\ batch'.pending = batch.pending
    <3> DEFINE b == [[batch EXCEPT !.cancelled = TRUE] EXCEPT !.completed = TRUE]
    <3>1. ASSUME NEW d \in BatchRecord, NEW x \in BOOLEAN
          PROVE  /\ [d EXCEPT !.cancelled = x] \in BatchRecord
                 /\ [d EXCEPT !.completed = x] \in BatchRecord
                 /\ [d EXCEPT !.touched = x] \in BatchRecord
      BY <3>1, Zenon DEF BatchRecord
    <3>2. b \in BatchRecord /\ batch' = [b EXCEPT !.touched = Pruning]
      BY <1>0, <1>1, <3>1, Zenon
    <3>3. b.exists = batch.exists /\ b.allow = batch.allow /\ b.pending = batch.pending
      BY <1>0, Zenon DEF BatchRecord
    <3> HIDE DEF b
    <3>4. batch' \in BatchRecord
      BY <2>1, <3>1, <3>2, Zenon
    <3> QED
      BY <3>2, <3>3, <3>4, Zenon DEF BatchRecord
  <2>3. batch'.completed = TRUE
    BY <1>0, <1>1, Zenon DEF BatchRecord
  <2> QED
    BY <2>2, <2>3, Zenon
<1>4. /\ history' \in HistoryRecord /\ history'.outcome = history.outcome /\ history'.writer = history.writer
      /\ history'.ender = IF batch.completed THEN history.ender ELSE Stopped
  BY <1>0, <1>1, Zenon DEF HistoryRecord, Owners
<1>5. Stopped \notin Calls /\ Stopped # Nobody /\ Nobody \notin Calls
  BY Transactions DEF Stopped, Nobody
<1>6. history.ender # Nobody => history'.ender = history.ender
  BY <1>2, <1>4, Zenon DEF BatchOK
<1>7. StoreInv'
  <2>1. RowsTyped'
    BY <1>0, <1>1, <1>3, <1>4, Zenon DEF RowsTyped
  <2>2. ReceiptsOK'
    BY <1>0, <1>1, <1>4, <1>6 DEF ReceiptsOK, Known
  <2>3. BatchOK'
    <3>1. history'.ender # Nobody
      BY <1>2, <1>4, <1>5, Zenon DEF BatchOK
    <3>2. \A c \in Calls : history'.ender = c => history.ender = c
      BY <1>4, <1>5, Zenon
    <3>3. PendingMembers' = PendingMembers
      BY <1>4, Zenon DEF PendingMembers
    <3> QED
      BY <1>1, <1>2, <1>3, <1>4, <3>1, <3>2, <3>3, SMTT(30) DEF BatchOK
  <2> QED
    BY <1>1, <1>2, <2>1, <2>2, <2>3, Zenon DEF StoreInv
<1>8. CallInv'
  <2> SUFFICES ASSUME NEW c \in Calls PROVE CallOK(c)'
    BY Zenon DEF CallInv
  <2>1. locks[0] # c
    BY <1>1, <1>5, Zenon DEF CanWrite
  <2>2. Keeps(c)
    BY <1>1, <1>4, <1>5, <2>1, Zenon DEF Keeps
  <2> QED
    BY <2>2, KeptCall, Zenon DEF Inv, CallInv
<1>9. PruneOK'
  <2>1. \A c \in Calls : history'.ender = c => history.ender = c
    BY <1>4, <1>5, Zenon
  <2>2. history.ender # Nobody => history'.ender # Nobody
    BY <1>6, Zenon
  <2> QED
    BY <1>1, <1>4, <2>1, <2>2, Zenon DEF Inv, PruneOK
<1>10. Implements
  <2>1. CASE batch.completed
    <3>1. history' = history
      BY <1>0, <1>1, <2>1, Zenon DEF HistoryRecord
    <3> QED
      BY <1>1, <1>3, <3>1, Stutters, Zenon DEF Implements
  <2>2. CASE ~batch.completed
    <3>1. history.ender = Nobody /\ history'.ender = Stopped
      BY <1>2, <1>4, <2>2, Zenon DEF BatchOK
    <3>2. Promise!Stop
      BY <1>1, <1>2, <1>3, <1>4, <3>1, Zenon DEF Promise!Stop, Promise!Nobody, Promise!Stopped, Nobody, Stopped
    <3> QED
      BY <3>2, Zenon DEF Implements, Promise!Next
  <2> QED
    BY <2>1, <2>2, Zenon
<1> QED
  BY <1>7, <1>8, <1>9, <1>10, Zenon

\* FailChain fails the node an open chain has reached.
LEMMA FailChainImplements ==
  ASSUME Inv, FailChain
  PROVE  StoreInv' /\ CallInv' /\ PruneOK' /\ Implements
<1> DEFINE n == chain.next
<1>0. /\ chain \in ChainRecord /\ kind \in {"batch", "chain"} /\ ReceiptsOK /\ RowsTyped /\ history \in HistoryRecord
      /\ (kind = "chain" => ChainOK) /\ (kind = "batch" => BatchOK)
  BY Zenon DEF Inv, StoreInv, RowsTyped, TypeInv, TablesTyped
<1>1. /\ chain.exists /\ ChainOpen /\ CanWrite(Nobody, 0)
      /\ chain' = [chain EXCEPT !.failed = TRUE, !.touched = Pruning]
      /\ history' = [history EXCEPT !.ender = Stopped, !.outcome[n] = "failed", !.writer[n] = Stopped]
      /\ UNCHANGED <<kind, batch, members, receipts, calls, pruner, locks>>
  BY Zenon DEF FailChain
<1>2. kind = "chain" /\ ChainOK
  BY <1>0, <1>1, Zenon DEF BatchOK
<1>3. /\ n \in Members /\ history.outcome[n] = "pending" /\ history.ender = Nobody /\ history.writer[n] = Nobody
      /\ \A m \in Members : m < n => history.outcome[m] = "succeeded"
  <2>1. n \in Members /\ ~chain.failed
    BY <1>1, <1>2, StoreAssumption DEF ChainOK, ChainOpen, Members
  <2>2. history.outcome[n] = "pending" /\ history.ender = Nobody
    BY <1>1, <1>2, <2>1, Zenon DEF ChainOK
  <2> QED
    BY <1>0, <1>2, <2>1, <2>2, Zenon DEF ChainOK, ReceiptsOK
<1>4. /\ history'.outcome = [history.outcome EXCEPT ![n] = "failed"]
      /\ history'.writer = [history.writer EXCEPT ![n] = Stopped]
      /\ history'.ender = Stopped
  BY <1>0, <1>1, Zenon DEF HistoryRecord
<1>5. history' \in HistoryRecord
  <2> DEFINE o == [history.outcome EXCEPT ![n] = "failed"]
             w == [history.writer EXCEPT ![n] = Stopped]
  <2>1. history' = [history EXCEPT !.ender = Stopped, !.outcome = o, !.writer = w]
    BY <1>0, <1>1, Zenon DEF HistoryRecord
  <2>2. o \in [Members -> Outcomes \cup {"pending"}] /\ w \in [Members -> Owners] /\ Stopped \in Owners
    BY <1>0, Zenon DEF HistoryRecord, Owners, Outcomes
  <2> HIDE DEF o, w
  <2> QED
    BY <1>0, <2>1, <2>2, Zenon DEF HistoryRecord
<1>6. /\ history'.outcome[n] = "failed" /\ history'.writer[n] = Stopped
      /\ \A m \in Members \ {n} : /\ history'.outcome[m] = history.outcome[m]
                                  /\ history'.writer[m] = history.writer[m]
  BY <1>0, <1>3, <1>4, ZenonT(60) DEF HistoryRecord
<1>7. chain'.failed /\ chain'.next = n /\ chain'.completed = chain.completed /\ ~ChainOpen'
  <2>1. chain'.failed = TRUE /\ chain'.next = n /\ chain'.completed = chain.completed
    BY <1>0, <1>1, Zenon DEF ChainRecord
  <2> QED
    BY <2>1, Zenon DEF ChainOpen
<1>8. Stopped \notin Calls /\ Stopped # Nobody /\ Nobody \notin Calls
  BY Transactions DEF Stopped, Nobody
<1> HIDE DEF n
<1>9. StoreInv'
  <2>1. RowsTyped'
    BY <1>0, <1>1, <1>5, Zenon DEF RowsTyped
  <2>2. ReceiptsOK'
    <3>1. ~Known(receipts[n]) /\ ~Known(receipts[0])
      BY <1>0, <1>3, Zenon DEF ReceiptsOK, Known
    <3>2. \A m \in Members : Known(receipts[m]) => m # n
      BY <3>1, Zenon
    <3> QED
      BY <1>0, <1>1, <1>6, <3>1, <3>2, ZenonT(60) DEF ReceiptsOK
  <2>3. ChainOK'
    <3>1. \A m \in Members : /\ m < n => history'.outcome[m] = "succeeded"
                             /\ m > n => history'.outcome[m] = "pending"
      <4>1. ASSUME NEW m \in Members, m # n
            PROVE  /\ m < n => history'.outcome[m] = "succeeded"
                   /\ m > n => history'.outcome[m] = "pending"
        BY <1>2, <1>6, <4>1, Zenon DEF ChainOK, n
      <4>2. ~(n < n) /\ ~(n > n)
        BY <1>3, Zenon DEF Members
      <4> QED
        BY <4>1, <4>2, Zenon
    <3>2. ASSUME NEW m \in Members, NEW c \in Calls, history'.writer[m] = c
          PROVE  history'.ender = c <=> history'.outcome[m] = "failed" \/ m = N
      <4>1. m # n
        BY <1>6, <1>8, <3>2, Zenon
      <4>2. history.writer[m] = c /\ history'.outcome[m] = history.outcome[m]
        BY <1>6, <3>2, <4>1, Zenon
      <4>3. ~(history.outcome[m] = "failed" \/ m = N)
        BY <1>2, <1>3, <1>8, <4>2 DEF ChainOK
      <4> QED
        BY <1>4, <1>8, <4>2, <4>3, Zenon
    <3>3. chain'.next \in 1..N + 1 /\ (chain'.completed <=> chain'.next = N + 1)
      BY <1>2, <1>7, Zenon DEF ChainOK, n
    <3> QED
      BY <1>1, <1>2, <1>3, <1>4, <1>6, <1>7, <1>8, <3>1, <3>2, <3>3, Zenon DEF ChainOK
  <2> QED
    BY <1>1, <1>2, <2>1, <2>2, <2>3, Zenon DEF StoreInv
<1>10. CallInv'
  <2> SUFFICES ASSUME NEW c \in Calls PROVE CallOK(c)'
    BY Zenon DEF CallInv
  <2>1. locks[0] # c
    BY <1>1, <1>8, Zenon DEF CanWrite
  <2>2. /\ \A m \in Members : history.outcome[m] # "pending" => history'.outcome[m] = history.outcome[m]
        /\ \A m \in Members : history'.writer[m] = c => history.writer[m] = c
        /\ history'.ender # c
    BY <1>3, <1>4, <1>6, <1>8
  <2>3. Keeps(c)
    BY <1>1, <2>1, <2>2, Zenon DEF Keeps
  <2> QED
    BY <2>3, KeptCall, Zenon DEF Inv, CallInv
<1>11. PruneOK'
  BY <1>1, <1>2, <1>4, <1>8, Zenon DEF Inv, PruneOK
<1>12. Implements
  <2>1. Promise!Writable(n)
    BY <1>3, Zenon DEF Promise!Writable, Promise!Nobody, Nobody
  <2>2. Promise!Stop
    BY <1>1, <1>2, <1>3, <1>4, <2>1, Zenon DEF Promise!Stop, Promise!Nobody, Promise!Stopped, Nobody, Stopped
  <2> QED
    BY <2>2, Zenon DEF Implements, Promise!Next
<1> QED
  BY <1>9, <1>10, <1>11, <1>12, Zenon

-----------------------------------------------------------------------------
(* Commits.                                                                *)

\* A commit that took effect nowhere, or that wrote nothing.
LEMMA UncommittedImplements ==
  ASSUME Inv, NEW c \in Calls, calls[c].pc = "commit", UNCHANGED <<storeVars, pruner, history>>,
         locks' = Released(c),
         calls' = Return(c, "error") \/ calls' = [calls EXCEPT ![c].pc = "readback"]
  PROVE  StoreInv' /\ CallInv' /\ PruneOK' /\ Implements
<1>1. CASE calls' = Return(c, "error")
  BY <1>1, QuietError, Zenon
<1>2. CASE calls' = [calls EXCEPT ![c].pc = "readback"]
  <2> DEFINE r == [calls[c] EXCEPT !.pc = "readback"]
  <2>1. calls \in [Calls -> CallRecord] /\ calls[c] \in CallRecord
    BY Zenon DEF Inv, TypeInv, CallsTyped
  <2>2. calls' = [calls EXCEPT ![c] = r]
    BY <1>2, <2>1, Zenon
  <2>3. /\ r.pc = "readback" /\ r.member = calls[c].member /\ r.outcome = calls[c].outcome
        /\ r.answer = calls[c].answer
    BY <2>1, Zenon DEF CallRecord
  <2> HIDE DEF r
  <2>4. CallOK(c)'
    BY <2>1, <2>2, <2>3, FreeCall, Zenon
  <2>5. \A s \in Rows : locks[s] \in {Nobody, c} \/ locks'[s] = locks[s]
    BY Zenon DEF Released
  <2> QED
    BY <2>2, <2>3, <2>4, <2>5, QuietMove, Zenon
<1> QED
  BY <1>1, <1>2, Zenon

\* Settlement c records outcome o of member m and ends its transaction.
Records(c, m, o) ==
  /\ history' \in HistoryRecord
  /\ history'.outcome = [history.outcome EXCEPT ![m] = o]
  /\ history'.writer = [history.writer EXCEPT ![m] = c]
  /\ history'.ender \in {history.ender, c}
  /\ history.ender # Nobody => history'.ender = history.ender
  /\ locks' = Released(c)
  /\ \A e \in Calls \ {c} : calls'[e] = calls[e]
  /\ calls'[c].pc \in {"readback", "returned"}
  /\ UNCHANGED <<kind, pruner>>

\* What the others read of the history.
LEMMA RecordedHistory ==
  ASSUME Inv, NEW c \in Calls, NEW m \in Members, NEW o, Records(c, m, o)
  PROVE  /\ history'.outcome[m] = o /\ history'.writer[m] = c
         /\ \A k \in Members \ {m} : /\ history'.outcome[k] = history.outcome[k]
                                     /\ history'.writer[k] = history.writer[k]
BY Zenon DEF Records, Inv, StoreInv, RowsTyped, HistoryRecord

\* Receipts still name the writers.
LEMMA RecordedReceipts ==
  ASSUME Inv, NEW c \in Calls, NEW m \in Members, NEW o \in Outcomes, Records(c, m, o),
         history.outcome[m] = "pending",
         \A k \in Members \ {m} : receipts'[k] = receipts[k],
         receipts'[m] = receipts[m] \/ (receipts'[m].owner = c /\ receipts'[m].outcome = o),
         receipts'[0] = receipts[0] \/ (receipts'[0].owner = c /\ history'.ender = c)
  PROVE  ReceiptsOK'
<1>0. ReceiptsOK /\ o # "pending"
  BY Zenon DEF Inv, StoreInv, Outcomes
<1>1. /\ history'.outcome[m] = o /\ history'.writer[m] = c
      /\ \A k \in Members \ {m} : /\ history'.outcome[k] = history.outcome[k]
                                  /\ history'.writer[k] = history.writer[k]
  BY RecordedHistory, Zenon
<1>2. ~Known(receipts[m])
  BY <1>0, Zenon DEF ReceiptsOK, Known
<1>3. Known(receipts'[m]) => receipts'[m].owner = c /\ receipts'[m].outcome = o
  BY <1>2, Zenon DEF Known
<1>4. ASSUME Known(receipts'[0]) PROVE history'.ender = receipts'[0].owner
  <2>1. CASE receipts'[0] = receipts[0]
    <3>1. history.ender = receipts[0].owner /\ history.ender # Nobody
      BY <1>0, <1>4, <2>1, Zenon DEF ReceiptsOK, Known
    <3> QED
      BY <2>1, <3>1, Zenon DEF Records
  <2> QED
    BY <2>1, Zenon
<1>5. ASSUME NEW k \in Members
      PROVE  /\ history'.outcome[k] = "pending" => history'.writer[k] = Nobody
             /\ Known(receipts'[k]) => /\ history'.writer[k] = receipts'[k].owner
                                       /\ history'.outcome[k] = receipts'[k].outcome
  <2>1. CASE k = m
    BY <1>0, <1>1, <1>3, <2>1, Zenon
  <2>2. CASE k # m
    BY <1>0, <1>1, <2>2, Zenon DEF ReceiptsOK
  <2> QED
    BY <2>1, <2>2, Zenon
<1> QED
  BY <1>4, <1>5, Zenon DEF ReceiptsOK

\* The other settlements and a Prune keep what they rely on.
LEMMA RecordedOthers ==
  ASSUME Inv, NEW c \in Calls, NEW m \in Members, NEW o \in Outcomes, Records(c, m, o),
         calls[c].pc = "commit", history.outcome[m] = "pending", locks[0] = c,
         members' = members \/ (members' = [members EXCEPT ![m] = o] /\ locks[m] = c /\ members[m] = "pending")
  PROVE  CallInv' /\ PruneOK'
<1>0. /\ locks \in [Rows -> {Nobody, Pruner} \cup Calls] /\ 0 \in Rows /\ Members \subseteq Rows
      /\ Pruner \notin Calls /\ Nobody \notin Calls /\ o # "pending"
      /\ members \in [Members -> {"pending", "succeeded", "failed", "gone"}]
  BY Transactions, Zenon DEF Inv, TypeInv, LocksTyped, StoreInv, RowsTyped, Outcomes
<1>1. /\ history'.outcome[m] = o /\ history'.writer[m] = c
      /\ \A k \in Members \ {m} : /\ history'.outcome[k] = history.outcome[k]
                                  /\ history'.writer[k] = history.writer[k]
  BY RecordedHistory, Zenon
<1>2. \A r \in Rows : locks'[r] = IF locks[r] = c THEN Nobody ELSE locks[r]
  BY Zenon DEF Records, Released
<1>3. \A k \in Members : \/ members'[k] = members[k]
                         \/ k = m /\ members'[k] = o /\ locks[m] = c /\ members[m] = "pending"
  BY <1>0, Zenon
<1>4. CallInv'
  <2> SUFFICES ASSUME NEW e \in Calls PROVE CallOK(e)'
    BY Zenon DEF CallInv
  <2>1. CASE e = c
    BY <2>1, FreeCall, Zenon DEF Records
  <2>2. CASE e # c
    <3>1. \A r \in Rows : locks[r] = e => locks'[r] = e
      BY <1>2, <2>2, Zenon
    <3>2. \A k \in Members : locks[k] = e => members'[k] = members[k]
      BY <1>3, <2>2, Zenon
    <3>3. \A k \in Members : members[k] # "pending" => members'[k] # "pending"
      BY <1>0, <1>3, Zenon
    <3>4. \A k \in Members : history.outcome[k] # "pending" => history'.outcome[k] = history.outcome[k]
      BY <1>1, Zenon
    <3>5. \A k \in Members : history'.writer[k] = e => history.writer[k] = e
      BY <1>1, <2>2, Zenon
    <3>6. history'.ender = e => history.ender = e
      BY <2>2, Zenon DEF Records
    <3>7. Keeps(e)
      BY <2>2, <3>1, <3>2, <3>3, <3>4, <3>5, <3>6, Zenon DEF Keeps, Records
    <3> QED
      BY <3>7, KeptCall, Zenon DEF Inv, CallInv
  <2> QED
    BY <2>1, <2>2, Zenon
<1>5. PruneOK'
  <2>0. PruneOK /\ pruner' = pruner /\ kind' = kind /\ history.ender # c
    BY Zenon DEF Inv, CallInv, CallOK, Records
  <2>1. ASSUME pruner.pc \in {"select", "rows", "commit"}
        PROVE  /\ history'.ender # Nobody
               /\ kind = "batch" => \A k \in Members, e \in Calls :
                    history'.ender = e /\ history'.writer[k] = e => (k \in pruner.receipts <=> 0 \in pruner.receipts)
    <3>1. history.ender # Nobody /\ history'.ender = history.ender
      BY <2>0, <2>1, Zenon DEF PruneOK, Records
    <3>2. ASSUME kind = "batch", NEW k \in Members, NEW e \in Calls, history'.ender = e, history'.writer[k] = e
          PROVE  k \in pruner.receipts <=> 0 \in pruner.receipts
      <4>1. k # m
        BY <1>1, <2>0, <3>1, <3>2, Zenon
      <4> QED
        BY <1>1, <2>0, <2>1, <3>1, <3>2, <4>1, Zenon DEF PruneOK
    <3> QED
      BY <3>1, <3>2, Zenon
  <2>2. ASSUME pruner.pc = "commit", pruner.rows, kind = "batch", NEW k \in Members, members'[k] # "gone"
        PROVE  locks'[k] = Pruner
    <3>1. members[k] # "gone" => locks[k] = Pruner
      BY <2>0, <2>2, Zenon DEF PruneOK
    <3>2. locks[k] = Pruner
      BY <1>0, <1>3, <2>2, <3>1, Zenon
    <3> QED
      BY <1>0, <1>2, <3>2, Zenon
  <2> QED
    BY <2>0, <2>1, <2>2, Zenon DEF PruneOK
<1> QED
  BY <1>4, <1>5, Zenon

\* The atomic store records the outcome, and answers in the same step or later.
LEMMA RecordImplements ==
  ASSUME Inv, NEW c \in Calls, NEW m, m = calls[c].member, Records(c, m, calls[c].outcome),
         calls[c].pc = "commit", Promise!Writable(m),
         history'.ender = IF history.ender = Nobody /\ Promise!Ends(history'.outcome) THEN c ELSE history.ender,
         batch'.allow = batch.allow,
         \/ calls' = [calls EXCEPT ![c].pc = "readback"]
         \/ \E a \in {"error", "wrote", IF history'.ender = c THEN "ended" ELSE "claimed"} : calls' = Return(c, a)
  PROVE  Implements
<1>0. calls[c].member \in Members /\ calls[c].answer = "none" /\ kind' = kind
  BY Requested, Zenon DEF Inv, Records
<1>1. Promise!Record(c)
  BY <1>0, Zenon DEF Promise!Record, Promise!Nobody, Nobody, Records
<1>2. CASE calls' = [calls EXCEPT ![c].pc = "readback"]
  <2>0. calls \in [Calls -> CallRecord]
    BY Zenon DEF Inv, TypeInv, CallsTyped
  <2>1. \A e \in Calls : /\ calls'[e].member = calls[e].member /\ calls'[e].outcome = calls[e].outcome
                         /\ calls'[e].answer = calls[e].answer
    BY <1>2, <2>0 DEF CallRecord
  <2>2. Promise!Write(c)
    BY <1>1, <2>1, Zenon DEF Promise!Write
  <2> QED
    BY <2>2, Zenon DEF Implements, Promise!Next
<1>3. ASSUME NEW a \in {"error", "wrote", IF history'.ender = c THEN "ended" ELSE "claimed"}, calls' = Return(c, a)
      PROVE  Implements
  <2>1. Promise!Answered(c, a)
    BY <1>3, AnsweredImplements, Zenon DEF Inv, Answers
  <2>2. Promise!WriteAndReturn(c)
    BY <1>1, <1>3, <2>1, Zenon DEF Promise!WriteAndReturn
  <2> QED
    BY <2>2, Zenon DEF Implements, Promise!Next
<1> QED
  BY <1>2, <1>3, Zenon

\* AfterCommit leaves the settlement where nothing is relied on.
LEMMA AfterCommitFacts ==
  ASSUME Inv, NEW c \in Calls, NEW db, NEW a \in Answers, calls' = AfterCommit(c, db, a)
  PROVE  /\ \A e \in Calls \ {c} : calls'[e] = calls[e]
         /\ calls'[c].pc \in {"readback", "returned"}
<1>0. CallsTyped /\ calls \in [Calls -> CallRecord] /\ "error" \in Answers
  BY Zenon DEF Inv, TypeInv, CallsTyped, Answers
<1>1. ASSUME NEW b \in Answers, calls' = Return(c, b)
      PROVE  /\ \A e \in Calls \ {c} : calls'[e] = calls[e]
             /\ calls'[c].pc = "returned"
  BY <1>0, <1>1, ReturnIs, ReturnShape
<1>2. CASE calls' = [calls EXCEPT ![c].pc = "readback"]
  BY <1>0, <1>2 DEF CallRecord
<1>3. calls' = Return(c, a) \/ calls' = Return(c, "error") \/ calls' = [calls EXCEPT ![c].pc = "readback"]
  BY Zenon DEF AfterCommit
<1> QED
  BY <1>0, <1>1, <1>2, <1>3, Zenon

\* The commit of an unclaimed settlement: the answer read before is still true.
LEMMA DuplicateCommitImplements ==
  ASSUME Inv, NEW c \in Calls, NEW db, CommitBatch(c, db), db # "failed", ~calls[c].claimed
  PROVE  StoreInv' /\ CallInv' /\ PruneOK' /\ Implements
<1>0. /\ batch \in BatchRecord /\ chain \in ChainRecord /\ BatchOK /\ CallOK(c) /\ Shape(calls[c], kind)
      /\ members \in [Members -> {"pending", "succeeded", "failed", "gone"}] /\ receipts \in [Rows -> Receipt]
      /\ kind = "batch"
  BY Zenon DEF CommitBatch, Inv, StoreInv, RowsTyped, TypeInv, TablesTyped, CallInv, CallsTyped
<1>1. /\ calls[c].pc = "commit" /\ batch' = [batch EXCEPT !.touched = Pruning] /\ locks' = Released(c)
      /\ calls' = AfterCommit(c, db, calls[c].reply)
      /\ UNCHANGED <<kind, chain, members, receipts, history, pruner>>
  BY Zenon DEF CommitBatch
<1>2. /\ batch' \in BatchRecord /\ batch'.exists = batch.exists /\ batch'.allow = batch.allow
      /\ batch'.pending = batch.pending /\ batch'.completed = batch.completed
  <2>1. Pruning \in BOOLEAN
    BY Zenon DEF Pruning
  <2> QED
    BY <1>0, <1>1, <2>1, Zenon DEF BatchRecord
<1>3. StoreInv'
  <2>1. \A m \in Members, e \in Calls :
          history.ender = e /\ history.writer[m] = e => (receipts'[m].owner = e <=> receipts'[0].owner = e)
    BY <1>0, <1>1, Zenon DEF BatchOK
  <2> QED
    BY <1>0, <1>1, <1>2, <2>1, PrunedTables, Zenon
<1>4. Answering(calls[c]) /\ calls[c].reply \in {"owned", "lost"}
  BY <1>0, <1>1, Zenon DEF Answering, Shape
<1>5. Promise!Truthful(c, calls[c].reply) /\ calls[c].reply \in Answers
  BY <1>4, AnswerTruth, Zenon
<1>6. /\ \A e \in Calls \ {c} : calls'[e] = calls[e]
      /\ calls'[c].pc \in {"readback", "returned"}
  BY <1>1, <1>5, AfterCommitFacts, Zenon
<1>7. CallInv'
  <2> SUFFICES ASSUME NEW e \in Calls PROVE CallOK(e)'
    BY Zenon DEF CallInv
  <2>1. CASE e = c
    BY <1>6, <2>1, FreeCall, Zenon
  <2>2. CASE e # c
    <3>1. \A r \in Rows : locks[r] = e => locks'[r] = e
      BY <1>1, <2>2, Zenon DEF Released
    <3>2. Keeps(e)
      BY <1>1, <1>2, <1>6, <2>2, <3>1, Zenon DEF Keeps, ChainOpen
    <3> QED
      BY <3>2, KeptCall, Zenon DEF Inv, CallInv
  <2> QED
    BY <2>1, <2>2, Zenon
<1>8. PruneOK'
  <2>1. \A r \in Rows : locks[r] = Pruner => locks'[r] = Pruner
    BY <1>1, Transactions, Zenon DEF Released
  <2> QED
    BY <1>1, <2>1, Transactions, Zenon DEF Inv, PruneOK
<1>9. Implements
  <2>1. CASE calls' = Return(c, calls[c].reply)
    BY <1>1, <1>2, <1>5, <2>1, ReturnImplements, Zenon DEF Inv, Implements
  <2>2. CASE calls' = Return(c, "error")
    BY <1>1, <1>2, <2>2, ErrorImplements, Zenon DEF Inv, Implements
  <2>3. CASE calls' = [calls EXCEPT ![c].pc = "readback"]
    <3>0. calls \in [Calls -> CallRecord]
      BY Zenon DEF Inv, TypeInv, CallsTyped
    <3>1. \A e \in Calls : /\ calls'[e].member = calls[e].member /\ calls'[e].outcome = calls[e].outcome
                           /\ calls'[e].answer = calls[e].answer
      BY <2>3, <3>0, Zenon DEF CallRecord
    <3> QED
      BY <1>1, <1>2, <3>1, Stutters, Zenon DEF Implements
  <2> QED
    BY <1>1, <2>1, <2>2, <2>3, Zenon DEF AfterCommit
<1> QED
  BY <1>3, <1>7, <1>8, <1>9, Zenon

\* The chain row after the transaction.
LEMMA AdvancedFacts ==
  ASSUME NEW c \in Calls, chain \in ChainRecord
  PROVE  /\ Advanced(c).completed \in BOOLEAN
         /\ calls[c].outcome = "succeeded" =>
              /\ Advanced(c).next = chain.next + 1 /\ Advanced(c).failed = chain.failed
              /\ Advanced(c).completed <=> chain.next = N
         /\ calls[c].outcome # "succeeded" =>
              /\ Advanced(c).next = chain.next /\ Advanced(c).failed /\ Advanced(c).completed = chain.completed
<1> DEFINE last == chain.next = N
<1>1. last \in BOOLEAN /\ Pruning \in BOOLEAN /\ chain.completed \in BOOLEAN
  BY Zenon DEF Pruning, ChainRecord
<1>2. ASSUME calls[c].outcome = "succeeded"
      PROVE  Advanced(c).next = chain.next + 1 /\ Advanced(c).failed = chain.failed /\ Advanced(c).completed = last
  <2> DEFINE next == chain.next + 1
  <2>1. Advanced(c) = [chain EXCEPT !.next = next, !.completed = last, !.touched = Pruning]
    BY <1>2, Zenon DEF Advanced
  <2> HIDE DEF next, last
  <2>2. Advanced(c).next = next /\ Advanced(c).failed = chain.failed /\ Advanced(c).completed = last
    BY <2>1, Zenon DEF ChainRecord
  <2> QED
    BY <2>2, Zenon DEF next
<1>3. ASSUME calls[c].outcome # "succeeded"
      PROVE  Advanced(c).next = chain.next /\ Advanced(c).failed = TRUE /\ Advanced(c).completed = chain.completed
  <2>1. Advanced(c) = [chain EXCEPT !.failed = TRUE, !.touched = Pruning]
    BY <1>3, Zenon DEF Advanced
  <2> QED
    BY <2>1, Zenon DEF ChainRecord
<1> HIDE DEF last
<1>4. Advanced(c).completed \in BOOLEAN
  BY <1>1, <1>2, <1>3, ZenonT(60)
<1> QED
  BY <1>2, <1>3, <1>4, Zenon DEF last

\* What a chain settlement finds at its commit.
LEMMA ChainCommitReady ==
  ASSUME Inv, NEW c \in Calls, kind = "chain", calls[c].pc = "commit"
  PROVE  LET m == calls[c].member IN
         /\ m \in Members /\ calls[c].outcome \in Outcomes /\ chain.next = m /\ ChainOpen /\ locks[0] = c
         /\ history.outcome[m] = "pending" /\ history.ender = Nobody
         /\ \A k \in Members : k < m => history.outcome[k] = "succeeded"
         /\ \A k \in Members : k > m => history.outcome[k] = "pending"
         /\ Promise!Writable(m)
<1>0. ChainOK /\ CallOK(c) /\ ChainCall(c) /\ calls[c].member \in Members /\ calls[c].outcome \in Outcomes
  BY Requested, Zenon DEF Inv, StoreInv, CallInv, CallOK
<1>1. chain.next = calls[c].member /\ ChainOpen /\ locks[0] = c
  BY <1>0, Zenon DEF ChainCall
<1>2. ~chain.failed /\ history.ender = Nobody
  BY <1>0, <1>1, Zenon DEF ChainOK, ChainOpen
<1>3. /\ history.outcome[calls[c].member] = "pending"
      /\ \A k \in Members : k < calls[c].member => history.outcome[k] = "succeeded"
      /\ \A k \in Members : k > calls[c].member => history.outcome[k] = "pending"
  BY <1>0, <1>1, <1>2, Zenon DEF ChainOK
<1>4. Promise!Writable(calls[c].member)
  BY <1>2, <1>3, Zenon DEF Promise!Writable, Promise!Nobody, Nobody
<1> QED
  BY <1>0, <1>1, <1>2, <1>3, <1>4, Zenon

\* A chain settlement commits: the node the chain had reached gets its outcome.
LEMMA CommitChainImplements ==
  ASSUME Inv, NEW c \in Calls, NEW db \in {"ok", "failed", "ambiguous"}, CommitChain(c, db)
  PROVE  StoreInv' /\ CallInv' /\ PruneOK' /\ Implements
<1>0. kind = "chain" /\ calls[c].pc = "commit"
  BY Zenon DEF CommitChain
<1>1. CASE db = "failed"
  <2>1. /\ UNCHANGED <<storeVars, pruner, history>> /\ locks' = Released(c)
        /\ calls' = Return(c, "error") \/ calls' = [calls EXCEPT ![c].pc = "readback"]
    BY <1>1, Zenon DEF CommitChain, storeVars, AfterCommit
  <2> QED
    BY <1>0, <2>1, UncommittedImplements, Zenon
<1>2. CASE db # "failed"
  <2> DEFINE m == calls[c].member
             o == calls[c].outcome
             answer == IF EndsChain(c) THEN "ended" ELSE "claimed"
             new == [owner |-> c, outcome |-> o, completed |-> Advanced(c).completed]
  <2>0. /\ chain \in ChainRecord /\ ChainOK /\ RowsTyped /\ ReceiptsOK /\ CallOK(c)
        /\ Members \subseteq Rows /\ 0 \in Rows /\ 0 \notin Members /\ Nobody \notin Calls
    BY <1>0, Transactions, Zenon DEF Inv, StoreInv, TypeInv, TablesTyped, CallInv
  <2>1. /\ m \in Members /\ o \in Outcomes /\ chain.next = m /\ ChainOpen /\ locks[0] = c
        /\ history.outcome[m] = "pending" /\ history.ender = Nobody
        /\ \A k \in Members : k < m => history.outcome[k] = "succeeded"
        /\ \A k \in Members : k > m => history.outcome[k] = "pending"
        /\ Promise!Writable(m)
    BY <1>0, ChainCommitReady, Zenon
  <2>2. /\ chain' = Advanced(c) /\ receipts' = (IF ~valid THEN receipts ELSE [receipts EXCEPT ![m] = new])
        /\ history' = Recorded(c, EndsChain(c)) /\ calls' = AfterCommit(c, db, answer)
        /\ locks' = Released(c) /\ UNCHANGED <<kind, batch, members, pruner>>
    BY <1>2, Zenon DEF CommitChain
  <2>3. /\ \A e \in Calls \ {c} : calls'[e] = calls[e]
        /\ calls'[c].pc \in {"readback", "returned"}
    BY <2>2, AfterCommitFacts, Zenon DEF Answers
  <2>4. /\ history' \in HistoryRecord
        /\ history'.outcome = [history.outcome EXCEPT ![m] = o]
        /\ history'.writer = [history.writer EXCEPT ![m] = c]
        /\ history'.ender = IF EndsChain(c) THEN c ELSE history.ender
    <3>1. history' = Recorded(c, EndsChain(c))
      BY <2>2, Zenon
    <3> QED
      BY <2>0, <2>1, <3>1, RecordedFacts, SMTT(30)
  <2>5. Records(c, m, o)
    BY <2>1, <2>2, <2>3, <2>4, Zenon DEF Records
  <2>6. /\ history'.outcome[m] = o /\ history'.writer[m] = c
        /\ \A k \in Members \ {m} : /\ history'.outcome[k] = history.outcome[k]
                                    /\ history'.writer[k] = history.writer[k]
    BY <2>1, <2>5, RecordedHistory
  <2>7. EndsChain(c) <=> Promise!Ends(history'.outcome)
    <3>1. CASE o = "failed"
      BY <1>0, <2>1, <2>6, <3>1 DEF EndsChain, Promise!Ends
    <3>2. CASE o = "succeeded" /\ m = N
      <4>1. \A k \in Members \ {m} : k < m
        BY <3>2, StoreAssumption DEF Members
      <4>2. \A k \in Members : history'.outcome[k] # "pending"
        BY <2>1, <2>6, <3>2, <4>1, Zenon
      <4> QED
        BY <3>2, <4>2, Zenon DEF EndsChain, Promise!Ends
    <3>3. CASE o = "succeeded" /\ m # N
      <4>1. N \in Members /\ N > m /\ N # m
        BY <2>1, <3>3, StoreAssumption DEF Members
      <4>2. history'.outcome[N] = "pending"
        BY <2>1, <2>6, <4>1, Zenon
      <4>3. \A k \in Members : k = m \/ k < m \/ k > m
        BY <2>1, StoreAssumption DEF Members
      <4>4. \A k \in Members : history'.outcome[k] # "failed"
        BY <2>1, <2>6, <3>3, <4>3, Zenon
      <4> QED
        BY <3>3, <4>1, <4>2, <4>4, Zenon DEF EndsChain, Promise!Ends
    <3> QED
      BY <2>1, <3>1, <3>2, <3>3, Zenon DEF Outcomes
  <2>8. new \in Receipt /\ new.owner = c /\ new.outcome = o
    BY <2>0, <2>1, AdvancedFacts, Zenon DEF Receipt
  <2>9. /\ receipts' \in [Rows -> Receipt] /\ receipts'[0] = receipts[0]
        /\ \A k \in Members \ {m} : receipts'[k] = receipts[k]
        /\ receipts'[m] = receipts[m] \/ (receipts'[m].owner = c /\ receipts'[m].outcome = o)
    <3> HIDE DEF new, m, o
    <3> QED
      BY <2>0, <2>1, <2>2, <2>8, Zenon DEF RowsTyped
  <2> HIDE DEF new
  <2>10. ReceiptsOK'
    BY <2>1, <2>5, <2>9, RecordedReceipts, Zenon
  <2>11. CallInv' /\ PruneOK'
    BY <1>0, <2>1, <2>2, <2>5, RecordedOthers, Zenon
  <2>12. ChainOK'
    <3>0. ~chain.failed /\ ~chain.completed /\ m \in 1..N /\ N \in Nat
      BY <2>1, StoreAssumption, Zenon DEF ChainOpen, Members
    <3>1. /\ o = "succeeded" => chain'.next = m + 1 /\ ~chain'.failed /\ (chain'.completed <=> m = N)
          /\ o = "failed" => chain'.next = m /\ chain'.failed /\ ~chain'.completed
      BY <2>0, <2>1, <2>2, <3>0, AdvancedFacts, Zenon DEF Outcomes
    <3>2. ASSUME NEW k \in Members, NEW e \in Calls, history'.writer[k] = e
          PROVE  history'.ender = e <=> history'.outcome[k] = "failed" \/ k = N
      <4>1. CASE k = m
        BY <2>0, <2>1, <2>4, <2>6, <3>2, <4>1, ZenonT(60) DEF EndsChain
      <4>2. CASE k # m
        <5>1. history.writer[k] = e /\ history'.outcome[k] = history.outcome[k]
          BY <2>6, <3>2, <4>2, Zenon
        <5>2. ~(history.outcome[k] = "failed" \/ k = N) /\ history.writer[k] # c
          BY <2>0, <2>1, <5>1, <1>0, ZenonT(60) DEF ChainOK, CallOK
        <5> QED
          BY <2>0, <2>1, <2>4, <3>2, <5>1, <5>2, ZenonT(60)
      <4> QED
        BY <4>1, <4>2, Zenon
    <3>3. ASSUME NEW k \in Members
          PROVE  /\ k < chain'.next => history'.outcome[k] = "succeeded"
                 /\ k > chain'.next \/ (k = chain'.next /\ ~chain'.failed) => history'.outcome[k] = "pending"
      <4>0. k \in Int /\ m \in Int
        BY <3>0 DEF Members
      <4>1. CASE o = "succeeded"
        <5>1. k < m + 1 <=> k < m \/ k = m
          BY <4>0
        <5>2. k > m + 1 \/ k = m + 1 => k > m /\ k # m
          BY <4>0
        <5> QED
          BY <2>1, <2>6, <3>1, <4>1, <5>1, <5>2, ZenonT(60)
      <4>2. CASE o = "failed"
        <5>1. /\ k < m => k # m
              /\ k > m => k # m
          BY <4>0
        <5> QED
          BY <2>1, <2>6, <3>1, <4>2, <5>1, ZenonT(60)
      <4> QED
        BY <2>1, <4>1, <4>2, Zenon DEF Outcomes
    <3>4. ChainOpen' <=> history'.ender = Nobody
      BY <2>0, <2>1, <2>4, <3>1, ZenonT(60) DEF ChainOpen, EndsChain, Outcomes
    <3>5. /\ chain'.next \in 1..N + 1 /\ (chain'.completed <=> chain'.next = N + 1)
          /\ chain'.failed => chain'.next \in Members /\ history'.outcome[chain'.next] = "failed"
      BY <2>1, <2>6, <3>0, <3>1 DEF Outcomes
    <3> QED
      BY <2>0, <2>2, <3>2, <3>3, <3>4, <3>5, Zenon DEF ChainOK
  <2>13. StoreInv'
    <3>1. RowsTyped'
      BY <2>0, <2>2, <2>4, <2>9, Zenon DEF RowsTyped
    <3> QED
      BY <1>0, <2>2, <2>10, <2>12, <3>1, Zenon DEF StoreInv
  <2>14. Implements
    <3>1. history'.ender = IF history.ender = Nobody /\ Promise!Ends(history'.outcome) THEN c ELSE history.ender
      BY <2>1, <2>4, <2>7, Zenon
    <3>2. answer = IF history'.ender = c THEN "ended" ELSE "claimed"
      BY <2>0, <2>1, <2>4, Zenon
    <3>3. \/ calls' = [calls EXCEPT ![c].pc = "readback"]
          \/ \E a \in {"error", "wrote", IF history'.ender = c THEN "ended" ELSE "claimed"} : calls' = Return(c, a)
      BY <2>2, <3>2, Zenon DEF AfterCommit
    <3> QED
      BY <1>0, <2>1, <2>2, <2>5, <3>1, <3>3, RecordImplements, Zenon
  <2> QED
    BY <2>11, <2>13, <2>14, Zenon
<1> QED
  BY <1>1, <1>2, Zenon

\* What a batch settlement that claimed its member finds at its commit.
LEMMA BatchCommitReady ==
  ASSUME Inv, NEW c \in Calls, kind = "batch", calls[c].pc = "commit", calls[c].claimed
  PROVE  LET m == calls[c].member IN
         /\ m \in Members /\ calls[c].outcome \in Outcomes /\ locks[0] = c /\ locks[m] = c
         /\ members[m] = "pending" /\ history.outcome[m] = "pending" /\ m \in PendingMembers
         /\ calls[c].seen = 0 <=> history.ender = Nobody
         /\ Promise!Writable(m)
<1>0. BatchOK /\ CallOK(c) /\ BatchCall(c) /\ calls[c].member \in Members /\ calls[c].outcome \in Outcomes
  BY Requested, Zenon DEF Inv, StoreInv, CallInv, CallOK
<1>1. /\ locks[0] = c /\ locks[calls[c].member] = c /\ members[calls[c].member] = "pending"
      /\ calls[c].seen = 0 <=> ~batch.completed
  BY <1>0, Zenon DEF BatchCall
<1>2. history.outcome[calls[c].member] = "pending" /\ (calls[c].seen = 0 <=> history.ender = Nobody)
  BY <1>0, <1>1, Zenon DEF BatchOK
<1>3. calls[c].member \in PendingMembers
  BY <1>0, <1>2, Zenon DEF PendingMembers
<1>4. Promise!Writable(calls[c].member)
  BY <1>2, Zenon DEF Promise!Writable
<1> QED
  BY <1>0, <1>1, <1>2, <1>3, <1>4, ZenonT(60)

\* The settlement that sees an unfinished batch completes it exactly when its
\* outcome ends the workflow.
LEMMA CompletesEnds ==
  ASSUME Inv, CountsPending, NEW c \in Calls, kind = "batch", calls[c].pc = "commit", calls[c].claimed,
         NEW r, r = [history.outcome EXCEPT ![calls[c].member] = calls[c].outcome],
         history.ender = Nobody
  PROVE  Settled(c).completed <=> Promise!Ends(r)
<1> DEFINE m == calls[c].member
           o == calls[c].outcome
<1>0. RowsTyped /\ BatchOK /\ history \in HistoryRecord
  BY Zenon DEF Inv, StoreInv, RowsTyped
<1>1. /\ m \in Members /\ o \in Outcomes /\ history.outcome[m] = "pending" /\ m \in PendingMembers
  BY BatchCommitReady, Zenon
<1>2. r[m] = o /\ \A k \in Members \ {m} : r[k] = history.outcome[k]
  BY <1>0, <1>1, Zenon DEF HistoryRecord
<1>3. ~batch.completed /\ batch.pending = Cardinality(PendingMembers)
  BY <1>0, Zenon DEF BatchOK
<1>4. Settled(c).completed <=> batch.pending <= 1 \/ (o = "failed" /\ ~batch.allow)
  BY <1>0, <1>3, SettledFacts, Zenon
<1>5. batch.pending <= 1 <=> PendingMembers = {m}
  <2>1. /\ Cardinality(PendingMembers) \in Nat \ {0}
        /\ Cardinality(PendingMembers) = 1 <=> PendingMembers = {m}
    BY <1>0, <1>1, Zenon DEF CountsPending
  <2> QED
    BY <1>3, <2>1
<1>6. PendingMembers = {m} <=> \A k \in Members : r[k] # "pending"
  <2>1. \A k \in Members : k \in PendingMembers <=> history.outcome[k] = "pending"
    BY Zenon DEF PendingMembers
  <2>2. PendingMembers \subseteq Members /\ o # "pending"
    BY <1>1, Zenon DEF PendingMembers, Outcomes
  <2>3. ASSUME PendingMembers = {m}, NEW k \in Members PROVE r[k] # "pending"
    BY <1>2, <2>1, <2>2, <2>3, Zenon
  <2>4. ASSUME \A k \in Members : r[k] # "pending" PROVE PendingMembers = {m}
    <3>1. \A k \in PendingMembers : k = m
      BY <1>2, <2>1, <2>2, <2>4, Zenon
    <3> QED
      BY <1>1, <3>1, Zenon
  <2> QED
    BY <2>3, <2>4, Zenon
<1>7. ~batch.allow => ((\E k \in Members : r[k] = "failed") <=> o = "failed")
  <2>1. ~batch.allow => \A k \in Members : history.outcome[k] # "failed"
    BY <1>0, <1>3, Zenon DEF BatchOK
  <2> QED
    BY <1>1, <1>2, <2>1, Zenon
<1>8. Promise!Ends(r) <=> \/ \A k \in Members : r[k] # "pending"
                          \/ ~batch.allow /\ \E k \in Members : r[k] = "failed"
  BY Zenon DEF Promise!Ends
<1> QED
  BY <1>4, <1>5, <1>6, <1>7, <1>8, Zenon

\* The receipts a batch settlement inserts.
LEMMA BatchReceiptsFacts ==
  ASSUME Inv, NEW c \in Calls, calls[c].member \in Members, calls[c].outcome \in Outcomes
  PROVE  LET m == calls[c].member new == BatchReceipts(c) IN
         /\ new \in [Rows -> Receipt]
         /\ new[m].owner = c /\ new[m].outcome = calls[c].outcome
         /\ \A k \in Members \ {m} : new[k] = receipts[k]
         /\ IF Completes(c) THEN new[0].owner = c ELSE new[0] = receipts[0]
<1> DEFINE m == calls[c].member
           o == calls[c].outcome
           one == [owner |-> c, outcome |-> o, completed |-> FALSE]
           two == [one EXCEPT !.completed = TRUE]
           top == IF Completes(c) THEN two ELSE receipts[0]
<1>0. /\ receipts \in [Rows -> Receipt] /\ m \in Rows /\ m # 0 /\ 0 \in Rows /\ 0 \notin Members
      /\ Members \subseteq Rows
  BY Transactions, Zenon DEF Inv, StoreInv, RowsTyped
<1>1. one \in Receipt /\ one.owner = c /\ one.outcome = o
  BY Zenon DEF Receipt
<1>2. two \in Receipt /\ two.owner = c
  BY Zenon DEF Receipt
<1>3. BatchReceipts(c) = [receipts EXCEPT ![m] = one, ![0] = top]
  BY <1>0, Zenon DEF BatchReceipts
<1> HIDE DEF one, two, m, o
<1>4. top \in Receipt
  BY <1>0, <1>2, Zenon
<1>5. Completes(c) => top.owner = c
  BY <1>2, Zenon
<1>6. ~Completes(c) => top = receipts[0]
  BY Zenon
<1> HIDE DEF top
<1>7. /\ BatchReceipts(c) \in [Rows -> Receipt] /\ BatchReceipts(c)[m] = one /\ BatchReceipts(c)[0] = top
      /\ \A k \in Members \ {m} : BatchReceipts(c)[k] = receipts[k]
  BY <1>0, <1>1, <1>3, <1>4, Zenon
<1> QED
  BY <1>1, <1>5, <1>6, <1>7, Zenon DEF m, o

\* The batch row after a claimed settlement still counts what is pending.
LEMMA SettledBatchOK ==
  ASSUME Inv, CountsPending, NEW c \in Calls, NEW m, m = calls[c].member, kind = "batch",
         calls[c].pc = "commit", calls[c].claimed,
         Records(c, m, calls[c].outcome), UNCHANGED chain,
         batch' = Settled(c), members' = [members EXCEPT ![m] = calls[c].outcome],
         history'.ender = IF Completes(c) THEN c ELSE history.ender,
         \A k \in Members \ {m} : receipts'[k] = receipts[k],
         \/ /\ receipts'[m].owner = c
            /\ IF Completes(c) THEN receipts'[0].owner = c ELSE receipts'[0] = receipts[0]
         \/ receipts'[m] = receipts[m] /\ receipts'[0] = receipts[0]
  PROVE  BatchOK'
<1> DEFINE o == calls[c].outcome
<1>0. /\ RowsTyped /\ BatchOK /\ ReceiptsOK /\ CallOK(c) /\ batch.pending \in Nat /\ Nobody \notin Calls
      /\ members \in [Members -> {"pending", "succeeded", "failed", "gone"}]
  BY Transactions, Zenon DEF Inv, StoreInv, RowsTyped, BatchRecord, CallInv
<1>1. /\ m \in Members /\ o \in Outcomes /\ history.outcome[m] = "pending" /\ m \in PendingMembers
      /\ calls[c].seen = 0 <=> history.ender = Nobody
  BY BatchCommitReady, Zenon
<1>2. /\ history'.outcome[m] = o /\ history'.writer[m] = c
      /\ \A k \in Members \ {m} : /\ history'.outcome[k] = history.outcome[k]
                                  /\ history'.writer[k] = history.writer[k]
  BY <1>1, RecordedHistory, ZenonT(60)
<1>3. /\ batch'.allow = batch.allow
      /\ batch'.completed <=> batch.completed \/ batch.pending <= 1 \/ (o = "failed" /\ ~batch.allow)
      /\ batch'.pending = IF batch.pending > 0 THEN batch.pending - 1 ELSE 0
  BY <1>0, SettledFacts, Zenon
<1>4. history.ender # c /\ \A k \in Members : history.writer[k] # c
  BY <1>0, Zenon DEF CallOK
<1>5. batch'.pending = Cardinality(PendingMembers')
  <2>1. /\ Cardinality(PendingMembers) \in Nat \ {0}
        /\ Cardinality(PendingMembers \ {m}) = Cardinality(PendingMembers) - 1
    BY <1>0, <1>1, Zenon DEF CountsPending
  <2>2. batch.pending = Cardinality(PendingMembers)
    BY <1>0, Zenon DEF BatchOK
  <2>3. PendingMembers' = PendingMembers \ {m}
    BY <1>1, <1>2, ZenonT(60) DEF PendingMembers, Outcomes
  <2> QED
    BY <1>3, <2>1, <2>2, <2>3
<1>6. batch'.completed <=> history'.ender # Nobody
  BY <1>0, <1>1, <1>3, ZenonT(60) DEF BatchOK, Completes
<1>7. ~batch'.completed /\ ~batch'.allow => \A k \in Members : history'.outcome[k] # "failed"
  <2>1. ~batch.completed /\ ~batch.allow => \A k \in Members : history.outcome[k] # "failed"
    BY <1>0, Zenon DEF BatchOK
  <2> QED
    BY <1>2, <1>3, <2>1, SMTT(30)
<1>8. \A k \in Members : members'[k] # "gone" => members'[k] = history'.outcome[k]
  <2>1. \A k \in Members : members[k] # "gone" => members[k] = history.outcome[k]
    BY <1>0, Zenon DEF BatchOK
  <2> QED
    BY <1>0, <1>1, <1>2, <2>1, SMTT(30)
<1>9. ASSUME NEW k \in Members, NEW e \in Calls, history'.ender = e, history'.writer[k] = e
      PROVE  receipts'[k].owner = e <=> receipts'[0].owner = e
  <2>1. CASE e = c
    <3>1. k = m /\ Completes(c)
      BY <1>2, <1>4, <1>9, <2>1, Zenon
    <3>2. receipts[m].owner = Nobody
      BY <1>0, <1>1, <1>4, ZenonT(60) DEF ReceiptsOK, Known
    <3>3. receipts[0].owner # c
      BY <1>0, <1>4, ZenonT(60) DEF ReceiptsOK, Known
    <3> QED
      BY <1>0, <2>1, <3>1, <3>2, <3>3, ZenonT(60)
  <2>2. CASE e # c
    <3>1. k # m /\ ~Completes(c) /\ history.ender = e
      BY <1>2, <1>9, <2>2, Zenon
    <3>2. history.writer[k] = e /\ receipts'[k] = receipts[k] /\ receipts'[0] = receipts[0]
      BY <1>2, <1>9, <3>1, Zenon
    <3> QED
      <4>1. receipts[k].owner = e <=> receipts[0].owner = e
        BY <1>0, <3>1, <3>2, ZenonT(60) DEF BatchOK
      <4> QED
        BY <3>2, <4>1, Zenon
  <2> QED
    BY <2>1, <2>2, Zenon
<1> QED
  BY <1>0, <1>5, <1>6, <1>7, <1>8, <1>9, ZenonT(60) DEF BatchOK

\* A batch settlement commits: the member it claimed gets its outcome.
LEMMA CommitBatchImplements ==
  ASSUME Inv, CountsPending, NEW c \in Calls, NEW db \in {"ok", "failed", "ambiguous"}, CommitBatch(c, db)
  PROVE  StoreInv' /\ CallInv' /\ PruneOK' /\ Implements
<1>0. kind = "batch" /\ calls[c].pc = "commit"
  BY Zenon DEF CommitBatch
<1>1. CASE db = "failed"
  <2>1. /\ UNCHANGED <<storeVars, pruner, history>> /\ locks' = Released(c)
        /\ calls' = Return(c, "error") \/ calls' = [calls EXCEPT ![c].pc = "readback"]
    BY <1>1, Zenon DEF CommitBatch, storeVars, AfterCommit
  <2> QED
    BY <1>0, <2>1, UncommittedImplements, Zenon
<1>2. CASE db # "failed" /\ ~calls[c].claimed
  BY <1>2, DuplicateCommitImplements, Zenon
<1>3. CASE db # "failed" /\ calls[c].claimed
  <2> DEFINE m == calls[c].member
             o == calls[c].outcome
             answer == IF ~valid THEN "wrote" ELSE IF Completes(c) THEN "ended" ELSE "claimed"
  <2>0. RowsTyped /\ ReceiptsOK /\ Nobody \notin Calls /\ CallOK(c)
    BY Transactions, Zenon DEF Inv, StoreInv, CallInv
  <2>1. /\ m \in Members /\ o \in Outcomes /\ locks[0] = c /\ locks[m] = c
        /\ members[m] = "pending" /\ history.outcome[m] = "pending"
        /\ calls[c].seen = 0 <=> history.ender = Nobody
        /\ Promise!Writable(m)
    BY <1>0, <1>3, BatchCommitReady, Zenon
  <2>2. /\ batch' = Settled(c) /\ members' = [members EXCEPT ![m] = o]
        /\ receipts' = IF valid THEN BatchReceipts(c) ELSE receipts
        /\ history' = Recorded(c, Completes(c)) /\ calls' = AfterCommit(c, db, answer)
        /\ locks' = Released(c) /\ UNCHANGED <<kind, chain, pruner>>
    BY <1>3, Zenon DEF CommitBatch
  <2>3. /\ \A e \in Calls \ {c} : calls'[e] = calls[e]
        /\ calls'[c].pc \in {"readback", "returned"}
    BY <2>2, AfterCommitFacts, Zenon DEF Answers
  <2>4. /\ history' \in HistoryRecord
        /\ history'.outcome = [history.outcome EXCEPT ![m] = o]
        /\ history'.writer = [history.writer EXCEPT ![m] = c]
        /\ history'.ender = IF Completes(c) THEN c ELSE history.ender
    <3>1. history' = Recorded(c, Completes(c))
      BY <2>2, Zenon
    <3> QED
      BY <2>0, <2>1, <3>1, RecordedFacts, SMTT(30)
  <2>5. Records(c, m, o)
    BY <2>1, <2>2, <2>3, <2>4, Zenon DEF Records, Completes
  <2>6. /\ receipts' \in [Rows -> Receipt]
        /\ \A k \in Members \ {m} : receipts'[k] = receipts[k]
        /\ \/ /\ receipts'[m].owner = c /\ receipts'[m].outcome = o
              /\ IF Completes(c) THEN receipts'[0].owner = c ELSE receipts'[0] = receipts[0]
           \/ receipts'[m] = receipts[m] /\ receipts'[0] = receipts[0]
    BY <2>0, <2>1, <2>2, BatchReceiptsFacts, ZenonT(60) DEF RowsTyped
  <2>7. Settled(c) \in BatchRecord /\ Settled(c).allow = batch.allow
    BY <2>0, SettledFacts, Zenon
  <2>8. ReceiptsOK'
    BY <2>1, <2>4, <2>5, <2>6, RecordedReceipts, ZenonT(60)
  <2>9. CallInv' /\ PruneOK'
    BY <1>0, <2>1, <2>2, <2>5, RecordedOthers, Zenon
  <2>10. BatchOK'
    BY <1>0, <1>3, <2>2, <2>4, <2>5, <2>6, SettledBatchOK, ZenonT(60)
  <2>11. RowsTyped'
    <3>1. members' \in [Members -> {"pending", "succeeded", "failed", "gone"}]
      BY <2>0, <2>1, <2>2, Zenon DEF RowsTyped, Outcomes
    <3> QED
      BY <2>2, <2>4, <2>6, <2>7, <3>1, ZenonT(60) DEF RowsTyped
  <2>12. Implements
    <3>1. history'.ender = IF history.ender = Nobody /\ Promise!Ends(history'.outcome) THEN c ELSE history.ender
      BY <1>0, <1>3, <2>1, <2>4, CompletesEnds, Zenon DEF Completes
    <3>2. history.ender # c /\ (Completes(c) <=> history'.ender = c)
      BY <1>0, <2>0, <2>4, Zenon DEF CallOK
    <3>3. \/ calls' = [calls EXCEPT ![c].pc = "readback"]
          \/ \E a \in {"error", "wrote", IF history'.ender = c THEN "ended" ELSE "claimed"} : calls' = Return(c, a)
      BY <2>2, <3>2, Zenon DEF AfterCommit
    <3> QED
      BY <1>0, <2>1, <2>2, <2>5, <2>7, <3>1, <3>3, RecordImplements, ZenonT(60)
  <2> QED
    BY <1>0, <2>2, <2>8, <2>9, <2>10, <2>11, <2>12, ZenonT(60) DEF StoreInv
<1> QED
  BY <1>1, <1>2, <1>3, Zenon

=============================================================================
