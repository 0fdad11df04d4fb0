------------------------------- MODULE Broker -------------------------------
(***************************************************************************)
(* What the RabbitMQ, SQS, NATS and Redis drivers share: the copies of a   *)
(* job's message the broker holds, the goroutines ("slots") of the driver  *)
(* worker that process them, the uniqueness claim of the producer, and the *)
(* statistics collector that observes both.  The broker itself is          *)
(* external: it hands a ready copy to one slot, takes new copies, removes  *)
(* settled ones, and gives a copy back when its hold ends.                 *)
(*                                                                         *)
(* A behaviour runs one variant: a driver, whether the jobs share a unique *)
(* key, which jobs carry a delay or a backoff, and which are dispatched by *)
(* the handler of job 1 instead of a client.                               *)
(***************************************************************************)
EXTENDS Attempt, StatsCollector, FiniteSets, FiniteSetsExt, Bags, BagsExt

CONSTANTS N,         \* number of jobs
          Slots,     \* number of goroutines that run handlers
          MaxRetry,  \* retry budget of each job
          Variants   \* the variants checked, each with a bound on its faults: failed
                     \* calls, lost connections, deadlines, crashes, operators

Jobs == 1..N
SlotIds == 1..Slots
Nobody == 0

ASSUME BrokerAssumption ==
  /\ N \in Nat \ {0} /\ Slots \in Nat \ {0}
  /\ MaxRetry \in [Jobs -> Nat]
  /\ \A v \in Variants : /\ v.driver \in {"rabbitmq", "sqs", "nats", "redis"}
                         /\ v.faults \in Nat
                         /\ v.keyed \in BOOLEAN
                         /\ v.delayed \subseteq Jobs /\ v.backoff \subseteq Jobs
                         /\ v.children \subseteq Jobs \ {1}

VARIABLES variant,   \* what this behaviour is about
          ready,     \* the copies a worker may receive: a bag of messages
          parked,    \* the copies a NATS worker keeps until they are due; the tasks Asynq archived
          slots,     \* the worker's goroutines
          collector, \* the statistics collector
          claim,     \* the job that owns the unique key, or Nobody
          disp,      \* progress of each Dispatch call
          worker,    \* lifecycle of the driver worker
          runtime,   \* lifecycle of the external runtime
          past,      \* history the properties refer to
          faults     \* faults so far

Driver(d) == variant.driver = d

Message(j, a, due) == [job |-> j, attempt |-> a, due |-> due]

\* held: the broker keeps the copy for this slot until it is settled.
IdleSlot == [pc |-> "idle", job |-> 0, attempt |-> 0, due |-> FALSE, held |-> FALSE, err |-> "nil"]
Keys == UNION {{<<j, a>> : a \in 0..(MaxRetry[j] + 1)} : j \in Jobs}

\* loops: messages are taken in; open: settlement and publishing can reach the
\* broker; spent: a NATS worker that was stopped.
NoWorker == [started |-> FALSE, stopping |-> FALSE, loops |-> FALSE, open |-> FALSE, spent |-> FALSE]

\* Job 1's type is registered when the runtime is built.
NewRuntime == [start |-> "no", started |-> FALSE, worker |-> FALSE, draining |-> FALSE,
               closed |-> FALSE, stop |-> "no", registered |-> {1}, handlers |-> {}, owed |-> {1}]

\* sent: the broker took the dispatched message; lapsed: the claim ended by its
\* TTL or with its process; cancelled: the claim was given up although the
\* message may be stored; ended: an attempt succeeded or failed for good;
\* excused: dropped without a handler or by an operator, or a loss NATS
\* documents; copied: the broker may hold a second copy, because a hold ended
\* or an answer was lost; facts: a success fact was published; unclassified: the
\* last attempt of a Redis task ended without the driver's verdict; abandoned:
\* Asynq gave up waiting for a handler.
NoPast == [sent |-> {}, lapsed |-> {}, cancelled |-> {}, ended |-> {}, excused |-> {},
           copied |-> {}, facts |-> {}, unclassified |-> {}, abandoned |-> FALSE]

Init ==
  /\ variant \in Variants
  /\ ready = EmptyBag
  /\ parked = EmptyBag
  /\ slots = [s \in SlotIds |-> IdleSlot]
  /\ collector = NewStatsCollector(Keys)
  /\ claim = Nobody
  /\ disp = [j \in Jobs |-> "new"]
  /\ worker = NoWorker
  /\ runtime = NewRuntime
  /\ past = NoPast
  /\ faults = 0

Fault == faults < variant.faults /\ faults' = faults + 1
Charged(o) == IF o = "ok" THEN UNCHANGED faults ELSE Fault

\* How a call to the broker ends: it takes effect, it fails without effect, or
\* it takes effect and reports an error.
Outcomes == {"ok", "failed", "unclear"}

(***************************************************************************)
(* The broker                                                              *)
(***************************************************************************)
\* The message in a slot, and what the broker has when it takes that copy back.
Copy(s) == Message(slots[s].job, slots[s].attempt, slots[s].due)
Returned(s) == IF slots[s].held THEN BagAdd(ready, Copy(s)) ELSE ready

\* Every copy held for a slot goes back; the slots go on without them, and what
\* they have in hand is a second copy.
Held == {s \in SlotIds : slots[s].held}
WithCopies(bag, S) == FoldSet(LAMBDA s, b : BagAdd(b, Copy(s)), bag, S)
AllReturned == WithCopies(ready, Held)
AllLetGo == [s \in SlotIds |-> [slots[s] EXCEPT !.held = FALSE]]
Duplicated(S) == [past EXCEPT !.copied = @ \cup {slots[s].job : s \in S}]

\* Time passes: the delay of a message is over.
BecomeDue(m) ==
  /\ ~m.due
  /\ ready' = BagAdd(BagRemove(ready, m), [m EXCEPT !.due = TRUE])
  /\ UNCHANGED <<variant, parked, slots, collector, claim, disp, worker, runtime, past, faults>>

\* The hold on the copy of a busy slot runs out while its handler or its
\* settlement is still in progress.
HoldExpires(s) ==
  /\ slots[s].held
  /\ Fault
  /\ ready' = Returned(s)
  /\ slots' = [slots EXCEPT ![s].held = FALSE]
  /\ past' = Duplicated({s})
  /\ UNCHANGED <<variant, parked, collector, claim, disp, worker, runtime>>

(***************************************************************************)
(* Dispatch                                                                *)
(***************************************************************************)
\* A message that no subscription takes is gone: Core NATS keeps nothing.
Kept == ~Driver("nats") \/ worker.loops

\* The dispatched message of job j reaches the broker.
Sends(j) ==
  ready' = IF Kept THEN BagAdd(ready, Message(j, 0, j \notin variant.delayed)) ELSE ready

Sent(j, arrived) ==
  [past EXCEPT !.sent = IF arrived THEN @ \cup {j} ELSE @,
               !.excused = IF arrived /\ ~Kept THEN @ \cup {j} ELSE @]

Delivery(j, arrived) ==
  IF arrived THEN Sends(j) ELSE UNCHANGED ready

\* Acquire claims the key for j unless a live claim exists; the job is the token.
Acquires(j) == ~variant.keyed \/ claim = Nobody
Acquired(j) == IF variant.keyed THEN j ELSE claim

\* Mutant: the token is not compared.
ReleaseAny(j) == Nobody

\* Release removes the claim only while j still owns it.
Release(j) == IF claim = j THEN Nobody ELSE claim

\* The claim's TTL is over.
ExpireClaim ==
  /\ claim # Nobody
  /\ Fault
  /\ claim' = Nobody
  /\ past' = [past EXCEPT !.lapsed = @ \cup {claim}]
  /\ UNCHANGED <<variant, ready, parked, slots, collector, disp, worker, runtime>>

DispatchEnds(j) == disp' = [disp EXCEPT ![j] = "done"]

(***************************************************************************)
(* One delivery in a slot                                                  *)
(***************************************************************************)
\* RabbitMQ and SQS run a handler under a settlement boundary; the collector
\* sees its identity, one per invocation.
Deferring == variant.driver \in {"rabbitmq", "sqs"}
Identity(s) == IF Deferring THEN s ELSE NoIdentity
Key(s) == <<slots[s].job, slots[s].attempt>>

\* The lowest idle slot takes a copy of message m.
Takes(s, m) ==
  /\ BagIn(m, ready)
  /\ slots[s].pc = "idle" /\ \A t \in SlotIds : t < s => slots[t].pc # "idle"

Taken(m, pc, held) ==
  [pc |-> pc, job |-> m.job, attempt |-> m.attempt, due |-> m.due, held |-> held, err |-> "nil"]

\* wrapObservedHandler: a started fact opens the execution.
Starts(s, m, pc) ==
  IF pc # "run" THEN collector
  ELSE Observe(collector, "process_started", Identity(s), <<m.job, m.attempt>>)

\* A message whose type has no handler is dropped; nobody is owed it unless the
\* type was registered before the drain.
Unserved(m, pc) ==
  IF pc = "drop" /\ m.job \notin runtime.owed
  THEN [past EXCEPT !.excused = @ \cup {m.job}] ELSE past

Decision(s, err) == ClassifyAttempt(slots[s].attempt, MaxRetry[slots[s].job], err)

\* The fact that an attempt is over, and the jobs whose success is public.
ObserveFinish(s, err) ==
  [collector |-> Observe(collector, IF err = "nil" THEN "process_succeeded" ELSE "process_failed",
                         Identity(s), Key(s)),
   facts |-> IF err = "nil" THEN past.facts \cup {slots[s].job} ELSE past.facts]

\* What is published when the handler returns: a failure at once, a success at
\* once only where the driver has no settlement boundary.
Finishes(s, err) ==
  IF err = "nil" /\ Deferring THEN [collector |-> collector, facts |-> past.facts]
  ELSE ObserveFinish(s, err)

\* The verdict stands: success, or a last failure of a copy still in hand.
Final(s, err) ==
  \/ Decision(s, err) = "succeeded"
  \/ Decision(s, err) = "failed" /\ (slots[s].held \/ Driver("nats"))

HandlerReturns(s, err, pc) ==
  LET f == Finishes(s, err)
  IN  /\ slots[s].pc = "run"
      /\ slots' = [slots EXCEPT ![s] = IF pc = "idle" THEN IdleSlot ELSE [@ EXCEPT !.pc = pc, !.err = err]]
      /\ ready' = IF pc = "idle" THEN Returned(s) ELSE ready
      /\ collector' = f.collector
      /\ past' = [past EXCEPT !.facts = f.facts,
                              !.ended = IF Final(s, err) THEN @ \cup {slots[s].job} ELSE @]
      /\ UNCHANGED <<variant, parked, claim, disp, worker, runtime, faults>>

\* Commit publishes the success that waited; a failed settlement closes the
\* execution instead.
Succeeds(s) == slots[s].pc = "ack" /\ slots[s].err = "nil"
CommitSettlement(s, history) ==
  /\ collector' = IF Succeeds(s) THEN Observe(collector, "process_succeeded", Identity(s), Key(s))
                  ELSE collector
  /\ past' = IF Succeeds(s) THEN [history EXCEPT !.facts = @ \cup {slots[s].job}] ELSE history

\* A replacement is queued and the original is still to be settled: a message
\* that came early, or a retry.
Replaced(s) == \/ slots[s].pc = "drop" /\ ~slots[s].due
               \/ slots[s].pc = "ack" /\ Decision(s, slots[s].err) = "retry"

\* The fact carries the boundary only when a handler ran under it.
SettlementFailed(s) ==
  /\ collector' = Observe(collector, "settlement_failed",
                          IF slots[s].pc = "ack" \/ slots[s].err # "nil" THEN Identity(s) ELSE NoIdentity,
                          Key(s))
  /\ past' = IF Replaced(s) THEN Duplicated({s}) ELSE past

Finish(s) == slots' = [slots EXCEPT ![s] = IdleSlot]
Idle == \A s \in SlotIds : slots[s].pc = "idle"
=============================================================================
