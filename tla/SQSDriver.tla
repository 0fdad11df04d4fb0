----------------------------- MODULE SQSDriver -----------------------------
(***************************************************************************)
(* driver/sqsqueue: a producer that sends messages, and a worker that      *)
(* receives, replaces and deletes them by receipt.  A copy that is not     *)
(* deleted reappears when its visibility timeout is over, even while its   *)
(* handler still runs.                                                     *)
(***************************************************************************)
EXTENDS Broker

SQS == Driver("sqs")

(***************************************************************************)
(* Producer                                                                *)
(***************************************************************************)
\* "failed": the queue could not be resolved, nothing was sent; "unclear": the
\* send failed or returned no message id.
SQSArrives(o) == CASE o = "ok" -> {TRUE} [] o = "failed" -> {FALSE} [] o = "unclear" -> BOOLEAN

SQSDispatch(j, o, arrived) ==
  /\ SQS /\ disp[j] = "publishing"
  /\ arrived \in SQSArrives(o)
  /\ Charged(o)
  /\ Delivery(j, arrived)
  /\ claim' = IF o = "failed" THEN Release(j) ELSE claim
  /\ past' = Sent(j, arrived)
  /\ DispatchEnds(j)
  /\ UNCHANGED <<variant, parked, slots, collector, worker, runtime>>

(***************************************************************************)
(* Worker                                                                  *)
(***************************************************************************)
SQSWorkerStarted(w) == [w EXCEPT !.started = TRUE, !.loops = TRUE, !.open = TRUE]
SQSWorkerStopping(w) == [w EXCEPT !.stopping = TRUE, !.loops = FALSE]
SQSWorkerDrained == Idle
SQSWorkerStopped(w) == NoWorker

\* A receive loop processes what it received one message after the other.
SQSReceive(s, m) ==
  LET pc == IF ~m.due THEN "early"
            ELSE IF m.job \notin runtime.handlers THEN "drop" ELSE "run"
  IN  /\ SQS /\ worker.loops /\ Takes(s, m)
      /\ ready' = BagRemove(ready, m)
      /\ slots' = [slots EXCEPT ![s] = Taken(m, pc, TRUE)]
      /\ collector' = Starts(s, m, pc)
      /\ past' = Unserved(m, pc)
      /\ UNCHANGED <<variant, parked, claim, disp, worker, runtime, faults>>

SQSVisibilityTimeout(s) == SQS /\ HoldExpires(s)

\* A redelivery is left to the visibility timeout.
SQSReturns(s, err) ==
  /\ SQS
  /\ HandlerReturns(s, err, CASE Decision(s, err) \in {"succeeded", "failed"} -> "ack"
                              [] Decision(s, err) = "redeliver" -> "idle"
                              [] Decision(s, err) = "retry" -> "publish")

\* Mutant: the original is deleted whatever became of its replacement.
AfterRepublishAnyway(pc, o) == IF pc = "publish" THEN "ack" ELSE "drop"

\* A replacement that failed leaves the original to the visibility timeout.
AfterRepublish(pc, o) == IF o # "ok" THEN "idle" ELSE IF pc = "publish" THEN "ack" ELSE "drop"

SQSRepublish(s, o) ==
  LET m == slots[s]
      retry == m.pc = "publish"
      next == AfterRepublish(m.pc, o)
      rest == IF next = "idle" THEN Returned(s) ELSE ready
  IN  /\ SQS /\ m.pc \in {"early", "publish"}
      /\ Charged(o)
      /\ ready' = IF o = "failed" THEN rest
                  ELSE BagAdd(rest, Message(m.job, IF retry THEN m.attempt + 1 ELSE m.attempt,
                                            retry /\ m.job \notin variant.backoff))
      /\ slots' = [slots EXCEPT ![s] = IF next = "idle" THEN IdleSlot ELSE [@ EXCEPT !.pc = next]]
      /\ past' = IF o = "unclear" THEN Duplicated({s}) ELSE past
      /\ UNCHANGED <<variant, parked, collector, claim, disp, worker, runtime>>

\* Mutant: whatever became of the deletion.
deleteAndObserveAnyway(o) == TRUE

\* Whether the delivery reached positive settlement.
deleteAndObserve(o) == o = "ok"

\* A deletion that failed leaves the copy to its visibility timeout.  With an
\* old receipt it succeeds and the later delivery of the copy stays.
SQSDelete(s, o) ==
  /\ SQS /\ slots[s].pc \in {"ack", "drop"}
  /\ Charged(o)
  /\ ready' = IF o = "failed" THEN Returned(s) ELSE ready
  /\ IF deleteAndObserve(o) THEN CommitSettlement(s, past) ELSE SettlementFailed(s)
  /\ Finish(s)
  /\ UNCHANGED <<variant, parked, claim, disp, worker, runtime>>

SQSSlot(s) ==
  \/ \E m \in DOMAIN ready : SQSReceive(s, m)
  \/ \E err \in Errors : SQSReturns(s, err)
  \/ \E o \in Outcomes : SQSRepublish(s, o)
  \/ \E o \in Outcomes : SQSDelete(s, o)
  \/ SQSVisibilityTimeout(s)
=============================================================================
