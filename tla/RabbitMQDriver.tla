--------------------------- MODULE RabbitMQDriver ---------------------------
(***************************************************************************)
(* driver/rabbitmqqueue: a producer that publishes with confirms, and a    *)
(* worker whose goroutines share one channel.  The broker gives back every *)
(* unacknowledged copy when the channel closes.                            *)
(***************************************************************************)
EXTENDS Broker

Rabbit == Driver("rabbitmq")

(***************************************************************************)
(* Producer                                                                *)
(***************************************************************************)
\* How enqueueWithReconnectLocked ends.  "failed": no connection even after one
\* reconnect, or a negative confirmation; "unclear": the send or its
\* confirmation failed; "cancelled": the caller's context ended after the send
\* and before the wait for the confirmation.
RabbitEnqueues == {"ok", "failed", "unclear", "cancelled"}
RabbitArrives(o) == CASE o = "ok" -> {TRUE} [] o = "failed" -> {FALSE} [] OTHER -> BOOLEAN

isRabbitPublishAmbiguous(o) == o = "unclear"

RabbitDispatch(j, o, arrived) ==
  /\ Rabbit /\ disp[j] = "publishing"
  /\ arrived \in RabbitArrives(o)
  /\ Charged(o)
  /\ Delivery(j, arrived)
  /\ claim' = IF o = "ok" \/ isRabbitPublishAmbiguous(o) THEN claim ELSE Release(j)
  /\ past' = [Sent(j, arrived) EXCEPT !.cancelled = IF o = "cancelled" THEN @ \cup {j} ELSE @]
  /\ DispatchEnds(j)
  /\ UNCHANGED <<variant, parked, slots, collector, worker, runtime>>

(***************************************************************************)
(* Worker                                                                  *)
(***************************************************************************)
RabbitWorkerStarted(w) == [w EXCEPT !.started = TRUE, !.loops = TRUE, !.open = TRUE]

\* Shutdown cancels the loops; a goroutine waits for them and then closes.
RabbitWorkerStopping(w) == [w EXCEPT !.stopping = TRUE, !.loops = FALSE]
RabbitWorkerDrained == Idle
RabbitWorkerStopped(w) == NoWorker

\* The channel closes under the worker: the delivery loops end and the worker
\* does not reconnect.
RabbitChannelCloses == [worker EXCEPT !.open = FALSE, !.loops = FALSE]

RabbitConnectionLost ==
  /\ Rabbit /\ worker.open
  /\ Fault
  /\ worker' = RabbitChannelCloses
  /\ ready' = AllReturned /\ slots' = AllLetGo
  /\ past' = Duplicated(Held)
  /\ UNCHANGED <<variant, parked, collector, claim, disp, runtime>>

RabbitReceive(s, m) ==
  LET pc == IF ~m.due THEN "early"
            ELSE IF m.job \notin runtime.handlers THEN "drop" ELSE "run"
  IN  /\ Rabbit /\ worker.loops /\ Takes(s, m)
      /\ ready' = BagRemove(ready, m)
      /\ slots' = [slots EXCEPT ![s] = Taken(m, pc, TRUE)]
      /\ collector' = Starts(s, m, pc)
      /\ past' = Unserved(m, pc)
      /\ UNCHANGED <<variant, parked, claim, disp, worker, runtime, faults>>

RabbitReturns(s, err) ==
  /\ Rabbit
  /\ HandlerReturns(s, err, CASE Decision(s, err) \in {"succeeded", "failed"} -> "ack"
                              [] Decision(s, err) = "redeliver" -> "nack"
                              [] Decision(s, err) = "retry" -> "publish")

\* The replacement is confirmed before the original is acknowledged.  A message
\* that came early keeps its attempt; a retry counts one more.
RabbitPublish(s, o) ==
  LET m == slots[s]
      retry == m.pc = "publish"
  IN  /\ Rabbit /\ m.pc \in {"early", "publish"}
      /\ IF worker.open THEN Charged(o) ELSE o = "failed" /\ UNCHANGED faults
      /\ ready' = IF o = "failed" THEN ready
                  ELSE BagAdd(ready, Message(m.job, IF retry THEN m.attempt + 1 ELSE m.attempt,
                                             retry /\ m.job \notin variant.backoff))
      /\ slots' = [slots EXCEPT ![s].pc = IF o # "ok" THEN "nack" ELSE IF retry THEN "ack" ELSE "drop"]
      /\ past' = IF o = "unclear" THEN Duplicated({s}) ELSE past
      /\ UNCHANGED <<variant, parked, collector, claim, disp, worker, runtime>>

\* An acknowledgement has no answer: it may be written and lost with the
\* connection ("lost"), and the driver commits all the same.
RabbitAck(s, o) ==
  /\ Rabbit /\ slots[s].pc \in {"ack", "drop"}
  /\ \/ /\ o = "ok" /\ worker.open
        /\ Finish(s) /\ CommitSettlement(s, past) /\ UNCHANGED <<ready, worker, faults>>
     \/ /\ o = "lost" /\ worker.open
        /\ Fault
        /\ worker' = RabbitChannelCloses
        /\ ready' = AllReturned /\ slots' = [AllLetGo EXCEPT ![s] = IdleSlot]
        /\ CommitSettlement(s, Duplicated(Held))
     \/ /\ o = "failed" /\ ~worker.open
        /\ Finish(s) /\ SettlementFailed(s) /\ UNCHANGED <<ready, worker, faults>>
  /\ UNCHANGED <<variant, parked, claim, disp, runtime>>

RabbitNack(s) ==
  /\ Rabbit /\ slots[s].pc = "nack"
  /\ IF worker.open THEN ready' = Returned(s) /\ UNCHANGED <<collector, past>>
     ELSE UNCHANGED ready /\ SettlementFailed(s)
  /\ Finish(s)
  /\ UNCHANGED <<variant, parked, claim, disp, worker, runtime, faults>>

RabbitSlot(s) ==
  \/ \E m \in DOMAIN ready : RabbitReceive(s, m)
  \/ \E err \in Errors : RabbitReturns(s, err)
  \/ \E o \in Outcomes : RabbitPublish(s, o)
  \/ \E o \in {"ok", "lost", "failed"} : RabbitAck(s, o)
  \/ RabbitNack(s)
=============================================================================
