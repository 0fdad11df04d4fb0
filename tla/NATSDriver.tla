----------------------------- MODULE NATSDriver -----------------------------
(***************************************************************************)
(* driver/natsqueue over Core NATS: a message goes to the subscription     *)
(* that exists when it is published, or nowhere.  The worker holds the     *)
(* only copy while it runs a handler or waits for a delay, and publishes   *)
(* it again for a retry, a redelivery or after the delay.                  *)
(***************************************************************************)
EXTENDS Broker

NATS == Driver("nats")

(***************************************************************************)
(* Producer                                                                *)
(***************************************************************************)
\* "failed": Publish refused the message; "unclear": the flush failed.
NATSArrives(o) == CASE o = "ok" -> {TRUE} [] o = "failed" -> {FALSE} [] o = "unclear" -> BOOLEAN

NATSDispatch(j, o, arrived) ==
  /\ NATS /\ disp[j] = "publishing"
  /\ arrived \in NATSArrives(o)
  /\ Charged(o)
  /\ Delivery(j, arrived)
  /\ claim' = IF o = "failed" THEN Release(j) ELSE claim
  /\ past' = Sent(j, arrived)
  /\ DispatchEnds(j)
  /\ UNCHANGED <<variant, parked, slots, collector, worker, runtime>>

(***************************************************************************)
(* Worker                                                                  *)
(***************************************************************************)
\* A worker that was stopped cannot be started again.
NATSCanStart(w) == ~w.spent
NATSWorkerStarted(w) == [w EXCEPT !.started = TRUE, !.loops = TRUE, !.open = TRUE]

\* Drain ends the subscription; what it had buffered is still delivered.
NATSWorkerStopping(w) == [w EXCEPT !.stopping = TRUE, !.loops = FALSE]

NATSWorkerDrained == Idle /\ ready = EmptyBag /\ parked = EmptyBag
NATSWorkerStopped(w) == [NoWorker EXCEPT !.spent = TRUE]

NATSReceive(s, m) ==
  /\ NATS /\ worker.started /\ Takes(s, m)
  /\ ready' = BagRemove(ready, m)
  /\ \/ /\ ~m.due
        /\ parked' = BagAdd(parked, m)
        /\ UNCHANGED <<slots, collector, past>>
     \/ /\ m.due /\ m.job \notin runtime.handlers
        /\ past' = Unserved(m, "drop")
        /\ UNCHANGED <<parked, slots, collector>>
     \/ /\ m.due /\ m.job \in runtime.handlers
        /\ slots' = [slots EXCEPT ![s] = Taken(m, "run", FALSE)]
        /\ collector' = Starts(s, m, "run")
        /\ UNCHANGED <<parked, past>>
  /\ UNCHANGED <<variant, claim, disp, worker, runtime, faults>>

NATSReturns(s, err) ==
  /\ NATS
  /\ HandlerReturns(s, err, IF Decision(s, err) \in {"succeeded", "failed"} THEN "idle" ELSE "publish")

\* What becomes of message m when the worker publishes it again.
Republished(m, o) ==
  /\ Charged(o)
  /\ IF o # "failed" /\ worker.loops
     THEN ready' = BagAdd(ready, m) /\ UNCHANGED past
     ELSE UNCHANGED ready /\ past' = [past EXCEPT !.excused = @ \cup {m.job}]

\* A redelivery keeps the attempt, a retry counts one more.
NATSRepublish(s, o) ==
  LET m == slots[s]
      retry == Decision(s, m.err) = "retry"
  IN  /\ NATS /\ m.pc = "publish"
      /\ Republished(Message(m.job, IF retry THEN m.attempt + 1 ELSE m.attempt,
                             ~(retry /\ m.job \in variant.backoff)), o)
      /\ Finish(s)
      /\ UNCHANGED <<variant, parked, collector, claim, disp, worker, runtime>>

\* The delay is over: the timer publishes the message again, as it was.
NATSTimer(m, o) ==
  /\ NATS /\ worker.started
  /\ parked' = BagRemove(parked, m)
  /\ Republished([m EXCEPT !.due = TRUE], o)
  /\ UNCHANGED <<variant, slots, collector, claim, disp, worker, runtime>>

NATSSlot(s) ==
  \/ \E m \in DOMAIN ready : NATSReceive(s, m)
  \/ \E err \in Errors : NATSReturns(s, err)
  \/ \E o \in Outcomes : NATSRepublish(s, o)
=============================================================================
