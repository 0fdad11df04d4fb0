--------------------------- MODULE DeliveryQueue ---------------------------
(***************************************************************************)
(* What a durable queue driver promises to the code above it, with no      *)
(* workers, tokens, leases or faults: an accepted job stays live until it  *)
(* is completed or archived, exactly once; it is retried within its        *)
(* budget; its success is announced only together with its completion.     *)
(* Operators may retry, cancel and remove jobs.                            *)
(***************************************************************************)
EXTENDS Naturals

CONSTANTS Jobs, Accepted, MaxRetry

VARIABLES status,    \* where each job is in its life
          failures,  \* failed application attempts of each job
          announced  \* the jobs whose success was announced

vars == <<status, failures, announced>>

Statuses == {"new", "live", "done", "dead", "gone"}

Init ==
  /\ status = [j \in Jobs |-> IF j \in Accepted THEN "live" ELSE "new"]
  /\ failures = [j \in Jobs |-> 0]
  /\ announced = {}

Move(j, from, to) == status[j] \in from /\ status' = [status EXCEPT ![j] = to]

Accept(j) == Move(j, {"new"}, "live") /\ UNCHANGED <<failures, announced>>

\* A driver that cannot confirm the completion announces nothing.
Complete(j) ==
  /\ Move(j, {"live"}, "done")
  /\ announced' \in {announced, announced \cup {j}}
  /\ UNCHANGED failures

Retry(j) ==
  /\ status[j] = "live" /\ failures[j] < MaxRetry[j]
  /\ failures' = [failures EXCEPT ![j] = @ + 1]
  /\ UNCHANGED <<status, announced>>

\* The last permitted failure, or a permanent one.
Archive(j) ==
  /\ Move(j, {"live"}, "dead")
  /\ failures' = [failures EXCEPT ![j] = @ + 1]
  /\ UNCHANGED announced

Operate(j) ==
  /\ Move(j, {"live", "dead"}, "live") \/ Move(j, {"live", "dead"}, "dead")
     \/ Move(j, {"live", "dead"}, "gone")
  /\ UNCHANGED <<failures, announced>>

Clear ==
  /\ status' = [j \in Jobs |-> IF status[j] \in {"live", "dead"} THEN "gone" ELSE status[j]]
  /\ UNCHANGED <<failures, announced>>

Next == Clear \/ \E j \in Jobs : \/ Accept(j) \/ Complete(j) \/ Retry(j)
                                 \/ Archive(j) \/ Operate(j)

Spec == Init /\ [][Next]_vars

\* A live job is eventually completed or archived.
FairSpec == Spec /\ \A j \in Jobs : WF_vars(Complete(j) \/ Archive(j))
=============================================================================
