--------------------------- MODULE StatsCollector ---------------------------
(***************************************************************************)
(* The Active gauge of queue.StatsCollector: how it is raised and lowered  *)
(* by observer events.  An event reaches the collector with the identity   *)
(* of the settlement boundary its context carries, or with none           *)
(* (NoIdentity), and with its execution key (dispatch, job, attempt).      *)
(* The counters no other step reads (Processed, Failed, Retry, Pending,    *)
(* Scheduled, Archived, Paused, the averages and the throughput windows)   *)
(* are left out.                                                           *)
(***************************************************************************)
EXTENDS Naturals

NoIdentity == 0

NewStatsCollector(keys) ==
  [active |-> 0, activeSettlements |-> {}, activeByKey |-> [k \in keys |-> 0]]

\* A boundary is counted once; an execution without one is counted by its key.
openActive(c, identity, key) ==
  IF identity = NoIdentity
  THEN [c EXCEPT !.activeByKey[key] = @ + 1, !.active = @ + 1]
  ELSE [c EXCEPT !.activeSettlements = @ \cup {identity},
                 !.active = IF identity \in c.activeSettlements THEN @ ELSE @ + 1]

Lowered(n) == IF n > 0 THEN n - 1 ELSE 0

closeByKey(c, key) ==
  IF c.activeByKey[key] = 0 THEN c
  ELSE [c EXCEPT !.activeByKey[key] = @ - 1, !.active = Lowered(@)]

removeSettlement(c, identity) ==
  IF identity \notin c.activeSettlements THEN c
  ELSE [c EXCEPT !.activeSettlements = @ \ {identity}, !.active = Lowered(@)]

closeActive(c, identity, key) ==
  IF identity = NoIdentity THEN closeByKey(c, key) ELSE removeSettlement(c, identity)

\* Mutant: a failed settlement no longer closes the execution it belongs to.
closeSettlementActiveNever(c, identity, key) == c

\* A settlement fact closes nothing unless it carries the exact boundary.
closeSettlementActive(c, identity, key) ==
  IF identity = NoIdentity THEN c ELSE closeActive(c, identity, key)

Observe(c, kind, identity, key) ==
  CASE kind = "process_started" -> openActive(c, identity, key)
    [] kind \in {"process_succeeded", "process_failed"} -> closeActive(c, identity, key)
    [] kind = "settlement_failed" -> closeSettlementActive(c, identity, key)
=============================================================================
