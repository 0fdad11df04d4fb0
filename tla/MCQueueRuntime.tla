--------------------------- MODULE MCQueueRuntime ---------------------------
(***************************************************************************)
(* Instances of QueueRuntime for TLC.  In the drain run jobs 1 and 2 come  *)
(* from outside and share one unique key, job 3 is a delayed continuation  *)
(* that may ask for redelivery, and two Shutdown calls may time out.  In   *)
(* the other run jobs 2 and 3 are continuations whose handler waits for    *)
(* its Dispatch, so that one worker and one buffer slot are enough to lock *)
(* a pool up; job 3 may be retried, and Shutdown has no deadline.          *)
(***************************************************************************)
EXTENDS QueueRuntime, TLC

CONSTANTS w1, c1, s1, s2

MCRoots == {1, 2}
MCOneRoot == {1}
MCDelayed == {2}
MCUnique == {1, 2}
MCAwaited == {2, 3}
MCNone == {}
MCNoRetry == [j \in Jobs |-> 0]
MCRetryLast == [j \in Jobs |-> IF j = N THEN 1 ELSE 0]
MCLast == {N}
MCWorkers == {w1}
MCStarters == {c1}
MCOneStopper == {s1}
MCStoppers == {s1, s2}
MCSymmetry == Permutations(MCStoppers)
=============================================================================
