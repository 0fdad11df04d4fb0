-------------------------- MODULE MCDatabaseQueue --------------------------
(***************************************************************************)
(* Instances of DatabaseQueue for TLC: one job with a retry and five       *)
(* claims, for what tokens and receipts must keep; and two jobs, one of    *)
(* them left in processing by an older release, for the refinement.        *)
(***************************************************************************)
EXTENDS DatabaseQueue, TLC

CONSTANTS w1, w2

MCRetryOne == (1 :> 1)
MCRetryTwo == (1 :> 0 @@ 2 :> 0)
MCWorkers == Permutations(Workers)
=============================================================================
