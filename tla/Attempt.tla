------------------------------ MODULE Attempt ------------------------------
(***************************************************************************)
(* How one physical delivery attempt is classified (busruntime).  Every    *)
(* driver and the workflow engine share this decision.  An application     *)
(* error is abstracted to the marker it carries: none, Permanent or        *)
(* Uncommitted.                                                            *)
(***************************************************************************)
EXTENDS Naturals

\* What a handler can return.
Errors == {"nil", "error", "permanent", "uncommitted"}

\* The four dispositions of a delivery.
Decisions == {"succeeded", "retry", "failed", "redeliver"}

\* The final physical attempt: nothing may follow it as a retry.
Exhausted(number, maxRetry) == number >= maxRetry

\* Uncommitted outranks Permanent and exhaustion: the attempt is not consumed.
ClassifyAttempt(number, maxRetry, err) ==
  IF err = "nil" THEN "succeeded"
  ELSE IF err = "uncommitted" THEN "redeliver"
  ELSE IF err = "permanent" \/ Exhausted(number, maxRetry) THEN "failed"
  ELSE "retry"
=============================================================================
