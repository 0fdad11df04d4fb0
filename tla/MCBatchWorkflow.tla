-------------------------- MODULE MCBatchWorkflow --------------------------
(***************************************************************************)
(* Instances of BatchWorkflow for TLC.                                     *)
(***************************************************************************)
EXTENDS BatchWorkflow, TLC

HomeOnly == {TRUE}
AwayOnly == {FALSE}
ThenOnly == {"then"}
NoCallbacks == {}
=============================================================================
