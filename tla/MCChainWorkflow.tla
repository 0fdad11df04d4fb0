-------------------------- MODULE MCChainWorkflow --------------------------
(***************************************************************************)
(* Instances of ChainWorkflow for TLC.                                     *)
(***************************************************************************)
EXTENDS ChainWorkflow, TLC

BothPlaces == {TRUE, FALSE}
HomeOnly == {TRUE}
AwayOnly == {FALSE}
BothCallbacks == {"catch", "finally"}
NoCallbacks == {}
=============================================================================
