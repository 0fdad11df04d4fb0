------------------------- MODULE MCWorkflowStoreSQL -------------------------
(***************************************************************************)
(* Instances of WorkflowStoreSQL for TLC.  SQLite runs one transaction at  *)
(* a time, so most variants are about PostgreSQL's row locks.              *)
(***************************************************************************)
EXTENDS WorkflowStoreSQL

Batch(database, provenance, allowFailed) ==
  [kind |-> "batch", dialect |-> database, valid |-> provenance, allow |-> allowFailed]
Chain(database, provenance) ==
  [kind |-> "chain", dialect |-> database, valid |-> provenance, allow |-> FALSE]

AllVariants == {Batch("postgres", TRUE, TRUE), Batch("postgres", TRUE, FALSE),
                Batch("postgres", FALSE, FALSE), Batch("sqlite", TRUE, TRUE),
                Chain("postgres", TRUE), Chain("postgres", FALSE), Chain("sqlite", TRUE)}
=============================================================================
