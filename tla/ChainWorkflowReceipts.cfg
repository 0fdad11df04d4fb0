SPECIFICATION Spec
INVARIANTS NodesInOrder FactsTruthful ContinuationRetained
PROPERTY FirstTransitionWins
CONSTANTS
  N = 2
  MaxRetry = 1
  Callbacks <- NoCallbacks
  MaxEnvelopes = 3
  MaxGenerations = 4
  MaxDisruptions = 2
  Provenance = TRUE
  Deferring = TRUE
  Homes <- AwayOnly
CHECK_DEADLOCK FALSE
