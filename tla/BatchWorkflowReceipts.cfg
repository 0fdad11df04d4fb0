SPECIFICATION Spec
INVARIANTS TerminalOwner FactsTruthful
PROPERTY FirstOutcomeWins
CONSTANTS
  N = 2
  MaxRetry = 1
  AllowFailed = FALSE
  Callbacks <- NoCallbacks
  MaxEnvelopes = 2
  MaxGenerations = 3
  MaxDisruptions = 2
  Provenance = TRUE
  Deferring = TRUE
  Homes <- AwayOnly
CHECK_DEADLOCK FALSE
