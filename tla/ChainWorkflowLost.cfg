SPECIFICATION FairSpec
PROPERTY ContinuationRecovered
CONSTANTS
  N = 2
  MaxRetry = 0
  Callbacks <- NoCallbacks
  MaxEnvelopes = 4
  MaxGenerations = 6
  MaxDisruptions = 1
  Provenance = FALSE
  Deferring = FALSE
  Homes <- AwayOnly
CHECK_DEADLOCK FALSE
