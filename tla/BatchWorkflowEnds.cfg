SPECIFICATION FairSpec
INVARIANT CallbackAtMostOnce
PROPERTY BatchEnds
CONSTANTS
  N = 2
  MaxRetry = 0
  AllowFailed = TRUE
  Callbacks <- ThenOnly
  MaxEnvelopes = 3
  MaxGenerations = 4
  MaxDisruptions = 1
  Provenance = FALSE
  Deferring = FALSE
  Homes <- HomeOnly
CHECK_DEADLOCK FALSE
