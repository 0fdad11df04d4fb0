SPECIFICATION FairSpec
INVARIANT CallbackAtMostOnce
PROPERTY ChainEnds
CONSTANTS
  N = 2
  MaxRetry = 0
  Callbacks <- BothCallbacks
  MaxEnvelopes = 4
  MaxGenerations = 5
  MaxDisruptions = 1
  Provenance = FALSE
  Deferring = FALSE
  Homes <- HomeOnly
CHECK_DEADLOCK FALSE
