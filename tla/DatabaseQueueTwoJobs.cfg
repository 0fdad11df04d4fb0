SPECIFICATION FairSpec
CONSTANTS
  w1 = w1
  w2 = w2
  Workers = {w1, w2}
  Jobs = {1, 2}
  Legacy = {1}
  Backoff = {2}
  MaxRetry <- MCRetryTwo
  SkipLocked = FALSE
  FinalizeRetries = 1
  MaxClaims = 3
  MaxDisruptions = 1
PROPERTY ImplementsDeliveryQueue
