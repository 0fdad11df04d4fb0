SPECIFICATION Spec
CONSTANTS
  w1 = w1
  w2 = w2
  Workers = {w1, w2}
  Jobs = {1}
  Legacy = {}
  Backoff = {}
  MaxRetry <- MCRetryOne
  SkipLocked = TRUE
  FinalizeRetries = 2
  MaxClaims = 5
  MaxDisruptions = 3
SYMMETRY MCWorkers
INVARIANTS OpenClaimFencesRow AttemptCountsFailures RecoveryProofTruthful ReceiptLineageKept FactsFollowSettlement
PROPERTY EndedClaimsStayEnded
