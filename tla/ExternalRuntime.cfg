SPECIFICATION Spec
INVARIANTS NoJobLost AttemptBudget SuccessIsFinal ActiveGaugeExact ClaimIsKept CleanShutdown
CONSTANTS
  N = 2
  Slots = 2
  MaxRetry <- OneRetry
  Variants <- AllVariants
CHECK_DEADLOCK FALSE
