SPECIFICATION FairSpec
PROPERTIES AcceptedWorkEnds ShutdownReturns
CONSTANTS
  w1 = w1
  c1 = c1
  s1 = s1
  s2 = s2
  N = 3
  Roots <- MCOneRoot
  Delayed <- MCDelayed
  Unique <- MCNone
  Awaited <- MCAwaited
  Workers <- MCWorkers
  Capacity = 1
  MaxRetry <- MCRetryLast
  Redelivering <- MCNone
  Starters <- MCStarters
  Stoppers <- MCOneStopper
  Deadline <- MCNone
  Controls = {"pause", "resume"}
CHECK_DEADLOCK FALSE
