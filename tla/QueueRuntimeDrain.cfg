SPECIFICATION Spec
INVARIANTS CleanShutdown NoSendOnClosedQueue AcceptedBeforeRun RegisteredIsServed
PROPERTIES DrainIsFinal AcceptedClaimIsKept
CONSTANTS
  w1 = w1
  c1 = c1
  s1 = s1
  s2 = s2
  N = 3
  Roots <- MCRoots
  Delayed <- MCLast
  Unique <- MCUnique
  Awaited <- MCNone
  Workers <- MCWorkers
  Capacity = 1
  MaxRetry <- MCNoRetry
  Redelivering <- MCLast
  Starters <- MCStarters
  Stoppers <- MCStoppers
  Deadline <- MCStoppers
  Controls = {}
SYMMETRY MCSymmetry
CHECK_DEADLOCK FALSE
