SPECIFICATION Spec
CONSTANTS
  Processes = {"p1", "p2"}
  Dispatches = {"d1", "d2", "d3", "c"}
  Proc <- MCProc
  Identities = {"id", "other"}
  Identity <- MCIdentity
  Digests = {"x", "y"}
  Digest <- MCDigest
  Continuations = {"c"}
  Scenes <- MCScenes
  MySQL = TRUE
  PruneInterval = 1
  TTL = 1
  MaxClock = 2
  MaxFaults = 1
INVARIANTS ClaimsTruthful ConcurrentStartsConverge ClosedWhenQuiet
CHECK_DEADLOCK FALSE
