\* Two members or nodes, three deliveries, one fault, a cancel and a Prune.
SPECIFICATION Spec
CONSTANTS
  N = 2
  Variants <- AllVariants
  MaxCalls = 3
  MaxFaults = 1
INVARIANTS
  CountersAgree
  NoCorruptionReported
  NoOrphans
  NoDeadlock
PROPERTIES
  ImplementsWorkflowStore
CHECK_DEADLOCK FALSE
