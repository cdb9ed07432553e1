CONSTANTS
  N = 3
  MaxCallId = 2
  InitialRows = 1
  Op <- FourCallsOps
  Workloads <- FourCalls
SPECIFICATION Spec
INVARIANTS
  AllReplayed
CHECK_DEADLOCK FALSE
