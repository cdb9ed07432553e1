CONSTANTS
  N = 3
  MaxCallId = 2
  InitialRows = 1
  Op <- MixedOps
  Workloads <- Mixed
SPECIFICATION FairSpec
INVARIANTS
  EcrosTypeOK
  GraphsAgree
  CommutingCallsConverge
PROPERTIES
  ImplementsStability
  OwnCallsCommit
CHECK_DEADLOCK FALSE
