CONSTANTS
  N = 2
  MaxCallId = 2
  Op <- Project
  Workloads <- ProjectWorkloads
  FastIsReachableLocal <- ProjectReachable
  FastIsReachableRemote <- ProjectReachable
  States <- ProjectStates
  InitialState <- EmptyProject
  UpdateCurrentState <- ProjectUpdateCurrent
  UpdateStableState <- ProjectUpdate
SPECIFICATION ObjectSpec
INVARIANTS
  StableExecutedEverywhere
  StableStatesConverge
  OptimismConfirmed
CHECK_DEADLOCK FALSE
