CONSTANTS
  N = 3
  MaxCalls = 2
  Workloads <- Concurrent
SPECIFICATION CrdtSpec
INVARIANTS
  CrdtTypeOK
  BarrierHolds
  NoCallBeforeSetVars
  UpdatesAccountedFor
  FinishedMeansApplied
PROPERTIES
  UpdatesArrive
CHECK_DEADLOCK FALSE
