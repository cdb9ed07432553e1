CONSTANTS
  N = 3
  MaxCallId = 3
  Op <- MovieOp
  Workloads <- TwoTables
  FastIsReachableLocal <- MovieReachable
  FastIsReachableRemote <- MovieReachable
SPECIFICATION ScheduledSpec
CONSTRAINT NoEarlyAck
INVARIANTS
  StableOrderAgreement
CHECK_DEADLOCK FALSE
