CONSTANTS
  N = 3
  MaxCallId = 2
  Op <- SetOp
  Workloads <- Between
  FastIsReachableLocal <- SetLocal
  FastIsReachableRemote <- SetRemote
SPECIFICATION Spec
CONSTRAINT NoEarlyAck
INVARIANTS
  StableOrderAgreement
  StableRespectsCausality
CHECK_DEADLOCK FALSE
