CONSTANTS
  N = 3
  MaxCallId = 2
  Op <- SetOp
  Workloads <- Between
  FastIsReachableLocal <- SetLocal
  FastIsReachableRemote <- SetRemote
SPECIFICATION Spec
INVARIANTS
  StableOrderAgreement
CHECK_DEADLOCK FALSE
