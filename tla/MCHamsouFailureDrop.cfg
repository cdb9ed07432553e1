CONSTANTS
  N = 3
  MaxCallId = 2
  MaxCrashes = 1
  Op <- SetOp
  Workloads <- OneCall
  FastIsReachableLocal <- SetLocal
  FastIsReachableRemote <- SetRemote
SPECIFICATION FSpec
PROPERTY DroppedNowhereElse
CHECK_DEADLOCK FALSE
