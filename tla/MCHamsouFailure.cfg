CONSTANTS
  N = 3
  MaxCallId = 3
  MaxCrashes = 1
  Op <- SetOp
  Workloads <- RemoveThenAdd
  FastIsReachableLocal <- SetLocal
  FastIsReachableRemote <- SetRemote
SPECIFICATION FSpec
INVARIANTS
  FTypeOK
  LiveCallsOnce
  NoWaitForTheDead
PROPERTIES
  StablePrefixOnlyGrows
CHECK_DEADLOCK FALSE
