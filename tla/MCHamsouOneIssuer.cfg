CONSTANTS
  N = 3
  MaxCallId = 3
  Op <- SetOp
  Workloads <- OneIssuer
  FastIsReachableLocal <- SetLocal
  FastIsReachableRemote <- SetRemote
SPECIFICATION FairSpec
PROPERTIES
  RefusedCallProceeds
  QueueDrains
  SomeNodeFinishes
CHECK_DEADLOCK FALSE
