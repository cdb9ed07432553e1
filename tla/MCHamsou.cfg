CONSTANTS
  N = 3
  MaxCallId = 3
  Op <- SetOp
  Workloads <- Overtake
  FastIsReachableLocal <- SetLocal
  FastIsReachableRemote <- SetRemote
SPECIFICATION Spec
INVARIANTS
  TypeOK
  StableExecutedEverywhere
  ExactlyOnce
  AcksAccountedFor
  NoLostWakeup
  QueueNotForgotten
PROPERTIES
  StablePrefixOnlyGrows
  ImplementsStability
CHECK_DEADLOCK FALSE
