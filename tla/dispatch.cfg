CONSTANTS
  a = a  b = b
  Replicas <- BothReplicas
  Tasks = {t1}
  Cap = 2
  Lease = 2
  RetryDelay = 3
  PassLimit = 2
  KeyTTL = 3
  MaxTime = 6
SPECIFICATION Spec
INVARIANTS TypeOK OneHolder LeaseHasHolder ClaimsFit OverlapOnlyIfLate
PROPERTIES LeaseEndsByHolder ImplementsLease
SYMMETRY Interchangeable
CHECK_DEADLOCK FALSE
