CONSTANTS
  Effects = {1, 2, 3}
  Broken = {2}
  Endpoints = {h1}
  Replicas = {a, b}
  None = None
  Batch = 2
  Rounds = 2
  LeaseTicks = 4
  PassTicks = 2
  MaxFaults = 1
SPECIFICATION FairSpec
INVARIANTS TypeOK LeaseOutlastsPass NoNeedlessRepeat DeliveredEverywhere
PROPERTY EveryEffectDelivered
CHECK_DEADLOCK FALSE
