SPECIFICATION PoolSpec

CONSTANTS
  m1 = m1
  m2 = m2
  runtimePoolAuto = runtimePoolAuto
  Members <- MCMembers
  Choices <- MCChoices
  Urls = 2
  MaxLatency = 3
  HighLatency = 4
  Tolerance = 1
  ConsecutiveFailures = 2
  RecoverySuccesses = 2
  Capacity = 4

INVARIANTS
  PoolTypeOK
  FailClosed
  BestServes

PROPERTIES
  NoFlapping
  QuarantineServed

CHECK_DEADLOCK FALSE
