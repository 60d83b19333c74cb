SPECIFICATION FairPoolSpec

CONSTANTS
  m1 = m1
  m2 = m2
  runtimePoolAuto = runtimePoolAuto
  Members <- MCMembers
  Choices <- MCChoices
  Urls = 1
  MaxLatency = 1
  HighLatency = 4
  Tolerance = 1
  ConsecutiveFailures = 2
  RecoverySuccesses = 2
  Capacity = 2

PROPERTIES
  IdleRecovers

CHECK_DEADLOCK FALSE
