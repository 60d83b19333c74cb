SPECIFICATION FairPoolSpec

CONSTANTS
  m1 = m1
  m2 = m2
  runtimePoolAuto = runtimePoolAuto
  Members <- MCMembers
  Choices <- MCChoices
  Urls = 1
  MaxLatency = 2
  HighLatency = 2
  Tolerance = 1
  ConsecutiveFailures = 2
  RecoverySuccesses = 2
  Capacity = 2

PROPERTIES
  OutageBlocks
  ActiveRecovers

CHECK_DEADLOCK FALSE
