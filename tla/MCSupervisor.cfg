SPECIFICATION FairSpec

CONSTANTS
  c1 = c1
  c2 = c2
  Callers <- MCCallers
  MaxRestarts = 2
  MaxGeneration = 3
  MaxStable = 1

INVARIANTS
  TypeOK
  SingleCore
  RestartArmed

PROPERTIES
  OnlyStartRevives
  Lifecycle
  EveryWaitEnds

CHECK_DEADLOCK FALSE
