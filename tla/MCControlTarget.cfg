SPECIFICATION ControlSpec

CONSTANTS
  r1 = r1
  r2 = r2
  node = node
  pool = pool
  None = None
  Requests <- MCRequests
  Nodes <- MCNodes
  Pools <- MCPools
  Faults <- MCNoFaults
  MaxRestarts = 1
  MaxGeneration = 2

INVARIANTS
  TargetSurvivesRestart

CHECK_DEADLOCK FALSE
