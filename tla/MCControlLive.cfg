SPECIFICATION FairControlSpec

CONSTANTS
  r1 = r1
  r2 = r2
  node = node
  pool = pool
  None = None
  Requests <- MCRequests
  Nodes <- MCNodes
  Pools <- MCPools
  Faults <- MCFaults
  MaxRestarts = 1
  MaxGeneration = 1

PROPERTIES
  FailureSurfaces
  StopAnswered

CHECK_DEADLOCK FALSE
