SPECIFICATION ControlSpec

CONSTANTS
  r1 = r1
  r2 = r2
  node = node
  pool = pool
  None = None
  Requests <- MCRequests
  Nodes <- MCNodes
  Pools <- MCPools
  Faults <- MCFaults
  MaxRestarts = 1
  MaxGeneration = 2

INVARIANTS
  ControlTypeOK
  StopIsComplete
  NoHiddenCore
  FailureIsWatched
  DesktopFollowsMode
  HealthNeverStrays

CHECK_DEADLOCK FALSE
