SPECIFICATION FairPolicySpec

CONSTANTS
  p1 = p1
  p2 = p2
  u1 = u1
  u2 = u2
  None = None
  Elsewhere = Elsewhere
  Pools <- MCPair
  Updaters <- MCUpdaters
  Faults = TRUE

INVARIANTS
  PolicyTypeOK
  TakeoverRemembers

PROPERTIES
  SettledWhileTickSwitches
  ReturnsToOrigin
  TakeoversEnd

CHECK_DEADLOCK FALSE
