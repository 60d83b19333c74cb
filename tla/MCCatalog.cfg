SPECIFICATION FairCatalogSpec
CONSTANTS
  s1 = s1
  s2 = s2
  a1 = a1
  a2 = a2
  b = b
  c = c
  x = x
  y = y
  p = p
  f1 = f1
  f2 = f2
  g = g
  q1 = q1
  q2 = q2
  None = None
  Subs <- MCSubs
  Nodes <- MCNodes
  Pools <- MCPools
  IdentityOf <- MCServers
  ServerOf <- MCServers
  Rules <- MCRules
  Feeds <- MCFeeds
  FeedsOf <- MCFeedsOf
  FeedNodes <- MCFeedNodes
  FeedRules <- MCFeedRules
  FeedOk <- MCFeedOk
  Links <- MCLinks
  Requests <- MCRequests
  Saved <- MCSaved
  Goals <- MCGoals
  MaxCalls = 3
  MaxFaults = 1
INVARIANTS
  CatalogTypeOK
  ChoiceIsValid
  NothingDangles
  RulesInForce
PROPERTIES
  MembersFollowServers
  DecisionsSurvive
  RequestsEnd
CHECK_DEADLOCK FALSE
