SPECIFICATION ServicesSpec
CONSTANTS
  n1 = n1
  n2 = n2
  pool = pool
  chain = chain
  ch1 = ch1
  ch2 = ch2
  d1 = d1
  d2 = d2
  v1 = v1
  v2 = v2
  Nil = Nil
  RouteNodes <- MCRouteNodes
  Groups <- MCGroups
  Chains <- MCChains
  Channels <- MCChannels
  Ports <- MCPorts
  Reserved <- MCReserved
  Profiles <- MCProfiles
  Visitors <- MCVisitors
  MaxEdits = 3
  v0 = v0
  vn = vn
  host = host
  mode = mode
  good = good
  bad = bad
  Unset = Unset
  Versions <- MCVersions
  Embedded = v0
  Settings <- MCSettings
  Configs <- MCConfigs
  GoodConfigs <- MCGoodConfigs
  MaxActs = 3
  MaxStarts = 3
  c1 = c1
  c2 = c2
  c3 = c3
  Conns <- MCConns
  MaxLinks = 2
  MaxResets = 1
  poolList = poolList
  runtimeView = runtimeView
  feed = feed
  applied = applied
  switched = switched
  Quiet = Quiet
  Topics <- MCTopics
  Kinds <- MCKinds
  Renews <- MCRenews
  Operations <- MCOperations
  Polled <- MCPolled
  Buffer = 1
  MaxChanges = 2
  MaxBreaks = 1
  e1 = e1
  e2 = e2
  e3 = e3
  Entries <- MCEntries
  MaxEntries = 3
  MaxRuleOps = 5
INVARIANTS
  ServicesTypeOK
  CatalogFitsTogether
  RoutesInForce
  DataSurvives
  LinksFollowCore
  PagesCatchUp
PROPERTIES
  PrecedenceKept
CHECK_DEADLOCK FALSE
