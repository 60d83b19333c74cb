----------------------------- MODULE MCServices -----------------------------
(* Five parts of the program that share no state, each by itself: "part"   *)
(* says which of them moves, so that the states of one are not multiplied  *)
(* by those of the others.  Nodes and profiles being alike, one profile    *)
(* and one exit of a saved chain are enough to begin with.                 *)
EXTENDS Routes, DataDirectory, ConnMonitor, Events, RuleOrder, TLC

CONSTANTS
  n1, n2, pool, chain, ch1, ch2, d1, d2, v1, v2,   \* Routes
  v0, vn, host, mode, good, bad,                   \* DataDirectory
  c1, c2, c3,                                      \* ConnMonitor
  poolList, runtimeView,                           \* Events
  feed, applied, switched,
  e1, e2, e3                                       \* RuleOrder

VARIABLE part

MCRouteNodes == {n1, n2}
MCGroups == {pool}
MCChains == {chain}
MCChannels == {ch1, ch2}
MCPorts == {1080, 9090}
MCReserved == {9090}
MCProfiles == {d1, d2}
MCVisitors == {v1, v2}

MCVersions == {v0, vn}
MCSettings == {host, mode}
MCConfigs == {good, bad}
MCGoodConfigs == {good}

MCConns == {c1, c2, c3}
(* Pools change with the feeds, which is announced, and with the user's    *)
(* edits, which is not; nobody listens to a hot switch.                    *)
MCTopics == {poolList, runtimeView}
MCKinds == {feed, applied, switched}
MCRenews == feed :> {poolList} @@ applied :> {runtimeView} @@ switched :> {}
MCOperations == {[alters |-> poolList, says |-> feed],
                 [alters |-> poolList, says |-> Quiet],
                 [alters |-> runtimeView, says |-> applied],
                 [alters |-> runtimeView, says |-> switched]}
MCPolled == {runtimeView}
MCEntries == {e1, e2, e3}

servicesVars == <<routeVars, dataVars, connVars, eventVars, orderVars, part>>

ServicesInit ==
  /\ part \in {"routes", "data", "conns", "events", "order"}
  /\ RoutesInit /\ DataInit /\ ConnInit /\ EventsInit /\ OrderInit
  /\ profile = d1
  /\ chains[chain] \in {Nil, [entry |-> n1, exit |-> n2], [entry |-> pool, exit |-> n2]}
  /\ part # "routes" => nodes = {} /\ chains[chain] = Nil

ServicesNext ==
  /\ UNCHANGED part
  /\ \/ part = "routes" /\ RoutesNext /\ UNCHANGED <<dataVars, connVars, eventVars, orderVars>>
     \/ part = "data" /\ DataNext /\ UNCHANGED <<routeVars, connVars, eventVars, orderVars>>
     \/ part = "conns" /\ ConnNext /\ UNCHANGED <<routeVars, dataVars, eventVars, orderVars>>
     \/ part = "events" /\ EventsNext /\ UNCHANGED <<routeVars, dataVars, connVars, orderVars>>
     \/ part = "order" /\ OrderNext /\ UNCHANGED <<routeVars, dataVars, connVars, eventVars>>

ServicesSpec == ServicesInit /\ [][ServicesNext]_servicesVars

(* The types of all five modules.                                          *)
ServicesTypeOK == RoutesTypeOK /\ DataTypeOK /\ ConnTypeOK /\ EventsTypeOK /\ OrderTypeOK
=============================================================================
