-------------------------------- MODULE Routes --------------------------------
(***************************************************************************)
(* Proxy chains, proxy channels and the DNS profile, each saved by a       *)
(* manager of its own, and how the control service compiles them, with the *)
(* nodes and the node pools, into one configuration.  buildRuntimeCatalog  *)
(* holds the operation mutex, but asks one manager after the other, and    *)
(* every one of them may change between two questions.                     *)
(*                                                                         *)
(* Of the subscriptions only the nodes there are matter here; what a       *)
(* refresh or a Delete does to them and to the pools is in Subscriptions.  *)
(* A write that fails is undone in memory, so that nothing has happened.   *)
(* The quick tests are taken to be valid, so that ValidateProbeURLs never  *)
(* fails here.                                                             *)
(***************************************************************************)
EXTENDS Integers, FiniteSets

CONSTANTS
  RouteNodes,   \* nodes of all subscriptions
  Groups,       \* node pools
  Chains,       \* identifiers of proxy chains
  Channels,     \* identifiers of proxy channels
  Ports,        \* ports a channel may ask for
  Reserved,     \* those the application uses itself
  Profiles,     \* DNS profiles
  Visitors,     \* API requests
  MaxEdits,     \* bound: operations begun
  Nil

ASSUME RoutesAssumption ==
  /\ RouteNodes \intersect Groups = {}
  /\ Chains \intersect (RouteNodes \union Groups) = {}
  /\ Nil \notin RouteNodes \union Groups \union Chains \union Channels \union Ports
  /\ Nil \notin Profiles \union Visitors
  /\ Reserved \subseteq Ports /\ Profiles # {} /\ MaxEdits \in Nat

VARIABLES
  nodes,      \* the nodes that resolve
  groups,     \* members of the pools
  chains,     \* proxychain: m.items
  channels,   \* proxychannel: m.items
  profile,    \* dnsprofile: m.profile
  visit,      \* where each request is, and what it has looked at
  build,      \* the configuration being built
  busy,       \* operationMu
  box,        \* the core: its state and its configuration
  unloaded,   \* history: a reload was skipped or failed since
  edits

routeVars == <<nodes, groups, chains, channels, profile, visit, build, busy, box, unloaded, edits>>

Chain == [entry : RouteNodes \union Groups, exit : RouteNodes]

Channel == [port : Ports, node : RouteNodes, enabled : BOOLEAN]

Targets == {Nil} \union RouteNodes \union Groups \union Chains   \* Nil: direct

(* What poolSignature and chainSignature are made of: the chain, the       *)
(* members of the pool, and the nodes that they resolve to.                *)
Signed ==
  [chain : Chain \union {Nil}, members : SUBSET RouteNodes, nodes : SUBSET RouteNodes]

NotFound == [chain |-> Nil, members |-> {}, nodes |-> {}]

(* What a configuration consists of, with the target it starts with, the   *)
(* signature the target had at first, and the one that was found later.    *)
Configuration ==
  [target : Targets, profile : Profiles, nodes : SUBSET RouteNodes,
   groups : [Groups -> SUBSET RouteNodes],
   chains : [Chains -> (Chain \X SUBSET RouteNodes) \union {Nil}],
   channels : [Channels -> Channel \union {Nil}],
   seen : Signed, found : Signed]

Visit ==
  [at : {"idle", "chain", "unchain", "channel", "reload",
         "nodes", "groups", "chains", "channels", "compile", "start"},
   chain : Chains \union {Nil}, channel : Channels \union {Nil},
   new : Chain \union Channel \union {Nil}]

Resting == [at |-> "idle", chain |-> Nil, channel |-> Nil, new |-> Nil]

Moved(v, at) == visit' = [visit EXCEPT ![v].at = at]

Leaves(v) == visit' = [visit EXCEPT ![v] = Resting]

Arrives(v, what) ==
  /\ visit[v] = Resting
  /\ edits < MaxEdits /\ edits' = edits + 1
  /\ visit' = [visit EXCEPT ![v] = what]

CoreKept == UNCHANGED <<build, busy, box, unloaded>>

-----------------------------------------------------------------------------
(* What resolves now.                                                      *)

(* ResolveWithMembers: the members that are there, if they are two.        *)
Resolved(g) ==
  IF Cardinality(groups[g] \intersect nodes) >= 2 THEN groups[g] \intersect nodes ELSE {}

EntryNodes(c) == IF c.entry \in Groups THEN Resolved(c.entry) ELSE {c.entry} \intersect nodes

(* A chain needs its exit and its entry, and neither may be the other.     *)
ChainResolves(c) == c.exit \in nodes /\ EntryNodes(c) # {} /\ c.exit \notin EntryNodes(c)

(* The signature of a target: direct has none.                             *)
Signature(t) ==
  LET made == IF t \in Chains THEN chains[t] ELSE Nil
      entry == IF made = Nil THEN t ELSE made.entry
  IN [chain |-> made,
      members |-> IF entry \in Groups THEN groups[entry] ELSE {},
      nodes |-> CASE t = Nil -> {}
                  [] t \in RouteNodes -> {t} \intersect nodes
                  [] t \in Groups -> Resolved(t)
                  [] t \in Chains -> IF made # Nil /\ ChainResolves(made)
                                     THEN EntryNodes(made) ELSE {}]

TargetResolves(t) == t = Nil \/ Signature(t).nodes # {}

PortFree(port, id) ==
  /\ port \notin Reserved
  /\ \A h \in Channels \ {id} : channels[h] # Nil => channels[h].port # port

-----------------------------------------------------------------------------
(* Nodes come and go with the subscriptions, which then reload the rules;  *)
(* pools follow, or are edited by the user, and nobody reloads.            *)
NodesChange(v, there) ==
  /\ there # nodes /\ nodes' = there
  /\ groups' \in {groups, [g \in Groups |-> groups[g] \intersect there]}
  /\ Arrives(v, [Resting EXCEPT !.at = "reload"])
  /\ UNCHANGED <<chains, channels, profile>> /\ CoreKept

GroupChanges(g, ms) ==
  /\ ms # groups[g] /\ ms \subseteq nodes
  /\ groups' = [groups EXCEPT ![g] = ms]
  /\ edits < MaxEdits /\ edits' = edits + 1
  /\ UNCHANGED <<nodes, chains, channels, profile, visit>> /\ CoreKept

(* proxychain Create resolves the chain and only then takes the mutex.     *)
CreateChain(v, id, c) ==
  /\ chains[id] = Nil /\ \A w \in Visitors : visit[w].chain # id
  /\ ChainResolves(c)
  /\ Arrives(v, [Resting EXCEPT !.at = "chain", !.chain = id, !.new = c])
  /\ UNCHANGED <<nodes, groups, chains, channels, profile>> /\ CoreKept

StoresChain(v) ==
  /\ visit[v].at = "chain"
  /\ chains' = [chains EXCEPT ![visit[v].chain] = visit[v].new]
  /\ Leaves(v)
  /\ UNCHANGED <<nodes, groups, channels, profile, edits>> /\ CoreKept

UpdateChain(id, c) ==
  /\ chains[id] \notin {Nil, c} /\ ChainResolves(c)
  /\ chains' = [chains EXCEPT ![id] = c]
  /\ edits < MaxEdits /\ edits' = edits + 1
  /\ UNCHANGED <<nodes, groups, channels, profile, visit>> /\ CoreKept

(* The handler refuses to delete the running chain, by what the runtime    *)
(* says before the chain is deleted.                                       *)
DeleteChain(v, id) ==
  /\ chains[id] # Nil
  /\ ~(box.state = "running" /\ box.config.target = id)
  /\ Arrives(v, [Resting EXCEPT !.at = "unchain", !.chain = id])
  /\ UNCHANGED <<nodes, groups, chains, channels, profile>> /\ CoreKept

RemovesChain(v) ==
  /\ visit[v].at = "unchain"
  /\ chains' = [chains EXCEPT ![visit[v].chain] = Nil]
  /\ Leaves(v)
  /\ UNCHANGED <<nodes, groups, channels, profile, edits>> /\ CoreKept

-----------------------------------------------------------------------------
(* proxychannel Create resolves the node, then checks the port under the   *)
(* mutex it saves under; Update does all of it there.  The handlers reload *)
(* afterwards.                                                             *)
CreateChannel(v, id, h) ==
  /\ channels[id] = Nil /\ \A w \in Visitors : visit[w].channel # id
  /\ h.node \in nodes
  /\ Arrives(v, [Resting EXCEPT !.at = "channel", !.channel = id, !.new = h])
  /\ UNCHANGED <<nodes, groups, chains, channels, profile>> /\ CoreKept

StoresChannel(v) ==
  LET id == visit[v].channel
  IN /\ visit[v].at = "channel"
     /\ \/ /\ PortFree(visit[v].new.port, id)
           /\ channels' = [channels EXCEPT ![id] = visit[v].new]
           /\ visit' = [visit EXCEPT ![v] = [Resting EXCEPT !.at = "reload"]]
        \/ ~PortFree(visit[v].new.port, id) /\ Leaves(v) /\ UNCHANGED channels
     /\ UNCHANGED <<nodes, groups, chains, profile, edits>> /\ CoreKept

UpdateChannel(v, id, h) ==
  /\ channels[id] \notin {Nil, h} /\ h.node \in nodes /\ PortFree(h.port, id)
  /\ channels' = [channels EXCEPT ![id] = h]
  /\ Arrives(v, [Resting EXCEPT !.at = "reload"])
  /\ UNCHANGED <<nodes, groups, chains, profile>> /\ CoreKept

DeleteChannel(v, id) ==
  /\ channels[id] # Nil
  /\ channels' = [channels EXCEPT ![id] = Nil]
  /\ Arrives(v, [Resting EXCEPT !.at = "reload"])
  /\ UNCHANGED <<nodes, groups, chains, profile>> /\ CoreKept

UpdateProfile(v, new) ==
  /\ new # profile /\ profile' = new
  /\ Arrives(v, [Resting EXCEPT !.at = "reload"])
  /\ UNCHANGED <<nodes, groups, chains, channels>> /\ CoreKept

-----------------------------------------------------------------------------
(* Building a configuration, for a target the user asks for or for the one *)
(* that runs.                                                              *)

StoresRest == UNCHANGED <<nodes, groups, chains, channels, profile>>

Blank(t) ==
  [target |-> t, profile |-> profile, nodes |-> {}, groups |-> [g \in Groups |-> {}],
   chains |-> [c \in Chains |-> Nil], channels |-> [h \in Channels |-> Nil],
   seen |-> Signature(t), found |-> NotFound]

NoBuild == [Blank(Nil) EXCEPT !.profile = CHOOSE p \in Profiles : TRUE]

NoBox == [state |-> "off", config |-> NoBuild]

(* The profile and the signature of the target are read first.             *)
Apply(v, t) ==
  /\ busy = Nil /\ TargetResolves(t)
  /\ Arrives(v, [Resting EXCEPT !.at = "nodes"])
  /\ busy' = v /\ build' = Blank(t)
  /\ StoresRest /\ UNCHANGED <<box, unloaded>>

(* Mutant: a reload that finds the mutex taken leaves it to the holder.    *)
SkipsBusy(v) ==
  /\ visit[v].at = "reload"
  /\ busy # Nil \/ box.state # "running"
  /\ unloaded' = (unloaded \/ box.state = "backoff")
  /\ Leaves(v)
  /\ StoresRest /\ UNCHANGED <<edits, build, busy, box>>

SkipsReload(v) ==
  /\ visit[v].at = "reload" /\ busy = Nil
  /\ box.state # "running"
  /\ unloaded' = (unloaded \/ box.state = "backoff")
  /\ Leaves(v)
  /\ StoresRest /\ UNCHANGED <<edits, build, busy, box>>

Reloads(v) ==
  /\ visit[v].at = "reload" /\ busy = Nil
  /\ box.state = "running"
  /\ IF TargetResolves(box.config.target)
     THEN busy' = v /\ build' = Blank(box.config.target) /\ Moved(v, "nodes") /\ UNCHANGED unloaded
     ELSE unloaded' = TRUE /\ Leaves(v) /\ UNCHANGED <<busy, build>>
  /\ StoresRest /\ UNCHANGED <<edits, box>>

BuildGoes(v, from, to, new) ==
  /\ visit[v].at = from
  /\ build' = new /\ Moved(v, to)
  /\ StoresRest /\ UNCHANGED <<edits, busy, box, unloaded>>

GivesUp(v) ==
  /\ visit[v].at \in {"chains", "channels", "compile", "start"}
  /\ busy' = Nil /\ build' = NoBuild /\ unloaded' = TRUE
  /\ Leaves(v)
  /\ StoresRest /\ UNCHANGED edits

(* The signature of the target, if this is where it is found.              *)
FoundAmong(targets) == IF build.target \in targets THEN Signature(build.target) ELSE build.found

ReadsNodes(v) ==
  BuildGoes(v, "nodes", "groups",
    [build EXCEPT !.nodes = nodes, !.found = FoundAmong(nodes)])

(* Of a pool the members that resolve now and were there before; its       *)
(* signature is of all that resolve now.                                   *)
ReadsGroups(v) ==
  LET members(g) == Resolved(g) \intersect build.nodes
      usable == {g \in Groups : Cardinality(members(g)) >= 2}
  IN BuildGoes(v, "groups", "chains",
       [build EXCEPT !.groups = [g \in Groups |-> IF g \in usable THEN members(g) ELSE {}],
                     !.found = FoundAmong(usable)])

TakesChains(v, usable) ==
  BuildGoes(v, "chains", "channels",
    [build EXCEPT !.chains = [id \in Chains |-> IF id \in usable
                                               THEN <<chains[id], EntryNodes(chains[id])>> ELSE Nil],
                  !.found = FoundAmong(usable)])

(* Mutant: the exit is taken for known because the chain resolves.         *)
ReadsResolved(v) ==
  TakesChains(v, {id \in Chains : chains[id] # Nil /\ ChainResolves(chains[id])})

(* Of a chain its entries as they resolve now; its exit is one of the      *)
(* nodes read before.                                                      *)
ReadsChains(v) ==
  TakesChains(v, {id \in Chains : /\ chains[id] # Nil /\ ChainResolves(chains[id])
                                  /\ chains[id].exit \in build.nodes})

(* The target must be what it was at first; then the channels are read.    *)
ReadsChannels(v) ==
  /\ build.found = build.seen
  /\ BuildGoes(v, "channels", "compile",
       [build EXCEPT !.channels =
          [h \in Channels |->
             IF channels[h] # Nil /\ channels[h].enabled
                /\ channels[h].node \in nodes \intersect build.nodes
             THEN channels[h] ELSE Nil]])

(* What BuildSelectableConfig checks, and that no port is bound twice,     *)
(* which the core would find out when it starts.                           *)
Acceptable(b) ==
  /\ b.nodes = {} => b.target = Nil
  /\ \A g \in Groups : b.groups[g] # {} =>
       b.groups[g] \subseteq b.nodes /\ Cardinality(b.groups[g]) >= 2
  /\ \A c \in Chains : b.chains[c] # Nil =>
       b.chains[c][1].exit \in b.nodes \ b.chains[c][2] /\ b.chains[c][2] # {}
  /\ \A h \in Channels : b.channels[h] # Nil =>
       /\ b.channels[h].node \in b.nodes /\ b.channels[h].port \notin Reserved
       /\ \A k \in Channels \ {h} : b.channels[k] # Nil => b.channels[k].port # b.channels[h].port

Compiles(v) == Acceptable(build) /\ BuildGoes(v, "compile", "start", build)

(* The new configuration is in force.  A failure before the old core is    *)
(* stopped leaves it as it was, one after that leaves none.                *)
Starts(v) ==
  /\ visit[v].at = "start"
  /\ box' = [state |-> "running", config |-> build]
  /\ busy' = Nil /\ build' = NoBuild /\ unloaded' = FALSE
  /\ Leaves(v)
  /\ StoresRest /\ UNCHANGED edits

Fails(v) == GivesUp(v) /\ box' \in (IF visit[v].at = "start" THEN {box, NoBox} ELSE {box})

BoxChanges(from, to) ==
  /\ box.state = from
  /\ box' = IF to = "off" THEN NoBox ELSE [box EXCEPT !.state = to]
  /\ StoresRest /\ UNCHANGED <<visit, build, busy, unloaded>>

BoxCrashes == BoxChanges("running", "backoff") /\ edits < MaxEdits /\ edits' = edits + 1

BoxRecovers == BoxChanges("backoff", "running") /\ UNCHANGED edits

BoxGivesUp == BoxChanges("backoff", "off") /\ UNCHANGED edits

-----------------------------------------------------------------------------
(* Saved chains may refer to nodes that are gone.                          *)
RoutesInit ==
  /\ nodes \in SUBSET RouteNodes
  /\ groups = [g \in Groups |-> nodes]
  /\ chains \in [Chains -> {c \in Chain : c.entry # c.exit} \union {Nil}]
  /\ channels = [h \in Channels |-> Nil]
  /\ profile \in Profiles
  /\ visit = [v \in Visitors |-> Resting]
  /\ build = NoBuild /\ busy = Nil /\ box = NoBox
  /\ unloaded = FALSE /\ edits = 0

Edits(v) ==
  \/ \E there \in SUBSET RouteNodes : NodesChange(v, there)
  \/ \E id \in Chains : DeleteChain(v, id) \/ \E c \in Chain : CreateChain(v, id, c)
  \/ \E id \in Channels, h \in Channel : CreateChannel(v, id, h) \/ UpdateChannel(v, id, h)
  \/ \E id \in Channels : DeleteChannel(v, id)
  \/ \E new \in Profiles : UpdateProfile(v, new)
  \/ \E t \in Targets : Apply(v, t)

Builds(v) ==
  \/ SkipsReload(v) \/ Reloads(v)
  \/ ReadsNodes(v) \/ ReadsGroups(v) \/ ReadsChains(v) \/ ReadsChannels(v)
  \/ Compiles(v) \/ Starts(v) \/ Fails(v)

RoutesNext ==
  \/ \E v \in Visitors :
       \/ Edits(v) \/ Builds(v)
       \/ StoresChain(v) \/ RemovesChain(v) \/ StoresChannel(v)
  \/ \E g \in Groups, ms \in SUBSET nodes : GroupChanges(g, ms)
  \/ \E id \in Chains, c \in Chain : UpdateChain(id, c)
  \/ BoxCrashes \/ BoxRecovers \/ BoxGivesUp

RoutesSpec == RoutesInit /\ [][RoutesNext]_routeVars

-----------------------------------------------------------------------------
RouteTypes ==
  /\ nodes \subseteq RouteNodes /\ groups \in [Groups -> SUBSET RouteNodes]
  /\ chains \in [Chains -> Chain \union {Nil}]
  /\ channels \in [Channels -> Channel \union {Nil}]
  /\ profile \in Profiles
  /\ visit \in [Visitors -> Visit]
  /\ build \in Configuration
  /\ busy \in Visitors \union {Nil}
  /\ box \in [state : {"off", "running", "backoff"}, config : Configuration]
  /\ unloaded \in BOOLEAN /\ edits \in 0..MaxEdits

(* Types of the stores, the requests, the build and the core; no two       *)
(* saved channels have one port, enabled or not, and none has a reserved   *)
(* one, although Create resolves its node before it takes the mutex.       *)
RoutesTypeOK == RouteTypes /\ \A h \in Channels : channels[h] # Nil => PortFree(channels[h].port, h)

(* Whatever changes between two of its reads, buildRuntimeCatalog hands    *)
(* BuildSelectableConfig a configuration whose parts fit together: no      *)
(* pool, chain or channel refers to a node it does not have, no chain is   *)
(* its own exit and no two channels listen on one port.                    *)
CatalogFitsTogether ==
  \A v \in Visitors : visit[v].at = "compile" => Acceptable(build)

(* When no handler is still on its way to reload and no reload was skipped *)
(* or has failed, the running core has the saved DNS profile and serves    *)
(* the enabled channels whose node is there, as they are saved.            *)
RoutesInForce ==
  /\ box.state = "running" /\ ~unloaded
  /\ \A v \in Visitors : visit[v].at \in {"idle", "chain", "unchain", "channel"}
  => /\ box.config.profile = profile
     /\ \A h \in Channels :
          box.config.channels[h] =
            IF channels[h] # Nil /\ channels[h].enabled /\ channels[h].node \in nodes
            THEN channels[h] ELSE Nil
=============================================================================
