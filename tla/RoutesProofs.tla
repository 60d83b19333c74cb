---------------------------- MODULE RoutesProofs ----------------------------
(***************************************************************************)
(* For any nodes, pools, chains, channels, ports and requests: the types   *)
(* of module Routes, and that what buildRuntimeCatalog hands on fits       *)
(* together although every store may change between two of its reads.      *)
(*                                                                         *)
(* The argument: operationMu makes the build the business of one request   *)
(* at a time (OneBuilder), the mutex of the channels keeps their ports     *)
(* apart (PortsApart), and each read of the build only takes what fits     *)
(* with the reads before it (BuildFits); what is read later is checked     *)
(* against the copy of the nodes read first, never against the store.      *)
(***************************************************************************)
EXTENDS Routes, FiniteSetTheorems, TLAPS

Stages == {"nodes", "groups", "chains", "channels", "compile", "start"}

(* What a request is about to save is there and complete.                  *)
VisitFits(x) ==
  /\ x.at = "chain" => x.chain \in Chains /\ x.new \in Chain
  /\ x.at = "unchain" => x.chain \in Chains
  /\ x.at = "channel" => x.channel \in Channels /\ x.new \in Channel

VisitsFit == \A v \in Visitors : VisitFits(visit[v])

PortsApart == \A h \in Channels : channels[h] # Nil => PortFree(channels[h].port, h)

OneBuilder == \A v \in Visitors : visit[v].at \in Stages => busy = v

GroupsFit(b) ==
  \A g \in Groups : b.groups[g] # {} =>
    b.groups[g] \subseteq b.nodes /\ Cardinality(b.groups[g]) >= 2

ChainsFit(b) ==
  \A c \in Chains : b.chains[c] # Nil =>
    b.chains[c][1].exit \in b.nodes \ b.chains[c][2] /\ b.chains[c][2] # {}

ChannelsFit(b) ==
  \A h \in Channels : b.channels[h] # Nil =>
    /\ b.channels[h].node \in b.nodes /\ b.channels[h].port \notin Reserved
    /\ \A k \in Channels \ {h} : b.channels[k] # Nil => b.channels[k].port # b.channels[h].port

TargetFits(b) == b.nodes = {} => b.target = Nil

FitsAt(at, b) ==
  /\ at \in Stages => (b.target = Nil \/ b.seen.nodes # {})
  /\ at = "nodes" => b.found = NotFound
  /\ at \in Stages => (b.nodes = {} => b.found.nodes = {})
  /\ at \in {"chains", "channels", "compile", "start"} => GroupsFit(b)
  /\ at \in {"channels", "compile", "start"} => ChainsFit(b)
  /\ at \in {"compile", "start"} => ChannelsFit(b) /\ TargetFits(b)

BuildFits == \A v \in Visitors : FitsAt(visit[v].at, build)

RoutesInv == RouteTypes /\ VisitsFit /\ PortsApart /\ OneBuilder /\ BuildFits

-----------------------------------------------------------------------------
LEMMA EntriesAreNodes ==
  ASSUME RouteTypes, NEW c \in Chain
  PROVE  EntryNodes(c) \in SUBSET RouteNodes
BY DEF EntryNodes, Resolved, RouteTypes, Chain

LEMMA SignatureType ==
  ASSUME RouteTypes, RoutesAssumption, NEW t \in Targets
  PROVE  Signature(t) \in Signed
<1> DEFINE made == IF t \in Chains THEN chains[t] ELSE Nil
           entry == IF made = Nil THEN t ELSE made.entry
           members == IF entry \in Groups THEN groups[entry] ELSE {}
           found == CASE t = Nil -> {}
                      [] t \in RouteNodes -> {t} \intersect nodes
                      [] t \in Groups -> Resolved(t)
                      [] t \in Chains -> IF made # Nil /\ ChainResolves(made)
                                         THEN EntryNodes(made) ELSE {}
<1>1. made \in Chain \union {Nil} /\ members \in SUBSET RouteNodes
  BY DEF RouteTypes
<1>2. Signature(t) = [chain |-> made, members |-> members, nodes |-> found]
  BY Zenon DEF Signature
<1>3. found \in SUBSET RouteNodes
  <2>1. CASE t = Nil
    BY <2>1, RoutesAssumption DEF RoutesAssumption
  <2>2. CASE t \in RouteNodes
    BY <2>2, RoutesAssumption DEF RoutesAssumption
  <2>3. CASE t \in Groups
    BY <2>3, RoutesAssumption DEF RoutesAssumption, Resolved, RouteTypes
  <2>4. CASE t \in Chains
    <3>1. found = IF made # Nil /\ ChainResolves(made) THEN EntryNodes(made) ELSE {}
      BY <2>4, RoutesAssumption DEF RoutesAssumption
    <3> QED BY <1>1, <3>1, EntriesAreNodes
  <2> QED BY <2>1, <2>2, <2>3, <2>4 DEF Targets
<1> HIDE DEF made, entry, members, found
<1> QED BY <1>1, <1>2, <1>3 DEF Signed

LEMMA NotFoundType ==
  ASSUME RoutesAssumption
  PROVE  NotFound \in Signed
BY DEF NotFound, Signed

LEMMA BlankType ==
  ASSUME RouteTypes, RoutesAssumption, NEW t \in Targets
  PROVE  Blank(t) \in Configuration
BY SignatureType, NotFoundType DEF Blank, Configuration, RouteTypes

LEMMA NoBuildType ==
  ASSUME RoutesAssumption
  PROVE  NoBuild \in Configuration
<1>1. Signature(Nil) \in Signed /\ NotFound \in Signed /\ Nil \in Targets
  <2>1. Nil \notin Chains \union Groups
    BY RoutesAssumption DEF RoutesAssumption
  <2>2. Signature(Nil) = NotFound
    BY <2>1 DEF Signature, NotFound
  <2> QED BY <2>2, NotFoundType DEF Targets
<1>2. (CHOOSE p \in Profiles : TRUE) \in Profiles
  BY DEF RoutesAssumption
<1>3. [Blank(Nil) EXCEPT !.profile = CHOOSE p \in Profiles : TRUE] \in Configuration
  BY <1>1, <1>2 DEF Blank, Configuration
<1> QED BY <1>3 DEF NoBuild

-----------------------------------------------------------------------------
(* Visits: only the request that moves changes.                            *)
LEMMA MovedType ==
  ASSUME RouteTypes, NEW v \in Visitors, NEW at \in Stages, Moved(v, at)
  PROVE  visit' \in [Visitors -> Visit]
BY DEF Moved, RouteTypes, Visit, Stages

-----------------------------------------------------------------------------
(* What the steps of a build make of it.                                   *)
LEMMA BuildTypes ==
  ASSUME RoutesInv, NEW new,
         NEW found \in Signed,
         \/ new = [build EXCEPT !.nodes = nodes, !.found = found]
         \/ \E m \in [Groups -> SUBSET RouteNodes] : new = [build EXCEPT !.groups = m, !.found = found]
         \/ \E m \in [Chains -> (Chain \X SUBSET RouteNodes) \union {Nil}] :
              new = [build EXCEPT !.chains = m, !.found = found]
         \/ \E m \in [Channels -> Channel \union {Nil}] : new = [build EXCEPT !.channels = m]
  PROVE  new \in Configuration
BY DEF RoutesInv, RouteTypes, Configuration

LEMMA BuildGoesKeeps ==
  ASSUME RoutesInv, NEW v \in Visitors, NEW from \in Stages, NEW to \in Stages, NEW new,
         BuildGoes(v, from, to, new), new \in Configuration,
         FitsAt(from, build) => FitsAt(to, new)
  PROVE  RoutesInv'
<1>1. RouteTypes'
  BY MovedType DEF BuildGoes, RoutesInv, RouteTypes, StoresRest
<1>2. /\ visit[v].at = from /\ visit'[v].at = to /\ busy = v
      /\ \A w \in Visitors \ {v} : visit'[w] = visit[w] /\ visit[w].at \notin Stages
  BY DEF BuildGoes, Moved, RoutesInv, RouteTypes, Visit, OneBuilder
<1>3. VisitsFit'
  BY <1>2 DEF RoutesInv, VisitsFit, VisitFits, Stages
<1>4. PortsApart'
  BY DEF BuildGoes, StoresRest, RoutesInv, PortsApart, PortFree
<1>5. OneBuilder'
  BY <1>2 DEF BuildGoes, OneBuilder
<1>6. BuildFits'
  <2> SUFFICES ASSUME NEW w \in Visitors PROVE FitsAt(visit'[w].at, build')
    BY DEF BuildFits
  <2>1. CASE w = v
    <3>1. FitsAt(from, build)
      BY <1>2 DEF RoutesInv, BuildFits
    <3> QED BY <2>1, <3>1, <1>2 DEF BuildGoes
  <2>2. CASE w # v
    <3>1. visit'[w].at \notin Stages
      BY <2>2, <1>2
    <3> QED BY <3>1 DEF FitsAt, Stages
  <2> QED BY <2>1, <2>2
<1> QED BY <1>1, <1>3, <1>4, <1>5, <1>6 DEF RoutesInv

(* A step outside the build, that only brings requests to other places.    *)
LEMMA OutsideBuild ==
  ASSUME RoutesInv, UNCHANGED <<build, busy>>,
         \A v \in Visitors : visit'[v].at \in Stages => visit'[v].at = visit[v].at
  PROVE  OneBuilder' /\ BuildFits'
<1>1. OneBuilder'
  BY DEF RoutesInv, OneBuilder
<1>2. ASSUME NEW v \in Visitors PROVE FitsAt(visit'[v].at, build')
  <2>1. CASE visit'[v].at \in Stages
    BY <2>1 DEF RoutesInv, BuildFits
  <2>2. CASE visit'[v].at \notin Stages
    BY <2>2 DEF FitsAt, Stages
  <2> QED BY <2>1, <2>2
<1> QED BY <1>1, <1>2 DEF BuildFits

-----------------------------------------------------------------------------
LEMMA ReadsKeep ==
  ASSUME RoutesInv, RoutesAssumption, NEW v \in Visitors,
         ReadsNodes(v) \/ ReadsGroups(v) \/ ReadsChains(v) \/ ReadsChannels(v) \/ Compiles(v)
  PROVE  RoutesInv'
<1> USE DEF Stages
<1>0. /\ build.target \in Targets /\ build.found \in Signed
      /\ \A ts : FoundAmong(ts) \in Signed
  <2>1. build.target \in Targets /\ build.found \in Signed
    BY DEF RoutesInv, RouteTypes, Configuration
  <2> QED BY <2>1, SignatureType DEF FoundAmong, RoutesInv
<1>1. CASE ReadsNodes(v)
  <2> DEFINE new == [build EXCEPT !.nodes = nodes, !.found = FoundAmong(nodes)]
  <2>1. new \in Configuration
    BY <1>0, BuildTypes
  <2>2. /\ new.nodes = nodes /\ new.found = FoundAmong(nodes) /\ new.seen = build.seen
        /\ new.target = build.target
    BY DEF RoutesInv, RouteTypes, Configuration
  <2>3. ASSUME FitsAt("nodes", build) PROVE FitsAt("groups", new)
    <3>1. nodes = {} => FoundAmong(nodes).nodes = {}
      BY <2>3 DEF FitsAt, FoundAmong, NotFound
    <3> QED BY <2>2, <2>3, <3>1 DEF FitsAt
  <2>4. BuildGoes(v, "nodes", "groups", new)
    BY <1>1 DEF ReadsNodes
  <2> HIDE DEF new
  <2> QED BY <2>1, <2>3, <2>4, BuildGoesKeeps
<1>2. CASE ReadsGroups(v)
  <2> DEFINE members(g) == Resolved(g) \intersect build.nodes
             usable == {g \in Groups : Cardinality(members(g)) >= 2}
             taken == [g \in Groups |-> IF g \in usable THEN members(g) ELSE {}]
             new == [build EXCEPT !.groups = taken, !.found = FoundAmong(usable)]
  <2>1. taken \in [Groups -> SUBSET RouteNodes]
    BY DEF RoutesInv, RouteTypes, Configuration
  <2>2. new \in Configuration
    BY <1>0, <2>1, BuildTypes
  <2>3. /\ new.nodes = build.nodes /\ new.groups = taken /\ new.seen = build.seen
        /\ new.target = build.target /\ new.found = FoundAmong(usable)
    BY DEF RoutesInv, RouteTypes, Configuration
  <2>4. GroupsFit(new)
    <3> SUFFICES ASSUME NEW g \in Groups, taken[g] # {}
                 PROVE  taken[g] \subseteq build.nodes /\ Cardinality(taken[g]) >= 2
      BY <2>3 DEF GroupsFit
    <3> QED OBVIOUS
  <2>5. build.nodes = {} => build.target \notin usable
    <3>1. \A g : build.nodes = {} => members(g) = {}
      OBVIOUS
    <3>2. Cardinality({}) = 0
      BY FS_EmptySet
    <3> QED BY <3>1, <3>2
  <2>6. ASSUME FitsAt("groups", build) PROVE FitsAt("chains", new)
    <3>1. build.nodes = {} => FoundAmong(usable).nodes = {}
      BY <2>5, <2>6 DEF FitsAt, FoundAmong
    <3> QED BY <2>3, <2>4, <2>6, <3>1 DEF FitsAt
  <2>7. BuildGoes(v, "groups", "chains", new)
    BY <1>2 DEF ReadsGroups
  <2> HIDE DEF new
  <2> QED BY <2>2, <2>6, <2>7, BuildGoesKeeps
<1>3. CASE ReadsChains(v)
  <2> DEFINE usable == {id \in Chains : /\ chains[id] # Nil /\ ChainResolves(chains[id])
                                        /\ chains[id].exit \in build.nodes}
             taken == [id \in Chains |->
                         IF id \in usable THEN <<chains[id], EntryNodes(chains[id])>> ELSE Nil]
             new == [build EXCEPT !.chains = taken, !.found = FoundAmong(usable)]
  <2>1. taken \in [Chains -> (Chain \X SUBSET RouteNodes) \union {Nil}]
    <3> SUFFICES ASSUME NEW id \in Chains, id \in usable
                 PROVE  <<chains[id], EntryNodes(chains[id])>> \in Chain \X SUBSET RouteNodes
      OBVIOUS
    <3>1. chains[id] \in Chain
      BY DEF RoutesInv, RouteTypes
    <3>2. EntryNodes(chains[id]) \in SUBSET RouteNodes
      BY <3>1, EntriesAreNodes DEF RoutesInv
    <3> QED BY <3>1, <3>2
  <2>2. new \in Configuration
    BY <1>0, <2>1, BuildTypes
  <2>3. /\ new.nodes = build.nodes /\ new.groups = build.groups /\ new.seen = build.seen
        /\ new.chains = taken /\ new.target = build.target /\ new.found = FoundAmong(usable)
    BY DEF RoutesInv, RouteTypes, Configuration
  <2>4. ChainsFit(new)
    <3> SUFFICES ASSUME NEW id \in Chains, taken[id] # Nil
                 PROVE  taken[id][1].exit \in build.nodes \ taken[id][2] /\ taken[id][2] # {}
      BY <2>3 DEF ChainsFit
    <3>1. id \in usable /\ taken[id] = <<chains[id], EntryNodes(chains[id])>>
      OBVIOUS
    <3>2. taken[id][1] = chains[id] /\ taken[id][2] = EntryNodes(chains[id])
      BY <3>1
    <3> QED BY <3>1, <3>2 DEF ChainResolves
  <2>5. GroupsFit(build) => GroupsFit(new)
    BY <2>3 DEF GroupsFit
  <2>6. build.nodes = {} => build.target \notin usable
    OBVIOUS
  <2>7. ASSUME FitsAt("chains", build) PROVE FitsAt("channels", new)
    <3>1. build.nodes = {} => FoundAmong(usable).nodes = {}
      BY <2>6, <2>7 DEF FitsAt, FoundAmong
    <3> QED BY <2>3, <2>4, <2>5, <2>7, <3>1 DEF FitsAt
  <2>8. BuildGoes(v, "chains", "channels", new)
    BY <1>3 DEF ReadsChains, TakesChains
  <2> HIDE DEF new
  <2> QED BY <2>2, <2>7, <2>8, BuildGoesKeeps
<1>4. CASE ReadsChannels(v)
  <2> DEFINE serves(h) == channels[h] # Nil /\ channels[h].enabled
                            /\ channels[h].node \in nodes \intersect build.nodes
             found == [h \in Channels |-> IF serves(h) THEN channels[h] ELSE Nil]
             new == [build EXCEPT !.channels = found]
  <2>1. found \in [Channels -> Channel \union {Nil}]
    BY DEF RoutesInv, RouteTypes
  <2>2. new \in Configuration
    BY <1>0, <2>1, BuildTypes
  <2>3. /\ new.nodes = build.nodes /\ new.groups = build.groups /\ new.seen = build.seen
        /\ new.chains = build.chains /\ new.target = build.target /\ new.channels = found
        /\ new.found = build.found
    BY DEF RoutesInv, RouteTypes, Configuration
  <2>4. ChannelsFit(new)
    <3> SUFFICES ASSUME NEW h \in Channels, found[h] # Nil
                 PROVE  /\ found[h].node \in build.nodes /\ found[h].port \notin Reserved
                        /\ \A k \in Channels \ {h} : found[k] # Nil => found[k].port # found[h].port
      BY <2>3 DEF ChannelsFit
    <3>1. serves(h) /\ found[h] = channels[h] /\ PortFree(channels[h].port, h)
      BY DEF RoutesInv, PortsApart
    <3> QED BY <3>1 DEF PortFree
  <2>5. ASSUME FitsAt("channels", build), build.nodes = {} PROVE build.target = Nil
    <3>1. build.found = build.seen
      BY <1>4 DEF ReadsChannels
    <3> QED BY <3>1, <2>5 DEF FitsAt
  <2>6. ASSUME FitsAt("channels", build) PROVE FitsAt("compile", new)
    <3>1. GroupsFit(new) /\ ChainsFit(new)
      BY <2>3, <2>6 DEF FitsAt, GroupsFit, ChainsFit
    <3> QED BY <2>3, <2>4, <2>5, <2>6, <3>1 DEF FitsAt, TargetFits
  <2>7. BuildGoes(v, "channels", "compile", new)
    BY <1>4 DEF ReadsChannels
  <2> HIDE DEF new
  <2> QED BY <2>2, <2>6, <2>7, BuildGoesKeeps
<1>5. CASE Compiles(v)
  <2>1. build \in Configuration
    BY DEF RoutesInv, RouteTypes
  <2>2. FitsAt("compile", build) => FitsAt("start", build)
    BY DEF FitsAt
  <2> QED BY <1>5, <2>1, <2>2, BuildGoesKeeps DEF Compiles
<1> QED BY <1>1, <1>2, <1>3, <1>4, <1>5

-----------------------------------------------------------------------------
(* The stores change behind the back of the build.                         *)
LEMMA EditKeeps ==
  ASSUME RoutesInv, NEW what \in Visit, CoreKept,
         visit' \in [Visitors -> Visit],
         \A w \in Visitors : visit'[w] = visit[w] \/ visit'[w] = what,
         what.at \notin Stages, VisitFits(what),
         nodes' \subseteq RouteNodes, groups' \in [Groups -> SUBSET RouteNodes],
         chains' \in [Chains -> Chain \union {Nil}],
         channels' \in [Channels -> Channel \union {Nil}],
         profile' \in Profiles, edits' \in 0..MaxEdits, PortsApart'
  PROVE  RoutesInv'
<1>1. RouteTypes'
  BY DEF RoutesInv, RouteTypes, CoreKept
<1>2. VisitsFit'
  BY DEF RoutesInv, VisitsFit, VisitFits
<1>3. OneBuilder' /\ BuildFits'
  BY OutsideBuild DEF CoreKept
<1> QED BY <1>1, <1>2, <1>3 DEF RoutesInv

(* Channels are stored one at a time, with a port that is free.            *)
LEMMA PortsStayApart ==
  ASSUME RoutesInv, NEW id \in Channels, NEW h \in Channel \union {Nil},
         h # Nil => PortFree(h.port, id),
         channels' = [channels EXCEPT ![id] = h]
  PROVE  PortsApart' /\ channels' \in [Channels -> Channel \union {Nil}]
<1>1. channels \in [Channels -> Channel \union {Nil}] /\ PortsApart
  BY DEF RoutesInv, RouteTypes
<1>2. channels' \in [Channels -> Channel \union {Nil}]
  BY <1>1
<1>3. ASSUME NEW k \in Channels, channels'[k] # Nil PROVE PortFree(channels[k].port, k)' 
  <2>1. CASE k = id
    BY <2>1, <1>1, <1>3 DEF PortFree
  <2>2. CASE k # id
    BY <2>2, <1>1, <1>3 DEF PortFree, PortsApart
  <2> QED BY <2>1, <2>2
<1> QED BY <1>2, <1>3 DEF PortsApart

LEMMA PortsUntouched ==
  ASSUME RoutesInv, UNCHANGED channels
  PROVE  PortsApart' /\ channels' \in [Channels -> Channel \union {Nil}]
BY DEF RoutesInv, RouteTypes, PortsApart, PortFree

(* A request that comes or goes touches no other.                          *)
LEMMA ArrivesAlone ==
  ASSUME RouteTypes, RoutesAssumption, NEW v \in Visitors, NEW what \in Visit,
         Arrives(v, what)
  PROVE  /\ visit' \in [Visitors -> Visit] /\ edits' \in 0..MaxEdits
         /\ \A w \in Visitors : visit'[w] = visit[w] \/ visit'[w] = what
BY DEF Arrives, RouteTypes, RoutesAssumption

LEMMA LeavesAlone ==
  ASSUME RouteTypes, NEW v \in Visitors, NEW what \in Visit,
         visit' = [visit EXCEPT ![v] = what]
  PROVE  /\ visit' \in [Visitors -> Visit]
         /\ \A w \in Visitors : visit'[w] = visit[w] \/ visit'[w] = what
BY DEF RouteTypes

LEMMA ReloadVisit ==
  LET r == [Resting EXCEPT !.at = "reload"]
  IN r \in Visit /\ r.at \notin Stages /\ VisitFits(r)
BY DEF Resting, Visit, VisitFits, Stages

LEMMA RestingVisit == Resting \in Visit /\ Resting.at \notin Stages /\ VisitFits(Resting)
BY DEF Resting, Visit, VisitFits, Stages

LEMMA ChainEditsKeep ==
  ASSUME RoutesInv, RoutesAssumption,
         \/ \E v \in Visitors, id \in Chains : DeleteChain(v, id) \/ \E c \in Chain : CreateChain(v, id, c)
         \/ \E v \in Visitors : StoresChain(v) \/ RemovesChain(v)
         \/ \E id \in Chains, c \in Chain : UpdateChain(id, c)
  PROVE  RoutesInv'
<1>1. RouteTypes
  BY DEF RoutesInv
<1>2. UNCHANGED <<nodes, groups, channels, profile>> /\ CoreKept
  BY DEF CreateChain, StoresChain, UpdateChain, DeleteChain, RemovesChain
<1>3. /\ nodes' \subseteq RouteNodes /\ groups' \in [Groups -> SUBSET RouteNodes]
      /\ profile' \in Profiles
  BY <1>1, <1>2 DEF RouteTypes
<1>4. PortsApart' /\ channels' \in [Channels -> Channel \union {Nil}]
  BY <1>2, PortsUntouched
<1>5. ASSUME NEW v \in Visitors, NEW id \in Chains, NEW c \in Chain, CreateChain(v, id, c)
      PROVE  RoutesInv'
  <2> DEFINE making == [Resting EXCEPT !.at = "chain", !.chain = id, !.new = c]
  <2>1. making \in Visit /\ making.at \notin Stages /\ VisitFits(making)
    BY DEF Resting, Visit, VisitFits, Stages
  <2>2. Arrives(v, making) /\ chains' = chains
    BY <1>5 DEF CreateChain
  <2>3. chains' \in [Chains -> Chain \union {Nil}]
    BY <2>2, <1>1 DEF RouteTypes
  <2> HIDE DEF making
  <2> QED BY <2>1, <2>2, <2>3, <1>1, <1>2, <1>3, <1>4, ArrivesAlone, EditKeeps
<1>6. ASSUME NEW v \in Visitors, StoresChain(v) \/ RemovesChain(v)
      PROVE  RoutesInv'
  <2>1. visit' = [visit EXCEPT ![v] = Resting] /\ edits' = edits
    BY <1>6 DEF StoresChain, RemovesChain, Leaves
  <2>2. chains' \in [Chains -> Chain \union {Nil}]
    BY <1>6, <1>1 DEF StoresChain, RemovesChain, RoutesInv, RouteTypes, VisitsFit, VisitFits
  <2>3. edits' \in 0..MaxEdits
    BY <2>1, <1>1 DEF RouteTypes
  <2> QED BY <2>1, <2>2, <2>3, <1>1, <1>2, <1>3, <1>4, LeavesAlone, RestingVisit, EditKeeps
<1>7. ASSUME NEW id \in Chains, NEW c \in Chain, UpdateChain(id, c)
      PROVE  RoutesInv'
  <2>1. chains' \in [Chains -> Chain \union {Nil}] /\ visit' = visit
    BY <1>7, <1>1 DEF UpdateChain, RouteTypes
  <2>2. edits' \in 0..MaxEdits
    BY <1>7, <1>1, RoutesAssumption DEF UpdateChain, RouteTypes, RoutesAssumption
  <2>3. visit' \in [Visitors -> Visit]
    BY <2>1, <1>1 DEF RouteTypes
  <2> QED BY <2>1, <2>2, <2>3, <1>2, <1>3, <1>4, RestingVisit, EditKeeps
<1>8. ASSUME NEW v \in Visitors, NEW id \in Chains, DeleteChain(v, id)
      PROVE  RoutesInv'
  <2> DEFINE removing == [Resting EXCEPT !.at = "unchain", !.chain = id]
  <2>1. removing \in Visit /\ removing.at \notin Stages /\ VisitFits(removing)
    BY DEF Resting, Visit, VisitFits, Stages
  <2>2. Arrives(v, removing) /\ chains' = chains
    BY <1>8 DEF DeleteChain
  <2>3. chains' \in [Chains -> Chain \union {Nil}]
    BY <2>2, <1>1 DEF RouteTypes
  <2> HIDE DEF removing
  <2> QED BY <2>1, <2>2, <2>3, <1>1, <1>2, <1>3, <1>4, ArrivesAlone, EditKeeps
<1> QED BY <1>5, <1>6, <1>7, <1>8

LEMMA ChannelEditsKeep ==
  ASSUME RoutesInv, RoutesAssumption, NEW v \in Visitors,
         \/ \E id \in Channels, h \in Channel : CreateChannel(v, id, h) \/ UpdateChannel(v, id, h)
         \/ \E id \in Channels : DeleteChannel(v, id)
         \/ StoresChannel(v)
  PROVE  RoutesInv'
<1> DEFINE loading == [Resting EXCEPT !.at = "reload"]
<1>1. RouteTypes
  BY DEF RoutesInv
<1>2. UNCHANGED <<nodes, groups, chains, profile>> /\ CoreKept
  BY DEF CreateChannel, StoresChannel, UpdateChannel, DeleteChannel
<1>3. /\ nodes' \subseteq RouteNodes /\ groups' \in [Groups -> SUBSET RouteNodes]
      /\ profile' \in Profiles /\ chains' \in [Chains -> Chain \union {Nil}]
  BY <1>1, <1>2 DEF RouteTypes
<1>4. loading \in Visit /\ loading.at \notin Stages /\ VisitFits(loading)
  BY ReloadVisit
<1>5. ASSUME NEW id \in Channels, NEW h \in Channel, CreateChannel(v, id, h)
      PROVE  RoutesInv'
  <2> DEFINE making == [Resting EXCEPT !.at = "channel", !.channel = id, !.new = h]
  <2>1. making \in Visit /\ making.at \notin Stages /\ VisitFits(making)
    BY DEF Resting, Visit, VisitFits, Stages
  <2>2. Arrives(v, making) /\ channels' = channels
    BY <1>5 DEF CreateChannel
  <2>3. PortsApart' /\ channels' \in [Channels -> Channel \union {Nil}]
    BY <2>2, PortsUntouched
  <2> HIDE DEF making
  <2> QED BY <2>1, <2>2, <2>3, <1>1, <1>2, <1>3, ArrivesAlone, EditKeeps
<1>6. CASE StoresChannel(v)
  <2> DEFINE mine == visit[v].channel
             new == visit[v].new
  <2>1. mine \in Channels /\ new \in Channel /\ edits' = edits
    BY <1>6 DEF StoresChannel, RoutesInv, VisitsFit, VisitFits
  <2>2. edits' \in 0..MaxEdits
    BY <2>1, <1>1 DEF RouteTypes
  <2>3. CASE /\ PortFree(new.port, mine)
             /\ channels' = [channels EXCEPT ![mine] = new]
             /\ visit' = [visit EXCEPT ![v] = loading]
    <3>1. PortsApart' /\ channels' \in [Channels -> Channel \union {Nil}]
      BY <2>1, <2>3, PortsStayApart
    <3> HIDE DEF loading
    <3> QED BY <2>2, <2>3, <3>1, <1>1, <1>2, <1>3, <1>4, LeavesAlone, EditKeeps
  <2>4. CASE Leaves(v) /\ UNCHANGED channels
    <3>1. PortsApart' /\ channels' \in [Channels -> Channel \union {Nil}]
      BY <2>4, PortsUntouched
    <3>2. visit' = [visit EXCEPT ![v] = Resting]
      BY <2>4 DEF Leaves
    <3> QED BY <2>2, <3>1, <3>2, <1>1, <1>2, <1>3, LeavesAlone, RestingVisit, EditKeeps
  <2> QED BY <1>6, <2>3, <2>4 DEF StoresChannel
<1>7. ASSUME NEW id \in Channels, NEW h \in Channel, UpdateChannel(v, id, h)
      PROVE  RoutesInv'
  <2>1. Arrives(v, loading) /\ channels' = [channels EXCEPT ![id] = h] /\ PortFree(h.port, id)
    BY <1>7 DEF UpdateChannel
  <2>2. PortsApart' /\ channels' \in [Channels -> Channel \union {Nil}]
    BY <2>1, PortsStayApart
  <2> HIDE DEF loading
  <2> QED BY <2>1, <2>2, <1>1, <1>2, <1>3, <1>4, ArrivesAlone, EditKeeps
<1>8. ASSUME NEW id \in Channels, DeleteChannel(v, id) PROVE RoutesInv'
  <2>1. Arrives(v, loading) /\ channels' = [channels EXCEPT ![id] = Nil]
    BY <1>8 DEF DeleteChannel
  <2>2. PortsApart' /\ channels' \in [Channels -> Channel \union {Nil}]
    BY <2>1, PortsStayApart
  <2> HIDE DEF loading
  <2> QED BY <2>1, <2>2, <1>1, <1>2, <1>3, <1>4, ArrivesAlone, EditKeeps
<1> QED BY <1>5, <1>6, <1>7, <1>8

LEMMA NodeEditsKeep ==
  ASSUME RoutesInv, RoutesAssumption, NEW v \in Visitors,
         \/ \E there \in SUBSET RouteNodes : NodesChange(v, there)
         \/ \E new \in Profiles : UpdateProfile(v, new)
  PROVE  RoutesInv'
<1> DEFINE loading == [Resting EXCEPT !.at = "reload"]
<1>1. RouteTypes
  BY DEF RoutesInv
<1>2. UNCHANGED <<chains, channels>> /\ CoreKept /\ Arrives(v, loading)
  BY DEF NodesChange, UpdateProfile
<1>3. /\ nodes' \subseteq RouteNodes /\ groups' \in [Groups -> SUBSET RouteNodes]
      /\ profile' \in Profiles
  BY <1>1 DEF RouteTypes, NodesChange, UpdateProfile
<1>4. chains' \in [Chains -> Chain \union {Nil}]
  BY <1>1, <1>2 DEF RouteTypes
<1>5. PortsApart' /\ channels' \in [Channels -> Channel \union {Nil}]
  BY <1>2, PortsUntouched
<1>6. loading \in Visit /\ loading.at \notin Stages /\ VisitFits(loading)
  BY ReloadVisit
<1> HIDE DEF loading
<1> QED BY <1>1, <1>2, <1>3, <1>4, <1>5, <1>6, ArrivesAlone, EditKeeps

LEMMA GroupEditsKeep ==
  ASSUME RoutesInv, RoutesAssumption, NEW g \in Groups, NEW ms \in SUBSET nodes, GroupChanges(g, ms)
  PROVE  RoutesInv'
<1>1. /\ UNCHANGED <<nodes, chains, channels, profile, visit>> /\ CoreKept
      /\ groups' = [groups EXCEPT ![g] = ms] /\ edits < MaxEdits /\ edits' = edits + 1
  BY DEF GroupChanges
<1>2. RouteTypes
  BY DEF RoutesInv
<1>3. /\ nodes' \subseteq RouteNodes /\ groups' \in [Groups -> SUBSET RouteNodes]
      /\ profile' \in Profiles /\ chains' \in [Chains -> Chain \union {Nil}]
      /\ visit' \in [Visitors -> Visit]
  BY <1>1, <1>2 DEF RouteTypes
<1>4. edits' \in 0..MaxEdits
  BY <1>1, <1>2, RoutesAssumption DEF RouteTypes, RoutesAssumption
<1>5. PortsApart' /\ channels' \in [Channels -> Channel \union {Nil}]
  BY <1>1, PortsUntouched
<1> QED BY <1>1, <1>3, <1>4, <1>5, RestingVisit, EditKeeps

-----------------------------------------------------------------------------
(* A build begins, ends or is skipped.                                     *)
LEMMA BuildBegins ==
  ASSUME RoutesInv, RoutesAssumption, NEW v \in Visitors, NEW what \in Visit, NEW t \in Targets,
         what.at = "nodes", busy = Nil, TargetResolves(t),
         visit' = [visit EXCEPT ![v] = what], busy' = v, build' = Blank(t),
         StoresRest, edits' \in 0..MaxEdits, UNCHANGED <<box, unloaded>>
  PROVE  RoutesInv'
<1>1. /\ build' \in Configuration /\ build'.seen = Signature(t) /\ build'.target = t
      /\ build'.found = NotFound /\ build'.nodes = {}
  BY BlankType DEF RoutesInv, Blank
<1>2. visit' \in [Visitors -> Visit]
  BY DEF RoutesInv, RouteTypes
<1>3. RouteTypes'
  BY <1>1, <1>2 DEF RoutesInv, RouteTypes, StoresRest
<1>4. \A w \in Visitors : visit[w].at \notin Stages
  BY RoutesAssumption DEF RoutesInv, OneBuilder, RoutesAssumption
<1>5. /\ visit'[v].at = "nodes"
      /\ \A w \in Visitors \ {v} : visit'[w] = visit[w]
  BY DEF RoutesInv, RouteTypes
<1>6. VisitsFit' /\ OneBuilder'
  BY <1>4, <1>5 DEF RoutesInv, VisitsFit, VisitFits, OneBuilder
<1>7. PortsApart'
  BY DEF RoutesInv, PortsApart, PortFree, StoresRest
<1>8. BuildFits'
  <2> SUFFICES ASSUME NEW w \in Visitors PROVE FitsAt(visit'[w].at, build')
    BY DEF BuildFits
  <2>1. CASE w = v
    BY <2>1, <1>5, <1>1 DEF FitsAt, TargetResolves, NotFound
  <2>2. CASE w # v
    BY <2>2, <1>4, <1>5 DEF FitsAt, Stages
  <2> QED BY <2>1, <2>2
<1> QED BY <1>3, <1>6, <1>7, <1>8 DEF RoutesInv

LEMMA BuildEnds ==
  ASSUME RoutesInv, RoutesAssumption, NEW v \in Visitors, visit[v].at \in Stages, Leaves(v),
         busy' = Nil, build' = NoBuild, StoresRest, UNCHANGED edits,
         unloaded' \in BOOLEAN, box' \in {box, NoBox, [state |-> "running", config |-> build]}
  PROVE  RoutesInv'
<1>1. build' \in Configuration /\ box' \in [state : {"off", "running", "backoff"}, config : Configuration]
  BY NoBuildType DEF RoutesInv, RouteTypes, NoBox
<1>2. RouteTypes'
  BY <1>1, RestingVisit DEF RoutesInv, RouteTypes, StoresRest, Leaves
<1>3. \A w \in Visitors : visit'[w].at \notin Stages
  BY RoutesAssumption, RestingVisit
     DEF RoutesInv, RouteTypes, OneBuilder, RoutesAssumption, Leaves
<1>4. VisitsFit'
  BY RestingVisit DEF RoutesInv, RouteTypes, VisitsFit, VisitFits, Leaves
<1>5. PortsApart'
  BY DEF RoutesInv, PortsApart, PortFree, StoresRest
<1>6. OneBuilder' /\ BuildFits'
  BY <1>3 DEF OneBuilder, BuildFits, FitsAt, Stages
<1> QED BY <1>2, <1>4, <1>5, <1>6 DEF RoutesInv

(* What stays outside the build and touches no store.                      *)
LEMMA AsideKeeps ==
  ASSUME RoutesInv, StoresRest, UNCHANGED <<build, busy>>,
         unloaded' \in BOOLEAN, edits' \in 0..MaxEdits,
         box' \in [state : {"off", "running", "backoff"}, config : Configuration],
         visit' \in [Visitors -> Visit],
         \A w \in Visitors : visit'[w] = visit[w] \/ visit'[w] = Resting
  PROVE  RoutesInv'
<1>1. RouteTypes'
  BY DEF RoutesInv, RouteTypes, StoresRest
<1>2. VisitsFit'
  BY RestingVisit DEF RoutesInv, VisitsFit, VisitFits
<1>3. PortsApart'
  BY DEF RoutesInv, PortsApart, PortFree, StoresRest
<1>4. OneBuilder' /\ BuildFits'
  BY RestingVisit, OutsideBuild
<1> QED BY <1>1, <1>2, <1>3, <1>4 DEF RoutesInv

LEMMA BuildsKeep ==
  ASSUME RoutesInv, RoutesAssumption, NEW v \in Visitors, Builds(v)
  PROVE  RoutesInv'
<1>1. RouteTypes
  BY DEF RoutesInv
<1>2. CASE SkipsReload(v)
  BY <1>2, <1>1, LeavesAlone, RestingVisit, AsideKeeps DEF SkipsReload, Leaves, RouteTypes
<1>3. CASE Reloads(v)
  <2>1. CASE TargetResolves(box.config.target)
    <3> DEFINE what == [visit[v] EXCEPT !.at = "nodes"]
    <3>1. what \in Visit /\ what.at = "nodes" /\ visit' = [visit EXCEPT ![v] = what]
      BY <1>1, <1>3, <2>1 DEF Reloads, Moved, RouteTypes, Visit
    <3>2. box.config.target \in Targets
      BY <1>1 DEF RouteTypes, Configuration
    <3>3. edits' \in 0..MaxEdits
      BY <1>1, <1>3 DEF Reloads, RouteTypes
    <3> HIDE DEF what
    <3> QED BY <3>1, <3>2, <3>3, <1>3, <2>1, BuildBegins DEF Reloads
  <2>2. CASE ~TargetResolves(box.config.target)
    BY <1>3, <2>2, <1>1, LeavesAlone, RestingVisit, AsideKeeps DEF Reloads, Leaves, RouteTypes
  <2> QED BY <2>1, <2>2
<1>4. CASE ReadsNodes(v) \/ ReadsGroups(v) \/ ReadsChains(v) \/ ReadsChannels(v) \/ Compiles(v)
  BY <1>4, ReadsKeep
<1>5. CASE Starts(v)
  BY <1>5, BuildEnds DEF Starts, Stages
<1>6. CASE Fails(v)
  BY <1>6, BuildEnds DEF Fails, GivesUp, Stages
<1> QED BY <1>2, <1>3, <1>4, <1>5, <1>6 DEF Builds

LEMMA ApplyKeeps ==
  ASSUME RoutesInv, RoutesAssumption, NEW v \in Visitors, NEW t \in Targets, Apply(v, t)
  PROVE  RoutesInv'
<1> DEFINE what == [Resting EXCEPT !.at = "nodes"]
<1>1. what \in Visit /\ what.at = "nodes"
  BY DEF Resting, Visit
<1>2. Arrives(v, what) /\ RouteTypes
  BY DEF Apply, RoutesInv
<1>3. visit' = [visit EXCEPT ![v] = what] /\ edits' \in 0..MaxEdits
  BY <1>1, <1>2, ArrivesAlone DEF Arrives
<1> HIDE DEF what
<1> QED BY <1>1, <1>3, BuildBegins DEF Apply

LEMMA BoxKeeps ==
  ASSUME RoutesInv, RoutesAssumption, BoxCrashes \/ BoxRecovers \/ BoxGivesUp
  PROVE  RoutesInv'
<1>1. box' \in [state : {"off", "running", "backoff"}, config : Configuration]
  BY NoBuildType DEF RoutesInv, RouteTypes, BoxCrashes, BoxRecovers, BoxGivesUp, BoxChanges, NoBox
<1>2. edits' \in 0..MaxEdits
  BY RoutesAssumption
     DEF RoutesInv, RouteTypes, RoutesAssumption, BoxCrashes, BoxRecovers, BoxGivesUp
<1>3. StoresRest /\ UNCHANGED <<visit, build, busy, unloaded>>
  BY DEF BoxCrashes, BoxRecovers, BoxGivesUp, BoxChanges
<1> QED BY <1>1, <1>2, <1>3, AsideKeeps DEF RoutesInv, RouteTypes

-----------------------------------------------------------------------------
LEMMA RoutesInitially ==
  ASSUME RoutesInit, RoutesAssumption
  PROVE  RoutesInv
<1>1. RouteTypes
  <2>1. NoBuild \in Configuration /\ NoBox \in [state : {"off", "running", "backoff"}, config : Configuration]
    BY NoBuildType DEF NoBox
  <2>2. chains \in [Chains -> Chain \union {Nil}]
    <3>1. chains \in [Chains -> {c \in Chain : c.entry # c.exit} \union {Nil}]
      BY DEF RoutesInit
    <3>2. \A c \in Chains : chains[c] \in Chain \union {Nil}
      BY <3>1
    <3> QED BY <3>1, <3>2
  <2>3. visit \in [Visitors -> Visit]
    BY RestingVisit DEF RoutesInit
  <2>4. /\ nodes \subseteq RouteNodes /\ groups \in [Groups -> SUBSET RouteNodes]
        /\ channels \in [Channels -> Channel \union {Nil}]
    BY DEF RoutesInit
  <2>5. /\ profile \in Profiles /\ busy \in Visitors \union {Nil}
        /\ unloaded \in BOOLEAN
    BY DEF RoutesInit
  <2>6. edits \in 0..MaxEdits
    BY DEF RoutesInit, RoutesAssumption
  <2> QED BY <2>1, <2>2, <2>3, <2>4, <2>5, <2>6 DEF RoutesInit, RouteTypes
<1>2. \A v \in Visitors : visit[v] = Resting
  BY DEF RoutesInit
<1>3. VisitsFit /\ OneBuilder /\ BuildFits
  BY <1>2, RestingVisit DEF VisitsFit, OneBuilder, BuildFits, FitsAt, Stages
<1>4. PortsApart
  BY DEF RoutesInit, PortsApart
<1> QED BY <1>1, <1>3, <1>4 DEF RoutesInv

LEMMA RoutesStep ==
  ASSUME RoutesInv, RoutesAssumption, [RoutesNext]_routeVars
  PROVE  RoutesInv'
<1>1. CASE UNCHANGED routeVars
  BY <1>1 DEF routeVars, RoutesInv, RouteTypes, VisitsFit, VisitFits, PortsApart, PortFree,
              OneBuilder, BuildFits, FitsAt, GroupsFit, ChainsFit, ChannelsFit, TargetFits
<1>2. ASSUME NEW v \in Visitors, Edits(v) PROVE RoutesInv'
  BY <1>2, NodeEditsKeep, ChainEditsKeep, ChannelEditsKeep, ApplyKeeps DEF Edits
<1>3. ASSUME NEW v \in Visitors, Builds(v) PROVE RoutesInv'
  BY <1>3, BuildsKeep
<1>4. ASSUME NEW v \in Visitors, StoresChain(v) \/ RemovesChain(v) \/ StoresChannel(v)
      PROVE  RoutesInv'
  BY <1>4, ChainEditsKeep, ChannelEditsKeep
<1>5. ASSUME NEW g \in Groups, NEW ms \in SUBSET nodes, GroupChanges(g, ms) PROVE RoutesInv'
  BY <1>5, GroupEditsKeep
<1>6. ASSUME NEW id \in Chains, NEW c \in Chain, UpdateChain(id, c) PROVE RoutesInv'
  BY <1>6, ChainEditsKeep
<1>7. CASE BoxCrashes \/ BoxRecovers \/ BoxGivesUp
  BY <1>7, BoxKeeps
<1> QED BY <1>1, <1>2, <1>3, <1>4, <1>5, <1>6, <1>7 DEF RoutesNext

LEMMA RoutesInvariant == RoutesSpec => []RoutesInv
<1>1. RoutesInit => RoutesInv
  BY RoutesAssumption, RoutesInitially
<1>2. RoutesInv /\ [RoutesNext]_routeVars => RoutesInv'
  BY RoutesAssumption, RoutesStep
<1> QED BY <1>1, <1>2, PTL DEF RoutesSpec

(* Whatever is stored, changed and applied by however many requests, what  *)
(* buildRuntimeCatalog hands to BuildSelectableConfig fits together.       *)
THEOREM CatalogAlwaysFits == RoutesSpec => []CatalogFitsTogether
<1>1. RoutesInv => CatalogFitsTogether
  <2> SUFFICES ASSUME RoutesInv, NEW v \in Visitors, visit[v].at = "compile"
               PROVE  Acceptable(build)
    BY DEF CatalogFitsTogether
  <2>1. GroupsFit(build) /\ ChainsFit(build) /\ ChannelsFit(build) /\ TargetFits(build)
    BY DEF RoutesInv, BuildFits, FitsAt
  <2> QED BY <2>1 DEF Acceptable, GroupsFit, ChainsFit, ChannelsFit, TargetFits
<1> QED BY <1>1, RoutesInvariant, PTL

(* Every store, request, build and configuration is of its type, and the   *)
(* saved channels have ports of their own, in whichever order requests     *)
(* that checked a port save it.                                            *)
THEOREM RoutesTypeCorrect == RoutesSpec => []RoutesTypeOK
<1>1. RoutesInv => RoutesTypeOK
  BY DEF RoutesInv, RoutesTypeOK, PortsApart
<1> QED BY <1>1, RoutesInvariant, PTL

-----------------------------------------------------------------------------
(* A running core has what is saved.  A change leaves a request on its way *)
(* to reload (Loading), and that request cannot pass a build that may have *)
(* read the stores before the change; so, with nobody on the way, what a   *)
(* build has read is what is saved still (BuildCurrent), and what the core *)
(* was given last as well (CoreCurrent), also while it waits to restart.   *)
Loading == \E v \in Visitors : visit[v].at = "reload"

Saved ==
  [profile |-> profile, nodes |-> nodes,
   channels |-> [h \in Channels |->
     IF channels[h] # Nil /\ channels[h].enabled /\ channels[h].node \in nodes
     THEN channels[h] ELSE Nil]]

Current(c, saved) == c.profile = saved.profile /\ c.channels = saved.channels

CoreCurrent ==
  \/ box.state = "off" \/ unloaded \/ Loading
  \/ \E v \in Visitors : visit[v].at \in Stages
  \/ Current(box.config, Saved)

CurrentAt(at, b, saved) ==
  /\ at \in Stages => b.profile = saved.profile
  /\ at \in Stages \ {"nodes"} => b.nodes = saved.nodes
  /\ at \in {"compile", "start"} => b.channels = saved.channels

BuildCurrent == Loading \/ \A v \in Visitors : CurrentAt(visit[v].at, build, Saved)

ForceInv == RoutesInv /\ CoreCurrent /\ BuildCurrent

(* A request on its way to reload settles both.                            *)
LEMMA LoadingSettles ==
  ASSUME NEW v \in Visitors, visit'[v].at = "reload"
  PROVE  CoreCurrent' /\ BuildCurrent'
BY DEF CoreCurrent, BuildCurrent, Loading

LEMMA SavedKept ==
  ASSUME UNCHANGED <<nodes, channels, profile>>
  PROVE  Saved' = Saved
BY DEF Saved

(* Chains and pools do not matter, nor requests that are elsewhere.        *)
LEMMA ElsewhereSettles ==
  ASSUME ForceInv, UNCHANGED <<nodes, channels, profile, build, unloaded>>,
         box'.state # "off" => box.state # "off" /\ box'.config = box.config,
         \A v \in Visitors :
           \/ visit'[v].at = visit[v].at
           \/ visit[v].at \notin Stages \union {"reload"} /\ visit'[v].at \notin Stages \union {"reload"}
  PROVE  CoreCurrent' /\ BuildCurrent'
<1>1. (Loading' <=> Loading) /\ Saved' = Saved
  BY SavedKept DEF Loading, Stages
<1>2. CoreCurrent'
  <2>1. CASE box'.state = "off" \/ unloaded \/ Loading \/ \E v \in Visitors : visit[v].at \in Stages
    BY <2>1, <1>1 DEF CoreCurrent
  <2>2. CASE box'.state # "off" /\ ~unloaded /\ ~Loading /\ ~\E v \in Visitors : visit[v].at \in Stages
    <3>1. Current(box.config, Saved) /\ box'.config = box.config
      BY <2>2 DEF ForceInv, CoreCurrent
    <3> QED BY <3>1, <1>1 DEF CoreCurrent
  <2> QED BY <2>1, <2>2
<1>3. BuildCurrent'
  <2> SUFFICES ASSUME ~Loading, NEW v \in Visitors
               PROVE  CurrentAt(visit'[v].at, build', Saved')
    BY <1>1 DEF BuildCurrent
  <2>1. CurrentAt(visit[v].at, build, Saved)
    BY DEF ForceInv, BuildCurrent
  <2> QED BY <2>1, <1>1 DEF CurrentAt, Stages
<1> QED BY <1>2, <1>3

LEMMA BuildGoesSettles ==
  ASSUME ForceInv, NEW v \in Visitors, NEW from \in Stages, NEW to \in Stages, NEW new,
         BuildGoes(v, from, to, new),
         CurrentAt(from, build, Saved) => CurrentAt(to, new, Saved)
  PROVE  CoreCurrent' /\ BuildCurrent'
<1>1. /\ visit[v].at = from /\ visit'[v].at = to /\ busy = v /\ build' = new
      /\ \A w \in Visitors \ {v} : visit'[w] = visit[w] /\ visit[w].at \notin Stages
  BY DEF BuildGoes, Moved, ForceInv, RoutesInv, RouteTypes, Visit, OneBuilder
<1>2. Saved' = Saved
  BY SavedKept DEF BuildGoes, StoresRest
<1>3. CoreCurrent'
  BY <1>1 DEF CoreCurrent
<1>4. Loading' <=> Loading
  BY <1>1 DEF Loading, Stages
<1>5. ASSUME ~Loading, NEW w \in Visitors PROVE CurrentAt(visit'[w].at, build', Saved')
  <2>1. CASE w = v
    BY <2>1, <1>1, <1>2, <1>5 DEF ForceInv, BuildCurrent
  <2>2. CASE w # v
    BY <2>2, <1>1 DEF CurrentAt, Stages
  <2> QED BY <2>1, <2>2
<1> QED BY <1>3, <1>4, <1>5 DEF BuildCurrent

LEMMA ReadsSettle ==
  ASSUME ForceInv, NEW v \in Visitors,
         ReadsNodes(v) \/ ReadsGroups(v) \/ ReadsChains(v) \/ ReadsChannels(v) \/ Compiles(v)
  PROVE  CoreCurrent' /\ BuildCurrent'
<1> USE DEF Stages
<1>1. build \in Configuration
  BY DEF ForceInv, RoutesInv, RouteTypes
<1>2. Saved.nodes = nodes /\ Saved.profile = profile
  BY DEF Saved
<1>3. CASE ReadsNodes(v)
  <2> DEFINE new == [build EXCEPT !.nodes = nodes, !.found = FoundAmong(nodes)]
  <2>1. new.nodes = nodes /\ new.profile = build.profile
    BY <1>1 DEF Configuration
  <2>2. BuildGoes(v, "nodes", "groups", new)
    BY <1>3 DEF ReadsNodes
  <2>3. CurrentAt("nodes", build, Saved) => CurrentAt("groups", new, Saved)
    BY <2>1, <1>2 DEF CurrentAt
  <2> HIDE DEF new
  <2> QED BY <2>2, <2>3, BuildGoesSettles
<1>4. CASE ReadsGroups(v)
  <2> DEFINE members(g) == Resolved(g) \intersect build.nodes
             usable == {g \in Groups : Cardinality(members(g)) >= 2}
             new == [build EXCEPT !.groups = [g \in Groups |-> IF g \in usable THEN members(g) ELSE {}],
                                  !.found = FoundAmong(usable)]
  <2>1. new.nodes = build.nodes /\ new.profile = build.profile
    BY <1>1 DEF Configuration
  <2>2. BuildGoes(v, "groups", "chains", new)
    BY <1>4 DEF ReadsGroups
  <2> HIDE DEF new
  <2>3. CurrentAt("groups", build, Saved) => CurrentAt("chains", new, Saved)
    BY <2>1 DEF CurrentAt
  <2> QED BY <2>2, <2>3, BuildGoesSettles
<1>5. CASE ReadsChains(v)
  <2> DEFINE usable == {id \in Chains : /\ chains[id] # Nil /\ ChainResolves(chains[id])
                                        /\ chains[id].exit \in build.nodes}
             new == [build EXCEPT !.chains = [id \in Chains |-> IF id \in usable
                                       THEN <<chains[id], EntryNodes(chains[id])>> ELSE Nil],
                                  !.found = FoundAmong(usable)]
  <2>1. new.nodes = build.nodes /\ new.profile = build.profile
    BY <1>1 DEF Configuration
  <2>2. BuildGoes(v, "chains", "channels", new)
    BY <1>5 DEF ReadsChains, TakesChains
  <2> HIDE DEF new
  <2>3. CurrentAt("chains", build, Saved) => CurrentAt("channels", new, Saved)
    BY <2>1 DEF CurrentAt
  <2> QED BY <2>2, <2>3, BuildGoesSettles
<1>6. CASE ReadsChannels(v)
  <2> DEFINE found == [h \in Channels |->
               IF channels[h] # Nil /\ channels[h].enabled
                  /\ channels[h].node \in nodes \intersect build.nodes
               THEN channels[h] ELSE Nil]
             new == [build EXCEPT !.channels = found]
  <2>1. BuildGoes(v, "channels", "compile", new)
    BY <1>6 DEF ReadsChannels
  <2>2. new.nodes = build.nodes /\ new.profile = build.profile /\ new.channels = found
    BY <1>1 DEF Configuration
  <2>3. ASSUME CurrentAt("channels", build, Saved) PROVE CurrentAt("compile", new, Saved)
    <3>1. build.nodes = nodes
      BY <2>3, <1>2 DEF CurrentAt
    <3>2. found = Saved.channels
      BY <3>1 DEF Saved
    <3> HIDE DEF found, new
    <3> QED BY <3>2, <2>2, <2>3 DEF CurrentAt
  <2> HIDE DEF new
  <2> QED BY <2>1, <2>3, BuildGoesSettles
<1>7. CASE Compiles(v)
  <2>1. BuildGoes(v, "compile", "start", build)
    BY <1>7 DEF Compiles
  <2>2. CurrentAt("compile", build, Saved) => CurrentAt("start", build, Saved)
    BY DEF CurrentAt
  <2> QED BY <2>1, <2>2, BuildGoesSettles
<1> QED BY <1>3, <1>4, <1>5, <1>6, <1>7

(* A build begins with the saved profile, and ends with what is in force.  *)
LEMMA BeginsSettled ==
  ASSUME ForceInv, RoutesAssumption, NEW v \in Visitors, NEW t \in Targets, busy = Nil,
         visit'[v].at = "nodes", \A w \in Visitors \ {v} : visit'[w] = visit[w],
         build' = Blank(t), StoresRest
  PROVE  CoreCurrent' /\ BuildCurrent'
<1>1. \A w \in Visitors \ {v} : visit'[w].at \notin Stages
  BY DEF ForceInv, RoutesInv, OneBuilder, RoutesAssumption
<1>2. build'.profile = Saved'.profile
  BY DEF Blank, Saved, StoresRest
<1>3. CoreCurrent'
  BY DEF CoreCurrent, Stages
<1>4. \A w \in Visitors : CurrentAt(visit'[w].at, build', Saved')
  BY <1>1, <1>2 DEF CurrentAt, Stages
<1> QED BY <1>3, <1>4 DEF BuildCurrent

LEMMA StartsSettled ==
  ASSUME ForceInv, RoutesAssumption, NEW v \in Visitors, Starts(v)
  PROVE  CoreCurrent' /\ BuildCurrent'
<1>1. /\ visit[v].at = "start" /\ box'.config = build /\ StoresRest
      /\ visit'[v] = Resting /\ \A w \in Visitors \ {v} : visit'[w] = visit[w]
  BY DEF Starts, Leaves, ForceInv, RoutesInv, RouteTypes
<1>2. \A w \in Visitors : visit'[w].at \notin Stages
  BY <1>1, RestingVisit DEF ForceInv, RoutesInv, OneBuilder, Stages
<1>3. Saved' = Saved
  BY <1>1, SavedKept DEF StoresRest
<1>4. (Loading' <=> Loading)
  BY <1>1 DEF Loading, Resting
<1>5. CASE Loading
  BY <1>5, <1>4 DEF CoreCurrent, BuildCurrent
<1>6. CASE ~Loading
  <2>1. CurrentAt("start", build, Saved)
    BY <1>1, <1>6 DEF ForceInv, BuildCurrent
  <2>2. Current(box'.config, Saved')
    BY <2>1, <1>1, <1>3 DEF CurrentAt, Current, Stages
  <2>3. \A w \in Visitors : CurrentAt(visit'[w].at, build', Saved')
    BY <1>2 DEF CurrentAt, Stages
  <2> QED BY <2>2, <2>3 DEF CoreCurrent, BuildCurrent
<1> QED BY <1>5, <1>6

(* A build that fails, and a reload that does, is put on record.           *)
LEMMA UnloadedSettles ==
  ASSUME ForceInv, RoutesAssumption, NEW v \in Visitors, Leaves(v), StoresRest,
         unloaded' \/ box'.state = "off",
         busy = Nil \/ busy = v
  PROVE  CoreCurrent' /\ BuildCurrent'
<1>1. \A w \in Visitors : visit'[w].at \notin Stages
  <2>1. \A w \in Visitors \ {v} : visit'[w] = visit[w] /\ visit[w].at \notin Stages
    BY DEF Leaves, ForceInv, RoutesInv, RouteTypes, OneBuilder, RoutesAssumption
  <2>2. visit'[v] = Resting
    BY DEF Leaves, ForceInv, RoutesInv, RouteTypes
  <2> QED BY <2>1, <2>2, RestingVisit
<1> QED BY <1>1 DEF CoreCurrent, BuildCurrent, CurrentAt, Stages

LEMMA EditsSettle ==
  ASSUME ForceInv, RoutesAssumption, NEW v \in Visitors,
         Edits(v) \/ StoresChain(v) \/ RemovesChain(v) \/ StoresChannel(v)
  PROVE  CoreCurrent' /\ BuildCurrent'
<1>1. visit \in [Visitors -> Visit]
  BY DEF ForceInv, RoutesInv, RouteTypes
<1>2. ASSUME NEW what, visit[v] = Resting, what.at \notin Stages \union {"reload"},
             visit' = [visit EXCEPT ![v] = what],
             UNCHANGED <<nodes, channels, profile, build, unloaded, box>>
      PROVE  CoreCurrent' /\ BuildCurrent'
  BY <1>1, <1>2, ElsewhereSettles DEF Resting, Stages
<1>3. CASE \/ \E there \in SUBSET RouteNodes : NodesChange(v, there)
           \/ \E new \in Profiles : UpdateProfile(v, new)
           \/ \E id \in Channels, h \in Channel : UpdateChannel(v, id, h)
           \/ \E id \in Channels : DeleteChannel(v, id)
  <2>1. visit'[v].at = "reload"
    BY <1>1, <1>3 DEF NodesChange, UpdateProfile, UpdateChannel, DeleteChannel, Arrives, Resting
  <2> QED BY <2>1, LoadingSettles
<1>4. ASSUME NEW id \in Chains, NEW c \in Chain, CreateChain(v, id, c)
      PROVE  CoreCurrent' /\ BuildCurrent'
  <2> DEFINE what == [Resting EXCEPT !.at = "chain", !.chain = id, !.new = c]
  <2>1. what.at \notin Stages \union {"reload"}
    BY DEF Resting, Stages
  <2>2. Arrives(v, what) /\ UNCHANGED <<nodes, channels, profile, build, unloaded, box>>
    BY <1>4 DEF CreateChain, CoreKept
  <2> HIDE DEF what
  <2> QED BY <1>2, <2>1, <2>2 DEF Arrives
<1>5. ASSUME NEW id \in Chains, DeleteChain(v, id)
      PROVE  CoreCurrent' /\ BuildCurrent'
  <2> DEFINE what == [Resting EXCEPT !.at = "unchain", !.chain = id]
  <2>1. what.at \notin Stages \union {"reload"}
    BY DEF Resting, Stages
  <2>2. Arrives(v, what) /\ UNCHANGED <<nodes, channels, profile, build, unloaded, box>>
    BY <1>5 DEF DeleteChain, CoreKept
  <2> HIDE DEF what
  <2> QED BY <1>2, <2>1, <2>2 DEF Arrives
<1>6. ASSUME NEW id \in Channels, NEW h \in Channel, CreateChannel(v, id, h)
      PROVE  CoreCurrent' /\ BuildCurrent'
  <2> DEFINE what == [Resting EXCEPT !.at = "channel", !.channel = id, !.new = h]
  <2>1. what.at \notin Stages \union {"reload"}
    BY DEF Resting, Stages
  <2>2. Arrives(v, what) /\ UNCHANGED <<nodes, channels, profile, build, unloaded, box>>
    BY <1>6 DEF CreateChannel, CoreKept
  <2> HIDE DEF what
  <2> QED BY <1>2, <2>1, <2>2 DEF Arrives
<1>7. ASSUME NEW t \in Targets, Apply(v, t)
      PROVE  CoreCurrent' /\ BuildCurrent'
  <2>1. visit'[v].at = "nodes" /\ \A w \in Visitors \ {v} : visit'[w] = visit[w]
    BY <1>1, <1>7 DEF Apply, Arrives, Resting
  <2> QED BY <2>1, <1>7, BeginsSettled DEF Apply
<1>8. CASE StoresChain(v) \/ RemovesChain(v) \/ (StoresChannel(v) /\ UNCHANGED channels)
  <2>1. /\ UNCHANGED <<nodes, channels, profile, build, unloaded, box>>
        /\ visit[v].at \notin Stages \union {"reload"}
        /\ \/ visit' = [visit EXCEPT ![v] = Resting]
           \/ visit' = [visit EXCEPT ![v] = [Resting EXCEPT !.at = "reload"]]
    BY <1>8 DEF StoresChain, RemovesChain, StoresChannel, Leaves, CoreKept, Stages
  <2>2. CASE visit' = [visit EXCEPT ![v] = Resting]
    BY <2>1, <2>2, <1>1, ElsewhereSettles DEF Resting, Stages
  <2>3. CASE visit' = [visit EXCEPT ![v] = [Resting EXCEPT !.at = "reload"]]
    <3>1. visit'[v].at = "reload"
      BY <2>3, <1>1 DEF Resting
    <3> QED BY <3>1, LoadingSettles
  <2> QED BY <2>1, <2>2, <2>3
<1>9. CASE StoresChannel(v) /\ ~UNCHANGED channels
  <2>1. visit'[v].at = "reload"
    BY <1>1, <1>9 DEF StoresChannel, Resting
  <2> QED BY <2>1, LoadingSettles
<1> QED BY <1>3, <1>4, <1>5, <1>6, <1>7, <1>8, <1>9 DEF Edits

LEMMA BuildsSettle ==
  ASSUME ForceInv, RoutesAssumption, NEW v \in Visitors, Builds(v)
  PROVE  CoreCurrent' /\ BuildCurrent'
<1>1. visit \in [Visitors -> Visit] /\ box.config.target \in Targets
        /\ box.state \in {"off", "running", "backoff"}
  BY DEF ForceInv, RoutesInv, RouteTypes, Configuration
<1>2. CASE SkipsReload(v)
  BY <1>2, <1>1, UnloadedSettles DEF SkipsReload
<1>3. CASE Reloads(v)
  <2>1. CASE TargetResolves(box.config.target)
    <3>1. visit'[v].at = "nodes" /\ \A w \in Visitors \ {v} : visit'[w] = visit[w]
      BY <1>1, <1>3, <2>1 DEF Reloads, Moved, Visit
    <3> QED BY <3>1, <2>1, <1>1, <1>3, BeginsSettled DEF Reloads
  <2>2. CASE ~TargetResolves(box.config.target)
    BY <2>2, <1>3, UnloadedSettles DEF Reloads
  <2> QED BY <2>1, <2>2
<1>4. CASE ReadsNodes(v) \/ ReadsGroups(v) \/ ReadsChains(v) \/ ReadsChannels(v) \/ Compiles(v)
  BY <1>4, ReadsSettle
<1>5. CASE Starts(v)
  BY <1>5, StartsSettled
<1>6. CASE Fails(v)
  <2>1. busy = v
    BY <1>6 DEF Fails, GivesUp, ForceInv, RoutesInv, OneBuilder, Stages
  <2> QED BY <2>1, <1>6, UnloadedSettles DEF Fails, GivesUp
<1> QED BY <1>2, <1>3, <1>4, <1>5, <1>6 DEF Builds

LEMMA ForceStep ==
  ASSUME ForceInv, RoutesAssumption, [RoutesNext]_routeVars
  PROVE  ForceInv'
<1>1. RoutesInv'
  BY RoutesStep DEF ForceInv
<1>2. CASE UNCHANGED routeVars
  BY <1>2, ElsewhereSettles, <1>1 DEF routeVars, ForceInv
<1>3. ASSUME NEW v \in Visitors, Edits(v) \/ StoresChain(v) \/ RemovesChain(v) \/ StoresChannel(v)
      PROVE  CoreCurrent' /\ BuildCurrent'
  BY <1>3, EditsSettle
<1>4. ASSUME NEW v \in Visitors, Builds(v) PROVE CoreCurrent' /\ BuildCurrent'
  BY <1>4, BuildsSettle
<1>5. CASE \/ \E g \in Groups, ms \in SUBSET nodes : GroupChanges(g, ms)
           \/ \E id \in Chains, c \in Chain : UpdateChain(id, c)
  <2>1. UNCHANGED <<nodes, channels, profile, build, unloaded, visit, box>>
    BY <1>5 DEF GroupChanges, UpdateChain, CoreKept
  <2> QED BY <2>1, <1>1, ElsewhereSettles DEF ForceInv
<1>6. CASE BoxCrashes \/ BoxRecovers \/ BoxGivesUp
  <2>1. UNCHANGED <<nodes, channels, profile, build, unloaded, visit>>
    BY <1>6 DEF BoxCrashes, BoxRecovers, BoxGivesUp, BoxChanges, StoresRest
  <2>2. box'.state # "off" => box.state # "off" /\ box'.config = box.config
    BY <1>6 DEF BoxCrashes, BoxRecovers, BoxGivesUp, BoxChanges, NoBox, ForceInv, RoutesInv, RouteTypes
  <2> QED BY <2>1, <2>2, <1>1, ElsewhereSettles DEF ForceInv
<1> QED BY <1>1, <1>2, <1>3, <1>4, <1>5, <1>6 DEF RoutesNext, ForceInv

(* A core that runs, with nobody on the way to reload it and no reload     *)
(* skipped or failed, has the saved DNS profile and the saved channels,    *)
(* for any number of requests and whatever they do meanwhile.              *)
THEOREM RoutesAreInForce == RoutesSpec => []RoutesInForce
<1>1. RoutesInit => ForceInv
  <2> SUFFICES ASSUME RoutesInit PROVE ForceInv
    OBVIOUS
  <2>1. RoutesInv
    BY RoutesAssumption, RoutesInitially
  <2>2. box.state = "off" /\ \A v \in Visitors : visit[v].at \notin Stages
    BY RestingVisit DEF RoutesInit, NoBox
  <2> QED BY <2>1, <2>2 DEF ForceInv, CoreCurrent, BuildCurrent, CurrentAt, Stages
<1>2. ForceInv /\ [RoutesNext]_routeVars => ForceInv'
  BY RoutesAssumption, ForceStep
<1>3. ForceInv => RoutesInForce
  <2> SUFFICES ASSUME ForceInv, box.state = "running", ~unloaded,
                      \A v \in Visitors : visit[v].at \in {"idle", "chain", "unchain", "channel"}
               PROVE  Current(box.config, Saved)
    BY DEF RoutesInForce, Current, Saved
  <2> QED BY DEF ForceInv, CoreCurrent, Loading, Stages
<1> QED BY <1>1, <1>2, <1>3, PTL DEF RoutesSpec
=============================================================================
