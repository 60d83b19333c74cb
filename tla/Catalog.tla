------------------------------- MODULE Catalog -------------------------------
(***************************************************************************)
(* The stores of subscriptions, node pools and rules together with what    *)
(* the control service makes of them: an Apply or a reload reads them one  *)
(* after the other, compiles a configuration and puts it into force, under *)
(* the operation mutex; requests keep changing the stores meanwhile.       *)
(*                                                                         *)
(* How a core is started, watched and stopped is in modules Control and    *)
(* Supervisor.  Here it is off, running with what it was last given, or    *)
(* waiting for a restart after a crash, when a reload does nothing.        *)
(***************************************************************************)
EXTENDS Subscriptions

CONSTANTS
  Goals,      \* the targets the user asks for
  ServerOf    \* the server a node is, whatever it is called

VARIABLES
  core,    \* its state, its target and the rules it was given
  opMu,    \* operationMu: the request that holds it
  plan,    \* the target and the rules compiled for the next core
  stale    \* history: a reload was skipped or failed since the core was given its rules

runVars == <<core, opMu, plan, stale>>

vars == <<poolVars, ruleVars, subVars, runVars>>

Goal == [kind : {"direct", "node", "pool"}, s : Subs \union {None},
         n : Nodes \union {None}, p : Pools \union {None}]

ASSUME CatalogAssumption == DOMAIN ServerOf = Nodes /\ Goals \subseteq Goal

Direct == [kind |-> "direct", s |-> None, n |-> None, p |-> None]

Off == [state |-> "off", goal |-> Direct, on |-> Enabled([s \in Subs |-> NoRules])]

Plan == [goal : Goal, on : [Subs -> SUBSET Rules]]

NoPlan == [goal |-> Direct, on |-> Off.on]

CatalogInit == SubsInit /\ core = Off /\ opMu = None /\ plan = NoPlan /\ stale = FALSE

RunKept == UNCHANGED runVars

(* What can be made a configuration of: a node that is there, a pool with  *)
(* two members that are.                                                   *)
Resolves(g) ==
  CASE g.kind = "direct" -> TRUE
    [] g.kind = "node" -> <<g.s, g.n>> \in There(subs)
    [] g.kind = "pool" -> Stored(g.p) /\ Cardinality(pools[g.p] \intersect There(subs)) >= 2

(* A node target becomes the active subscription and the selected node in  *)
(* two writes, before anything is known to work.                           *)
Settles(g) ==
  IF g.kind # "node" THEN SubsKept /\ NoFault
  ELSE SubsBecome(Selecting(Activating(subs, g.s), g.s, g.n)) /\ NoFault

SettlesPartly(g) ==
  /\ g.kind = "node" /\ Fault
  /\ SubsKept \/ SubsBecome(Activating(subs, g.s))

-----------------------------------------------------------------------------
(* A reload is over; only a refresh has more to do when it failed.         *)
ReloadEnds(q) == Ends(q) /\ Frees(q)

ReloadFails(q) ==
  /\ stale' = TRUE
  /\ IF req[q].op \in {"create", "refresh", "auto"} THEN RecordError /\ Fails(q)
     ELSE SubsKept /\ ReloadEnds(q)

(* ReapplyRules does nothing unless the core runs at that instant.         *)
SkipsReload(q) ==
  /\ req[q].at = "reload" /\ opMu = None
  /\ core.state # "running"
  /\ stale' = (stale \/ core.state = "backoff")
  /\ ReloadEnds(q)
  /\ UNCHANGED <<subs, subFile, calls, faults, uncleaned, core, opMu, plan>> /\ StoresKept

(* It compiles the current rules for the current target, or fails because  *)
(* the target is gone, a rule cannot be compiled or a write fails.         *)
Reloads(q) ==
  /\ req[q].at = "reload" /\ opMu = None
  /\ core.state = "running"
  /\ Resolves(core.goal) /\ Compiles(rules)
  /\ Settles(core.goal) /\ plan' = [goal |-> core.goal, on |-> Enabled(rules)]
  /\ opMu' = q /\ Moves(q, "start")
  /\ UNCHANGED <<lock, calls, uncleaned, core, stale>> /\ StoresKept

CannotReload(q) ==
  /\ req[q].at = "reload" /\ opMu = None
  /\ core.state = "running"
  /\ \/ /\ ~(Resolves(core.goal) /\ Compiles(rules))
        /\ ReloadFails(q) /\ NoFault
     \/ /\ Resolves(core.goal) /\ SettlesPartly(core.goal)
        /\ stale' = TRUE
        /\ IF req[q].op \in {"create", "refresh", "auto"} THEN Fails(q) ELSE ReloadEnds(q)
  /\ UNCHANGED <<calls, uncleaned, core, opMu, plan>> /\ StoresKept

Apply(q, g) ==
  /\ opMu = None
  /\ Resolves(g) /\ Compiles(rules)
  /\ Begins(q, "apply", "start", None)
  /\ Settles(g) /\ plan' = [goal |-> g, on |-> Enabled(rules)]
  /\ opMu' = q
  /\ UNCHANGED <<lock, uncleaned, core, stale>> /\ StoresKept

(* The new configuration is in force, *)
Starts(q) ==
  /\ req[q].at = "start"
  /\ core' = [state |-> "running", goal |-> plan.goal, on |-> plan.on]
  /\ stale' = FALSE
  /\ opMu' = None /\ plan' = NoPlan
  /\ ReloadEnds(q)
  /\ UNCHANGED <<subs, subFile, calls, faults, uncleaned>> /\ StoresKept

(* or it is refused, before the old core was stopped or after it.          *)
CannotStart(q) ==
  /\ req[q].at = "start"
  /\ core' \in {core, Off}
  /\ opMu' = None /\ plan' = NoPlan
  /\ ReloadFails(q)
  /\ UNCHANGED <<calls, faults, uncleaned>> /\ StoresKept

-----------------------------------------------------------------------------
(* The core crashes and comes back with what it had, or does not; the user *)
(* stops it.                                                               *)
CoreChanges(state) ==
  /\ core' = IF state = "off" THEN Off ELSE [core EXCEPT !.state = state]
  /\ UNCHANGED <<subs, subFile, lock, faults, uncleaned, opMu, plan, stale>> /\ StoresKept

CoreCrashes == core.state = "running" /\ Passes /\ CoreChanges("backoff")

CoreRecovers == core.state = "backoff" /\ UNCHANGED <<calls, req>> /\ CoreChanges("running")

CoreGivesUp == core.state = "backoff" /\ UNCHANGED <<calls, req>> /\ CoreChanges("off")

Stop == core.state # "off" /\ opMu = None /\ Passes /\ CoreChanges("off")

(* The program is killed, or stops, and starts again: it has what the      *)
(* files hold, less the references that an interrupted operation has left. *)
Restart ==
  /\ calls < MaxCalls /\ calls' = calls + 1
  /\ req' = [q \in Requests |-> Idle]
  /\ lock' = [s \in Subs |-> None]
  /\ subs' = subFile /\ UNCHANGED subFile
  /\ PoolsBecome(ReconcileReferences(There(subFile)))
  /\ RulesBecome(ReconcileSubscriptionRules(LiveIn(subFile)))
  /\ core' = Off /\ opMu' = None /\ plan' = NoPlan /\ stale' = FALSE
  /\ uncleaned' = {}
  /\ UNCHANGED faults

-----------------------------------------------------------------------------
SubSteps(q) ==
  \/ Locks(q) \/ FetchFails(q) \/ NotModified(q) \/ (\E f \in Feeds : Install(q, f))
  \/ Reconciles(q) \/ Syncs(q)
  \/ Undoes(q) \/ Drops(q) \/ DropsMembers(q) \/ DropsRules(q)
  \/ StoresPool(q)

RunSteps(q) ==
  SkipsReload(q) \/ Reloads(q) \/ CannotReload(q) \/ Starts(q) \/ CannotStart(q)

Begun(q) ==
  \/ \E s \in Subs :
       \/ Create(q, s) \/ Delete(q, s)
       \/ \E op \in {"refresh", "auto"} : Refresh(q, s, op)
       \/ \E r \in Rules : SetRule(q, s, r)
  \/ \E p \in Pools, ms \in SUBSET There(subs) : CreatePool(q, p, ms)

Edits ==
  \/ \E s \in Subs : Activate(s) \/ Update(s)
  \/ \E s \in Subs, n \in Nodes : SelectNode(s, n) \/ ImportNodes(s, n)
  \/ \E p \in Pools : DeletePool(p) \/ \E ms \in SUBSET There(subs) : UpdatePool(p, ms)

Next ==
  \/ \E q \in Requests : (SubSteps(q) \/ Begun(q)) /\ RunKept
  \/ Edits /\ RunKept
  \/ \E q \in Requests : RunSteps(q) \/ \E g \in Goals : Apply(q, g)
  \/ CoreCrashes \/ CoreRecovers \/ CoreGivesUp \/ Stop \/ Restart

CatalogSpec == CatalogInit /\ [][Next]_vars

(* Every step of a request ends: writes, requests to providers and the     *)
(* start of a core all have a time limit, and the mutexes are handed on.   *)
FairCatalogSpec ==
  /\ CatalogSpec
  /\ \A q \in Requests : WF_vars((SubSteps(q) /\ RunKept) \/ RunSteps(q))

-----------------------------------------------------------------------------
(* Types of the three stores, the requests and the running configuration;  *)
(* what memory holds of pools and rules is what the files hold, and every  *)
(* enabled rule is a supported one, or no configuration could be compiled. *)
CatalogTypeOK ==
  /\ subs \in SubTable /\ subFile \in SubTable
  /\ pools \in PoolTable /\ poolFile \in PoolTable
  /\ rules \in RuleTable /\ ruleFile \in RuleTable
  /\ poolFile = pools /\ ruleFile = rules /\ Compiles(rules)
  /\ lock \in [Subs -> Requests \union {None}]
  /\ req \in [Requests -> Request]
  /\ calls \in 0..MaxCalls /\ faults \in 0..MaxFaults
  /\ uncleaned \subseteq Subs \X {"members", "rules"}
  /\ core \in [state : {"off", "running", "backoff"}, goal : Goal, on : [Subs -> SUBSET Rules]]
  /\ opMu \in Requests \union {None}
  /\ plan \in Plan /\ stale \in BOOLEAN

(* Exactly one subscription is active, whichever is deleted, created or    *)
(* chosen in whatever order, and the selected node of each is one of its   *)
(* nodes, in memory and in the file.                                       *)
ChoiceIsValid == ValidSubs(subs) /\ ValidSubs(subFile)

Pending(s, places) == \E q \in Requests : req[q].s = s /\ req[q].at \in places

(* No pool keeps a member, and no rule stays, of something that is gone,   *)
(* once the request that removed it has done its part; unless that part    *)
(* failed, or a pool was created from members that went meanwhile, in      *)
(* which case the next start of the program makes it good.                 *)
NothingDangles ==
  /\ \A p \in Pools : Stored(p) => \A m \in pools[p] :
       \/ m \in There(subs)
       \/ <<m[1], "members">> \in uncleaned
       \/ Pending(m[1], {"pools", "dropPools"})
  /\ \A s \in Subs \ Live :
       \/ rules[s] = NoRules
       \/ <<s, "rules">> \in uncleaned
       \/ Pending(s, {"dropPools", "dropRules"})

(* When no handler is still on its way to reload and no reload was skipped *)
(* or has failed, the running core enforces the rules that are enabled.    *)
RulesInForce ==
  /\ core.state = "running" /\ ~stale
  /\ \A q \in Requests : req[q].at \notin {"reload", "start"}
  => core.on = Enabled(rules)

Server(m) == <<m[1], ServerOf[m[2]]>>

Once(table, m) == Cardinality({k \in There(table) : Server(k) = Server(m)}) = 1

UserEdits == \E p \in Pools, ms \in SUBSET There(subs) : UpdatePool(p, ms)

(* A pool has the servers the user put into it: whatever a refresh, a      *)
(* Delete or a restart makes of the members, no other server comes in, and *)
(* a server that is still in the list, once, stays, by whatever name.      *)
MembersFollowServers ==
  [][UserEdits \/ \A p \in Pools : Stored(p) /\ pools'[p] # Absent =>
       /\ \A k \in pools'[p] : \E m \in pools[p] : Server(k) = Server(m)
       /\ Restart \/ \A m \in pools[p] :
            Once(subs', m) /\ <<m[1], "members">> \notin uncleaned =>
              \E k \in pools'[p] : Server(k) = Server(m)]_vars

(* Only the user enables an imported rule; a rule the user has enabled     *)
(* stays enabled over refreshes, reloads and restarts while it is there    *)
(* and supported.                                                          *)
DecisionsSurvive ==
  [][\A s \in Subs :
       \/ \E q \in Requests, r \in Rules : SetRule(q, s, r)
       \/ /\ rules'[s].on \subseteq rules[s].on
          /\ (rules[s].on \ rules'[s].on) \intersect rules'[s].ok = {}]_vars

(* Every request ends: locks are taken in one order, and nobody keeps one. *)
RequestsEnd == \A q \in Requests : req[q] # Idle ~> req[q] = Idle
=============================================================================
