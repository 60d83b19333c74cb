---------------------------- MODULE Subscriptions ----------------------------
(***************************************************************************)
(* The subscriptions of internal/subscription and the operations that      *)
(* reach over to the node pools and the rules.  Each of the three stores   *)
(* has a mutex and a file of its own; Create, refresh and Delete go        *)
(* through them one after the other, releasing one mutex before taking the *)
(* next, so that requests interleave between the steps and each step can   *)
(* fail by itself.  What orders them is the refresh lock of the            *)
(* subscription, which refresh, ImportNodes and Delete hold to the end.    *)
(*                                                                         *)
(* A node list is the feed last installed and the nodes the user imported; *)
(* that a feed is the installed one is what the saved ETag says.  The      *)
(* order of the lists, addresses, intervals and error texts are left out:  *)
(* "the first" of a list is any of its elements.                           *)
(***************************************************************************)
EXTENDS RoutingRules

CONSTANTS
  Feeds,        \* contents a provider can serve
  FeedsOf,      \* those the provider of each subscription serves
  FeedNodes,    \* the nodes of a feed
  FeedRules,    \* its rules
  FeedOk,       \* those of its rules that are supported
  Links,        \* nodes the user can import
  Requests,     \* HTTP requests and the auto-update loop
  Saved,        \* what the files may hold when the program is first started
  MaxCalls,     \* bound: operations begun
  MaxFaults     \* bound: writes that fail

VARIABLES
  subs,       \* m.items
  subFile,    \* subscriptions.json
  lock,       \* refreshLocks: the request that holds the lock of each subscription
  req,        \* the requests in flight
  calls, faults,
  uncleaned   \* history: subscriptions whose rules or members could not be removed,
              \* and pools stored with a member that had gone meanwhile

subVars == <<subs, subFile, lock, req, calls, faults, uncleaned>>

SubRecord ==
  [state : {"new", "live", "gone"}, feed : Feeds \union {None}, manual : SUBSET Nodes,
   selected : Nodes \union {None}, active : BOOLEAN, name : {"first", "edited"}]

SubTable == [Subs -> SubRecord]

NewSub == [state |-> "new", feed |-> None, manual |-> {}, selected |-> None,
           active |-> FALSE, name |-> "first"]

NodesIn(r) == (IF r.feed = None THEN {} ELSE FeedNodes[r.feed]) \union r.manual

LiveIn(table) == {s \in Subs : table[s].state = "live"}

Live == LiveIn(subs)

(* What SelectedNode finds: the references that resolve.                   *)
There(table) == {m \in Members : m[1] \in LiveIn(table) /\ m[2] \in NodesIn(table[m[1]])}

(* One subscription is active if there is any, and each has a selected     *)
(* node if it has any node.                                                *)
ValidSubs(table) ==
  /\ \A s \in Subs :
       LET r == table[s]
       IN IF r.state = "live"
          THEN /\ r.selected \in NodesIn(r) \union {None}
               /\ NodesIn(r) # {} => r.selected # None
          ELSE r = [NewSub EXCEPT !.state = r.state]
  /\ \A s, t \in Subs : table[s].active /\ table[t].active => s = t
  /\ LiveIn(table) # {} => \E s \in Subs : table[s].active

(* Members and rules belong to something that is there.                    *)
NothingDanglesIn(subTable, poolTable, ruleTable) ==
  /\ \A p \in Pools : poolTable[p] = Absent \/ poolTable[p] \subseteq There(subTable)
  /\ \A s \in Subs \ LiveIn(subTable) : ruleTable[s] = NoRules

ASSUME SubscriptionsAssumption ==
  /\ FeedsOf \in [Subs -> SUBSET Feeds]
  /\ FeedNodes \in [Feeds -> (SUBSET Nodes) \ {{}}]
  /\ FeedRules \in [Feeds -> SUBSET Rules]
  /\ FeedOk \in [Feeds -> SUBSET Rules]
  /\ \A f \in Feeds : FeedOk[f] \subseteq FeedRules[f]
  /\ Links \subseteq Nodes
  /\ None \notin Feeds \union Requests
  /\ \A f \in Saved :
       /\ f.subs \in SubTable /\ f.pools \in PoolTable /\ f.rules \in RuleTable
       /\ ValidSubs(f.subs) /\ NothingDanglesIn(f.subs, f.pools, f.rules)
       /\ Compiles(f.rules)
  /\ MaxCalls \in Nat /\ MaxFaults \in Nat

-----------------------------------------------------------------------------
(* Requests.  "at" is where the request is: waiting for the refresh lock,  *)
(* fetching, about to change the pools or the rules, or about to reload    *)
(* the rules, which is the business of the control service.                *)

Ops == {"none", "create", "refresh", "auto", "delete", "pool", "rule", "apply"}

Places == {"idle", "lock", "fetch", "pools", "rules", "undo",
           "drop", "dropPools", "dropRules", "store", "reload", "start"}

Request == [op : Ops, at : Places, s : Subs \union {None}, prev : SUBSET Nodes,
            p : Pools \union {None}, ms : SUBSET Members]

Idle == [op |-> "none", at |-> "idle", s |-> None, prev |-> {}, p |-> None, ms |-> {}]

Moves(q, at) == req' = [req EXCEPT ![q].at = at]

(* A request begins if one of the bounded number of them is left.          *)
Begins(q, op, at, s) ==
  /\ req[q] = Idle
  /\ calls < MaxCalls /\ calls' = calls + 1
  /\ req' = [req EXCEPT ![q] = [Idle EXCEPT !.op = op, !.at = at, !.s = s]]

(* One that is over before anybody else can notice.                        *)
Passes == calls < MaxCalls /\ calls' = calls + 1 /\ UNCHANGED req

Ends(q) == req' = [req EXCEPT ![q] = Idle]

Holds(q, s) == lock[s] = q

Frees(q) == lock' = [s \in Subs |-> IF lock[s] = q THEN None ELSE lock[s]]

-----------------------------------------------------------------------------
(* Writing: persistLocked, and what a failed one does.                     *)

NoFault == UNCHANGED faults

Fault == faults < MaxFaults /\ faults' = faults + 1

SubsBecome(table) == subs' = table /\ subFile' = table

SubsKept == UNCHANGED <<subs, subFile>>

(* A write of the subscriptions that succeeds, or fails and is undone.     *)
SubsWrite(table) ==
  \/ SubsBecome(table) /\ NoFault
  \/ SubsKept /\ Fault

(* recordRefreshError notes the error and saves, whether that works or not *)
(* being nobody's concern: the file catches up with the memory, or not.    *)
RecordError == UNCHANGED subs /\ subFile' \in {subs, subFile}

(* The program starts with what its files hold.                            *)
SubsInit ==
  /\ \E f \in Saved : subs = f.subs /\ pools = f.pools /\ rules = f.rules
  /\ subFile = subs /\ poolFile = pools /\ ruleFile = rules
  /\ lock = [s \in Subs |-> None]
  /\ req = [q \in Requests |-> Idle]
  /\ calls = 0 /\ faults = 0
  /\ uncleaned = {}

StoresKept == PoolsKept /\ RulesKept

-----------------------------------------------------------------------------
(* Create saves an empty subscription, the first one active, and refreshes *)
(* it; if that fails the subscription is deleted again.                    *)
Create(q, s) ==
  /\ subs[s].state = "new"
  /\ UNCHANGED <<lock, uncleaned>> /\ StoresKept
  /\ \/ /\ Begins(q, "create", "lock", s)
        /\ SubsBecome([subs EXCEPT ![s].state = "live", ![s].active = (Live = {})])
        /\ NoFault
     \/ req[q] = Idle /\ Passes /\ SubsKept /\ Fault

(* A refresh asked for, or one that is due, by the only auto-update loop.  *)
Refresh(q, s, op) ==
  /\ s \in Live
  /\ op = "auto" => \A r \in Requests : req[r].op # "auto"
  /\ Begins(q, op, "lock", s)
  /\ UNCHANGED <<subs, subFile, lock, faults, uncleaned>> /\ StoresKept

(* Mutant: an early return leaves the refresh lock locked.                 *)
FailsLocked(q) ==
  /\ UNCHANGED lock
  /\ IF req[q].op = "create" THEN Moves(q, "undo") ELSE Ends(q)

(* A refresh has failed: the lock is released, and Create deletes what it  *)
(* has created.                                                            *)
Fails(q) ==
  /\ Frees(q)
  /\ IF req[q].op = "create" THEN Moves(q, "undo") ELSE Ends(q)

(* Whoever held the lock before may have deleted the subscription.         *)
Locks(q) ==
  LET s == req[q].s
  IN /\ req[q].at = "lock" /\ lock[s] = None
     /\ IF s \in Live THEN lock' = [lock EXCEPT ![s] = q] /\ Moves(q, "fetch")
        ELSE Fails(q)
     /\ UNCHANGED <<subs, subFile, calls, faults, uncleaned>> /\ StoresKept

(* The provider cannot be reached, directly or through the proxy, or what  *)
(* it serves holds no node.                                                *)
FetchFails(q) ==
  /\ req[q].at = "fetch"
  /\ RecordError /\ Fails(q)
  /\ UNCHANGED <<calls, faults, uncleaned>> /\ StoresKept

(* The loop asks with the ETag of the feed it has, and is told that there  *)
(* is nothing new: no list changes, and the rules are not looked at.       *)
NotModified(q) ==
  /\ req[q].at = "fetch" /\ req[q].op = "auto" /\ subs[req[q].s].feed # None
  /\ SubsWrite(subs)
  /\ Frees(q) /\ Ends(q)
  /\ UNCHANGED <<calls, uncleaned>> /\ StoresKept

(* A feed replaces the nodes of the one before; imported nodes stay, and   *)
(* the selection stays if the node does, else it is the first of the list. *)
Install(q, f) ==
  LET s == req[q].s
      old == subs[s]
      new == [old EXCEPT !.feed = f]
  IN /\ req[q].at = "fetch" /\ f \in FeedsOf[s]
     /\ \/ /\ \E n \in NodesIn(new) :
                /\ old.selected \in NodesIn(new) => n = old.selected
                /\ SubsBecome([subs EXCEPT ![s] = [new EXCEPT !.selected = n]])
           /\ req' = [req EXCEPT ![q].at = "pools", ![q].prev = NodesIn(old)]
           /\ NoFault /\ UNCHANGED lock
        \/ SubsKept /\ Fault /\ Fails(q)
     /\ UNCHANGED <<calls, uncleaned>> /\ StoresKept

(* Mutant: the rules are saved and nobody puts them into force.            *)
SyncsOnly(q) ==
  LET s == req[q].s
      f == subs[s].feed
  IN /\ req[q].at = "rules"
     /\ RulesBecome(SyncSubscriptionRules(s, FeedRules[f], FeedOk[f]))
     /\ Frees(q) /\ Ends(q)
     /\ NoFault /\ SubsKept /\ PoolsKept /\ UNCHANGED <<calls, uncleaned>>

(* Then the pools follow,                                                  *)
Reconciles(q) ==
  LET s == req[q].s
      table == ReconcileSubscriptionNodes(s, req[q].prev, NodesIn(subs[s]))
  IN /\ req[q].at = "pools"
     /\ \/ /\ PoolsBecome(table)
           /\ req' = [req EXCEPT ![q].at = "rules", ![q].prev = {}]
           /\ NoFault /\ SubsKept /\ UNCHANGED <<lock, uncleaned>>
        \/ /\ table # pools /\ PoolsKept /\ RecordError /\ Fault /\ Fails(q)
           /\ uncleaned' = uncleaned \union {<<s, "members">>}
     /\ RulesKept /\ UNCHANGED calls

(* and the rules, which the control service then puts into force.          *)
Syncs(q) ==
  LET s == req[q].s
      f == subs[s].feed
  IN /\ req[q].at = "rules"
     /\ \/ /\ RulesBecome(SyncSubscriptionRules(s, FeedRules[f], FeedOk[f]))
           /\ Moves(q, "reload")
           /\ NoFault /\ SubsKept /\ UNCHANGED lock
        \/ RulesKept /\ RecordError /\ Fault /\ Fails(q)
     /\ PoolsKept /\ UNCHANGED <<calls, uncleaned>>

-----------------------------------------------------------------------------
(* Delete waits for the refresh lock and removes the subscription, another *)
(* one becoming active in its place; of one that is gone it removes what   *)
(* an earlier Delete may have left, with no lock.                          *)
Delete(q, s) ==
  /\ subs[s].state # "new"
  /\ IF s \in Live THEN Begins(q, "delete", "drop", s)
     ELSE Begins(q, "delete", "dropPools", s)
  /\ UNCHANGED <<subs, subFile, lock, faults, uncleaned>> /\ StoresKept

Undoes(q) ==
  /\ req[q].at = "undo"
  /\ req' = [req EXCEPT ![q].op = "delete",
                        ![q].at = IF req[q].s \in Live THEN "drop" ELSE "dropPools"]
  /\ UNCHANGED <<subs, subFile, lock, calls, faults, uncleaned>> /\ StoresKept

(* Mutant: nobody becomes active in place of the one that is deleted.      *)
WithoutHeir(s, heir) == [subs EXCEPT ![s] = [NewSub EXCEPT !.state = "gone"]]

Without(s, heir) ==
  [x \in Subs |->
    IF x = s THEN [NewSub EXCEPT !.state = "gone"]
    ELSE [subs[x] EXCEPT !.active = @ \/ (subs[s].active /\ x = heir)]]

Drops(q) ==
  LET s == req[q].s
      rest == Live \ {s}
  IN /\ req[q].at = "drop" /\ lock[s] = None
     /\ IF s \notin Live THEN SubsKept /\ NoFault /\ Ends(q) /\ UNCHANGED lock
        ELSE \/ /\ \E heir \in IF rest = {} THEN {None} ELSE rest :
                     SubsBecome(Without(s, heir))
                /\ lock' = [lock EXCEPT ![s] = q]
                /\ Moves(q, "dropPools") /\ NoFault
             \/ SubsKept /\ Fault /\ Ends(q) /\ UNCHANGED lock
     /\ UNCHANGED <<calls, uncleaned>> /\ StoresKept

(* The members and the rules are removed each on its own: that one fails   *)
(* does not stop the other.                                                *)
DropsMembers(q) ==
  LET s == req[q].s
      table == DeleteSubscriptionMembers(s)
  IN /\ req[q].at = "dropPools"
     /\ \/ /\ PoolsBecome(table) /\ NoFault
           /\ uncleaned' = uncleaned \ {<<s, "members">>}
        \/ /\ table # pools /\ PoolsKept /\ Fault
           /\ uncleaned' = uncleaned \union {<<s, "members">>}
     /\ Moves(q, "dropRules")
     /\ RulesKept /\ UNCHANGED <<subs, subFile, lock, calls>>

DropsRules(q) ==
  LET s == req[q].s
  IN /\ req[q].at = "dropRules"
     /\ \/ /\ RulesBecome(DeleteSubscriptionRules(s)) /\ NoFault
           /\ Moves(q, "reload") /\ UNCHANGED lock
           /\ uncleaned' = uncleaned \ {<<s, "rules">>}
        \/ /\ RulesKept /\ Fault
           /\ Ends(q) /\ Frees(q)
           /\ uncleaned' = uncleaned \union {<<s, "rules">>}
     /\ PoolsKept /\ UNCHANGED <<subs, subFile, calls>>

-----------------------------------------------------------------------------
(* Operations that end with the mutex they began with.                     *)

(* ImportNodes needs the refresh lock too, for no longer than that.        *)
ImportNodes(s, n) ==
  /\ s \in Live /\ lock[s] = None /\ n \in Links \ subs[s].manual
  /\ Passes
  /\ SubsWrite([subs EXCEPT ![s].manual = @ \union {n},
                            ![s].selected = IF @ = None THEN n ELSE @])
  /\ UNCHANGED <<lock, uncleaned>> /\ StoresKept

Selecting(table, s, n) == [table EXCEPT ![s].selected = n]

Activating(table, s) == [x \in Subs |-> [table[x] EXCEPT !.active = (x = s)]]

SelectNode(s, n) ==
  /\ s \in Live /\ n \in NodesIn(subs[s]) \ {subs[s].selected}
  /\ Passes /\ SubsWrite(Selecting(subs, s, n))
  /\ UNCHANGED <<lock, uncleaned>> /\ StoresKept

Activate(s) ==
  /\ s \in Live /\ ~subs[s].active
  /\ Passes /\ SubsWrite(Activating(subs, s))
  /\ UNCHANGED <<lock, uncleaned>> /\ StoresKept

(* Update changes the name, then checks the interval; if that is refused   *)
(* it returns with the name changed in memory only.                        *)
Update(s) ==
  LET edited == [subs EXCEPT ![s].name = "edited"]
  IN /\ s \in Live /\ subs[s].name = "first"
     /\ Passes
     /\ \/ SubsWrite(edited)
        \/ subs' = edited /\ UNCHANGED <<subFile, faults>>
     /\ UNCHANGED <<lock, uncleaned>> /\ StoresKept

-----------------------------------------------------------------------------
(* nodepool Create checks the members before it takes the mutex: a refresh *)
(* or a Delete may come in between.  Update checks them under it.          *)
CreatePool(q, p, ms) ==
  /\ ~Stored(p) /\ \A r \in Requests : req[r].p # p
  /\ ms \subseteq There(subs)
  /\ req[q] = Idle /\ calls < MaxCalls /\ calls' = calls + 1
  /\ req' = [req EXCEPT ![q] = [Idle EXCEPT !.op = "pool", !.at = "store", !.p = p, !.ms = ms]]
  /\ UNCHANGED <<subs, subFile, lock, faults, uncleaned>> /\ StoresKept

StoresPool(q) ==
  LET lost == req[q].ms \ There(subs)
  IN /\ req[q].at = "store"
     /\ \/ /\ PoolsBecome([pools EXCEPT ![req[q].p] = req[q].ms]) /\ NoFault
           /\ uncleaned' = uncleaned \union {<<m[1], "members">> : m \in lost}
        \/ PoolsKept /\ Fault /\ UNCHANGED uncleaned
     /\ Ends(q) /\ RulesKept
     /\ UNCHANGED <<subs, subFile, lock, calls>>

PoolsWrite(table) ==
  \/ PoolsBecome(table) /\ NoFault
  \/ PoolsKept /\ Fault

UpdatePool(p, ms) ==
  /\ Stored(p) /\ pools[p] # ms /\ ms \subseteq There(subs)
  /\ Passes /\ PoolsWrite([pools EXCEPT ![p] = ms])
  /\ RulesKept /\ UNCHANGED <<subs, subFile, lock, uncleaned>>

DeletePool(p) ==
  /\ Stored(p)
  /\ Passes /\ PoolsWrite([pools EXCEPT ![p] = Absent])
  /\ RulesKept /\ UNCHANGED <<subs, subFile, lock, uncleaned>>

(* The user enables or disables an imported rule; the handler then reloads.*)
SetRule(q, s, r) ==
  /\ r \in rules[s].all /\ req[q] = Idle
  /\ \/ /\ \E table \in Decisions(s, r) \ {rules} : RulesBecome(table)
        /\ Begins(q, "rule", "reload", s) /\ NoFault
     \/ Passes /\ RulesKept /\ Fault
  /\ PoolsKept /\ UNCHANGED <<subs, subFile, lock, uncleaned>>
=============================================================================
