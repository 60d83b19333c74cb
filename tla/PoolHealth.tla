----------------------------- MODULE PoolHealth -----------------------------
(***************************************************************************)
(* internal/poolhealth/manager.go: Manager probes the members of the pool  *)
(* in use through the core's Clash API, quarantines those that fail, and   *)
(* points the pool's selector at the best one, or at "block" when none is  *)
(* left.  One goroutine, run(), does the rounds; Start and Stop come from  *)
(* the control service; the network, the traffic and the core change at    *)
(* any moment, also between a round's probes and its selection.            *)
(*                                                                         *)
(* Time is left out: which members are due is up to the clock, and so is   *)
(* when a pool without traffic counts as idle.  Latencies are in units of  *)
(* the bound MaxLatency; the API reports none below 1.                     *)
(***************************************************************************)
EXTENDS Naturals, FiniteSets

CONSTANTS Members,              (* Config.Targets                           *)
          Urls,                 (* how many probe URLs                      *)
          MaxLatency,           (* bound: the slowest answer                *)
          HighLatency,          (* Config.HighLatencyThreshold              *)
          Tolerance,            (* Config.Tolerance                         *)
          ConsecutiveFailures,  (* Config.ConsecutiveFailures               *)
          RecoverySuccesses,    (* Config.RecoverySuccesses                 *)
          Capacity,             (* how many probes can time out within      *)
                                (* probeRoundTimeout: 48 at a time, 6s each *)
          Choices               (* what the pool's selector accepts         *)

ASSUME PoolHealthAssumption ==
  /\ Urls \in Nat \ {0} /\ MaxLatency \in Nat /\ HighLatency \in Nat
  /\ Tolerance \in Nat /\ Capacity \in Nat
  /\ ConsecutiveFailures \in Nat \ {0} /\ RecoverySuccesses \in Nat \ {0}
  /\ Members \union {"block"} \subseteq Choices
  /\ Members \intersect {"none", "block", "auto"} = {}

VARIABLES members,   (* m.members                                           *)
          selected,  (* m.selected                                          *)
          idle,      (* m.idle                                              *)
          round,     (* where run(), or the round of StartContext, is       *)
          core,      (* what the selector in the core points at             *)
          reachable, (* the members the network reaches                     *)
          fresh,     (* history: the last round's selection was accepted,   *)
                     (* and the core has kept it                            *)
          streak     (* history: probes in a row each member has passed     *)

manager == <<members, selected, idle, round>>
history == <<fresh, streak>>
vars == <<manager, core, reachable, history>>

Off == [at |-> "off", due |-> {}, first |-> FALSE, pick |-> "none"]
Sleep == [Off EXCEPT !.at = "sleep"]
Picks == Members \union {"block", "auto"}
Unprobed == [status |-> "unknown", passed |-> 0, total |-> 0, latency |-> 0,
             failures |-> 0, recoveries |-> 0]

MemberStates ==
  [status : {"unknown", "healthy", "degraded", "quarantined"},
   passed : 0..Urls, total : {0, Urls}, latency : 0..MaxLatency,
   failures : 0..ConsecutiveFailures, recoveries : 0..(RecoverySuccesses - 1)]

PoolTypeOK ==
  /\ members \in [Members -> MemberStates]
  /\ selected \in Picks \union {"none"}
  /\ idle \in BOOLEAN
  /\ round \in [at : {"off", "sleep", "probe", "select"}, due : SUBSET Members,
                first : BOOLEAN, pick : Picks \union {"none"}]
  /\ core \in Choices
  /\ reachable \subseteq Members
  /\ fresh \in BOOLEAN
  /\ streak \in [Members -> 0..RecoverySuccesses]

PoolInit ==
  /\ members = [m \in Members |-> Unprobed]
  /\ selected = "none"
  /\ idle = FALSE
  /\ round = Off
  /\ core = "block"
  /\ reachable = Members
  /\ fresh = FALSE
  /\ streak = [m \in Members |-> 0]

-----------------------------------------------------------------------------
Passed(r) == r.passed > 0

(* Mutant: quarantine ends with the first probe that passes.               *)
ServedAtOnce(m) == FALSE

(* Mutant: one success too many is asked for.                              *)
ServedTooLong(m) ==
  members[m].status = "quarantined"
    /\ members[m].recoveries + 1 <= RecoverySuccesses

(* A quarantined member that has not passed often enough stays there.      *)
StillServing(m) ==
  members[m].status = "quarantined"
    /\ members[m].recoveries + 1 < RecoverySuccesses

(* applyResultLocked: what a probe of every URL does to a member.          *)
Applied(m, r) ==
  LET old == members[m]
      measured == [old EXCEPT !.passed = r.passed, !.total = Urls,
                              !.latency = IF Passed(r) THEN r.latency ELSE @]
      failures == IF old.failures < ConsecutiveFailures
                  THEN old.failures + 1 ELSE ConsecutiveFailures
      partial == r.passed < Urls \/ r.latency >= HighLatency
  IN  IF ~Passed(r)
      THEN [measured EXCEPT !.failures = failures, !.recoveries = 0,
              !.status = IF failures >= ConsecutiveFailures
                         THEN "quarantined" ELSE "degraded"]
      ELSE IF StillServing(m)
      THEN [measured EXCEPT !.recoveries = @ + 1]
      ELSE [measured EXCEPT !.failures = 0, !.recoveries = 0,
              !.status = IF partial THEN "degraded" ELSE "healthy"]

-----------------------------------------------------------------------------
(* bestSelectionLocked.                                                    *)
InService(ms, m) == ms[m].status \in {"healthy", "degraded"}

(* Mutant: a member whose last probe failed can still be chosen.           *)
CandidatesByStatus(ms) == {m \in Members : InService(ms, m)}

(* Mutant: degraded members are not used even if there are no others.      *)
OnlyHealthy(ms) == {m \in Members : ms[m].status = "healthy"}

Candidates(ms) ==
  {m \in Members : InService(ms, m) /\ (ms[m].total = 0 \/ ms[m].passed > 0)}

(* m is of the same class as n: same status, same number of passed tests.  *)
SameClass(ms, m, n) ==
  ms[m].status = ms[n].status /\ ms[m].passed = ms[n].passed

(* The sort order, down to the latency; tags break the remaining ties.     *)
Before(ms, m, n) ==
  IF ms[m].status # ms[n].status THEN ms[m].status = "healthy"
  ELSE IF ms[m].passed # ms[n].passed THEN ms[m].passed > ms[n].passed
  ELSE ms[m].latency < ms[n].latency

Best(ms) == {m \in Candidates(ms) : \A n \in Candidates(ms) : ~Before(ms, n, m)}

(* Mutant: the current member is kept however slow it has become.          *)
KeepWhateverLatency(ms, current, best) ==
  InService(ms, current) /\ SameClass(ms, current, best)

(* Mutant: the tolerance is ignored.                                       *)
KeepOnlyFastest(ms, current, best) ==
  /\ InService(ms, current) /\ SameClass(ms, current, best)
  /\ ms[current].latency <= ms[best].latency

(* The current member stays if it is in the class of the best and not      *)
(* slower by more than the tolerance.                                      *)
Keep(ms, current, best) ==
  /\ InService(ms, current) /\ SameClass(ms, current, best)
  /\ ms[current].latency <= ms[best].latency + Tolerance

(* Mutant: fail open, on any member.                                       *)
NeverBlocks(ms, current) ==
  IF Candidates(ms) = {} THEN Members ELSE Best(ms)

Selection(ms, current) ==
  IF Candidates(ms) = {} THEN {"block"}
  ELSE UNION {IF current \in Members /\ Keep(ms, current, best)
              THEN {current} ELSE {best} : best \in Best(ms)}

-----------------------------------------------------------------------------
(* StartContext, after it has stopped a previous monitor: everything is    *)
(* forgotten and the first round covers every member.                      *)
Start ==
  /\ round.at = "off"
  /\ members' = [m \in Members |-> Unprobed]
  /\ selected' = "none"
  /\ idle' = FALSE
  /\ round' = [Off EXCEPT !.at = "probe", !.due = Members, !.first = TRUE]
  /\ fresh' = FALSE
  /\ streak' = [m \in Members |-> 0]
  /\ UNCHANGED <<core, reachable>>

(* Stop, or the end of StartContext's context: the goroutine has gone when *)
(* it returns.  A selection that was on its way may still have arrived.    *)
Stop ==
  /\ round.at # "off"
  /\ round' = Off
  /\ core' \in {core} \union
       IF round.at = "select" /\ round.pick \in Choices THEN {round.pick} ELSE {}
  /\ fresh' = FALSE
  /\ UNCHANGED <<members, selected, idle, reachable, streak>>

(* One turn of run() without traffic: refreshActivity may find the pool    *)
(* idle, and asks for "auto" when it just has become so, which the core    *)
(* may refuse or not answer; an idle pool is probed only by the dormant    *)
(* round of all members.                                                   *)
QuietTick ==
  /\ round.at = "sleep"
  /\ \/ /\ idle
        /\ \E due \in {{}, Members} : round' = [round EXCEPT !.due = due,
             !.at = IF due = {} THEN "sleep" ELSE "probe"]
        /\ UNCHANGED <<selected, idle, core>>
     \/ /\ ~idle
        /\ idle' = TRUE
        /\ core' \in {core} \union (Choices \intersect {"auto"})
        /\ selected' \in {selected} \union ({core'} \intersect {"auto"})
        /\ UNCHANGED round
  /\ UNCHANGED <<members, reachable, history>>

(* A turn that probes: traffic has ended an idle period and every member   *)
(* is due, or some members are due in an active pool, or in one whose API  *)
(* did not answer.                                                         *)
DueTick ==
  /\ round.at = "sleep"
  /\ \E due \in SUBSET Members \ {{}} :
       /\ \/ idle' = FALSE /\ (idle => due = Members)
          \/ idle' = idle
       /\ round' = [round EXCEPT !.at = "probe", !.due = due]
  /\ UNCHANGED <<members, selected, core, reachable, history>>

Timeouts(due) == Cardinality(due \ reachable) * Urls

(* The context of the round is over before its probes are, or the monitor  *)
(* is stopped: nothing is learned.  A core that cannot be reached is not a *)
(* case of it: each of its probes fails, and the round counts (Probed).    *)
RoundLost ==
  /\ round.at = "probe"
  /\ round' = IF round.first THEN Off ELSE Sleep
  /\ UNCHANGED <<members, selected, idle, core, reachable, history>>

Results(due) ==
  {f \in [due -> [passed : 0..Urls, latency : 1..MaxLatency]] :
     \A m \in due : Passed(f[m]) <=> m \in reachable}

(* An idle pool goes back to the auto group unless everything is down.     *)
Pick(ms, pick) == IF idle /\ pick # "block" THEN "auto" ELSE pick

(* The first half of checkTargets: the results are applied under the lock, *)
(* and the selection is made from them.                                    *)
Probed ==
  /\ round.at = "probe"
  /\ Timeouts(round.due) <= Capacity
  /\ \E f \in Results(round.due) :
       LET ms == [m \in Members |-> IF m \in round.due THEN Applied(m, f[m])
                                    ELSE members[m]]
       IN  /\ members' = ms
           /\ \E pick \in Selection(ms, selected) :
                round' = [round EXCEPT !.at = "select", !.pick = Pick(ms, pick)]
           /\ streak' = [m \in Members |->
                IF m \notin round.due THEN streak[m]
                ELSE IF ~Passed(f[m]) THEN 0
                ELSE IF streak[m] < RecoverySuccesses THEN streak[m] + 1
                ELSE RecoverySuccesses]
  /\ fresh' = FALSE
  /\ UNCHANGED <<selected, idle, core, reachable>>

(* The second half: the core accepts the selection ...                     *)
SelectionTaken ==
  /\ round.at = "select"
  /\ round.pick \in Choices
  /\ core' = round.pick
  /\ selected' = round.pick
  /\ round' = Sleep
  /\ fresh' = TRUE
  /\ UNCHANGED <<members, idle, reachable, streak>>

(* ... or it does not, or its answer is lost: the manager keeps believing  *)
(* in its previous selection.                                              *)
SelectionFails ==
  /\ round.at = "select"
  /\ core' \in {core} \union IF round.pick \in Choices THEN {round.pick} ELSE {}
  /\ round' = IF round.first THEN Off ELSE Sleep
  /\ UNCHANGED <<members, selected, idle, reachable, history>>

(* The core restarted: its selectors are back at their default.            *)
CoreRestarts ==
  /\ core' = "block"
  /\ fresh' = FALSE
  /\ UNCHANGED <<manager, reachable, streak>>

NetworkChanges ==
  /\ \E m \in Members :
       reachable' \in {reachable \union {m}, reachable \ {m}}
  /\ UNCHANGED <<manager, core, history>>

PoolNext ==
  \/ Start \/ Stop
  \/ QuietTick \/ DueTick
  \/ RoundLost \/ Probed \/ SelectionTaken \/ SelectionFails
  \/ CoreRestarts \/ NetworkChanges

PoolSpec == PoolInit /\ [][PoolNext]_vars

(***************************************************************************)
(* run() keeps ticking and its rounds end; every member's nextProbeAt is   *)
(* reached again and again, and a round it is due in is not lost each      *)
(* time; the core accepts a selection sooner or later.  Nobody has to      *)
(* start or stop the monitor.                                              *)
(***************************************************************************)
PoolFairness ==
  /\ \A m \in Members :
       SF_vars((QuietTick \/ DueTick) /\ round'.at = "probe" /\ m \in round'.due)
  /\ \A m \in Members : SF_vars(Probed /\ m \in round.due)
  /\ SF_vars(SelectionTaken)
  /\ WF_vars(RoundLost \/ Probed)
  /\ WF_vars(SelectionTaken \/ SelectionFails)

FairPoolSpec == PoolSpec /\ PoolFairness

-----------------------------------------------------------------------------
(* What may carry traffic: members out of quarantine whose last probe      *)
(* passed.                                                                 *)
Usable(ms) == {m \in Members : InService(ms, m) /\ Passed(ms[m])}

(* Fail closed: after a round the pool uses a member whose last probe      *)
(* passed and that is not quarantined, and "block" if there is none; never *)
(* the other way round, and never a member left over from an older round.  *)
FailClosed ==
  fresh => IF Usable(members) = {} THEN core = "block"
           ELSE core \in Usable(members) \union {"auto"}

(* What members are ranked by: health first, then passed tests, then a     *)
(* latency lower by more than the tolerance.                               *)
Better(ms, m, n) ==
  IF SameClass(ms, m, n) THEN ms[m].latency + Tolerance < ms[n].latency
  ELSE Before(ms, m, n)

(* No usable member is better than the one in use: the hysteresis around   *)
(* the current member never shields a worse one.                           *)
BestServes ==
  fresh /\ core \in Members =>
    \A n \in Usable(members) : ~Better(members, n, core)

(* Nor is a good member given up for one that is not better, so that two   *)
(* similar members do not take turns.                                      *)
NoFlapping ==
  [][fresh' /\ core' # core /\ core = selected /\ core \in Usable(members')
       => core' \in Members /\ Better(members', core', core)]_vars

(* A quarantined member is back in service only after RecoverySuccesses    *)
(* probes in a row, with no failure between them.                          *)
QuarantineServed ==
  [][\A m \in Members :
       members[m].status = "quarantined"
         /\ members'[m].status \notin {"quarantined", "unknown"}
       => streak'[m] = RecoverySuccesses]_vars

On == round.at # "off"

(* When every member stays down the selector ends up at "block", whatever  *)
(* it pointed at and however often the core restarts meanwhile.            *)
OutageBlocks == <>[](On /\ reachable = {}) => []<>(core = "block")

(* Once the network has settled, a pool in use with a member that can be   *)
(* reached stays neither blocked nor on a member that is down.             *)
ActiveRecovers ==
  \A up \in SUBSET Members \ {{}} :
    <>[](On /\ ~idle /\ reachable = up) => []<>(core \in up)

(* docs/development.md, 5.2: nor does an idle pool, whose dormant rounds   *)
(* are there for exactly that.                                             *)
IdleRecovers ==
  <>[](On /\ reachable = Members) => []<>(core # "block")
=============================================================================
