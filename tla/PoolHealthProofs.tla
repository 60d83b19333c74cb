-------------------------- MODULE PoolHealthProofs --------------------------
(***************************************************************************)
(* The safety of PoolHealth for any number of members, probe URLs and      *)
(* latencies.  That the selector is right after a round rests on what the  *)
(* selection was decided from still being there when the core accepts it,  *)
(* which PoolInv states.                                                   *)
(***************************************************************************)
EXTENDS PoolHealth, TLAPS

(* Only a member that has been probed is in service.                       *)
Measured(ms) == \A m \in Members : InService(ms, m) => ms[m].total = Urls

(* The selection on its way follows from the present members, and the core *)
(* has not accepted one since they were measured.                          *)
Decided ==
  round.at = "select" =>
    /\ ~fresh
    /\ \E pick \in Selection(members, selected) :
         round.pick = Pick(members, pick)

(* Recovery is never ahead of the probes really passed, and a quarantined  *)
(* member that fails once more stays where it is.                          *)
Counted ==
  \A m \in Members :
    members[m].status = "quarantined" =>
      /\ members[m].recoveries <= streak[m]
      /\ members[m].failures = ConsecutiveFailures

PoolInv == PoolTypeOK /\ Measured(members) /\ Decided /\ Counted

-----------------------------------------------------------------------------
(* applyResultLocked keeps its counters within their bounds, and a member  *)
(* it leaves in service has been measured.                                 *)
LEMMA AppliedType ==
  ASSUME members \in [Members -> MemberStates], NEW m \in Members,
         NEW r \in [passed : 0..Urls, latency : 1..MaxLatency]
  PROVE  /\ Applied(m, r) \in MemberStates
         /\ Applied(m, r).total = Urls
<1> DEFINE old == members[m]
           new == Applied(m, r)
<1>1. old \in MemberStates
  OBVIOUS
<1>2. /\ Urls \in Nat \ {0} /\ ConsecutiveFailures \in Nat \ {0}
      /\ RecoverySuccesses \in Nat \ {0} /\ MaxLatency \in Nat
  BY PoolHealthAssumption
<1>3. new = [status |-> new.status, passed |-> r.passed, total |-> Urls,
             latency |-> IF Passed(r) THEN r.latency ELSE old.latency,
             failures |-> new.failures, recoveries |-> new.recoveries]
  BY <1>1 DEF Applied, Passed, MemberStates
<1>4. /\ new.status \in {"healthy", "degraded", "quarantined"}
      /\ new.failures \in 0..ConsecutiveFailures
      /\ new.recoveries \in 0..(RecoverySuccesses - 1)
  BY <1>1, <1>2 DEF Applied, Passed, StillServing, MemberStates
<1>5. (IF Passed(r) THEN r.latency ELSE old.latency) \in 0..MaxLatency
  BY <1>1, <1>2 DEF MemberStates
<1>6. r.passed \in 0..Urls /\ Urls \in {0, Urls}
  OBVIOUS
<1> HIDE DEF new, old
<1>7. new \in MemberStates /\ new.total = Urls
  BY <1>3, <1>4, <1>5, <1>6 DEF MemberStates
<1> QED
  BY <1>7 DEF new

(* A member comes out of quarantine only with its last missing success,    *)
(* and until then its successes are counted one by one.                    *)
LEMMA AppliedRecovery ==
  ASSUME members \in [Members -> MemberStates], NEW m \in Members,
         NEW r \in [passed : 0..Urls, latency : 1..MaxLatency]
  PROVE  /\ ~Passed(r) => Applied(m, r).recoveries = 0
                            /\ Applied(m, r).status \in {"degraded", "quarantined"}
         /\ Passed(r) /\ Applied(m, r).status = "quarantined" =>
              /\ members[m].status = "quarantined"
              /\ Applied(m, r).recoveries = members[m].recoveries + 1
         /\ Passed(r) /\ members[m].status = "quarantined"
              /\ Applied(m, r).status # "quarantined" =>
              members[m].recoveries + 1 >= RecoverySuccesses
<1>1. members[m] \in MemberStates
  OBVIOUS
<1>2. /\ Urls \in Nat \ {0} /\ ConsecutiveFailures \in Nat \ {0}
      /\ RecoverySuccesses \in Nat \ {0} /\ MaxLatency \in Nat
  BY PoolHealthAssumption
<1>3. CASE ~Passed(r)
  BY <1>1, <1>2, <1>3 DEF Applied, Passed, MemberStates
<1>4. CASE Passed(r) /\ StillServing(m)
  BY <1>1, <1>2, <1>4 DEF Applied, Passed, StillServing, MemberStates
<1>5. CASE Passed(r) /\ ~StillServing(m)
  BY <1>1, <1>2, <1>5 DEF Applied, Passed, StillServing, MemberStates
<1> QED
  BY <1>3, <1>4, <1>5

(* The failures that led to quarantine are kept until it ends.             *)
LEMMA AppliedFailing ==
  ASSUME members \in [Members -> MemberStates], NEW m \in Members,
         NEW r \in [passed : 0..Urls, latency : 1..MaxLatency],
         members[m].status = "quarantined" =>
           members[m].failures = ConsecutiveFailures
  PROVE  /\ Applied(m, r).status = "quarantined" =>
              Applied(m, r).failures = ConsecutiveFailures
         /\ ~Passed(r) /\ members[m].status = "quarantined" =>
              Applied(m, r).status = "quarantined"
<1>1. members[m] \in MemberStates
  OBVIOUS
<1>2. ConsecutiveFailures \in Nat \ {0}
  BY PoolHealthAssumption
<1>3. CASE ~Passed(r)
  BY <1>1, <1>2, <1>3 DEF Applied, Passed, MemberStates
<1>4. CASE Passed(r)
  BY <1>1, <1>2, <1>4 DEF Applied, Passed, StillServing, MemberStates
<1> QED
  BY <1>3, <1>4

-----------------------------------------------------------------------------
(* bestSelectionLocked: the candidates are the usable members.             *)
LEMMA CandidatesUsable ==
  ASSUME NEW ms \in [Members -> MemberStates], Measured(ms)
  PROVE  Candidates(ms) = Usable(ms)
BY PoolHealthAssumption DEF Candidates, Usable, Measured, Passed, MemberStates

(* ... and it returns "block" exactly when there are none.                 *)
LEMMA SelectionUsable ==
  ASSUME NEW ms \in [Members -> MemberStates], Measured(ms), NEW current,
         NEW pick \in Selection(ms, current)
  PROVE  IF Usable(ms) = {} THEN pick = "block" ELSE pick \in Usable(ms)
<1>1. Candidates(ms) = Usable(ms)
  BY CandidatesUsable
<1>2. CASE Usable(ms) = {}
  BY <1>1, <1>2 DEF Selection
<1>3. CASE Usable(ms) # {}
  <2>1. PICK best \in Best(ms) :
          pick = IF current \in Members /\ Keep(ms, current, best)
                 THEN current ELSE best
    BY <1>1, <1>3 DEF Selection
  <2>2. best \in Usable(ms)
    BY <1>1 DEF Best
  <2>3. ASSUME current \in Members, Keep(ms, current, best)
        PROVE  current \in Usable(ms)
    BY <2>2, <2>3 DEF Keep, SameClass, Usable, Passed
  <2> QED
    BY <1>3, <2>1, <2>2, <2>3
<1> QED
  BY <1>2, <1>3

(* Nothing usable is better than what it returns, the tolerance included.  *)
LEMMA SelectionBest ==
  ASSUME NEW ms \in [Members -> MemberStates], Measured(ms), NEW current,
         NEW pick \in Selection(ms, current), NEW n \in Usable(ms)
  PROVE  ~Better(ms, n, pick)
<1>1. Candidates(ms) = Usable(ms)
  BY CandidatesUsable
<1>2. PICK best \in Best(ms) :
        pick = IF current \in Members /\ Keep(ms, current, best)
               THEN current ELSE best
  BY <1>1 DEF Selection
<1>3. /\ best \in Members /\ n \in Members /\ ~Before(ms, n, best)
      /\ ms[n] \in MemberStates /\ ms[best] \in MemberStates
      /\ Tolerance \in Nat /\ Urls \in Nat /\ MaxLatency \in Nat
  BY <1>1, PoolHealthAssumption DEF Best, Candidates
<1>4. CASE current \in Members /\ Keep(ms, current, best)
  <2>1. pick = current /\ ms[current] \in MemberStates
    BY <1>2, <1>4
  <2>2. /\ ms[current].status = ms[best].status
        /\ ms[current].passed = ms[best].passed
        /\ ms[current].latency <= ms[best].latency + Tolerance
    BY <1>4 DEF Keep, SameClass
  <2> QED
    BY <1>3, <2>1, <2>2 DEF Better, Before, SameClass, MemberStates
<1>5. CASE ~(current \in Members /\ Keep(ms, current, best))
  <2>1. pick = best
    BY <1>2, <1>5
  <2> QED
    BY <1>3, <2>1 DEF Better, Before, SameClass, MemberStates
<1> QED
  BY <1>4, <1>5

(* A usable current member is only replaced by a better one.               *)
LEMMA SelectionKeeps ==
  ASSUME NEW ms \in [Members -> MemberStates], Measured(ms),
         NEW current \in Usable(ms), NEW pick \in Selection(ms, current),
         pick # current
  PROVE  pick \in Members /\ Better(ms, pick, current)
<1>1. Candidates(ms) = Usable(ms)
  BY CandidatesUsable
<1>2. PICK best \in Best(ms) :
        pick = IF current \in Members /\ Keep(ms, current, best)
               THEN current ELSE best
  BY <1>1 DEF Selection
<1>3. current \in Members /\ InService(ms, current)
  BY DEF Usable
<1>4. pick = best /\ ~Keep(ms, current, best)
  BY <1>2, <1>3
<1>5. /\ best \in Members /\ InService(ms, best) /\ ~Before(ms, current, best)
      /\ ms[current] \in MemberStates /\ ms[best] \in MemberStates
      /\ Tolerance \in Nat /\ Urls \in Nat /\ MaxLatency \in Nat
  BY <1>1, <1>3, PoolHealthAssumption DEF Best, Candidates
<1> QED
  BY <1>3, <1>4, <1>5
  DEF Better, Before, Keep, SameClass, InService, MemberStates

-----------------------------------------------------------------------------
(* What round can be, and the two rounds at rest.                          *)
Rounds == [at : {"off", "sleep", "probe", "select"}, due : SUBSET Members,
           first : BOOLEAN, pick : Picks \union {"none"}]

LEMMA OffRound == /\ Off \in Rounds /\ Off.at = "off"
                  /\ Sleep \in Rounds /\ Sleep.at = "sleep"
BY DEF Off, Sleep, Rounds

LEMMA PoolInitInv == PoolInit => PoolInv
<1> SUFFICES ASSUME PoolInit PROVE PoolInv
  OBVIOUS
<1> USE PoolHealthAssumption DEF PoolInit
<1>1. Unprobed \in MemberStates
  BY DEF Unprobed, MemberStates
<1>2. PoolTypeOK
  <2>1. round \in Rounds
    BY OffRound
  <2>2. members \in [Members -> MemberStates]
    BY <1>1
  <2>3. core \in Choices /\ streak \in [Members -> 0..RecoverySuccesses]
    OBVIOUS
  <2> QED
    BY <2>1, <2>2, <2>3 DEF PoolTypeOK, Rounds
<1>3. Measured(members)
  BY DEF Measured, InService, Unprobed
<1>4. Decided /\ Counted
  BY DEF Decided, Counted, Off, Unprobed
<1> QED
  BY <1>2, <1>3, <1>4 DEF PoolInv

(* The round of probes: the members change, and the selection is made.     *)
LEMMA ProbedInv == PoolInv /\ Probed => PoolInv'
<1> SUFFICES ASSUME PoolInv, Probed PROVE PoolInv'
  OBVIOUS
<1> USE PoolHealthAssumption
<1>1. PICK f \in Results(round.due) :
        LET ms == [m \in Members |-> IF m \in round.due THEN Applied(m, f[m])
                                     ELSE members[m]]
        IN  /\ members' = ms
            /\ \E pick \in Selection(ms, selected) :
                 round' = [round EXCEPT !.at = "select", !.pick = Pick(ms, pick)]
            /\ streak' = [m \in Members |->
                 IF m \notin round.due THEN streak[m]
                 ELSE IF ~Passed(f[m]) THEN 0
                 ELSE IF streak[m] < RecoverySuccesses THEN streak[m] + 1
                 ELSE RecoverySuccesses]
  BY DEF Probed
<1>2. PICK pick \in Selection(members', selected) :
        round' = [round EXCEPT !.at = "select", !.pick = Pick(members', pick)]
  BY <1>1
<1>3. UNCHANGED <<selected, idle, core, reachable>> /\ fresh' = FALSE
  BY DEF Probed
<1>4. /\ members \in [Members -> MemberStates]
      /\ round.due \subseteq Members
      /\ streak \in [Members -> 0..RecoverySuccesses]
  BY DEF PoolInv, PoolTypeOK
<1>5. \A m \in round.due : f[m] \in [passed : 0..Urls, latency : 1..MaxLatency]
  BY DEF Results
<1>6. ASSUME NEW m \in Members
      PROVE  /\ members'[m] \in MemberStates
             /\ InService(members', m) => members'[m].total = Urls
  <2>1. CASE m \in round.due
    BY <1>1, <1>4, <1>5, <2>1, AppliedType
  <2>2. CASE m \notin round.due
    BY <1>1, <1>4, <2>2 DEF PoolInv, Measured, InService
  <2> QED
    BY <2>1, <2>2
<1>7. members' \in [Members -> MemberStates] /\ Measured(members')
  BY <1>1, <1>6 DEF Measured
<1>8. pick \in Members \union {"block"}
  BY <1>7, SelectionUsable DEF Usable
<1>9. PoolTypeOK'
  <2>1. Pick(members', pick) \in Picks
    BY <1>8 DEF Pick, Picks
  <2>2. round' \in [at : {"off", "sleep", "probe", "select"},
                    due : SUBSET Members, first : BOOLEAN,
                    pick : Picks \union {"none"}]
    BY <1>2, <2>1 DEF PoolInv, PoolTypeOK
  <2>3. streak' \in [Members -> 0..RecoverySuccesses]
    BY <1>1, <1>4
  <2> QED
    BY <1>3, <1>7, <2>2, <2>3 DEF PoolInv, PoolTypeOK, Picks
<1>10. Decided'
  BY <1>2, <1>3 DEF Decided, Pick, PoolInv, PoolTypeOK
<1>11. Counted'
  <2> SUFFICES ASSUME NEW m \in Members, members'[m].status = "quarantined"
               PROVE  /\ members'[m].recoveries <= streak'[m]
                      /\ members'[m].failures = ConsecutiveFailures
    BY DEF Counted
  <2>1. /\ members[m] \in MemberStates /\ streak[m] \in 0..RecoverySuccesses
        /\ members[m].status = "quarantined" =>
             /\ members[m].recoveries <= streak[m]
             /\ members[m].failures = ConsecutiveFailures
    BY <1>4 DEF PoolInv, Counted
  <2>2. CASE m \notin round.due
    BY <1>1, <2>1, <2>2
  <2>3. CASE m \in round.due /\ ~Passed(f[m])
    <3>1. members'[m].recoveries = 0 /\ streak'[m] = 0
      BY <1>1, <1>4, <1>5, <2>3, AppliedRecovery
    <3>2. members'[m].failures = ConsecutiveFailures
      BY <1>1, <1>4, <1>5, <2>1, <2>3, AppliedFailing
    <3> QED
      BY <3>1, <3>2
  <2>4. CASE m \in round.due /\ Passed(f[m])
    <3>1. /\ members[m].status = "quarantined"
          /\ members'[m].recoveries = members[m].recoveries + 1
      BY <1>1, <1>4, <1>5, <2>4, AppliedRecovery
    <3>2. streak'[m] = IF streak[m] < RecoverySuccesses THEN streak[m] + 1
                       ELSE RecoverySuccesses
      BY <1>1, <2>4
    <3>3. members'[m].failures = ConsecutiveFailures
      BY <1>1, <1>4, <1>5, <2>1, <2>4, AppliedFailing
    <3> QED
      BY <1>6, <2>1, <3>1, <3>2, <3>3 DEF MemberStates
  <2> QED
    BY <2>2, <2>3, <2>4
<1> QED
  BY <1>7, <1>9, <1>10, <1>11 DEF PoolInv

(* Every other step either leaves the members and the decision alone, or   *)
(* starts the monitor anew.                                                *)
LEMMA PoolNextInv == PoolInv /\ [PoolNext]_vars => PoolInv'
<1> SUFFICES ASSUME PoolInv, [PoolNext]_vars PROVE PoolInv'
  OBVIOUS
<1> USE PoolHealthAssumption
<1>1. ASSUME Start PROVE PoolInv'
  <2>1. Unprobed \in MemberStates
    BY DEF Unprobed, MemberStates
  <2>2. PoolTypeOK'
    <3>1. round' \in Rounds
      BY <1>1, OffRound DEF Start, Rounds
    <3>2. members' \in [Members -> MemberStates]
      BY <1>1, <2>1 DEF Start
    <3>3. streak' \in [Members -> 0..RecoverySuccesses]
      BY <1>1 DEF Start
    <3>4. selected' = "none" /\ idle' = FALSE /\ fresh' = FALSE
          /\ UNCHANGED <<core, reachable>>
      BY <1>1 DEF Start
    <3> QED
      BY <3>1, <3>2, <3>3, <3>4 DEF PoolInv, PoolTypeOK, Rounds
  <2>3. Measured(members')
    BY <1>1 DEF Start, Measured, InService, Unprobed
  <2>4. Decided' /\ Counted'
    BY <1>1 DEF Start, Decided, Counted, Off, Unprobed
  <2> QED
    BY <2>2, <2>3, <2>4 DEF PoolInv
<1>2. ASSUME UNCHANGED <<members, streak>>, PoolTypeOK', Decided' PROVE PoolInv'
  BY <1>2 DEF PoolInv, Counted
<1>3. ASSUME Stop PROVE PoolInv'
  BY <1>2, <1>3 DEF Stop, PoolInv, PoolTypeOK, Decided, Off, Picks
<1>4. ASSUME QuietTick PROVE PoolInv'
  <2>1. UNCHANGED <<members, reachable, history>>
    BY <1>4 DEF QuietTick
  <2>2. round' \in Rounds /\ round'.at \in {"sleep", "probe"}
    <3>1. round \in Rounds /\ round.at = "sleep"
      BY <1>4 DEF QuietTick, PoolInv, PoolTypeOK, Rounds
    <3>2. \/ round' = round
          \/ \E due \in SUBSET Members, at \in {"sleep", "probe"} :
               round' = [round EXCEPT !.due = due, !.at = at]
      BY <1>4 DEF QuietTick
    <3> QED
      BY <3>1, <3>2 DEF Rounds
  <2>3. idle' \in BOOLEAN /\ core' \in Choices /\ selected' \in Picks \union {"none"}
    BY <1>4 DEF QuietTick, PoolInv, PoolTypeOK, Picks
  <2>4. PoolTypeOK'
    BY <2>1, <2>2, <2>3 DEF PoolInv, PoolTypeOK, Rounds, history
  <2> QED
    BY <1>2, <2>1, <2>2, <2>4 DEF Decided, history
<1>5. ASSUME DueTick PROVE PoolInv'
  <2>1. UNCHANGED <<members, selected, core, reachable, history>>
    BY <1>5 DEF DueTick
  <2>2. round'.at = "probe" /\ PoolTypeOK'
    BY <1>5, <2>1 DEF DueTick, PoolInv, PoolTypeOK, history
  <2> QED
    BY <1>2, <2>1, <2>2 DEF Decided, history
<1>6. ASSUME RoundLost \/ SelectionTaken \/ SelectionFails PROVE PoolInv'
  <2>1. UNCHANGED <<members, idle, reachable, streak>> /\ fresh' \in BOOLEAN
    BY <1>6 DEF RoundLost, SelectionTaken, SelectionFails, history,
                PoolInv, PoolTypeOK
  <2>2. round' \in Rounds /\ round'.at \in {"off", "sleep"}
    <3>1. round' = Off \/ round' = Sleep
      BY <1>6 DEF RoundLost, SelectionTaken, SelectionFails
    <3> QED
      BY <3>1, OffRound
  <2>3. core' \in Choices /\ selected' \in Picks \union {"none"}
    <3>1. /\ core \in Choices /\ selected \in Picks \union {"none"}
          /\ round.pick \in Picks \union {"none"}
      BY DEF PoolInv, PoolTypeOK
    <3> QED
      BY <1>6, <3>1 DEF RoundLost, SelectionTaken, SelectionFails
  <2>4. PoolTypeOK'
    BY <2>1, <2>2, <2>3 DEF PoolInv, PoolTypeOK, Rounds
  <2> QED
    BY <1>2, <2>1, <2>2, <2>4 DEF Decided
<1>7. ASSUME CoreRestarts \/ NetworkChanges \/ UNCHANGED vars PROVE PoolInv'
  <2>1. UNCHANGED <<members, selected, idle, round, streak>>
    BY <1>7 DEF CoreRestarts, NetworkChanges, vars, manager, history
  <2>2. PoolTypeOK'
    BY <1>7, <2>1 DEF CoreRestarts, NetworkChanges, vars, manager, history,
                      PoolInv, PoolTypeOK
  <2>3. Decided'
    BY <1>7, <2>1 DEF CoreRestarts, NetworkChanges, vars, history,
                      PoolInv, Decided, Pick
  <2> QED
    BY <1>2, <2>1, <2>2, <2>3
<1> QED
  BY <1>1, <1>3, <1>4, <1>5, <1>6, <1>7, ProbedInv DEF PoolNext

(* Every behaviour keeps the invariant.                                    *)
THEOREM PoolInvariant == PoolSpec => []PoolInv
BY PoolInitInv, PoolNextInv, PTL DEF PoolSpec

(* The manager's tables keep their types: counters within their thresholds *)
(* and a selector on an option it has (poolhealth/manager.go Manager).     *)
THEOREM PoolTypeCorrect == PoolSpec => []PoolTypeOK
<1>1. PoolInv => PoolTypeOK
  BY DEF PoolInv
<1> QED
  BY <1>1, PoolInvariant, PTL

-----------------------------------------------------------------------------
(* No usable member is better than the one in use: neither the hysteresis  *)
(* of bestSelectionLocked nor a late answer of the core shields a worse    *)
(* one (poolhealth/manager.go checkTargets).                               *)
THEOREM BestInUse == PoolSpec => []BestServes
<1>1. PoolInit => BestServes
  BY DEF PoolInit, BestServes
<1>2. BestServes /\ PoolInv /\ [PoolNext]_vars => BestServes'
  <2> SUFFICES ASSUME BestServes, PoolInv, [PoolNext]_vars, fresh',
                      core' \in Members, NEW n \in Usable(members')
               PROVE  ~Better(members', n, core')
    BY DEF BestServes
  <2>1. CASE SelectionTaken
    <3>1. PICK pick \in Selection(members, selected) :
            round.pick = Pick(members, pick)
      BY <2>1 DEF SelectionTaken, PoolInv, Decided
    <3>2. core' = pick /\ members' = members
      BY <2>1, <3>1, PoolHealthAssumption DEF SelectionTaken, Pick
    <3> QED
      BY <3>1, <3>2, SelectionBest DEF PoolInv, PoolTypeOK
  <2>2. CASE ~SelectionTaken
    <3>1. UNCHANGED <<members, core>> /\ fresh
      BY <2>2, PoolHealthAssumption
      DEF PoolNext, Start, Stop, QuietTick, DueTick, RoundLost, Probed,
          SelectionFails, CoreRestarts, NetworkChanges, manager, history, vars,
          PoolInv, Decided
    <3> QED
      BY <3>1 DEF BestServes
  <2> QED
    BY <2>1, <2>2
<1> QED
  BY <1>1, <1>2, PoolInvariant, PTL DEF PoolSpec

(* Fail closed: after a round the pool uses a member that passed its last  *)
(* probe, and "block" exactly when there is none (checkTargets,            *)
(* bestSelectionLocked).  The selector the program generates has no "auto" *)
(* option: if it had one, becoming idle would reopen a blocked pool.       *)
THEOREM PoolFailsClosed ==
  ASSUME "auto" \notin Choices
  PROVE  PoolSpec => []FailClosed
<1>1. PoolInit => FailClosed
  BY DEF PoolInit, FailClosed
<1>2. FailClosed /\ PoolInv /\ [PoolNext]_vars => FailClosed'
  <2> SUFFICES ASSUME FailClosed, PoolInv, [PoolNext]_vars, fresh'
               PROVE  IF Usable(members') = {} THEN core' = "block"
                      ELSE core' \in Usable(members') \union {"auto"}
    BY DEF FailClosed, Usable, InService, Passed
  <2>1. CASE SelectionTaken
    <3>1. PICK pick \in Selection(members, selected) :
            round.pick = Pick(members, pick)
      BY <2>1 DEF SelectionTaken, PoolInv, Decided
    <3>2. core' = pick /\ members' = members
      BY <2>1, <3>1 DEF SelectionTaken, Pick
    <3> QED
      BY <3>1, <3>2, SelectionUsable DEF PoolInv, PoolTypeOK
  <2>2. CASE ~SelectionTaken
    <3>1. UNCHANGED <<members, core>> /\ fresh
      BY <2>2
      DEF PoolNext, Start, Stop, QuietTick, DueTick, RoundLost, Probed,
          SelectionFails, CoreRestarts, NetworkChanges, manager, history, vars,
          PoolInv, Decided
    <3> QED
      BY <3>1 DEF FailClosed
  <2> QED
    BY <2>1, <2>2
<1> QED
  BY <1>1, <1>2, PoolInvariant, PTL DEF PoolSpec

(* A good member is only given up for a better one (bestSelectionLocked).  *)
THEOREM NoFlappingEver ==
  ASSUME "auto" \notin Choices
  PROVE  PoolSpec => NoFlapping
<1>1. PoolInv /\ [PoolNext]_vars =>
        [fresh' /\ core' # core /\ core = selected /\ core \in Usable(members')
           => core' \in Members /\ Better(members', core', core)]_vars
  <2> SUFFICES ASSUME PoolInv, [PoolNext]_vars, fresh', core' # core,
                      core = selected, core \in Usable(members')
               PROVE  core' \in Members /\ Better(members', core', core)
    OBVIOUS
  <2>1. SelectionTaken
    BY DEF PoolNext, Start, Stop, QuietTick, DueTick, RoundLost, Probed,
           SelectionFails, CoreRestarts, NetworkChanges, manager, history, vars,
           PoolInv, Decided
  <2>2. PICK pick \in Selection(members, selected) :
          round.pick = Pick(members, pick)
    BY <2>1 DEF SelectionTaken, PoolInv, Decided
  <2>3. core' = pick /\ members' = members
    BY <2>1, <2>2 DEF SelectionTaken, Pick
  <2> QED
    BY <2>2, <2>3, SelectionKeeps DEF PoolInv, PoolTypeOK
<1> QED
  BY <1>1, PoolInvariant, PTL DEF PoolSpec, NoFlapping

(* A quarantined member is back in service only after RecoverySuccesses    *)
(* probes in a row (applyResultLocked).                                    *)
THEOREM QuarantineIsServed == PoolSpec => QuarantineServed
<1>1. PoolInv /\ [PoolNext]_vars =>
        [\A m \in Members :
           members[m].status = "quarantined"
             /\ members'[m].status \notin {"quarantined", "unknown"}
           => streak'[m] = RecoverySuccesses]_vars
  <2> SUFFICES ASSUME PoolInv, [PoolNext]_vars, NEW m \in Members,
                      members[m].status = "quarantined",
                      members'[m].status \notin {"quarantined", "unknown"}
               PROVE  streak'[m] = RecoverySuccesses
    OBVIOUS
  <2>1. Probed
    <3>1. ~Start
      BY DEF Start, Unprobed
    <3>2. members' # members
      OBVIOUS
    <3> QED
      BY <3>1, <3>2
      DEF PoolNext, Stop, QuietTick, DueTick, RoundLost, SelectionTaken,
          SelectionFails, CoreRestarts, NetworkChanges, manager, vars
  <2>2. /\ members \in [Members -> MemberStates] /\ round.due \subseteq Members
        /\ streak \in [Members -> 0..RecoverySuccesses]
        /\ members[m].recoveries <= streak[m]
        /\ members[m].failures = ConsecutiveFailures
    BY DEF PoolInv, PoolTypeOK, Counted
  <2>3. PICK f \in Results(round.due) :
          /\ members' = [n \in Members |-> IF n \in round.due
                                           THEN Applied(n, f[n]) ELSE members[n]]
          /\ streak' = [n \in Members |->
               IF n \notin round.due THEN streak[n]
               ELSE IF ~Passed(f[n]) THEN 0
               ELSE IF streak[n] < RecoverySuccesses THEN streak[n] + 1
               ELSE RecoverySuccesses]
    BY <2>1 DEF Probed
  <2>4. m \in round.due
    BY <2>2, <2>3
  <2>5. f[m] \in [passed : 0..Urls, latency : 1..MaxLatency]
    BY <2>4 DEF Results
  <2>6. members'[m] = Applied(m, f[m])
    BY <2>3, <2>4
  <2>7. Passed(f[m])
    BY <2>2, <2>5, <2>6, AppliedFailing
  <2>8. members[m].recoveries + 1 >= RecoverySuccesses
    BY <2>2, <2>5, <2>6, <2>7, AppliedRecovery
  <2>9. streak'[m] = IF streak[m] < RecoverySuccesses THEN streak[m] + 1
                     ELSE RecoverySuccesses
    BY <2>3, <2>4, <2>7
  <2> QED
    BY <2>2, <2>8, <2>9, PoolHealthAssumption DEF MemberStates
<1> QED
  BY <1>1, PoolInvariant, PTL DEF PoolSpec, QuarantineServed
=============================================================================
