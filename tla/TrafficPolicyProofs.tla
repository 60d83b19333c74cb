------------------------- MODULE TrafficPolicyProofs -------------------------
(***************************************************************************)
(* The safety of TrafficPolicy for any number of pools and any number of   *)
(* Updates at a time.  An Update that comes while another one restores the *)
(* previous pool finds the policy disabled by tick and is let in: what is  *)
(* proved of the time until that has settled is less.                      *)
(***************************************************************************)
EXTENDS TrafficPolicy, TLAPS

GoingBack(call) == call.at \in {"rolling", "recovering", "restoring"}

(* Whatever has overtaken whatever: a takeover knows no other pool than    *)
(* the one it came from, and so does the switch back of tick.              *)
TakeoverInv ==
  /\ TickSwitches => state # "active"
  /\ state = "active" \/ tick.at = "triggering" =>
       /\ original \in {None} \union (Pools \ {config.download})
       /\ origin # None => original \in {None, origin}
  /\ GoingBack(tick) /\ origin # None => tick.want \in {None, origin}

(* At most one of tick and the Updates waits for control, and the state    *)
(* says so, but for a restoring Update, which tick calls disabled already. *)
StagesInv ==
  /\ tick.at = "triggering" <=> state = "triggering"
  /\ tick.at \in {"rolling", "recovering"} => state = "recovering"
  /\ TickSwitches => config.enabled /\ \A u \in Updaters : update[u].at = "idle"
  /\ \A u \in Updaters : update[u].at = "restoring" =>
       /\ ~config.enabled /\ state \in {"recovering", "disabled"}
       /\ \A v \in Updaters : update[v].at = "restoring" => u = v

(* The pool is known, also to an Update that goes back to it.              *)
OriginInv ==
  /\ state \in {"triggering", "active"} => original # None
  /\ \A u \in Updaters :
       GoingBack(update[u]) /\ origin # None => update[u].want = origin

PolicyInv == PolicyTypeOK /\ TakeoverInv /\ (overtaken \/ (StagesInv /\ OriginInv))

-----------------------------------------------------------------------------
LEMMA PolicyInitInv == PolicyInit => PolicyInv
<1> SUFFICES ASSUME PolicyInit PROVE PolicyInv
  OBVIOUS
<1>1. PolicyTypeOK
  BY DEF PolicyInit, PolicyTypeOK, Calls, Resting, Nothing, Targets
<1>2. TakeoverInv /\ StagesInv /\ OriginInv
  BY DEF PolicyInit, TakeoverInv, StagesInv, OriginInv, GoingBack, TickSwitches,
         Resting
<1> QED
  BY <1>1, <1>2 DEF PolicyInv

(* Once an overtaken Update has settled, nobody waits for control and no   *)
(* takeover is left to know anything about.                                *)
LEMMA SettledInv ==
  ASSUME PolicyTypeOK', Settles, overtaken, ~overtaken'
  PROVE  StagesInv' /\ OriginInv'
<1>1. ~Unsettled'
  BY DEF Settles, PolicyTypeOK
<1>2. /\ state' \notin {"triggering", "active"}
      /\ tick'.at \notin {"triggering", "rolling", "recovering"}
      /\ \A u \in Updaters : update'[u].at = "idle"
  BY <1>1 DEF Unsettled, TickSwitches, Restoring, PolicyTypeOK, Calls
<1> QED
  BY <1>2 DEF StagesInv, OriginInv, GoingBack, TickSwitches

(* What tick does without asking control changes neither the configuration *)
(* nor the calls, and begins no takeover.                                  *)
LEMMA TickDecidesInv == PolicyInv /\ TickDecides => PolicyInv'
<1> SUFFICES ASSUME PolicyInv, TickDecides PROVE PolicyInv'
  OBVIOUS
<1>1. /\ UNCHANGED <<config, update, target, up, traffic, origin>>
      /\ tick' = Resting /\ seen' = Nothing /\ tick.at = "read" /\ Settles
  BY DEF TickDecides, Rests, runtime
<1>2. /\ state' \in {"disabled", "waiting", "monitoring", "cooldown", "active"}
      /\ state' = "active" => state = "active" /\ original' = original
      /\ original' \in {original, None}
      /\ {cooling', primed', above', below'} \subseteq BOOLEAN
      /\ ~config.enabled => state' = "disabled"
  BY DEF TickDecides, TickIsOff, TickWaits, TickYields, TickPrimes, TickGuards,
         TickMonitors, Measuring, FinishCycle, ResetSamples, ResetRate, Calm,
         samples, PolicyInv, PolicyTypeOK
<1>3. PolicyTypeOK'
  <2>1. tick' \in Calls({"idle", "read", "triggering", "rolling", "recovering"})
        /\ seen' \in [up : BOOLEAN, target : Targets,
                      sample : {"stale", "low", "high"}]
    BY <1>1 DEF Calls, Resting, Nothing, Targets
  <2>2. overtaken' \in BOOLEAN
    BY <1>1 DEF Settles
  <2> QED
    BY <1>1, <1>2, <2>1, <2>2 DEF PolicyInv, PolicyTypeOK
<1>4. TakeoverInv'
  BY <1>1, <1>2 DEF PolicyInv, TakeoverInv, TickSwitches, GoingBack, Resting
<1>5. ASSUME ~overtaken' PROVE StagesInv' /\ OriginInv'
  <2>1. CASE overtaken
    BY <1>1, <1>3, <1>5, <2>1, SettledInv
  <2>2. CASE ~overtaken
    <3>1. StagesInv'
      BY <1>1, <1>2, <2>2 DEF PolicyInv, StagesInv, TickSwitches, Resting
    <3>2. OriginInv'
      BY <1>1, <1>2, <2>2 DEF PolicyInv, OriginInv, GoingBack
    <3> QED
      BY <3>1, <3>2
  <2> QED
    BY <2>1, <2>2
<1> QED
  BY <1>3, <1>4, <1>5 DEF PolicyInv

LEMMA TickReleasesInv == PolicyInv /\ TickReleases => PolicyInv'
<1> SUFFICES ASSUME PolicyInv, TickReleases PROVE PolicyInv'
  OBVIOUS
<1>1. /\ UNCHANGED <<config, original, cooling, primed, above, below, update,
                     target, up, traffic, origin, overtaken>>
      /\ state = "active" /\ state' = "recovering" /\ seen' = Nothing
      /\ tick' = [at |-> "recovering", want |-> original, reply |-> "none"]
      /\ config.enabled
  BY DEF TickReleases, Asks, samples, runtime
<1>2. PolicyTypeOK'
  BY <1>1 DEF PolicyInv, PolicyTypeOK, Calls, Nothing, Targets
<1>3. TakeoverInv'
  BY <1>1 DEF PolicyInv, TakeoverInv, TickSwitches, GoingBack
<1>4. ASSUME ~overtaken PROVE StagesInv' /\ OriginInv'
  <2>1. StagesInv'
    BY <1>1, <1>4 DEF PolicyInv, PolicyTypeOK, StagesInv, TickSwitches, Calls
  <2>2. OriginInv'
    BY <1>1, <1>4 DEF PolicyInv, OriginInv, GoingBack
  <2> QED
    BY <2>1, <2>2
<1> QED
  BY <1>1, <1>2, <1>3, <1>4 DEF PolicyInv

LEMMA TickTriggersInv == PolicyInv /\ TickTriggers => PolicyInv'
<1> SUFFICES ASSUME PolicyInv, TickTriggers PROVE PolicyInv'
  OBVIOUS
<1>1. /\ UNCHANGED <<config, cooling, primed, above, below, update,
                     target, up, traffic, overtaken>>
      /\ state' = "triggering" /\ seen' = Nothing /\ config.enabled
      /\ tick' = [at |-> "triggering", want |-> config.download, reply |-> "none"]
      /\ original' = seen.target /\ origin' = seen.target
      /\ seen.target \in Pools \ {config.download}
  BY DEF TickTriggers, Asks, samples, runtime, Measuring, Watching, PoolSeen,
         Download, Origin
<1>2. PolicyTypeOK'
  BY <1>1 DEF PolicyInv, PolicyTypeOK, Configurations, Calls, Nothing, Targets
<1>3. TakeoverInv'
  BY <1>1 DEF TakeoverInv, TickSwitches, GoingBack
<1>4. original' # None
  BY <1>1, PolicyAssumption
<1>5. ASSUME ~overtaken PROVE StagesInv' /\ OriginInv'
  <2>1. StagesInv'
    BY <1>1, <1>5 DEF PolicyInv, PolicyTypeOK, StagesInv, TickSwitches, Calls
  <2>2. OriginInv'
    BY <1>1, <1>4, <1>5
    DEF PolicyInv, PolicyTypeOK, StagesInv, OriginInv, GoingBack, Calls
  <2> QED
    BY <2>1, <2>2
<1> QED
  BY <1>1, <1>2, <1>3, <1>5 DEF PolicyInv

(* An answer of control changes no stage, and ends the takeover when it    *)
(* brings the previous pool back.                                          *)
LEMMA AnswerType ==
  ASSUME PolicyInv, NEW call \in Calls({"idle", "read", "triggering", "rolling",
                                       "recovering", "restoring"}),
         NEW reply \in {"ok", "failed"}, Answer(call, reply),
         Returned(call, reply)
  PROVE  /\ target' \in Targets /\ up' \in BOOLEAN /\ traffic' \in {"low", "high"}
         /\ origin' \in {origin, None}
BY DEF Answer, Returned, PolicyInv, PolicyTypeOK, Calls, Targets

LEMMA TickAnsweredInv == PolicyInv /\ TickAnswered => PolicyInv'
<1> SUFFICES ASSUME PolicyInv, TickAnswered PROVE PolicyInv'
  OBVIOUS
<1>1. PICK reply \in {"ok", "failed"} :
        /\ Answer(tick, reply) /\ Returned(tick, reply)
        /\ tick' = [tick EXCEPT !.reply = reply]
  BY DEF TickAnswered
<1>2. UNCHANGED <<config, state, original, cooling, primed, above, below, seen,
                  update, overtaken>>
  BY DEF TickAnswered, policy, samples
<1>3. /\ tick \in Calls({"idle", "read", "triggering", "rolling", "recovering"})
      /\ tick' \in Calls({"idle", "read", "triggering", "rolling", "recovering"})
      /\ tick'.at = tick.at /\ tick'.want = tick.want
  BY <1>1 DEF PolicyInv, PolicyTypeOK, Calls
<1>4. /\ target' \in Targets /\ up' \in BOOLEAN /\ traffic' \in {"low", "high"}
      /\ origin' \in {origin, None}
  BY <1>1, <1>3, AnswerType DEF Calls
<1>5. PolicyTypeOK'
  BY <1>2, <1>3, <1>4 DEF PolicyInv, PolicyTypeOK
<1>6. TakeoverInv'
  BY <1>2, <1>3, <1>4 DEF PolicyInv, TakeoverInv, TickSwitches, GoingBack
<1>7. ASSUME ~overtaken PROVE StagesInv' /\ OriginInv'
  BY <1>2, <1>3, <1>4, <1>7 DEF PolicyInv, StagesInv, OriginInv, TickSwitches,
                               GoingBack
<1> QED
  BY <1>2, <1>5, <1>6, <1>7 DEF PolicyInv

LEMMA TickTookOverInv == PolicyInv /\ TickTookOver => PolicyInv'
<1> SUFFICES ASSUME PolicyInv, TickTookOver PROVE PolicyInv'
  OBVIOUS
<1>1. /\ UNCHANGED <<config, cooling, seen, update, target, up, traffic, origin,
                     original, overtaken>>
      /\ tick.at = "triggering"
      /\ {primed', above', below'} \subseteq BOOLEAN
      /\ \/ state' = "active" /\ tick' = Resting
         \/ state' = "recovering"
              /\ tick' = [at |-> "rolling", want |-> original, reply |-> "none"]
  BY DEF TickTookOver, StartsCycle, ResetRate, Rests, Asks, samples, runtime,
         PolicyInv, PolicyTypeOK
<1>2. PolicyTypeOK'
  BY <1>1 DEF PolicyInv, PolicyTypeOK, Calls, Resting
<1>3. TakeoverInv'
  BY <1>1 DEF PolicyInv, TakeoverInv, TickSwitches, GoingBack, Resting
<1>4. ASSUME ~overtaken PROVE StagesInv' /\ OriginInv'
  <2>1. StagesInv'
    BY <1>1, <1>4 DEF PolicyInv, PolicyTypeOK, StagesInv, TickSwitches, Calls,
                      Resting
  <2>2. OriginInv'
    BY <1>1, <1>4 DEF PolicyInv, StagesInv, OriginInv, GoingBack
  <2> QED
    BY <2>1, <2>2
<1> QED
  BY <1>1, <1>2, <1>3, <1>4 DEF PolicyInv

LEMMA TickReturnedInv == PolicyInv /\ TickReturned => PolicyInv'
<1> SUFFICES ASSUME PolicyInv, TickReturned PROVE PolicyInv'
  OBVIOUS
<1>1. /\ UNCHANGED <<config, seen, update, target, up, traffic, origin>>
      /\ tick.at \in {"rolling", "recovering"} /\ tick' = Resting /\ Settles
      /\ state' \in {"cooldown", "error"} /\ original' \in {original, None}
      /\ {cooling', primed', above', below'} \subseteq BOOLEAN
  BY DEF TickReturned, FinishCycle, Fail, ResetSamples, ResetRate, Rests, runtime,
         PolicyInv, PolicyTypeOK
<1>2. PolicyTypeOK'
  <2>1. overtaken' \in BOOLEAN
    BY <1>1 DEF Settles
  <2> QED
    BY <1>1, <2>1 DEF PolicyInv, PolicyTypeOK, Calls, Resting
<1>3. TakeoverInv'
  BY <1>1 DEF TakeoverInv, TickSwitches, GoingBack, Resting
<1>4. ASSUME ~overtaken' PROVE StagesInv' /\ OriginInv'
  <2>1. CASE overtaken
    BY <1>1, <1>2, <1>4, <2>1, SettledInv
  <2>2. CASE ~overtaken
    BY <1>1, <2>2 DEF PolicyInv, PolicyTypeOK, StagesInv, OriginInv, TickSwitches,
                      GoingBack, Calls, Resting
  <2> QED
    BY <2>1, <2>2
<1> QED
  BY <1>2, <1>3, <1>4 DEF PolicyInv

(* An Update is let in only when nobody waits for control, or when it      *)
(* overtakes one that does.                                                *)
LEMMA UpdateInv ==
  ASSUME PolicyInv, NEW u \in Updaters, Update(u)
  PROVE  PolicyInv' /\ (TickSwitches => overtaken)
<1>1. /\ UNCHANGED <<cooling, seen, tick, target, up, traffic, origin>>
      /\ update[u].at = "idle" /\ state \notin {"triggering", "recovering"}
      /\ config' \in [enabled : BOOLEAN, download : Pools]
      /\ overtaken' = (overtaken \/ Restoring)
  BY DEF Update, Busy, runtime, Configurations
<1>2. ASSUME ~overtaken PROVE ~TickSwitches
  BY <1>1, <1>2 DEF PolicyInv, StagesInv, TickSwitches
<1>3. ASSUME ~overtaken'
      PROVE  ~overtaken /\ \A v \in Updaters : update[v].at = "idle"
  BY <1>1, <1>3 DEF PolicyInv, PolicyTypeOK, Restoring, Calls
<1>4. CASE state = "active"
  <2>1. /\ state' = "recovering" /\ ~config'.enabled
        /\ UNCHANGED <<original, primed, above, below>>
        /\ update' = [update EXCEPT
             ![u] = [at |-> "restoring", want |-> original, reply |-> "none"]]
    BY <1>4 DEF Update, samples
  <2>2. PolicyTypeOK'
    BY <1>1, <2>1 DEF PolicyInv, PolicyTypeOK, Configurations, Calls
  <2>3. TakeoverInv'
    BY <1>1, <1>4, <2>1 DEF PolicyInv, TakeoverInv, TickSwitches, GoingBack
  <2>4. ASSUME ~overtaken' PROVE StagesInv' /\ OriginInv'
    <3>1. ~overtaken /\ ~TickSwitches
      BY <1>2, <1>3, <2>4
    <3>2. StagesInv'
      BY <1>1, <1>3, <2>1, <2>4, <3>1 DEF PolicyInv, PolicyTypeOK, StagesInv,
                                         TickSwitches
    <3>3. update' \in [Updaters -> Calls({"idle", "restoring"})]
          /\ update'[u].want = original
          /\ \A v \in Updaters : v # u => update'[v] = update[v]
      BY <1>1, <2>1 DEF PolicyInv, PolicyTypeOK, Calls
    <3>4. origin # None => original = origin
      BY <1>4, <3>1 DEF PolicyInv, TakeoverInv, OriginInv
    <3>5. OriginInv'
      BY <1>1, <1>3, <2>1, <2>4, <3>3, <3>4 DEF OriginInv, GoingBack
    <3> QED
      BY <3>2, <3>5
  <2> QED
    BY <1>2, <2>2, <2>3, <2>4 DEF PolicyInv
<1>5. CASE state # "active"
  <2>1. /\ state' \in {"waiting", "disabled"} /\ original' = None
        /\ {primed', above', below'} \subseteq BOOLEAN /\ UNCHANGED update
    BY <1>5 DEF Update, ResetSamples, ResetRate
  <2>2. PolicyTypeOK'
    BY <1>1, <2>1 DEF PolicyInv, PolicyTypeOK, Configurations, Restoring
  <2>3. TakeoverInv'
    BY <1>1, <2>1 DEF PolicyInv, TakeoverInv, TickSwitches, GoingBack
  <2>4. ASSUME ~overtaken' PROVE StagesInv' /\ OriginInv'
    <3>1. ~overtaken /\ ~TickSwitches
      BY <1>2, <1>3, <2>4
    <3> QED
      BY <1>1, <1>3, <2>1, <2>4, <3>1 DEF StagesInv, OriginInv, TickSwitches,
                                         GoingBack
  <2> QED
    BY <1>2, <2>2, <2>3, <2>4 DEF PolicyInv
<1> QED
  BY <1>4, <1>5

LEMMA UpdateAnsweredInv ==
  ASSUME PolicyInv, NEW u \in Updaters, UpdateAnswered(u)
  PROVE  PolicyInv'
<1>1. PICK reply \in {"ok", "failed"} :
        /\ Answer(update[u], reply) /\ Returned(update[u], reply)
        /\ update' = [update EXCEPT ![u].reply = reply]
  BY DEF UpdateAnswered
<1>2. UNCHANGED <<config, state, original, cooling, primed, above, below, seen,
                  tick, overtaken>>
  BY DEF UpdateAnswered, policy, samples
<1>3. /\ update \in [Updaters -> Calls({"idle", "restoring"})]
      /\ update' \in [Updaters -> Calls({"idle", "restoring"})]
      /\ \A v \in Updaters :
           update'[v].at = update[v].at /\ update'[v].want = update[v].want
  BY <1>1 DEF PolicyInv, PolicyTypeOK, Calls
<1>4. /\ target' \in Targets /\ up' \in BOOLEAN /\ traffic' \in {"low", "high"}
      /\ origin' \in {origin, None}
  BY <1>1, <1>3, AnswerType DEF Calls
<1>5. PolicyTypeOK'
  BY <1>2, <1>3, <1>4 DEF PolicyInv, PolicyTypeOK
<1>6. TakeoverInv'
  BY <1>2, <1>4 DEF PolicyInv, TakeoverInv, TickSwitches, GoingBack
<1>7. ASSUME ~overtaken PROVE StagesInv' /\ OriginInv'
  BY <1>2, <1>3, <1>4, <1>7 DEF PolicyInv, StagesInv, OriginInv, TickSwitches,
                               GoingBack
<1> QED
  BY <1>2, <1>5, <1>6, <1>7 DEF PolicyInv

LEMMA UpdateReturnsInv ==
  ASSUME PolicyInv, NEW u \in Updaters, UpdateReturns(u)
  PROVE  PolicyInv'
<1>1. /\ UNCHANGED <<config, seen, tick, target, up, traffic, origin>>
      /\ update[u].at = "restoring" /\ Settles
      /\ state' \in {"disabled", "error"} /\ original' \in {original, None}
      /\ {cooling', primed', above', below'} \subseteq BOOLEAN
      /\ update' = [update EXCEPT ![u] = Resting]
  BY DEF UpdateReturns, Fail, ResetSamples, ResetRate, runtime, PolicyInv,
         PolicyTypeOK
<1>2. /\ update' \in [Updaters -> Calls({"idle", "restoring"})]
      /\ update'[u].at = "idle"
      /\ \A v \in Updaters : v # u => update'[v] = update[v]
  BY <1>1 DEF PolicyInv, PolicyTypeOK, Calls, Resting
<1>3. PolicyTypeOK'
  <2>1. overtaken' \in BOOLEAN
    BY <1>1 DEF Settles
  <2> QED
    BY <1>1, <1>2, <2>1 DEF PolicyInv, PolicyTypeOK
<1>4. TakeoverInv'
  BY <1>1 DEF PolicyInv, TakeoverInv, TickSwitches, GoingBack
<1>5. ASSUME ~overtaken' PROVE StagesInv' /\ OriginInv'
  <2>1. CASE overtaken
    BY <1>1, <1>3, <1>5, <2>1, SettledInv
  <2>2. CASE ~overtaken
    <3>1. /\ tick.at \notin {"triggering", "rolling", "recovering"}
          /\ \A v \in Updaters : update'[v].at = "idle"
      BY <1>1, <1>2, <2>2 DEF PolicyInv, PolicyTypeOK, StagesInv, TickSwitches,
                              Calls
    <3> QED
      BY <1>1, <3>1 DEF StagesInv, OriginInv, TickSwitches, GoingBack
  <2> QED
    BY <2>1, <2>2
<1> QED
  BY <1>3, <1>4, <1>5 DEF PolicyInv

(* What the user, the core, the traffic and the clock do.                  *)
LEMMA SurroundingsInv ==
  ASSUME PolicyInv,
         \/ TickReads \/ UserApplies \/ CoreChanges \/ TrafficChanges
         \/ CooldownEnds \/ UNCHANGED vars
  PROVE  PolicyInv'
<1>1. /\ UNCHANGED <<config, state, original, primed, above, below, update,
                     overtaken>>
      /\ \/ tick' = tick
         \/ tick.at = "idle" /\ tick' = [tick EXCEPT !.at = "read"]
  <2>1. CASE TickReads
    BY <2>1 DEF TickReads, policy, samples
  <2>2. CASE UserApplies \/ CoreChanges \/ TrafficChanges
    BY <2>2 DEF UserApplies, CoreChanges, TrafficChanges, policy, samples
  <2>3. CASE CooldownEnds \/ UNCHANGED vars
    BY <2>3 DEF CooldownEnds, vars, policy, samples
  <2> QED
    BY <2>1, <2>2, <2>3
<1>2. origin' \in {origin, None}
  BY DEF TickReads, UserApplies, CoreChanges, TrafficChanges, CooldownEnds, vars
<1>3. /\ cooling' \in BOOLEAN /\ up' \in BOOLEAN /\ target' \in Targets
      /\ traffic' \in {"low", "high"}
      /\ seen' \in [up : BOOLEAN, target : Targets,
                    sample : {"stale", "low", "high"}]
  <2>1. CASE TickReads
    <3>1. PICK sample \in {"stale", traffic} :
            seen' = IF up THEN [up |-> TRUE, target |-> target, sample |-> sample]
                          ELSE Nothing
      BY <2>1 DEF TickReads
    <3> QED
      BY <2>1, <3>1
      DEF TickReads, policy, runtime, Nothing, Targets, PolicyInv, PolicyTypeOK
  <2>2. CASE ~TickReads
    BY <2>2 DEF UserApplies, CoreChanges, TrafficChanges, CooldownEnds, vars,
                policy, runtime, PolicyInv, PolicyTypeOK
  <2> QED
    BY <2>1, <2>2
<1>4. tick' \in Calls({"idle", "read", "triggering", "rolling", "recovering"})
  BY <1>1 DEF PolicyInv, PolicyTypeOK, Calls
<1>5. PolicyTypeOK'
  BY <1>1, <1>2, <1>3, <1>4 DEF PolicyInv, PolicyTypeOK
<1>6. tick'.at = tick.at \/ (tick.at = "idle" /\ tick'.at = "read")
  BY <1>1 DEF PolicyInv, PolicyTypeOK, Calls
<1>7. TakeoverInv'
  <2>1. tick'.want = tick.want
    BY <1>1 DEF PolicyInv, PolicyTypeOK, Calls
  <2> QED
    BY <1>1, <1>2, <1>6, <2>1 DEF PolicyInv, TakeoverInv, TickSwitches, GoingBack
<1>8. ASSUME ~overtaken PROVE StagesInv' /\ OriginInv'
  <2>1. StagesInv'
    BY <1>1, <1>6, <1>8 DEF PolicyInv, StagesInv, TickSwitches
  <2>2. OriginInv'
    BY <1>1, <1>2, <1>8 DEF PolicyInv, OriginInv, GoingBack
  <2> QED
    BY <2>1, <2>2
<1> QED
  BY <1>1, <1>5, <1>7, <1>8 DEF PolicyInv

LEMMA PolicyNextInv ==
  PolicyInv /\ [PolicyNext]_vars => PolicyInv'
<1> SUFFICES ASSUME PolicyInv, [PolicyNext]_vars PROVE PolicyInv'
  OBVIOUS
<1>1. CASE Tick
  BY <1>1, SurroundingsInv, TickDecidesInv, TickReleasesInv, TickTriggersInv,
     TickAnsweredInv, TickTookOverInv, TickReturnedInv DEF Tick
<1>2. CASE \E u \in Updaters : Update(u) \/ UpdateAnswered(u) \/ UpdateReturns(u)
  BY <1>2, UpdateInv, UpdateAnsweredInv, UpdateReturnsInv
<1>3. CASE \/ UserApplies \/ CoreChanges \/ TrafficChanges \/ CooldownEnds
           \/ UNCHANGED vars
  BY <1>3, SurroundingsInv
<1> QED
  BY <1>1, <1>2, <1>3 DEF PolicyNext

-----------------------------------------------------------------------------
(* Every behaviour keeps the invariant, however many Updates run.          *)
THEOREM PolicyInvariant ==
  PolicySpec => []PolicyInv
BY PolicyInitInv, PolicyNextInv, PTL DEF PolicySpec

(* The policy keeps its types; above all m.original is a pool whenever it  *)
(* is anything (trafficpolicy/manager.go).                                 *)
THEOREM PolicyTypeCorrect ==
  PolicySpec => []PolicyTypeOK
<1>1. PolicyInv => PolicyTypeOK
  BY DEF PolicyInv
<1> QED
  BY <1>1, PolicyInvariant, PTL

(* A takeover that is shown as active knows the pool it came from and      *)
(* would never go back to the download pool; only an Update that was       *)
(* overtaken can make it forget (tick, Update).                            *)
THEOREM TakeoverAlwaysRemembers == PolicySpec => []TakeoverRemembers
<1>1. PolicyInv => TakeoverRemembers
  BY DEF PolicyInv, TakeoverInv, OriginInv, TakeoverRemembers
<1> QED
  BY <1>1, PolicyInvariant, PTL

(* No request changes the configuration under a switch of tick, although   *)
(* tick holds no lock while it switches, unless an Update was overtaken    *)
(* (Update's first check).                                                 *)
THEOREM ConfigurationSettled == PolicySpec => SettledWhileTickSwitches
<1>1. PolicyInv /\ [PolicyNext]_vars =>
        [TickSwitches /\ ~overtaken => UNCHANGED config]_vars
  <2> SUFFICES ASSUME PolicyInv, [PolicyNext]_vars, TickSwitches, ~overtaken
               PROVE  UNCHANGED config
    OBVIOUS
  <2>1. ASSUME NEW u \in Updaters PROVE ~Update(u)
    BY <2>1, UpdateInv
  <2> QED
    BY <2>1
    DEF PolicyNext, Tick, TickReads, TickDecides, TickReleases, TickTriggers,
        TickAnswered, TickTookOver, TickReturned, UpdateAnswered, UpdateReturns,
        UserApplies, CoreChanges, TrafficChanges, CooldownEnds, vars, policy
<1> QED
  BY <1>1, PolicyInvariant, PTL DEF PolicySpec, SettledWhileTickSwitches

(* The policy goes back to the pool it came from, however often a switch   *)
(* has failed and whoever does it (tick, Update).                          *)
THEOREM AlwaysReturnsToOrigin ==
  PolicySpec => ReturnsToOrigin
<1>1. PolicyInv /\ [PolicyNext]_vars =>
        [origin # None
           /\ \/ GoesBack(tick, tick')
              \/ ~overtaken /\ \E u \in Updaters : GoesBack(update[u], update'[u])
         => target' = origin]_vars
  <2> SUFFICES ASSUME PolicyInv, [PolicyNext]_vars, origin # None,
                      \/ GoesBack(tick, tick')
                      \/ ~overtaken /\ \E u \in Updaters : GoesBack(update[u], update'[u])
               PROVE  target' = origin
    OBVIOUS
  <2>1. CASE GoesBack(tick, tick')
    <3>1. TickAnswered
      BY <2>1
      DEF GoesBack, PolicyNext, Tick, TickReads, TickDecides, TickReleases,
          TickTriggers, TickTookOver, TickReturned, Rests, Resting, Asks, Update,
          UpdateAnswered, UpdateReturns, UserApplies, CoreChanges,
          TrafficChanges, CooldownEnds, vars
    <3>2. PICK reply \in {"ok", "failed"} :
            Answer(tick, reply) /\ tick' = [tick EXCEPT !.reply = reply]
      BY <3>1 DEF TickAnswered
    <3>3. reply = "ok" /\ tick.want \in {None, origin}
      BY <2>1, <3>2 DEF GoesBack, GoingBack, PolicyInv, PolicyTypeOK, Calls,
                        TakeoverInv
    <3> QED
      BY <3>2, <3>3 DEF Answer
  <2>2. CASE ~overtaken /\ \E u \in Updaters : GoesBack(update[u], update'[u])
    <3>1. PICK u \in Updaters : GoesBack(update[u], update'[u])
      BY <2>2
    <3>2. update' # update
      BY <3>1 DEF GoesBack
    <3>3. PICK v \in Updaters : Update(v) \/ UpdateAnswered(v) \/ UpdateReturns(v)
      BY <3>2
      DEF PolicyNext, Tick, TickReads, TickDecides, TickReleases, TickTriggers,
          TickAnswered, TickTookOver, TickReturned, UserApplies, CoreChanges,
          TrafficChanges, CooldownEnds, vars
    <3>4. update \in [Updaters -> Calls({"idle", "restoring"})]
      BY DEF PolicyInv, PolicyTypeOK
    <3>5. UpdateAnswered(v) /\ u = v
      BY <3>1, <3>3, <3>4 DEF GoesBack, Update, UpdateAnswered, UpdateReturns,
                              Resting
    <3>6. PICK reply \in {"ok", "failed"} :
            /\ Answer(update[u], reply)
            /\ update' = [update EXCEPT ![u].reply = reply]
      BY <3>5 DEF UpdateAnswered
    <3>7. reply = "ok" /\ update[u].want = origin
      BY <2>2, <3>1, <3>4, <3>6 DEF GoesBack, GoingBack, PolicyInv, Calls, OriginInv
    <3> QED
      BY <3>6, <3>7 DEF Answer
  <2> QED
    BY <2>1, <2>2
<1> QED
  BY <1>1, PolicyInvariant, PTL DEF PolicySpec, ReturnsToOrigin
=============================================================================
