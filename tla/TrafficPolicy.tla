---------------------------- MODULE TrafficPolicy ----------------------------
(***************************************************************************)
(* internal/trafficpolicy/manager.go: while a pool carries heavy traffic,  *)
(* Manager moves the runtime to a download pool, and back when the traffic *)
(* has gone.  One goroutine ticks; requests update the configuration.      *)
(* Both read the runtime or decide under m.mu, give the lock up, and ask   *)
(* control.Service to switch, which takes seconds.  Meanwhile the user     *)
(* switches too, and the core restarts.                                    *)
(*                                                                         *)
(* control.Service is seen through Status and Apply only.  Time is left    *)
(* out: a duration that has begun may or may not be over at the next       *)
(* sample, but no duration is over at its first one.  Traffic between the  *)
(* thresholds counts as high in a takeover and as low outside of one.      *)
(***************************************************************************)
CONSTANTS Pools,     (* the node pools                                      *)
          Elsewhere, (* a target that is not a pool                         *)
          Updaters,  (* goroutines serving PUT /api/v1/traffic-policy       *)
          None,      (* no pool                                             *)
          Faults     (* whether Apply may fail                              *)

ASSUME PolicyAssumption ==
  /\ Faults \in BOOLEAN
  /\ Elsewhere \notin Pools /\ None \notin Pools \union {Elsewhere}

VARIABLES config,   (* m.config: enabled, and the download pool             *)
          state,    (* m.snapshot.State                                     *)
          original, (* the pool of m.original                               *)
          cooling,  (* m.snapshot.CooldownUntil is still to come            *)
          primed,   (* m.lastSample is set                                  *)
          above,    (* m.aboveSince is set                                  *)
          below,    (* m.belowSince is set                                  *)
          seen,     (* the runtime tick has read                            *)
          tick,     (* where the goroutine of Run is                        *)
          update,   (* where each Update is                                 *)
          target,   (* the target of the runtime                            *)
          up,       (* the runtime is running and its traffic is measured   *)
          traffic,  (* what passes through it, against the two thresholds   *)
          origin,   (* history: the pool a takeover began from, as long as  *)
                    (* nobody else has changed the target                   *)
          overtaken (* history: an Update was let in while another one      *)
                    (* restored the previous pool, and a takeover or a      *)
                    (* switch back is still left from that time             *)

samples == <<primed, above, below>>
policy == <<config, state, original, cooling, samples>>
runtime == <<target, up, traffic>>
vars == <<policy, seen, tick, update, runtime, origin, overtaken>>

Targets == Pools \union {Elsewhere}
Resting == [at |-> "idle", want |-> None, reply |-> "none"]
Nothing == [up |-> FALSE, target |-> Elsewhere, sample |-> "stale"]
Calls(stages) == [at : stages, want : Pools \union {None},
                  reply : {"none", "ok", "failed"}]

(* What validate lets pass.                                                *)
Configurations == [enabled : BOOLEAN, download : Pools]

PolicyTypeOK ==
  /\ config \in Configurations
  /\ state \in {"disabled", "waiting", "monitoring", "triggering", "active",
                "recovering", "cooldown", "error"}
  /\ original \in Pools \union {None}
  /\ {cooling, primed, above, below, up} \subseteq BOOLEAN
  /\ seen \in [up : BOOLEAN, target : Targets, sample : {"stale", "low", "high"}]
  /\ tick \in Calls({"idle", "read", "triggering", "rolling", "recovering"})
  /\ update \in [Updaters -> Calls({"idle", "restoring"})]
  /\ target \in Targets
  /\ traffic \in {"low", "high"}
  /\ origin \in Pools \union {None}
  /\ overtaken \in BOOLEAN

(* Open, with what the last run of the program has saved.                  *)
PolicyInit ==
  /\ config \in Configurations
  /\ state = IF config.enabled THEN "waiting" ELSE "disabled"
  /\ original = None /\ cooling = FALSE
  /\ primed = FALSE /\ above = FALSE /\ below = FALSE
  /\ seen = Nothing /\ tick = Resting /\ update = [u \in Updaters |-> Resting]
  /\ target = Elsewhere /\ up = FALSE /\ traffic = "low"
  /\ origin = None /\ overtaken = FALSE

-----------------------------------------------------------------------------
ResetRate == primed' = FALSE /\ above' = FALSE /\ below' = FALSE
ResetSamples == ResetRate /\ original' = None

FinishCycle == state' = "cooldown" /\ cooling' = TRUE /\ ResetSamples

Fail == state' = "error" /\ ResetRate /\ UNCHANGED <<original, cooling>>

(* What the goroutine of Run is told to do next.                           *)
Rests == tick' = Resting
Asks(stage, pool) == tick' = [at |-> stage, want |-> pool, reply |-> "none"]

(* control.Service.Apply of a pool succeeds, or fails and may have stopped *)
(* the core on the way; an empty input is refused at once.                 *)
Answer(call, reply) ==
  /\ call.at \in {"triggering", "rolling", "recovering", "restoring"}
  /\ call.reply = "none"
  /\ \/ /\ reply = "ok" /\ call.want # None
        /\ target' = call.want /\ up' = TRUE
     \/ /\ reply = "failed" /\ (Faults \/ call.want = None)
        /\ up' \in {up} \union IF call.want = None THEN {} ELSE {FALSE}
        /\ UNCHANGED target
  /\ UNCHANGED traffic

(* An Update waits for the previous pool to be back.                       *)
Restoring == \E u \in Updaters : update[u].at = "restoring"

TickSwitches == tick.at \in {"triggering", "rolling", "recovering"}

Unsettled == state \in {"triggering", "active", "recovering"} \/ TickSwitches \/ Restoring

Settles == overtaken' = (overtaken /\ Unsettled')

(* A switch back ends the takeover.                                        *)
Returned(call, reply) ==
  origin' = IF reply = "ok" /\ call.at # "triggering" THEN None ELSE origin

-----------------------------------------------------------------------------
(* tick, before the lock: control.Status.  The counters of the monitor may *)
(* not have moved since the last sample, or have started anew.             *)
TickReads ==
  /\ tick.at = "idle"
  /\ \E sample \in {"stale", traffic} :
       seen' = IF up THEN [up |-> TRUE, target |-> target, sample |-> sample]
                     ELSE Nothing
  /\ tick' = [tick EXCEPT !.at = "read"]
  /\ UNCHANGED <<policy, update, runtime, origin, overtaken>>

(* Mutant: a target that is not a pool is not recognised.                  *)
AnythingRunning == seen.up

PoolSeen == seen.up /\ seen.target \in Pools

(* Mutant: a manual change of the target goes unnoticed.                   *)
NeverDeparted == FALSE

Departed == state = "active" /\ seen.target # config.download

Origin == seen.target

(* Mutant: the takeover is released while the traffic lasts.               *)
Heavy == seen.sample = "high"

Calm == seen.sample = "low"

TickIsOff ==
  \/ ~config.enabled /\ state' = "disabled"
  \/ config.enabled /\ cooling /\ state' = "cooldown"

(* The runtime does not run, or not on a pool.                             *)
TickWaits ==
  /\ ~PoolSeen
  /\ state' = "waiting"
  /\ ResetSamples
  /\ UNCHANGED cooling

TickYields == PoolSeen /\ Departed /\ FinishCycle

Watching == PoolSeen /\ ~Departed

TickPrimes ==
  /\ Watching /\ (~primed \/ seen.sample = "stale")
  /\ primed' = TRUE
  /\ state' = IF state = "active" THEN "active" ELSE "monitoring"
  /\ UNCHANGED <<above, below, original, cooling>>

Measuring == Watching /\ primed /\ seen.sample # "stale"

TickGuards ==
  /\ Measuring /\ state = "active"
  /\ below' = Calm
  /\ UNCHANGED <<state, original, cooling, primed, above>>

Download == seen.target = config.download

TickMonitors ==
  /\ Measuring /\ state # "active"
  /\ state' = "monitoring"
  /\ above' = (~Download /\ seen.sample = "high")
  /\ UNCHANGED <<original, cooling, primed, below>>

(* tick, under the lock, when it leaves the runtime alone.                 *)
TickDecides ==
  /\ tick.at = "read"
  /\ \/ TickIsOff /\ UNCHANGED <<original, cooling, samples>>
     \/ /\ config.enabled /\ ~cooling
        /\ TickWaits \/ TickYields \/ TickPrimes \/ TickGuards \/ TickMonitors
  /\ Rests /\ seen' = Nothing
  /\ UNCHANGED <<config, update, runtime, origin>>
  /\ Settles

(* The traffic has been low for long enough.                               *)
TickReleases ==
  /\ tick.at = "read" /\ config.enabled /\ ~cooling
  /\ Measuring /\ state = "active" /\ Calm /\ below
  /\ state' = "recovering"
  /\ Asks("recovering", original) /\ seen' = Nothing
  /\ UNCHANGED <<config, original, cooling, samples, update, runtime, origin,
                 overtaken>>

(* The traffic has been high for long enough.                              *)
TickTriggers ==
  /\ tick.at = "read" /\ config.enabled /\ ~cooling
  /\ Measuring /\ state # "active" /\ ~Download
  /\ seen.sample = "high" /\ above
  /\ original' = Origin
  /\ origin' = seen.target
  /\ state' = "triggering"
  /\ Asks("triggering", config.download) /\ seen' = Nothing
  /\ UNCHANGED <<config, cooling, samples, update, runtime, overtaken>>

TickAnswered ==
  /\ \E reply \in {"ok", "failed"} :
       /\ Answer(tick, reply) /\ Returned(tick, reply)
       /\ tick' = [tick EXCEPT !.reply = reply]
  /\ UNCHANGED <<policy, seen, update, overtaken>>

(* Mutant: the whole cycle is reset when it begins.                        *)
ForgetsAll == ResetSamples

StartsCycle == ResetRate /\ UNCHANGED original

(* Mutant: the rollback applies the pool that has just failed once more.   *)
TriesAgain ==
  /\ tick.at = "triggering"
  /\ \/ /\ tick.reply = "ok"
        /\ state' = "active" /\ StartsCycle /\ Rests
     \/ /\ tick.reply = "failed"
        /\ state' = "recovering" /\ Asks("rolling", config.download)
        /\ UNCHANGED <<original, samples>>
  /\ UNCHANGED <<config, cooling, seen, update, runtime, origin, overtaken>>

(* tick, under the lock again, after the answer: the takeover has begun,   *)
(* or it has failed and is rolled back ...                                 *)
TickTookOver ==
  /\ tick.at = "triggering"
  /\ \/ /\ tick.reply = "ok"
        /\ state' = "active" /\ StartsCycle /\ Rests
     \/ /\ tick.reply = "failed"
        /\ state' = "recovering" /\ Asks("rolling", original)
        /\ UNCHANGED <<original, samples>>
  /\ UNCHANGED <<config, cooling, seen, update, runtime, origin, overtaken>>

(* ... or the previous pool is back, or it could not be restored.          *)
TickReturned ==
  /\ tick.at \in {"rolling", "recovering"}
  /\ \/ tick.reply = "ok" /\ FinishCycle
     \/ tick.reply = "failed" /\ Fail
  /\ Rests
  /\ UNCHANGED <<config, seen, update, runtime, origin>>
  /\ Settles

-----------------------------------------------------------------------------
(* Mutant: an Update is let in while the previous pool is restored.        *)
OnlyTriggering == state = "triggering"

Busy == state \in {"triggering", "recovering"}

(* Update, under the lock, once it has saved the configuration.  During a  *)
(* takeover it can only disable, and has to restore the previous pool.     *)
Update(u) ==
  /\ update[u].at = "idle" /\ ~Busy
  /\ config' \in Configurations
  /\ overtaken' = (overtaken \/ Restoring)
  /\ \/ /\ state = "active" /\ ~config'.enabled
        /\ state' = "recovering"
        /\ update' = [update EXCEPT
             ![u] = [at |-> "restoring", want |-> original, reply |-> "none"]]
        /\ UNCHANGED <<original, samples>>
     \/ /\ state # "active"
        /\ state' = IF config'.enabled THEN "waiting" ELSE "disabled"
        /\ ResetSamples
        /\ UNCHANGED update
  /\ UNCHANGED <<cooling, seen, tick, runtime, origin>>

UpdateAnswered(u) ==
  /\ \E reply \in {"ok", "failed"} :
       /\ Answer(update[u], reply) /\ Returned(update[u], reply)
       /\ update' = [update EXCEPT ![u].reply = reply]
  /\ UNCHANGED <<policy, seen, tick, overtaken>>

UpdateReturns(u) ==
  /\ update[u].at = "restoring"
  /\ \/ /\ update[u].reply = "ok"
        /\ state' = "disabled" /\ ResetSamples /\ UNCHANGED cooling
     \/ update[u].reply = "failed" /\ Fail
  /\ update' = [update EXCEPT ![u] = Resting]
  /\ UNCHANGED <<config, seen, tick, runtime, origin>>
  /\ Settles

-----------------------------------------------------------------------------
(* The user applies a target.                                              *)
UserApplies ==
  /\ target' \in Targets /\ up' = TRUE /\ origin' = None
  /\ UNCHANGED <<policy, seen, tick, update, traffic, overtaken>>

(* The core stops, crashes, is reloaded, comes back.                       *)
CoreChanges ==
  /\ up' = ~up
  /\ UNCHANGED <<policy, seen, tick, update, target, traffic, origin, overtaken>>

TrafficChanges ==
  /\ traffic' \in {"low", "high"} \ {traffic}
  /\ UNCHANGED <<policy, seen, tick, update, target, up, origin, overtaken>>

CooldownEnds ==
  /\ cooling /\ cooling' = FALSE
  /\ UNCHANGED <<config, state, original, samples, seen, tick, update, runtime,
                 origin, overtaken>>

Tick == \/ TickReads \/ TickDecides \/ TickReleases \/ TickTriggers
        \/ TickAnswered \/ TickTookOver \/ TickReturned

PolicyNext ==
  \/ Tick
  \/ \E u \in Updaters : Update(u) \/ UpdateAnswered(u) \/ UpdateReturns(u)
  \/ UserApplies \/ CoreChanges \/ TrafficChanges \/ CooldownEnds

PolicySpec == PolicyInit /\ [][PolicyNext]_vars

(***************************************************************************)
(* Run ticks every second; an Apply ends.  The monitor takes a new sample  *)
(* again and again, and traffic that stays low is in the end low for the   *)
(* duration the configuration asks for.                                    *)
(***************************************************************************)
PolicyFairness ==
  /\ WF_vars(Tick)
  /\ SF_vars(TickReads /\ seen'.sample = traffic)
  /\ SF_vars(TickReleases)
  /\ \A u \in Updaters : WF_vars(UpdateAnswered(u) \/ UpdateReturns(u))

FairPolicySpec == PolicySpec /\ PolicyFairness

-----------------------------------------------------------------------------
(* "The policy is switching pools, the configuration cannot be changed     *)
(* before it is done" (Update).  What tick has begun under one             *)
(* configuration ends under it, however many Updates arrive meanwhile,     *)
(* unless one has overtaken another: while an Update restores the previous *)
(* pool tick shows the policy as disabled, and the next one is let in.     *)
SettledWhileTickSwitches ==
  [][TickSwitches /\ ~overtaken => UNCHANGED config]_vars

(* Whoever sees a takeover can end it: the pool to go back to is another   *)
(* one, and it is known, unless an Update that was overtaken has reset it. *)
TakeoverRemembers ==
  state = "active" => \/ original \in Pools \ {config.download}
                      \/ original = None /\ overtaken

(* Where the policy goes back to is where it came from, whether tick or    *)
(* Update does it and whatever failed before, unless the user has chosen   *)
(* another target in the meantime.  Of the Updates, one that was overtaken *)
(* may undo a later takeover.                                              *)
GoesBack(call, next) ==
  call.at \in {"rolling", "recovering", "restoring"}
    /\ call.reply = "none" /\ next.reply = "ok"

ReturnsToOrigin ==
  [][origin # None
       /\ \/ GoesBack(tick, tick')
          \/ ~overtaken /\ \E u \in Updaters : GoesBack(update[u], update'[u])
     => target' = origin]_vars

(* No takeover lasts when the traffic has gone for good, nor, whatever the *)
(* traffic, when the user has settled on another target                    *)
(* (docs/architecture.md: a manual change of the target must end it).      *)
TakeoversEnd ==
  /\ <>[](up /\ traffic = "low") => []<>(state # "active")
  /\ \A t \in Targets :
       <>[](target = t /\ t # config.download) => <>[](state # "active")

(* docs/architecture.md: "when it has fallen back, the original pool is    *)
(* restored": with the core running, the traffic gone and the policy in    *)
(* force, the runtime does not stay where the policy has moved it.         *)
OriginalComesBack ==
  ~<>[](up /\ traffic = "low" /\ config.enabled /\ origin # None)
=============================================================================
