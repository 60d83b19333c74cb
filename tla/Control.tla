------------------------------ MODULE Control ------------------------------
(***************************************************************************)
(* internal/control/service.go: Service turns the requests of the HTTP API *)
(* into a running sing-box with the right target, a health monitor for the *)
(* pool in use, a connection monitor, and a desktop whose proxy settings   *)
(* point at it; and it takes all of that down again when the core fails.   *)
(*                                                                         *)
(* Apply, ReapplyRules and Stop hold operationMu from beginning to end but *)
(* take seconds: they wait for processes, probes and gsettings.  Meanwhile *)
(* the core crashes and restarts, request contexts end, other requests     *)
(* queue for the lock, and the watcher goroutine of every generation polls *)
(* the supervisor.  The supervisor is taken at its word, CoreLifecycle,    *)
(* which module Supervisor implements.                                     *)
(*                                                                         *)
(* Every external call either succeeds or fails; Faults says which ones    *)
(* may fail for reasons of their own:                                      *)
(*   "gsettings"  a gsettings command fails                                *)
(*   "reply"      the core executes a selector change but its reply is     *)
(*                lost, so that the change is reported as failed           *)
(***************************************************************************)
EXTENDS CoreLifecycle

CONSTANTS Requests,     (* goroutines serving API requests                  *)
          Nodes,        (* targets without a health monitor                 *)
          Pools,        (* targets with one                                 *)
          Faults,       (* see above                                        *)
          None          (* no target                                        *)

Targets == Nodes \union Pools
Modes == {"system", "tun"}

VARIABLES runtime,      (* s.runtime                                        *)
          catalog,      (* whether s.runtimeCatalog and the controller are  *)
                        (* set                                              *)
          controlled,   (* s.controlledStopGeneration                       *)
          config,       (* the target the saved configuration starts with   *)
          selector,     (* what the core's root selector points at          *)
          health,       (* the pool the health monitor probes, or None      *)
          connmon,      (* whether the connection monitor polls             *)
          desktop,      (* whose the GNOME proxy settings are; "webui" also *)
                        (* while a restore got only half way                *)
          holder,       (* who holds operationMu                            *)
          ended,        (* the context of the holder is done                *)
          call,         (* what each request is doing                       *)
          watchers      (* the goroutines of watchSupervisor                *)

service == <<runtime, catalog, controlled>>
plane == <<config, selector>>
helpers == <<health, connmon, desktop>>
control == <<service, plane, helpers, holder, ended, call, watchers>>
vars == <<lifecycleVars, control>>

Free == "free"

ASSUME ControlAssumption ==
  /\ Free \notin Requests
  /\ None \notin Targets
  /\ Nodes \cap Pools = {}

Idle == [op |-> "none", at |-> "idle", target |-> None, mode |-> "system",
         then |-> "none"]
Calls ==
  [op : {"none", "apply", "reapply", "stop"},
   at : {"idle", "queued", "begin", "stopOld", "stopCore", "halting", "mode",
         "start", "starting", "probe", "proxy", "finish", "stopped", "fail",
         "switch", "select"},
   target : Targets \union {None},
   mode : Modes,
   then : {"none", "mode", "fail", "stopped"}]

ControlTypeOK ==
  /\ state \in States
  /\ generation \in 0..MaxGeneration
  /\ restarts \in 0..MaxRestarts
  /\ live \in BOOLEAN
  /\ runtime \in [state : {"stopped", "running", "failed"},
                  target : Targets \union {None}, mode : Modes]
  /\ catalog \in BOOLEAN
  /\ controlled \in 0..MaxGeneration
  /\ config \in Targets \union {None}
  /\ selector \in Targets \union {None}
  /\ health \in Pools \union {None}
  /\ connmon \in BOOLEAN
  /\ desktop \in {"user", "webui"}
  /\ holder \in Requests \union {Free}
  /\ ended \in BOOLEAN
  /\ call \in [Requests -> Calls]
  /\ watchers \subseteq [gen : 1..MaxGeneration, at : {"polling", "locking"}]

ControlInit ==
  /\ LifecycleInit
  /\ runtime = [state |-> "stopped", target |-> None, mode |-> "system"]
  /\ catalog = FALSE
  /\ controlled = 0
  /\ config = None
  /\ selector = None
  /\ health = None
  /\ connmon = FALSE
  /\ desktop = "user"
  /\ holder = Free
  /\ ended = FALSE
  /\ call = [r \in Requests |-> Idle]
  /\ watchers = {}

-----------------------------------------------------------------------------
(* The core on its own.  A process starts with the target of the saved     *)
(* configuration: the root selector has no memory of its own.              *)
CoreReacts ==
  /\ \/ /\ Respawn
        /\ selector' = config
     \/ /\ Notice \/ RespawnFails \/ Halted
        /\ UNCHANGED selector
  /\ UNCHANGED <<service, config, helpers, holder, ended, call, watchers>>

CoreDies ==
  /\ Exit
  /\ UNCHANGED control

-----------------------------------------------------------------------------
(* operationMu, and the context of the operation that holds it.            *)
Goes(r, at) == call' = [call EXCEPT ![r].at = at]

Release(r) ==
  /\ call' = [call EXCEPT ![r] = Idle]
  /\ holder' = Free
  /\ ended' = FALSE

Holds == <<holder, ended>>

(* A request arrives.  Stop first cancels the Apply that holds the lock,   *)
(* unless that is so new that it has not registered its cancel function;   *)
(* ReapplyRules never registers one.                                       *)
Arrives(r, op) ==
  /\ call[r].at = "idle"
  /\ call' = [call EXCEPT ![r].op = op, ![r].at = "queued"]
  /\ \/ op = "stop" /\ holder # Free /\ call[holder].op = "apply" /\ ended' = TRUE
     \/ /\ ~ (op = "stop" /\ holder # Free /\ call[holder].op = "apply"
               /\ call[holder].at # "begin")
        /\ UNCHANGED ended
  /\ UNCHANGED <<lifecycleVars, service, plane, helpers, holder, watchers>>

(* operationMu is taken.  What an Apply asks for matters from here on.     *)
Acquires(r) ==
  /\ call[r].at = "queued"
  /\ holder = Free
  /\ holder' = r
  /\ IF call[r].op = "apply"
     THEN \E target \in Targets, mode \in Modes :
            call' = [call EXCEPT ![r].at = "begin", ![r].target = target,
                                 ![r].mode = mode]
     ELSE Goes(r, "begin")
  /\ UNCHANGED <<lifecycleVars, service, plane, helpers, ended, watchers>>

(* The client disconnects, or the deadline of its request passes.          *)
ContextEnds ==
  /\ holder # Free
  /\ ~ended
  /\ ended' = TRUE
  /\ UNCHANGED <<lifecycleVars, service, plane, helpers, holder, call, watchers>>

(* recordFailure: the error is reported, nothing else is undone.           *)
Fails(r) ==
  /\ call[r].at = "fail"
  /\ runtime' = [runtime EXCEPT !.state = "failed"]
  /\ catalog' = FALSE
  /\ Release(r)
  /\ UNCHANGED <<lifecycleVars, controlled, plane, helpers, watchers>>

Returns(r) ==
  /\ Release(r)
  /\ UNCHANGED <<lifecycleVars, service, plane, helpers, watchers>>

-----------------------------------------------------------------------------
(* supervisor.Stop called with a deadline by the holder of the lock, which *)
(* goes on at `then' if the core has stopped and at "fail" if it has not   *)
(* in time, in which case the process is killed, unless even that fails.   *)
StopsCore(r) ==
  /\ call[r].at = "stopCore"
  /\ \/ /\ state = "stopped"
        /\ Goes(r, call[r].then)
        /\ UNCHANGED lifecycleVars
     \/ /\ Cancel
        /\ Goes(r, call[r].then)
     \/ /\ Halt
        /\ Goes(r, "halting")
     \/ /\ state = "stopping"
        /\ Goes(r, "halting")
        /\ UNCHANGED lifecycleVars
  /\ UNCHANGED <<service, plane, helpers, Holds, watchers>>

CoreStopped(r) ==
  /\ call[r].at = "halting"
  /\ state = "stopped"
  /\ Goes(r, call[r].then)
  /\ UNCHANGED <<lifecycleVars, service, plane, helpers, Holds, watchers>>

(* Mutant: Stop waits for the exit of the core without a deadline.         *)
CoreStopHangs(r) == FALSE

CoreStopFails(r) ==
  /\ call[r].at = "halting"
  /\ live' \in {live, FALSE}
  /\ Goes(r, "fail")
  /\ UNCHANGED <<state, generation, restarts, service, plane, helpers, Holds,
                 watchers>>

(* A failed step of applyFull: markControlledStop and supervisor.Stop,     *)
(* whatever it returns, then recordFailure.                                *)
Abandons(r) ==
  /\ controlled' = generation
  /\ call' = [call EXCEPT ![r].at = "stopCore", ![r].then = "fail"]

-----------------------------------------------------------------------------
(* Restore changes nothing when the desktop is the user's: then there is   *)
(* no snapshot file.  Otherwise it needs its context.                      *)
RestoreWorks == desktop = "user" \/ ~ended
RestoreFails == desktop = "webui" /\ (ended \/ "gsettings" \in Faults)

(* Mutant: the settings stay as they are.                                  *)
KeepsDesktop == desktop' = desktop

GivesDesktopBack == desktop' = "user"

(* Apply and ReapplyRules: what is decided before anything changes.  The   *)
(* catalog may know the target under another signature, or not at all.     *)
CanHotSwitch(r) ==
  /\ call[r].op = "apply"
  /\ catalog
  /\ runtime.state = "running" /\ runtime.mode = call[r].mode
  /\ state = "running"

BeginsSwitch(r) ==
  /\ call[r].at = "begin"
  /\ CanHotSwitch(r)
  /\ IF runtime.target = call[r].target
     THEN Returns(r)
     ELSE /\ Goes(r, "switch")
          /\ UNCHANGED <<lifecycleVars, service, plane, helpers, Holds, watchers>>

(* ReapplyRules reads the target from the runtime; it does nothing unless  *)
(* Status says running, which asks the supervisor too.                     *)
SkipsReapply(r) ==
  /\ call[r].at = "begin"
  /\ call[r].op = "reapply"
  /\ runtime.state = "failed" \/ state # "running"
  /\ Returns(r)

(* applyFull as far as the saved configuration: a bad mode, no gsettings,  *)
(* unresolvable targets, a rejected configuration: an error and no change. *)
Rejected(r) ==
  /\ call[r].at = "begin"
  /\ call[r].op \in {"apply", "reapply"}
  /\ Returns(r)

(* The configuration is saved; the monitors of the old core stop.  The     *)
(* bound on generations is applied here, before there is no way back.      *)
SavesConfig(r) ==
  /\ call[r].at = "begin"
  /\ call[r].op = "apply" \/ (call[r].op = "reapply"
                              /\ runtime.state # "failed" /\ state = "running")
  /\ ~ended
  /\ generation < MaxGeneration
  /\ LET target == IF call[r].op = "apply" THEN call[r].target ELSE runtime.target
         mode == IF call[r].op = "apply" THEN call[r].mode ELSE runtime.mode
     IN  /\ config' = target
         /\ call' = [call EXCEPT ![r].at = "stopOld", ![r].target = target,
                                 ![r].mode = mode]
  /\ health' = None
  /\ connmon' = FALSE
  /\ UNCHANGED <<lifecycleVars, service, selector, desktop, Holds, watchers>>

StopsOldCore(r) ==
  /\ call[r].at = "stopOld"
  /\ IF state \in {"running", "starting"}
     THEN /\ controlled' = generation
          /\ call' = [call EXCEPT ![r].at = "stopCore", ![r].then = "mode"]
     ELSE /\ Goes(r, "mode")
          /\ UNCHANGED controlled
  /\ UNCHANGED <<lifecycleVars, runtime, catalog, plane, helpers, Holds, watchers>>

(* Outside system-proxy mode the desktop is given back first.              *)
SetsMode(r) ==
  /\ call[r].at = "mode"
  /\ \/ /\ call[r].mode = "system"
        /\ Goes(r, "start")
        /\ UNCHANGED desktop
     \/ /\ call[r].mode # "system" /\ RestoreWorks
        /\ Goes(r, "start")
        /\ GivesDesktopBack
     \/ /\ call[r].mode # "system" /\ RestoreFails
        /\ Goes(r, "fail")
        /\ UNCHANGED desktop
  /\ UNCHANGED <<lifecycleVars, service, plane, health, connmon, Holds, watchers>>

(* supervisor.Start: refused while a core still exists.                    *)
StartsCore(r) ==
  /\ call[r].at = "start"
  /\ \/ /\ state \in {"running", "starting", "stopping"}
        /\ Goes(r, "fail")
        /\ UNCHANGED <<lifecycleVars, selector>>
     \/ /\ Launch(TRUE)
        /\ Goes(r, "starting")
        /\ selector' = config
     \/ /\ Launch(FALSE)
        /\ Goes(r, "fail")
        /\ UNCHANGED selector
  /\ UNCHANGED <<service, config, helpers, Holds, watchers>>

(* The end of its wait: the core survived the grace period, the budget ran *)
(* out, or the context ended and the core is stopped again.                *)
CoreStarts(r) ==
  /\ call[r].at = "starting"
  /\ \/ /\ state = "running"
        /\ Goes(r, IF call[r].target \in Pools THEN "probe" ELSE "proxy")
     \/ /\ state = "failed"
        /\ Goes(r, "fail")
     \/ /\ ended
        /\ call' = [call EXCEPT ![r].at = "stopCore", ![r].then = "fail"]
  /\ UNCHANGED <<lifecycleVars, service, plane, helpers, Holds, watchers>>

(* health.StartContext: the first round of probes has chosen a member.     *)
Probes(r) ==
  /\ call[r].at = "probe"
  /\ \/ /\ live /\ ~ended
        /\ health' = call[r].target
        /\ Goes(r, "proxy")
        /\ UNCHANGED controlled
     \/ /\ health' = None
        /\ Abandons(r)
  /\ UNCHANGED <<lifecycleVars, runtime, catalog, plane, connmon, desktop, Holds,
                 watchers>>

(* systemProxy.Apply: on failure it has changed nothing, or has tried to   *)
(* restore what it changed.                                                *)
SetsDesktop(r) ==
  /\ call[r].at = "proxy"
  /\ \/ /\ call[r].mode # "system"
        /\ Goes(r, "finish")
        /\ UNCHANGED <<controlled, helpers>>
     \/ /\ call[r].mode = "system" /\ ~ended
        /\ desktop' = "webui"
        /\ Goes(r, "finish")
        /\ UNCHANGED <<controlled, health, connmon>>
     \/ /\ call[r].mode = "system"
        /\ ended \/ "gsettings" \in Faults
        /\ desktop' \in {desktop, "user"}
                          \union IF "gsettings" \in Faults THEN {"webui"} ELSE {}
        /\ health' = None
        /\ Abandons(r)
        /\ UNCHANGED connmon
  /\ UNCHANGED <<lifecycleVars, runtime, catalog, plane, Holds, watchers>>

(* Mutant: nobody watches the generation that was started.                 *)
NotWatched == watchers

Watched == watchers \union {[gen |-> generation, at |-> "polling"]}

(* The runtime is published and a watcher starts for the generation, which *)
(* is still the one Start returned: only the holder starts cores.          *)
Finishes(r) ==
  /\ call[r].at = "finish"
  /\ connmon' = TRUE
  /\ runtime' = [state |-> "running", target |-> call[r].target,
                 mode |-> call[r].mode]
  /\ catalog' = TRUE
  /\ watchers' = Watched
  /\ Release(r)
  /\ UNCHANGED <<lifecycleVars, controlled, plane, health, desktop>>

-----------------------------------------------------------------------------
(* Mutant: a switch that failed leaves the monitor where it was moved.     *)
HealthKept == health' = health

(* Mutant: the monitor is restarted for a target that never had one.       *)
HealthRestoredBlindly == health' = runtime.target

(* restoreCatalogHealthAfterFailure: back to the monitor of the previous   *)
(* target, unless the context is done or the restart fails too.            *)
HealthRestored ==
  IF runtime.target \in Pools /\ ~ended /\ live
  THEN health' \in {runtime.target, None}
  ELSE health' = None

(* hotSwitch: the monitor moves first.                                     *)
SwitchesHealth(r) ==
  /\ call[r].at = "switch"
  /\ \/ /\ call[r].target \in Nodes
        /\ Goes(r, "select")
        /\ UNCHANGED <<helpers, Holds>>
     \/ /\ call[r].target \in Pools /\ live /\ ~ended
        /\ health' = call[r].target
        /\ Goes(r, "select")
        /\ UNCHANGED <<connmon, desktop, Holds>>
     \/ /\ call[r].target \in Pools
        /\ HealthRestored
        /\ Release(r)
        /\ UNCHANGED <<connmon, desktop>>
  /\ UNCHANGED <<lifecycleVars, service, plane, watchers>>

(* Then the root selector, and only then what the runtime reports.         *)
Selects(r) ==
  /\ call[r].at = "select"
  /\ Release(r)
  /\ \/ /\ live /\ ~ended
        /\ selector' = call[r].target
        /\ runtime' = [runtime EXCEPT !.state = "running", !.target = call[r].target]
        /\ health' = IF call[r].target \in Nodes THEN None ELSE health
     \/ /\ selector' \in {selector} \union
             IF live /\ "reply" \in Faults THEN {call[r].target} ELSE {}
        /\ IF call[r].target \in Pools THEN HealthRestored ELSE UNCHANGED health
        /\ UNCHANGED runtime
  /\ UNCHANGED <<lifecycleVars, catalog, controlled, config, connmon, desktop,
                 watchers>>

-----------------------------------------------------------------------------
(* Stop: monitors, desktop, core; an error of either does not skip the     *)
(* other.                                                                  *)
StopsService(r) ==
  /\ call[r].at = "begin"
  /\ call[r].op = "stop"
  /\ health' = None
  /\ connmon' = FALSE
  /\ controlled' = generation
  /\ \/ /\ RestoreWorks
        /\ GivesDesktopBack
        /\ call' = [call EXCEPT ![r].at = "stopCore", ![r].then = "stopped"]
     \/ /\ RestoreFails
        /\ UNCHANGED desktop
        /\ call' = [call EXCEPT ![r].at = "stopCore", ![r].then = "fail"]
  /\ UNCHANGED <<lifecycleVars, runtime, catalog, plane, Holds, watchers>>

Stopped(r) ==
  /\ call[r].at = "stopped"
  /\ runtime' = [state |-> "stopped", target |-> None, mode |-> "system"]
  /\ catalog' = FALSE
  /\ Release(r)
  /\ UNCHANGED <<lifecycleVars, controlled, plane, helpers, watchers>>

-----------------------------------------------------------------------------
(* watchSupervisor: its tick, without operationMu.                         *)
WatcherTicks(w) ==
  /\ w.at = "polling"
  /\ \/ /\ generation # w.gen
        /\ watchers' = watchers \ {w}
     \/ /\ generation = w.gen
        /\ state \notin {"running", "starting"}
        /\ watchers' = (watchers \ {w}) \union {[w EXCEPT !.at = "locking"]}
  /\ UNCHANGED <<lifecycleVars, service, plane, helpers, holder, ended, call>>

(* Mutant: the watcher acts on what it saw before it had the lock.         *)
NeverOvertaken(w) == FALSE

(* What it asks again under the lock.                                      *)
Overtaken(w) ==
  \/ generation # w.gen
  \/ runtime.state = "stopped"
  \/ controlled = w.gen

(* With the lock: the failure is cleaned up and reported.  The lock is     *)
(* held for all of it, so it is one step.                                  *)
WatcherLocks(w) ==
  /\ w.at = "locking"
  /\ holder = Free
  /\ watchers' = watchers \ {w}
  /\ IF Overtaken(w)
     THEN UNCHANGED <<service, helpers>>
     ELSE /\ health' = None
          /\ connmon' = FALSE
          /\ GivesDesktopBack \/ ("gsettings" \in Faults /\ UNCHANGED desktop)
          /\ runtime' = [runtime EXCEPT !.state = "failed"]
          /\ catalog' = FALSE
          /\ UNCHANGED controlled
  /\ UNCHANGED <<lifecycleVars, plane, holder, ended, call>>

-----------------------------------------------------------------------------
ApplyStep(r) ==
  \/ BeginsSwitch(r) \/ SkipsReapply(r) \/ Rejected(r) \/ SavesConfig(r)
  \/ StopsOldCore(r) \/ SetsMode(r) \/ StartsCore(r) \/ CoreStarts(r)
  \/ Probes(r) \/ SetsDesktop(r) \/ Finishes(r)
  \/ SwitchesHealth(r) \/ Selects(r)

StopStep(r) ==
  \/ StopsService(r) \/ Stopped(r)
  \/ StopsCore(r) \/ CoreStopped(r) \/ CoreStopFails(r) \/ Fails(r)

ControlNext ==
  \/ CoreReacts \/ CoreDies
  \/ \E r \in Requests :
       \/ \E op \in {"apply", "reapply", "stop"} : Arrives(r, op)
       \/ Acquires(r) \/ ApplyStep(r) \/ StopStep(r)
  \/ ContextEnds
  \/ \E w \in watchers : WatcherTicks(w) \/ WatcherLocks(w)

ControlSpec == ControlInit /\ [][ControlNext]_vars

(***************************************************************************)
(* A step of an operation ends: every wait in it has a deadline, and so    *)
(* has the context of every request (internal/api/runtime.go, main.go).    *)
(* The lock is a sync.Mutex, which hands itself over to whoever waits      *)
(* longest.  The watcher's ticker ticks.  Nobody has to send requests, and *)
(* a core never has to crash.                                              *)
(***************************************************************************)
ControlFairness ==
  /\ WF_vars(CoreReacts)
  /\ WF_vars(ContextEnds)
  /\ \A r \in Requests :
       /\ WF_vars(ApplyStep(r) \/ StopStep(r))
       /\ SF_vars(Acquires(r))
  /\ WF_vars(\E w \in watchers : WatcherTicks(w))
  /\ SF_vars(\E w \in watchers : WatcherLocks(w))

FairControlSpec == ControlSpec /\ ControlFairness

-----------------------------------------------------------------------------
(* When Stop has answered without an error nothing is left behind: no      *)
(* core, no pending restart, no monitor, and the user's own proxy settings *)
(* are back.                                                               *)
StopIsComplete ==
  holder = Free /\ runtime.state = "stopped" =>
    /\ state = "stopped" /\ ~live
    /\ health = None /\ ~connmon
    /\ desktop = "user"

(* No core runs, or will be restarted, behind a runtime that says it is    *)
(* stopped or failed, and no monitor polls one.                            *)
NoHiddenCore ==
  holder = Free /\ runtime.state # "running" =>
    /\ state \notin {"running", "starting"}
    /\ health = None /\ ~connmon
    /\ ~catalog

(* A runtime that says it is running has a watcher for the generation that *)
(* runs, one that will not take its end for a controlled stop: otherwise   *)
(* the final failure of the core would never be noticed.                   *)
FailureIsWatched ==
  holder = Free /\ runtime.state = "running" =>
    /\ \E w \in watchers : w.gen = generation
    /\ controlled # generation

(* While the runtime is up, the desktop points at the local proxy exactly  *)
(* in system-proxy mode, also across hot switches, reloads and restarts.   *)
DesktopFollowsMode ==
  holder = Free /\ runtime.state = "running" =>
    (desktop = "webui" <=> runtime.mode = "system")

(* The monitor never probes, and never selects members of, a pool other    *)
(* than the one the runtime reports, whichever step of a switch failed.    *)
HealthNeverStrays ==
  holder = Free /\ health # None =>
    runtime.state = "running" /\ health = runtime.target

(* A core that failed for good is reported: the runtime does not say       *)
(* "running" forever.                                                      *)
FailureSurfaces ==
  (runtime.state = "running" /\ state = "failed")
    ~> (runtime.state # "running" \/ state # "failed")

(* Stop answers, behind whatever operation it has to wait for and however  *)
(* the core reacts to the signal.                                          *)
StopAnswered ==
  \A r \in Requests : call[r].op = "stop" ~> call[r].op # "stop"

-----------------------------------------------------------------------------
(* docs/adr/0004-crash-restart-policy.md, consequences: a core that came   *)
(* back after a crash still serves the runtime's target.                   *)
TargetSurvivesRestart ==
  holder = Free /\ runtime.state = "running" /\ state = "running"
    => selector = runtime.target
=============================================================================
