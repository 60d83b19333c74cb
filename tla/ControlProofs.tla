---------------------------- MODULE ControlProofs ----------------------------
(***************************************************************************)
(* For any requests, targets, faults and bounds: ControlTypeOK,            *)
(* StopIsComplete, NoHiddenCore, FailureIsWatched, DesktopFollowsMode and  *)
(* HealthNeverStrays.                                                      *)
(*                                                                         *)
(* They speak of the moments when nobody holds operationMu.  What carries  *)
(* them from one such moment to the next is Fits, one line for each thing  *)
(* an operation has achieved when it reaches a stage: before it changes    *)
(* anything, and during a hot switch, what the runtime reports is still    *)
(* true; from the saved configuration on no monitor runs; a core that is   *)
(* being replaced stays down until "start"; the new generation is younger  *)
(* than the last controlled stop; and the desktop is set as the last thing *)
(* before the runtime is published.  The core, contexts and watchers that  *)
(* move meanwhile break none of it (StageKept).                            *)
(***************************************************************************)
EXTENDS Control, TLAPS

(* No core runs or will be restarted; no monitor polls one.                *)
Down == state \notin {"running", "starting"}
Quiet == health = None /\ ~connmon

(* What the runtime reports is true of the core, the watchers and the      *)
(* desktop.                                                                *)
Agreed ==
  /\ runtime.state = "stopped" => state = "stopped" /\ Quiet /\ desktop = "user"
  /\ runtime.state # "running" => Down /\ Quiet
  /\ runtime.state = "running" =>
       /\ \E w \in watchers : w.gen = generation
       /\ controlled # generation
       /\ desktop = "webui" <=> runtime.mode = "system"

(* The pool that is probed is the one in use.                              *)
HealthAgreed == health # None => runtime.state = "running" /\ health = runtime.target

(* Stages at which the runtime still describes the old target, and stages  *)
(* at which a core of a new generation is on its way into service.         *)
Reported == {"begin", "switch", "select"}
Rising == {"starting", "probe", "proxy", "finish"}

(* What is true while the lock is held by c.                               *)
Fits(c) ==
  /\ c.at \notin {"idle", "queued"}
  /\ c.at \in Reported => Agreed
  /\ c.at \in {"begin", "switch"} => HealthAgreed
  /\ c.at \in {"switch", "select"} => runtime.state = "running"
  /\ c.at = "select" =>
       \/ c.target \in Nodes /\ HealthAgreed
       \/ c.target \in Pools /\ health = c.target
  /\ c.at \notin Reported => ~connmon
  /\ c.at \notin Reported => health = None \/ (c.at \in {"proxy", "finish"} /\ health = c.target)
  /\ c.at = "probe" => c.target \in Pools
  /\ c.at \in {"halting", "mode", "start", "stopped", "fail"} => Down
  /\ c.at \in {"stopCore", "halting"} =>
       c.then \in {"mode", "fail"} \/ (c.then = "stopped" /\ desktop = "user")
  /\ c.at = "stopped" => state = "stopped" /\ desktop = "user"
  /\ c.at \in Rising => controlled < generation
  /\ c.at \in {"start", "starting", "probe", "proxy"} /\ c.mode # "system" => desktop = "user"
  /\ c.at = "finish" => (desktop = "webui" <=> c.mode = "system")

(* Only the holder of operationMu has begun.                               *)
LockInv == \A r \in Requests : holder # r => call[r].at \in {"idle", "queued"}

StageInv ==
  /\ holder = Free => Agreed /\ HealthAgreed
  /\ holder # Free => Fits(call[holder])

(* The process, the catalog, and whom the watchers take for gone.          *)
CoreInv ==
  /\ state \in {"stopped", "starting", "failed"} => ~live
  /\ runtime.state # "running" => ~catalog
  /\ controlled <= generation
  /\ \A w \in watchers : w.gen <= generation /\ (w.at = "locking" /\ w.gen = generation => Down)

ControlInv == ControlTypeOK /\ LockInv /\ StageInv /\ CoreInv

USE ControlAssumption, LifecycleAssumption DEF LifecycleAssumption, Free

-----------------------------------------------------------------------------
(* The operations on the lock and on the stage of a request.               *)

LEMMA CallType ==
  ASSUME ControlTypeOK, NEW r \in Requests
  PROVE  /\ call[r] \in Calls
         /\ Idle \in Calls
BY DEF ControlTypeOK, Calls, Idle, Targets, Modes

Ats == {"idle", "queued", "begin", "stopOld", "stopCore", "halting", "mode",
        "start", "starting", "probe", "proxy", "finish", "stopped", "fail",
        "switch", "select"}

LEMMA GoesType ==
  ASSUME ControlTypeOK, NEW r \in Requests, NEW at \in Ats, Goes(r, at)
  PROVE  /\ call' \in [Requests -> Calls]
         /\ call'[r].at = at /\ call'[r].op = call[r].op /\ call'[r].target = call[r].target
         /\ call'[r].mode = call[r].mode /\ call'[r].then = call[r].then
         /\ \A q \in Requests : q # r => call'[q] = call[q]
BY DEF ControlTypeOK, Goes, Calls, Ats

LEMMA HolderIs ==
  ASSUME LockInv, NEW r \in Requests, call[r].at \notin {"idle", "queued"}
  PROVE  holder = r /\ holder # Free
BY DEF LockInv

-----------------------------------------------------------------------------
LEMMA LifecycleType ==
  ASSUME ControlTypeOK,
         Launch(TRUE) \/ Launch(FALSE) \/ Exit \/ Notice \/ Respawn \/ RespawnFails
           \/ Halt \/ Halted \/ Cancel
  PROVE  /\ state' \in States /\ generation' \in 0..MaxGeneration
         /\ restarts' \in 0..MaxRestarts /\ live' \in BOOLEAN
<1>1. ASSUME NEW spent \in 0..MaxRestarts, Grant(spent)
      PROVE  state' \in States /\ restarts' \in 0..MaxRestarts
  BY <1>1 DEF Grant, States
<1>2. CASE Launch(TRUE)
  BY <1>2 DEF Launch, ControlTypeOK, States
<1>3. CASE Launch(FALSE)
  <2>1. live' = FALSE /\ state' = "failed" /\ restarts' = 0 /\ generation' = generation + 1
          /\ generation < MaxGeneration
    BY <1>3 DEF Launch
  <2>2. live' \in BOOLEAN
    BY <2>1, Zenon
  <2> QED BY <2>1, <2>2 DEF ControlTypeOK, States
<1>4. CASE Notice
  BY <1>1, <1>4 DEF Notice, ControlTypeOK
<1>5. CASE RespawnFails
  BY <1>1, <1>5 DEF RespawnFails, ControlTypeOK
<1>6. CASE Exit \/ Respawn \/ Halt \/ Halted \/ Cancel
  BY <1>6 DEF Exit, Respawn, Halt, Halted, Cancel, ControlTypeOK, States
<1> QED BY <1>2, <1>3, <1>4, <1>5, <1>6

-----------------------------------------------------------------------------
(* The holder goes on, or gives the lock back.                             *)

LEMMA Stays ==
  ASSUME LockInv, NEW r \in Requests, holder = r, holder' = holder,
         \A q \in Requests : q # r => call'[q] = call[q], Fits(call[r])'
  PROVE  LockInv' /\ StageInv'
BY DEF LockInv, StageInv

LEMMA Leaves ==
  ASSUME ControlTypeOK, LockInv, NEW r \in Requests, holder = r, Release(r), Agreed', HealthAgreed'
  PROVE  /\ LockInv' /\ StageInv'
         /\ call' \in [Requests -> Calls] /\ holder' \in Requests \union {Free} /\ ended' \in BOOLEAN
<1>1. /\ call' = [call EXCEPT ![r] = Idle] /\ holder' = Free /\ ended' = FALSE
  BY DEF Release
<1>2. call' \in [Requests -> Calls]
  BY <1>1, CallType DEF ControlTypeOK
<1>3. \A q \in Requests : call'[q].at \in {"idle", "queued"}
  BY <1>1 DEF ControlTypeOK, LockInv, Idle
<1> QED BY <1>1, <1>2, <1>3 DEF LockInv, StageInv

(* What the core and the watchers do by themselves changes none of this.   *)
LEMMA AgreedKept ==
  ASSUME Agreed, UNCHANGED <<runtime, controlled, health, connmon, desktop, generation>>,
         Down => Down', state = "stopped" => state' = "stopped",
         \A w \in watchers : w.gen = generation => \E x \in watchers' : x.gen = generation
  PROVE  Agreed'
BY DEF Agreed, Quiet

LEMMA StageKept ==
  ASSUME StageInv, UNCHANGED <<runtime, controlled, helpers, generation, holder>>,
         holder # Free => call'[holder] = call[holder],
         Down => Down', state = "stopped" => state' = "stopped",
         \A w \in watchers : w.gen = generation => \E x \in watchers' : x.gen = generation
  PROVE  StageInv'
<1>1. Agreed => Agreed'
  BY AgreedKept DEF helpers
<1>2. HealthAgreed => HealthAgreed'
  BY DEF HealthAgreed, helpers
<1>3. CASE holder = Free
  BY <1>1, <1>2, <1>3 DEF StageInv
<1>4. CASE holder # Free
  BY <1>1, <1>2, <1>4 DEF StageInv, Fits, helpers
<1> QED BY <1>3, <1>4

-----------------------------------------------------------------------------
LEMMA InitInv == ASSUME ControlInit PROVE ControlInv
<1>1. ControlTypeOK
  <2>1. live \in BOOLEAN /\ catalog \in BOOLEAN /\ connmon \in BOOLEAN /\ ended \in BOOLEAN
    BY Zenon DEF ControlInit, LifecycleInit
  <2>2. Idle \in Calls
    BY DEF Idle, Calls, Modes, Targets
  <2> QED BY <2>1, <2>2 DEF ControlInit, LifecycleInit, ControlTypeOK, States, Modes
<1>2. LockInv
  BY DEF ControlInit, LockInv, Idle
<1>3. StageInv
  BY DEF ControlInit, LifecycleInit, StageInv, Agreed, HealthAgreed, Down, Quiet
<1>4. CoreInv
  BY DEF ControlInit, LifecycleInit, CoreInv
<1> QED BY <1>1, <1>2, <1>3, <1>4 DEF ControlInv

LEMMA CoreInvSteps == ASSUME ControlInv, CoreReacts \/ CoreDies PROVE ControlInv'
<1>1. Notice \/ Respawn \/ RespawnFails \/ Halted \/ Exit
  BY DEF CoreReacts, CoreDies
<1>2. /\ UNCHANGED <<service, config, helpers, holder, ended, call, watchers>>
      /\ selector' \in {selector, config}
  BY DEF CoreReacts, CoreDies, control, plane
<1>3. generation' = generation
  BY <1>1 DEF Notice, Respawn, RespawnFails, Halted, Exit
<1>4. state' \in States /\ restarts' \in 0..MaxRestarts /\ live' \in BOOLEAN
  BY <1>1, LifecycleType DEF ControlInv
<1>5. /\ Down => Down'
      /\ state = "stopped" => state' = "stopped"
      /\ state' \in {"stopped", "starting", "failed"} => ~live'
  <2>1. CASE Notice \/ RespawnFails
    BY <2>1 DEF ControlInv, CoreInv, Down, Notice, RespawnFails, Grant
  <2>2. CASE Respawn \/ Halted
    BY <2>2 DEF Down, Respawn, Halted
  <2>3. CASE Exit
    BY <2>3 DEF Down, Exit
  <2> QED BY <1>1, <2>1, <2>2, <2>3
<1>6. ControlTypeOK'
  BY <1>2, <1>3, <1>4 DEF ControlInv, ControlTypeOK, service, helpers
<1>7. LockInv'
  BY <1>2 DEF ControlInv, LockInv
<1>8. StageInv'
  BY <1>2, <1>3, <1>5, StageKept DEF ControlInv, service
<1>9. CoreInv'
  BY <1>2, <1>3, <1>5 DEF ControlInv, CoreInv, service
<1> QED BY <1>6, <1>7, <1>8, <1>9 DEF ControlInv

LEMMA ArrivesInv ==
  ASSUME ControlInv, NEW r \in Requests, NEW op \in {"apply", "reapply", "stop"}, Arrives(r, op)
  PROVE  ControlInv'
<1>1. /\ call[r].at = "idle"
      /\ call' = [call EXCEPT ![r].op = op, ![r].at = "queued"]
      /\ UNCHANGED <<lifecycleVars, service, plane, helpers, holder, watchers>>
      /\ ended' \in {ended, TRUE}
  BY DEF Arrives
<1>2. /\ call' \in [Requests -> Calls] /\ call'[r].at = "queued"
      /\ \A q \in Requests : q # r => call'[q] = call[q]
  BY <1>1 DEF ControlInv, ControlTypeOK, Calls
<1>3. ended' \in BOOLEAN
  BY <1>1, Zenon DEF ControlInv, ControlTypeOK
<1>4. ControlTypeOK'
  BY <1>1, <1>2, <1>3 DEF ControlInv, ControlTypeOK, lifecycleVars, service, plane, helpers
<1>5. LockInv'
  BY <1>1, <1>2 DEF ControlInv, LockInv
<1>6. holder # Free => holder # r
  BY <1>1 DEF ControlInv, StageInv, Fits
<1>7. holder # Free => call'[holder] = call[holder]
  BY <1>2, <1>6 DEF ControlInv, ControlTypeOK
<1>8. Down' = Down
  BY <1>1 DEF Down, lifecycleVars
<1>9. StageInv'
  BY <1>1, <1>7, <1>8, StageKept DEF ControlInv, lifecycleVars, service
<1>10. CoreInv'
  BY <1>1, <1>8 DEF ControlInv, CoreInv, lifecycleVars, service
<1> QED BY <1>4, <1>5, <1>9, <1>10 DEF ControlInv

LEMMA AcquiresInv == ASSUME ControlInv, NEW r \in Requests, Acquires(r) PROVE ControlInv'
<1>1. /\ call[r].at = "queued" /\ holder = Free /\ holder' = r
      /\ UNCHANGED <<lifecycleVars, service, plane, helpers, ended, watchers>>
  BY DEF Acquires
<1>2. /\ call' \in [Requests -> Calls] /\ call'[r].at = "begin"
      /\ \A q \in Requests : q # r => call'[q] = call[q]
  <2>1. CASE call[r].op = "apply"
    <3>1. PICK target \in Targets, mode \in Modes :
            call' = [call EXCEPT ![r].at = "begin", ![r].target = target, ![r].mode = mode]
      BY <2>1 DEF Acquires
    <3>2. [call[r] EXCEPT !.at = "begin", !.target = target, !.mode = mode] \in Calls
      BY CallType DEF ControlInv, Calls
    <3> QED BY <3>1, <3>2 DEF ControlInv, ControlTypeOK
  <2>2. CASE call[r].op # "apply"
    BY <2>2, GoesType DEF Acquires, ControlInv, Ats
  <2> QED BY <2>1, <2>2
<1>3. ControlTypeOK'
  BY <1>1, <1>2 DEF ControlInv, ControlTypeOK, lifecycleVars, service, plane, helpers
<1>4. LockInv'
  BY <1>1, <1>2 DEF ControlInv, LockInv
<1>5. Agreed' /\ HealthAgreed'
  BY <1>1 DEF ControlInv, StageInv, Agreed, HealthAgreed, Down, Quiet, lifecycleVars, service, helpers
<1>6. StageInv'
  BY <1>1, <1>2, <1>5 DEF StageInv, Fits, Reported, Rising
<1>7. CoreInv'
  BY <1>1 DEF ControlInv, CoreInv, Down, lifecycleVars, service
<1> QED BY <1>3, <1>4, <1>6, <1>7 DEF ControlInv

LEMMA QuietInv ==
  ASSUME ControlInv, ContextEnds \/ UNCHANGED vars \/ \E w \in watchers : WatcherTicks(w)
  PROVE  ControlInv'
<1>1. /\ UNCHANGED <<lifecycleVars, service, plane, helpers, holder, call>>
      /\ ended' \in {ended, TRUE}
  BY DEF ContextEnds, WatcherTicks, vars, control, Holds
<1>2. ended' \in BOOLEAN
  BY <1>1, Zenon DEF ControlInv, ControlTypeOK
<1>3. Down' = Down
  BY <1>1 DEF Down, lifecycleVars
<1>4. /\ watchers' \subseteq [gen : 1..MaxGeneration, at : {"polling", "locking"}]
      /\ \A w \in watchers : w.gen = generation => \E x \in watchers' : x.gen = generation
      /\ \A w \in watchers' : w \in watchers \/ (w.gen = generation /\ Down)
  <2>1. CASE watchers' = watchers
    BY <2>1 DEF ControlInv, ControlTypeOK
  <2>2. ASSUME NEW w \in watchers, WatcherTicks(w) PROVE <1>4!:
    <3>1. w.gen \in 1..MaxGeneration /\ w.at = "polling"
            /\ w \in [gen : 1..MaxGeneration, at : {"polling", "locking"}]
      BY <2>2 DEF ControlInv, ControlTypeOK, WatcherTicks
    <3>2. CASE generation # w.gen /\ watchers' = watchers \ {w}
      BY <3>2, <3>1 DEF ControlInv, ControlTypeOK
    <3>3. CASE /\ generation = w.gen /\ Down
               /\ watchers' = (watchers \ {w}) \union {[w EXCEPT !.at = "locking"]}
      <4>1. [w EXCEPT !.at = "locking"] \in [gen : 1..MaxGeneration, at : {"polling", "locking"}]
              /\ [w EXCEPT !.at = "locking"].gen = w.gen
        BY <3>1
      <4> QED BY <3>3, <4>1 DEF ControlInv, ControlTypeOK
    <3> QED BY <2>2, <3>2, <3>3 DEF WatcherTicks, Down
  <2> QED BY <2>1, <2>2 DEF ContextEnds, vars, control
<1>5. ControlTypeOK'
  BY <1>1, <1>2, <1>4 DEF ControlInv, ControlTypeOK, lifecycleVars, service, plane, helpers
<1>6. LockInv'
  BY <1>1 DEF ControlInv, LockInv
<1>7. StageInv'
  BY <1>1, <1>3, <1>4, StageKept DEF ControlInv, lifecycleVars, service
<1>8. CoreInv'
  BY <1>1, <1>3, <1>4 DEF ControlInv, CoreInv, lifecycleVars, service
<1> QED BY <1>5, <1>6, <1>7, <1>8 DEF ControlInv

LEMMA WatcherLocksInv ==
  ASSUME ControlInv, NEW w \in watchers, WatcherLocks(w)
  PROVE  ControlInv'
<1>1. /\ w.at = "locking" /\ holder = Free /\ watchers' = watchers \ {w}
      /\ UNCHANGED <<lifecycleVars, plane, holder, ended, call>>
  BY DEF WatcherLocks
<1>2. LockInv'
  BY <1>1 DEF ControlInv, LockInv
<1>3. Agreed /\ HealthAgreed
  BY <1>1 DEF ControlInv, StageInv
<1>4. CASE Overtaken(w)
  <2>1. UNCHANGED <<service, helpers>>
    BY <1>4 DEF WatcherLocks
  <2>2. runtime.state = "running" => w.gen # generation
    BY <1>4, <1>3 DEF Overtaken, Agreed
  <2>3. ControlTypeOK'
    BY <1>1, <2>1 DEF ControlInv, ControlTypeOK, lifecycleVars, service, plane, helpers
  <2>4. Agreed' /\ HealthAgreed'
    BY <1>1, <1>3, <2>1, <2>2 DEF Agreed, HealthAgreed, Down, Quiet, lifecycleVars, service, helpers
  <2>5. CoreInv'
    BY <1>1, <2>1 DEF ControlInv, CoreInv, Down, lifecycleVars, service
  <2> QED BY <1>1, <1>2, <2>3, <2>4, <2>5 DEF ControlInv, StageInv
<1>5. CASE ~Overtaken(w)
  <2>1. /\ health' = None /\ connmon' = FALSE /\ desktop' \in {desktop, "user"}
        /\ runtime' = [runtime EXCEPT !.state = "failed"]
        /\ catalog' = FALSE /\ controlled' = controlled
    BY <1>5 DEF WatcherLocks, GivesDesktopBack
  <2>2. Down
    BY <1>1, <1>5 DEF Overtaken, ControlInv, CoreInv
  <2>3. catalog' \in BOOLEAN /\ connmon' \in BOOLEAN
    BY <2>1, Zenon
  <2>4. runtime'.state = "failed"
    BY <2>1 DEF ControlInv, ControlTypeOK
  <2>5. ControlTypeOK'
    BY <1>1, <2>1, <2>3 DEF ControlInv, ControlTypeOK, lifecycleVars, plane
  <2>6. Agreed' /\ HealthAgreed'
    BY <1>1, <2>1, <2>2, <2>4 DEF Agreed, HealthAgreed, Down, Quiet, lifecycleVars
  <2>7. CoreInv'
    BY <1>1, <2>1, <2>2 DEF ControlInv, CoreInv, Down, lifecycleVars
  <2> QED BY <1>1, <1>2, <2>5, <2>6, <2>7 DEF ControlInv, StageInv
<1> QED BY <1>4, <1>5

-----------------------------------------------------------------------------
(* The steps of the holder.                                                *)

LEMMA AtStage ==
  ASSUME ControlInv, NEW r \in Requests, call[r].at \notin {"idle", "queued"}
  PROVE  holder = r /\ holder # Free /\ Fits(call[r]) /\ call[r] \in Calls /\ ControlTypeOK /\ LockInv
BY HolderIs, CallType DEF ControlInv, StageInv

LEMMA SendsType ==
  ASSUME ControlTypeOK, NEW r \in Requests, NEW at \in Ats,
         NEW then \in {"none", "mode", "fail", "stopped"},
         call' = [call EXCEPT ![r].at = at, ![r].then = then]
  PROVE  /\ call' \in [Requests -> Calls]
         /\ call'[r].at = at /\ call'[r].op = call[r].op /\ call'[r].target = call[r].target
         /\ call'[r].mode = call[r].mode /\ call'[r].then = then
         /\ \A q \in Requests : q # r => call'[q] = call[q]
<1>1. [call[r] EXCEPT !.at = at, !.then = then] \in Calls
  BY CallType DEF Calls, Ats
<1> QED BY <1>1, CallType DEF ControlTypeOK, Calls

LEMMA ReturnsInv ==
  ASSUME ControlInv, NEW r \in Requests, call[r].at = "begin", Returns(r)
  PROVE  ControlInv'
<1>1. /\ holder = r /\ Fits(call[r]) /\ ControlTypeOK /\ LockInv
  BY AtStage
<1>2. Release(r) /\ UNCHANGED <<lifecycleVars, service, plane, helpers, watchers>>
  BY DEF Returns
<1>3. Agreed /\ HealthAgreed
  BY <1>1 DEF Fits, Reported
<1>4. Agreed' /\ HealthAgreed'
  BY <1>2, <1>3 DEF Agreed, HealthAgreed, Down, Quiet, lifecycleVars, service, helpers
<1>5. ControlTypeOK'
  BY <1>1, <1>2, <1>4, Leaves DEF ControlTypeOK, lifecycleVars, service, plane, helpers
<1>6. CoreInv'
  BY <1>2 DEF ControlInv, CoreInv, Down, lifecycleVars, service
<1> QED BY <1>1, <1>2, <1>4, <1>5, <1>6, Leaves DEF ControlInv

LEMMA FailsInv == ASSUME ControlInv, NEW r \in Requests, Fails(r) PROVE ControlInv'
<1>1. /\ call[r].at = "fail" /\ Release(r)
      /\ runtime' = [runtime EXCEPT !.state = "failed"] /\ catalog' = FALSE
      /\ UNCHANGED <<lifecycleVars, controlled, plane, helpers, watchers>>
  BY DEF Fails
<1>2. /\ holder = r /\ Fits(call[r]) /\ ControlTypeOK /\ LockInv
  BY <1>1, AtStage
<1>3. Down /\ Quiet
  BY <1>1, <1>2 DEF Fits, Reported, Quiet, ControlTypeOK
<1>4. runtime'.state = "failed" /\ catalog' \in BOOLEAN
  BY <1>1, <1>2 DEF ControlTypeOK
<1>5. Agreed' /\ HealthAgreed'
  BY <1>1, <1>3, <1>4 DEF Agreed, HealthAgreed, Down, Quiet, lifecycleVars, helpers
<1>6. ControlTypeOK'
  BY <1>1, <1>2, <1>4, <1>5, Leaves DEF ControlTypeOK, lifecycleVars, plane, helpers
<1>7. CoreInv'
  BY <1>1 DEF ControlInv, CoreInv, Down, lifecycleVars
<1> QED BY <1>1, <1>2, <1>5, <1>6, <1>7, Leaves DEF ControlInv

LEMMA StoppedInv == ASSUME ControlInv, NEW r \in Requests, Stopped(r) PROVE ControlInv'
<1>1. /\ call[r].at = "stopped" /\ Release(r)
      /\ runtime' = [state |-> "stopped", target |-> None, mode |-> "system"] /\ catalog' = FALSE
      /\ UNCHANGED <<lifecycleVars, controlled, plane, helpers, watchers>>
  BY DEF Stopped
<1>2. /\ holder = r /\ Fits(call[r]) /\ ControlTypeOK /\ LockInv
  BY <1>1, AtStage
<1>3. Down /\ Quiet /\ state = "stopped" /\ desktop = "user"
  BY <1>1, <1>2 DEF Fits, Reported, Quiet, ControlTypeOK
<1>4. catalog' \in BOOLEAN
  BY <1>1, Zenon
<1>5. Agreed' /\ HealthAgreed'
  BY <1>1, <1>3 DEF Agreed, HealthAgreed, Down, Quiet, lifecycleVars, helpers
<1>6. ControlTypeOK'
  BY <1>1, <1>2, <1>4, <1>5, Leaves DEF ControlTypeOK, Modes, lifecycleVars, plane, helpers
<1>7. CoreInv'
  BY <1>1 DEF ControlInv, CoreInv, Down, lifecycleVars
<1> QED BY <1>1, <1>2, <1>5, <1>6, <1>7, Leaves DEF ControlInv

LEMMA StopsCoreInv == ASSUME ControlInv, NEW r \in Requests, StopsCore(r) PROVE ControlInv'
<1>1. /\ call[r].at = "stopCore"
      /\ UNCHANGED <<service, plane, helpers, Holds, watchers>>
  BY DEF StopsCore
<1>2. /\ holder = r /\ Fits(call[r]) /\ ControlTypeOK /\ LockInv /\ call[r] \in Calls
  BY <1>1, AtStage
<1>3. call[r].then \in {"mode", "fail", "stopped"} /\ (call[r].then = "stopped" => desktop = "user")
        /\ health = None /\ ~connmon
  BY <1>1, <1>2 DEF Fits, Reported
<1>4. PICK at \in {call[r].then, "halting"} :
        /\ Goes(r, at)
        /\ \/ at = call[r].then /\ state = "stopped" /\ UNCHANGED lifecycleVars
           \/ at = call[r].then /\ Cancel
           \/ at = "halting" /\ Halt
           \/ at = "halting" /\ state = "stopping" /\ UNCHANGED lifecycleVars
  BY DEF StopsCore
<1>5. /\ state' = IF at = "halting" THEN "stopping" ELSE "stopped"
      /\ generation' = generation /\ live' = live /\ restarts' = restarts
      /\ state' # "stopping" => ~live
  BY <1>3, <1>4 DEF Cancel, Halt, lifecycleVars, ControlInv, CoreInv
<1>6. at \in Ats
  BY <1>3, <1>4 DEF Ats
<1>7. /\ call' \in [Requests -> Calls]
      /\ call'[r].at = at /\ call'[r].then = call[r].then
      /\ \A q \in Requests : q # r => call'[q] = call[q]
  BY <1>2, <1>4, <1>6, GoesType
<1>8. ControlTypeOK'
  BY <1>1, <1>2, <1>5, <1>7 DEF ControlTypeOK, service, plane, helpers, Holds, States
<1>9. Fits(call[r])'
  BY <1>1, <1>3, <1>4, <1>5, <1>7 DEF Fits, Reported, Rising, Down, helpers
<1>10. LockInv' /\ StageInv'
  BY <1>1, <1>2, <1>7, <1>9, Stays DEF Holds
<1>11. CoreInv'
  BY <1>1, <1>5 DEF ControlInv, CoreInv, Down, service
<1> QED BY <1>8, <1>10, <1>11 DEF ControlInv

LEMMA CoreStoppedInv ==
  ASSUME ControlInv, NEW r \in Requests, CoreStopped(r) \/ CoreStopFails(r)
  PROVE  ControlInv'
<1>1. /\ call[r].at = "halting"
      /\ UNCHANGED <<state, generation, restarts, service, plane, helpers, Holds, watchers>>
      /\ live' \in {live, FALSE}
  BY DEF CoreStopped, CoreStopFails, lifecycleVars
<1>2. /\ holder = r /\ Fits(call[r]) /\ ControlTypeOK /\ LockInv /\ call[r] \in Calls
  BY <1>1, AtStage
<1>3. call[r].then \in {"mode", "fail", "stopped"} /\ (call[r].then = "stopped" => desktop = "user")
        /\ health = None /\ ~connmon /\ Down
  BY <1>1, <1>2 DEF Fits, Reported
<1>4. PICK at \in {call[r].then, "fail"} :
        Goes(r, at) /\ (at # "fail" => at = call[r].then /\ state = "stopped")
  BY DEF CoreStopped, CoreStopFails
<1>5. /\ call' \in [Requests -> Calls] /\ call'[r].at = at
      /\ \A q \in Requests : q # r => call'[q] = call[q]
  BY <1>2, <1>3, <1>4, GoesType DEF Ats
<1>6. live' \in BOOLEAN /\ (~live => ~live')
  <2>1. CASE live' = live
    BY <1>2, <2>1 DEF ControlTypeOK
  <2>2. CASE live' = FALSE
    BY <2>2
  <2> QED BY <1>1, <2>1, <2>2
<1>7. ControlTypeOK'
  BY <1>1, <1>2, <1>5, <1>6 DEF ControlTypeOK, service, plane, helpers, Holds
<1>8. Fits(call[r])'
  BY <1>1, <1>3, <1>4, <1>5 DEF Fits, Reported, Rising, Down, helpers
<1>9. LockInv' /\ StageInv'
  BY <1>1, <1>2, <1>5, <1>8, Stays DEF Holds
<1>10. CoreInv'
  BY <1>1, <1>6 DEF ControlInv, CoreInv, Down, service
<1> QED BY <1>7, <1>9, <1>10 DEF ControlInv

LEMMA BeginsSwitchInv == ASSUME ControlInv, NEW r \in Requests, BeginsSwitch(r) PROVE ControlInv'
<1>1. CASE runtime.target = call[r].target
  BY <1>1, ReturnsInv DEF BeginsSwitch
<1>2. CASE runtime.target # call[r].target
  <2>1. /\ call[r].at = "begin" /\ runtime.state = "running" /\ Goes(r, "switch")
        /\ UNCHANGED <<lifecycleVars, service, plane, helpers, Holds, watchers>>
    BY <1>2 DEF BeginsSwitch, CanHotSwitch
  <2>2. /\ holder = r /\ Fits(call[r]) /\ ControlTypeOK /\ LockInv
    BY <2>1, AtStage
  <2>3. /\ call' \in [Requests -> Calls] /\ call'[r].at = "switch"
        /\ \A q \in Requests : q # r => call'[q] = call[q]
    BY <2>1, <2>2, GoesType DEF Ats
  <2>4. Agreed /\ HealthAgreed
    BY <2>1, <2>2 DEF Fits, Reported
  <2>5. Agreed' /\ HealthAgreed'
    BY <2>1, <2>4 DEF Agreed, HealthAgreed, Down, Quiet, lifecycleVars, service, helpers
  <2>6. Fits(call[r])'
    BY <2>1, <2>3, <2>5 DEF Fits, Reported, Rising, service
  <2>7. ControlTypeOK'
    BY <2>1, <2>2, <2>3 DEF ControlTypeOK, lifecycleVars, service, plane, helpers, Holds
  <2>8. CoreInv'
    BY <2>1 DEF ControlInv, CoreInv, Down, lifecycleVars, service
  <2> QED BY <2>1, <2>2, <2>3, <2>6, <2>7, <2>8, Stays DEF ControlInv, Holds
<1> QED BY <1>1, <1>2

LEMMA SavesConfigInv == ASSUME ControlInv, NEW r \in Requests, SavesConfig(r) PROVE ControlInv'
<1>1. /\ call[r].at = "begin" /\ health' = None /\ connmon' = FALSE
      /\ UNCHANGED <<lifecycleVars, service, selector, desktop, Holds, watchers>>
  BY DEF SavesConfig
<1>2. /\ holder = r /\ ControlTypeOK /\ LockInv /\ call[r] \in Calls
  BY <1>1, AtStage
<1>3. PICK target \in Targets \union {None}, mode \in Modes :
        /\ config' = target
        /\ call' = [call EXCEPT ![r].at = "stopOld", ![r].target = target, ![r].mode = mode]
  <2> DEFINE t == IF call[r].op = "apply" THEN call[r].target ELSE runtime.target
             m == IF call[r].op = "apply" THEN call[r].mode ELSE runtime.mode
  <2>1. t \in Targets \union {None} /\ m \in Modes
    BY <1>2 DEF ControlTypeOK, Calls
  <2>2. /\ config' = t
        /\ call' = [call EXCEPT ![r].at = "stopOld", ![r].target = t, ![r].mode = m]
    BY DEF SavesConfig
  <2> QED BY <2>1, <2>2
<1>4. [call[r] EXCEPT !.at = "stopOld", !.target = target, !.mode = mode] \in Calls
  BY <1>2 DEF Calls
<1>5. /\ call' \in [Requests -> Calls] /\ call'[r].at = "stopOld"
      /\ \A q \in Requests : q # r => call'[q] = call[q]
  BY <1>2, <1>3, <1>4 DEF ControlTypeOK, Calls
<1>6. connmon' \in BOOLEAN
  BY <1>1, Zenon
<1>7. ControlTypeOK'
  BY <1>1, <1>2, <1>3, <1>5, <1>6 DEF ControlTypeOK, lifecycleVars, service, Holds
<1>8. Fits(call[r])'
  BY <1>1, <1>5 DEF Fits, Reported, Rising
<1>9. LockInv' /\ StageInv'
  BY <1>1, <1>2, <1>5, <1>8, Stays DEF Holds
<1>10. CoreInv'
  BY <1>1 DEF ControlInv, CoreInv, Down, lifecycleVars, service
<1> QED BY <1>7, <1>9, <1>10 DEF ControlInv

LEMMA StopsOldCoreInv == ASSUME ControlInv, NEW r \in Requests, StopsOldCore(r) PROVE ControlInv'
<1>1. /\ call[r].at = "stopOld"
      /\ UNCHANGED <<lifecycleVars, runtime, catalog, plane, helpers, Holds, watchers>>
  BY DEF StopsOldCore
<1>2. /\ holder = r /\ Fits(call[r]) /\ ControlTypeOK /\ LockInv /\ call[r] \in Calls
  BY <1>1, AtStage
<1>3. health = None /\ ~connmon
  BY <1>1, <1>2 DEF Fits, Reported
<1>4. /\ controlled' \in 0..MaxGeneration /\ controlled' <= generation
      /\ call' \in [Requests -> Calls]
      /\ \A q \in Requests : q # r => call'[q] = call[q]
      /\ \/ call'[r].at = "stopCore" /\ call'[r].then = "mode"
         \/ call'[r].at = "mode" /\ Down
  <2>1. CASE state \in {"running", "starting"}
    <3>1. generation \in 0..MaxGeneration /\ generation <= generation
      BY <1>2 DEF ControlTypeOK
    <3> QED BY <1>2, <2>1, <3>1, SendsType DEF StopsOldCore, Ats
  <2>2. CASE state \notin {"running", "starting"}
    BY <1>2, <2>2, GoesType DEF StopsOldCore, Ats, ControlTypeOK, Down, ControlInv, CoreInv
  <2> QED BY <2>1, <2>2
<1>5. ControlTypeOK'
  BY <1>1, <1>2, <1>4 DEF ControlTypeOK, lifecycleVars, plane, helpers, Holds
<1>6. Fits(call[r])'
  BY <1>1, <1>3, <1>4 DEF Fits, Reported, Rising, Down, lifecycleVars, helpers
<1>7. LockInv' /\ StageInv'
  BY <1>1, <1>2, <1>4, <1>6, Stays DEF Holds
<1>8. CoreInv'
  BY <1>1, <1>4 DEF ControlInv, CoreInv, Down, lifecycleVars
<1> QED BY <1>5, <1>7, <1>8 DEF ControlInv

LEMMA SetsModeInv == ASSUME ControlInv, NEW r \in Requests, SetsMode(r) PROVE ControlInv'
<1>1. /\ call[r].at = "mode"
      /\ UNCHANGED <<lifecycleVars, service, plane, health, connmon, Holds, watchers>>
  BY DEF SetsMode
<1>2. /\ holder = r /\ Fits(call[r]) /\ ControlTypeOK /\ LockInv
  BY <1>1, AtStage
<1>3. health = None /\ ~connmon /\ Down
  BY <1>1, <1>2 DEF Fits, Reported
<1>4. PICK at \in {"start", "fail"} :
        /\ Goes(r, at) /\ desktop' \in {desktop, "user"}
        /\ at = "start" /\ call[r].mode # "system" => desktop' = "user"
  BY DEF SetsMode, GivesDesktopBack
<1>5. /\ call' \in [Requests -> Calls] /\ call'[r].at = at /\ call'[r].mode = call[r].mode
      /\ \A q \in Requests : q # r => call'[q] = call[q]
  BY <1>2, <1>4, GoesType DEF Ats
<1>6. ControlTypeOK'
  BY <1>1, <1>2, <1>4, <1>5 DEF ControlTypeOK, lifecycleVars, service, plane, Holds
<1>7. Fits(call[r])'
  BY <1>1, <1>3, <1>4, <1>5 DEF Fits, Reported, Rising, Down, lifecycleVars
<1>8. LockInv' /\ StageInv'
  BY <1>1, <1>2, <1>5, <1>7, Stays DEF Holds
<1>9. CoreInv'
  BY <1>1 DEF ControlInv, CoreInv, Down, lifecycleVars, service
<1> QED BY <1>6, <1>8, <1>9 DEF ControlInv

LEMMA StartsCoreInv == ASSUME ControlInv, NEW r \in Requests, StartsCore(r) PROVE ControlInv'
<1>1. /\ call[r].at = "start"
      /\ UNCHANGED <<service, config, helpers, Holds, watchers>>
      /\ selector' \in {selector, config}
  BY DEF StartsCore, lifecycleVars
<1>2. /\ holder = r /\ Fits(call[r]) /\ ControlTypeOK /\ LockInv
  BY <1>1, AtStage
<1>3. health = None /\ ~connmon /\ Down /\ (call[r].mode # "system" => desktop = "user")
  BY <1>1, <1>2 DEF Fits, Reported
<1>4. PICK at \in {"starting", "fail"} :
        /\ Goes(r, at)
        /\ \/ at = "fail" /\ UNCHANGED lifecycleVars
           \/ at = "starting" /\ Launch(TRUE)
           \/ at = "fail" /\ Launch(FALSE)
  BY DEF StartsCore
<1>5. /\ call' \in [Requests -> Calls] /\ call'[r].at = at /\ call'[r].mode = call[r].mode
      /\ \A q \in Requests : q # r => call'[q] = call[q]
  BY <1>2, <1>4, GoesType DEF Ats
<1>6. /\ state' \in States /\ generation' \in 0..MaxGeneration
      /\ restarts' \in 0..MaxRestarts /\ live' \in BOOLEAN
  BY <1>2, <1>4, LifecycleType DEF ControlTypeOK, lifecycleVars
<1>7. /\ at = "starting" => generation' = generation + 1
      /\ at = "fail" => Down'
      /\ generation' = generation => Down'
      /\ generation' \in {generation, generation + 1}
      /\ state' \in {"stopped", "starting", "failed"} => ~live'
  <2>1. CASE at = "fail" /\ UNCHANGED lifecycleVars
    BY <1>2, <1>3, <2>1 DEF ControlInv, CoreInv, ControlTypeOK, Down, lifecycleVars
  <2>2. CASE at = "starting" /\ Launch(TRUE)
    BY <1>2, <2>2 DEF Launch, ControlTypeOK
  <2>3. CASE at = "fail" /\ Launch(FALSE)
    BY <1>2, <2>3 DEF Launch, ControlTypeOK, Down
  <2> QED BY <1>4, <2>1, <2>2, <2>3
<1>8. ControlTypeOK'
  BY <1>1, <1>2, <1>5, <1>6 DEF ControlTypeOK, service, helpers, Holds
<1>9. Fits(call[r])'
  <2>1. at = "starting" => controlled' < generation'
    BY <1>1, <1>2, <1>7 DEF ControlInv, CoreInv, ControlTypeOK, service
  <2> QED BY <1>1, <1>3, <1>4, <1>5, <1>7, <2>1 DEF Fits, Reported, Rising, helpers
<1>10. LockInv' /\ StageInv'
  BY <1>1, <1>2, <1>5, <1>9, Stays DEF Holds
<1>11. CoreInv'
  <2>1. /\ controlled \in Nat /\ generation \in Nat
        /\ \A w \in watchers : w.gen \in Nat /\ w.gen <= generation
    BY <1>2 DEF ControlTypeOK, ControlInv, CoreInv
  <2>2. generation' \in Nat /\ generation <= generation' /\ (generation' # generation => generation < generation')
    BY <1>7, <2>1
  <2>3. \A w \in watchers : w.gen <= generation' /\ (w.gen = generation' => Down')
    BY <1>7, <2>1, <2>2
  <2> QED BY <1>1, <1>7, <2>1, <2>2, <2>3 DEF ControlInv, CoreInv, service
<1> QED BY <1>8, <1>10, <1>11 DEF ControlInv

(* A step that is abandoned: the core is asked to stop.                    *)
LEMMA AbandonsType ==
  ASSUME ControlInv, NEW r \in Requests, Abandons(r)
  PROVE  /\ controlled' \in 0..MaxGeneration /\ controlled' <= generation
         /\ call' \in [Requests -> Calls]
         /\ call'[r].at = "stopCore" /\ call'[r].then = "fail"
         /\ \A q \in Requests : q # r => call'[q] = call[q]
<1>1. generation \in 0..MaxGeneration /\ generation <= generation
  BY DEF ControlInv, ControlTypeOK
<1> QED BY <1>1, SendsType DEF Abandons, Ats, ControlInv

LEMMA CoreStartsInv == ASSUME ControlInv, NEW r \in Requests, CoreStarts(r) PROVE ControlInv'
<1>1. /\ call[r].at = "starting"
      /\ UNCHANGED <<lifecycleVars, service, plane, helpers, Holds, watchers>>
  BY DEF CoreStarts
<1>2. /\ holder = r /\ Fits(call[r]) /\ ControlTypeOK /\ LockInv /\ call[r] \in Calls
  BY <1>1, AtStage
<1>3. /\ health = None /\ ~connmon /\ controlled < generation
      /\ call[r].mode # "system" => desktop = "user"
  BY <1>1, <1>2 DEF Fits, Reported, Rising
<1>4. /\ call' \in [Requests -> Calls]
      /\ \A q \in Requests : q # r => call'[q] = call[q]
      /\ call'[r].target = call[r].target /\ call'[r].mode = call[r].mode
      /\ \/ call'[r].at = "probe" /\ call[r].target \in Pools
         \/ call'[r].at = "proxy"
         \/ call'[r].at = "fail" /\ Down
         \/ call'[r].at = "stopCore" /\ call'[r].then = "fail"
  <2>1. CASE Goes(r, "probe") /\ call[r].target \in Pools
    BY <1>2, <2>1, GoesType DEF Ats
  <2>2. CASE Goes(r, "proxy")
    BY <1>2, <2>2, GoesType DEF Ats
  <2>3. CASE state = "failed" /\ Goes(r, "fail")
    BY <1>2, <2>3, GoesType DEF Ats, Down
  <2>4. CASE call' = [call EXCEPT ![r].at = "stopCore", ![r].then = "fail"]
    BY <1>2, <2>4, SendsType DEF Ats
  <2> QED BY <2>1, <2>2, <2>3, <2>4 DEF CoreStarts
<1>5. ControlTypeOK'
  BY <1>1, <1>2, <1>4 DEF ControlTypeOK, lifecycleVars, service, plane, helpers, Holds
<1>6. Fits(call[r])'
  BY <1>1, <1>3, <1>4 DEF Fits, Reported, Rising, Down, lifecycleVars, service, helpers
<1>7. LockInv' /\ StageInv'
  BY <1>1, <1>2, <1>4, <1>6, Stays DEF Holds
<1>8. CoreInv'
  BY <1>1 DEF ControlInv, CoreInv, Down, lifecycleVars, service
<1> QED BY <1>5, <1>7, <1>8 DEF ControlInv

LEMMA ProbesInv == ASSUME ControlInv, NEW r \in Requests, Probes(r) PROVE ControlInv'
<1>1. /\ call[r].at = "probe"
      /\ UNCHANGED <<lifecycleVars, runtime, catalog, plane, connmon, desktop, Holds, watchers>>
  BY DEF Probes
<1>2. /\ holder = r /\ Fits(call[r]) /\ ControlTypeOK /\ LockInv
  BY <1>1, AtStage
<1>3. /\ call[r].target \in Pools /\ ~connmon /\ controlled < generation
      /\ call[r].mode # "system" => desktop = "user"
  BY <1>1, <1>2 DEF Fits, Reported, Rising
<1>4. /\ call' \in [Requests -> Calls]
      /\ \A q \in Requests : q # r => call'[q] = call[q]
      /\ controlled' \in 0..MaxGeneration /\ controlled' <= generation
      /\ \/ /\ call'[r].at = "proxy" /\ health' = call[r].target /\ controlled' = controlled
            /\ call'[r].target = call[r].target /\ call'[r].mode = call[r].mode
         \/ call'[r].at = "stopCore" /\ call'[r].then = "fail" /\ health' = None
  <2>1. CASE Goes(r, "proxy") /\ health' = call[r].target /\ controlled' = controlled
    BY <1>2, <2>1, GoesType DEF Ats, ControlInv, CoreInv, ControlTypeOK
  <2>2. CASE Abandons(r) /\ health' = None
    BY <2>2, AbandonsType
  <2> QED BY <2>1, <2>2 DEF Probes
<1>5. ControlTypeOK'
  BY <1>1, <1>2, <1>3, <1>4 DEF ControlTypeOK, lifecycleVars, plane, Holds
<1>6. Fits(call[r])'
  BY <1>1, <1>3, <1>4 DEF Fits, Reported, Rising, lifecycleVars
<1>7. LockInv' /\ StageInv'
  BY <1>1, <1>2, <1>4, <1>6, Stays DEF Holds
<1>8. CoreInv'
  BY <1>1, <1>4 DEF ControlInv, CoreInv, Down, lifecycleVars
<1> QED BY <1>5, <1>7, <1>8 DEF ControlInv

LEMMA SetsDesktopInv == ASSUME ControlInv, NEW r \in Requests, SetsDesktop(r) PROVE ControlInv'
<1>1. /\ call[r].at = "proxy"
      /\ UNCHANGED <<lifecycleVars, runtime, catalog, plane, Holds, watchers>>
  BY DEF SetsDesktop
<1>2. /\ holder = r /\ Fits(call[r]) /\ ControlTypeOK /\ LockInv
  BY <1>1, AtStage
<1>3. /\ health \in {None, call[r].target} /\ ~connmon /\ controlled < generation
      /\ call[r].mode # "system" => desktop = "user"
  BY <1>1, <1>2 DEF Fits, Reported, Rising
<1>4. /\ call' \in [Requests -> Calls]
      /\ \A q \in Requests : q # r => call'[q] = call[q]
      /\ controlled' \in 0..MaxGeneration /\ controlled' <= generation
      /\ desktop' \in {"user", "webui"} /\ connmon' = connmon
      /\ \/ /\ call'[r].at = "finish" /\ health' = health /\ controlled' = controlled
            /\ call'[r].target = call[r].target /\ call'[r].mode = call[r].mode
            /\ desktop' = "webui" <=> call[r].mode = "system"
         \/ call'[r].at = "stopCore" /\ call'[r].then = "fail" /\ health' = None
  <2>1. CASE call[r].mode # "system" /\ Goes(r, "finish") /\ UNCHANGED <<controlled, helpers>>
    BY <1>2, <1>3, <2>1, GoesType DEF Ats, ControlInv, CoreInv, ControlTypeOK, helpers
  <2>2. CASE /\ call[r].mode = "system" /\ desktop' = "webui" /\ Goes(r, "finish")
             /\ UNCHANGED <<controlled, health, connmon>>
    BY <1>2, <2>2, GoesType DEF Ats, ControlInv, CoreInv, ControlTypeOK
  <2>3. CASE Abandons(r) /\ health' = None /\ connmon' = connmon /\ desktop' \in {desktop, "user", "webui"}
    BY <1>2, <2>3, AbandonsType DEF ControlTypeOK
  <2> QED BY <2>1, <2>2, <2>3 DEF SetsDesktop
<1>5. ControlTypeOK'
  BY <1>1, <1>2, <1>4 DEF ControlTypeOK, lifecycleVars, plane, Holds
<1>6. Fits(call[r])'
  BY <1>1, <1>3, <1>4 DEF Fits, Reported, Rising, lifecycleVars
<1>7. LockInv' /\ StageInv'
  BY <1>1, <1>2, <1>4, <1>6, Stays DEF Holds
<1>8. CoreInv'
  BY <1>1, <1>4 DEF ControlInv, CoreInv, Down, lifecycleVars
<1> QED BY <1>5, <1>7, <1>8 DEF ControlInv

LEMMA FinishesInv == ASSUME ControlInv, NEW r \in Requests, Finishes(r) PROVE ControlInv'
<1>1. /\ call[r].at = "finish" /\ connmon' = TRUE /\ Release(r)
      /\ runtime' = [state |-> "running", target |-> call[r].target, mode |-> call[r].mode]
      /\ catalog' = TRUE /\ watchers' = watchers \union {[gen |-> generation, at |-> "polling"]}
      /\ UNCHANGED <<lifecycleVars, controlled, plane, health, desktop>>
  BY DEF Finishes, Watched
<1>2. /\ holder = r /\ Fits(call[r]) /\ ControlTypeOK /\ LockInv /\ call[r] \in Calls
  BY <1>1, AtStage
<1>3. /\ health \in {None, call[r].target} /\ controlled < generation
      /\ desktop = "webui" <=> call[r].mode = "system"
  BY <1>1, <1>2 DEF Fits, Reported, Rising
<1>4. Agreed' /\ HealthAgreed'
  <2>1. controlled # generation
    BY <1>2, <1>3 DEF ControlTypeOK
  <2>2. [gen |-> generation, at |-> "polling"].gen = generation
    OBVIOUS
  <2> QED BY <1>1, <1>3, <2>1, <2>2 DEF Agreed, HealthAgreed, lifecycleVars
<1>5. generation \in 1..MaxGeneration
  BY <1>2, <1>3 DEF ControlTypeOK
<1>6. connmon' \in BOOLEAN /\ catalog' \in BOOLEAN
  BY <1>1, Zenon
<1>7. ControlTypeOK'
  BY <1>1, <1>2, <1>4, <1>5, <1>6, Leaves DEF ControlTypeOK, Calls, lifecycleVars, plane
<1>8. CoreInv'
  BY <1>1, <1>5 DEF ControlInv, CoreInv, Down, lifecycleVars
<1> QED BY <1>1, <1>2, <1>4, <1>7, <1>8, Leaves DEF ControlInv

LEMMA HealthRestoredType ==
  ASSUME runtime.state = "running", HealthRestored, runtime' = runtime,
         runtime.target \in Targets \union {None}
  PROVE  health' \in Pools \union {None} /\ HealthAgreed'
BY DEF HealthRestored, HealthAgreed

LEMMA SwitchesHealthInv == ASSUME ControlInv, NEW r \in Requests, SwitchesHealth(r) PROVE ControlInv'
<1>1. /\ call[r].at = "switch"
      /\ UNCHANGED <<lifecycleVars, service, plane, connmon, desktop, watchers>>
  BY DEF SwitchesHealth, helpers
<1>2. /\ holder = r /\ Fits(call[r]) /\ ControlTypeOK /\ LockInv /\ call[r] \in Calls
  BY <1>1, AtStage
<1>3. Agreed /\ HealthAgreed /\ runtime.state = "running"
  BY <1>1, <1>2 DEF Fits, Reported
<1>4. Agreed' /\ runtime' = runtime
  BY <1>1, <1>3 DEF Agreed, Down, lifecycleVars, service
<1>5. CoreInv'
  BY <1>1 DEF ControlInv, CoreInv, Down, lifecycleVars, service
<1>6. CASE /\ Goes(r, "select") /\ UNCHANGED Holds
           /\ \/ call[r].target \in Nodes /\ health' = health
              \/ call[r].target \in Pools /\ health' = call[r].target
  <2>1. /\ call' \in [Requests -> Calls]
        /\ \A q \in Requests : q # r => call'[q] = call[q]
        /\ call'[r].at = "select" /\ call'[r].target = call[r].target
    BY <1>2, <1>6, GoesType DEF Ats
  <2>2. ControlTypeOK'
    BY <1>1, <1>2, <1>6, <2>1 DEF ControlTypeOK, lifecycleVars, service, plane, Holds
  <2>3. Fits(call[r])'
    BY <1>3, <1>4, <1>6, <2>1 DEF Fits, HealthAgreed, Reported, Rising
  <2> QED BY <1>2, <1>5, <1>6, <2>1, <2>2, <2>3, Stays DEF ControlInv, Holds
<1>7. CASE HealthRestored /\ Release(r)
  <2>1. health' \in Pools \union {None} /\ HealthAgreed'
    BY <1>2, <1>3, <1>4, <1>7, HealthRestoredType DEF ControlTypeOK
  <2>2. ControlTypeOK'
    BY <1>1, <1>2, <1>4, <1>7, <2>1, Leaves DEF ControlTypeOK, lifecycleVars, service, plane
  <2> QED BY <1>2, <1>4, <1>5, <1>7, <2>1, <2>2, Leaves DEF ControlInv
<1> QED BY <1>6, <1>7 DEF SwitchesHealth, helpers

LEMMA SelectsInv == ASSUME ControlInv, NEW r \in Requests, Selects(r) PROVE ControlInv'
<1>1. /\ call[r].at = "select" /\ Release(r)
      /\ UNCHANGED <<lifecycleVars, catalog, controlled, config, connmon, desktop, watchers>>
  BY DEF Selects
<1>2. /\ holder = r /\ Fits(call[r]) /\ ControlTypeOK /\ LockInv /\ call[r] \in Calls
  BY <1>1, AtStage
<1>3. /\ Agreed /\ runtime.state = "running"
      /\ \/ call[r].target \in Nodes /\ HealthAgreed
         \/ call[r].target \in Pools /\ health = call[r].target
  BY <1>1, <1>2 DEF Fits, Reported
<1>4. call[r].target \in Targets
  BY <1>3 DEF Targets
<1>5. /\ health' \in Pools \union {None} /\ HealthAgreed'
      /\ selector' \in Targets \union {None}
      /\ runtime' \in [state : {"stopped", "running", "failed"},
                       target : Targets \union {None}, mode : Modes]
      /\ runtime'.state = "running" /\ runtime'.mode = runtime.mode
  <2>1. CASE /\ selector' = call[r].target
             /\ runtime' = [runtime EXCEPT !.state = "running", !.target = call[r].target]
             /\ health' = IF call[r].target \in Nodes THEN None ELSE health
    <3>1. runtime'.target = call[r].target /\ runtime'.state = "running" /\ runtime'.mode = runtime.mode
      BY <1>2, <2>1 DEF ControlTypeOK
    <3>2. health' \in Pools \union {None} /\ (health' # None => health' = call[r].target)
      BY <1>2, <1>3, <2>1 DEF ControlTypeOK
    <3> QED BY <1>2, <1>4, <2>1, <3>1, <3>2 DEF HealthAgreed, ControlTypeOK
  <2>2. CASE /\ selector' \in {selector, call[r].target} /\ runtime' = runtime
             /\ IF call[r].target \in Pools THEN HealthRestored ELSE UNCHANGED health
    <3>1. CASE call[r].target \in Pools
      BY <1>2, <1>3, <1>4, <2>2, <3>1, HealthRestoredType DEF ControlTypeOK
    <3>2. CASE call[r].target \notin Pools
      BY <1>2, <1>3, <1>4, <2>2, <3>2 DEF ControlTypeOK, HealthAgreed
    <3> QED BY <3>1, <3>2
  <2> QED BY <2>1, <2>2 DEF Selects
<1>6. Agreed'
  BY <1>1, <1>3, <1>5 DEF Agreed, lifecycleVars
<1>7. ControlTypeOK'
  BY <1>1, <1>2, <1>5, <1>6, Leaves DEF ControlTypeOK, lifecycleVars
<1>8. CoreInv'
  BY <1>1, <1>5 DEF ControlInv, CoreInv, Down, lifecycleVars
<1> QED BY <1>1, <1>2, <1>5, <1>6, <1>7, <1>8, Leaves DEF ControlInv

LEMMA StopsServiceInv == ASSUME ControlInv, NEW r \in Requests, StopsService(r) PROVE ControlInv'
<1>1. /\ call[r].at = "begin" /\ health' = None /\ connmon' = FALSE /\ controlled' = generation
      /\ UNCHANGED <<lifecycleVars, runtime, catalog, plane, Holds, watchers>>
  BY DEF StopsService
<1>2. /\ holder = r /\ ControlTypeOK /\ LockInv
  BY <1>1, AtStage
<1>3. PICK then \in {"stopped", "fail"} :
        /\ call' = [call EXCEPT ![r].at = "stopCore", ![r].then = then]
        /\ desktop' \in {desktop, "user"} /\ (then = "stopped" => desktop' = "user")
  BY DEF StopsService, GivesDesktopBack
<1>4. /\ call' \in [Requests -> Calls]
      /\ call'[r].at = "stopCore" /\ call'[r].then = then
      /\ \A q \in Requests : q # r => call'[q] = call[q]
  BY <1>2, <1>3, SendsType DEF Ats
<1>5. generation \in 0..MaxGeneration /\ generation <= generation /\ connmon' \in BOOLEAN
  <2>1. connmon' \in BOOLEAN
    BY <1>1, Zenon
  <2> QED BY <1>2, <2>1 DEF ControlTypeOK
<1>6. ControlTypeOK'
  BY <1>1, <1>2, <1>3, <1>4, <1>5 DEF ControlTypeOK, lifecycleVars, plane, Holds
<1>7. Fits(call[r])'
  BY <1>1, <1>3, <1>4 DEF Fits, Reported, Rising
<1>8. LockInv' /\ StageInv'
  BY <1>1, <1>2, <1>4, <1>7, Stays DEF Holds
<1>9. CoreInv'
  BY <1>1, <1>5 DEF ControlInv, CoreInv, Down, lifecycleVars
<1> QED BY <1>6, <1>8, <1>9 DEF ControlInv

-----------------------------------------------------------------------------
LEMMA NextInv == ControlInv /\ [ControlNext]_vars => ControlInv'
<1> SUFFICES ASSUME ControlInv, [ControlNext]_vars PROVE ControlInv'
  OBVIOUS
<1>1. CASE CoreReacts \/ CoreDies
  BY <1>1, CoreInvSteps
<1>2. ASSUME NEW r \in Requests, NEW op \in {"apply", "reapply", "stop"}, Arrives(r, op)
      PROVE ControlInv'
  BY <1>2, ArrivesInv
<1>3. ASSUME NEW r \in Requests, Acquires(r) PROVE ControlInv'
  BY <1>3, AcquiresInv
<1>4. ASSUME NEW r \in Requests, ApplyStep(r) PROVE ControlInv'
  <2>1. SkipsReapply(r) \/ Rejected(r) => call[r].at = "begin" /\ Returns(r)
    BY DEF SkipsReapply, Rejected
  <2> QED BY <1>4, <2>1, ReturnsInv, BeginsSwitchInv, SavesConfigInv, StopsOldCoreInv, SetsModeInv,
             StartsCoreInv, CoreStartsInv, ProbesInv, SetsDesktopInv, FinishesInv,
             SwitchesHealthInv, SelectsInv, Zenon DEF ApplyStep
<1>5. ASSUME NEW r \in Requests, StopStep(r) PROVE ControlInv'
  BY <1>5, StopsServiceInv, StoppedInv, StopsCoreInv, CoreStoppedInv, FailsInv, Zenon DEF StopStep
<1>6. CASE ContextEnds \/ UNCHANGED vars \/ \E w \in watchers : WatcherTicks(w)
  BY <1>6, QuietInv
<1>7. ASSUME NEW w \in watchers, WatcherLocks(w) PROVE ControlInv'
  BY <1>7, WatcherLocksInv
<1> QED BY <1>1, <1>2, <1>3, <1>4, <1>5, <1>6, <1>7 DEF ControlNext

LEMMA ControlInvariant == ControlSpec => []ControlInv
<1> QED BY InitInv, NextInv, PTL DEF ControlSpec

(* Every variable keeps its type: no step of an operation reaches a stage  *)
(* that its code does not have.                                            *)
THEOREM ControlTypeCorrect == ControlSpec => []ControlTypeOK
<1>1. ControlInv => ControlTypeOK
  BY DEF ControlInv
<1> QED BY <1>1, ControlInvariant, PTL

(* A Stop that has answered without an error has left nothing behind.      *)
THEOREM StopAlwaysComplete == ControlSpec => []StopIsComplete
<1>1. ControlInv => StopIsComplete
  BY DEF ControlInv, StageInv, CoreInv, Agreed, Quiet, StopIsComplete
<1> QED BY <1>1, ControlInvariant, PTL

(* A runtime that is not running hides no core, restart or monitor.        *)
THEOREM NothingStaysHidden == ControlSpec => []NoHiddenCore
<1>1. ControlInv => NoHiddenCore
  BY DEF ControlInv, StageInv, CoreInv, Agreed, Quiet, Down, NoHiddenCore
<1> QED BY <1>1, ControlInvariant, PTL

(* A running generation has a watcher that takes its failure seriously.    *)
THEOREM FailuresAlwaysWatched == ControlSpec => []FailureIsWatched
<1>1. ControlInv => FailureIsWatched
  BY DEF ControlInv, StageInv, Agreed, FailureIsWatched
<1> QED BY <1>1, ControlInvariant, PTL

(* While the runtime is up, the desktop is set exactly in system mode.     *)
THEOREM DesktopAlwaysFollows == ControlSpec => []DesktopFollowsMode
<1>1. ControlInv => DesktopFollowsMode
  BY DEF ControlInv, StageInv, Agreed, DesktopFollowsMode
<1> QED BY <1>1, ControlInvariant, PTL

(* The health monitor probes the pool in use or none, whatever failed.     *)
THEOREM HealthFollowsTarget == ControlSpec => []HealthNeverStrays
<1>1. ControlInv => HealthNeverStrays
  BY DEF ControlInv, StageInv, HealthAgreed, HealthNeverStrays
<1> QED BY <1>1, ControlInvariant, PTL
=============================================================================
