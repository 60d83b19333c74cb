----------------------------- MODULE Supervisor -----------------------------
(***************************************************************************)
(* internal/supervisor/manager_linux.go: Manager keeps at most one         *)
(* sing-box process, restarts it after a crash within a budget, and can be *)
(* started and stopped by any goroutine.  Each action is one critical      *)
(* section of Manager.mu, one return of a select, or one event of the      *)
(* operating system; between them the goroutines interleave freely:        *)
(*   - the callers of Start and Stop,                                      *)
(*   - one goroutine per process in wait(), blocked in command.Wait,       *)
(*   - one goroutine per granted restart, asleep in its backoff timer.     *)
(*                                                                         *)
(* Time is left out: a timer may fire at any moment, a context may expire  *)
(* at any moment.  A process is named by the attempt that spawned it, a    *)
(* done channel by the generation whose Start made it, so channel g is     *)
(* closed exactly when g was made and done # g.                            *)
(***************************************************************************)
EXTENDS Naturals, FiniteSets

CONSTANTS Callers,         (* goroutines that call Start and Stop           *)
          MaxRestarts,     (* restartPolicy.maxRestarts                     *)
          MaxGeneration,   (* bound: accepted calls of Start                *)
          MaxStable        (* bound: runs that outlive the stable window    *)

ASSUME SupervisorAssumption ==
  /\ MaxRestarts \in Nat
  /\ MaxGeneration \in Nat
  /\ MaxStable \in Nat

VARIABLES state,        (* m.snapshot.State                                 *)
          generation,   (* m.snapshot.Generation                            *)
          restarts,     (* m.restartCount                                   *)
          stopWanted,   (* m.stopWanted                                     *)
          command,      (* m.command: the process it runs, or None          *)
          done,         (* m.done: the open channel, or None for nil        *)
          alive,        (* the processes the operating system runs          *)
          waiters,      (* goroutines in wait()                             *)
          timers,       (* goroutines of scheduleRestartLocked              *)
          call,         (* what each caller is blocked in                   *)
          attempts,     (* how many times a process was executed            *)
          stableRuns    (* how many runs outlived the stable window         *)

managed == <<state, generation, restarts, stopWanted, command, done>>
world == <<alive, waiters, timers, attempts, stableRuns>>
vars == <<managed, world, call>>

None == 0
States == {"stopped", "starting", "running", "stopping", "failed"}
Busy == {"running", "starting", "stopping"}
Idle == [at |-> "idle", gen |-> None, pid |-> None]
Calls == [at : {"idle", "starting", "stopping", "killing"}, gen : Nat, pid : Nat]

TypeOK ==
  /\ state \in States
  /\ generation \in Nat
  /\ restarts \in 0..MaxRestarts
  /\ stopWanted \in BOOLEAN
  /\ command \in Nat
  /\ done \in Nat
  /\ alive \subseteq Nat
  /\ waiters \subseteq [gen : Nat, pid : Nat]
  /\ timers \subseteq [gen : Nat, id : Nat]
  /\ call \in [Callers -> Calls]
  /\ attempts \in Nat
  /\ stableRuns \in Nat

Init ==
  /\ state = "stopped"
  /\ generation = 0
  /\ restarts = 0
  /\ stopWanted = FALSE
  /\ command = None
  /\ done = None
  /\ alive = {}
  /\ waiters = {}
  /\ timers = {}
  /\ call = [c \in Callers |-> Idle]
  /\ attempts = 0
  /\ stableRuns = 0

-----------------------------------------------------------------------------
(* startProcessLocked, when the operating system executes the binary and   *)
(* when it does not.                                                       *)
Spawn(gen) ==
  LET pid == attempts + 1 IN
  /\ attempts' = pid
  /\ command' = pid
  /\ state' = "running"
  /\ alive' = alive \union {pid}
  /\ waiters' = waiters \union {[gen |-> gen, pid |-> pid]}

CannotSpawn ==
  /\ attempts' = attempts + 1
  /\ UNCHANGED <<command, alive, waiters>>

(* Mutant: the done channel stays open, and whoever waits on it waits on.  *)
LeaveOpen == done' = done

(* finishLocked: close the channel.                                        *)
Finish == done' = None

(* Mutant: the budget check lets one restart too many through.             *)
OneTooMany(spent) == spent > MaxRestarts

BudgetSpent(spent) == spent >= MaxRestarts

(* Mutant: the restart is counted, but nobody is sent to do it.            *)
NotArmed(gen, pending) == pending

Armed(gen, pending) == pending \union {[gen |-> gen, id |-> attempts']}

(* scheduleRestartLocked: fail for good, or start a backoff goroutine.     *)
Schedule(gen, spent, pending) ==
  IF BudgetSpent(spent)
  THEN /\ state' = "failed"
       /\ Finish
       /\ restarts' = spent
       /\ timers' = pending
  ELSE /\ state' = "starting"
       /\ restarts' = spent + 1
       /\ timers' = Armed(gen, pending)
       /\ UNCHANGED done

-----------------------------------------------------------------------------
(* Start: accepted unless the manager is busy (ErrAlreadyRunning changes   *)
(* nothing).  The caller then waits for the grace period or for done.      *)
Start(c) ==
  /\ call[c].at = "idle"
  /\ state \notin Busy
  /\ generation < MaxGeneration
  /\ generation' = generation + 1
  /\ stopWanted' = FALSE
  /\ restarts' = 0
  /\ \/ /\ Spawn(generation + 1)
        /\ done' = generation + 1
        /\ call' = [call EXCEPT ![c] =
                      [at |-> "starting", gen |-> generation + 1, pid |-> None]]
     \/ /\ CannotSpawn
        /\ state' = "failed"
        /\ Finish
        /\ UNCHANGED call
  /\ UNCHANGED <<timers, stableRuns>>

(* The select of Start: done was closed, or the core has been running for  *)
(* startupGrace.                                                           *)
StartReturns(c) ==
  /\ call[c].at = "starting"
  /\ done # call[c].gen \/ state = "running"
  /\ call' = [call EXCEPT ![c] = Idle]
  /\ UNCHANGED <<managed, world>>

(* Stop when no process exists: a pending restart is cancelled.  A Start   *)
(* whose context expires also calls Stop.                                  *)
StopCancels(c) ==
  /\ call[c].at \in {"idle", "starting"}
  /\ state # "stopped"
  /\ command = None
  /\ stopWanted' = TRUE
  /\ state' = "stopped"
  /\ Finish
  /\ call' = [call EXCEPT ![c] = Idle]
  /\ UNCHANGED <<generation, restarts, command, world>>

(* Stop when a process exists: SIGTERM is sent and the caller waits on the *)
(* done channel it read under the lock.                                    *)
StopSignals(c) ==
  /\ call[c].at \in {"idle", "starting"}
  /\ state # "stopped"
  /\ command # None
  /\ stopWanted' = TRUE
  /\ state' = "stopping"
  /\ call' = [call EXCEPT ![c] =
                [at |-> "stopping", gen |-> done, pid |-> command]]
  /\ UNCHANGED <<generation, restarts, command, done, world>>

(* kill(2) refused the signal: Stop returns and the state stays stopping.  *)
SignalRefused(c) ==
  /\ call[c].at = "stopping"
  /\ call' = [call EXCEPT ![c] = Idle]
  /\ UNCHANGED <<managed, world>>

StopReturns(c) ==
  /\ call[c].at \in {"stopping", "killing"}
  /\ done # call[c].gen
  /\ call' = [call EXCEPT ![c] = Idle]
  /\ UNCHANGED <<managed, world>>

(* Mutant: the deadline of Stop passes and nobody sends SIGKILL.           *)
StopNeverKills(c) ==
  /\ call[c].at = "stopping"
  /\ call' = [call EXCEPT ![c].at = "killing"]
  /\ UNCHANGED <<managed, world>>

(* The deadline of Stop passes: the process group gets SIGKILL.            *)
StopKills(c) ==
  /\ call[c].at = "stopping"
  /\ alive' = alive \ {call[c].pid}
  /\ call' = [call EXCEPT ![c].at = "killing"]
  /\ UNCHANGED <<managed, waiters, timers, attempts, stableRuns>>

(* Two more seconds pass: Stop gives up.                                   *)
KillGivesUp(c) ==
  /\ call[c].at = "killing"
  /\ call' = [call EXCEPT ![c] = Idle]
  /\ UNCHANGED <<managed, world>>

-----------------------------------------------------------------------------
ProcessExits(pid) ==
  /\ pid \in alive
  /\ alive' = alive \ {pid}
  /\ UNCHANGED <<managed, waiters, timers, attempts, stableRuns, call>>

(* Mutant: wait() treats an exit after Stop as a crash.                    *)
ReapedIgnoresStop(w) ==
  /\ command' = None
  /\ Schedule(w.gen, restarts, timers)
  /\ UNCHANGED stableRuns

(* wait() holding the lock for the current generation.  Whether the run    *)
(* outlived the stable window is up to the clock.                          *)
Reaped(w) ==
  /\ command' = None
  /\ \/ /\ stopWanted
        /\ state' = "stopped"
        /\ Finish
        /\ UNCHANGED <<restarts, timers, stableRuns>>
     \/ /\ ~stopWanted
        /\ Schedule(w.gen, restarts, timers)
        /\ UNCHANGED stableRuns
     \/ /\ ~stopWanted
        /\ stableRuns < MaxStable
        /\ stableRuns' = stableRuns + 1
        /\ Schedule(w.gen, 0, timers)

(* command.Wait returns; the goroutine of an older generation only exits.  *)
WaitReturns(w) ==
  /\ w \in waiters
  /\ w.pid \notin alive
  /\ waiters' = waiters \ {w}
  /\ UNCHANGED <<alive, attempts, generation, stopWanted, call>>
  /\ IF w.gen # generation
     THEN UNCHANGED <<state, restarts, command, done, timers, stableRuns>>
     ELSE Reaped(w)

-----------------------------------------------------------------------------
(* Mutant: the timer only asks whether its generation is still current.    *)
StaleByGeneration(t) == t.gen # generation

(* What a backoff goroutine asks under the lock before it restarts.        *)
Stale(t) == t.gen # generation \/ stopWanted \/ done # t.gen

(* Its select on the done channel it captured.                             *)
TimerCancelled(t) ==
  /\ t \in timers
  /\ done # t.gen
  /\ timers' = timers \ {t}
  /\ UNCHANGED <<managed, alive, waiters, attempts, stableRuns, call>>

(* Its timer fires: a stale goroutine exits, the current one restarts the  *)
(* core or, if that fails, schedules the next attempt.                     *)
TimerFires(t) ==
  /\ t \in timers
  /\ UNCHANGED <<generation, stopWanted, stableRuns, call>>
  /\ \/ /\ Stale(t)
        /\ timers' = timers \ {t}
        /\ UNCHANGED <<state, restarts, command, done, alive, waiters, attempts>>
     \/ /\ ~Stale(t)
        /\ Spawn(t.gen)
        /\ timers' = timers \ {t}
        /\ UNCHANGED <<restarts, done>>
     \/ /\ ~Stale(t)
        /\ CannotSpawn
        /\ Schedule(t.gen, restarts, timers \ {t})

-----------------------------------------------------------------------------
Call(c) ==
  \/ Start(c) \/ StartReturns(c)
  \/ StopCancels(c) \/ StopSignals(c) \/ SignalRefused(c)
  \/ StopReturns(c) \/ StopKills(c) \/ KillGivesUp(c)

Next ==
  \/ \E c \in Callers : Call(c)
  \/ \E pid \in alive : ProcessExits(pid)
  \/ \E w \in waiters : WaitReturns(w)
  \/ \E t \in timers : TimerCancelled(t) \/ TimerFires(t)

Spec == Init /\ [][Next]_vars

(***************************************************************************)
(* What the Go scheduler, the kernel and the clock owe the goroutines: a   *)
(* Wait on a dead process returns, a timer fires, a context with a         *)
(* deadline expires, a select with a ready case proceeds.  A process never *)
(* has to exit, and nobody has to call Start or Stop.                      *)
(***************************************************************************)
Fairness ==
  /\ WF_vars(\E w \in waiters : WaitReturns(w))
  /\ WF_vars(\E t \in timers : TimerFires(t))
  /\ \A c \in Callers :
       /\ WF_vars(StartReturns(c))
       /\ WF_vars(StopReturns(c) \/ StopKills(c) \/ KillGivesUp(c))

FairSpec == Spec /\ Fairness

-----------------------------------------------------------------------------
(* There is never a second sing-box, nor one the manager has lost track    *)
(* of: whatever lives is the process m.command holds, of the generation    *)
(* that is current and whose done channel is open.                         *)
SingleCore ==
  /\ alive \subseteq {command} \ {None}
  /\ alive # {} => state \in {"running", "stopping"} /\ done = generation

(* A stopped or failed manager has nothing left that could act: no         *)
(* process, no goroutine in wait(), no open channel a caller still waits   *)
(* on, and no backoff goroutine that would restart the core.               *)
Quiescent ==
  state \in {"stopped", "failed"} =>
    /\ command = None /\ done = None
    /\ alive = {} /\ waiters = {}
    /\ \A t \in timers : Stale(t)

(* A core that waits for its restart has exactly one goroutine to restart  *)
(* it, and in every other state no goroutine may: losing it would leave    *)
(* the core "starting" forever, a second one would start a second process. *)
RestartArmed ==
  Cardinality({t \in timers : ~Stale(t)}) = IF state = "starting" THEN 1 ELSE 0

(* Once Stop was asked, no process is executed before a new Start: not by  *)
(* the backoff goroutine Stop raced with, nor by one of an old generation. *)
OnlyStartRevives == [][attempts' # attempts => ~stopWanted']_vars

(* The manager implements the life cycle the control service relies on.    *)
Core == INSTANCE CoreLifecycle WITH live <- alive # {}

Lifecycle == Core!LifecycleSpec

(* Every wait ends.  A Start whose context never expires still answers,    *)
(* even over a core that crashes again and again or is stopped by somebody *)
(* else; only a core that refuses to die can keep it, the manager is then  *)
(* "stopping".  "starting" is never a resting place: the restart happens,  *)
(* the budget runs out, or the core is stopped.  A process that had to be  *)
(* killed is reaped and its generation closed, so that every caller that   *)
(* waits on the same channel is let go.                                    *)
EveryWaitEnds ==
  /\ \A c \in Callers :
       call[c].at = "starting" ~> call[c].at # "starting" \/ state = "stopping"
  /\ state = "starting" ~> state # "starting"
  /\ \A c \in Callers, g \in 1..MaxGeneration :
       call[c].at = "killing" /\ call[c].gen = g ~> done # g
=============================================================================
