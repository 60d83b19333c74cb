--------------------------- MODULE CoreLifecycle ---------------------------
(***************************************************************************)
(* What internal/supervisor promises to its one client, the control        *)
(* service: the life of a single sing-box process, seen through            *)
(* Manager.Snapshot() and through the process table.  The goroutines,      *)
(* channels, timers and callers that keep the promise are in Supervisor,   *)
(* which implements this specification; Control is built on it.            *)
(***************************************************************************)
EXTENDS Naturals

CONSTANTS MaxRestarts,    (* restartPolicy.maxRestarts                      *)
          MaxGeneration   (* bound: how many times Start may be accepted    *)

ASSUME LifecycleAssumption ==
  /\ MaxRestarts \in Nat
  /\ MaxGeneration \in Nat

VARIABLES state,        (* snapshot.State                                   *)
          generation,   (* snapshot.Generation                              *)
          restarts,     (* restartCount: restarts granted since the start   *)
                        (* or since the last stable run                     *)
          live          (* whether a sing-box process exists                *)

lifecycleVars == <<state, generation, restarts, live>>

States == {"stopped", "starting", "running", "stopping", "failed"}

LifecycleInit ==
  /\ state = "stopped"
  /\ generation = 0
  /\ restarts = 0
  /\ live = FALSE

(* An accepted Start: a new generation with a full restart budget, whose   *)
(* process either comes up or cannot be executed.                          *)
Launch(spawned) ==
  /\ state \in {"stopped", "failed"}
  /\ generation < MaxGeneration
  /\ generation' = generation + 1
  /\ restarts' = 0
  /\ state' = IF spawned THEN "running" ELSE "failed"
  /\ live' = spawned

(* The process dies: a crash, or the answer to a signal.                   *)
Exit ==
  /\ live
  /\ live' = FALSE
  /\ UNCHANGED <<state, generation, restarts>>

(* A restart is granted, or the budget is exhausted and the core fails.    *)
Grant(spent) ==
  \/ /\ spent < MaxRestarts
     /\ state' = "starting"
     /\ restarts' = spent + 1
  \/ /\ spent >= MaxRestarts
     /\ state' = "failed"
     /\ restarts' = spent

(* The crash is noticed; after a stable run the budget is whole again.     *)
Notice ==
  /\ state = "running"
  /\ ~live
  /\ \E spent \in {0, restarts} : Grant(spent)
  /\ UNCHANGED <<generation, live>>

(* The backoff is over: the same generation gets a new process.            *)
Respawn ==
  /\ state = "starting"
  /\ state' = "running"
  /\ live' = TRUE
  /\ UNCHANGED <<generation, restarts>>

(* ... or the process cannot be executed, which costs another restart.     *)
RespawnFails ==
  /\ state = "starting"
  /\ Grant(restarts)
  /\ UNCHANGED <<generation, live>>

(* Stop while a process exists, and the moment its exit has been reaped.   *)
Halt ==
  /\ state = "running"
  /\ state' = "stopping"
  /\ UNCHANGED <<generation, restarts, live>>

Halted ==
  /\ state = "stopping"
  /\ ~live
  /\ state' = "stopped"
  /\ UNCHANGED <<generation, restarts, live>>

(* Stop while no process exists: a pending restart is cancelled.           *)
Cancel ==
  /\ state \in {"starting", "failed"}
  /\ state' = "stopped"
  /\ UNCHANGED <<generation, restarts, live>>

LifecycleNext ==
  \/ \E spawned \in BOOLEAN : Launch(spawned)
  \/ Exit \/ Notice \/ Respawn \/ RespawnFails
  \/ Halt \/ Halted \/ Cancel

LifecycleSpec == LifecycleInit /\ [][LifecycleNext]_lifecycleVars
=============================================================================
