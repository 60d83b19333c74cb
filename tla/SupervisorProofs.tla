-------------------------- MODULE SupervisorProofs --------------------------
(***************************************************************************)
(* The safety of Supervisor, for any number of callers, any restart budget *)
(* and any number of starts.  The properties TLC checks are not inductive  *)
(* by themselves: that nothing restarts a stopped core rests on how the    *)
(* done channel, the stop flag, the goroutines of wait() and the backoff   *)
(* goroutines agree with the state, which Inv states.                      *)
(***************************************************************************)
EXTENDS Supervisor, FiniteSetTheorems, TLAPS

(* The done channel is open exactly while a generation is busy.            *)
ChannelInv ==
  /\ state \in Busy => generation > 0
  /\ done = IF state \in Busy THEN generation ELSE None
  /\ state = "stopping" => stopWanted
  /\ state \in {"starting", "running"} => ~stopWanted

(* A process is held, and reaped by one goroutine, exactly in these states. *)
ProcessInv ==
  /\ command # None <=> state \in {"running", "stopping"}
  /\ command <= attempts
  /\ alive \subseteq {command} \ {None}
  /\ waiters = IF command = None THEN {}
               ELSE {[gen |-> generation, pid |-> command]}

(* Only a starting core has a backoff goroutine of its own generation.     *)
TimerInv ==
  /\ \A t \in timers : t.gen > 0 /\ t.gen <= generation
  /\ state \in {"running", "stopping"} => \A t \in timers : t.gen # generation
  /\ state = "starting" =>
       \E t \in timers :
         t.gen = generation /\ \A u \in timers : u.gen = generation => u = t

Inv == TypeOK /\ ChannelInv /\ ProcessInv /\ TimerInv

LEMMA InitInv == Init => Inv
<1> SUFFICES ASSUME Init PROVE Inv
  OBVIOUS
<1>1. Idle \in Calls
  BY DEF Idle, Calls, None
<1>2. call \in [Callers -> Calls]
  BY <1>1 DEF Init
<1>3. restarts \in 0..MaxRestarts
  BY SupervisorAssumption DEF Init
<1>4. TypeOK
  BY <1>2, <1>3 DEF Init, TypeOK, States, None
<1>5. ChannelInv /\ ProcessInv /\ TimerInv
  BY DEF Init, ChannelInv, ProcessInv, TimerInv, Busy, None
<1> QED
  BY <1>4, <1>5 DEF Inv

-----------------------------------------------------------------------------
(* Schedule, called by the owner of the lock for the generation that is    *)
(* current, once no process and no other backoff goroutine is left of it.  *)
LEMMA ScheduleInv ==
  ASSUME Inv, NEW spent \in 0..MaxRestarts, NEW pending \in SUBSET timers,
         state \in {"starting", "running"},
         \A t \in pending : t.gen # generation,
         attempts' \in Nat, attempts <= attempts',
         generation' = generation, stopWanted' = stopWanted,
         command' = None, alive' = {}, waiters' = {},
         Schedule(generation, spent, pending)
  PROVE  /\ state' \in States /\ restarts' \in 0..MaxRestarts /\ done' \in Nat
         /\ timers' \subseteq [gen : Nat, id : Nat]
         /\ ChannelInv' /\ ProcessInv' /\ TimerInv'
<1> USE SupervisorAssumption DEF Inv, TypeOK, None, BudgetSpent, Armed, Finish
<1>1. CASE spent >= MaxRestarts
  BY <1>1 DEF Schedule, ChannelInv, ProcessInv, TimerInv, States, Busy
<1>2. CASE ~(spent >= MaxRestarts)
  <2> DEFINE new == [gen |-> generation, id |-> attempts']
  <2>1. /\ state' = "starting" /\ restarts' = spent + 1 /\ done' = done
        /\ timers' = pending \union {new}
    BY <1>2 DEF Schedule
  <2>2. restarts' \in 0..MaxRestarts /\ timers' \subseteq [gen : Nat, id : Nat]
    BY <1>2, <2>1
  <2>3. ChannelInv' /\ ProcessInv'
    BY <2>1 DEF ChannelInv, ProcessInv, Busy
  <2>4. TimerInv'
    <3>1. new \in timers' /\ new.gen = generation'
      BY <2>1
    <3>2. \A u \in timers' : u.gen = generation' => u = new
      BY <2>1
    <3>3. \A t \in timers' : t.gen > 0 /\ t.gen <= generation'
      BY <2>1 DEF TimerInv, ChannelInv, Busy
    <3> QED
      BY <2>1, <3>1, <3>2, <3>3 DEF TimerInv
  <2> QED
    BY <2>1, <2>2, <2>3, <2>4 DEF States
<1> QED
  BY <1>1, <1>2

(* Spawn for the generation that is current after the step.                *)
LEMMA SpawnInv ==
  ASSUME TypeOK, NEW gen \in Nat, gen > 0, alive = {}, waiters = {},
         Spawn(gen), generation' = gen, done' = gen, stopWanted' = FALSE,
         timers' \subseteq [gen : Nat, id : Nat],
         \A t \in timers' : t.gen > 0 /\ t.gen < gen
  PROVE  /\ state' = "running" /\ command' = attempts + 1
         /\ attempts' \in Nat /\ alive' \subseteq Nat
         /\ waiters' \subseteq [gen : Nat, pid : Nat]
         /\ ChannelInv' /\ ProcessInv' /\ TimerInv'
<1> DEFINE pid == attempts + 1
<1>1. pid \in Nat /\ pid > 0
  BY DEF TypeOK
<1>2. /\ attempts' = pid /\ command' = pid /\ state' = "running"
      /\ alive' = {pid} /\ waiters' = {[gen |-> gen, pid |-> pid]}
  BY DEF Spawn
<1>3. ChannelInv'
  BY <1>2 DEF ChannelInv, Busy
<1>4. ProcessInv'
  BY <1>1, <1>2 DEF ProcessInv, None
<1>5. TimerInv'
  BY <1>2 DEF TimerInv
<1> QED
  BY <1>1, <1>2, <1>3, <1>4, <1>5

-----------------------------------------------------------------------------
(* Actions of a caller that only move the caller.                          *)
LEMMA CallerInv ==
  ASSUME Inv, NEW c \in Callers, UNCHANGED <<managed, waiters, timers,
         attempts, stableRuns>>, alive' \subseteq alive,
         NEW at \in {"starting", "stopping", "killing", "idle"},
         call' = [call EXCEPT ![c] = Idle] \/ call' = [call EXCEPT ![c].at = at]
  PROVE  Inv'
<1>1. call' \in [Callers -> Calls]
  BY DEF Inv, TypeOK, Calls, Idle, None
<1>2. TypeOK'
  BY <1>1 DEF Inv, TypeOK, managed
<1>3. ChannelInv' /\ ProcessInv' /\ TimerInv'
  BY DEF Inv, ChannelInv, ProcessInv, TimerInv, managed
<1> QED
  BY <1>2, <1>3 DEF Inv

LEMMA StartInv == ASSUME Inv, NEW c \in Callers, Start(c) PROVE Inv'
<1> DEFINE gen == generation + 1
<1>1. gen \in Nat /\ gen > 0 /\ \A t \in timers : t.gen > 0 /\ t.gen < gen
  BY DEF Inv, TypeOK, TimerInv
<1>2. command = None /\ alive = {} /\ waiters = {}
  BY DEF Start, Inv, TypeOK, ProcessInv, Busy, States
<1>3. /\ generation' = gen /\ stopWanted' = FALSE /\ restarts' = 0
      /\ UNCHANGED <<timers, stableRuns>>
  BY DEF Start
<1>4. restarts' \in 0..MaxRestarts
  BY <1>3, SupervisorAssumption
<1>5. CASE /\ Spawn(gen)
           /\ done' = gen
           /\ call' = [call EXCEPT ![c] =
                         [at |-> "starting", gen |-> gen, pid |-> None]]
  <2>1. call' \in [Callers -> Calls]
    BY <1>1, <1>5 DEF Inv, TypeOK, Calls, None
  <2> HIDE DEF gen
  <2>2. /\ state' = "running" /\ command' = attempts + 1
        /\ attempts' \in Nat /\ alive' \subseteq Nat
        /\ waiters' \subseteq [gen : Nat, pid : Nat]
        /\ ChannelInv' /\ ProcessInv' /\ TimerInv'
    BY <1>1, <1>2, <1>3, <1>5, SpawnInv DEF Inv, TypeOK
  <2>3. timers' \subseteq [gen : Nat, id : Nat] /\ stableRuns' \in Nat
    BY <1>3 DEF Inv, TypeOK
  <2>4. done' \in Nat /\ generation' \in Nat /\ command' \in Nat
    BY <1>1, <1>3, <1>5, <2>2 DEF Inv, TypeOK
  <2>5. TypeOK'
    BY <1>3, <1>4, <2>1, <2>2, <2>3, <2>4 DEF TypeOK, States
  <2> QED
    BY <2>2, <2>5 DEF Inv
<1>6. CASE CannotSpawn /\ state' = "failed" /\ Finish /\ UNCHANGED call
  <2>1. TypeOK'
    <3>1. attempts' \in Nat /\ generation' \in Nat /\ done' \in Nat
      BY <1>1, <1>3, <1>6 DEF Inv, TypeOK, CannotSpawn, Finish, None
    <3>2. UNCHANGED <<command, alive, waiters, timers, stableRuns, call>>
      BY <1>3, <1>6 DEF CannotSpawn
    <3>3. state' \in States /\ stopWanted' \in BOOLEAN
      BY <1>3, <1>6 DEF States
    <3> QED
      BY <1>4, <3>1, <3>2, <3>3 DEF Inv, TypeOK
  <2>2. ChannelInv' /\ TimerInv'
    BY <1>1, <1>3, <1>6 DEF Inv, TypeOK, ChannelInv, TimerInv, Busy, Finish
  <2>3. ProcessInv'
    BY <1>2, <1>6 DEF Inv, TypeOK, ProcessInv, CannotSpawn, None
  <2> QED
    BY <2>1, <2>2, <2>3 DEF Inv
<1> QED
  BY <1>5, <1>6 DEF Start

LEMMA StopInv ==
  ASSUME Inv, NEW c \in Callers, StopCancels(c) \/ StopSignals(c)
  PROVE  Inv'
<1>1. CASE StopCancels(c)
  <2>1. call' \in [Callers -> Calls]
    BY <1>1 DEF StopCancels, Inv, TypeOK, Calls, Idle, None
  <2>2. TypeOK'
    BY <1>1, <2>1 DEF StopCancels, Finish, world, Inv, TypeOK, States, None
  <2>3. ChannelInv' /\ ProcessInv' /\ TimerInv'
    BY <1>1 DEF StopCancels, Finish, world, Inv, TypeOK, ChannelInv, ProcessInv,
                TimerInv, Busy, None
  <2> QED
    BY <2>2, <2>3 DEF Inv
<1>2. CASE StopSignals(c)
  <2>1. [at |-> "stopping", gen |-> done, pid |-> command] \in Calls
    BY DEF Inv, TypeOK, Calls
  <2>2. call' \in [Callers -> Calls]
    BY <1>2, <2>1 DEF StopSignals, Inv, TypeOK
  <2>3. TypeOK'
    BY <1>2, <2>2 DEF StopSignals, world, Inv, TypeOK, States
  <2>4. ChannelInv' /\ ProcessInv' /\ TimerInv'
    BY <1>2 DEF StopSignals, world, Inv, TypeOK, ChannelInv, ProcessInv,
                TimerInv, Busy
  <2> QED
    BY <2>3, <2>4 DEF Inv
<1> QED
  BY <1>1, <1>2

LEMMA ProcessExitsInv ==
  ASSUME Inv, NEW pid \in alive, ProcessExits(pid) PROVE Inv'
  BY DEF ProcessExits, managed, Inv, TypeOK, ChannelInv, ProcessInv, TimerInv

LEMMA WaitReturnsInv ==
  ASSUME Inv, NEW w \in waiters, WaitReturns(w) PROVE Inv'
<1>1. /\ w.gen = generation /\ w.pid = command /\ command # None
      /\ waiters = {w} /\ alive = {} /\ state \in {"running", "stopping"}
  BY DEF WaitReturns, Inv, ProcessInv, TypeOK
<1>2. /\ Reaped(w) /\ waiters' = {} /\ alive' = {} /\ command' = None
      /\ UNCHANGED <<attempts, generation, stopWanted, call>>
  BY <1>1 DEF WaitReturns, Reaped
<1>3. stableRuns' \in Nat
  BY <1>2 DEF Reaped, Inv, TypeOK
<1>4. CASE stopWanted
  <2>1. state' = "stopped" /\ done' = None /\ UNCHANGED <<restarts, timers>>
    BY <1>2, <1>4 DEF Reaped, Finish
  <2>2. TypeOK'
    BY <1>2, <1>3, <2>1 DEF Inv, TypeOK, States, None
  <2>3. ChannelInv' /\ ProcessInv' /\ TimerInv'
    BY <1>2, <2>1 DEF Inv, TypeOK, ChannelInv, ProcessInv, TimerInv, Busy, None
  <2> QED
    BY <2>2, <2>3 DEF Inv
<1>5. CASE ~stopWanted
  <2>1. state = "running" /\ \A t \in timers : t.gen # generation
    BY <1>1, <1>5 DEF Inv, ChannelInv, TimerInv
  <2>2. PICK spent \in 0..MaxRestarts : Schedule(generation, spent, timers)
    BY <1>1, <1>2, <1>5, SupervisorAssumption DEF Reaped, Inv, TypeOK
  <2>3. /\ state' \in States /\ restarts' \in 0..MaxRestarts /\ done' \in Nat
        /\ timers' \subseteq [gen : Nat, id : Nat]
        /\ ChannelInv' /\ ProcessInv' /\ TimerInv'
    <3>1. attempts' \in Nat /\ attempts <= attempts'
      BY <1>2 DEF Inv, TypeOK
    <3> QED
      BY <1>2, <2>1, <2>2, <3>1, ScheduleInv
  <2>4. TypeOK'
    BY <1>2, <1>3, <2>3 DEF Inv, TypeOK, None
  <2> QED
    BY <2>3, <2>4 DEF Inv
<1> QED
  BY <1>4, <1>5

(* A backoff goroutine that may act is the one of a starting core.         *)
LEMMA FreshTimer ==
  ASSUME Inv, NEW t \in timers, ~Stale(t)
  PROVE  /\ state = "starting" /\ t.gen = generation /\ done = generation
         /\ generation > 0 /\ command = None /\ alive = {} /\ waiters = {}
         /\ \A u \in timers \ {t} : u.gen # generation
<1>1. t.gen = generation /\ done = generation /\ generation > 0
  BY DEF Stale, Inv, TypeOK, TimerInv
<1>2. state = "starting"
  BY <1>1 DEF Inv, TypeOK, ChannelInv, TimerInv, Busy, None
<1>3. command = None /\ alive = {} /\ waiters = {}
  BY <1>2 DEF Inv, ProcessInv
<1>4. \A u \in timers \ {t} : u.gen # generation
  BY <1>1, <1>2 DEF Inv, TimerInv
<1> QED
  BY <1>1, <1>2, <1>3, <1>4

(* A goroutine that only exits: it was cancelled, or it is stale.          *)
LEMMA TimerGoneInv ==
  ASSUME Inv, NEW t \in timers, Stale(t), timers' = timers \ {t},
         UNCHANGED <<managed, alive, waiters, attempts, stableRuns, call>>
  PROVE  Inv'
<1>1. TypeOK'
  BY DEF Inv, TypeOK, managed
<1>2. ChannelInv' /\ ProcessInv'
  BY DEF Inv, ChannelInv, ProcessInv, managed
<1>3. state = "starting" => t.gen # generation
  BY DEF Stale, Inv, ChannelInv, Busy
<1>4. TimerInv'
  BY <1>3 DEF Inv, TimerInv, managed
<1> QED
  BY <1>1, <1>2, <1>4 DEF Inv

LEMMA TimerFiresInv ==
  ASSUME Inv, NEW t \in timers, TimerFires(t) PROVE Inv'
<1>1. UNCHANGED <<generation, stopWanted, stableRuns, call>>
  BY DEF TimerFires
<1>2. CASE Stale(t)
  BY <1>1, <1>2, TimerGoneInv DEF TimerFires, managed
<1>3. CASE ~Stale(t)
  <2>1. /\ state = "starting" /\ t.gen = generation /\ done = generation
        /\ generation > 0 /\ command = None /\ alive = {} /\ waiters = {}
        /\ \A u \in timers \ {t} : u.gen # generation
    BY <1>3, FreshTimer
  <2>2. ~stopWanted
    BY <1>3 DEF Stale
  <2>3. CASE /\ Spawn(generation)
             /\ timers' = timers \ {t}
             /\ UNCHANGED <<restarts, done>>
    <3>1. \A u \in timers' : u.gen > 0 /\ u.gen < generation
      BY <2>1, <2>3 DEF Inv, TypeOK, TimerInv
    <3>2. timers' \subseteq [gen : Nat, id : Nat]
      BY <2>3 DEF Inv, TypeOK
    <3>3. /\ TypeOK /\ generation \in Nat /\ stopWanted' = FALSE
          /\ generation' = generation /\ done' = generation
      BY <1>1, <2>1, <2>2, <2>3 DEF Inv, TypeOK
    <3>4. /\ state' = "running" /\ command' = attempts + 1
          /\ attempts' \in Nat /\ alive' \subseteq Nat
          /\ waiters' \subseteq [gen : Nat, pid : Nat]
          /\ ChannelInv' /\ ProcessInv' /\ TimerInv'
      BY <2>1, <2>3, <3>1, <3>2, <3>3, SpawnInv
    <3>5. command' \in Nat /\ restarts' \in 0..MaxRestarts /\ done' \in Nat
      BY <2>3, <3>4 DEF Inv, TypeOK
    <3>6. TypeOK'
      BY <1>1, <3>2, <3>4, <3>5 DEF Inv, TypeOK, States
    <3> QED
      BY <3>4, <3>6 DEF Inv
  <2>4. CASE CannotSpawn /\ Schedule(generation, restarts, timers \ {t})
    <3>1. /\ attempts' \in Nat /\ attempts <= attempts'
          /\ command' = None /\ alive' = {} /\ waiters' = {}
      BY <2>1, <2>4 DEF CannotSpawn, Inv, TypeOK
    <3>2. restarts \in 0..MaxRestarts
      BY DEF Inv, TypeOK
    <3> DEFINE pending == timers \ {t}
    <3>3. pending \in SUBSET timers /\ \A u \in pending : u.gen # generation
      BY <2>1
    <3>4. Schedule(generation, restarts, pending)
      BY <2>4
    <3> HIDE DEF pending
    <3>5. /\ state' \in States /\ restarts' \in 0..MaxRestarts /\ done' \in Nat
          /\ timers' \subseteq [gen : Nat, id : Nat]
          /\ ChannelInv' /\ ProcessInv' /\ TimerInv'
      BY <1>1, <2>1, <3>1, <3>2, <3>3, <3>4, ScheduleInv
    <3>6. TypeOK'
      BY <1>1, <3>1, <3>5 DEF Inv, TypeOK, None
    <3> QED
      BY <3>5, <3>6 DEF Inv
  <2> QED
    BY <1>3, <2>1, <2>3, <2>4 DEF TimerFires
<1> QED
  BY <1>2, <1>3

LEMMA NextInv == Inv /\ [Next]_vars => Inv'
<1> SUFFICES ASSUME Inv, [Next]_vars PROVE Inv'
  OBVIOUS
<1>1. CASE UNCHANGED vars
  <2>1. TypeOK'
    BY <1>1 DEF vars, managed, world, Inv, TypeOK
  <2>2. ChannelInv' /\ ProcessInv' /\ TimerInv'
    BY <1>1 DEF vars, managed, world, Inv, ChannelInv, ProcessInv, TimerInv
  <2> QED
    BY <2>1, <2>2 DEF Inv
<1>2. ASSUME NEW c \in Callers, Start(c) PROVE Inv'
  BY <1>2, StartInv
<1>3. ASSUME NEW c \in Callers,
             StartReturns(c) \/ SignalRefused(c) \/ StopReturns(c)
               \/ StopKills(c) \/ KillGivesUp(c)
      PROVE  Inv'
  <2>1. UNCHANGED <<managed, waiters, timers, attempts, stableRuns>>
    BY <1>3 DEF StartReturns, SignalRefused, StopReturns, StopKills,
                KillGivesUp, world
  <2>2. alive' \subseteq alive
    BY <1>3 DEF StartReturns, SignalRefused, StopReturns, StopKills,
                KillGivesUp, world
  <2>3. \/ call' = [call EXCEPT ![c] = Idle]
        \/ call' = [call EXCEPT ![c].at = "killing"]
    BY <1>3 DEF StartReturns, SignalRefused, StopReturns, StopKills, KillGivesUp
  <2> QED
    BY <2>1, <2>2, <2>3, CallerInv
<1>4. ASSUME NEW c \in Callers, StopCancels(c) \/ StopSignals(c) PROVE Inv'
  BY <1>4, StopInv
<1>5. ASSUME NEW pid \in alive, ProcessExits(pid) PROVE Inv'
  BY <1>5, ProcessExitsInv
<1>6. ASSUME NEW w \in waiters, WaitReturns(w) PROVE Inv'
  BY <1>6, WaitReturnsInv
<1>7. ASSUME NEW t \in timers, TimerCancelled(t) PROVE Inv'
  BY <1>7, TimerGoneInv DEF TimerCancelled, Stale
<1>8. ASSUME NEW t \in timers, TimerFires(t) PROVE Inv'
  BY <1>8, TimerFiresInv
<1> QED
  BY <1>1, <1>2, <1>3, <1>4, <1>5, <1>6, <1>7, <1>8 DEF Next, Call

(* The inductive invariant.                                                *)
THEOREM Invariant == Spec => []Inv
  BY InitInv, NextInv, PTL DEF Spec

-----------------------------------------------------------------------------
(* The fields of Manager always have their types; in particular no more    *)
(* restarts are granted than the policy allows.                            *)
THEOREM TypeCorrect == Spec => []TypeOK
  BY Invariant, PTL DEF Inv

(* No interleaving of callers, exits and backoff goroutines ever makes a   *)
(* second sing-box process, or one the manager does not hold.              *)
THEOREM NeverTwoCores == Spec => []SingleCore
<1>1. Inv => SingleCore
  BY DEF Inv, ChannelInv, ProcessInv, SingleCore, Busy, None
<1> QED
  BY <1>1, Invariant, PTL

(* A stopped or failed manager has no process, no waiting goroutine and no *)
(* backoff goroutine that could still act.                                 *)
THEOREM StoppedMeansQuiet == Spec => []Quiescent
<1>1. Inv => Quiescent
  BY DEF Inv, TypeOK, ChannelInv, ProcessInv, TimerInv, Quiescent, Stale,
         Busy, None
<1> QED
  BY <1>1, Invariant, PTL

(* Exactly the starting state has a goroutine that will restart the core,  *)
(* and it has exactly one.                                                 *)
THEOREM OneRestartArmed == Spec => []RestartArmed
<1>1. Inv => RestartArmed
  <2> SUFFICES ASSUME Inv PROVE RestartArmed
    OBVIOUS
  <2> DEFINE armed == {t \in timers : ~Stale(t)}
  <2>1. CASE state = "starting"
    <3>1. PICK t \in timers :
            t.gen = generation /\ \A u \in timers : u.gen = generation => u = t
      BY <2>1 DEF Inv, TimerInv
    <3>2. ~Stale(t)
      BY <2>1, <3>1 DEF Stale, Inv, ChannelInv, Busy
    <3>3. \A u \in timers : ~Stale(u) => u = t
      BY <3>1 DEF Stale
    <3>4. armed = {t}
      BY <3>2, <3>3
    <3>5. Cardinality({t}) = 1
      BY FS_Singleton
    <3> QED
      BY <2>1, <3>4, <3>5 DEF RestartArmed
  <2>2. CASE state # "starting"
    <3>1. armed = {}
      BY <2>2, FreshTimer
    <3>2. Cardinality({}) = 0
      BY FS_EmptySet
    <3> QED
      BY <2>2, <3>1, <3>2 DEF RestartArmed
  <2> QED
    BY <2>1, <2>2
<1> QED
  BY <1>1, Invariant, PTL

(* After Stop has set the stop flag, only an accepted Start executes the   *)
(* binary again: the backoff goroutine Stop raced with cannot, in whatever *)
(* order the two take the lock.                                            *)
THEOREM StopIsFinal == Spec => OnlyStartRevives
<1>1. Inv /\ [Next]_vars => [attempts' # attempts => ~stopWanted']_vars
  <2> SUFFICES ASSUME Inv, Next, attempts' # attempts PROVE ~stopWanted'
    OBVIOUS
  <2>1. ASSUME NEW c \in Callers, Call(c) PROVE ~stopWanted'
    BY <2>1 DEF Call, Start, StartReturns, StopCancels, StopSignals,
                SignalRefused, StopReturns, StopKills, KillGivesUp, world
  <2>2. ASSUME NEW t \in timers, TimerFires(t) PROVE ~stopWanted'
    BY <2>2 DEF TimerFires, Stale
  <2>3. \A pid \in alive : ~ProcessExits(pid)
    BY DEF ProcessExits
  <2>4. \A w \in waiters : ~WaitReturns(w)
    BY DEF WaitReturns
  <2>5. \A t \in timers : ~TimerCancelled(t)
    BY DEF TimerCancelled
  <2> QED
    BY <2>1, <2>2, <2>3, <2>4, <2>5 DEF Next
<1> QED
  BY <1>1, Invariant, PTL DEF Spec, OnlyStartRevives

-----------------------------------------------------------------------------
(* Schedule is the grant of a restart, or the failure, of the life cycle.  *)
LEMMA ScheduleGrants ==
  ASSUME NEW gen, NEW spent, NEW pending, Schedule(gen, spent, pending)
  PROVE  (spent \in Int /\ MaxRestarts \in Int) => Core!Grant(spent)
  BY DEF Schedule, BudgetSpent, Core!Grant

LEMMA StartLaunches ==
  ASSUME Inv, NEW c \in Callers, Start(c)
  PROVE  \E spawned \in BOOLEAN : Core!Launch(spawned)
<1>1. /\ state \in {"stopped", "failed"} /\ generation < MaxGeneration
      /\ generation' = generation + 1 /\ restarts' = 0
  BY DEF Start, Inv, TypeOK, States, Busy
<1>2. alive = {}
  BY <1>1 DEF Inv, ProcessInv, None
<1>3. CASE Spawn(generation + 1)
  <2>1. state' = "running" /\ alive' # {}
    BY <1>3 DEF Spawn
  <2> QED
    BY <1>1, <2>1 DEF Core!Launch
<1>4. CASE CannotSpawn /\ state' = "failed"
  <2>1. alive' = {}
    BY <1>2, <1>4 DEF CannotSpawn
  <2> QED
    BY <1>1, <1>4, <2>1 DEF Core!Launch
<1> QED
  BY <1>3, <1>4 DEF Start

LEMMA WaitNotices ==
  ASSUME Inv, NEW w \in waiters, WaitReturns(w)
  PROVE  Core!Notice \/ Core!Halted
<1>1. /\ w.gen = generation /\ alive = {} /\ alive' = {}
      /\ state \in {"running", "stopping"}
  BY DEF WaitReturns, Inv, ProcessInv, TypeOK
<1>2. Reaped(w) /\ UNCHANGED generation
  BY <1>1 DEF WaitReturns
<1>3. CASE stopWanted
  <2>1. state = "stopping"
    BY <1>1, <1>3 DEF Inv, ChannelInv
  <2> QED
    BY <1>1, <1>2, <1>3, <2>1 DEF Reaped, Core!Halted
<1>4. CASE ~stopWanted
  <2>1. state = "running"
    BY <1>1, <1>4 DEF Inv, ChannelInv
  <2>2. PICK spent \in {0, restarts} : Schedule(w.gen, spent, timers)
    BY <1>2, <1>4 DEF Reaped
  <2>3. spent \in Int /\ MaxRestarts \in Int
    BY <2>2, SupervisorAssumption DEF Inv, TypeOK
  <2>4. Core!Grant(spent)
    BY <2>2, <2>3, ScheduleGrants
  <2> QED
    BY <1>1, <1>2, <2>1, <2>4 DEF Core!Notice
<1> QED
  BY <1>3, <1>4

LEMMA TimerRestarts ==
  ASSUME Inv, NEW t \in timers, TimerFires(t)
  PROVE  Core!Respawn \/ Core!RespawnFails \/ UNCHANGED Core!lifecycleVars
<1>1. CASE Stale(t)
  BY <1>1 DEF TimerFires, Core!lifecycleVars
<1>2. CASE ~Stale(t)
  <2>1. state = "starting" /\ alive = {}
    BY <1>2, FreshTimer
  <2>2. CASE Spawn(t.gen) /\ UNCHANGED restarts
    <3>1. state' = "running" /\ alive' # {}
      BY <2>2 DEF Spawn
    <3> QED
      BY <2>1, <2>2, <3>1 DEF TimerFires, Core!Respawn
  <2>3. CASE CannotSpawn /\ Schedule(t.gen, restarts, timers \ {t})
    <3>1. Core!Grant(restarts)
      BY <2>3, ScheduleGrants, SupervisorAssumption DEF Inv, TypeOK
    <3> QED
      BY <2>1, <2>3, <3>1 DEF TimerFires, CannotSpawn, Core!RespawnFails
  <2> QED
    BY <1>2, <2>2, <2>3 DEF TimerFires
<1> QED
  BY <1>1, <1>2

LEMMA StepRefines ==
  Inv /\ [Next]_vars => [Core!LifecycleNext]_Core!lifecycleVars
<1> SUFFICES ASSUME Inv, [Next]_vars
             PROVE  Core!LifecycleNext \/ UNCHANGED Core!lifecycleVars
  OBVIOUS
<1> USE DEF Core!LifecycleNext
<1>1. CASE UNCHANGED vars
  BY <1>1 DEF vars, managed, world, Core!lifecycleVars
<1>2. ASSUME NEW c \in Callers, Start(c) PROVE Core!LifecycleNext
  BY <1>2, StartLaunches
<1>3. ASSUME NEW c \in Callers,
             StartReturns(c) \/ SignalRefused(c) \/ StopReturns(c)
               \/ KillGivesUp(c)
      PROVE  UNCHANGED Core!lifecycleVars
  BY <1>3 DEF StartReturns, SignalRefused, StopReturns, KillGivesUp,
              managed, world, Core!lifecycleVars
<1>4. ASSUME NEW c \in Callers, StopCancels(c) PROVE Core!LifecycleNext
  BY <1>4 DEF StopCancels, world, Inv, TypeOK, ProcessInv, States, Core!Cancel
<1>5. ASSUME NEW c \in Callers, StopSignals(c)
      PROVE  Core!LifecycleNext \/ UNCHANGED Core!lifecycleVars
  <2>1. state \in {"running", "stopping"} /\ state' = "stopping"
    BY <1>5 DEF StopSignals, Inv, ProcessInv
  <2>2. UNCHANGED <<generation, restarts, alive>>
    BY <1>5 DEF StopSignals, world
  <2> QED
    BY <2>1, <2>2 DEF Core!Halt, Core!lifecycleVars
<1>6. ASSUME NEW gone, alive' = alive \ {gone}, UNCHANGED managed
      PROVE  Core!LifecycleNext \/ UNCHANGED Core!lifecycleVars
  <2>1. CASE alive' = alive
    BY <1>6, <2>1 DEF managed, Core!lifecycleVars
  <2>2. CASE alive' # alive
    <3>1. alive # {} /\ alive' = {}
      BY <1>6, <2>2 DEF Inv, ProcessInv
    <3> QED
      BY <1>6, <3>1 DEF managed, Core!Exit
  <2> QED
    BY <2>1, <2>2
<1>7. ASSUME NEW c \in Callers, StopKills(c)
      PROVE  Core!LifecycleNext \/ UNCHANGED Core!lifecycleVars
  BY <1>6, <1>7 DEF StopKills
<1>8. ASSUME NEW pid \in alive, ProcessExits(pid)
      PROVE  Core!LifecycleNext \/ UNCHANGED Core!lifecycleVars
  BY <1>6, <1>8 DEF ProcessExits
<1>9. ASSUME NEW w \in waiters, WaitReturns(w) PROVE Core!LifecycleNext
  BY <1>9, WaitNotices
<1>10. ASSUME NEW t \in timers, TimerCancelled(t)
       PROVE  UNCHANGED Core!lifecycleVars
  BY <1>10 DEF TimerCancelled, managed, Core!lifecycleVars
<1>11. ASSUME NEW t \in timers, TimerFires(t)
       PROVE  Core!LifecycleNext \/ UNCHANGED Core!lifecycleVars
  BY <1>11, TimerRestarts
<1> HIDE DEF Core!LifecycleNext
<1> QED
  BY <1>1, <1>2, <1>3, <1>4, <1>5, <1>7, <1>8, <1>9, <1>10, <1>11
     DEF Next, Call

(* The manager, with all its goroutines, implements CoreLifecycle: what    *)
(* Control assumes of its supervisor is what the supervisor does.          *)
THEOREM ImplementsLifecycle == Spec => Lifecycle
<1>1. Init => Core!LifecycleInit
  BY DEF Init, Core!LifecycleInit
<1> QED
  BY <1>1, StepRefines, Invariant, PTL DEF Spec, Lifecycle, Core!LifecycleSpec
=============================================================================
