# Verification of sing-box WebUI

This directory holds TLA+ models of the Go back end in `internal/`, the TLC
configurations that check them and TLAPS proofs about them. The code is the
reference: every definition that stands for code is listed with its lines in
`PROJECT.json` under `map`.

## The system

One Go process serves a Web API and keeps one sing-box child process (the
*core*) running. Requests arrive on as many goroutines as the browser opens;
everything below is shared by them.

| part | state | operations | talks to |
|---|---|---|---|
| `supervisor` | state, generation, restart count, command, done channel, stop flag | Start, Stop, Snapshot; goroutines: `wait` per process, one per backoff timer | operating system |
| `control` | runtime, runtime catalog and controller, controlled-stop generation, operation mutex and cancel function | Apply (full or hot switch), ReapplyRules, Stop, SetAllowLan, Status; one watcher goroutine per generation | all of the parts below |
| `platform/systemproxy` | GNOME settings, snapshot file of the user's own | Available, Apply, Restore | gsettings |
| `poolhealth` | members with status, counters and latency, selected member, idle flag | StartContext, Stop, Snapshot; goroutine `run` | Clash API of the core |
| `connmon` | running flag, cache of links | Start, Stop, Query; a polling goroutine | Clash API |
| `trafficpolicy` | configuration, state, samples, original target | Update, tick each second | control (Status, Apply), saved file |
| `subscription`, `nodepool`, `routing`, `proxychain`, `proxychannel`, `dnsprofile`, `connectivity` | one saved list each, with mutex | create, update, delete, reorder; refresh and its fan-out | each other through sinks; control through reload closures |
| `configstore` | `config.json`, its backup, version = hash | Read, Save | sing-box check |
| `core` | versions on disk, symbolic link, `state.json` | Update, Rollback, bootstrap | GitHub, file system |
| `events` and the SSE handler | history, subscribers with bounded buffers | Publish, Subscribe | browser |
| `api`, `application`, `cmd/webui` | none of their own | handlers with deadlines, wiring, shutdown | control and the managers |
| `latency`, `netresolve`, `netsafety`, `singbox` | none | measurements, resolution, JSON generation | network |

What makes it hard is in a few places. The supervisor's goroutines and callers
interleave around a mutex that they give up while they wait for processes and
timers. Control holds its own mutex for many seconds; meanwhile the core crashes
and comes back, contexts end, and watchers of older generations wake up. The
health monitor decides under a lock and acts on the core after releasing it.
A refresh of a subscription changes three stores one after the other, each with a
mutex and a file of its own, and each of the three can fail. The configuration of the
core is put together from five stores that go on changing. Files, a link and the
settings of the desktop are changed in several steps between which the process can be
killed. `PROJECT.json` lists these places as `hazards`, each with its line and with the
properties that cover it, or a note why none does.

### What makes each part correct

* supervisor: at most one core; Stop is final until the next Start; the restart
  budget is kept; every waiting caller and every pending restart gets its turn.
* control: what the runtime reports, the core, the monitors and the desktop agree
  whenever no operation is in progress; failures are noticed; Stop answers.
* system proxy: the user's settings come back after Stop, failure or crash.
* poolhealth: fail closed, best member in use, no flapping, quarantine in full,
  recovery once the network allows it.
* traffic policy: a manual change of target ends the takeover; the original
  target comes back.
* subscriptions, node pools, rules: exactly one subscription is active; nothing refers
  to what is gone; pools keep the servers the user put in; an imported rule is enabled by
  the user only and stays enabled over refreshes; the core enforces what is enabled.
* chains, channels, DNS profile: a configuration never mixes two states of the stores in a
  way the core would refuse; what was saved and reloaded is in force.
* rule order: only Reorder changes which of two rules comes first.
* files: killed at any point, the program that comes up has a core to execute, a
  matching key pair, a configuration the core accepts, and the user's settings; a loss of
  power may cost what was never synced, and no more.
* connection monitor: the links shown as active are the open ones.
* events: an open page ends up showing what the stores hold, as far as it is told: of some
  changes it is not.

## Modules

```
 CoreLifecycle <--implements-- Supervisor <-- SupervisorProofs
       ^                           ^
    EXTENDS                   MCSupervisor
    Control <-- MCControl, ControlProofs

 PoolHealth     <-- MCPoolHealth,    PoolHealthProofs
 TrafficPolicy  <-- MCTrafficPolicy, TrafficPolicyProofs

 NodePools, RoutingRules <-- Subscriptions <-- Catalog <-- MCCatalog, CatalogProofs

 Routes         <-- RoutesProofs           \
 DataDirectory  <-- DataDirectoryProofs     |
 ConnMonitor                                 >-- MCServices <-- ServicesProofs
 Events                                     |
 RuleOrder                                 /
```

**`CoreLifecycle`** is the abstract specification: one process seen through
`Manager.Snapshot()`. Four variables; nothing about goroutines. An accepted Start
is `Launch`, a crash is `Exit` followed by `Notice`, which grants a restart or
fails for good; Stop is `Halt` ... `Halted`, or `Cancel` when no process exists.

**`Supervisor`** is `internal/supervisor/manager_linux.go` in full. Its variables are
the fields of `Manager` and what is outside it: living processes, the goroutines in
`wait`, the backoff goroutines and what every caller is blocked in. One action is
one critical section of `Manager.mu` or one return of a `select`. Time is left out:
a timer may fire and a deadline may pass at any moment. `Lifecycle` says that it
implements `CoreLifecycle` with `live` being "some process is alive".

**`Control`** EXTENDS `CoreLifecycle` and adds `control/service.go` with
the GNOME controller. A request goes through the stages of its operation
(`call[r].at`); the stages are the points where the code waits for something
outside: the supervisor, probes, gsettings. `holder` is `operationMu`, `ended` the
context of its holder, `watchers` the goroutines of `watchSupervisor`, which first
look at the supervisor without the mutex and again with it. Whether a target is
in the running catalog with an unchanged signature, and whether anything before the
configuration is saved fails, is left open (`Rejected`, and `SavesConfig` instead
of `BeginsSwitch`). `Faults` switches failures of gsettings and lost replies on.

**`PoolHealth`** is `poolhealth/manager.go` with the one selector of the core that
it drives. A round is two steps, as in the code: results and selection under the
lock (`Probed`), then the request to the core (`SelectionTaken`,
`SelectionFails`), between which anything may happen. Time is left out: which
members are due is open. `Choices` are the options the generated configuration
gives the selector. `fresh` and `streak` are history variables.

**`TrafficPolicy`** is `trafficpolicy/manager.go`. The goroutine of `Run` and each Update
is a small state machine that reads the runtime without the lock, decides under it
and waits for `control.Service.Apply` without it; `tick.at` and `update[u].at` say where.
`TickDecides` is the part of `tick` that leaves the runtime alone, with one operator per
return. The runtime is abstract: a target, whether it runs, and traffic above or below
the thresholds. `origin` and `overtaken` are history variables: where the takeover began,
until the user interferes; and whether an Update was let in while another was restoring the
previous pool, until what was going on then has ended.

**`NodePools`**, **`RoutingRules`** and **`Subscriptions`** are the three stores a
subscription reaches. The first two are what `nodepool` and `routing` make of a call by
the subscription manager (`Successor` is the fate of one member in
`ReconcileSubscriptionNodes`, `SyncSubscriptionRules` that of the rules). `Subscriptions`
has the requests: `req[q].at` says which critical section comes next, `lock` is the refresh
lock of each subscription, `subs`/`subFile`, `pools`/`poolFile` and `rules`/`ruleFile`
memory and file. A feed is a set of nodes and of rules, some of them supported; a write may
fail (`Fault`), a provider may not answer (`FetchFails`) or say that nothing is new
(`NotModified`). The order of the subscriptions is left open, so that any may become active
when the active one is deleted. `uncleaned` is a history variable: a fan-out that failed, or
a pool that was created from members that went meanwhile, until the program starts again.

**`Catalog`** composes them with the core: `opMu` is `operationMu`, `plan` the
configuration being put into force, `core` the running one. `Reloads`, `SkipsReload` and
`CannotReload` are the ways `ReapplyRules` ends; `Restart` is the program being killed or
stopped and started again, with the clean-up of `cmd/webui`. `stale` is a history variable: a
reload was skipped while the core was in backoff, or failed, so that nobody promises that the
rules are in force.

**`Routes`** has the stores of proxy chains, proxy channels and the DNS profile, and
`buildRuntimeCatalog` as the sequence of its reads (`ReadsNodes`, `ReadsGroups`,
`ReadsChains`, `ReadsChannels`), between which every store may change. `Acceptable` is what
`BuildSelectableConfig` and the core demand of the result. Each of the reads is one step,
also where the code asks for one pool or one subscription after the other: the checks
that make the parts fit are against the nodes read first. `Signature` stands for
`nodeSignature`, `poolSignature` and `chainSignature`: of a pool all its members and those that
resolve now, whether or not they have been read; a build that finds another one than it began with
is given up. `unloaded` is the `stale` of this module.

**`DataDirectory`** has the files of `core`, `proxychannel`, `configstore` and the GNOME
controller, and the settings of the desktop. One action is one change that is visible on
disk; `Killed` may come between any two. `PowerFails` undoes what no sync has confirmed: the
record and the configuration are synced before they are renamed and may only be earlier ones
(`oldRecords`, `oldConfigs`, and `oldLinks` for the link); versions, certificate and key
are never synced (`unsynced`) and may be torn, empty or gone; the snapshot may be an earlier one,
a torn one or none (`oldSnapshots`). Three history variables name what cannot be promised:
`astray` (the link could not be taken back), `severed` (power took the certificate or the key
since the last complete pair) and `bereft` (power took the snapshot while settings were ours).

**`ConnMonitor`** is `connmon`'s goroutine with the bounded list of links. A poll asks
without the mutex and enters the answer under it, so that `Start`, `Stop` and `Reset` come
in between. `calm` counts polls that saw no change.

**`Events`** is the way from `Publish` to an open page: the subscriber's channel, what the
handler has written, the queries the page has sent, their replies. `Operations` says which
change publishes which event, `Quiet` being none, and `Renews` what the listeners of the page
ask for on each event, possibly nothing; `Polled` are the topics a view asks for by itself,
and `FocusReturns` sends every query again. `missed` and `untold` are history variables: topics
whose last event or reply the page never got, and topics with a change that no event it listens
to will tell of.

**`RuleOrder`** has positions in the lists of rules and rule pools, in memory and on
disk. `mixed` is a history variable: a rejected order has left positions changed in memory.

**`MCServices`** puts the last five side by side. They share no state, and in every
behaviour just one of them moves (`part`).

## Runs

| run | configuration | what it shows | distinct states |
|---|---|---|---|
| `supervisor` | 2 callers, 2 restarts, 3 generations, 1 stable run | invariants, action properties, refinement and liveness of `Supervisor` | 51 thousand |
| `control` | 2 requests, one node and one pool, 2 generations, 1 restart, all faults | invariants of `Control` | 870 thousand |
| `control_live` | the same with 1 generation, fair | a failure is reported, Stop answers | 116 thousand |
| `control_target` | 2 generations, 1 restart, no faults | **violated**: see findings | |
| `pool` | 2 members, 2 URLs, 3 latencies, tolerance 1 | safety of `PoolHealth` | 379 thousand |
| `pool_live` | 2 members, 1 URL, 2 latencies, fair | outages block, recovery | 72 thousand |
| `pool_idle` | as `pool_live`, 1 latency | **violated**: see findings | |
| `policy` | 2 pools, 2 updaters, failing switches, fair | safety and liveness of `TrafficPolicy` | 298 thousand |
| `policy_return` | 2 pools, 1 updater, no failing switches, fair | **violated**: see findings | |
| `catalog` | 2 subscriptions, 3 feeds, 1 pool, 2 rules, 2 requests, 3 calls, 1 fault, fair | safety and liveness of `Catalog` | 186 thousand |
| `pool_members` | the same with feeds of links | **violated**: see findings | |
| `services` | 2 nodes, 1 pool, 1 chain, 2 channels, 2 requests; 2 versions, 2 settings, 3 starts; 3 connections, room for 2; 2 topics, buffer 1; 3 entries | safety of `Routes`, `DataDirectory`, `ConnMonitor`, `Events`, `RuleOrder` | 1.4 million |

`CHECK_DEADLOCK FALSE` everywhere: the bounds on generations, calls and the like stop the
models, and a system that nobody asks for anything may stand still.

The properties, where their name does not say it all: `EveryWaitEnds` (supervisor) is three
waits in one, a caller of Start or Stop, a pending restart, and a core that was killed;
`TakeoversEnd` (policy) says that a takeover ends with the traffic and with a manual change.
`NothingDangles` and `RulesInForce` (catalog) name the requests that are still on their way;
`MembersFollowServers` compares servers, whatever the provider calls them, so that it does
not depend on how the code recognises a node. `LinksFollowCore` waits for two polls, since
within one an open link may be dropped for one that has just vanished. `PagesCatchUp`
excludes what is `missed` or `untold`, `PrecedenceKept` what is `mixed`, `DataSurvives` what is
`astray`, `severed`, `bereft` or torn, and the properties of the policy some of what happens once
an Update is `overtaken`: all that these stand for does happen.

### Bounds

* Two callers: Start and Stop interact only through `Manager`, and the races are
  between one of each; the theorems cover any number.
* Three generations: an old goroutine, a current one and one still to come. Two
  restarts: one in the middle of the budget, one at its end. One stable run: the
  counter is reset once with a restart before and after it.
* Two requests in Control: one holds the mutex, the other queues and can be the
  Stop that cancels it; with two generations there are two watchers. One node and
  one pool give every kind of switch: to and from a target with a health monitor.
* Two members are the least `validateConfig` accepts and enough for a best and a current
  one. Two URLs give all, some and no tests passed; three latencies with tolerance 1
  give pairs inside and outside of the tolerance. Two failures and two successes:
  the counters have a middle value. `Capacity` 4 lets every round of the
  model finish, see below for a larger pool.
* Two pools for the traffic policy and one target that is not a pool: the pool in use, the
  download pool, which a new configuration can exchange, and what the user can choose
  instead. The safety properties are proved for any number. Two Updates at a time: a PUT is served by a goroutine of its own, and the interesting one arrives while the
  first restores the previous pool, finds the state overwritten by `tick` (manager.go:202) and is
  let in. What the first resets when it ends is why `TakeoverRemembers`, `ReturnsToOrigin` and
  `SettledWhileTickSwitches` make an exception for an `overtaken` Update, and no other.
* Catalog: one subscription has two feeds, the second of which renames a server, drops a rule
  and no longer supports the other; the other one gives the active flag somewhere to go. Two
  requests at a time interleave every pair of operations, three in sequence bring an old
  reference back; one fault at any write. The program begins empty or with everything in use.
* Routes: two nodes are the least a pool resolves with, and the exit of a chain may be one of
  them; two channels can ask for one port, or for a reserved one. Three edits: a saved
  thing, a change of what it refers to, and a configuration built meanwhile.
* DataDirectory: the embedded version and a new one, two settings of which one may be done,
  a good configuration and a bad one; three starts and three operations or failures make a kill
  in the middle, a start, and a second kill, a loss of power of one half of a pair followed by
  a kill in the repair, or a write and its roll-back that both fail.
* ConnMonitor: three connections and room for two make eviction happen, with closed links
  and without. Events: a buffer of one loses an event at the second publication; two changes
  overtake one another's replies; one topic (the pools) has announced and silent changes and
  nobody polls it, the other (the runtime) is polled and has an event without a listener. RuleOrder: three entries and five operations, among them
  a removal in the middle followed by an order and a creation.
* For the invariants and action properties of every module the theorems below cover every size.

### Fairness

* Supervisor: `Wait` on a dead process returns, timers fire, deadlines pass, a
  ready `select` proceeds. No fairness for crashes, Start or Stop.
* Control: every step of an operation has a deadline of its own or the one of its
  request (45 s for Apply, 20 s for Stop and reloads), so it ends. `sync.Mutex` hands
  itself to a waiter that has waited for more than a millisecond: strong fairness
  for taking the lock. Tickers tick.
* PoolHealth: `run` ticks every second at most; a member's `nextProbeAt` comes, since
  the backoff is bounded; a round is not lost for ever and the core accepts a
  selection that it has sooner or later (strong fairness: both compete with
  failures). A round that exceeds its time is lost always, which
  is why `Capacity` matters. The properties ask for a network that has settled.
* TrafficPolicy: `Run` ticks, calls of control end (they have deadlines of their own), the
  health monitor takes a new sample again and again (strong fairness, since a tick may
  see the old one), and traffic that stays low is low for long enough in the end.
* Catalog: every step of a request ends, since writes, providers and the start of a core all
  have a time limit (`WF` of the steps of each request that has begun); nothing is fair about
  users, crashes or the recovery of the core. Both mutexes are waited for by requests
  that come to an end, and the bound on calls keeps others from overtaking for ever, as
  `sync.Mutex` does.
* MCServices checks safety only.

## Findings

1. `control_target`: after a hot switch a crash and restart of the core goes back to
   the target of the saved configuration, while the runtime reports the other one.
2. `pool_idle`: an idle pool asks for an outbound `auto` that its selector does not
   have; blocked by an outage, it stays blocked.
3. `policy_return`: a core that restarts during a takeover makes the policy forget the
   original pool; the download pool stays in use.
4. `pool_members`: `nodeIdentity` (`internal/nodepool/manager.go:441`) clears identifier and
   name of a node, not the link it was read from, which contains the name. With a feed of
   links a renamed server is taken out of its pools, which
   `TestReconcileSubscriptionNodesMigratesAndPrunesMembers` (manager_test.go:112) does not
   want; its nodes have no link.

Seen while modelling and not given a run:

* A failed Apply or reload leaves the desktop pointing at a core that is gone
  (`internal/control/service.go:1030`); `docs/adr/0004-crash-restart-policy.md:13` ties `failed`
  to a restored proxy.
* A pool with more than 240 probes that time out loses every round
  (`internal/poolhealth/manager.go:421`) and is never blocked, which
  `docs/architecture.md:193` promises.
* An Update that restores the previous pool is meant to keep other Updates out ("完成前不能修改配置",
  `internal/trafficpolicy/manager.go:149`), but the next `tick` shows the policy as disabled (202)
  and lets them in; the end of the first then resets what the second has led to, such as
  a takeover that has begun.
* A target the user applies while `tick` is about to switch is overridden by the switch
  (`docs/architecture.md:213` wants the manual change to win).
* What changes while the core is in backoff is not loaded when it comes back
  (`internal/control/service.go:795`); changes of pools and chains are never loaded by
  themselves; a reload fails from then on when the running node was renamed or the
  running chain deleted between the check of the handler and the deletion
  (`internal/api/chains.go:65`).
* When the rules of a feed could not be saved, the next conditional refresh is told that
  nothing is new and they are not tried again (`internal/subscription/manager.go:649`); `Update`
  keeps the new name in memory when it rejects the interval (285). A kill between saving a
  subscription and its pools costs a renamed member its place at the next start.
* A pool created while a subscription is deleted keeps members that are gone until the next
  start (`internal/nodepool/manager.go:219`).
* A rejected Reorder has already changed positions in memory
  (`internal/routing/manager.go:179`, `pools.go:95`); the next successful write saves them.
* The snapshot of the desktop's settings is written in place
  (`internal/platform/systemproxy/gnome_linux.go:122`) and not synced: cut short, it can never be
  restored, and lost with the power while settings are ours, the user's are gone. A whole
  one left over from a kill is only restored by the next Restore, not at the start.
* A binary torn by a loss of power passes `validateInstalled` and is not installed again
  (`internal/core/manager.go:354`); a version directory left without its executable is refused by
  every later installation (214), which for the embedded version means that the program does
  not start. A failed roll-back of the link is ignored (344): the version reported and
  the one executed differ until the next activation.
* After a loss of power that emptied the certificate or the key of the channels, a kill between
  the two writes of the repair leaves a certificate with another key, which `ensureCertificate`
  takes for good (`internal/proxychannel/manager.go:496`).
* `coreChangeBlocked` (`internal/api/core.go:86`) looks at the
  core before an update of up to two minutes, not after it.
* The connection monitor goes on to report that it runs when the core never answered
  (`internal/connmon/monitor.go:214`).
* The last event of its kind, published between the snapshot and Subscribe
  (`internal/api/server.go:301`, 306) or dropped from a full buffer
  (`internal/events/broker.go:69`), leaves the page as it is until it asks for another reason,
  where `docs/architecture.md:221` says that losing an event breaks nothing. So do edits of pools, chains
  and channels, which publish nothing, `runtime.switched` and `nodes.imported`, which have no
  listener (`web/src/hooks/useEventStream.ts:33`), and the rules removed by a deletion
  (`internal/routing/manager.go:241`): a second open page learns of them from a poll, if it has one,
  or when its window gets the focus back.

## Proofs

`SupervisorProofs` proves, for every set of callers and every value of the bounds,
that `Spec` implies each of `TypeOK`, `SingleCore`, `Quiescent`, `RestartArmed`,
`OnlyStartRevives` and `Lifecycle`. The only assumption is `SupervisorAssumption`: the
bounds are natural numbers.

None of the invariants is inductive. `Inv` adds what the goroutines know about each
other. `ChannelInv`: the done channel of the current generation is open exactly while
the manager is busy, and the stop flag agrees with the state. `ProcessInv`: the
command is held exactly while running or stopping, no process but the command's is
alive, and the only goroutine in `wait` is the one of that command and generation.
`TimerInv`: no backoff goroutine is of a later generation; while starting exactly one
is of the current one, while running or stopping none is. One lemma per action shows
that it keeps `Inv` (`NextInv` collects them); `ScheduleInv` and `SpawnInv` are shared
by the actions that restart. The refinement (`StepRefines`) uses `Inv` on both sides
of a step and has a lemma for each of the steps that map to more than a stutter.

`ControlProofs` proves `ControlTypeOK`, `StopIsComplete`, `NoHiddenCore`, `FailureIsWatched`,
`DesktopFollowsMode` and `HealthNeverStrays` for any number of requests, targets, generations
and any faults. `ControlAssumption` says that a target is a node or a pool and not both. The
properties speak of the moments when nobody holds `operationMu`; `Fits` carries them from one
such moment to the next. It has a line for each thing that an operation has achieved when
it reaches a stage: until the configuration is saved, and all through a hot switch, what the
runtime reports is still true (`Agreed`, `HealthAgreed`); afterwards no monitor runs and,
from the end of the old core to the start of the new one, no core does (`Down`); a core on its way into
service is younger than the last controlled stop; the desktop is settled last. `StageKept`
says that the core, ended contexts and watchers disturb none of it, `CoreInv` that a watcher
waiting for the mutex waits for a generation that is down for good.

`PoolHealthProofs` proves, for every number of members, probe URLs and latencies, that
`PoolSpec` implies `PoolTypeOK`, `FailClosed`, `BestServes`, `NoFlapping` and
`QuarantineServed`. `PoolHealthAssumption` says that the numbers are natural and the
thresholds positive (`validateConfig` and the constants of the package), and that the selector
accepts every member and `block`. `FailClosed` and `NoFlapping` need `"auto" \notin
Choices`, which is true of the generated configuration and the cause of finding 2: were
`auto` an option, becoming idle would reopen a blocked pool.

`PoolInv` adds to the types what a round relies on between its two halves: a member in
service has been measured, the selection on its way follows from the present members
and no other has been accepted since (`Decided`), and a quarantined member's successes
are not ahead of the probes it really passed while its failures stay at the threshold
(`Counted`). The lemmas about the operators carry the argument: `CandidatesUsable`,
`SelectionUsable`, `SelectionBest`, `SelectionKeeps` say what `bestSelectionLocked` returns,
`AppliedType`, `AppliedRecovery`, `AppliedFailing` what `applyResultLocked` does.

`TrafficPolicyProofs` proves `PolicyTypeOK`, `TakeoverRemembers`, `SettledWhileTickSwitches` and
`ReturnsToOrigin` for every number of pools and of concurrent Updates. `PolicyAssumption` only
keeps the two special targets apart from the pools. `StagesInv` is the reason why the state alone
keeps Updates out while `tick` switches, and where it does not: it mirrors what the goroutine
of `Run` is waiting for, unless an Update was let in while another one restored, which
`overtaken` remembers for as long as anything of that time is left. `OriginInv` carries the pool
of origin from the trigger to whichever call goes back to it; `TakeoverInv` is what holds of
`tick` even then: it knows no other pool than that one, or none.

`CatalogProofs` proves `CatalogTypeOK`, `ChoiceIsValid`, `NothingDangles`, `RulesInForce` and
`DecisionsSurvive` for any number of subscriptions, nodes, pools, rules, requests and faults,
whatever the feeds hold, provided that the program is first started with files that are in
order (`SubscriptionsAssumption`) and asked for targets of the right form
(`CatalogAssumption`). `RequestInv` is what a request may rely on between two of its steps:
a refresh that has the lock finds its subscription there although `m.mu` was released
meanwhile, and what Delete has removed never comes back. `MembersInv` names for every
member that resolves to nothing the request that will put it right, and `OrphansInv` does for
the rules of what is gone. `ForceInv` says that whoever changed the rules last is on its way to
reload, or the plan of the core about to start holds them already; the operation mutex is
why there is at most one such plan.

`RoutesProofs` proves `RoutesTypeOK` (which has the ports of the saved channels apart),
`CatalogFitsTogether` and `RoutesInForce` for any sets of nodes, pools, chains, channels,
ports, profiles and requests. The first rests on `OneBuilder` (the request that holds the mutex
is the only one that builds), `PortsApart` (no two saved channels have one port and none a
reserved one) and `BuildFits` (what has been read so far fits together, stage by stage). The
second rests on `BuildCurrent` and `CoreCurrent`: whatever of the profile, the channels and
their nodes differs between the stores and the configuration being built, or the running one,
belongs to a request that has not reloaded yet, or to a reload that was skipped or failed.

`DataDirectoryProofs` proves `DataTypeOK` and `DataSurvives` for any versions, settings and
configurations and any number of operations, kills and losses of power, with an invariant for
each of the four managers: `CoreInv` (which of link, record and the versions they name may be
behind at each step), `PairInv` (the key is written after its certificate, a start begins anew
unless both are there, and only power takes one of a complete pair), `ConfigInv` and
`DesktopInv` (a setting is ours only after the snapshot holds the user's, and only what has been
restored is left out of it). The last two also say so of the earlier files a loss of power may
bring back; of earlier records nothing need be known, since a start believes none.
`DataAssumption` keeps the names of versions and of the two certificate files apart.

`MembersAlwaysFollow` of `CatalogProofs` states `MembersFollowServers` under `IdentityTells`: two
nodes have one identity exactly when they are one server. That is what `nodeIdentity` achieves
for nodes described field by field, and what it does not for links; for those
`pool_members` shows the property violated, so the hypothesis cannot be dropped. `StoreInv` is
what the proof adds: until a new pool is stored no other request knows of it.
`NodePoolsAssumption` asks for finitely many nodes, since `ReconcileSubscriptionNodes` counts
the nodes of an identity.

`ServicesProofs` is about the three small components; with the types of the other two it gives
`ServicesTypeOK`. Since the five parts share nothing, the lemma `EachPartByItself` carries what
is proved of each to `MCServices`.

* `PagesCatchUp` and `EventsTypeOK`, for any kinds of data and events, any choice of what is
  published and listened to, any buffer, any number of changes and of broken streams.
  `EachCatchesUp` is the strengthening: for each kind of data something that makes the page ask
  again is still coming, or it is `missed` or `untold`, or the reply on its way, and failing
  that the view, is of the version the stores hold.
* `ConnTypeOK` and `LinksFollowCore`, for any number of connections and any `MaxLinks`.
  `Merged` enters an answer link by link, and each of the steps may evict a link. `Evicting` and
  `Entering` say what one step does, `Merging` what all of them do together: an active link is
  never evicted as long as a closed one is kept, which is so whenever the active links and
  those of the answer fit. `CalmInv` has the two polls: an answer that nothing has disturbed is what
  is open; after the first quiet poll only open links are active; therefore the second evicts
  none of them. `StrangersOut` keeps connections of an earlier core out of every answer.
* `OrderTypeOK` and `PrecedenceKept`, for lists of any length and any number of operations.
  `OrderInv` says that no entry is in a list twice and that a list which is not `mixed` is the
  saved one, with distinct positions. The distinctness is what `PrecedenceKept` needs of
  numbering anew: the sort there leaves equal positions in any order (`Numbering`). That an
  order which was read to its end gives every entry a position of its own is a count: as many
  different names as there are entries (`Ordering`, from `UniqueCount`).

Induction over data. The induction theorems of the library take an operator and cannot be
used. Where a proof has to count (the steps of `Merged`, how far an order is read, the last
position) it rests on the lemma `Counting`: a set that has 0 and with each number below `n` the
next one has all numbers up to `n`, since otherwise there is a least one missing
(`LeastElement`, from the theorem that `<` is well founded on `Nat`). `StepsExist` uses it to show
that the recursive function in `Merged` exists.

Only model-checked, being out of the prover's reach, is everything about fairness:
`EveryWaitEnds`, `FailureSurfaces`, `StopAnswered`, `OutageBlocks`, `ActiveRecovers`,
`TakeoversEnd` and `RequestsEnd`. The invariants and action properties of the passing runs are
all stated by a theorem.

## Not modelled

`PROJECT.json` names every part with its status. Left out:

* parsing of subscriptions, generation of the sing-box JSON, DNS resolution and address policy,
  latency measurement, authentication, the browser front end apart from its event stream: pure
  functions or pure I/O, without state that others share;
* `connectivity`: a saved list of URLs; its probes are network I/O, and the others only read
  the URLs. Its Create, Update and Delete keep a change in memory that could not be saved;
* the allow-LAN preference, which is saved before Apply is known to work;
* in the parts that are modelled: log buffer, durations, rates, error texts, progress shown to
  the user, fields that are only displayed;
* the composition of `Control` with `Catalog` and `Routes`: in the latter two a core is off,
  running or in backoff and an Apply puts a configuration into force or fails; `Control` has
  the steps in between and leaves open what the configuration contains.
