# DockTail in TLA+

DockTail watches Docker containers, reads their labels, and keeps the local
`tailscaled` serving and advertising them as Tailscale Services and Funnels. This
directory models the parts of it whose correctness depends on the order of steps:
what a reconcile cycle does between reading the node's state and acting on it, what
failed and half-done commands leave behind, what a signal, a crash or a restart in the
middle of it does, when the process gives up on its socket or is reported unhealthy,
how several hosts share the tailnet's Service definitions, how failure signals reach
DockTail Cloud over connections that break, and which services and addresses a
container's labels and networks come to.

## 1. Inventory

| Part (source) | State | Operations | What is hard about it | What makes it correct | Module |
|---|---|---|---|---|---|
| Service reconciler (`tailscale/client.go`, `service.go`, `utils.go`) | none between cycles; the node's Serve config and prefs, and the control plane's definitions, are the state | one cycle: list containers, read status, read prefs, remove, sync definitions, add (with a retry), restore advertisements | acts on snapshots; `serve clear` works on a whole name while the diff works on ports; commands fail with or without effect | success means served; conflicts freeze; ignored names are untouched; convergence | `ServeReconcile` |
| Shutdown cleanup (`main.go`, `CleanupAllServices`) | `managedFunnels`, the cleanup deadline | reset funnels, remove each name once | SIGTERM interrupts a cycle; the budget expires between commands | a clean cleanup leaves nothing, and is not itself what overruns Docker's stop timeout | `ServeReconcile`, `Funnels`, `Lifecycle` |
| Funnel reconciler (`tailscale/funnel.go`) | `managedFunnels` (in memory) | read, compare, reset all, add and verify | no owner on a funnel, one global reset, other users of Funnel on the node | foreign funnels survive; success means reachable; stale ones go | `Funnels` |
| Reconcile loop (`reconciler/reconciler.go`) | event and error channels, ticker | event, tick, reconnect with a 5 s sleep | the sleep and parts of a cycle ignore cancellation; commands have no timeout; the subscription comes after the first cycle | every change is followed by a cycle that reads it | `Lifecycle` |
| Socket watchdog (`tailscale/socketwatch.go`) | `armed`, `lostAt` | startup wait, periodic probe, exit | the mount can be dead for ever; probes sample | exit only for a real outage; exit when the mount is dead | `SocketWatchdog` |
| Health file (`health/health.go`) | tracker under a mutex, the file | record a cycle, write, remove, `Check` | file and process are separate; removal races the exit | a stopped or stuck process is not reported healthy | `Lifecycle` |
| Unused Service deletion, definition sync (`client.go`) | control-plane definitions and hosts | get, merge, put; list, check hosts, delete | several DockTail hosts and an administrator, no versions | no definition in use is deleted; labels win | `ServiceDefinitions` |
| Cloud: failure signals (`cloud/collector.go`, `spool.go`, `wsclient.go`) | connection, send queue, spool, `unmonitored` | observe, send or spool, replay, put back | queue and spool limits, replay against fresh signals, lost frames | each signal arrives at most once, in order, or is lost for a known reason; bounded memory | `CloudSpool`, `FailureSignals` |
| Cloud: session (`cloud/collector.go`, `link.go`) | back-off, `rareSince`, link state | dial, hello, ack, timeout, refusal, park | answer, close and timeout race in one select | gives up only when refused for good; reports its link truthfully | `CloudSession` |
| Cloud: checks and log excerpts (`cloud/checks.go`, `collector.go`) | `checkFails`, `latest` | probe, count, capture, prune | rounds of an old and a new connection share the streaks | one excerpt per failing episode; opt-out honoured | `CloudChecks` |
| Labels and addresses (`docker/client.go`, `docker/cloud.go`) | `selfNetOnce`, `gatewayOnce` caches | list, inspect, parse, resolve, report | many interacting defaults; random map order; listed in one state, inspected in another | services keep their keys and addresses; checks lead to the container | `Discovery` |
| Wire messages, host metrics, version, update check, docs generator | none | conversions, one HTTP request a day | nothing that depends on order | | not modelled |

The reconcile loop calls the reconciler synchronously, so a process runs one cycle at
a time. The signal goroutine, the watchdog, the health tracker and the cloud
collector run beside it. The reconciler shares the node with its operator and with
other tools, and the control plane with other hosts. The collector gets container
lists from the reconciler and from its own discovery loop, and Docker events from the
reconcile loop.

## 2. Plan

The modules were written, and are read best, in this order: the two reconcilers and the
watchdog (the reason the program exists), the process around them (`Lifecycle`), the
control plane shared with other hosts (`ServiceDefinitions`), the cloud collector
(`CloudSpool` with its abstract specification `FailureSignals`, `CloudSession`,
`CloudChecks`), the readings of labels and networks (`Discovery`). Each of them has a
module of proofs, named after it; the proofs about `Lifecycle` and `SocketWatchdog`, the
two models of the process, share `LifecycleProofs`. Every invariant and action property
that a run checks is the conclusion of a theorem (section 5); the liveness properties
stay with TLC.

## 3. Modules and how they correspond to the code

### ServeReconcile

One process, one step per CLI command, status read or API pass; `pc` is the place in
`ReconcileServices` or `CleanupAllServices`.

| Action | Code |
|---|---|
| `StartCycle`, `ListFails` | `Reconciler.reconcile`, `GetEnabledContainers` |
| `ReadStatus` | `GetCurrentServices`; a failed read is an empty node, and so is a blank one: output that does not parse, or a failure that mentions "not found" (`CurrentServices`) |
| `ReadPrefs` | `getAdvertisedServices`, then the whole diff (`AddSet`, `PathSet`, `RemoveSet`, `AdvertiseSet`) |
| `Drain`, `Clear`, `RemovalsDone` | `removeService` |
| `Sync` | `syncServiceDefinitions`, one pass over the names |
| `RemovePath`, `AddService`, `AddRefused`, `AddFails`, `RetryClear`, `RetryAdd` | the add loop, `removeServicePath`, `addService`, `clearServiceOnly` |
| `Advertise`, `EndCycle` | restoring advertisements; the return value |
| `Terminate`, `LeaveLoop`, `CleanupRead`, `CleanupReadFails`, `CleanupDone`, `CleanupExpires` | SIGTERM in `main`, `CleanupAllServices` (`Drain` and `Clear` again) |
| `Crash`, `Restart`, `ContainerStart`, `ContainerStop`, `OperatorDrain` | the environment |

A name is the normalised `svc:` name, a destination stands for address, port, backend
protocol and PROXY setting together (`serviceConfigChanged` compares them as one
value), and a label block has an index because one container may declare several.
`serviceHandler` picks a handler by iterating maps and matches the port by
substring, so `ReadStatus` may see any handler of any port whose digits start the same
way (`LooksLike`). The CLI is external; what is assumed of it: `serve` sets one
handler and refuses a port with another protocol, `clear` drops every port of a name,
an `off` of a path that is not there fails, a failing command may or may not have taken
effect, and after cancellation no command starts. `Clear` may or may not withdraw the
advertisement as well. `cleared` and `unsynced` are observers for the properties.
`Sync` is one step here because nothing else of the cycle reads the definitions;
`ServiceDefinitions` takes it apart into its API calls and adds the deletion of unused
definitions (`DELETE_UNUSED_SERVICES`, off by default).

### Funnels

`managed` is `managedFunnels`, `seen` the last status read, `todo`/`applied`/`stale` the
pass's working sets. `BeginCycle` and `ServicesFail` stand for the service half, which
decides whether a pass happens at all. A TCP funnel is listed without its destination
(`Unshown`), as in `parseFunnelStatus`. `by` is an observer: who last set the funnel.

### SocketWatchdog

`stale` is a bind mount pinned to a directory that was replaced; only
`StartContainer` resolves it anew. `WatchdogTick` is one unit of time and drives the startup
wait, the outage and Go's ticker with its one-place channel, so probes may be late and
ticks may be lost. Durations are counted up to the grace period, the only value they are
compared with. `reached`, `outage` and `blink` are observers. `WatchdogInit`, `WatchdogNext`
and the other names with that prefix are those that `Lifecycle` has too, so that
`LifecycleProofs` can extend both.

### Lifecycle

`main`, `Reconciler.Run` and `health.Tracker` of one process, under one clock.
`pc` is the place of the loop: `starting`, `read` and `apply` (a cycle), `select`,
`sleep` (the 5 s after a stream error), `cleanup`, `dead`. `tpc` is the tracker's
goroutine: it copies the status under the lock (`Snapshot`), writes the file without it
(`Write`, `WriteFails`), and waits for its ticker or a nudge. `Remove` is its deferred
removal of the file, which the process may not live to run.

| Action | Code |
|---|---|
| `Start`, `Started`, `StartInterrupted` | `main` up to the loop, the startup wait |
| `Read`, `ReadSkips`, `ReadFails`, `Apply` | `Reconciler.reconcile` and the `ReconcileDone` observer |
| `TakeEvent`, `TakeTick`, `TakeError`, `TakeDone` | the cases of the loop's select |
| `SleepEnds`, `Exit` | resubscription; the end of the cleanup |
| `Snapshot`, `Write`, `WriteFails`, `WakeOnTicker`, `WakeOnNudge`, `Remove` | `Tracker.Run`, `flush` |
| `Healthy` | `health.Check` |
| `Change`, `DockerFails`, `StreamBreaks`, `SocketChanges`, `TailscaledHangs`, `Signal`, `Kill`, `Crash` | the environment |

A file carries its age, and every age is counted to just past the limit it is compared
with. A cycle under way at the signal goes on for up to `CycleTail`: a dial of a second for
each service (`docker/client.go:339`, `1193-1202`), the agent's look at itself (`1146`) and
an OAuth token do not look at the context. `ReadSkips` is a list without a container whose
inspection failed (`docker/client.go:158-166`); the cycle succeeds. `hung` is a tailscaled
that does not answer, which `Apply` waits for. `excused` (a change that waits for the
ticker), `held` (how much of the shutdown the sleep and the interrupted cycle took) and
`sinceAlive` are observers.

### ServiceDefinitions

Several hosts, each at a place `pc[h]` of its own cycle, one control plane and an
administrator. `SyncGet` and `SyncPut` are the read and the write of
`syncServiceDefinitions` for one name, `Merged` what is written, `Advertise` the rest of
the cycle, `List`, `Check` and `Delete` the calls of
`deleteUnusedServiceDefinitions`. `served` is the Serve configuration and `clash` the names
of a host's containers with a contradiction, which a cycle keeps as `frozen`: they are not
synced, though their other ports may be added. `Begin` withdraws what is stale, and each
drain and each clear of it may fail alone; what was cleared and not drained is no longer
served and never looked at again. `AdvertiseFails` is a cycle one of whose adds,
advertisements or funnels failed, which returns before the deletion (`client.go:425-437`,
`funnel.go:310-315`); it has no bound, so a host may fail for ever. The control plane is external: `Propagate(h)` is the
moment at which it registers a host for what the host advertises, which the comments of
the code describe as late and as happening only for names that are defined by then.
`since[h]` is an observer: the hosts registered for a name when `h` looked.

### FailureSignals and CloudSpool

`FailureSignals` says what the collector promises for a failure signal: it is written to
the wire at most once, and one that is not was discarded because the host is not
monitored, aged out, evicted because more waited than is kept, or was lost with a broken
connection, at most `PerBreak` for each.

`CloudSpool` is the code: two producers (`OnEvent` on the reconciler's goroutine, the
captures of the check loop), a send queue and a pump per connection, two replayers per
connection (once after it was accepted, then on a ticker) behind `replayMu`, and the
session that publishes and clears the connection. Each unlock is the end of a step:
`sendOrSpool` reads the connection in one step (`OnEvent`, `CheckCapture`, `NextFrame`),
pushes in another (`SendPush`, `SendRefused`) and spools in a third (`SpoolAdd`);
`replaySpool` reads the flag and drains (`ReplayBegin`, `ReplayDiscard`), pushes record by
record (`ReplayPush`) and puts the rest back (`ReplayUnshift`). Goroutines of a broken
connection run on.

The refinement (`Signals == INSTANCE FailureSignals WITH ...`): `breaks` is the number of
closed connections, `muted` is the `unmonitored` flag or a replay that has read it and is
about to discard, `PerBreak` is the send buffer and the frame in the pump's hand. `fate`
and `born` are variables of both modules; the code has no counterpart of them, they
record what became of each signal.

`Size` gives the encoded bytes of a set of signals, a sum over its members (the assumption
says it is additive), because `spool.bytes` is a running sum and no signal is in the spool
twice. `EnforceCaps` is the loop of `enforceCaps` as the shortest prefix to drop, and
`Drain` picks the increasing list of the positions that are young enough, which is what
the loop of `drain` appends.

### CloudSession

`Run` and `session`: `dial`, `hello`, `wait` (the select over the answer, the end of the
connection and the timeout), `abandon` (timed out, the connection not yet ended),
`serve`, `sleep` (back-off), `parked`. The read loop is beside it (`ReadAck`, `ConnEnds`).
The cloud is external; its mood decides how it answers. `rareSince` is counted in steps
of the rare retry interval. `refusal` and `quiet` are observers.

### CloudChecks

Each connection has a check loop: `RunChecks` reads `c.latest`, `Probe` does all probes,
`CountOK` and `CountFailure` go through the results one by one, `Capture` reads the logs
of one container, `Prune` ends the round. `latest` is replaced by the reconciler
(`List`, then `OnReconcile`, which only a successful cycle comes to) and by the discovery
loop (`Scan`), also that of a lost connection. Any of these lists may lack a container of
`Flaky` whose inspection failed (`Misses`, counted with the events). `due` counts how often a
live round came to the threshold while the container stayed as it was, `torn` the streaks
that a list without the container or an old result cut.

### Discovery

One container and the agent. A situation fixes the container (its primary and indexed
entries, funnel, network label, mode, published ports), the networks it is on at first
and where DockTail runs; the container then stops and starts, changes networks, and
DockTail restarts. Two scans share the caches of the agent's look at itself and
`c.latest`: the reconciler's (`Reconcile`) and the cloud's (`ScanCloud`), each a `List`
first and an inspection later, which may fail (`ReconcileSkips`, `ScanCloudSkips`): the
reconciler skips such a container, the cloud's scan skips it if it was listed as running.
`snapshot.inspected` says whether the last full snapshot inspected it. An agent that is not
`routed` is on no network with a gateway and falls back to the host alias. The pure functions of `docker/client.go` and
`docker/cloud.go` are operators with their names (`getContainerIP`, `resolveDestPort`,
`monitorTarget`, `parseIndexedPorts`, `stoppedCloudServices`, `serviceKeysForEvent`).
`Picks` stands for Go's random order over a map of networks: any choice the loops may
end with. `SuffixLabel` is the value of a network label that names networks by a suffix,
`Suffixed` those it matches. An address is where it leads (`ip` on a network, `loopback`, `gateway`,
an `alias`) and a port, never its text.

The `MC` modules give labels to the containers a configuration names, sizes to the
signals, tags to the hosts, and list the situations.

## 4. Runs

| Run | Shows |
|---|---|
| `serve` | success means served unless the name was cleared in that cycle; ignored names untouched; cleanup complete; frozen endpoints; definitions first; convergence once the environment and the failures stop |
| `funnel` | success means funnelled; foreign funnels kept; the funnels settle |
| `funnel_sigterm` | *violated*: SIGTERM during a pass makes the cleanup own nothing |
| `watchdog` | exits are justified; an armed process gets off a dead mount |
| `lifecycle` | a healthy verdict is about a process that lives and makes progress; no change is missed; a shutdown is killed only if a cycle or the sleep held it up; what is broken for good is reported; every change is read |
| `definitions` | a deletion takes no host that was registered when it looked; unused definitions go once some host's cycles end well; labels win |
| `cloud_spool` | what waits is bounded; only a fresh signal overtakes; the refinement of `FailureSignals` |
| `cloud_settle` | no signal waits for ever once a connection stays up |
| `cloud_session` | the collector gives up only for a reason and says so; a cloud that settles is met |
| `cloud_checks` | one excerpt is due per episode unless the streak was cut; a failing container is noticed, whether reconcile cycles succeed or not |
| `cloud_optout` | *violated*: the opt-out label is looked up in a list that no longer holds the container |
| `discovery` | services stay in the catalogue under their keys; events name a service the cloud knows; checks lead to the container; two scans that inspect the container agree on the addresses |

Each violated property is what the documentation or a comment says; `PROJECT.json`
quotes it.

**Bounds.** The bounds are guards of the environment's and of the failures' steps only;
no process is ever cut off in the middle. Every property has a mutant in `PROJECT.json`
that TLC finds under the same configuration, so the cases each property is about do
happen within the bounds.

* `serve`, `funnel`: `MaxChanges` counts container starts and stops, drains, signals and
  crashes, `MaxFaults` failed commands. Two ports of one name, two addresses and
  containers that share a name are what the whole-name operations need: one port to
  remove and one to keep, one address to move from, two claimants and a sibling.
* `watchdog`: the grace period is three probe intervals and five changes allow two
  outages and a replaced directory.
* `lifecycle`: time in units of the ticker; sleep and cleanup do not fit into the stop
  timeout together and each fits alone, as 5 s, 8 s and 10 s do. The interrupted cycle's
  tail is one unit, enough to use up the stop timeout together with the cleanup and without
  a sleep.
* `definitions`: two hosts that share a Service, of which one describes it and the other
  ignores the second Service (`Declares` bounds what each host's containers declare); one
  change, one failed call or removal, and any number of cycles that fail.
* `cloud_spool`: three signals, one larger than the others, a send buffer of one and a
  spool of two, so that the queue and both caps are exceeded; two connections, of which
  the first one breaks. `cloud_settle` has two signals, because liveness needs the whole
  graph.
* `cloud_session`: back-off 1, 2, 4, 6 (the cap is no power of two), a window of two
  intervals, two changes of mood.
* `cloud_checks`: two services, a threshold of two, two connections and two changes of
  one container, pushed configurations or failed inspections of it.
* `discovery`: three networks of which two match one label, every reading of one
  service's labels (with at most one bad protocol) on a simple network, and a few containers on three sets of networks,
  which the two changes turn into the others; agents with and without a gateway.
  Inspections fail without a bound.

**Fairness.** `FairSpec` of the two reconcilers is weak fairness of `Process`, the
sequential program: its ticker starts cycles for ever and Go code keeps running. Nothing
is assumed of the environment; a process that is down may stay down, and the liveness
properties say so. `SocketWatchdog` assumes that time passes, that the watchdog's
goroutine gets to run, and the restart policy the documentation requires
(`PolicyRestart`); a stopped container need not be started again. `Lifecycle`,
`CloudSpool`, `CloudSession` and `CloudChecks` assume that time passes and that every
goroutine runs on; strong fairness is assumed only where a Go `select` with several
ready cases chooses at random (`TakeTick`, `TakeAccept`, `TakeRefusal`, `ReplayExit`,
`LoopExit`), where a mutex is handed over (`ReplayBegin`), where the tracker's goroutine
is ready again and again (`Snapshot`, `Write`), and for the read loop that is faster than
a timeout of seconds in the end. `CloudSpool` and `CloudChecks` let the last connection
stay up: without that nothing can be promised, and the properties are about what happens
then. In `CloudChecks` it is the discovery ticker of a live connection (`Scan`) that brings
the list up to date; nothing is asked of the reconciler, whose cycles may fail for ever,
and inspections succeed in the end. `ServiceDefinitions` assumes that cycles go on and that
the control plane processes what hosts advertise; that some host's cycles get as far as the
deletion is a premise of `UnusedGoes`, for they may all fail. In `Lifecycle` a cycle need
not end while tailscaled hangs.

**Deadlock** is checked except in the four cloud modules: a collector that was refused
for good is parked, and when all the signals or changes of the instance have happened
and been dealt with, nothing is left to do.

### Known divergences without a run

The exceptions the passing properties make are limits of the code. Where a document or
a comment says otherwise it is quoted.

*Services.*
* `serve clear` for one stale port takes down another desired port of the name, in a cycle
  that reports success; the next cycle repairs it (`docs/04-labels.md:83`,
  `client.go:461-462`). `SuccessMeansServedUnlessCleared` excepts it.
* A refused add of another port clears a frozen endpoint of the same name
  (`docs/04-labels.md:99`). `FrozenUnlessSiblingRefused` excepts it.
* The port is looked up by substring (`service.go:168`): port 80 is taken for correct
  because 8080 is. The ports of the run have no common prefix.
* The clear that follows a refused add does not consult `IGNORE_SERVICE_NAMES`, so
  `IgnoredUntouched` speaks only of ignored names no container declares.
* A conflicted name is not synced while its other ports are still added, so
  `DefinedBeforeAdvertised` excepts conflicted names.
* After a failed status read the old path of an endpoint is unknown and stays served
  beside the new one, so `SuccessMeansServedUnlessCleared` says that the wanted handler
  is there, not that it is the only one.
* A status that does not parse, or a failure whose text mentions "not found", reads as "no
  services" without an error (`service.go:64-67`, `76-83`). A cleanup then reports success
  with every port still served (`client.go:1043-1049`); `CleanupComplete` excepts it.
* A removal whose drain fails and whose clear succeeds (`service.go:412-436`) leaves the
  advertisement, which no later cycle withdraws because the name is no longer served; its
  host stays registered and the definition stays. `UnusedGoes` excepts it.
* A cycle in which any add, advertisement or funnel fails returns before the deletion of
  unused definitions (`client.go:425-437`): a host with one lasting failure never deletes.
* A definition that another host has just created and is about to advertise can be
  deleted (`client.go:889-901`). `RegisteredKept` is about registered hosts.

*Funnels.*
* A restarted DockTail forgets which funnels are its own (`docs/07-reference.md:125`).
* A TCP funnel is listed without a destination and keeps a container's old address
  (`docs/08-how-it-works.md:38`). `SuccessMeansFunnelled` excepts it.

*Process.*
* A daemon restarted before the first probe leaves the watchdog unarmed, although the
  startup wait reached the socket (`docs/07-reference.md:194`).
  `StaleMountRecovers` is about an armed process.
* A 5 s sleep that overlaps SIGTERM leaves less than the cleanup's 8 s, and so do a few
  services whose ports do not answer, because a cycle under way dials each for a second
  without the context; Docker then kills the process (`KilledOnlyHeldUp` bounds from below
  what the sleep and the cycle took).
* Apart from one debug call the tailscale CLI runs without a timeout
  (`tailscale/utils.go:20-28`): a tailscaled that hangs stalls the loop, changes stay unread
  (`EveryChangeRead` excepts it), and the health verdict says so in the end
  (`BrokenIsReported`).
* A container whose inspection fails is left out of a cycle that succeeds
  (`docker/client.go:158-166`) and waits for the ticker (`ChangeNotMissed`).
* The status file can survive the process although `health.go:168-170` says it is
  removed; it goes stale after the limit (`HealthyJustified`).
* A change between the first cycle and the subscription, or around a broken stream, has
  no event and waits for the ticker (`ChangeNotMissed`, `EveryChangeRead`).

*Cloud.*
* A fresh signal overtakes the replay of older ones (`OnlyFreshOvertakes`).
* An episode whose threshold is crossed in a round that is cancelled with its connection
  never gets its excerpt, although `collector.go:724` says "exactly once per failing
  episode". `OnceUnlessTorn` is the half that holds.
* A list without a running container, because its inspection failed or was cancelled,
  prunes its streak, and the episode gets a second excerpt (`OnceUnlessTorn`).
* A refusal is lost when the end of the connection is chosen before the answer that
  preceded it; the next attempt gets it again (`SteadyCloudSettles`).

*Labels and addresses.*
* A container that was listed as running and inspected as stopped, or whose inspection
  failed (`cloud.go:79-82`), is dropped from a full snapshot although `cloud.go:41-42` reserves that for containers that left Docker.
* An indexed service behind a port Docker picks disappears from the catalogue when the
  container stops while its primary still parses.
* `cloud.go:48-50` says that a stopped container reports only its primary service;
  indexed ones are reported too, and two entries may have one key.
* Events of a container with a funnel and no service are named after the container, and
  those of one with an invalid protocol label are keyed differently from its stopped
  snapshot (`EventsNameAService` excepts both).
* A network label that is the suffix of several names picks a random one; a failed look
  of the agent at itself is remembered for the life of the process; a shared network on
  which the container has no IPv4 address counts as shared; an agent on networks without a gateway
  falls back to the alias `host.docker.internal`, which is the host only where Docker defines
  it (`docker/client.go:632-656`). `StableAddresses` and `ChecksReachContainer` except them.

## 5. Proofs

For every value of the constants (any containers, labels, names, ports, hosts, signals,
connections, time limits, bounds):

* `ServeReconcileProofs`: `TypeCorrect`, `IgnoredSafe`, `FrozenSafe`, `DefinedFirst`,
  `CleanupSound`, `SuccessSound`.
* `FunnelsProofs`: `TypeCorrect`, `SuccessSound`, `ForeignSafe`, `OrderlyCleanup`.
* `LifecycleProofs`: `TypeCorrect`, `VerdictJustified`, `NoChangeMissed`,
  `CleanupFitsStopTimeout`; of the watchdog `WatchdogTypeCorrect`, `WatchdogExitSafe`.
* `ServiceDefinitionsProofs`: `TypeCorrect`, `DeletionsJustified`.
* `CloudSessionProofs`: `TypeCorrect`, `GivesUpOnlyRefused`.
* `CloudChecksProofs`: `TypeCorrect`, `OneExcerptPerEpisode`, `OptOutWhileRunning`.
* `CloudSpoolProofs`: `TypeCorrect`, `WaitsBounded`, `WrittenInOrder`, and the refinement
  `SignalsImplemented`.
* `DiscoveryProofs`: `TypeCorrect`, `CatalogStays`, `EventsNamed`, `ChecksLead`,
  `AddressesStable`.

They rest on the named assumption of each module (`ConstantAssumption`, of the watchdog
`WatchdogAssumption`), which TLC evaluates in every run of the module. The arguments:

* *IgnoredSafe, FrozenSafe.* `IInv` adds to the types that the plan only holds what the
  diff allows: adds are desired and unconflicted, removals are neither ignored nor of a
  conflicted name, and the key in progress (`job`) comes from one of these sets. Without
  it a command could be about any key.
* *DefinedFirst.* `Synced`: past the sync step, every name that may be added or
  advertised is defined, or its sync failed, or it is conflicted.
* *CleanupSound.* `CleanupCovers`: while cleanup has seen no failure, each port still
  served belongs to a name still on its list; the list has one port per name, and
  `clear` works on names. A blank status, which is a success too, is excepted by the
  property: nothing is on the list then.
* *SuccessSound.* `SInv`: each desired endpoint whose name was not cleared is either
  still to be added, in progress, or served; the diff of a truthful snapshot starts this
  off, and no step but a clear of its name undoes it. A failure ends the obligation,
  because the cycle no longer reports success.
* *Funnels.* `IInv` says that a reset is only planned when everything listed is owned
  (`ResetOwnsAll`), that the work list is desired (`TodoDesired`), that an untouched
  endpoint is as it was listed (`SeenCurrent`) and that what left the list without
  failure is up (`Handled`).
* *OrderlyCleanup* says under which circumstances the promise that `funnel_sigterm` refutes
  does hold: each hypothesis (no failed command, no funnel of an operator's, starts only on
  a node without funnels, no signal in the funnel half of a cycle) excludes one way to lose
  track of a funnel. `FunnelsOwned` follows the ownership through the pass: between passes
  `managedFunnels` has every funnel of the node, within one the endpoints still to be
  handled and those applied have them.
* *WatchdogExitSafe.* `OutageCounted`: while the socket counts as lost and no recovery fell
  between two probes, it is unreachable and has been for at least `downFor`.
* *Lifecycle.* `FileVouches` compares ages: a file is at least as old as its process is
  dead, and neither it nor a copy the tracker has not written yet is newer than what the
  tracker knows; ageing keeps these orders, so a healthy verdict bounds both ages.
  `ChangeNoted` says that an unread change has its event on the way or a cycle about to
  read, or that it is `excused`, a failed inspection among the reasons. `StopsInTime` says
  that the shutdown clock is what the sleep and the interrupted cycle `held` and what the
  cleanup has used, so that a kill means that they held it for at least
  `StopTimeout - CleanupTime`. That sleep and cleanup each fit the
  stop timeout is an assumption (5 s and 8 s of 10 s); that they fit together, or that the
  cycle's tail (`CycleTail`, any number) fits at all, is not.
* *DeletionsJustified.* `DeletesUnused`: what a host is about to delete is neither wanted
  nor ignored by it and had no host when it looked (`since` is what it saw then).
  `RegisteredDefined` is part of the types the run checks: a deletion takes the
  registrations along.
* *GivesUpOnlyRefused.* `RareRunSinceAccepted` bounds the age of a run of rare refusals by
  the time since the last accepted connection, except while one is served; `RefusalShown`
  and `OneAnswer` say that an answer in `ackCh` is the only one and already on the health
  status; `NoConnection` that nothing of it is left for the next attempt.
* *OneExcerptPerEpisode.* `StreakStands`: after the threshold was met on a live connection
  and nothing cut the streak, the container still fails, the count is still at the
  threshold or past it, and the live round has it among the failures, so that the count
  can only grow. `OneLive` makes every other round an old one, whose results cut.
* *OptOutWhileRunning* is what is left of the promise that `cloud_optout` refutes. The list
  an excerpt is taken under need not be the one its round read, but every list there can
  be holds the containers that keep running and are inspected with success throughout
  (`Steady`, `SteadyListed`), and so their labels. For one whose inspection fails
  (`Flaky`) nothing is promised.
* *CloudSpool.* `IInv` is `Control` and `Flow`. `Control` has the types, that only the
  published connection can be open (`OneOpen`), and that whoever replays holds the lock
  (`Serialised`). `Flow` says where the signals are: one function gives each held signal
  one place (a producer's hand, the spool, a batch, an open queue), so that no step can
  find it in two (`Located`, `NoneTwice`); the spool is within its caps and its times are
  honest (`SpoolKept`); the signal in a producer's hand is the producer's last
  (`LastInHand`); the batch is older than the spool and both are in order (`WaitInOrder`),
  what is on its way overtakes what waits only if it was never replayed (`OvertakenWait`),
  and the wire is in that order (`InOrder`); each signal lost with a connection is in a
  closed queue or is the one frame its pump had in hand (`Accounted`). `WrittenInOrder`
  needs all the orders, because a batch that is put back and the spool it is put in front
  of become one list.
* *SignalsImplemented.* Each step is a step of `FailureSignals` or a stutter. Two facts
  carry it: `BreaksBounded`, the number of lost signals is at most `PerBreak` for each
  closed connection, by a map from the closed queues' places and the pump's hand onto what
  was lost; and `OverflowHeld`, a spool that does not fit its caps shows that all that is
  held does not fit either, because sizes add up.
* *Discovery.* The labels are arbitrary records, so the proofs compare the readings of
  them that the code has (`ParsedKeys`, `StoppedKey`, `FunnelKey`, `EventKey`) and never
  enumerate labels. `SeenFromLabels` says that what was reported of the running container
  follows from its labels alone and that they are valid; so a later scan, of the running
  container (`ParseKeeps`) or of the stopped one (`StoppedKeeps`), gives the same keys, which
  is *CatalogStays*, and the primary service is among them, which is *EventsNamed*.
  `SnapshotCurrent` says that while nothing changes the last full snapshot, if it inspected
  the container, is what some scan would find again, and that what this scan asked the
  agent about itself is cached; one that did not inspect it has a service only of a stopped
  container (`SkippedEmpty`, `SkipCatalog`). With it, *ChecksLead* becomes a statement about one parse (`CheckLeads`, by cases over network
  mode, where DockTail runs, shared networks and published ports), and *AddressesStable*
  one about two (`SameView`: a parse depends on nothing it did not ask for, and on the
  order of the networks only if the label is ambiguous). The assumption on the situations
  says what the code makes of labels (a network mode, Boolean flags, a primary entry) and
  that on bare metal the agent does not find an id of its own under `/proc`
  (`docker/client.go:563-565`): there the alias `host.docker.internal` is never tried. It
  asks nothing of protocols, ports, paths, names or the published ports.

The proofs about `CloudSpool` use the general lemmas `RemovedFlow`, `EnqueuedFlow`,
`SwallowedFlow` and `StoreFlow` (a signal leaves, enters an open queue, is lost in a closed
one, the spool is replaced), so that the steps of the goroutines only say which of these
they are.

Only model-checked: everything under fairness (`Converges`, `FunnelsSettle`,
`StaleMountRecovers`, `BrokenIsReported`, `EveryChangeRead`, `UnusedGoes`, `LabelsWin`,
`EverySignalSettles`, `SteadyCloudSettles`, `FailingIsNoticed`), because liveness is out of
the proof system's reach (its temporal prover knows no `ENABLED`); and of course the two
violations, which are counterexamples (`OrderlyCleanup` and `OptOutWhileRunning` prove
what is left of them).

## 6. Not modelled

* `cloud/proto`: message structs and their field checks. The message kinds that
  matter are actions of `CloudSession` and `CloudSpool`.
* `cloud/hostmetrics.go`: reads of `/proc` turned into numbers of a heartbeat.
* The fields of a forwarded Docker event (exit codes, OOM notes), CPU percentages, the
  validation of `docktail.cloud.*` labels, the redaction and the certificate warnings of
  checks, tags and descriptions of a service (copied through): values no other part decides
  on.
* The bounds of the WebSocket frames, HTTP encoding, OAuth tokens.
* `version`, `update`: a comparison of version strings and one request a day whose outcome
  is a log line. `tools/docsgen`: build-time conversion of text.
* The composition of the components in one specification: the modules meet at values
  (the container list, the reconcile outcome, an accepted connection) that each of them
  lets the other side choose freely, so that no module relies on the timing of another.
