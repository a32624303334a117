# Aegis C2: specifications, checks and proofs

Aegis C2 is a command and control system for simulated UAVs. Several ground stations
(GKS, Python) receive encrypted telemetry from UAVs (C++) over UDP, keep the flight state
in Redis and PostgreSQL, hand UAVs over to each other by distance, and relay the commands
that operators give in a browser (React) through an API (ASP.NET, SignalR and REST).

This directory holds TLA+ models of the parts of that system whose correctness depends on
the order of events, the TLC configurations that check them, and theorems about them that
the TLA+ proof system checks. All paths below are relative to the root of the sources.

## 1. Inventory

| Component | State it keeps | Operations | Talks to |
|---|---|---|---|
| Flood limiter, `GKS_Server/server.py` 18-34, 399-409 | a token bucket per source address, with the wall clock time of its last use | one consume per datagram | gate in front of every packet handler |
| Key agreement, `crypto_manager.py`, `server.py` 427-527, `UdpTransceiver.cpp` 45-301 | GKS: active and pending key per UAV. UAV: session key, ephemeral key of the last rekey, packet counter | handshake, rekey every 100 packets, promotion of the pending key by the first packet that needs it, RESET, timeout | UDP between UAV and GKS |
| Link gate and handover, `server.py` 120-397, 692-736, 952-1013 | per UAV: endpoint, clock of the last packet, out-of-range marker, last handover attempt | range check on every packet, automatic and manual handover, timeout of 60 s | Redis registry, Redis hash `uav:{id}`, table `flight_sessions`, the other stations through them |
| Telemetry accounting and FEC, `server.py` 529-690, `repository.py` 59-132, `UdpTransceiver.cpp` 193-238 | replay clock, FEC window, resync flag; in Redis the expected sequence number and counters | per packet: replay check, loss accounting, log, publish, acknowledge | Redis, PostgreSQL, telemetry stream |
| Station registry, `repository.py` 234-285, `DeploymentController.cs` 242-425, `RedisSubscriberService.cs` 88-116 | `gks_instance:{id}` with a TTL of 30 s, tombstone `gks_deleting:{id}` of 90 s | heartbeat, radius change, deletion, broadcast | Redis, API, browser map, the stations' range check |
| Command path, `TelemetryHub.cs`, `TacticalController.cs`, `Commands/*.cs`, `server.py` 738-950, 1015-1053 | none in the API; endpoints and mission flags in the station | validate, publish on `command_stream`, listen, encrypt, send | browser, Redis, every station, UAV |
| Orchestrator, `KubernetesOrchestratorService.cs` | none of its own; replica count and pods in the cluster | spawn and delete of UAVs and stations, scale-down with retries | Kubernetes or Docker |
| Command button, `useTacticalCommand.js`, `TacticalCommands.jsx` | status, active command, timers that nobody cancels | send, acknowledgement, fail-safe and reset timers | hub |
| Terminal store, `terminalEngineStore.js`, `TerminalFilters.jsx` | log of 1200 entries, known drones, filters, target, metrics; a copy in session storage | live events, history merge, saving after 250 ms, loading, commands with REST fallback | hub, REST, session storage |
| Fleet store, `fleetTelemetryStore.js`, `FleetPanel.jsx` | drones, pending updates, samples of the network, station list | flush every 250 ms, watchdog of 3 s, sampling | hub |
| Connection, login and page guard, `App.jsx`, `signalRService.js`, `Login.jsx` | the one hub connection, its restart timers, the footer, the token in local storage | start, retry, close, reconnect; login, logout, reload, error screen | hub, REST, other tabs |
| Operator map page, `TacticalMap.jsx`, `MapDisplay.jsx`, `HUD/*.jsx` | selection, what a click means, one busy flag per button | select, arm a maneuver, draw a route, delete, ping, evacuate | REST |
| UAV flight model, `TelemetrySensor.cpp` | position, speed, battery, waypoints, manoeuvre | one tick per packet, commands | transceiver |
| Health worker, metrics, events, authentication, validators | counters, samples, none | stateless or sampling | hub, Redis |

### What is hard

* A station is one asyncio process, but every `await` is a point where other packets of the
  same UAV, a command, a handover or the timeout run. Nearly all state is read before and
  written after such a point.
* The two ends of a key agreement learn of each other's progress only by packets that may be
  lost, late or overtaken, and both ends restart.
* Stations do not talk to each other: who owns a UAV follows from what each of them has
  forgotten, from a Redis hash and from the UAV's own choice.
* Registry entries expire, are read and written back whole, and are deleted while the station
  that writes them is still being shut down.
* The browser joins live events, requested history, late answers and timers that nobody cancels;
  a panel may be gone, or show something else, when the answer to its request comes.

### What makes each part correct

* Limiter: bounded admission over any interval; no lasting starvation of a quiet source.
* Keys: without faults every packet decrypts; the station never discards the key in use;
  the link heals from anything.
* Link: an unreachable UAV has no command path; every path is under the timeout's watch;
  in the end exactly one station serves the UAV; sessions of silent UAVs end, those of
  others do not.
* Accounting: every number below the expected one is accounted for; a recovered packet had
  been lost; logs belong to an open session.
* Registry: a deleted station stays invisible, a living one visible; a radius that was set should stay
  set, and does not; a deletion reports what it did.
* Commands: published once, or twice by the fallback with a warning; reported as sent only when
  sent; the panel never locked for good.
* Stores: nothing stale shown as live, no step back, no line twice under one identifier, nothing
  lost because a timer ran.
* Pages: one chain of connection attempts that never ends nor multiplies; a footer that claims no
  link there is not; a button busy exactly while its request is under way.

## 2. Modules

| Module | Models | Extends |
|---|---|---|
| `RateLimiter` | the limiter and a host clock that may be set back | - |
| `SessionKeys` | one UAV and one station agreeing on keys over UDP | - |
| `GksSecurityProofs` | the theorems of both | `RateLimiter`, `SessionKeys` |
| `GksLink` | several stations, one UAV: gate, handover, sessions, timeout | - |
| `GksLinkProofs` | its theorems | `GksLink` |
| `TelemetryIntake` | replay check, sequence numbers, loss counters and FEC of one UAV at one station | - |
| `TelemetryIntakeProofs` | its theorems | `TelemetryIntake` |
| `GksRegistry` | heartbeats, radius, deletion through the cluster, tombstone and map of one station id | - |
| `GksRegistryProofs` | its theorems | `GksRegistry` |
| `FleetView` | what the pages may rely on: the abstract picture of the fleet | - |
| `FleetStore` | the store that implements it | instantiates `FleetView` |
| `FleetStoreProofs` | its theorems, the refinement among them | `FleetStore` |
| `TerminalStore` | the terminal's log, drones, filters and their saved copy | - |
| `CommandPath` | panel, terminal, hub connection, fallback, command stream | - |
| `CommandPathProofs` | its theorems | `CommandPath` |
| `UiConnection` | the page, its hub connection, its footer, the token | - |
| `UiProofs` | the theorems of the terminal and of the page | `TerminalStore`, `UiConnection` |
| `MapConsole` | selection, modes, panels and requests of the map page | - |
| `MapConsoleProofs` | its theorems | `MapConsole` |
| `MCRateLimiter`, `MCGksLink`, `MCTerminalStore` | constants for TLC: rates; a geometry of two stations and four places; the sources of events | the module they check |

The limiter's and the page's initial states, steps and specifications are called `LimiterInit`,
`PageInit` and so on, because one proof module extends each of them together with another component.

A definition whose comment says "A defect for the mutation check" or "Variant, not the code" is a
plausible mistake, kept next to the definition it would replace, with which the property it is
meant for fails; nothing else uses it.

### RateLimiter

`tokens`, `last_update` and `ip_limiters` are the fields of the code. `Datagram` is
`datagram_received` with `consume(1)`. Tokens are counted in units of which one datagram
costs `Cost`, so that the fractional refill of the code is an integer. `real` is physical time,
`skew` how far the host's clock has been set back; `WallClock` is what `time.time()` returns.
`winStart` and `passed` are history: `OpenWindow` starts a new interval of observation.

### SessionKeys

A key is the pair of ephemeral keys it was derived from. The UAV is the loop of `main.cpp`:
`PerformHandshake`, `AwaitResponse` and `HandshakeTimeout` are `perform_handshake`,
`SendTelemetry` is `send_telemetry` with `initiate_key_rotation`, `ListenForAcks` is
`listen_for_acks`. The station handles a request in two steps, because it awaits the emission
of an event between the checks (`ReceiveRequest`) and the new key (`AnswerRequest`), and other
requests may be answered in between. A telemetry packet is one step: there is no await between
reading the key and promoting it. Losing or delaying a packet, a restart, an overtaking task and a
timer that fires early each spend one of `MaxFaults` faults.

### GksLink

Each station has task slots; the `pc` of a task says where it goes on after an await, as the
module's head lists. `Telemetry` is the arrival of a packet, `EvaluateLinkGate` the gate,
`Exists` to `TakeOver` the calls of `check_uav_session`, `DecideHandover` and `SendHandover`
to `Release` the handover, the `Timeout...` actions the checker. The hash and the rows are shared.
The following is assumed, and named where it is used:

* a task takes less than 60 s, a handover coroutine less than 3 s (`Silence`, `AttemptExpires`);
* a HANDOVER packet is read within the 0.5 s the station waits, unless an event is spent
  (`CloseRows`), and before a RESET that was sent after it (`Telemetry`);
* all stations are registered with a reachable host; their radius does not change;
* the hsets of `check_uav_session` after the read and those of `update_uav_stats` are one step.

### TelemetryIntake

One UAV and one station, whose telemetry and FEC packets are tasks with a `pc` as in `GksLink`.
`SendTelemetry` is `create_telemetry_tick` with `send_telemetry` and the FEC packet behind every
third critical packet. `Arrive` is the handler up to its first await, replay check included,
`EvaluateLinkGate` what the gate does to the FEC window and the resync flag, `ReadState` and `Own`
the two ends of `check_uav_session`, `LogPacket` the log and the loss accounting (`CountLosses` has
its five cases), `UpdateCounters` and `UpdateExpected` the calls of `update_uav_stats`, `StoreInWindow`
the end of the handler. A payload is its timestamp, so XOR is symmetric difference. `base`,
`skipped` and `undone` in the hash are history: the first number of the session, numbers skipped
on return into range, losses taken back. The gate, the handover and the key agreement themselves
are `GksLink` and `SessionKeys`; here they are a flag, a closing and a number.

`NoSilentGap` and `LossIsReal` are stated for packets whose tasks do not overlap each other or a
closing. When they do overlap, two tasks read the same expectation before either writes it, and
the ledger is wrong in either direction; the UAV sends one packet per second, so a station that
is not far behind does not meet this case. `LossIsReal` also leaves out what a failed call or a
restart does to the counters, and one case that came to light in its proof: the hash is deleted
first and the resync flag discarded later (`server.py` 1011, 731), so a packet in between may begin a
new record, a packet held back out of range may raise the flag, and the flag is then discarded with the
old session; the next gap counts what was held back as lost. The run's bounds hide it; without the
change of `disturbed` in `Forget`, one slot and three events show it.

### GksRegistry

One station id, carried either by all replicas of the static Deployment or by one spawned pod.
`HeartbeatRead` and `HeartbeatWrite` are `register_gks`, `PutRead` and `PutWrite` are
`UpdateGksRadius`. A deletion is the sequence of calls of `DeleteGks`, `DeleteGksAsync`,
`TryScaleDownStaticGksDeploymentAsync` and `ForceDeleteMatchingGksPodsAsync`, one action per
call. Instead of a resource version a deletion carries `current`: whether the Deployment is still
as it was read. The `Broadcast...` actions are one round of `BroadcastGksLocationsAsync`, and `shown`
is the station's place in the list the browsers hold. Kubernetes (`Reconcile`, termination with
`Grace`, which `PodEnds` closes), Redis expiry (`ExpireEntry`, `ExpireTomb`) and time (`Tick`) are
external. The unit of time is the 10 s between two heartbeats, and all that happens at one instant of
it happens in any order: that covers every order that fractions of it could make. Assumed: a
request, a heartbeat and a round take less than 10 s; one radius change is under way at a time.

`UpdateGksRadius` asks only whether there is an entry, and so does `PutRead`: the station panel stays open
on a station that has left the list, so an operator may change the radius of a deleted station as
long as its pods' last entry lives, and each change gives it another 30 s. `extended` counts what the
changes begun after a deletion may have added, and `Within` says that the tombstone still
outlives the last heartbeat with all of that. `DeletedStaysHidden` promises a hidden station as
long as `Within` holds: with the code's 30, 30 and 90 s that is until the first such change, so it is about
the terminating pods, the changes already under way when the deletion completes, overlapping
deletions and a broadcast between the calls. `DeletedNeverReturns` is the same
without the condition, as the comments of the code have it, and the run `radius_revival` refutes it.

### FleetView and FleetStore

`FleetView` has three steps: a message arrives, the newest messages of some drones are shown,
some drones are given up. `FleetStore` is the code: `HandleTelemetry` overwrites the drone's entry
in `pendingUpdates`, `FlushTelemetryUpdates` moves all of them into the picture,
`MarkStaleDrones` is the watchdog, `AppendNetworkHistorySample` the sample. `due` counts each
`setInterval` timer down; a timer fires between its time and `Late` units after it. A message is
its number of arrival and the loss it reports, a track the numbers of the messages it was made of.
The refinement maps `shown` to the number of the message a drone is shown by and `live` to
`Live`. `heard`, the time since the shown message arrived, is history: the code only keeps the time
since the flush.

### TerminalStore

`state` is the object the store notifies its subscribers of, `storage` its copy in session
storage, `persistTimer` the timer of `schedulePersist`. Live events get a random identifier (`uid`),
those of the history request the identifier of the event; both reach the log, which keeps
`MaxLogCount` lines. `Reload` forgets timers, messages on their way and throttles, and loads
`storage`. A write may be refused, which the code ignores.

### CommandPath

The panel of the map and the terminal share a hub connection on which calls (`up`), answers
and notices (`down`) keep their order. `Drop` loses what travels; the hub may have taken the first
call and goes on with it (`orphans`). The panel is mounted anew with every selection; what its timers set
after that is lost. `HandleCommandAck` takes every acknowledgement for its own, as the code does.
`InvokeRejected` is the catch of both senders, `RestAnswered` the fallback of the terminal,
whose answer may be lost after the command was published.

### UiConnection

One tab. `hub` is the state the library reports, `starting` who awaits a start: App, or the
retry of `startConnection`, which tells nobody how it ended. `Load` is a document load with App's
effect. Other tabs change the token at any moment; the guard looks when App renders, which it
does every second. The library's reconnection is external and may succeed or end.

### MapConsole

`Select` is every change of the selection, with what it does to the panel of a drone (mounted anew for
each drone) and to that of a station (one mount for all stations). `requests` are those whose
answers would still change something; the answers come in any order. An evacuation is one request
for each drone under one number, which `Promise.all` joins.

## 3. Runs

| Run | Question | Result |
|---|---|---|
| `rate_limiter` | bounded admission and no starvation with clock steps | holds |
| `session_keys` | agreement, make before break, healing | holds |
| `gks_link` | command path, timeout watch, settling | holds |
| `telemetry_intake` | is every packet logged at most once, every number accounted for, every loss real? | holds |
| `fec_recovery` | had a packet that is reported recovered been lost? | violated, without any fault |
| `gks_registry` | does a deleted station stay hidden as long as nobody changes its radius, a living one registered and shown, a dead one forgotten? | holds |
| `radius_revival` | does it stay hidden whatever operators do? | violated, without any failure |
| `fleet_store` | is what is shown live recent, do tracks follow, does the store implement `FleetView`, is silence noticed? | holds |
| `terminal_store` | distinct lines, one announcement, a target that can be chosen, changes that will be saved | holds |
| `command_path` | does the lock open, is a command published twice only by the fallback, are reports true? | holds |
| `ui_connection` | one chain of attempts, a truthful footer, recovery, a guard that works | holds |
| `map_console` | one selection, an armed maneuver, real busy flags, complete evacuations, buttons that return | holds |

The two violated runs check a sentence of the sources. What the code does instead:

* `fec_recovery`, the message in `server.py` 584: the third packet of a group is still in work
  when the FEC packet finds the window with two, and is reported as recovered.
* `radius_revival`, the comments in `DeploymentController.cs` 254 and `RedisSubscriberService.cs` 99: a
  radius change of the deleted station writes its entry for another 30 s. One change is enough
  when the last heartbeat, the change and the broadcast each come at the last moment; with two there is half
  a minute to spare.

### Bounds

* `rate_limiter`: two sources, since a bucket depends on its own source only and two show that
  they do not share; a capacity of a few datagrams and a time of a few refills, so that buckets fill,
  empty, and go into debt by clock steps larger than what they hold.
* `session_keys`: a rotation on every third packet, two faults, two handshake tasks,
  short channels. Two faults give the pairs that matter: a late answer together with a lost one, a
  restart during a rotation, an early timeout with an overtaking task. Ephemeral keys
  are recycled once nobody can hold them, so rotation goes on for ever; there are more of them
  than all places that can hold one, so a fresh one is never missing.
* `gks_link`: two stations, two slots, one event. Two slots let a packet's task run across a
  handover, a timeout or another packet; one event is a move, a restart, a lost or late packet, a
  failing call, a manual handover, or the UAV's end. The geometry has a place near each
  station, one between them within the hysteresis, and one out of coverage.
* `telemetry_intake`: four packets, of which the last three are critical and complete one FEC packet;
  two tasks, so that the FEC packet or a second telemetry packet runs into the first one's; two events,
  so that a repeated packet meets a session made anew, a return into range meets a lost
  packet, and a failing call a restart. `fec_recovery` needs no event at all.
* `gks_registry`: two pod slots, so that a deletion can leave a replica or race the ReplicaSet;
  one deletion at a time, since pods, lost nodes and the ReplicaSet already change the Deployment
  between its calls often enough to exhaust the attempts; one event, which is a failing call,
  a lost pod or a new deployment; the times of the code. The radius plays no part in its properties
  and has one value. `DeletedStaysHidden` holds as well with a `TombTTL` of 10 and of 13, where one
  and two changes of the radius are covered; the theorem has any. `radius_revival` needs
  one pod and no event.
* `fleet_store`: two drones and three messages, so that one drone is flushed while the other is
  given up, and a message overtakes one that waits; intervals of 1, 2 and 2 with a lateness of 1, so that the
  timers meet in every phase; a track of two points and a history of one, so that both are cut.
* `terminal_store`: one drone, two events of which one is throttled, a log of three lines and three random
  identifiers, so that the log is cut, cleared and met by the history answer after a reload in any state.
* `command_path`: three commands over two buttons, so that the timers of two earlier commands meet
  a third; one loss of the connection; times of 3 and 2 in place of 5 s and 3 s, whose ratio keeps the
  order of the timers.
* `ui_connection`: no constant and no bound; every timer count that can occur does.
* `map_console`: two drones and two stations, so that an answer finds another selection; three requests,
  so that a deletion, an evacuation of two drones and one more overlap; one waypoint.

### Deadlock

`MCGksLink.cfg` switches the deadlock check off: once the UAV is gone and forgotten nothing is
left to do. `MCTelemetryIntake.cfg` and `MCFecRecovery.cfg` do, because the UAV stops after `MaxClock`
packets. The other runs check it.

### Fairness

`SessionKeys`, `GksLink` and `GksRegistry` assume weak fairness of the loops that the code runs for
ever: the UAV's main loop, the station's event loop with its tasks, the timeout checker, and the
passing of time that lets a timer, a key of Redis or a grace period expire. Nothing that spends a
fault or an event is fair, so the
liveness properties say what happens once faults are over. Operators are never obliged to
act, and the liveness of `GksRegistry` is stated for operators that leave the station alone in
the end. The passing of time in `GksRegistry` is strongly fair, because the broadcaster may make
any number of rounds in one unit of it.

In the browser the interval timers, due timers and pending answers are weakly fair
(`FleetStore`, `CommandPath`, `UiConnection`, `MapConsole`), and so is the hub's execution of a call that
reached it: all of them are callbacks an event loop runs. A REST request is answered or fails in the end
(`MapConsole`); `CommandPath` does not even assume this of the fallback, whose properties are safety.
No operator, network or other tab is fair. `Reconnects` is conditional: it speaks of a server that
stays reachable with a token it accepts.

## 4. What is proved

`GksSecurityProofs`, the limiter: `RateLimiterTypeOK`, `RateLimiterBound` and `RateLimiterQuiet`, for every
capacity, rate, cost and set of sources, and without bound on time. The invariant relates the tokens of a source to
what passed since the window opened: `PaidInv` says that passed datagrams and remaining tokens
together never exceed the bucket plus the refill for the time up to the last update; `DebtInv` bounds the debt
by the skew that existed at the last update; `FreshInv` describes sources without a bucket.

`GksSecurityProofs`, the keys: `KeysTypeCorrect` and `FaultFreeKeysAgree`, for every rotation threshold
above one, every length of the channels and every number of handshake tasks. The type invariant
(`UavInv`, `GksInv`, `ChannelsInv`) holds the reason why a fresh ephemeral key exists: the keys
in use are those in the slots of the two ends and their channels, which are fewer than `MaxEph`.
Agreement is inductive only as a succession of situations (`FreeInv`): nothing has happened (`Started`), a first
request or its answer is under way (`RequestUnderWay`, `ResponseUnderWay`), or both ends have a
session and a rotation is idle, asked for, in work or answered (`Secure`: `Quiet`, `Asked`, `Working`, `Answered`).
In each it is known what the channels carry, in particular that telemetry arrives in the order in which
its keys were in use (`TelemetryInOrder`).

`GksMakesBeforeItBreaks` (`MakeBeforeBreak`) is about one fault more, at any moment and of any kind. Its invariant has
two parts. `Counts` strengthens the fault-free situations by the packets that separate two rotations: at
most one is sent while a rotation is open, and until the new key is promoted the first packet that
uses it, or two of them before the next request, are on their way. `OneFault` describes what the
fault leaves. Before a session (`Connecting`) there is nothing of a handshake under way, one request, one answer,
or, when the UAV gave up early, both an old and a new attempt (`Doubled`). With a session (`Going`) a handshake request
still there is one whose answer cannot take away the UAV's key (`NoLateHandshake`), a rotation has at most one request
or answer anywhere (`OneRekey`) and it is about the ephemeral key the UAV holds (`RekeyIsPending`), no telemetry promotes
a key the UAV does not use (`NewKeyUnused`), and a pending key that is used is promoted before a next
request is answered (`PromotedFirst`). A lost or late packet is treated once for both channels and both
kinds: `Place` says where each packet of the new channel stood in the old one. The theorem assumes a
threshold above two, more than the module does, and TLC shows why: with 2, the one telemetry
packet between two rotations is lost, the new key is not promoted, and the answer to the next request
replaces it among the pending keys. The code has 100 (`REKEY_PACKET_THRESHOLD`), the run 3.

`GksLinkProofs`: `GksLinkTypeOK`, `GksLinkCommandPath` and `GksLinkTimed`, for any set of
stations, any geometry and any number of tasks and events. The inductive invariant adds to the
two properties that every task in work knows its station, its position and, where it takes over or hands on, its
peer: without that the effect of a step of the gate would be unknown. The proof has one lemma per group
of actions; all steps but those of the gate, the release, the timeout and the passing of time leave
the variables concerned unchanged.

`TelemetryIntakeProofs`: `PacketsLoggedOnce`, `NumbersAccountedFor`, `LossesAreReal` and
`IntakeTypeCorrect`, for any number of packets, tasks and events. The first is not inductive alone: what makes the replay check work is `Fresh`,
that a packet in flight under the key of the session and above the replay clock is neither logged nor carried
by a task that will log it; `Past` says that nothing in flight is ahead of the UAV, so that a new
key has nothing in flight. For the second, `InStep` says what the task at work still owes the
ledger at each of its positions; `overlapped` in the property is what makes that task the only one.
For the third, `Steady` says that sequence numbers never run ahead of the clock: a gap of n numbers
is one of n timestamps at least. `Books(m)` then says that nothing above the timestamp `m` was accepted,
that the losses counted fit into the unaccepted timestamps up to `m`, that the task in work
has room for those it will count (`Owes`), and that, when none is in work, the expected number is no
further back than the clock allows (`Behind`). `LimitsInv` adds to the first two invariants what the
types need: the lengths of buffers and window, and the numbers within the bound.

`GksRegistryProofs`: `TypeCorrect`, `RunningStaysRegistered` and `DeletedIsHidden`, for any number of pods,
deletions, radii, radius changes, attempts and events, and any times with an entry that outlives two
heartbeats and a tombstone that outlives entry and grace period together. The type invariant needs that a deletion whose
Deployment is `current` has read the replicas it still has. `EntryHolds` bounds how old the
entry can be by the heartbeats its pod has made and missed. `HiddenInv` says of a completed
deletion that no replica is wanted, that every pod still there is terminating with less left than the tombstone
(`PodsEnd`), and, while `Within` holds, that the tombstone outlives the entry and the radius change under
way with what is counted in `extended`, so that a round that finds no tombstone finds nothing
that could write an entry either (`Outlived`, `Dead`).

`FleetStoreProofs`: `FleetTypeCorrect`, `ShownLiveIsRecent`, `TracksFollow` and `StoreImplementsView`, for every set of
drones, interval, limit and lateness. `Clocked` adds the age of a drone to the time its timer has
left, `Ordered` says that what waits is newer than what is shown; the refinement follows from both and
maps a flush to `Show`, a round of the watchdog to `Lose` and the rest to stutters.
The types say that each sample is a percentage, which rests on the sum of the losses. The
library defines that sum by recursion over a set, so neither its existence nor its bound comes with it: `SumsExist` and
`LossSumBounds` prove both by the least counterexample, a set of drones of the smallest size for which they fail.

`UiProofs`, the page: `PageTypeCorrect`, `ChainIsOne`, `FooterIsTruthful`; the two properties and the types are inductive
together. `MapConsoleProofs`: `TypeCorrect`, `NeverBoth`, `AlwaysArmed`, `BusyStaysReal`,
`EvacuationIsComplete`; `Bookkept` ties requests to numbers, panels and refused evacuations.

`CommandPathProofs`: `PanelNeverStuck` (inductive with the types of what it reads alone),
`AtMostTheFallback`, `ReportsAreTrue` and `TypeCorrect`; the invariant says of each command
where it can be, and how often it can have been published there.

`UiProofs`, the terminal: `TerminalTypeCorrect`, `TargetStaysOffered`, `LinesAreDistinct`,
`DronesAnnouncedOnce` and `ChangesWillBeSaved`, for any number of drones, events and reloads. The
invariant `Good` is one of a whole state and of the number of identifiers drawn: identifiers in the log
are distinct and below that number, a drone is announced once and then listed, the target is on
the list. It is kept by every change of the state and holds of the saved copy too, which is what makes it
survive a reload.

The assumptions are the named ones on the constants and, for `GksMakesBeforeItBreaks`, the larger
threshold; nothing else is assumed.

Every invariant and every action property of the passing runs is proved. Liveness is out of the prover's reach
and only model-checked: `LinkHeals`, `LinkSettles`, `LivingShown`, `DeadForgotten`, `SilenceShown`,
`LockOpens`, `Reconnects`, `GuardWorks`, `ButtonsReturn`.

## 5. Refuted statements

These are statements a reader of the code could expect. Each is defined in its module; TLC refutes it when
it is added to the configuration given. No run keeps them. Two contradict a comment, which their row
names; the others are promised by no sentence of the sources.

| Statement | Module and configuration | What TLC shows |
|---|---|---|
| `CommandsReadable`: without faults every command can be decrypted | `SessionKeys`, as `MCSessionKeys.cfg` with `MaxFaults = 0`; INVARIANT | a command encrypted with the active key meets a UAV that has switched to the pending one (`crypto_manager.py` 77) |
| `SparesOtherStations`: a timeout ends only sessions of silent UAVs | `MCGksLink`, SPECIFICATION `Spec`, `MaxEvents = 0`; PROPERTY | a packet of before the release reopens the path at the station that has given the UAV away, and its timeout later closes the other station's session (`server.py` 371, 723) |
| `SilentSessionsClose`: the session of a UAV that falls silent ends | `MCGksLink`, SPECIFICATION `FairSpec`, `Slots = {1}`, `MaxEvents = 2`; PROPERTY | out of coverage the gate removes the clock the timeout reads (`server.py` 298) |
| `RadiusKept`: a heartbeat preserves the radius, as `repository.py` 239 has it | `GksRegistry`, as `MCRadiusRevival.cfg` with `Radii = {50, 60}`; PROPERTY | a heartbeat writes back the entry it read before an operator's change (`repository.py` 242) |
| `LockedWhileDispatching`: the buttons are locked while a command of the panel is on its way, as `useTacticalCommand.js` 34 has it | `CommandPath`, as `MCCommandPath.cfg` with `MaxCommands = 2`; INVARIANT | the panel takes the acknowledgement of a command of the terminal for its own (`useTacticalCommand.js` 11-12) and is unlocked while its own call is on its way; no timer and no loss is involved |
| `SuccessMeansGone`: a deletion that reports success removed something | `GksRegistry`, as `MCGksRegistry.cfg`; INVARIANT | a scale-down that gave up is reported as success (`KubernetesOrchestratorService.cs` 714) |

Known limits of the code that no model needs to show: the dictionary of limiters (`server.py` 403) and
the UAV's map of unacknowledged packets (`UdpTransceiver.cpp` 203) only grow; two first packets of a
UAV may both insert a flight session, since EXISTS, INSERT and HSET are separate
(`repository.py` 65; two tasks do this in `GksLink`); an update after a closing makes a hash
without a session (`repository.py` 127; `Touched` in `TelemetryIntake`); a release forgets the last
handover attempt (`server.py` 1009; in `GksLink`); commands published while a listener subscribes again
are lost (`server.py` 870); a Redis failure between the two changes of a deletion leaves no tombstone
(`DeploymentController.cs` 257; in `GksRegistry`).

## 6. What is not modelled

Cryptography is ideal, packets are well formed and genuine. Positions are members of a small set.
The scripts, the deployment files and the third-party `get_helm.sh` have no behaviour
of interest. Authentication and the validators check one request at a time and keep no state.
The Docker mode of the orchestrator, spawning, and the readers of the registry in the geofence and in
the choice of a UAV's first station are calls without state of their own. The flight model is floating-point
kinematics. The health worker samples counters with a hysteresis for its alerts. Operational
events are published and stored, and read back only by the history request of `TerminalStore`.
What a station's listener does with the command stream is left out but for the manual handover, which is
an action of `GksLink`.

Of the browser: the console screen, the analytics page and the page frames filter, format and draw what
the stores hold; the radius slider keeps no state another part reads (its requests are in `GksRegistry`), nor do the
hand-over button of a popup and the drawing of the map; the list of stations is replaced whole by each broadcast.
