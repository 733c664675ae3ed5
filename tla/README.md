# Irnetfree Xray client: TLA+ models and proofs

The application connects a machine to the internet through a proxy core (Xray
or sing-box) that it starts as a child process.  On the way it changes things
that outlive it: the Windows system proxy, the resolvers of the network
adapters, firewall rules, routes, files.  The code that does this is one
JavaScript thread of asynchronous functions which overtake each other, call
external programs that fail or time out, and may be killed at any await.  What
has to hold across all that - the user gets back what they had, nobody is left
offline, a disconnect means disconnected - is what this project states, model
checks with TLC and, where the prover reaches, proves with TLAPS.

Paths are relative to the root that holds `src/`; `main.js:2277` stands for
`src/src/main/main.js`, line 2277, and likewise for its siblings.

## Contents

1. The parts of the system (inventory)
2. How they interact, and what is hard
3. The modules, and how they correspond to the code
   (SysProxy, NetWatcher, Connection, LeakGuard, Store, Usage, KillSwitch and
   Router, LanRules and LanUsers, Relay)
4. The runs, their bounds, and what they show
5. Fairness
6. The proofs
7. What the models found
8. What is not modelled, and why
9. The plan

## 1. The parts of the system

Modelled, in whole or in part:

| part | code | state it keeps | operations | correct when |
|---|---|---|---|---|
| System proxy and its journal | `sysproxy.js` | three registry values; the journal file of what they were; a queue | enable, restore, launch repair, exit hook | the user gets their own proxy back, and no machine stays aimed at a dead port |
| Network watcher | `netWatcher.js` | the baseline fingerprint, the one still moving, a lock, a queued trigger, a generation | start, stop, tick, poke, fire, settle | every change seen is followed by one recovery, never two at a time |
| Connection life cycle | `main.js`, `xrayManager.js`, `dropBudget.js` | `connGen`, the active server, the core process, the tunnel, the kill switch, the recovery lock, timer and budget | connect, disconnect, apply settings, recover, drop | a disconnect leaves nothing behind; a connection is never dead in silence; one core |
| Leak guard and its watch | `leakGuard.js`, `dnsGuardWatch.js`, `tunnelCleanup.js` | resolvers of the adapters, firewall rules, the state file, a queue, receipts | engage, block UDP, hold, refresh, release, repair | the user's resolvers are kept, the guard stands while the connection does, and ends with it |
| Settings store | `store.js` | one JSON file and the `.tmp` beside it; the values in memory; a lazy timer | load with recovery, set, setLazy, flush, save | what a save reported is what the next launch finds, or something later, or the launch says that it could not read |
| Usage meter and data caps | `usage.js`, `stats.js`, `multiWanMeter.js`, `capPeriods.js` | readings of the core's counters, totals by config, bytes of the day by internet, the links a build left out | tick, reset, settle, roll, reload at a cap, save | every byte counted once over cores that come and go; a cap is followed |
| Router: kill switch and service | `src/src/server/service.js`, `killSwitchOpenwrt.js`, `tunOpenwrt.js`, `wanWatch.js`, the boot script `irnetfree-ks.init` | the intent to be connected, the nft table and its snippet, the queue of passes, the gateway, the core, recovery, watchdog | connect, disconnect, reconnect, recover, arm, disarm, verify, boot | armed exactly while a connection is meant; an off is off; never left dead |
| LAN users | `src/src/modules/lanUsers/` | users with limits, routing and filters; bytes by kind; the snapshot and the signature of the build a core runs | poll, count, hold, build, edit, top up, reset, reload | bytes counted once; limits enforced and lifted; traffic decided by the user's own rules |
| Remote access and relay | `src/src/server/remote/agent.js`, `ws.js`, `frames.js`; `src/relay/server.js`, `lib/proxy.js` | the agent's link, its dial state and streams; the relay's routers, links, streams and page cache; two ends and the frames between them | dial, attach, carry a request, cancel, close, stop, set anew, revoke, restart | one link for a router, which comes back; every answer its own; no end of a stream outlives the other |
| In-place reload of the core | `main.js` (2333-2415), `groupEvict.js`, `groupLive.js` | `reloadChain`, `xrayReloading`, a generation | queue, build, validate, give way, replace the core, report its loss | one at a time; no core beside another or after a disconnect; a core lost is a drop |

Not modelled yet, or not at all (section 8 says why):

| part | code | what it does |
|---|---|---|
| Multi-internet | `multiWan.js`, `netLinks.js` | several uplinks, the choice among them, what happens when one goes |
| TUN backends | `tunManager.js`, `tunSingbox.js`, `tunPlatform.js`, `tunOpenwrt.js`, `nativeMacTun.js` | the virtual adapter, its routes and their repair |
| macOS network recovery | `macRecovery.js`, `macSessionLock.js`, `macSessionOwner.js` | the same promises as the leak guard's, on macOS services |
| Core configuration | `configBuilder.js`, `singboxBuilder.js`, `dnsBuilder.js`, ... | settings to the cores' JSON |
| Share links and imports | `parser.js`, `jsonImport.js`, `routeShare.js`, `deepLink.js` | text formats to server records |
| Groups and routing profiles | `groups.js`, `routingProfiles.js`, `routeWatch.js` | references between saved records: chains, bases, profiles |
| Engines and core checks | `engines.js`, `engineChoice.js`, `coreCompat.js`, `latencyTest.js`, ... | which core runs, and probes of it |
| Subscriptions and asset updates | `subscription.js`, `downloader.js`, `assetUpdater.js`, `appUpdate.js` | downloads, and replacement of files in use |
| WARP registration | `warp.js` | calls of an HTTP service |
| Traffic by site and by app | `siteUsage.js`, `connectionsWatch.js`, `procRouter.js` | statistics, lists for the configuration |
| Desktop shell | `preload.js`, `renderer/app.js`, `autostart.js`, `backup.js`, ... | window, tray, IPC |
| Android client | `src/android/` | a second program, in Kotlin |

## 2. How they interact, and what is hard

`main.js` owns the connection and calls everything else:

- a connect (`connectOnce`) stops the running core, starts a new one
  (`XrayManager`), starts a tunnel, engages the leak guard or sets the system
  proxy, starts the network watcher, and announces the result;
- the network watcher, a wake from sleep, a retry timer and the `exit` event of
  a core or tunnel call back into `recoverFromNetworkChange` or
  `onConnectionDrop`, which tear down and connect again;
- the window calls connect, disconnect and settings apply at any time; there is
  no lock: the newest call wins, and an older one has to notice (`connGen`,
  `stale()`) after each of its awaits;
- the system proxy and the leak guard each serialise their own operations in a
  promise queue, and each keeps a file by which the next launch repairs the
  machine after a crash;
- the exit hook runs a synchronous release of both, overtaking the queues;
- a poller reads the core's counters each second and hands them to the usage
  meter, the caps of the internets and the meter of the LAN users; the last two
  ask for a reload of the core (`queueReload`, one at a time), which gives way
  to any connect or disconnect that comes meanwhile;
- what they count is written through the settings store, lazily.

`server/service.js` is the same thing for a router without a window: connects,
rebuilds and recoveries over a gateway instead of an adapter, with the kill
switch of the kernel driven by a queue of its own and replayed by a boot script.

The router's agent and the relay are two processes that share one WebSocket and
otherwise know nothing of each other: each believes in a link until a frame, a
close or 75 s of silence says otherwise, and each keeps its own map of streams.

So what is hard is: functions overtaken between two awaits, belief
(`killEngaged`, `xray.proc`, `_token`) against the machine, commands that fail
half-way or land after they timed out, crashes between the record and the
change, late `exit` events of processes already replaced, retries that race
with the disconnect that ends the wish for them, readings of a core taken for
another's, and snapshots of a build that was made and never ran.  `PROJECT.json` lists these
hazards at their lines, each with the properties that would notice.

## 3. The modules

Each component has a module `X.tla` with the state, the actions
and the properties, a module `MCX.tla` that gives it small sets and scenarios,
and configurations `MCX*.cfg`.  Theorems are in `XProof.tla`, those of SysProxy,
NetWatcher and Store, which stand by themselves, in `ClassesProof.tla`, and those
about Connection that leave a history out in `ConnectionHistoryProof.tla`.  Two modules
compose: Router extends KillSwitch, whose actions its own call, and LanUsers
extends LanRules, whose rules its cores route by.  Some definitions
are variants of another one (`FireDropping` of `Fire`, `RetriedNever` of
`Retried`): plausible errors of the code.  No specification uses them; each one,
put in the place of the original, violates the property that `PROJECT.json`
pairs it with, which shows that the property would notice.

### SysProxy

One registry (`reg`: switch, server, bypass list), one journal file, a listener
per port, a process that is up or down, a queue of operations (`serial`) and the
running operation with the step it is at.  Every `reg` command is a step of its
own (`Command`): it lands and succeeds, or fails having landed or not
(the timeout of sysproxy.js:50).

| code | actions |
|---|---|
| `enableJournaled`, `enableWindows`: snapshot, journal, server, list, switch | `BeginEnable`, `JournalWriteFails`, `EnableServer`, `EnableList`, `EnableSwitch` |
| `restoreJournaled`, `ownsWin`: does the record own the machine's proxy? | `NothingToRestore`, `NotOurs`, `BeginRestore` (`OwnsInSession`) |
| `runWinRestore`: off, server, list, on only if nothing failed | `RestoreOff`, `RestoreServer`, `RestoreList`, `RestoreSwitch`, `FinishRestore` |
| `repairSystemProxy`, `probeListener`: port probe, record, what an older build left | `Launch`, `NotOursAtLaunch`, `BeginLaunchRestore`, `LaunchWithoutRecord` |
| callers in `main.js` | `Connect`, `CoreStops`, `Disconnect`, `GiveBack` |
| `restoreSystemProxySync` with its budget; a killed process | `ExitHook`, `BudgetSpent`, `Crash` |
| the user, another proxy client | `UserSetsProxy`, `UserSwitchesOff`, `ClientStarts`, `ClientEnds` |

`users` is a history variable: the proxy somebody other than us last chose.
`edited` says that it was chosen while a record existed; the code cannot know
what such a user wants back, and the properties do not either.  `torn`, another
history variable, says that a restore was cut short between its commands or one
of them failed, or the first one of an enable over an older one that had stopped
halfway: from then on the user's proxy may be disowned (section 7).
Two constants switch on situations in which properties are known to fail:
`SilentProbe` (the port probe times out) and `EarlyConnect` (a connect starts its
core before the launch repair has run).

### NetWatcher

`last`, `pending`, `settledFor`, `moved`, `busy`, `queued` and `gen` are the
fields of class `NetWatcher`; a fingerprint is a value of `Nets`, or `NoNet`.
`Start`, `Stop`, `Tick` (with `fire`), `Poke`, `RunSettles` are its methods.
Recoveries in flight are the set `runs` of the generations they began in; a
recovery may settle within `fire` (the caller's guard returns at once), later,
or never (`Hangs`).  `Move` changes the network between two polls, also there
and back.  `owed` is a history variable: a poll or a poke saw a change, and no
recovery began since.

### Connection

A task is one call in flight: `pc` is the place it runs or waits at, the other
fields are its local variables (`myGen`, `armed`, `ownCore`, `myTun`, ...).
`turn` is the task that runs without having awaited yet, so that the code
between two awaits is one run of steps nobody interrupts, and an await is where
any other task or event may come in.  A wait for an exit or for a promise that
settles resumes before new events (`Resumes`), as microtasks do.

| code | actions |
|---|---|
| arming and disarming the kill switch, the belief and the `netsh` calls | `KillSwitch` |
| `connectOnce` with its awaits, and `XrayManager.start` and `stop` | `ConnectOnce` |
| `reapplyConnection`: teardown, rebuild, failure | `ReapplyConnection` |
| connect, disconnect and apply of the window | `UserCalls` |
| `recoverFromNetworkChange`, `runRecovery`, lock, queue, backoff timer | `Recovery` |
| `onConnectionDrop`, `DropBudget`, give-up | `OnConnectionDrop` |
| `doDisconnect` | `DoDisconnect` |
| `queueReload`, `rebuildActiveConfig` | `InPlaceReload`, with `Start` and `Starting` |
| exits of cores and tunnels | `CoreExits`, `TunnelExits` |

Cores are numbered as they are started, so that two cores at once can be told
apart.  `rule` is the firewall, `engaged` the belief about it.
`proxy` is what the queue of system-proxy operations will leave behind.

Who asks for a reload, and what for, is in Usage and LanUsers.  `astray` and
`unseen` are history variables: cores of a reload that was overtaken, or that it
and a connect displaced for each other, and a core that died, hidden by
`xrayReloading`, while nothing in flight looks for it (section 7); the properties
except exactly these.

### LeakGuard

The machine is `dns` (each adapter on the user's own resolvers, on the hold
127.0.0.2, or on automatic ones after a reset that had no list to set, or that
stopped before it was set), the adapters that are `present`, and `rules`.  `file` is the state file.  The operations
stand in `queue`; the first one runs, in steps where it awaits: `first`
(synchronous claims and the snapshot), `lift` (rules of a stricter session),
`apply` (the resolvers), `rules`.

| code | actions |
|---|---|
| `engage`, `engageUdpBlock`, with a script that fails after any part of its work | `Engage` |
| `holdForReconnect` | `Hold` |
| `refresh` of the watch, quick and full | `Refresh`, `Tick` |
| `release`, `releaseSync`, `repairAtLaunch` | `Release`, `Exit`, `Launch` |
| the connects, applies, recoveries, disconnects, and the repair button | `MainCalls` |
| a killed process, in the middle of a script | `Crash` (`CutOff`) |
| other programs, unplugged adapters | `Drifts`, `Plugs` |

A connect goes through the places of `Places`, as far as the guard matters: a
tunnel that starts, an engage that waits in the queue, the gate that asks
whether it was overtaken (`Settle`).  `strays` is a history variable: adapters
that were away when their resolvers were to be put back.

A release is one script, and may stop anywhere (`RestoreStops`): the rules go
first, then each adapter is reset to automatic resolvers and, by a command of its
own, set to its recorded list (leakGuard.js:461 and 466).  A release that fails, one
that is killed with the process and the exit hook's own can all leave an adapter
between the two.

### Store and DurableStore

Store is one file of the class `Store`: `file` and `tmp` on the disk (missing,
torn, or whole with what it holds), `data` in memory, `lazy` (the timer is
armed), `step` (what a save has done), `loadError` and `saveError`.  A save is
synchronous, so only the death of the process and errors of the file system
come in between its steps.

| code | actions |
|---|---|
| `set`, `assign` | `Set` |
| `setLazy`, its timer, `flush` | `SetLazy`, `WriteLazy` |
| `save`: truncate, write and fsync, rename, the failure of any of them | `SaveOpen`, `SaveSync`, `SaveRename`, `SaveReturn`, `SaveFails` |
| `load`: the file, a `.tmp` with no file, an unreadable file moved aside | `LoadFile`, `LoadFirst`, `LoadUnreadable` |
| the death of the process | `Dies` |

DurableStore is what the owner of a file relies on, with no files in it: a value
reported saved is the one the next launch finds, or one begun later, unless that
launch says that it could not read.  `KeepsPromise` is the refinement
(`Promise == INSTANCE DurableStore WITH ...`).  `reported` and `attempted` are
history variables.

### Usage

`totals`, `prev`, `tagMap`, `dirty` and `age` are `UsageMeter`; `used`, `qprev`,
`built`, `qdirty`, `qage`, `reloading` and `cooling` the quota of the internets
(`createMultiWanQuota`); `polling` and `reading` the poller with an answer on
its way; `op` and `queued` the operation that builds a core and who waits for a
reload; `kept`, `held` and `lazy` the usage file on the disk, in memory and
waiting.  `core` says whose it is, what it carried and (history) what of that a
poll has counted.

| code | actions |
|---|---|
| `StatsPoller.tick`, `UsageMeter.tick`, the quota's `tick` and `settle` | `PollReads`, `PollLands` |
| `doConnect`, `reapplyConnection`, `queueReload`, `rebuildActiveConfig`, giving way | `Connect`, `Reapply`, `WatchAsks`, `ReloadBegins`, `CoreStarts`, `GivesWay`, `Ready` |
| `doDisconnect`, `teardownForQuit`, `usage:clear` | `Disconnect`, `Quit`, `Clear` |
| the launch, the lazy timer | `Launch`, `LazyTimer` |
| traffic, a core's death, a crash, midnight, a setting that waits for Apply | `Carry`, `Die`, `Crash`, `NextDay`, `Edit` |

### KillSwitch and Router

KillSwitch has the kernel's `table`, the `snippet` the boot script replays, what
the service remembers (`armed`, `present`), the `intent` to be connected, the
settings, and `ksQueue` as `passes` with the `step` the first one waits at: a
pass reads the wish when it runs, not when it was asked for.  `covered` (the LAN
was told to be covered, and nothing lifted that) and `stuck` (nft refused
something, and has taken nothing since) are history variables.

Router is `service.js` on OpenWrt around it.  `svc` is the service's memory: the
active server, the core and the gateway with the call that made them, the calls
in their `Slots` with the place each waits at (`pc`), the recovery's lock, queue
and timer, drops still to come, the disconnect's place, the boot connect, the
WAN judge and the watchdog of the tunnel.

| code | actions |
|---|---|
| `syncKillSwitch`, the nft table, its check, `gateBootIntent`, the boot script | `Queued`, `PassBegins`, `Check`, `Load`, `Armed`, `Disarm`, `GateBootIntent`, `Crashed`, `Rebooted` |
| `connectOnce` and `XrayManager.start` | `Prepared`, `Checked`, `Spawned`, `Started`, `ArmedFor`, `GatewayDown`, `PortOpen`, `ComesUp`, `Connected` |
| what a call does when it fails or was overtaken: `abortGateway`, giving way | `Ends`, `GivesWay`, `LateStopped`, `Aborted`, `Failed`, `HandedOver` |
| `reapplyConnection`, `runRecovery`, `recoverFromDrop`, `recoverFromNetworkChange` | `Reapplies`, `TunsTorn`, `CoreTorn`, `Attempt`, `Drop`, `Unlocks`, `Retries`, `Fires` |
| `doDisconnect` and its awaits | `Disconnect`, `TearsDown`, `StopsCore`, `IsDown` |
| the WAN judge, the watchdog | `Judges`, `WanJudged`, `WatchAsks`, `WatchHears` |
| deaths, stalls, WAN changes, crash and reboot | `CoreDies`, `GatewayDies`, `Stalls`, `WanChanges`, `Restarted` |

Router says in `SwitchKept` that it does to the kill switch only what KillSwitch
says of it: what is checked and proved about KillSwitch under any callers then
holds in the router.  Some orderings are taken from the length of what is waited
for: the tick of a drop and the teardown of a disconnect are over before a
core's grace ends, an overtaken teardown is over before a core has started,
those who wait for a core's exit resume in the order they came.

### LanRules and LanUsers

LanRules is the ordered rule list `xray.js` writes for each user: filter, safe
search, private and Iranian ranges or a profile's rules, and the catch-all, with
the user's hold applied; ahead of them the guard of the machine's loopback,
after them a block.  A destination is the set of traits the rules tell apart; an
outbound is what it is to its user and whose it is.  `Route` is where the core
sends a user's traffic: the first rule that matches.

LanUsers is the meter, the admin's edits and the reload, on the desktop.

| code | actions |
|---|---|
| `lanusers:user`, `lanusers:config`, `topUp`, `resetUsage`, with `saved` and `catchUp` | `Update`, `Delete`, `TopUp`, `ResetUsage`, `Config` |
| one poll: `meter.tick` (roll, fresh, carried, settle), `flush`, `catchUp` | `Tick`; `Cools` is RETRY_MS passing |
| `forBuild`: the signature, the snapshot, the holds | `ForBuild`, in `ReloadBuilds` and `ConnectBuilds` |
| `requestReload`, `queueReload`, `rebuildActiveConfig` | `TimerFires`, `ReloadBuilds`, `ReloadEnds`, `NextReload` |
| a connect or recovery, a disconnect | `Connect`, `ConnectBuilds`, `ConnectEnds`, `Disconnect` |
| the core's counters, two of which a reading may catch apart | `Carry`, `CatchesUp`, `OwnersTraffic` |
| midnight, hours, expiry, a gap in the polls, a pending setting, a crash, the lazy save | `Around`, `Crash`, `Lands` |

`live` and `pendingBuild` are the meter's memory of the build, `liveSig` that of
`ipc.js`; both are written when a build is made.  History variables: `due` and
`unread` (what the core counted, read and not yet read), `misread` (a reading
was taken for another core's that was not, or the reverse) and `misled` (the
meter holds to a build that no core runs).  Bounds of the model: one connect and
one reload at a time, `forBuild` and the start of a core one step each, a reload
over before RETRY_MS has passed, blocked traffic not counted, the DNS rules
ahead of the users' left out.

### Relay

A socket is a record with its two ends, which close one after the other
(`"open"`, `"closing"`, `"gone"`), and the frames in flight each way; a cut one
drops them and tells nobody.  `agent` and `streams` are the variables of
`createRemoteAgent`, `relay` the router's record, its entry in `links` and its
page, and a request is the relay's stream with what its browser was given.

| code | actions |
|---|---|
| `attempt`, `online`, `scheduleRetry` | `Dials`, `Accepts`, `Lands`, `DialFails`; `TenMinutes` is DIRECT_RETRY_MS passing |
| `stop`, `reconfigure`, `start`, the process | `Stops`, `Reconfigures`, `Starts`, `Restarts` |
| `onFrame`, `openStream`, the web UI, pause and `drain` | `AgentHears`, `Begins`, `Unanswered`, `Gives`, `Ends`, `Drains` |
| `proxied`, `Link.request`, `_drop`, `_fail` | `Asks`, `Uploads`, `Leaves`, `TakesTooLong` |
| `onUpgrade`, `attach`, `_onMessage`, the cache | `RelayHears` |
| ends of a socket, keepalives, HELLO_WAIT_MS | `AgentFinishes`, `RelayFinishes`, `AgentSilent`, `RelaySilent`, `HelloMissing` |
| revocation, shutdown of the relay, the network | `Revokes`, `RelayRestarts`, `Cut`, `Shifts` |

A page carries the version of the router's process that made it, so a page kept
too long shows.  Bounds of the model: one router, one page, one chunk per
answer, a version that is 1 or 2.  History variables: `over` (the version of the
link a request went to), `got`, `made`, and `strayed` (section 7).

## 4. The runs

Bounds are in the guards (`MaxFaults`, `Happens`, `Spend`), never in state
constraints, so every behaviour that is explored is a whole one; the one
exception is the queue of `killswitch`, cut at three passes (`FewPasses`).

| run | question | bounds |
|---|---|---|
| `sysproxy` | does the user get the proxy back, whatever fails, crashes or changes? `Recognised UsersProxyInForce RecordIsUsers RecordedFirst DeadProxyRepaired` | 2 ports, 1 foreign server, 1 fault, 1 change by others, one operation running and one waiting |
| `netwatcher` | is every change seen recovered, one at a time? `LockIsTheRuns NothingLost ChangesRecovered` | 2 networks and none, polls of 3 s, settling 4 s, 4 moves, 2 pokes, 2 stops |
| `connection` | do overlapping calls leave what they should? `DisconnectedIsClean ConnectedIsOpen OneCore NeverSilentlyDead DisconnectPrevails` | 3 calls in flight, 1 retry, 1 allowed drop, scenarios below |
| `connection_cores` | violation: two connects over an older core. `OneCore` | 3 connects |
| `leakguard` | are the resolvers kept, and is the guard there exactly while it should be? `OriginalsKept RulesRecorded DisconnectGivesBack GuardStands DriftRepaired` | 2 adapters, 3 connects, full recheck every 2nd tick, scenarios below |
| `store` | is what a save reported what the next launch finds? `NeverOlder KeepsPromise LazyLands` | 2 keys of 2 values; nothing else is bounded |
| `usage` | is every byte counted once and every cap followed? `EveryByteOnce CleanMeansSaved HeldToWhatRuns CapsFollowed` | 2 configs, 2 internets, one with a cap of 1 byte, a save every 2 polls, 9 scenarios |
| `killswitch` | is the LAN covered exactly while a connection is meant? `CoveredHolds OffIsOpen Rearmed` | 2 servers, 4 scenarios, 3 passes; the timer asks only of an empty queue |
| `router` | is an off an off, and is nothing left dead? `OffIsDown NeverLeftDead ArmedFirst Healed SwitchKept` | 2 servers, 3 calls in flight, 13 scenarios; settings chosen where something depends on them |
| `router_off` | violation: a connect passes its grace while a disconnect waits for the kill switch. `OffIsOff` | 2 connects, 1 disconnect |
| `lanusers` | are bytes counted once, limits enforced and lifted, rules the user's own? `Counted RoutedAsMeant Enforced` | 2 users, 1 server, 1 group, limits of 1 or 2 bytes, 9 destinations, 11 scenarios |
| `relay` | one link, the right answers, and no end left behind? `NewestHolds OwnAnswer EndsAgree Relinked` | 2 sockets at a time, 2 requests, 1 router, 21 scenarios of one or two happenings each |

### What the properties say

- `Recognised`: no failed or timed-out write, port change or crash leaves a
  server of ours on the machine that the record would disown.
- `UsersProxyInForce`: with no record left and nothing running, programs see the
  proxy that somebody other than us chose last.
- `RecordIsUsers`: the record never adopts our own proxy as the user's.
- `RecordedFirst`: no step changes the machine before the record exists.
- `DeadProxyRepaired`: the promise that survives torn restores.  It speaks of the
  launch that finds a recorded proxy dead, and of no further fault.
- `LockIsTheRuns`: the watcher's lock is held exactly while a recovery of the
  current generation is in flight.
- `NothingLost`, `ChangesRecovered`: a change a poll saw is not forgotten, and
  gets its recovery - unless the watching ends, a recovery hangs, or there is no
  network.
- `DisconnectedIsClean`: after a disconnect and nothing newer, once everything in
  flight has ended, the core that `xray.proc` names was told to stop, and no
  tunnel, proxy, block or watcher is left.  With `OneCore`, which says that no
  other core runs, it says that none does.
- `ConnectedIsOpen`: a connection that stands is not blocked by our own rule.
- `OneCore`: no core runs that `xray.proc` does not name; reloads run one at a
  time.
- `NeverSilentlyDead`: the wish to be connected is met, will be tried again, or
  the window says that it failed - unless `xrayReloading` hid the core's exit from
  all that is in flight.
- `DisconnectPrevails`: nothing that a connect or a disconnect overtook connects
  again; and what a disconnect overtook tells the window no status and schedules
  no retry, unless to report that it failed (`Reports`, section 7).
- `OriginalsKept`, `RulesRecorded`: an adapter that is not on the user's own
  resolvers - on the hold, or on automatic ones after a restore that stopped between
  its reset and its list - has them in the file, so that the next release or launch
  puts them back; and rules have the record that removes them.
- `DisconnectGivesBack`: at rest after a disconnect the guard is gone or the
  user was told - but for a UDP block whose script failed, of which no connect
  got the receipt (`Unreceipted`, section 7).
- `GuardStands`: nobody's release takes the guard of the connection that stands
  and engaged last.
- `DriftRepaired`: the watch puts a drifted or new adapter back on the hold.
- `NeverOlder`: whichever of the file and its `.tmp` a launch reads is no older
  than the last save reported.  `KeepsPromise`: the store implements
  DurableStore.  `LazyLands`: a value held back reaches the file.
- `EveryByteOnce`: what a core carried is counted once, for its config and its
  internet, except what it carried after its last poll.  `CleanMeansSaved`: a
  meter with nothing to save is on the disk, or will be, or the save failed.
  `HeldToWhatRuns`: the caps are held to what the running core was built
  without.  `CapsFollowed`: a core that ignores a cap is rebuilt.
- `CoveredHolds`: once the LAN was covered for a connection that is meant, table
  and snippet stand through overlapping passes, crashes and reboots.
  `OffIsOpen`: with nothing meant neither is left.  `Rearmed`: a table lost is
  loaded again.
- `OffIsDown`: after the user's disconnect, whatever it met, no core or gateway
  runs and none is taken for live.  `NeverLeftDead`, `Healed`: a connection
  taken for live is up, or somebody will retry; it comes back.  `ArmedFirst`:
  the kernel rejects what would go around a gateway before the gateway comes
  up.  `SwitchKept`: the router's steps are the kill switch's.
- `Counted`: a user's bytes are what the core counted of them, once, whatever
  cores came and went; total is VPN and direct, and direct is what left by their
  own direct outbound.  `RoutedAsMeant`: a user's traffic is decided by their
  own rules and hold, never the owner's.  `Enforced`: holds come into force and
  are lifted, refused builds and overtaking connects notwithstanding,
  and the reloads for that come to an end.
- `NewestHolds`: an open link is the newest one of a router that is still
  registered, and the agent holds no other socket open.  `OwnAnswer`: what a
  browser is given is its own request's, whole when it says so, and a page of
  the version its router runs.  `EndsAgree`: no browser waits for ever, without
  the help of the deadline, and no work goes on for one that is gone.
  `Relinked`: with remote access on the link comes back, through the tunnel when
  only that reaches.

Each module with an inductive proof also states its types (`TypeOK`); they are
proved, and no run repeats them.  Those of Connection and Router
(`RouterTypeOK`) are there for the reader; what Connection's proof needs of the
types is part of `CleanInv`.

Deadlock is checked in the runs of SysProxy, NetWatcher, Connection, LeakGuard,
Store and KillSwitch.  `Rest` is enabled only when no call is in flight (and,
for the guard, its queue is empty), so in Connection and LeakGuard the deadlock
check says that no call is ever stuck for good; no bounded budget can hide that,
since the steps of a call that has begun need none of it, but for those that
fail.  In Usage, Router, LanUsers and Relay a scenario whose events are spent ends.

### Why the bounds are enough

The faults of SysProxy concern one record: the chains that matter are one
interrupted operation and the one that follows it, which one fault covers; the
proofs have no such bound.
Two ports are needed for a port change within a session (`Renamed`), one for
the rest.  In NetWatcher two networks and none give away and back, other, and
nothing; the settling time is not a multiple of the poll period, as in the code
(3 s and 4 s), and two stops give a recovery that is two generations old.

Connection's scenarios are families: calls of the user that overlap
(`UserScenarios`), drops and network changes whose rebuild fails too
(`DropScenarios`), a disconnect landing on a drop or a recovery
(`CancelScenarios`), and reloads of the core behind each of them
(`ReloadScenarios`), each over the settings that matter for it (kill switch,
tunnel, automatic reconnect).  Three tasks are enough for them because a
recovery and its trigger share one task and a queued trigger takes none.  The
families are chosen so that the disagreements of section 7 are outside them: two
connects over an older core, for example, need three connects.  What the passing
run claims is therefore claimed for these families and not beyond.

LeakGuard's scenarios are overlapping connects with a fault and a crash
(`Overlaps`), tunnels that fail to come up over a held guard (`Stranded`), proxy
mode with and without the UDP block over and after tunnels (`Modes`), blocks
whose script fails, with a connect or a disconnect behind (`Blocks`), a release
that stops half way with a second one behind it and an adapter unplugged between
them (`Broken`), and one session with drift, refusal, faults and adapters that come
and go (`Sessions`).  `FullEvery` is 2 instead of the code's 10: a quick recheck and a
full one alternate, which is the only thing the number decides.  Two adapters
are needed to tell one that was away from one that was not.

In Store a key set at once and a key set lazily are the two ways a value reaches
a save; their values only need to differ, and the number of saves, crashes and
errors is not bounded.  In Usage two configs tell whose bytes are whose across a
switch; a link with a cap and one without tell a build with an internet left out
from one without, and every way a core comes and goes has its scenario, a
core that dies in its grace with the next one following among them.

KillSwitch's passes only differ by reason and caller; two waiting behind the one
that runs are an arming and a disarming overlapped, and the proof has no such
bound.  Router's families pair every two of connect, reconnect, disconnect,
death, failure, reboot, crash, stall and WAN change that meet in the code, and
three where a recovery adds its own connect; three slots are enough for them.
As in Connection, what the properties exclude by `asked` and `PressedAmid` are
the disagreements of section 7.

LanUsers needs two users only where one's edit or hold must not touch the other;
caps of one and two bytes put a limit's crossing at any poll; two connects put a
build between a hold and its reload; nine destinations have every trait alone or
with the one it competes with.

Relay needs two sockets for a link and the one that replaces it, and two
requests for one of each; a third dial waits for a slot.  Its scenarios cross a
request's events with a link's (`Carried`, `Crossed`) and take the network from
each of reachable, behind the tunnel and blocked to another (`Reached`).

## 5. Fairness

Safety is checked without fairness; Connection has no liveness property and no
fairness at all.  The rest assumes:

- SysProxy, `WF(Work)`: Node goes on with an operation that has started (each
  step is bounded by the command's own timeout); `WF(Launch)`: the application
  is started again.  Nothing is assumed of the user, of other programs, or of
  the absence of crashes.
- NetWatcher, `WF(Tick)`: the interval timer fires while it is set;
  `WF(Settles)`: a recovery that does not hang returns.  Hanging is excepted in
  the property, not by fairness.
- LeakGuard, `WF(Work)`: Node goes on with the operation at the head of the
  queue, whose scripts have timeouts; `WF(Tick)`: the recheck's timer fires.
- Store: `WF(Saving)`, a synchronous save runs on; `WF(WriteLazy)`, its timer
  fires.
- Usage: the poller's timer and answers, the builds (`rebuildActiveConfig` and a
  connect end, well or not), the lazy timer and the retry delay.
- KillSwitch: `WF(QueueRuns)`, each nft call has a timeout; `WF(Verify)`, the
  timer `ksTimer` fires.
- Router: each await of the service ends (`CallSteps` per call and the steps of
  a disconnect), its timers fire, its queue runs.  No launch is assumed, nor
  that a step succeeds - only that failures run out, which the budgets say.
- LanUsers: the poll, the retry delay, the reload's timer and its two steps, and
  a connect that has begun or a recovery that is due.
- Relay: what becomes of a socket by itself (`Proceeds`: frames that arrive,
  keepalives, dials and closes that end), the retry timer, the web UI and the
  browser's upload.  A request's deadline is not assumed, nor that a dial which
  could succeed does: refusals run out as the scenario says.

## 6. The proofs

All theorems hold for every value of the constants under the named assumption
of each module (`SysProxyAssumption`, `LanAssumption`, ...), which say no more
than that bounds are naturals, that model values differ, and that sets which are
summed over or waited for are finite.

Each proof has the same plan: `Init => IInv`, one lemma per action (or group of
actions that leave the same variables alone) for `IInv /\ Action => IInv'`,
their combination over `Next`, and the temporal step.

- `ClassesProof`, the system proxy.  `Recognised` is not inductive: an enable between its record
  and its commands writes a server nobody else vouches for.  `OpShape` adds what
  a running operation may rely on: an enable's port is in the record, a
  restore has a record to go by, and puts values back only if they were
  readable.  `IInv == TypeOK /\ OpShape /\ Recognised` gives `TypeCorrect` and
  `AlwaysRecognised`, and, as an action property, `RecordComesFirst`.
  `UsersProxyStands` and `RecordStaysUsers` need to know what the user had, at
  every place an operation can stand: `UsersInv` says that a port under a record
  is nobody else's (`NobodyElse`), that between the operations a server the
  record does not list is the one it remembers (`Untouched`), and what a restore
  with nothing torn has put back at each of its commands (`PutBack`).  Both
  theorems suppose `~SilentProbe` and `~EarlyConnect`, which the run supposes
  too: with either, TLC finds the properties violated (section 7).
- `ConnectionProof`, a disconnect is clean.  `Clean` (`DisconnectedIsClean`), for
  any number of calls in flight, any settings and any budget of events, the
  overlapping connects that the run's scenarios avoid included.  It rests on
  `CleanInv`: while the last disconnect is the newest generation (`gen = dgen`),
  nothing is wanted - no active server, no watcher, no timer (`GivenUp`) - and
  whatever the machine still has, a call in flight is sure to take away: the rule
  (`Unblocks`), each tunnel (`Untunnels`), the proxy (`Unproxies`), the core that
  is known (`Stills`), and `userDisconnecting` (`Leaving`).  For a connect that is
  overtaken this is its `giveWay`, for a failed arming its `dropArmed`, for the
  rest the disconnect's own teardown.  Which call can stand where, and that a
  connect has a generation of its own, is `Placed`; that a reload which goes on
  behind the disconnect was overtaken is `ReloadsLate`.
- `ConnectionProof`, what the calls share.  `Held` (`NothingHeld`): a flag that
  outlived its call would hide every later exit of a core (`xrayReloading`,
  `userDisconnecting`), refuse every later recovery (the lock) or stop every later
  call (the queue of the system proxy).  `SharedInv` says that `xrayReloading` is
  the number of calls that rebuild (`CountInv`, a cardinality), that the lock is
  held exactly while a recovery of the current `recoverGen` is in flight, and by one
  only (`LockInv`), and that a call waits for the proxy exactly while it has its
  turn in the queue, once (`WaitInv`).  Both invariants are kept by one argument:
  a step replaces one call and touches a few shared variables, so `Makes` says what
  it may do to them, `StepKeeps` and `SharedKeeps` that such a step keeps the
  invariants, and one lemma for each action that it is such a step (`Passes` for
  those that leave the machine alone).  The two actions that take a generation and
  the exits have lemmas of their own.
- `ConnectionProof`, what is overtaken notices.  `Prevails` (`DisconnectPrevails`):
  for every budget, a connect begins only in the turn of a call that nothing
  overtook, and what a disconnect left behind is silent but for its failure.  It
  rests on `TurnInv`: a call comes to the places where a generation is taken
  (`AtOnce`) in the very turn of the check that let it go on; it has a generation
  only while a connect of its own minds it, or an apply, a reload, a recovery or a
  drop that compares it before it goes on; and a recovery that tears down for the
  newest generation still has its lock (`Minds`).  `SpeaksNewest` derives from it
  that the places which tell a status are reached by no call that was left behind;
  for the others the step is looked at.  Again one lemma for each action, that the
  call goes on minding what it should (`Heeds`), and one each for a connect and a
  disconnect.
- `ConnectionProof`, the wish.  `Told` (`NeverSilentlyDead`): for every budget, a
  user who means to be connected is, or will be tried again, or is told.  Between
  the calls that is a fact; within them it is a duty, and `WishInv` says whose: when
  no core runs, nothing is due and nothing is said (`Dead`), some call in flight
  cares (`Cares`).  It connects, tears down to connect or is about to spawn
  (`Rebuilding`); it failed and has its report or its retry still to make
  (`Failing`); it is a drop that looks at the core (`LooksAt`), a recovery about to
  begin, or one that holds the lock over a queued trigger; or it is a disconnect,
  which ends the wish.  A core that dies hands the duty to the drop it starts, or,
  behind `xrayReloading`, to what `Mends` - or it is `unseen`.  A call that ends or
  moves on hands it to somebody: `Hands` and `PassesOn`, one lemma for each action
  (`...Tends`).  `Recovers` is what makes the handing sure: a recovery asked for by
  a drop finds `autoReconnect` on, as the drop did, and the lock belongs to the
  last recovery begun, so that what joins it waits for the right one.
- `ConnectionHistoryProof`, two cores.  `Alone`: as long as no two starts wait for
  an exit at the same time (`[]OneWaits`), the only core that nobody told to stop is
  the one that is known - at every moment (`OneKnown`), not only at rest as `OneCore`
  has it, and without its exception for the cores in `astray`.  The hypothesis is a
  condition on who waits when, not on what a start then finds: that a start which
  waited finds no other core in its place is what the proof shows.  `SpawnInv` says
  why: the one start that waits has the known core for its own until that core exits,
  since nothing is spawned while a core is known but by one that waited; from then on
  no core is known, and it resumes before any call that is about to start one has its
  turn (`ToStart`, `GoesOnFirst`), since each of them has let go of the thread on its
  way there.  So two cores, those of a reload included, take two starts that wait at
  once, as in the first violation of section 7.
- `ConnectionHistoryProof`, the block.  `Open`: `ConnectedIsOpen` under
  `[][~Straggles]_vars`, that is, unless a call comes too late.  `OpenInv` says who
  will lift a rule that is in while the window says connected, or a connect is
  about to make it say so (`Opens`): a call at a disarm, or one that begins a
  connect, as a connect begins by lifting; the newest connect, when the rule is its
  own; or the drop that put it in, as long as it waits for the connect in flight
  (`Brings`).  When no connect is in flight the drop may also have left it to
  the recovery that it joined or asked for, or be about to report that it gave up
  (`Awaited`), and then there is no retry due that it could take for the answer.
  A failure needs no one, as the window does not say connected (`Fits`).  `Lets` is
  what a step may do to this, with one lemma for each action, and `LetsKeeps` that
  it is enough.  `Straggles` has three parts, and TLC has a history for each
  (section 7): a rule added behind a newer connect (`LateArms`), a retry asked for by
  a recovery that a disconnect overtook (`LateRetries`), and a disconnect that ends
  behind another one while the user means to be connected again (`LateOff`).  Only
  the first leaves a rule that nobody takes for his own; behind the other two a
  drop leaves its rule to a call that never lifts it or has yet to come.
- `ClassesProof`, the watcher.  `LockIsTheRuns` needs that no recovery is of a future
  generation, `NothingLost` needs that the baseline is what was last looked at
  while nothing is owed (`BaselineIsSeen`).  With these, `NwInv` gives
  `NwTypeCorrect`, `OneRecovery`, `NoChangeLost`.
- `ClassesProof`, the store.  `NoOlderFile`, from an invariant that says for each
  step of a save what is in the `.tmp` and that it was entered into this save; and
  `StoreKeepsPromise`: under that invariant every step of Store is a step of
  DurableStore or a stutter, for any keys and values.
- `LeakGuardProof`.  `OriginalsKept` relates the machine to the file, and
  between the two stands an operation with its own copy of the record.
  `HeadShape` says that the copy of the running operation extends the file's
  record, that a recheck sets only adapters the file has recorded, and that
  rules are added only after the file claims them; `OneRuns` that no other
  operation has begun, which is what the queue is for; `RecordsOwn` that the
  record holds nothing but the user's own, except for strays.  `IInv` is
  `TypeOK /\ OneRuns /\ HeadShape /\ RecordsOwn /\ OriginalsKept /\ RulesRecorded`
  and gives `TypeCorrect`, `OriginalsAlwaysKept`, `RulesAlwaysRecorded`.  A release
  that stops anywhere keeps it (`RestoreStopsKept`), whoever it is killed with: what
  it had only reset is still on record, and an engage over it extends that record.
  `GuardAlwaysStands` is about who may take a guard away, and so about the whole
  queue.  `WhoseInv` says that receipts stand in it in the order they were
  issued, that a connect has at most the one operation it waits for, and that
  behind an engage of the newest intent no release waits that asks for no receipt
  (`Line`); that the engage at work has made its receipt the live one (`Under`);
  and that nothing waiting would take the guard of who stands and engaged last
  (`Standing`).  `DisconnectAlwaysGivesBack` follows from `Owed`, on top of it: a
  guard that no intent keeps has a release of its receipt in the queue, or one
  under way, or the user was told, or nobody got its receipt.  All five hold for
  any scenarios, the overlapping ones that the runs avoid included.
- `UsageProof`.  `EveryByteCountedOnce`, `CleanIsSaved`, `AlwaysHeldToWhatRuns`,
  and the types.  That nothing is counted twice rests on what the two meters
  remember being what was counted of the very core they believe in, and on an
  answer under way being of that core or marked as an older one's (`InStep`);
  that core is the one an operation built, once it is past its grace
  (`CoreShape`); and the file, the value held back and the meter agree unless
  somebody is still to write (`StoreInStep`).  The sums over a core's internets
  are recursive functions on sets: that each set has exactly one such sum, and
  what a sum with one value changed is, is shown by taking a smallest set for
  which it fails, which a finite set of sets has (`LeastSubset`).
- `RouterProof`, the kill switch.  `CoverHolds` and `OffStaysOpen`.  `KsInv` adds to them what
  the queue guarantees: a covered LAN is meant and nothing is taking its table
  away (`CoveredIsMeant`), what is remembered as armed has its snippet
  (`ArmedIsWritten`), a table or snippet is remembered or in work (`Accounted`),
  and what is no longer meant has a pass ahead that has not begun (`SeenTo`) -
  the reason why reading the wish when the pass runs is enough.  They hold for
  any servers and callers, without the bound on the queue.
- `RouterProof`, the service.  `RouterKeepsSwitch`: every step of Router is a step of
  KillSwitch or leaves its variables alone, so Router implements `KsSpec`, and
  what is proved of the switch carries over (`RouterCovers`, `RouterOffIsOpen`).
  `RouterInv` adds to `KsInv` that every call under way, and what is taken for
  the active server, is a server (`Sound`): without it a connect could not be
  matched with the switch's `Meant`, which asks for one.
- `RouterProof`, armed before the gateway.  `RouterArmsFirst` (`ArmedFirst`), from
  `ArmedInv`.  Waiting for one's own pass is not enough by itself: another's pass
  may be deleting the table meanwhile, on a wish it read before.  What makes it
  safe is that at most one call is not overtaken (`OneCurrent`); that for a call
  past its grace the table is there, or its own pass or the setting's is still to
  come or on its way to the table, and a deletion under way while the connection
  is meant has such a pass behind it (`SeesTo`, kept by every action of the
  switch for a call of any slot); and that a call leaves "arming" only without a
  pass of its own (`WaitsForPass`).  Of the service's steps only a start past its
  grace adds a call to these, the one that was not overtaken, with its pass just
  asked for; every other one only takes some away (`Narrows`, one lemma for each
  helper and step).
- `RouterProof`, off is down.  `RouterOffIsDown` (`OffIsDown`), from `OffInv`.
  Until the teardown begins nothing is claimed: a disconnect that waits for its
  pass has moved no generation, and a connect or a trigger may still build.  From
  then on (`OffBegun`), unless a tick of a drop crosses it, every call under way
  is stale, finds the off to be last and, a recovery, has lost its lock
  (`Overtaken`), so no end of it retries; no drop, timer, probe or WAN change is
  left to ask for another (`NothingComes`), and none comes anew, for the watches
  are off and a death finds nothing that is taken for live, or the flag of the
  disconnect; and a core that runs is one the teardown has yet to stop, or waits
  for, or one that its own overtaken call stops on the next way out (`CoreGoes`)
  - the case that needs thought, for such a call may have spawned after the
  teardown began.  A reboot keeps this only because a disconnect ends the boot
  connect or has cleared the intent.  The lemmas say of each helper and of every
  way a call ends what it leaves (`Shows`, `GivesUp`).  TLC checked `OffInv` in the
  scenarios of the run, and in wider ones, before it was proved.
- `LanUsersProof`.  `RulesHold` is about the rule list alone: for any user
  record, context, hold and destination, where `Route` leads.  Its lemmas say
  which rules a list can hold (`RuleIn`, from `ConcatSeq` and `WhenSeq`), that
  the catch-all is among them and so some rule matches (`FirstDecides`), and
  which outbounds they lead to (`Meanings`, `OutboundsApart`).  `Routed` carries
  it to every reachable state: the invariant says that every build, kept by the
  meter, made by a reload or a connect, or running, is built of records and
  holds a build can be made of.  `BytesCounted` (`Counted`): what is not read yet
  is what the core counted since its last reading, or since it began
  (`ReadSince`), so a poll that reads the core for what it is adds the same to
  the bag as to the history; every bag, in use, on the disk or on its way there,
  adds up and is of no day to come (`Bags`); then today's total is what was read,
  and today's direct with what is owed is what left by the user's own outbound
  (`Balanced`) - also of a user who is not there, as long as the bag is blank,
  which is what makes adding one safe: the window leaves the id of a new user to
  `newUserId` (renderer/lanUsers.js:2611, ipc.js:803).  An id that comes back, in a
  restored backup or from another caller, is left out: after a crash that undid
  its deletion from the usage file it would bring its old bytes along.
- `RelayProof`.  `OneLink` (`NewestHolds`), for any number of sockets, any budget
  and any network.  What makes it inductive is `OneDial`: a dial that is due or
  under way is the only one, of an agent that runs and has no link - otherwise a
  dial that lands could find the agent with another socket open.  Every other
  step is shown to open no end of any socket (`Lower`), whatever it sends or
  closes, and attach to open the newest one after closing the one before.
  `OwnAnswers` (`OwnAnswer`) and `TypeCorrect`.  `Answers` says of every frame in
  flight, either way, what it may be: an id names one request on its socket, as a
  new id is above all that were used there (`Distinct`), so a frame of an id is
  about it; head, bytes and end of an answer leave the agent in this order and a
  queue keeps it (`AllServed`); the agent's stream is not ahead of what it may
  have sent (`AllMet`); a socket, dialled by one process, says one version from
  its HELLO to its last frame; and the page kept is of the version on its label
  (`PageKept`).

Only model-checked: the liveness properties (the prover has no `ENABLED`), and one
invariant that holds in the scenarios of its run and is no theorem for every
budget, as TLC shows with more events: Router's `NeverLeftDead`.  (Connection's
`OneCore` and `ConnectedIsOpen` do not survive every budget either, and are theorems
under the hypotheses above: a condition on the starts that wait, and the absence of
calls that come too late.)  Section 7 has
the histories, under "In Connection and LeakGuard" and "In Router".

## 7. What the models found

Two runs end in a violation; `PROJECT.json` quotes the comment that each one
contradicts.

1. `connection_cores` (main.js:1710): two connects that wait for the exit of one
   older core both spawn.
2. `router_off` (service.js:3986): a connect that passes its grace while a
   disconnect waits for its kill switch pass writes the intent again; everything
   is torn down, and intent and kill switch stay.

Met while modelling, beyond the runs - the first group was shown by TLC with
configurations that are no longer kept, the others were read in the code or met
as counterexamples to earlier forms of a property.

Shown by TLC:

- a restore cut short after it wrote the user's server back is, for the next
  launch, "not ours": the record is dropped, and the user's proxy stays off
  (sysproxy.js:437; `torn`);
- an enable that stopped after its server and before its list, and then one of
  another port whose first command fails: the next restore finds a
  server that is not the newest port's and a list that is not ours, takes the
  machine for the user's, and drops the record (sysproxy.js:439; `torn`);
- an auto-connect during the launch repair puts our own core on the port that
  the repair probes (sysproxy.js:442; `EarlyConnect`);
- a block put in by a call that a newer connect, or a recovery while `netsh`
  still runs, overtook is lifted by neither (main.js:1798, 2208-2217);
- a reload that waits for the exit of the old core when a disconnect comes is
  released before the disconnect's own stop, and its core runs on after the
  window says "disconnected": `rebuildActiveConfig` has no `giveWay`, which
  `connectOnce` has for exactly this (main.js:2372 against 1700-1722; `astray`);
- a reload takes the generation of a connect that is in flight already, so its
  check at 2371 passes: it and the connect start a core each, or it stops the
  connect's core in its grace (`astray`);
- a core that dies while a reload validates its config is hidden by
  `xrayReloading`, and `return false` at 2371 skips the `lostCore` that would
  report it: nothing rebuilds, and the window says "connected" (main.js:2371
  against 2385-2395; `unseen`);
- a reapply or recovery that a newer connect overtook in its teardown stops that
  connect's core with the exit disregarded, and then returns as stale, so nothing
  rebuilds (main.js:2277-2288; two connects and a trigger; also `unseen`);
- a failed apply reports after an await in which a disconnect began
  (main.js:2300), and a failed recovery has itself tried again (2652): if the
  disconnect's teardown outlasts the backoff, the retry finds `activeServerId`,
  which is cleared only at its end (2937), and connects behind the disconnect,
  although the clearing is to end the retries (2518-2520; `Reports`);
- a connect that was overtaken while its tunnel started engages last, and its
  undo deletes the file under the connection that stands (main.js:1893);
- a settings apply from strict to off leaves the strict rules (main.js:1893);
- an `engageUdpBlock` whose script fails after its state was written loses its
  receipt: a disconnect asks for none and leaves the block, without a word
  (leakGuard.js:1332, main.js:1957-1962; `Unreceipted`);
- a core that a poll reads before the meters were told of it is counted twice
  or short, and an answer of one that then died in its grace is counted for the
  config before it (main.js:2383 against usage.js:14; `raced`);
- a switch whose new core dies in its grace has stopped the old core already:
  the old server stays active, the gateway leads nowhere, nothing retries
  (service.js:2311 against 3975-3976);
- a gap of more than GAP_MS between two polls of the same core makes `fresh()`
  count all of its bytes again (meter.js:791; `misread`);
- the build made last is taken for the running core's at the first reading of a
  new core, also when that build was refused or has not started: a user held
  meanwhile stays off, or in, and nothing retries (meter.js:748 against 57-59;
  `misled`);
- a relay whose name cannot be resolved, remembered addresses included, is never
  dialled through the tunnel, although "three direct failures in a row while the
  tunnel is up" are to lead there (agent.js:26-28): `lastDirectTry` is set only
  after the name was resolved (240), so at the next attempt ten minutes have
  passed since zero and `vpnMode` is reset (222; `Relinked` excepts it);
- after `stop` or `reconfigure` a REQ_HEAD that still arrives on the socket that
  was left opens a stream, for `onFrame` does not ask whether `conn` is its
  socket (278, 330); nothing ends that stream when the socket goes (282), and a
  request of the next link with the same id is not heard (`strayed`).

In Connection and LeakGuard:

- two of Connection's invariants do not survive every budget.  `OneCore`: two
  calls that wait for one older core both spawn - two connects (finding 1), but
  also a recovery with a reload before it and a connect; a disconnect then stops
  the newest core and leaves the other (three connects and a disconnect), which is
  why `DisconnectedIsClean`, a theorem, speaks of the core that is known.
  `ConnectedIsOpen` fails in three ways, the steps of `Straggles`.  `LateArms`: an
  apply adds its rule after a newer connect's disarm and leaves it to that connect,
  which asks for it no more (main.js:2208-2217; two connects and an apply).
  `LateOff`: two disconnects overlap, the core is slow to stop, and a connect stands
  between their ends; the later one clears the active server under it
  (main.js:2937), so a drop that waits with its rule in takes the user to have given
  up and leaves the rule (two connects, two disconnects, a dead tunnel).
  `LateRetries`: a recovery that came back without its tunnel is overtaken by a
  disconnect and a connect while it lifts its rule, and then sets its timer without
  a look at `recoverGen` (2652); a drop that joined a newer recovery, itself overtaken
  by a connect, finds the timer set and leaves its rule to the retry (2813), so the
  window says connected over a rule until the timer fires (three connects, a
  disconnect, two triggers, a fault and a dead tunnel);
- a release queued before a newer engage ends by clearing `_ownSession`, which
  that engage set already (leakGuard.js:1395), and the watch skips its rechecks
  from then on: `DriftRepaired` fails with overlapping connects;
- an adapter that is unplugged when the guard is released comes back on the
  hold, or on the automatic resolvers of a restore that had stopped half way, with no
  record (leakGuard.js:453-454): the reason for `strays`;
- a chain of two faults switches the user's proxy back on without the server
  that the restore deleted, against sysproxy.js:128-129;
- a recovery that begins from the queue during a blip shorter than a poll is
  not seen by the watcher.

In Store and Usage:

- after a recovery from `.tmp` the next save truncates the only copy there is
  (store.js:172); a file held at a launch whose rename aside fails is replaced
  by the next save;
- `markSaved` is called also when `usageStore.set` returned false;
- `reapplyConnection` does not call `flushMultiWan`, though a comment says so.

In Router, each outside a property by one of its guards:

- the tick of a drop does not look at `userDisconnecting` (service.js:828 and
  3186): a core that died in the very tick of a disconnect is rebuilt
  (`asked.crossed`);
- Reconnect pressed while a connect whose core died is under way (3893, 2909,
  3177; `PressedAmid`); a connect that overtakes another and is then refused
  (2910); a connect during a disconnect's teardown, stopped by its later
  `xray.stop`; a slow teardown of Reconnect that stops the core a parallel
  recovery rebuilt (2845);
- `NeverLeftDead` does not hold for every budget: a connect passes its grace while
  a disconnect waits for its pass, which writes the intent (`router_off`), and a
  Connect during that disconnect's teardown then fails and is handed to the
  recovery, as the active server is still set (3978); the end of the teardown
  clears it, so the retry does nothing, and the router is meant to be connected
  with nothing to bring it back.  It takes two connects, a disconnect and a
  failure, more than any scenario of the run allows.  With other budgets TLC finds
  others.  Where a core died and its gateway is still up, a command of the user
  takes away the retry that was due, and when it is then refused, `handToRecovery`
  takes the half-dead connection for one that still runs (2911) and arms nothing
  (two connects, two deaths and a refusal; or a connect, a death, a rebuilding that
  fails and a Reconnect, which is refused as no core runs).  A retry of a WAN change
  comes while `follow` is off, which is on again later.  And commands amid one
  another leave a core without its gateway (two connects and a Reconnect);
- a refused switch leaves `conn.state` at `error`, and the watchdog off
  (1965-1968 and 3432-3435 against 3413-3420);
- with `autoReconnectOnNetworkChange` off a retry of a WAN change ends the
  rebuilding (3226 against 3224-3225; `follow`);
- a failed `nft delete` leaves the table, and a later connect never writes the
  snippet again; a restart whose first load nft refuses, and then a disconnect,
  leave the old table (`stuck`).

In the relay: the agent ends an answer of the web UI that broke off with
RES_END where frames.js:10 has CANCEL (agent.js:389-390), so the relay would take
a page cut short for a whole one; a HELLO after HELLO_WAIT_MS attaches a socket
that is closing and closes the good link before it, until the next dial.

In LAN users:

- the signature is overwritten by a reload's build that then gives way or is
  refused, and `catchUp` answers that nothing is to be done though the core runs
  an older one (ipc.js:66 and 445); the next difference puts it right;
- a restarted core whose first reading sums to at least the old one's is not
  noticed: bytes are lost, and `live` is the old build's;
- `importState` takes the larger bucket per kind, so that total may differ from
  VPN and direct, which "always add up";
- a safe search that rides direct under `routingMode` direct is counted VPN, and
  direct bytes still owed outlive the core that counted them.

## 8. What is not modelled, and why

Within the modelled parts: the macOS and Linux branches of the system proxy and
the leak guard (other scripts, the same records); the text of scripts and
commands; the two address families of an adapter and the excluded ones; which
adapters a fingerprint skips; in Connection the leak guard's steps (LeakGuard
has them, with its callers), the kill-switch IPC and settings that change while
a call is in flight, the comparison with the network before a drop, the time window of the drop budget
(its count is modelled) and the disarm at launch; in LeakGuard a PowerShell
child that outlives its parent, and a removal of the firewall rules that fails (its
errors are disregarded, leakGuard.js:509); in Store the loss of a rename after it returned;
in Usage which outbound tag counts for which config, prune, backup and monthly
caps; in Router TUN off, the headless desktop, the in-place reload, the rules
and routes of a gateway, remote control and shutdown; in LanUsers the router's
devices, transparent inbounds, portal and shaper, vouchers, months and history,
warnings, restores and names; in Relay logins and sessions, the pause of an upload,
an answer of the web UI that breaks off, cloudflared, the settings of `api.js`,
the remembered addresses and `setRemoteBypass`, and the framing of `ws.js`.

Of the other parts: core configuration, share links and imports are pure
translations of formats whose meaning is outside the repository; WARP is a
service's protocol; the desktop shell, the renderer and its texts, and the
traffic lists hold no state whose order matters; macOS recovery and the Android
client are second platforms of promises stated here for Windows.  Multi-internet
is planned.

## 9. The plan

Order: what can leave a user offline or exposed first, then what can lose data.

1. *(done)* SysProxy, NetWatcher, Connection, LeakGuard; their runs; proofs of
   all safety properties of three of them, and for Connection that a disconnect is
   clean and prevails, that the calls leave nothing held, that the wish is met or
   told, that two cores take two starts that wait for an exit at once, and that only
   a call that comes too late leaves a block over a connection.
2. *(done)* Store and DurableStore with the refinement checked and proved; Usage
   with its proof; KillSwitch with its proof, and Router composed with it;
   LanRules and LanUsers with the proofs of the rules and of the count; Relay, and the proofs that it has one link and
   gives the right answers; the in-place reload in Connection.
3. An abstract guard - the user's resolvers, and whether they are in force -
   implemented by LeakGuard, checked in the `leakguard` run and proved from its
   `IInv`.
4. Connection composed with NetWatcher (its trigger and its `stop`) and with
   SysProxy's record; the members of a group set aside.
5. Multi-internet; the router side of the LAN users.
6. The reference walks of chains and bases, checked against a definition by
   reachability.
7. The proof that is left: Router's `NeverLeftDead`, with the guards that take out
   the histories in section 7, which are to be found and to be no stronger than they
   ask for.
