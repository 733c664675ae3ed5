------------------------------- MODULE Router -------------------------------
(***************************************************************************)
(* The connection of a router: connect, disconnect, rebuild and recovery   *)
(* in server/service.js (OPENWRT), over the core (xrayManager.js) and the  *)
(* gateway (tunOpenwrt.js), with the kill switch of module KillSwitch.     *)
(*                                                                         *)
(* Everything of the service is asynchronous: a call is in a slot with the *)
(* point it waits at; what a function does between two awaits is one step. *)
(* A call is stale once connGen has moved, and last is an off when connGen *)
(* is disconnectGen.                                                       *)
(*                                                                         *)
(* Left out: TUN off, the system proxy, what a config is built of, a       *)
(* reload of the core alone, the rules and tables of a gateway.            *)
(***************************************************************************)
EXTENDS KillSwitch, FiniteSets

CONSTANTS Slots, NoSlot    \* calls that may be under way at a time

\* fail: a step fails; reject: the core refuses the config; die: a process
\* exits; stall: nothing passes any more; follow: the setting is changed.
RouterEvents == {"connect", "reconnect", "disconnect", "fail", "reject", "die", "wan", "stall", "follow"}

ASSUME RouterAssumption ==
  /\ NoSlot \notin Slots /\ IsFiniteSet(Slots) /\ Slots \cup {"off", "set"} = Callers
  /\ {"off", "set", "nobody"} \cap Slots = {}
  /\ \A b \in Scenarios : \A e \in RouterEvents : b[e] \in Nat

VARIABLES
  svc,      \* the service's memory of its connection
  follow,   \* settings.autoReconnectOnNetworkChange
  budget,
  asked     \* history: the user's last command, and what came of it

rVars == <<svc, follow, budget, asked, ksVars>>

Uses(e) == budget[e] > 0 /\ budget' = [budget EXCEPT ![e] = @ - 1]

-----------------------------------------------------------------------------
\* The memory.

DropReasons == {"tunnel-exited", "core-exited", "gateway-failed", "tunnel-stalled"}
Reasonable == DropReasons \cup {"wan-changed"}

Idle == [pc |-> "idle", id |-> NoId, prev |-> NoId, by |-> "nobody", why |-> "none",
         stale |-> FALSE, reset |-> FALSE, mine |-> NoSlot, waits |-> NoSlot]

Tearing == {"tearTuns", "tearCore"}
Building == {"prep", "check", "spawn", "grace", "arming", "gwDown", "port", "gateway"}
Leaving == {"lateStop", "giveWay", "abortCore"}

\* svc.calls[s].mine: the gateway this call works with; waits: the core it waits out.
Calls ==
  [pc : {"idle"} \cup Tearing \cup Building \cup Leaving, id : Ids \cup {NoId}, prev : Ids \cup {NoId},
   by : {"nobody", "connect", "reapply", "boot", "recovery"}, why : Reasonable \cup {"none"},
   stale : BOOLEAN, reset : BOOLEAN, mine : Slots \cup {NoSlot}, waits : Slots \cup {NoSlot}]

Drops == [why : DropReasons, reported : BOOLEAN, latest : BOOLEAN, waited : BOOLEAN, on : SUBSET Slots]

\* What a process of the service begins with.
Fresh == [
  active |-> NoId,                            \* activeServerId
  core |-> NoSlot,                            \* xray.proc, named by the call that spawned it
  tun |-> NoSlot,                             \* the gateway instance, named by the call that made it
  gateways |-> [s \in Slots |-> "down"],
  calls |-> [s \in Slots |-> Idle],
  recovering |-> FALSE, queued |-> "none", timer |-> "none",
  rebuilt |-> FALSE,                          \* lastRebuilt
  drops |-> {},                               \* recoverFromDrop calls still to come
  off |-> "none", offWaits |-> NoSlot, lastIsOff |-> FALSE,
  boot |-> "none", bootCancelled |-> FALSE,
  shown |-> FALSE,                            \* conn.state is 'connected'
  net |-> FALSE, judge |-> "none",            \* netWatcher, and its verdict under way
  watch |-> "off", misses |-> 0, gap |-> FALSE,
  flows |-> TRUE]                             \* what enters the tunnel passes

\* failed: the command was said to have failed, and nothing retries it; amid:
\* what it came over was still connecting; crossed: a core had died in its tick.
Nothing == [what |-> "nothing", failed |-> FALSE, amid |-> FALSE, crossed |-> FALSE]
Launched == [Fresh EXCEPT !.boot = IF autoConnect THEN "due" ELSE "none"]

RouterTypeOK ==
  /\ KsTypeOK /\ follow \in BOOLEAN
  /\ svc.active \in Ids \cup {NoId} /\ {svc.core, svc.tun, svc.offWaits} \subseteq Slots \cup {NoSlot}
  /\ svc.gateways \in [Slots -> {"down", "starting", "stopped", "up"}]
  /\ svc.calls \in [Slots -> Calls] /\ svc.drops \subseteq Drops
  /\ svc.queued \in Reasonable \cup {"none", "hand-over"} /\ svc.timer \in Reasonable \cup {"none"}
  /\ svc.off \in {"none", "disarming", "tuns", "core"} /\ svc.boot \in {"none", "due"}
  /\ svc.judge \in {"none", "asking", "stale"} /\ svc.watch \in {"off", "armed", "asking", "stale"}

Init ==
  /\ KsInit /\ svc = Launched /\ follow = TRUE /\ budget = left
  /\ asked = Nothing

Free(v) == {s \in Slots : v.calls[s].pc = "idle"}
InFlight(v) == {s \in Slots : v.calls[s].pc \in Building \cup Leaving}     \* connectsInFlight
Reloading(v) == \E s \in Slots : v.calls[s].pc \in Tearing \cup {"spawn", "grace"}
Quiet(v) == \E s \in Slots : v.calls[s].pc \in {"giveWay", "abortCore"}
Disconnecting(v) == v.off \in {"tuns", "core"}                               \* userDisconnecting
Up(v, t) == t # NoSlot /\ v.gateways[t] = "up"
TunUp(v) == Up(v, v.tun)
Answers(v) == v.core # NoSlot /\ v.flows                                     \* probeTunnel

\* A core that stops is the latest stop the manager numbered.
Older(ds) == {[d EXCEPT !.latest = FALSE] : d \in ds}
CoreGone(v, c) == IF v.core # c \/ c = NoSlot THEN v
                  ELSE [v EXCEPT !.core = NoSlot, !.drops = Older(@)]

\* stop() of every gateway: one still inside start() comes up or not.
StopTuns(g) == [s \in Slots |-> IF g[s] = "up" THEN "down" ELSE IF g[s] = "starting" THEN "stopped" ELSE g[s]]

-----------------------------------------------------------------------------
\* How a connect, a rebuild and a recovery begin.

Bumped(v) == [v EXCEPT
  !.calls = [s \in Slots |-> IF @[s].pc = "idle" THEN @[s] ELSE [@[s] EXCEPT !.stale = TRUE]],
  !.judge = IF @ = "asking" THEN "stale" ELSE @,
  !.watch = IF @ = "asking" THEN "stale" ELSE @]

Slot(v) == CHOOSE s \in Free(v) : TRUE

Connects(v, s, id, by, why) ==
  [Bumped(v) EXCEPT !.lastIsOff = FALSE,
     !.calls[s] = [Idle EXCEPT !.pc = "prep", !.id = id, !.prev = v.active, !.by = by, !.why = why]]

\* reapplyConnection, up to its first await.
Reapplies(v, by, why) ==
  [v EXCEPT !.shown = FALSE, !.gateways = StopTuns(@),
     !.calls[Slot(v)] = [Idle EXCEPT !.pc = "tearTuns", !.id = v.active, !.by = by, !.why = why]]

\* recoverFromNetworkChange, and runRecovery up to its first await.
Attempt(v, why) ==
  IF v.active = NoId \/ (~follow /\ why \notin DropReasons) THEN v
  ELSE IF v.recovering THEN [v EXCEPT !.queued = why]
  ELSE LET w == [v EXCEPT !.recovering = TRUE, !.timer = "none", !.shown = FALSE]
       IN IF v.core # NoSlot THEN Reapplies(w, "recovery", why)
                             ELSE Connects(w, Slot(w), v.active, "recovery", why)

Drop(v, why, reported) ==
  IF reported \/ v.active = NoId \/ v.timer # "none" THEN {v}
  ELSE IF v.recovering THEN {[v EXCEPT !.queued = why]}
  ELSE IF InFlight(v) # {} THEN
    {[v EXCEPT !.drops = @ \cup {[why |-> why, reported |-> reported, latest |-> TRUE, waited |-> TRUE, on |-> InFlight(v)]}]}
  ELSE {Attempt(v, why)} \cup (IF v.rebuilt THEN {[v EXCEPT !.timer = why, !.shown = FALSE]} ELSE {})

\* handToRecovery('gateway-failed'); a refusal waits longer, that is all.
HandOver(v) ==
  IF v.active = NoId \/ v.timer # "none" THEN v
  ELSE IF v.recovering THEN [v EXCEPT !.queued = IF @ = "none" THEN "hand-over" ELSE @]
  ELSE IF v.core # NoSlot \/ TunUp(v) THEN v
  ELSE [v EXCEPT !.timer = "gateway-failed", !.shown = FALSE]

-----------------------------------------------------------------------------
\* How a call ends, and what its caller does then.

\* Slip: what came during the recovery is forgotten.
UnlocksOnly(v, reset) == {IF reset THEN v ELSE [v EXCEPT !.recovering = FALSE, !.queued = "none"]}

\* The lock is released, and what was queued behind it is seen to.
Unlocks(v, reset) ==
  IF reset THEN {v}
  ELSE LET w == [v EXCEPT !.recovering = FALSE, !.queued = "none"]
       IN IF v.queued = "hand-over" THEN {HandOver(w)}
          ELSE IF v.queued \in DropReasons THEN Drop(w, v.queued, FALSE)
          ELSE {w}

\* Slip: the router gives up as the desktop does.
RetriesNot(v, c, how) == IF how = "ok" THEN [v EXCEPT !.rebuilt = TRUE] ELSE v

\* runRecovery: the router never gives up.
Retries(v, c, how) ==
  IF how = "ok" THEN [v EXCEPT !.rebuilt = TRUE]
  ELSE IF how = "stale" THEN v
  ELSE [v EXCEPT !.timer = c.why]

Failed(how) == how \in {"failed", "refused"}

\* A failure handed to the recovery is not the end of the command.
HandedOver(v, c) == c.by = "reapply" \/ v.active = c.id

Ends(v, s, how) ==
  LET c == v.calls[s]
      w == [v EXCEPT !.calls[s] = Idle, !.drops = {[d EXCEPT !.on = @ \ {s}] : d \in @}]
      out == CASE c.by = "recovery" -> Unlocks(Retries(w, c, how), c.reset)
               [] c.by = "boot" /\ Failed(how) /\ ~v.bootCancelled -> {[w EXCEPT !.boot = "due"]}
               [] c.by \in {"connect", "reapply"} /\ Failed(how) /\ HandedOver(v, c) -> {HandOver(w)}
               [] OTHER -> {w}
  IN /\ svc' \in out
     /\ asked' = IF c.by \in {"connect", "reapply"} /\ Failed(how) /\ (~HandedOver(v, c) \/ asked.amid) THEN [asked EXCEPT !.failed = TRUE] ELSE asked

\* A bound of time: a drop's tick, and a disconnect's teardown, are over before
\* the grace of a core that was spawned in it; the tick, before a probe is.
TickOver == \A d \in svc.drops : d.waited

Goes(v, s, pc) == svc' = [v EXCEPT !.calls[s].pc = pc] /\ UNCHANGED asked

\* Slip: a call that was overtaken leaves its core to the disconnect.
GivesWayBare(v, s) == Ends(v, s, "stale")

\* A disconnect overtook this call and nothing came after: its own core is stopped.
GivesWay(v, s) ==
  IF v.lastIsOff /\ v.core = s THEN Goes([v EXCEPT !.calls[s].waits = s], s, "giveWay")
                               ELSE Ends(v, s, "stale")

-----------------------------------------------------------------------------
\* connectOnce, one await at a time.

KsRest == UNCHANGED ksVars
At(s, pc) == svc.calls[s].pc = pc
Stale(s) == svc.calls[s].stale
Passed(by) == \A i \in DOMAIN passes : passes[i].by # by

\* The core's verdict on the config, or what is missing on the router.
NotBuilt(v, s) == \/ Uses("reject") /\ Ends(v, s, "refused")
                  \/ Uses("fail") /\ Ends(v, s, "failed")

Prepared(s) ==
  /\ At(s, "prep")
  /\ IF Stale(s) THEN Ends(svc, s, "stale") /\ UNCHANGED budget
     ELSE LET t == IF TunUp(svc) THEN svc.tun ELSE s IN
          \/ NotBuilt(svc, s)
          \/ /\ Goes([svc EXCEPT !.tun = t, !.calls[s].mine = t, !.shown = FALSE], s, "check")
             /\ UNCHANGED budget
  /\ UNCHANGED follow /\ KsRest

\* A bound of time: a teardown this call overtook is over before its core starts.
BehindIt(pcs) == \A t \in Slots : svc.calls[t].pc \in pcs => ~Stale(t)

Checked(s) ==
  /\ At(s, "check")
  /\ IF Stale(s) THEN Ends(svc, s, "stale") /\ UNCHANGED budget
     ELSE \/ NotBuilt(svc, s)
          \/ /\ BehindIt(Tearing)
             /\ IF svc.core = NoSlot THEN Goes([svc EXCEPT !.core = s], s, "grace")
                ELSE Goes([svc EXCEPT !.calls[s].waits = svc.core], s, "spawn")
             /\ UNCHANGED budget
  /\ UNCHANGED follow /\ KsRest

\* xray.start with a core to wait out: who waited for it first goes first.
Spawned(s) ==
  /\ At(s, "spawn") /\ (Stale(s) \/ BehindIt({"spawn"}))
  /\ Goes([CoreGone(svc, svc.calls[s].waits) EXCEPT !.core = s], s, "grace")
  /\ UNCHANGED <<follow, budget>> /\ KsRest

\* Past the grace the connection is meant; the table is loaded before the gateway.
Started(s) ==
  /\ At(s, "grace") /\ (svc.core = s => TickOver /\ ~Disconnecting(svc))
  /\ IF svc.core # s THEN Ends(svc, s, IF Stale(s) THEN "stale" ELSE "failed") /\ KsRest
     ELSE IF Stale(s) THEN GivesWay(svc, s) /\ KsRest
     ELSE Goes([svc EXCEPT !.active = svc.calls[s].id], s, "arming") /\ Meant(svc.calls[s].id, s)
  /\ UNCHANGED <<follow, budget>>

\* Slip: the pass is asked for and not waited for.
ArmedUnwaited(s) ==
  /\ At(s, "arming")
  /\ IF Stale(s) THEN GivesWay(svc, s)
     ELSE LET t == svc.calls[s].mine IN
          IF Up(svc, t) THEN Goes([svc EXCEPT !.gateways[t] = "down"], s, "gwDown") ELSE Goes(svc, s, "port")
  /\ UNCHANGED <<follow, budget>> /\ KsRest

ArmedFor(s) ==
  /\ At(s, "arming") /\ Passed(s)
  /\ IF Stale(s) THEN GivesWay(svc, s)
     ELSE LET t == svc.calls[s].mine IN
          IF Up(svc, t) THEN Goes([svc EXCEPT !.gateways[t] = "down"], s, "gwDown") ELSE Goes(svc, s, "port")
  /\ UNCHANGED <<follow, budget>> /\ KsRest

GatewayDown(s) == At(s, "gwDown") /\ Goes(svc, s, "port") /\ UNCHANGED <<follow, budget>> /\ KsRest

\* The death of this connect's core is its failure, and so its caller's retry.
ReportedDeath(v) == [v EXCEPT !.drops = {IF d.latest /\ d.why = "core-exited" THEN [d EXCEPT !.reported = TRUE] ELSE d : d \in @}]

PortOpen(s) ==
  /\ At(s, "port")
  /\ IF Stale(s) THEN GivesWay(svc, s)
     ELSE IF svc.core # s THEN Goes([ReportedDeath(svc) EXCEPT !.calls[s].waits = svc.core], s, "abortCore")
     ELSE Goes([svc EXCEPT !.gateways[svc.calls[s].mine] = IF @ = "up" THEN "up" ELSE "starting"], s, "gateway")
  /\ UNCHANGED <<follow, budget>> /\ KsRest

\* The device has one name: no gateway comes up beside another.
ComesUp(v, t) == v.gateways[t] = "up" \/ (v.gateways[t] # "down" /\ \A u \in Slots : v.gateways[u] # "up")

Connected(v, s) ==
  LET w == [v EXCEPT !.shown = TRUE, !.flows = TRUE, !.net = TRUE, !.watch = "armed", !.misses = 0,
                     !.timer = IF v.net THEN @ ELSE "none", !.queued = IF v.net THEN @ ELSE "none"]
  IN Ends(w, s, "ok")

GatewayStarted(s) ==
  LET t == svc.calls[s].mine IN
  /\ At(s, "gateway")
  /\ \/ /\ ComesUp(svc, t)
        /\ LET v == [svc EXCEPT !.gateways[t] = "up"] IN
           IF Stale(s) THEN Goes([v EXCEPT !.gateways[t] = "down"], s, "lateStop") ELSE Connected(v, s)
        /\ UNCHANGED budget
     \/ /\ svc.gateways[t] # "up"
        /\ \/ Uses("fail")
           \/ (svc.gateways[t] # "starting" \/ ~ComesUp(svc, t)) /\ UNCHANGED budget
        /\ LET v == [svc EXCEPT !.gateways[t] = "down"] IN
           IF Stale(s) THEN GivesWay(v, s) ELSE Goes([v EXCEPT !.calls[s].waits = svc.core], s, "abortCore")
  /\ UNCHANGED follow /\ KsRest

LateStopped(s) == At(s, "lateStop") /\ GivesWay(svc, s) /\ UNCHANGED <<follow, budget>> /\ KsRest

GaveWay(s) ==
  /\ At(s, "giveWay") /\ Ends(CoreGone(svc, svc.calls[s].waits), s, "stale")
  /\ UNCHANGED <<follow, budget>> /\ KsRest

\* abortGateway: a rebuild keeps its connection, anything else ends disconnected.
StopsWatching(v) == [v EXCEPT !.net = FALSE, !.timer = "none", !.queued = "none", !.watch = "off", !.misses = 0]

\* Slip: a rebuild that failed is taken for a first connect.
KeepsNone(c) == FALSE
Keeps(c) == c.prev # NoId /\ c.prev = c.id

Aborted(s) ==
  LET c == svc.calls[s]  v == CoreGone(svc, c.waits) IN
  /\ At(s, "abortCore")
  /\ IF Stale(s) THEN GivesWay(v, s)
     ELSE IF Keeps(c) THEN Ends([v EXCEPT !.active = c.id], s, "failed")
     ELSE Ends([StopsWatching(v) EXCEPT !.active = NoId, !.shown = FALSE], s, "failed")
  /\ UNCHANGED <<follow, budget>> /\ KsRest

\* reapplyConnection: the gateways, then the core; a disconnect may have come.
TunsTorn(s) ==
  /\ At(s, "tearTuns") /\ Goes([svc EXCEPT !.calls[s].waits = svc.core], s, "tearCore")
  /\ UNCHANGED <<follow, budget>> /\ KsRest

\* Slip: the rebuild goes on as if nothing had come.
TornResumes(s) ==
  LET c == svc.calls[s]  v == CoreGone(svc, c.waits) IN
  /\ At(s, "tearCore")
  /\ svc' = Connects(v, s, c.id, c.by, c.why) /\ UNCHANGED asked
  /\ UNCHANGED <<follow, budget>> /\ KsRest

CoreTorn(s) ==
  LET c == svc.calls[s]  v == CoreGone(svc, c.waits) IN
  /\ At(s, "tearCore")
  /\ IF Stale(s) THEN Ends(v, s, "stale")
     ELSE svc' = Connects(v, s, c.id, c.by, c.why) /\ UNCHANGED asked
  /\ UNCHANGED <<follow, budget>> /\ KsRest

CallSteps(s) ==
  Prepared(s) \/ Checked(s) \/ Spawned(s) \/ Started(s) \/ ArmedFor(s) \/ GatewayDown(s) \/ PortOpen(s)
  \/ GatewayStarted(s) \/ LateStopped(s) \/ GaveWay(s) \/ Aborted(s) \/ TunsTorn(s) \/ CoreTorn(s)
-----------------------------------------------------------------------------
\* The user's commands.

HasRoom == Free(svc) # {}

\* A disconnect that still waits for its pass ends what is asked after it, too;
\* a Reconnect during its teardown may be ended or go on.
Last(command) ==
  CASE svc.off = "disarming" -> "ended"
    [] Disconnecting(svc) /\ command = "reconnect" -> "either"
    [] OTHER -> command

\* endPendingRecovery.
EndsPending(v) == [v EXCEPT !.timer = "none", !.queued = "none"]

AlreadyUp(v, id) ==
  /\ v.active = id /\ v.core # NoSlot /\ TunUp(v) /\ v.shown
  /\ ~v.recovering /\ v.timer = "none" /\ InFlight(v) = {}

\* handlers.connect
Connect(id) ==
  LET v == [EndsPending(svc) EXCEPT !.bootCancelled = TRUE, !.rebuilt = FALSE] IN
  /\ HasRoom /\ Uses("connect")
  /\ svc' = IF AlreadyUp(v, id) THEN v ELSE Connects(v, Slot(v), id, "connect", "none")
  /\ asked' = [Nothing EXCEPT !.what = Last("connect"), !.amid = InFlight(svc) # {}]
  /\ UNCHANGED follow /\ KsRest

Refused(v) == HandOver(v)

\* handlers['vpn:reconnect'] and 'settings:apply': reapplyByHand.
Reconnect ==
  LET v == EndsPending(svc) IN
  /\ HasRoom /\ svc.active # NoId /\ Uses("reconnect")
  /\ svc' = IF v.core = NoSlot THEN Refused(v) ELSE Reapplies(v, "reapply", "none")
  /\ asked' = [Nothing EXCEPT !.what = Last("reconnect"), !.amid = InFlight(svc) # {}]
  /\ UNCHANGED follow /\ KsRest

\* Slip: the intent is cleared and the queue is not told.
DisconnectUnasked ==
  /\ svc.off = "none" /\ Uses("disconnect")
  /\ svc' = [svc EXCEPT !.bootCancelled = TRUE, !.off = "disarming"]
  /\ asked' = [Nothing EXCEPT !.what = "off"]
  /\ intent' = NoId /\ UNCHANGED <<settings, memory, table, snippet, passes, step, left, ghosts, follow>>

\* handlers.disconnect: the kill switch first, then the connection.
Disconnect ==
  /\ svc.off = "none" /\ Uses("disconnect")
  /\ svc' = [svc EXCEPT !.bootCancelled = TRUE, !.off = "disarming"]
  /\ asked' = [Nothing EXCEPT !.what = "off"]
  /\ Unmeant("off") /\ UNCHANGED follow

\* recoverGen moves: the recovery under way has lost its lock.
Resets(v) ==
  [v EXCEPT !.recovering = FALSE,
     !.calls = [s \in Slots |-> IF @[s].by = "recovery" THEN [@[s] EXCEPT !.reset = TRUE] ELSE @[s]]]

\* doDisconnect, up to its first await.
TearsDown ==
  /\ svc.off = "disarming" /\ Passed("off")
  /\ svc' = [StopsWatching(Resets(Bumped(svc))) EXCEPT
               !.lastIsOff = TRUE, !.rebuilt = FALSE, !.off = "tuns", !.gateways = StopTuns(@)]
  /\ asked' = [asked EXCEPT !.crossed = svc.drops # {}]
  /\ UNCHANGED <<follow, budget>> /\ KsRest

StopsCore ==
  /\ svc.off = "tuns" /\ svc' = [svc EXCEPT !.off = "core", !.offWaits = svc.core]
  /\ UNCHANGED <<follow, budget, asked>> /\ KsRest

IsDown ==
  /\ svc.off = "core"
  /\ svc' = [CoreGone(svc, svc.offWaits) EXCEPT !.off = "none", !.offWaits = NoSlot, !.active = NoId, !.shown = FALSE]
  /\ UNCHANGED <<follow, budget, asked>> /\ KsRest

\* settings:set of the kill switch; of the reconnect on a network change.
SetSwitch == SwitchSet("set") /\ Passed("set") /\ UNCHANGED <<svc, follow, budget, asked>>
SetFollow == Uses("follow") /\ follow' = ~follow /\ UNCHANGED <<svc, asked>> /\ KsRest

-----------------------------------------------------------------------------
\* What happens by itself.

\* autoConnectAtLaunch, after the kill switch has taken the saved intent up.
BootConnect ==
  LET v == [svc EXCEPT !.boot = "none"] IN
  /\ svc.boot = "due" /\ HasRoom
  /\ \A i \in DOMAIN passes : passes[i].why # "start"
  /\ svc' = IF v.bootCancelled \/ v.active # NoId \/ intent = NoId THEN v
            ELSE Connects(v, Slot(v), intent, "boot", "none")
  /\ UNCHANGED <<follow, budget, asked>> /\ KsRest

\* The core exits on its own; a stop of ours, or a reload, has it unsaid.
CoreDies ==
  LET v == CoreGone(svc, svc.core) IN
  /\ svc.core # NoSlot /\ Uses("die")
  /\ svc' = IF Reloading(v) \/ Quiet(v) \/ Disconnecting(v) \/ v.active = NoId THEN v
            ELSE [v EXCEPT !.drops = @ \cup
                   {[why |-> "core-exited", reported |-> FALSE, latest |-> TRUE, waited |-> FALSE, on |-> {}]}]
  /\ UNCHANGED <<follow, asked>> /\ KsRest

\* sing-box exits: only the gateway of now is told of.
GatewayDies ==
  /\ HasRoom /\ Uses("die")
  /\ \E t \in Slots :
       /\ Up(svc, t)
       /\ LET v == [svc EXCEPT !.gateways[t] = "down"] IN
          svc' \in IF Disconnecting(v) \/ v.tun # t THEN {v} ELSE Drop(v, "tunnel-exited", FALSE)
  /\ UNCHANGED <<follow, asked>> /\ KsRest

\* What the drop broke is there again.
BroughtBack(v, d) == IF d.why = "core-exited" THEN v.core # NoSlot ELSE TunUp(v)

\* A drop's turn: the tick after the exit, or once the connects it waited for settled.
DropTaken ==
  \E d \in svc.drops :
    LET v == [svc EXCEPT !.drops = @ \ {d}] IN
    /\ d.on = {} /\ HasRoom
    /\ svc' \in IF d.waited /\ (Disconnecting(v) \/ BroughtBack(v, d)) THEN {v} ELSE Drop(v, d.why, d.reported)
    /\ UNCHANGED <<follow, budget, asked>> /\ KsRest

Fires(v) == Attempt([v EXCEPT !.timer = "none"], v.timer)

TimerFires ==
  /\ svc.timer # "none" /\ HasRoom /\ svc' = Fires(svc)
  /\ UNCHANGED <<follow, budget, asked>> /\ KsRest

\* judgeWanChange: not judged while something is being built.
Judges(v) == ~v.recovering /\ v.timer = "none" /\ InFlight(v) = {} /\ TunUp(v)

WanChanges ==
  /\ svc.net /\ svc.judge = "none" /\ Uses("wan")
  /\ svc' = IF Judges(svc) THEN [svc EXCEPT !.judge = "asking"] ELSE svc
  /\ UNCHANGED <<follow, asked>> /\ KsRest

\* Kept when the tunnel answers; the WAN device may be gone with it.
WanJudged ==
  LET v == [svc EXCEPT !.judge = "none"] IN
  /\ svc.judge # "none" /\ HasRoom /\ TickOver
  /\ \/ svc.judge = "stale" /\ svc' = v
     \/ svc.judge = "asking" /\ Answers(svc) /\ svc' = v
     \/ svc.judge = "asking" /\ svc' = IF Judges(v) THEN Attempt(v, "wan-changed") ELSE v
  /\ UNCHANGED <<follow, budget, asked>> /\ KsRest

\* The tunnel's own watch: asked only while the connection is up and settled.
Settled(v) == ~Disconnecting(v) /\ ~Reloading(v) /\ Judges(v) /\ v.shown /\ v.active # NoId
Rearms(v) == [v EXCEPT !.misses = 0, !.watch = IF v.active # NoId THEN "armed" ELSE "off"]

WatchAsks ==
  /\ svc.watch = "armed" /\ svc' = IF Settled(svc) THEN [svc EXCEPT !.watch = "asking"] ELSE Rearms(svc)
  /\ UNCHANGED <<follow, budget, asked>> /\ KsRest

\* A second miss in a row is a drop, once per gap.
WatchHears ==
  LET missed == [svc EXCEPT !.watch = "armed", !.misses = 1 - @] IN
  /\ svc.watch \in {"asking", "stale"} /\ HasRoom /\ TickOver
  /\ svc' \in IF svc.watch = "stale" \/ ~Settled(svc) \/ Answers(svc) THEN {Rearms(svc)}
              ELSE IF svc.misses = 0 \/ svc.gap THEN {missed}
              ELSE Drop([missed EXCEPT !.gap = TRUE], "tunnel-stalled", FALSE)
  /\ UNCHANGED <<follow, budget, asked>> /\ KsRest

GapOver == svc.gap /\ svc' = [svc EXCEPT !.gap = FALSE] /\ UNCHANGED <<follow, budget, asked>> /\ KsRest

\* Nothing passes the tunnel any more, though both processes live.
Stalls ==
  /\ svc.flows /\ TunUp(svc) /\ Uses("stall") /\ svc' = [svc EXCEPT !.flows = FALSE]
  /\ UNCHANGED <<follow, asked>> /\ KsRest

Restarted ==
  /\ Crashed \/ Rebooted
  /\ svc' = Launched /\ UNCHANGED <<follow, budget>>
  /\ asked' = IF intent' = NoId THEN [Nothing EXCEPT !.what = asked.what] ELSE Nothing

SwitchItself == (QueueRuns \/ Verify \/ Flushed \/ AutoConnectSet) /\ UNCHANGED <<svc, follow, budget, asked>>

-----------------------------------------------------------------------------
Commands == Reconnect \/ Disconnect \/ SetSwitch \/ SetFollow \/ \E id \in Ids : Connect(id)
Service ==
  TearsDown \/ StopsCore \/ IsDown \/ BootConnect \/ DropTaken \/ TimerFires
  \/ WanJudged \/ WatchAsks \/ WatchHears \/ \E s \in Slots : CallSteps(s)
World == CoreDies \/ GatewayDies \/ WanChanges \/ Stalls \/ GapOver \/ Restarted

\* A start whose core is gone hears of it before anything else happens.
Gone == {s \in Slots : At(s, "grace") /\ svc.core # s}

Next ==
  \/ Gone # {} /\ \E s \in Gone : Started(s)
  \/ Gone = {} /\ (Commands \/ Service \/ World \/ SwitchItself)

Spec == Init /\ [][Next]_rVars

(***************************************************************************)
(* The event loop: what the service waits for is answered or times out,    *)
(* and its timers fire.                                                    *)
(***************************************************************************)
Fairness ==
  /\ WF_rVars(TearsDown) /\ WF_rVars(StopsCore) /\ WF_rVars(IsDown) /\ WF_rVars(BootConnect)
  /\ WF_rVars(DropTaken) /\ WF_rVars(TimerFires) /\ WF_rVars(WanJudged)
  /\ WF_rVars(WatchAsks) /\ WF_rVars(WatchHears) /\ WF_rVars(GapOver)
  /\ WF_rVars(QueueRuns /\ UNCHANGED <<svc, follow, budget, asked>>)
  /\ \A s \in Slots : WF_rVars(CallSteps(s))
FairSpec == Spec /\ Fairness
-----------------------------------------------------------------------------
\* A Reconnect was pressed while a connect was under way.
PressedAmid == asked.what = "reconnect" /\ asked.amid
Settles == svc.off = "none" /\ passes = <<>> /\ \A s \in Slots : At(s, "idle")

(* The user's disconnect ends it: once it and what it overtook have        *)
(* settled, no core and no gateway run and none is taken for live, so that *)
(* nothing is rebuilt - whatever connect, rebuild or recovery it met, but  *)
(* for a core that had died in that very tick.                             *)
OffIsDown ==
  asked.what \in {"off", "ended"} /\ ~asked.crossed /\ Settles =>
    /\ svc.active = NoId /\ svc.core = NoSlot
    /\ \A t \in Slots : svc.gateways[t] # "up"

(* ... and "never blocks the LAN": nothing is meant any more, so the kill  *)
(* switch is off and a reboot brings nothing back.                         *)
OffIsOff == asked.what = "off" /\ Settles => intent = NoId

Alive == svc.core # NoSlot /\ TunUp(svc)
Coming == svc.timer # "none" \/ svc.recovering \/ svc.drops # {} \/ svc.boot = "due"

(* A connection taken for live is up, or about to be rebuilt: a death of   *)
(* the core or of the gateway at any moment of a connect, a rebuild or a   *)
(* recovery, or a step of them that fails, is somebody's to retry - unless *)
(* the user was told that the command had failed.                          *)
NeverLeftDead ==
  /\ svc.active # NoId \/ (intent # NoId /\ asked.what \notin {"off", "ended", "either"})
  /\ Settles /\ ~asked.failed /\ ~PressedAmid /\ follow
  => Alive \/ Coming

(* "Armed before the gateway": while a connect brings the gateway up and   *)
(* the connection is meant, the kernel rejects what would go around it -   *)
(* unless nft refused or another emptied the ruleset.                      *)
ArmedFirst ==
  \A s \in Slots :
    At(s, "gateway") /\ ~Stale(s) /\ enabled /\ intent # NoId /\ Passed("set") /\ ~stuck /\ left["flush"] = budget["flush"]
      => table

(* A connection that is meant to be live comes back: a dead core, a dead   *)
(* gateway, a rebuild that fails or a tunnel nothing passes any more is    *)
(* rebuilt until it is up, or the user's command ends it - "the router     *)
(* never gives up".                                                        *)
Healed ==
  svc.active # NoId ~> (Alive /\ svc.flows) \/ svc.active = NoId \/ asked.failed \/ PressedAmid \/ ~follow

(* The kill switch in the router is the kill switch of its own module.     *)
SwitchKept == KsSpec
-----------------------------------------------------------------------------
(* The inductive invariant of ArmedFirst.                                  *)

\* The connect nothing has overtaken, and whether it has been said to be meant.
After == {"arming", "gwDown", "port", "gateway"}
Current(v) == {s \in Slots : v.calls[s].pc \in Building /\ ~v.calls[s].stale}
Told(v) == {s \in Current(v) : v.calls[s].pc \in After}
OneCurrent == \A s, t \in Current(svc) : s = t

\* A call waits for its own pass before it goes to its gateway.
WaitsForPass == \A s \in Slots : ~Passed(s) => At(s, "arming")

Unflushed == left["flush"] = budget["flush"]
FlushesCounted ==
  /\ "flush" \in DOMAIN left \cap DOMAIN budget
  /\ {left["flush"], budget["flush"]} \subseteq Nat /\ left["flush"] <= budget["flush"]
LoadedIsThere == step = "loaded" /\ Unflushed => table

\* A pass of by is yet to begin, or is on its way to the table.
ToCome(by) == \E i \in DOMAIN passes : passes[i].by = by /\ (i = 1 => step = "none")
UnderWay(by) == step \in {"asking", "loading"} /\ Head(passes).by = by

\* The table is there for call s, or its own pass or the setting's will see to
\* it; what is being taken away is brought back by a pass behind.
SeesTo(s) ==
  /\ step = "deleting" /\ Want => ToCome(s) \/ ToCome("set")
  /\ Want /\ ~stuck /\ Unflushed =>
       \/ table /\ step # "deleting"
       \/ \E by \in {s, "set"} : ToCome(by) \/ UnderWay(by)

ArmedInv ==
  /\ OneCurrent /\ WaitsForPass /\ FlushesCounted /\ LoadedIsThere
  /\ \A s \in Told(svc) : SeesTo(s)
-----------------------------------------------------------------------------
(* The inductive invariant of OffIsDown.                                   *)

\* The user's last command is an off, and its teardown has begun.
OffBegun == asked.what \in {"off", "ended"} /\ ~asked.crossed /\ svc.off # "disarming"

\* Nothing waits that would build a connection.
NothingComes(v) == v.drops = {} /\ v.timer = "none" /\ ~v.net /\ v.judge # "asking" /\ v.watch = "off"

\* A call under way was overtaken, finds the off to be last, and has no lock.
Overtaken(v) ==
  \A s \in Slots : v.calls[s].pc # "idle" =>
    v.calls[s].stale /\ v.lastIsOff /\ (v.calls[s].by = "recovery" => v.calls[s].reset)

\* A core that runs is the teardown's to stop, or that of the call it is named by.
Gives(c, s) == c.pc \in After \cup {"grace", "lateStop", "abortCore"} \/ (c.pc = "giveWay" /\ c.waits = s)
CoreStops(v) == v.core = NoSlot \/ v.off = "tuns" \/ (v.off = "core" /\ v.offWaits = v.core)
CoreGoes(v) == CoreStops(v) \/ \E s \in Slots : v.core = s /\ Gives(v.calls[s], s)

GatewaysDown(v) == v.gateways = [t \in Slots |-> v.gateways[t]] /\ \A t \in Slots : v.gateways[t] # "up"

GoesDown(v) ==
  /\ NothingComes(v) /\ Overtaken(v) /\ CoreGoes(v) /\ GatewaysDown(v)
  /\ Disconnecting(v) \/ v.active = NoId

OffInv ==
  /\ asked = [f \in DOMAIN Nothing |-> asked[f]]
  /\ svc.off = "disarming" => svc.bootCancelled
  /\ OffBegun => GoesDown(svc) /\ (svc.bootCancelled \/ intent = NoId)
=============================================================================
