----------------------------- MODULE Connection -----------------------------
(***************************************************************************)
(* The life of the connection in the desktop application's main process    *)
(* (src/src/main/main.js, with XrayManager.start and stop of               *)
(* xrayManager.js and DropBudget of dropBudget.js).                        *)
(*                                                                         *)
(* Connects, settings reconnects, recoveries, drops and disconnects are    *)
(* asynchronous functions of one JavaScript thread.  Each runs alone until *)
(* it awaits something; while it waits, any other may run.  A connect or a *)
(* disconnect bumps connGen, and every function compares the value it took *)
(* with the current one after an await, to find out that it was overtaken. *)
(*                                                                         *)
(* A task is one such call in flight: pc names the place it runs or waits  *)
(* at, the other fields are its local variables.  turn is the task that is *)
(* running without having awaited yet.                                     *)
(***************************************************************************)
EXTENDS Naturals, FiniteSets, Sequences

CONSTANTS
  Tasks,       \* bound: calls in flight at once, as numbers
  Scenarios,   \* bound: the settings - kill (switch), tun (mode), auto (reconnect) -
               \* and how often each event may happen with them
  Retries,     \* the length of RECOVER_BACKOFF_MS
  DropLimit    \* the drops DropBudget allows

NoTask == 0    \* turn: every task awaits something
None == 0      \* no core, no tunnel, no token
NoRetry == 0   \* recoverTimer is null; otherwise the attempt it will make

\* connect, disconnect, apply: calls of the user; trigger: the network moves; exit:
\* a core or a tunnel dies; fault: a step of a connect fails; unarmed: the block
\* cannot be put in; slow: a core outlives its stop; reload: routes, groups, caps or
\* LAN users ask for the core to be built anew.
Events == {"connect", "disconnect", "apply", "reload", "trigger", "exit", "fault", "unarmed", "slow"}

Settings == [kill : BOOLEAN, tun : BOOLEAN, auto : BOOLEAN]

ASSUME ConnectionAssumption ==
  /\ Tasks \subseteq Nat \ {NoTask} /\ IsFiniteSet(Tasks)
  /\ Scenarios \subseteq [settings : Settings, budget : [Events -> Nat]]
  /\ Retries \in Nat /\ DropLimit \in Nat

VARIABLES
  tasks,       \* the calls in flight
  turn,        \* the one that runs
  settings,
  gen, dgen,   \* connGen and disconnectGen
  active,      \* activeServerId is set: the user wants to be connected
  status,      \* the last status told to the window
  userDisc,    \* userDisconnecting
  proxy,       \* what the queue of system-proxy operations will leave
  waiting,     \* the calls that wait for one of them, in its order
  proc,        \* XrayManager.proc; running is proc # None
  alive,       \* core processes that run, numbered as they were started
  killed,      \* those of them told to stop
  made,        \* cores started so far
  astray,      \* ghost: cores of a reload that was overtaken, or displaced beside one
  unseen,      \* ghost: the core died, hidden by xrayReloading, and nothing in flight looks for it
  reloading,   \* xrayReloading
  tun, up,     \* the current tunnel, and the tunnels that are active
  rule,        \* the kill switch's firewall rule is in
  engaged,     \* killEngaged, the belief
  watcher,     \* netWatcher is set
  recovering,  \* the recovery lock
  rgen,        \* recoverGen
  queued,      \* recoverQueued is set
  timer,       \* recoverTimer
  runs,        \* recoveries begun, the last one is recoveryRun
  drops,       \* drops taken out of the budget
  left         \* the events that may still happen

ctl == <<tasks, turn>>
conn == <<gen, dgen, active, userDisc, watcher>>
sysproxy == <<proxy, waiting>>
started == <<made, astray, unseen>>
core == <<proc, alive, killed, started>>
tunnel == <<tun, up>>
block == <<rule, engaged>>
recovery == <<recovering, rgen, queued, timer, runs, drops>>
vars == <<ctl, settings, conn, status, sysproxy, core, reloading, tunnel, block, recovery, left>>

Ops == {"none", "connect", "apply", "retry", "reload", "recover", "drop", "disconnect"}
Results == {"none", "ok", "tunless", "failed", "stale"}

Idle ==
  [pc |-> "idle", op |-> "none",
   my |-> None,         \* gen of connectOnce: a connect is in flight
   at |-> None,         \* gen of reapplyConnection, of a reload or of a give-up
   rg |-> 0, run |-> 0, \* gen of recoverFromNetworkChange, and its recoveryRun
   att |-> 0,           \* attempt
   armed |-> FALSE,     \* the block this call holds: armed, held, armedHere
   sw |-> FALSE,        \* switchArmed
   got |-> "no",        \* what arming answered
   own |-> None,        \* ownCore
   tn |-> None,         \* myTun
   terr |-> FALSE,      \* tunError
   on |-> 0,            \* the core or the recovery waited for
   what |-> "core",     \* what dropped
   res |-> "none",      \* what the inner call returned
   next |-> "end"]      \* where an arm or a disarm continues

TaskOf == [pc : STRING, op : Ops, my : Nat, at : Nat, rg : Nat, run : Nat,
           att : 0..Retries, armed : BOOLEAN, sw : BOOLEAN,
           got : {"no", "held", "added"}, own : Nat, tn : Nat,
           terr : BOOLEAN, on : Nat, what : {"core", "tun"}, res : Results, next : STRING]

TypeOK ==
  /\ \A t \in Tasks : tasks[t] \in TaskOf
  /\ turn \in Tasks \cup {NoTask}
  /\ settings \in Settings
  /\ gen \in Nat /\ dgen \in 0..gen
  /\ status \in {"disconnected", "connecting", "connected", "reconnecting", "reconnect-failed", "error"}
  /\ {active, userDisc, watcher, proxy, rule, engaged, recovering, queued} \subseteq BOOLEAN
  /\ proc \in 0..made /\ alive \cup astray \subseteq 1..made /\ killed \subseteq alive /\ unseen \in BOOLEAN
  /\ reloading \in 0..Cardinality(Tasks)
  /\ waiting \in Seq(Tasks)
  /\ tun \in 0..gen /\ up \subseteq 1..gen
  /\ rgen \in Nat /\ timer \in 0..Retries /\ runs \in Nat /\ drops \in 0..DropLimit
  /\ left \in [Events -> Nat]

Init ==
  /\ tasks = [t \in Tasks |-> Idle] /\ turn = NoTask
  /\ \E s \in Scenarios : settings = s.settings /\ left = s.budget
  /\ gen = 0 /\ dgen = 0 /\ active = FALSE /\ userDisc = FALSE /\ watcher = FALSE
  /\ status = "disconnected" /\ proxy = FALSE /\ waiting = <<>>
  /\ proc = None /\ alive = {} /\ killed = {} /\ reloading = 0
  /\ made = 0 /\ astray = {} /\ unseen = FALSE
  /\ tun = None /\ up = {}
  /\ rule = FALSE /\ engaged = FALSE
  /\ recovering = FALSE /\ rgen = 0 /\ queued = FALSE /\ timer = NoRetry /\ runs = 0 /\ drops = 0

-----------------------------------------------------------------------------
(* The JavaScript thread.                                                  *)

Free == {t \in Tasks : tasks[t].pc = "idle"}
Slot(t) == t \in Free /\ \A u \in Free : t <= u

InFlight == \E t \in Tasks : tasks[t].my # None

\* Mutant: a reload begins when it is asked for.
AnyReload(t) == TRUE

\* queueReload: reloads run one at a time.
NextReload(t) ==
  \A u \in Tasks \ {t} : tasks[u].op = "reload" => tasks[u].pc = "reload" /\ t < u

\* The waits that end at once when what they wait for comes about: an exit, a
\* settled connect or recovery.  Such a task resumes before any new event.
Resumes(t) ==
  CASE tasks[t].pc \in {"starting", "tornDown", "gaveCore", "disDone"} -> tasks[t].on \notin alive
    [] tasks[t].pc = "grace" -> tasks[t].on \notin alive
    [] tasks[t].pc = "reload" -> NextReload(t)
    [] tasks[t].pc = "dropWait" -> ~InFlight
    [] tasks[t].pc = "dropJoin" -> \A u \in Tasks : tasks[u].run # tasks[t].on
    [] OTHER -> FALSE
Quiet == turn = NoTask /\ ~\E t \in Tasks : Resumes(t)

\* Task t may run from pc p: it is running, or nobody is and its wait is over.
At(t, p) ==
  /\ tasks[t].pc = p
  /\ turn = t \/ Quiet \/ (turn = NoTask /\ Resumes(t))

To(t, p) == [tasks[t] EXCEPT !.pc = p]
Goes(t, r) == tasks' = [tasks EXCEPT ![t] = r] /\ turn' = t
Awaits(t, r) == tasks' = [tasks EXCEPT ![t] = r] /\ turn' = NoTask
Ends(t) == Awaits(t, Idle)

\* A call made by the user, a timer or an event of a process.
Calls(t, r) == Quiet /\ Slot(t) /\ Goes(t, r)
Happens(e) == left[e] > 0 /\ left' = [left EXCEPT ![e] = @ - 1]

\* The operations on the system proxy run one at a time (sysproxy.js, serial).
AwaitsProxy(t, r, on) == Awaits(t, r) /\ proxy' = on /\ waiting' = Append(waiting, t)
ProxyDone(t) == waiting # <<>> /\ Head(waiting) = t /\ waiting' = Tail(waiting) /\ UNCHANGED proxy

Running == proc # None
Stale(t) == tasks[t].my # gen
GivenUp == userDisc \/ ~active

-----------------------------------------------------------------------------
(* The kill switch.  netsh runs beside the thread: a rule goes in or out   *)
(* before the call that asked for it resumes.                              *)

ArmRest == <<settings, conn, status, sysproxy, core, reloading, tunnel, recovery>>
Then(t) == To(t, tasks[t].next)

\* armKillSwitch: the belief is trusted only when the rule is really there.
Arm(t) ==
  /\ At(t, "arm")
  /\ Awaits(t, To(t, IF engaged THEN "armCheck" ELSE "armDelete"))
  /\ UNCHANGED <<ArmRest, block, left>>

ArmCheck(t) ==
  /\ At(t, "armCheck")
  /\ IF rule THEN Goes(t, [Then(t) EXCEPT !.got = "held"])
             ELSE Awaits(t, To(t, "armDelete"))
  /\ UNCHANGED <<ArmRest, block, left>>

ArmDelete(t) ==
  /\ At(t, "armDelete")
  /\ rule' = FALSE
  /\ Awaits(t, To(t, "armAdd"))
  /\ UNCHANGED <<ArmRest, engaged, left>>

ArmAdd(t) ==
  /\ At(t, "armAdd")
  /\ \/ rule' = TRUE /\ Awaits(t, To(t, "armAdded")) /\ UNCHANGED left
     \/ Happens("unarmed") /\ Goes(t, [Then(t) EXCEPT !.got = "no"]) /\ UNCHANGED rule
  /\ UNCHANGED <<ArmRest, engaged>>

ArmAdded(t) ==
  /\ At(t, "armAdded")
  /\ engaged' = TRUE
  /\ Goes(t, [Then(t) EXCEPT !.got = "added"])
  /\ UNCHANGED <<ArmRest, rule, left>>

\* disarmKillSwitch: the belief goes at once, the rule when netsh is done.
Disarm(t) ==
  /\ At(t, "disarm")
  /\ engaged' = FALSE
  /\ Awaits(t, To(t, "disarming"))
  /\ UNCHANGED <<ArmRest, rule, left>>

Disarming(t) ==
  /\ At(t, "disarming")
  /\ rule' = FALSE
  /\ Goes(t, Then(t))
  /\ UNCHANGED <<ArmRest, engaged, left>>

KillSwitch(t) ==
  Arm(t) \/ ArmCheck(t) \/ ArmDelete(t) \/ ArmAdd(t) \/ ArmAdded(t) \/ Disarm(t) \/ Disarming(t)

-----------------------------------------------------------------------------
(* connectOnce.                                                            *)

\* What an inner call answers its caller with.
Answer(t, r) ==
  [tasks[t] EXCEPT !.pc = "answer", !.res = r, !.my = None, !.sw = FALSE, !.got = "no",
                   !.own = None, !.tn = None, !.terr = FALSE, !.on = 0]

Overtaken(t) == IF Stale(t) THEN "stale" ELSE "failed"

Connect(t) ==
  /\ At(t, "connect")
  /\ gen' = gen + 1
  /\ IF tasks[t].armed
       THEN Awaits(t, [To(t, "prepare") EXCEPT !.my = gen + 1])
       ELSE Goes(t, [To(t, "disarm") EXCEPT !.my = gen + 1, !.next = "prepare"])
  /\ UNCHANGED <<settings, dgen, active, userDisc, watcher, status, sysproxy, core, reloading, tunnel, block, recovery, left>>

\* Settings, names, certificates, the config and its validation; a live tunnel
\* is kept, otherwise this connect has one of its own.
Prepare(t) ==
  /\ At(t, "prepare")
  /\ \/ /\ Stale(t)
        /\ Goes(t, Answer(t, "stale"))
        /\ UNCHANGED <<status, reloading, tun, left>>
     \/ /\ ~Stale(t) /\ Happens("fault")
        /\ status' = "connecting"
        /\ Goes(t, Answer(t, "failed"))
        /\ UNCHANGED <<reloading, tun>>
     \/ /\ ~Stale(t)
        /\ status' = "connecting"
        /\ tun' = IF tun \in up THEN tun ELSE tasks[t].my
        /\ reloading' = reloading + 1
        /\ Goes(t, [To(t, "start") EXCEPT !.tn = tun'])
        /\ UNCHANGED left
  /\ UNCHANGED <<settings, conn, sysproxy, core, up, block, recovery>>

\* XrayManager.start: stop the core that runs, then spawn - whoever asked.
StartRest == <<settings, conn, status, sysproxy, reloading, tunnel, block, recovery>>

\* Ghost: what a reload started although it had been overtaken, and the core that
\* a connect and a reload displaced for each other.
Spawned(t) ==
  LET reload == tasks[t].op = "reload"
      reloads == \E u \in Tasks : tasks[u].op = "reload" /\ tasks[u].pc = "grace" /\ tasks[u].on = proc
  IN  (IF reload /\ (tasks[t].at # gen \/ ~active) THEN {made + 1} ELSE {})
        \cup (IF reload # reloads THEN {proc} \ {None, tasks[t].on} ELSE {})

Spawn(t) ==
  /\ made' = made + 1 /\ proc' = made' /\ alive' = alive \cup {made'}
  /\ astray' = astray \cup Spawned(t)
  /\ Awaits(t, [To(t, "grace") EXCEPT !.on = made'])
  /\ UNCHANGED <<killed, unseen>>

\* XrayManager.stop waits for the exit, but not for ever.
StopsCore(t, p) ==
  /\ killed' = killed \cup ({proc} \cap alive) /\ UNCHANGED <<proc, alive, started>>
  /\ Awaits(t, [To(t, p) EXCEPT !.on = proc])
Stopped(t) ==
  \/ tasks[t].on \notin alive /\ UNCHANGED left
  \/ tasks[t].on \in alive /\ Happens("slow")

Start(t) ==
  /\ At(t, "start")
  /\ IF Running THEN StopsCore(t, "starting") ELSE Spawn(t)
  /\ UNCHANGED <<StartRest, left>>

Starting(t) == At(t, "starting") /\ Stopped(t) /\ Spawn(t) /\ UNCHANGED StartRest

\* The grace period is over: a core that exited within it is an error, unless a
\* disconnect killed it.  Otherwise the user's intent is now this connection.
Crashed(t) ==
  /\ At(t, "grace") /\ tasks[t].my # None /\ tasks[t].on \notin alive
  /\ reloading' = reloading - 1
  /\ Goes(t, Answer(t, Overtaken(t)))
  /\ UNCHANGED <<settings, conn, status, sysproxy, core, tunnel, block, recovery, left>>

Started(t) ==
  /\ At(t, "grace") /\ tasks[t].my # None /\ tasks[t].on \in alive
  /\ reloading' = reloading - 1
  /\ LET r == [tasks[t] EXCEPT !.own = IF proc = tasks[t].on THEN proc ELSE None, !.on = 0]
     IN IF Stale(t)
          THEN Goes(t, [r EXCEPT !.pc = "giveWay"]) /\ UNCHANGED <<active, sysproxy>>
          ELSE AwaitsProxy(t, [r EXCEPT !.pc = "proxied"], TRUE) /\ active' = TRUE
  /\ UNCHANGED <<settings, gen, dgen, userDisc, watcher, status, core, tunnel, block, recovery, left>>

\* The system proxy is set.  A tunnel that is up was built for another server:
\* the kill switch seals the gap while it is built again.
ConnectRest == <<settings, conn, status, sysproxy, core, reloading, tun, block, recovery>>

Proxied(t) ==
  /\ At(t, "proxied") /\ ProxyDone(t)
  /\ CASE Stale(t) -> Goes(t, To(t, "giveWay"))
       [] ~Stale(t) /\ ~settings.tun -> Awaits(t, To(t, "lan"))
       [] ~Stale(t) /\ settings.tun /\ tasks[t].tn \notin up -> Awaits(t, To(t, "tunnel"))
       [] OTHER -> Goes(t, IF settings.kill /\ ~tasks[t].armed
                             THEN [To(t, "arm") EXCEPT !.next = "swap"] ELSE To(t, "swap"))
  /\ UNCHANGED <<settings, conn, status, core, reloading, tunnel, block, recovery, left>>

Swap(t) ==
  /\ At(t, "swap")
  /\ up' = up \ {tasks[t].tn}
  /\ Awaits(t, [To(t, "tunnel") EXCEPT !.sw = (@ \/ tasks[t].got = "added"), !.got = "no"])
  /\ UNCHANGED <<ConnectRest, left>>

\* The tunnel starts or fails; the leak guard is engaged on it.
Tunnel(t) ==
  /\ At(t, "tunnel")
  /\ \/ up' = up \cup {tasks[t].tn} /\ Awaits(t, To(t, "tunnelled")) /\ UNCHANGED left
     \/ Happens("fault") /\ Awaits(t, [To(t, "tunnelled") EXCEPT !.terr = TRUE]) /\ UNCHANGED up
  /\ UNCHANGED ConnectRest

Tunnelled(t) ==
  /\ At(t, "tunnelled")
  /\ IF Stale(t) THEN up' = up \ {tasks[t].tn} /\ Awaits(t, To(t, "giveWay"))
                 ELSE Awaits(t, To(t, "lan")) /\ UNCHANGED up
  /\ UNCHANGED <<ConnectRest, left>>

\* The LAN rule is in.  The block of a server switch goes once the connection
\* stands; then the last gate, past which nothing awaits.  A watcher that is not
\* there yet is started, which clears what was pending (startNetWatcher).
Lan(t) ==
  /\ At(t, "lan")
  /\ Goes(t, IF tasks[t].sw /\ ~Stale(t) /\ Running
               THEN [To(t, "disarm") EXCEPT !.next = "last"] ELSE To(t, "last"))
  /\ UNCHANGED <<ConnectRest, up, left>>

Last(t) ==
  /\ At(t, "last")
  /\ CASE Stale(t) -> Goes(t, To(t, "giveWay")) /\ UNCHANGED <<watcher, status, queued, timer>>
       [] ~Stale(t) /\ ~Running -> Goes(t, Answer(t, "failed")) /\ UNCHANGED <<watcher, status, queued, timer>>
       [] OTHER -> /\ Goes(t, Answer(t, IF tasks[t].terr THEN "tunless" ELSE "ok"))
                   /\ watcher' = TRUE /\ status' = "connected"
                   /\ timer' = (IF watcher THEN timer ELSE NoRetry)
                   /\ queued' = (queued /\ watcher)
  /\ UNCHANGED <<settings, gen, dgen, active, userDisc, sysproxy, core, reloading, tunnel, block, recovering, rgen, runs, drops, left>>

\* Mutant: the disconnect is taken to have stopped everything.
LeavesNoCore(t) == FALSE

\* giveWay: overtaken by a disconnect with nothing after it, undo what it missed.
LeavesCore(t) == gen = dgen /\ tasks[t].own # None /\ proc = tasks[t].own
GiveWay(t) ==
  /\ At(t, "giveWay")
  /\ IF LeavesCore(t)
       THEN StopsCore(t, "gaveCore") /\ reloading' = reloading + 1
       ELSE /\ Goes(t, IF gen = dgen /\ tasks[t].sw
                         THEN [To(t, "disarm") EXCEPT !.next = "gone"] ELSE To(t, "gone"))
            /\ UNCHANGED <<core, reloading>>
  /\ UNCHANGED <<settings, conn, status, sysproxy, tunnel, block, recovery, left>>

GaveCore(t) ==
  /\ At(t, "gaveCore") /\ Stopped(t)
  /\ reloading' = reloading - 1
  /\ Goes(t, IF tasks[t].sw THEN [To(t, "disarm") EXCEPT !.next = "gone"] ELSE To(t, "gone"))
  /\ UNCHANGED <<settings, conn, status, sysproxy, core, tunnel, block, recovery>>

Gone(t) ==
  /\ At(t, "gone")
  /\ Goes(t, Answer(t, "stale"))
  /\ UNCHANGED <<ConnectRest, up, left>>

ConnectOnce(t) ==
  \/ Connect(t) \/ Prepare(t) \/ Start(t) \/ Starting(t) \/ Crashed(t) \/ Started(t)
  \/ Proxied(t) \/ Swap(t) \/ Tunnel(t) \/ Tunnelled(t) \/ Lan(t) \/ Last(t)
  \/ GiveWay(t) \/ GaveCore(t) \/ Gone(t)

-----------------------------------------------------------------------------
(* reapplyConnection: tear the connection down and build it again.         *)

Return(t, r) == [To(t, IF tasks[t].op = "recover" THEN "recovered" ELSE "end")
                   EXCEPT !.res = r, !.got = "no", !.on = 0]

Reapply(t) ==
  /\ At(t, "reapply")
  /\ Goes(t, IF ~active \/ ~Running THEN Return(t, "failed")
             ELSE IF settings.kill
               THEN [To(t, "arm") EXCEPT !.at = gen, !.next = "reapplyArmed"]
               ELSE [To(t, "teardown") EXCEPT !.at = gen])
  /\ UNCHANGED <<ConnectRest, up, left>>

\* A block put in for a machine that a disconnect has already left goes again.
ReapplyArmed(t) ==
  /\ At(t, "reapplyArmed")
  /\ LET r == [tasks[t] EXCEPT !.armed = @ \/ tasks[t].got # "no", !.got = "no"]
     IN Goes(t, CASE tasks[t].at = gen -> [r EXCEPT !.pc = "teardown"]
                  [] tasks[t].at # gen /\ r.armed /\ gen = dgen ->
                       [r EXCEPT !.pc = "disarm", !.next = "reapplyStale"]
                  [] OTHER -> [r EXCEPT !.pc = "reapplyStale"])
  /\ UNCHANGED <<ConnectRest, up, left>>

ReapplyStale(t) ==
  /\ At(t, "reapplyStale")
  /\ Goes(t, Return(t, "stale"))
  /\ UNCHANGED <<ConnectRest, up, left>>

\* The guard is held, then the tunnels and the core are stopped.
Teardown(t) ==
  /\ At(t, "teardown")
  /\ status' = "connecting" /\ reloading' = reloading + 1
  /\ Awaits(t, To(t, "teardownTuns"))
  /\ UNCHANGED <<settings, conn, sysproxy, core, tunnel, block, recovery, left>>

TeardownTuns(t) ==
  /\ At(t, "teardownTuns")
  /\ up' = {}
  /\ Awaits(t, To(t, "teardownCore"))
  /\ UNCHANGED <<ConnectRest, left>>

TeardownCore(t) ==
  /\ At(t, "teardownCore")
  /\ IF Running THEN StopsCore(t, "tornDown") ELSE Goes(t, To(t, "tornDown")) /\ UNCHANGED core
  /\ UNCHANGED <<settings, conn, status, sysproxy, reloading, tunnel, block, recovery, left>>

\* Mutant: nobody asks whether the teardown was overtaken.
TornDownBlind(t) ==
  /\ At(t, "tornDown") /\ Stopped(t)
  /\ reloading' = reloading - 1
  /\ Goes(t, To(t, "connect"))
  /\ UNCHANGED <<settings, conn, status, sysproxy, core, tunnel, block, recovery>>

TornDown(t) ==
  /\ At(t, "tornDown") /\ Stopped(t)
  /\ reloading' = reloading - 1
  /\ Goes(t, IF tasks[t].at = gen THEN To(t, "connect") ELSE Return(t, "stale"))
  /\ UNCHANGED <<settings, conn, status, sysproxy, core, tunnel, block, recovery>>

\* The connect answered: a failed one leaves the block in, and no proxy.
ReapplyAnswered(t) ==
  /\ At(t, "answer") /\ tasks[t].at # None
  /\ CASE tasks[t].res = "failed" -> AwaitsProxy(t, To(t, "reapplyFailed"), FALSE)
       [] tasks[t].res = "stale" -> Goes(t, Return(t, "stale")) /\ UNCHANGED sysproxy
       [] OTHER -> /\ LET r == Return(t, tasks[t].res)
                      IN Goes(t, IF tasks[t].armed THEN [r EXCEPT !.pc = "disarm", !.next = r.pc] ELSE r)
                   /\ UNCHANGED sysproxy
  /\ UNCHANGED <<settings, conn, status, core, reloading, tunnel, block, recovery, left>>

ReapplyFailed(t) ==
  /\ At(t, "reapplyFailed") /\ ProxyDone(t)
  /\ status' = "error"
  /\ Goes(t, Return(t, "failed"))
  /\ UNCHANGED <<settings, conn, core, reloading, tunnel, block, recovery, left>>

ReapplyConnection(t) ==
  \/ Reapply(t) \/ ReapplyArmed(t) \/ ReapplyStale(t) \/ Teardown(t) \/ TeardownTuns(t)
  \/ TeardownCore(t) \/ TornDown(t) \/ ReapplyAnswered(t) \/ ReapplyFailed(t)

-----------------------------------------------------------------------------
(* queueReload and rebuildActiveConfig: only the core is built anew.       *)

AsksReload(t) ==
  /\ Happens("reload")
  /\ Quiet /\ Slot(t) /\ Awaits(t, [Idle EXCEPT !.op = "reload", !.pc = "reload"])
  /\ UNCHANGED <<ConnectRest, up>>

Reload(t) ==
  /\ At(t, "reload") /\ NextReload(t)
  /\ IF active /\ Running THEN Awaits(t, [To(t, "reloadBuild") EXCEPT !.at = gen]) ELSE Ends(t)
  /\ UNCHANGED <<ConnectRest, up, left>>

\* The settings and ports are there; the config is built, and validated.
ReloadBuild(t) ==
  /\ At(t, "reloadBuild")
  /\ reloading' = reloading + 1
  /\ Awaits(t, To(t, "reloadCheck"))
  /\ UNCHANGED <<settings, conn, status, sysproxy, core, tunnel, block, recovery, left>>

\* A reload that throws and leaves no core is a drop like any other.
Throws(t) == IF Running THEN Ends(t) ELSE Goes(t, [Idle EXCEPT !.op = "drop", !.pc = "drop"])

\* A connect, a disconnect or a recovery that came meanwhile has the core now.
ReloadCheck(t) ==
  /\ At(t, "reloadCheck")
  /\ \/ Happens("fault") /\ Throws(t) /\ reloading' = reloading - 1
     \/ /\ IF tasks[t].at = gen /\ ~userDisc /\ ~recovering /\ Running
             THEN Goes(t, To(t, "start")) /\ UNCHANGED reloading
             ELSE Ends(t) /\ reloading' = reloading - 1
        /\ UNCHANGED left
  /\ UNCHANGED <<settings, conn, status, sysproxy, core, tunnel, block, recovery>>

\* The new core is through its grace, or is not; nobody asks what came meanwhile.
Reloaded(t) ==
  /\ At(t, "grace") /\ tasks[t].op = "reload"
  /\ reloading' = reloading - 1
  /\ IF tasks[t].on \in alive THEN Ends(t) ELSE Throws(t)
  /\ UNCHANGED <<settings, conn, status, sysproxy, core, tunnel, block, recovery, left>>

InPlaceReload(t) == AsksReload(t) \/ Reload(t) \/ ReloadBuild(t) \/ ReloadCheck(t) \/ Reloaded(t)

-----------------------------------------------------------------------------
(* The user's calls.                                                       *)

CallRest == <<settings, conn, status, sysproxy, core, reloading, tunnel, block, recovering, rgen, queued, timer, runs>>
Called(t, op, pc) == Calls(t, [Idle EXCEPT !.op = op, !.pc = pc])

UserConnects(t) ==
  /\ Happens("connect") /\ drops' = 0
  /\ Called(t, "connect", "connect") /\ UNCHANGED CallRest

UserDisconnects(t) ==
  /\ Happens("disconnect")
  /\ Called(t, "disconnect", "disconnect") /\ UNCHANGED <<CallRest, drops>>

\* Apply (settings:apply).
UserApplies(t) ==
  /\ Happens("apply")
  /\ Called(t, "apply", "reapply") /\ UNCHANGED <<CallRest, drops>>

\* Reconnect (vpn:reconnect), also the Retry after a give-up: with no core left
\* it builds one, under the block that is in.
UserRetries(t) ==
  /\ active /\ Happens("apply") /\ drops' = 0
  /\ Calls(t, IF Running THEN [Idle EXCEPT !.op = "apply", !.pc = "reapply"]
                         ELSE [Idle EXCEPT !.op = "retry", !.pc = "connect", !.armed = engaged])
  /\ UNCHANGED CallRest

\* A connect by hand that failed says so, unless a disconnect had the last word.
ConnectAnswered(t) ==
  /\ At(t, "answer") /\ tasks[t].op \in {"connect", "retry"}
  /\ status' = IF tasks[t].res = "failed" /\ (tasks[t].op = "retry" \/ gen # dgen) THEN "error" ELSE status
  /\ IF tasks[t].armed /\ tasks[t].res \in {"ok", "tunless"} /\ Running
       THEN Goes(t, [To(t, "disarm") EXCEPT !.next = "end"]) ELSE Ends(t)
  /\ UNCHANGED <<settings, conn, sysproxy, core, reloading, tunnel, block, recovery, left>>

End(t) ==
  /\ At(t, "end") /\ Ends(t)
  /\ UNCHANGED <<ConnectRest, up, left>>

UserCalls(t) ==
  \/ UserConnects(t) \/ UserDisconnects(t) \/ UserApplies(t) \/ UserRetries(t)
  \/ ConnectAnswered(t) \/ End(t)

-----------------------------------------------------------------------------
(* recoverFromNetworkChange and runRecovery.                               *)

\* One recovery at a time; a trigger that arrives meanwhile is remembered.
Recover(t) ==
  /\ At(t, "recover")
  /\ CASE ~active \/ ~settings.auto ->
            Ends(t) /\ UNCHANGED <<status, recovery>>
       [] active /\ settings.auto /\ recovering ->
            Ends(t) /\ queued' = TRUE /\ UNCHANGED <<status, recovering, rgen, timer, runs, drops>>
       [] OTHER ->
            /\ recovering' = TRUE /\ timer' = NoRetry /\ runs' = runs + 1
            /\ status' = "reconnecting"
            /\ Goes(t, [To(t, IF Running THEN "reapply" ELSE "connect")
                          EXCEPT !.rg = rgen, !.run = runs', !.armed = ~Running /\ engaged])
            /\ UNCHANGED <<rgen, queued, drops>>
  /\ UNCHANGED <<settings, conn, sysproxy, core, reloading, tunnel, block, left>>

\* The block held for a rebuild from nothing goes only over a core that runs.
RecoverAnswered(t) ==
  /\ At(t, "answer") /\ tasks[t].op = "recover" /\ tasks[t].at = None
  /\ Goes(t, IF tasks[t].armed /\ tasks[t].res \in {"ok", "tunless"} /\ Running
               THEN [To(t, "disarm") EXCEPT !.next = "recovered"] ELSE To(t, "recovered"))
  /\ UNCHANGED <<ConnectRest, up, left>>

\* A failed attempt is retried after its backoff, or given up.  Then the lock is
\* released, by its owner only, and a remembered trigger starts over.
Recovered(t) ==
  /\ At(t, "recovered")
  /\ LET failed == tasks[t].res \in {"failed", "tunless"}
         mine == tasks[t].rg = rgen
         att == tasks[t].att
     IN /\ timer' = IF failed /\ att < Retries THEN att + 1 ELSE timer
        /\ status' = IF failed /\ att = Retries THEN "reconnect-failed" ELSE status
        /\ recovering' = (recovering /\ ~mine)
        /\ queued' = (queued /\ ~mine)
        /\ IF mine /\ queued THEN Goes(t, [Idle EXCEPT !.op = "recover", !.pc = "recover"]) ELSE Ends(t)
  /\ UNCHANGED <<settings, conn, sysproxy, core, reloading, tunnel, block, rgen, runs, drops, left>>

\* The watcher of the network fires, or the network moved during the connect.
Trigger(t) ==
  /\ watcher /\ Happens("trigger")
  /\ Called(t, "recover", "recover") /\ UNCHANGED <<CallRest, drops>>

TimerFires(t) ==
  /\ timer # NoRetry /\ timer' = NoRetry
  /\ Calls(t, [Idle EXCEPT !.op = "recover", !.pc = "recover", !.att = timer])
  /\ UNCHANGED <<settings, conn, status, sysproxy, core, reloading, tunnel, block, recovering, rgen, queued, runs, drops, left>>

Recovery(t) == Recover(t) \/ RecoverAnswered(t) \/ Recovered(t) \/ Trigger(t) \/ TimerFires(t)

-----------------------------------------------------------------------------
(* onConnectionDrop: the core exited, or the tunnel did.                   *)

DropRest == <<settings, conn, core, reloading, tun, block, rgen, runs, recovering>>
Healed(t) == IF tasks[t].what = "tun" THEN tun \in up ELSE Running

\* Mutant: the block stays in.
LiftsNothing(t) == Ends(t)

\* The block this drop put in goes with it; one that was in is its holder's.
Lifts(t) == IF tasks[t].armed THEN Goes(t, [To(t, "disarm") EXCEPT !.next = "end"]) ELSE Ends(t)

\* A connect in flight is waited for: it fails over a dead core.
GoesOn(t, r) == tasks' = [tasks EXCEPT ![t] = r] /\ turn' = IF InFlight THEN NoTask ELSE t

Drop(t) ==
  /\ At(t, "drop")
  /\ CASE GivenUp -> Ends(t)
       [] ~GivenUp /\ settings.kill -> Goes(t, [To(t, "arm") EXCEPT !.next = "dropArmed"])
       [] OTHER -> GoesOn(t, To(t, "dropWait"))
  /\ UNCHANGED <<DropRest, status, sysproxy, up, queued, timer, drops, left>>

DropArmed(t) ==
  /\ At(t, "dropArmed")
  /\ LET r == [tasks[t] EXCEPT !.armed = tasks[t].got = "added", !.got = "no"]
     IN IF r.armed /\ GivenUp THEN Goes(t, [r EXCEPT !.pc = "disarm", !.next = "end"])
                              ELSE GoesOn(t, [r EXCEPT !.pc = "dropWait"])
  /\ UNCHANGED <<DropRest, status, sysproxy, up, queued, timer, drops, left>>

DropWait(t) ==
  /\ At(t, "dropWait") /\ Resumes(t)
  /\ CASE GivenUp -> Ends(t) /\ UNCHANGED status
       [] ~GivenUp /\ Healed(t) /\ ~recovering -> Lifts(t) /\ UNCHANGED status
       [] ~GivenUp /\ ~(Healed(t) /\ ~recovering) /\ ~settings.auto ->
            IF tasks[t].what = "core" /\ ~settings.kill
              THEN Goes(t, [Idle EXCEPT !.op = "disconnect", !.pc = "disconnect"]) /\ UNCHANGED status
              ELSE Ends(t) /\ status' = "reconnect-failed"
       [] ~GivenUp /\ settings.auto /\ recovering ->
            Awaits(t, [To(t, "dropJoin") EXCEPT !.on = runs]) /\ UNCHANGED status
       [] OTHER -> Goes(t, To(t, "dropTake")) /\ UNCHANGED status
  /\ UNCHANGED <<DropRest, sysproxy, up, queued, timer, drops, left>>

\* A recovery was rebuilding: what it left undone, or scheduled, is looked at.
DropJoin(t) ==
  /\ At(t, "dropJoin") /\ Resumes(t)
  /\ CASE GivenUp \/ timer # NoRetry \/ recovering -> Ends(t)
       [] ~(GivenUp \/ timer # NoRetry \/ recovering) /\ Healed(t) -> Lifts(t)
       [] OTHER -> Goes(t, [To(t, "dropTake") EXCEPT !.on = 0])
  /\ UNCHANGED <<DropRest, status, sysproxy, up, queued, timer, drops, left>>

\* A rebuild, while the budget lasts.  Then nothing automatic may follow.
BudgetLeft == drops < DropLimit
DropTake(t) ==
  /\ At(t, "dropTake")
  /\ IF BudgetLeft
       THEN /\ drops' = drops + 1
            /\ Goes(t, [Idle EXCEPT !.op = "recover", !.pc = "recover"])
            /\ UNCHANGED <<up, queued, timer>>
       ELSE /\ timer' = NoRetry /\ queued' = FALSE
            /\ IF Running
                 THEN Goes(t, [To(t, "dropReport") EXCEPT !.at = gen]) /\ UNCHANGED up
                 ELSE Awaits(t, [To(t, "dropProxy") EXCEPT !.at = gen]) /\ up' = {}
            /\ UNCHANGED drops
  /\ UNCHANGED <<DropRest, status, sysproxy, left>>

DropProxy(t) ==
  /\ At(t, "dropProxy")
  /\ IF tasks[t].at = gen THEN AwaitsProxy(t, To(t, "dropProxied"), FALSE)
                          ELSE Ends(t) /\ UNCHANGED sysproxy
  /\ UNCHANGED <<DropRest, status, up, queued, timer, drops, left>>

DropReport(t) ==
  /\ \/ At(t, "dropReport") /\ UNCHANGED sysproxy
     \/ At(t, "dropProxied") /\ ProxyDone(t)
  /\ status' = IF tasks[t].at = gen THEN "reconnect-failed" ELSE status
  /\ Ends(t)
  /\ UNCHANGED <<DropRest, up, queued, timer, drops, left>>

OnConnectionDrop(t) ==
  \/ Drop(t) \/ DropArmed(t) \/ DropWait(t) \/ DropJoin(t) \/ DropTake(t) \/ DropProxy(t) \/ DropReport(t)

-----------------------------------------------------------------------------
(* doDisconnect.                                                           *)

LocksAnew == rgen' = rgen + 1 /\ recovering' = FALSE

\* Nothing in flight speaks for the application any more.
Disconnect(t) ==
  /\ At(t, "disconnect")
  /\ userDisc' = TRUE
  /\ gen' = gen + 1 /\ dgen' = gen + 1
  /\ LocksAnew /\ queued' = FALSE /\ timer' = NoRetry /\ drops' = 0
  /\ watcher' = FALSE
  /\ Awaits(t, To(t, "disTuns"))
  /\ UNCHANGED <<settings, active, status, sysproxy, core, reloading, tunnel, block, runs, left>>

\* The guard is released; then the tunnels, the proxy, the block and the core go.
DisTuns(t) ==
  /\ At(t, "disTuns")
  /\ up' = {}
  /\ Awaits(t, To(t, "disProxy"))
  /\ UNCHANGED <<ConnectRest, left>>

DisProxy(t) ==
  /\ At(t, "disProxy")
  /\ AwaitsProxy(t, To(t, "disBlock"), FALSE)
  /\ UNCHANGED <<settings, conn, status, core, reloading, tunnel, block, recovery, left>>

DisBlock(t) ==
  /\ At(t, "disBlock") /\ ProxyDone(t)
  /\ Goes(t, [To(t, "disarm") EXCEPT !.next = "disCore"])
  /\ UNCHANGED <<settings, conn, status, core, reloading, tunnel, block, recovery, left>>

DisCore(t) ==
  /\ At(t, "disCore")
  /\ IF Running THEN StopsCore(t, "disDone") ELSE Goes(t, To(t, "disDone")) /\ UNCHANGED core
  /\ UNCHANGED <<settings, conn, status, sysproxy, reloading, tunnel, block, recovery, left>>

DisDone(t) ==
  /\ At(t, "disDone") /\ Stopped(t)
  /\ active' = FALSE /\ status' = "disconnected" /\ userDisc' = FALSE
  /\ Ends(t)
  /\ UNCHANGED <<settings, gen, dgen, watcher, sysproxy, core, reloading, tunnel, block, recovery>>

DoDisconnect(t) == Disconnect(t) \/ DisTuns(t) \/ DisProxy(t) \/ DisBlock(t) \/ DisCore(t) \/ DisDone(t)

-----------------------------------------------------------------------------
(* The processes.                                                          *)

ExitRest == <<settings, conn, status, sysproxy, reloading, tun, block, recovery>>

\* Mutant: a recovery in flight is trusted to notice.
DroppedUnlessRecovering(what) ==
  IF what = "core" THEN reloading = 0 /\ ~recovering /\ ~userDisc /\ active ELSE ~userDisc

\* Whether an exit of the current core or tunnel is taken for a drop.
Dropped(what) ==
  IF what = "core" THEN reloading = 0 /\ ~userDisc /\ active ELSE ~userDisc

\* Ghost: calls that find out for themselves, behind xrayReloading, that the core died
\* or make another in its place: the newest connect, what is about to spawn, a reload
\* in the grace of this core, a teardown that goes on to connect.
Mends(c) ==
  \/ c.my # None /\ c.my = gen
  \/ c.pc \in {"start", "starting"}
  \/ c.op = "reload" /\ c.pc = "grace" /\ c.on = proc
  \/ c.at = gen /\ c.pc \in {"teardownTuns", "teardownCore", "tornDown"}
Unseen == active /\ ~userDisc /\ reloading # 0 /\ ~\E t \in Tasks : Mends(tasks[t])

CoreExits ==
  \E c \in alive :
    /\ Quiet
    /\ IF c \in killed THEN UNCHANGED left ELSE Happens("exit")
    /\ alive' = alive \ {c} /\ killed' = killed \ {c}
    /\ proc' = IF proc = c THEN None ELSE proc
    /\ unseen' = (unseen \/ (proc = c /\ Unseen))
    /\ IF proc = c /\ Dropped("core")
         THEN \E t \in Tasks : Called(t, "drop", "drop")
         ELSE UNCHANGED ctl
    /\ UNCHANGED <<ExitRest, up, made, astray>>

TunnelExits ==
  \E n \in up :
    /\ Quiet /\ Happens("exit")
    /\ up' = up \ {n}
    /\ IF n = tun /\ Dropped("tun")
         THEN \E t \in Tasks : Calls(t, [Idle EXCEPT !.op = "drop", !.pc = "drop", !.what = "tun"])
         ELSE UNCHANGED ctl
    /\ UNCHANGED <<ExitRest, core>>

-----------------------------------------------------------------------------
AtRest == Quiet /\ Free = Tasks

\* Nothing is left to happen.
Rest == AtRest /\ UNCHANGED vars

Next ==
  \/ \E t \in Tasks :
       \/ KillSwitch(t) \/ ConnectOnce(t) \/ ReapplyConnection(t) \/ UserCalls(t)
       \/ InPlaceReload(t)
       \/ Recovery(t) \/ OnConnectionDrop(t) \/ DoDisconnect(t)
  \/ CoreExits \/ TunnelExits \/ Rest

Spec == Init /\ [][Next]_vars

-----------------------------------------------------------------------------
(* Correctness.                                                            *)

\* While no call is in flight and no connect came after the last disconnect, the
\* machine is as a disconnect leaves it: the core we know of was told to stop,
\* nothing blocks, nothing is aimed at us.  (Unless a reload went on behind it;
\* that no other core runs is OneCore.)
DisconnectedIsClean ==
  AtRest /\ gen = dgen =>
    /\ ~active
    /\ {proc} \cap alive \subseteq killed \cup astray
    /\ up = {} /\ ~proxy /\ ~rule /\ ~watcher

\* A connection that stands is not blocked.
ConnectedIsOpen == AtRest /\ status = "connected" /\ Running => ~rule

\* No core runs that nobody owns, but one of a reload that was overtaken.
OneCore == AtRest => alive \ killed \subseteq {proc} \cup astray

\* The wish to be connected is not silently unmet: a core runs, a retry is due,
\* or the window says that it failed - unless xrayReloading hid the exit from all
\* that is in flight.
NeverSilentlyDead ==
  AtRest /\ active => \/ Running \/ unseen
                      \/ timer # NoRetry
                      \/ status \in {"reconnect-failed", "error"}

\* A call that a connect or a disconnect overtook, and one that a disconnect did.
Behind(t) ==
  \/ tasks[t].my \in 1..(gen - 1)
  \/ tasks[t].at \in 1..(gen - 1)
  \/ tasks[t].run # 0 /\ tasks[t].rg # rgen
Abandoned(t) == gen = dgen /\ Behind(t)

\* A call that failed, and is about to say so or to have itself tried again: the code
\* does not ask whether a disconnect began meanwhile.
Reports(t) ==
  \/ tasks[t].pc = "reapplyFailed"
  \/ tasks[t].pc = "recovered" /\ tasks[t].res \in {"failed", "tunless"}

\* Nothing that was overtaken connects: a generation is taken in the turn of a call
\* that is the newest and, a recovery, has not lost its lock.
NewestConnects ==
  gen' # gen => \E t \in Tasks : turn = t /\ tasks[t].pc \in {"connect", "disconnect"} /\ ~Behind(t)

\* Anything in flight when a disconnect began stops speaking for the application:
\* unless it reports that it failed, it tells the window no status, and schedules no
\* retry.
LeftBehindIsSilent ==
  \A t \in Tasks : Abandoned(t) /\ ~Reports(t) /\ tasks'[t] # tasks[t] =>
    status' = status /\ timer' \in {timer, NoRetry}

DisconnectPrevails == [][NewestConnects /\ LeftBehindIsSilent]_vars

-----------------------------------------------------------------------------
(* The inductive invariant of DisconnectedIsClean: since the last          *)
(* disconnect nothing new is meant (gen = dgen), and what is still there   *)
(* is for some call in flight to take away.                                *)

InStart == {"start", "starting", "grace"}
InConnect == {"prepare", "proxied", "swap", "tunnel", "tunnelled", "lan", "last", "giveWay", "gaveCore", "gone"}
Arming == {"arm", "armCheck", "armDelete", "armAdd", "armAdded"}
Lifting == {"disarm", "disarming"}
InDisconnect == {"disTuns", "disProxy", "disBlock"}
InReapply == {"reapply", "reapplyArmed", "reapplyStale", "reapplyFailed", "teardown", "teardownTuns", "teardownCore", "tornDown"}
InRecovery == InReapply \cup InStart \cup InConnect \cup Arming \cup Lifting \cup {"connect", "answer", "recovered"}

\* A call is where its caller can have it, and its connect, if it makes one, took
\* a generation of its own.
Placed(c) ==
  /\ c.my \in 0..gen /\ c.at \in 0..gen /\ (c.my # None => c.my # dgen)
  /\ c.pc \in InConnect => c.my # None
  /\ c.op = "reload" => c.my = None /\ c.pc \in {"reload", "reloadBuild", "reloadCheck"} \cup InStart
  /\ c.pc \in {"reload", "reloadBuild", "reloadCheck"} => c.op = "reload"
  /\ c.pc \in InStart => (c.my # None \/ c.op = "reload")
  /\ c.pc \in Arming => c.next \in {"swap", "reapplyArmed", "dropArmed"} /\ (c.next = "swap" => c.my # None)
  /\ c.pc \in Lifting =>
       /\ c.next \in {"prepare", "last", "gone", "disCore", "recovered", "reapplyStale", "end"}
       /\ c.next \in {"prepare", "last", "gone"} => c.my # None
  /\ c.pc = "recover" => c.op = "recover"
  /\ c.op = "recover" => c.pc = "recover" \/ c.run # 0
  /\ c.run # 0 =>
       /\ c.op = "recover" /\ c.pc \in InRecovery /\ c.rg \in 0..rgen
       /\ (c.pc \in Lifting => c.next \notin {"disCore", "end"}) /\ (c.pc \in Arming => c.next # "dropArmed")
  /\ c.pc = "recovered" \/ (c.pc \in Lifting /\ c.next = "recovered") => c.op = "recover"

\* A reload past its check in the machine of a disconnect is an overtaken one.
ReloadsLate(c) ==
  c.op = "reload" /\ c.pc \in InStart \ {"grace"} /\ c.at = gen /\ gen = dgen => ~active

\* A disconnect that has not come to the core yet, and one under way.
ForCore(c) == c.pc \in InDisconnect \cup {"disCore"} \/ (c.pc \in Lifting /\ c.next = "disCore")
Leaving(c) == ForCore(c) \/ c.pc = "disDone"

\* Calls that take away the rule, tunnel n, the proxy and the core that is known, p -
\* or connect, which ends the machine of the disconnect.
Unblocks(c) ==
  \/ c.pc \in InDisconnect \cup Lifting \cup {"armAdded", "connect"}
  \/ c.pc = "dropArmed" /\ c.got = "added"
  \/ c.pc = "reapplyArmed" /\ (c.armed \/ c.got # "no" \/ c.at = gen)
  \/ c.pc = "swap" /\ (c.sw \/ c.got = "added")
  \/ c.pc \in {"tunnel", "tunnelled", "lan", "last", "giveWay", "gaveCore"} /\ c.sw
  \/ c.pc \in {"teardown", "teardownTuns", "teardownCore", "tornDown"} /\ c.at = gen
Untunnels(c, n) == c.pc = "disTuns" \/ (c.pc = "tunnelled" /\ c.tn = n)
Unproxies(c) == c.pc \in {"disTuns", "disProxy"}
Stills(c, p) ==
  \/ ForCore(c)
  \/ c.pc = "grace" /\ c.my # None /\ c.on = p
  \/ c.pc = "giveWay" /\ c.own = p
Left == proc \in alive \ (killed \cup astray)

CleanInv ==
  /\ gen \in Nat /\ dgen \in 0..gen /\ rgen \in Nat /\ made \in Nat /\ alive \subseteq 1..made
  /\ \A t \in Tasks : Placed(tasks[t]) /\ ReloadsLate(tasks[t])
  /\ userDisc => \E t \in Tasks : Leaving(tasks[t])
  /\ gen = dgen =>
       /\ GivenUp /\ ~watcher
       /\ rule => \E t \in Tasks : Unblocks(tasks[t])
       /\ \A n \in up : \E t \in Tasks : Untunnels(tasks[t], n)
       /\ proxy => \E t \in Tasks : Unproxies(tasks[t])
       /\ Left => \E t \in Tasks : Stills(tasks[t], proc)

-----------------------------------------------------------------------------
(* What the calls share is held by calls in flight only.                   *)

\* xrayReloading counts the calls that rebuild.
Rebuilds(c) == c.pc \in InStart \cup {"gaveCore", "teardownTuns", "teardownCore", "tornDown", "reloadCheck"}
CountInv == reloading = Cardinality({t \in Tasks : Rebuilds(tasks[t])})

\* The recovery lock is the one recovery of its generation.
HasLock(c) == c.run # 0 /\ c.rg = rgen
LockInv ==
  /\ recovering \in BOOLEAN /\ runs \in Nat
  /\ recovering <=> \E t \in Tasks : HasLock(tasks[t])
  /\ \A t, u \in Tasks : HasLock(tasks[t]) /\ HasLock(tasks[u]) => t = u

\* A call that waits for its turn with the system proxy has one, and only one.
AtProxy == {"proxied", "reapplyFailed", "dropProxied", "disBlock"}
WaitInv ==
  /\ waiting \in Seq(Tasks)
  /\ \A i, j \in 1..Len(waiting) : waiting[i] = waiting[j] => i = j
  /\ \A t \in Tasks : tasks[t].pc \in AtProxy <=> \E i \in 1..Len(waiting) : waiting[i] = t

\* So nothing that holds others off outlives the calls: neither flag that hides an
\* exit, nor the recovery lock, nor a turn with the system proxy.
NothingHeld == AtRest => reloading = 0 /\ ~userDisc /\ ~recovering /\ waiting = <<>>

-----------------------------------------------------------------------------
(* What is overtaken notices: the inductive invariant of DisconnectPrevails. *)

\* Places that a call passes in the turn in which it came there.
AtOnce == {"recover", "reapply", "teardown", "connect", "disconnect"}

\* A connect of a call's own.
Connecting(c) ==
  \/ c.pc \in InStart \cup InConnect
  \/ c.pc \in Arming /\ c.next = "swap"
  \/ c.pc \in Lifting /\ c.next \in {"prepare", "last", "gone"}

\* A drop that is looked at.
Dropping(c) ==
  \/ c.pc \in {"drop", "dropArmed", "dropWait", "dropJoin", "dropTake"}
  \/ c.pc \in Arming /\ c.next = "dropArmed"

\* A call has a generation only while it minds it; what it tears down and builds again
\* is the newest; and a recovery of the newest has its lock.
Minds(c) ==
  /\ c.my # None => Connecting(c)
  /\ c.at # None => c.op \in {"apply", "reload", "recover", "drop"} /\ c.pc # "recover"
  /\ c.pc = "reapply" => c.op \in {"apply", "recover"}
  /\ Dropping(c) => c.op = "drop"
  /\ c.pc = "disconnect" \/ Leaving(c) => c.op = "disconnect"
  /\ c.pc = "recover" => c.run = 0
  /\ c.pc = "connect" => c.at \in {None, gen}
  /\ c.pc = "teardown" => c.at = gen
  /\ c.run # 0 /\ (c.pc \in {"reapply", "connect"} \/ c.at = gen) => c.rg = rgen

TurnInv == \A t \in Tasks : Minds(tasks[t]) /\ (tasks[t].pc \in AtOnce => turn = t)

-----------------------------------------------------------------------------
(* The wish to be connected is somebody's: the inductive invariant of       *)
(* NeverSilentlyDead.                                                       *)

\* The wish is unmet, and nothing says so or is due.
Dead ==
  active /\ ~Running /\ ~unseen /\ timer = NoRetry /\ status \notin {"reconnect-failed", "error"}

\* Calls that meet the wish, have it tried again, or tell the window: connects, ...
Rebuilding(c) ==
  \/ c.my # None /\ c.my = gen
  \/ c.pc \in {"start", "starting", "connect"}
  \/ c.at = gen /\ \/ c.pc \in {"reapplyArmed", "teardown", "teardownTuns", "teardownCore", "tornDown"}
                   \/ c.pc \in Arming /\ c.next = "reapplyArmed"
\* ... what failed and has not said so, ...
Failing(c) ==
  \/ c.op = "reload" /\ c.pc = "grace" /\ c.on \notin alive
  \/ c.op = "recover" /\ c.pc = "reapply"
  \/ c.pc = "answer" /\ c.res = "failed" /\ (c.op = "connect" => gen # dgen)
  \/ c.pc = "reapplyFailed"
  \/ c.pc = "recovered" /\ c.res \in {"failed", "tunless"}
\* ... what looks at the drop of the core, or gives up, ...
LooksAt(c) ==
  \/ Dropping(c) /\ c.pc # "dropJoin" /\ c.what = "core"
  \/ c.pc = "dropJoin" /\ c.what = "core" /\ (~recovering \/ c.on = runs)
  \/ c.pc = "dropTake"
  \/ c.pc \in {"dropReport", "dropProxy", "dropProxied"} /\ c.at = gen
\* ... a recovery to begin or to begin again, and a disconnect, which ends the wish.
Cares(c) ==
  \/ Rebuilding(c) \/ Failing(c) \/ LooksAt(c)
  \/ c.pc = "recover" /\ settings.auto
  \/ HasLock(c) /\ queued
  \/ c.pc = "disconnect" \/ Leaving(c)

\* What recovers does so because it may, and the lock is the last recovery's.
Recovers(c) ==
  /\ c.att \in 0..Retries
  /\ c.run # 0 \/ c.pc \in {"dropJoin", "dropTake"} => settings.auto
  /\ HasLock(c) => c.run = runs
  /\ c.pc \in {"giveWay", "gaveCore", "gone"} \/ (c.pc \in Lifting /\ c.next = "gone") => c.my # gen

WishInv ==
  /\ timer \in 0..Retries
  /\ timer # NoRetry \/ queued => settings.auto
  /\ \A t \in Tasks : Recovers(tasks[t])
  /\ Dead => \E t \in Tasks : Cares(tasks[t])

-----------------------------------------------------------------------------
(* What OneCore fails by: two starts at once wait for the exit of a core,   *)
(* and the second spawns over the core that the first has spawned.         *)

\* At most one start waits for the exit of the core it stopped.
OneWaits == \A t, u \in Tasks : tasks[t].pc = "starting" /\ tasks[u].pc = "starting" => t = u

\* The only core that nobody told to stop is the one that is known: at any moment, and
\* a reload's like any other.
OneKnown == alive \ killed \subseteq {proc}

\* A call that comes to its start in the turn it has.
ToStart(c) ==
  c.pc \in {"prepare", "start", "reloadCheck"} \/ (c.pc = "disarming" /\ c.next = "prepare")

\* The inductive invariant of OneKnown as long as OneWaits: the one that waits has the
\* known core for its own until it exits; from then on there is none, and whoever might
\* start one comes after the one that waited for the exit.
SpawnInv ==
  /\ OneKnown
  /\ proc \in alive \cup {None}
  /\ \A t \in Tasks : tasks[t].pc = "starting" =>
       /\ tasks[t].on \notin alive \ killed
       /\ proc = IF tasks[t].on \in alive THEN tasks[t].on ELSE None
       /\ tasks[t].on \notin alive => \A u \in Tasks : turn = u => ~ToStart(tasks[u])

-----------------------------------------------------------------------------
(* What ConnectedIsOpen fails by: a call that comes too late, behind        *)
(* another that takes its own for the last word.                            *)

\* A call that a newer connect overtook puts the block in behind that one's disarm.
LateArms == \E t \in Tasks : ArmAdd(t) /\ rule' /\ Behind(t) /\ gen # dgen

\* A recovery that a disconnect overtook has itself tried again: a drop leaves its
\* block to the retry.
LateRetries == \E t \in Tasks : Recovered(t) /\ tasks[t].rg # rgen /\ timer' # timer

\* A disconnect ends behind another one and takes the wish from a newer connect: a
\* drop leaves its block to the disconnect.
LateOff == \E t \in Tasks : DisDone(t) /\ ~GivenUp

Straggles == LateArms \/ LateRetries \/ LateOff

\* The newest connect, as long as it is in flight, and past what its beginning tells.
Newest(c) == c.my # None /\ c.my = gen
Connects == \E t \in Tasks : Newest(tasks[t])
Past(c) ==
  \/ c.pc \in InStart \cup (InConnect \ {"prepare"})
  \/ c.pc \in Arming /\ c.next = "swap"
  \/ c.pc \in Lifting /\ c.next = "last"

\* Failing, the window does not say connected.
Fails(c) ==
  \/ c.pc \in {"answer", "recovered"} /\ c.res = "failed"
  \/ c.pc = "reapply" /\ c.op = "recover"

\* Calls that lift the block, or begin a connect that does, ...
Clears(c) ==
  \/ c.pc \in Lifting \cup InDisconnect \cup {"disconnect", "connect"}
  \/ c.pc = "answer" /\ c.armed /\ c.res \in {"ok", "tunless"} /\ Running
  \/ c.at = gen /\ \/ c.pc \in Arming /\ c.next = "reapplyArmed"
                   \/ c.pc \in {"reapplyArmed", "teardown", "teardownTuns", "teardownCore", "tornDown"}
\* ... the newest connect, when the block is its own, ...
ClearsOwn(c) ==
  \/ c.armed
  \/ c.pc = "armAdded"
  \/ c.pc = "swap" /\ c.got = "added"
  \/ c.pc \in {"tunnel", "tunnelled", "lan"} /\ c.sw
  \/ c.pc = "last" /\ ~Running
\* ... a drop that put it in and waits for the connect in flight, ...
Brings(c) ==
  \/ c.pc = "armAdded" /\ c.next = "dropArmed"
  \/ c.pc = "dropArmed" /\ c.got = "added"
  \/ c.pc = "dropWait" /\ c.armed /\ ~GivenUp
\* ... and, unless a connect came meanwhile, for the recovery, or builds anew or
\* reports.
Awaited(c) ==
  \/ c.pc = "dropJoin" /\ c.armed /\ ~GivenUp /\ timer = NoRetry /\ (recovering => c.on = runs)
  \/ c.pc = "dropTake" /\ ~GivenUp /\ settings.auto /\ ~recovering
  \/ c.pc = "recover" /\ active /\ settings.auto /\ ~recovering
  \/ c.pc \in {"dropReport", "dropProxy", "dropProxied"} /\ c.at = gen

Opens(c) == Clears(c) \/ (Newest(c) /\ ClearsOwn(c)) \/ Brings(c)

\* A recovery without its tunnel has itself tried again, the window saying connected.
LacksTunnel(c) == c.pc \in {"answer", "recovered"} /\ c.res = "tunless"
Tunless == \E t \in Tasks : LacksTunnel(tasks[t])

\* More places that a call passes in the turn in which it came there.
InTurn == {"answer", "last", "recovered", "dropTake"}

Fits(c) ==
  /\ c.pc \in Arming /\ c.next = "reapplyArmed" => c.at # None
  /\ c.pc \in Lifting /\ c.next = "recovered" => c.res # "failed"
  /\ (Newest(c) /\ Past(c)) \/ Fails(c) => status # "connected"

OpenInv ==
  /\ recovering => timer = NoRetry
  /\ active => gen # 0
  /\ \A t, u \in Tasks : Newest(tasks[t]) /\ Newest(tasks[u]) => t = u
  /\ \A t \in Tasks : /\ Fits(tasks[t])
                      /\ tasks[t].pc \in InTurn => turn = t
  /\ rule /\ gen # dgen /\ (status = "connected" \/ Connects) =>
       \E t \in Tasks : Opens(tasks[t]) \/ (Awaited(tasks[t]) /\ ~Connects /\ ~Tunless)
=============================================================================
