------------------------------ MODULE LanUsers ------------------------------
(***************************************************************************)
(* The desktop's users on the LAN (src/src/modules/lanUsers): what each    *)
(* carried, counted from the core's counters once a second (the meter,     *)
(* meter.js); their limits, and who is held off for one; and the core      *)
(* rebuilt, through the application's one reload queue (main.js), when     *)
(* what it runs is no longer what it should (ipc.js).                      *)
(*                                                                         *)
(* Two memories of the core's build are compared with the store, and both  *)
(* are written when a build is MADE: the meter's snapshot (pendingBuild,   *)
(* taken for live at the first reading of a core that counts from zero)    *)
(* and the signature (liveSig, at once).  A build may be refused by the    *)
(* core's own check, give way to a connect, or fail to start.              *)
(***************************************************************************)
EXTENDS LanRules, FiniteSets, Functions

CONSTANTS
  Dests,      \* where people go: sets of traits
  None,       \* no core, no build, no entry, no such user
  Scenarios   \* bound: the users there are, their edits, the context, and how
              \* often each event may happen

Kinds == {"total", "vpn", "direct"}
Periods == {"day", "none"}
Limit == [kind : Kinds, period : Periods, cap : Nat \ {0}, action : {"cut", "slow"}]
Record == [target : AnyTarget, routing : {"global", "bypass", "profile"}, profile : AnyTarget \X AnyTarget,
           filter : SUBSET Filters, enabled : BOOLEAN, expires : BOOLEAN, limits : SUBSET Limit]
Events == {"carry", "owner", "edit", "delete", "topUp", "reset", "config", "settings", "hours", "expire", "day",
           "gap", "torn", "connect", "disconnect", "refuse", "fail", "crash"}

ASSUME LanAssumption ==
  /\ IsFiniteSet(Users) /\ Dests \subseteq SUBSET Traits
  /\ Scenarios \subseteq [users : [Users -> Record \cup {None}], edits : SUBSET (Users \X Record),
                          ctx : Context, events : [Events -> Nat]]
  /\ None \notin Record \cup Users

VARIABLES
  users, proxy,      \* the store's lanUsers: the users, and whether their proxy is on
  edits, ctx,        \* the scenario's: what the admin may save, what a build knows
  today, outside, passed,   \* the day, who is outside their hours, whose expiry has passed
  pending,           \* settings wait for Apply
  usage, owed,       \* the meter: the buckets and top-ups, the direct bytes no total has carried yet
  prev, seen,        \* its last reading of the core, whether there was one
  live, pendingBuild,\* the build it holds to, the build made last
  reloading, tried,  \* its reload: asked for and not answered, tried lately
  liveSig, asked,    \* ipc.js: the signature of the build made last, asked lately
  timer,             \* the reload's timer: off, or who waits for it
  queue, job,        \* reloadChain: who waits, the reload under way
  conn,              \* the connection: off, up, or a connect on its way
  core,              \* the core: its build and its counters
  gap,               \* no reading for more than GAP_MS
  kept, lazy,        \* the usage file: on the disk, and waiting for its lazy save
  left,              \* the events that may still happen
  half,              \* a byte that one of the core's two counters has and the other not yet
  due, unread,       \* history: the bytes that were read, and those the core counted since
  swapped, misread,  \* history: another core since the last reading; a reading taken for another core's, or the reverse
  misled             \* history: a build that no core runs was taken for live

store == <<users, proxy>>
world == <<edits, ctx, today, outside, passed, pending, gap>>
meter == <<usage, owed, prev, seen, live, pendingBuild, reloading, tried>>
ipc == <<liveSig, asked, timer>>
reload == <<queue, job>>
truth == <<due, unread, swapped, misread, misled>>
vars == <<store, world, meter, ipc, reload, conn, core, kept, lazy, left, half, truth>>

Zero == [k \in Kinds |-> 0]
NoBuild == None
Present == {u \in Users : users[u] # None}
Has(event) == left[event] > 0
Happens(event) == left' = [left EXCEPT ![event] = @ - 1]
-----------------------------------------------------------------------------
(***************************************************************************)
(* The meter's buckets.                                                    *)
(***************************************************************************)

\* A user's bytes today by kind, by kind since a limit that never renews was
\* set, and the top-ups of the limits' current periods.
BlankEntry == [day |-> None, bytes |-> Zero, ever |-> [k \in Kinds |-> None], extra |-> [kp \in Kinds \X Periods |-> 0]]

LimitOf(r, kind, period) == {l \in r.limits : l.kind = kind /\ l.period = period}

\* rollUser: to the periods they count in now.
RollUser(e, r) ==
  [day |-> today,
   bytes |-> IF e.day = today THEN e.bytes ELSE Zero,
   ever |-> [k \in Kinds |-> IF LimitOf(r, k, "none") = {} THEN None ELSE IF e.ever[k] = None THEN 0 ELSE e.ever[k]],
   extra |-> [kp \in Kinds \X Periods |->
                IF LimitOf(r, kp[1], kp[2]) # {} /\ (kp[2] = "none" \/ e.day = today) THEN e.extra[kp] ELSE 0]]
RolledFor(us) == [u \in Users |-> IF us[u] # None THEN RollUser(usage[u], us[u]) ELSE usage[u]]
Rolled == RolledFor(users)

BytesOf(e, l) == IF l.period = "day" THEN e.bytes[l.kind] ELSE e.ever[l.kind]
Over(e, r, kind) ==
  \E l \in r.limits : l.kind = kind /\ l.action = "cut" /\ BytesOf(e, l) >= l.cap + e.extra[<<kind, l.period>>]

(* holdAt: disabled > expired > outside the hours > over a total limit >   *)
(* over a VPN or a direct one.  With nothing of theirs going direct, or    *)
(* everything, the half that is left is nothing.                           *)
NoHold == [hold |-> "none", why |-> "none"]
HoldAt(u, e) ==
  LET r == users[u]
      nothingDirect == r.target # "direct" /\ r.routing = "global"
  IN IF ~r.enabled THEN [hold |-> "all", why |-> "disabled"]
     ELSE IF r.expires /\ u \in passed THEN [hold |-> "all", why |-> "expired"]
     ELSE IF u \in outside THEN [hold |-> "all", why |-> "schedule"]
     ELSE IF Over(e, r, "total") THEN [hold |-> "all", why |-> "total"]
     ELSE IF Over(e, r, "vpn") THEN
       [hold |-> IF Over(e, r, "direct") \/ nothingDirect THEN "all" ELSE "vpn", why |-> "vpn"]
     ELSE IF Over(e, r, "direct") THEN
       [hold |-> IF r.target = "direct" THEN "all" ELSE "direct", why |-> "direct"]
     ELSE NoHold
Holds(bag) == [u \in Present |-> HoldAt(u, bag[u])]

\* carried + add: bytes of a user, what their direct outbound counted (owed)
\* direct, the rest VPN - or all of it direct.
Split(u, total, waiting) ==
  LET direct == IF users[u].target = "direct" THEN total
                ELSE IF waiting < total THEN waiting ELSE total
  IN [total |-> total, direct |-> direct, vpn |-> total - direct]
Add(e, d) == [e EXCEPT !.bytes = [k \in Kinds |-> @[k] + d[k]],
                       !.ever = [k \in Kinds |-> IF @[k] = None THEN None ELSE @[k] + d[k]]]
-----------------------------------------------------------------------------
(***************************************************************************)
(* The build: who may use the proxy now, with their rules and holds.       *)
(***************************************************************************)
RulesOf(r) == [target |-> r.target, routing |-> r.routing, profile |-> r.profile, filter |-> r.filter]
PartOf(h) == IF h.hold \in {"vpn", "direct"} THEN h.hold ELSE "none"

\* The active users, each with what of them a build writes: the signature.
Signature(bag) ==
  LET h == Holds(bag)
  IN IF ~proxy THEN None
     ELSE [u \in {v \in Present : h[v].hold # "all"} |-> [rec |-> RulesOf(users[u]), part |-> PartOf(h[u])]]
Snapshot(bag) == IF proxy THEN [acts |-> Signature(bag), holds |-> Holds(bag)] ELSE NoBuild

\* forBuild: right before a build, its answer is what the core is held to.
ForBuild ==
  /\ usage' = Rolled
  /\ liveSig' = [sig |-> Signature(Rolled)]
  /\ pendingBuild' = Snapshot(Rolled)
  /\ UNCHANGED <<owed, prev, seen, live, reloading, tried, asked>>

Counters == [u \in Users |-> 0]
NewCore(build) == [build |-> build, count |-> Counters, own |-> Counters, owner |-> 0]
Active(build) == IF build = NoBuild THEN {} ELSE DOMAIN build.acts
Sum(f) == FoldFunction(+, 0, f)
\* counterSum: a user's byte is in their counter, their inbound's and an outbound's.
CounterSum(c) == IF c = None THEN 0 ELSE 3 * Sum(c.count) + 2 * c.owner

\* Another core, or none: what the old one had counted and nobody read is gone.
CoreBecomes(c) ==
  /\ core' = c /\ swapped' = TRUE
  /\ unread' = [u \in Users |-> [total |-> 0, own |-> 0]]
  /\ half' = [u \in Users |-> "none"]

CanReload == core # None /\ conn.pc = "up"
\* requestReload: the asks within its delay are one, answered together.
Requested(waiters) == timer' = (IF timer = None THEN {} ELSE timer) \cup waiters

\* catchUp: the running core is behind the store.  It is asked in the state a
\* handler leaves, where the buckets are rolled.
Behind == liveSig # None /\ core # None /\ Signature(usage) # liveSig.sig
-----------------------------------------------------------------------------
(***************************************************************************)
(* The admin's edits (lanusers:user, lanusers:config): the record written, *)
(* the meter told, and a reload asked for.                                 *)
(***************************************************************************)
Saved ==
  /\ UNCHANGED <<edits, ctx, today, outside, passed, pending, gap, prev, seen, live, pendingBuild, reloading, tried,
                 liveSig, reload, conn, core, kept, half, unread, swapped, misread, misled>>
  /\ IF Behind' /\ ~pending THEN Requested({}) /\ asked' = TRUE ELSE UNCHANGED <<timer, asked>>

\* The window gives a user who is added no id: theirs is new (newUserId), and
\* the meter holds nothing of it.
Update(u, r) ==
  /\ Has("edit") /\ Happens("edit") /\ r # users[u]
  /\ users[u] = None => usage[u] = BlankEntry
  /\ users' = [users EXCEPT ![u] = r] /\ usage' = RolledFor(users')
  /\ UNCHANGED <<proxy, owed, lazy, due>> /\ Saved

\* A deleted user's bytes go with them.
Delete(u) ==
  /\ Has("delete") /\ Happens("delete")
  /\ users' = [users EXCEPT ![u] = None]
  /\ usage' = [RolledFor(users') EXCEPT ![u] = BlankEntry]
  /\ owed' = [owed EXCEPT ![u] = 0]
  /\ due' = [due EXCEPT ![u] = [total |-> 0, own |-> 0]]
  /\ UNCHANGED <<proxy, lazy>> /\ Saved

\* More of one limit for its current period, and a user's periods back to
\* nothing: both are saved at once.
TopUp(u, l) ==
  /\ Has("topUp") /\ Happens("topUp")
  /\ usage' = [Rolled EXCEPT ![u].extra[<<l.kind, l.period>>] = @ + 1]
  /\ lazy' = usage' /\ UNCHANGED <<store, owed, due>> /\ Saved

ResetUsage(u) ==
  /\ Has("reset") /\ Happens("reset")
  /\ usage' = [Rolled EXCEPT ![u].bytes = Zero, ![u].extra = BlankEntry.extra,
                             ![u].ever = [k \in Kinds |-> IF @[k] = None THEN None ELSE 0]]
  /\ owed' = [owed EXCEPT ![u] = 0]
  /\ due' = [due EXCEPT ![u] = [total |-> 0, own |-> 0]]
  /\ lazy' = usage' /\ UNCHANGED store /\ Saved

Config ==
  /\ Has("config") /\ Happens("config")
  /\ proxy' = ~proxy /\ usage' = Rolled
  /\ UNCHANGED <<users, owed, lazy, due>> /\ Saved

Admin ==
  \/ Config \/ \E e \in edits : Update(e[1], e[2])
  \/ \E u \in Present : Delete(u) \/ ResetUsage(u) \/ \E l \in users[u].limits : TopUp(u, l)
-----------------------------------------------------------------------------
(***************************************************************************)
(* The traffic, as the core counts it.  What leaves by a user's own direct *)
(* outbound is in two counters, which a reading need not catch together.   *)
(***************************************************************************)
Counts(u, total, own, then) ==
  /\ core' = [core EXCEPT !.count[u] = @ + total, !.own[u] = @ + own]
  /\ unread' = [unread EXCEPT ![u] = [total |-> @.total + total, own |-> @.own + own]]
  /\ half' = [half EXCEPT ![u] = then]

Carry(u, d) ==
  /\ Has("carry") /\ Happens("carry") /\ half[u] = "none"
  /\ LET out == Route(core.build.acts, ctx, u, d)
     IN \/ out # Block /\ Counts(u, 1, IF out = Own(u) THEN 1 ELSE 0, "none")
        \/ out = Own(u) /\ Has("torn") /\ (Counts(u, 1, 0, "own") \/ Counts(u, 0, 1, "total"))
CatchesUp(u) ==
  /\ UNCHANGED left
  /\ \/ half[u] = "own" /\ Counts(u, 0, 1, "none")
     \/ half[u] = "total" /\ Counts(u, 1, 0, "none")
OwnersTraffic ==
  /\ Has("owner") /\ Happens("owner")
  /\ core' = [core EXCEPT !.owner = @ + 1] /\ UNCHANGED <<unread, half>>

Traffic ==
  /\ core # None
  /\ OwnersTraffic \/ \E u \in Active(core.build) : CatchesUp(u) \/ \E d \in Dests : Carry(u, d)
  /\ UNCHANGED <<store, world, meter, ipc, reload, conn, kept, lazy, due, swapped, misread, misled>>
-----------------------------------------------------------------------------
(***************************************************************************)
(* One stats poll (ipc.js tick): the meter's tick, the lazy save, and a    *)
(* change the core has not caught up with.                                 *)
(***************************************************************************)
\* The reasons a hold comes and goes by itself.
OwnWhy == {"expired", "schedule", "total", "vpn", "direct"}

\* settle: a core of this build lets in, or routes, other than it should.
Amiss(build, holds) ==
  build # NoBuild /\
  LET before(u) == IF u \in DOMAIN build.holds THEN build.holds[u] ELSE NoHold
      wanted(u) == holds[u].hold # "all"
      in == Active(build)
  IN \/ \E u \in in \cap Present : ~wanted(u) /\ holds[u].why \in OwnWhy
     \/ \E u \in Present \ in : wanted(u) /\ before(u).hold = "all" /\ before(u).why \in OwnWhy \ {"expired"}
     \/ \E u \in in \cap Present : wanted(u) /\ PartOf(before(u)) # PartOf(holds[u])

\* A first reading, one long after the last, or one that counts less in all
\* is another core's, which counts from zero.
IsFresh == ~seen \/ gap \/ CounterSum(core) < prev.sum
BaselineWithOwn == IF IsFresh THEN [sum |-> 0, count |-> Counters, own |-> IF seen THEN prev.own ELSE Counters] ELSE prev
Baseline == IF IsFresh THEN [sum |-> 0, count |-> Counters, own |-> Counters] ELSE prev
Growth(now, was) == IF now >= was THEN now - was ELSE now

Tick ==
  /\ core # None
  /\ LET total(u) == Growth(core.count[u], Baseline.count[u])
         waiting == [u \in Users |-> owed[u] + IF u \in Present THEN Growth(core.own[u], Baseline.own[u]) ELSE 0]
         counted == {u \in Present : total(u) > 0}
         d(u) == Split(u, total(u), waiting[u])
     IN /\ usage' = [u \in Users |-> IF u \in counted THEN Add(Rolled[u], d(u)) ELSE Rolled[u]]
        /\ owed' = [u \in Users |->
             IF u \notin counted THEN waiting[u] ELSE IF users[u].target = "direct" THEN 0 ELSE waiting[u] - d(u).direct]
        /\ due' = [u \in Users |->
             IF u \notin Present THEN due[u]
             ELSE [total |-> due[u].total + unread[u].total,
                   own |-> IF due[u].own = None \/ users[u].target = "direct" THEN None ELSE due[u].own + unread[u].own]]
  /\ prev' = [sum |-> CounterSum(core), count |-> core.count, own |-> core.own]
  /\ seen' = TRUE /\ gap' = FALSE
  /\ live' = IF IsFresh THEN pendingBuild ELSE live
  /\ UNCHANGED <<store, edits, ctx, today, outside, passed, pending, pendingBuild, liveSig, reload, conn, core, kept,
                 left, half>>
  /\ LET settles == Amiss(live', Holds(usage')) /\ ~reloading /\ ~tried /\ CanReload /\ ~pending
         catches == ~asked /\ CanReload /\ Behind' /\ ~pending
     IN /\ reloading' = (reloading \/ settles) /\ tried' = (tried \/ settles)
        /\ asked' = (asked \/ catches)
        /\ IF settles \/ catches THEN Requested(IF settles THEN {"meter"} ELSE {}) ELSE UNCHANGED timer
  /\ lazy' \in IF Has("crash") THEN {lazy, usage'} ELSE {lazy}
  /\ unread' = [u \in Users |-> [total |-> 0, own |-> 0]]
  /\ swapped' = FALSE
  /\ misread' = (misread \/ swapped # IsFresh)
  /\ misled' = (live' # core.build)

\* RETRY_MS has passed since the meter last tried and ipc.js last asked.
\* (Bound: a reload is over by then.)
Cools ==
  /\ tried \/ asked
  /\ timer = None /\ queue = <<>> /\ job = None
  /\ tried' = FALSE /\ asked' = FALSE
  /\ UNCHANGED <<store, world, usage, owed, prev, seen, live, pendingBuild, reloading, liveSig, timer, reload, conn, core,
                 kept, lazy, left, half, truth>>
-----------------------------------------------------------------------------
(***************************************************************************)
(* The reload (requestReload, queueReload, rebuildActiveConfig): one at a  *)
(* time, a moment after it was asked; a connect or a disconnect that came  *)
(* meanwhile owns the core.                                                *)
(***************************************************************************)
AnsweredNever(waiters) == UNCHANGED reloading
Answered(waiters) == reloading' = (reloading /\ "meter" \notin waiters)
Begun(waiters) == [pc |-> "asked", build |-> NoBuild, stale |-> FALSE, waiters |-> waiters]

TimerFires ==
  /\ timer # None /\ timer' = None
  /\ IF ~CanReload THEN Answered(timer) /\ UNCHANGED reload
     ELSE /\ IF job = None THEN job' = Begun(timer) /\ UNCHANGED queue
             ELSE queue' = Append(queue, timer) /\ UNCHANGED job
          /\ UNCHANGED reloading
  /\ UNCHANGED <<store, world, usage, owed, prev, seen, live, pendingBuild, tried, liveSig, asked, conn, core, kept, lazy,
                 left, half, truth>>

ReloadBuilds ==
  /\ job # None /\ job.pc = "asked"
  /\ ForBuild /\ job' = [job EXCEPT !.pc = "built", !.build = Snapshot(Rolled)]
  /\ UNCHANGED <<store, world, timer, queue, conn, core, kept, lazy, left, half, truth>>

\* The next one begins at once, or with no core running all are answered.
NextReload ==
  IF queue = <<>> THEN job' = None /\ UNCHANGED queue /\ Answered(job.waiters)
  ELSE IF core' = None THEN job' = None /\ queue' = <<>> /\ Answered(job.waiters \cup UNION Range(queue))
  ELSE job' = Begun(Head(queue)) /\ queue' = Tail(queue) /\ Answered(job.waiters)

ReloadEnds ==
  /\ job # None /\ job.pc = "built"
  /\ UNCHANGED <<store, world, usage, owed, prev, seen, live, pendingBuild, tried, ipc, kept, lazy, due, misread, misled>>
  /\ \/ \* the core's own check refuses the build: the old core runs on
        /\ Has("refuse") /\ Happens("refuse") /\ UNCHANGED <<conn, core, half, unread, swapped>>
     \/ \* a connect, a disconnect or a recovery came first
        /\ job.stale \/ core = None
        /\ UNCHANGED <<left, conn, core, half, unread, swapped>>
     \/ /\ ~job.stale /\ core # None
        /\ \/ CoreBecomes(NewCore(job.build)) /\ UNCHANGED <<left, conn>>
           \/ \* the old core is stopped and the new one does not start: a drop
              Has("fail") /\ Happens("fail") /\ CoreBecomes(None) /\ conn' = [pc |-> "dropped", build |-> NoBuild]
  /\ NextReload
-----------------------------------------------------------------------------
(***************************************************************************)
(* The connection, as far as the users see it: a connect or a recovery     *)
(* builds and starts a core of its own, and whatever was pending with it.  *)
(***************************************************************************)
Overtakes == job' = IF job = None THEN None ELSE [job EXCEPT !.stale = TRUE]

Connect ==
  /\ \/ conn.pc \in {"off", "up"} /\ Has("connect") /\ Happens("connect")
     \/ conn.pc = "dropped" /\ UNCHANGED left
  /\ conn' = [pc |-> "asked", build |-> NoBuild] /\ Overtakes
  /\ UNCHANGED <<store, world, meter, ipc, queue, core, kept, lazy, half, truth>>

ConnectBuilds ==
  /\ conn.pc = "asked"
  /\ ForBuild /\ conn' = [pc |-> "built", build |-> Snapshot(Rolled)]
  /\ UNCHANGED <<store, world, timer, reload, core, kept, lazy, left, half, truth>>

ConnectEnds ==
  /\ conn.pc = "built"
  /\ \/ CoreBecomes(NewCore(conn.build)) /\ conn' = [conn EXCEPT !.pc = "up"] /\ pending' = FALSE /\ UNCHANGED left
     \/ Has("fail") /\ Happens("fail") /\ CoreBecomes(None) /\ conn' = [conn EXCEPT !.pc = "off"] /\ UNCHANGED pending
  /\ UNCHANGED <<store, edits, ctx, today, outside, passed, gap, meter, ipc, reload, kept, lazy, due, misread, misled>>

Disconnect ==
  /\ conn.pc # "off" /\ Has("disconnect") /\ Happens("disconnect")
  /\ conn' = [pc |-> "off", build |-> NoBuild] /\ CoreBecomes(None) /\ Overtakes
  /\ UNCHANGED <<store, world, meter, ipc, queue, kept, lazy, due, misread, misled>>

Reloads == TimerFires \/ ReloadBuilds \/ ReloadEnds
Connection == Connect \/ ConnectBuilds \/ ConnectEnds \/ Disconnect
-----------------------------------------------------------------------------
(***************************************************************************)
(* What happens around them: time, a change that waits for Apply, the      *)
(* usage file's lazy save, and a crash, after which the meter counts on    *)
(* from the file.                                                          *)
(***************************************************************************)
Midnight ==
  /\ Has("day") /\ Happens("day") /\ today' = today + 1
  /\ due' = [u \in Users |-> [total |-> 0, own |-> IF due[u].own = None THEN None ELSE due[u].own - Rolled[u].bytes["direct"]]]
  /\ UNCHANGED <<outside, passed, pending, gap>>
HoursChange(u) ==
  /\ Has("hours") /\ Happens("hours")
  /\ outside' = IF u \in outside THEN outside \ {u} ELSE outside \cup {u}
  /\ UNCHANGED <<today, passed, pending, gap, due>>
Expires(u) ==
  /\ users[u].expires /\ u \notin passed /\ Has("expire") /\ Happens("expire")
  /\ passed' = passed \cup {u} /\ UNCHANGED <<today, outside, pending, gap, due>>
SettingChanged ==
  /\ conn.pc = "up" /\ ~pending /\ Has("settings") /\ Happens("settings")
  /\ pending' = TRUE /\ UNCHANGED <<today, outside, passed, gap, due>>
PollsStop ==
  /\ ~gap /\ Has("gap") /\ Happens("gap") /\ gap' = TRUE /\ UNCHANGED <<today, outside, passed, pending, due>>
Around ==
  /\ Midnight \/ SettingChanged \/ PollsStop \/ \E u \in Present : HoursChange(u) \/ Expires(u)
  /\ UNCHANGED <<store, edits, ctx, meter, ipc, reload, conn, core, kept, lazy, half, unread, swapped, misread, misled>>

Lands ==
  /\ lazy # None /\ kept' = lazy /\ lazy' = None
  /\ UNCHANGED <<store, world, meter, ipc, reload, conn, core, left, half, truth>>

Crash ==
  /\ Has("crash") /\ Happens("crash")
  /\ usage' = kept /\ lazy' = None
  /\ owed' = [u \in Users |-> 0] /\ prev' = None /\ seen' = FALSE /\ live' = NoBuild /\ pendingBuild' = NoBuild
  /\ reloading' = FALSE /\ tried' = FALSE /\ liveSig' = None /\ asked' = FALSE /\ timer' = None
  /\ queue' = <<>> /\ job' = None /\ conn' = [pc |-> "off", build |-> NoBuild] /\ CoreBecomes(None)
  /\ due' = [u \in Users |-> LET e == IF u \in Present THEN RollUser(kept[u], users[u]) ELSE BlankEntry
                             IN [total |-> e.bytes["total"], own |-> e.bytes["direct"]]]
  /\ misled' = FALSE /\ pending' = FALSE /\ gap' = FALSE
  /\ UNCHANGED <<store, edits, ctx, today, outside, passed, kept, misread>>
-----------------------------------------------------------------------------
Init ==
  /\ \E s \in Scenarios : users = s.users /\ edits = s.edits /\ ctx = s.ctx /\ left = s.events
  /\ proxy = TRUE /\ today = 0 /\ outside = {} /\ passed = {} /\ pending = FALSE /\ gap = FALSE
  /\ usage = [u \in Users |-> BlankEntry] /\ owed = [u \in Users |-> 0]
  /\ prev = None /\ seen = FALSE /\ live = NoBuild /\ pendingBuild = NoBuild /\ reloading = FALSE /\ tried = FALSE
  /\ liveSig = None /\ asked = FALSE /\ timer = None /\ queue = <<>> /\ job = None
  /\ conn = [pc |-> "off", build |-> NoBuild] /\ core = None
  /\ kept = usage /\ lazy = None /\ half = [u \in Users |-> "none"]
  /\ due = [u \in Users |-> [total |-> 0, own |-> 0]] /\ unread = due
  /\ swapped = FALSE /\ misread = FALSE /\ misled = FALSE

Next == Admin \/ Traffic \/ Tick \/ Cools \/ Reloads \/ Connection \/ Around \/ Lands \/ Crash
Spec == Init /\ [][Next]_vars

(***************************************************************************)
(* The event loop: the poll, the timers, a reload and a connect go on.     *)
(***************************************************************************)
Fairness ==
  /\ WF_vars(Tick) /\ WF_vars(Cools)
  /\ WF_vars(TimerFires) /\ WF_vars(ReloadBuilds) /\ WF_vars(ReloadEnds)
  /\ WF_vars(Connect /\ conn.pc = "dropped") /\ WF_vars(ConnectBuilds) /\ WF_vars(ConnectEnds)
FairSpec == Spec /\ Fairness
-----------------------------------------------------------------------------
(* What a user is counted is what the core counted of them and the meter   *)
(* read, once, whatever cores came and went: the total its VPN and its     *)
(* direct, and the direct - with what still waits for a total - what left  *)
(* by their own direct outbound.  Unless a reading was taken for another   *)
(* core's that was not, or the reverse.                                    *)
Counted ==
  ~misread => \A u \in Present :
    LET e == Rolled[u]
    IN /\ e.bytes["total"] = due[u].total
       /\ e.bytes["vpn"] \in Nat /\ e.bytes["total"] = e.bytes["vpn"] + e.bytes["direct"]
       /\ due[u].own # None => e.bytes["direct"] + owed[u] = due[u].own

(* A user's traffic is decided by their own filter, routing, target and    *)
(* hold: never by the owner's rules; never to this machine's loopback or   *)
(* to the domains their own filter names; held, never by the class that is *)
(* over; and with their target gone never by the plan's exit instead.      *)
RoutedAsMeant ==
  core # None => \A u \in Active(core.build), d \in Dests :
    LET act == core.build.acts[u]
        out == Route(core.build.acts, ctx, u, d)
        ridesDirect == out = Own(u) \/ (out = Safe(u) /\ CatchAll(u, act.rec, ctx) = Own(u))
    IN /\ out \notin {Owners, Outbound("direct", Nobody)}
       /\ "loopback" \in d \/ d \cap act.rec.filter \cap {"domains"} # {} => out = Block
       /\ act.part = "vpn" => ridesDirect \/ out = Block
       /\ act.part = "direct" => ~ridesDirect
       /\ act.rec.target \in Gone /\ act.rec.routing # "profile" => out # TagOf("", ctx)

\* The holds that come and go by themselves are what the core does.
InForce ==
  core # None /\ core.build # NoBuild => \A u \in Present :
    LET h == HoldAt(u, Rolled[u])
        in == u \in Active(core.build)
        was == IF u \in DOMAIN core.build.holds THEN core.build.holds[u] ELSE NoHold
    IN /\ h.hold = "all" /\ h.why # "disabled" => ~in
       /\ h.hold # "all" /\ in => core.build.acts[u].part = PartOf(h)
       /\ h.hold # "all" /\ was.hold = "all" /\ was.why \in {"schedule", "total", "vpn", "direct"} => in

(* A user over a limit, out of their hours or expired leaves the running   *)
(* core, and one whose period began anew, or whose limit was raised, comes *)
(* back - a refused build, a lost core, an edit or a connect in between    *)
(* notwithstanding - while nothing waits for Apply and the meter was not   *)
(* led to take a build that never ran for the core's.                      *)
(* No more reloads are asked for than that takes.                          *)
Enforced ==
  /\ []<>(conn.pc # "up" \/ pending \/ misled \/ InForce)
  /\ <>[](timer = None \/ misled)

-----------------------------------------------------------------------------
(***************************************************************************)
(* The inductive invariant of Counted (LanUsersProof).                     *)
(***************************************************************************)
Entry ==
  {e \in [day : Nat \cup {None}, bytes : [Kinds -> Nat], ever : [Kinds -> Nat \cup {None}],
          extra : [Kinds \X Periods -> Nat]] :
     /\ e.bytes["total"] = e.bytes["vpn"] + e.bytes["direct"]
     /\ (e.day \in Nat /\ e.day <= today) \/ e.bytes = Zero}
Reading(r) == r.count \in [Users -> Nat] /\ r.own \in [Users -> Nat]

\* Every bag adds up, and is of no day to come.
Bags ==
  /\ today \in Nat /\ usage \in [Users -> Entry] /\ kept \in [Users -> Entry] /\ lazy \in [Users -> Entry] \cup {None}
  /\ owed \in [Users -> Nat] /\ {seen, swapped, misread, gap} \subseteq BOOLEAN
  /\ due \in [Users -> [total : Int, own : Int \cup {None}]] /\ unread \in [Users -> [total : Nat, own : Nat]]
  /\ core # None => Reading(core)
  /\ seen => Reading(prev)

\* What the core counted since the last reading of it, or since it began.
ReadSince ==
  core # None => \A u \in Users :
    IF swapped THEN unread[u] = [total |-> core.count[u], own |-> core.own[u]]
    ELSE /\ seen /\ core.count[u] = prev.count[u] + unread[u].total
         /\ core.own[u] = prev.own[u] + unread[u].own

BytesToday(u) == IF usage[u].day = today THEN usage[u].bytes ELSE Zero
Balanced(u) ==
  /\ u \in Present =>
       /\ BytesToday(u)["total"] = due[u].total
       /\ due[u].own # None => BytesToday(u)["direct"] + owed[u] = due[u].own
  /\ u \notin Present /\ usage[u] = BlankEntry =>
       due[u].total = 0 /\ (due[u].own # None => due[u].own = owed[u])
Books == ~misread => \A u \in Users : Balanced(u)

CountedInv == Bags /\ ReadSince /\ Books
=============================================================================
