-------------------------------- MODULE Usage --------------------------------
(***************************************************************************)
(* What the desktop application counts of its traffic: the lifetime total  *)
(* of every config (UsageMeter, src/src/main/usage.js), and each internet's*)
(* bytes of this period against its cap (createMultiWanQuota,              *)
(* multiWanMeter.js).  Both are fed by the poller of the core's counters   *)
(* (StatsPoller, stats.js) and kept in the usage file (Store, store.js);   *)
(* main.js says when a core begins and ends.                               *)
(*                                                                         *)
(* A core counts from zero.  The meters compare each reading with the one  *)
(* before it, so somebody has to tell them when a reading comes from       *)
(* another core.                                                           *)
(***************************************************************************)
EXTENDS Integers, FiniteSets, Functions

CONSTANTS
  Servers,    \* the configs
  Links,      \* the internets
  Cap,        \* an internet's cap for a day, in bytes; 0: none
  SaveEvery,  \* SAVE_EVERY_MS, in polls
  Scenarios,  \* bound: how often each event may happen
  None        \* no server, no reading

Events == {"carry", "connect", "watch", "reapply", "disconnect", "die", "clear", "fail",
           "crash", "quit", "day", "edit"}

ASSUME UsageAssumption ==
  /\ IsFiniteSet(Servers) /\ IsFiniteSet(Links) /\ Servers \cap Links = {}
  /\ Cap \in [Links -> Nat] /\ SaveEvery \in Nat \ {0}
  /\ Scenarios \subseteq [Events -> Nat]
  /\ None \notin Servers \cup Links

VARIABLES
  open,      \* the application runs
  core,      \* the core: whose it is, what it carried over each internet, and
             \* (history) what of that a poll has counted
  op,        \* the operation that is building a core, and how far it is
  totals, prev, tagMap, dirty, age,  \* UsageMeter; age: polls since savedAt
  used, qprev, built, qdirty, qage,  \* the quota: usage, prev, built, dirty, savedAt
  reloading, cooling,                \* its reload: asked for, asked lately
  queued,    \* reloadChain: who asked for a reload
  polling, reading,                  \* the poller: its timer, the answer on its way
  kept,      \* the usage file on the disk
  held,      \* what the store holds of it in memory
  lazy,      \* setLazy's timer is armed
  failed,    \* the last save of the usage file failed
  day,       \* the day it is
  pending,   \* settings wait for Apply
  left,      \* the events that may still happen
  carried,   \* history: the bytes carried for each config and over each internet
  gone,      \* history: of these, those no meter will count, and the totals cleared
  raced      \* history: a poll of a core landed that the meters were not told of

meter == <<totals, prev, tagMap, dirty, age>>
quota == <<used, qprev, built, qdirty, qage, reloading, cooling>>
store == <<kept, held, lazy, failed>>
truth == <<carried, gone, raced>>
vars == <<open, core, op, meter, quota, queued, polling, reading, store, day, pending, left, truth>>

Ids == Servers \cup Links
Zero(S) == [x \in S |-> 0]
Sum(f) == FoldFunction(+, 0, f)

NoCore == [srv |-> None, via |-> Zero(Links), counted |-> Zero(Links), without |-> {}]
Running == core.srv # None
Fresh(s, skip) == [srv |-> s, via |-> Zero(Links), counted |-> Zero(Links), without |-> skip]

\* What builds a core: a connect, a reapply, a reload in place for the quota or
\* for the watch of processes.
Askers == {"quota", "watch"}
Kinds == {"none", "connect", "reapply"} \cup Askers
NoOp == [kind |-> "none", srv |-> None, skip |-> {}, grace |-> FALSE]

Used == [day : Nat, bytes : Nat]
Unused(d) == [day |-> d, bytes |-> 0]
NotBuilt == {None}      \* built is null: no core to hold to the caps

Readings == [via : [Links -> Nat], of : Servers, old : BOOLEAN]

Cores == [srv : Servers \cup {None}, via : [Links -> Nat], counted : [Links -> Nat],
          without : SUBSET Links]
Ops == [kind : Kinds, srv : Servers \cup {None}, skip : SUBSET Links, grace : BOOLEAN]
Files == [totals : [Servers -> Nat], used : [Links -> Used]]

TypeOK ==
  /\ {open, dirty, qdirty, reloading, cooling, polling, lazy, failed, pending, raced}
       \subseteq BOOLEAN
  /\ core \in Cores /\ op \in Ops
  /\ totals \in [Servers -> Nat] /\ tagMap \in Servers \cup {None} /\ {age, qage} \subseteq Nat
  /\ prev \in {<<>>} \cup [Links -> Nat] /\ qprev \in {<<>>} \cup [Links -> Nat]
  /\ used \in [Links -> Used] /\ queued \subseteq Askers
  /\ built \in (SUBSET Links) \cup {NotBuilt}
  /\ reading \in Readings \cup {None}
  /\ {kept, held} \subseteq Files
  /\ day \in Nat /\ left \in [Events -> Nat]
  /\ carried \in [Ids -> Nat] /\ gone \in [Ids -> Int]

Init ==
  /\ open = TRUE /\ core = NoCore /\ op = NoOp
  /\ totals = Zero(Servers) /\ prev = <<>> /\ tagMap = None /\ dirty = FALSE /\ age = 0
  /\ used = [l \in Links |-> Unused(0)] /\ qprev = <<>> /\ built = NotBuilt
  /\ qdirty = FALSE /\ qage = 0
  /\ reloading = FALSE /\ cooling = FALSE /\ queued = {}
  /\ polling = FALSE /\ reading = None
  /\ kept = [totals |-> totals, used |-> used] /\ held = kept /\ lazy = FALSE /\ failed = FALSE
  /\ day = 0 /\ pending = FALSE
  /\ left \in Scenarios
  /\ carried = Zero(Ids) /\ gone = Zero(Ids) /\ raced = FALSE

Spend(e) == left[e] > 0 /\ left' = [left EXCEPT ![e] = @ - 1]


-----------------------------------------------------------------------------
\* The core.

\* The core carries a byte over one of its internets.
Carry ==
  /\ Running /\ Spend("carry")
  /\ \E l \in Links \ core.without :
       /\ core' = [core EXCEPT !.via[l] = @ + 1]
       /\ carried' = [carried EXCEPT ![core.srv] = @ + 1, ![l] = @ + 1]
  /\ UNCHANGED <<open, op, meter, quota, queued, polling, reading, store, day, pending, gone, raced>>

\* Bytes given by internet, as each meter has them: by config and by internet.
Spread(s, via) ==
  [id \in Ids |-> IF id = s THEN Sum(via) ELSE IF id \in Links THEN via[id] ELSE 0]

\* What a core carried since its last poll dies with it.
Uncounted == Spread(core.srv, [l \in Links |-> core.via[l] - core.counted[l]])

\* An answer already on its way is then an old one.
Ends(next) ==
  /\ core' = next
  /\ gone' = [id \in Ids |-> gone[id] + Uncounted[id]]

Outdated == IF reading = None THEN None ELSE [reading EXCEPT !.old = TRUE]

Die ==
  /\ Running /\ Spend("die")
  /\ Ends(NoCore) /\ reading' = Outdated
  /\ op' = IF op.grace THEN NoOp ELSE op
  /\ reloading' = (reloading /\ ~(op.grace /\ op.kind = "quota"))
  /\ UNCHANGED <<open, meter, used, qprev, built, qdirty, qage, cooling, queued, polling, store,
                 day, pending, carried, raced>>

-----------------------------------------------------------------------------
\* The usage file.  A save succeeds or fails as a whole (Store.tla).

Save(h) ==
  /\ held' = h /\ lazy' = FALSE
  /\ \/ kept' = h /\ failed' = FALSE
     \/ failed' = TRUE /\ UNCHANGED kept

NoSave == UNCHANGED store

LazyTimer ==
  /\ open /\ lazy /\ Save(held)
  /\ UNCHANGED <<open, core, op, meter, quota, queued, polling, reading, day, pending, left, truth>>

-----------------------------------------------------------------------------
\* The meters.

\* A counter that went down is a core that started again.
deltaOf(p, c) == IF c < p THEN c ELSE c - p

Before(p) == IF p = <<>> THEN Zero(Links) ELSE p

\* The quota's entries moved to the day it is.
Rolled == [l \in Links |-> IF used[l].day = day THEN used[l] ELSE Unused(day)]
Ended == [id \in Ids |-> IF id \in Links THEN used[id].bytes - Rolled[id].bytes ELSE 0]

Over(u) == {l \in Links : Cap[l] > 0 /\ u[l].bytes >= Cap[l]}

\* skip(), which rolls first.
Skip(skip) ==
  /\ skip = Over(Rolled) /\ used' = Rolled
  /\ qdirty' = (qdirty \/ Rolled # used)

\* The core runs without other internets than it should: ask for a reload, once.
\* It waits for settings that wait for Apply, and for a connect in flight.
Settle(want) ==
  LET asks == /\ built # NotBuilt /\ want # built
              /\ ~reloading /\ ~cooling /\ ~pending
              /\ Running /\ op.kind \notin {"connect", "reapply"}
  IN  /\ reloading' = (reloading \/ asks) /\ cooling' = (cooling \/ asks)
      /\ queued' = IF asks THEN queued \cup {"quota"} ELSE queued

CoolDown ==
  /\ cooling /\ cooling' = FALSE
  /\ UNCHANGED <<open, core, op, meter, used, qprev, built, qdirty, qage, reloading, queued,
                 polling, reading, store, day, pending, left, truth>>

\* The poller asks, and the core answers.
PollReads ==
  /\ open /\ polling /\ reading = None /\ Running
  /\ reading' = [via |-> core.via, of |-> core.srv, old |-> FALSE]
  /\ UNCHANGED <<open, core, op, meter, quota, queued, polling, store, day, pending, left, truth>>

Later(a) == IF a < SaveEvery THEN a + 1 ELSE a

\* The answer lands: onRaw feeds the quota, onStats the totals, and each writes
\* when it is due.
PollLands ==
  LET by == [l \in Links |-> deltaOf(Before(qprev)[l], reading.via[l])]
      sum == deltaOf(Sum(Before(prev)), Sum(reading.via))
      u == [l \in Links |-> [Rolled[l] EXCEPT !.bytes = @ + by[l]]]
      t == IF tagMap = None THEN totals ELSE [totals EXCEPT ![tagMap] = @ + sum]
      links == qdirty \/ u # used
      configs == dirty \/ t # totals
      flush == links /\ Later(qage) = SaveEvery
      write == configs /\ Later(age) = SaveEvery
      h == [totals |-> IF write THEN t ELSE held.totals, used |-> IF flush THEN u ELSE held.used]
      new == [id \in Ids |-> IF id = reading.of THEN sum ELSE IF id \in Links THEN by[id] ELSE 0]
  IN  /\ open /\ reading # None /\ reading' = None
      /\ used' = u /\ qprev' = reading.via /\ totals' = t /\ prev' = reading.via
      /\ qdirty' = (links /\ ~flush) /\ qage' = IF flush THEN 0 ELSE Later(qage)
      /\ dirty' = (configs /\ ~write) /\ age' = IF write THEN 0 ELSE Later(age)
      /\ IF write THEN Save(h)
                  ELSE held' = h /\ lazy' = (lazy \/ flush) /\ UNCHANGED <<kept, failed>>
      /\ Settle(Over(u))
      /\ core' = IF reading.old THEN core ELSE [core EXCEPT !.counted = reading.via]
      /\ gone' = [id \in Ids |-> gone[id] + Ended[id] - IF reading.old THEN new[id] ELSE 0]
      /\ raced' = (raced \/ (op.grace /\ ~reading.old) \/ reading.of # tagMap)
      /\ UNCHANGED <<open, op, tagMap, built, polling, day, pending, left, carried>>

\* stop() cancels the question in flight.
Stopped == polling' = FALSE /\ reading' = None

-----------------------------------------------------------------------------
\* main.js: what begins and ends a core.

Begins(kind, s, skip) == op' = [kind |-> kind, srv |-> s, skip |-> skip, grace |-> FALSE]

\* doConnect, to another config or from nothing: the poller of the tunnel that
\* stands goes on.
Connect ==
  /\ open /\ op = NoOp /\ Spend("connect")
  /\ \E s \in Servers, skip \in SUBSET Links : Skip(skip) /\ Begins("connect", s, skip)
  /\ gone' = [id \in Ids |-> gone[id] + Ended[id]]
  /\ UNCHANGED <<open, core, meter, qprev, built, qage, reloading, cooling, queued, polling, reading,
                 store, day, pending, carried, raced>>

\* reapplyConnection: the poller is stopped and the totals written first.
Reapply ==
  /\ open /\ op = NoOp /\ tagMap # None /\ built # NotBuilt /\ Spend("reapply")
  /\ \E skip \in SUBSET Links : Skip(skip) /\ Begins("reapply", tagMap, skip)
  /\ Stopped
  /\ IF dirty THEN Save([held EXCEPT !.totals = totals]) /\ age' = 0 ELSE NoSave /\ UNCHANGED age
  /\ dirty' = FALSE /\ prev' = <<>>
  /\ core' = NoCore
  /\ gone' = [id \in Ids |-> gone[id] + Ended[id] + Uncounted[id]]
  /\ UNCHANGED <<open, totals, tagMap, qprev, built, qage, reloading, cooling, queued, day, pending,
                 carried, raced>>

\* The watch of processes asks for a reload too.
WatchAsks ==
  /\ open /\ Running /\ Spend("watch") /\ queued' = queued \cup {"watch"}
  /\ UNCHANGED <<open, core, op, meter, quota, polling, reading, store, day, pending, truth>>

\* rebuildActiveConfig, one at a time: it needs a core.
ReloadBegins ==
  \E a \in queued :
    /\ open /\ op = NoOp /\ queued' = queued \ {a}
    /\ \/ /\ Running
          /\ \E skip \in SUBSET Links : Skip(skip) /\ Begins(a, core.srv, skip)
          /\ gone' = [id \in Ids |-> gone[id] + Ended[id]]
          /\ UNCHANGED reloading
       \/ /\ ~Running
          /\ reloading' = (reloading /\ a # "quota")
          /\ UNCHANGED <<op, used, qdirty, gone>>
    /\ UNCHANGED <<open, core, meter, qprev, built, qage, cooling, polling, reading, store, day,
                   pending, left, carried, raced>>

\* xray.start ends the core there is and starts the one that was built.  A
\* reload gives way where there is none any more.
CoreStarts ==
  /\ open /\ op # NoOp /\ ~op.grace
  /\ op.kind \in Askers => Running
  /\ op' = [op EXCEPT !.grace = TRUE]
  /\ Ends(Fresh(op.srv, op.skip)) /\ reading' = Outdated
  /\ UNCHANGED <<open, meter, quota, queued, polling, store, day, pending, left, carried, raced>>

\* Slip: a reload that failed is still under way.
GivesWaySilently ==
  /\ open /\ op # NoOp /\ ~op.grace
  /\ \/ op.kind \in Askers /\ ~Running /\ UNCHANGED left
     \/ Spend("fail")
  /\ op' = NoOp
  /\ UNCHANGED <<open, core, meter, quota, queued, polling, reading, store, day, pending, truth>>

\* The configuration does not check out, or there is nothing left to reload.
GivesWay ==
  /\ open /\ op # NoOp /\ ~op.grace
  /\ \/ op.kind \in Askers /\ ~Running /\ UNCHANGED left
     \/ Spend("fail")
  /\ op' = NoOp /\ reloading' = (reloading /\ op.kind # "quota")
  /\ UNCHANGED <<open, core, meter, used, qprev, built, qdirty, qage, cooling, queued, polling, reading,
                 store, day, pending, truth>>

\* Slip: the totals are not told of the new core.
ResetQuotaOnly(s, skip) == tagMap' = s /\ qprev' = <<>> /\ built' = skip /\ UNCHANGED prev

\* Slip: the quota is not told what this core was built without.
ResetTotalsOnly(s, skip) == prev' = <<>> /\ tagMap' = s /\ qprev' = <<>> /\ UNCHANGED built

\* The meters are told: what comes next is another core's.
Reset(s, skip) == prev' = <<>> /\ tagMap' = s /\ qprev' = <<>> /\ built' = skip

\* The core survived start()'s grace, which is longer than an answer takes: one
\* of the core before has landed.  A connect starts the poller anew, a reload
\* leaves it as it is.
Ready ==
  /\ open /\ op.grace
  /\ Reset(op.srv, op.skip)
  /\ op' = NoOp /\ reloading' = (reloading /\ op.kind # "quota")
  /\ IF op.kind \in Askers
       THEN /\ reading # None => ~reading.old
            /\ UNCHANGED <<polling, reading, pending>>
       ELSE polling' = TRUE /\ reading' = None /\ pending' = FALSE
  /\ UNCHANGED <<open, core, totals, dirty, age, used, qdirty, qage, cooling, queued, store, day, left,
                 truth>>

\* Slip: what the internets carried is taken for saved.
EndsDropping(written) ==
  /\ Stopped
  /\ IF written THEN Save([held EXCEPT !.totals = totals]) ELSE NoSave
  /\ qdirty' = FALSE /\ qage' = qage /\ dirty' = FALSE /\ age' = age
  /\ prev' = <<>> /\ qprev' = <<>> /\ built' = NotBuilt
  /\ Ends(NoCore) /\ op' = NoOp
  /\ reloading' = (reloading /\ op.kind # "quota")

\* A disconnect or a quit: the poller first, then what the meters hold goes to
\* the file - the internets' with the totals' write - then the core.
EndsSession(written) ==
  LET h == [held EXCEPT !.used = IF qdirty THEN used ELSE @]
  IN  /\ Stopped
      /\ IF written THEN Save([h EXCEPT !.totals = totals])
                    ELSE held' = h /\ lazy' = (lazy \/ qdirty) /\ UNCHANGED <<kept, failed>>
      /\ qdirty' = FALSE /\ qage' = IF qdirty THEN 0 ELSE qage
      /\ dirty' = FALSE /\ age' = IF written THEN 0 ELSE age
      /\ prev' = <<>> /\ qprev' = <<>> /\ built' = NotBuilt
      /\ Ends(NoCore) /\ op' = NoOp
      /\ reloading' = (reloading /\ op.kind # "quota")

Disconnect ==
  /\ open /\ (Running \/ op # NoOp \/ polling) /\ Spend("disconnect")
  /\ EndsSession(dirty)
  /\ UNCHANGED <<open, totals, tagMap, used, cooling, queued, day, pending, carried, raced>>

Quit ==
  /\ open /\ Spend("quit") /\ open' = FALSE
  /\ EndsSession(TRUE)
  /\ UNCHANGED <<totals, tagMap, used, cooling, queued, day, pending, carried, raced>>

Crash ==
  /\ open /\ Spend("crash") /\ open' = FALSE
  /\ Stopped /\ Ends(NoCore) /\ op' = NoOp /\ lazy' = FALSE
  /\ UNCHANGED <<meter, quota, queued, kept, held, failed, day, pending, carried, raced>>

\* What is on the disk is what was counted.
Launch ==
  /\ ~open /\ open' = TRUE
  /\ totals' = kept.totals /\ prev' = <<>> /\ tagMap' = None /\ dirty' = FALSE /\ age' = 0
  /\ used' = kept.used /\ qprev' = <<>> /\ built' = NotBuilt /\ qdirty' = FALSE /\ qage' = 0
  /\ reloading' = FALSE /\ cooling' = FALSE /\ queued' = {} /\ pending' = FALSE
  /\ held' = kept /\ lazy' = FALSE /\ failed' = FALSE
  /\ gone' = [id \in Ids |-> gone[id] +
                IF id \in Servers THEN totals[id] - kept.totals[id]
                                  ELSE used[id].bytes - kept.used[id].bytes]
  /\ UNCHANGED <<core, op, polling, reading, kept, day, left, carried, raced>>

\* usage:clear, written at once.
Clear ==
  /\ open /\ Spend("clear")
  /\ \E s \in Servers :
       /\ totals[s] > 0 /\ totals' = [totals EXCEPT ![s] = 0]
       /\ gone' = [gone EXCEPT ![s] = @ + totals[s]]
       /\ Save([held EXCEPT !.totals = totals'])
  /\ dirty' = FALSE /\ age' = 0
  /\ UNCHANGED <<open, core, op, prev, tagMap, quota, queued, polling, reading, day, pending, carried,
                 raced>>

NextDay ==
  /\ Spend("day") /\ day' = day + 1
  /\ UNCHANGED <<open, core, op, meter, quota, queued, polling, reading, store, pending, truth>>

\* A setting that needs a reconnect is changed, and waits for Apply.
Edit ==
  /\ open /\ Running /\ ~pending /\ Spend("edit") /\ pending' = TRUE
  /\ UNCHANGED <<open, core, op, meter, quota, queued, polling, reading, store, day, truth>>

Polls == PollReads \/ PollLands
Builds == ReloadBegins \/ CoreStarts \/ GivesWay \/ Ready
User == Connect \/ Reapply \/ Disconnect \/ Quit \/ Clear \/ Edit
World == Carry \/ Die \/ WatchAsks \/ Crash \/ NextDay

Next == Polls \/ Builds \/ User \/ World \/ LazyTimer \/ CoolDown \/ Launch

\* The poller's timer ticks and answers come, what builds a core ends, time passes.
Fairness ==
  /\ WF_vars(Polls) /\ WF_vars(Builds) /\ WF_vars(LazyTimer) /\ WF_vars(CoolDown)

Spec == Init /\ [][Next]_vars
FairSpec == Spec /\ Fairness

-----------------------------------------------------------------------------
\* Every byte is counted once, by its config and by its internet, except what a
\* core carried after its last poll - unless a poll's answer landed from a core
\* that the meters had not been told of (deltaOf, UsageMeter.reset).
EveryByteOnce ==
  ~raced =>
    /\ \A s \in Servers :
         totals[s] + gone[s] + (IF core.srv = s THEN Uncounted[s] ELSE 0) = carried[s]
    /\ \A l \in Links : used[l].bytes + gone[l] + Uncounted[l] = carried[l]

\* A meter that holds nothing to save is on the disk, or a timer will write it,
\* or the last save failed (markSaved, flushMultiWan).
CleanMeansSaved ==
  open =>
    /\ dirty \/ failed \/ kept.totals = totals
    /\ qdirty \/ failed \/ lazy \/ kept.used = used

\* A core runs without exactly the internets that the caps are held to (reset).
HeldToWhatRuns == open /\ Running /\ op = NoOp => built = core.without

-----------------------------------------------------------------------------
\* The inductive invariant (UsageProof).

Told == Running /\ ~op.grace     \* the core there is is the one the meters know

\* The core an operation started is the one it was to build, and there is none
\* while the application does not run.
CoreShape ==
  /\ op.grace => /\ Running /\ op.kind # "none"
                 /\ core.srv = op.srv /\ core.without = op.skip
  /\ op.kind = "none" <=> op = NoOp
  /\ op # NoOp => op.srv \in Servers
  /\ ~open => ~Running /\ op = NoOp /\ reading = None
  /\ ~Running => core = NoCore

\* The meters' last reading is what was counted of the core they know, and an
\* answer on its way is not behind it, nor ahead of the core.
InStep ==
  /\ Told => tagMap = core.srv /\ built = core.without
  /\ \A l \in Links :
       /\ core.counted[l] <= core.via[l]
       /\ Told /\ ~raced => Before(qprev)[l] = core.counted[l] /\ Before(prev)[l] = core.counted[l]
       /\ op.grace /\ ~raced => core.counted[l] = 0
       /\ reading # None /\ ~reading.old =>
            core.counted[l] <= reading.via[l] /\ reading.via[l] <= core.via[l]
  /\ reading # None /\ ~reading.old => Running /\ reading.of = core.srv
  /\ reading # None /\ reading.old => ~Told

\* A save that did not fail left on the disk what the store holds, and the store
\* holds what a meter that is clean has counted.
StoreInStep ==
  open =>
    /\ dirty \/ held.totals = totals
    /\ qdirty \/ held.used = used
    /\ failed \/ kept.totals = held.totals
    /\ failed \/ lazy \/ kept.used = held.used

IInv == TypeOK /\ CoreShape /\ InStep /\ StoreInStep /\ EveryByteOnce

-----------------------------------------------------------------------------
\* A core that runs without other internets than the caps ask for is rebuilt,
\* unless settings wait for Apply or the session ends (settle).
CapsFollowed ==
  [](open /\ Running /\ polling => <>(core.without = Over(used) \/ pending \/ ~Running \/ ~open))
=============================================================================
