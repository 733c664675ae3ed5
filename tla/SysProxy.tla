------------------------------ MODULE SysProxy ------------------------------
(***************************************************************************)
(* The Windows system proxy of the desktop application and the journal     *)
(* that remembers what it was (src/src/main/sysproxy.js).                  *)
(*                                                                         *)
(* Three registry values are written one command at a time; any command    *)
(* may fail, and one that fails (a timeout) may still have landed.  The    *)
(* process may die between two commands.  Every asynchronous operation     *)
(* runs in one queue (`serial'); the exit hook is synchronous and overtakes*)
(* whatever the queue was doing.  Other programs and the user change the   *)
(* same registry values and listen on the same ports.                      *)
(***************************************************************************)
EXTENDS Naturals, Sequences

CONSTANTS
  Ports,         \* the loopback ports our core may be told to serve
  Foreign,       \* proxy servers that are never one of ours
  Absent,        \* a registry value that does not exist
  OurList,       \* WIN_BYPASS, the bypass list we write
  TheirList,     \* any other bypass list
  Unknown,       \* a snapshot that could not be read
  NoJournal,     \* the journal file does not exist
  MaxFaults,     \* bound: failing commands, failing reads and crashes
  MaxEdits,      \* bound: changes other programs or the user make
  MaxQueue,      \* bound: operations waiting in the queue
  SilentProbe,   \* may the port probe time out without an answer?
  EarlyConnect   \* may a connect start its core before the launch repair ran?

Servers == Ports \cup Foreign \cup {Absent}
Lists   == {OurList, TheirList, Absent}

\* What PowerShell reads and `reg add' writes: ProxyEnable, ProxyServer and
\* ProxyOverride.
Settings == [on : BOOLEAN, server : Servers, list : Lists]

Journals ==
  [ours : Ports, written : SUBSET Ports, win : Settings \cup {Unknown}]

ASSUME SysProxyAssumption ==
  /\ MaxFaults \in Nat /\ MaxEdits \in Nat /\ MaxQueue \in Nat \ {0}
  /\ {SilentProbe, EarlyConnect} \subseteq BOOLEAN
  /\ Absent \notin Ports \cup Foreign
  /\ Ports \cap Foreign = {}
  /\ Unknown \notin Settings
  /\ NoJournal \notin Journals
  /\ OurList # TheirList /\ Absent \notin {OurList, TheirList}

VARIABLES
  reg,        \* the registry, all that outlives a crash together with
  journal,    \* the journal file
  listener,   \* who listens on each port: our core, another program, nobody
  app,        \* the process is "up" or "down"
  queue,      \* operations waiting behind the one that runs
  op,         \* the operation that runs and the step it is at
  faults,     \* faults so far
  edits,      \* changes by others so far
  users,      \* ghost: the proxy somebody other than us last chose
  edited,     \* ghost: chosen while a record of ours existed
  torn        \* ghost: a restore was cut short, or a command of one failed, or
              \* the first one of an enable over an enable that had stopped there

ghost == <<users, edited>>
vars == <<reg, journal, listener, app, queue, op, faults, edits, users, edited, torn>>

Calls == {"enable", "disconnect", "restore", "launch"}
Kinds == Calls \cup {"none", "exit"}
Steps == {"idle", "server", "list", "on", "off",
          "backServer", "backList", "backOn", "spend"}

Waiting == [kind : Calls, port : Ports \cup {Absent}]
Ops == [kind : Kinds, at : Steps, port : Ports \cup {Absent},
        ok : BOOLEAN, late : BOOLEAN]

Idle == [kind |-> "none", at |-> "idle", port |-> Absent,
         ok |-> TRUE, late |-> FALSE]

Op(kind, at, port) ==
  [kind |-> kind, at |-> at, port |-> port, ok |-> TRUE, late |-> FALSE]

TypeOK ==
  /\ reg \in Settings
  /\ journal \in Journals \cup {NoJournal}
  /\ listener \in [Ports -> {"free", "core", "other"}]
  /\ app \in {"up", "down"}
  /\ queue \in Seq(Waiting)
  /\ op \in Ops
  /\ faults \in 0..MaxFaults
  /\ edits \in 0..MaxEdits
  /\ users \in Settings
  /\ edited \in BOOLEAN
  /\ torn \in BOOLEAN

\* A machine with no proxy, with a corporate one that has a bypass list or
\* none, one with a proxy configured and switched off, and one an older build
\* without a journal left aimed at a port of ours.
Init ==
  /\ reg \in {[on |-> o, server |-> s, list |-> l] :
                o \in BOOLEAN, s \in Foreign, l \in {TheirList, Absent}}
             \cup {[on |-> FALSE, server |-> Absent, list |-> Absent]}
             \cup {[on |-> TRUE, server |-> p, list |-> OurList] : p \in Ports}
  /\ journal = NoJournal
  /\ listener = [p \in Ports |-> "free"]
  /\ app = "down"
  /\ queue = <<>>
  /\ op = Idle
  /\ faults = 0 /\ edits = 0
  /\ users = reg /\ edited = FALSE /\ torn = FALSE

CoreRuns == \E p \in Ports : listener[p] = "core"
CoreStopped == [p \in Ports |-> IF listener[p] = "core" THEN "free" ELSE listener[p]]

\* Between the first command of a restore and its record's end.
Restoring == op.at \in {"off", "backServer", "backList", "backOn", "spend"}

\* About to write a server over another of ours that has not our list yet: an
\* older enable under this record stopped halfway.
Halfway ==
  /\ op.at = "server" /\ journal # NoJournal
  /\ reg.server \in journal.written \ {op.port} /\ reg.list # OurList

Tears == torn' = (torn \/ Restoring \/ Halfway)

Fault == faults < MaxFaults /\ faults' = faults + 1 /\ Tears

-----------------------------------------------------------------------------
(* Pieces of the operations.                                               *)

\* What a snapshot returns: the settings, or nothing (a fault) when PowerShell
\* fails.
Reads(seen) ==
  \/ seen = reg /\ UNCHANGED <<faults, torn>>
  \/ seen = Unknown /\ Fault

\* One `reg' command that would leave the registry at r: it lands and answers,
\* or fails having landed or not.  Out of its budget, the exit hook runs none.
Command(r, done, failed) ==
  \/ ~op.late /\ reg' = r /\ op' = done /\ UNCHANGED <<faults, torn>>
  \/ ~op.late /\ Fault /\ reg' \in {reg, r} /\ op' = failed
  \/ op.late /\ op' = failed /\ UNCHANGED <<reg, faults, torn>>

Queued(kind, port) ==
  /\ app = "up"
  /\ op.kind # "exit"
  /\ Len(queue) < MaxQueue
  /\ queue' = Append(queue, [kind |-> kind, port |-> port])

\* The next queued operation begins once the one before it has settled.
Begins(kind, port) ==
  /\ app = "up" /\ op = Idle /\ queue # <<>>
  /\ Head(queue) = [kind |-> kind, port |-> port]
  /\ queue' = Tail(queue)

\* What the caller does once the operation has settled: a disconnect stops
\* the core, and after the exit hook the process, and its core, are gone.
Settles(kind) ==
  /\ op' = Idle
  /\ listener' = IF kind \in {"disconnect", "exit"} THEN CoreStopped ELSE listener
  /\ app' = IF kind = "exit" THEN "down" ELSE app

\* The record is deleted.  The ghosts then take what is left on the machine,
\* when somebody chose it meanwhile or nothing was known of what was before.
Spend ==
  /\ journal' = NoJournal
  /\ users' = IF edited \/ journal.win = Unknown THEN reg ELSE users
  /\ edited' = FALSE

-----------------------------------------------------------------------------
(* Enabling: record first, then the server, the list and last the switch.  *)

\* Variants of the definitions below, each the slip a property has to catch.
RenamedAfresh(p) == [journal EXCEPT !.ours = p, !.written = @ \cup {p}, !.win = reg]
RenamedForgetting(p) == [journal EXCEPT !.ours = p, !.written = {p}]

\* A proxy on the very port we are about to serve is a leftover of ours,
\* recorded as switched off.
Record(p, seen) ==
  [ours |-> p, written |-> {p},
   win |-> IF seen # Unknown /\ seen.on /\ seen.server = p
             THEN [seen EXCEPT !.on = FALSE]
             ELSE seen]

\* A second enable keeps the first record and adds the port it is to write.
Renamed(p) == [journal EXCEPT !.ours = p, !.written = @ \cup {p}]

BeginEnableUnrecorded ==
  \E p \in Ports :
    /\ Begins("enable", p)
    /\ op' = Op("enable", "server", p)
    /\ UNCHANGED <<reg, journal, listener, app, faults, torn, edits, ghost>>

BeginEnable ==
  \E p \in Ports, seen \in {reg, Unknown} :
    /\ Begins("enable", p)
    /\ journal # NoJournal => seen = reg
    /\ Reads(seen)
    /\ journal' = IF journal = NoJournal THEN Record(p, seen) ELSE Renamed(p)
    /\ op' = Op("enable", "server", p)
    /\ UNCHANGED <<reg, listener, app, edits, ghost>>

\* The journal cannot be written: the enable fails before it changed anything.
JournalWriteFails ==
  \E p \in Ports :
    /\ Begins("enable", p)
    /\ journal # NoJournal => journal # Renamed(p)
    /\ Fault
    /\ UNCHANGED <<reg, journal, listener, app, op, edits, ghost>>

EnableServer ==
  /\ op.at = "server"
  /\ Command([reg EXCEPT !.server = op.port], [op EXCEPT !.at = "list"], Idle)
  /\ UNCHANGED <<journal, listener, app, queue, edits, ghost>>

EnableList ==
  /\ op.at = "list"
  /\ Command([reg EXCEPT !.list = OurList], [op EXCEPT !.at = "on"], Idle)
  /\ UNCHANGED <<journal, listener, app, queue, edits, ghost>>

EnableSwitch ==
  /\ op.at = "on"
  /\ Command([reg EXCEPT !.on = TRUE], Idle, Idle)
  /\ UNCHANGED <<journal, listener, app, queue, edits, ghost>>

-----------------------------------------------------------------------------
(* Restoring: only with a record, and only a proxy that is still ours.     *)

OwnsUnderOurList(answer) == reg.server \in journal.written /\ reg.list = OurList

\* While a session lasts the port our core was last told to serve is ours;
\* an older port of this session is, under our own list.
OwnsInSession ==
  /\ reg.server \in journal.written
  /\ reg.server = journal.ours \/ reg.list = OurList

\* At launch the port itself answers: nobody there, and it is our leftover.
OwnsAtLaunch(answer) ==
  /\ reg.server \in journal.written
  /\ \/ ~reg.on
     \/ answer = "free"
     \/ answer = "silent" /\ reg.list = OurList

Answers ==
  {IF reg.server \in Ports /\ listener[reg.server] = "free" THEN "free" ELSE "busy"}
    \cup (IF SilentProbe THEN {"silent"} ELSE {})

NothingToRestore ==
  \E kind \in {"disconnect", "restore"} :
    /\ Begins(kind, Absent)
    /\ journal = NoJournal
    /\ Settles(kind)
    /\ UNCHANGED <<reg, journal, faults, torn, edits, ghost>>

NotOurs ==
  \E kind \in {"disconnect", "restore"} :
    /\ Begins(kind, Absent)
    /\ journal # NoJournal /\ ~OwnsInSession
    /\ Spend
    /\ Settles(kind)
    /\ UNCHANGED <<reg, faults, torn, edits>>

BeginRestore ==
  \E kind \in {"disconnect", "restore"}, seen \in {reg, Unknown} :
    /\ Begins(kind, Absent)
    /\ journal # NoJournal
    /\ Reads(seen)
    /\ seen = reg => OwnsInSession
    /\ op' = Op(kind, "off", Absent)
    /\ UNCHANGED <<reg, journal, listener, app, edits, ghost>>

NotOursAtLaunch ==
  \E p \in Ports, answer \in Answers :
    /\ Begins("launch", p)
    /\ journal # NoJournal /\ ~OwnsAtLaunch(answer)
    /\ Spend
    /\ Settles("launch")
    /\ UNCHANGED <<reg, faults, torn, edits>>

BeginLaunchRestore ==
  \E p \in Ports, answer \in Answers, seen \in {reg, Unknown} :
    /\ Begins("launch", p)
    /\ journal # NoJournal
    /\ Reads(seen)
    /\ seen = reg => OwnsAtLaunch(answer)
    /\ op' = Op("launch", "off", Absent)
    /\ UNCHANGED <<reg, journal, listener, app, edits, ghost>>

\* Ours goes off first.
RestoreOff ==
  /\ op.at = "off"
  /\ LET after == [op EXCEPT !.at = IF journal.win = Unknown THEN "spend" ELSE "backServer"]
     IN  Command([reg EXCEPT !.on = FALSE], after, [after EXCEPT !.ok = FALSE])
  /\ UNCHANGED <<journal, listener, app, queue, edits, ghost>>

\* A value that was not there is deleted again; a delete that fails is not a
\* failure of the restore.
RestoreServer ==
  /\ op.at = "backServer"
  /\ LET after == [op EXCEPT !.at = "backList"]
         back  == journal.win.server
     IN  Command([reg EXCEPT !.server = back], after,
                 [after EXCEPT !.ok = @ /\ back = Absent])
  /\ UNCHANGED <<journal, listener, app, queue, edits, ghost>>

\* The switch goes back on only when everything before it landed.
RestoreList ==
  /\ op.at = "backList"
  /\ LET back == journal.win.list
         after(ok) == [op EXCEPT !.ok = ok,
                         !.at = IF ok /\ journal.win.on THEN "backOn" ELSE "spend"]
     IN  Command([reg EXCEPT !.list = back], after(op.ok), after(op.ok /\ back = Absent))
  /\ UNCHANGED <<journal, listener, app, queue, edits, ghost>>

RestoreSwitch ==
  /\ op.at = "backOn"
  /\ LET after == [op EXCEPT !.at = "spend"]
     IN  Command([reg EXCEPT !.on = TRUE], after, [after EXCEPT !.ok = FALSE])
  /\ UNCHANGED <<journal, listener, app, queue, edits, ghost>>

\* What could not be put back stays recorded for the next launch.
FinishRestore ==
  /\ op.at = "spend"
  /\ IF op.ok /\ ~op.late THEN Spend ELSE UNCHANGED <<journal, ghost>>
  /\ Settles(op.kind)
  /\ UNCHANGED <<reg, queue, faults, torn, edits>>

\* No record: a build before the journal is recognised by our exact list on
\* our own port, switched on, with nobody listening there - and switched off.
Legacy(p, answer) ==
  /\ reg.on /\ reg.list = OurList /\ reg.server = p
  /\ answer \in {"free", "silent"}

LaunchWithoutRecord ==
  \E p \in Ports, answer \in Answers :
    /\ Begins("launch", p)
    /\ journal = NoJournal
    /\ IF Legacy(p, answer)
         THEN /\ \/ reg' = [reg EXCEPT !.on = FALSE] /\ UNCHANGED <<faults, torn>>
                 \/ Fault /\ reg' \in {reg, [reg EXCEPT !.on = FALSE]}
              /\ users' = reg'
         ELSE UNCHANGED <<reg, users, faults, torn>>
    /\ UNCHANGED <<journal, listener, app, op, edits, edited>>

-----------------------------------------------------------------------------
(* The callers, in main.js.                                                *)

Launch ==
  \E p \in Ports :
    /\ app = "down"
    /\ app' = "up"
    /\ queue' = <<[kind |-> "launch", port |-> p]>>
    /\ UNCHANGED <<reg, journal, listener, op, faults, torn, edits, ghost>>

RepairWaits == \E i \in DOMAIN queue : queue[i].kind = "launch"
Repairing == op.kind = "launch" \/ RepairWaits

\* connectOnce: the core is up on p before the proxy is asked for.
Connect ==
  \E p \in Ports :
    /\ ~CoreRuns /\ listener[p] = "free"
    /\ Repairing => EarlyConnect
    /\ Queued("enable", p)
    /\ listener' = [listener EXCEPT ![p] = "core"]
    /\ UNCHANGED <<reg, journal, app, op, faults, torn, edits, ghost>>

\* The core stops for a rebuild, or drops: the proxy stays as it is.
CoreStops ==
  /\ app = "up" /\ CoreRuns
  /\ listener' = CoreStopped
  /\ UNCHANGED <<reg, journal, app, queue, op, faults, torn, edits, ghost>>

\* doDisconnect and teardownForQuit stop the core after the proxy.
Disconnect ==
  /\ Queued("disconnect", Absent)
  /\ UNCHANGED <<reg, journal, listener, app, op, faults, torn, edits, ghost>>

\* reapplyConnection without the system proxy or after a failed connect, and
\* a drop that is given up.
GiveBack ==
  /\ Queued("restore", Absent)
  /\ UNCHANGED <<reg, journal, listener, app, op, faults, torn, edits, ghost>>

\* The exit hook: synchronous, so what the queue was doing never goes on.  It
\* trusts the record and does not ask whose the proxy is.
ExitHook ==
  /\ app = "up" /\ op.kind # "exit"
  /\ Tears
  /\ queue' = <<>>
  /\ IF journal = NoJournal
       THEN Settles("exit")
       ELSE op' = Op("exit", "off", Absent) /\ UNCHANGED <<listener, app>>
  /\ UNCHANGED <<reg, journal, faults, edits, ghost>>

\* The exit hook's budget runs out: no further command is tried.
BudgetSpent ==
  /\ op.kind = "exit" /\ op.at # "spend" /\ ~op.late
  /\ Fault
  /\ op' = [op EXCEPT !.late = TRUE]
  /\ UNCHANGED <<reg, journal, listener, app, queue, edits, ghost>>

\* The process is killed, its core with it; the files and the registry stay.
Crash ==
  /\ app = "up"
  /\ Fault
  /\ app' = "down" /\ op' = Idle /\ queue' = <<>>
  /\ listener' = CoreStopped
  /\ UNCHANGED <<reg, journal, edits, ghost>>

-----------------------------------------------------------------------------
(* Everybody else.  They change the proxy while none of our operations     *)
(* runs or waits: the journal does not lock anybody out.                   *)

\* Somebody else's settings are now the machine's.
Chosen(r) ==
  /\ op = Idle /\ queue = <<>>
  /\ edits < MaxEdits /\ edits' = edits + 1
  /\ reg' = r /\ users' = r
  /\ edited' = (journal # NoJournal)

UserSetsProxy ==
  \E s \in Foreign, l \in {TheirList, Absent} :
    /\ Chosen([on |-> TRUE, server |-> s, list |-> l])
    /\ UNCHANGED <<journal, listener, app, queue, op, faults, torn>>

UserSwitchesOff ==
  /\ reg.on
  /\ Chosen([reg EXCEPT !.on = FALSE])
  /\ UNCHANGED <<journal, listener, app, queue, op, faults, torn>>

\* Another client starts on a port of ours and points the machine at itself,
\* under its own list or (a sibling build) under ours.
ClientStarts ==
  \E p \in Ports, l \in {TheirList, OurList} :
    /\ listener[p] = "free"
    /\ Chosen([on |-> TRUE, server |-> p, list |-> l])
    /\ listener' = [listener EXCEPT ![p] = "other"]
    /\ UNCHANGED <<journal, app, queue, op, faults, torn>>

\* It ends, and switches its proxy off or leaves it.
ClientEnds ==
  \E p \in Ports :
    /\ listener[p] = "other"
    /\ listener' = [listener EXCEPT ![p] = "free"]
    /\ \/ reg.server = p /\ Chosen([reg EXCEPT !.on = FALSE])
       \/ UNCHANGED <<reg, edits, ghost>>
    /\ UNCHANGED <<journal, app, queue, op, faults, torn>>

Work ==
  \/ BeginEnable \/ JournalWriteFails \/ EnableServer \/ EnableList \/ EnableSwitch
  \/ NothingToRestore \/ NotOurs \/ BeginRestore
  \/ NotOursAtLaunch \/ BeginLaunchRestore \/ LaunchWithoutRecord
  \/ RestoreOff \/ RestoreServer \/ RestoreList \/ RestoreSwitch \/ FinishRestore

App == Connect \/ CoreStops \/ Disconnect \/ GiveBack \/ ExitHook \/ BudgetSpent \/ Crash

Others == UserSetsProxy \/ UserSwitchesOff \/ ClientStarts \/ ClientEnds

Next == Work \/ Launch \/ App \/ Others

Spec == Init /\ [][Next]_vars

\* Node goes on with a started operation, and the application is started again.
FairSpec == Spec /\ WF_vars(Work) /\ WF_vars(Launch)

-----------------------------------------------------------------------------
(* Correctness.                                                            *)

\* What a program sees: the server when the switch is on, else none.
Proxy(r) == IF r.on THEN r.server ELSE Absent

\* No record and nothing running: the machine has the proxy that somebody
\* other than us chose last.  So neither a proxy of ours is left without the
\* record that removes it, nor is the user's own lost, through any sequence of
\* connects, port changes, failed commands, crashes, repairs and exits - as long
\* as nothing was torn, after which the user's own may be disowned.  (The one
\* exception is meant: a proxy left on a port our core then serves, dead since,
\* is recorded as switched off.)
UsersProxyInForce ==
  journal = NoJournal /\ op = Idle /\ ~edited /\ ~torn =>
    \/ Proxy(reg) = Proxy(users)
    \/ ~reg.on /\ users.server \in Ports

\* A machine aimed at a port of ours that nobody serves.
Dead == reg.on /\ reg.server \in Ports /\ listener[reg.server] = "free" /\ reg # users

Recorded == journal # NoJournal /\ reg.server \in journal.written

\* A recorded proxy that a dead session left aimed at nobody is repaired by the
\* launch that finds it, unless a command or the application fails again.
DeadProxyRepaired ==
  (Dead /\ Recorded /\ RepairWaits /\ faults = MaxFaults) ~> ~Dead

\* The record comes before the first change: whenever we change the registry a
\* record exists, but for the switching off of what an older build left.
RecordedFirst ==
  [][reg' # reg => journal # NoJournal \/ edits' # edits \/ ~reg'.on]_vars

\* While a record exists and nobody interfered, the server on the machine is the
\* recorded one or one the record lists as written: no failed or timed-out
\* write, port change or crash leaves a server of ours a restore would disown.
Recognised ==
  journal # NoJournal /\ journal.win # Unknown /\ ~edited =>
    reg.server \in journal.written \cup {journal.win.server}

\* What an operation that is under way may rely on: an enable serves a port the
\* record lists, a restore has a record to go by.
OpShape ==
  /\ op.at \in {"server", "list", "on"} =>
       /\ op.kind = "enable" /\ op.port \in Ports
       /\ journal # NoJournal /\ op.port \in journal.written
  /\ op.at \in {"off", "backServer", "backList", "backOn", "spend"} => journal # NoJournal
  /\ op.at \in {"backServer", "backList", "backOn"} => journal.win # Unknown

\* Inductive: the record stands until the operation that relies on it is done.
IInv == TypeOK /\ OpShape /\ Recognised

\* A record names what the user had, however often the proxy was enabled since,
\* unless it was made after something was torn.
RecordIsUsers ==
  journal # NoJournal /\ ~edited /\ ~torn =>
    \/ journal.win = Unknown
    \/ Proxy(journal.win) = Proxy(users)
    \/ ~journal.win.on /\ users.server \in Ports
=============================================================================
