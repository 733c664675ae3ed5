----------------------------- MODULE KillSwitch -----------------------------
(***************************************************************************)
(* The router's kill switch: killSwitchOpenwrt.js, the queue that drives   *)
(* it (syncKillSwitch and gateBootIntent of server/service.js) and the     *)
(* boot script openwrt/files/irnetfree-ks.init.  Armed means a table of    *)
(* the kernel that rejects what the LAN sends to the internet outside the  *)
(* tunnel, and a snippet file the boot script replays.                     *)
(*                                                                         *)
(* It is to be armed exactly while the setting is on and a connection is   *)
(* meant: connectIntent, which a connect writes and only a disconnect by   *)
(* hand clears.  Both are read when a pass of the queue runs, not when it  *)
(* is asked for.                                                           *)
(***************************************************************************)
EXTENDS Sequences, Naturals

CONSTANTS Ids, NoId,
  Callers,      \* who waits for a pass
  Scenarios     \* budgets: how often each of Events may happen

\* The reasons of a pass, and the events that are bounded.
Reasons == {"start", "connect", "disconnect", "settings", "verify"}
KernelEvents == {"flush", "refuse", "crash", "reboot", "settings", "unbuildable"}

ASSUME KillSwitchAssumption ==
  /\ NoId \notin Ids /\ Callers # {}
  /\ \A s \in Scenarios : KernelEvents \subseteq DOMAIN s /\ \A e \in KernelEvents : s[e] \in Nat

VARIABLES
  enabled, autoConnect,   \* settings.killSwitch and settings.autoConnect
  intent,                 \* connectIntent of the store
  armed, present,         \* what the service remembers of the table
  table,                  \* the kernel holds the table
  snippet,                \* <dataDir>/killswitch.nft is there
  passes,                 \* ksQueue: the passes asked for, the one that runs first
  step,                   \* what that one waits for
  left,                   \* how often each event may still happen
  covered,                \* history: the LAN was told to be covered, and nothing lifted that
  stuck                   \* history: nft refused something, and has taken nothing since

settings == <<enabled, autoConnect>>
memory == <<armed, present>>
ghosts == <<covered, stuck>>
ksVars == <<settings, intent, memory, table, snippet, passes, step, left, ghosts>>

Want == enabled /\ intent # NoId
IsArmed == armed /\ present

Pass(why, by) == [why |-> why, by |-> by]
Passes == [why : Reasons, by : Callers \cup {"nobody"}]

Spend(e) == left[e] > 0 /\ left' = [left EXCEPT ![e] = @ - 1]

KsTypeOK ==
  /\ {enabled, autoConnect, armed, present, table, snippet, covered, stuck} \subseteq BOOLEAN
  /\ intent \in Ids \cup {NoId} /\ passes \in Seq(Passes)
  /\ step \in {"none", "asking", "loading", "loaded", "deleting"}
  /\ step # "none" => passes # <<>>

\* A fresh install: the service is up and its first pass is asked for.
AtStart == <<Pass("start", "nobody")>>

KsInit ==
  /\ enabled \in BOOLEAN /\ autoConnect \in BOOLEAN /\ intent = NoId
  /\ armed = FALSE /\ present = FALSE /\ table = FALSE /\ snippet = FALSE
  /\ passes = AtStart /\ step = "none"
  /\ left \in Scenarios
  /\ covered = FALSE /\ stuck = FALSE

-----------------------------------------------------------------------------
\* One pass of the queue.

Done == passes' = Tail(passes) /\ step' = "none"
Starts(s) == step' = s /\ UNCHANGED passes
Running(s) == passes # <<>> /\ step = s
Why == Head(passes).why

\* Slip: what is wanted was decided when the pass was asked for.
WantedAsked == Why \in {"connect", "verify", "start"} /\ enabled
\* Slip: the pass leaves the saved connection out.
WantedSetting == enabled
Wanted == Want

\* Slip: armed in memory is taken for armed in the kernel.
AsksNever == FALSE
\* A settings pass loads the table again anyway, with the devices it excludes.
Asks == Wanted /\ IsArmed /\ Why # "settings"
Loads == Wanted /\ (~IsArmed \/ Why = "settings")
Deletes == ~Wanted /\ (IsArmed \/ Why = "start")

PassBegins ==
  /\ Running("none")
  /\ \/ Asks /\ Starts("asking") /\ UNCHANGED snippet
     \/ Loads /\ Starts("loading") /\ UNCHANGED snippet
     \/ Deletes /\ Starts("deleting") /\ snippet' = FALSE
     \/ ~(Asks \/ Loads \/ Deletes) /\ Done /\ UNCHANGED snippet
  /\ UNCHANGED <<settings, intent, memory, table, left, ghosts>>

\* Is the table still in the kernel?  If not, it is loaded again.
Check ==
  /\ Running("asking") /\ present' = table
  /\ IF table THEN Done /\ covered' = (Want /\ ~stuck)
              ELSE Starts("loading") /\ UNCHANGED covered
  /\ UNCHANGED <<settings, intent, armed, table, snippet, left, stuck>>

\* nft -f: one replace, or nothing when nft refuses.
Load ==
  /\ Running("loading")
  /\ \/ table' = TRUE /\ Starts("loaded") /\ UNCHANGED left
        /\ UNCHANGED stuck
     \/ Spend("refuse") /\ Done /\ stuck' = TRUE /\ UNCHANGED table
  /\ UNCHANGED <<settings, intent, memory, snippet, covered>>

\* Slip: arming forgets the boot snippet.
ArmedNoSnippet ==
  /\ Running("loaded") /\ Done
  /\ armed' = TRUE /\ present' = TRUE
  /\ covered' = (Want /\ table) /\ stuck' = FALSE
  /\ UNCHANGED <<settings, intent, table, snippet, left>>

\* The snippet is written once the kernel has the table.
Armed ==
  /\ Running("loaded") /\ Done
  /\ snippet' = TRUE /\ armed' = TRUE /\ present' = TRUE
  /\ covered' = (Want /\ table) /\ stuck' = FALSE
  /\ UNCHANGED <<settings, intent, table, left>>

\* nft delete table: one that is not there is fine, another error is not.
Disarm ==
  /\ Running("deleting") /\ Done
  /\ \/ /\ table' = FALSE /\ armed' = FALSE /\ present' = FALSE /\ stuck' = FALSE
        /\ UNCHANGED left
     \/ /\ table /\ Spend("refuse") /\ stuck' = TRUE
        /\ UNCHANGED <<table, memory>>
  /\ UNCHANGED <<settings, intent, snippet, covered>>

QueueRuns == PassBegins \/ Check \/ Load \/ Armed \/ Disarm

-----------------------------------------------------------------------------
\* What asks for a pass.

Queued(why, by) == passes' = Append(passes, Pass(why, by))

\* A connect whose core is up.
Meant(id, by) ==
  /\ intent' = id /\ Queued("connect", by)
  /\ UNCHANGED <<settings, memory, table, snippet, step, left, ghosts>>

\* A disconnect by hand: the one command that clears the intent.
Unmeant(by) ==
  /\ intent' = NoId /\ Queued("disconnect", by) /\ covered' = FALSE
  /\ UNCHANGED <<settings, memory, table, snippet, step, left, stuck>>

\* settings:set of the kill switch, and of 'connect when the router starts'.
SwitchSet(by) ==
  /\ Spend("settings") /\ enabled' = ~enabled /\ Queued("settings", by)
  /\ covered' = (covered /\ enabled')
  /\ UNCHANGED <<autoConnect, intent, memory, table, snippet, step, stuck>>

AutoConnectSet ==
  /\ Spend("settings") /\ autoConnect' = ~autoConnect
  /\ UNCHANGED <<enabled, intent, memory, table, snippet, passes, step, ghosts>>

\* The timer; a bound: not behind a pass that has not run.
Verify ==
  /\ Want /\ passes = <<>> /\ Queued("verify", "nobody")
  /\ UNCHANGED <<settings, intent, memory, table, snippet, step, left, ghosts>>

-----------------------------------------------------------------------------
\* What the router does to it.

\* fw4 stop, a package's script, nft flush ruleset by hand.
Flushed ==
  /\ Spend("flush") /\ table /\ table' = FALSE /\ covered' = FALSE
  /\ UNCHANGED <<settings, intent, memory, snippet, passes, step, stuck>>

\* A saved intent the boot connect will not follow is cleared before 'start';
\* it may be one nothing can be built of any more.
GateBootIntent ==
  /\ \/ intent' = IF autoConnect THEN intent ELSE NoId
     \/ left["unbuildable"] > 0 /\ intent' = NoId
  /\ covered' = (covered /\ intent' # NoId)

\* The service dies and is started again: the store and the snippet stay.
Restarts(e) ==
  /\ Spend(e) /\ GateBootIntent
  /\ armed' = FALSE /\ present' = FALSE
  /\ passes' = AtStart /\ step' = "none"
  /\ UNCHANGED <<settings, snippet, stuck>>

Crashed == Restarts("crash") /\ UNCHANGED table

Replays == snippet /\ autoConnect

\* A reboot empties the kernel; the boot script replays the snippet.
Rebooted == Restarts("reboot") /\ table' = Replays

-----------------------------------------------------------------------------
KsNext ==
  \/ QueueRuns \/ Verify \/ Flushed \/ Crashed \/ Rebooted \/ AutoConnectSet
  \/ \E by \in Callers : SwitchSet(by) \/ Unmeant(by) \/ \E id \in Ids : Meant(id, by)

KsSpec == KsInit /\ [][KsNext]_ksVars

KsFairness == WF_ksVars(QueueRuns) /\ WF_ksVars(Verify)
KsFairSpec == KsSpec /\ KsFairness

(* Once the LAN has been covered for a connection that is meant, the       *)
(* kernel rejects what leaves it outside the tunnel, through every         *)
(* rebuild, a death of the service and a reboot - the boot script has its  *)
(* snippet - until the user's disconnect or the setting lifts it: passes   *)
(* of different callers that overlap never take the table away under a     *)
(* connection that is meant.                                               *)
CoveredHolds == covered => table /\ snippet

(* When the queue has run dry with nothing meant, no table rejects the LAN *)
(* and no snippet will at the next boot: the user's own "off" never blocks *)
(* it - unless nft refused the pass that had to see to it.                 *)
OffIsOpen == passes = <<>> /\ ~Want /\ ~stuck => ~table /\ ~snippet

(* A table lost from the kernel, or one it refused, comes back while the   *)
(* connection is still meant: the timer asks and loads it again.           *)
Rearmed == (Want /\ ~table) ~> (table \/ ~Want)

-----------------------------------------------------------------------------
(* The inductive invariant of CoveredHolds and OffIsOpen.                  *)

\* A covered LAN is meant, and nothing is taking its table away.
CoveredIsMeant == covered => Want /\ table /\ snippet /\ step # "deleting"

\* What the service remembers as armed has its snippet, unless nft refused.
ArmedIsWritten ==
  /\ step = "asking" => armed
  /\ armed /\ step # "deleting" => snippet \/ stuck
  /\ step = "deleting" => ~snippet

\* A table or a snippet is remembered, being loaded or deleted, or the first
\* pass of the service has yet to look.
StartDue == step = "none" /\ passes # <<>> /\ Why = "start"
Accounted ==
  (table \/ snippet) /\ ~stuck => IsArmed \/ step \in {"loading", "loaded", "deleting"} \/ StartDue

\* What is no longer meant has a pass ahead that has not begun.
Ahead == IF step = "none" THEN passes # <<>> ELSE Len(passes) > 1
SeenTo ==
  /\ ~Want /\ ~stuck /\ (table \/ snippet) => Ahead \/ step = "deleting"
  /\ ~Want /\ step \in {"asking", "loading", "loaded"} => Ahead

KsInv == KsTypeOK /\ CoveredIsMeant /\ ArmedIsWritten /\ Accounted /\ SeenTo
=============================================================================
