----------------------------- MODULE RouterProof -----------------------------
(***************************************************************************)
(* Four parts, for any servers, callers, calls under way and budgets of    *)
(* events.                                                                 *)
(*                                                                         *)
(* The kill switch alone (module KillSwitch): its table stands while a     *)
(* covered connection is meant, and is gone once nothing is.               *)
(*                                                                         *)
(* The router's connection implements it, so what is proved of the switch  *)
(* holds inside every connect and rebuild.  A step of the connection       *)
(* leaves the switch alone, or is one of its actions.  That a connect      *)
(* means a server needs to be known: every call under way has one, through *)
(* all the ways calls begin and end.                                       *)
(*                                                                         *)
(* A connect's table is there before its gateway (ArmedInv): nothing but   *)
(* its own start past the grace says of a call that it is meant, at most   *)
(* one call is not overtaken, and the passes that take the table away have *)
(* one behind them that brings it back.                                    *)
(*                                                                         *)
(* Off is down (OffInv): once the teardown of a disconnect has begun, what *)
(* is under way was overtaken, nothing waits that would build, and a core  *)
(* that runs is the teardown's to stop or its own call's to give up.       *)
(***************************************************************************)
EXTENDS Router, SequenceTheorems, TLAPS

-----------------------------------------------------------------------------
(* The kill switch.                                                        *)

(* Queues: what is appended stays behind, and one that ends goes first.    *)
LEMMA Appended ==
  ASSUME NEW S, NEW q \in Seq(S), NEW p \in S
  PROVE  /\ Append(q, p) \in Seq(S) /\ Append(q, p) # <<>> /\ Len(Append(q, p)) = Len(q) + 1
         /\ q # <<>> => Len(q) >= 1 /\ Head(Append(q, p)) = Head(q)
  BY AppendProperties, EmptySeq

LEMMA Ended ==
  ASSUME NEW S, NEW q \in Seq(S), q # <<>>
  PROVE  /\ Tail(q) \in Seq(S)
         /\ Len(q) > 1 => Tail(q) # <<>>
  <1>1. Tail(q) \in Seq(S) /\ Len(Tail(q)) = Len(q) - 1
    BY HeadTailProperties
  <1>2. Len(q) \in Nat /\ Len(<<>>) = 0
    BY LenProperties, EmptySeq
  <1>3. ASSUME Tail(q) = <<>> PROVE Len(Tail(q)) = 0
    BY <1>2, <1>3, Zenon
  <1>4. ASSUME Len(q) > 1 PROVE Tail(q) # <<>>
    BY <1>1, <1>2, <1>3, <1>4
  <1> QED
    BY <1>1, <1>4

LEMMA AtStartTyped == AtStart \in Seq(Passes) /\ AtStart # <<>> /\ Head(AtStart).why = "start"
  BY DEF AtStart, Passes, Pass, Reasons

LEMMA PassTyped == \A why \in Reasons, by \in Callers : Pass(why, by) \in Passes
  BY DEF Passes, Pass

(* A fresh install. *)
LEMMA KsInitial == KsInit => KsInv
  BY KillSwitchAssumption, AtStartTyped
  DEF KsInit, KsInv, KsTypeOK, CoveredIsMeant, ArmedIsWritten, Accounted, SeenTo, Want

-----------------------------------------------------------------------------
(* What asks for a pass only appends to the queue. *)
LEMMA Asked ==
  ASSUME KsInv, NEW why \in Reasons, NEW by \in Callers \cup {"nobody"}, Queued(why, by)
  PROVE  /\ passes' \in Seq(Passes) /\ passes' # <<>>
         /\ StartDue /\ step' = step => StartDue'
         /\ Ahead /\ step' = step => Ahead'
         /\ step # "none" /\ step' = step => Ahead'
         /\ step = "none" /\ step' = step => Ahead'
  <1>1. Pass(why, by) \in Passes
    BY DEF Pass, Passes
  <1>2. passes \in Seq(Passes) /\ (step # "none" => passes # <<>>)
    BY DEF KsInv, KsTypeOK
  <1>3. /\ passes' \in Seq(Passes) /\ passes' # <<>> /\ Len(passes') = Len(passes) + 1
        /\ passes # <<>> => Len(passes) >= 1 /\ Head(passes') = Head(passes)
    BY <1>1, <1>2, Appended DEF Queued
  <1>4. Len(passes) \in Nat
    BY <1>2
  <1> QED
    BY <1>2, <1>3, <1>4 DEF StartDue, Why, Ahead

LEMMA MeantKeeps == ASSUME KsInv, NEW id \in Ids, NEW by \in Callers, Meant(id, by) PROVE KsInv'
  <1>1. intent' = id /\ id # NoId /\ UNCHANGED <<settings, memory, table, snippet, step, left, ghosts>>
    BY KillSwitchAssumption DEF Meant
  <1>2. /\ passes' \in Seq(Passes) /\ passes' # <<>> /\ (StartDue => StartDue') /\ Ahead'
    BY <1>1, Asked DEF Meant, Reasons
  <1> QED
    BY <1>1, <1>2 DEF KsInv, KsTypeOK, CoveredIsMeant, ArmedIsWritten, Accounted, SeenTo, Want, IsArmed, settings, memory, ghosts

LEMMA UnmeantKeeps == ASSUME KsInv, NEW by \in Callers, Unmeant(by) PROVE KsInv'
  <1>1. intent' = NoId /\ ~covered' /\ UNCHANGED <<settings, memory, table, snippet, step, left, stuck>>
    BY DEF Unmeant, KsInv, KsTypeOK
  <1>2. /\ passes' \in Seq(Passes) /\ passes' # <<>> /\ (StartDue => StartDue') /\ Ahead'
    BY <1>1, Asked DEF Unmeant, Reasons
  <1>3. covered' = FALSE
    BY DEF Unmeant
  <1> QED
    BY <1>1, <1>2, <1>3 DEF KsInv, KsTypeOK, CoveredIsMeant, ArmedIsWritten, Accounted, SeenTo, Want, IsArmed, settings, memory

LEMMA SwitchSetKeeps == ASSUME KsInv, NEW by \in Callers, SwitchSet(by) PROVE KsInv'
  <1>1. /\ enabled' = ~enabled /\ covered' = (covered /\ enabled')
        /\ UNCHANGED <<autoConnect, intent, memory, table, snippet, step, stuck>>
    BY DEF SwitchSet
  <1>2. /\ passes' \in Seq(Passes) /\ passes' # <<>> /\ (StartDue => StartDue') /\ Ahead'
    BY <1>1, Asked DEF SwitchSet, Reasons
  <1> QED
    BY <1>1, <1>2 DEF KsInv, KsTypeOK, CoveredIsMeant, ArmedIsWritten, Accounted, SeenTo, Want, IsArmed, memory

LEMMA AutoConnectSetKeeps == ASSUME KsInv, AutoConnectSet PROVE KsInv'
  BY DEF AutoConnectSet, KsInv, KsTypeOK, CoveredIsMeant, ArmedIsWritten, Accounted, SeenTo, Want, IsArmed,
         StartDue, Why, Ahead, memory, ghosts

LEMMA VerifyKeeps == ASSUME KsInv, Verify PROVE KsInv'
  <1>1. UNCHANGED <<settings, intent, memory, table, snippet, step, left, ghosts>> /\ Want
    BY DEF Verify
  <1>2. /\ passes' \in Seq(Passes) /\ passes' # <<>> /\ (StartDue => StartDue') /\ Ahead'
    BY <1>1, Asked DEF Verify, Reasons
  <1> QED
    BY <1>1, <1>2 DEF KsInv, KsTypeOK, CoveredIsMeant, ArmedIsWritten, Accounted, SeenTo, Want, IsArmed, settings, memory, ghosts

-----------------------------------------------------------------------------
(* One pass. *)
LEMMA PassBeginsKeeps == ASSUME KsInv, PassBegins PROVE KsInv'
  <1>1. /\ passes # <<>> /\ step = "none" /\ passes \in Seq(Passes)
        /\ UNCHANGED <<settings, intent, memory, table, left, ghosts>>
    BY DEF PassBegins, Running, KsInv, KsTypeOK
  <1>2. CASE Wanted /\ (Asks \/ Loads)
    <2>1. /\ UNCHANGED <<passes, snippet>> /\ step' \in {"asking", "loading"} /\ Want
          /\ step' = "asking" => IsArmed
      BY <1>2 DEF PassBegins, Starts, Asks, Loads, Deletes, Wanted, Running
    <2> QED
      BY <1>1, <2>1 DEF KsInv, KsTypeOK, CoveredIsMeant, ArmedIsWritten, Accounted, SeenTo, Want, IsArmed,
           StartDue, Why, Ahead, settings, memory, ghosts
  <1>3. CASE ~Wanted /\ Deletes
    <2>1. UNCHANGED passes /\ step' = "deleting" /\ snippet' = FALSE /\ ~Want
      BY <1>3 DEF PassBegins, Starts, Asks, Loads, Deletes, Wanted, Running
    <2> QED
      BY <1>1, <2>1 DEF KsInv, KsTypeOK, CoveredIsMeant, ArmedIsWritten, Accounted, SeenTo, Want, IsArmed,
           StartDue, Why, Ahead, settings, memory, ghosts
  <1>4. CASE ~Wanted /\ ~Deletes
    <2>1. /\ passes' = Tail(passes) /\ step' = "none" /\ UNCHANGED snippet /\ ~Want
          /\ ~IsArmed /\ Why # "start"
      BY <1>4 DEF PassBegins, Done, Starts, Asks, Loads, Deletes, Wanted, Running
    <2>2. Tail(passes) \in Seq(Passes)
      BY <1>1, Ended
    <2>3. ~((table \/ snippet) /\ ~stuck)
      BY <1>1, <2>1 DEF KsInv, Accounted, StartDue
    <2> QED
      BY <1>1, <2>1, <2>2, <2>3 DEF KsInv, KsTypeOK, CoveredIsMeant, ArmedIsWritten, Accounted, SeenTo, Want, IsArmed,
           settings, memory, ghosts
  <1> QED
    BY <1>2, <1>3, <1>4 DEF Wanted, Asks, Loads

(* A pass that ends leaves what is behind it. *)
LEMMA DoneLeaves ==
  ASSUME KsInv, step # "none", Done
  PROVE  passes' \in Seq(Passes) /\ step' = "none" /\ (Ahead => Ahead')
  <1>1. passes \in Seq(Passes) /\ passes # <<>>
    BY DEF KsInv, KsTypeOK
  <1> QED
    BY <1>1, Ended DEF Done, Ahead

LEMMA CheckKeeps == ASSUME KsInv, Check PROVE KsInv'
  <1>1. /\ step = "asking" /\ present' = table /\ armed
        /\ UNCHANGED <<settings, intent, armed, table, snippet, left, stuck>>
    BY DEF Check, Running, KsInv, ArmedIsWritten
  <1>2. CASE table
    <2>1. Done /\ covered' = (Want /\ ~stuck)
      BY <1>2 DEF Check
    <2>2. passes' \in Seq(Passes) /\ step' = "none" /\ (Ahead => Ahead')
      BY <1>1, <2>1, DoneLeaves
    <2> QED
      BY <1>1, <1>2, <2>1, <2>2 DEF KsInv, KsTypeOK, CoveredIsMeant, ArmedIsWritten, Accounted, SeenTo, Want, IsArmed, settings
  <1>3. CASE ~table
    <2>1. UNCHANGED <<passes, covered>> /\ step' = "loading"
      BY <1>3 DEF Check, Starts
    <2> QED
      BY <1>1, <1>3, <2>1 DEF KsInv, KsTypeOK, CoveredIsMeant, ArmedIsWritten, Accounted, SeenTo, Want, IsArmed,
           StartDue, Ahead, settings
  <1> QED
    BY <1>2, <1>3

LEMMA LoadKeeps == ASSUME KsInv, Load PROVE KsInv'
  <1>1. step = "loading" /\ UNCHANGED <<settings, intent, memory, snippet, covered>>
    BY DEF Load, Running
  <1>2. CASE table' = TRUE /\ Starts("loaded") /\ UNCHANGED stuck
    BY <1>1, <1>2 DEF Starts, KsInv, KsTypeOK, CoveredIsMeant, ArmedIsWritten, Accounted, SeenTo, Want, IsArmed,
         StartDue, Ahead, settings, memory
  <1>3. CASE Done /\ stuck' = TRUE /\ UNCHANGED table
    <2>1. passes' \in Seq(Passes) /\ step' = "none" /\ (Ahead => Ahead')
      BY <1>1, <1>3, DoneLeaves
    <2> QED
      BY <1>1, <1>3, <2>1 DEF KsInv, KsTypeOK, CoveredIsMeant, ArmedIsWritten, Accounted, SeenTo, Want, IsArmed, settings, memory
  <1> QED
    BY <1>2, <1>3 DEF Load

LEMMA ArmedKeeps == ASSUME KsInv, Armed PROVE KsInv'
  <1>1. /\ step = "loaded" /\ snippet' = TRUE /\ armed' = TRUE /\ present' = TRUE
        /\ covered' = (Want /\ table) /\ stuck' = FALSE
        /\ UNCHANGED <<settings, intent, table, left>>
    BY DEF Armed, Running
  <1>2. passes' \in Seq(Passes) /\ step' = "none" /\ (Ahead => Ahead')
    BY <1>1, DoneLeaves DEF Armed
  <1>3. ~Want => Ahead
    BY <1>1 DEF KsInv, SeenTo
  <1> QED
    BY <1>1, <1>2, <1>3 DEF KsInv, KsTypeOK, CoveredIsMeant, ArmedIsWritten, Accounted, SeenTo, Want, IsArmed, settings

LEMMA DisarmKeeps == ASSUME KsInv, Disarm PROVE KsInv'
  <1>1. /\ step = "deleting" /\ ~snippet /\ ~covered /\ UNCHANGED <<settings, intent, snippet, covered>>
    BY DEF Disarm, Running, KsInv, ArmedIsWritten, CoveredIsMeant
  <1>2. passes' \in Seq(Passes) /\ step' = "none"
    BY <1>1, DoneLeaves DEF Disarm
  <1>3. \/ table' = FALSE /\ armed' = FALSE /\ present' = FALSE /\ stuck' = FALSE
        \/ stuck' = TRUE /\ UNCHANGED <<table, memory>>
    BY DEF Disarm
  <1> QED
    BY <1>1, <1>2, <1>3 DEF KsInv, KsTypeOK, CoveredIsMeant, ArmedIsWritten, Accounted, SeenTo, Want, IsArmed, settings, memory

-----------------------------------------------------------------------------
(* What the router does to it. *)
LEMMA FlushedKeeps == ASSUME KsInv, Flushed PROVE KsInv'
  BY DEF Flushed, KsInv, KsTypeOK, CoveredIsMeant, ArmedIsWritten, Accounted, SeenTo, Want, IsArmed,
         StartDue, Why, Ahead, settings, memory

LEMMA RestartKeeps ==
  ASSUME KsInv, NEW e \in {"crash", "reboot"}, Restarts(e), table' = table \/ table' = Replays
  PROVE  KsInv'
  <1>1. /\ armed' = FALSE /\ present' = FALSE /\ passes' = AtStart /\ step' = "none"
        /\ UNCHANGED <<settings, snippet, stuck>>
        /\ intent' = (IF autoConnect THEN intent ELSE NoId) \/ intent' = NoId
        /\ covered' = (covered /\ intent' # NoId)
    BY DEF Restarts, GateBootIntent
  <1>2. passes' \in Seq(Passes) /\ StartDue' /\ Ahead' /\ passes' # <<>>
    BY <1>1, AtStartTyped DEF StartDue, Why, Ahead
  <1>3. table' \in BOOLEAN
    BY DEF KsInv, KsTypeOK, Replays
  <1>4. covered' => Want' /\ table' /\ snippet'
    BY <1>1 DEF KsInv, CoveredIsMeant, Want, Replays, settings
  <1>5. intent' \in Ids \cup {NoId}
    BY <1>1 DEF KsInv, KsTypeOK
  <1>6. covered' \in BOOLEAN
    BY <1>1
  <1>7. KsTypeOK'
    BY <1>1, <1>2, <1>3, <1>5, <1>6 DEF KsInv, KsTypeOK, settings
  <1> QED
    BY <1>1, <1>2, <1>4, <1>7 DEF KsInv, CoveredIsMeant, ArmedIsWritten, Accounted, SeenTo

-----------------------------------------------------------------------------
LEMMA KsStep == KsInv /\ [KsNext]_ksVars => KsInv'
  <1> SUFFICES ASSUME KsInv, [KsNext]_ksVars PROVE KsInv'
    OBVIOUS
  <1>1. CASE QueueRuns
    BY <1>1, PassBeginsKeeps, CheckKeeps, LoadKeeps, ArmedKeeps, DisarmKeeps DEF QueueRuns
  <1>2. CASE Verify
    BY <1>2, VerifyKeeps
  <1>3. CASE Flushed
    BY <1>3, FlushedKeeps
  <1>4. CASE Crashed \/ Rebooted
    BY <1>4, RestartKeeps DEF Crashed, Rebooted
  <1>5. CASE AutoConnectSet
    BY <1>5, AutoConnectSetKeeps
  <1>6. CASE \E by \in Callers : SwitchSet(by) \/ Unmeant(by) \/ \E id \in Ids : Meant(id, by)
    BY <1>6, SwitchSetKeeps, UnmeantKeeps, MeantKeeps
  <1>7. CASE UNCHANGED ksVars
    BY <1>7 DEF ksVars, KsInv, KsTypeOK, CoveredIsMeant, ArmedIsWritten, Accounted, SeenTo, Want, IsArmed,
         StartDue, Why, Ahead, settings, memory, ghosts
  <1> QED
    BY <1>1, <1>2, <1>3, <1>4, <1>5, <1>6, <1>7 DEF KsNext

(* The inductive invariant. *)
THEOREM KsInvariance == KsSpec => []KsInv
  BY KsInitial, KsStep, PTL DEF KsSpec

(* While a connection that has been covered is meant, its table stands and *)
(* the boot script has its snippet: any order of passes, crash or reboot.  *)
THEOREM CoverHolds == KsSpec => []CoveredHolds
  <1>1. KsInv => CoveredHolds
    BY DEF KsInv, CoveredIsMeant, CoveredHolds
  <1> QED
    BY <1>1, KsInvariance, PTL

(* Off never blocks the LAN: with nothing meant and the queue dry, neither *)
(* a table nor a snippet is left, unless nft refused.                      *)
THEOREM OffStaysOpen == KsSpec => []OffIsOpen
  <1>1. KsInv => OffIsOpen
    BY DEF KsInv, KsTypeOK, SeenTo, Ahead, OffIsOpen
  <1> QED
    BY <1>1, KsInvariance, PTL

-----------------------------------------------------------------------------
(* The connection.                                                         *)

\* A call under way has a server, and so has what is taken for live.
Known(c) == c = [f \in DOMAIN Idle |-> c[f]] /\ (c.pc # "idle" => c.id \in Ids)

Sound(v) ==
  /\ v = [f \in DOMAIN Fresh |-> v[f]]
  /\ v.active \in Ids \cup {NoId}
  /\ v.calls = [s \in Slots |-> v.calls[s]] /\ \A s \in Slots : Known(v.calls[s])

RouterInv == KsInv /\ Sound(svc)

-----------------------------------------------------------------------------
(* A change of another field than the calls and the active server. *)
LEMMA Elsewhere ==
  ASSUME NEW v, Sound(v), NEW f \in DOMAIN Fresh \ {"active", "calls"}, NEW x
  PROVE  Sound([v EXCEPT ![f] = x])
  BY DEF Sound, Fresh

LEMMA CallSet ==
  ASSUME NEW v, Sound(v), NEW s, NEW c, Known(c)
  PROVE  Sound([v EXCEPT !.calls[s] = c])
  BY DEF Sound, Fresh

LEMMA ActiveSet ==
  ASSUME NEW v, Sound(v), NEW id \in Ids \cup {NoId}
  PROVE  Sound([v EXCEPT !.active = id])
  BY DEF Sound, Fresh

LEMMA IdleKnown == Known(Idle)
  BY DEF Known, Idle

(* The fields the lemmas speak of. *)
LEMMA Fields ==
  {"active", "calls", "core", "tun", "gateways", "shown", "drops", "timer", "net", "judge", "watch", "lastIsOff",
   "off", "offWaits", "boot", "bootCancelled", "recovering", "queued"} \subseteq DOMAIN Fresh
  BY DEF Fresh

LEMMA FreshSound == Sound(Fresh) /\ Sound(Launched)
  <1>1. Sound(Fresh)
    BY IdleKnown DEF Sound, Fresh
  <1> QED
    BY <1>1, Elsewhere DEF Launched, Fresh

LEMMA SameSound ==
  ASSUME NEW v, Sound(v), NEW w, w.active = v.active, w.calls = v.calls, w = [f \in DOMAIN Fresh |-> w[f]]
  PROVE  Sound(w)
  BY DEF Sound

-----------------------------------------------------------------------------
(* How a connect, a rebuild and a recovery begin. *)
LEMMA BumpedSound == ASSUME NEW v, Sound(v) PROVE Sound(Bumped(v)) /\ Bumped(v).active = v.active
  <1> DEFINE calls == [s \in Slots |-> IF v.calls[s].pc = "idle" THEN v.calls[s] ELSE [v.calls[s] EXCEPT !.stale = TRUE]]
             w == Bumped(v)
  <1>1. \A s \in Slots : Known(calls[s])
    <2>1. ASSUME NEW c, Known(c) PROVE Known([c EXCEPT !.stale = TRUE])
      BY <2>1 DEF Known, Idle
    <2> QED
      BY <2>1 DEF Sound
  <1>2. w = [f \in DOMAIN Fresh |-> w[f]]
    BY DEF Bumped, Sound
  <1>3. w.active = v.active /\ w.calls = calls
    BY Fields DEF Bumped, Sound
  <1>4. calls = [s \in Slots |-> calls[s]]
    OBVIOUS
  <1> HIDE DEF w, calls
  <1>5. Sound(w) /\ w.active = v.active
    BY <1>1, <1>2, <1>3, <1>4 DEF Sound
  <1> QED
    BY <1>5 DEF w

LEMMA BumpedCalls ==
  ASSUME NEW v, Sound(v), NEW s \in Slots
  PROVE  Bumped(v).calls[s] = IF v.calls[s].pc = "idle" THEN v.calls[s] ELSE [v.calls[s] EXCEPT !.stale = TRUE]
  <1>1. "calls" \in DOMAIN v
    BY Fields DEF Sound
  <1>2. Bumped(v).calls = [r \in Slots |-> IF v.calls[r].pc = "idle" THEN v.calls[r] ELSE [v.calls[r] EXCEPT !.stale = TRUE]]
    BY <1>1 DEF Bumped
  <1> QED
    BY <1>2

LEMMA BumpedLeaves ==
  ASSUME NEW v, Sound(v)
  PROVE  /\ Bumped(v).drops = v.drops /\ Bumped(v).bootCancelled = v.bootCancelled
         /\ Bumped(v).judge = IF v.judge = "asking" THEN "stale" ELSE v.judge
  <1>1. "drops" \in DOMAIN v /\ "bootCancelled" \in DOMAIN v /\ "judge" \in DOMAIN v
    BY Fields DEF Sound
  <1> QED
    BY <1>1 DEF Bumped

LEMMA ConnectsSound ==
  ASSUME NEW v, Sound(v), NEW s, NEW id \in Ids, NEW by, NEW why
  PROVE  Sound(Connects(v, s, id, by, why))
  <1> DEFINE c == [Idle EXCEPT !.pc = "prep", !.id = id, !.prev = v.active, !.by = by, !.why = why]
             w == Bumped(v)
             u == [w EXCEPT !.lastIsOff = FALSE]
  <1>1. Known(c)
    BY DEF Known, Idle
  <1>2. Sound(w)
    BY BumpedSound
  <1>3. Connects(v, s, id, by, why) = [u EXCEPT !.calls[s] = c]
    BY DEF Connects
  <1> HIDE DEF w, c
  <1>4. Sound(u)
    BY <1>2, Elsewhere DEF Fresh
  <1> HIDE DEF u
  <1> QED
    BY <1>1, <1>3, <1>4, CallSet

LEMMA ReappliesSound ==
  ASSUME NEW v, Sound(v), v.active # NoId, NEW by, NEW why
  PROVE  Sound(Reapplies(v, by, why))
  <1> DEFINE c == [Idle EXCEPT !.pc = "tearTuns", !.id = v.active, !.by = by, !.why = why]
             s == Slot(v)
             u == [v EXCEPT !.shown = FALSE, !.gateways = StopTuns(v.gateways)]
  <1>1. Known(c)
    BY DEF Known, Idle, Sound
  <1>2. Reapplies(v, by, why) = [u EXCEPT !.calls[s] = c]
    BY DEF Reapplies
  <1>3. Sound(u)
    BY DEF Sound, Fresh
  <1> HIDE DEF s, c, u
  <1> QED
    BY <1>1, <1>2, <1>3, CallSet

LEMMA AttemptSound == ASSUME NEW v, Sound(v), NEW why PROVE Sound(Attempt(v, why))
  <1> DEFINE w == [v EXCEPT !.recovering = TRUE, !.timer = "none", !.shown = FALSE]
  <1>1. Sound(w) /\ w.active = v.active
    BY DEF Sound, Fresh
  <1>2. CASE v.active = NoId \/ (~follow /\ why \notin DropReasons)
    BY <1>2 DEF Attempt
  <1>3. CASE ~(v.active = NoId \/ (~follow /\ why \notin DropReasons)) /\ v.recovering
    BY <1>3, Elsewhere DEF Attempt, Fresh
  <1>4. CASE ~(v.active = NoId \/ (~follow /\ why \notin DropReasons)) /\ ~v.recovering
    <2>1. v.active \in Ids
      BY <1>4 DEF Sound
    <2>2. Sound(Reapplies(w, "recovery", why)) /\ Sound(Connects(w, Slot(w), v.active, "recovery", why))
      BY <1>1, <1>4, <2>1, ReappliesSound, ConnectsSound
    <2> QED
      BY <1>4, <2>2 DEF Attempt
  <1> QED
    BY <1>2, <1>3, <1>4

LEMMA DropSound == ASSUME NEW v, Sound(v), NEW why, NEW reported, NEW w \in Drop(v, why, reported) PROVE Sound(w)
  <1>1. Sound(Attempt(v, why))
    BY AttemptSound
  <1>2. \A x : Sound([v EXCEPT !.queued = x]) /\ Sound([v EXCEPT !.drops = x])
    BY Elsewhere DEF Fresh
  <1>3. Sound([v EXCEPT !.timer = why, !.shown = FALSE])
    BY DEF Sound, Fresh
  <1> QED
    BY <1>1, <1>2, <1>3 DEF Drop

LEMMA HandOverSound == ASSUME NEW v, Sound(v) PROVE Sound(HandOver(v))
  <1>1. \A x : Sound([v EXCEPT !.queued = x])
    BY Elsewhere DEF Fresh
  <1>2. Sound([v EXCEPT !.timer = "gateway-failed", !.shown = FALSE])
    BY DEF Sound, Fresh
  <1> QED
    BY <1>1, <1>2 DEF HandOver

LEMMA CoreGoneSound == ASSUME NEW v, Sound(v), NEW c PROVE Sound(CoreGone(v, c)) /\ CoreGone(v, c).calls = v.calls /\ CoreGone(v, c).active = v.active
  BY DEF CoreGone, Sound, Fresh

-----------------------------------------------------------------------------
(* How a call goes on, and how it ends. *)
LEMMA UnlocksSound == ASSUME NEW v, Sound(v), NEW reset, NEW w \in Unlocks(v, reset) PROVE Sound(w)
  <1> DEFINE u == [v EXCEPT !.recovering = FALSE, !.queued = "none"]
  <1>1. Sound(u)
    BY DEF Sound, Fresh
  <1> HIDE DEF u
  <1>2. Sound(HandOver(u)) /\ \A x \in Drop(u, v.queued, FALSE) : Sound(x)
    BY <1>1, HandOverSound, DropSound
  <1> QED
    BY <1>1, <1>2 DEF Unlocks, u

LEMMA RetriesSound == ASSUME NEW v, Sound(v), NEW c, NEW how PROVE Sound(Retries(v, c, how))
  BY Elsewhere DEF Retries, Fresh

LEMMA EndsSound == ASSUME NEW v, Sound(v), NEW s, NEW how, Ends(v, s, how) PROVE Sound(svc')
  <1> DEFINE c == v.calls[s]
             drops == {[d EXCEPT !.on = @ \ {s}] : d \in v.drops}
             w == [v EXCEPT !.calls[s] = Idle, !.drops = drops]
  <1>1. Sound(w)
    BY IdleKnown DEF Sound, Fresh
  <1>2. svc' \in (CASE c.by = "recovery" -> Unlocks(Retries(w, c, how), c.reset)
               [] c.by = "boot" /\ Failed(how) /\ ~v.bootCancelled -> {[w EXCEPT !.boot = "due"]}
               [] c.by \in {"connect", "reapply"} /\ Failed(how) /\ HandedOver(v, c) -> {HandOver(w)}
               [] OTHER -> {w})
    BY DEF Ends
  <1> HIDE DEF w
  <1>3. /\ \A x \in Unlocks(Retries(w, c, how), c.reset) : Sound(x)
        /\ Sound([w EXCEPT !.boot = "due"]) /\ Sound(HandOver(w))
    <2>1. \A x \in Unlocks(Retries(w, c, how), c.reset) : Sound(x)
      BY <1>1, UnlocksSound, RetriesSound
    <2>2. Sound([w EXCEPT !.boot = "due"])
      BY <1>1, Elsewhere DEF Fresh
    <2> QED
      BY <1>1, <2>1, <2>2, HandOverSound
  <1> HIDE DEF c
  <1> QED
    BY <1>1, <1>2, <1>3

(* A call under way goes to another of its points. *)
LEMMA GoesSound ==
  ASSUME NEW v, Sound(v), NEW s \in Slots, v.calls[s].pc # "idle", NEW pc, Goes(v, s, pc)
  PROVE  Sound(svc')
  <1>1. svc' = [v EXCEPT !.calls[s] = [v.calls[s] EXCEPT !.pc = pc]]
    BY DEF Goes
  <1>2. Known([v.calls[s] EXCEPT !.pc = pc])
    BY DEF Sound, Known, Idle
  <1> QED
    BY <1>1, <1>2, CallSet

LEMMA GivesWaySound ==
  ASSUME NEW v, Sound(v), NEW s \in Slots, v.calls[s].pc # "idle", GivesWay(v, s)
  PROVE  Sound(svc')
  <1>1. CASE v.lastIsOff /\ v.core = s
    <2>1. [v EXCEPT !.calls[s].waits = s] = [v EXCEPT !.calls[s] = [v.calls[s] EXCEPT !.waits = s]]
      BY DEF Sound, Fresh
    <2>2. Known([v.calls[s] EXCEPT !.waits = s]) /\ [v.calls[s] EXCEPT !.waits = s].pc # "idle"
      BY DEF Sound, Known, Idle
    <2> DEFINE w == [v EXCEPT !.calls[s] = [v.calls[s] EXCEPT !.waits = s]]
    <2>3. Sound(w) /\ w.calls[s].pc # "idle"
      BY <2>2, CallSet DEF Sound, Fresh
    <2>4. Goes(w, s, "giveWay")
      BY <1>1, <2>1 DEF GivesWay
    <2> HIDE DEF w
    <2> QED
      BY <2>3, <2>4, GoesSound
  <1>2. CASE ~(v.lastIsOff /\ v.core = s)
    BY <1>2, EndsSound DEF GivesWay
  <1> QED
    BY <1>1, <1>2

-----------------------------------------------------------------------------
(* The steps of a call: the switch is left alone, or told of a connection. *)
Switches == UNCHANGED ksVars \/ \E by \in Callers : \E id \in Ids : Meant(id, by)

LEMMA WaitsSet ==
  ASSUME NEW v, Sound(v), NEW s \in Slots, NEW x
  PROVE  /\ Sound([v EXCEPT !.calls[s].waits = x])
         /\ [v EXCEPT !.calls[s].waits = x].calls[s].pc = v.calls[s].pc
  <1> DEFINE c == [v.calls[s] EXCEPT !.waits = x]
  <1>1. [v EXCEPT !.calls[s].waits = x] = [v EXCEPT !.calls[s] = c]
    BY DEF Sound, Fresh
  <1>2. Known(c) /\ c.pc = v.calls[s].pc
    BY DEF Sound, Known, Idle
  <1>3. [v EXCEPT !.calls[s] = c].calls[s] = c
    BY DEF Sound, Fresh
  <1> QED
    BY <1>1, <1>2, <1>3, CallSet

LEMMA GatewaySet ==
  ASSUME NEW v, Sound(v), NEW g
  PROVE  Sound([v EXCEPT !.gateways = g]) /\ [v EXCEPT !.gateways = g].calls = v.calls
  BY DEF Sound, Fresh

LEMMA PreparedSteps == ASSUME Sound(svc), NEW s \in Slots, Prepared(s) PROVE Sound(svc') /\ Switches
  <1>1. svc.calls[s].pc # "idle" /\ UNCHANGED ksVars
    BY DEF Prepared, At, KsRest
  <1>2. CASE \E how : Ends(svc, s, how)
    BY <1>1, <1>2, EndsSound DEF Switches
  <1>3. CASE \E t : Goes([svc EXCEPT !.tun = t, !.calls[s].mine = t, !.shown = FALSE], s, "check")
    <2>1. PICK t : Goes([svc EXCEPT !.tun = t, !.calls[s].mine = t, !.shown = FALSE], s, "check")
      BY <1>3
    <2> DEFINE c == [svc.calls[s] EXCEPT !.mine = t]
               u == [svc EXCEPT !.tun = t, !.shown = FALSE]
               w == [u EXCEPT !.calls[s] = c]
    <2>2. Known(c) /\ c.pc # "idle"
      BY <1>1 DEF Sound, Known, Idle
    <2>3. Sound(u)
      BY DEF Sound, Fresh
    <2>4. [svc EXCEPT !.tun = t, !.calls[s].mine = t, !.shown = FALSE] = w
      BY DEF Sound, Fresh
    <2> HIDE DEF c, u
    <2>5. Sound(w) /\ w.calls[s] = c
      BY <2>2, <2>3, CallSet DEF Sound, Fresh
    <2> HIDE DEF w
    <2> QED
      BY <1>1, <2>1, <2>2, <2>4, <2>5, GoesSound DEF Switches
  <1> QED
    BY <1>2, <1>3 DEF Prepared, NotBuilt

LEMMA CheckedSteps == ASSUME Sound(svc), NEW s \in Slots, Checked(s) PROVE Sound(svc') /\ Switches
  <1>1. svc.calls[s].pc # "idle" /\ UNCHANGED ksVars
    BY DEF Checked, At, KsRest
  <1>2. CASE \E how : Ends(svc, s, how)
    BY <1>1, <1>2, EndsSound DEF Switches
  <1>3. CASE Goes([svc EXCEPT !.core = s], s, "grace")
    <2>1. Sound([svc EXCEPT !.core = s]) /\ [svc EXCEPT !.core = s].calls = svc.calls
      BY DEF Sound, Fresh
    <2> QED
      BY <1>1, <1>3, <2>1, GoesSound DEF Switches
  <1>4. CASE Goes([svc EXCEPT !.calls[s].waits = svc.core], s, "spawn")
    BY <1>1, <1>4, WaitsSet, GoesSound DEF Switches
  <1> QED
    BY <1>2, <1>3, <1>4 DEF Checked, NotBuilt

LEMMA SpawnedSteps == ASSUME Sound(svc), NEW s \in Slots, Spawned(s) PROVE Sound(svc') /\ Switches
  <1> DEFINE v == CoreGone(svc, svc.calls[s].waits)
             w == [v EXCEPT !.core = s]
  <1>1. svc.calls[s].pc # "idle" /\ UNCHANGED ksVars /\ Goes(w, s, "grace")
    BY DEF Spawned, At, KsRest
  <1>2. Sound(v) /\ v.calls = svc.calls
    BY CoreGoneSound
  <1>3. Sound(w) /\ w.calls = svc.calls
    BY <1>2 DEF Sound, Fresh
  <1> HIDE DEF w
  <1> QED
    BY <1>1, <1>3, GoesSound DEF Switches

LEMMA StartedSteps == ASSUME Sound(svc), NEW s \in Slots, Started(s) PROVE Sound(svc') /\ Switches
  <1>1. svc.calls[s].pc # "idle" /\ svc.calls[s].id \in Ids
    BY DEF Started, At, Sound, Known
  <1>2. CASE KsRest /\ ((\E how : Ends(svc, s, how)) \/ GivesWay(svc, s))
    BY <1>1, <1>2, EndsSound, GivesWaySound DEF Switches, KsRest
  <1>3. CASE Goes([svc EXCEPT !.active = svc.calls[s].id], s, "arming") /\ Meant(svc.calls[s].id, s)
    <2>1. Sound([svc EXCEPT !.active = svc.calls[s].id]) /\ [svc EXCEPT !.active = svc.calls[s].id].calls = svc.calls
      BY <1>1, ActiveSet DEF Sound, Fresh
    <2>2. s \in Callers
      BY RouterAssumption
    <2> QED
      BY <1>1, <1>3, <2>1, <2>2, GoesSound DEF Switches
  <1> QED
    BY <1>2, <1>3 DEF Started

LEMMA ArmedForSteps == ASSUME Sound(svc), NEW s \in Slots, ArmedFor(s) PROVE Sound(svc') /\ Switches
  <1>1. svc.calls[s].pc # "idle" /\ UNCHANGED ksVars
    BY DEF ArmedFor, At, KsRest
  <1>2. \A t : LET w == [svc EXCEPT !.gateways[t] = "down"] IN Sound(w) /\ w.calls = svc.calls
    BY GatewaySet DEF Sound, Fresh
  <1>3. CASE GivesWay(svc, s) \/ Goes(svc, s, "port")
    BY <1>1, <1>3, GivesWaySound, GoesSound DEF Switches
  <1>4. CASE \E t : Goes([svc EXCEPT !.gateways[t] = "down"], s, "gwDown")
    BY <1>1, <1>2, <1>4, GoesSound DEF Switches
  <1> QED
    BY <1>3, <1>4 DEF ArmedFor

LEMMA GatewayDownSteps == ASSUME Sound(svc), NEW s \in Slots, GatewayDown(s) PROVE Sound(svc') /\ Switches
  BY GoesSound DEF GatewayDown, At, KsRest, Switches

LEMMA PortOpenSteps == ASSUME Sound(svc), NEW s \in Slots, PortOpen(s) PROVE Sound(svc') /\ Switches
  <1> DEFINE r == ReportedDeath(svc)
  <1>1. svc.calls[s].pc # "idle" /\ UNCHANGED ksVars
    BY DEF PortOpen, At, KsRest
  <1>2. CASE GivesWay(svc, s)
    BY <1>1, <1>2, GivesWaySound DEF Switches
  <1>3. CASE Goes([r EXCEPT !.calls[s].waits = svc.core], s, "abortCore")
    <2>1. Sound(r) /\ r.calls = svc.calls
      BY DEF ReportedDeath, Sound, Fresh
    <2> HIDE DEF r
    <2>2. LET w == [r EXCEPT !.calls[s].waits = svc.core] IN Sound(w) /\ w.calls[s].pc # "idle"
      BY <1>1, <2>1, WaitsSet
    <2> QED
      BY <1>1, <1>3, <2>2, GoesSound DEF Switches
  <1>4. CASE \E t, g : Goes([svc EXCEPT !.gateways[t] = g], s, "gateway")
    <2>1. \A t, g : LET w == [svc EXCEPT !.gateways[t] = g] IN Sound(w) /\ w.calls = svc.calls
      BY DEF Sound, Fresh
    <2> QED
      BY <1>1, <1>4, <2>1, GoesSound DEF Switches
  <1> QED
    BY <1>2, <1>3, <1>4 DEF PortOpen

\* The service once its gateway is up, and once it has given a connect up.
Shows(v) ==
  [v EXCEPT !.shown = TRUE, !.flows = TRUE, !.net = TRUE, !.watch = "armed", !.misses = 0,
            !.timer = IF v.net THEN v.timer ELSE "none", !.queued = IF v.net THEN v.queued ELSE "none"]
GivesUp(v) == [StopsWatching(v) EXCEPT !.active = NoId, !.shown = FALSE]

LEMMA ShowsSound ==
  ASSUME NEW v, Sound(v)
  PROVE  /\ Sound(Shows(v)) /\ Shows(v).calls = v.calls
         /\ Shows(v).off = v.off /\ Shows(v).bootCancelled = v.bootCancelled
  <1> DEFINE w == Shows(v)
  <1>1. w = [f \in DOMAIN Fresh |-> w[f]]
    BY DEF Shows, Sound
  <1>2. w.active = v.active /\ w.calls = v.calls /\ w.off = v.off /\ w.bootCancelled = v.bootCancelled
    BY Fields DEF Shows, Sound
  <1> HIDE DEF w
  <1>3. Sound(w)
    BY <1>1, <1>2, SameSound
  <1> QED
    BY <1>2, <1>3 DEF w

LEMMA GivesUpSound ==
  ASSUME NEW v, Sound(v)
  PROVE  /\ Sound(GivesUp(v)) /\ GivesUp(v).calls = v.calls
         /\ GivesUp(v).off = v.off /\ GivesUp(v).bootCancelled = v.bootCancelled
  <1> DEFINE w == GivesUp(v)
  <1>1. w = [f \in DOMAIN Fresh |-> w[f]]
    BY DEF GivesUp, StopsWatching, Sound
  <1>2. w.active = NoId /\ w.calls = v.calls /\ w.off = v.off /\ w.bootCancelled = v.bootCancelled
    BY Fields DEF GivesUp, StopsWatching, Sound
  <1> HIDE DEF w
  <1>3. Sound(w)
    BY <1>1, <1>2 DEF Sound
  <1> QED
    BY <1>2, <1>3 DEF w

LEMMA ConnectedSound ==
  ASSUME NEW v, Sound(v), NEW s \in Slots, Connected(v, s)
  PROVE  Sound(svc')
  <1>1. Ends(Shows(v), s, "ok")
    BY DEF Connected, Shows
  <1> QED
    BY <1>1, ShowsSound, EndsSound

LEMMA GatewayStartedSteps == ASSUME Sound(svc), NEW s \in Slots, GatewayStarted(s) PROVE Sound(svc') /\ Switches
  <1> DEFINE t == svc.calls[s].mine
             up == [svc EXCEPT !.gateways[t] = "up"]
             late == [up EXCEPT !.gateways[t] = "down"]
             down == [svc EXCEPT !.gateways[t] = "down"]
  <1>1. svc.calls[s].pc # "idle" /\ UNCHANGED ksVars
    BY DEF GatewayStarted, At, KsRest
  <1>2. \A v, g : Sound(v) => Sound([v EXCEPT !.gateways[t] = g]) /\ [v EXCEPT !.gateways[t] = g].calls = v.calls
    BY DEF Sound, Fresh
  <1> HIDE DEF t
  <1>3. CASE Goes(late, s, "lateStop")
    <2>1. Sound(up) /\ up.calls = svc.calls
      BY <1>2
    <2> HIDE DEF up
    <2>2. Sound(late) /\ late.calls = up.calls
      BY <1>2, <2>1
    <2> HIDE DEF late
    <2> QED
      BY <1>1, <1>3, <2>1, <2>2, GoesSound DEF Switches
  <1>4. CASE Connected(up, s)
    <2>1. Sound(up)
      BY <1>2
    <2> HIDE DEF up
    <2> QED
      BY <1>1, <1>4, <2>1, ConnectedSound DEF Switches
  <1>5. Sound(down) /\ down.calls = svc.calls
    BY <1>2
  <1>6. CASE GivesWay(down, s)
    <2> HIDE DEF down
    <2> QED
      BY <1>1, <1>5, <1>6, GivesWaySound DEF Switches
  <1>7. CASE Goes([down EXCEPT !.calls[s].waits = svc.core], s, "abortCore")
    <2> HIDE DEF down
    <2>1. LET w == [down EXCEPT !.calls[s].waits = svc.core] IN Sound(w) /\ w.calls[s].pc # "idle"
      BY <1>1, <1>5, WaitsSet
    <2> QED
      BY <1>1, <1>7, <2>1, GoesSound DEF Switches
  <1>8. down.core = svc.core
    BY DEF Sound, Fresh
  <1> QED
    BY <1>3, <1>4, <1>6, <1>7, <1>8 DEF GatewayStarted, t

LEMMA LateStoppedSteps == ASSUME Sound(svc), NEW s \in Slots, LateStopped(s) PROVE Sound(svc') /\ Switches
  BY GivesWaySound DEF LateStopped, At, KsRest, Switches

LEMMA GaveWaySteps == ASSUME Sound(svc), NEW s \in Slots, GaveWay(s) PROVE Sound(svc') /\ Switches
  BY CoreGoneSound, EndsSound DEF GaveWay, KsRest, Switches

LEMMA AbortedSteps == ASSUME Sound(svc), NEW s \in Slots, Aborted(s) PROVE Sound(svc') /\ Switches
  <1> DEFINE c == svc.calls[s]
             v == CoreGone(svc, c.waits)
             off == GivesUp(v)
  <1>1. c.pc # "idle" /\ c.id \in Ids /\ UNCHANGED ksVars
    BY DEF Aborted, At, KsRest, Sound, Known
  <1>2. Sound(v) /\ v.calls = svc.calls
    BY CoreGoneSound
  <1>3. (GivesWay(v, s) \/ Ends([v EXCEPT !.active = c.id], s, "failed") \/ Ends(off, s, "failed"))
    BY DEF Aborted, GivesUp
  <1> HIDE DEF v
  <1>4. Sound(off)
    BY <1>2, GivesUpSound
  <1>5. Sound([v EXCEPT !.active = c.id])
    BY <1>1, <1>2, ActiveSet
  <1> HIDE DEF off
  <1> QED
    BY <1>1, <1>2, <1>3, <1>4, <1>5, EndsSound, GivesWaySound DEF Switches

LEMMA TunsTornSteps == ASSUME Sound(svc), NEW s \in Slots, TunsTorn(s) PROVE Sound(svc') /\ Switches
  BY WaitsSet, GoesSound DEF TunsTorn, At, KsRest, Switches

LEMMA CoreTornSteps == ASSUME Sound(svc), NEW s \in Slots, CoreTorn(s) PROVE Sound(svc') /\ Switches
  <1>1. svc.calls[s].id \in Ids /\ UNCHANGED ksVars
    BY DEF CoreTorn, At, KsRest, Sound, Known
  <1>2. Sound(CoreGone(svc, svc.calls[s].waits))
    BY CoreGoneSound
  <1> QED
    BY <1>1, <1>2, EndsSound, ConnectsSound DEF CoreTorn, Switches

LEMMA CallStepsTaken == ASSUME Sound(svc), NEW s \in Slots, CallSteps(s) PROVE Sound(svc') /\ Switches
  BY PreparedSteps, CheckedSteps, SpawnedSteps, StartedSteps, ArmedForSteps, GatewayDownSteps, PortOpenSteps,
     GatewayStartedSteps, LateStoppedSteps, GaveWaySteps, AbortedSteps, TunsTornSteps, CoreTornSteps DEF CallSteps

-----------------------------------------------------------------------------
(* The user's commands. *)
LEMMA EndsPendingSound == ASSUME NEW v, Sound(v) PROVE Sound(EndsPending(v)) /\ EndsPending(v).active = v.active
  BY DEF EndsPending, Sound, Fresh

LEMMA ConnectSteps == ASSUME Sound(svc), NEW id \in Ids, Connect(id) PROVE Sound(svc') /\ UNCHANGED ksVars
  <1> DEFINE v == [EndsPending(svc) EXCEPT !.bootCancelled = TRUE, !.rebuilt = FALSE]
  <1>1. svc' = (IF AlreadyUp(v, id) THEN v ELSE Connects(v, Slot(v), id, "connect", "none")) /\ UNCHANGED ksVars
    BY DEF Connect, KsRest
  <1>2. Sound(v)
    <2> DEFINE u == EndsPending(svc)
    <2>1. Sound(u)
      BY EndsPendingSound
    <2>2. v = [u EXCEPT !.bootCancelled = TRUE, !.rebuilt = FALSE]
      OBVIOUS
    <2> HIDE DEF u, v
    <2> QED
      BY <2>1, <2>2 DEF Sound, Fresh
  <1> HIDE DEF v
  <1> QED
    BY <1>1, <1>2, ConnectsSound

LEMMA ReconnectSteps == ASSUME Sound(svc), Reconnect PROVE Sound(svc') /\ UNCHANGED ksVars
  BY EndsPendingSound, HandOverSound, ReappliesSound DEF Reconnect, KsRest, Refused

LEMMA DisconnectSteps == ASSUME Sound(svc), Disconnect PROVE Sound(svc') /\ Unmeant("off")
  BY DEF Disconnect, Sound, Fresh

LEMMA TearsDownSteps == ASSUME Sound(svc), TearsDown PROVE Sound(svc') /\ UNCHANGED ksVars
  <1> DEFINE b == Bumped(svc)
             r == Resets(b)
             w == StopsWatching(r)
  <1>1. Sound(b)
    BY BumpedSound
  <1>2. svc' = [w EXCEPT !.lastIsOff = TRUE, !.rebuilt = FALSE, !.off = "tuns", !.gateways = StopTuns(w.gateways)] /\ UNCHANGED ksVars
    BY DEF TearsDown, KsRest
  <1> HIDE DEF b
  <1>3. Sound(r)
    <2> DEFINE calls == [s \in Slots |-> IF b.calls[s].by = "recovery" THEN [b.calls[s] EXCEPT !.reset = TRUE] ELSE b.calls[s]]
    <2>0. \A c : Known(c) => Known([c EXCEPT !.reset = TRUE])
      BY DEF Known, Idle
    <2>1. \A s \in Slots : Known(calls[s])
      BY <1>1, <2>0 DEF Sound
    <2>2. r = [b EXCEPT !.recovering = FALSE, !.calls = calls]
      BY DEF Resets
    <2>3. calls = [s \in Slots |-> calls[s]]
      OBVIOUS
    <2> HIDE DEF calls, r
    <2> QED
      BY <1>1, <2>1, <2>2, <2>3 DEF Sound, Fresh
  <1> HIDE DEF r
  <1>4. w = [f \in DOMAIN Fresh |-> w[f]]
    BY <1>3 DEF StopsWatching, Sound
  <1>5. w.active = r.active /\ w.calls = r.calls
    BY <1>3, Fields DEF StopsWatching, Sound
  <1> HIDE DEF w
  <1>6. Sound(w)
    BY <1>3, <1>4, <1>5, SameSound
  <1> QED
    BY <1>2, <1>6 DEF Sound, Fresh

LEMMA StopsCoreSteps == ASSUME Sound(svc), StopsCore PROVE Sound(svc') /\ UNCHANGED ksVars
  BY DEF StopsCore, KsRest, Sound, Fresh

LEMMA IsDownSteps == ASSUME Sound(svc), IsDown PROVE Sound(svc') /\ UNCHANGED ksVars
  <1> DEFINE v == CoreGone(svc, svc.offWaits)
  <1>1. Sound(v)
    BY CoreGoneSound
  <1>2. svc' = [v EXCEPT !.off = "none", !.offWaits = NoSlot, !.active = NoId, !.shown = FALSE] /\ UNCHANGED ksVars
    BY DEF IsDown, KsRest
  <1> HIDE DEF v
  <1> QED
    BY <1>1, <1>2 DEF Sound, Fresh

-----------------------------------------------------------------------------
(* What happens by itself. *)
LEMMA BootConnectSteps == ASSUME KsTypeOK, Sound(svc), BootConnect PROVE Sound(svc') /\ UNCHANGED ksVars
  <1> DEFINE v == [svc EXCEPT !.boot = "none"]
  <1>1. Sound(v)
    BY Elsewhere DEF Fresh
  <1>2. svc' = (IF v.bootCancelled \/ v.active # NoId \/ intent = NoId THEN v ELSE Connects(v, Slot(v), intent, "boot", "none"))
        /\ UNCHANGED ksVars
    BY DEF BootConnect, KsRest
  <1>3. intent # NoId => intent \in Ids
    BY DEF KsTypeOK
  <1> HIDE DEF v
  <1> QED
    BY <1>1, <1>2, <1>3, ConnectsSound

LEMMA CoreDiesSteps == ASSUME Sound(svc), CoreDies PROVE Sound(svc') /\ UNCHANGED ksVars
  <1> DEFINE v == CoreGone(svc, svc.core)
  <1>1. Sound(v)
    BY CoreGoneSound
  <1>2. (svc' = v \/ \E ds : svc' = [v EXCEPT !.drops = ds]) /\ UNCHANGED ksVars
    BY DEF CoreDies, KsRest
  <1> HIDE DEF v
  <1> QED
    BY <1>1, <1>2, Elsewhere DEF Fresh

LEMMA GatewayDiesSteps == ASSUME Sound(svc), GatewayDies PROVE Sound(svc') /\ UNCHANGED ksVars
  <1>1. PICK t \in Slots : LET v == [svc EXCEPT !.gateways[t] = "down"] IN
          svc' \in IF Disconnecting(v) \/ v.tun # t THEN {v} ELSE Drop(v, "tunnel-exited", FALSE)
    BY DEF GatewayDies
  <1>2. Sound([svc EXCEPT !.gateways[t] = "down"])
    BY DEF Sound, Fresh
  <1> QED
    BY <1>1, <1>2, DropSound DEF GatewayDies, KsRest

LEMMA DropTakenSteps == ASSUME Sound(svc), DropTaken PROVE Sound(svc') /\ UNCHANGED ksVars
  <1>1. PICK d \in svc.drops : LET v == [svc EXCEPT !.drops = svc.drops \ {d}] IN
          svc' \in IF d.waited /\ (Disconnecting(v) \/ BroughtBack(v, d)) THEN {v} ELSE Drop(v, d.why, d.reported)
    BY DEF DropTaken
  <1>2. Sound([svc EXCEPT !.drops = svc.drops \ {d}])
    BY Elsewhere DEF Fresh
  <1> QED
    BY <1>1, <1>2, DropSound DEF DropTaken, KsRest

LEMMA TimerFiresSteps == ASSUME Sound(svc), TimerFires PROVE Sound(svc') /\ UNCHANGED ksVars
  <1>1. Sound([svc EXCEPT !.timer = "none"])
    BY Elsewhere DEF Fresh
  <1> QED
    BY <1>1, AttemptSound DEF TimerFires, Fires, KsRest

LEMMA WanSteps == ASSUME Sound(svc), WanChanges \/ WanJudged PROVE Sound(svc') /\ UNCHANGED ksVars
  <1>1. \A x : Sound([svc EXCEPT !.judge = x])
    BY Elsewhere DEF Fresh
  <1> QED
    BY <1>1, AttemptSound DEF WanChanges, WanJudged, KsRest

LEMMA WatchSteps == ASSUME Sound(svc), WatchAsks \/ WatchHears PROVE Sound(svc') /\ UNCHANGED ksVars
  <1> DEFINE missed == [svc EXCEPT !.watch = "armed", !.misses = 1 - svc.misses]
             again == [missed EXCEPT !.gap = TRUE]
  <1>1. Sound(Rearms(svc)) /\ Sound([svc EXCEPT !.watch = "asking"])
    BY DEF Rearms, Sound, Fresh
  <1>2. Sound(missed)
    BY DEF Sound, Fresh
  <1>3. WatchHears => svc' \in {Rearms(svc), missed} \cup Drop(again, "tunnel-stalled", FALSE)
    BY DEF WatchHears
  <1> HIDE DEF missed
  <1>4. Sound(again)
    BY <1>2, Elsewhere DEF Fresh
  <1> HIDE DEF again
  <1>5. CASE WatchAsks
    BY <1>1, <1>5 DEF WatchAsks, KsRest
  <1>6. CASE WatchHears
    BY <1>1, <1>2, <1>3, <1>4, <1>6, DropSound DEF WatchHears, KsRest
  <1> QED
    BY <1>5, <1>6

LEMMA StallSteps == ASSUME Sound(svc), Stalls \/ GapOver PROVE Sound(svc') /\ UNCHANGED ksVars
  BY Elsewhere DEF Stalls, GapOver, KsRest, Fresh

-----------------------------------------------------------------------------
LEMMA RouterInitial == Init => RouterInv
  BY KsInitial, FreshSound DEF Init, RouterInv

(* Every step of the router is a step of the kill switch, or leaves it alone. *)
LEMMA RouterStep ==
  ASSUME RouterInv, [Next]_rVars
  PROVE  Sound(svc') /\ [KsNext]_ksVars
  <1> USE DEF RouterInv
  <1>0. KsTypeOK
    BY DEF KsInv
  <1>1. CASE \E s \in Slots : CallSteps(s)
    BY <1>1, CallStepsTaken DEF Switches, KsNext
  <1>2. CASE Commands
    <2>1. ASSUME NEW id \in Ids, Connect(id) PROVE Sound(svc') /\ [KsNext]_ksVars
      BY <2>1, ConnectSteps
    <2>2. CASE Disconnect
      BY <2>2, DisconnectSteps, RouterAssumption DEF KsNext
    <2>3. CASE SetSwitch
      BY <2>3, RouterAssumption DEF SetSwitch, KsNext
    <2> QED
      BY <1>2, <2>1, <2>2, <2>3, ReconnectSteps DEF Commands, SetFollow, KsRest
  <1>3. CASE Service
    BY <1>0, <1>1, <1>3, TearsDownSteps, StopsCoreSteps, IsDownSteps, BootConnectSteps, DropTakenSteps, TimerFiresSteps,
       WanSteps, WatchSteps DEF Service
  <1>4. CASE World
    BY <1>4, CoreDiesSteps, GatewayDiesSteps, WanSteps, StallSteps, FreshSound DEF World, Restarted, KsNext
  <1>5. CASE SwitchItself
    BY <1>5 DEF SwitchItself, KsNext
  <1>6. CASE UNCHANGED rVars
    BY <1>6 DEF rVars
  <1>7. ASSUME NEW s \in Gone, Started(s) PROVE \E t \in Slots : CallSteps(t)
    BY <1>7 DEF Gone, CallSteps
  <1> QED
    BY <1>1, <1>2, <1>3, <1>4, <1>5, <1>6, <1>7 DEF Next

LEMMA RouterInductive == RouterInv /\ [Next]_rVars => RouterInv'
  BY RouterStep, KsStep DEF RouterInv

(* The inductive invariant. *)
THEOREM RouterInvariance == Spec => []RouterInv
  BY RouterInitial, RouterInductive, PTL DEF Spec

(* The kill switch in the router is the kill switch of its own module:     *)
(* whatever the connection does at whatever moment, it only ever asks.     *)
THEOREM RouterKeepsSwitch == Spec => SwitchKept
  <1>1. Init => KsInit
    BY DEF Init
  <1>2. RouterInv /\ [Next]_rVars => [KsNext]_ksVars
    BY RouterStep
  <1> QED
    BY <1>1, <1>2, RouterInvariance, PTL DEF Spec, SwitchKept, KsSpec

(* So a LAN that was covered stays covered through every rebuild, drop,    *)
(* recovery, crash and reboot of the whole router ...                      *)
THEOREM RouterCovers == Spec => []CoveredHolds
  BY RouterKeepsSwitch, CoverHolds, PTL DEF SwitchKept

(* ... and the user's own "off" leaves it open.                            *)
THEOREM RouterOffIsOpen == Spec => []OffIsOpen
  BY RouterKeepsSwitch, OffStaysOpen, PTL DEF SwitchKept

-----------------------------------------------------------------------------
(* Armed before the gateway.                                               *)

(* A step of the switch keeps the table of a call it sees to: one lemma    *)
(* for each of its actions, for a call s of any slot.                      *)

(* What is appended is to come; what was to come or under way still is. *)
LEMMA AppendedToCome ==
  ASSUME KsInv, NEW why \in Reasons, NEW by \in Callers \cup {"nobody"}, Queued(why, by), step' = step
  PROVE  /\ ToCome(by)'
         /\ \A t : (ToCome(t) => ToCome(t)') /\ (UnderWay(t) => UnderWay(t)')
         /\ \A t : Passed(t) /\ t # by => Passed(t)'
  <1> DEFINE p == Pass(why, by)
             n == Len(passes)
  <1>1. p \in Passes /\ p.by = by
    BY DEF Pass, Passes
  <1>2. passes \in Seq(Passes) /\ (step # "none" => passes # <<>>)
    BY DEF KsInv, KsTypeOK
  <1>3. passes' = Append(passes, p)
    BY DEF Queued
  <1> HIDE DEF p
  <1>4. /\ n \in Nat /\ DOMAIN passes = 1 .. n /\ DOMAIN passes' = 1 .. (n + 1)
        /\ passes'[n + 1] = p /\ \A i \in 1 .. n : passes'[i] = passes[i]
    BY <1>1, <1>2, <1>3
  <1>5. n = 0 => passes = <<>>
    BY <1>2
  <1>6. passes # <<>> => Head(passes') = Head(passes)
    BY <1>1, <1>2, <1>3, Appended
  <1> HIDE DEF n
  <1>7. ToCome(by)'
    <2>1. n + 1 = 1 => step' = "none"
      BY <1>2, <1>4, <1>5
    <2> QED
      BY <1>1, <1>4, <2>1 DEF ToCome
  <1>8. ASSUME NEW t, ToCome(t) PROVE ToCome(t)'
    <2>1. PICK i \in 1 .. n : passes[i].by = t /\ (i = 1 => step = "none")
      BY <1>4, <1>8 DEF ToCome
    <2>2. i \in 1 .. (n + 1) /\ passes'[i].by = t
      BY <1>4, <2>1
    <2> QED
      BY <1>4, <2>1, <2>2 DEF ToCome
  <1>9. ASSUME NEW t, UnderWay(t) PROVE UnderWay(t)'
    BY <1>2, <1>6, <1>9 DEF UnderWay
  <1>10. ASSUME NEW t, Passed(t), t # by PROVE Passed(t)'
    <2>1. ASSUME NEW i \in 1 .. (n + 1) PROVE passes'[i].by # t
      BY <1>1, <1>4, <1>10, <2>1 DEF Passed
    <2> QED
      BY <1>4, <2>1 DEF Passed
  <1> QED
    BY <1>7, <1>8, <1>9, <1>10

(* A pass that ends leaves what is behind it to come. *)
LEMMA DoneToCome ==
  ASSUME KsInv, Done, passes # <<>>
  PROVE  /\ \A t : ToCome(t) /\ step # "none" => ToCome(t)'
         /\ \A t : Passed(t) => Passed(t)'
  <1> DEFINE n == Len(passes)
  <1>1. passes \in Seq(Passes) /\ passes' = Tail(passes) /\ step' = "none"
    BY DEF KsInv, KsTypeOK, Done
  <1>2. /\ n \in Nat \ {0} /\ DOMAIN passes = 1 .. n /\ DOMAIN passes' = 1 .. (n - 1)
        /\ \A i \in 1 .. (n - 1) : passes'[i] = passes[i + 1]
    BY <1>1
  <1> HIDE DEF n
  <1>3. ASSUME NEW t, ToCome(t), step # "none" PROVE ToCome(t)'
    <2>1. PICK i \in 1 .. n : passes[i].by = t /\ i # 1
      BY <1>2, <1>3 DEF ToCome
    <2> DEFINE k == i - 1
    <2>2. k \in 1 .. (n - 1) /\ i = k + 1
      BY <1>2, <2>1
    <2> HIDE DEF k
    <2>3. passes'[k].by = t
      BY <1>2, <2>1, <2>2
    <2> QED
      BY <1>1, <1>2, <2>2, <2>3 DEF ToCome
  <1>4. ASSUME NEW t, Passed(t) PROVE Passed(t)'
    <2>1. ASSUME NEW i \in 1 .. (n - 1) PROVE passes'[i].by # t
      <3>1. i + 1 \in 1 .. n
        BY <1>2
      <3> QED
        BY <1>2, <1>4, <3>1 DEF Passed
    <2> QED
      BY <1>2, <2>1 DEF Passed
  <1> QED
    BY <1>3, <1>4

(* A pass that begins for the table is under way to it. *)
LEMMA BegunToCome ==
  ASSUME passes # <<>>, UNCHANGED passes, KsInv, step = "none", step' \in {"asking", "loading"}, NEW t, ToCome(t)
  PROVE  ToCome(t)' \/ UnderWay(t)'
  <1>1. PICK i \in DOMAIN passes : passes[i].by = t
    BY DEF ToCome
  <1>2. CASE i = 1
    BY <1>1, <1>2 DEF UnderWay, KsInv, KsTypeOK
  <1>3. CASE i # 1
    BY <1>1, <1>3 DEF ToCome
  <1> QED
    BY <1>2, <1>3

LEMMA OnlyPassed == ASSUME KsInv, NEW t, Passed(t) PROVE ~ToCome(t) /\ ~UnderWay(t)
  <1>1. passes \in Seq(Passes) /\ (step # "none" => passes # <<>>)
    BY DEF KsInv, KsTypeOK
  <1>2. passes # <<>> => 1 \in DOMAIN passes /\ Head(passes) = passes[1]
    BY <1>1
  <1> QED
    BY <1>1, <1>2 DEF Passed, ToCome, UnderWay

-----------------------------------------------------------------------------
\* What every step leaves of the count of flushes.
Budgeted == DOMAIN budget' = DOMAIN budget /\ budget'["flush"] = budget["flush"]
Unspent == FlushesCounted' /\ (Unflushed' => Unflushed)

LEMMA SpentNone == ASSUME FlushesCounted, Budgeted, UNCHANGED left PROVE Unspent
  BY DEF FlushesCounted, Budgeted, Unspent, Unflushed

LEMMA SpentOther ==
  ASSUME FlushesCounted, Budgeted, NEW e, e # "flush", Spend(e) PROVE Unspent
  BY DEF FlushesCounted, Budgeted, Unspent, Unflushed, Spend

LEMMA SpentFlush == ASSUME FlushesCounted, Budgeted, Spend("flush") PROVE FlushesCounted' /\ ~Unflushed'
  BY DEF FlushesCounted, Budgeted, Unflushed, Spend

LEMMA PassBeginsSees ==
  ASSUME KsInv, FlushesCounted, Budgeted, PassBegins
  PROVE  Unspent /\ LoadedIsThere' /\ \A s : SeesTo(s) => SeesTo(s)'
  <1>1. passes # <<>> /\ step = "none" /\ UNCHANGED <<settings, intent, memory, table, left, ghosts>>
    BY DEF PassBegins, Running
  <1>2. Unspent
    BY <1>1, SpentNone
  <1>3. CASE Wanted /\ (Asks \/ Loads)
    <2>1. UNCHANGED passes /\ step' \in {"asking", "loading"}
      BY <1>3 DEF PassBegins, Starts, Deletes, Asks, Loads, Wanted
    <2>2. ASSUME NEW s, SeesTo(s) PROVE SeesTo(s)'
      <3>1. \A t : UnderWay(t) => FALSE
        BY <1>1 DEF UnderWay
      <3>2. \A t : ToCome(t) => ToCome(t)' \/ UnderWay(t)'
        BY <1>1, <2>1, BegunToCome
      <3> QED
        BY <1>1, <1>2, <2>1, <2>2, <3>1, <3>2 DEF SeesTo, Want, settings, ghosts, Unspent
    <2> QED
      BY <1>2, <2>1, <2>2 DEF LoadedIsThere
  <1>4. CASE ~Wanted
    <2>1. step' \in {"none", "deleting"}
      BY <1>4 DEF PassBegins, Starts, Done, Asks, Loads
    <2> QED
      BY <1>1, <1>2, <1>4, <2>1 DEF Wanted, Want, settings, SeesTo, LoadedIsThere
  <1> QED
    BY <1>3, <1>4 DEF Asks, Loads, Wanted

LEMMA CheckSees ==
  ASSUME KsInv, FlushesCounted, Budgeted, Check
  PROVE  Unspent /\ LoadedIsThere' /\ \A s : SeesTo(s) => SeesTo(s)'
  <1>1. step = "asking" /\ passes # <<>> /\ UNCHANGED <<settings, intent, table, left, stuck>>
    BY DEF Check, Running
  <1>2. Unspent
    BY <1>1, SpentNone
  <1>3. CASE table
    <2>1. step' = "none" /\ table'
      BY <1>1, <1>3 DEF Check, Done
    <2> QED
      BY <1>2, <2>1 DEF SeesTo, LoadedIsThere
  <1>4. CASE ~table
    <2>1. step' = "loading" /\ UNCHANGED passes
      BY <1>4 DEF Check, Starts
    <2>2. \A t : (ToCome(t) => ToCome(t)') /\ (UnderWay(t) => UnderWay(t)')
      BY <1>1, <2>1 DEF ToCome, UnderWay
    <2> QED
      BY <1>1, <1>2, <1>4, <2>1, <2>2 DEF SeesTo, LoadedIsThere, Want, settings, Unspent
  <1> QED
    BY <1>3, <1>4

LEMMA LoadSees ==
  ASSUME KsInv, FlushesCounted, Budgeted, Load
  PROVE  Unspent /\ LoadedIsThere' /\ \A s : SeesTo(s) => SeesTo(s)'
  <1>1. CASE table' = TRUE /\ Starts("loaded") /\ UNCHANGED left
    BY <1>1, SpentNone DEF Starts, SeesTo, LoadedIsThere
  <1>2. CASE Spend("refuse") /\ Done /\ stuck' = TRUE
    BY <1>2, SpentOther DEF Done, SeesTo, LoadedIsThere
  <1> QED
    BY <1>1, <1>2 DEF Load

LEMMA ArmedSees ==
  ASSUME KsInv, FlushesCounted, LoadedIsThere, Budgeted, Armed
  PROVE  Unspent /\ LoadedIsThere' /\ \A s : SeesTo(s) => SeesTo(s)'
  <1>1. step = "loaded" /\ step' = "none" /\ UNCHANGED <<table, left>>
    BY DEF Armed, Running, Done
  <1>2. Unspent
    BY <1>1, SpentNone
  <1>3. Unflushed' => table'
    BY <1>1, <1>2 DEF LoadedIsThere, Unspent
  <1> QED
    BY <1>1, <1>2, <1>3 DEF SeesTo, LoadedIsThere

(* What takes the table away has another pass behind it. *)
LEMMA DisarmSees ==
  ASSUME KsInv, FlushesCounted, Budgeted, Disarm
  PROVE  Unspent /\ LoadedIsThere' /\ \A s : SeesTo(s) => SeesTo(s)'
  <1>1. step = "deleting" /\ passes # <<>> /\ Done /\ step' = "none" /\ UNCHANGED <<settings, intent>>
    BY DEF Disarm, Running, Done
  <1>2. Unspent
    BY SpentNone, SpentOther DEF Disarm
  <1>3. \A t : ToCome(t) => ToCome(t)'
    BY <1>1, DoneToCome
  <1> QED
    BY <1>1, <1>2, <1>3 DEF SeesTo, LoadedIsThere, Want, settings

LEMMA FlushedSees ==
  ASSUME KsInv, FlushesCounted, Budgeted, Flushed
  PROVE  FlushesCounted' /\ LoadedIsThere' /\ \A s : SeesTo(s) => SeesTo(s)'
  <1>1. FlushesCounted' /\ ~Unflushed'
    BY SpentFlush DEF Flushed
  <1>2. \A t : ToCome(t) => ToCome(t)'
    BY DEF Flushed, ToCome
  <1> QED
    BY <1>1, <1>2 DEF Flushed, SeesTo, LoadedIsThere, Want, settings

LEMMA AutoConnectSetSees ==
  ASSUME KsInv, FlushesCounted, LoadedIsThere, Budgeted, AutoConnectSet
  PROVE  Unspent /\ LoadedIsThere' /\ \A s : SeesTo(s) => SeesTo(s)'
  <1>1. Unspent
    BY SpentOther DEF AutoConnectSet
  <1>2. \A t : (ToCome(t) => ToCome(t)') /\ (UnderWay(t) => UnderWay(t)')
    BY DEF AutoConnectSet, ToCome, UnderWay
  <1> QED
    BY <1>1, <1>2 DEF AutoConnectSet, SeesTo, LoadedIsThere, Want, ghosts, Unspent

(* A pass that is asked for puts none off. *)
LEMMA QueuedSees ==
  ASSUME KsInv, FlushesCounted, LoadedIsThere, Unspent, NEW why \in Reasons, NEW by \in Callers \cup {"nobody"},
         Queued(why, by), UNCHANGED <<table, step, stuck>>
  PROVE  /\ LoadedIsThere' /\ SeesTo(by)'
         /\ \A s : SeesTo(s) /\ (Want' => Want \/ by = "set") => SeesTo(s)'
  <1>1. /\ ToCome(by)'
        /\ \A t : (ToCome(t) => ToCome(t)') /\ (UnderWay(t) => UnderWay(t)')
    BY AppendedToCome
  <1>2. ASSUME NEW s, SeesTo(s), Want' => Want \/ by = "set" PROVE SeesTo(s)'
    <2>1. CASE by = "set"
      BY <1>1, <2>1 DEF SeesTo
    <2>2. CASE by # "set" /\ Want
      BY <1>1, <1>2, <2>2 DEF SeesTo, Unspent
    <2>3. CASE ~Want'
      BY <2>3 DEF SeesTo
    <2> QED
      BY <1>2, <2>1, <2>2, <2>3
  <1> QED
    BY <1>1, <1>2 DEF SeesTo, LoadedIsThere, Unspent

LEMMA VerifySees ==
  ASSUME KsInv, FlushesCounted, LoadedIsThere, Budgeted, Verify
  PROVE  Unspent /\ LoadedIsThere' /\ \A s : SeesTo(s) => SeesTo(s)'
  <1>1. Unspent
    BY SpentNone DEF Verify
  <1> QED
    BY <1>1, QueuedSees DEF Verify, Reasons, ghosts

LEMMA UnmeantSees ==
  ASSUME KsInv, FlushesCounted, LoadedIsThere, Budgeted, NEW by \in Callers, Unmeant(by)
  PROVE  Unspent /\ LoadedIsThere' /\ \A s : SeesTo(s)'
  <1>1. Unspent /\ ~Want'
    BY SpentNone DEF Unmeant, Want
  <1> QED
    BY <1>1 DEF Unmeant, SeesTo, LoadedIsThere, Unspent

LEMMA SwitchSetSees ==
  ASSUME KsInv, FlushesCounted, LoadedIsThere, Budgeted, SwitchSet("set")
  PROVE  Unspent /\ LoadedIsThere' /\ \A s : SeesTo(s) => SeesTo(s)'
  <1>1. Unspent
    BY SpentOther DEF SwitchSet
  <1>2. "set" \in Callers
    BY RouterAssumption
  <1> QED
    BY <1>1, <1>2, QueuedSees DEF SwitchSet, Reasons

LEMMA MeantSees ==
  ASSUME KsInv, FlushesCounted, LoadedIsThere, Budgeted, NEW id, NEW by \in Callers, Meant(id, by)
  PROVE  Unspent /\ LoadedIsThere' /\ SeesTo(by)'
  <1>1. Unspent
    BY SpentNone DEF Meant
  <1> QED
    BY <1>1, QueuedSees DEF Meant, Reasons, ghosts

-----------------------------------------------------------------------------
(* What a step of the service does to the calls: it says of none but its   *)
(* own that it is meant, and leaves at most one that nothing overtook; a   *)
(* call of K that waits for its pass still waits.                          *)
Narrows(v, w, K) ==
  /\ Told(w) \subseteq Told(v)
  /\ Current(w) \subseteq Current(v) \/ \E s : Current(w) \subseteq {s}
  /\ \A s \in Slots : s \in K /\ v.calls[s].pc = "arming" => w.calls[s].pc = "arming"

LEMMA NarrowsOn ==
  ASSUME NEW v, NEW w, NEW u, NEW K, Narrows(v, w, K), Narrows(w, u, K)
  PROVE  Narrows(v, u, K)
  <1>1. Current(u) \subseteq Current(v) \/ \E s : Current(u) \subseteq {s}
    <2>1. CASE Current(u) \subseteq Current(w)
      BY <2>1 DEF Narrows
    <2>2. CASE ~(Current(u) \subseteq Current(w))
      BY <2>2 DEF Narrows
    <2> QED
      BY <2>1, <2>2
  <1> QED
    BY <1>1 DEF Narrows

LEMMA SameNarrows ==
  ASSUME NEW v, NEW w, NEW K, w.calls = v.calls
  PROVE  Narrows(v, w, K)
  BY DEF Narrows, Told, Current

(* One call goes on or ends. *)
LEMMA CallNarrows ==
  ASSUME NEW v, Sound(v), NEW K, NEW s \in Slots, NEW c, NEW w, w.calls = [v.calls EXCEPT ![s] = c],
         c.pc \in Building /\ ~c.stale => v.calls[s].pc \in Building /\ ~v.calls[s].stale,
         c.pc \in After => v.calls[s].pc \in After,
         s \in K => v.calls[s].pc # "arming"
  PROVE  Narrows(v, w, K)
  <1>1. w.calls[s] = c /\ \A t \in Slots : t # s => w.calls[t] = v.calls[t]
    BY DEF Sound
  <1>2. Current(w) \subseteq Current(v)
    BY <1>1 DEF Current
  <1>3. Told(w) \subseteq Told(v)
    BY <1>1, <1>2 DEF Told
  <1> QED
    BY <1>1, <1>2, <1>3 DEF Narrows

LEMMA BumpedNarrows ==
  ASSUME NEW v, Sound(v), NEW K
  PROVE  /\ Narrows(v, Bumped(v), K) /\ Current(Bumped(v)) = {}
         /\ \A s \in Slots : Bumped(v).calls[s].pc = v.calls[s].pc
  <1> DEFINE calls == [s \in Slots |-> IF v.calls[s].pc = "idle" THEN v.calls[s] ELSE [v.calls[s] EXCEPT !.stale = TRUE]]
  <1>1. Bumped(v).calls = calls
    BY DEF Bumped, Sound, Fresh
  <1>2. \A s \in Slots : calls[s].pc = v.calls[s].pc /\ (calls[s].pc # "idle" => calls[s].stale)
    BY DEF Sound, Known, Idle
  <1> HIDE DEF calls
  <1>3. Current(Bumped(v)) = {}
    BY <1>1, <1>2 DEF Current, Building
  <1> QED
    BY <1>1, <1>2, <1>3 DEF Narrows, Told

LEMMA ConnectsNarrows ==
  ASSUME NEW v, Sound(v), NEW K, NEW s \in Slots, v.calls[s].pc # "arming", NEW id, NEW by, NEW why
  PROVE  Narrows(v, Connects(v, s, id, by, why), K)
  <1> DEFINE w == Bumped(v)
             c == [Idle EXCEPT !.pc = "prep", !.id = id, !.prev = v.active, !.by = by, !.why = why]
             u == Connects(v, s, id, by, why)
  <1>1. Sound(w) /\ Current(w) = {} /\ \A t \in Slots : w.calls[t].pc = v.calls[t].pc
    BY BumpedSound, BumpedNarrows
  <1>2. u = [w EXCEPT !.lastIsOff = FALSE, !.calls[s] = c]
    BY DEF Connects
  <1>3. c.pc = "prep"
    BY DEF Idle
  <1> HIDE DEF w, c, u
  <1>4. u.calls = [w.calls EXCEPT ![s] = c]
    BY <1>1, <1>2 DEF Sound, Fresh
  <1>5. u.calls[s] = c /\ \A t \in Slots : t # s => u.calls[t] = w.calls[t]
    BY <1>1, <1>4 DEF Sound
  <1>6. Current(u) \subseteq {s}
    BY <1>1, <1>5 DEF Current
  <1>7. Told(u) = {}
    BY <1>3, <1>5, <1>6 DEF Told, After
  <1> QED
    BY <1>1, <1>5, <1>6, <1>7 DEF Narrows, u

LEMMA SlotFree == ASSUME NEW v, Free(v) # {} PROVE Slot(v) \in Slots /\ v.calls[Slot(v)].pc = "idle"
  BY DEF Slot, Free

LEMMA ReappliesNarrows ==
  ASSUME NEW v, Sound(v), NEW K, Free(v) # {}, NEW by, NEW why
  PROVE  Narrows(v, Reapplies(v, by, why), K)
  <1> DEFINE c == [Idle EXCEPT !.pc = "tearTuns", !.id = v.active, !.by = by, !.why = why]
             s == Slot(v)
             w == Reapplies(v, by, why)
  <1>1. s \in Slots /\ v.calls[s].pc = "idle"
    BY SlotFree
  <1>2. c.pc = "tearTuns"
    BY DEF Idle
  <1>3. w.calls = [v.calls EXCEPT ![s] = c]
    BY DEF Reapplies, Sound, Fresh
  <1> HIDE DEF s, c, w
  <1>4. Narrows(v, w, K)
    BY <1>1, <1>2, <1>3, CallNarrows DEF Building, After
  <1> QED
    BY <1>4 DEF w

LEMMA AttemptNarrows ==
  ASSUME NEW v, Sound(v), NEW K, Free(v) # {}, NEW why
  PROVE  Narrows(v, Attempt(v, why), K)
  <1> DEFINE w == [v EXCEPT !.recovering = TRUE, !.timer = "none", !.shown = FALSE]
             q == [v EXCEPT !.queued = why]
  <1>1. Sound(w) /\ w.calls = v.calls /\ q.calls = v.calls
    BY DEF Sound, Fresh
  <1>2. Attempt(v, why) \in {v, q, Reapplies(w, "recovery", why), Connects(w, Slot(w), v.active, "recovery", why)}
    BY DEF Attempt
  <1> HIDE DEF w, q
  <1>3. Free(w) # {} /\ Narrows(v, w, K)
    BY <1>1, SameNarrows DEF Free
  <1>4. Slot(w) \in Slots /\ w.calls[Slot(w)].pc # "arming"
    BY <1>3, SlotFree
  <1>5. Narrows(w, Reapplies(w, "recovery", why), K)
    BY <1>1, <1>3, ReappliesNarrows
  <1>6. Narrows(w, Connects(w, Slot(w), v.active, "recovery", why), K)
    BY <1>1, <1>4, ConnectsNarrows
  <1>7. Narrows(v, v, K) /\ Narrows(v, q, K)
    BY <1>1, SameNarrows
  <1>8. Narrows(v, Reapplies(w, "recovery", why), K)
    BY <1>3, <1>5, NarrowsOn
  <1>9. Narrows(v, Connects(w, Slot(w), v.active, "recovery", why), K)
    BY <1>3, <1>6, NarrowsOn
  <1> QED
    BY <1>2, <1>7, <1>8, <1>9

LEMMA DropNarrows ==
  ASSUME NEW v, Sound(v), NEW K, Free(v) # {}, NEW why, NEW reported, NEW w \in Drop(v, why, reported)
  PROVE  Narrows(v, w, K)
  <1>1. \A x : [v EXCEPT !.queued = x].calls = v.calls /\ [v EXCEPT !.drops = x].calls = v.calls
    BY DEF Sound, Fresh
  <1>2. [v EXCEPT !.timer = why, !.shown = FALSE].calls = v.calls
    BY DEF Sound, Fresh
  <1>3. w = Attempt(v, why) \/ w.calls = v.calls
    BY <1>1, <1>2 DEF Drop
  <1> QED
    BY <1>3, AttemptNarrows, SameNarrows

LEMMA HandOverNarrows == ASSUME NEW v, Sound(v), NEW K PROVE Narrows(v, HandOver(v), K)
  <1>1. \A x : [v EXCEPT !.queued = x].calls = v.calls
    BY DEF Sound, Fresh
  <1>2. [v EXCEPT !.timer = "gateway-failed", !.shown = FALSE].calls = v.calls
    BY DEF Sound, Fresh
  <1> QED
    BY <1>1, <1>2, SameNarrows DEF HandOver

LEMMA UnlocksNarrows ==
  ASSUME NEW v, Sound(v), NEW K, Free(v) # {}, NEW reset, NEW w \in Unlocks(v, reset)
  PROVE  Narrows(v, w, K)
  <1> DEFINE u == [v EXCEPT !.recovering = FALSE, !.queued = "none"]
  <1>1. Sound(u) /\ u.calls = v.calls
    BY DEF Sound, Fresh
  <1>2. w = v \/ w = u \/ w = HandOver(u) \/ w \in Drop(u, v.queued, FALSE)
    BY DEF Unlocks
  <1> HIDE DEF u
  <1>3. Free(u) # {} /\ Narrows(v, u, K) /\ Narrows(v, v, K)
    BY <1>1, SameNarrows DEF Free
  <1>4. Narrows(u, HandOver(u), K)
    BY <1>1, HandOverNarrows
  <1>5. w \in Drop(u, v.queued, FALSE) => Narrows(u, w, K)
    BY <1>1, <1>3, DropNarrows
  <1> QED
    BY <1>2, <1>3, <1>4, <1>5, NarrowsOn

LEMMA RetriesCalls == ASSUME NEW v, Sound(v), NEW c, NEW how PROVE Retries(v, c, how).calls = v.calls
  BY DEF Retries, Sound, Fresh

LEMMA EndsNarrows ==
  ASSUME NEW v, Sound(v), NEW K, NEW s \in Slots, s \notin K \/ v.calls[s].pc # "arming", NEW how, Ends(v, s, how)
  PROVE  Narrows(v, svc', K)
  <1> DEFINE c == v.calls[s]
             drops == {[d EXCEPT !.on = @ \ {s}] : d \in v.drops}
             w == [v EXCEPT !.calls[s] = Idle, !.drops = drops]
             r == Retries(w, c, how)
             b == [w EXCEPT !.boot = "due"]
  <1>1. Sound(w) /\ w.calls = [v.calls EXCEPT ![s] = Idle]
    BY IdleKnown DEF Sound, Fresh
  <1>2. svc' \in Unlocks(r, c.reset) \/ svc' \in {b, w, HandOver(w)}
    BY DEF Ends
  <1> HIDE DEF w, c
  <1>3. b.calls = w.calls
    BY <1>1 DEF Sound, Fresh
  <1> HIDE DEF b
  <1>4. Sound(r) /\ r.calls = w.calls
    BY <1>1, RetriesSound, RetriesCalls
  <1> HIDE DEF r
  <1>5. Narrows(v, w, K)
    BY <1>1, CallNarrows DEF Idle, Building, After
  <1>6. Free(r) # {}
    BY <1>1, <1>4 DEF Free, Sound, Idle
  <1>7. Narrows(v, r, K)
    BY <1>5, <1>4, SameNarrows, NarrowsOn
  <1>8. svc' \in Unlocks(r, c.reset) => Narrows(r, svc', K)
    BY <1>6, <1>4, UnlocksNarrows
  <1>9. svc' \in {b, w} => Narrows(v, svc', K)
    BY <1>3, <1>5, SameNarrows, NarrowsOn
  <1>10. Narrows(w, HandOver(w), K)
    BY <1>1, HandOverNarrows
  <1> QED
    BY <1>2, <1>5, <1>7, <1>8, <1>9, <1>10, NarrowsOn

(* Where a call that is under way may go to. *)
Onward(from, to) ==
  /\ to \in Building => from \in Building
  /\ to \in After => from \in After

LEMMA GoesNarrows ==
  ASSUME NEW v, Sound(v), NEW K, NEW s \in Slots, s \notin K \/ v.calls[s].pc # "arming", NEW pc,
         Onward(v.calls[s].pc, pc), Goes(v, s, pc)
  PROVE  Narrows(v, svc', K)
  <1> DEFINE c == [v.calls[s] EXCEPT !.pc = pc]
  <1>1. svc' = [v EXCEPT !.calls[s] = c]
    BY DEF Goes
  <1>2. c.pc = pc /\ c.stale = v.calls[s].stale
    BY DEF Sound, Known, Idle
  <1> HIDE DEF c
  <1>3. svc'.calls = [v.calls EXCEPT ![s] = c]
    BY <1>1 DEF Sound, Fresh
  <1> QED
    BY <1>2, <1>3, CallNarrows DEF Onward

(* A call that stays where it is. *)
LEMMA StaysNarrows ==
  ASSUME NEW v, Sound(v), NEW K, NEW s \in Slots, NEW c, c.pc = v.calls[s].pc, c.stale = v.calls[s].stale,
         NEW w, w.calls = [v.calls EXCEPT ![s] = c]
  PROVE  w.calls[s].pc = v.calls[s].pc /\ Narrows(v, w, K)
  <1>1. \A t \in Slots : w.calls[t].pc = v.calls[t].pc /\ w.calls[t].stale = v.calls[t].stale
    BY DEF Sound
  <1>2. Current(w) = Current(v)
    BY <1>1 DEF Current
  <1>3. Told(w) = Told(v)
    BY <1>1, <1>2 DEF Told, Current
  <1> QED
    BY <1>1, <1>2, <1>3 DEF Narrows

LEMMA WaitsNarrows ==
  ASSUME NEW v, Sound(v), NEW K, NEW s \in Slots, NEW x
  PROVE  LET w == [v EXCEPT !.calls[s].waits = x] IN w.calls[s].pc = v.calls[s].pc /\ Narrows(v, w, K)
  <1> DEFINE c == [v.calls[s] EXCEPT !.waits = x]
             w == [v EXCEPT !.calls[s].waits = x]
  <1>1. w.calls = [v.calls EXCEPT ![s] = c]
    BY DEF Sound, Fresh
  <1>2. c.pc = v.calls[s].pc /\ c.stale = v.calls[s].stale
    BY DEF Sound, Known, Idle
  <1> HIDE DEF c, w
  <1>3. w.calls[s].pc = v.calls[s].pc /\ Narrows(v, w, K)
    BY <1>1, <1>2, StaysNarrows
  <1> QED
    BY <1>3 DEF w

LEMMA GivesWayNarrows ==
  ASSUME NEW v, Sound(v), NEW K, NEW s \in Slots, s \notin K \/ v.calls[s].pc # "arming", GivesWay(v, s)
  PROVE  Narrows(v, svc', K)
  <1>1. CASE v.lastIsOff /\ v.core = s
    <2> DEFINE w == [v EXCEPT !.calls[s].waits = s]
    <2>1. Goes(w, s, "giveWay")
      BY <1>1 DEF GivesWay
    <2>2. Sound(w) /\ w.calls[s].pc = v.calls[s].pc /\ Narrows(v, w, K)
      BY WaitsSet, WaitsNarrows
    <2> HIDE DEF w
    <2>3. Narrows(w, svc', K)
      BY <2>1, <2>2, GoesNarrows DEF Onward, Building, After
    <2> QED
      BY <2>2, <2>3, NarrowsOn
  <1>2. CASE ~(v.lastIsOff /\ v.core = s)
    BY <1>2, EndsNarrows DEF GivesWay
  <1> QED
    BY <1>1, <1>2

-----------------------------------------------------------------------------
(* The steps of a call. *)

\* Whoever takes a step is not one that waits for its pass.
Moves(s, K) == s \notin K \/ svc.calls[s].pc # "arming"

LEMMA PreparedNarrows == ASSUME Sound(svc), NEW K, NEW s \in Slots, Prepared(s) PROVE Narrows(svc, svc', K)
  <1>1. svc.calls[s].pc = "prep"
    BY DEF Prepared, At
  <1>2. CASE \E how : Ends(svc, s, how)
    BY <1>1, <1>2, EndsNarrows
  <1>3. CASE \E t : Goes([svc EXCEPT !.tun = t, !.calls[s].mine = t, !.shown = FALSE], s, "check")
    <2>1. PICK t : Goes([svc EXCEPT !.tun = t, !.calls[s].mine = t, !.shown = FALSE], s, "check")
      BY <1>3
    <2> DEFINE c == [svc.calls[s] EXCEPT !.mine = t]
               u == [svc EXCEPT !.tun = t, !.shown = FALSE]
               w == [u EXCEPT !.calls[s] = c]
    <2>2. Known(c) /\ c.pc = svc.calls[s].pc /\ c.stale = svc.calls[s].stale
      BY DEF Sound, Known, Idle
    <2>3. Sound(u) /\ u.calls = svc.calls
      BY DEF Sound, Fresh
    <2>4. [svc EXCEPT !.tun = t, !.calls[s].mine = t, !.shown = FALSE] = w
      BY DEF Sound, Fresh
    <2> HIDE DEF c, u
    <2>5. Sound(w) /\ w.calls = [svc.calls EXCEPT ![s] = c]
      BY <2>2, <2>3, CallSet DEF Sound, Fresh
    <2> HIDE DEF w
    <2>6. w.calls[s].pc = "prep" /\ Narrows(svc, w, K)
      BY <1>1, <2>2, <2>5, StaysNarrows
    <2>7. Narrows(w, svc', K)
      BY <2>1, <2>4, <2>5, <2>6, GoesNarrows DEF Onward, Building, After
    <2> QED
      BY <2>6, <2>7, NarrowsOn
  <1> QED
    BY <1>2, <1>3 DEF Prepared, NotBuilt

LEMMA CheckedNarrows == ASSUME Sound(svc), NEW K, NEW s \in Slots, Checked(s) PROVE Narrows(svc, svc', K)
  <1>1. svc.calls[s].pc = "check"
    BY DEF Checked, At
  <1>2. CASE \E how : Ends(svc, s, how)
    BY <1>1, <1>2, EndsNarrows
  <1>3. CASE Goes([svc EXCEPT !.core = s], s, "grace")
    <2> DEFINE w == [svc EXCEPT !.core = s]
    <2>1. Sound(w) /\ w.calls = svc.calls
      BY DEF Sound, Fresh
    <2> HIDE DEF w
    <2>2. Narrows(svc, w, K) /\ Narrows(w, svc', K)
      BY <1>1, <1>3, <2>1, SameNarrows, GoesNarrows DEF Onward, Building, After, w
    <2> QED
      BY <2>2, NarrowsOn
  <1>4. CASE Goes([svc EXCEPT !.calls[s].waits = svc.core], s, "spawn")
    <2> DEFINE w == [svc EXCEPT !.calls[s].waits = svc.core]
    <2>1. Sound(w) /\ w.calls[s].pc = "check" /\ Narrows(svc, w, K)
      BY <1>1, WaitsSet, WaitsNarrows
    <2> HIDE DEF w
    <2>2. Narrows(w, svc', K)
      BY <1>4, <2>1, GoesNarrows DEF Onward, Building, After, w
    <2> QED
      BY <2>1, <2>2, NarrowsOn
  <1> QED
    BY <1>2, <1>3, <1>4 DEF Checked, NotBuilt

LEMMA SpawnedNarrows == ASSUME Sound(svc), NEW K, NEW s \in Slots, Spawned(s) PROVE Narrows(svc, svc', K)
  <1> DEFINE v == CoreGone(svc, svc.calls[s].waits)
             w == [v EXCEPT !.core = s]
  <1>1. svc.calls[s].pc = "spawn" /\ Goes(w, s, "grace")
    BY DEF Spawned, At
  <1>2. Sound(v) /\ v.calls = svc.calls
    BY CoreGoneSound
  <1> HIDE DEF v
  <1>3. Sound(w) /\ w.calls = svc.calls
    BY <1>2 DEF Sound, Fresh
  <1> HIDE DEF w
  <1>4. Narrows(svc, w, K) /\ Narrows(w, svc', K)
    BY <1>1, <1>3, SameNarrows, GoesNarrows DEF Onward, Building, After
  <1> QED
    BY <1>4, NarrowsOn

(* A start that comes too late; one past its grace is dealt with below. *)
LEMMA StartedNarrows ==
  ASSUME Sound(svc), NEW K, NEW s \in Slots, Started(s), svc.core # s \/ Stale(s)
  PROVE  Narrows(svc, svc', K) /\ UNCHANGED ksVars
  <1>1. svc.calls[s].pc = "grace"
    BY DEF Started, At
  <1>2. ((\E how : Ends(svc, s, how)) \/ GivesWay(svc, s)) /\ UNCHANGED ksVars
    BY DEF Started, KsRest
  <1> QED
    BY <1>1, <1>2, EndsNarrows, GivesWayNarrows

LEMMA ArmedForNarrows ==
  ASSUME Sound(svc), NEW K, NEW s \in Slots, s \notin K, ArmedFor(s)
  PROVE  Narrows(svc, svc', K)
  <1>1. svc.calls[s].pc = "arming"
    BY DEF ArmedFor, At
  <1>2. CASE GivesWay(svc, s)
    BY <1>2, GivesWayNarrows
  <1>3. CASE Goes(svc, s, "port")
    BY <1>1, <1>3, GoesNarrows DEF Onward, Building, After
  <1>4. CASE \E t : Goes([svc EXCEPT !.gateways[t] = "down"], s, "gwDown")
    <2>1. PICK t : Goes([svc EXCEPT !.gateways[t] = "down"], s, "gwDown")
      BY <1>4
    <2> DEFINE w == [svc EXCEPT !.gateways[t] = "down"]
    <2>2. Sound(w) /\ w.calls = svc.calls
      BY DEF Sound, Fresh
    <2> HIDE DEF w
    <2>3. Narrows(svc, w, K) /\ Narrows(w, svc', K)
      BY <1>1, <2>1, <2>2, SameNarrows, GoesNarrows DEF Onward, Building, After, w
    <2> QED
      BY <2>3, NarrowsOn
  <1> QED
    BY <1>2, <1>3, <1>4 DEF ArmedFor

LEMMA GatewayDownNarrows == ASSUME Sound(svc), NEW K, NEW s \in Slots, GatewayDown(s) PROVE Narrows(svc, svc', K)
  BY GoesNarrows DEF GatewayDown, At, Onward, Building, After

LEMMA PortOpenNarrows == ASSUME Sound(svc), NEW K, NEW s \in Slots, PortOpen(s) PROVE Narrows(svc, svc', K)
  <1> DEFINE r == ReportedDeath(svc)
             w == [r EXCEPT !.calls[s].waits = svc.core]
  <1>1. svc.calls[s].pc = "port"
    BY DEF PortOpen, At
  <1>2. CASE GivesWay(svc, s)
    BY <1>1, <1>2, GivesWayNarrows
  <1>3. CASE Goes(w, s, "abortCore")
    <2>1. Sound(r) /\ r.calls = svc.calls
      BY DEF ReportedDeath, Sound, Fresh
    <2> HIDE DEF r
    <2>2. Sound(w) /\ w.calls[s].pc = "port" /\ Narrows(r, w, K)
      BY <1>1, <2>1, WaitsSet, WaitsNarrows
    <2> HIDE DEF w
    <2>3. Narrows(svc, r, K) /\ Narrows(w, svc', K)
      BY <1>3, <2>1, <2>2, SameNarrows, GoesNarrows DEF Onward, Building, After
    <2> QED
      BY <2>2, <2>3, NarrowsOn
  <1>4. CASE \E t, g : Goes([svc EXCEPT !.gateways[t] = g], s, "gateway")
    <2>1. PICK t, g : Goes([svc EXCEPT !.gateways[t] = g], s, "gateway")
      BY <1>4
    <2> DEFINE u == [svc EXCEPT !.gateways[t] = g]
    <2>2. Sound(u) /\ u.calls = svc.calls
      BY DEF Sound, Fresh
    <2> HIDE DEF u
    <2>3. Narrows(svc, u, K) /\ Narrows(u, svc', K)
      BY <1>1, <2>1, <2>2, SameNarrows, GoesNarrows DEF Onward, Building, After, u
    <2> QED
      BY <2>3, NarrowsOn
  <1> QED
    BY <1>2, <1>3, <1>4 DEF PortOpen

LEMMA ConnectedNarrows ==
  ASSUME NEW v, Sound(v), NEW K, NEW s \in Slots, v.calls[s].pc # "arming", Connected(v, s)
  PROVE  Narrows(v, svc', K)
  <1> DEFINE w == Shows(v)
  <1>1. Ends(w, s, "ok")
    BY DEF Connected, Shows
  <1>2. Sound(w) /\ w.calls = v.calls
    BY ShowsSound
  <1> HIDE DEF w
  <1>3. Narrows(v, w, K) /\ Narrows(w, svc', K)
    BY <1>1, <1>2, SameNarrows, EndsNarrows
  <1> QED
    BY <1>3, NarrowsOn

LEMMA GatewayStartedNarrows == ASSUME Sound(svc), NEW K, NEW s \in Slots, GatewayStarted(s) PROVE Narrows(svc, svc', K)
  <1> DEFINE t == svc.calls[s].mine
             up == [svc EXCEPT !.gateways[t] = "up"]
             late == [up EXCEPT !.gateways[t] = "down"]
             down == [svc EXCEPT !.gateways[t] = "down"]
             gone == [down EXCEPT !.calls[s].waits = svc.core]
  <1>1. svc.calls[s].pc = "gateway"
    BY DEF GatewayStarted, At
  <1>2. \A v, g : Sound(v) => Sound([v EXCEPT !.gateways[t] = g]) /\ [v EXCEPT !.gateways[t] = g].calls = v.calls
    BY DEF Sound, Fresh
  <1>3. Goes(late, s, "lateStop") \/ Connected(up, s) \/ GivesWay(down, s) \/ Goes(gone, s, "abortCore")
    <2>1. down.core = svc.core
      BY DEF Sound, Fresh
    <2> QED
      BY <2>1 DEF GatewayStarted
  <1> HIDE DEF t
  <1>4. Sound(up) /\ up.calls = svc.calls /\ Sound(down) /\ down.calls = svc.calls
    BY <1>2
  <1> HIDE DEF up, down
  <1>5. Sound(late) /\ late.calls = svc.calls
    BY <1>2, <1>4
  <1>6. Sound(gone) /\ gone.calls[s].pc = "gateway" /\ Narrows(down, gone, K)
    BY <1>1, <1>4, WaitsSet, WaitsNarrows
  <1> HIDE DEF late, gone
  <1>7. Narrows(svc, up, K) /\ Narrows(svc, down, K) /\ Narrows(svc, late, K)
    BY <1>4, <1>5, SameNarrows
  <1>8. Narrows(svc, gone, K)
    BY <1>6, <1>7, NarrowsOn
  <1>9. CASE Goes(late, s, "lateStop")
    <2>1. Narrows(late, svc', K)
      BY <1>1, <1>5, <1>9, GoesNarrows DEF Onward, Building, After
    <2> QED
      BY <1>7, <2>1, NarrowsOn
  <1>10. CASE Connected(up, s)
    <2>1. Narrows(up, svc', K)
      BY <1>1, <1>4, <1>10, ConnectedNarrows
    <2> QED
      BY <1>7, <2>1, NarrowsOn
  <1>11. CASE GivesWay(down, s)
    <2>1. Narrows(down, svc', K)
      BY <1>1, <1>4, <1>11, GivesWayNarrows
    <2> QED
      BY <1>7, <2>1, NarrowsOn
  <1>12. CASE Goes(gone, s, "abortCore")
    <2>1. Narrows(gone, svc', K)
      BY <1>6, <1>12, GoesNarrows DEF Onward, Building, After
    <2> QED
      BY <1>8, <2>1, NarrowsOn
  <1> QED
    BY <1>3, <1>9, <1>10, <1>11, <1>12

LEMMA LateStoppedNarrows == ASSUME Sound(svc), NEW K, NEW s \in Slots, LateStopped(s) PROVE Narrows(svc, svc', K)
  BY GivesWayNarrows DEF LateStopped, At

(* What a core that is stopped leaves. *)
LEMMA CoreGoneNarrows ==
  ASSUME NEW v, Sound(v), NEW K, NEW c
  PROVE  LET w == CoreGone(v, c) IN Sound(w) /\ w.calls = v.calls /\ Narrows(v, w, K)
  BY CoreGoneSound, SameNarrows

LEMMA GaveWayNarrows == ASSUME Sound(svc), NEW K, NEW s \in Slots, GaveWay(s) PROVE Narrows(svc, svc', K)
  <1> DEFINE w == CoreGone(svc, svc.calls[s].waits)
  <1>1. svc.calls[s].pc = "giveWay" /\ Ends(w, s, "stale")
    BY DEF GaveWay, At
  <1>2. Sound(w) /\ w.calls = svc.calls /\ Narrows(svc, w, K)
    BY CoreGoneNarrows
  <1> HIDE DEF w
  <1>3. Narrows(w, svc', K)
    BY <1>1, <1>2, EndsNarrows
  <1> QED
    BY <1>2, <1>3, NarrowsOn

LEMMA AbortedNarrows == ASSUME Sound(svc), NEW K, NEW s \in Slots, Aborted(s) PROVE Narrows(svc, svc', K)
  <1> DEFINE c == svc.calls[s]
             v == CoreGone(svc, c.waits)
             on == [v EXCEPT !.active = c.id]
             off == GivesUp(v)
  <1>1. c.pc = "abortCore" /\ c.id \in Ids
    BY DEF Aborted, At, Sound, Known
  <1>2. Sound(v) /\ v.calls = svc.calls /\ Narrows(svc, v, K)
    BY CoreGoneNarrows
  <1>3. GivesWay(v, s) \/ Ends(on, s, "failed") \/ Ends(off, s, "failed")
    BY DEF Aborted, GivesUp
  <1> HIDE DEF v
  <1>4. Sound(off) /\ off.calls = v.calls
    BY <1>2, GivesUpSound
  <1>5. Sound(on) /\ on.calls = v.calls
    BY <1>1, <1>2, ActiveSet DEF Sound, Fresh
  <1> HIDE DEF on, off
  <1>6. Narrows(svc, on, K) /\ Narrows(svc, off, K)
    BY <1>2, <1>4, <1>5, SameNarrows
  <1>7. CASE GivesWay(v, s)
    <2>1. Narrows(v, svc', K)
      BY <1>1, <1>2, <1>7, GivesWayNarrows
    <2> QED
      BY <1>2, <2>1, NarrowsOn
  <1>8. CASE Ends(on, s, "failed")
    <2>1. Narrows(on, svc', K)
      BY <1>1, <1>2, <1>5, <1>8, EndsNarrows
    <2> QED
      BY <1>6, <2>1, NarrowsOn
  <1>9. CASE Ends(off, s, "failed")
    <2>1. Narrows(off, svc', K)
      BY <1>1, <1>2, <1>4, <1>9, EndsNarrows
    <2> QED
      BY <1>6, <2>1, NarrowsOn
  <1> QED
    BY <1>3, <1>7, <1>8, <1>9

LEMMA TunsTornNarrows == ASSUME Sound(svc), NEW K, NEW s \in Slots, TunsTorn(s) PROVE Narrows(svc, svc', K)
  <1> DEFINE w == [svc EXCEPT !.calls[s].waits = svc.core]
  <1>1. svc.calls[s].pc = "tearTuns" /\ Goes(w, s, "tearCore")
    BY DEF TunsTorn, At
  <1>2. Sound(w) /\ w.calls[s].pc = "tearTuns" /\ Narrows(svc, w, K)
    BY <1>1, WaitsSet, WaitsNarrows
  <1> HIDE DEF w
  <1>3. Narrows(w, svc', K)
    BY <1>1, <1>2, GoesNarrows DEF Onward, Building, After
  <1> QED
    BY <1>2, <1>3, NarrowsOn

LEMMA CoreTornNarrows == ASSUME Sound(svc), NEW K, NEW s \in Slots, CoreTorn(s) PROVE Narrows(svc, svc', K)
  <1> DEFINE c == svc.calls[s]
             v == CoreGone(svc, c.waits)
  <1>1. c.pc = "tearCore" /\ (Ends(v, s, "stale") \/ svc' = Connects(v, s, c.id, c.by, c.why))
    BY DEF CoreTorn, At
  <1>2. Sound(v) /\ v.calls = svc.calls /\ Narrows(svc, v, K)
    BY CoreGoneNarrows
  <1> HIDE DEF v
  <1>3. Narrows(v, svc', K)
    BY <1>1, <1>2, EndsNarrows, ConnectsNarrows
  <1> QED
    BY <1>2, <1>3, NarrowsOn

LEMMA CallNarrowsAll ==
  ASSUME Sound(svc), NEW K, NEW s \in Slots, Moves(s, K), CallSteps(s), ~Started(s) \/ svc.core # s \/ Stale(s)
  PROVE  Narrows(svc, svc', K)
  <1>1. ASSUME ArmedFor(s) PROVE s \notin K
    BY <1>1 DEF Moves, ArmedFor, At
  <1> QED
    BY <1>1, PreparedNarrows, CheckedNarrows, SpawnedNarrows, StartedNarrows, ArmedForNarrows, GatewayDownNarrows,
       PortOpenNarrows, GatewayStartedNarrows, LateStoppedNarrows, GaveWayNarrows, AbortedNarrows, TunsTornNarrows,
       CoreTornNarrows DEF CallSteps

-----------------------------------------------------------------------------
(* The user's commands, and what happens by itself. *)
LEMMA ConnectNarrows == ASSUME Sound(svc), NEW K, NEW id \in Ids, Connect(id) PROVE Narrows(svc, svc', K)
  <1> DEFINE v == [EndsPending(svc) EXCEPT !.bootCancelled = TRUE, !.rebuilt = FALSE]
  <1>1. /\ Free(svc) # {} /\ svc' = (IF AlreadyUp(v, id) THEN v ELSE Connects(v, Slot(v), id, "connect", "none"))
    BY DEF Connect, HasRoom
  <1>2. Sound(v) /\ v.calls = svc.calls
    <2> DEFINE u == EndsPending(svc)
    <2>1. Sound(u) /\ u.calls = svc.calls
      BY EndsPendingSound DEF EndsPending, Sound, Fresh
    <2>2. v = [u EXCEPT !.bootCancelled = TRUE, !.rebuilt = FALSE]
      OBVIOUS
    <2> HIDE DEF u, v
    <2> QED
      BY <2>1, <2>2 DEF Sound, Fresh
  <1> HIDE DEF v
  <1>3. Free(v) # {}
    BY <1>1, <1>2 DEF Free
  <1>4. Narrows(v, Connects(v, Slot(v), id, "connect", "none"), K)
    BY <1>2, <1>3, SlotFree, ConnectsNarrows
  <1>5. Narrows(svc, v, K)
    BY <1>2, SameNarrows
  <1> QED
    BY <1>1, <1>4, <1>5, NarrowsOn

LEMMA ReconnectNarrows == ASSUME Sound(svc), NEW K, Reconnect PROVE Narrows(svc, svc', K)
  <1> DEFINE v == EndsPending(svc)
  <1>1. Free(svc) # {} /\ (svc' = HandOver(v) \/ svc' = Reapplies(v, "reapply", "none"))
    BY DEF Reconnect, HasRoom, Refused
  <1>2. Sound(v) /\ v.calls = svc.calls
    BY EndsPendingSound DEF EndsPending, Sound, Fresh
  <1> HIDE DEF v
  <1>3. Free(v) # {} /\ Narrows(svc, v, K)
    BY <1>1, <1>2, SameNarrows DEF Free
  <1>4. Narrows(v, svc', K)
    BY <1>1, <1>2, <1>3, HandOverNarrows, ReappliesNarrows
  <1> QED
    BY <1>3, <1>4, NarrowsOn

LEMMA DisconnectNarrows == ASSUME Sound(svc), NEW K, Disconnect PROVE Narrows(svc, svc', K)
  <1>1. svc'.calls = svc.calls
    BY DEF Disconnect, Sound, Fresh
  <1> QED
    BY <1>1, SameNarrows

LEMMA TearsDownNarrows == ASSUME Sound(svc), NEW K, TearsDown PROVE Narrows(svc, svc', K)
  <1> DEFINE b == Bumped(svc)
             r == Resets(b)
             w == StopsWatching(r)
  <1>1. Sound(b) /\ Current(b) = {} /\ Narrows(svc, b, K)
    BY BumpedSound, BumpedNarrows
  <1>2. svc' = [w EXCEPT !.lastIsOff = TRUE, !.rebuilt = FALSE, !.off = "tuns", !.gateways = StopTuns(w.gateways)]
    BY DEF TearsDown
  <1> HIDE DEF b
  <1>3. /\ r = [f \in DOMAIN Fresh |-> r[f]]
        /\ \A s \in Slots : r.calls[s].pc = b.calls[s].pc /\ r.calls[s].stale = b.calls[s].stale
    <2> DEFINE calls == [s \in Slots |-> IF b.calls[s].by = "recovery" THEN [b.calls[s] EXCEPT !.reset = TRUE] ELSE b.calls[s]]
    <2>1. \A s \in Slots : calls[s].pc = b.calls[s].pc /\ calls[s].stale = b.calls[s].stale
      BY <1>1 DEF Sound, Known, Idle
    <2>2. r = [b EXCEPT !.recovering = FALSE, !.calls = calls]
      BY DEF Resets
    <2> HIDE DEF calls, r
    <2> QED
      BY <1>1, <2>1, <2>2 DEF Sound, Fresh
  <1> HIDE DEF r
  <1>4. w = [f \in DOMAIN Fresh |-> w[f]] /\ w.calls = r.calls
    BY <1>3, Fields DEF StopsWatching
  <1> HIDE DEF w
  <1>5. svc'.calls = w.calls
    BY <1>2, <1>4 DEF Fresh
  <1>6. \A s \in Slots : svc'.calls[s].pc = b.calls[s].pc /\ svc'.calls[s].stale = b.calls[s].stale
    BY <1>3, <1>4, <1>5
  <1>7. Current(svc') = {}
    BY <1>1, <1>6 DEF Current
  <1>8. Narrows(b, svc', K)
    BY <1>6, <1>7 DEF Narrows, Told
  <1> QED
    BY <1>1, <1>8, NarrowsOn

LEMMA StopsCoreNarrows == ASSUME Sound(svc), NEW K, StopsCore PROVE Narrows(svc, svc', K)
  <1>1. svc'.calls = svc.calls
    BY DEF StopsCore, Sound, Fresh
  <1> QED
    BY <1>1, SameNarrows

LEMMA IsDownNarrows == ASSUME Sound(svc), NEW K, IsDown PROVE Narrows(svc, svc', K)
  <1> DEFINE v == CoreGone(svc, svc.offWaits)
  <1>1. Sound(v) /\ v.calls = svc.calls
    BY CoreGoneSound
  <1>2. svc' = [v EXCEPT !.off = "none", !.offWaits = NoSlot, !.active = NoId, !.shown = FALSE]
    BY DEF IsDown
  <1> HIDE DEF v
  <1>3. svc'.calls = svc.calls
    BY <1>1, <1>2 DEF Sound, Fresh
  <1> QED
    BY <1>3, SameNarrows

LEMMA BootConnectNarrows == ASSUME Sound(svc), NEW K, BootConnect PROVE Narrows(svc, svc', K)
  <1> DEFINE v == [svc EXCEPT !.boot = "none"]
  <1>1. Free(svc) # {} /\ svc' \in {v, Connects(v, Slot(v), intent, "boot", "none")}
    BY DEF BootConnect, HasRoom
  <1>2. Sound(v) /\ v.calls = svc.calls
    BY Elsewhere DEF Sound, Fresh
  <1> HIDE DEF v
  <1>3. Free(v) # {} /\ Narrows(svc, v, K)
    BY <1>1, <1>2, SameNarrows DEF Free
  <1>4. Narrows(v, Connects(v, Slot(v), intent, "boot", "none"), K)
    BY <1>2, <1>3, SlotFree, ConnectsNarrows
  <1> QED
    BY <1>1, <1>3, <1>4, NarrowsOn

LEMMA CoreDiesNarrows == ASSUME Sound(svc), NEW K, CoreDies PROVE Narrows(svc, svc', K)
  <1> DEFINE v == CoreGone(svc, svc.core)
  <1>1. Sound(v) /\ v.calls = svc.calls
    BY CoreGoneSound
  <1>2. svc' = v \/ \E ds : svc' = [v EXCEPT !.drops = ds]
    BY DEF CoreDies
  <1> HIDE DEF v
  <1>3. svc'.calls = svc.calls
    BY <1>1, <1>2 DEF Sound, Fresh
  <1> QED
    BY <1>3, SameNarrows

(* A drop is taken where a field beside the calls has changed. *)
LEMMA DroppedNarrows ==
  ASSUME NEW v, Sound(v), NEW K, Free(v) # {}, NEW u, Sound(u), u.calls = v.calls, NEW why, NEW reported,
         NEW w, w = u \/ w \in Drop(u, why, reported)
  PROVE  Narrows(v, w, K)
  <1>1. Free(u) # {} /\ Narrows(v, u, K)
    BY SameNarrows DEF Free
  <1>2. w = u \/ Narrows(u, w, K)
    BY <1>1, DropNarrows
  <1> QED
    BY <1>1, <1>2, NarrowsOn

LEMMA GatewayDiesNarrows == ASSUME Sound(svc), NEW K, GatewayDies PROVE Narrows(svc, svc', K)
  <1>1. PICK t \in Slots : LET v == [svc EXCEPT !.gateways[t] = "down"] IN
          svc' \in IF Disconnecting(v) \/ v.tun # t THEN {v} ELSE Drop(v, "tunnel-exited", FALSE)
    BY DEF GatewayDies
  <1> DEFINE v == [svc EXCEPT !.gateways[t] = "down"]
  <1>2. Sound(v) /\ v.calls = svc.calls /\ Free(svc) # {}
    BY DEF Sound, Fresh, GatewayDies, HasRoom
  <1>3. svc' = v \/ svc' \in Drop(v, "tunnel-exited", FALSE)
    BY <1>1
  <1> HIDE DEF v
  <1> QED
    BY <1>2, <1>3, DroppedNarrows

LEMMA DropTakenNarrows == ASSUME Sound(svc), NEW K, DropTaken PROVE Narrows(svc, svc', K)
  <1>1. PICK d \in svc.drops : LET v == [svc EXCEPT !.drops = svc.drops \ {d}] IN
          svc' \in IF d.waited /\ (Disconnecting(v) \/ BroughtBack(v, d)) THEN {v} ELSE Drop(v, d.why, d.reported)
    BY DEF DropTaken
  <1> DEFINE v == [svc EXCEPT !.drops = svc.drops \ {d}]
  <1>2. Sound(v) /\ v.calls = svc.calls /\ Free(svc) # {}
    BY Elsewhere DEF Sound, Fresh, DropTaken, HasRoom
  <1>3. svc' = v \/ svc' \in Drop(v, d.why, d.reported)
    BY <1>1
  <1> HIDE DEF v
  <1> QED
    BY <1>2, <1>3, DroppedNarrows

LEMMA TimerFiresNarrows == ASSUME Sound(svc), NEW K, TimerFires PROVE Narrows(svc, svc', K)
  <1> DEFINE v == [svc EXCEPT !.timer = "none"]
  <1>1. Sound(v) /\ v.calls = svc.calls /\ Free(svc) # {} /\ svc' = Attempt(v, svc.timer)
    BY Elsewhere DEF Sound, Fresh, TimerFires, HasRoom, Fires
  <1> HIDE DEF v
  <1>2. Free(v) # {} /\ Narrows(svc, v, K)
    BY <1>1, SameNarrows DEF Free
  <1>3. Narrows(v, svc', K)
    BY <1>1, <1>2, AttemptNarrows
  <1> QED
    BY <1>2, <1>3, NarrowsOn

LEMMA WanNarrows == ASSUME Sound(svc), NEW K, WanChanges \/ WanJudged PROVE Narrows(svc, svc', K)
  <1>1. \A x : LET w == [svc EXCEPT !.judge = x] IN Sound(w) /\ w.calls = svc.calls
    BY Elsewhere DEF Sound, Fresh
  <1> DEFINE v == [svc EXCEPT !.judge = "none"]
  <1>2. \/ svc'.calls = svc.calls
        \/ Free(svc) # {} /\ svc' = Attempt(v, "wan-changed")
    BY <1>1 DEF WanChanges, WanJudged, HasRoom
  <1>3. Sound(v) /\ v.calls = svc.calls
    BY <1>1
  <1> HIDE DEF v
  <1>4. CASE svc'.calls = svc.calls
    BY <1>4, SameNarrows
  <1>5. CASE Free(svc) # {} /\ svc' = Attempt(v, "wan-changed")
    <2>1. Free(v) # {} /\ Narrows(svc, v, K)
      BY <1>3, <1>5, SameNarrows DEF Free
    <2>2. Narrows(v, svc', K)
      BY <1>3, <1>5, <2>1, AttemptNarrows
    <2> QED
      BY <2>1, <2>2, NarrowsOn
  <1> QED
    BY <1>2, <1>4, <1>5

LEMMA WatchNarrows == ASSUME Sound(svc), NEW K, WatchAsks \/ WatchHears PROVE Narrows(svc, svc', K)
  <1> DEFINE missed == [svc EXCEPT !.watch = "armed", !.misses = 1 - svc.misses]
             again == [missed EXCEPT !.gap = TRUE]
  <1>1. Rearms(svc).calls = svc.calls /\ [svc EXCEPT !.watch = "asking"].calls = svc.calls
    BY DEF Rearms, Sound, Fresh
  <1>2. Sound(missed) /\ missed.calls = svc.calls
    BY DEF Sound, Fresh
  <1>3. \/ svc' \in {Rearms(svc), [svc EXCEPT !.watch = "asking"], missed}
        \/ Free(svc) # {} /\ svc' \in Drop(again, "tunnel-stalled", FALSE)
    BY DEF WatchHears, WatchAsks, HasRoom
  <1> HIDE DEF missed
  <1>4. Sound(again) /\ again.calls = svc.calls
    BY <1>2, Elsewhere DEF Sound, Fresh
  <1> HIDE DEF again
  <1>5. CASE svc' \in {Rearms(svc), [svc EXCEPT !.watch = "asking"], missed}
    <2>1. svc'.calls = svc.calls
      BY <1>1, <1>2, <1>5
    <2> QED
      BY <2>1, SameNarrows
  <1>6. CASE Free(svc) # {} /\ svc' \in Drop(again, "tunnel-stalled", FALSE)
    BY <1>4, <1>6, DroppedNarrows
  <1> QED
    BY <1>3, <1>5, <1>6

LEMMA StallNarrows == ASSUME Sound(svc), NEW K, Stalls \/ GapOver PROVE Narrows(svc, svc', K)
  <1>1. svc'.calls = svc.calls
    BY DEF Stalls, GapOver, Sound, Fresh
  <1> QED
    BY <1>1, SameNarrows

-----------------------------------------------------------------------------
(* No step of the connection spends a flush. *)
LEMMA UsesBudgeted == ASSUME FlushesCounted, NEW e, e # "flush", Uses(e) PROVE Budgeted
  BY DEF FlushesCounted, Uses, Budgeted

LEMMA CallBudgeted == ASSUME FlushesCounted, NEW s \in Slots, CallSteps(s) PROVE Budgeted
  <1>1. CASE UNCHANGED budget
    BY <1>1 DEF Budgeted
  <1>2. CASE Uses("reject") \/ Uses("fail")
    BY <1>2, UsesBudgeted
  <1>3. Prepared(s) \/ Checked(s) \/ GatewayStarted(s) => UNCHANGED budget \/ Uses("reject") \/ Uses("fail")
    BY DEF Prepared, Checked, GatewayStarted, NotBuilt
  <1>4. Spawned(s) \/ Started(s) \/ ArmedFor(s) \/ GatewayDown(s) \/ PortOpen(s) \/ LateStopped(s) \/ GaveWay(s)
          \/ Aborted(s) \/ TunsTorn(s) \/ CoreTorn(s) => UNCHANGED budget
    BY DEF Spawned, Started, ArmedFor, GatewayDown, PortOpen, LateStopped, GaveWay, Aborted, TunsTorn, CoreTorn
  <1> QED
    BY <1>1, <1>2, <1>3, <1>4 DEF CallSteps

LEMMA NextBudgeted == ASSUME FlushesCounted, [Next]_rVars PROVE Budgeted
  <1>1. CASE UNCHANGED budget
    BY <1>1 DEF Budgeted
  <1>2. CASE \E s \in Slots : CallSteps(s)
    BY <1>2, CallBudgeted
  <1>3. CASE Commands
    <2>1. CASE Reconnect
      BY <2>1, UsesBudgeted DEF Reconnect
    <2>2. CASE Disconnect
      BY <2>2, UsesBudgeted DEF Disconnect
    <2>3. CASE SetSwitch
      BY <2>3, <1>1 DEF SetSwitch
    <2>4. CASE SetFollow
      BY <2>4, UsesBudgeted DEF SetFollow
    <2>5. CASE \E id \in Ids : Connect(id)
      BY <2>5, UsesBudgeted DEF Connect
    <2> QED
      BY <1>3, <2>1, <2>2, <2>3, <2>4, <2>5 DEF Commands
  <1>4. CASE Service
    BY <1>1, <1>2, <1>4 DEF Service, TearsDown, StopsCore, IsDown, BootConnect, DropTaken, TimerFires, WanJudged, WatchAsks, WatchHears
  <1>5. CASE World
    <2>1. CASE CoreDies \/ GatewayDies
      BY <2>1, UsesBudgeted DEF CoreDies, GatewayDies
    <2>2. CASE WanChanges \/ Stalls
      BY <2>2, UsesBudgeted DEF WanChanges, Stalls
    <2>3. CASE GapOver \/ Restarted
      BY <2>3, <1>1 DEF GapOver, Restarted
    <2> QED
      BY <1>5, <2>1, <2>2, <2>3 DEF World
  <1>6. CASE SwitchItself \/ UNCHANGED rVars
    BY <1>1, <1>6 DEF SwitchItself, rVars
  <1>7. ASSUME NEW s \in Gone, Started(s) PROVE \E t \in Slots : CallSteps(t)
    BY <1>7 DEF Gone, CallSteps
  <1> QED
    BY <1>2, <1>3, <1>4, <1>5, <1>6, <1>7 DEF Next

-----------------------------------------------------------------------------
\* Who has a pass of its own that has not run out.
Waiting == {s \in Slots : ~Passed(s)}

(* The connection's own steps, the switch left alone. *)
LEMMA CarriesArmed ==
  ASSUME ArmedInv, UNCHANGED ksVars, Budgeted, Narrows(svc, svc', Waiting)
  PROVE  ArmedInv'
  <1>1. FlushesCounted' /\ (Unflushed' <=> Unflushed)
    BY DEF ArmedInv, FlushesCounted, Budgeted, Unflushed, ksVars
  <1>2. LoadedIsThere'
    BY <1>1 DEF ArmedInv, LoadedIsThere, ksVars
  <1>3. \A s : Passed(s)' <=> Passed(s)
    BY DEF Passed, ksVars
  <1>4. \A s : ToCome(s)' <=> ToCome(s)
    BY DEF ToCome, ksVars
  <1>5. \A s : UnderWay(s)' <=> UnderWay(s)
    BY DEF UnderWay, ksVars
  <1>6. \A s : SeesTo(s) => SeesTo(s)'
    BY <1>1, <1>4, <1>5 DEF SeesTo, Want, ksVars, settings, ghosts
  <1>7. WaitsForPass'
    BY <1>3 DEF ArmedInv, WaitsForPass, Narrows, Waiting, At
  <1>8. OneCurrent'
    BY DEF ArmedInv, OneCurrent, Narrows
  <1>9. \A s \in Told(svc') : SeesTo(s)'
    BY <1>6 DEF ArmedInv, Narrows
  <1> QED
    BY <1>1, <1>2, <1>7, <1>8, <1>9 DEF ArmedInv

(* The switch's, the calls left alone. *)
LEMMA BesideArmed ==
  ASSUME ArmedInv, svc'.calls = svc.calls, FlushesCounted', LoadedIsThere',
         \A s : SeesTo(s) => SeesTo(s)', \A s \in Slots : Passed(s) => Passed(s)'
  PROVE  ArmedInv'
  <1>1. Told(svc') = Told(svc) /\ Current(svc') = Current(svc)
    BY DEF Told, Current
  <1>2. WaitsForPass'
    BY DEF ArmedInv, WaitsForPass, At
  <1>3. OneCurrent'
    BY <1>1 DEF ArmedInv, OneCurrent
  <1>4. \A s \in Told(svc') : SeesTo(s)'
    BY <1>1 DEF ArmedInv
  <1> QED
    BY <1>2, <1>3, <1>4 DEF ArmedInv

LEMMA QueueArmed == ASSUME KsInv, ArmedInv, Budgeted, QueueRuns, UNCHANGED svc PROVE ArmedInv'
  <1>1. FlushesCounted' /\ LoadedIsThere' /\ \A s : SeesTo(s) => SeesTo(s)'
    BY PassBeginsSees, CheckSees, LoadSees, ArmedSees, DisarmSees DEF QueueRuns, ArmedInv, Unspent
  <1>2. passes # <<>> /\ (Done \/ UNCHANGED passes)
    BY DEF QueueRuns, PassBegins, Check, Load, Armed, Disarm, Running, Starts
  <1>3. \A s : Passed(s) => Passed(s)'
    BY <1>2, DoneToCome DEF Passed
  <1> QED
    BY <1>1, <1>3, BesideArmed

(* What is asked for by another than a call. *)
LEMMA OthersPasses ==
  ASSUME KsInv, NEW why \in Reasons, NEW by \in {"off", "set", "nobody"}, Queued(why, by), step' = step
  PROVE  \A s \in Slots : Passed(s) => Passed(s)'
  <1>1. by \in Callers \cup {"nobody"} /\ by \notin Slots
    BY RouterAssumption
  <1> QED
    BY <1>1, AppendedToCome

LEMMA ItselfArmed == ASSUME KsInv, ArmedInv, Budgeted, SwitchItself PROVE ArmedInv'
  <1>0. svc' = svc
    BY DEF SwitchItself
  <1>1. CASE QueueRuns
    BY <1>0, <1>1, QueueArmed
  <1>2. CASE Verify
    <2>1. FlushesCounted' /\ LoadedIsThere' /\ \A s : SeesTo(s) => SeesTo(s)'
      BY <1>2, VerifySees DEF ArmedInv, Unspent
    <2>2. \A s \in Slots : Passed(s) => Passed(s)'
      BY <1>2, OthersPasses DEF Verify, Reasons
    <2> QED
      BY <1>0, <2>1, <2>2, BesideArmed
  <1>3. CASE Flushed
    <2>1. FlushesCounted' /\ LoadedIsThere' /\ \A s : SeesTo(s) => SeesTo(s)'
      BY <1>3, FlushedSees DEF ArmedInv
    <2>2. \A s \in Slots : Passed(s) => Passed(s)'
      BY <1>3 DEF Flushed, Passed
    <2> QED
      BY <1>0, <2>1, <2>2, BesideArmed
  <1>4. CASE AutoConnectSet
    <2>1. FlushesCounted' /\ LoadedIsThere' /\ \A s : SeesTo(s) => SeesTo(s)'
      BY <1>4, AutoConnectSetSees DEF ArmedInv, Unspent
    <2>2. \A s \in Slots : Passed(s) => Passed(s)'
      BY <1>4 DEF AutoConnectSet, Passed
    <2> QED
      BY <1>0, <2>1, <2>2, BesideArmed
  <1> QED
    BY <1>1, <1>2, <1>3, <1>4 DEF SwitchItself

LEMMA DisconnectArmed == ASSUME KsInv, Sound(svc), ArmedInv, Budgeted, Disconnect PROVE ArmedInv'
  <1>1. svc'.calls = svc.calls /\ Unmeant("off") /\ "off" \in Callers
    BY RouterAssumption DEF Disconnect, Sound, Fresh
  <1>2. FlushesCounted' /\ LoadedIsThere' /\ \A s : SeesTo(s)'
    BY <1>1, UnmeantSees DEF ArmedInv, Unspent
  <1>3. \A s \in Slots : Passed(s) => Passed(s)'
    BY <1>1, OthersPasses DEF Unmeant, Reasons
  <1> QED
    BY <1>1, <1>2, <1>3, BesideArmed

LEMMA SetSwitchArmed == ASSUME KsInv, ArmedInv, Budgeted, SetSwitch PROVE ArmedInv'
  <1>1. SwitchSet("set") /\ svc' = svc
    BY DEF SetSwitch
  <1>2. FlushesCounted' /\ LoadedIsThere' /\ \A s : SeesTo(s) => SeesTo(s)'
    BY <1>1, SwitchSetSees DEF ArmedInv, Unspent
  <1>3. \A s \in Slots : Passed(s) => Passed(s)'
    BY <1>1, OthersPasses DEF SwitchSet, Reasons
  <1> QED
    BY <1>1, <1>2, <1>3, BesideArmed

(* A connect past its grace is the only one that nothing overtook, and its *)
(* pass is to come.                                                        *)
LEMMA StartedArmed ==
  ASSUME KsInv, Sound(svc), ArmedInv, Budgeted, NEW s \in Slots, Started(s), svc.core = s, ~Stale(s)
  PROVE  ArmedInv'
  <1>1. /\ svc.calls[s].pc = "grace" /\ ~svc.calls[s].stale /\ s \in Callers
        /\ Goes([svc EXCEPT !.active = svc.calls[s].id], s, "arming") /\ Meant(svc.calls[s].id, s)
    BY RouterAssumption DEF Started, At, Stale
  <1>2. Unspent /\ LoadedIsThere' /\ SeesTo(s)'
    BY <1>1, MeantSees DEF ArmedInv
  <1> DEFINE c == [svc.calls[s] EXCEPT !.pc = "arming"]
  <1>3. svc'.calls = [svc.calls EXCEPT ![s] = c]
    BY <1>1 DEF Goes, Sound, Fresh
  <1>4. c.pc = "arming" /\ c.stale = svc.calls[s].stale
    BY DEF Sound, Known, Idle
  <1> HIDE DEF c
  <1>5. svc'.calls[s].pc = "arming" /\ ~svc'.calls[s].stale /\ \A t \in Slots : t # s => svc'.calls[t] = svc.calls[t]
    BY <1>1, <1>3, <1>4 DEF Sound
  <1>6. Current(svc') = Current(svc) /\ s \in Current(svc)
    BY <1>1, <1>5 DEF Current, Building
  <1>7. OneCurrent' /\ \A t \in Told(svc') : t = s
    BY <1>6 DEF ArmedInv, OneCurrent, Told
  <1>8. \A t : Passed(t) /\ t # s => Passed(t)'
    BY <1>1, AppendedToCome DEF Meant, Reasons
  <1>9. WaitsForPass'
    BY <1>5, <1>8 DEF ArmedInv, WaitsForPass, At
  <1> QED
    BY <1>2, <1>7, <1>9 DEF ArmedInv, Unspent

(* A service that is started again has no call. *)
LEMMA RestartedArmed == ASSUME ArmedInv, Budgeted, Restarted PROVE ArmedInv'
  <1>1. PICK e \in {"crash", "reboot"} : Restarts(e)
    BY DEF Restarted, Crashed, Rebooted
  <1>2. FlushesCounted'
    BY <1>1, SpentOther DEF ArmedInv, Restarts, Unspent
  <1>3. step' = "none" /\ passes' = <<Pass("start", "nobody")>>
    BY <1>1 DEF Restarts, AtStart
  <1>4. LoadedIsThere'
    BY <1>3 DEF LoadedIsThere
  <1>5. \A s \in Slots : Passed(s)'
    BY <1>3, RouterAssumption DEF Passed, Pass
  <1>6. \A s \in Slots : svc'.calls[s] = Idle
    BY DEF Restarted, Launched, Fresh
  <1>7. Current(svc') = {}
    BY <1>6 DEF Current, Idle, Building
  <1> QED
    BY <1>2, <1>4, <1>5, <1>7 DEF ArmedInv, OneCurrent, WaitsForPass, Told

LEMMA ArmedInitial == Init => ArmedInv
  <1> SUFFICES ASSUME Init PROVE ArmedInv
    OBVIOUS
  <1>1. \A s \in Slots : svc.calls[s] = Idle
    BY DEF Init, Launched, Fresh
  <1>2. Current(svc) = {}
    BY <1>1 DEF Current, Idle, Building
  <1>3. FlushesCounted
    BY KillSwitchAssumption DEF Init, KsInit, FlushesCounted, KernelEvents
  <1>4. passes = <<Pass("start", "nobody")>> /\ step = "none"
    BY DEF Init, KsInit, AtStart
  <1>5. \A s \in Slots : Passed(s)
    BY <1>4, RouterAssumption DEF Passed, Pass
  <1> QED
    BY <1>2, <1>3, <1>4, <1>5 DEF ArmedInv, OneCurrent, WaitsForPass, LoadedIsThere, Told

LEMMA CallArmed ==
  ASSUME KsInv, Sound(svc), ArmedInv, Budgeted, NEW s \in Slots, CallSteps(s)
  PROVE  ArmedInv'
  <1>1. CASE Started(s) /\ svc.core = s /\ ~Stale(s)
    BY <1>1, StartedArmed
  <1>2. CASE ~Started(s) \/ svc.core # s \/ Stale(s)
    <2>1. Moves(s, Waiting)
      <3>1. ArmedFor(s) => s \notin Waiting
        BY DEF ArmedFor, Waiting
      <3>2. svc.calls[s].pc = "arming" => ArmedFor(s)
        BY DEF CallSteps, Prepared, Checked, Spawned, Started, GatewayDown, PortOpen, GatewayStarted, LateStopped, GaveWay,
               Aborted, TunsTorn, CoreTorn, At
      <3> QED
        BY <3>1, <3>2 DEF Moves
    <2>2. Narrows(svc, svc', Waiting)
      BY <1>2, <2>1, CallNarrowsAll
    <2>3. UNCHANGED ksVars
      BY <1>2, StartedNarrows DEF CallSteps, Prepared, Checked, Spawned, ArmedFor, GatewayDown, PortOpen, GatewayStarted,
         LateStopped, GaveWay, Aborted, TunsTorn, CoreTorn, KsRest
    <2> QED
      BY <2>2, <2>3, CarriesArmed
  <1> QED
    BY <1>1, <1>2

LEMMA ArmedInductive == RouterInv /\ ArmedInv /\ [Next]_rVars => ArmedInv'
  <1> SUFFICES ASSUME RouterInv, ArmedInv, [Next]_rVars PROVE ArmedInv'
    OBVIOUS
  <1>0. KsInv /\ Sound(svc) /\ Budgeted
    BY NextBudgeted DEF RouterInv, ArmedInv
  <1>1. CASE \E s \in Slots : CallSteps(s)
    BY <1>0, <1>1, CallArmed
  <1>2. ASSUME Narrows(svc, svc', Waiting), KsRest PROVE ArmedInv'
    BY <1>0, <1>2, CarriesArmed DEF KsRest
  <1>3. Narrows(svc, svc, Waiting)
    BY SameNarrows
  <1>4. CASE Commands
    <2>1. CASE Reconnect
      BY <1>0, <1>2, <2>1, ReconnectNarrows DEF Reconnect
    <2>2. CASE SetFollow
      BY <1>2, <1>3, <2>2 DEF SetFollow
    <2>3. CASE \E id \in Ids : Connect(id)
      BY <1>0, <1>2, <2>3, ConnectNarrows DEF Connect
    <2> QED
      BY <1>0, <1>4, <2>1, <2>2, <2>3, DisconnectArmed, SetSwitchArmed DEF Commands
  <1>5. CASE Service
    <2>1. CASE TearsDown \/ StopsCore \/ IsDown
      BY <1>0, <1>2, <2>1, TearsDownNarrows, StopsCoreNarrows, IsDownNarrows DEF TearsDown, StopsCore, IsDown
    <2>2. CASE BootConnect \/ DropTaken \/ TimerFires
      BY <1>0, <1>2, <2>2, BootConnectNarrows, DropTakenNarrows, TimerFiresNarrows DEF BootConnect, DropTaken, TimerFires
    <2>3. CASE WanJudged \/ WatchAsks \/ WatchHears
      BY <1>0, <1>2, <2>3, WanNarrows, WatchNarrows DEF WanJudged, WatchAsks, WatchHears
    <2> QED
      BY <1>1, <1>5, <2>1, <2>2, <2>3 DEF Service
  <1>6. CASE World
    <2>1. CASE CoreDies \/ GatewayDies \/ WanChanges
      BY <1>0, <1>2, <2>1, CoreDiesNarrows, GatewayDiesNarrows, WanNarrows DEF CoreDies, GatewayDies, WanChanges
    <2>2. CASE Stalls \/ GapOver
      BY <1>0, <1>2, <2>2, StallNarrows DEF Stalls, GapOver
    <2> QED
      BY <1>0, <1>6, <2>1, <2>2, RestartedArmed DEF World
  <1>7. CASE SwitchItself
    BY <1>0, <1>7, ItselfArmed
  <1>8. CASE UNCHANGED rVars
    BY <1>2, <1>3, <1>8 DEF rVars, KsRest
  <1>9. ASSUME NEW s \in Gone, Started(s) PROVE \E t \in Slots : CallSteps(t)
    BY <1>9 DEF Gone, CallSteps
  <1> QED
    BY <1>1, <1>4, <1>5, <1>6, <1>7, <1>8, <1>9 DEF Next

LEMMA ArmedEnough == KsInv /\ ArmedInv => ArmedFirst
  <1> SUFFICES ASSUME KsInv, ArmedInv, NEW s \in Slots, At(s, "gateway"), ~Stale(s), Want, Passed("set"), ~stuck, Unflushed
               PROVE  table
    BY DEF ArmedFirst, Want, Unflushed
  <1>1. s \in Told(svc)
    BY DEF Told, Current, After, Building, At, Stale
  <1>2. Passed(s)
    BY DEF ArmedInv, WaitsForPass, At
  <1>3. \A by \in {s, "set"} : ~ToCome(by) /\ ~UnderWay(by)
    BY <1>2, OnlyPassed
  <1> QED
    BY <1>1, <1>3 DEF ArmedInv, SeesTo

(* Armed before the gateway: whatever the passes, drops, disconnects and   *)
(* restarts that meet it, a connect that nothing overtook brings its       *)
(* gateway up behind a table the kernel holds - unless nft refused it, the *)
(* ruleset was emptied by another or the setting's own pass is still due.  *)
THEOREM RouterArmsFirst == Spec => []ArmedFirst
  <1>1. RouterInv /\ ArmedInv => ArmedFirst
    BY ArmedEnough DEF RouterInv
  <1> QED
    BY <1>1, RouterInitial, ArmedInitial, ArmedInductive, RouterInvariance, PTL DEF Spec

-----------------------------------------------------------------------------
(* Off is down.                                                            *)

(* What only the user's commands, the end of their teardown and a restart  *)
(* change.                                                                 *)
Held(v, w) == w.off = v.off /\ w.bootCancelled = v.bootCancelled
AskedShape == asked = [f \in DOMAIN Nothing |-> asked[f]]
AskedOn == AskedShape' /\ asked'.what = asked.what /\ asked'.crossed = asked.crossed

LEMMA BumpedHeld == ASSUME NEW v, Sound(v) PROVE Held(v, Bumped(v))
  BY DEF Held, Bumped, Sound, Fresh

LEMMA ConnectsHeld ==
  ASSUME NEW v, Sound(v), NEW s, NEW id, NEW by, NEW why
  PROVE  Held(v, Connects(v, s, id, by, why))
  <1> DEFINE w == Bumped(v)
             c == [Idle EXCEPT !.pc = "prep", !.id = id, !.prev = v.active, !.by = by, !.why = why]
  <1>1. Sound(w) /\ Held(v, w)
    BY BumpedSound, BumpedHeld
  <1>2. Connects(v, s, id, by, why) = [w EXCEPT !.lastIsOff = FALSE, !.calls[s] = c]
    BY DEF Connects
  <1> HIDE DEF w, c
  <1> QED
    BY <1>1, <1>2 DEF Held, Sound, Fresh

LEMMA ReappliesHeld == ASSUME NEW v, Sound(v), NEW by, NEW why PROVE Held(v, Reapplies(v, by, why))
  BY DEF Held, Reapplies, Sound, Fresh

LEMMA AttemptHeld == ASSUME NEW v, Sound(v), NEW why PROVE Held(v, Attempt(v, why))
  <1> DEFINE w == [v EXCEPT !.recovering = TRUE, !.timer = "none", !.shown = FALSE]
             q == [v EXCEPT !.queued = why]
  <1>1. Sound(w) /\ Held(v, w) /\ Held(v, q) /\ Held(v, v)
    BY DEF Held, Sound, Fresh
  <1>2. Attempt(v, why) \in {v, q, Reapplies(w, "recovery", why), Connects(w, Slot(w), v.active, "recovery", why)}
    BY DEF Attempt
  <1> HIDE DEF w, q
  <1>3. Held(w, Reapplies(w, "recovery", why)) /\ Held(w, Connects(w, Slot(w), v.active, "recovery", why))
    BY <1>1, ReappliesHeld, ConnectsHeld
  <1> QED
    BY <1>1, <1>2, <1>3 DEF Held

LEMMA DropHeld == ASSUME NEW v, Sound(v), NEW why, NEW reported, NEW w \in Drop(v, why, reported) PROVE Held(v, w)
  <1>1. \A x : Held(v, [v EXCEPT !.queued = x]) /\ Held(v, [v EXCEPT !.drops = x])
    BY DEF Held, Sound, Fresh
  <1>2. Held(v, [v EXCEPT !.timer = why, !.shown = FALSE])
    BY DEF Held, Sound, Fresh
  <1>3. Held(v, v) /\ Held(v, Attempt(v, why))
    BY AttemptHeld DEF Held
  <1> QED
    BY <1>1, <1>2, <1>3 DEF Drop

LEMMA HandOverHeld == ASSUME NEW v, Sound(v) PROVE Held(v, HandOver(v))
  <1>1. \A x : Held(v, [v EXCEPT !.queued = x])
    BY DEF Held, Sound, Fresh
  <1>2. Held(v, [v EXCEPT !.timer = "gateway-failed", !.shown = FALSE])
    BY DEF Held, Sound, Fresh
  <1>3. Held(v, v)
    BY DEF Held
  <1> QED
    BY <1>1, <1>2, <1>3 DEF HandOver

LEMMA CoreGoneHeld == ASSUME NEW v, Sound(v), NEW c PROVE Held(v, CoreGone(v, c))
  BY DEF Held, CoreGone, Sound, Fresh

LEMMA UnlocksHeld == ASSUME NEW v, Sound(v), NEW reset, NEW w \in Unlocks(v, reset) PROVE Held(v, w)
  <1> DEFINE u == [v EXCEPT !.recovering = FALSE, !.queued = "none"]
  <1>1. Sound(u) /\ Held(v, u) /\ Held(v, v)
    BY DEF Held, Sound, Fresh
  <1>2. w = v \/ w = u \/ w = HandOver(u) \/ w \in Drop(u, v.queued, FALSE)
    BY DEF Unlocks
  <1> HIDE DEF u
  <1>3. Held(u, HandOver(u)) /\ \A x \in Drop(u, v.queued, FALSE) : Held(u, x)
    BY <1>1, HandOverHeld, DropHeld
  <1> QED
    BY <1>1, <1>2, <1>3 DEF Held

LEMMA RetriesHeld == ASSUME NEW v, Sound(v), NEW c, NEW how PROVE Held(v, Retries(v, c, how))
  BY DEF Held, Retries, Sound, Fresh

LEMMA EndsHeld == ASSUME NEW v, Sound(v), AskedShape, NEW s, NEW how, Ends(v, s, how) PROVE Held(v, svc') /\ AskedOn
  <1> DEFINE c == v.calls[s]
             drops == {[d EXCEPT !.on = @ \ {s}] : d \in v.drops}
             w == [v EXCEPT !.calls[s] = Idle, !.drops = drops]
             r == Retries(w, c, how)
             b == [w EXCEPT !.boot = "due"]
  <1>1. Sound(w) /\ Held(v, w)
    BY IdleKnown DEF Held, Sound, Fresh
  <1>2. svc' \in Unlocks(r, c.reset) \/ svc' \in {b, w, HandOver(w)}
    BY DEF Ends
  <1>3. asked' = asked \/ asked' = [asked EXCEPT !.failed = TRUE]
    BY DEF Ends
  <1>4. AskedOn
    BY <1>3 DEF AskedOn, AskedShape, Nothing
  <1> HIDE DEF w, c
  <1>5. Held(w, b)
    BY <1>1 DEF Held, Sound, Fresh
  <1>6. Sound(r) /\ Held(w, r) /\ Held(w, HandOver(w))
    BY <1>1, RetriesSound, RetriesHeld, HandOverHeld
  <1> HIDE DEF b, r
  <1>7. \A x \in Unlocks(r, c.reset) : Held(r, x)
    BY <1>6, UnlocksHeld
  <1>8. Held(v, svc')
    BY <1>1, <1>2, <1>5, <1>6, <1>7 DEF Held
  <1> QED
    BY <1>4, <1>8

LEMMA GoesHeld == ASSUME NEW v, Sound(v), AskedShape, NEW s, NEW pc, Goes(v, s, pc) PROVE Held(v, svc') /\ AskedOn
  <1>1. Held(v, svc')
    BY DEF Held, Goes, Sound, Fresh
  <1>2. AskedOn
    BY DEF Goes, AskedOn, AskedShape
  <1> QED
    BY <1>1, <1>2

LEMMA WaitsHeld == ASSUME NEW v, Sound(v), NEW s, NEW x PROVE Held(v, [v EXCEPT !.calls[s].waits = x])
  BY DEF Held, Sound, Fresh

LEMMA GivesWayHeld ==
  ASSUME NEW v, Sound(v), AskedShape, NEW s \in Slots, GivesWay(v, s) PROVE Held(v, svc') /\ AskedOn
  <1>1. CASE v.lastIsOff /\ v.core = s
    <2> DEFINE w == [v EXCEPT !.calls[s].waits = s]
    <2>1. Goes(w, s, "giveWay") /\ Sound(w) /\ Held(v, w)
      BY <1>1, WaitsSet, WaitsHeld DEF GivesWay
    <2> HIDE DEF w
    <2>2. Held(w, svc') /\ AskedOn
      BY <2>1, GoesHeld
    <2> QED
      BY <2>1, <2>2 DEF Held
  <1>2. CASE ~(v.lastIsOff /\ v.core = s)
    BY <1>2, EndsHeld DEF GivesWay
  <1> QED
    BY <1>1, <1>2

\* What a step leaves as it was.
HeldOn == Held(svc, svc') /\ AskedOn

(* A step that goes on or ends where other fields have changed. *)
LEMMA FromHeld ==
  ASSUME NEW v, Sound(v), AskedShape, Held(svc, v), NEW s \in Slots,
         (\E how : Ends(v, s, how)) \/ (\E pc : Goes(v, s, pc)) \/ GivesWay(v, s)
  PROVE  HeldOn
  <1>1. Held(v, svc') /\ AskedOn
    BY EndsHeld, GoesHeld, GivesWayHeld
  <1> QED
    BY <1>1 DEF HeldOn, Held

LEMMA FieldHeld ==
  ASSUME NEW v, Sound(v), NEW f \in DOMAIN Fresh \ {"active", "calls", "off", "bootCancelled"}, NEW x
  PROVE  Sound([v EXCEPT ![f] = x]) /\ Held(v, [v EXCEPT ![f] = x])
  <1>1. Sound([v EXCEPT ![f] = x])
    BY Elsewhere
  <1> QED
    BY <1>1 DEF Held, Sound, Fresh

LEMMA HeldSame == ASSUME NEW v PROVE Held(v, v)
  BY DEF Held

LEMMA PreparedHeld == ASSUME Sound(svc), AskedShape, NEW s \in Slots, Prepared(s) PROVE HeldOn
  <1>1. CASE \E how : Ends(svc, s, how)
    BY <1>1, FromHeld, HeldSame
  <1>2. CASE \E t : Goes([svc EXCEPT !.tun = t, !.calls[s].mine = t, !.shown = FALSE], s, "check")
    <2>1. PICK t : Goes([svc EXCEPT !.tun = t, !.calls[s].mine = t, !.shown = FALSE], s, "check")
      BY <1>2
    <2> DEFINE c == [svc.calls[s] EXCEPT !.mine = t]
               u == [svc EXCEPT !.tun = t, !.shown = FALSE]
               w == [u EXCEPT !.calls[s] = c]
    <2>2. Known(c)
      BY DEF Sound, Known, Idle, Prepared, At
    <2>3. Sound(u) /\ Held(svc, u)
      BY DEF Sound, Fresh, Held
    <2>4. [svc EXCEPT !.tun = t, !.calls[s].mine = t, !.shown = FALSE] = w
      BY DEF Sound, Fresh
    <2> HIDE DEF c, u
    <2>5. Sound(w) /\ Held(svc, w)
      BY <2>2, <2>3, CallSet DEF Held, Sound, Fresh
    <2> HIDE DEF w
    <2> QED
      BY <2>1, <2>4, <2>5, FromHeld
  <1> QED
    BY <1>1, <1>2 DEF Prepared, NotBuilt

LEMMA CheckedHeld == ASSUME Sound(svc), AskedShape, NEW s \in Slots, Checked(s) PROVE HeldOn
  <1>1. CASE \E how : Ends(svc, s, how)
    BY <1>1, FromHeld, HeldSame
  <1>2. CASE Goes([svc EXCEPT !.core = s], s, "grace")
    <2>1. Sound([svc EXCEPT !.core = s]) /\ Held(svc, [svc EXCEPT !.core = s])
      BY FieldHeld DEF Fresh
    <2> QED
      BY <1>2, <2>1, FromHeld
  <1>3. CASE Goes([svc EXCEPT !.calls[s].waits = svc.core], s, "spawn")
    BY <1>3, WaitsSet, WaitsHeld, FromHeld
  <1> QED
    BY <1>1, <1>2, <1>3 DEF Checked, NotBuilt

LEMMA SpawnedHeld == ASSUME Sound(svc), AskedShape, NEW s \in Slots, Spawned(s) PROVE HeldOn
  <1> DEFINE v == CoreGone(svc, svc.calls[s].waits)
             w == [v EXCEPT !.core = s]
  <1>1. Sound(v) /\ Held(svc, v)
    BY CoreGoneSound, CoreGoneHeld
  <1>2. Goes(w, s, "grace")
    BY DEF Spawned
  <1> HIDE DEF v
  <1>3. Sound(w) /\ Held(v, w)
    BY <1>1, FieldHeld DEF Fresh
  <1>4. Held(svc, w)
    BY <1>1, <1>3 DEF Held
  <1> HIDE DEF w
  <1> QED
    BY <1>2, <1>3, <1>4, FromHeld

LEMMA StartedHeld == ASSUME Sound(svc), AskedShape, NEW s \in Slots, Started(s) PROVE HeldOn
  <1>1. CASE (\E how : Ends(svc, s, how)) \/ GivesWay(svc, s)
    BY <1>1, FromHeld, HeldSame
  <1>2. CASE Goes([svc EXCEPT !.active = svc.calls[s].id], s, "arming")
    <2> DEFINE w == [svc EXCEPT !.active = svc.calls[s].id]
    <2>1. svc.calls[s].id \in Ids
      BY DEF Started, At, Sound, Known
    <2>2. Sound(w) /\ Held(svc, w)
      BY <2>1, ActiveSet DEF Held, Sound, Fresh
    <2> HIDE DEF w
    <2> QED
      BY <1>2, <2>2, FromHeld DEF w
  <1> QED
    BY <1>1, <1>2 DEF Started

LEMMA ArmedForHeld == ASSUME Sound(svc), AskedShape, NEW s \in Slots, ArmedFor(s) PROVE HeldOn
  <1>1. CASE GivesWay(svc, s) \/ Goes(svc, s, "port")
    BY <1>1, FromHeld, HeldSame
  <1>2. CASE \E t : Goes([svc EXCEPT !.gateways[t] = "down"], s, "gwDown")
    <2>1. \A t : LET w == [svc EXCEPT !.gateways[t] = "down"] IN Sound(w) /\ Held(svc, w)
      BY DEF Sound, Fresh, Held
    <2> QED
      BY <1>2, <2>1, FromHeld
  <1> QED
    BY <1>1, <1>2 DEF ArmedFor

LEMMA GatewayDownHeld == ASSUME Sound(svc), AskedShape, NEW s \in Slots, GatewayDown(s) PROVE HeldOn
  BY FromHeld, HeldSame DEF GatewayDown

LEMMA PortOpenHeld == ASSUME Sound(svc), AskedShape, NEW s \in Slots, PortOpen(s) PROVE HeldOn
  <1> DEFINE r == ReportedDeath(svc)
             w == [r EXCEPT !.calls[s].waits = svc.core]
  <1>1. CASE GivesWay(svc, s)
    BY <1>1, FromHeld, HeldSame
  <1>2. CASE Goes(w, s, "abortCore")
    <2>1. Sound(r) /\ Held(svc, r)
      BY FieldHeld DEF ReportedDeath, Fresh
    <2> HIDE DEF r
    <2>2. Sound(w) /\ Held(r, w)
      BY <2>1, WaitsSet, WaitsHeld
    <2>3. Held(svc, w)
      BY <2>1, <2>2 DEF Held
    <2> HIDE DEF w
    <2> QED
      BY <1>2, <2>2, <2>3, FromHeld
  <1>3. CASE \E t, g : Goes([svc EXCEPT !.gateways[t] = g], s, "gateway")
    <2>1. \A t, g : LET x == [svc EXCEPT !.gateways[t] = g] IN Sound(x) /\ Held(svc, x)
      BY DEF Sound, Fresh, Held
    <2> QED
      BY <1>3, <2>1, FromHeld
  <1> QED
    BY <1>1, <1>2, <1>3 DEF PortOpen

LEMMA ConnectedHeld ==
  ASSUME NEW v, Sound(v), AskedShape, Held(svc, v), NEW s \in Slots, Connected(v, s)
  PROVE  HeldOn
  <1>1. Ends(Shows(v), s, "ok")
    BY DEF Connected, Shows
  <1>2. Sound(Shows(v)) /\ Held(svc, Shows(v))
    BY ShowsSound DEF Held
  <1> QED
    BY <1>1, <1>2, FromHeld

LEMMA GatewayStartedHeld == ASSUME Sound(svc), AskedShape, NEW s \in Slots, GatewayStarted(s) PROVE HeldOn
  <1> DEFINE t == svc.calls[s].mine
             up == [svc EXCEPT !.gateways[t] = "up"]
             late == [up EXCEPT !.gateways[t] = "down"]
             down == [svc EXCEPT !.gateways[t] = "down"]
             wait == [down EXCEPT !.calls[s].waits = svc.core]
  <1>1. \A v, g : Sound(v) => Sound([v EXCEPT !.gateways[t] = g]) /\ Held(v, [v EXCEPT !.gateways[t] = g])
    BY DEF Sound, Fresh, Held
  <1>2. Goes(late, s, "lateStop") \/ Connected(up, s) \/ GivesWay(down, s) \/ Goes(wait, s, "abortCore")
    BY DEF GatewayStarted
  <1> HIDE DEF t
  <1>3. Sound(up) /\ Held(svc, up) /\ Sound(down) /\ Held(svc, down)
    BY <1>1
  <1> HIDE DEF up, down
  <1>4. Sound(late) /\ Held(up, late) /\ Sound(wait) /\ Held(down, wait)
    BY <1>1, <1>3, WaitsSet, WaitsHeld
  <1> HIDE DEF late, wait
  <1>5. Held(svc, late) /\ Held(svc, wait)
    BY <1>3, <1>4 DEF Held
  <1> QED
    BY <1>2, <1>3, <1>4, <1>5, FromHeld, ConnectedHeld

LEMMA GaveWayHeld == ASSUME Sound(svc), AskedShape, NEW s \in Slots, LateStopped(s) \/ GaveWay(s) PROVE HeldOn
  BY CoreGoneSound, CoreGoneHeld, FromHeld, HeldSame DEF LateStopped, GaveWay

LEMMA AbortedHeld == ASSUME Sound(svc), AskedShape, NEW s \in Slots, Aborted(s) PROVE HeldOn
  <1> DEFINE c == svc.calls[s]
             v == CoreGone(svc, c.waits)
             off == GivesUp(v)
             kept == [v EXCEPT !.active = c.id]
  <1>1. c.id \in Ids
    BY DEF Aborted, At, Sound, Known
  <1>2. Sound(v) /\ Held(svc, v)
    BY CoreGoneSound, CoreGoneHeld
  <1>3. GivesWay(v, s) \/ Ends(kept, s, "failed") \/ Ends(off, s, "failed")
    BY DEF Aborted, GivesUp
  <1> HIDE DEF v
  <1>4. Sound(off) /\ Held(v, off)
    BY <1>2, GivesUpSound DEF Held
  <1>5. Sound(kept) /\ Held(v, kept)
    BY <1>1, <1>2, ActiveSet DEF Held, Sound, Fresh
  <1> HIDE DEF off, kept
  <1>6. Held(svc, off) /\ Held(svc, kept)
    BY <1>2, <1>4, <1>5 DEF Held
  <1> QED
    BY <1>2, <1>3, <1>4, <1>5, <1>6, FromHeld

LEMMA TunsTornHeld == ASSUME Sound(svc), AskedShape, NEW s \in Slots, TunsTorn(s) PROVE HeldOn
  BY WaitsSet, WaitsHeld, FromHeld DEF TunsTorn

LEMMA CoreTornHeld == ASSUME Sound(svc), AskedShape, NEW s \in Slots, CoreTorn(s) PROVE HeldOn
  <1> DEFINE c == svc.calls[s]
             v == CoreGone(svc, c.waits)
  <1>1. Sound(v) /\ Held(svc, v)
    BY CoreGoneSound, CoreGoneHeld
  <1>2. Ends(v, s, "stale") \/ (svc' = Connects(v, s, c.id, c.by, c.why) /\ UNCHANGED asked)
    BY DEF CoreTorn
  <1> HIDE DEF v, c
  <1>3. Held(v, Connects(v, s, c.id, c.by, c.why))
    BY <1>1, ConnectsHeld
  <1>4. CASE svc' = Connects(v, s, c.id, c.by, c.why) /\ UNCHANGED asked
    BY <1>1, <1>3, <1>4 DEF HeldOn, Held, AskedOn, AskedShape
  <1> QED
    BY <1>1, <1>2, <1>4, FromHeld

LEMMA CallStepsHeld == ASSUME Sound(svc), AskedShape, NEW s \in Slots, CallSteps(s) PROVE HeldOn
  BY PreparedHeld, CheckedHeld, SpawnedHeld, StartedHeld, ArmedForHeld, GatewayDownHeld, PortOpenHeld,
     GatewayStartedHeld, GaveWayHeld, AbortedHeld, TunsTornHeld, CoreTornHeld DEF CallSteps

-----------------------------------------------------------------------------
(* While it goes down, every step keeps it so.                             *)

(* One call goes on or ends; its core is still somebody's to stop. *)
LEMMA CallDown ==
  ASSUME NEW v, Sound(v), GoesDown(v), NEW s \in Slots, NEW c, NEW w, w = [v EXCEPT !.calls[s] = c],
         c.pc # "idle" => c.stale /\ v.lastIsOff /\ (c.by = "recovery" => c.reset),
         v.core = s => CoreStops(v) \/ Gives(c, s)
  PROVE  GoesDown(w)
  <1>1. /\ \A f \in DOMAIN Fresh \ {"calls"} : w[f] = v[f]
        /\ w.calls[s] = c /\ \A t \in Slots : t # s => w.calls[t] = v.calls[t]
    BY DEF Sound, Fresh
  <1>2. /\ w.drops = v.drops /\ w.timer = v.timer /\ w.net = v.net /\ w.judge = v.judge /\ w.watch = v.watch
        /\ w.lastIsOff = v.lastIsOff /\ w.core = v.core /\ w.off = v.off /\ w.offWaits = v.offWaits
        /\ w.gateways = v.gateways /\ w.active = v.active
    BY <1>1 DEF Fresh
  <1>3. NothingComes(w) /\ GatewaysDown(w) /\ (Disconnecting(w) \/ w.active = NoId)
    BY <1>2 DEF GoesDown, NothingComes, GatewaysDown, Disconnecting
  <1>4. Overtaken(w)
    BY <1>1, <1>2 DEF GoesDown, Overtaken
  <1>5. CoreStops(v) => CoreGoes(w)
    BY <1>2 DEF CoreStops, CoreGoes
  <1>6. ASSUME NEW t \in Slots, v.core = t, Gives(v.calls[t], t), ~CoreStops(v) PROVE CoreGoes(w)
    BY <1>1, <1>2, <1>6 DEF CoreGoes
  <1>7. CoreGoes(w)
    BY <1>5, <1>6 DEF GoesDown, CoreGoes
  <1> QED
    BY <1>3, <1>4, <1>7 DEF GoesDown

LEMMA StopsOwn ==
  ASSUME NEW v, GoesDown(v), NEW s \in Slots, ~Gives(v.calls[s], s), v.core = s
  PROVE  CoreStops(v)
  BY DEF GoesDown, CoreGoes

LEMMA CoreGoneDown == ASSUME NEW v, Sound(v), GoesDown(v), NEW c PROVE GoesDown(CoreGone(v, c))
  <1> DEFINE w == [v EXCEPT !.core = NoSlot, !.drops = Older(v.drops)]
  <1>1. CoreGone(v, c) = v \/ CoreGone(v, c) = w
    BY DEF CoreGone
  <1>2. Older(v.drops) = {}
    BY DEF GoesDown, NothingComes, Older
  <1>3. /\ w.drops = {} /\ w.core = NoSlot /\ w.calls = v.calls
        /\ w.timer = v.timer /\ w.net = v.net /\ w.judge = v.judge /\ w.watch = v.watch
        /\ w.lastIsOff = v.lastIsOff /\ w.off = v.off /\ w.gateways = v.gateways /\ w.active = v.active
    BY <1>2 DEF Sound, Fresh
  <1> HIDE DEF w
  <1>4. NothingComes(w) /\ GatewaysDown(w) /\ (Disconnecting(w) \/ w.active = NoId)
    BY <1>3 DEF GoesDown, NothingComes, GatewaysDown, Disconnecting
  <1>5. Overtaken(w) /\ CoreGoes(w)
    BY <1>3 DEF GoesDown, Overtaken, CoreGoes, CoreStops
  <1> QED
    BY <1>1, <1>4, <1>5 DEF GoesDown

\* A call that is under way.
Goer(v, s) == s \in Slots /\ v.calls[s].pc # "idle"

(* It ends as one that was overtaken: nothing is retried. *)
LEMMA EndsDown ==
  ASSUME NEW v, Sound(v), GoesDown(v), NEW s, Goer(v, s), v.core = s => CoreStops(v), Ends(v, s, "stale")
  PROVE  GoesDown(svc')
  <1> DEFINE c == v.calls[s]
             drops == {[d EXCEPT !.on = @ \ {s}] : d \in v.drops}
             u == [v EXCEPT !.calls[s] = Idle]
             w == [v EXCEPT !.calls[s] = Idle, !.drops = drops]
  <1>1. c.by = "recovery" => c.reset
    BY DEF GoesDown, Overtaken, Goer
  <1>2. drops = {} /\ v.drops = {}
    BY DEF GoesDown, NothingComes
  <1>3. svc' \in (CASE c.by = "recovery" -> Unlocks(Retries(w, c, "stale"), c.reset)
               [] c.by = "boot" /\ Failed("stale") /\ ~v.bootCancelled -> {[w EXCEPT !.boot = "due"]}
               [] c.by \in {"connect", "reapply"} /\ Failed("stale") /\ HandedOver(v, c) -> {HandOver(w)}
               [] OTHER -> {w})
    BY DEF Ends
  <1>4. Retries(w, c, "stale") = w /\ ~Failed("stale")
    BY DEF Retries, Failed
  <1>5. w = u
    BY <1>2 DEF Sound, Fresh
  <1> HIDE DEF w, c
  <1>6. c.by = "recovery" => Unlocks(w, c.reset) = {w}
    BY <1>1 DEF Unlocks
  <1>7. svc' = w
    BY <1>3, <1>4, <1>6
  <1>8. Idle.pc = "idle" /\ s \in Slots
    BY DEF Goer, Idle
  <1>9. GoesDown(u)
    BY <1>8, CallDown
  <1> QED
    BY <1>5, <1>7, <1>9

LEMMA GoesGoesDown ==
  ASSUME NEW v, Sound(v), GoesDown(v), NEW s, Goer(v, s), NEW pc,
         v.core = s => CoreStops(v) \/ Gives([v.calls[s] EXCEPT !.pc = pc], s), Goes(v, s, pc)
  PROVE  GoesDown(svc')
  <1> DEFINE c == [v.calls[s] EXCEPT !.pc = pc]
  <1>1. svc' = [v EXCEPT !.calls[s] = c]
    BY DEF Goes
  <1>2. c.stale = v.calls[s].stale /\ c.by = v.calls[s].by /\ c.reset = v.calls[s].reset
    BY DEF Sound, Known, Idle, Goer
  <1>3. c.stale /\ v.lastIsOff /\ (c.by = "recovery" => c.reset)
    BY <1>2 DEF GoesDown, Overtaken, Goer
  <1> HIDE DEF c
  <1> QED
    BY <1>1, <1>3, CallDown DEF Goer, c

(* It goes on to wait a core out. *)
LEMMA WaitsDown ==
  ASSUME NEW v, Sound(v), GoesDown(v), NEW s, Goer(v, s), NEW x, NEW pc,
         (pc = "giveWay" /\ x = s) \/ (v.core = s => CoreStops(v)),
         Goes([v EXCEPT !.calls[s].waits = x], s, pc)
  PROVE  GoesDown(svc')
  <1> DEFINE d == [v.calls[s] EXCEPT !.waits = x]
             c == [d EXCEPT !.pc = pc]
             w == [v EXCEPT !.calls[s].waits = x]
  <1>1. svc' = [w EXCEPT !.calls[s] = [w.calls[s] EXCEPT !.pc = pc]]
    BY DEF Goes
  <1>2. w = [v EXCEPT !.calls[s] = d] /\ w.calls[s] = d
    BY DEF Sound, Fresh, Goer
  <1>3. svc' = [v EXCEPT !.calls[s] = c]
    <2> HIDE DEF d, w
    <2> QED
      BY <1>1, <1>2 DEF Sound, Fresh, Goer
  <1>4. /\ c.stale = v.calls[s].stale /\ c.by = v.calls[s].by /\ c.reset = v.calls[s].reset
        /\ c.pc = pc /\ c.waits = x
    BY DEF Sound, Known, Idle, Goer
  <1>5. c.stale /\ v.lastIsOff /\ (c.by = "recovery" => c.reset)
    BY <1>4 DEF GoesDown, Overtaken, Goer
  <1>6. v.core = s => CoreStops(v) \/ Gives(c, s)
    BY <1>4 DEF Gives
  <1> HIDE DEF c
  <1> QED
    BY <1>3, <1>5, <1>6, CallDown DEF Goer

LEMMA GivesWayDown ==
  ASSUME NEW v, Sound(v), GoesDown(v), NEW s, Goer(v, s), GivesWay(v, s)
  PROVE  GoesDown(svc')
  <1>1. v.lastIsOff
    BY DEF GoesDown, Overtaken, Goer
  <1>2. CASE v.core = s
    <2>1. Goes([v EXCEPT !.calls[s].waits = s], s, "giveWay")
      BY <1>1, <1>2 DEF GivesWay
    <2> QED
      BY <2>1, WaitsDown
  <1>3. CASE v.core # s
    BY <1>3, EndsDown DEF GivesWay
  <1> QED
    BY <1>2, <1>3

(* A gateway that is still inside its start comes down. *)
LEMMA GatewayComesDown ==
  ASSUME NEW v, Sound(v), GoesDown(v), NEW t, NEW s
  PROVE  LET w == [v EXCEPT !.gateways[t] = "down"] IN
         Sound(w) /\ GoesDown(w) /\ w.calls = v.calls /\ w.core = v.core
  <1> DEFINE w == [v EXCEPT !.gateways[t] = "down"]
  <1>1. Sound(w)
    BY DEF Sound, Fresh
  <1>2. /\ w.drops = v.drops /\ w.core = v.core /\ w.calls = v.calls
        /\ w.timer = v.timer /\ w.net = v.net /\ w.judge = v.judge /\ w.watch = v.watch
        /\ w.lastIsOff = v.lastIsOff /\ w.off = v.off /\ w.offWaits = v.offWaits /\ w.active = v.active
        /\ w.gateways = [v.gateways EXCEPT ![t] = "down"]
    BY DEF Sound, Fresh
  <1> HIDE DEF w
  <1>3. NothingComes(w) /\ Overtaken(w) /\ (Disconnecting(w) \/ w.active = NoId)
    BY <1>2 DEF GoesDown, NothingComes, Overtaken, Disconnecting
  <1>4. CoreGoes(w)
    BY <1>2 DEF GoesDown, CoreGoes, CoreStops
  <1>5. GatewaysDown(w)
    BY <1>2 DEF GoesDown, GatewaysDown
  <1> QED
    BY <1>1, <1>2, <1>3, <1>4, <1>5 DEF GoesDown, w

(* The steps of a call. *)
LEMMA StepsGoer ==
  ASSUME GoesDown(svc), NEW s \in Slots, svc.calls[s].pc # "idle"
  PROVE  Goer(svc, s) /\ Stale(s)
  BY DEF Goer, GoesDown, Overtaken, Stale

LEMMA EarlyDown ==
  ASSUME Sound(svc), GoesDown(svc), NEW s \in Slots, Prepared(s) \/ Checked(s)
  PROVE  GoesDown(svc')
  <1>1. svc.calls[s].pc \in {"prep", "check"}
    BY DEF Prepared, Checked, At
  <1>2. Goer(svc, s) /\ Stale(s)
    BY <1>1, StepsGoer
  <1>3. Ends(svc, s, "stale")
    BY <1>2 DEF Prepared, Checked
  <1>4. ~Gives(svc.calls[s], s)
    BY <1>1 DEF Gives, After
  <1> QED
    BY <1>2, <1>3, <1>4, StopsOwn, EndsDown

LEMMA SpawnedDown == ASSUME Sound(svc), GoesDown(svc), NEW s \in Slots, Spawned(s) PROVE GoesDown(svc')
  <1> DEFINE v == CoreGone(svc, svc.calls[s].waits)
             w == [v EXCEPT !.core = s]
             c == [svc.calls[s] EXCEPT !.pc = "grace"]
             u == [v EXCEPT !.calls[s] = c]
  <1>1. svc.calls[s].pc = "spawn" /\ Goes(w, s, "grace")
    BY DEF Spawned, At
  <1>2. Goer(svc, s)
    BY <1>1, StepsGoer
  <1>3. Sound(v) /\ v.calls = svc.calls /\ GoesDown(v)
    BY CoreGoneSound, CoreGoneDown
  <1> HIDE DEF v
  <1>4. Sound(w) /\ w.calls = svc.calls
    BY <1>3 DEF Sound, Fresh
  <1>5. svc' = [v EXCEPT !.core = s, !.calls[s] = c]
    BY <1>1, <1>3, <1>4 DEF Goes
  <1>6. c.pc = "grace" /\ c.stale = svc.calls[s].stale /\ c.by = svc.calls[s].by /\ c.reset = svc.calls[s].reset
    BY DEF Sound, Known, Idle
  <1> HIDE DEF c
  <1>7. /\ svc'.core = s /\ svc'.calls = [v.calls EXCEPT ![s] = c]
        /\ svc'.drops = v.drops /\ svc'.timer = v.timer /\ svc'.net = v.net /\ svc'.judge = v.judge /\ svc'.watch = v.watch
        /\ svc'.lastIsOff = v.lastIsOff /\ svc'.off = v.off /\ svc'.gateways = v.gateways /\ svc'.active = v.active
    BY <1>3, <1>5 DEF Sound, Fresh
  <1>8. NothingComes(svc') /\ GatewaysDown(svc') /\ (Disconnecting(svc') \/ svc'.active = NoId)
    BY <1>3, <1>7 DEF GoesDown, NothingComes, GatewaysDown, Disconnecting
  <1>9. svc'.calls[s] = c /\ \A t \in Slots : t # s => svc'.calls[t] = v.calls[t]
    BY <1>3, <1>7 DEF Sound
  <1>10. Overtaken(svc')
    BY <1>2, <1>3, <1>6, <1>7, <1>9 DEF GoesDown, Overtaken, Goer
  <1>11. CoreGoes(svc')
    BY <1>6, <1>7, <1>9 DEF CoreGoes, Gives
  <1> QED
    BY <1>8, <1>10, <1>11 DEF GoesDown

LEMMA StartedDown == ASSUME Sound(svc), GoesDown(svc), NEW s \in Slots, Started(s) PROVE GoesDown(svc') /\ KsRest
  <1>1. svc.calls[s].pc = "grace"
    BY DEF Started, At
  <1>2. Goer(svc, s) /\ Stale(s)
    BY <1>1, StepsGoer
  <1>3. KsRest /\ (IF svc.core # s THEN Ends(svc, s, "stale") ELSE GivesWay(svc, s))
    BY <1>2 DEF Started
  <1> QED
    BY <1>1, <1>2, <1>3, EndsDown, GivesWayDown

LEMMA ArmedForDown ==
  ASSUME Sound(svc), GoesDown(svc), NEW s \in Slots, ArmedFor(s) \/ PortOpen(s) \/ LateStopped(s)
  PROVE  GoesDown(svc')
  <1>1. svc.calls[s].pc \in {"arming", "port", "lateStop"}
    BY DEF ArmedFor, PortOpen, LateStopped, At
  <1>2. Goer(svc, s) /\ Stale(s)
    BY <1>1, StepsGoer
  <1>3. GivesWay(svc, s)
    BY <1>2 DEF ArmedFor, PortOpen, LateStopped
  <1> QED
    BY <1>1, <1>2, <1>3, GivesWayDown

LEMMA GatewayDownDown == ASSUME Sound(svc), GoesDown(svc), NEW s \in Slots, GatewayDown(s) PROVE GoesDown(svc')
  <1>1. svc.calls[s].pc = "gwDown" /\ Goes(svc, s, "port")
    BY DEF GatewayDown, At
  <1>2. [svc.calls[s] EXCEPT !.pc = "port"].pc = "port"
    BY DEF Sound, Known, Idle
  <1> QED
    BY <1>1, <1>2, StepsGoer, GoesGoesDown DEF Gives, After

LEMMA GatewayStartedDown == ASSUME Sound(svc), GoesDown(svc), NEW s \in Slots, GatewayStarted(s) PROVE GoesDown(svc')
  <1> DEFINE t == svc.calls[s].mine
             up == [svc EXCEPT !.gateways[t] = "up"]
             late == [up EXCEPT !.gateways[t] = "down"]
             down == [svc EXCEPT !.gateways[t] = "down"]
  <1>1. svc.calls[s].pc = "gateway"
    BY DEF GatewayStarted, At
  <1>2. Goer(svc, s) /\ Stale(s)
    BY <1>1, StepsGoer
  <1>3. Goes(late, s, "lateStop") \/ GivesWay(down, s)
    BY <1>2 DEF GatewayStarted
  <1> HIDE DEF t
  <1>4. late = down
    BY DEF Sound, Fresh
  <1>5. Sound(down) /\ GoesDown(down) /\ down.calls = svc.calls
    BY GatewayComesDown
  <1> HIDE DEF late, down
  <1>6. Goer(down, s) /\ [down.calls[s] EXCEPT !.pc = "lateStop"].pc = "lateStop"
    BY <1>2, <1>5 DEF Goer, Sound, Known, Idle
  <1> QED
    BY <1>1, <1>3, <1>4, <1>5, <1>6, GivesWayDown, GoesGoesDown DEF Gives

(* A core that is waited out stops; another stays who it was. *)
LEMMA CoreGoneCore ==
  ASSUME NEW v, Sound(v), NEW c, NEW s \in Slots, CoreGone(v, c).core = s
  PROVE  v.core = s /\ CoreGone(v, c) = v
  BY RouterAssumption DEF CoreGone, Sound, Fresh

LEMMA GaveWayDown == ASSUME Sound(svc), GoesDown(svc), NEW s \in Slots, GaveWay(s) PROVE GoesDown(svc')
  <1> DEFINE v == CoreGone(svc, svc.calls[s].waits)
  <1>1. svc.calls[s].pc = "giveWay" /\ Ends(v, s, "stale")
    BY DEF GaveWay, At
  <1>2. Sound(v) /\ v.calls = svc.calls /\ GoesDown(v)
    BY CoreGoneSound, CoreGoneDown
  <1>3. v.core = s => CoreStops(v)
    <2> SUFFICES ASSUME v.core = s PROVE CoreStops(v)
      OBVIOUS
    <2>1. svc.core = s /\ v = svc
      BY CoreGoneCore
    <2>2. svc.calls[s].waits # s
      BY <2>1, RouterAssumption DEF CoreGone, Sound, Fresh
    <2>3. ~Gives(svc.calls[s], s)
      BY <1>1, <2>2 DEF Gives, After
    <2> QED
      BY <2>1, <2>3, StopsOwn
  <1> HIDE DEF v
  <1>4. Goer(v, s)
    BY <1>1, <1>2 DEF Goer
  <1> QED
    BY <1>1, <1>2, <1>3, <1>4, EndsDown

LEMMA AbortedDown == ASSUME Sound(svc), GoesDown(svc), NEW s \in Slots, Aborted(s) PROVE GoesDown(svc')
  <1> DEFINE v == CoreGone(svc, svc.calls[s].waits)
  <1>1. svc.calls[s].pc = "abortCore"
    BY DEF Aborted, At
  <1>2. Goer(svc, s) /\ Stale(s)
    BY <1>1, StepsGoer
  <1>3. GivesWay(v, s)
    BY <1>2 DEF Aborted
  <1>4. Sound(v) /\ v.calls = svc.calls /\ GoesDown(v)
    BY CoreGoneSound, CoreGoneDown
  <1> HIDE DEF v
  <1>5. Goer(v, s)
    BY <1>1, <1>4 DEF Goer
  <1> QED
    BY <1>1, <1>3, <1>4, <1>5, GivesWayDown

LEMMA TunsTornDown == ASSUME Sound(svc), GoesDown(svc), NEW s \in Slots, TunsTorn(s) PROVE GoesDown(svc')
  <1>1. svc.calls[s].pc = "tearTuns" /\ Goes([svc EXCEPT !.calls[s].waits = svc.core], s, "tearCore")
    BY DEF TunsTorn, At
  <1>2. Goer(svc, s) /\ ~Gives(svc.calls[s], s)
    BY <1>1, StepsGoer DEF Gives, After
  <1>3. svc.core = s => CoreStops(svc)
    BY <1>2, StopsOwn
  <1> QED
    BY <1>1, <1>2, <1>3, WaitsDown

LEMMA CoreTornDown == ASSUME Sound(svc), GoesDown(svc), NEW s \in Slots, CoreTorn(s) PROVE GoesDown(svc')
  <1> DEFINE v == CoreGone(svc, svc.calls[s].waits)
  <1>1. svc.calls[s].pc = "tearCore"
    BY DEF CoreTorn, At
  <1>2. Ends(v, s, "stale") /\ ~Gives(svc.calls[s], s)
    BY <1>1, StepsGoer DEF CoreTorn, Gives, After
  <1>3. Sound(v) /\ v.calls = svc.calls /\ GoesDown(v)
    BY CoreGoneSound, CoreGoneDown
  <1> HIDE DEF v
  <1>4. Goer(v, s) /\ (v.core = s => CoreStops(v))
    BY <1>1, <1>2, <1>3, StopsOwn DEF Goer
  <1> QED
    BY <1>2, <1>3, <1>4, EndsDown

LEMMA CallStepsDown ==
  ASSUME Sound(svc), GoesDown(svc), NEW s \in Slots, CallSteps(s)
  PROVE  GoesDown(svc') /\ UNCHANGED ksVars
  <1>1. GoesDown(svc')
    BY EarlyDown, SpawnedDown, StartedDown, ArmedForDown, GatewayDownDown, GatewayStartedDown, GaveWayDown, AbortedDown,
       TunsTornDown, CoreTornDown DEF CallSteps
  <1>2. UNCHANGED ksVars
    BY StartedDown DEF CallSteps, Prepared, Checked, Spawned, ArmedFor, GatewayDown, PortOpen, GatewayStarted,
       LateStopped, GaveWay, Aborted, TunsTorn, CoreTorn, KsRest
  <1> QED
    BY <1>1, <1>2

-----------------------------------------------------------------------------
(* What happens by itself: none of it while it goes down. *)
HeldDown == HeldOn /\ (GoesDown(svc) => GoesDown(svc'))

\* What the descent reads of the service.
Same(v, w) ==
  /\ w.drops = v.drops /\ w.timer = v.timer /\ w.net = v.net /\ w.watch = v.watch /\ w.lastIsOff = v.lastIsOff
  /\ w.calls = v.calls /\ w.core = v.core /\ w.off = v.off /\ w.offWaits = v.offWaits /\ w.gateways = v.gateways /\ w.active = v.active

LEMMA SameDown ==
  ASSUME NEW v, NEW w, Same(v, w), GoesDown(v), w.judge # "asking"
  PROVE  GoesDown(w)
  <1>1. NothingComes(w) /\ Overtaken(w) /\ (Disconnecting(w) \/ w.active = NoId)
    BY DEF Same, GoesDown, NothingComes, Overtaken, Disconnecting
  <1>2. CoreGoes(w) /\ GatewaysDown(w)
    BY DEF Same, GoesDown, CoreGoes, CoreStops, GatewaysDown
  <1> QED
    BY <1>1, <1>2 DEF GoesDown

LEMMA AskedStays == ASSUME AskedShape, UNCHANGED asked PROVE AskedOn
  BY DEF AskedOn, AskedShape

LEMMA BootConnectHeld ==
  ASSUME Sound(svc), AskedShape, BootConnect
  PROVE  HeldOn /\ (GoesDown(svc) /\ (svc.bootCancelled \/ intent = NoId) => GoesDown(svc'))
  <1> DEFINE v == [svc EXCEPT !.boot = "none"]
  <1>1. Sound(v) /\ Held(svc, v)
    BY FieldHeld DEF Fresh
  <1>2. Same(svc, v) /\ v.judge = svc.judge /\ v.bootCancelled = svc.bootCancelled
    BY DEF Same, Sound, Fresh
  <1>3. svc' = (IF v.bootCancelled \/ v.active # NoId \/ intent = NoId THEN v ELSE Connects(v, Slot(v), intent, "boot", "none"))
        /\ UNCHANGED asked
    BY DEF BootConnect
  <1> HIDE DEF v
  <1>4. Held(v, Connects(v, Slot(v), intent, "boot", "none"))
    BY <1>1, ConnectsHeld
  <1>5. GoesDown(svc) => GoesDown(v)
    BY <1>2, SameDown DEF GoesDown, NothingComes
  <1>6. HeldOn
    BY <1>1, <1>3, <1>4, AskedStays DEF HeldOn, Held
  <1> QED
    BY <1>2, <1>3, <1>5, <1>6

LEMMA CoreDiesHeld == ASSUME Sound(svc), AskedShape, CoreDies PROVE HeldDown
  <1> DEFINE v == CoreGone(svc, svc.core)
             ds == v.drops \cup {[why |-> "core-exited", reported |-> FALSE, latest |-> TRUE, waited |-> FALSE, on |-> {}]}
             w == [v EXCEPT !.drops = ds]
  <1>1. Sound(v) /\ Held(svc, v) /\ (GoesDown(svc) => GoesDown(v))
    BY CoreGoneSound, CoreGoneHeld, CoreGoneDown
  <1>2. UNCHANGED asked /\ (svc' = v \/ (svc' = w /\ ~Disconnecting(v) /\ v.active # NoId))
    BY DEF CoreDies
  <1> HIDE DEF v, ds
  <1>3. Held(v, w)
    BY <1>1, FieldHeld DEF Fresh
  <1> HIDE DEF w
  <1>4. HeldOn
    BY <1>1, <1>2, <1>3, AskedStays DEF HeldOn, Held
  <1>5. GoesDown(svc) => svc' = v
    BY <1>1, <1>2 DEF GoesDown
  <1> QED
    BY <1>1, <1>4, <1>5 DEF HeldDown

LEMMA GatewayDiesHeld == ASSUME Sound(svc), AskedShape, GatewayDies PROVE HeldDown
  <1>1. PICK t \in Slots : Up(svc, t) /\ LET v == [svc EXCEPT !.gateways[t] = "down"] IN
          svc' \in IF Disconnecting(v) \/ v.tun # t THEN {v} ELSE Drop(v, "tunnel-exited", FALSE)
    BY DEF GatewayDies
  <1> DEFINE v == [svc EXCEPT !.gateways[t] = "down"]
  <1>2. Sound(v) /\ Held(svc, v)
    BY DEF Sound, Fresh, Held
  <1>3. (svc' = v \/ svc' \in Drop(v, "tunnel-exited", FALSE)) /\ UNCHANGED asked
    BY <1>1 DEF GatewayDies
  <1> HIDE DEF v
  <1>4. Held(v, svc') /\ AskedOn
    BY <1>2, <1>3, DropHeld, HeldSame, AskedStays
  <1>5. ~GoesDown(svc)
    BY <1>1 DEF GoesDown, GatewaysDown, Up
  <1> QED
    BY <1>2, <1>4, <1>5 DEF HeldDown, HeldOn, Held

LEMMA DropTakenHeld == ASSUME Sound(svc), AskedShape, DropTaken PROVE HeldDown
  <1>1. PICK d \in svc.drops : LET v == [svc EXCEPT !.drops = svc.drops \ {d}] IN
          svc' \in IF d.waited /\ (Disconnecting(v) \/ BroughtBack(v, d)) THEN {v} ELSE Drop(v, d.why, d.reported)
    BY DEF DropTaken
  <1> DEFINE v == [svc EXCEPT !.drops = svc.drops \ {d}]
  <1>2. Sound(v) /\ Held(svc, v)
    BY FieldHeld DEF Fresh
  <1>3. (svc' = v \/ svc' \in Drop(v, d.why, d.reported)) /\ UNCHANGED asked
    BY <1>1 DEF DropTaken
  <1> HIDE DEF v
  <1>4. Held(v, svc') /\ AskedOn
    BY <1>2, <1>3, DropHeld, HeldSame, AskedStays
  <1>5. ~GoesDown(svc)
    BY <1>1 DEF GoesDown, NothingComes
  <1> QED
    BY <1>2, <1>4, <1>5 DEF HeldDown, HeldOn, Held

LEMMA TimerFiresHeld == ASSUME Sound(svc), AskedShape, TimerFires PROVE HeldDown
  <1> DEFINE v == [svc EXCEPT !.timer = "none"]
  <1>1. Sound(v) /\ Held(svc, v)
    BY FieldHeld DEF Fresh
  <1>2. svc' = Attempt(v, svc.timer) /\ UNCHANGED asked
    BY DEF TimerFires, Fires
  <1> HIDE DEF v
  <1>3. HeldOn
    BY <1>1, <1>2, AttemptHeld, AskedStays DEF HeldOn, Held
  <1>4. ~GoesDown(svc)
    BY DEF GoesDown, NothingComes, TimerFires
  <1> QED
    BY <1>3, <1>4 DEF HeldDown

LEMMA WanHeld == ASSUME Sound(svc), AskedShape, WanChanges \/ WanJudged PROVE HeldDown
  <1> DEFINE v == [svc EXCEPT !.judge = "none"]
             w == [svc EXCEPT !.judge = "asking"]
  <1>1. Sound(v) /\ Held(svc, v) /\ Held(svc, w) /\ Held(svc, svc)
    BY FieldHeld, HeldSame DEF Fresh
  <1>2. UNCHANGED asked /\ svc' \in {svc, v, w, Attempt(v, "wan-changed")}
    BY DEF WanChanges, WanJudged
  <1>3. v.judge = "none" /\ Same(svc, v)
    BY DEF Same, Sound, Fresh
  <1>4. GoesDown(svc) => svc' = v
    BY DEF WanChanges, WanJudged, GoesDown, NothingComes
  <1> HIDE DEF v, w
  <1>5. HeldOn
    BY <1>1, <1>2, AttemptHeld, AskedStays DEF HeldOn, Held
  <1>6. GoesDown(svc) => GoesDown(v)
    BY <1>3, SameDown
  <1> QED
    BY <1>4, <1>5, <1>6 DEF HeldDown

LEMMA WatchHeld == ASSUME Sound(svc), AskedShape, WatchAsks \/ WatchHears PROVE HeldDown
  <1> DEFINE missed == [svc EXCEPT !.watch = "armed", !.misses = 1 - svc.misses]
             again == [missed EXCEPT !.gap = TRUE]
             asks == [svc EXCEPT !.watch = "asking"]
  <1>1. Held(svc, Rearms(svc)) /\ Held(svc, asks)
    BY DEF Rearms, Sound, Fresh, Held
  <1>2. Sound(missed) /\ Held(svc, missed)
    BY DEF Sound, Fresh, Held
  <1>3. UNCHANGED asked /\ svc' \in {Rearms(svc), asks, missed} \cup Drop(again, "tunnel-stalled", FALSE)
    BY DEF WatchHears, WatchAsks
  <1> HIDE DEF missed, asks
  <1>4. Sound(again) /\ Held(missed, again)
    BY <1>2, FieldHeld DEF Fresh
  <1> HIDE DEF again
  <1>5. \A x \in Drop(again, "tunnel-stalled", FALSE) : Held(again, x)
    BY <1>4, DropHeld
  <1>6. HeldOn
    BY <1>1, <1>2, <1>3, <1>4, <1>5, AskedStays DEF HeldOn, Held
  <1>7. ~GoesDown(svc)
    BY DEF GoesDown, NothingComes, WatchAsks, WatchHears
  <1> QED
    BY <1>6, <1>7 DEF HeldDown

LEMMA StallHeld == ASSUME Sound(svc), AskedShape, Stalls \/ GapOver PROVE HeldDown
  <1> DEFINE f == [svc EXCEPT !.flows = FALSE]
             g == [svc EXCEPT !.gap = FALSE]
  <1>1. Held(svc, f) /\ Held(svc, g)
    BY FieldHeld DEF Fresh
  <1>2. Same(svc, f) /\ Same(svc, g) /\ f.judge = svc.judge /\ g.judge = svc.judge
    BY DEF Same, Sound, Fresh
  <1>3. UNCHANGED asked /\ svc' \in {f, g}
    BY DEF Stalls, GapOver
  <1> HIDE DEF f, g
  <1>4. HeldOn
    BY <1>1, <1>3, AskedStays DEF HeldOn
  <1>5. GoesDown(svc) => GoesDown(svc')
    BY <1>2, <1>3, SameDown DEF GoesDown, NothingComes
  <1> QED
    BY <1>4, <1>5 DEF HeldDown

-----------------------------------------------------------------------------
(* The teardown itself. *)
LEMMA StopsCoreDown ==
  ASSUME Sound(svc), AskedShape, StopsCore
  PROVE  AskedOn /\ svc'.off = "core" /\ svc.off = "tuns" /\ svc'.bootCancelled = svc.bootCancelled /\ (GoesDown(svc) => GoesDown(svc'))
  <1>1. AskedOn
    BY AskedStays DEF StopsCore
  <1>2. /\ svc'.off = "core" /\ svc.off = "tuns" /\ svc'.bootCancelled = svc.bootCancelled
        /\ svc'.offWaits = svc.core /\ svc'.core = svc.core
        /\ svc'.drops = svc.drops /\ svc'.timer = svc.timer /\ svc'.net = svc.net /\ svc'.judge = svc.judge /\ svc'.watch = svc.watch
        /\ svc'.lastIsOff = svc.lastIsOff /\ svc'.calls = svc.calls /\ svc'.gateways = svc.gateways
    BY DEF StopsCore, Sound, Fresh
  <1>3. GoesDown(svc) => GoesDown(svc')
    BY <1>2 DEF GoesDown, NothingComes, Overtaken, GatewaysDown, Disconnecting, CoreGoes, CoreStops
  <1> QED
    BY <1>1, <1>2, <1>3

LEMMA IsDownDown ==
  ASSUME Sound(svc), AskedShape, IsDown
  PROVE  AskedOn /\ svc'.off = "none" /\ svc.off = "core" /\ svc'.bootCancelled = svc.bootCancelled /\ (GoesDown(svc) => GoesDown(svc'))
  <1> DEFINE v == CoreGone(svc, svc.offWaits)
  <1>1. AskedOn /\ svc.off = "core"
    BY AskedStays DEF IsDown
  <1>2. Sound(v) /\ Held(svc, v) /\ v.calls = svc.calls /\ (GoesDown(svc) => GoesDown(v))
    BY CoreGoneSound, CoreGoneHeld, CoreGoneDown
  <1>3. svc' = [v EXCEPT !.off = "none", !.offWaits = NoSlot, !.active = NoId, !.shown = FALSE]
    BY DEF IsDown
  <1>4. v.offWaits = svc.offWaits
    BY DEF CoreGone, Sound, Fresh
  <1>5. CoreStops(v) => v.core = NoSlot
    <2> SUFFICES ASSUME v.core # NoSlot, CoreStops(v) PROVE FALSE
      OBVIOUS
    <2>1. v.off = "core"
      BY <1>1, <1>2 DEF Held
    <2>2. v.core = svc.offWaits
      BY <1>4, <2>1 DEF CoreStops
    <2> QED
      BY <2>2 DEF CoreGone, Sound, Fresh
  <1> HIDE DEF v
  <1>6. /\ svc'.off = "none" /\ svc'.bootCancelled = v.bootCancelled
        /\ svc'.active = NoId /\ svc'.core = v.core
        /\ svc'.drops = v.drops /\ svc'.timer = v.timer /\ svc'.net = v.net /\ svc'.judge = v.judge /\ svc'.watch = v.watch
        /\ svc'.lastIsOff = v.lastIsOff /\ svc'.calls = v.calls /\ svc'.gateways = v.gateways
    BY <1>2, <1>3 DEF Sound, Fresh
  <1>7. ASSUME GoesDown(svc) PROVE GoesDown(svc')
    <2>1. NothingComes(svc') /\ Overtaken(svc') /\ GatewaysDown(svc')
      BY <1>2, <1>6, <1>7 DEF GoesDown, NothingComes, Overtaken, GatewaysDown
    <2>2. CoreGoes(svc')
      BY <1>2, <1>5, <1>6, <1>7 DEF GoesDown, CoreGoes, CoreStops
    <2> QED
      BY <1>6, <2>1, <2>2 DEF GoesDown
  <1> QED
    BY <1>1, <1>2, <1>6, <1>7 DEF Held

(* No step but the commands, the teardown's begin and a restart changes    *)
(* whether the off is under way.                                           *)
LEMMA OffGoesOn ==
  ASSUME OffInv, AskedOn, svc'.off = "disarming" <=> svc.off = "disarming", svc'.bootCancelled = svc.bootCancelled,
         GoesDown(svc) /\ (svc.bootCancelled \/ intent = NoId) => GoesDown(svc') /\ intent' = intent
  PROVE  OffInv'
  <1>1. AskedShape' /\ asked'.what = asked.what /\ asked'.crossed = asked.crossed
    BY DEF AskedOn
  <1>2. OffBegun' => OffBegun
    BY <1>1 DEF OffBegun
  <1> QED
    BY <1>1, <1>2 DEF OffInv, AskedShape

LEMMA HeldGoesOn ==
  ASSUME OffInv, HeldOn,
         GoesDown(svc) /\ (svc.bootCancelled \/ intent = NoId) => GoesDown(svc') /\ intent' = intent
  PROVE  OffInv'
  BY OffGoesOn DEF HeldOn, Held

LEMMA ItselfOff == ASSUME OffInv, UNCHANGED <<svc, asked, intent>> PROVE OffInv'
  BY DEF OffInv, OffBegun

LEMMA ConnectOff == ASSUME Sound(svc), OffInv, NEW id \in Ids, Connect(id) PROVE OffInv'
  <1> DEFINE u == EndsPending(svc)
             v == [u EXCEPT !.bootCancelled = TRUE, !.rebuilt = FALSE]
  <1>1. Sound(u) /\ u.off = svc.off
    BY EndsPendingSound DEF EndsPending, Sound, Fresh
  <1>2. svc' = IF AlreadyUp(v, id) THEN v ELSE Connects(v, Slot(v), id, "connect", "none")
    BY DEF Connect
  <1>3. asked' = [Nothing EXCEPT !.what = Last("connect"), !.amid = InFlight(svc) # {}]
    BY DEF Connect
  <1> HIDE DEF u
  <1>4. Sound(v) /\ v.off = svc.off /\ v.bootCancelled
    BY <1>1 DEF Sound, Fresh
  <1> HIDE DEF v
  <1>5. svc'.off = svc.off /\ svc'.bootCancelled
    BY <1>2, <1>4, ConnectsHeld DEF Held
  <1>6. AskedShape' /\ asked'.what = Last("connect")
    BY <1>3 DEF AskedShape, Nothing
  <1>7. Last("connect") = IF svc.off = "disarming" THEN "ended" ELSE "connect"
    BY DEF Last
  <1>8. ~OffBegun'
    BY <1>5, <1>6, <1>7 DEF OffBegun
  <1> QED
    BY <1>5, <1>6, <1>8 DEF OffInv, AskedShape

LEMMA ReconnectOff == ASSUME Sound(svc), OffInv, Reconnect PROVE OffInv'
  <1> DEFINE v == EndsPending(svc)
  <1>1. Sound(v)
    BY EndsPendingSound
  <1>2. Held(svc, v)
    BY Fields DEF EndsPending, Sound, Held
  <1>3. svc' = HandOver(v) \/ svc' = Reapplies(v, "reapply", "none")
    BY DEF Reconnect, Refused
  <1>4. asked' = [Nothing EXCEPT !.what = Last("reconnect"), !.amid = InFlight(svc) # {}]
    BY DEF Reconnect
  <1> HIDE DEF v
  <1>5. Held(svc, svc')
    BY <1>1, <1>2, <1>3, HandOverHeld, ReappliesHeld DEF Held
  <1>6. AskedShape' /\ asked'.what = Last("reconnect")
    BY <1>4 DEF AskedShape, Nothing
  <1>7. svc.off # "disarming" => Last("reconnect") \in {"either", "reconnect"}
    BY DEF Last
  <1>8. ~OffBegun'
    BY <1>5, <1>6, <1>7 DEF OffBegun, Held
  <1> QED
    BY <1>5, <1>6, <1>8 DEF OffInv, AskedShape, Held

LEMMA DisconnectOff == ASSUME Sound(svc), OffInv, Disconnect PROVE OffInv'
  <1>1. svc'.off = "disarming" /\ svc'.bootCancelled
    BY DEF Disconnect, Sound, Fresh
  <1>2. AskedShape'
    BY DEF Disconnect, AskedShape, Nothing
  <1> QED
    BY <1>1, <1>2 DEF OffInv, OffBegun, AskedShape

(* The teardown begins: what is under way is overtaken, and its recovery   *)
(* has lost its lock.                                                      *)
LEMMA ResetDown ==
  ASSUME NEW v, Sound(v), NEW s \in Slots
  PROVE  LET c == Resets(Bumped(v)).calls[s] IN c.pc # "idle" => c.stale /\ (c.by = "recovery" => c.reset)
  <1> DEFINE b == Bumped(v)
             c == b.calls[s]
             e == [v.calls[s] EXCEPT !.stale = TRUE]
             d == IF c.by = "recovery" THEN [c EXCEPT !.reset = TRUE] ELSE c
  <1>0. Sound(b)
    BY BumpedSound
  <1>1. Sound(b) /\ c = IF v.calls[s].pc = "idle" THEN v.calls[s] ELSE e
    BY <1>0, BumpedCalls
  <1>2. e.stale
    BY DEF Sound, Known, Idle
  <1> HIDE DEF b, e
  <1>3. (c.pc # "idle" => c.stale) /\ Known(c)
    BY <1>1, <1>2 DEF Sound
  <1>4. Resets(b).calls[s] = d
    BY <1>1 DEF Resets, Sound, Fresh
  <1> HIDE DEF c
  <1>5. d.pc # "idle" => d.stale /\ (d.by = "recovery" => d.reset)
    BY <1>3 DEF Known, Idle
  <1> QED
    BY <1>4, <1>5 DEF b, c

LEMMA TearsDownOff == ASSUME Sound(svc), OffInv, TearsDown PROVE OffInv'
  <1> DEFINE r == Resets(Bumped(svc))
             w == StopsWatching(r)
  <1>1. /\ svc.off = "disarming" /\ svc.bootCancelled
        /\ svc' = [w EXCEPT !.lastIsOff = TRUE, !.rebuilt = FALSE, !.off = "tuns", !.gateways = StopTuns(w.gateways)]
        /\ asked' = [asked EXCEPT !.crossed = svc.drops # {}]
    BY DEF TearsDown, OffInv
  <1>2. AskedShape' /\ (OffBegun' => svc.drops = {})
    BY <1>1 DEF OffInv, AskedShape, OffBegun, Nothing
  <1>3. LET b == Bumped(svc) IN
        Sound(b) /\ b.drops = svc.drops /\ b.judge # "asking" /\ b.bootCancelled = svc.bootCancelled
    BY BumpedSound, BumpedLeaves
  <1>4. /\ r = [f \in DOMAIN Fresh |-> r[f]]
        /\ r.drops = svc.drops /\ r.judge # "asking" /\ r.bootCancelled = svc.bootCancelled
    BY <1>3, Fields DEF Resets, Sound
  <1>5. \A s \in Slots : r.calls[s].pc # "idle" => r.calls[s].stale /\ (r.calls[s].by = "recovery" => r.calls[s].reset)
    BY ResetDown
  <1> HIDE DEF r
  <1>6. /\ w = [f \in DOMAIN Fresh |-> w[f]] /\ w.calls = r.calls
        /\ w.drops = svc.drops /\ w.judge # "asking" /\ w.bootCancelled = svc.bootCancelled
        /\ ~w.net /\ w.timer = "none" /\ w.watch = "off"
    BY <1>4, Fields DEF StopsWatching
  <1> HIDE DEF w
  <1>7. /\ svc'.calls = r.calls /\ svc'.lastIsOff /\ svc'.off = "tuns" /\ svc'.gateways = StopTuns(w.gateways)
        /\ svc'.drops = svc.drops /\ svc'.judge # "asking" /\ svc'.bootCancelled = svc.bootCancelled
        /\ ~svc'.net /\ svc'.timer = "none" /\ svc'.watch = "off"
    BY <1>1, <1>6 DEF Fresh
  <1>8. GatewaysDown(svc')
    BY <1>7 DEF GatewaysDown, StopTuns
  <1>9. OffBegun' => GoesDown(svc')
    BY <1>2, <1>5, <1>7, <1>8 DEF GoesDown, NothingComes, Overtaken, CoreGoes, CoreStops, Disconnecting
  <1> QED
    BY <1>1, <1>2, <1>7, <1>9 DEF OffInv, AskedShape

(* A service that is started again has nothing to take down. *)
LEMMA LaunchedDown == GoesDown(Launched) /\ Launched.off = "none"
  <1>1. \A s \in Slots : Launched.calls[s].pc = "idle"
    BY DEF Launched, Fresh, Idle
  <1>2. NothingComes(Launched) /\ Launched.core = NoSlot /\ Launched.active = NoId /\ Launched.off = "none"
    BY DEF NothingComes, Launched, Fresh
  <1>3. GatewaysDown(Launched)
    BY DEF GatewaysDown, Launched, Fresh
  <1> QED
    BY <1>1, <1>2, <1>3 DEF GoesDown, Overtaken, CoreGoes, CoreStops

LEMMA RestartedOff == ASSUME Restarted PROVE OffInv'
  <1>1. svc' = Launched
    BY DEF Restarted
  <1>2. asked' = (IF intent' = NoId THEN [Nothing EXCEPT !.what = asked.what] ELSE Nothing)
    BY DEF Restarted
  <1>3. AskedShape' /\ (intent' # NoId => asked'.what = "nothing")
    BY <1>2 DEF AskedShape, Nothing
  <1>4. OffBegun' => intent' = NoId
    BY <1>3 DEF OffBegun
  <1> QED
    BY <1>1, <1>3, <1>4, LaunchedDown DEF OffInv, AskedShape

LEMMA OffInitial == Init => OffInv
  <1> SUFFICES ASSUME Init PROVE OffInv
    OBVIOUS
  <1>1. svc.off = "none" /\ asked = Nothing
    BY LaunchedDown DEF Init
  <1> QED
    BY <1>1 DEF OffInv, OffBegun, Nothing

LEMMA OffInductive == RouterInv /\ OffInv /\ [Next]_rVars => OffInv'
  <1> SUFFICES ASSUME RouterInv, OffInv, [Next]_rVars PROVE OffInv'
    OBVIOUS
  <1>0. Sound(svc) /\ AskedShape
    BY DEF RouterInv, OffInv, AskedShape
  <1>1. CASE \E s \in Slots : CallSteps(s)
    <2>1. HeldOn
      BY <1>0, <1>1, CallStepsHeld
    <2>2. GoesDown(svc) => GoesDown(svc') /\ intent' = intent
      BY <1>0, <1>1, CallStepsDown DEF ksVars
    <2> QED
      BY <2>1, <2>2, HeldGoesOn
  <1>2. CASE Commands
    <2>1. CASE SetSwitch \/ SetFollow
      BY <2>1, ItselfOff DEF SetSwitch, SwitchSet, SetFollow, KsRest, ksVars
    <2> QED
      BY <1>0, <1>2, <2>1, ConnectOff, ReconnectOff, DisconnectOff DEF Commands
  <1>3. ASSUME HeldDown, KsRest PROVE OffInv'
    BY <1>3, HeldGoesOn DEF HeldDown, KsRest, ksVars
  <1>4. CASE Service
    <2>1. CASE TearsDown
      BY <1>0, <2>1, TearsDownOff
    <2>2. CASE StopsCore
      <3>1. intent' = intent
        BY <2>2 DEF StopsCore, KsRest, ksVars
      <3> QED
        BY <1>0, <2>2, <3>1, StopsCoreDown, OffGoesOn
    <2>3. CASE IsDown
      <3>1. intent' = intent
        BY <2>3 DEF IsDown, KsRest, ksVars
      <3> QED
        BY <1>0, <2>3, <3>1, IsDownDown, OffGoesOn
    <2>4. CASE BootConnect
      <3>1. intent' = intent
        BY <2>4 DEF BootConnect, KsRest, ksVars
      <3> QED
        BY <1>0, <2>4, <3>1, BootConnectHeld, HeldGoesOn
    <2>5. CASE DropTaken \/ TimerFires
      BY <1>0, <1>3, <2>5, DropTakenHeld, TimerFiresHeld DEF DropTaken, TimerFires
    <2>6. CASE WanJudged \/ WatchAsks \/ WatchHears
      BY <1>0, <1>3, <2>6, WanHeld, WatchHeld DEF WanJudged, WatchAsks, WatchHears
    <2> QED
      BY <1>1, <1>4, <2>1, <2>2, <2>3, <2>4, <2>5, <2>6 DEF Service
  <1>5. CASE World
    <2>1. CASE CoreDies \/ GatewayDies
      BY <1>0, <1>3, <2>1, CoreDiesHeld, GatewayDiesHeld DEF CoreDies, GatewayDies
    <2>2. CASE WanChanges \/ Stalls \/ GapOver
      BY <1>0, <1>3, <2>2, WanHeld, StallHeld DEF WanChanges, Stalls, GapOver
    <2> QED
      BY <1>5, <2>1, <2>2, RestartedOff DEF World
  <1>6. CASE SwitchItself
    <2>1. intent' = intent
      BY <1>6 DEF SwitchItself, QueueRuns, PassBegins, Check, Load, Armed, Disarm, Verify, Flushed, AutoConnectSet
    <2> QED
      BY <1>6, <2>1, ItselfOff DEF SwitchItself
  <1>7. CASE UNCHANGED rVars
    BY <1>7, ItselfOff DEF rVars, ksVars
  <1>8. ASSUME NEW s \in Gone, Started(s) PROVE \E t \in Slots : CallSteps(t)
    BY <1>8 DEF Gone, CallSteps
  <1> QED
    BY <1>1, <1>2, <1>4, <1>5, <1>6, <1>7, <1>8 DEF Next

LEMMA OffEnough == OffInv => OffIsDown
  <1> SUFFICES ASSUME OffInv, asked.what \in {"off", "ended"}, ~asked.crossed, Settles
               PROVE  svc.active = NoId /\ svc.core = NoSlot /\ \A t \in Slots : svc.gateways[t] # "up"
    BY DEF OffIsDown
  <1>1. GoesDown(svc) /\ svc.off = "none" /\ \A s \in Slots : svc.calls[s].pc = "idle"
    BY DEF OffInv, OffBegun, Settles, At
  <1>2. CoreStops(svc)
    BY <1>1 DEF GoesDown, CoreGoes, Gives, After
  <1> QED
    BY <1>1, <1>2 DEF GoesDown, CoreStops, GatewaysDown, Disconnecting

(* Off is down: once the teardown of a disconnect has begun, every connect, *)
(* rebuild and recovery it met is one it overtook, which gives up its core *)
(* and its gateway and is retried by nobody - whatever dies, restarts or   *)
(* times out meanwhile.                                                    *)
THEOREM RouterOffIsDown == Spec => []OffIsDown
  <1>1. OffInv => OffIsDown
    BY OffEnough
  <1> QED
    BY <1>1, RouterInitial, OffInitial, OffInductive, RouterInvariance, PTL DEF Spec
=============================================================================
