---------------------------- MODULE ClassesProof ----------------------------
(***************************************************************************)
(* Theorems about three parts that stand by themselves: Store, NetWatcher  *)
(* and SysProxy (the names of the first two for the usual parts begin with *)
(* St and Nw).                                                             *)
(*                                                                         *)
(* Store, for any keys and values: its types, which files a launch may     *)
(* meet, and that it implements DurableStore.  NeverOlder is not inductive *)
(* alone: what a step leaves on the disk depends on how far save() has     *)
(* come, which Progress adds.                                              *)
(*                                                                         *)
(* NetWatcher, for any networks, poll period, debounce and number of       *)
(* moves, pokes and stops.  NwInv is inductive: a change is seen as one    *)
(* that left the baseline only because the baseline is what was last       *)
(* looked at while nothing is owed to it (BaselineIsSeen), and the trigger *)
(* parked behind a recovery is never orphaned because the lock is exactly  *)
(* that recovery (LockIsTheRuns).                                          *)
(*                                                                         *)
(* SysProxy, for any sets of ports and foreign servers, any number of      *)
(* faults and of changes by others, with connects that may be early or     *)
(* not.  The inductive invariant is IInv: the types, OpShape (what an      *)
(* operation under way may rely on) and Recognised, which only OpShape     *)
(* makes inductive - the server an enable is about to write has to be      *)
(* listed.  UsersInv, on top of it, is about what the user had: it says    *)
(* what the machine is like between the operations and at each step of a   *)
(* restore.  Where the probe may fail to answer, or a connect may come     *)
(* before the launch repair, the properties are false, and the theorems    *)
(* exclude it.                                                             *)
(***************************************************************************)
EXTENDS Store, NetWatcher, SysProxy, TLAPS


-----------------------------------------------------------------------------
(* The settings store.                                                     *)

Saves == {"entered", "opened", "synced", "renamed"}

\* What save() has done at each of its steps.
Progress ==
  /\ step \in Saves => data \in attempted
  /\ step = "synced" => tmp = Whole(data)
  /\ step = "renamed" => file = Whole(data) /\ tmp = Missing

StInv == StTypeOK /\ NeverOlder /\ Progress

LEMMA FileFacts ==
  /\ Missing.is = "missing" /\ Torn.is = "torn"
  /\ \A d \in Data : Whole(d).is = "whole" /\ Whole(d).holds = d
  /\ \A f \in Files : f.is = "whole" => f.holds \in Data /\ f = Whole(f.holds)
  /\ \A d \in Data : Whole(d) \in Files
  /\ Missing \in Files /\ Torn \in Files
<1>1. Missing.is = "missing" /\ Torn.is = "torn"
  BY DEF Missing, Torn
<1>2. \A d \in Data : Whole(d).is = "whole" /\ Whole(d).holds = d
  BY DEF Whole
<1>3. \A d \in Data : Whole(d) \in Files
  BY DEF Files
<1>4. Missing \in Files /\ Torn \in Files
  BY DEF Files
<1>5. \A f \in Files : f.is = "whole" => f.holds \in Data /\ f = Whole(f.holds)
  BY <1>1, <1>2 DEF Files
<1> QED BY <1>1, <1>2, <1>3, <1>4, <1>5

LEMMA DefaultsTyped == Defaults \in Data
BY StoreAssumption DEF Defaults, Data

LEMMA RecoveredTyped ==
  ASSUME StInv PROVE Recovered \in Data /\ Recovered \in {Defaults, reported} \cup attempted
BY DefaultsTyped, FileFacts DEF StInv, StTypeOK, NeverOlder, Recovered

LEMMA StInitInv == StInit => StInv
BY DefaultsTyped, FileFacts DEF StInit, StInv, StTypeOK, NeverOlder, Progress, SaveSteps, Saves

LEMMA StNextInv == StInv /\ [StNext]_stVars => StInv'
<1> SUFFICES ASSUME StInv, [StNext]_stVars PROVE StInv'
  OBVIOUS
<1> USE FileFacts
<1>1. ASSUME NEW d \in Data, EnterSave(d) PROVE StInv'
  BY <1>1 DEF EnterSave, StInv, StTypeOK, NeverOlder, Progress, Saves, SaveSteps, disk
<1>2. ASSUME NEW k \in Keys, NEW v \in Values PROVE With(k, v) \in Data
  BY DEF With, StInv, StTypeOK, Data
<1>3. CASE Set
  BY <1>1, <1>2, <1>3 DEF Set
<1>4. CASE SetLazy
  BY <1>2, <1>4 DEF SetLazy, StInv, StTypeOK, NeverOlder, Progress, Saves, SaveSteps, disk, history
<1>5. CASE WriteLazy
  BY <1>1, <1>5 DEF WriteLazy, StInv, StTypeOK
<1>6. CASE SaveOpen
  BY <1>6 DEF SaveOpen, StInv, StTypeOK, NeverOlder, Progress, Saves, SaveSteps, memory, history
<1>7. CASE SaveSync
  BY <1>7 DEF SaveSync, StInv, StTypeOK, NeverOlder, Progress, Saves, SaveSteps, memory, history
<1>8. CASE SaveRename
  BY <1>8 DEF SaveRename, StInv, StTypeOK, NeverOlder, Progress, Saves, SaveSteps, memory, history
<1>9. CASE SaveReturn
  BY <1>9 DEF SaveReturn, StInv, StTypeOK, NeverOlder, Progress, Saves, SaveSteps, disk, memory
<1>10. CASE SaveFails
  BY <1>10 DEF SaveFails, StInv, StTypeOK, NeverOlder, Progress, Saves, SaveSteps, memory, history
<1>11. CASE Dies
  BY <1>11 DEF Dies, StInv, StTypeOK, NeverOlder, Progress, Saves, SaveSteps, disk, history
<1>12. CASE Load
  <2>1. CASE LoadFile
    BY <2>1 DEF LoadFile, Launched, StInv, StTypeOK, NeverOlder, Progress, Saves, SaveSteps, disk, history
  <2>2. CASE LoadFirst
    BY <2>2, RecoveredTyped
    DEF LoadFirst, Launched, StInv, StTypeOK, NeverOlder, Progress, Saves, SaveSteps, disk, history
  <2>3. CASE LoadUnreadable
    BY <2>3, RecoveredTyped, DefaultsTyped
    DEF LoadUnreadable, Launched, StInv, StTypeOK, NeverOlder, Progress, Saves, SaveSteps
  <2> QED BY <1>12, <2>1, <2>2, <2>3 DEF Load
<1>13. CASE UNCHANGED stVars
  BY <1>13 DEF stVars, disk, memory, history, StInv, StTypeOK, NeverOlder, Progress
<1> QED
  BY <1>3, <1>4, <1>5, <1>6, <1>7, <1>8, <1>9, <1>10, <1>11, <1>12, <1>13 DEF StNext, Saving

LEMMA StInductive == StSpec => []StInv
BY StInitInv, StNextInv, PTL DEF StSpec

\* Of the file and the .tmp beside it, whichever a launch reads was entered
\* into save() no earlier than the last save reported (save, load).
THEOREM NoOlderFile == StSpec => []NeverOlder
<1>1. StInv => NeverOlder
  BY DEF StInv
<1> QED BY <1>1, StInductive, PTL

LEMMA InitMaps == StInit => Promise!Init
BY DEF StInit, Promise!Init

LEMMA StepMaps == StInv /\ [StNext]_stVars => [Promise!Next]_(Promise!vars)
<1> SUFFICES ASSUME StInv, [StNext]_stVars PROVE [Promise!Next]_(Promise!vars)
  OBVIOUS
<1> USE FileFacts
<1>1. ASSUME NEW d \in Data, EnterSave(d) PROVE Promise!Begin
  BY <1>1 DEF EnterSave, Promise!Begin
<1>2. ASSUME NEW k \in Keys, NEW v \in Values PROVE With(k, v) \in Data
  BY DEF With, StInv, StTypeOK, Data
<1>3. CASE Set
  BY <1>1, <1>2, <1>3 DEF Set, Promise!Next
<1>4. CASE SetLazy
  BY <1>2, <1>4 DEF SetLazy, Promise!Next, Promise!Change, history
<1>5. CASE WriteLazy
  BY <1>1, <1>5 DEF WriteLazy, Promise!Next, StInv, StTypeOK
<1>6. CASE SaveOpen \/ SaveSync \/ SaveRename \/ SaveFails
  BY <1>6 DEF SaveOpen, SaveSync, SaveRename, SaveFails, memory, history, Promise!vars
<1>7. CASE SaveReturn
  BY <1>7 DEF SaveReturn, memory, Promise!Next, Promise!Report
<1>8. CASE Dies
  BY <1>8 DEF Dies, history, Promise!Next, Promise!Crash
<1>9. CASE Load
  <2>1. CASE LoadFile
    BY <2>1 DEF LoadFile, Launched, history, StInv, NeverOlder, Promise!Next, Promise!Launch
  <2>2. CASE LoadFirst
    BY <2>2, RecoveredTyped
    DEF LoadFirst, Launched, history, StInv, NeverOlder, Promise!Next, Promise!Launch
  <2>3. CASE LoadUnreadable
    BY <2>3, RecoveredTyped DEF LoadUnreadable, Launched, Promise!Next, Promise!LaunchTelling
  <2> QED BY <1>9, <2>1, <2>2, <2>3 DEF Load
<1>10. CASE UNCHANGED stVars
  BY <1>10 DEF stVars, memory, history, Promise!vars
<1> QED
  BY <1>3, <1>4, <1>5, <1>6, <1>7, <1>8, <1>9, <1>10 DEF StNext, Saving

\* The store implements its promise: a value reported saved is the one the
\* next launch finds, or one begun later, unless that launch says that it
\* could not read the file (class Store against its header comment).
THEOREM StoreKeepsPromise == StSpec => KeepsPromise
<1>1. StInit => Promise!Init
  BY InitMaps
<1>2. StInv /\ [StNext]_stVars => [Promise!Next]_(Promise!vars)
  BY StepMaps
<1> QED BY <1>1, <1>2, StInductive, PTL DEF StSpec, KeepsPromise, Promise!Spec

-----------------------------------------------------------------------------
(* The watcher of the network.                                             *)

\* The three parts of NwTypeOK: fingerprints, flags, and what is counted.
Names  == /\ net \in Fingerprints /\ last \in Fingerprints /\ seen \in Fingerprints
          /\ pending \in Fingerprints \cup {NoPending}
Flags  == {watching, moved, busy, queued, owed} \subseteq BOOLEAN
Counts == /\ settledFor \in 0..Debounce
          /\ gen \in 0..MaxStops
          /\ runs \in SUBSET (0..MaxStops) /\ hung \in SUBSET runs
          /\ moves \in 0..MaxMoves /\ pokes \in 0..MaxPokes

LEMMA TypeParts == NwTypeOK <=> Names /\ Flags /\ Counts
BY DEF NwTypeOK, Names, Flags, Counts

\* What firing does to the lock and the recoveries: one recovery runs after it,
\* or the trigger waits behind the one that does.
LEMMA FireKeepsLock ==
  ASSUME NwInv, Fire, UNCHANGED gen
  PROVE  /\ {busy', queued'} \subseteq BOOLEAN
         /\ runs' \in SUBSET (0..MaxStops) /\ runs \subseteq runs'
         /\ \A g \in runs' : g <= gen
         /\ LockIsTheRuns'
         /\ busy => queued'
<1> USE NetWatcherAssumption DEF NwInv, NwTypeOK, LockIsTheRuns
<1>1. CASE busy /\ queued' = TRUE /\ UNCHANGED <<busy, runs>>
  BY <1>1
<1>2. CASE ~busy /\ busy' = TRUE /\ runs' = runs \cup {gen} /\ UNCHANGED queued
  BY <1>2
<1>3. CASE ~busy /\ UNCHANGED <<busy, runs, queued>>
  BY <1>3
<1> QED  BY <1>1, <1>2, <1>3 DEF Fire

LEMMA NwInitInv == NwInit => NwInv
<1> SUFFICES ASSUME NwInit PROVE NwInv
  OBVIOUS
<1> USE NetWatcherAssumption DEF NwInit
<1>1. Names
  BY DEF Names
<1>2. Flags
  BY DEF Flags
<1>3. Counts
  BY DEF Counts
<1> QED  BY <1>1, <1>2, <1>3, TypeParts DEF NwInv, LockIsTheRuns, NothingLost, BaselineIsSeen

LEMMA StartInv == NwInv /\ Start => NwInv'
<1> SUFFICES ASSUME NwInv, Start PROVE NwInv'
  OBVIOUS
<1> USE NetWatcherAssumption DEF Start, Saw, NwInv
<1>1. NwTypeOK'
  <2>1. Names'
    BY TypeParts DEF Names
  <2>2. Flags'
    BY TypeParts DEF Flags
  <2>3. Counts'
    BY TypeParts DEF Counts
  <2> QED  BY <2>1, <2>2, <2>3 DEF NwTypeOK, Names, Flags, Counts
<1>2. (\A g \in runs' : g <= gen') /\ LockIsTheRuns' /\ NothingLost' /\ BaselineIsSeen'
  BY DEF LockIsTheRuns, NothingLost, BaselineIsSeen
<1> QED  BY <1>1, <1>2

LEMMA StopInv == NwInv /\ Stop => NwInv'
<1> SUFFICES ASSUME NwInv, Stop PROVE NwInv'
  OBVIOUS
<1> USE NetWatcherAssumption DEF Stop, Released, NwInv
<1>1. NwTypeOK'
  <2>1. Names'
    BY TypeParts DEF Names
  <2>2. Flags'
    BY TypeParts DEF Flags
  <2>3. Counts'
    BY TypeParts DEF Counts
  <2> QED  BY <2>1, <2>2, <2>3 DEF NwTypeOK, Names, Flags, Counts
<1>2. gen' \notin runs'
  BY DEF NwTypeOK
<1>3. \A g \in runs' : g <= gen'
  BY DEF NwTypeOK
<1>4. LockIsTheRuns'
  BY <1>2 DEF LockIsTheRuns
<1>5. NothingLost' /\ BaselineIsSeen'
  BY DEF NothingLost, BaselineIsSeen
<1> QED  BY <1>1, <1>3, <1>4, <1>5

\* A poll that finds the network moving, or not yet still for long enough,
\* remembers that it has left the baseline.
LEMMA TickEarlyInv == NwInv /\ (TickMoving \/ TickHolding) => NwInv'
<1> SUFFICES ASSUME NwInv, TickMoving \/ TickHolding PROVE NwInv'
  OBVIOUS
<1> USE NetWatcherAssumption DEF TickMoving, TickHolding, Saw, LeftBaseline, NwInv
<1>1. NwTypeOK'
  <2>1. Names'
    BY TypeParts DEF Names
  <2>2. Flags'
    BY TypeParts DEF Flags
  <2>3. Counts'
    BY TypeParts DEF Counts
  <2> QED  BY <2>1, <2>2, <2>3 DEF NwTypeOK, Names, Flags, Counts
<1>2. (\A g \in runs' : g <= gen') /\ LockIsTheRuns'
  BY DEF LockIsTheRuns
<1>3. NothingLost'
  BY DEF NothingLost, BaselineIsSeen
<1>4. BaselineIsSeen'
  BY DEF BaselineIsSeen
<1> QED  BY <1>1, <1>2, <1>3, <1>4

LEMMA TickSettledInv == NwInv /\ TickSettled => NwInv'
<1> SUFFICES ASSUME NwInv, TickSettled PROVE NwInv'
  OBVIOUS
<1> USE NetWatcherAssumption DEF NwInv
<1>1. /\ last' = net /\ pending' = NoPending /\ settledFor' = 0
      /\ moved' = (LeftBaseline /\ net = NoNet) /\ seen' = net
      /\ UNCHANGED <<net, watching, gen, hung, moves, pokes>>
  BY DEF TickSettled, Saw
<1>2. CASE LeftBaseline /\ net # NoNet
  <2>1. Fire /\ owed' = busy
    BY <1>2 DEF TickSettled, Saw
  <2>2. NwTypeOK'
    <3>1. Names'
      BY <1>1, <2>1, FireKeepsLock, TypeParts DEF Names
    <3>2. Flags'
      BY <1>1, <2>1, FireKeepsLock, TypeParts DEF Flags
    <3>3. Counts'
      BY <1>1, <2>1, FireKeepsLock, TypeParts DEF Counts
    <3> QED  BY <3>1, <3>2, <3>3 DEF NwTypeOK, Names, Flags, Counts
  <2>3. (\A g \in runs' : g <= gen') /\ LockIsTheRuns'
    BY <1>1, <2>1, FireKeepsLock
  <2>4. NothingLost'
    BY <1>1, <2>1, FireKeepsLock DEF NothingLost
  <2>5. BaselineIsSeen'
    BY <1>1 DEF BaselineIsSeen
  <2> QED  BY <2>2, <2>3, <2>4, <2>5
<1>3. CASE ~(LeftBaseline /\ net # NoNet)
  <2>1. UNCHANGED <<busy, queued, runs>> /\ owed' = (owed \/ net # seen)
    BY <1>3 DEF TickSettled, Saw
  <2>2. NwTypeOK'
    <3>1. Names'
      BY <1>1, <2>1, TypeParts DEF Names
    <3>2. Flags'
      BY <1>1, <2>1, TypeParts DEF Flags
    <3>3. Counts'
      BY <1>1, <2>1, TypeParts DEF Counts
    <3> QED  BY <3>1, <3>2, <3>3 DEF NwTypeOK, Names, Flags, Counts
  <2>3. (\A g \in runs' : g <= gen') /\ LockIsTheRuns'
    BY <1>1, <2>1 DEF LockIsTheRuns
  <2>4. NothingLost'
    BY <1>1, <1>3, <2>1 DEF NothingLost, BaselineIsSeen, LeftBaseline, TickSettled
  <2>5. BaselineIsSeen'
    BY <1>1 DEF BaselineIsSeen
  <2> QED  BY <2>2, <2>3, <2>4, <2>5
<1> QED  BY <1>2, <1>3

LEMMA PokeInv == NwInv /\ Poke => NwInv'
<1> SUFFICES ASSUME NwInv, Poke PROVE NwInv'
  OBVIOUS
<1> USE NetWatcherAssumption DEF NwInv
<1>1. /\ pokes < MaxPokes /\ pokes' = pokes + 1
      /\ last' = net /\ moved' = FALSE /\ seen' = net /\ owed' = busy
      /\ Fire
      /\ UNCHANGED <<net, watching, pending, settledFor, gen, hung, moves>>
  BY DEF Poke, Saw
<1>2. NwTypeOK'
  <2>1. Names'
    BY <1>1, FireKeepsLock, TypeParts DEF Names
  <2>2. Flags'
    BY <1>1, FireKeepsLock, TypeParts DEF Flags
  <2>3. Counts'
    BY <1>1, FireKeepsLock, TypeParts DEF Counts
  <2> QED  BY <2>1, <2>2, <2>3 DEF NwTypeOK, Names, Flags, Counts
<1>3. (\A g \in runs' : g <= gen') /\ LockIsTheRuns'
  BY <1>1, FireKeepsLock
<1>4. NothingLost'
  BY <1>1, FireKeepsLock DEF NothingLost
<1>5. BaselineIsSeen'
  BY <1>1 DEF BaselineIsSeen
<1> QED  BY <1>2, <1>3, <1>4, <1>5

\* A recovery that returns releases the lock it holds, and no other.
LEMMA RunSettlesInv == NwInv /\ RunSettles => NwInv'
<1> SUFFICES ASSUME NwInv, RunSettles PROVE NwInv'
  OBVIOUS
<1> USE NetWatcherAssumption DEF NwInv
<1>1. PICK g \in runs \ hung :
        /\ Settle(g)
        /\ UNCHANGED <<net, watching, last, pending, settledFor, moved, gen, hung, moves, pokes, seen>>
  BY DEF RunSettles
<1>2. NwTypeOK'
  <2>1. Names'
    BY <1>1, TypeParts DEF Names
  <2>2. Flags'
    BY <1>1, TypeParts DEF Flags, Settle
  <2>3. Counts'
    BY <1>1, TypeParts DEF Counts, Settle
  <2> QED  BY <2>1, <2>2, <2>3 DEF NwTypeOK, Names, Flags, Counts
<1>3. \A h \in runs' : h <= gen'
  BY <1>1 DEF Settle
<1>4. LockIsTheRuns'
  BY <1>1 DEF LockIsTheRuns, Settle, NwTypeOK
<1>5. NothingLost'
  BY <1>1 DEF NothingLost, Settle
<1>6. BaselineIsSeen'
  BY <1>1 DEF BaselineIsSeen
<1> QED  BY <1>2, <1>3, <1>4, <1>5, <1>6

LEMMA EnvironmentInv == NwInv /\ (Hangs \/ Move) => NwInv'
<1> SUFFICES ASSUME NwInv, Hangs \/ Move PROVE NwInv'
  OBVIOUS
<1> USE NetWatcherAssumption DEF Hangs, Move, state, NwInv
<1>1. NwTypeOK'
  <2>1. Names'
    BY TypeParts DEF Names
  <2>2. Flags'
    BY TypeParts DEF Flags
  <2>3. Counts'
    BY TypeParts DEF Counts
  <2> QED  BY <2>1, <2>2, <2>3 DEF NwTypeOK, Names, Flags, Counts
<1>2. (\A g \in runs' : g <= gen') /\ LockIsTheRuns' /\ NothingLost' /\ BaselineIsSeen'
  BY DEF LockIsTheRuns, NothingLost, BaselineIsSeen
<1> QED  BY <1>1, <1>2

-----------------------------------------------------------------------------

\* The inductive invariant holds in every reachable state.
THEOREM NwInvariance == NwSpec => []NwInv
<1>1. NwInit => NwInv
  BY NwInitInv
<1>2. NwInv /\ [NwNext]_nwVars => NwInv'
  <2> SUFFICES ASSUME NwInv, [NwNext]_nwVars PROVE NwInv'
    OBVIOUS
  <2>1. CASE UNCHANGED nwVars
    BY <2>1 DEF nwVars, state, NwInv, NwTypeOK, LockIsTheRuns, NothingLost, BaselineIsSeen
  <2> QED
    BY <2>1, StartInv, StopInv, TickEarlyInv, TickSettledInv, PokeInv,
       RunSettlesInv, EnvironmentInv DEF NwNext, Tick
<1> QED  BY <1>1, <1>2, PTL DEF NwSpec

\* The watcher's fields stay within their types: the settling time is always
\* set back before it passes the debounce.
THEOREM NwTypeCorrect == NwSpec => []NwTypeOK
<1>1. NwInv => NwTypeOK
  BY DEF NwInv
<1> QED  BY <1>1, NwInvariance, PTL

\* The lock is held exactly while a recovery of this generation is in flight:
\* never two at once, never a lock without a recovery to release it.
THEOREM OneRecovery == NwSpec => []LockIsTheRuns
<1>1. NwInv => LockIsTheRuns
  BY DEF NwInv
<1> QED  BY <1>1, NwInvariance, PTL

\* No change that a poll saw is forgotten before a recovery has begun after it.
THEOREM NoChangeLost == NwSpec => []NothingLost
<1>1. NwInv => NothingLost
  BY DEF NwInv
<1> QED  BY <1>1, NwInvariance, PTL

-----------------------------------------------------------------------------
(* The system proxy.                                                       *)

\* An operation that has just begun.
LEMMA OpType ==
  ASSUME NEW k \in Kinds, NEW a \in Steps, NEW p \in Ports \cup {Absent}
  PROVE  /\ Op(k, a, p) \in Ops
         /\ Op(k, a, p).kind = k /\ Op(k, a, p).at = a /\ Op(k, a, p).port = p
  BY DEF Op, Ops

LEMMA IdleType == Idle \in Ops /\ Idle.at = "idle"
  BY DEF Idle, Ops, Kinds, Steps

\* A first record is a record, lists the port, and names the server that the
\* snapshot saw.
LEMMA RecordType ==
  ASSUME NEW p \in Ports, NEW found \in Settings \cup {Unknown}
  PROVE  /\ Record(p, found) \in Journals
         /\ p \in Record(p, found).written
         /\ Record(p, found).win # Unknown =>
              found # Unknown /\ Record(p, found).win.server = found.server
<1>1. CASE found = Unknown
  BY <1>1, SysProxyAssumption DEF Record, Journals
<1>2. CASE found # Unknown /\ found.on /\ found.server = p
  <2> DEFINE off == [found EXCEPT !.on = FALSE]
  <2>1. found \in Settings
    BY <1>2
  <2>2. off \in Settings /\ off.server = found.server
    BY <2>1 DEF Settings
  <2>3. Record(p, found) = [ours |-> p, written |-> {p}, win |-> off]
    BY <1>2 DEF Record
  <2> HIDE DEF off
  <2>4. Record(p, found).written = {p} /\ Record(p, found).win = off
    BY <2>3
  <2>5. Record(p, found) \in Journals
    BY <2>2, <2>3 DEF Journals
  <2> QED  BY <1>2, <2>2, <2>4, <2>5
<1>3. CASE found # Unknown /\ ~(found.on /\ found.server = p)
  BY <1>3 DEF Record, Journals
<1> QED  BY <1>1, <1>2, <1>3

\* A second enable adds a port to the record and keeps what it remembers.
LEMMA RenamedType ==
  ASSUME NEW p \in Ports, journal \in Journals
  PROVE  /\ Renamed(p) \in Journals
         /\ Renamed(p).written = journal.written \cup {p}
         /\ Renamed(p).win = journal.win
  BY DEF Renamed, Journals

\* The first operation leaves the queue, and nothing else runs.
LEMMA BeginsType ==
  ASSUME TypeOK, NEW k, NEW p, Begins(k, p)
  PROVE  queue' \in Seq(Waiting) /\ op = Idle
  BY DEF TypeOK, Begins

LEMMA CoreStoppedType ==
  TypeOK => CoreStopped \in [Ports -> {"free", "core", "other"}]
  BY DEF TypeOK, CoreStopped

LEMMA SettlesType ==
  ASSUME TypeOK, NEW k, Settles(k)
  PROVE  /\ op' = Idle
         /\ listener' \in [Ports -> {"free", "core", "other"}]
         /\ app' \in {"up", "down"}
  BY CoreStoppedType DEF TypeOK, Settles

LEMMA SpendType ==
  ASSUME TypeOK, Spend
  PROVE  journal' = NoJournal /\ users' \in Settings /\ edited' \in BOOLEAN
  BY DEF TypeOK, Spend

LEMMA FaultType ==
  ASSUME TypeOK, Fault
  PROVE  faults' \in 0..MaxFaults /\ torn' \in BOOLEAN
  BY SysProxyAssumption DEF TypeOK, Fault, Tears

LEMMA ReadsType ==
  ASSUME TypeOK, NEW found, Reads(found)
  PROVE  faults' \in 0..MaxFaults /\ torn' \in BOOLEAN /\ found \in {reg, Unknown}
  BY FaultType DEF TypeOK, Reads

\* A command leaves the registry as it was or as it was meant to be.
LEMMA CommandType ==
  ASSUME TypeOK, NEW r \in Settings, NEW done \in Ops, NEW failed \in Ops,
         Command(r, done, failed)
  PROVE  /\ reg' \in Settings /\ reg' \in {reg, r}
         /\ op' \in {done, failed}
         /\ faults' \in 0..MaxFaults /\ torn' \in BOOLEAN
  BY FaultType DEF TypeOK, Command

-----------------------------------------------------------------------------

LEMMA InitIInv == Init => IInv
<1> SUFFICES ASSUME Init PROVE IInv
  OBVIOUS
<1> USE SysProxyAssumption
<1>1. reg \in Settings
  <2>1. CASE reg \in {[on |-> o, server |-> x, list |-> l] :
                       o \in BOOLEAN, x \in Foreign, l \in {TheirList, Absent}}
    <3>1. PICK o \in BOOLEAN, x \in Foreign, l \in {TheirList, Absent} :
            reg = [on |-> o, server |-> x, list |-> l]
      BY <2>1
    <3> QED  BY <3>1 DEF Settings, Servers, Lists
  <2>2. CASE reg = [on |-> FALSE, server |-> Absent, list |-> Absent]
    BY <2>2 DEF Settings, Servers, Lists
  <2>3. CASE reg \in {[on |-> TRUE, server |-> p, list |-> OurList] : p \in Ports}
    <3>1. PICK p \in Ports : reg = [on |-> TRUE, server |-> p, list |-> OurList]
      BY <2>3
    <3> QED  BY <3>1 DEF Settings, Servers, Lists
  <2> QED  BY <2>1, <2>2, <2>3 DEF Init
<1>2. /\ journal = NoJournal /\ app = "down" /\ queue = <<>> /\ op = Idle
      /\ faults = 0 /\ edits = 0 /\ users = reg /\ edited = FALSE /\ torn = FALSE
      /\ listener = [p \in Ports |-> "free"]
  BY DEF Init
<1>3. TypeOK
  <2>1. listener \in [Ports -> {"free", "core", "other"}]
    BY <1>2
  <2>2. queue \in Seq(Waiting)
    BY <1>2
  <2>3. faults \in 0..MaxFaults /\ edits \in 0..MaxEdits
    BY <1>2
  <2> QED  BY <1>1, <1>2, <2>1, <2>2, <2>3, IdleType DEF TypeOK
<1> QED  BY <1>2, <1>3, IdleType DEF IInv, OpShape, Recognised

-----------------------------------------------------------------------------
(* The steps of an enable.                                                 *)

LEMMA BeginEnableIInv == IInv /\ BeginEnable => IInv'
<1> SUFFICES ASSUME IInv, BeginEnable PROVE IInv'
  OBVIOUS
<1> USE DEF IInv
<1>1. PICK p \in Ports, found \in {reg, Unknown} :
        /\ Begins("enable", p)
        /\ journal # NoJournal => found = reg
        /\ Reads(found)
        /\ journal' = IF journal = NoJournal THEN Record(p, found) ELSE Renamed(p)
        /\ op' = Op("enable", "server", p)
        /\ UNCHANGED <<reg, listener, app, edits, ghost>>
  BY DEF BeginEnable
<1>2. found \in Settings \cup {Unknown}
  BY DEF TypeOK
<1>3. /\ journal' \in Journals /\ p \in journal'.written
      /\ journal = NoJournal /\ journal'.win # Unknown => journal'.win.server = found.server /\ found = reg
      /\ journal # NoJournal => /\ journal'.win = journal.win
                                 /\ journal.written \subseteq journal'.written
  <2>1. CASE journal = NoJournal
    BY <1>1, <1>2, <2>1, RecordType
  <2>2. CASE journal # NoJournal
    <3>1. journal \in Journals
      BY <2>2 DEF TypeOK
    <3> QED  BY <1>1, <2>2, <3>1, RenamedType
  <2> QED  BY <2>1, <2>2
<1>4. journal' # NoJournal
  BY <1>3, SysProxyAssumption
<1>5. /\ op' \in Ops /\ op'.kind = "enable" /\ op'.at = "server" /\ op'.port = p
  BY <1>1, OpType DEF Kinds, Calls, Steps
<1>6. TypeOK'
  BY <1>1, <1>3, <1>5, BeginsType, ReadsType DEF TypeOK, ghost
<1>7. OpShape'
  BY <1>3, <1>4, <1>5 DEF OpShape
<1>8. Recognised'
  BY <1>1, <1>3 DEF Recognised, ghost
<1> QED  BY <1>6, <1>7, <1>8

LEMMA JournalWriteFailsIInv == IInv /\ JournalWriteFails => IInv'
<1> SUFFICES ASSUME IInv, JournalWriteFails PROVE IInv'
  OBVIOUS
<1>1. PICK p \in Ports :
        /\ Begins("enable", p) /\ Fault
        /\ UNCHANGED <<reg, journal, listener, app, op, edits, ghost>>
  BY DEF JournalWriteFails
<1>2. TypeOK'
  BY <1>1, BeginsType, FaultType DEF IInv, TypeOK, ghost
<1>3. OpShape' /\ Recognised'
  BY <1>1 DEF IInv, OpShape, Recognised, ghost
<1> QED  BY <1>2, <1>3 DEF IInv

\* A command of an operation under way keeps the types, whatever it writes.
LEMMA CommandTypeOK ==
  ASSUME TypeOK, NEW r \in Settings, NEW done \in Ops, NEW failed \in Ops,
         Command(r, done, failed),
         UNCHANGED <<journal, listener, app, queue, edits, ghost>>
  PROVE  TypeOK'
  BY CommandType DEF TypeOK, ghost

LEMMA EnableServerIInv == IInv /\ EnableServer => IInv'
<1> SUFFICES ASSUME IInv, EnableServer PROVE IInv'
  OBVIOUS
<1> USE DEF IInv
<1> DEFINE r == [reg EXCEPT !.server = op.port]
           done == [op EXCEPT !.at = "list"]
<1>1. op.port \in Ports /\ journal # NoJournal /\ op.port \in journal.written /\ op.kind = "enable"
  BY DEF EnableServer, OpShape
<1>2. r \in Settings /\ r.server = op.port
  BY <1>1 DEF TypeOK, Settings, Servers
<1>3. done \in Ops /\ done.at = "list" /\ done.kind = "enable" /\ done.port = op.port
  BY <1>1 DEF TypeOK, Ops, Steps
<1>4. Command(r, done, Idle) /\ UNCHANGED <<journal, listener, app, queue, edits, ghost>>
  BY DEF EnableServer
<1> HIDE DEF r, done
<1>5. TypeOK'
  BY <1>2, <1>3, <1>4, IdleType, CommandTypeOK
<1>6. reg' \in {reg, r} /\ op' \in {done, Idle}
  BY <1>2, <1>3, <1>4, IdleType, CommandType
<1>7. OpShape'
  BY <1>1, <1>3, <1>4, <1>6, IdleType DEF OpShape
<1>8. Recognised'
  BY <1>1, <1>2, <1>4, <1>6 DEF Recognised, ghost
<1> QED  BY <1>5, <1>7, <1>8

LEMMA EnableListIInv == IInv /\ EnableList => IInv'
<1> SUFFICES ASSUME IInv, EnableList PROVE IInv'
  OBVIOUS
<1> USE DEF IInv
<1> DEFINE r == [reg EXCEPT !.list = OurList]
           done == [op EXCEPT !.at = "on"]
<1>1. op.port \in Ports /\ journal # NoJournal /\ op.port \in journal.written /\ op.kind = "enable"
  BY DEF EnableList, OpShape
<1>2. r \in Settings /\ r.server = reg.server
  BY DEF TypeOK, Settings, Lists
<1>3. done \in Ops /\ done.at = "on" /\ done.kind = "enable" /\ done.port = op.port
  BY <1>1 DEF TypeOK, Ops, Steps
<1>4. Command(r, done, Idle) /\ UNCHANGED <<journal, listener, app, queue, edits, ghost>>
  BY DEF EnableList
<1> HIDE DEF r, done
<1>5. TypeOK'
  BY <1>2, <1>3, <1>4, IdleType, CommandTypeOK
<1>6. reg' \in {reg, r} /\ op' \in {done, Idle}
  BY <1>2, <1>3, <1>4, IdleType, CommandType
<1>7. OpShape'
  BY <1>1, <1>3, <1>4, <1>6, IdleType DEF OpShape
<1>8. Recognised'
  BY <1>2, <1>4, <1>6 DEF Recognised, ghost
<1> QED  BY <1>5, <1>7, <1>8

LEMMA EnableSwitchIInv == IInv /\ EnableSwitch => IInv'
<1> SUFFICES ASSUME IInv, EnableSwitch PROVE IInv'
  OBVIOUS
<1> USE DEF IInv
<1> DEFINE r == [reg EXCEPT !.on = TRUE]
<1>1. r \in Settings /\ r.server = reg.server
  BY DEF TypeOK, Settings
<1>2. Command(r, Idle, Idle) /\ UNCHANGED <<journal, listener, app, queue, edits, ghost>>
  BY DEF EnableSwitch
<1> HIDE DEF r
<1>3. TypeOK'
  BY <1>1, <1>2, IdleType, CommandTypeOK
<1>4. reg' \in {reg, r} /\ op' = Idle
  BY <1>1, <1>2, IdleType, CommandType
<1>5. OpShape'
  BY <1>4, IdleType DEF OpShape
<1>6. Recognised'
  BY <1>1, <1>2, <1>4 DEF Recognised, ghost
<1> QED  BY <1>3, <1>5, <1>6

-----------------------------------------------------------------------------
(* The steps of a restore.                                                 *)

\* Once the record is spent nothing is left to rely on, or to recognise.
LEMMA SpentIInv ==
  ASSUME TypeOK', journal' = NoJournal, op' = Idle
  PROVE  IInv'
  BY IdleType DEF IInv, OpShape, Recognised

LEMMA NothingToRestoreIInv == IInv /\ NothingToRestore => IInv'
<1> SUFFICES ASSUME IInv, NothingToRestore PROVE IInv'
  OBVIOUS
<1>1. PICK kind \in {"disconnect", "restore"} :
        /\ Begins(kind, Absent) /\ journal = NoJournal /\ Settles(kind)
        /\ UNCHANGED <<reg, journal, faults, torn, edits, ghost>>
  BY DEF NothingToRestore
<1>2. TypeOK'
  BY <1>1, BeginsType, SettlesType DEF IInv, TypeOK, ghost
<1> QED  BY <1>1, <1>2, SpentIInv DEF Settles

LEMMA NotOursIInv == IInv /\ (NotOurs \/ NotOursAtLaunch) => IInv'
<1> SUFFICES ASSUME IInv, NotOurs \/ NotOursAtLaunch PROVE IInv'
  OBVIOUS
<1>1. PICK kind, port :
        /\ Begins(kind, port) /\ Spend /\ Settles(kind)
        /\ UNCHANGED <<reg, faults, torn, edits>>
  BY DEF NotOurs, NotOursAtLaunch
<1>2. TypeOK'
  BY <1>1, BeginsType, SettlesType, SpendType DEF IInv, TypeOK
<1> QED  BY <1>1, <1>2, SpentIInv DEF Settles, Spend

\* A restore begins with a record, and begins by switching off.
LEMMA BeginRestoreIInv == IInv /\ (BeginRestore \/ BeginLaunchRestore) => IInv'
<1> SUFFICES ASSUME IInv, BeginRestore \/ BeginLaunchRestore PROVE IInv'
  OBVIOUS
<1>1. PICK kind \in {"disconnect", "restore", "launch"}, port \in Ports \cup {Absent},
           found \in {reg, Unknown} :
        /\ Begins(kind, port) /\ journal # NoJournal /\ Reads(found)
        /\ op' = Op(kind, "off", Absent)
        /\ UNCHANGED <<reg, journal, listener, app, edits, ghost>>
  BY DEF BeginRestore, BeginLaunchRestore
<1>2. op' \in Ops /\ op'.at = "off"
  BY <1>1, OpType DEF Kinds, Calls, Steps
<1>3. TypeOK'
  BY <1>1, <1>2, BeginsType, ReadsType DEF IInv, TypeOK, ghost
<1>4. OpShape' /\ Recognised'
  BY <1>1, <1>2 DEF IInv, OpShape, Recognised, ghost
<1> QED  BY <1>3, <1>4 DEF IInv

LEMMA RestoreOffIInv == IInv /\ RestoreOff => IInv'
<1> SUFFICES ASSUME IInv, RestoreOff PROVE IInv'
  OBVIOUS
<1> USE DEF IInv
<1> DEFINE r     == [reg EXCEPT !.on = FALSE]
           next  == IF journal.win = Unknown THEN "spend" ELSE "backServer"
           after == [op EXCEPT !.at = next]
           bad   == [after EXCEPT !.ok = FALSE]
<1>1. journal # NoJournal
  BY DEF RestoreOff, OpShape
<1>2. r \in Settings /\ r.server = reg.server
  BY DEF TypeOK, Settings
<1>3. /\ after \in Ops /\ bad \in Ops
      /\ after.at = next /\ bad.at = next
  BY DEF TypeOK, Ops, Steps
<1>4. Command(r, after, bad) /\ UNCHANGED <<journal, listener, app, queue, edits, ghost>>
  BY DEF RestoreOff
<1> HIDE DEF r, after, bad
<1>5. TypeOK'
  BY <1>2, <1>3, <1>4, CommandTypeOK
<1>6. reg' \in {reg, r} /\ op' \in {after, bad}
  BY <1>2, <1>3, <1>4, CommandType
<1>7. OpShape'
  BY <1>1, <1>3, <1>4, <1>6 DEF OpShape
<1>8. Recognised'
  BY <1>2, <1>4, <1>6 DEF Recognised, ghost
<1> QED  BY <1>5, <1>7, <1>8

\* The server that is written back is the one the record names.
LEMMA RestoreServerIInv == IInv /\ RestoreServer => IInv'
<1> SUFFICES ASSUME IInv, RestoreServer PROVE IInv'
  OBVIOUS
<1> USE DEF IInv
<1> DEFINE back  == journal.win.server
           r     == [reg EXCEPT !.server = back]
           after == [op EXCEPT !.at = "backList"]
           bad   == [after EXCEPT !.ok = @ /\ back = Absent]
<1>1. journal # NoJournal /\ journal.win # Unknown
  BY DEF RestoreServer, OpShape
<1>2. journal.win \in Settings
  BY <1>1 DEF TypeOK, Journals
<1>3. r \in Settings /\ r.server = back
  BY <1>2 DEF TypeOK, Settings
<1>4. after \in Ops /\ after.at = "backList"
  BY DEF TypeOK, Ops, Steps
<1>5. bad \in Ops /\ bad.at = "backList"
  BY <1>4 DEF Ops
<1>6. Command(r, after, bad) /\ UNCHANGED <<journal, listener, app, queue, edits, ghost>>
  BY DEF RestoreServer
<1> HIDE DEF r, after, bad
<1>7. TypeOK'
  BY <1>3, <1>4, <1>5, <1>6, CommandTypeOK
<1>8. reg' \in {reg, r} /\ op' \in {after, bad}
  BY <1>3, <1>4, <1>5, <1>6, CommandType
<1>9. OpShape'
  BY <1>1, <1>4, <1>5, <1>6, <1>8 DEF OpShape
<1>10. Recognised'
  BY <1>3, <1>6, <1>8 DEF Recognised, ghost
<1> QED  BY <1>7, <1>9, <1>10

LEMMA RestoreListIInv == IInv /\ RestoreList => IInv'
<1> SUFFICES ASSUME IInv, RestoreList PROVE IInv'
  OBVIOUS
<1> USE DEF IInv
<1> DEFINE back      == journal.win.list
           r         == [reg EXCEPT !.list = back]
           after(ok) == [op EXCEPT !.ok = ok,
                           !.at = IF ok /\ journal.win.on THEN "backOn" ELSE "spend"]
<1>1. journal # NoJournal /\ journal.win # Unknown
  BY DEF RestoreList, OpShape
<1>2. journal.win \in Settings
  BY <1>1 DEF TypeOK, Journals
<1>3. r \in Settings /\ r.server = reg.server
  BY <1>2 DEF TypeOK, Settings
<1>4. \A ok \in BOOLEAN : after(ok) \in Ops /\ after(ok).at \in {"backOn", "spend"}
  BY DEF TypeOK, Ops, Steps
<1>5. op.ok \in BOOLEAN /\ (op.ok /\ back = Absent) \in BOOLEAN
  BY DEF TypeOK, Ops
<1>6. /\ Command(r, after(op.ok), after(op.ok /\ back = Absent))
      /\ UNCHANGED <<journal, listener, app, queue, edits, ghost>>
  BY DEF RestoreList
<1> HIDE DEF r, after
<1>7. TypeOK'
  BY <1>3, <1>4, <1>5, <1>6, CommandTypeOK
<1>8. reg' \in {reg, r} /\ op' \in {after(op.ok), after(op.ok /\ back = Absent)}
  BY <1>3, <1>4, <1>5, <1>6, CommandType
<1>9. OpShape'
  <2>1. op'.at \in {"backOn", "spend"}
    BY <1>4, <1>5, <1>8
  <2> QED  BY <1>1, <1>6, <2>1 DEF OpShape
<1>10. Recognised'
  BY <1>3, <1>6, <1>8 DEF Recognised, ghost
<1> QED  BY <1>7, <1>9, <1>10

LEMMA RestoreSwitchIInv == IInv /\ RestoreSwitch => IInv'
<1> SUFFICES ASSUME IInv, RestoreSwitch PROVE IInv'
  OBVIOUS
<1> USE DEF IInv
<1> DEFINE r     == [reg EXCEPT !.on = TRUE]
           after == [op EXCEPT !.at = "spend"]
           bad   == [after EXCEPT !.ok = FALSE]
<1>1. journal # NoJournal
  BY DEF RestoreSwitch, OpShape
<1>2. r \in Settings /\ r.server = reg.server
  BY DEF TypeOK, Settings
<1>3. after \in Ops /\ bad \in Ops /\ after.at = "spend" /\ bad.at = "spend"
  BY DEF TypeOK, Ops, Steps
<1>4. Command(r, after, bad) /\ UNCHANGED <<journal, listener, app, queue, edits, ghost>>
  BY DEF RestoreSwitch
<1> HIDE DEF r, after, bad
<1>5. TypeOK'
  BY <1>2, <1>3, <1>4, CommandTypeOK
<1>6. reg' \in {reg, r} /\ op' \in {after, bad}
  BY <1>2, <1>3, <1>4, CommandType
<1>7. OpShape'
  BY <1>1, <1>3, <1>4, <1>6 DEF OpShape
<1>8. Recognised'
  BY <1>2, <1>4, <1>6 DEF Recognised, ghost
<1> QED  BY <1>5, <1>7, <1>8

LEMMA FinishRestoreIInv == IInv /\ FinishRestore => IInv'
<1> SUFFICES ASSUME IInv, FinishRestore PROVE IInv'
  OBVIOUS
<1>1. Settles(op.kind) /\ UNCHANGED <<reg, queue, faults, torn, edits>>
  BY DEF FinishRestore
<1>2. /\ op' = Idle /\ app' \in {"up", "down"}
      /\ listener' \in [Ports -> {"free", "core", "other"}]
  BY <1>1, SettlesType DEF IInv
<1>3. CASE Spend
  <2>1. journal' = NoJournal /\ users' \in Settings /\ edited' \in BOOLEAN
    BY <1>3, SpendType DEF IInv
  <2>2. TypeOK'
    BY <1>1, <1>2, <2>1, IdleType DEF IInv, TypeOK
  <2> QED  BY <1>2, <2>1, <2>2, SpentIInv
<1>4. CASE UNCHANGED <<journal, ghost>>
  <2>1. TypeOK'
    BY <1>1, <1>2, <1>4, IdleType DEF IInv, TypeOK, ghost
  <2>2. OpShape' /\ Recognised'
    BY <1>1, <1>2, <1>4, IdleType DEF IInv, OpShape, Recognised, ghost
  <2> QED  BY <2>1, <2>2 DEF IInv
<1> QED  BY <1>3, <1>4 DEF FinishRestore

-----------------------------------------------------------------------------
(* Everything else that happens.                                           *)

LEMMA LaunchWithoutRecordIInv == IInv /\ LaunchWithoutRecord => IInv'
<1> SUFFICES ASSUME IInv, LaunchWithoutRecord PROVE IInv'
  OBVIOUS
<1> DEFINE r == [reg EXCEPT !.on = FALSE]
<1>1. PICK p \in Ports :
        /\ Begins("launch", p) /\ journal = NoJournal
        /\ UNCHANGED <<journal, listener, app, op, edits, edited>>
  BY DEF LaunchWithoutRecord
<1>2. r \in Settings
  BY DEF IInv, TypeOK, Settings
<1>3. reg' \in {reg, r} /\ users' \in {users, reg'} /\ (Fault \/ UNCHANGED <<faults, torn>>)
  BY DEF LaunchWithoutRecord
<1> HIDE DEF r
<1>4. TypeOK'
  BY <1>1, <1>2, <1>3, BeginsType, FaultType DEF IInv, TypeOK
<1> QED  BY <1>1, <1>4, BeginsType, SpentIInv DEF IInv

\* What the callers do to the queue, the listeners and the process leaves the
\* registry, the record and the ghosts alone.
LEMMA BystanderIInv ==
  ASSUME IInv, TypeOK', op' \in {op, Idle}, UNCHANGED <<reg, journal, ghost>>
  PROVE  IInv'
  BY IdleType DEF IInv, OpShape, Recognised, ghost

LEMMA LaunchIInv == IInv /\ Launch => IInv'
<1> SUFFICES ASSUME IInv, Launch PROVE IInv'
  OBVIOUS
<1>1. PICK p \in Ports :
        /\ app' = "up" /\ queue' = <<[kind |-> "launch", port |-> p]>>
        /\ UNCHANGED <<reg, journal, listener, op, faults, torn, edits, ghost>>
  BY DEF Launch
<1>2. queue' \in Seq(Waiting)
  BY <1>1 DEF Waiting, Calls
<1>3. TypeOK'
  BY <1>1, <1>2 DEF IInv, TypeOK, ghost
<1> QED  BY <1>1, <1>3, BystanderIInv

LEMMA QueuedType ==
  ASSUME TypeOK, NEW kind \in Calls, NEW port \in Ports \cup {Absent}, Queued(kind, port)
  PROVE  queue' \in Seq(Waiting)
<1>1. [kind |-> kind, port |-> port] \in Waiting
  BY DEF Waiting
<1> QED  BY <1>1 DEF TypeOK, Queued

LEMMA ConnectIInv == IInv /\ Connect => IInv'
<1> SUFFICES ASSUME IInv, Connect PROVE IInv'
  OBVIOUS
<1>1. PICK p \in Ports :
        /\ Queued("enable", p)
        /\ listener' = [listener EXCEPT ![p] = "core"]
        /\ UNCHANGED <<reg, journal, app, op, faults, torn, edits, ghost>>
  BY DEF Connect
<1>2. queue' \in Seq(Waiting)
  BY <1>1, QueuedType DEF IInv, Calls
<1>3. TypeOK'
  BY <1>1, <1>2 DEF IInv, TypeOK, ghost
<1> QED  BY <1>1, <1>3, BystanderIInv

LEMMA CoreStopsIInv == IInv /\ CoreStops => IInv'
<1> SUFFICES ASSUME IInv, CoreStops PROVE IInv'
  OBVIOUS
<1>1. TypeOK'
  BY CoreStoppedType DEF IInv, CoreStops, TypeOK, ghost
<1> QED  BY <1>1, BystanderIInv DEF CoreStops

LEMMA AsksIInv == IInv /\ (Disconnect \/ GiveBack) => IInv'
<1> SUFFICES ASSUME IInv, Disconnect \/ GiveBack PROVE IInv'
  OBVIOUS
<1>1. PICK kind \in {"disconnect", "restore"} :
        /\ Queued(kind, Absent)
        /\ UNCHANGED <<reg, journal, listener, app, op, faults, torn, edits, ghost>>
  BY DEF Disconnect, GiveBack
<1>2. queue' \in Seq(Waiting)
  BY <1>1, QueuedType DEF IInv, Calls
<1>3. TypeOK'
  BY <1>1, <1>2 DEF IInv, TypeOK, ghost
<1> QED  BY <1>1, <1>3, BystanderIInv

LEMMA ExitHookIInv == IInv /\ ExitHook => IInv'
<1> SUFFICES ASSUME IInv, ExitHook PROVE IInv'
  OBVIOUS
<1>1. queue' = <<>> /\ queue' \in Seq(Waiting)
  BY DEF ExitHook
<1>2. UNCHANGED <<reg, journal, faults, edits, ghost>> /\ torn' \in BOOLEAN
  BY DEF ExitHook, Tears
<1>3. CASE journal = NoJournal
  <2>1. Settles("exit")
    BY <1>3 DEF ExitHook
  <2>2. TypeOK'
    BY <1>1, <1>2, <2>1, SettlesType, IdleType DEF IInv, TypeOK, ghost
  <2> QED  BY <1>2, <2>1, <2>2, BystanderIInv DEF Settles
<1>4. CASE journal # NoJournal
  <2>1. op' = Op("exit", "off", Absent) /\ UNCHANGED <<listener, app>>
    BY <1>4 DEF ExitHook
  <2>2. op' \in Ops /\ op'.at = "off"
    BY <2>1, OpType DEF Kinds, Steps
  <2>3. TypeOK'
    BY <1>1, <1>2, <2>1, <2>2 DEF IInv, TypeOK, ghost
  <2>4. OpShape' /\ Recognised'
    BY <1>2, <1>4, <2>2 DEF IInv, OpShape, Recognised, ghost
  <2> QED  BY <2>3, <2>4 DEF IInv
<1> QED  BY <1>3, <1>4

LEMMA BudgetSpentIInv == IInv /\ BudgetSpent => IInv'
<1> SUFFICES ASSUME IInv, BudgetSpent PROVE IInv'
  OBVIOUS
<1>1. Fault /\ UNCHANGED <<reg, journal, listener, app, queue, edits, ghost>>
  BY DEF BudgetSpent
<1>2. op' \in Ops /\ op'.at = op.at /\ op'.kind = op.kind /\ op'.port = op.port
  BY DEF BudgetSpent, IInv, TypeOK, Ops
<1>3. TypeOK'
  BY <1>1, <1>2, FaultType DEF IInv, TypeOK, ghost
<1>4. OpShape' /\ Recognised'
  BY <1>1, <1>2 DEF IInv, OpShape, Recognised, ghost
<1> QED  BY <1>3, <1>4 DEF IInv

LEMMA CrashIInv == IInv /\ Crash => IInv'
<1> SUFFICES ASSUME IInv, Crash PROVE IInv'
  OBVIOUS
<1>1. /\ Fault /\ app' = "down" /\ op' = Idle /\ queue' = <<>>
      /\ listener' = CoreStopped /\ UNCHANGED <<reg, journal, edits, ghost>>
  BY DEF Crash
<1>2. queue' \in Seq(Waiting) /\ faults' \in 0..MaxFaults /\ torn' \in BOOLEAN
  BY <1>1, FaultType DEF IInv
<1>3. TypeOK'
  BY <1>1, <1>2, CoreStoppedType, IdleType DEF IInv, TypeOK, ghost
<1> QED  BY <1>1, <1>3, BystanderIInv

\* Somebody else's settings: with a record the machine is then not ours to
\* recognise any more (edited), without one there is nothing to recognise.
LEMMA ChosenIInv ==
  ASSUME IInv, NEW r \in Settings, Chosen(r),
         listener' \in [Ports -> {"free", "core", "other"}],
         UNCHANGED <<journal, app, queue, op, faults, torn>>
  PROVE  IInv'
<1>1. /\ reg' = r /\ users' = r /\ edited' = (journal # NoJournal)
      /\ edits < MaxEdits /\ edits' = edits + 1 /\ op = Idle
  BY DEF Chosen
<1>2. edits' \in 0..MaxEdits
  BY <1>1, SysProxyAssumption DEF IInv, TypeOK
<1>3. edited' \in BOOLEAN
  BY <1>1
<1>4. TypeOK'
  BY <1>1, <1>2, <1>3 DEF IInv, TypeOK
<1>5. OpShape'
  BY <1>1, IdleType DEF OpShape
<1>6. Recognised'
  BY <1>1 DEF Recognised
<1> QED  BY <1>4, <1>5, <1>6 DEF IInv

LEMMA OthersIInv == IInv /\ Others => IInv'
<1> SUFFICES ASSUME IInv, Others PROVE IInv'
  OBVIOUS
<1>1. CASE UserSetsProxy
  <2>1. PICK s \in Foreign, l \in {TheirList, Absent} :
          /\ Chosen([on |-> TRUE, server |-> s, list |-> l])
          /\ UNCHANGED <<journal, listener, app, queue, op, faults, torn>>
    BY <1>1 DEF UserSetsProxy
  <2>2. [on |-> TRUE, server |-> s, list |-> l] \in Settings
    BY DEF Settings, Servers, Lists
  <2> QED  BY <2>1, <2>2, ChosenIInv DEF IInv, TypeOK
<1>2. CASE UserSwitchesOff
  <2>1. [reg EXCEPT !.on = FALSE] \in Settings
    BY DEF IInv, TypeOK, Settings
  <2> QED  BY <1>2, <2>1, ChosenIInv DEF UserSwitchesOff, IInv, TypeOK
<1>3. CASE ClientStarts
  <2>1. PICK p \in Ports, l \in {TheirList, OurList} :
          /\ Chosen([on |-> TRUE, server |-> p, list |-> l])
          /\ listener' = [listener EXCEPT ![p] = "other"]
          /\ UNCHANGED <<journal, app, queue, op, faults, torn>>
    BY <1>3 DEF ClientStarts
  <2>2. [on |-> TRUE, server |-> p, list |-> l] \in Settings
    BY DEF Settings, Servers, Lists
  <2>3. listener' \in [Ports -> {"free", "core", "other"}]
    BY <2>1 DEF IInv, TypeOK
  <2> QED  BY <2>1, <2>2, <2>3, ChosenIInv
<1>4. CASE ClientEnds
  <2>1. PICK p \in Ports :
          /\ listener' = [listener EXCEPT ![p] = "free"]
          /\ \/ Chosen([reg EXCEPT !.on = FALSE])
             \/ UNCHANGED <<reg, edits, ghost>>
          /\ UNCHANGED <<journal, app, queue, op, faults, torn>>
    BY <1>4 DEF ClientEnds
  <2>2. listener' \in [Ports -> {"free", "core", "other"}]
    BY <2>1 DEF IInv, TypeOK
  <2>3. CASE Chosen([reg EXCEPT !.on = FALSE])
    <3>1. [reg EXCEPT !.on = FALSE] \in Settings
      BY DEF IInv, TypeOK, Settings
    <3> QED  BY <2>1, <2>2, <2>3, <3>1, ChosenIInv
  <2>4. CASE UNCHANGED <<reg, edits, ghost>>
    <3>1. TypeOK'
      BY <2>1, <2>2, <2>4 DEF IInv, TypeOK, ghost
    <3> QED  BY <2>1, <2>4, <3>1, BystanderIInv
  <2> QED  BY <2>1, <2>3, <2>4
<1> QED  BY <1>1, <1>2, <1>3, <1>4 DEF Others

LEMMA NextIInv == IInv /\ [Next]_vars => IInv'
<1> SUFFICES ASSUME IInv, [Next]_vars PROVE IInv'
  OBVIOUS
<1>1. CASE Work
  BY <1>1, BeginEnableIInv, JournalWriteFailsIInv, EnableServerIInv, EnableListIInv,
     EnableSwitchIInv, NothingToRestoreIInv, NotOursIInv, BeginRestoreIInv,
     LaunchWithoutRecordIInv, RestoreOffIInv, RestoreServerIInv, RestoreListIInv,
     RestoreSwitchIInv, FinishRestoreIInv DEF Work
<1>2. CASE Launch
  BY <1>2, LaunchIInv
<1>3. CASE App
  BY <1>3, ConnectIInv, CoreStopsIInv, AsksIInv, ExitHookIInv, BudgetSpentIInv, CrashIInv
     DEF App
<1>4. CASE Others
  BY <1>4, OthersIInv
<1>5. CASE UNCHANGED vars
  BY <1>5 DEF vars, IInv, TypeOK, OpShape, Recognised
<1> QED  BY <1>1, <1>2, <1>3, <1>4, <1>5 DEF Next

-----------------------------------------------------------------------------

\* The inductive invariant holds in every reachable state.
THEOREM Invariance == Spec => []IInv
<1>1. Init => IInv
  BY InitIInv
<1>2. IInv /\ [Next]_vars => IInv'
  BY NextIInv
<1> QED  BY <1>1, <1>2, PTL DEF Spec

\* The registry, the record, the queue and the operation under way stay within
\* their types: a record never lacks its port, a queue its operation.
THEOREM TypeCorrect == Spec => []TypeOK
<1>1. IInv => TypeOK
  BY DEF IInv
<1> QED  BY <1>1, Invariance, PTL

\* While a record exists and nobody interfered, the server on the machine is
\* one the record knows, so a restore never disowns a server of ours.
THEOREM AlwaysRecognised == Spec => []Recognised
<1>1. IInv => Recognised
  BY DEF IInv
<1> QED  BY <1>1, Invariance, PTL

\* No step of ours changes the machine's proxy before the record exists, but to
\* switch off what a build without records left.
THEOREM RecordComesFirst == Spec => RecordedFirst
<1> DEFINE Step == reg' # reg => journal # NoJournal \/ edits' # edits \/ ~reg'.on
<1>1. IInv /\ [Next]_vars => [Step]_vars
  <2> SUFFICES ASSUME IInv, [Next]_vars, reg' # reg
               PROVE  journal # NoJournal \/ edits' # edits \/ ~reg'.on
    OBVIOUS
  <2>1. CASE \/ EnableServer \/ EnableList \/ EnableSwitch
             \/ RestoreOff \/ RestoreServer \/ RestoreList \/ RestoreSwitch
    BY <2>1 DEF IInv, OpShape, EnableServer, EnableList, EnableSwitch,
       RestoreOff, RestoreServer, RestoreList, RestoreSwitch
  <2>2. CASE LaunchWithoutRecord
    <3>1. reg' = [reg EXCEPT !.on = FALSE]
      BY <2>2 DEF LaunchWithoutRecord
    <3> QED  BY <3>1 DEF IInv, TypeOK, Settings
  <2>3. CASE Others
    <3>1. \E r : Chosen(r)
      BY <2>3 DEF Others, UserSetsProxy, UserSwitchesOff, ClientStarts, ClientEnds
    <3> QED  BY <3>1, SysProxyAssumption DEF Chosen, IInv, TypeOK
  <2>4. CASE \/ BeginEnable \/ JournalWriteFails \/ NothingToRestore \/ NotOurs
             \/ BeginRestore \/ NotOursAtLaunch \/ BeginLaunchRestore \/ FinishRestore
    BY <2>4 DEF BeginEnable, JournalWriteFails, NothingToRestore, NotOurs,
       BeginRestore, NotOursAtLaunch, BeginLaunchRestore, FinishRestore
  <2>5. CASE Launch \/ App
    BY <2>5 DEF Launch, App, Connect, CoreStops, Disconnect, GiveBack, ExitHook,
       BudgetSpent, Crash
  <2>6. CASE UNCHANGED vars
    BY <2>6 DEF vars
  <2> QED  BY <2>1, <2>2, <2>3, <2>4, <2>5, <2>6 DEF Next, Work
<1>2. Spec => [][Step]_vars
  BY <1>1, Invariance, PTL DEF Spec
<1> QED  BY <1>2 DEF RecordedFirst

-----------------------------------------------------------------------------
(***************************************************************************)
(* The user's proxy: UsersProxyInForce and RecordIsUsers.                  *)
(***************************************************************************)
\* What is on the machine is what the record remembers.
Same(r) == r.on = journal.win.on /\ r.server = journal.win.server
\* UsersProxyInForce of a state with settings r.
Matches(r) == Proxy(r) = Proxy(users) \/ (~r.on /\ users.server \in Ports)

\* A record that is to be gone by.
Clean == journal # NoJournal /\ ~edited /\ ~torn /\ journal.win # Unknown

(* A port under a record is not another client's, nor one that an enable is  *)
(* asked for; and no core of ours runs before the launch repair has.         *)
NobodyElse ==
  /\ app = "down" \/ RepairWaits => ~CoreRuns
  /\ \A i \in DOMAIN queue : queue[i].kind = "enable" => queue[i].port \in Ports /\ listener[queue[i].port] # "other"
  /\ journal # NoJournal /\ ~edited => \A p \in journal.written : listener[p] # "other"

(* An enable writes the port that the record calls ours.                     *)
OwnServer ==
  /\ op = Idle \/ op.at # "idle"
  /\ op.at \in {"server", "list", "on"} => op.port = journal.ours /\ ~op.late
  /\ op.at \in {"list", "on"} => reg.server = op.port

(* Between the operations: a server the record does not list is the one it   *)
(* remembers, and so is the whole machine where a restore would disown an    *)
(* older port of ours (OwnsInSession).                                       *)
Untouched ==
  Clean /\ ~Restoring =>
    /\ reg.server \notin journal.written => Same(reg)
    /\ op.at # "server" /\ reg.server # journal.ours /\ reg.list # OurList => Same(reg)

(* Of a restore with nothing torn every command has landed.                  *)
PutBack ==
  ~torn =>
    /\ Restoring => op.ok /\ ~op.late
    /\ op.at \in {"backServer", "backList", "backOn"} => ~reg.on
    /\ op.at \in {"backList", "backOn"} => reg.server = journal.win.server
    /\ op.at = "backOn" => journal.win.on
    /\ op.at = "spend" /\ journal.win # Unknown => Same(reg)

(* The two properties, wherever the operations are.                          *)
UsersStands ==
  /\ journal = NoJournal /\ ~torn => Matches(reg)
  /\ Clean => Matches(journal.win)

UsersInv == NobodyElse /\ OwnServer /\ Untouched /\ PutBack /\ UsersStands

-----------------------------------------------------------------------------
LEMMA TearsStays == ASSUME Fault \/ Tears, ~torn' PROVE ~torn /\ ~Restoring /\ ~Halfway
  BY DEF Fault, Tears

LEMMA CommandEnds ==
  ASSUME NEW r, NEW done, NEW failed, Command(r, done, failed), ~torn'
  PROVE  /\ ~torn
         /\ \/ reg' = r /\ op' = done
            \/ op.late /\ reg' = reg /\ op' = failed
            \/ reg' \in {reg, r} /\ op' = failed /\ ~Restoring /\ ~Halfway
  BY TearsStays DEF Command

(* Who listens and what waits is as before, or less of it. *)
LEMMA QueueShorter ==
  ASSUME TypeOK, NEW k, NEW p, Begins(k, p)
  PROVE  /\ \A i \in DOMAIN queue' : i + 1 \in DOMAIN queue /\ queue'[i] = queue[i + 1]
         /\ queue[1] = [kind |-> k, port |-> p] /\ 1 \in DOMAIN queue
         /\ RepairWaits' => RepairWaits
<1>1. queue \in Seq(Waiting) /\ queue # <<>> /\ queue' = Tail(queue) /\ Head(queue) = [kind |-> k, port |-> p]
  BY DEF TypeOK, Begins
<1>2. \A i \in DOMAIN queue' : i + 1 \in DOMAIN queue /\ queue'[i] = queue[i + 1]
  BY <1>1
<1> QED  BY <1>1, <1>2 DEF RepairWaits

LEMMA BeginsAlone ==
  ASSUME IInv, UsersInv, NEW k, NEW p, Begins(k, p)
  PROVE  /\ op = Idle /\ app = "up"
         /\ k = "enable" => listener[p] # "other"
         /\ \A i \in DOMAIN queue' : queue'[i].kind = "enable" => queue'[i].port \in Ports /\ listener[queue'[i].port] # "other"
         /\ RepairWaits' => RepairWaits
         /\ k = "launch" => RepairWaits
<1>1. TypeOK /\ NobodyElse
  BY DEF IInv, UsersInv
<1>2. /\ \A i \in DOMAIN queue' : i + 1 \in DOMAIN queue /\ queue'[i] = queue[i + 1]
      /\ queue[1] = [kind |-> k, port |-> p] /\ 1 \in DOMAIN queue
      /\ RepairWaits' => RepairWaits
  BY <1>1, QueueShorter
<1>7. queue[1].kind = k /\ queue[1].port = p
  BY <1>2
<1>3. \A i \in DOMAIN queue : queue[i].kind = "enable" => queue[i].port \in Ports /\ listener[queue[i].port] # "other"
  BY <1>1 DEF NobodyElse
<1>4. \A i \in DOMAIN queue' : queue'[i].kind = "enable" => queue'[i].port \in Ports /\ listener[queue'[i].port] # "other"
  BY <1>2, <1>3
<1>5. op = Idle /\ app = "up"
  BY DEF Begins
<1>6. k = "launch" => RepairWaits
  BY <1>2, <1>7 DEF RepairWaits
<1> QED  BY <1>2, <1>3, <1>4, <1>5, <1>6, <1>7

LEMMA InitUsers == Init => UsersInv
<1> SUFFICES ASSUME Init PROVE UsersInv
  OBVIOUS
<1>1. /\ journal = NoJournal /\ op = Idle /\ queue = <<>> /\ users = reg
      /\ listener = [p \in Ports |-> "free"] /\ ~torn
  BY DEF Init
<1> QED  BY <1>1, IdleType, SysProxyAssumption DEF UsersInv, NobodyElse, OwnServer, Untouched, PutBack, UsersStands, Clean, Matches,
   CoreRuns, RepairWaits, Idle, Restoring

(* A step that leaves the registry, the record and the operation alone. *)
LEMMA BystanderUsers ==
  ASSUME UsersInv, NobodyElse', UNCHANGED <<reg, journal, ghost>>, op' = op,
         UNCHANGED torn \/ Tears
  PROVE  UsersInv'
<1>1. ~torn' => ~torn
  BY TearsStays
<1>2. Clean' => Clean
  BY <1>1 DEF Clean, ghost
<1>3. Restoring' = Restoring
  BY DEF Restoring
<1>4. OwnServer' /\ Untouched' /\ UsersStands'
  BY <1>1, <1>2, <1>3 DEF UsersInv, OwnServer, Untouched, UsersStands, Matches, Same, ghost, Clean
<1>5. PutBack'
  BY <1>1, <1>3 DEF UsersInv, PutBack, Same
<1> QED  BY <1>4, <1>5 DEF UsersInv

(* An operation that ends, or is cut short, where nothing was torn. *)
LEMMA IdleUsers ==
  ASSUME IInv, UsersInv, NobodyElse', UNCHANGED <<reg, journal, ghost>>, op' = Idle,
         (UNCHANGED torn /\ op = Idle) \/ Fault \/ Tears
  PROVE  UsersInv'
<1>1. ~torn' => ~torn /\ ~Restoring /\ ~Halfway
  BY TearsStays, IdleType, SysProxyAssumption DEF Restoring, Halfway
<1>2. Clean' => Clean
  BY <1>1 DEF Clean, ghost
<1>3. ~Restoring' /\ op'.at = "idle"
  BY IdleType DEF Restoring
<1>4. OwnServer' /\ UsersStands' /\ PutBack'
  BY <1>1, <1>2, <1>3 DEF UsersInv, OwnServer, UsersStands, Matches, PutBack, ghost, Clean
<1>5. Untouched'
  <2> SUFFICES ASSUME Clean'
               PROVE  /\ reg.server \notin journal.written => Same(reg)
                      /\ reg.server # journal.ours /\ reg.list # OurList => Same(reg)
    BY DEF Untouched, Same
  <2>1. Clean /\ ~Restoring /\ ~Halfway
    BY <1>1, <1>2 DEF Clean
  <2>2. CASE op.at = "server"
    BY <2>1, <2>2 DEF IInv, OpShape, UsersInv, OwnServer, Untouched, Halfway
  <2>3. CASE op.at # "server"
    BY <2>1, <2>3 DEF UsersInv, Untouched
  <2> QED  BY <2>2, <2>3
<1> QED  BY <1>4, <1>5 DEF UsersInv

-----------------------------------------------------------------------------
LEMMA BeginEnableUsers == ASSUME IInv, UsersInv, BeginEnable PROVE UsersInv'
<1>1. PICK p \in Ports, found \in {reg, Unknown} :
        /\ Begins("enable", p)
        /\ journal # NoJournal => found = reg
        /\ Reads(found)
        /\ journal' = IF journal = NoJournal THEN Record(p, found) ELSE Renamed(p)
        /\ op' = Op("enable", "server", p)
        /\ UNCHANGED <<reg, listener, app, edits, ghost>>
  BY DEF BeginEnable
<1>2. op = Idle /\ listener[p] # "other"
  BY <1>1, BeginsAlone
<1>3. torn' = torn
  BY <1>1, <1>2, IdleType, SysProxyAssumption DEF Reads, Fault, Tears, Restoring, Halfway, IInv, TypeOK
<1>4. /\ op'.at = "server" /\ op'.port = p /\ ~op'.late /\ ~Restoring'
  BY <1>1, OpType DEF Kinds, Calls, Steps, Restoring, Op
<1>5. /\ journal' \in Journals /\ journal' # NoJournal /\ journal'.ours = p
      /\ journal = NoJournal => journal'.written = {p}
      /\ journal = NoJournal /\ journal'.win # Unknown =>
           /\ found = reg
           /\ journal'.win = IF reg.on /\ reg.server = p THEN [reg EXCEPT !.on = FALSE] ELSE reg
      /\ journal # NoJournal => /\ journal'.win = journal.win
                                /\ journal'.written = journal.written \cup {p}
  <2>1. CASE journal = NoJournal
    <3>1. journal' = Record(p, found) /\ found \in Settings \cup {Unknown}
      BY <1>1, <2>1 DEF IInv, TypeOK
    <3>2. journal' \in Journals /\ journal' # NoJournal
      BY <3>1, RecordType, SysProxyAssumption
    <3>3. journal'.ours = p /\ journal'.written = {p}
      BY <3>1 DEF Record
    <3>4. journal'.win = IF found # Unknown /\ found.on /\ found.server = p THEN [found EXCEPT !.on = FALSE] ELSE found
      BY <3>1 DEF Record
    <3>5. reg # Unknown
      BY SysProxyAssumption DEF IInv, TypeOK
    <3>6. found = Unknown => journal'.win = Unknown
      BY <3>4
    <3> QED  BY <2>1, <3>2, <3>3, <3>4, <3>5, <3>6
  <2>2. CASE journal # NoJournal
    BY <1>1, <2>2, RenamedType, SysProxyAssumption DEF IInv, TypeOK, Renamed, Journals
  <2> QED  BY <2>1, <2>2
<1>6. NobodyElse'
  <2>1. \A i \in DOMAIN queue' : queue'[i].kind = "enable" => queue'[i].port \in Ports /\ listener[queue'[i].port] # "other"
    BY <1>1, BeginsAlone
  <2>2. app' = "down" \/ RepairWaits' => ~CoreRuns'
    BY <1>1, BeginsAlone DEF UsersInv, NobodyElse, CoreRuns
  <2> QED  BY <1>1, <1>2, <1>5, <2>1, <2>2 DEF UsersInv, NobodyElse, ghost
<1>7. OwnServer' /\ PutBack'
  BY <1>4, <1>5 DEF OwnServer, PutBack, Restoring
<1>8. Untouched'
  <2> SUFFICES ASSUME Clean', reg.server \notin journal'.written
               PROVE  reg.on = journal'.win.on /\ reg.server = journal'.win.server
    BY <1>1, <1>4 DEF Untouched, Same
  <2>1. CASE journal = NoJournal
    BY <1>5, <2>1 DEF Clean
  <2>2. CASE journal # NoJournal
    BY <1>1, <1>2, <1>3, <1>5, <2>2, IdleType DEF UsersInv, Untouched, Clean, Restoring, Same, ghost
  <2> QED  BY <2>1, <2>2
<1>9. UsersStands'
  <2> SUFFICES ASSUME Clean'
               PROVE  Proxy(journal'.win) = Proxy(users) \/ (~journal'.win.on /\ users.server \in Ports)
    BY <1>1, <1>5 DEF UsersStands, Matches, ghost
  <2>1. CASE journal = NoJournal
    <3>1. Matches(reg)
      BY <1>3, <2>1 DEF UsersInv, UsersStands, Clean
    <3>2. reg \in Settings
      BY DEF IInv, TypeOK
    <3>3. CASE reg.on /\ reg.server = p
      <4>1. journal'.win.on = FALSE
        BY <1>5, <2>1, <3>2, <3>3 DEF Clean, Settings
      <4>2. users.server \in Ports
        BY <3>1, <3>3, SysProxyAssumption DEF Matches, Proxy
      <4> QED  BY <4>1, <4>2
    <3>4. CASE ~(reg.on /\ reg.server = p)
      BY <1>5, <2>1, <3>1, <3>4 DEF Clean, Matches
    <3> QED  BY <3>3, <3>4
  <2>2. CASE journal # NoJournal
    BY <1>1, <1>3, <1>5, <2>2 DEF UsersInv, UsersStands, Clean, Matches, ghost
  <2> QED  BY <2>1, <2>2
<1> QED  BY <1>6, <1>7, <1>8, <1>9 DEF UsersInv

LEMMA JournalWriteFailsUsers == ASSUME IInv, UsersInv, JournalWriteFails PROVE UsersInv'
<1>1. PICK p \in Ports :
        /\ Begins("enable", p) /\ Fault
        /\ UNCHANGED <<reg, journal, listener, app, op, edits, ghost>>
  BY DEF JournalWriteFails
<1>2. NobodyElse'
  <2>1. /\ \A i \in DOMAIN queue' : queue'[i].kind = "enable" => queue'[i].port \in Ports /\ listener[queue'[i].port] # "other"
        /\ RepairWaits' => RepairWaits
    BY <1>1, BeginsAlone
  <2> QED  BY <1>1, <2>1 DEF UsersInv, NobodyElse, CoreRuns, ghost
<1> QED  BY <1>1, <1>2, BystanderUsers DEF Fault

(* The commands of an enable: nobody listens, and nothing waits, otherwise. *)
LEMMA CommandNobody ==
  ASSUME UsersInv, UNCHANGED <<journal, listener, app, queue, edits, ghost>>
  PROVE  NobodyElse'
  BY DEF UsersInv, NobodyElse, RepairWaits, CoreRuns, ghost

LEMMA EnableServerUsers == ASSUME IInv, UsersInv, EnableServer PROVE UsersInv'
<1> DEFINE r == [reg EXCEPT !.server = op.port]
           done == [op EXCEPT !.at = "list"]
<1>1. /\ op.at = "server" /\ Command(r, done, Idle)
      /\ UNCHANGED <<journal, listener, app, queue, edits, ghost>>
  BY DEF EnableServer
<1>2. /\ r.server = op.port /\ done.at = "list" /\ done.port = op.port /\ ~done.late
      /\ op.port = journal.ours /\ op.port \in journal.written /\ journal # NoJournal
  BY <1>1 DEF IInv, TypeOK, Settings, Ops, OpShape, UsersInv, OwnServer
<1> HIDE DEF r, done
<1>3. reg' \in {reg, r} /\ op' \in {done, Idle} /\ ~Restoring
  BY <1>1 DEF Command, Restoring
<1>4. op' = done => reg' = r
  BY <1>1, <1>2, <1>3, IdleType DEF Command
<1>5. ~Restoring' /\ NobodyElse' /\ OwnServer' /\ PutBack'
  BY <1>1, <1>2, <1>3, <1>4, IdleType, CommandNobody DEF OwnServer, PutBack, Restoring
<1>6. ~torn' => ~torn
  BY <1>1, CommandEnds
<1>7. UsersStands'
  BY <1>1, <1>2, <1>6 DEF UsersInv, UsersStands, Clean, Matches, ghost
<1>8. Untouched'
  <2> SUFFICES ASSUME Clean'
               PROVE  /\ reg'.server \notin journal.written => Same(reg')
                      /\ reg'.server # journal.ours /\ reg'.list # OurList => Same(reg')
    BY <1>1 DEF Untouched, Same
  <2>1. CASE reg' = r
    BY <1>2, <2>1
  <2>2. CASE reg' # r
    <3>1. reg' = reg /\ Clean
      BY <1>1, <1>3, <1>6, <2>2 DEF Clean, ghost
    <3>2. op.late \/ ~Halfway
      BY <1>1, <2>2, CommandEnds DEF Clean
    <3>3. ~op.late
      BY <1>1 DEF UsersInv, OwnServer
    <3> QED  BY <1>1, <1>2, <1>3, <3>1, <3>2, <3>3 DEF UsersInv, Untouched, Halfway
  <2> QED  BY <2>1, <2>2
<1> QED  BY <1>5, <1>7, <1>8 DEF UsersInv

LEMMA EnableListUsers == ASSUME IInv, UsersInv, EnableList PROVE UsersInv'
<1> DEFINE r == [reg EXCEPT !.list = OurList]
           done == [op EXCEPT !.at = "on"]
<1>1. /\ op.at = "list" /\ Command(r, done, Idle)
      /\ UNCHANGED <<journal, listener, app, queue, edits, ghost>>
  BY DEF EnableList
<1>2. /\ r.server = reg.server /\ r.on = reg.on /\ done.at = "on" /\ done.port = op.port /\ ~done.late
      /\ reg.server = op.port /\ op.port = journal.ours /\ op.port \in journal.written /\ journal # NoJournal
  BY <1>1 DEF IInv, TypeOK, Settings, Ops, OpShape, UsersInv, OwnServer
<1> HIDE DEF r, done
<1>3. reg' \in {reg, r} /\ op' \in {done, Idle}
  BY <1>1 DEF Command
<1>4. ~Restoring' /\ NobodyElse' /\ OwnServer' /\ PutBack'
  BY <1>1, <1>2, <1>3, IdleType, CommandNobody DEF OwnServer, PutBack, Restoring
<1>5. ~torn' => ~torn
  BY <1>1, CommandEnds
<1>6. UsersStands'
  BY <1>1, <1>2, <1>5 DEF UsersInv, UsersStands, Clean, Matches, ghost
<1>7. Untouched'
  BY <1>1, <1>2, <1>3 DEF Untouched
<1> QED  BY <1>4, <1>6, <1>7 DEF UsersInv

LEMMA EnableSwitchUsers == ASSUME IInv, UsersInv, EnableSwitch PROVE UsersInv'
<1> DEFINE r == [reg EXCEPT !.on = TRUE]
<1>1. /\ op.at = "on" /\ Command(r, Idle, Idle)
      /\ UNCHANGED <<journal, listener, app, queue, edits, ghost>>
  BY DEF EnableSwitch
<1>2. /\ r.server = reg.server
      /\ reg.server = op.port /\ op.port = journal.ours /\ op.port \in journal.written /\ journal # NoJournal
  BY <1>1 DEF IInv, TypeOK, Settings, OpShape, UsersInv, OwnServer
<1> HIDE DEF r
<1>3. reg' \in {reg, r} /\ op' = Idle
  BY <1>1 DEF Command
<1>4. ~Restoring' /\ NobodyElse' /\ OwnServer' /\ PutBack'
  BY <1>1, <1>2, <1>3, IdleType, CommandNobody DEF OwnServer, PutBack, Restoring
<1>5. ~torn' => ~torn
  BY <1>1, CommandEnds
<1>6. UsersStands'
  BY <1>1, <1>2, <1>5 DEF UsersInv, UsersStands, Clean, Matches, ghost
<1>7. Untouched'
  BY <1>1, <1>2, <1>3 DEF Untouched
<1> QED  BY <1>4, <1>6, <1>7 DEF UsersInv

-----------------------------------------------------------------------------
(* Restoring. *)
LEMMA SettlesNobody ==
  ASSUME IInv, UsersInv, NEW k, Settles(k),
         \A i \in DOMAIN queue' : queue'[i].kind = "enable" => queue'[i].port \in Ports /\ listener[queue'[i].port] # "other",
         RepairWaits' => RepairWaits, journal' \in {journal, NoJournal}, edited' = edited \/ journal' = NoJournal
  PROVE  NobodyElse'
<1>1. \A p \in Ports : listener'[p] = "core" \/ listener'[p] = "other" => listener[p] = listener'[p]
  BY DEF Settles, CoreStopped, IInv, TypeOK
<1>2. CoreRuns' => CoreRuns /\ app' = app
  BY <1>1 DEF CoreRuns, Settles, CoreStopped
<1>3. app' = "down" \/ RepairWaits' => ~CoreRuns'
  BY <1>2 DEF UsersInv, NobodyElse
<1>4. \A i \in DOMAIN queue' : queue'[i].kind = "enable" => queue'[i].port \in Ports /\ listener'[queue'[i].port] # "other"
  BY <1>1
<1>5. journal' # NoJournal /\ ~edited' => \A p \in journal'.written : listener'[p] # "other"
  BY <1>1 DEF UsersInv, NobodyElse, IInv, TypeOK, Journals
<1> QED  BY <1>3, <1>4, <1>5 DEF NobodyElse

(* The record is spent, and the machine has what the users chose. *)
LEMMA SpentUsers ==
  ASSUME NobodyElse', op' = Idle, Spend, reg' = reg, torn' = torn, journal # NoJournal,
         Clean => Matches(reg)
  PROVE  UsersInv'
<1>1. journal' = NoJournal /\ ~Restoring' /\ op'.at = "idle"
  BY IdleType DEF Spend, Restoring
<1>2. OwnServer' /\ Untouched' /\ PutBack'
  BY <1>1 DEF OwnServer, Untouched, PutBack, Clean, Restoring
<1>3. ~torn => Matches(reg)'
  BY DEF Spend, Matches, Clean, Proxy
<1> QED  BY <1>1, <1>2, <1>3 DEF UsersInv, UsersStands, Clean

LEMMA NothingToRestoreUsers == ASSUME IInv, UsersInv, NothingToRestore PROVE UsersInv'
<1>1. PICK kind \in {"disconnect", "restore"} :
        /\ Begins(kind, Absent) /\ journal = NoJournal /\ Settles(kind)
        /\ UNCHANGED <<reg, journal, faults, torn, edits, ghost>>
  BY DEF NothingToRestore
<1>2. NobodyElse'
  BY <1>1, BeginsAlone, SettlesNobody DEF ghost
<1>3. op' = op
  BY <1>1, BeginsAlone DEF Settles
<1> QED  BY <1>1, <1>2, <1>3, BystanderUsers

LEMMA NotOursUsers == ASSUME IInv, UsersInv, NotOurs PROVE UsersInv'
<1>1. PICK kind \in {"disconnect", "restore"} :
        /\ Begins(kind, Absent) /\ journal # NoJournal /\ ~OwnsInSession
        /\ Spend /\ Settles(kind) /\ UNCHANGED <<reg, faults, torn, edits>>
  BY DEF NotOurs
<1>2. NobodyElse'
  BY <1>1, BeginsAlone, SettlesNobody DEF Spend
<1>3. op = Idle /\ ~Restoring
  BY <1>1, BeginsAlone, IdleType DEF Restoring
<1>4. Clean => Same(reg) /\ Matches(journal.win)
  BY <1>1, <1>3, IdleType DEF UsersInv, Untouched, UsersStands, OwnsInSession
<1>5. Clean => Matches(reg)
  BY <1>4 DEF Same, Matches, Proxy
<1> QED  BY <1>1, <1>2, <1>5, SpentUsers DEF Settles

LEMMA NotOursAtLaunchUsers ==
  ASSUME ~SilentProbe, IInv, UsersInv, NotOursAtLaunch
  PROVE  UsersInv'
<1>1. PICK p \in Ports, answer \in Answers :
        /\ Begins("launch", p) /\ journal # NoJournal /\ ~OwnsAtLaunch(answer)
        /\ Spend /\ Settles("launch") /\ UNCHANGED <<reg, faults, torn, edits>>
  BY DEF NotOursAtLaunch
<1>2. NobodyElse'
  BY <1>1, BeginsAlone, SettlesNobody DEF Spend
<1>3. op = Idle /\ ~Restoring /\ RepairWaits
  BY <1>1, BeginsAlone, IdleType DEF Restoring
<1>4. Clean => reg.server \notin journal.written
  <2> SUFFICES ASSUME Clean, reg.server \in journal.written PROVE FALSE
    OBVIOUS
  <2>1. reg.server \in Ports
    BY <1>1 DEF IInv, TypeOK, Journals
  <2>2. listener[reg.server] = "free"
    BY <1>1, <1>3, <2>1 DEF UsersInv, NobodyElse, CoreRuns, Clean, IInv, TypeOK
  <2>3. answer = "free"
    BY <1>1, <2>1, <2>2 DEF Answers
  <2> QED  BY <1>1, <2>3 DEF OwnsAtLaunch
<1>5. Clean => Same(reg) /\ Matches(journal.win)
  BY <1>1, <1>3, <1>4 DEF UsersInv, Untouched, UsersStands
<1>6. Clean => Matches(reg)
  BY <1>5 DEF Same, Matches, Proxy
<1> QED  BY <1>1, <1>2, <1>6, SpentUsers DEF Settles

LEMMA BeginRestoreUsers == ASSUME IInv, UsersInv, BeginRestore \/ BeginLaunchRestore PROVE UsersInv'
<1>1. PICK kind \in {"disconnect", "restore", "launch"}, port \in Ports \cup {Absent},
           found \in {reg, Unknown} :
        /\ Begins(kind, port) /\ journal # NoJournal /\ Reads(found)
        /\ op' = Op(kind, "off", Absent)
        /\ UNCHANGED <<reg, journal, listener, app, edits, ghost>>
  BY DEF BeginRestore, BeginLaunchRestore
<1>2. op'.at = "off" /\ op'.ok /\ ~op'.late /\ Restoring'
  BY <1>1 DEF Op, Restoring
<1>3. NobodyElse'
  <2>1. /\ \A i \in DOMAIN queue' : queue'[i].kind = "enable" => queue'[i].port \in Ports /\ listener[queue'[i].port] # "other"
        /\ RepairWaits' => RepairWaits
    BY <1>1, BeginsAlone
  <2> QED  BY <1>1, <2>1 DEF UsersInv, NobodyElse, CoreRuns, ghost
<1>4. ~torn' => ~torn
  BY <1>1 DEF Reads, Fault, Tears
<1> QED  BY <1>1, <1>2, <1>3, <1>4 DEF UsersInv, OwnServer, Untouched, PutBack, UsersStands, Matches, Clean, ghost

(* A command of a restore: with nothing torn it landed. *)
LEMMA RestoreCommand ==
  ASSUME UsersInv, Restoring, NEW r, NEW done, NEW failed, Command(r, done, failed), ~torn'
  PROVE  reg' = r /\ op' = done /\ ~torn /\ op.ok /\ ~op.late
  BY CommandEnds DEF UsersInv, PutBack

LEMMA RestoringUsers ==
  ASSUME IInv, UsersInv, Restoring, Restoring', NEW r, NEW done, NEW failed, Command(r, done, failed),
         UNCHANGED <<journal, listener, app, queue, edits, ghost>>,
         ~torn' /\ reg' = r /\ op' = done /\ op.ok => PutBack'
  PROVE  UsersInv'
<1>1. ~torn' => ~torn /\ PutBack'
  BY RestoreCommand
<1>2. NobodyElse' /\ journal # NoJournal
  BY CommandNobody DEF IInv, OpShape, Restoring
<1>3. op'.at # "idle" /\ op'.at \notin {"server", "list", "on"}
  BY DEF Restoring
<1>4. OwnServer' /\ Untouched'
  BY <1>3 DEF OwnServer, Untouched
<1>5. UsersStands'
  BY <1>1, <1>2 DEF UsersInv, UsersStands, Clean, Matches, ghost
<1>6. PutBack'
  BY <1>1 DEF PutBack
<1> QED  BY <1>2, <1>4, <1>5, <1>6 DEF UsersInv

LEMMA RestoreOffUsers == ASSUME IInv, UsersInv, RestoreOff PROVE UsersInv'
<1> DEFINE r     == [reg EXCEPT !.on = FALSE]
           after == [op EXCEPT !.at = IF journal.win = Unknown THEN "spend" ELSE "backServer"]
           bad   == [after EXCEPT !.ok = FALSE]
<1>1. /\ op.at = "off" /\ Command(r, after, bad)
      /\ UNCHANGED <<journal, listener, app, queue, edits, ghost>>
  BY DEF RestoreOff
<1>2. /\ r.on = FALSE /\ after.at = IF journal.win = Unknown THEN "spend" ELSE "backServer"
      /\ bad.at = after.at /\ after.ok = op.ok /\ after.late = op.late
  BY DEF IInv, TypeOK, Settings, Ops
<1> HIDE DEF r, after, bad
<1>3. Restoring /\ Restoring'
  BY <1>1, <1>2 DEF Command, Restoring
<1>4. reg' = r /\ op' = after /\ op.ok /\ ~torn' => PutBack'
  BY <1>1, <1>2, <1>3, RestoreCommand DEF PutBack
<1> QED  BY <1>1, <1>3, <1>4, RestoringUsers

LEMMA RestoreServerUsers == ASSUME IInv, UsersInv, RestoreServer PROVE UsersInv'
<1> DEFINE back  == journal.win.server
           r     == [reg EXCEPT !.server = back]
           after == [op EXCEPT !.at = "backList"]
           bad   == [after EXCEPT !.ok = @ /\ back = Absent]
<1>1. /\ op.at = "backServer" /\ Command(r, after, bad)
      /\ UNCHANGED <<journal, listener, app, queue, edits, ghost>>
  BY DEF RestoreServer
<1>2. /\ r.on = reg.on /\ r.server = back /\ after.at = "backList"
      /\ bad.at = after.at /\ after.ok = op.ok /\ after.late = op.late
  BY DEF IInv, TypeOK, Settings, Ops
<1> HIDE DEF r, after, bad
<1>3. Restoring /\ Restoring'
  BY <1>1, <1>2 DEF Command, Restoring
<1>4. reg' = r /\ op' = after /\ op.ok /\ ~torn' => PutBack'
  BY <1>1, <1>2, <1>3, RestoreCommand DEF PutBack, UsersInv
<1> QED  BY <1>1, <1>3, <1>4, RestoringUsers

LEMMA RestoreListUsers == ASSUME IInv, UsersInv, RestoreList PROVE UsersInv'
<1> DEFINE back      == journal.win.list
           r         == [reg EXCEPT !.list = back]
           after(ok) == [op EXCEPT !.ok = ok,
                           !.at = IF ok /\ journal.win.on THEN "backOn" ELSE "spend"]
<1>1. /\ op.at = "backList" /\ Command(r, after(op.ok), after(op.ok /\ back = Absent))
      /\ UNCHANGED <<journal, listener, app, queue, edits, ghost>>
  BY DEF RestoreList
<1>2. /\ r.on = reg.on /\ r.server = reg.server
      /\ \A ok : /\ after(ok).at = IF ok /\ journal.win.on THEN "backOn" ELSE "spend"
                 /\ after(ok).ok = ok /\ after(ok).late = op.late
  BY DEF IInv, TypeOK, Settings, Ops
<1>3. journal.win \in Settings
  BY <1>1 DEF IInv, TypeOK, OpShape, Journals
<1> HIDE DEF r, after
<1>4. Restoring /\ Restoring'
  BY <1>1, <1>2 DEF Command, Restoring
<1>5. reg' = r /\ op' = after(op.ok) /\ op.ok /\ ~torn' => PutBack'
  <2> SUFFICES ASSUME reg' = r, op' = after(op.ok), op.ok, ~torn' PROVE PutBack'
    OBVIOUS
  <2>1. ~torn /\ ~op.late /\ ~reg.on /\ reg.server = journal.win.server
    BY <1>1, <1>4, RestoreCommand DEF PutBack, UsersInv
  <2>2. journal.win.on \in BOOLEAN /\ reg.on \in BOOLEAN
    BY <1>3 DEF Settings, IInv, TypeOK
  <2> QED  BY <1>1, <1>2, <2>1, <2>2 DEF PutBack, Same
<1> QED  BY <1>1, <1>4, <1>5, RestoringUsers

LEMMA RestoreSwitchUsers == ASSUME IInv, UsersInv, RestoreSwitch PROVE UsersInv'
<1> DEFINE r     == [reg EXCEPT !.on = TRUE]
           after == [op EXCEPT !.at = "spend"]
           bad   == [after EXCEPT !.ok = FALSE]
<1>1. /\ op.at = "backOn" /\ Command(r, after, bad)
      /\ UNCHANGED <<journal, listener, app, queue, edits, ghost>>
  BY DEF RestoreSwitch
<1>2. /\ r.on = TRUE /\ r.server = reg.server /\ after.at = "spend"
      /\ bad.at = after.at /\ after.ok = op.ok /\ after.late = op.late
  BY DEF IInv, TypeOK, Settings, Ops
<1>3. journal.win \in Settings
  BY <1>1 DEF IInv, TypeOK, OpShape, Journals
<1> HIDE DEF r, after, bad
<1>4. Restoring /\ Restoring'
  BY <1>1, <1>2 DEF Command, Restoring
<1>5. reg' = r /\ op' = after /\ op.ok /\ ~torn' => PutBack'
  <2> SUFFICES ASSUME reg' = r, op' = after, op.ok, ~torn' PROVE PutBack'
    OBVIOUS
  <2>1. ~torn /\ ~op.late /\ journal.win.on /\ reg.server = journal.win.server
    BY <1>1, <1>4, RestoreCommand DEF PutBack, UsersInv
  <2>2. journal.win.on \in BOOLEAN
    BY <1>3 DEF Settings
  <2> QED  BY <1>1, <1>2, <2>1, <2>2 DEF PutBack, Same
<1> QED  BY <1>1, <1>4, <1>5, RestoringUsers

LEMMA FinishRestoreUsers == ASSUME IInv, UsersInv, FinishRestore PROVE UsersInv'
<1>1. /\ op.at = "spend" /\ Settles(op.kind) /\ UNCHANGED <<reg, queue, faults, torn, edits>>
      /\ IF op.ok /\ ~op.late THEN Spend ELSE UNCHANGED <<journal, ghost>>
  BY DEF FinishRestore
<1>2. journal # NoJournal /\ Restoring /\ op' = Idle
  BY <1>1 DEF IInv, OpShape, Restoring, Settles
<1>3. NobodyElse'
  <2>1. journal' \in {journal, NoJournal} /\ (edited' = edited \/ journal' = NoJournal)
    BY <1>1 DEF Spend, ghost
  <2> QED  BY <1>1, <2>1, SettlesNobody DEF RepairWaits, UsersInv, NobodyElse
<1>4. CASE op.ok /\ ~op.late
  <2>1. Clean => Same(reg) /\ Matches(journal.win)
    BY <1>1 DEF UsersInv, PutBack, UsersStands, Clean
  <2>2. Clean => Matches(reg)
    BY <2>1 DEF Same, Matches, Proxy
  <2> QED  BY <1>1, <1>2, <1>3, <1>4, <2>2, SpentUsers
<1>5. CASE ~(op.ok /\ ~op.late)
  <2>1. torn'
    BY <1>1, <1>2, <1>5 DEF UsersInv, PutBack
  <2> QED  BY <1>1, <1>2, <1>3, <2>1, IdleType
           DEF UsersInv, OwnServer, Untouched, PutBack, UsersStands, Clean, Restoring
<1> QED  BY <1>4, <1>5

-----------------------------------------------------------------------------
LEMMA LaunchWithoutRecordUsers == ASSUME IInv, UsersInv, LaunchWithoutRecord PROVE UsersInv'
<1>1. PICK p \in Ports :
        /\ Begins("launch", p) /\ journal = NoJournal
        /\ (reg' = reg /\ users' = users) \/ users' = reg'
        /\ Fault \/ UNCHANGED <<faults, torn>>
        /\ UNCHANGED <<journal, listener, app, op, edits, edited>>
  BY DEF LaunchWithoutRecord
<1>2. op' = Idle
  BY <1>1, BeginsAlone
<1>3. NobodyElse'
  <2>1. /\ \A i \in DOMAIN queue' : queue'[i].kind = "enable" => queue'[i].port \in Ports /\ listener[queue'[i].port] # "other"
        /\ RepairWaits' => RepairWaits
    BY <1>1, BeginsAlone
  <2> QED  BY <1>1, <2>1 DEF UsersInv, NobodyElse, CoreRuns
<1>4. ~torn' => ~torn
  BY <1>1 DEF Fault, Tears
<1>5. UsersStands'
  BY <1>1, <1>4 DEF UsersInv, UsersStands, Clean, Matches, Proxy
<1>6. OwnServer' /\ Untouched' /\ PutBack'
  BY <1>1, <1>2, IdleType DEF OwnServer, Untouched, PutBack, Clean, Restoring
<1> QED  BY <1>3, <1>5, <1>6 DEF UsersInv

LEMMA LaunchUsers == ASSUME IInv, UsersInv, Launch PROVE UsersInv'
<1>1. PICK p \in Ports :
        /\ app = "down" /\ app' = "up" /\ queue' = <<[kind |-> "launch", port |-> p]>>
        /\ UNCHANGED <<reg, journal, listener, op, faults, torn, edits, ghost>>
  BY DEF Launch
<1>2. NobodyElse'
  BY <1>1 DEF UsersInv, NobodyElse, CoreRuns, ghost
<1> QED  BY <1>1, <1>2, BystanderUsers

(* What is put in the queue. *)
LEMMA QueuedAfter ==
  ASSUME TypeOK, NEW kind, NEW port, Queued(kind, port)
  PROVE  /\ app = "up"
         /\ \A i \in DOMAIN queue' : \/ i \in DOMAIN queue /\ queue'[i] = queue[i]
                                     \/ queue'[i] = [kind |-> kind, port |-> port]
<1>1. queue \in Seq(Waiting) /\ queue' = Append(queue, [kind |-> kind, port |-> port])
  BY DEF TypeOK, Queued
<1>2. \A i \in DOMAIN queue' : (i \in DOMAIN queue /\ queue'[i] = queue[i]) \/ queue'[i] = [kind |-> kind, port |-> port]
  BY <1>1
<1> QED  BY <1>2 DEF Queued

LEMMA ConnectUsers == ASSUME ~EarlyConnect, IInv, UsersInv, Connect PROVE UsersInv'
<1>1. PICK p \in Ports :
        /\ ~CoreRuns /\ listener[p] = "free" /\ ~Repairing
        /\ Queued("enable", p)
        /\ listener' = [listener EXCEPT ![p] = "core"]
        /\ UNCHANGED <<reg, journal, app, op, faults, torn, edits, ghost>>
  BY DEF Connect
<1>2. /\ app = "up"
      /\ \A i \in DOMAIN queue' : \/ i \in DOMAIN queue /\ queue'[i] = queue[i]
                                  \/ queue'[i] = [kind |-> "enable", port |-> p]
  BY <1>1, QueuedAfter DEF IInv
<1>3. ~RepairWaits' /\ app' = "up"
  BY <1>1, <1>2 DEF Repairing, RepairWaits
<1>4. listener'[p] = "core" /\ \A q \in Ports : listener'[q] = "other" => listener[q] = "other"
  BY <1>1 DEF IInv, TypeOK
<1>5. \A i \in DOMAIN queue' : queue'[i].kind = "enable" => queue'[i].port \in Ports /\ listener'[queue'[i].port] # "other"
  BY <1>2, <1>4 DEF UsersInv, NobodyElse
<1>6. journal # NoJournal /\ ~edited => \A q \in journal.written : listener'[q] # "other"
  BY <1>4 DEF UsersInv, NobodyElse, IInv, TypeOK, Journals
<1>7. NobodyElse'
  BY <1>1, <1>3, <1>5, <1>6 DEF NobodyElse, ghost
<1> QED  BY <1>1, <1>7, BystanderUsers

LEMMA CoreStopsUsers == ASSUME IInv, UsersInv, CoreStops PROVE UsersInv'
<1>1. /\ app = "up" /\ listener' = CoreStopped
      /\ UNCHANGED <<reg, journal, app, queue, op, faults, torn, edits, ghost>>
  BY DEF CoreStops
<1>2. \A p \in Ports : listener'[p] # "core" /\ (listener'[p] = "other" => listener[p] = "other")
  BY <1>1 DEF CoreStopped, IInv, TypeOK
<1>3. NobodyElse'
  BY <1>1, <1>2 DEF UsersInv, NobodyElse, CoreRuns, ghost, IInv, TypeOK, Journals
<1> QED  BY <1>1, <1>3, BystanderUsers

LEMMA AsksUsers == ASSUME IInv, UsersInv, Disconnect \/ GiveBack PROVE UsersInv'
<1>1. PICK kind \in {"disconnect", "restore"} :
        /\ Queued(kind, Absent)
        /\ UNCHANGED <<reg, journal, listener, app, op, faults, torn, edits, ghost>>
  BY DEF Disconnect, GiveBack
<1>2. /\ app = "up"
      /\ \A i \in DOMAIN queue' : \/ i \in DOMAIN queue /\ queue'[i] = queue[i]
                                  \/ queue'[i] = [kind |-> kind, port |-> Absent]
  BY <1>1, QueuedAfter DEF IInv
<1>3. \A i \in DOMAIN queue' : queue'[i].kind \in {"enable", "launch"} => i \in DOMAIN queue /\ queue'[i] = queue[i]
  BY <1>2
<1>4. RepairWaits' => RepairWaits
  BY <1>3 DEF RepairWaits
<1>5. NobodyElse'
  BY <1>1, <1>3, <1>4 DEF UsersInv, NobodyElse, CoreRuns, ghost
<1> QED  BY <1>1, <1>5, BystanderUsers

LEMMA ExitHookUsers == ASSUME IInv, UsersInv, ExitHook PROVE UsersInv'
<1>1. /\ Tears /\ queue' = <<>> /\ UNCHANGED <<reg, journal, faults, edits, ghost>>
      /\ IF journal = NoJournal THEN Settles("exit")
         ELSE op' = Op("exit", "off", Absent) /\ UNCHANGED <<listener, app>>
  BY DEF ExitHook
<1>2. CASE journal = NoJournal
  <2>1. NobodyElse'
    BY <1>1, <1>2, SettlesNobody DEF RepairWaits, ghost
  <2> QED  BY <1>1, <1>2, <2>1, IdleUsers DEF Settles
<1>3. CASE journal # NoJournal
  <2>1. op'.at = "off" /\ op'.ok /\ ~op'.late /\ Restoring'
    BY <1>1, <1>3 DEF Op, Restoring
  <2>2. NobodyElse'
    BY <1>1, <1>3 DEF UsersInv, NobodyElse, CoreRuns, RepairWaits, ghost
  <2>3. ~torn' => ~torn
    BY <1>1 DEF Tears
  <2> QED  BY <1>1, <1>3, <2>1, <2>2, <2>3
           DEF UsersInv, OwnServer, Untouched, PutBack, UsersStands, Matches, Clean, ghost
<1> QED  BY <1>2, <1>3

LEMMA BudgetSpentUsers == ASSUME IInv, UsersInv, BudgetSpent PROVE UsersInv'
<1>1. /\ op.kind = "exit" /\ Fault /\ op' = [op EXCEPT !.late = TRUE]
      /\ UNCHANGED <<reg, journal, listener, app, queue, edits, ghost>>
  BY DEF BudgetSpent
<1>2. op'.at = op.at /\ op.at \notin {"server", "list", "on"} /\ op # Idle
  BY <1>1 DEF IInv, TypeOK, OpShape, Ops, Idle
<1>3. Restoring /\ Restoring'
  BY <1>2 DEF Restoring, UsersInv, OwnServer, IInv, TypeOK, Ops, Steps
<1>4. torn'
  BY <1>1, <1>3 DEF Fault, Tears
<1>5. NobodyElse' /\ journal # NoJournal
  BY <1>1, <1>3, CommandNobody DEF IInv, OpShape, Restoring
<1> QED  BY <1>1, <1>2, <1>3, <1>4, <1>5
         DEF UsersInv, OwnServer, Untouched, PutBack, UsersStands, Clean

LEMMA CrashUsers == ASSUME IInv, UsersInv, Crash PROVE UsersInv'
<1>1. /\ Fault /\ app' = "down" /\ op' = Idle /\ queue' = <<>> /\ listener' = CoreStopped
      /\ UNCHANGED <<reg, journal, edits, ghost>>
  BY DEF Crash
<1>2. \A p \in Ports : listener'[p] # "core" /\ (listener'[p] = "other" => listener[p] = "other")
  BY <1>1 DEF CoreStopped, IInv, TypeOK
<1>3. NobodyElse'
  BY <1>1, <1>2 DEF UsersInv, NobodyElse, CoreRuns, ghost, IInv, TypeOK, Journals
<1> QED  BY <1>1, <1>3, IdleUsers

(* Somebody else's settings are from now on the users' own. *)
LEMMA ChosenUsers ==
  ASSUME IInv, UsersInv, NEW r, Chosen(r), UNCHANGED <<journal, app, queue, op, faults, torn>>,
         \A p \in Ports : listener'[p] = "core" => listener[p] = "core"
  PROVE  UsersInv'
<1>1. /\ op = Idle /\ queue = <<>> /\ reg' = r /\ users' = r /\ edited' = (journal # NoJournal)
  BY DEF Chosen
<1>2. ~Restoring' /\ op'.at = "idle" /\ ~Clean'
  BY <1>1, IdleType DEF Restoring, Clean
<1>3. NobodyElse'
  <2>1. ~RepairWaits' /\ \A i \in DOMAIN queue' : FALSE
    BY <1>1 DEF RepairWaits
  <2>2. CoreRuns' => CoreRuns
    BY DEF CoreRuns
  <2>3. ~(journal' # NoJournal /\ ~edited')
    BY <1>1
  <2>4. app' = "down" => ~CoreRuns'
    BY <2>2 DEF UsersInv, NobodyElse
  <2> QED  BY <2>1, <2>3, <2>4 DEF NobodyElse
<1>4. OwnServer' /\ Untouched' /\ PutBack' /\ UsersStands'
  BY <1>1, <1>2 DEF OwnServer, Untouched, PutBack, UsersStands, Matches, Proxy, Restoring
<1> QED  BY <1>3, <1>4 DEF UsersInv

LEMMA OthersUsers == ASSUME IInv, UsersInv, Others PROVE UsersInv'
<1>1. CASE UserSetsProxy \/ UserSwitchesOff
  BY <1>1, ChosenUsers DEF UserSetsProxy, UserSwitchesOff
<1>2. CASE ClientStarts
  <2>1. PICK p \in Ports, l \in {TheirList, OurList} :
          /\ Chosen([on |-> TRUE, server |-> p, list |-> l])
          /\ listener' = [listener EXCEPT ![p] = "other"]
          /\ UNCHANGED <<journal, app, queue, op, faults, torn>>
    BY <1>2 DEF ClientStarts
  <2>2. queue = <<>> /\ \A q \in Ports : listener'[q] = "core" => listener[q] = "core"
    BY <2>1 DEF Chosen, IInv, TypeOK
  <2> QED  BY <2>1, <2>2, ChosenUsers
<1>3. CASE ClientEnds
  <2>1. PICK p \in Ports :
          /\ listener' = [listener EXCEPT ![p] = "free"]
          /\ Chosen([reg EXCEPT !.on = FALSE]) \/ UNCHANGED <<reg, edits, ghost>>
          /\ UNCHANGED <<journal, app, queue, op, faults, torn>>
    BY <1>3 DEF ClientEnds
  <2>2. \A q \in Ports : listener'[q] # "free" => listener'[q] = listener[q]
    BY <2>1 DEF IInv, TypeOK
  <2>3. CASE Chosen([reg EXCEPT !.on = FALSE])
    BY <2>1, <2>2, <2>3, ChosenUsers
  <2>4. CASE UNCHANGED <<reg, edits, ghost>>
    <3>1. NobodyElse'
      BY <2>1, <2>2, <2>4 DEF UsersInv, NobodyElse, CoreRuns, RepairWaits, ghost, IInv, TypeOK, Journals
    <3> QED  BY <2>1, <2>4, <3>1, BystanderUsers
  <2> QED  BY <2>1, <2>3, <2>4
<1> QED  BY <1>1, <1>2, <1>3 DEF Others

LEMMA NextUsers ==
  ASSUME ~SilentProbe, ~EarlyConnect, IInv, UsersInv, [Next]_vars
  PROVE  UsersInv'
<1>1. CASE Work
  BY <1>1, BeginEnableUsers, JournalWriteFailsUsers, EnableServerUsers, EnableListUsers,
     EnableSwitchUsers, NothingToRestoreUsers, NotOursUsers, NotOursAtLaunchUsers, BeginRestoreUsers,
     LaunchWithoutRecordUsers, RestoreOffUsers, RestoreServerUsers, RestoreListUsers,
     RestoreSwitchUsers, FinishRestoreUsers DEF Work
<1>2. CASE Launch
  BY <1>2, LaunchUsers
<1>3. CASE App
  BY <1>3, ConnectUsers, CoreStopsUsers, AsksUsers, ExitHookUsers, BudgetSpentUsers, CrashUsers DEF App
<1>4. CASE Others
  BY <1>4, OthersUsers
<1>5. CASE UNCHANGED vars
  <2>1. UNCHANGED <<reg, journal, ghost>> /\ op' = op /\ torn' = torn
    BY <1>5 DEF vars, ghost
  <2>2. NobodyElse'
    BY <1>5 DEF vars, UsersInv, NobodyElse, CoreRuns, RepairWaits
  <2> QED  BY <2>1, <2>2, BystanderUsers
<1> QED  BY <1>1, <1>2, <1>3, <1>4, <1>5 DEF Next

-----------------------------------------------------------------------------
LEMMA UsersInvariance == ~SilentProbe /\ ~EarlyConnect => (Spec => []UsersInv)
<1>1. ~SilentProbe /\ ~EarlyConnect /\ IInv /\ UsersInv /\ [Next]_vars => UsersInv'
  BY NextUsers
<1>2. (~SilentProbe /\ ~EarlyConnect)' <=> ~SilentProbe /\ ~EarlyConnect
  OBVIOUS
<1> QED  BY <1>1, <1>2, InitUsers, Invariance, PTL DEF Spec

\* No record, nothing under way and nothing torn: the machine has the proxy that
\* somebody other than us chose last (sysproxy.js enableJournaled,
\* restoreJournaled), for any ports, faults and changes by others, where the
\* launch's probe answers and no connect comes before the repair.
THEOREM UsersProxyStands == ~SilentProbe /\ ~EarlyConnect => (Spec => []UsersProxyInForce)
<1>1. UsersInv => UsersProxyInForce
  BY DEF UsersInv, UsersStands, UsersProxyInForce, Matches
<1> QED  BY <1>1, UsersInvariance, PTL

\* Under the same conditions a record never names anything else, however often
\* the proxy was enabled since it was made.
THEOREM RecordStaysUsers == ~SilentProbe /\ ~EarlyConnect => (Spec => []RecordIsUsers)
<1>1. UsersInv => RecordIsUsers
  BY DEF UsersInv, UsersStands, RecordIsUsers, Matches, Clean, Proxy
<1> QED  BY <1>1, UsersInvariance, PTL
=============================================================================
