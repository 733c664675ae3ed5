-------------------------------- MODULE Store --------------------------------
(***************************************************************************)
(* A JSON file of the application: class Store (src/src/main/store.js).    *)
(* The memory is written whole to a sibling .tmp file, synced, and renamed *)
(* over the real one.  A save is synchronous, so only the death of the     *)
(* process, at any of its steps, or an error of the file system comes in   *)
(* between.  At a launch the file may be unreadable - damaged, or held by  *)
(* another process for that moment - and is then moved aside.              *)
(*                                                                         *)
(* Two keys stand for the keys of the file: one set at once, one lazily.   *)
(***************************************************************************)
EXTENDS Naturals

CONSTANTS Keys, Values,
  Default     \* what a key holds in the defaults

ASSUME StoreAssumption == Default \in Values

VARIABLES
  file, tmp,   \* filePath and tmpPath on the disk
  data,        \* this.data
  lazy,        \* lazyTimer is armed
  step,        \* what save() has done: the process is down, or nothing is being saved
  loadError, saveError,
  reported,    \* history: the value the last save returned true for
  attempted    \* history: the values save() was entered with since

disk == <<file, tmp>>
memory == <<data, lazy>>
history == <<reported, attempted>>
stVars == <<disk, memory, step, loadError, saveError, history>>

Data == [Keys -> Values]
Defaults == [k \in Keys |-> Default]

Nothing == <<>>                                  \* no store can be made of it
Missing == [is |-> "missing", holds |-> Nothing]
Torn == [is |-> "torn", holds |-> Nothing]       \* not the JSON of an object
Whole(d) == [is |-> "whole", holds |-> d]
Files == {Missing, Torn} \cup {Whole(d) : d \in Data}

SaveSteps == {"down", "idle", "entered", "opened", "synced", "renamed"}

StTypeOK ==
  /\ file \in Files /\ tmp \in Files /\ data \in Data
  /\ {lazy, loadError, saveError} \subseteq BOOLEAN /\ step \in SaveSteps
  /\ reported \in Data /\ attempted \subseteq Data

StInit ==
  /\ file = Missing /\ tmp = Missing
  /\ data = Defaults /\ lazy = FALSE /\ step = "down"
  /\ loadError = FALSE /\ saveError = FALSE
  /\ reported = Defaults /\ attempted = {}

-----------------------------------------------------------------------------
\* What the application does between saves.

With(k, v) == [data EXCEPT ![k] = v]

\* The timer goes and the write begins: it carries what setLazy() was holding.
EnterSave(d) ==
  /\ step = "idle" /\ step' = "entered"
  /\ data' = d /\ lazy' = FALSE /\ attempted' = attempted \cup {d}
  /\ UNCHANGED <<disk, loadError, saveError, reported>>

Set == \E k \in Keys, v \in Values : EnterSave(With(k, v))

\* One timer, however many calls.
SetLazy ==
  /\ step = "idle"
  /\ \E k \in Keys, v \in Values : data' = With(k, v)
  /\ lazy' = TRUE
  /\ UNCHANGED <<disk, step, loadError, saveError, history>>

\* Slip: flush() clears the timer and writes nothing.
FlushForgets ==
  /\ lazy /\ step = "idle" /\ lazy' = FALSE
  /\ UNCHANGED <<disk, data, step, loadError, saveError, history>>

\* The timer fires, or flush() on an exit path is before it.
WriteLazy == lazy /\ EnterSave(data)

-----------------------------------------------------------------------------
\* save()

\* Slip: the real file is written in place.
SaveInPlace ==
  /\ step = "entered" /\ step' = "opened" /\ file' = Torn /\ tmp' = Torn
  /\ UNCHANGED <<memory, loadError, saveError, history>>

SaveOpen ==
  /\ step = "entered" /\ step' = "opened" /\ tmp' = Torn
  /\ UNCHANGED <<file, memory, loadError, saveError, history>>

SaveSync ==
  /\ step = "opened" /\ step' = "synced" /\ tmp' = Whole(data)
  /\ UNCHANGED <<file, memory, loadError, saveError, history>>

SaveRename ==
  /\ step = "synced" /\ step' = "renamed" /\ file' = tmp /\ tmp' = Missing
  /\ UNCHANGED <<memory, loadError, saveError, history>>

SaveReturn ==
  /\ step = "renamed" /\ step' = "idle" /\ saveError' = FALSE
  /\ reported' = data /\ attempted' = {}
  /\ UNCHANGED <<disk, memory, loadError>>

\* Opening, writing, syncing or renaming fails; so may the clean-up after it.
SaveFails ==
  /\ step \in {"entered", "opened", "synced"} /\ step' = "idle"
  /\ saveError' = TRUE /\ tmp' \in {tmp, Missing}
  /\ UNCHANGED <<file, memory, loadError, history>>

-----------------------------------------------------------------------------
\* The process: it may die at every step, and load() is what it starts with.

Dies ==
  /\ step # "down" /\ step' = "down" /\ lazy' = FALSE
  /\ UNCHANGED <<disk, data, loadError, saveError, history>>

Launched(d, failed) ==
  /\ step = "down" /\ step' = "idle"
  /\ data' = d /\ lazy' = FALSE /\ loadError' = failed /\ saveError' = FALSE

LoadFile ==
  /\ file.is = "whole" /\ Launched(file.holds, FALSE)
  /\ UNCHANGED <<disk, history>>

Recovered == IF tmp.is = "whole" THEN tmp.holds ELSE Defaults

\* Nothing saved yet, unless the very first write was never renamed.
LoadFirst ==
  /\ file.is = "missing" /\ Launched(Recovered, FALSE)
  /\ UNCHANGED <<disk, history>>

\* Slip: an unreadable file is swallowed, and the defaults are used.
LoadSilently ==
  /\ file.is # "missing" /\ Launched(Recovered, FALSE)
  /\ UNCHANGED <<disk, history>>

\* quarantine() fails where the file is still held.
LoadUnreadable ==
  /\ file.is # "missing" /\ Launched(Recovered, TRUE)
  /\ file' \in {file, Missing}
  /\ reported' = Defaults /\ attempted' = attempted \cup {reported}
  /\ UNCHANGED tmp

Load == LoadFile \/ LoadFirst \/ LoadUnreadable
Saving == SaveOpen \/ SaveSync \/ SaveRename \/ SaveReturn \/ SaveFails

StNext == Set \/ SetLazy \/ WriteLazy \/ Saving \/ Dies \/ Load

\* save() runs to its end, and a timer that is armed fires.
StFairness == WF_stVars(Saving) /\ WF_stVars(WriteLazy)

StSpec == StInit /\ [][StNext]_stVars
StFairSpec == StSpec /\ StFairness

-----------------------------------------------------------------------------
\* The store keeps the promise of DurableStore: what a save returned true for
\* is what the next launch finds, or a later write; a launch that finds less
\* says so (load, save, setLazy and flush against the store's header comment).
Promise ==
  INSTANCE DurableStore WITH
    open <- step # "down", value <- data, saved <- reported, begun <- attempted,
    told <- loadError

KeepsPromise == Promise!Spec

\* The real file is only ever a complete version, and the .tmp beside it is
\* never older: whichever of the two a launch reads was entered into save()
\* no earlier than the last one reported (load: "tried FIRST").
NeverOlder ==
  /\ file.is # "torn"
  /\ \A f \in {file, tmp} : f.is = "whole" => f.holds \in {reported} \cup attempted
  /\ file.is = "missing" => reported = Defaults

\* A value held back by setLazy reaches the file, by its own timer or by
\* another save, unless a save failed or the process died.
LazyLands ==
  lazy ~> (~lazy /\ (file = Whole(data) \/ saveError \/ step = "down"))
=============================================================================
