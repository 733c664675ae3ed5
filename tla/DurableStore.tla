---------------------------- MODULE DurableStore ----------------------------
(***************************************************************************)
(* What a settings file promises its owner, with no files in it: a value   *)
(* reported saved is the one the next launch finds, or one whose saving    *)
(* was begun later, unless that launch says that it could not read the     *)
(* file.  Store.tla implements it.                                         *)
(***************************************************************************)
CONSTANTS Data, Defaults

VARIABLES
  open,    \* the application runs
  value,   \* the value it works with
  saved,   \* the last value a save reported
  begun,   \* the values whose saving was begun since
  told     \* this launch said that the file could not be read

vars == <<open, value, saved, begun, told>>

Init ==
  /\ open = FALSE /\ value = Defaults /\ saved = Defaults /\ begun = {} /\ told = FALSE

Change == open /\ value' \in Data /\ UNCHANGED <<open, saved, begun, told>>

Begin ==
  /\ open /\ value' \in Data /\ begun' = begun \cup {value'}
  /\ UNCHANGED <<open, saved, told>>

Report == open /\ saved' = value /\ begun' = {} /\ UNCHANGED <<open, value, told>>

Crash == open /\ open' = FALSE /\ UNCHANGED <<value, saved, begun, told>>

\* The value found may have been begun and never reported.
Launch ==
  /\ ~open /\ open' = TRUE /\ value' \in {saved} \cup begun /\ told' = FALSE
  /\ UNCHANGED <<saved, begun>>

\* An unreadable file is announced, and from then on only a new save counts.
LaunchTelling ==
  /\ ~open /\ open' = TRUE /\ told' = TRUE
  /\ value' \in {Defaults, saved} \cup begun
  /\ saved' = Defaults /\ begun' = begun \cup {saved}

Next == Change \/ Begin \/ Report \/ Crash \/ Launch \/ LaunchTelling

Spec == Init /\ [][Next]_vars
=============================================================================
