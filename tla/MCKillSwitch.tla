---------------------------- MODULE MCKillSwitch ----------------------------
(* Values for KillSwitch: two servers, one caller at a time in each pass. *)
EXTENDS KillSwitch
CONSTANTS home, work, off

MCIds == {home, work}
MCCallers == {"user"}
Budget(happening) == [e \in KernelEvents |-> IF e \in DOMAIN happening THEN happening[e] ELSE 0]

MCScenarios == {
  Budget([flush |-> 1, refuse |-> 1, crash |-> 1, settings |-> 1]),
  Budget([crash |-> 1, reboot |-> 1, settings |-> 1, unbuildable |-> 1]),
  Budget([flush |-> 1, reboot |-> 1, refuse |-> 1]),
  Budget([reboot |-> 2, settings |-> 2])}

\* At most two passes wait behind the one that runs.
MaxPasses == 3
FewPasses == Len(passes) <= MaxPasses
=============================================================================
