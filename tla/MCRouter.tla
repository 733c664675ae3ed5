------------------------------ MODULE MCRouter ------------------------------
(* Scenarios for Router: two servers, two or three calls under way. *)
EXTENDS Router
CONSTANTS home, work, nothing, c1, c2, c3, none

MCIds == {home, work}
MCSlots == {c1, c2, c3}
MCCallers == MCSlots \cup {"off", "set"}
Events == KernelEvents \cup RouterEvents
Budget(happening) == [e \in Events |-> IF e \in DOMAIN happening THEN happening[e] ELSE 0]

MCScenarios == {
  Budget([connect |-> 2, disconnect |-> 1]),
  Budget([connect |-> 2, fail |-> 1, reject |-> 1]),
  Budget([connect |-> 1, disconnect |-> 1, die |-> 1, fail |-> 1]),
  Budget([connect |-> 2, die |-> 1]),
  Budget([connect |-> 1, die |-> 1, reconnect |-> 1]),
  Budget([connect |-> 1, reconnect |-> 1, disconnect |-> 1]),
  Budget([connect |-> 1, reconnect |-> 1, fail |-> 2]),
  Budget([connect |-> 1, die |-> 2, fail |-> 1]),
  Budget([connect |-> 1, reboot |-> 1, disconnect |-> 1, fail |-> 1]),
  Budget([connect |-> 1, die |-> 1, crash |-> 1, fail |-> 1]),
  Budget([connect |-> 1, stall |-> 1, follow |-> 1, wan |-> 1]),
  Budget([connect |-> 1, stall |-> 1, die |-> 2]),
  Budget([connect |-> 1, flush |-> 1, refuse |-> 1, settings |-> 1])
}

\* A bound: the settings take every value only where something depends on them.
ChosenInit ==
  /\ Init
  /\ left["settings"] = 0 => enabled
  /\ left["settings"] + left["crash"] + left["reboot"] = 0 => ~autoConnect
ChosenSpec == ChosenInit /\ [][Next]_rVars /\ Fairness
=============================================================================
