------------------------------ MODULE MCUsage ------------------------------
(* Scenarios for Usage: two configs, two internets, how often events happen. *)
EXTENDS Usage
CONSTANTS home, work, fibre, mobile

MCServers == {home, work}
MCLinks == {fibre, mobile}
MCCap == [l \in MCLinks |-> IF l = mobile THEN 1 ELSE 0]

Budget(happening) == [e \in Events |-> IF e \in DOMAIN happening THEN happening[e] ELSE 0]

MCScenarios == {
  Budget([carry |-> 2, connect |-> 2]),
  Budget([carry |-> 1, connect |-> 2, die |-> 1]),
  Budget([carry |-> 2, connect |-> 1, reapply |-> 1]),
  Budget([carry |-> 2, connect |-> 1, watch |-> 1]),
  Budget([carry |-> 2, connect |-> 1, fail |-> 1]),
  Budget([carry |-> 1, connect |-> 1, day |-> 1]),
  Budget([carry |-> 1, connect |-> 1, die |-> 1, edit |-> 1, reapply |-> 1]),
  Budget([carry |-> 1, connect |-> 2, disconnect |-> 1, crash |-> 1]),
  Budget([carry |-> 1, connect |-> 1, quit |-> 1, clear |-> 1])}
=============================================================================
