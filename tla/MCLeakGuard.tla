----------------------------- MODULE MCLeakGuard -----------------------------
(* Scenarios for LeakGuard: what connects find, and how often events happen. *)
EXTENDS LeakGuard
CONSTANTS wifi, cable

MCAdapters == {wifi, cable}

Budget(happening) == [e \in Events |-> IF e \in DOMAIN happening THEN happening[e] ELSE 0]
Among(ps, happening) == [plans |-> ps, budget |-> Budget(happening)]

\* Connects overlap with each other and with a disconnect, scripts fail, the
\* process dies.
Overlaps == Among(Guarded, [connect |-> 2, disconnect |-> 1, fault |-> 1, crash |-> 1])

\* Tunnels that fail to come up over a guard that was held for them.
Stranded == Among({"standard", "plain"}, [connect |-> 2, apply |-> 1, fault |-> 1, button |-> 1])

\* Proxy mode with the block of UDP, over and after tunnels.
Modes == Among({"standard", "udp", "plain"}, [connect |-> 2, apply |-> 1, disconnect |-> 1])

\* A block of UDP whose script fails, and a disconnect.
Blocks == Among({"udp", "plain"}, [connect |-> 2, disconnect |-> 1, fault |-> 1])

\* One session, rebuilt once: resolvers drift, refuse the hold, come and go.
Sessions ==
  {Among(Guarded, [connect |-> 1, apply |-> 1, drift |-> 1, refuse |-> 1, fault |-> 1, disconnect |-> 1]),
   Among({"standard"}, [connect |-> 1, apply |-> 1, plug |-> 2, drift |-> 1]),
   Among({"strict"}, [connect |-> 1, apply |-> 1, plug |-> 2, crash |-> 1]),
   Among({"udp"}, [connect |-> 1, plug |-> 2])}

\* A release that stops on its way, and one after it with an adapter unplugged.
Broken == Among({"standard"}, [connect |-> 1, disconnect |-> 1, button |-> 1, fault |-> 1, plug |-> 2])

MCScenarios == {Overlaps, Stranded, Modes, Blocks, Broken} \cup Sessions
=============================================================================
