----------------------------- MODULE MCLanUsers -----------------------------
(* Two users, one server and one group, limits of one or two bytes. *)
EXTENDS LanUsers, TLC
CONSTANTS ann, bob, nobody, none

MCUsers == {ann, bob}
MCTargets == {"home", "pool"}
MCGroups == {"pool"}
MCGone == {"gone"}
MCDests == {{}, {"loopback", "private"}, {"private"}, {"iran", "category"}, {"domains", "search"}, {"search"},
            {"quic"}, {"first"}, {"iran", "second"}}

Cut(kind, period, cap) == [kind |-> kind, period |-> period, cap |-> cap, action |-> "cut"]
Slow(kind, period, cap) == [kind |-> kind, period |-> period, cap |-> cap, action |-> "slow"]
User(target, routing, filter, limits) ==
  [target |-> target, routing |-> routing, profile |-> <<"direct", "gone">>, filter |-> filter, enabled |-> TRUE,
   expires |-> FALSE, limits |-> limits]
Off(r) == [r EXCEPT !.enabled = FALSE]
Expiring(r) == [r EXCEPT !.expires = TRUE]

Plain == User("", "global", {}, {})
Bypasser == User("home", "bypass", {"domains", "search"}, {Cut("vpn", "day", 1), Cut("direct", "day", 2)})
Capped == User("", "global", {"category"}, {Cut("total", "day", 1)})
Directly == User("direct", "global", {"search"}, {Cut("direct", "none", 1), Slow("total", "day", 1)})
Profiled == User("pool", "profile", {"search"}, {Cut("direct", "day", 1)})
Homely == User("", "bypass", {"search"}, {Cut("direct", "day", 1)})
Lost == User("gone", "profile", {}, {Cut("vpn", "none", 1)})

Budget(happening) == [e \in Events |-> IF e \in DOMAIN happening THEN happening[e] ELSE 0]
Scenario(a, b, changes, geo, exit, happening) ==
  [users |-> (ann :> a @@ bob :> b), edits |-> changes, ctx |-> [geo |-> geo, exit |-> exit], events |-> Budget(happening)]

MCScenarios == {
  Scenario(Bypasser, None, {}, TRUE, "proxy", [connect |-> 1, carry |-> 3, day |-> 1, torn |-> 1]),
  Scenario(Bypasser, Profiled, {}, FALSE, "proxy", [connect |-> 1, carry |-> 2, torn |-> 1, delete |-> 1]),
  Scenario(Directly, Lost, {}, TRUE, "direct", [connect |-> 1, carry |-> 2, reset |-> 1]),
  Scenario(Capped, None, {}, TRUE, "proxy", [connect |-> 2, carry |-> 2, day |-> 1, refuse |-> 1]),
  Scenario(Capped, None, {}, TRUE, "proxy", [connect |-> 1, carry |-> 2, topUp |-> 1, fail |-> 1]),
  Scenario(Capped, Homely, {}, TRUE, "direct", [connect |-> 2, carry |-> 1, disconnect |-> 1, owner |-> 1]),
  Scenario(Capped, None, {}, TRUE, "pool", [connect |-> 2, carry |-> 2, crash |-> 1]),
  Scenario(Capped, Plain, {<<ann, Off(Capped)>>, <<ann, Capped>>, <<bob, Capped>>}, TRUE, "proxy",
           [connect |-> 1, carry |-> 1, edit |-> 2]),
  Scenario(Expiring(Plain), Bypasser, {}, TRUE, "proxy", [connect |-> 1, expire |-> 1, hours |-> 1, carry |-> 1]),
  Scenario(Capped, None, {}, TRUE, "proxy", [connect |-> 1, carry |-> 2, gap |-> 1, refuse |-> 1]),
  Scenario(Capped, None, {}, TRUE, "proxy", [connect |-> 2, config |-> 1, settings |-> 1, hours |-> 1])
}
=============================================================================
