------------------------------ MODULE LanRules ------------------------------
(***************************************************************************)
(* The routing rules a core is built with for the people on the LAN        *)
(* (src/src/modules/lanUsers/xray.js): each user's content filter, routing *)
(* and target as a list of rules scoped to them, their hold applied, ahead *)
(* of the owner's own.  The core takes the first rule that matches.        *)
(*                                                                         *)
(* A destination is the set of traits the rules tell apart; an outbound is *)
(* what it is to its user, with whose it is.                               *)
(***************************************************************************)
EXTENDS Integers, Sequences

CONSTANTS
  Users,      \* the ids
  Nobody,     \* whose outbound a shared one is
  Targets,    \* the servers, groups and chains a user's traffic may be sent to
  Groups,     \* of these, the ones the core runs as a loopback outbound or a balancer
  Gone        \* targets whose record is there no more

ASSUME RulesAssumption ==
  /\ Nobody \notin Users /\ Groups \subseteq Targets /\ Gone \cap Targets = {}
  /\ {"", "direct", "block", "owner"} \cap (Targets \cup Gone) = {}

\* What a rule can tell of a destination: this machine's loopback, a private
\* range, a domain the admin blocks, one of a blocked category, a search host
\* over TCP and over QUIC, an Iranian site, what the first and second rule of
\* a profile name.
Traits == {"loopback", "private", "domains", "category", "search", "quic", "iran", "first", "second"}
AnyTarget == {"", "direct", "block"} \cup Targets \cup Gone

\* A user as their rules read them: the target, the routing ("global",
\* "bypass" or "profile"), where the profile's two rules lead, and the filter.
Filters == {"domains", "category", "search"}
UserRecord == [target : AnyTarget, routing : {"global", "bypass", "profile"},
               profile : AnyTarget \X AnyTarget, filter : SUBSET Filters]

\* What a build knows besides: whether the geo files are there, and the plan's
\* own exit - a server, a group, or direct (routingMode 'direct').
Context == [geo : BOOLEAN, exit : {"proxy", "direct"} \cup Groups]

Outbound(what, whose) == [what |-> what, whose |-> whose]
Block == Outbound("block", Nobody)
Own(u) == Outbound("direct", u)
Safe(u) == Outbound("safe", u)
Owners == Outbound("owner", Nobody)     \* no rule of the users' matched: the owner's own decide

\* The tag of a target: '' the plan's exit, a target that is gone 'block'.
TagOf(t, c) ==
  IF t \in Targets THEN Outbound(t, Nobody)
  ELSE IF t = "" THEN Outbound(c.exit, Nobody)
  ELSE IF t = "direct" THEN Outbound("direct", Nobody)
  ELSE Block

\* ... the outbound of a user's catch-all,
CatchAll(u, r, c) ==
  IF r.target = "direct" \/ TagOf(r.target, c) = Outbound("direct", Nobody) THEN Own(u) ELSE TagOf(r.target, c)

\* ... and whether it can carry a safe search: a copy of the user's own direct
\* outbound does, a server does, a group or a blackhole does not.
SafeMade(u, r, c) ==
  /\ "search" \in r.filter
  /\ CatchAll(u, r, c).what \notin Groups \cup {"block"}

Rule(u, traits, out) == [user |-> u, any |-> traits, out |-> out]
When(condition, rules) == IF condition THEN rules ELSE <<>>

FilterRules(u, r, c) ==
  When("domains" \in r.filter, <<Rule(u, {"domains"}, Block)>>)
  \o When("category" \in r.filter /\ c.geo, <<Rule(u, {"category"}, Block)>>)
  \o When(SafeMade(u, r, c), <<Rule(u, {"quic"}, Block), Rule(u, {"search"}, Safe(u))>>)

\* A profile's rule leads where its target does; one whose target is gone, or
\* that names none, is left out.  The second rule names a geo list: without the
\* files it is no rule.
ProfileRule(u, trait, t, c) ==
  When(t \notin Gone \cup {""}, <<Rule(u, {trait}, IF t = "direct" THEN Own(u) ELSE TagOf(t, c))>>)

RoutingRules(u, r, c) ==
  When(r.routing = "bypass",
       <<Rule(u, {"private"}, Own(u))>> \o When(c.geo, <<Rule(u, {"iran"}, Own(u))>>))
  \o When(r.routing = "profile",
       ProfileRule(u, "first", r.profile[1], c)
       \o When(c.geo, ProfileRule(u, "second", r.profile[2], c)))

\* A user's direct class: their own direct outbound, and the safe search when
\* the catch-all rides it.
RidesDirectPlainly(u, r, c, out) == out = Own(u)
RidesDirect(u, r, c, out) == out = Own(u) \/ (out = Safe(u) /\ CatchAll(u, r, c) = Own(u))
\* A hold blocks one class ("vpn": everything but the direct, "direct": that).
Held(u, r, c, hold, out) ==
  IF \/ hold = "vpn" /\ ~RidesDirect(u, r, c, out)
     \/ hold = "direct" /\ RidesDirect(u, r, c, out)
  THEN Block ELSE out

UserRouteRules(u, r, c, hold) ==
  LET rules == FilterRules(u, r, c) \o RoutingRules(u, r, c) \o <<Rule(u, Traits \cup {"any"}, CatchAll(u, r, c))>>
  IN [i \in DOMAIN rules |-> [rules[i] EXCEPT !.out = Held(u, r, c, hold, @)]]

Matches(rule, u, d) == rule.user \in {u, Nobody} /\ ("any" \in rule.any \/ rule.any \cap d # {})
FirstMatch(rules, u, d) ==
  LET hits == {i \in DOMAIN rules : Matches(rules[i], u, d)}
  IN IF hits = {} THEN Owners ELSE rules[CHOOSE i \in hits : \A j \in hits : i <= j].out

\* The loopback is blocked for everyone, before any rule of theirs; whatever
\* is left after them is blocked too.
Guard == <<[user |-> Nobody, any |-> {"loopback"}, out |-> Block]>>
Rest == <<[user |-> Nobody, any |-> {"any"}, out |-> Block]>>

(* Where what user u sends to d leaves, under a build that lets in the users *)
(* of acts: their record and their hold; the rules of two users never match  *)
(* each other's traffic, so that only their own are looked at.               *)
Route(acts, c, u, d) ==
  FirstMatch(Guard \o UserRouteRules(u, acts[u].rec, c, acts[u].part) \o Rest, u, d)
=============================================================================
