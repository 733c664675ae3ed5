--------------------------- MODULE LanUsersProof ---------------------------
(***************************************************************************)
(* Whatever users, targets and destinations there are: under every core    *)
(* the LAN users' machine may run, what a user sends leaves by their own   *)
(* filter, routing, target and hold (RoutedAsMeant).                       *)
(*                                                                         *)
(* First the rules as a list: the first match of a user's traffic is the   *)
(* guard's or one of their own, and every one of those leads where it may. *)
(* Then the machine: every build it makes, keeps or runs is one of such    *)
(* records (Built), which is all that the rules need.                      *)
(***************************************************************************)
EXTENDS LanUsers, WellFoundedInduction, TLAPS

\* Where a rule of u's may lead before a hold, ...
Meant(u, r, c) ==
  {o \in [what : {"block", "direct", "safe", "proxy"} \cup Targets, whose : Users \cup {Nobody}] :
     /\ o # Outbound("direct", Nobody)
     /\ r.target \in Gone /\ r.routing # "profile" => o # TagOf("", c)}
\* ... and the rules that lead there.
Ruled(u, r, c) == [user : {u}, any : SUBSET (Traits \cup {"any"}), out : Meant(u, r, c)]
AnyRule == [user : Users \cup {Nobody}, any : SUBSET (Traits \cup {"any"}),
            out : [what : {"block", "direct", "safe", "proxy"} \cup Targets, whose : Users \cup {Nobody}]]

\* A block of one class, and the class of what rides direct, by name.
Rides(u, r, c, out) == out = Own(u) \/ (out = Safe(u) /\ CatchAll(u, r, c) = Own(u))
-----------------------------------------------------------------------------
(* A list of rules some of which match has a first one that does, and it    *)
(* decides.                                                                 *)
LEMMA FirstDecides ==
  ASSUME NEW S, NEW rules \in Seq(S), NEW u, NEW d, NEW j \in DOMAIN rules, Matches(rules[j], u, d)
  PROVE  \E i \in DOMAIN rules :
           /\ FirstMatch(rules, u, d) = rules[i].out
           /\ \A k \in DOMAIN rules : Matches(rules[k], u, d) => i <= k
<1> DEFINE hits == {i \in DOMAIN rules : Matches(rules[i], u, d)}
<1>         DEFINE Less == OpToRel(<, Nat)
<1>1. hits \subseteq Nat /\ hits # {}
  OBVIOUS
<1>2. \A k, i \in Nat : k < i => <<k, i>> \in Less
  <2>1. Less = {p \in Nat \X Nat : p[1] < p[2]}
    BY DEF OpToRel
  <2> QED
    BY <2>1
<1>3. PICK i \in hits : \A k \in hits : i <= k
  <2> HIDE DEF hits, Less
  <2>1. IsWellFoundedOn(Less, Nat)
    BY NatLessThanWellFounded DEF Less
  <2>2. PICK i \in hits : \A k \in hits : ~ (<<k, i>> \in Less)
    BY <1>1, <2>1, WFMin
  <2>3. ASSUME NEW k \in hits PROVE i <= k
    <3>1. k \in Nat /\ i \in Nat
      BY <1>1
    <3>2. ~ (k < i)
      BY <1>2, <2>2, <3>1, Zenon
    <3> QED
      BY <3>1, <3>2
  <2> QED
    BY <2>3
<1>4. (CHOOSE m \in hits : \A k \in hits : m <= k) = i
  <2>1. \A m \in hits : (\A k \in hits : m <= k) => m = i
    BY <1>1, <1>3
  <2> QED
    BY <1>3, <2>1
<1>5. FirstMatch(rules, u, d) = rules[i].out
  BY <1>1, <1>4 DEF FirstMatch
<1> QED
  BY <1>3, <1>5

LEMMA WhenSeq ==
  ASSUME NEW S, NEW p, NEW s \in Seq(S)
  PROVE  When(p, s) \in Seq(S)
BY DEF When

LEMMA ConcatSeq ==
  ASSUME NEW S, NEW s \in Seq(S), NEW t \in Seq(S)
  PROVE  s \o t \in Seq(S)
OBVIOUS

LEMMA HeadOf ==
  ASSUME NEW S, NEW x \in S, NEW s \in Seq(S), NEW t \in Seq(S)
  PROVE  (<<x>> \o s) \o t # <<>> /\ ((<<x>> \o s) \o t)[1] = x
<1>1. Len((<<x>> \o s) \o t) = 1 + Len(s) + Len(t)
  OBVIOUS
<1>2. (<<x>> \o s)[1] = x /\ Len(<<x>> \o s) >= 1
  OBVIOUS
<1> QED
  BY <1>1, <1>2

LEMMA OutboundsApart ==
  ASSUME NEW u \in Users
  PROVE  /\ {Block, Own(u), Safe(u)} \subseteq
               [what : {"block", "direct", "safe", "proxy"} \cup Targets, whose : Users \cup {Nobody}]
         /\ \A w : (w # "block" => Block # Outbound(w, Nobody))
                 /\ Own(u) # Outbound(w, Nobody) /\ Safe(u) # Outbound(w, Nobody)
         /\ Block \notin {Own(u), Safe(u)}
<1> DEFINE All == [what : {"block", "direct", "safe", "proxy"} \cup Targets, whose : Users \cup {Nobody}]
<1>1. u # Nobody
  BY RulesAssumption
<1>2. Block \in All
  BY DEF Block, Outbound
<1>3. Own(u) \in All
  BY DEF Own, Outbound
<1>4. Safe(u) \in All
  BY DEF Safe, Outbound
<1>5. ASSUME NEW w PROVE Own(u) # Outbound(w, Nobody)
  BY <1>1 DEF Own, Outbound
<1>6. ASSUME NEW w PROVE Safe(u) # Outbound(w, Nobody)
  BY <1>1 DEF Safe, Outbound
<1>7. ASSUME NEW w, w # "block" PROVE Block # Outbound(w, Nobody)
  BY <1>7 DEF Block, Outbound
<1>8. Block # Own(u)
  BY <1>1 DEF Block, Own, Outbound
<1>9. Block # Safe(u)
  BY <1>1 DEF Block, Safe, Outbound
<1> HIDE DEF All
<1>10. {Block, Own(u), Safe(u)} \subseteq All
  BY <1>2, <1>3, <1>4
<1> QED
  BY <1>5, <1>6, <1>7, <1>8, <1>9, <1>10 DEF All

(* A blackhole, a user's own direct outbound, their safe search, where      *)
(* their catch-all leads and where a rule of their profile does.            *)
LEMMA Meanings ==
  ASSUME NEW u \in Users, NEW r \in UserRecord, NEW c \in Context
  PROVE  /\ {Block, Own(u), Safe(u), CatchAll(u, r, c)} \subseteq Meant(u, r, c)
         /\ \A t \in AnyTarget \ (Gone \cup {""}) :
              r.routing = "profile" => (IF t = "direct" THEN Own(u) ELSE TagOf(t, c)) \in Meant(u, r, c)
<1> USE RulesAssumption
<1>1. /\ TagOf("", c) = Outbound(c.exit, Nobody)
      /\ c.exit \in {"proxy", "direct"} \cup Targets
  BY DEF Context, TagOf
<1>2. c.exit # "block"
  BY <1>1
<1>3. {Block, Own(u), Safe(u)} \subseteq Meant(u, r, c)
  <2>1. Block \in Meant(u, r, c)
    BY <1>1, <1>2, OutboundsApart DEF Meant
  <2>2. Own(u) \in Meant(u, r, c)
    BY <1>1, OutboundsApart DEF Meant
  <2>3. Safe(u) \in Meant(u, r, c)
    BY <1>1, OutboundsApart DEF Meant
  <2> QED
    BY <2>1, <2>2, <2>3
<1>4. \A t \in AnyTarget : t # "direct" /\ TagOf(t, c) # Outbound("direct", Nobody) /\ (r.target \in Gone /\ r.routing # "profile" => t \in Gone)
        => TagOf(t, c) \in Meant(u, r, c)
  <2> TAKE t \in AnyTarget
  <2> HAVE t # "direct" /\ TagOf(t, c) # Outbound("direct", Nobody) /\ (r.target \in Gone /\ r.routing # "profile" => t \in Gone)
  <2>1. CASE r.target \in Gone /\ r.routing # "profile"
    <3>1. TagOf(t, c) = Block
      BY <2>1 DEF TagOf
    <3> QED
      BY <1>3, <3>1
  <2>2. CASE ~ (r.target \in Gone /\ r.routing # "profile")
    <3>1. TagOf(t, c) \in [what : {"block", "direct", "safe", "proxy"} \cup Targets, whose : Users \cup {Nobody}]
      BY <1>1 DEF TagOf, Outbound, Block
    <3> QED
      BY <2>2, <3>1 DEF Meant
  <2> QED
    BY <2>1, <2>2
<1>5. CatchAll(u, r, c) \in Meant(u, r, c)
  BY <1>3, <1>4 DEF CatchAll, UserRecord
<1>6. \A t \in AnyTarget \ (Gone \cup {""}) : t # "direct" => TagOf(t, c) # Outbound("direct", Nobody)
  BY DEF TagOf, Outbound, Block, AnyTarget
<1> QED
  BY <1>3, <1>4, <1>5, <1>6

LEMMA RuleIn ==
  ASSUME NEW u \in Users, NEW r \in UserRecord, NEW c \in Context, NEW out \in Meant(u, r, c),
         NEW traits \in SUBSET (Traits \cup {"any"})
  PROVE  <<Rule(u, traits, out)>> \in Seq(Ruled(u, r, c))
BY DEF Rule, Ruled

(* A user's filter and routing rules, each leading where it may; a domain   *)
(* the admin blocks is the first.                                           *)
LEMMA ListsOf ==
  ASSUME NEW u \in Users, NEW r \in UserRecord, NEW c \in Context
  PROVE  /\ FilterRules(u, r, c) \in Seq(Ruled(u, r, c))
         /\ RoutingRules(u, r, c) \in Seq(Ruled(u, r, c))
         /\ "domains" \in r.filter =>
              FilterRules(u, r, c) # <<>> /\ FilterRules(u, r, c)[1] = Rule(u, {"domains"}, Block)
<1> DEFINE R == Ruled(u, r, c)
<1>1. \A x \in Traits : {x} \in SUBSET (Traits \cup {"any"})
  OBVIOUS
<1>2. <<Rule(u, {"domains"}, Block)>> \in Seq(R) /\ <<Rule(u, {"category"}, Block)>> \in Seq(R)
  BY <1>1, Meanings, RuleIn DEF Traits
<1>3. <<Rule(u, {"quic"}, Block), Rule(u, {"search"}, Safe(u))>> \in Seq(R)
  <2>1. Rule(u, {"quic"}, Block) \in R /\ Rule(u, {"search"}, Safe(u)) \in R
    BY <1>1, Meanings DEF Traits, Rule, Ruled
  <2> HIDE DEF R
  <2> QED
    BY <2>1
<1>4. <<Rule(u, {"private"}, Own(u))>> \in Seq(R) /\ <<Rule(u, {"iran"}, Own(u))>> \in Seq(R)
  BY <1>1, Meanings, RuleIn DEF Traits
<1>5. FilterRules(u, r, c) \in Seq(R)
  <2> HIDE DEF R
  <2> QED
    BY <1>2, <1>3, WhenSeq, ConcatSeq DEF FilterRules
<1>6. RoutingRules(u, r, c) \in Seq(R)
  <2>1. \A t \in AnyTarget, x \in Traits : r.routing = "profile" => ProfileRule(u, x, t, c) \in Seq(R)
    <3> TAKE t \in AnyTarget, x \in Traits
    <3> HAVE r.routing = "profile"
    <3>1. CASE t \in Gone \cup {""}
      <4>1. ProfileRule(u, x, t, c) = <<>>
        BY <3>1 DEF ProfileRule, When
      <4> HIDE DEF R
      <4> QED
        BY <4>1
    <3>2. CASE t \notin Gone \cup {""}
      <4> DEFINE leads == IF t = "direct" THEN Own(u) ELSE TagOf(t, c)
      <4>1. leads \in Meant(u, r, c)
        BY <3>2, Meanings
      <4>2. {x} \in SUBSET (Traits \cup {"any"})
        BY <1>1
      <4>3. ProfileRule(u, x, t, c) = <<Rule(u, {x}, leads)>>
        BY <3>2 DEF ProfileRule, When
      <4> HIDE DEF leads, R
      <4>4. <<Rule(u, {x}, leads)>> \in Seq(R)
        BY <4>1, <4>2, RuleIn DEF R
      <4> QED
        BY <4>3, <4>4
    <3> QED
      BY <3>1, <3>2
  <2>2. r.profile[1] \in AnyTarget /\ r.profile[2] \in AnyTarget
    BY DEF UserRecord
  <2> DEFINE bypass == <<Rule(u, {"private"}, Own(u))>> \o When(c.geo, <<Rule(u, {"iran"}, Own(u))>>)
             profile == ProfileRule(u, "first", r.profile[1], c)
                          \o When(c.geo, ProfileRule(u, "second", r.profile[2], c))
  <2>4. bypass \in Seq(R)
    <3> HIDE DEF R
    <3> QED
      BY <1>4, WhenSeq, ConcatSeq
  <2>5. r.routing = "profile" => profile \in Seq(R)
    <3> HIDE DEF R
    <3>1. "first" \in Traits /\ "second" \in Traits
      BY DEF Traits
    <3> QED
      BY <2>1, <2>2, <3>1, WhenSeq, ConcatSeq
  <2> HIDE DEF bypass, profile, R
  <2>6. <<>> \in Seq(R)
    OBVIOUS
  <2>7. When(r.routing = "bypass", bypass) \in Seq(R) /\ When(r.routing = "profile", profile) \in Seq(R)
    BY <2>4, <2>5, <2>6 DEF When
  <2> QED
    BY <2>7, ConcatSeq DEF RoutingRules, bypass, profile
<1>7. ASSUME "domains" \in r.filter
      PROVE  FilterRules(u, r, c) # <<>> /\ FilterRules(u, r, c)[1] = Rule(u, {"domains"}, Block)
  <2> DEFINE then == When("category" \in r.filter /\ c.geo, <<Rule(u, {"category"}, Block)>>)
             last == When(SafeMade(u, r, c), <<Rule(u, {"quic"}, Block), Rule(u, {"search"}, Safe(u))>>)
  <2>1. then \in Seq(R) /\ last \in Seq(R)
    <3> HIDE DEF R
    <3> QED
      BY <1>2, <1>3, WhenSeq
  <2>2. FilterRules(u, r, c) = (<<Rule(u, {"domains"}, Block)>> \o then) \o last
    BY <1>7 DEF FilterRules, When
  <2>3. Rule(u, {"domains"}, Block) \in R
    BY <1>1, Meanings DEF Traits, Rule, Ruled
  <2> HIDE DEF then, last, R
  <2> QED
    BY <2>1, <2>2, <2>3, HeadOf
<1> QED
  BY <1>5, <1>6, <1>7
-----------------------------------------------------------------------------
\* A user's rules before their hold is applied, the last one for all traffic.
Unheld(u, r, c) == FilterRules(u, r, c) \o RoutingRules(u, r, c) \o <<Rule(u, Traits \cup {"any"}, CatchAll(u, r, c))>>

LEMMA UnheldRules ==
  ASSUME NEW u \in Users, NEW r \in UserRecord, NEW c \in Context
  PROVE  /\ Unheld(u, r, c) \in Seq(Ruled(u, r, c))
         /\ Unheld(u, r, c) # <<>>
         /\ Unheld(u, r, c)[Len(Unheld(u, r, c))] = Rule(u, Traits \cup {"any"}, CatchAll(u, r, c))
         /\ "domains" \in r.filter => Unheld(u, r, c)[1] = Rule(u, {"domains"}, Block)
<1> DEFINE R == Ruled(u, r, c)
           f == FilterRules(u, r, c)
           g == RoutingRules(u, r, c)
           last == Rule(u, Traits \cup {"any"}, CatchAll(u, r, c))
<1>1. f \in Seq(R) /\ g \in Seq(R)
  BY ListsOf
<1>2. CatchAll(u, r, c) \in Meant(u, r, c)
  BY Meanings
<1>3. last \in R
  BY <1>2 DEF Rule, Ruled
<1>4. "domains" \in r.filter => f # <<>> /\ f[1] = Rule(u, {"domains"}, Block)
  BY ListsOf
<1>5. Unheld(u, r, c) = (f \o g) \o <<last>>
  BY DEF Unheld
<1> HIDE DEF R, f, g, last
<1>6. f \o g \in Seq(R) /\ <<last>> \in Seq(R) /\ (f \o g) \o <<last>> \in Seq(R)
  BY <1>1, <1>3
<1>7. Len((f \o g) \o <<last>>) = Len(f \o g) + 1
  BY <1>6
<1>8. ((f \o g) \o <<last>>)[Len(f \o g) + 1] = last
  BY <1>6
<1>9. ASSUME "domains" \in r.filter
      PROVE  ((f \o g) \o <<last>>)[1] = Rule(u, {"domains"}, Block)
  <2>1. Len(f) >= 1
    BY <1>1, <1>4, <1>9
  <2>2. (f \o g)[1] = f[1] /\ Len(f \o g) >= 1
    BY <1>1, <2>1
  <2>3. ((f \o g) \o <<last>>)[1] = (f \o g)[1]
    BY <1>6, <2>2
  <2> QED
    BY <1>4, <1>9, <2>2, <2>3
<1>10. (f \o g) \o <<last>> # <<>>
  BY <1>6, <1>7
<1> QED
  BY <1>5, <1>6, <1>7, <1>8, <1>9, <1>10 DEF R, last

(* What the guard, then a user's own rules, then the rest decide: the rest   *)
(* is never reached.                                                         *)
LEMMA RouteIs ==
  ASSUME NEW u \in Users, NEW r \in UserRecord, NEW c \in Context, NEW part, NEW d,
         NEW acts, acts[u].rec = r, acts[u].part = part
  PROVE  \/ Route(acts, c, u, d) = Block
         \/ /\ "loopback" \notin d
            /\ "domains" \notin r.filter \cap d
            /\ \E o \in Meant(u, r, c) : Route(acts, c, u, d) = Held(u, r, c, part, o)
<1> DEFINE un == Unheld(u, r, c)
           own == UserRouteRules(u, r, c, part)
           n == Len(un)
           all == Guard \o own \o Rest
<1>1. /\ un \in Seq(Ruled(u, r, c)) /\ un # <<>>
      /\ un[n] = Rule(u, Traits \cup {"any"}, CatchAll(u, r, c))
      /\ "domains" \in r.filter => un[1] = Rule(u, {"domains"}, Block)
  BY UnheldRules
<1>2. own = [i \in DOMAIN un |-> [un[i] EXCEPT !.out = Held(u, r, c, part, @)]]
  BY DEF UserRouteRules, Unheld
<1>3. Route(acts, c, u, d) = FirstMatch(all, u, d)
  BY DEF Route
<1>4. \A i \in 1 .. n : un[i] \in Ruled(u, r, c)
  BY <1>1
<1>5. n \in Nat \ {0} /\ DOMAIN un = 1 .. n
  BY <1>1
<1> DEFINE Held1 == [user : {u}, any : SUBSET (Traits \cup {"any"}), out : {Held(u, r, c, part, o) : o \in Meant(u, r, c)}]
           Any == Held1 \cup {Guard[1], Rest[1]}
<1>6. \A i \in 1 .. n : /\ own[i].user = u /\ own[i].any = un[i].any
                       /\ own[i].out = Held(u, r, c, part, un[i].out)
                       /\ own[i] \in Held1
  <2> TAKE i \in 1 .. n
  <2>1. un[i] \in Ruled(u, r, c)
    BY <1>4
  <2> QED
    BY <1>2, <1>5, <2>1 DEF Ruled
<1>7. own \in Seq(Held1) /\ Len(own) = n
  <2>1. own \in [1 .. n -> Held1]
    <3> HIDE DEF Held1, un
    <3> QED
      BY <1>2, <1>5, <1>6
  <2> HIDE DEF Held1, own
  <2> QED
    BY <1>5, <2>1
<1>8. /\ all \in Seq(Any) /\ Len(all) = n + 2
      /\ all[1] = Guard[1]
      /\ \A k \in 1 .. n : all[k + 1] = own[k]
  <2> HIDE DEF Held1, own
  <2>1. Guard = <<Guard[1]>> /\ Rest = <<Rest[1]>>
    BY DEF Guard, Rest
  <2> DEFINE g == Guard[1]
             t == Rest[1]
  <2>2. all = (<<g>> \o own) \o <<t>>
    BY <2>1
  <2>3. g \in Any /\ t \in Any /\ own \in Seq(Any)
    BY <1>7
  <2> HIDE DEF g, t, Any
  <2>4. <<g>> \o own \in Seq(Any) /\ Len(<<g>> \o own) = n + 1
    BY <1>7, <2>3
  <2>5. (<<g>> \o own)[1] = g /\ \A k \in 1 .. n : (<<g>> \o own)[k + 1] = own[k]
    BY <1>7, <2>3
  <2>6. all \in Seq(Any) /\ Len(all) = n + 2
    BY <2>2, <2>3, <2>4
  <2>7. \A k \in 1 .. n + 1 : all[k] = (<<g>> \o own)[k]
    BY <2>2, <2>3, <2>4
  <2> HIDE DEF all, n
  <2>8. all[1] = g
    BY <1>5, <2>5, <2>7
  <2>9. ASSUME NEW k \in 1 .. n PROVE all[k + 1] = own[k]
    <3>1. k + 1 \in 1 .. n + 1
      BY <1>5
    <3>2. all[k + 1] = (<<g>> \o own)[k + 1]
      BY <2>7, <3>1
    <3> QED
      BY <2>5, <3>2
  <2> QED
    BY <2>6, <2>8, <2>9 DEF g
<1>9. Matches(own[n], u, d)
  BY <1>1, <1>5, <1>6 DEF Matches, Rule
<1>10. n + 1 \in DOMAIN all /\ all[n + 1] = own[n]
  <2> HIDE DEF all, own, n, Any
  <2> QED
    BY <1>5, <1>8
<1>11. PICK i \in DOMAIN all : /\ FirstMatch(all, u, d) = all[i].out
                              /\ \A k \in DOMAIN all : Matches(all[k], u, d) => i <= k
  <2> HIDE DEF all, own, n, Any
  <2> QED
    BY <1>8, <1>9, <1>10, FirstDecides
<1>12. i \in 1 .. n + 1
  <2> HIDE DEF all, own, n, Any
  <2> QED
    BY <1>5, <1>8, <1>9, <1>10, <1>11
<1>13. CASE i = 1
  <2>1. all[1].out = Block
    BY <1>8 DEF Guard
  <2> QED
    BY <1>3, <1>11, <1>13, <2>1
<1>14. CASE i \in 2 .. n + 1
  <2>1. all[i] = own[i - 1] /\ i - 1 \in 1 .. n
    <3> HIDE DEF all, own, n, Any
    <3>1. i - 1 \in 1 .. n /\ (i - 1) + 1 = i
      BY <1>5, <1>14
    <3> QED
      BY <1>8, <3>1
  <2>2. un[i - 1].out \in Meant(u, r, c)
    BY <1>4, <2>1 DEF Ruled
  <2>3. Route(acts, c, u, d) = Held(u, r, c, part, un[i - 1].out)
    BY <1>3, <1>6, <1>11, <2>1
  <2>4. "loopback" \notin d
    <3>1. SUFFICES ASSUME "loopback" \in d PROVE FALSE
      OBVIOUS
    <3>2. Matches(all[1], u, d)
      BY <1>8, <3>1 DEF Matches, Guard
    <3> HIDE DEF all, n
    <3> QED
      BY <1>5, <1>8, <1>11, <1>14, <3>2
  <2>5. CASE "domains" \in r.filter \cap d
    <3>1. own[1].any = {"domains"} /\ own[1].user = u /\ own[1].out = Held(u, r, c, part, Block)
      BY <1>1, <1>5, <1>6, <2>5 DEF Rule
    <3>2. Matches(own[1], u, d)
      BY <2>5, <3>1 DEF Matches
    <3>3. i = 2
      <4> HIDE DEF all, own, n, Any
      <4>1. 2 \in DOMAIN all /\ all[2] = own[1]
        BY <1>5, <1>8
      <4> QED
        BY <1>5, <1>11, <1>14, <3>2, <4>1
    <3>4. Route(acts, c, u, d) = Held(u, r, c, part, Block)
      BY <1>3, <1>11, <2>1, <3>1, <3>3
    <3> QED
      BY <3>4 DEF Held
  <2> QED
    BY <2>2, <2>3, <2>4, <2>5
<1> QED
  BY <1>12, <1>13, <1>14

(* Where a user's traffic leaves, whatever it is and whatever the others'    *)
(* rules: to nobody's rules but their own, blocked for this machine's        *)
(* loopback and for a domain their filter names, never by the class that is  *)
(* held, and with their target gone never by the exit of the plan.           *)
THEOREM RulesHold ==
  ASSUME NEW u \in Users, NEW r \in UserRecord, NEW c \in Context, NEW part \in {"none", "vpn", "direct"}, NEW d,
         NEW acts, acts[u].rec = r, acts[u].part = part
  PROVE  LET out == Route(acts, c, u, d)
         IN /\ out \notin {Owners, Outbound("direct", Nobody)}
            /\ "loopback" \in d \/ d \cap r.filter \cap {"domains"} # {} => out = Block
            /\ part = "vpn" => Rides(u, r, c, out) \/ out = Block
            /\ part = "direct" => ~ Rides(u, r, c, out)
            /\ r.target \in Gone /\ r.routing # "profile" => out # TagOf("", c)
<1> DEFINE out == Route(acts, c, u, d)
<1>1. /\ Block # Own(u) /\ Block # Safe(u)
      /\ Block \in Meant(u, r, c)
  BY OutboundsApart, Meanings
<1>2. \A o \in Meant(u, r, c) : o \notin {Owners, Outbound("direct", Nobody)}
  <2>1. Owners.what \notin {"block", "direct", "safe", "proxy"} \cup Targets
    BY RulesAssumption DEF Owners, Outbound
  <2> QED
    BY <2>1 DEF Meant
<1>3. CASE out = Block
  <2>1. ~ Rides(u, r, c, Block)
    BY <1>1 DEF Rides
  <2> HIDE DEF out
  <2>2. r.target \in Gone /\ r.routing # "profile" => Block # TagOf("", c)
    BY <1>1 DEF Meant
  <2> QED
    BY <1>1, <1>2, <1>3, <2>1, <2>2 DEF out
<1>4. CASE /\ "loopback" \notin d
           /\ "domains" \notin r.filter \cap d
           /\ \E o \in Meant(u, r, c) : out = Held(u, r, c, part, o)
  <2>1. PICK o \in Meant(u, r, c) : out = Held(u, r, c, part, o)
    BY <1>4
  <2>2. CASE Held(u, r, c, part, o) = Block
    BY <1>3, <2>1, <2>2
  <2>3. CASE Held(u, r, c, part, o) # Block
    <3>1. out = o /\ (part = "vpn" => Rides(u, r, c, o)) /\ (part = "direct" => ~ Rides(u, r, c, o))
      BY <2>1, <2>3 DEF Held, Rides, RidesDirect
    <3>2. r.target \in Gone /\ r.routing # "profile" => o # TagOf("", c)
      BY DEF Meant
    <3> HIDE DEF out
    <3> QED
      BY <1>2, <1>4, <3>1, <3>2 DEF out
  <2> QED
    BY <2>2, <2>3
<1>5. \/ out = Block
      \/ /\ "loopback" \notin d
         /\ "domains" \notin r.filter \cap d
         /\ \E o \in Meant(u, r, c) : out = Held(u, r, c, part, o)
  BY RouteIs
<1> QED
  BY <1>3, <1>4, <1>5
-----------------------------------------------------------------------------
(***************************************************************************)
(* The machine: what is built is built of records, and what runs was built. *)
(***************************************************************************)
Built(b) == \A u \in Active(b) : /\ u \in Users
                                /\ b.acts[u].rec \in UserRecord
                                /\ b.acts[u].part \in {"none", "vpn", "direct"}

Inv ==
  /\ users \in [Users -> Record \cup {None}]
  /\ edits \in SUBSET (Users \X Record)
  /\ ctx \in Context
  /\ conn = [pc |-> conn.pc, build |-> conn.build] /\ Built(conn.build)
  /\ job # None => /\ job = [pc |-> job.pc, build |-> job.build, stale |-> job.stale, waiters |-> job.waiters]
                   /\ Built(job.build)
  /\ core # None => /\ core = [build |-> core.build, count |-> core.count, own |-> core.own, owner |-> core.owner]
                    /\ Built(core.build)

LEMMA NothingBuilt == Built(NoBuild)
BY DEF Built, Active, NoBuild

(* A build is of the users' records as they are, whatever the buckets hold.  *)
LEMMA SnapshotBuilt ==
  ASSUME users \in [Users -> Record \cup {None}], NEW bag
  PROVE  Built(Snapshot(bag))
<1>1. CASE Snapshot(bag) = NoBuild
  BY <1>1, NothingBuilt
<1>2. CASE Snapshot(bag) # NoBuild
  <2>1. Active(Snapshot(bag)) = DOMAIN Snapshot(bag).acts /\ Snapshot(bag).acts = Signature(bag) /\ proxy
    BY <1>2 DEF Active, Snapshot
  <2>2. ASSUME NEW u \in DOMAIN Signature(bag)
        PROVE  /\ u \in Users
               /\ Signature(bag)[u].rec \in UserRecord
               /\ Signature(bag)[u].part \in {"none", "vpn", "direct"}
    <3>1. u \in Present /\ Signature(bag)[u] = [rec |-> RulesOf(users[u]), part |-> PartOf(Holds(bag)[u])]
      BY <2>1, <2>2 DEF Signature
    <3>2. u \in Users /\ users[u] \in Record
      BY <3>1 DEF Present
    <3>3. RulesOf(users[u]) \in UserRecord
      BY <3>2 DEF RulesOf, Record, UserRecord
    <3>4. PartOf(Holds(bag)[u]) \in {"none", "vpn", "direct"}
      BY DEF PartOf
    <3> QED
      BY <3>1, <3>2, <3>3, <3>4
  <2> QED
    BY <2>1, <2>2 DEF Built
<1> QED
  BY <1>1, <1>2

LEMMA InitInv == Init => Inv
<1> SUFFICES ASSUME Init PROVE Inv
  OBVIOUS
<1>1. PICK s \in Scenarios : users = s.users /\ edits = s.edits /\ ctx = s.ctx
  BY DEF Init
<1>2. /\ s.users \in [Users -> Record \cup {None}] /\ s.edits \in SUBSET (Users \X Record) /\ s.ctx \in Context
  BY LanAssumption
<1>3. conn = [pc |-> "off", build |-> NoBuild] /\ job = None /\ core = None
  BY DEF Init
<1> QED
  BY <1>1, <1>2, <1>3, NothingBuilt DEF Inv

LEMMA CoreKept ==
  ASSUME Inv, core # None, NEW u, NEW total, NEW own, NEW then, Counts(u, total, own, then)
  PROVE  core' = [build |-> core.build, count |-> core'.count, own |-> core'.own, owner |-> core'.owner]
<1> DEFINE b == core.build
           x == core.count
           y == core.own
           z == core.owner
<1>1. core = [build |-> b, count |-> x, own |-> y, owner |-> z]
  BY DEF Inv
<1>2. core' = [core EXCEPT !.count[u] = @ + total, !.own[u] = @ + own]
  BY DEF Counts
<1> HIDE DEF b, x, y, z
<1>3. core' = [build |-> b, count |-> [x EXCEPT ![u] = @ + total], own |-> [y EXCEPT ![u] = @ + own], owner |-> z]
  BY <1>1, <1>2
<1> QED
  BY <1>3 DEF b

LEMMA NextInv == Inv /\ [Next]_vars => Inv'
<1> SUFFICES ASSUME Inv, [Next]_vars PROVE Inv'
  OBVIOUS
<1> USE DEF store, world, meter, ipc, reload, truth
<1>1. CASE UNCHANGED <<users, edits, ctx, conn, job, core>>
  BY <1>1 DEF Inv, Built, Active
<1>2. CASE Admin
  <2>1. UNCHANGED <<edits, ctx, conn, job, core>>
    BY <1>2 DEF Admin, Update, Config, Delete, ResetUsage, TopUp, Saved
  <2>2. users' \in [Users -> Record \cup {None}]
    <3>1. \A e \in edits : e[1] \in Users /\ e[2] \in Record
      BY DEF Inv
    <3>2. ASSUME NEW e \in edits, Update(e[1], e[2]) PROVE users' \in [Users -> Record \cup {None}]
      BY <3>1, <3>2 DEF Update, Inv
    <3>3. ASSUME NEW u \in Present, Delete(u) PROVE users' \in [Users -> Record \cup {None}]
      BY <3>3 DEF Delete, Inv
    <3>4. CASE UNCHANGED users
      BY <3>4 DEF Inv
    <3> QED
      BY <1>2, <3>2, <3>3, <3>4 DEF Admin, Config, ResetUsage, TopUp
  <2> QED
    BY <2>1, <2>2 DEF Inv, Built, Active
<1>3. CASE Traffic
  <2>1. UNCHANGED <<users, edits, ctx, conn, job>> /\ core # None
    BY <1>3 DEF Traffic
  <2>2. core' = [build |-> core.build, count |-> core'.count, own |-> core'.own, owner |-> core'.owner]
    <3>1. CASE OwnersTraffic
      <4>1. core = [build |-> core.build, count |-> core.count, own |-> core.own, owner |-> core.owner]
        BY <2>1 DEF Inv
      <4>2. core' = [core EXCEPT !.owner = @ + 1]
        BY <3>1 DEF OwnersTraffic
      <4> QED
        BY <4>1, <4>2
    <3>2. CASE \E u \in Active(core.build) : CatchesUp(u) \/ \E d \in Dests : Carry(u, d)
      BY <2>1, <3>2, CoreKept DEF CatchesUp, Carry
    <3> QED
      BY <1>3, <3>1, <3>2 DEF Traffic
  <2> QED
    BY <2>1, <2>2 DEF Inv, Built, Active
<1>4. CASE Tick \/ Cools \/ Around \/ Lands
  BY <1>1, <1>4 DEF Tick, Cools, Around, Lands
<1>5. CASE TimerFires
  <2>1. UNCHANGED <<users, edits, ctx, conn, core>> /\ (UNCHANGED job \/ job' = Begun(timer))
    BY <1>5 DEF TimerFires
  <2>2. job' = Begun(timer) => Built(job'.build) /\ job' = [pc |-> job'.pc, build |-> job'.build, stale |-> job'.stale, waiters |-> job'.waiters]
    BY NothingBuilt DEF Begun
  <2> QED
    BY <2>1, <2>2 DEF Inv, Built, Active
<1>6. CASE ReloadBuilds
  <2>1. UNCHANGED <<users, edits, ctx, conn, core>> /\ job # None
        /\ job' = [job EXCEPT !.pc = "built", !.build = Snapshot(Rolled)]
    BY <1>6 DEF ReloadBuilds, ForBuild
  <2>2. Built(Snapshot(Rolled))
    BY SnapshotBuilt DEF Inv
  <2>3. job' = [pc |-> "built", build |-> Snapshot(Rolled), stale |-> job.stale, waiters |-> job.waiters]
    BY <2>1 DEF Inv
  <2> QED
    BY <2>1, <2>2, <2>3 DEF Inv, Built, Active
<1>7. CASE ReloadEnds
  <2>1. UNCHANGED <<users, edits, ctx>> /\ job # None
    BY <1>7 DEF ReloadEnds
  <2>2. job' = None \/ job' = Begun(Head(queue))
    BY <1>7 DEF ReloadEnds, NextReload
  <2>3. \/ UNCHANGED <<conn, core>>
        \/ conn' = conn /\ core' = NewCore(job.build)
        \/ conn' = [pc |-> "dropped", build |-> NoBuild] /\ core' = None
    BY <1>7 DEF ReloadEnds, CoreBecomes
  <2>4. conn' = [pc |-> conn'.pc, build |-> conn'.build] /\ Built(conn'.build)
    BY <2>3, NothingBuilt DEF Inv
  <2>5. job' # None => /\ job' = [pc |-> job'.pc, build |-> job'.build, stale |-> job'.stale, waiters |-> job'.waiters]
                      /\ Built(job'.build)
    BY <2>2, NothingBuilt DEF Begun
  <2>6. core' # None => /\ core' = [build |-> core'.build, count |-> core'.count, own |-> core'.own, owner |-> core'.owner]
                       /\ Built(core'.build)
    BY <2>1, <2>3 DEF Inv, NewCore
  <2> QED
    BY <2>1, <2>4, <2>5, <2>6 DEF Inv
<1>8. CASE Connect \/ Disconnect
  <2>1. UNCHANGED <<users, edits, ctx>> /\ (core' = core \/ core' = None)
    BY <1>8 DEF Connect, Disconnect, CoreBecomes
  <2>2. conn' = [pc |-> conn'.pc, build |-> conn'.build] /\ Built(conn'.build)
    BY <1>8, NothingBuilt DEF Connect, Disconnect
  <2>3. job' # None => /\ job' = [pc |-> job'.pc, build |-> job'.build, stale |-> job'.stale, waiters |-> job'.waiters]
                      /\ Built(job'.build)
    <3>1. Overtakes
      BY <1>8 DEF Connect, Disconnect
    <3>2. CASE job = None
      BY <3>1, <3>2 DEF Overtakes
    <3>3. CASE job # None
      <4>1. job' = [pc |-> job.pc, build |-> job.build, stale |-> TRUE, waiters |-> job.waiters]
        BY <3>1, <3>3 DEF Overtakes, Inv
      <4> QED
        BY <3>3, <4>1 DEF Inv
    <3> QED
      BY <3>2, <3>3
  <2> QED
    BY <2>1, <2>2, <2>3 DEF Inv
<1>9. CASE ConnectBuilds
  <2>1. UNCHANGED <<users, edits, ctx, job, core>> /\ conn' = [pc |-> "built", build |-> Snapshot(Rolled)]
    BY <1>9 DEF ConnectBuilds, ForBuild
  <2>2. Built(Snapshot(Rolled))
    BY SnapshotBuilt DEF Inv
  <2> QED
    BY <2>1, <2>2 DEF Inv
<1>10. CASE ConnectEnds
  <2>1. UNCHANGED <<users, edits, ctx, job>>
    BY <1>10 DEF ConnectEnds
  <2>2. \E pc : conn' = [conn EXCEPT !.pc = pc]
    BY <1>10 DEF ConnectEnds
  <2>3. conn' = [pc |-> conn'.pc, build |-> conn.build]
    BY <2>2 DEF Inv
  <2>4. core' = NewCore(conn.build) \/ core' = None
    BY <1>10 DEF ConnectEnds, CoreBecomes
  <2> QED
    BY <2>1, <2>3, <2>4 DEF Inv, NewCore
<1>11. CASE Crash
  <2>1. UNCHANGED <<users, edits, ctx>> /\ conn' = [pc |-> "off", build |-> NoBuild] /\ job' = None /\ core' = None
    BY <1>11 DEF Crash, CoreBecomes
  <2> QED
    BY <2>1, NothingBuilt DEF Inv
<1>12. CASE UNCHANGED vars
  BY <1>1, <1>12 DEF vars
<1> QED
  BY <1>2, <1>3, <1>4, <1>5, <1>6, <1>7, <1>8, <1>9, <1>10, <1>11, <1>12 DEF Next, Reloads, Connection

(* Under whatever core runs, at any time: RoutedAsMeant (LanUsers.tla).      *)
THEOREM Routed == Spec => []RoutedAsMeant
<1>1. Inv => RoutedAsMeant
  <2> SUFFICES ASSUME Inv, core # None, NEW u \in Active(core.build), NEW d \in Dests
               PROVE  LET act == core.build.acts[u]
                          out == Route(core.build.acts, ctx, u, d)
                          ridesDirect == out = Own(u) \/ (out = Safe(u) /\ CatchAll(u, act.rec, ctx) = Own(u))
                      IN /\ out \notin {Owners, Outbound("direct", Nobody)}
                         /\ "loopback" \in d \/ d \cap act.rec.filter \cap {"domains"} # {} => out = Block
                         /\ act.part = "vpn" => ridesDirect \/ out = Block
                         /\ act.part = "direct" => ~ridesDirect
                         /\ act.rec.target \in Gone /\ act.rec.routing # "profile" => out # TagOf("", ctx)
    BY DEF RoutedAsMeant
  <2>1. /\ u \in Users /\ core.build.acts[u].rec \in UserRecord
        /\ core.build.acts[u].part \in {"none", "vpn", "direct"} /\ ctx \in Context
    BY DEF Inv, Built
  <2> DEFINE acts == core.build.acts
             r == acts[u].rec
             part == acts[u].part
             out == Route(acts, ctx, u, d)
  <2>2. /\ out \notin {Owners, Outbound("direct", Nobody)}
        /\ "loopback" \in d \/ d \cap r.filter \cap {"domains"} # {} => out = Block
        /\ part = "vpn" => Rides(u, r, ctx, out) \/ out = Block
        /\ part = "direct" => ~ Rides(u, r, ctx, out)
        /\ r.target \in Gone /\ r.routing # "profile" => out # TagOf("", ctx)
    <3> HIDE DEF acts
    <3>1. u \in Users /\ r \in UserRecord /\ ctx \in Context /\ part \in {"none", "vpn", "direct"}
      BY <2>1 DEF acts
    <3> QED
      BY <3>1, RulesHold
  <2> QED
    BY <2>2 DEF Rides
<1> QED
  BY <1>1, InitInv, NextInv, PTL DEF Spec
-----------------------------------------------------------------------------
(***************************************************************************)
(* The counting.  A poll adds what the core counted since the last reading *)
(* (ReadSince) to a user's bag as to what is due to them, and every other  *)
(* step rolls a bag, empties it with what is due, or leaves both alone:    *)
(* so the two agree (Balanced), and a bag adds up (Bags).                  *)
(***************************************************************************)
LEMMA KindsAre == /\ "total" \in Kinds /\ "vpn" \in Kinds /\ "direct" \in Kinds
                  /\ Zero \in [Kinds -> Nat] /\ Zero["total"] = Zero["vpn"] + Zero["direct"]
  BY DEF Kinds, Zero

LEMMA BlankTyped == BlankEntry \in [day : Nat \cup {None}, bytes : [Kinds -> Nat], ever : [Kinds -> Nat \cup {None}],
          extra : [Kinds \X Periods -> Nat]] /\ BlankEntry.bytes = Zero
  BY KindsAre DEF BlankEntry

\* A bag rolled to the day it is.
LEMMA RollTyped ==
  ASSUME today \in Nat, NEW e \in Entry, NEW r
  PROVE  /\ RollUser(e, r) \in Entry /\ RollUser(e, r).day = today
         /\ RollUser(e, r).bytes = IF e.day = today THEN e.bytes ELSE Zero
<1> DEFINE x == RollUser(e, r)
<1>1. /\ e.bytes \in [Kinds -> Nat] /\ e.ever \in [Kinds -> Nat \cup {None}] /\ e.extra \in [Kinds \X Periods -> Nat]
      /\ e.bytes["total"] = e.bytes["vpn"] + e.bytes["direct"]
  BY DEF Entry
<1>2. x = [day |-> x.day, bytes |-> x.bytes, ever |-> x.ever, extra |-> x.extra]
  BY DEF RollUser
<1>3. x.day = today /\ x.bytes = IF e.day = today THEN e.bytes ELSE Zero
  BY DEF RollUser
<1>4. x.ever \in [Kinds -> Nat \cup {None}]
  BY <1>1 DEF RollUser
<1>5. x.extra \in [Kinds \X Periods -> Nat]
  BY <1>1 DEF RollUser
<1> HIDE DEF x
<1>6. x.bytes \in [Kinds -> Nat] /\ x.bytes["total"] = x.bytes["vpn"] + x.bytes["direct"]
  BY <1>1, <1>3, KindsAre
<1>7. x \in Entry
  BY <1>2, <1>3, <1>4, <1>5, <1>6 DEF Entry
<1> QED  BY <1>3, <1>7 DEF x

\* Bytes added to one.
LEMMA AddTyped ==
  ASSUME today \in Nat, NEW e \in Entry, e.day = today, NEW d \in [Kinds -> Nat], d["total"] = d["vpn"] + d["direct"]
  PROVE  /\ Add(e, d) \in Entry /\ Add(e, d).day = today
         /\ \A k \in Kinds : Add(e, d).bytes[k] = e.bytes[k] + d[k]
<1> DEFINE b == [k \in Kinds |-> e.bytes[k] + d[k]]
           v == [k \in Kinds |-> IF e.ever[k] = None THEN None ELSE e.ever[k] + d[k]]
<1>1. /\ e.bytes \in [Kinds -> Nat] /\ e.ever \in [Kinds -> Nat \cup {None}] /\ e.extra \in [Kinds \X Periods -> Nat]
      /\ e.bytes["total"] = e.bytes["vpn"] + e.bytes["direct"]
      /\ e = [day |-> e.day, bytes |-> e.bytes, ever |-> e.ever, extra |-> e.extra]
  BY DEF Entry
<1>2. Add(e, d) = [e EXCEPT !.bytes = b, !.ever = v]
  BY DEF Add
<1>3. b \in [Kinds -> Nat] /\ b["total"] = b["vpn"] + b["direct"]
  BY <1>1, KindsAre
<1>4. v \in [Kinds -> Nat \cup {None}]
  BY <1>1
<1>5. \A k \in Kinds : b[k] = e.bytes[k] + d[k]
  OBVIOUS
<1> HIDE DEF b, v
<1>6. Add(e, d) = [day |-> e.day, bytes |-> b, ever |-> v, extra |-> e.extra]
  BY <1>1, <1>2
<1>7. [day |-> e.day, bytes |-> b, ever |-> v, extra |-> e.extra] \in Entry
  BY <1>1, <1>3, <1>4 DEF Entry
<1> QED  BY <1>5, <1>6, <1>7

LEMMA GrowthTyped == \A x \in Nat, y \in Nat : Growth(x, y) \in Nat
  BY DEF Growth

\* What a split of t bytes, w of them waiting for their kind, comes to.
Parted(d, direct, t, w) ==
  /\ d \in [Kinds -> Nat] /\ d["total"] = t /\ d["total"] = d["vpn"] + d["direct"]
  /\ ~direct => d["direct"] <= w

LEMMA SplitTyped ==
  ASSUME NEW u, NEW t \in Nat, NEW w \in Nat, NEW o \in Nat
  PROVE  Parted(Split(u, t, w + o), users[u].target = "direct", t, w + o)
  BY DEF Split, Kinds, Parted

\* Every bag, as the present users' are rolled.
LEMMA RolledTyped ==
  ASSUME Bags, NEW us
  PROVE  /\ RolledFor(us) \in [Users -> Entry]
         /\ \A u \in Users : us[u] = None => RolledFor(us)[u] = usage[u]
         /\ \A u \in Users : us[u] # None =>
              /\ RolledFor(us)[u].day = today
              /\ RolledFor(us)[u].bytes = BytesToday(u)
<1>1. today \in Nat /\ usage \in [Users -> Entry]
  BY DEF Bags
<1>2. \A u \in Users : usage[u] \in Entry
  BY <1>1
<1>3. \A u \in Users : /\ RollUser(usage[u], us[u]) \in Entry /\ RollUser(usage[u], us[u]).day = today
                       /\ RollUser(usage[u], us[u]).bytes = BytesToday(u)
  BY <1>1, <1>2, RollTyped DEF BytesToday
<1>4. RolledFor(us) = [u \in Users |-> IF us[u] # None THEN RollUser(usage[u], us[u]) ELSE usage[u]]
  BY DEF RolledFor
<1> QED  BY <1>2, <1>3, <1>4

-----------------------------------------------------------------------------
LEMMA CountedEnough == CountedInv => Counted
<1> SUFFICES ASSUME CountedInv, ~misread, NEW u \in Present
    PROVE LET e == Rolled[u]
          IN /\ e.bytes["total"] = due[u].total
             /\ e.bytes["vpn"] \in Nat /\ e.bytes["total"] = e.bytes["vpn"] + e.bytes["direct"]
             /\ due[u].own # None => e.bytes["direct"] + owed[u] = due[u].own
  BY DEF Counted
<1>1. u \in Users /\ users[u] # None /\ Bags /\ Balanced(u)
  BY DEF Present, CountedInv, Books
<1>2. Rolled[u] \in Entry /\ Rolled[u].bytes = BytesToday(u)
  BY <1>1, RolledTyped DEF Rolled
<1>3. Rolled[u].bytes \in [Kinds -> Nat] /\ Rolled[u].bytes["total"] = Rolled[u].bytes["vpn"] + Rolled[u].bytes["direct"]
  BY <1>2 DEF Entry
<1> QED  BY <1>1, <1>2, <1>3, KindsAre DEF Balanced

LEMMA CountedStarts == Init => CountedInv
<1> SUFFICES ASSUME Init PROVE CountedInv
  OBVIOUS
<1>1. /\ today = 0 /\ usage = [u \in Users |-> BlankEntry] /\ kept = usage /\ lazy = None /\ owed = [u \in Users |-> 0]
      /\ due = [u \in Users |-> [total |-> 0, own |-> 0]] /\ unread = due /\ core = None /\ ~seen /\ seen = FALSE
      /\ swapped = FALSE /\ misread = FALSE /\ gap = FALSE
  BY DEF Init
<1>2. BlankEntry \in Entry
  BY BlankTyped, KindsAre, <1>1 DEF Entry
<1>3. usage \in [Users -> Entry] /\ \A u \in Users : BytesToday(u) = Zero
  BY <1>1, <1>2, BlankTyped DEF BytesToday
<1>4. Bags
  <2>1. due \in [Users -> [total : Int, own : Int \cup {None}]]
    BY <1>1
  <2>2. unread \in [Users -> [total : Nat, own : Nat]]
    BY <1>1
  <2>3. owed \in [Users -> Nat] /\ today \in Nat
    BY <1>1
  <2>4. kept \in [Users -> Entry] /\ lazy \in [Users -> Entry] \cup {None}
    BY <1>1, <1>3
  <2> QED  BY <1>1, <1>3, <2>1, <2>2, <2>3, <2>4 DEF Bags
<1>5. Zero["total"] = 0 /\ Zero["direct"] = 0
  BY DEF Zero, Kinds
<1>6. ASSUME NEW u \in Users PROVE Balanced(u)
  <2>1. due[u].total = 0 /\ due[u].own = 0 /\ owed[u] = 0
    BY <1>1
  <2> QED  BY <1>3, <1>5, <2>1 DEF Balanced
<1> QED  BY <1>1, <1>4, <1>6 DEF CountedInv, ReadSince, Books

-----------------------------------------------------------------------------
(* A user whose bytes, debts and place are as before. *)
LEMMA StaysBalanced ==
  ASSUME NEW u \in Users, Balanced(u), BytesToday(u)' = BytesToday(u), owed'[u] = owed[u], due'[u] = due[u],
         (u \in Present)' <=> u \in Present, usage'[u] = BlankEntry => usage[u] = BlankEntry \/ u \in Present
  PROVE  Balanced(u)'
  BY DEF Balanced

(* The buckets rolled, and nothing else. *)
LEMMA RollsOn ==
  ASSUME CountedInv, usage' = Rolled \/ usage' = usage,
         UNCHANGED <<users, today, owed, prev, seen, core, kept, due, unread, swapped, misread>>,
         lazy' \in [Users -> Entry] \cup {None}, gap' \in BOOLEAN
  PROVE  CountedInv'
<1>1. Bags /\ today \in Nat /\ usage \in [Users -> Entry]
  BY DEF CountedInv, Bags
<1>2. /\ Rolled \in [Users -> Entry] /\ \A u \in Users : users[u] = None => Rolled[u] = usage[u]
      /\ \A u \in Users : users[u] # None => Rolled[u].day = today /\ Rolled[u].bytes = BytesToday(u)
  BY <1>1, RolledTyped DEF Rolled
<1>3. Entry' = Entry
  BY DEF Entry
<1>4. Bags'
  BY <1>1, <1>2, <1>3 DEF Bags, Reading
<1>5. ReadSince'
  BY DEF CountedInv, ReadSince
<1>6. ASSUME NEW u \in Users, Balanced(u) PROVE Balanced(u)'
  <2>1. BytesToday(u)' = BytesToday(u)
    BY <1>1, <1>2 DEF BytesToday
  <2>2. (u \in Present)' <=> u \in Present
    BY DEF Present
  <2>3. usage'[u] = BlankEntry => usage[u] = BlankEntry \/ u \in Present
    BY <1>2 DEF Present
  <2> QED  BY <1>6, <2>1, <2>2, <2>3, StaysBalanced
<1>7. Books'
  BY <1>6 DEF Books, CountedInv
<1> QED  BY <1>4, <1>5, <1>7 DEF CountedInv

(* Another core, or none: it begins at zero. *)
LEMMA CoreBegins ==
  ASSUME CountedInv, NEW c, CoreBecomes(c), c = None \/ \E b : c = NewCore(b),
         UNCHANGED <<users, today, usage, owed, prev, seen, kept, lazy, gap, due, misread>>
  PROVE  CountedInv'
<1>1. Bags /\ today \in Nat /\ usage \in [Users -> Entry]
  BY DEF CountedInv, Bags
<1>2. /\ core' = c /\ swapped' = TRUE /\ unread' = [u \in Users |-> [total |-> 0, own |-> 0]]
  BY DEF CoreBecomes
<1>3. core' # None => core'.count = [u \in Users |-> 0] /\ core'.own = [u \in Users |-> 0]
  BY <1>2 DEF NewCore, Counters
<1>4. Entry' = Entry
  BY DEF Entry
<1>5. Bags'
  BY <1>1, <1>2, <1>3, <1>4 DEF Bags, Reading
<1>6. ReadSince'
  BY <1>2, <1>3 DEF ReadSince
<1>7. \A u \in Users : Balanced(u)' <=> Balanced(u)
  BY DEF Balanced, Present, BytesToday
<1>8. Books'
  BY <1>7 DEF Books, CountedInv
<1> QED  BY <1>5, <1>6, <1>8 DEF CountedInv

(* The core counts. *)
LEMMA MoreOf ==
  ASSUME NEW x \in [Users -> Nat], NEW u, NEW t \in Nat, NEW y, y = [x EXCEPT ![u] = @ + t], NEW v \in Users
  PROVE  y[v] \in Nat /\ y[v] = IF v = u THEN x[v] + t ELSE x[v]
<1>1. x[v] \in Nat
  OBVIOUS
<1>2. CASE v = u
  <2>1. y[v] = x[v] + t
    BY <1>2
  <2> QED  BY <1>1, <1>2, <2>1
<1>3. CASE v # u
  <2>1. y[v] = x[v]
    BY <1>3
  <2> QED  BY <1>1, <1>3, <2>1
<1> QED  BY <1>2, <1>3

LEMMA MoreUnread ==
  ASSUME NEW x \in [Users -> [total : Nat, own : Nat]], NEW u, NEW t \in Nat, NEW o \in Nat, NEW y,
         y = [x EXCEPT ![u] = [total |-> @.total + t, own |-> @.own + o]], NEW v \in Users
  PROVE  /\ y[v] \in [total : Nat, own : Nat]
         /\ y[v].total = IF v = u THEN x[v].total + t ELSE x[v].total
         /\ y[v].own = IF v = u THEN x[v].own + o ELSE x[v].own
<1>1. x[v] \in [total : Nat, own : Nat] /\ x[v].total \in Nat /\ x[v].own \in Nat
  OBVIOUS
<1>2. CASE v = u
  <2>1. y[v] = [total |-> x[v].total + t, own |-> x[v].own + o]
    BY <1>2
  <2> QED  BY <1>1, <1>2, <2>1
<1>3. CASE v # u
  <2>1. y[v] = x[v]
    BY <1>3
  <2> QED  BY <1>1, <1>3, <2>1
<1> QED  BY <1>2, <1>3

LEMMA CountsOn ==
  ASSUME Inv, CountedInv, core # None, NEW u, NEW t \in Nat, NEW o \in Nat, NEW then, Counts(u, t, o, then),
         UNCHANGED <<users, today, usage, owed, prev, seen, kept, lazy, gap, due, swapped, misread>>
  PROVE  CountedInv'
<1> DEFINE b == core.build
           x == core.count
           y == core.own
           z == core.owner
<1>1. core = [build |-> b, count |-> x, own |-> y, owner |-> z]
  BY DEF Inv
<1>2. core' = [core EXCEPT !.count[u] = @ + t, !.own[u] = @ + o]
  BY DEF Counts
<1>3. x \in [Users -> Nat] /\ y \in [Users -> Nat]
  BY DEF CountedInv, Bags, Reading
<1>4. unread \in [Users -> [total : Nat, own : Nat]] /\ unread' = [unread EXCEPT ![u] = [total |-> @.total + t, own |-> @.own + o]]
  BY DEF CountedInv, Bags, Counts
<1>5. ASSUME NEW v \in Users
      PROVE  IF swapped THEN unread[v] = [total |-> x[v], own |-> y[v]]
             ELSE seen /\ x[v] = prev.count[v] + unread[v].total /\ y[v] = prev.own[v] + unread[v].own
  BY DEF CountedInv, ReadSince
<1>6. seen => prev.count \in [Users -> Nat] /\ prev.own \in [Users -> Nat]
  BY DEF CountedInv, Bags, Reading
<1> HIDE DEF b, x, y, z
<1>7. core' = [build |-> b, count |-> [x EXCEPT ![u] = @ + t], own |-> [y EXCEPT ![u] = @ + o], owner |-> z]
  BY <1>1, <1>2
<1>8. core'.count = [x EXCEPT ![u] = @ + t] /\ core'.own = [y EXCEPT ![u] = @ + o]
  BY <1>7
<1>9. ASSUME NEW v \in Users
      PROVE  /\ core'.count[v] \in Nat /\ core'.count[v] = IF v = u THEN x[v] + t ELSE x[v]
             /\ core'.own[v] \in Nat /\ core'.own[v] = IF v = u THEN y[v] + o ELSE y[v]
  <2>1. core'.count[v] \in Nat /\ core'.count[v] = IF v = u THEN x[v] + t ELSE x[v]
    BY <1>3, <1>8, MoreOf
  <2>2. core'.own[v] \in Nat /\ core'.own[v] = IF v = u THEN y[v] + o ELSE y[v]
    BY <1>3, <1>8, MoreOf
  <2> QED  BY <2>1, <2>2
<1>10. ASSUME NEW v \in Users
       PROVE  /\ unread'[v] \in [total : Nat, own : Nat]
              /\ unread'[v].total = IF v = u THEN unread[v].total + t ELSE unread[v].total
              /\ unread'[v].own = IF v = u THEN unread[v].own + o ELSE unread[v].own
  BY <1>4, MoreUnread
<1>11. core'.count \in [Users -> Nat] /\ core'.own \in [Users -> Nat] /\ unread' \in [Users -> [total : Nat, own : Nat]]
  BY <1>3, <1>4, <1>8, <1>9, <1>10
<1>12. ReadSince'
  <2> SUFFICES ASSUME NEW v \in Users
      PROVE  IF swapped THEN unread'[v] = [total |-> core'.count[v], own |-> core'.own[v]]
             ELSE seen /\ core'.count[v] = prev.count[v] + unread'[v].total /\ core'.own[v] = prev.own[v] + unread'[v].own
    BY DEF ReadSince
  <2>1. CASE swapped
    <3>1. unread[v] = [total |-> x[v], own |-> y[v]]
      BY <1>5, <2>1
    <3>2. unread[v].total = x[v] /\ unread[v].own = y[v]
      BY <3>1
    <3>3. unread'[v].total = core'.count[v] /\ unread'[v].own = core'.own[v]
      BY <1>9, <1>10, <3>2
    <3> QED  BY <1>10, <2>1, <3>3
  <2>2. CASE ~swapped
    <3>1. unread[v].total \in Nat /\ unread[v].own \in Nat
      BY <1>4
    <3>2. seen /\ prev.count[v] \in Nat /\ prev.own[v] \in Nat /\ x[v] = prev.count[v] + unread[v].total
          /\ y[v] = prev.own[v] + unread[v].own
      BY <1>5, <1>6, <2>2
    <3>3. CASE v = u
      BY <1>9, <1>10, <2>2, <3>1, <3>2, <3>3
    <3>4. CASE v # u
      BY <1>9, <1>10, <2>2, <3>1, <3>2, <3>4
    <3> QED  BY <3>3, <3>4
  <2> QED  BY <2>1, <2>2
<1>13. Entry' = Entry
  BY DEF Entry
<1>14. Bags'
  BY <1>11, <1>13 DEF CountedInv, Bags, Reading
<1>15. \A v \in Users : Balanced(v)' <=> Balanced(v)
  BY DEF Balanced, Present, BytesToday
<1>16. Books'
  BY <1>15 DEF Books, CountedInv
<1> QED  BY <1>12, <1>14, <1>16 DEF CountedInv

(* One poll: what it reads is what was not read yet, or it is misread. *)
LEMMA ReadsRight ==
  ASSUME CountedInv, core # None, swapped <=> IsFresh, NEW u \in Users
  PROVE  /\ Growth(core.count[u], Baseline.count[u]) = unread[u].total
         /\ Growth(core.own[u], Baseline.own[u]) = unread[u].own
<1>1. /\ core.count[u] \in Nat /\ core.own[u] \in Nat /\ unread[u].total \in Nat /\ unread[u].own \in Nat
      /\ seen => prev.count[u] \in Nat /\ prev.own[u] \in Nat
  BY DEF CountedInv, Bags, Reading
<1>2. IF swapped THEN unread[u] = [total |-> core.count[u], own |-> core.own[u]]
      ELSE seen /\ core.count[u] = prev.count[u] + unread[u].total /\ core.own[u] = prev.own[u] + unread[u].own
  BY DEF CountedInv, ReadSince
<1>3. CASE swapped
  <2>1. Baseline.count[u] = 0 /\ Baseline.own[u] = 0
    BY <1>3 DEF Baseline, Counters
  <2>2. unread[u].total = core.count[u] /\ unread[u].own = core.own[u]
    BY <1>2, <1>3
  <2> QED  BY <1>1, <2>1, <2>2 DEF Growth
<1>4. CASE ~swapped
  <2>1. Baseline = prev
    BY <1>4 DEF Baseline
  <2> QED  BY <1>1, <1>2, <1>4, <2>1 DEF Growth
<1> QED  BY <1>3, <1>4

LEMMA GrowsTyped ==
  ASSUME Bags, core # None, NEW u \in Users
  PROVE  /\ Growth(core.count[u], Baseline.count[u]) \in Nat
         /\ Growth(core.own[u], Baseline.own[u]) \in Nat
<1>1. core.count[u] \in Nat /\ core.own[u] \in Nat /\ (seen => prev.count[u] \in Nat /\ prev.own[u] \in Nat)
  BY DEF Bags, Reading
<1>2. CASE IsFresh
  <2>1. Baseline.count[u] = 0 /\ Baseline.own[u] = 0
    BY <1>2 DEF Baseline, Counters
  <2> QED  BY <1>1, <2>1, GrowthTyped
<1>3. CASE ~IsFresh
  <2>1. Baseline = prev /\ seen
    BY <1>3 DEF Baseline, IsFresh
  <2> QED  BY <1>1, <2>1, GrowthTyped
<1> QED  BY <1>2, <1>3

\* The bag of a user, and what still waits for a total, after a poll that read t and o.
PolledBag(u, t, o) ==
  IF u \in Present /\ t > 0 THEN Add(Rolled[u], Split(u, t, owed[u] + o)) ELSE Rolled[u]
PolledOwed(u, t, o) ==
  LET w == owed[u] + IF u \in Present THEN o ELSE 0
  IN IF ~(u \in Present /\ t > 0) THEN w
     ELSE IF users[u].target = "direct" THEN 0 ELSE w - Split(u, t, w)["direct"]

LEMMA TickIs ==
  ASSUME Tick
  PROVE  /\ core # None
         /\ usage' = [u \in Users |-> PolledBag(u, Growth(core.count[u], Baseline.count[u]), Growth(core.own[u], Baseline.own[u]))]
         /\ owed' = [u \in Users |-> PolledOwed(u, Growth(core.count[u], Baseline.count[u]), Growth(core.own[u], Baseline.own[u]))]
         /\ due' = [u \in Users |->
             IF u \notin Present THEN due[u]
             ELSE [total |-> due[u].total + unread[u].total,
                   own |-> IF due[u].own = None \/ users[u].target = "direct" THEN None ELSE due[u].own + unread[u].own]]
         /\ prev'.count = core.count /\ prev'.own = core.own /\ seen' = TRUE /\ gap' = FALSE
         /\ UNCHANGED <<users, today, core, kept>> /\ lazy' \in {lazy, usage'}
         /\ unread' = [u \in Users |-> [total |-> 0, own |-> 0]] /\ swapped' = FALSE
         /\ misread' = (misread \/ swapped # IsFresh)
<1>1. /\ core # None /\ prev'.count = core.count /\ prev'.own = core.own /\ seen' = TRUE /\ gap' = FALSE
      /\ UNCHANGED <<users, today, core, kept>> /\ lazy' \in {lazy, usage'}
      /\ unread' = [u \in Users |-> [total |-> 0, own |-> 0]] /\ swapped' = FALSE
      /\ misread' = (misread \/ swapped # IsFresh)
  BY DEF Tick, store
<1>2. /\ usage' = [u \in Users |-> PolledBag(u, Growth(core.count[u], Baseline.count[u]), Growth(core.own[u], Baseline.own[u]))]
      /\ owed' = [u \in Users |-> PolledOwed(u, Growth(core.count[u], Baseline.count[u]), Growth(core.own[u], Baseline.own[u]))]
  BY DEF Tick, PolledBag, PolledOwed, Present
<1> QED  BY <1>1, <1>2 DEF Tick

LEMMA PolledTyped ==
  ASSUME Bags, NEW u \in Users, NEW t \in Nat, NEW o \in Nat
  PROVE  PolledBag(u, t, o) \in Entry /\ PolledOwed(u, t, o) \in Nat
<1>1. /\ Rolled[u] \in Entry /\ owed[u] \in Nat /\ today \in Nat
      /\ u \in Present => Rolled[u].day = today
  BY RolledTyped DEF Bags, Rolled, Present
<1>2. CASE ~(u \in Present /\ t > 0)
  BY <1>1, <1>2 DEF PolledBag, PolledOwed
<1>3. CASE u \in Present /\ t > 0
  <2> DEFINE d == Split(u, t, owed[u] + o)
  <2>1. /\ d \in [Kinds -> Nat] /\ d["total"] = d["vpn"] + d["direct"]
        /\ users[u].target # "direct" => d["direct"] <= owed[u] + o
    <3>1. owed[u] \in Nat
      BY <1>1
    <3>2. Parted(d, users[u].target = "direct", t, owed[u] + o)
      BY <3>1, SplitTyped
    <3> HIDE DEF d
    <3> QED  BY <3>2 DEF Parted
  <2>2. PolledBag(u, t, o) = Add(Rolled[u], d)
    BY <1>3 DEF PolledBag
  <2>3. PolledOwed(u, t, o) = IF users[u].target = "direct" THEN 0 ELSE (owed[u] + o) - d["direct"]
    BY <1>3 DEF PolledOwed
  <2> HIDE DEF d
  <2>4. d["direct"] \in Nat
    BY <2>1, KindsAre
  <2> QED  BY <1>1, <1>3, <2>1, <2>2, <2>3, <2>4, AddTyped
<1> QED  BY <1>2, <1>3

LEMMA PolledBalances ==
  ASSUME Bags, NEW u \in Users, u \in Present, NEW t \in Nat, NEW o \in Nat
  PROVE  /\ PolledBag(u, t, o).day = today
         /\ PolledBag(u, t, o).bytes["total"] = BytesToday(u)["total"] + t
         /\ users[u].target # "direct" =>
              PolledBag(u, t, o).bytes["direct"] + PolledOwed(u, t, o) = BytesToday(u)["direct"] + owed[u] + o
<1>1. /\ Rolled[u] \in Entry /\ owed[u] \in Nat /\ today \in Nat
      /\ Rolled[u].day = today /\ Rolled[u].bytes = BytesToday(u)
  BY RolledTyped DEF Bags, Rolled, Present
<1>2. BytesToday(u)["total"] \in Nat /\ BytesToday(u)["direct"] \in Nat
  BY <1>1, KindsAre DEF Entry
<1>3. CASE ~(t > 0)
  <2>1. PolledBag(u, t, o) = Rolled[u] /\ PolledOwed(u, t, o) = owed[u] + o /\ t = 0
    BY <1>3 DEF PolledBag, PolledOwed
  <2> QED  BY <1>1, <1>2, <2>1
<1>4. CASE t > 0
  <2> DEFINE d == Split(u, t, owed[u] + o)
  <2>1. /\ d \in [Kinds -> Nat] /\ d["total"] = d["vpn"] + d["direct"] /\ d["total"] = t
        /\ users[u].target # "direct" => d["direct"] <= owed[u] + o
    <3>1. owed[u] \in Nat
      BY <1>1
    <3>2. Parted(d, users[u].target = "direct", t, owed[u] + o)
      BY <3>1, SplitTyped
    <3> HIDE DEF d
    <3> QED  BY <3>2 DEF Parted
  <2>2. PolledBag(u, t, o) = Add(Rolled[u], d)
    BY <1>4 DEF PolledBag
  <2>3. PolledOwed(u, t, o) = IF users[u].target = "direct" THEN 0 ELSE (owed[u] + o) - d["direct"]
    BY <1>4 DEF PolledOwed
  <2> HIDE DEF d
  <2>4. d["direct"] \in Nat
    BY <2>1, KindsAre
  <2>5. /\ Add(Rolled[u], d).day = today
        /\ Add(Rolled[u], d).bytes["total"] = BytesToday(u)["total"] + t
        /\ Add(Rolled[u], d).bytes["direct"] = BytesToday(u)["direct"] + d["direct"]
    BY <1>1, <2>1, AddTyped, KindsAre
  <2> QED  BY <1>1, <1>2, <2>1, <2>2, <2>3, <2>4, <2>5
<1> QED  BY <1>3, <1>4

LEMMA TickKeeps == ASSUME CountedInv, Tick PROVE CountedInv'
<1> DEFINE T(u) == Growth(core.count[u], Baseline.count[u])
           O(u) == Growth(core.own[u], Baseline.own[u])
<1>1. /\ core # None
      /\ usage' = [u \in Users |-> PolledBag(u, T(u), O(u))]
      /\ owed' = [u \in Users |-> PolledOwed(u, T(u), O(u))]
      /\ due' = [u \in Users |->
             IF u \notin Present THEN due[u]
             ELSE [total |-> due[u].total + unread[u].total,
                   own |-> IF due[u].own = None \/ users[u].target = "direct" THEN None ELSE due[u].own + unread[u].own]]
      /\ prev'.count = core.count /\ prev'.own = core.own /\ seen' = TRUE /\ gap' = FALSE
      /\ UNCHANGED <<users, today, core, kept>> /\ lazy' \in {lazy, usage'}
      /\ unread' = [u \in Users |-> [total |-> 0, own |-> 0]] /\ swapped' = FALSE
      /\ misread' = (misread \/ swapped # IsFresh)
  BY TickIs
<1>2. Bags
  BY DEF CountedInv
<1>3. \A u \in Users : T(u) \in Nat /\ O(u) \in Nat
  BY <1>1, <1>2, GrowsTyped
<1>4. ASSUME swapped <=> IsFresh, NEW u \in Users PROVE T(u) = unread[u].total /\ O(u) = unread[u].own
  BY <1>1, <1>4, ReadsRight
<1> HIDE DEF T, O
<1>5. Entry' = Entry
  BY <1>1 DEF Entry
<1>6. \A u \in Users : PolledBag(u, T(u), O(u)) \in Entry /\ PolledOwed(u, T(u), O(u)) \in Nat
  BY <1>2, <1>3, PolledTyped
<1>7. usage' \in [Users -> Entry] /\ owed' \in [Users -> Nat]
  BY <1>1, <1>6
<1>8. unread' \in [Users -> [total : Nat, own : Nat]]
  BY <1>1
<1>9. ASSUME NEW u \in Users PROVE due'[u] \in [total : Int, own : Int \cup {None}]
  <2>1. due[u] \in [total : Int, own : Int \cup {None}] /\ unread[u].total \in Nat /\ unread[u].own \in Nat
    BY <1>2 DEF Bags
  <2> QED  BY <1>1, <2>1
<1>10. due' \in [Users -> [total : Int, own : Int \cup {None}]]
  BY <1>1, <1>9
<1>11. Reading(core)' /\ Reading(prev)'
  BY <1>1, <1>2 DEF Bags, Reading
<1>12. misread' \in BOOLEAN
  BY <1>1, <1>2 DEF Bags
<1>13. Bags'
  BY <1>1, <1>2, <1>5, <1>7, <1>8, <1>10, <1>11, <1>12 DEF Bags
<1>14. ReadSince'
  BY <1>1, <1>2 DEF ReadSince, Bags, Reading
<1>15. ASSUME ~misread, swapped <=> IsFresh, NEW u \in Users, Balanced(u) PROVE Balanced(u)'
  <2>1. CASE u \in Present
    <3>1. /\ usage'[u].day = today
          /\ usage'[u].bytes["total"] = BytesToday(u)["total"] + unread[u].total
          /\ users[u].target # "direct" =>
               usage'[u].bytes["direct"] + owed'[u] = BytesToday(u)["direct"] + owed[u] + unread[u].own
      BY <1>1, <1>2, <1>3, <1>4, <1>15, <2>1, PolledBalances
    <3>2. /\ due'[u].total = due[u].total + unread[u].total
          /\ due'[u].own = IF due[u].own = None \/ users[u].target = "direct" THEN None ELSE due[u].own + unread[u].own
      BY <1>1, <2>1
    <3>3. BytesToday(u)' = usage'[u].bytes /\ (u \in Present)'
      BY <1>1, <2>1, <3>1 DEF BytesToday, Present
    <3> QED  BY <1>15, <2>1, <3>1, <3>2, <3>3 DEF Balanced
  <2>2. CASE u \notin Present
    <3>1. usage'[u] = Rolled[u] /\ owed'[u] = owed[u] + 0 /\ due'[u] = due[u]
      BY <1>1, <2>2 DEF PolledBag, PolledOwed
    <3>2. Rolled[u] = usage[u] /\ owed[u] \in Nat
      BY <1>2, <2>2, RolledTyped DEF Rolled, Present, Bags
    <3>3. (u \notin Present)'
      BY <1>1, <2>2 DEF Present
    <3> QED  BY <1>15, <2>2, <3>1, <3>2, <3>3 DEF Balanced
  <2> QED  BY <2>1, <2>2
<1>16. Books'
  <2> SUFFICES ASSUME ~misread' PROVE \A u \in Users : Balanced(u)'
    BY DEF Books
  <2>1. ~misread /\ (swapped <=> IsFresh)
    BY <1>1, <1>2 DEF Bags, IsFresh
  <2> QED  BY <1>15, <2>1 DEF CountedInv, Books
<1> QED  BY <1>13, <1>14, <1>16 DEF CountedInv

-----------------------------------------------------------------------------
(* The admin's edits. *)

\* What an edit leaves alone.
SavedSame == UNCHANGED <<edits, today, gap, prev, seen, core, kept, unread, swapped, misread>>

LEMMA SavedIs == Saved => SavedSame
  BY DEF Saved, SavedSame

LEMMA OneEdit ==
  ASSUME CountedInv, SavedSame, NEW u, usage' \in [Users -> Entry], lazy' \in [Users -> Entry] \cup {None},
         owed' \in [Users -> Nat], due' \in [Users -> [total : Int, own : Int \cup {None}]],
         \A v \in Users : v # u =>
           /\ owed'[v] = owed[v] /\ due'[v] = due[v] /\ users'[v] = users[v]
           /\ IF users[v] = None THEN usage'[v] = usage[v]
                                 ELSE usage'[v].day = today /\ usage'[v].bytes = BytesToday(v),
         ~misread /\ u \in Users /\ Balanced(u) => Balanced(u)'
  PROVE  CountedInv'
<1>1. Entry' = Entry
  BY DEF Entry, SavedSame
<1>2. Bags'
  BY <1>1 DEF Bags, CountedInv, SavedSame, Reading
<1>3. ReadSince'
  BY DEF CountedInv, ReadSince, SavedSame
<1>4. ASSUME NEW v \in Users, ~misread PROVE Balanced(v)'
  <2>1. Balanced(v)
    BY <1>4 DEF CountedInv, Books
  <2>2. CASE v # u
    <3>1. BytesToday(v)' = BytesToday(v)
      BY <2>2 DEF BytesToday, SavedSame
    <3>2. (v \in Present)' <=> v \in Present
      BY <2>2 DEF Present
    <3>3. usage'[v] = BlankEntry => usage[v] = BlankEntry \/ v \in Present
      BY <2>2 DEF Present
    <3>4. owed'[v] = owed[v] /\ due'[v] = due[v]
      BY <2>2
    <3> QED  BY <2>1, <3>1, <3>2, <3>3, <3>4, StaysBalanced
  <2>3. CASE v = u
    BY <1>4, <2>1, <2>3
  <2> QED  BY <2>2, <2>3
<1>5. Books'
  BY <1>4 DEF Books, SavedSame
<1> QED  BY <1>2, <1>3, <1>5 DEF CountedInv

LEMMA UpdateKeeps ==
  ASSUME Inv, CountedInv, NEW e \in edits, Update(e[1], e[2]) PROVE CountedInv'
<1> DEFINE u == e[1]
           r == e[2]
<1>1. u \in Users /\ r \in Record /\ users \in [Users -> Record \cup {None}] /\ r # None
  BY LanAssumption DEF Inv
<1>2. /\ users' = [users EXCEPT ![u] = r] /\ usage' = RolledFor(users') /\ UNCHANGED <<owed, lazy, due>> /\ SavedSame
      /\ users[u] = None => usage[u] = BlankEntry
  BY SavedIs DEF Update
<1> HIDE DEF u, r
<1>3. users'[u] = r /\ \A v \in Users : v # u => users'[v] = users[v]
  BY <1>1, <1>2
<1>4. Bags
  BY DEF CountedInv
<1>5. /\ usage' \in [Users -> Entry]
      /\ \A v \in Users : users'[v] = None => usage'[v] = usage[v]
      /\ \A v \in Users : users'[v] # None => usage'[v].day = today /\ usage'[v].bytes = BytesToday(v)
  BY <1>2, <1>4, RolledTyped
<1>6. ASSUME Balanced(u) PROVE Balanced(u)'
  <2>1. BytesToday(u)' = BytesToday(u) /\ (u \in Present)'
    BY <1>1, <1>2, <1>3, <1>5 DEF BytesToday, Present, SavedSame
  <2>2. CASE u \in Present
    BY <1>2, <1>6, <2>1, <2>2 DEF Balanced
  <2>3. CASE u \notin Present
    <3>1. usage[u] = BlankEntry
      BY <1>1, <1>2, <2>3 DEF Present
    <3>2. BytesToday(u) = Zero
      BY <3>1, BlankTyped DEF BytesToday
    <3>3. BytesToday(u)["total"] = 0 /\ BytesToday(u)["direct"] = 0
      BY <3>2 DEF Zero, Kinds
    <3>4. owed[u] \in Nat
      BY <1>1, <1>4 DEF Bags
    <3> QED  BY <1>2, <1>6, <2>1, <2>3, <3>1, <3>3, <3>4 DEF Balanced
  <2> QED  BY <2>2, <2>3
<1>7. owed' \in [Users -> Nat] /\ due' \in [Users -> [total : Int, own : Int \cup {None}]]
  BY <1>2, <1>4 DEF Bags
<1>8. lazy' \in [Users -> Entry] \cup {None}
  BY <1>2, <1>4 DEF Bags
<1> QED  BY <1>2, <1>3, <1>5, <1>6, <1>7, <1>8, OneEdit

LEMMA RolledFacts ==
  ASSUME CountedInv
  PROVE  /\ Rolled \in [Users -> Entry] /\ owed \in [Users -> Nat] /\ today \in Nat
         /\ due \in [Users -> [total : Int, own : Int \cup {None}]] /\ lazy \in [Users -> Entry] \cup {None}
         /\ \A v \in Users : IF users[v] = None THEN Rolled[v] = usage[v]
                             ELSE Rolled[v].day = today /\ Rolled[v].bytes = BytesToday(v)
  BY RolledTyped DEF CountedInv, Bags, Rolled

LEMMA DeleteKeeps ==
  ASSUME Inv, CountedInv, NEW u \in Present, Delete(u) PROVE CountedInv'
<1>1. /\ users' = [users EXCEPT ![u] = None] /\ usage' = [RolledFor(users') EXCEPT ![u] = BlankEntry]
      /\ owed' = [owed EXCEPT ![u] = 0] /\ due' = [due EXCEPT ![u] = [total |-> 0, own |-> 0]] /\ lazy' = lazy /\ SavedSame
  BY SavedIs DEF Delete
<1>2. u \in Users /\ users \in [Users -> Record \cup {None}]
  BY DEF Present, Inv
<1>3. users'[u] = None /\ \A v \in Users : v # u => users'[v] = users[v]
  BY <1>1, <1>2
<1>4. /\ RolledFor(users') \in [Users -> Entry]
      /\ \A v \in Users : users'[v] = None => RolledFor(users')[v] = usage[v]
      /\ \A v \in Users : users'[v] # None => RolledFor(users')[v].day = today /\ RolledFor(users')[v].bytes = BytesToday(v)
  BY RolledTyped DEF CountedInv
<1> DEFINE R == RolledFor(users')
<1> HIDE DEF R
<1>5. BlankEntry \in Entry
  BY BlankTyped, KindsAre, RolledFacts DEF Entry
<1>6. usage' \in [Users -> Entry] /\ \A v \in Users : v # u => usage'[v] = R[v]
  BY <1>1, <1>4, <1>5 DEF R
<1>7. /\ owed' \in [Users -> Nat] /\ due' \in [Users -> [total : Int, own : Int \cup {None}]]
      /\ owed'[u] = 0 /\ due'[u] = [total |-> 0, own |-> 0]
      /\ \A v \in Users : v # u => owed'[v] = owed[v] /\ due'[v] = due[v]
  BY <1>1, <1>2, RolledFacts
<1>8. Balanced(u)'
  <2>1. (u \notin Present)'
    BY <1>3 DEF Present
  <2> QED  BY <1>7, <2>1 DEF Balanced
<1>9. lazy' \in [Users -> Entry] \cup {None}
  BY <1>1, RolledFacts
<1>10. \A v \in Users : v # u =>
           /\ owed'[v] = owed[v] /\ due'[v] = due[v] /\ users'[v] = users[v]
           /\ IF users[v] = None THEN usage'[v] = usage[v]
                                 ELSE usage'[v].day = today /\ usage'[v].bytes = BytesToday(v)
  BY <1>3, <1>4, <1>6, <1>7 DEF R
<1> QED  BY <1>1, <1>6, <1>7, <1>8, <1>9, <1>10, OneEdit

\* A bag with a top-up more, and one begun anew.
LEMMA ToppedTyped ==
  ASSUME today \in Nat, NEW e \in Entry, NEW k \in Kinds \X Periods, NEW x, x = [e EXCEPT !.extra[k] = @ + 1]
  PROVE  x \in Entry /\ x.day = e.day /\ x.bytes = e.bytes
<1> DEFINE y == [e.extra EXCEPT ![k] = @ + 1]
<1>1. /\ e = [day |-> e.day, bytes |-> e.bytes, ever |-> e.ever, extra |-> e.extra]
      /\ e.extra \in [Kinds \X Periods -> Nat] /\ e.day \in Nat \cup {None} /\ e.bytes \in [Kinds -> Nat]
      /\ e.ever \in [Kinds -> Nat \cup {None}] /\ e.bytes["total"] = e.bytes["vpn"] + e.bytes["direct"]
      /\ (e.day \in Nat /\ e.day <= today) \/ e.bytes = Zero
  BY DEF Entry
<1>2. y \in [Kinds \X Periods -> Nat]
  <2>1. e.extra[k] \in Nat
    BY <1>1
  <2> QED  BY <1>1, <2>1
<1>3. x = [e EXCEPT !.extra = y]
  BY <1>1
<1> HIDE DEF y
<1>4. x = [day |-> e.day, bytes |-> e.bytes, ever |-> e.ever, extra |-> y]
  BY <1>1, <1>3
<1> QED  BY <1>1, <1>2, <1>4 DEF Entry

LEMMA ResetTyped ==
  ASSUME today \in Nat, NEW e \in Entry, e.day = today, NEW x,
         x = [e EXCEPT !.bytes = Zero, !.extra = BlankEntry.extra,
                       !.ever = [k \in Kinds |-> IF @[k] = None THEN None ELSE 0]]
  PROVE  x \in Entry /\ x.day = today /\ x.bytes = Zero
<1> DEFINE v == [k \in Kinds |-> IF e.ever[k] = None THEN None ELSE 0]
<1>1. /\ e = [day |-> e.day, bytes |-> e.bytes, ever |-> e.ever, extra |-> e.extra]
  BY DEF Entry
<1>2. v \in [Kinds -> Nat \cup {None}]
  OBVIOUS
<1>3. x = [e EXCEPT !.bytes = Zero, !.extra = BlankEntry.extra, !.ever = v]
  OBVIOUS
<1> HIDE DEF v
<1> DEFINE w == BlankEntry.extra
<1>4. w \in [Kinds \X Periods -> Nat]
  BY BlankTyped
<1>5. x = [e EXCEPT !.bytes = Zero, !.extra = w, !.ever = v]
  BY <1>3
<1> HIDE DEF w
<1>6. x = [day |-> today, bytes |-> Zero, ever |-> v, extra |-> w]
  BY <1>1, <1>5
<1>7. [day |-> today, bytes |-> Zero, ever |-> v, extra |-> w] \in Entry
  BY <1>2, <1>4, KindsAre DEF Entry
<1>8. x.day = today /\ x.bytes = Zero
  BY <1>6
<1> QED  BY <1>6, <1>7, <1>8

LEMMA TopUpKeeps ==
  ASSUME Inv, CountedInv, NEW u \in Present, NEW l \in users[u].limits, TopUp(u, l) PROVE CountedInv'
<1>1. /\ usage' = [Rolled EXCEPT ![u].extra[<<l.kind, l.period>>] = @ + 1]
      /\ lazy' = usage' /\ UNCHANGED <<users, owed, due>> /\ SavedSame
  BY SavedIs DEF TopUp, store
<1>2. u \in Users /\ users[u] # None /\ users[u] \in Record
  BY DEF Present, Inv
<1>3. <<l.kind, l.period>> \in Kinds \X Periods
  BY <1>2 DEF Record, Limit
<1> DEFINE k == <<l.kind, l.period>>
           x == [Rolled[u] EXCEPT !.extra[k] = @ + 1]
<1>4. usage' = [Rolled EXCEPT ![u] = x]
  BY <1>1, <1>2, RolledFacts
<1>5. x \in Entry /\ x.day = Rolled[u].day /\ x.bytes = Rolled[u].bytes
  <2>1. Rolled[u] \in Entry /\ today \in Nat
    BY <1>2, RolledFacts
  <2> HIDE DEF k
  <2> QED  BY <1>3, <2>1, ToppedTyped DEF k
<1> HIDE DEF x
<1>6. usage' \in [Users -> Entry] /\ usage'[u] = x /\ \A v \in Users : v # u => usage'[v] = Rolled[v]
  BY <1>2, <1>4, <1>5, RolledFacts
<1>7. ASSUME Balanced(u) PROVE Balanced(u)'
  <2>1. BytesToday(u)' = BytesToday(u) /\ (u \in Present)'
    BY <1>1, <1>2, <1>5, <1>6, RolledFacts DEF BytesToday, SavedSame, Present
  <2> QED  BY <1>1, <1>7, <2>1 DEF Balanced
<1>8. \A v \in Users : v # u =>
           /\ owed'[v] = owed[v] /\ due'[v] = due[v] /\ users'[v] = users[v]
           /\ IF users[v] = None THEN usage'[v] = usage[v]
                                 ELSE usage'[v].day = today /\ usage'[v].bytes = BytesToday(v)
  BY <1>1, <1>6, RolledFacts
<1>9. owed' \in [Users -> Nat] /\ due' \in [Users -> [total : Int, own : Int \cup {None}]] /\ lazy' \in [Users -> Entry] \cup {None}
  BY <1>1, <1>6, RolledFacts
<1> QED  BY <1>1, <1>6, <1>7, <1>8, <1>9, OneEdit

LEMMA ResetKeeps ==
  ASSUME Inv, CountedInv, NEW u \in Present, ResetUsage(u) PROVE CountedInv'
<1>1. /\ usage' = [Rolled EXCEPT ![u].bytes = Zero, ![u].extra = BlankEntry.extra,
                                 ![u].ever = [k \in Kinds |-> IF @[k] = None THEN None ELSE 0]]
      /\ owed' = [owed EXCEPT ![u] = 0] /\ due' = [due EXCEPT ![u] = [total |-> 0, own |-> 0]]
      /\ lazy' = usage' /\ users' = users /\ SavedSame
  BY SavedIs DEF ResetUsage, store
<1>2. u \in Users /\ users[u] # None
  BY DEF Present
<1> DEFINE x == [Rolled[u] EXCEPT !.bytes = Zero, !.extra = BlankEntry.extra,
                                  !.ever = [k \in Kinds |-> IF @[k] = None THEN None ELSE 0]]
<1>3. usage' = [Rolled EXCEPT ![u] = x]
  BY <1>1, <1>2, RolledFacts
<1>4. x \in Entry /\ x.day = today /\ x.bytes = Zero
  BY <1>2, RolledFacts, ResetTyped
<1> HIDE DEF x
<1>5. usage' \in [Users -> Entry] /\ usage'[u] = x /\ \A v \in Users : v # u => usage'[v] = Rolled[v]
  BY <1>2, <1>3, <1>4, RolledFacts
<1>6. /\ owed' \in [Users -> Nat] /\ due' \in [Users -> [total : Int, own : Int \cup {None}]]
      /\ owed'[u] = 0 /\ due'[u] = [total |-> 0, own |-> 0]
      /\ \A v \in Users : v # u => owed'[v] = owed[v] /\ due'[v] = due[v]
  BY <1>1, <1>2, RolledFacts
<1>7. Balanced(u)'
  <2>1. (u \in Present)' /\ BytesToday(u)' = Zero
    BY <1>1, <1>2, <1>4, <1>5 DEF Present, BytesToday, SavedSame
  <2>2. Zero["total"] = 0 /\ Zero["direct"] = 0
    BY DEF Zero, Kinds
  <2> QED  BY <1>6, <2>1, <2>2 DEF Balanced
<1>8. \A v \in Users : v # u =>
           /\ owed'[v] = owed[v] /\ due'[v] = due[v] /\ users'[v] = users[v]
           /\ IF users[v] = None THEN usage'[v] = usage[v]
                                 ELSE usage'[v].day = today /\ usage'[v].bytes = BytesToday(v)
  BY <1>1, <1>5, <1>6, RolledFacts
<1>9. lazy' \in [Users -> Entry] \cup {None}
  BY <1>1, <1>5
<1> QED  BY <1>1, <1>5, <1>6, <1>7, <1>8, <1>9, OneEdit

LEMMA AdminKeeps == ASSUME Inv, CountedInv, Admin PROVE CountedInv'
<1>1. CASE Config
  <2>1. usage' = Rolled /\ UNCHANGED <<users, owed, lazy, due>> /\ SavedSame
    BY <1>1, SavedIs DEF Config
  <2> QED  BY <2>1, RollsOn, RolledFacts DEF SavedSame, CountedInv, Bags
<1> QED  BY <1>1, UpdateKeeps, DeleteKeeps, TopUpKeeps, ResetKeeps DEF Admin

-----------------------------------------------------------------------------
(* The core counts, and begins anew. *)
LEMMA TrafficKeeps == ASSUME Inv, CountedInv, Traffic PROVE CountedInv'
<1>1. core # None /\ UNCHANGED <<users, today, usage, owed, prev, seen, kept, lazy, gap, due, swapped, misread>>
  BY DEF Traffic, store, world, meter
<1>2. CASE OwnersTraffic
  <2>1. core = [build |-> core.build, count |-> core.count, own |-> core.own, owner |-> core.owner]
    BY <1>1 DEF Inv
  <2>2. core' = [core EXCEPT !.owner = @ + 1] /\ UNCHANGED unread
    BY <1>2 DEF OwnersTraffic
  <2>3. core' # None => core'.count = core.count /\ core'.own = core.own
    BY <2>1, <2>2
  <2>4. Entry' = Entry
    BY <1>1 DEF Entry
  <2>5. Bags'
    BY <1>1, <2>2, <2>3, <2>4 DEF CountedInv, Bags, Reading
  <2>6. ReadSince'
    BY <1>1, <2>2, <2>3 DEF CountedInv, ReadSince
  <2>7. \A v \in Users : Balanced(v)' <=> Balanced(v)
    BY <1>1 DEF Balanced, Present, BytesToday
  <2>8. Books'
    BY <1>1, <2>7 DEF Books, CountedInv
  <2> QED  BY <2>5, <2>6, <2>8 DEF CountedInv
<1>3. ASSUME NEW u, NEW t \in {0, 1}, NEW o \in {0, 1}, NEW then, Counts(u, t, o, then) PROVE CountedInv'
  <2>1. t \in Nat /\ o \in Nat
    OBVIOUS
  <2> QED  BY <1>1, <1>3, <2>1, CountsOn
<1>4. CASE \E u \in Active(core.build) : CatchesUp(u)
  BY <1>3, <1>4 DEF CatchesUp
<1>5. ASSUME NEW u, NEW d, Carry(u, d) PROVE CountedInv'
  <2>1. \E t \in {0, 1}, o \in {0, 1}, then \in {"none", "own", "total"} : Counts(u, t, o, then)
    BY <1>5 DEF Carry
  <2> QED  BY <1>3, <2>1
<1> QED  BY <1>2, <1>4, <1>5 DEF Traffic

LEMMA ReloadsKeep == ASSUME CountedInv, Reloads PROVE CountedInv'
<1> USE DEF store, world, meter, ipc, reload, truth
<1>1. lazy \in [Users -> Entry] \cup {None} /\ gap \in BOOLEAN
  BY DEF CountedInv, Bags
<1>2. CASE TimerFires
  <2>1. UNCHANGED <<users, today, usage, owed, prev, seen, core, kept, lazy, gap, due, unread, swapped, misread>>
    BY <1>2 DEF TimerFires
  <2> QED  BY <1>1, <2>1, RollsOn
<1>3. CASE ReloadBuilds
  <2>1. /\ usage' = Rolled
        /\ UNCHANGED <<users, today, owed, prev, seen, core, kept, lazy, gap, due, unread, swapped, misread>>
    BY <1>3 DEF ReloadBuilds, ForBuild
  <2> QED  BY <1>1, <2>1, RollsOn
<1>4. CASE ReloadEnds
  <2>1. UNCHANGED <<users, today, usage, owed, prev, seen, kept, lazy, gap, due, misread>>
    BY <1>4 DEF ReloadEnds
  <2>2. \/ UNCHANGED <<core, unread, swapped>>
        \/ CoreBecomes(NewCore(job.build)) \/ CoreBecomes(None)
    BY <1>4 DEF ReloadEnds
  <2>3. CASE UNCHANGED <<core, unread, swapped>>
    BY <1>1, <2>1, <2>3, RollsOn
  <2>4. CASE CoreBecomes(NewCore(job.build))
    BY <2>1, <2>4, CoreBegins
  <2>5. CASE CoreBecomes(None)
    BY <2>1, <2>5, CoreBegins
  <2> QED  BY <2>2, <2>3, <2>4, <2>5
<1> QED  BY <1>2, <1>3, <1>4 DEF Reloads

LEMMA ConnectionKeeps == ASSUME CountedInv, Connection PROVE CountedInv'
<1> USE DEF store, world, meter, ipc, reload, truth
<1>1. lazy \in [Users -> Entry] \cup {None} /\ gap \in BOOLEAN
  BY DEF CountedInv, Bags
<1>2. CASE Connect
  <2>1. UNCHANGED <<users, today, usage, owed, prev, seen, core, kept, lazy, gap, due, unread, swapped, misread>>
    BY <1>2 DEF Connect
  <2> QED  BY <1>1, <2>1, RollsOn
<1>3. CASE ConnectBuilds
  <2>1. /\ usage' = Rolled
        /\ UNCHANGED <<users, today, owed, prev, seen, core, kept, lazy, gap, due, unread, swapped, misread>>
    BY <1>3 DEF ConnectBuilds, ForBuild
  <2> QED  BY <1>1, <2>1, RollsOn
<1>4. CASE ConnectEnds
  <2>1. UNCHANGED <<users, today, usage, owed, prev, seen, kept, lazy, gap, due, misread>>
    BY <1>4 DEF ConnectEnds
  <2>2. CoreBecomes(NewCore(conn.build)) \/ CoreBecomes(None)
    BY <1>4 DEF ConnectEnds
  <2> QED  BY <2>1, <2>2, CoreBegins
<1>5. CASE Disconnect
  <2>1. CoreBecomes(None) /\ UNCHANGED <<users, today, usage, owed, prev, seen, kept, lazy, gap, due, misread>>
    BY <1>5 DEF Disconnect
  <2> QED  BY <2>1, CoreBegins
<1> QED  BY <1>2, <1>3, <1>4, <1>5 DEF Connection

(* A new day: what today's bags held is of yesterday. *)
LEMMA MidnightKeeps ==
  ASSUME CountedInv, Midnight, UNCHANGED <<users, usage, owed, prev, seen, core, kept, lazy, unread, swapped, misread>>
  PROVE  CountedInv'
<1>1. /\ today \in Nat /\ usage \in [Users -> Entry] /\ kept \in [Users -> Entry]
      /\ lazy \in [Users -> Entry] \cup {None} /\ owed \in [Users -> Nat]
      /\ due \in [Users -> [total : Int, own : Int \cup {None}]] /\ Bags
  BY DEF CountedInv, Bags
<1>2. /\ today' = today + 1 /\ UNCHANGED gap
      /\ due' = [u \in Users |->
                   [total |-> 0, own |-> IF due[u].own = None THEN None ELSE due[u].own - Rolled[u].bytes["direct"]]]
  BY DEF Midnight
<1>3. Entry \subseteq Entry'
  BY <1>1, <1>2 DEF Entry
<1>4. \A u \in Users : Rolled[u] \in Entry /\ Rolled[u].bytes["direct"] \in Nat
  <2>1. \A u \in Users : Rolled[u] \in Entry
    BY RolledFacts
  <2> QED  BY <2>1, KindsAre DEF Entry
<1>5. ASSUME NEW u \in Users PROVE due'[u] \in [total : Int, own : Int \cup {None}]
  <2>1. due[u].own # None => due[u].own \in Int
    BY <1>1
  <2> QED  BY <1>2, <1>4, <2>1
<1>6. due' \in [Users -> [total : Int, own : Int \cup {None}]]
  BY <1>2, <1>5
<1>7. today' \in Nat /\ usage' \in [Users -> Entry'] /\ kept' \in [Users -> Entry'] /\ lazy' \in [Users -> Entry'] \cup {None}
  BY <1>1, <1>2, <1>3
<1>8. Bags'
  BY <1>1, <1>2, <1>6, <1>7 DEF Bags, Reading
<1>9. ReadSince'
  BY DEF CountedInv, ReadSince
<1>10. ASSUME NEW u \in Users, Balanced(u) PROVE Balanced(u)'
  <2>1. usage[u] \in Entry
    BY <1>1
  <2>2. BytesToday(u)' = Zero
    BY <1>1, <1>2, <2>1 DEF BytesToday, Entry
  <2>3. Zero["total"] = 0 /\ Zero["direct"] = 0
    BY DEF Zero, Kinds
  <2>4. due'[u].total = 0 /\ (due'[u].own # None => due[u].own # None /\ due[u].own \in Int
                                 /\ due'[u].own = due[u].own - Rolled[u].bytes["direct"])
    BY <1>1, <1>2
  <2>5. (u \in Present)' <=> u \in Present
    BY DEF Present
  <2>6. owed[u] \in Nat
    BY <1>1
  <2>7. CASE u \in Present
    <3>1. Rolled[u].bytes = BytesToday(u)
      BY <2>7, RolledFacts DEF Present
    <3>2. due'[u].own # None => owed[u] = due'[u].own
      BY <1>4, <1>10, <2>4, <2>6, <2>7, <3>1 DEF Balanced
    <3> QED  BY <2>2, <2>3, <2>4, <2>5, <2>6, <2>7, <3>2 DEF Balanced
  <2>8. CASE u \notin Present
    <3>1. Rolled[u] = usage[u]
      BY <2>8, RolledFacts DEF Present
    <3>2. usage[u] = BlankEntry => Rolled[u].bytes["direct"] = 0
      BY <2>3, <3>1, BlankTyped
    <3> QED  BY <1>10, <2>4, <2>5, <2>8, <3>2 DEF Balanced
  <2> QED  BY <2>7, <2>8
<1>11. Books'
  BY <1>10 DEF Books, CountedInv
<1> QED  BY <1>8, <1>9, <1>11 DEF CountedInv

LEMMA AroundKeeps == ASSUME CountedInv, Around PROVE CountedInv'
<1>1. UNCHANGED <<users, usage, owed, prev, seen, core, kept, lazy, unread, swapped, misread>>
  BY DEF Around, store, meter
<1>2. lazy \in [Users -> Entry] \cup {None} /\ gap \in BOOLEAN
  BY DEF CountedInv, Bags
<1>3. CASE Midnight
  BY <1>1, <1>3, MidnightKeeps
<1>4. CASE today' = today /\ due' = due /\ gap' \in BOOLEAN
  <2>1. lazy' \in [Users -> Entry] \cup {None}
    BY <1>1, <1>2
  <2> QED  BY <1>1, <1>4, <2>1, RollsOn
<1>5. SettingChanged \/ PollsStop \/ (\E u \in Present : HoursChange(u) \/ Expires(u)) => today' = today /\ due' = due /\ gap' \in BOOLEAN
  BY <1>2 DEF SettingChanged, PollsStop, HoursChange, Expires
<1> QED  BY <1>3, <1>4, <1>5 DEF Around

(* The file written, and read again after a crash. *)
LEMMA LandsKeeps == ASSUME CountedInv, Lands PROVE CountedInv'
<1>1. /\ lazy # None /\ kept' = lazy /\ lazy' = None
      /\ UNCHANGED <<users, today, usage, owed, prev, seen, core, gap, due, unread, swapped, misread>>
  BY DEF Lands, store, world, meter, truth
<1>2. Entry' = Entry
  BY <1>1 DEF Entry
<1>3. Bags'
  BY <1>1, <1>2 DEF CountedInv, Bags, Reading
<1>4. ReadSince'
  BY <1>1 DEF CountedInv, ReadSince
<1>5. \A v \in Users : Balanced(v)' <=> Balanced(v)
  BY <1>1 DEF Balanced, Present, BytesToday
<1>6. Books'
  BY <1>1, <1>5 DEF Books, CountedInv
<1> QED  BY <1>3, <1>4, <1>6 DEF CountedInv

LEMMA CrashKeeps == ASSUME CountedInv, Crash PROVE CountedInv'
<1>1. /\ usage' = kept /\ lazy' = None /\ owed' = [u \in Users |-> 0] /\ seen' = FALSE /\ gap' = FALSE
      /\ due' = [u \in Users |-> LET e == IF u \in Present THEN RollUser(kept[u], users[u]) ELSE BlankEntry
                                 IN [total |-> e.bytes["total"], own |-> e.bytes["direct"]]]
      /\ core' = None /\ swapped' = TRUE /\ unread' = [u \in Users |-> [total |-> 0, own |-> 0]]
      /\ UNCHANGED <<users, today, kept, misread>>
  BY DEF Crash, CoreBecomes, store
<1>2. today \in Nat /\ kept \in [Users -> Entry] /\ misread \in BOOLEAN
  BY DEF CountedInv, Bags
<1>3. Entry' = Entry
  BY <1>1 DEF Entry
<1>4. Zero["total"] = 0 /\ Zero["direct"] = 0 /\ 0 \in Int
  BY DEF Zero, Kinds
<1>5. ASSUME NEW u \in Users
      PROVE  /\ due'[u] \in [total : Int, own : Int \cup {None}]
             /\ u \in Present => due'[u].total = BytesToday(u)'["total"] /\ due'[u].own = BytesToday(u)'["direct"]
             /\ BytesToday(u)'["direct"] \in Nat
             /\ u \notin Present => due'[u].total = 0 /\ due'[u].own = 0
  <2>1. kept[u] \in Entry
    BY <1>2
  <2>2. kept[u].bytes \in [Kinds -> Nat]
    BY <2>1 DEF Entry
  <2>3. RollUser(kept[u], users[u]).bytes = BytesToday(u)'
    BY <1>1, <1>2, <2>1, RollTyped DEF BytesToday
  <2>4. BytesToday(u)' \in [Kinds -> Nat]
    BY <1>1, <2>2, KindsAre DEF BytesToday
  <2>5. BytesToday(u)'["total"] \in Nat /\ BytesToday(u)'["direct"] \in Nat
    BY <2>4, KindsAre
  <2>6. CASE u \in Present
    <3>1. due'[u] = [total |-> BytesToday(u)'["total"], own |-> BytesToday(u)'["direct"]]
      BY <1>1, <2>3, <2>6
    <3> QED  BY <2>5, <2>6, <3>1
  <2>7. CASE u \notin Present
    <3>1. due'[u] = [total |-> 0, own |-> 0]
      BY <1>1, <1>4, <2>7, BlankTyped
    <3> QED  BY <2>5, <2>7, <3>1
  <2> QED  BY <2>6, <2>7
<1>6. due' \in [Users -> [total : Int, own : Int \cup {None}]]
  BY <1>1, <1>5
<1>7. owed' \in [Users -> Nat] /\ unread' \in [Users -> [total : Nat, own : Nat]]
  BY <1>1
<1>8. Bags'
  BY <1>1, <1>2, <1>3, <1>6, <1>7 DEF Bags
<1>9. ReadSince'
  BY <1>1 DEF ReadSince
<1>10. ASSUME NEW u \in Users PROVE Balanced(u)'
  <2>1. owed'[u] = 0 /\ ((u \in Present)' <=> u \in Present)
    BY <1>1 DEF Present
  <2> QED  BY <1>5, <2>1 DEF Balanced
<1>11. Books'
  BY <1>10 DEF Books
<1> QED  BY <1>8, <1>9, <1>11 DEF CountedInv

LEMMA CountedStep == ASSUME Inv, CountedInv, [Next]_vars PROVE CountedInv'
<1>1. lazy \in [Users -> Entry] \cup {None} /\ gap \in BOOLEAN
  BY DEF CountedInv, Bags
<1>2. CASE Cools
  <2>1. UNCHANGED <<users, today, usage, owed, prev, seen, core, kept, lazy, gap, due, unread, swapped, misread>>
    BY <1>2 DEF Cools, store, world, truth
  <2> QED  BY <1>1, <2>1, RollsOn
<1>3. CASE UNCHANGED vars
  <2>1. UNCHANGED <<users, today, usage, owed, prev, seen, core, kept, lazy, gap, due, unread, swapped, misread>>
    BY <1>3 DEF vars, store, world, meter, truth
  <2> QED  BY <1>1, <2>1, RollsOn
<1> QED
  BY <1>2, <1>3, AdminKeeps, TrafficKeeps, TickKeeps, ReloadsKeep, ConnectionKeeps, AroundKeeps, LandsKeeps, CrashKeeps DEF Next

(* Whatever cores came and went, and whatever was read late, lost in a crash *)
(* or counted in two steps: Counted (LanUsers.tla).                          *)
THEOREM BytesCounted == Spec => []Counted
<1>1. Init => Inv /\ CountedInv
  BY InitInv, CountedStarts
<1>2. Inv /\ CountedInv /\ [Next]_vars => Inv' /\ CountedInv'
  BY NextInv, CountedStep
<1>3. CountedInv => Counted
  BY CountedEnough
<1> QED
  BY <1>1, <1>2, <1>3, PTL DEF Spec
=============================================================================
