------------------------------- MODULE MCRelay -------------------------------
(* Relay over two sockets and two requests. *)
EXTENDS Relay, TLC

MCSocks == {1, 2}
MCRequests == {1, 2}

None == [h \in Happenings |-> 0]
\* The happenings of S, each at most once.
Once(S) == [h \in Happenings |-> IF h \in S THEN 1 ELSE 0]

Case(may, asked, ka, kb, from, to) ==
  [left |-> may, asked |-> asked, kinds |-> <<ka, kb>>, world |-> from, then |-> to]
Two(S, ka, kb) == Case(Once(S), 2, ka, kb, "plain", "plain")
One(S, ka) == Case(Once(S), 1, ka, ka, "plain", "plain")

Moves(n, m, from, to) ==
  Case([None EXCEPT !.refuse = n, !.shift = 1, !.cut = m], IF m = 0 THEN 0 ELSE 1, "events", "rpc", from, to)

\* Two requests of a link that something happens to.
Carried ==
  {Two({"cut", "leave"}, "rpc", "events"), Two({"reconfigure"}, "events", "events"), Two({"restart"}, "page", "page"),
   Two({"refuse"}, "rpc", "luci"), Two({"slow"}, "rpc", "luci"), Two({"relayRestart"}, "page", "events")}

\* One request of a link that more things happen to.
Crossed ==
  {One(S, "rpc") : S \in {{"cut", "slow"}, {"stop", "start"}, {"revoke", "slow"}}}
    \cup {One(S, "events") : S \in {{"cut", "leave"}, {"restart", "cut"}, {"reconfigure", "slow"},
                                     {"reconfigure", "relayRestart"}, {"revoke", "stop"}, {"cut", "relayRestart"}}}

\* Links that cannot be had, or not any more, or at last.
Reached ==
  {Moves(3, 0, "tunnelled", "blocked"), Moves(0, 1, "tunnelled", "blocked"), Moves(0, 1, "blocked", "tunnelled"),
   Moves(0, 1, "blocked", "plain"), Moves(0, 1, "plain", "blocked"), Moves(0, 1, "nameless", "blocked")}

MCScenarios == Carried \cup Crossed \cup Reached
=============================================================================
