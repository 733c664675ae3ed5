---------------------------- MODULE MCConnection ----------------------------
(* Scenarios for Connection: which settings, and how many events of a kind. *)
EXTENDS Connection

MCTasks == 1..3

Budget(happening) == [e \in Events |-> IF e \in DOMAIN happening THEN happening[e] ELSE 0]
Among(ss, happening) == [settings : ss, budget : {Budget(happening)}]

\* The user's calls overlap: two connects and a disconnect, a settings apply.
\* Nothing here asks whether to reconnect automatically.
Calling == [kill : BOOLEAN, tun : BOOLEAN, auto : {TRUE}]
UserScenarios ==
  Among(Calling, [connect |-> 2, disconnect |-> 1, fault |-> 1, unarmed |-> 1])
    \cup Among(Calling, [connect |-> 2, disconnect |-> 1, slow |-> 1])
    \cup Among(Calling, [connect |-> 1, disconnect |-> 1, apply |-> 1, unarmed |-> 1])

\* The connection drops or the network moves, and what rebuilds it fails too.
DropScenarios ==
  Among(Settings, [connect |-> 1, trigger |-> 1, exit |-> 2, fault |-> 1])
    \cup Among(Settings, [connect |-> 1, trigger |-> 2, exit |-> 1])
    \cup Among(Settings, [connect |-> 1, exit |-> 1, fault |-> 1, unarmed |-> 1, slow |-> 1])
    \cup Among([kill : {TRUE}, tun : BOOLEAN, auto : {FALSE}],
               [connect |-> 1, apply |-> 1, exit |-> 1, fault |-> 1, unarmed |-> 1])

\* A disconnect lands on a drop or on a recovery.
CancelScenarios ==
  Among(Settings, [connect |-> 1, disconnect |-> 1, trigger |-> 1, unarmed |-> 1])
    \cup Among(Calling, [connect |-> 1, disconnect |-> 1, trigger |-> 1, fault |-> 1])
    \cup Among(Settings, [connect |-> 1, disconnect |-> 1, exit |-> 1, unarmed |-> 1])

\* The core is built anew in its place: twice, behind a drop, a recovery, an apply, a
\* disconnect or another connect, and it fails.
ReloadScenarios ==
  Among(Settings, [connect |-> 1, reload |-> 2, exit |-> 1])
    \cup Among(Calling, [connect |-> 1, reload |-> 1, disconnect |-> 1, exit |-> 1])
    \cup Among(Calling, [connect |-> 1, reload |-> 1, trigger |-> 1, exit |-> 1, fault |-> 1])
    \cup Among(Calling, [connect |-> 1, reload |-> 1, apply |-> 1, fault |-> 1])
    \cup Among(Calling, [connect |-> 2, reload |-> 1])
    \cup Among(Calling, [connect |-> 1, reload |-> 1, disconnect |-> 1, slow |-> 1])

MCScenarios == UserScenarios \cup DropScenarios \cup CancelScenarios \cup ReloadScenarios

\* Three connects, two of them at once over the first one's core.
PlainSwitches == Among([kill : {FALSE}, tun : {FALSE}, auto : {FALSE}], [connect |-> 3])
=============================================================================
