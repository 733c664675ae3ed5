----------------------------- MODULE RelayProof -----------------------------
(***************************************************************************)
(* That a router has one link and the agent one socket, and that what a    *)
(* browser is given is the answer to its own request, for any number of    *)
(* sockets and requests and any budget of what may happen to them.         *)
(***************************************************************************)
EXTENDS Relay, FiniteSetTheorems, SequenceTheorems, TLAPS

(* What a socket, the agent's variables and the relay's are made of: the   *)
(* values of their fields matter only where a step of the proof asks.      *)
IsSock(r) == r = [f \in DOMAIN Free |-> r[f]]
IsAgent(a) == a = [f \in DOMAIN Started(1) |-> a[f]]
IsRelay(x) == x = [f \in {"known", "current", "cached"} |-> x[f]]

Shape ==
  /\ sock = [s \in Socks |-> sock[s]] /\ \A s \in Socks : IsSock(sock[s])
  /\ IsAgent(agent) /\ IsRelay(relay)
  /\ agent.running \in BOOLEAN /\ agent.due \in BOOLEAN

Open(r) == r.link /\ r.relay = "open"

(* A dial that is due or under way is the only one, of an agent that runs  *)
(* and has no link.                                                        *)
OneDial ==
  /\ agent.due => agent.running /\ agent.conn = 0 /\ \A s \in Socks : sock[s].agent # "dialing"
  /\ \A s \in Socks : sock[s].agent = "dialing" =>
       /\ agent.running /\ agent.conn = 0
       /\ \A t \in Socks : sock[t].agent = "dialing" => t = s
  /\ agent.conn # 0 => agent.running

IInv == Shape /\ OneDial /\ NewestHolds

(* x is r after a step that opens nothing.                                 *)
Below(x, r) ==
  /\ IsSock(x)
  /\ Open(x) => Open(r)
  /\ x.agent \in {"open", "dialing"} => x.agent = r.agent

(* WsConn: what is sent and what closes opens neither end of a socket. *)
LEMMA Same == ASSUME NEW r, IsSock(r) PROVE Below(r, r)
  BY DEF Below

LEMMA UpBelow == ASSUME NEW r, NEW fs, IsSock(r) PROVE Below(Up(r, fs), r)
  BY DEF Below, Up, IsSock, Open, Free

LEMMA DownBelow == ASSUME NEW r, NEW fs, IsSock(r) PROVE Below(Down(r, fs), r)
  BY DEF Below, Down, IsSock, Open, Free

LEMMA AgentClosesBelow ==
  ASSUME NEW r, IsSock(r) PROVE Below(AgentCloses(r), r) /\ AgentCloses(r).agent # "open"
  BY UpBelow DEF Below, AgentCloses, IsSock, Open, Free

LEMMA RelayClosesBelow ==
  ASSUME NEW r, IsSock(r) PROVE Below(RelayCloses(r), r) /\ ~Open(RelayCloses(r))
  BY DownBelow DEF Below, RelayCloses, IsSock, Open, Free

LEMMA AgentGoneBelow ==
  ASSUME NEW r, IsSock(r)
  PROVE  Below(AgentGone(r), r) /\ AgentGone(r).agent \in {"none", "gone"}
  BY DEF Below, AgentGone, Freed, Free, IsSock, Open

LEMMA RelayGoneBelow ==
  ASSUME NEW r, IsSock(r)
  PROVE  Below(RelayGone(r), r) /\ ~Open(RelayGone(r))
  BY DEF Below, RelayGone, Freed, Free, IsSock, Open

-----------------------------------------------------------------------------
(* A step that opens no end of any socket. *)
Lower == sock' = [s \in Socks |-> sock'[s]] /\ \A s \in Socks : Below(sock'[s], sock[s])

LEMMA BelowBelow == ASSUME NEW x, NEW y, NEW r, Below(x, y), Below(y, r) PROVE Below(x, r)
  BY DEF Below

LEMMA SameLower == ASSUME Shape, sock' = sock PROVE Lower
  BY Same DEF Lower, Shape

LEMMA OneLower ==
  ASSUME Shape, NEW s \in Socks, NEW x, Below(x, sock[s]), sock' = [sock EXCEPT ![s] = x]
  PROVE  Lower
  BY Same DEF Lower, Shape

(* What is sent, to a socket or to what is none any more. *)
LEMMA SentUp ==
  ASSUME Shape, NEW s, NEW fs, sock' = [sock EXCEPT ![s] = Up(sock[s], fs)]
  PROVE  Lower
  <1>1. CASE s \in Socks
    BY <1>1, UpBelow, OneLower DEF Shape
  <1>2. CASE s \notin Socks
    <2>1. sock' = sock
      BY <1>2 DEF Shape
    <2> QED
      BY <2>1, SameLower
  <1> QED
    BY <1>1, <1>2

LEMMA SentDown ==
  ASSUME Shape, NEW s, NEW fs, sock' = [sock EXCEPT ![s] = Down(sock[s], fs)]
  PROVE  Lower
  <1>1. CASE s \in Socks
    BY <1>1, DownBelow, OneLower DEF Shape
  <1>2. CASE s \notin Socks
    <2>1. sock' = sock
      BY <1>2 DEF Shape
    <2> QED
      BY <2>1, SameLower
  <1> QED
    BY <1>1, <1>2

LEMMA AnsweredLower ==
  ASSUME Shape, NEW i, NEW fs, sock' = Answered(i, fs)
  PROVE  Lower
  BY SentUp, SameLower DEF Answered

(* Such a step keeps what each side holds to, when that side's own         *)
(* variables stay.                                                         *)
RelayHolds == \A s \in Socks : Open(sock[s]) => s = relay.current /\ relay.known
AgentHolds == \A s \in Socks : sock[s].agent = "open" => s = agent.conn

LEMMA Halves == NewestHolds <=> RelayHolds /\ AgentHolds
  BY DEF NewestHolds, RelayHolds, AgentHolds, Open

(* With no end opened, the relay's half stays ... *)
LEMMA RelaySide ==
  ASSUME RelayHolds, Lower, relay'.known = relay.known, relay'.current = relay.current
  PROVE  RelayHolds'
  BY DEF RelayHolds, Lower, Below, Open

(* No socket of the agent's is dialed or opened. *)
AgentLower == \A s \in Socks : sock'[s].agent \in {"open", "dialing"} =>
  sock'[s].agent = sock[s].agent

LEMMA AgentSide ==
  ASSUME AgentHolds, OneDial, AgentLower,
         agent'.running = agent.running, agent'.conn = agent.conn, agent'.due = agent.due
  PROVE  AgentHolds' /\ OneDial'
  BY DEF AgentHolds, OneDial, AgentLower

LEMMA LowerAgent == ASSUME Lower PROVE AgentLower
  BY DEF Lower, AgentLower, Below

Formed == sock' = [s \in Socks |-> sock'[s]] /\ \A s \in Socks : IsSock(sock'[s])

LEMMA ShapeKept ==
  ASSUME Formed, IsAgent(agent'), IsRelay(relay'), agent'.running \in BOOLEAN,
         agent'.due \in BOOLEAN
  PROVE  Shape'
  BY DEF Formed, Shape

LEMMA LowerFormed == ASSUME Lower PROVE Formed
  BY DEF Lower, Below, Formed

LEMMA Put ==
  ASSUME Shape, NEW s \in Socks, NEW x, IsSock(x), sock' = [sock EXCEPT ![s] = x]
  PROVE  Formed /\ sock'[s] = x /\ \A t \in Socks \ {s} : sock'[t] = sock[t]
  <1>1. sock'[s] = x /\ \A t \in Socks \ {s} : sock'[t] = sock[t]
    BY DEF Shape
  <1>2. sock' = [t \in Socks |-> sock'[t]]
    BY DEF Shape
  <1>3. \A t \in Socks : IsSock(sock'[t])
    BY <1>1 DEF Shape
  <1> QED
    BY <1>1, <1>2, <1>3 DEF Formed

(* Steps that change neither side's variables. *)
LEMMA Aside ==
  ASSUME IInv, Lower, UNCHANGED <<agent, relay>>
  PROVE  IInv'
  <1>1. RelayHolds' /\ AgentHolds' /\ OneDial'
    BY Halves, RelaySide, AgentSide, LowerAgent DEF IInv
  <1>2. Shape'
    BY LowerFormed, ShapeKept DEF IInv, Shape
  <1>3. NewestHolds'
    BY <1>1 DEF NewestHolds, RelayHolds, AgentHolds, Open
  <1> QED
    BY <1>1, <1>2, <1>3 DEF IInv

LEMMA Both ==
  ASSUME Shape', OneDial', RelayHolds', AgentHolds'
  PROVE  IInv'
  BY DEF IInv, NewestHolds, RelayHolds, AgentHolds, Open

-----------------------------------------------------------------------------
(* The agent dials. *)
LEMMA DialsStep == ASSUME IInv, Dials PROVE IInv'
  <1>1. Slot \in Socks /\ sock[Slot] = Free
    BY DEF Dials, NoSlot, Slot
  <1>2. PICK x : /\ sock' = [sock EXCEPT ![Slot] = x] /\ IsSock(x)
                 /\ x.agent = "dialing" /\ ~Open(x)
    <2>1. sock' = [sock EXCEPT ![Slot] = [Free EXCEPT !.agent = "dialing", !.path = Path]]
      BY <1>1 DEF Dials, IInv, Shape
    <2>2. /\ IsSock([Free EXCEPT !.agent = "dialing", !.path = Path])
          /\ [Free EXCEPT !.agent = "dialing", !.path = Path].agent = "dialing"
          /\ ~Open([Free EXCEPT !.agent = "dialing", !.path = Path])
      BY DEF IsSock, Open, Free
    <2> QED
      BY <2>1, <2>2
  <1>3. /\ IsAgent(agent') /\ agent'.due = FALSE
        /\ agent'.running = agent.running /\ agent'.conn = agent.conn
    BY DEF Dials, IInv, Shape, IsAgent, Started
  <1>4. agent.running /\ agent.conn = 0 /\ \A s \in Socks : sock[s].agent # "dialing"
    BY DEF Dials, IInv, OneDial
  <1>5. Formed /\ sock'[Slot] = x /\ \A t \in Socks \ {Slot} : sock'[t] = sock[t]
    BY <1>1, <1>2, Put DEF IInv
  <1>6. relay' = relay
    BY DEF Dials
  <1>7. Shape'
    BY <1>3, <1>5, <1>6, ShapeKept DEF Shape, IInv
  <1>8. OneDial'
    BY <1>1, <1>2, <1>3, <1>4, <1>5 DEF OneDial
  <1>9. RelayHolds' /\ AgentHolds'
    BY <1>1, <1>2, <1>3, <1>5, <1>6, Halves DEF RelayHolds, AgentHolds, IInv, Open
  <1> QED
    BY <1>7, <1>8, <1>9, Both

LEMMA AcceptsStep == ASSUME IInv, NEW s \in Socks, Accepts(s) PROVE IInv'
  <1>1. Below([sock[s] EXCEPT !.relay = "hello"], sock[s])
    BY DEF IInv, Shape, Below, IsSock, Open, Free
  <1>2. sock' = [sock EXCEPT ![s] = [sock[s] EXCEPT !.relay = "hello"]]
    BY DEF Accepts, IInv, Shape
  <1>3. Lower
    BY <1>1, <1>2, OneLower DEF IInv
  <1>4. /\ IsAgent(agent') /\ agent'.due = agent.due
        /\ agent'.running = agent.running /\ agent'.conn = agent.conn
    BY DEF Accepts, IInv, Shape, IsAgent, Started
  <1>5. RelayHolds' /\ AgentHolds' /\ OneDial'
    BY <1>3, <1>4, Halves, RelaySide, AgentSide, LowerAgent DEF IInv, Accepts
  <1>6. Shape'
    BY <1>3, <1>4, LowerFormed, ShapeKept DEF IInv, Shape, Accepts
  <1> QED
    BY <1>5, <1>6, Both

(* A dial that failed was the only one, so one more may be due. *)
LEMMA DialFailsStep == ASSUME IInv, NEW s \in Socks, DialFails(s) PROVE IInv'
  <1>1. sock' = [sock EXCEPT ![s] = AgentGone(sock[s])]
    BY DEF DialFails
  <1>2. IsSock(sock[s])
    BY DEF IInv, Shape
  <1>3. Lower
    BY <1>1, <1>2, AgentGoneBelow, OneLower DEF IInv
  <1>4. RelayHolds'
    BY <1>3, Halves, RelaySide DEF IInv, DialFails
  <1>5. CASE sock[s].agent = "dialing"
    <2>1. agent' = Failed(s)
      BY <1>5 DEF DialFails
    <2>2. /\ IsAgent(agent') /\ agent'.due = TRUE
          /\ agent'.running = agent.running /\ agent'.conn = agent.conn
      BY <2>1 DEF Failed, IInv, Shape, IsAgent, Started
    <2>3. sock'[s].agent # "dialing"
      BY <1>1, <1>2, AgentGoneBelow DEF IInv, Shape
    <2>4. \A t \in Socks : sock'[t].agent # "dialing"
      BY <1>3, <1>5, <2>3 DEF Lower, Below, IInv, OneDial
    <2>5. OneDial'
      BY <1>5, <2>2, <2>4 DEF OneDial, IInv
    <2>6. AgentHolds'
      BY <1>3, <2>2, Halves DEF AgentHolds, Lower, Below, IInv
    <2>7. Shape'
      BY <1>3, <2>2, LowerFormed, ShapeKept DEF IInv, Shape, DialFails
    <2> QED
      BY <1>4, <2>5, <2>6, <2>7, Both
  <1>6. CASE sock[s].agent # "dialing"
    BY <1>3, <1>6, Aside DEF DialFails
  <1> QED
    BY <1>5, <1>6

(* A dial that lands finds no link: the agent has nothing else open. *)
LEMMA LandsStep == ASSUME IInv, NEW s \in Socks, Lands(s) PROVE IInv'
  <1> DEFINE r == [sock[s] EXCEPT !.agent = "open"]
  <1>1. /\ IsSock(sock[s]) /\ IsSock(r) /\ r.agent = "open"
        /\ Open(r) => Open(sock[s])
    BY DEF IInv, Shape, IsSock, Open, Free
  <1>2. relay' = relay
    BY DEF Lands
  <1>3. CASE sock[s].agent = "dialing"
    <2>1. sock' = [sock EXCEPT ![s] = Up(r, <<F("hello", 0, 0)>>)]
      BY <1>3 DEF Lands, IInv, Shape
    <2>2. PICK x : sock' = [sock EXCEPT ![s] = x] /\ Below(x, r)
      BY <1>1, <2>1, UpBelow
    <2>3. IsAgent(agent') /\ agent'.conn = s /\ agent'.running = agent.running
            /\ agent'.due = agent.due
      BY <1>3 DEF Lands, IInv, Shape, IsAgent, Started
    <2>4. agent.running /\ ~agent.due /\ agent.conn = 0
            /\ \A t \in Socks \ {s} : sock[t].agent # "dialing"
      BY <1>3 DEF IInv, OneDial
    <2>5. /\ Formed /\ sock'[s] = x /\ \A t \in Socks \ {s} : sock'[t] = sock[t]
          /\ Open(x) => Open(sock[s])
          /\ x.agent # "dialing"
      BY <1>1, <2>2, Put DEF Below, IInv
    <2>6. Shape'
      BY <1>2, <2>3, <2>5, ShapeKept DEF Shape, IInv
    <2> HIDE DEF r
    <2>7. RelayHolds'
      BY <1>2, <2>5, Halves DEF RelayHolds, IInv, Open
    <2>8. AgentHolds'
      <3> SUFFICES ASSUME NEW t \in Socks, sock'[t].agent = "open" PROVE t = s
        BY <2>3 DEF AgentHolds
      <3>1. t # s => t = 0
        BY <2>4, <2>5, Halves DEF AgentHolds, IInv
      <3> QED
        BY <3>1, RelayAssumption
    <2>9. OneDial'
      BY <2>3, <2>4, <2>5 DEF OneDial
    <2> QED
      BY <2>6, <2>7, <2>8, <2>9, Both
  <1>4. CASE sock[s].agent # "dialing"
    <2>1. sock' = [sock EXCEPT ![s] = AgentCloses(r)] /\ agent' = agent
      BY <1>4 DEF Lands, IInv, Shape
    <2>2. Below(AgentCloses(r), r) /\ AgentCloses(r).agent # "open"
      BY <1>1, AgentClosesBelow
    <2>3. Below(AgentCloses(r), sock[s])
      BY <1>1, <2>2 DEF Below
    <2>4. Lower
      BY <2>1, <2>3, OneLower DEF IInv
    <2> QED
      BY <2>1, <2>4, Aside DEF Lands
  <1> QED
    BY <1>3, <1>4

LEMMA TenMinutesStep == ASSUME IInv, TenMinutes PROVE IInv'
  <1>1. Lower
    BY SameLower DEF IInv, TenMinutes
  <1>2. /\ IsAgent(agent') /\ agent'.due = agent.due
        /\ agent'.running = agent.running /\ agent'.conn = agent.conn
    BY DEF TenMinutes, IInv, Shape, IsAgent, Started
  <1>3. RelayHolds' /\ AgentHolds' /\ OneDial'
    BY <1>1, <1>2, Halves, RelaySide, AgentSide, LowerAgent DEF IInv, TenMinutes
  <1>4. Shape'
    BY <1>1, <1>2, LowerFormed, ShapeKept DEF IInv, Shape, TenMinutes
  <1> QED
    BY <1>3, <1>4, Both

-----------------------------------------------------------------------------
(* A link ends at the agent. *)
LEMMA AgentFinishesStep == ASSUME IInv, NEW s \in Socks, AgentFinishes(s) PROVE IInv'
  <1>1. /\ sock' = [sock EXCEPT ![s] = AgentGone(sock[s])] /\ relay' = relay
        /\ agent' = IF agent.conn = s THEN Ended(agent) ELSE agent
    BY DEF AgentFinishes
  <1>2. Below(AgentGone(sock[s]), sock[s]) /\ AgentGone(sock[s]).agent # "open"
    BY AgentGoneBelow DEF IInv, Shape
  <1>3. Lower /\ sock'[s].agent # "open"
    BY <1>1, <1>2, OneLower DEF IInv, Shape
  <1>4. CASE agent.conn = s
    <2>1. agent.conn # 0
      BY <1>4, RelayAssumption
    <2>2. /\ IsAgent(agent') /\ agent'.due = agent.running
          /\ agent'.running = agent.running /\ agent'.conn = 0
      BY <1>1, <1>4 DEF Ended, IInv, Shape, IsAgent, Started
    <2>3. \A t \in Socks : sock'[t].agent \notin {"dialing", "open"}
      BY <1>3, <1>4, <2>1, Halves DEF IInv, OneDial, AgentHolds, Lower, Below
    <2>4. OneDial' /\ AgentHolds'
      BY <2>2, <2>3 DEF OneDial, AgentHolds
    <2>5. RelayHolds'
      BY <1>1, <1>3, Halves, RelaySide DEF IInv
    <2>6. Shape'
      BY <1>1, <1>3, <2>2, LowerFormed, ShapeKept DEF IInv, Shape
    <2> QED
      BY <2>4, <2>5, <2>6, Both
  <1>5. CASE agent.conn # s
    BY <1>1, <1>3, <1>5, Aside
  <1> QED
    BY <1>4, <1>5

LEMMA AgentSilentStep == ASSUME IInv, NEW s \in Socks, AgentSilent(s) PROVE IInv'
  <1>1. Lower
    BY AgentClosesBelow, OneLower DEF AgentSilent, IInv, Shape
  <1> QED
    BY <1>1, Aside DEF AgentSilent

(* A stop leaves no dial and nothing open, so a start may dial at once. *)
LEMMA StoppedStep == ASSUME IInv, NEW run \in BOOLEAN, Stopped(run) PROVE IInv'
  <1>1. sock' = [s \in Socks |-> Left(s)] /\ relay' = relay
    BY DEF Stopped
  <1>2. /\ IsAgent(agent') /\ agent'.due = run
        /\ agent'.running = run /\ agent'.conn = 0
    BY DEF Stopped, IInv, Shape, IsAgent, Started
  <1>3. ASSUME NEW s \in Socks PROVE Below(Left(s), sock[s])
                 /\ Left(s).agent \notin {"dialing", "open"}
    <2>1. IsSock(sock[s])
      BY DEF IInv, Shape
    <2>2. CASE sock[s].agent = "dialing"
      <3>1. Left(s) = [sock[s] EXCEPT !.agent = "stale"]
        BY <2>2 DEF Left
      <3> QED
        BY <2>1, <3>1 DEF Below, IsSock, Open, Free
    <2>3. CASE sock[s].agent # "dialing" /\ agent.conn = s
      <3>1. Left(s) = AgentCloses(sock[s])
        BY <2>3 DEF Left
      <3> QED
        BY <2>1, <2>3, <3>1, AgentClosesBelow DEF Below
    <2>4. CASE sock[s].agent # "dialing" /\ agent.conn # s
      <3>1. Left(s) = sock[s]
        BY <2>4 DEF Left
      <3> QED
        BY <2>1, <2>4, <3>1, Same, Halves DEF IInv, AgentHolds
    <2> QED
      BY <2>2, <2>3, <2>4
  <1>4. Lower /\ \A s \in Socks : sock'[s].agent \notin {"dialing", "open"}
    BY <1>1, <1>3 DEF Lower
  <1>5. OneDial' /\ AgentHolds'
    BY <1>2, <1>4 DEF OneDial, AgentHolds
  <1>6. RelayHolds'
    BY <1>1, <1>4, Halves, RelaySide DEF IInv
  <1>7. Shape'
    BY <1>1, <1>2, <1>4, LowerFormed, ShapeKept DEF IInv, Shape
  <1> QED
    BY <1>5, <1>6, <1>7, Both

LEMMA StartsStep == ASSUME IInv, Starts PROVE IInv'
  <1>1. Lower /\ relay' = relay
    BY SameLower DEF IInv, Starts
  <1>2. /\ IsAgent(agent') /\ agent'.due = TRUE
        /\ agent'.running = TRUE /\ agent'.conn = agent.conn
    BY DEF Starts, IInv, Shape, IsAgent, Started
  <1>3. agent.conn = 0 /\ \A s \in Socks : sock'[s].agent # "dialing"
    BY DEF Starts, IInv, OneDial
  <1>4. OneDial'
    BY <1>2, <1>3 DEF OneDial
  <1>5. AgentHolds' /\ RelayHolds'
    BY <1>1, <1>2, Halves, RelaySide DEF IInv, AgentHolds, Lower, Below
  <1>6. Shape'
    BY <1>1, <1>2, LowerFormed, ShapeKept DEF IInv, Shape
  <1> QED
    BY <1>4, <1>5, <1>6, Both

LEMMA RestartsStep == ASSUME IInv, Restarts PROVE IInv'
  <1> DEFINE Lost(s, power) == IF power THEN [sock[s] EXCEPT !.cut = TRUE, !.up = <<>>] ELSE sock[s]
  <1>1. PICK v \in {1, 2}, power \in BOOLEAN :
          /\ agent' = Started(v)
          /\ sock' = [s \in Socks |-> IF sock[s].agent = "none" THEN sock[s] ELSE AgentGone(Lost(s, power))]
    BY DEF Restarts
  <1>2. ASSUME NEW s \in Socks
        PROVE  /\ Below(AgentGone(Lost(s, power)), sock[s])
               /\ AgentGone(Lost(s, power)).agent \in {"none", "gone"}
    <2>1. Below(Lost(s, power), sock[s]) /\ IsSock(Lost(s, power))
      BY DEF IInv, Shape, Below, IsSock, Open, Free
    <2> QED
      BY <2>1, AgentGoneBelow, BelowBelow
  <1>3. Lower /\ \A s \in Socks : sock'[s].agent \in {"none", "gone"}
    BY <1>1, <1>2, Same DEF Lower, IInv, Shape
  <1>4. /\ IsAgent(agent') /\ agent'.due = TRUE
        /\ agent'.running = TRUE /\ agent'.conn = 0
    BY <1>1 DEF IsAgent, Started
  <1>5. relay' = relay
    BY DEF Restarts
  <1>6. OneDial' /\ AgentHolds'
    BY <1>3, <1>4 DEF OneDial, AgentHolds
  <1>7. RelayHolds'
    BY <1>3, <1>5, Halves, RelaySide DEF IInv
  <1>8. Shape'
    BY <1>3, <1>4, <1>5, LowerFormed, ShapeKept DEF IInv, Shape
  <1> QED
    BY <1>6, <1>7, <1>8, Both

-----------------------------------------------------------------------------
(* The agent's streams. *)
LEMMA AgentHearsStep == ASSUME IInv, NEW s \in Socks, AgentHears(s) PROVE IInv'
  <1> DEFINE r == [sock[s] EXCEPT !.down = Tail(@)]
  <1>1. Below(r, sock[s]) /\ IsSock(r)
    BY DEF IInv, Shape, Below, IsSock, Open, Free
  <1>2. /\ UNCHANGED <<agent, relay>>
        /\ \/ sock' = [sock EXCEPT ![s] = r]
           \/ \E fs : sock' = [sock EXCEPT ![s] = Up(r, fs)]
           \/ sock' = [sock EXCEPT ![s] = AgentCloses(r)]
    BY DEF AgentHears
  <1>3. PICK x : sock' = [sock EXCEPT ![s] = x] /\ Below(x, r)
    BY <1>1, <1>2, UpBelow, AgentClosesBelow, Same
  <1>4. Below(x, sock[s])
    BY <1>1, <1>3, BelowBelow
  <1>5. Lower
    BY <1>3, <1>4, OneLower DEF IInv
  <1> QED
    BY <1>2, <1>5, Aside

LEMMA WebUiStep == ASSUME IInv, NEW i \in Ids, WebUi(i) PROVE IInv'
  <1>1. UNCHANGED <<agent, relay>> /\ \E fs : sock' = Answered(i, fs)
    BY DEF WebUi, Begins, Unanswered, Gives, Ends
  <1> QED
    BY <1>1, AnsweredLower, Aside DEF IInv

LEMMA DrainsStep == ASSUME IInv, NEW s \in Socks, Drains(s) PROVE IInv'
  BY SameLower, Aside DEF Drains, IInv

-----------------------------------------------------------------------------
(* The browsers' requests. *)
LEMMA BrowserStep == ASSUME IInv, NEW q \in Requests, Browser(q) PROVE IInv'
  <1>1. CASE Asks(q)
    <2> DEFINE s == relay.current
               r == [sock[s] EXCEPT !.next = sock[s].next + 1]
    <2>1. /\ UNCHANGED <<agent, relay>>
          /\ sock' = sock \/ \E fs : sock' = [sock EXCEPT ![s] = Down(r, fs)]
      BY <1>1 DEF Asks, ends
    <2>2. CASE s \in Socks
      <3>1. Below(r, sock[s]) /\ IsSock(r)
        BY <2>2 DEF IInv, Shape, Below, IsSock, Open, Free
      <3>2. Lower
        BY <2>1, <2>2, <3>1, DownBelow, BelowBelow, OneLower, SameLower DEF IInv
      <3> QED
        BY <2>1, <3>2, Aside
    <2>3. CASE s \notin Socks
      <3>1. sock' = sock
        BY <2>1, <2>3 DEF IInv, Shape
      <3> QED
        BY <2>1, <3>1, SameLower, Aside DEF IInv
    <2> QED
      BY <2>2, <2>3
  <1>2. CASE Uploads(q) \/ Leaves(q) \/ TakesTooLong(q)
    <2>1. /\ UNCHANGED <<agent, relay>>
          /\ \E s, fs : sock' = [sock EXCEPT ![s] = Down(sock[s], fs)]
      BY <1>2 DEF Uploads, Leaves, TakesTooLong, Cancelled, ends
    <2> QED
      BY <2>1, SentDown, Aside DEF IInv
  <1> QED
    BY <1>1, <1>2 DEF Browser

-----------------------------------------------------------------------------
(* The relay hears a frame, and a link ends there. *)
LEMMA AttachStep ==
  ASSUME IInv, NEW s \in Socks, NEW v, Attach(s, v), relay.known, agent' = agent
  PROVE  IInv'
  <1>1. sock' = [t \in Socks |-> Attached(s, v)[t]]
    BY DEF Attach, Attached
  <1>2. ASSUME NEW t \in Socks
        PROVE  /\ IsSock(Attached(s, v)[t])
               /\ Attached(s, v)[t].agent \in {"open", "dialing"} =>
                  Attached(s, v)[t].agent = sock[t].agent
               /\ t # s => ~Open(Attached(s, v)[t])
    <2>1. IsSock(sock[t])
      BY DEF IInv, Shape
    <2>2. CASE t = s
      <3>1. Attached(s, v)[t] = [sock[s] EXCEPT !.link = TRUE, !.version = v, !.up = Tail(@),
                                   !.relay = IF @ = "hello" THEN "open" ELSE @]
        BY <2>2 DEF Attached
      <3> QED
        BY <2>1, <2>2, <3>1 DEF IsSock, Free
    <2>3. CASE t # s /\ t = relay.current
      <3>1. Attached(s, v)[t] = RelayCloses(sock[t])
        BY <2>3 DEF Attached
      <3> QED
        BY <2>1, <3>1, RelayClosesBelow DEF Below
    <2>4. CASE t # s /\ t # relay.current
      <3>1. Attached(s, v)[t] = sock[t]
        BY <2>4 DEF Attached
      <3> QED
        BY <2>1, <2>4, <3>1, Halves DEF IInv, RelayHolds
    <2> QED
      BY <2>2, <2>3, <2>4
  <1>3. Formed /\ AgentLower /\ \A t \in Socks : Open(sock'[t]) => t = s
    BY <1>1, <1>2 DEF Formed, AgentLower
  <1>4. IsRelay(relay') /\ relay'.current = s /\ relay'.known
    BY DEF Attach, IInv, Shape, IsRelay
  <1>5. AgentHolds' /\ OneDial'
    BY <1>3, Halves, AgentSide DEF IInv
  <1>6. RelayHolds'
    BY <1>3, <1>4 DEF RelayHolds, Open
  <1>7. Shape'
    BY <1>3, <1>4, ShapeKept DEF IInv, Shape
  <1> QED
    BY <1>5, <1>6, <1>7, Both

(* Such steps at the relay leave the agent and the router's record alone. *)
LEMMA RelayAside ==
  ASSUME IInv, Lower, agent' = agent, IsRelay(relay'),
         relay'.known = relay.known, relay'.current = relay.current
  PROVE  IInv'
  <1>1. RelayHolds' /\ AgentHolds' /\ OneDial'
    BY Halves, RelaySide, AgentSide, LowerAgent DEF IInv
  <1>2. Shape'
    BY LowerFormed, ShapeKept DEF IInv, Shape
  <1> QED
    BY <1>1, <1>2, Both

LEMMA RelayHearsStep == ASSUME IInv, NEW s \in Socks, RelayHears(s) PROVE IInv'
  <1> DEFINE r == [sock[s] EXCEPT !.up = Tail(@)]
  <1>1. agent' = agent
    BY DEF RelayHears, ends
  <1>2. Below(r, sock[s]) /\ IsSock(r)
    BY DEF IInv, Shape, Below, IsSock, Open, Free
  <1>3. IsRelay(relay) /\ Shape
    BY DEF IInv, Shape
  <1>4. \/ relay.known /\ \E v : Attach(s, v)
        \/ relay' = relay /\ sock' = [sock EXCEPT ![s] = RelayCloses(r)]
        \/ relay' = relay /\ sock' = [sock EXCEPT ![s] = r]
        \/ (\E x : relay' = Keeps(s, x)) /\ sock' = [sock EXCEPT ![s] = r]
    BY DEF RelayHears
  <1>5. \A x : IsRelay(Keeps(s, x)) /\ Keeps(s, x).known = relay.known
          /\ Keeps(s, x).current = relay.current
    BY <1>3 DEF Keeps, IsRelay
  <1>6. Below(RelayCloses(r), sock[s])
    BY <1>2, RelayClosesBelow, BelowBelow
  <1>7. CASE \E v : relay.known /\ Attach(s, v)
    BY <1>1, <1>7, AttachStep
  <1>8. CASE relay' = relay /\ sock' = [sock EXCEPT ![s] = RelayCloses(r)]
    <2>1. Lower
      BY <1>3, <1>6, <1>8, OneLower
    <2> QED
      BY <1>1, <1>3, <1>8, <2>1, RelayAside
  <1>9. CASE (relay' = relay \/ \E x : relay' = Keeps(s, x)) /\ sock' = [sock EXCEPT ![s] = r]
    <2>1. Lower
      BY <1>2, <1>3, <1>9, OneLower
    <2>2. IsRelay(relay') /\ relay'.known = relay.known /\ relay'.current = relay.current
      BY <1>3, <1>5, <1>9
    <2> QED
      BY <1>1, <2>1, <2>2, RelayAside
  <1> QED
    BY <1>4, <1>7, <1>8, <1>9

(* Only the current link can have been open. *)
LEMMA RelayFinishesStep == ASSUME IInv, NEW s \in Socks, RelayFinishes(s) PROVE IInv'
  <1>1. /\ sock' = [sock EXCEPT ![s] = RelayGone(sock[s])] /\ agent' = agent
        /\ relay' = IF relay.current = s THEN [relay EXCEPT !.current = 0] ELSE relay
    BY DEF RelayFinishes, ends
  <1>2. Below(RelayGone(sock[s]), sock[s]) /\ ~Open(RelayGone(sock[s]))
    BY RelayGoneBelow DEF IInv, Shape
  <1>3. Lower /\ ~Open(sock'[s])
    BY <1>1, <1>2, OneLower DEF IInv, Shape
  <1>4. CASE relay.current = s
    <2>1. \A t \in Socks : ~Open(sock'[t])
      BY <1>3, <1>4, Halves DEF IInv, RelayHolds, Lower, Below
    <2>2. RelayHolds'
      BY <2>1 DEF RelayHolds, Open
    <2>3. AgentHolds' /\ OneDial'
      BY <1>1, <1>3, Halves, AgentSide, LowerAgent DEF IInv
    <2>4. IsRelay(relay')
      BY <1>1, <1>4 DEF IInv, Shape, IsRelay
    <2>5. Shape'
      BY <1>1, <1>3, <2>4, LowerFormed, ShapeKept DEF IInv, Shape
    <2> QED
      BY <2>2, <2>3, <2>5, Both
  <1>5. CASE relay.current # s
    BY <1>1, <1>3, <1>5, Aside
  <1> QED
    BY <1>4, <1>5

LEMMA RelayClosesStep ==
  ASSUME IInv, NEW s \in Socks, HelloMissing(s) \/ RelaySilent(s)
  PROVE  IInv'
  <1>1. Lower
    BY RelayClosesBelow, OneLower DEF HelloMissing, RelaySilent, IInv, Shape
  <1> QED
    BY <1>1, Aside DEF HelloMissing, RelaySilent, ends

LEMMA RevokesStep == ASSUME IInv, Revokes PROVE IInv'
  <1>1. /\ sock' = [s \in Socks |-> IF s = relay.current THEN RelayCloses(sock[s]) ELSE sock[s]]
        /\ agent' = agent /\ IsRelay(relay')
    BY DEF Revokes, ends, IsRelay
  <1>2. Lower
    BY <1>1, Same, RelayClosesBelow DEF Lower, IInv, Shape
  <1>3. \A s \in Socks : ~Open(sock'[s])
    BY <1>1, RelayClosesBelow, Halves DEF IInv, Shape, RelayHolds
  <1>4. RelayHolds'
    BY <1>3 DEF RelayHolds, Open
  <1>5. AgentHolds' /\ OneDial'
    BY <1>1, <1>2, Halves, AgentSide, LowerAgent DEF IInv
  <1>6. Shape'
    BY <1>1, <1>2, LowerFormed, ShapeKept DEF IInv, Shape
  <1> QED
    BY <1>4, <1>5, <1>6, Both

LEMMA RelayRestartsStep == ASSUME IInv, RelayRestarts PROVE IInv'
  <1>1. /\ sock' = [s \in Socks |-> IF sock[s].relay = "none" THEN sock[s] ELSE RelayGone(sock[s])]
        /\ agent' = agent /\ IsRelay(relay')
    BY DEF RelayRestarts, ends, IsRelay, IInv, Shape
  <1>2. Lower
    BY <1>1, Same, RelayGoneBelow DEF Lower, IInv, Shape
  <1>3. \A s \in Socks : sock[s].relay = "none" => ~Open(sock[s])
    BY DEF Open
  <1>4. \A s \in Socks : ~Open(sock'[s])
    BY <1>1, <1>3, RelayGoneBelow DEF IInv, Shape
  <1>5. RelayHolds'
    BY <1>4 DEF RelayHolds, Open
  <1>6. AgentHolds' /\ OneDial'
    BY <1>1, <1>2, Halves, AgentSide, LowerAgent DEF IInv
  <1>7. Shape'
    BY <1>1, <1>2, LowerFormed, ShapeKept DEF IInv, Shape
  <1> QED
    BY <1>5, <1>6, <1>7, Both

-----------------------------------------------------------------------------
(* The network. *)
LEMMA NetworkStep == ASSUME IInv, Shifts \/ \E s \in Socks : Cut(s) PROVE IInv'
  <1> DEFINE Lost(s) == [sock[s] EXCEPT !.cut = TRUE, !.up = <<>>, !.down = <<>>]
  <1>1. \A s \in Socks : Below(Lost(s), sock[s])
    BY DEF IInv, Shape, Below, IsSock, Open, Free
  <1>2. CASE Shifts
    <2>1. sock' = [s \in Socks |-> IF sock[s].agent = "none" THEN sock[s] ELSE Lost(s)]
      BY <1>2 DEF Shifts
    <2>2. Lower
      BY <1>1, <2>1, Same DEF Lower, IInv, Shape
    <2> QED
      BY <1>2, <2>2, Aside DEF Shifts
  <1>3. ASSUME NEW s \in Socks, Cut(s) PROVE IInv'
    <2>1. sock' = [sock EXCEPT ![s] = Lost(s)]
      BY <1>3 DEF Cut, IInv, Shape
    <2>2. Lower
      BY <1>1, <2>1, OneLower DEF IInv
    <2> QED
      BY <1>3, <2>2, Aside DEF Cut
  <1> QED
    BY <1>2, <1>3

-----------------------------------------------------------------------------
(* The invariant holds at first, and every step keeps it. *)
LEMMA Start == Init => IInv
  <1> SUFFICES ASSUME Init PROVE IInv
    OBVIOUS
  <1>1. Shape
    BY DEF Init, Shape, IsSock, IsAgent, IsRelay, Free, Started
  <1>2. OneDial
    BY DEF Init, OneDial, Free, Started
  <1>3. NewestHolds
    BY DEF Init, NewestHolds, Free
  <1> QED
    BY <1>1, <1>2, <1>3 DEF IInv

LEMMA Step == IInv /\ [Next]_vars => IInv'
  <1> SUFFICES ASSUME IInv, [Next]_vars PROVE IInv'
    OBVIOUS
  <1>1. CASE Dials
    BY <1>1, DialsStep
  <1>2. ASSUME NEW s \in Socks, Link(s) PROVE IInv'
    <2>1. CASE Accepts(s) \/ Lands(s) \/ DialFails(s) \/ AgentFinishes(s) \/ AgentSilent(s)
      BY <2>1, AcceptsStep, LandsStep, DialFailsStep, AgentFinishesStep, AgentSilentStep
    <2>2. CASE AgentHears(s) \/ RelayHears(s) \/ Drains(s) \/ Cut(s)
      BY <2>2, AgentHearsStep, RelayHearsStep, DrainsStep, NetworkStep
    <2>3. CASE RelayFinishes(s) \/ RelaySilent(s) \/ HelloMissing(s)
      BY <2>3, RelayFinishesStep, RelayClosesStep
    <2> QED
      BY <1>2, <2>1, <2>2, <2>3 DEF Link
  <1>3. ASSUME NEW i \in Ids, WebUi(i) PROVE IInv'
    BY <1>3, WebUiStep
  <1>4. ASSUME NEW q \in Requests, Browser(q) PROVE IInv'
    BY <1>4, BrowserStep
  <1>5. CASE Stops \/ Reconfigures
    <2>1. \E run \in BOOLEAN : Stopped(run)
      BY <1>5 DEF Stops, Reconfigures
    <2> QED
      BY <2>1, StoppedStep
  <1>6. CASE TenMinutes \/ Starts \/ Restarts \/ Revokes \/ RelayRestarts \/ Shifts
    BY <1>6, TenMinutesStep, StartsStep, RestartsStep, RevokesStep, RelayRestartsStep, NetworkStep
  <1>7. CASE UNCHANGED vars
    <2>1. UNCHANGED <<sock, agent, relay>>
      BY <1>7 DEF vars
    <2> QED
      BY <2>1, SameLower, Aside DEF IInv
  <1> QED
    BY <1>1, <1>2, <1>3, <1>4, <1>5, <1>6, <1>7 DEF Next, Others

(* One router has one link and its agent one socket: a link that is open   *)
(* at the relay is the router's newest, of a router still registered, and  *)
(* an open socket of the agent's is the one it answers for - however       *)
(* attach, revoke, close and the agent's stop overtake each other.         *)
THEOREM OneLink == Spec => []NewestHolds
  <1>1. IInv => NewestHolds
    BY DEF IInv
  <1> QED
    BY <1>1, Start, Step, PTL DEF Spec

-----------------------------------------------------------------------------
(* The frames of a queue. *)
Among(u) == {u[k] : k \in DOMAIN u}

(* A head for stream i is among them, or was had before; the same of its   *)
(* first bytes.                                                            *)
HeadIn(u, i, h) == h \/ \E f \in Among(u) : f.t \in {"resHead", "badHead"} /\ f.id = i
BodyIn(u, i, b) == b \/ \E f \in Among(u) : f.t = "resBody" /\ f.id = i

(* Of a stream, no bytes come before a head and no end before bytes. *)
Ordered(u, i, h, b) ==
  \A k \in DOMAIN u : u[k].id = i =>
    /\ u[k].t = "resBody" => h \/ \E j \in DOMAIN u : j < k
       /\ u[j].t \in {"resHead", "badHead"} /\ u[j].id = i
    /\ u[k].t = "resEnd" => b \/ \E j \in DOMAIN u : j < k /\ u[j].t = "resBody" /\ u[j].id = i

LEMMA NothingAmong == Among(<<>>) = {} /\ \A i, h, b : Ordered(<<>>, i, h, b)
  BY DEF Among, Ordered

LEMMA AmongSent ==
  ASSUME NEW u \in Seq(Frames), NEW f \in Frames
  PROVE  u \o <<f>> \in Seq(Frames) /\ Among(u \o <<f>>) = Among(u) \cup {f}
  <1> DEFINE n == Len(u)
             w == u \o <<f>>
  <1>1. w \in Seq(Frames) /\ Len(w) = n + 1 /\ DOMAIN w = 1..(n + 1) /\ DOMAIN u = 1..n
          /\ n \in Nat
    OBVIOUS
  <1>2. w[n + 1] = f /\ \A k \in 1..n : w[k] = u[k]
    OBVIOUS
  <1> HIDE DEF w, n
  <1>3. Among(w) = Among(u) \cup {f}
    BY <1>1, <1>2 DEF Among
  <1> QED
    BY <1>1, <1>3 DEF w

LEMMA AmongRest ==
  ASSUME NEW u \in Seq(Frames), u # <<>>
  PROVE  /\ Head(u) \in Frames /\ Tail(u) \in Seq(Frames)
         /\ Among(u) = Among(Tail(u)) \cup {Head(u)} /\ Head(u) \in Among(u)
  <1> DEFINE n == Len(u)
             w == Tail(u)
  <1>1. w \in Seq(Frames) /\ n \in Nat \ {0} /\ DOMAIN w = 1..(n - 1) /\ DOMAIN u = 1..n
    OBVIOUS
  <1>2. Head(u) = u[1] /\ Head(u) \in Frames /\ \A k \in 1..(n - 1) : w[k] = u[k + 1]
    OBVIOUS
  <1> HIDE DEF w, n
  <1>3. ASSUME NEW f \in Among(u) PROVE f \in Among(w) \cup {Head(u)}
    <2>1. PICK k \in 1..n : f = u[k]
      BY <1>1 DEF Among
    <2>2. CASE k = 1
      BY <1>2, <2>1, <2>2
    <2>3. CASE k # 1
      <3>1. k - 1 \in 1..(n - 1) /\ w[k - 1] = f
        BY <1>1, <1>2, <2>1, <2>3
      <3> QED
        BY <1>1, <3>1 DEF Among
    <2> QED
      BY <2>2, <2>3
  <1>4. ASSUME NEW f \in Among(w) PROVE f \in Among(u)
    BY <1>1, <1>2 DEF Among
  <1>5. Head(u) \in Among(u)
    BY <1>1, <1>2 DEF Among
  <1> QED
    BY <1>1, <1>2, <1>3, <1>4, <1>5 DEF w

(* One frame more keeps the order, if it comes in its turn. *)
LEMMA OrderedSent ==
  ASSUME NEW u \in Seq(Frames), NEW f \in Frames, NEW i, NEW h, NEW b, Ordered(u, i, h, b),
         f.id = i => /\ f.t = "resBody" => HeadIn(u, i, h)
                     /\ f.t = "resEnd" => BodyIn(u, i, b)
  PROVE  Ordered(u \o <<f>>, i, h, b)
  <1> DEFINE n == Len(u)
             w == u \o <<f>>
  <1>1. n \in Nat /\ DOMAIN w = 1..(n + 1) /\ DOMAIN u = 1..n
    OBVIOUS
  <1>2. w[n + 1] = f /\ \A k \in 1..n : w[k] = u[k]
    OBVIOUS
  <1> HIDE DEF w, n
  <1>3. ASSUME NEW k \in 1..n, w[k].id = i
        PROVE  /\ w[k].t = "resBody" => h \/ \E j \in DOMAIN w : j < k
                  /\ w[j].t \in {"resHead", "badHead"} /\ w[j].id = i
               /\ w[k].t = "resEnd" => b \/ \E j \in DOMAIN w : j < k /\ w[j].t = "resBody"
                  /\ w[j].id = i
    BY <1>1, <1>2, <1>3 DEF Ordered
  <1>4. ASSUME w[n + 1].id = i
        PROVE  /\ w[n + 1].t = "resBody" => h \/ \E j \in DOMAIN w : j < n + 1
                  /\ w[j].t \in {"resHead", "badHead"} /\ w[j].id = i
               /\ w[n + 1].t = "resEnd" => b \/ \E j \in DOMAIN w : j < n + 1
                  /\ w[j].t = "resBody" /\ w[j].id = i
    BY <1>1, <1>2, <1>4 DEF HeadIn, BodyIn, Among
  <1>5. \A k \in DOMAIN w : k \in 1..n \/ k = n + 1
    BY <1>1
  <1>6. Ordered(w, i, h, b)
    BY <1>3, <1>4, <1>5 DEF Ordered
  <1> QED
    BY <1>6 DEF w

(* A frame that is taken leaves the others in order: a head taken was had. *)
LEMMA OrderedRest ==
  ASSUME NEW u \in Seq(Frames), u # <<>>, NEW i, NEW h, NEW b, Ordered(u, i, h, b),
         NEW h2, NEW b2,
         h2 \/ ~(h \/ (Head(u).id = i /\ Head(u).t \in {"resHead", "badHead"})),
         b2 \/ ~(b \/ (Head(u).id = i /\ Head(u).t = "resBody"))
  PROVE  Ordered(Tail(u), i, h2, b2)
  <1> DEFINE n == Len(u)
             w == Tail(u)
  <1>1. n \in Nat \ {0} /\ DOMAIN w = 1..(n - 1) /\ DOMAIN u = 1..n
    OBVIOUS
  <1>2. Head(u) = u[1] /\ \A k \in 1..(n - 1) : w[k] = u[k + 1]
    OBVIOUS
  <1> HIDE DEF w, n
  <1>3. ASSUME NEW k \in 1..(n - 1), w[k].id = i, w[k].t = "resBody", ~h2
        PROVE  \E j \in DOMAIN w : j < k /\ w[j].t \in {"resHead", "badHead"} /\ w[j].id = i
    <2>1. k + 1 \in DOMAIN u /\ u[k + 1].id = i /\ u[k + 1].t = "resBody" /\ ~h
      BY <1>1, <1>2, <1>3
    <2>2. PICK j \in DOMAIN u : j < k + 1 /\ u[j].t \in {"resHead", "badHead"} /\ u[j].id = i
      BY <2>1 DEF Ordered
    <2>3. j # 1
      BY <1>2, <1>3, <2>2
    <2>4. j - 1 \in 1..(n - 1) /\ j - 1 < k /\ w[j - 1] = u[j]
      BY <1>1, <1>2, <2>2, <2>3
    <2> QED
      BY <1>1, <2>2, <2>4
  <1>4. ASSUME NEW k \in 1..(n - 1), w[k].id = i, w[k].t = "resEnd", ~b2
        PROVE  \E j \in DOMAIN w : j < k /\ w[j].t = "resBody" /\ w[j].id = i
    <2>1. k + 1 \in DOMAIN u /\ u[k + 1].id = i /\ u[k + 1].t = "resEnd" /\ ~b
      BY <1>1, <1>2, <1>4
    <2>2. PICK j \in DOMAIN u : j < k + 1 /\ u[j].t = "resBody" /\ u[j].id = i
      BY <2>1 DEF Ordered
    <2>3. j # 1
      BY <1>2, <1>4, <2>2
    <2>4. j - 1 \in 1..(n - 1) /\ j - 1 < k /\ w[j - 1] = u[j]
      BY <1>1, <1>2, <2>2, <2>3
    <2> QED
      BY <1>1, <2>2, <2>4
  <1>5. Ordered(w, i, h2, b2)
    BY <1>1, <1>3, <1>4 DEF Ordered
  <1> QED
    BY <1>5 DEF w

LEMMA OrderedFirst ==
  ASSUME NEW u \in Seq(Frames), u # <<>>, NEW i, NEW h, NEW b, Ordered(u, i, h, b), Head(u).id = i
  PROVE  (Head(u).t = "resBody" => h) /\ (Head(u).t = "resEnd" => b)
  <1>1. 1 \in DOMAIN u /\ Head(u) = u[1] /\ ~\E j \in DOMAIN u : j < 1
    OBVIOUS
  <1> QED
    BY <1>1 DEF Ordered

-----------------------------------------------------------------------------
Before == {"none", "dialing", "stale"}

(* x is r after a step that sends no answer: closes and cuts may lose what  *)
(* is in flight, and G is what is sent to the agent.                       *)
Fades(x, r, G) ==
  /\ x \in WsConns
  /\ \/ x = Free
     \/ /\ x.next = r.next /\ x.link = r.link /\ x.version = r.version
        /\ x.agent = "open" => r.agent = "open"
        /\ x.agent \in Before => r.agent \in Before /\ x.up \in {<<>>, r.up}
        /\ x.relay = "open" => r.relay = "open"
        /\ x.agent = "open" /\ ~x.cut /\ x.relay # "gone" => ~r.cut /\ x.up = r.up
        /\ x.up \in {<<>>, r.up, r.up \o <<CloseFrame>>}
        /\ Among(x.down) \subseteq Among(r.down) \cup G

LEMMA FreeTyped == Free \in WsConns /\ CloseFrame \in Frames
  <1>1. <<>> \in Seq(Frames)
    OBVIOUS
  <1> QED
    BY <1>1 DEF Free, WsConns, CloseFrame, D, Frames

LEMMA Unfaded == ASSUME NEW r \in WsConns PROVE Fades(r, r, {})
  <1>1. r.up \in Seq(Frames)
    BY DEF WsConns
  <1> QED
    BY <1>1 DEF Fades, Before

LEMMA Wider == ASSUME NEW x, NEW r, NEW G, NEW H, Fades(x, r, G), G \subseteq H PROVE Fades(x, r, H)
  BY DEF Fades

LEMMA DownFades ==
  ASSUME NEW r \in WsConns, NEW f \in Frames
  PROVE  Fades(Down(r, <<f>>), r, {f}) /\ Down(r, <<f>>).relay = r.relay
           /\ Down(r, <<f>>).agent = r.agent
  <1>1. r.down \in Seq(Frames) /\ r.up \in Seq(Frames)
    BY DEF WsConns
  <1>2. r.down \o <<f>> \in Seq(Frames) /\ Among(r.down \o <<f>>) = Among(r.down) \cup {f}
    BY <1>1, AmongSent
  <1>3. CASE r.relay \in {"hello", "open"} /\ ~r.cut /\ r.agent # "gone"
    <2>1. Down(r, <<f>>) = [r EXCEPT !.down = r.down \o <<f>>]
      BY <1>3 DEF Down
    <2> QED
      BY <1>1, <1>2, <2>1 DEF Fades, WsConns, Before
  <1>4. CASE ~(r.relay \in {"hello", "open"} /\ ~r.cut /\ r.agent # "gone")
    <2>1. Down(r, <<f>>) = r
      BY <1>4 DEF Down
    <2> QED
      BY <2>1, Unfaded, Wider
  <1> QED
    BY <1>3, <1>4

LEMMA RelayClosesFades ==
  ASSUME NEW r \in WsConns
  PROVE  /\ Fades(RelayCloses(r), r, {CloseFrame}) /\ RelayCloses(r).agent = r.agent
         /\ r.relay \in {"open", "closing"} => RelayCloses(r).relay \in {"open", "closing"}
  <1> DEFINE y == Down(r, <<CloseFrame>>)
  <1>1. CASE r.relay \in {"hello", "open"}
    <2>1. Fades(y, r, {CloseFrame}) /\ y.relay = r.relay /\ y.agent = r.agent
      BY DownFades, FreeTyped
    <2>2. RelayCloses(r) = [y EXCEPT !.relay = "closing"]
      BY <1>1 DEF RelayCloses
    <2>3. y # Free
      BY <1>1, <2>1 DEF Free
    <2> HIDE DEF y
    <2>4. y \in WsConns
      BY <2>1 DEF Fades
    <2>5. /\ RelayCloses(r) \in WsConns /\ RelayCloses(r).relay = "closing"
          /\ RelayCloses(r).next = y.next /\ RelayCloses(r).link = y.link
          /\ RelayCloses(r).version = y.version /\ RelayCloses(r).agent = y.agent
          /\ RelayCloses(r).up = y.up /\ RelayCloses(r).down = y.down
             /\ RelayCloses(r).cut = y.cut
      BY <2>2, <2>4 DEF WsConns
    <2>6. y.relay # "gone"
      BY <1>1, <2>1
    <2> QED
      BY <2>1, <2>3, <2>5, <2>6 DEF Fades
  <1>2. CASE r.relay \notin {"hello", "open"}
    <2>1. RelayCloses(r) = r
      BY <1>2 DEF RelayCloses
    <2> QED
      BY <2>1, Unfaded, Wider
  <1> QED
    BY <1>1, <1>2

LEMMA AgentClosesFades ==
  ASSUME NEW r \in WsConns
  PROVE  /\ Fades(AgentCloses(r), r, {}) /\ AgentCloses(r).relay = r.relay
         /\ AgentCloses(r).agent = IF r.agent = "open" THEN "closing" ELSE r.agent
  <1>1. r.down \in Seq(Frames) /\ r.up \in Seq(Frames) /\ CloseFrame \in Frames
    BY FreeTyped DEF WsConns
  <1>2. r.up \o <<CloseFrame>> \in Seq(Frames)
    BY <1>1, AmongSent
  <1>3. CASE r.agent = "open" /\ ~r.cut /\ r.relay # "gone"
    <2>1. AgentCloses(r) = [[r EXCEPT !.up = r.up \o <<CloseFrame>>] EXCEPT !.agent = "closing"]
      BY <1>3 DEF AgentCloses, Up
    <2> QED
      BY <1>1, <1>2, <1>3, <2>1 DEF Fades, WsConns, Before
  <1>4. CASE r.agent = "open" /\ ~(~r.cut /\ r.relay # "gone")
    <2>1. AgentCloses(r) = [r EXCEPT !.agent = "closing"]
      BY <1>4 DEF AgentCloses, Up
    <2> QED
      BY <1>1, <1>4, <2>1 DEF Fades, WsConns, Before
  <1>5. CASE r.agent # "open"
    <2>1. AgentCloses(r) = r
      BY <1>5 DEF AgentCloses
    <2> QED
      BY <1>5, <2>1, Unfaded, Wider
  <1> QED
    BY <1>3, <1>4, <1>5

LEMMA AgentGoneFades ==
  ASSUME NEW r \in WsConns
  PROVE  /\ Fades(AgentGone(r), r, {}) /\ AgentGone(r).agent \in {"none", "gone"}
         /\ r.relay \in {"open", "closing"} => AgentGone(r).relay = r.relay
  <1> DEFINE y == [r EXCEPT !.agent = "gone", !.down = <<>>]
  <1>1. r.down \in Seq(Frames) /\ r.up \in Seq(Frames) /\ <<>> \in Seq(Frames)
    BY DEF WsConns
  <1>2. Fades(y, r, {})
    BY <1>1, NothingAmong DEF Fades, WsConns, Before
  <1>3. y.agent = "gone" /\ y.relay = r.relay
    BY DEF WsConns
  <1>4. AgentGone(r) = y \/ (AgentGone(r) = Free /\ r.relay \in {"none", "gone"})
    BY <1>3 DEF AgentGone, Freed
  <1>5. Fades(Free, r, {}) /\ Free.agent = "none"
    BY FreeTyped DEF Fades, Free
  <1> HIDE DEF y
  <1> QED
    BY <1>2, <1>3, <1>4, <1>5

LEMMA RelayGoneFades ==
  ASSUME NEW r \in WsConns
  PROVE  /\ Fades(RelayGone(r), r, {}) /\ RelayGone(r).relay \in {"none", "gone"}
         /\ RelayGone(r).agent = r.agent \/ (RelayGone(r).agent = "none" /\ r.agent = "gone")
  <1> DEFINE y == [r EXCEPT !.relay = "gone", !.up = <<>>]
  <1>1. r.down \in Seq(Frames) /\ r.up \in Seq(Frames) /\ <<>> \in Seq(Frames)
    BY DEF WsConns
  <1>2. Fades(y, r, {})
    BY <1>1, NothingAmong DEF Fades, WsConns, Before
  <1>3. y.agent = r.agent /\ y.relay = "gone"
    BY DEF WsConns
  <1>4. RelayGone(r) = y \/ (RelayGone(r) = Free /\ r.agent = "gone")
    BY <1>3 DEF RelayGone, Freed
  <1>5. Fades(Free, r, {}) /\ Free.agent = "none" /\ Free.relay = "none"
    BY FreeTyped DEF Fades, Free
  <1> HIDE DEF y
  <1> QED
    BY <1>2, <1>3, <1>4, <1>5

(* A cut: nothing more arrives, at either end. *)
Severed(r) == [r EXCEPT !.cut = TRUE, !.up = <<>>, !.down = <<>>]

LEMMA SeveredFades ==
  ASSUME NEW r \in WsConns
  PROVE  Fades(Severed(r), r, {}) /\ Severed(r).agent = r.agent /\ Severed(r).relay = r.relay
  <1>1. r.down \in Seq(Frames) /\ r.up \in Seq(Frames) /\ <<>> \in Seq(Frames)
    BY DEF WsConns
  <1> QED
    BY <1>1, NothingAmong DEF Fades, WsConns, Before, Severed

-----------------------------------------------------------------------------
(* A socket whose agent runs version v: its frames are of streams it has   *)
(* begun, and all of them, like its HELLO, of the version of the process   *)
(* that dialed.                                                            *)
Sound(r, v) ==
  /\ \A f \in Among(r.up) \cup Among(r.down) : f.id < r.next
  /\ r.agent \in Before => r.up = <<>> /\ ~r.link /\ r.next = 1
  /\ r.relay = "open" => r.link
  /\ \A f \in Among(r.up) : f.t # "close" =>
       /\ r.agent = "open" => f.v = v
       /\ r.link => f.v = r.version
       /\ \A g \in Among(r.up) : g.t # "close" => f.v = g.v
  /\ r.agent = "open" /\ r.link => r.version = v

(* A socket that carries w, which is request q and open: what it carries   *)
(* under its id is about q, and in order.                                  *)
Serves(r, w, q) ==
  /\ r.relay \in {"open", "closing"} /\ r.link /\ w.over = r.version /\ w.id \in 1..(r.next - 1)
  /\ \A f \in Among(r.up) \cup Among(r.down) : f.id = w.id => f.q = q
  /\ Ordered(r.up, w.id, w.head, w.body)

(* A stream of the agent's is about the request of its id, and is not      *)
(* ahead of what it could still send.                                      *)
Meets(r, st, w, q) ==
  /\ st.q = q
  /\ r.agent = "open" /\ ~r.cut =>
       /\ st.at \in {"answering", "given"} => HeadIn(r.up, w.id, w.head)
       /\ st.at = "given" => BodyIn(r.up, w.id, w.body)

(* What a browser was given is its own. *)
Own(w, q) ==
  /\ w.got \subseteq {q} /\ (w.body => w.made = w.over) /\ (w.body => w.head)
  /\ w.at = "new" => ~w.head
  /\ w.at # "ended" => w.how = "none"
  /\ w.how = "whole" => w.body
  /\ w.how = "cached" => w.made = w.over

Alike(x, w) ==
  /\ x.sock = w.sock /\ x.id = w.id /\ x.head = w.head /\ x.body = w.body
  /\ x.got = w.got /\ x.made = w.made /\ x.over = w.over

LEMMA CloseId == CloseFrame.id = 0 /\ CloseFrame.t = "close" /\ CloseFrame.q = 0
  BY DEF CloseFrame, D

LEMMA FadedUp ==
  ASSUME NEW x, NEW r \in WsConns, NEW G, Fades(x, r, G)
  PROVE  Among(x.up) \subseteq Among(r.up) \cup {CloseFrame}
  <1>1. r.up \in Seq(Frames) /\ CloseFrame \in Frames
    BY FreeTyped DEF WsConns
  <1>2. Among(r.up \o <<CloseFrame>>) = Among(r.up) \cup {CloseFrame}
    BY <1>1, AmongSent
  <1>3. x.up \in {<<>>, r.up, r.up \o <<CloseFrame>>}
    BY DEF Fades, Free
  <1> QED
    BY <1>2, <1>3, NothingAmong

LEMMA SoundFades ==
  ASSUME NEW r \in WsConns, NEW v, Sound(r, v), NEW x, NEW G, Fades(x, r, G),
         \A f \in G : f.id < r.next, NEW u, u = v \/ x.agent # "open"
  PROVE  Sound(x, u)
  <1>1. CASE x = Free
    BY <1>1, NothingAmong DEF Sound, Free
  <1>2. CASE x # Free
    <2>1. /\ x.next = r.next /\ x.link = r.link /\ x.version = r.version
          /\ x.agent = "open" => r.agent = "open"
          /\ x.agent \in Before => r.agent \in Before /\ x.up \in {<<>>, r.up}
          /\ x.relay = "open" => r.relay = "open"
          /\ Among(x.down) \subseteq Among(r.down) \cup G
      BY <1>2 DEF Fades
    <2>2. Among(x.up) \subseteq Among(r.up) \cup {CloseFrame}
      BY FadedUp
    <2>3. r.next \in Nat \ {0}
      BY DEF WsConns
    <2>4. \A f \in Among(x.up) \cup Among(x.down) : f.id < x.next
      BY <2>1, <2>2, <2>3, CloseId DEF Sound
    <2>5. x.agent \in Before => x.up = <<>> /\ ~x.link /\ x.next = 1
      BY <2>1 DEF Sound
    <2>6. x.relay = "open" => x.link
      BY <2>1 DEF Sound
    <2>7. \A f \in Among(x.up) : f.t # "close" => f \in Among(r.up)
      BY <2>2, CloseId
    <2>8. \A f \in Among(x.up) : f.t # "close" =>
            /\ x.agent = "open" => f.v = u
            /\ x.link => f.v = x.version
            /\ \A g \in Among(x.up) : g.t # "close" => f.v = g.v
      BY <2>1, <2>7 DEF Sound
    <2>9. x.agent = "open" /\ x.link => x.version = u
      BY <2>1 DEF Sound
    <2> QED
      BY <2>4, <2>5, <2>6, <2>8, <2>9 DEF Sound
  <1> QED
    BY <1>1, <1>2

LEMMA ServesFades ==
  ASSUME NEW r \in WsConns, NEW w \in Browsers, NEW q, Serves(r, w, q), NEW x, NEW G, Fades(x, r,
         G),
         \A f \in G : f.id = w.id => f.q = q,
         x.relay \in {"open", "closing"}, NEW z, Alike(z, w)
  PROVE  Serves(x, z, q)
  <1>1. x # Free
    BY DEF Free
  <1>2. /\ x.next = r.next /\ x.link = r.link /\ x.version = r.version
        /\ x.up \in {<<>>, r.up, r.up \o <<CloseFrame>>}
        /\ Among(x.down) \subseteq Among(r.down) \cup G
    BY <1>1 DEF Fades
  <1>3. Among(x.up) \subseteq Among(r.up) \cup {CloseFrame}
    BY FadedUp
  <1>4. w.id # 0 /\ w.id = z.id
    BY DEF Serves, Alike
  <1>5. \A f \in Among(x.up) \cup Among(x.down) : f.id = z.id => f.q = q
    BY <1>2, <1>3, <1>4, CloseId DEF Serves
  <1>6. r.up \in Seq(Frames) /\ CloseFrame \in Frames
    BY FreeTyped DEF WsConns
  <1>7. Ordered(r.up \o <<CloseFrame>>, w.id, w.head, w.body)
    BY <1>4, <1>6, CloseId, OrderedSent DEF Serves
  <1>8. Ordered(x.up, z.id, z.head, z.body)
    BY <1>2, <1>7, NothingAmong DEF Serves, Alike
  <1> QED
    BY <1>2, <1>5, <1>8 DEF Serves, Alike

LEMMA MeetsFades ==
  ASSUME NEW r, NEW st, NEW w, NEW q, Meets(r, st, w, q), NEW x, NEW G, Fades(x, r, G),
         x.relay \in {"open", "closing"}, NEW z, Alike(z, w),
         NEW tt, tt.q = st.q, tt.at \in {"answering", "given"} => tt.at = st.at
  PROVE  Meets(x, tt, z, q)
  <1>1. x # Free
    BY DEF Free
  <1>2. x.agent = "open" /\ ~x.cut => r.agent = "open" /\ ~r.cut /\ x.up = r.up
    BY <1>1 DEF Fades
  <1> QED
    BY <1>2 DEF Meets, Alike

-----------------------------------------------------------------------------
(* What a browser is given is its own, because its stream's frames are.    *)
Asked(q, s) == req[q].at = "open" /\ req[q].sock = s

SocksSound == \A s \in Socks : Sound(sock[s], agent.version)
AllOwn == \A q \in Requests : Own(req[q], q)
AllServed == \A q \in Requests : req[q].at = "open" =>
               req[q].sock \in Socks /\ Serves(sock[req[q].sock], req[q], q)
Distinct == \A p, q \in Requests :
              req[p].at = "open" /\ Asked(q, req[p].sock) /\ req[p].id = req[q].id => p = q
AllMet == \A i \in Ids : streams[i].c # 0 =>
            LET s == streams[i].c IN
            /\ sock[s].agent \in {"open", "closing"} /\ i < sock[s].next
            /\ \A q \in Requests : Asked(q, s) /\ req[q].id = i =>
               Meets(sock[s], streams[i], req[q], q)
PageKept == relay.cached.made = relay.cached.label

(* The inductive invariant.  An id names one request on its socket (a new  *)
(* id is above all that are in flight), so a frame of an id is about it;   *)
(* head, bytes and end of an answer leave the agent in that order and a    *)
(* queue keeps it; and a socket, dialed by one process, says one version   *)
(* from its HELLO to its last frame, the one `over' was read from.         *)
Answers == TypeOK /\ SocksSound /\ AllOwn /\ AllServed /\ Distinct /\ AllMet /\ PageKept

LEMMA OwnEnough == Answers => OwnAnswer
  BY DEF Answers, AllOwn, Own, OwnAnswer

-----------------------------------------------------------------------------
(* A step that sends no answer and asks for nothing. *)

(* f goes to the agent over s: about the request that has its id there. *)
Proper(s, f) == f.id < sock[s].next /\ \A q \in Requests : Asked(q, s) /\ req[q].id = f.id =>
  f.q = q

SocksFade == /\ sock' = [s \in Socks |-> sock'[s]]
             /\ \A s \in Socks : \E G : Fades(sock'[s], sock[s], G) /\ \A f \in G : Proper(s, f)

AgentStays == agent' \in Agents
  /\ (agent'.version = agent.version \/ \A s \in Socks : sock'[s].agent # "open")

(* A stream that was there, perhaps a step further before its answer; and  *)
(* one that is new, about the request of its id.                           *)
Continues(i) ==
  /\ streams'[i].c = streams[i].c /\ streams'[i].q = streams[i].q
  /\ streams'[i].at \in {"answering", "given"} => streams'[i].at = streams[i].at

Begun(i) ==
  /\ streams'[i].at \notin {"answering", "given"} /\ i < sock[streams'[i].c].next
  /\ \A q \in Requests : Asked(q, streams'[i].c) /\ req[q].id = i => streams'[i].q = q

StreamsFade ==
  /\ streams' \in [Ids -> Streams]
  /\ \A i \in Ids : streams'[i].c # 0 =>
       /\ sock'[streams'[i].c].agent \in {"open", "closing"}
       /\ Continues(i) \/ Begun(i)

RequestsFade ==
  /\ req' \in [Requests -> Browsers]
  /\ \A q \in Requests :
       /\ Alike(req'[q], req[q])
       /\ \/ req'[q].at = req[q].at /\ req'[q].how = req[q].how
          \/ req'[q].at = "ended" /\ req'[q].how \in {"error", "cut", "left"}
       /\ req'[q].at = "open" => sock'[req[q].sock].relay \in {"open", "closing"}

RelayStays == relay' \in Relays /\ relay'.cached \in {relay.cached, NoPage}

OthersTyped == world' \in Worlds /\ left' \in [Happenings -> Nat] /\ chosen' \in Scenarios
  /\ strayed' \in BOOLEAN

LEMMA CloseProper == ASSUME Answers, NEW s \in Socks PROVE Proper(s, CloseFrame)
  <1>1. sock[s].next \in Nat \ {0}
    BY DEF Answers, TypeOK, WsConns
  <1>2. \A q \in Requests : req[q].at = "open" => req[q].id # 0
    BY DEF Answers, AllServed, Serves
  <1> QED
    BY <1>1, <1>2, CloseId DEF Proper, Asked

LEMMA Typed ==
  ASSUME NEW s \in Socks, NEW q \in Requests, NEW i \in Ids, Answers
  PROVE  sock[s] \in WsConns /\ req[q] \in Browsers /\ streams[i] \in Streams
  BY DEF Answers, TypeOK

LEMMA OwnKept ==
  ASSUME NEW w \in Browsers, NEW x \in Browsers, NEW q, Own(w, q), Alike(x, w),
         \/ x.at = w.at /\ x.how = w.how
         \/ x.at = "ended" /\ x.how \in {"error", "cut", "left"}
  PROVE  Own(x, q)
  BY DEF Own, Alike, Browsers

LEMMA Fading ==
  ASSUME Answers, SocksFade, AgentStays, StreamsFade, RequestsFade, RelayStays, OthersTyped
  PROVE  Answers'
  <1>1. \A s \in Socks : sock[s] \in WsConns /\ Sound(sock[s], agent.version)
    BY DEF Answers, TypeOK, SocksSound
  <1>2. ASSUME NEW s \in Socks PROVE sock'[s] \in WsConns /\ Sound(sock'[s], agent'.version)
    <2>1. PICK G : Fades(sock'[s], sock[s], G) /\ \A f \in G : Proper(s, f)
      BY DEF SocksFade
    <2>2. \A f \in G : f.id < sock[s].next
      BY <2>1 DEF Proper
    <2>3. agent'.version = agent.version \/ sock'[s].agent # "open"
      BY DEF AgentStays
    <2>4. Sound(sock'[s], agent'.version)
      BY <1>1, <2>1, <2>2, <2>3, SoundFades
    <2> QED
      BY <2>1, <2>4 DEF Fades
  <1>3. sock' \in [Socks -> WsConns]
    BY <1>2 DEF SocksFade
  <1>4. TypeOK'
    BY <1>3 DEF TypeOK, AgentStays, StreamsFade, RequestsFade, RelayStays, OthersTyped
  <1>5. AllOwn'
    <2> SUFFICES ASSUME NEW q \in Requests PROVE Own(req'[q], q)
      BY DEF AllOwn
    <2>1. Own(req[q], q)
      BY DEF Answers, AllOwn
    <2>2. /\ Alike(req'[q], req[q])
          /\ \/ req'[q].at = req[q].at /\ req'[q].how = req[q].how
             \/ req'[q].at = "ended" /\ req'[q].how \in {"error", "cut", "left"}
      BY DEF RequestsFade
    <2>3. req[q] \in Browsers /\ req'[q] \in Browsers
      BY DEF RequestsFade, Answers, TypeOK
    <2> QED
      BY <2>1, <2>2, <2>3, OwnKept
  <1>6. \A q \in Requests : req'[q].at = "open" => req[q].at = "open" /\ Alike(req'[q], req[q])
    BY DEF RequestsFade
  <1>7. AllServed'
    <2> SUFFICES ASSUME NEW q \in Requests, req'[q].at = "open"
                 PROVE  req'[q].sock \in Socks /\ Serves(sock'[req'[q].sock], req'[q], q)
      BY DEF AllServed
    <2> DEFINE s == req[q].sock
    <2>1. /\ req[q].at = "open" /\ Alike(req'[q], req[q]) /\ s \in Socks
             /\ Serves(sock[s], req[q], q)
          /\ req'[q].sock = s
      BY <1>6 DEF Answers, AllServed, Alike
    <2>2. PICK G : Fades(sock'[s], sock[s], G) /\ \A f \in G : Proper(s, f)
      BY <2>1 DEF SocksFade
    <2>3. \A f \in G : f.id = req[q].id => f.q = q
      BY <2>1, <2>2 DEF Proper, Asked
    <2>4. sock'[s].relay \in {"open", "closing"}
      BY DEF RequestsFade
    <2>5. req[q] \in Browsers
      BY DEF Answers, TypeOK
    <2> QED
      BY <1>1, <2>1, <2>2, <2>3, <2>4, <2>5, ServesFades
  <1>8. Distinct'
    BY <1>6 DEF Answers, Distinct, Asked, Alike
  <1>9. AllMet'
    <2> SUFFICES ASSUME NEW i \in Ids, streams'[i].c # 0
                 PROVE  LET s == streams'[i].c IN
                        /\ sock'[s].agent \in {"open", "closing"} /\ i < sock'[s].next
                        /\ \A q \in Requests : req'[q].at = "open" /\ req'[q].sock = s
                           /\ req'[q].id = i =>
                             Meets(sock'[s], streams'[i], req'[q], q)
      BY DEF AllMet, Asked
    <2> DEFINE s == streams'[i].c
    <2>1. sock'[s].agent \in {"open", "closing"} /\ (Continues(i) \/ Begun(i))
      BY DEF StreamsFade
    <2>2. s \in Socks /\ s # 0
      BY RelayAssumption DEF StreamsFade, Streams
    <2>3. PICK G : Fades(sock'[s], sock[s], G)
      BY <2>2 DEF SocksFade
    <2>4. sock'[s].next = sock[s].next
      <3>1. sock'[s] # Free
        BY <2>1 DEF Free
      <3> QED
        BY <2>3, <3>1 DEF Fades
    <2>5. i < sock[s].next
      BY <2>1, <2>2 DEF Answers, AllMet, Continues, Begun
    <2>6. ASSUME NEW q \in Requests, req'[q].at = "open", req'[q].sock = s, req'[q].id = i
          PROVE  Meets(sock'[s], streams'[i], req'[q], q)
      <3>1. Asked(q, s) /\ req[q].id = i /\ Alike(req'[q], req[q])
        BY <1>6, <2>6 DEF Alike, Asked
      <3>2. CASE Continues(i)
        <4>1. Meets(sock[s], streams[i], req[q], q)
          BY <2>2, <3>1, <3>2 DEF Answers, AllMet, Continues
        <4>2. sock'[s].relay \in {"open", "closing"}
          BY <2>6, <3>1 DEF RequestsFade, Alike
        <4> QED
          BY <2>3, <3>1, <3>2, <4>1, <4>2, MeetsFades DEF Continues
      <3>3. CASE Begun(i)
        BY <3>1, <3>3 DEF Begun, Meets
      <3> QED
        BY <2>1, <3>2, <3>3
    <2> QED
      BY <2>1, <2>4, <2>5, <2>6
  <1>10. PageKept'
    BY DEF Answers, PageKept, RelayStays, NoPage
  <1>11. SocksSound'
    BY <1>2 DEF SocksSound
  <1> QED
    BY <1>4, <1>5, <1>7, <1>8, <1>9, <1>10, <1>11 DEF Answers

LEMMA OneFades ==
  ASSUME Answers, NEW s \in Socks, NEW x, NEW G, Fades(x, sock[s], G), \A f \in G : Proper(s, f),
         sock' = [sock EXCEPT ![s] = x]
  PROVE  SocksFade /\ sock'[s] = x /\ \A t \in Socks \ {s} : sock'[t] = sock[t]
  <1>1. /\ sock \in [Socks -> WsConns] /\ sock'[s] = x
           /\ \A t \in Socks \ {s} : sock'[t] = sock[t]
        /\ sock' = [t \in Socks |-> sock'[t]]
    BY DEF Answers, TypeOK
  <1>2. ASSUME NEW t \in Socks PROVE \E H : Fades(sock'[t], sock[t], H)
                 /\ \A f \in H : Proper(t, f)
    <2>1. CASE t = s
      BY <1>1, <2>1
    <2>2. CASE t # s
      <3>1. Fades(sock'[t], sock[t], {})
        BY <1>1, <2>2, Unfaded
      <3> QED
        BY <3>1
    <2> QED
      BY <2>1, <2>2
  <1> QED
    BY <1>1, <1>2 DEF SocksFade

LEMMA OneFading ==
  ASSUME Answers, NEW s \in Socks, NEW x, Fades(x, sock[s], {}) \/ Fades(x, sock[s],
         {CloseFrame}),
         sock' = [sock EXCEPT ![s] = x]
  PROVE  SocksFade /\ sock'[s] = x /\ \A t \in Socks \ {s} : sock'[t] = sock[t]
  <1>1. PICK G : Fades(x, sock[s], G) /\ G \subseteq {CloseFrame}
    OBVIOUS
  <1>2. \A f \in G : Proper(s, f)
    BY <1>1, CloseProper
  <1> QED
    BY <1>1, <1>2, OneFades

LEMMA NoneFades == ASSUME Answers, sock' = sock PROVE SocksFade
  <1>1. sock' = [t \in Socks |-> sock'[t]] /\ \A t \in Socks : sock[t] \in WsConns
    BY DEF Answers, TypeOK
  <1>2. ASSUME NEW t \in Socks PROVE \E H : Fades(sock'[t], sock[t], H)
                 /\ \A f \in H : Proper(t, f)
    <2>1. Fades(sock'[t], sock[t], {})
      BY <1>1, Unfaded
    <2> QED
      BY <2>1
  <1> QED
    BY <1>1, <1>2 DEF SocksFade

LEMMA EachFades ==
  ASSUME Answers, sock' = [s \in Socks |-> sock'[s]],
         \A s \in Socks : Fades(sock'[s], sock[s], {}) \/ Fades(sock'[s], sock[s], {CloseFrame})
  PROVE  SocksFade
  <1>1. ASSUME NEW s \in Socks PROVE \E G : Fades(sock'[s], sock[s], G)
                 /\ \A f \in G : Proper(s, f)
    <2>1. CASE Fades(sock'[s], sock[s], {})
      BY <2>1
    <2>2. CASE Fades(sock'[s], sock[s], {CloseFrame})
      BY <2>2, CloseProper
    <2> QED
      BY <2>1, <2>2
  <1> QED
    BY <1>1 DEF SocksFade

(* What stays as it is. *)
AgentEndsStay == \A s \in Socks : sock[s].agent \in {"open", "closing"} =>
  sock'[s].agent \in {"open", "closing"}
RelayEndsStay == \A s \in Socks : sock[s].relay \in {"open", "closing"} =>
  sock'[s].relay \in {"open", "closing"}

LEMMA NoneStart == ASSUME streams' = NoStreams PROVE StreamsFade
  BY DEF StreamsFade, Continues, NoStreams, NoStream, Streams

LEMMA StreamsSame ==
  ASSUME Answers, streams' = streams, AgentEndsStay
  PROVE  StreamsFade
  <1>1. \A i \in Ids : streams[i].c # 0 => streams[i].c \in Socks
          /\ sock[streams[i].c].agent \in {"open", "closing"}
    BY DEF Answers, TypeOK, AllMet, Streams
  <1> QED
    BY <1>1 DEF StreamsFade, Continues, Answers, TypeOK, AgentEndsStay

LEMMA RequestsSame ==
  ASSUME Answers, req' = req, RelayEndsStay
  PROVE  RequestsFade
  <1>1. \A q \in Requests : req[q].at = "open" =>
          req[q].sock \in Socks /\ sock[req[q].sock].relay \in {"open", "closing"}
    BY DEF Answers, AllServed, Serves
  <1> QED
    BY <1>1 DEF RequestsFade, Answers, TypeOK, RelayEndsStay, Alike

LEMMA AgentSame == ASSUME Answers, agent' = agent PROVE AgentStays
  BY DEF AgentStays, Answers, TypeOK

LEMMA RelaySame == ASSUME Answers, relay' = relay PROVE RelayStays
  BY DEF RelayStays, Answers, TypeOK

LEMMA Spent == ASSUME Answers, NEW h \in Happenings, Happens(h) PROVE left' \in [Happenings -> Nat]
  BY DEF Happens, Answers, TypeOK

LEMMA OthersSame ==
  ASSUME Answers, UNCHANGED rest, left' = left \/ \E h \in Happenings : Happens(h)
  PROVE  OthersTyped
  <1>1. left' \in [Happenings -> Nat]
    BY Spent DEF Answers, TypeOK
  <1> QED
    BY <1>1 DEF OthersTyped, rest, Answers, TypeOK

LEMMA AgentTyped == Answers => agent \in Agents
  BY DEF Answers, TypeOK

-----------------------------------------------------------------------------
(* The agent dials. *)
LEMMA DialsKeeps == ASSUME Answers, Dials PROVE Answers'
  <1> DEFINE x == [sock[Slot] EXCEPT !.agent = "dialing", !.path = Path]
  <1>1. Slot \in Socks /\ sock[Slot] = Free
    BY DEF Dials, NoSlot, Slot
  <1>2. sock' = [sock EXCEPT ![Slot] = x]
    BY <1>1 DEF Dials, Answers, TypeOK
  <1>3. Path \in {"direct", "vpn", "past"}
    BY DEF Path
  <1>4. Fades(x, sock[Slot], {}) /\ x.agent = "dialing"
    BY <1>1, <1>3, FreeTyped DEF Fades, Free, WsConns, Before
  <1> HIDE DEF x
  <1>5. SocksFade /\ sock'[Slot] = x /\ \A t \in Socks \ {Slot} : sock'[t] = sock[t]
    BY <1>1, <1>2, <1>4, OneFading
  <1>6. sock[Slot].agent = "none" /\ sock[Slot].relay = "none"
    BY <1>1 DEF Free
  <1>7. AgentEndsStay /\ RelayEndsStay
    BY <1>5, <1>6 DEF AgentEndsStay, RelayEndsStay
  <1>8. AgentStays
    BY AgentTyped DEF AgentStays, Dials, Agents, ViaVpn, TunnelUp
  <1>9. UNCHANGED <<streams, relay, req, left, rest>>
    BY DEF Dials
  <1> QED
    BY <1>5, <1>7, <1>8, <1>9, StreamsSame, RequestsSame, RelaySame, OthersSame, Fading

LEMMA AcceptsKeeps == ASSUME Answers, NEW s \in Socks, Accepts(s) PROVE Answers'
  <1> DEFINE x == [sock[s] EXCEPT !.relay = "hello"]
  <1>1. sock[s] \in WsConns /\ sock[s].relay = "none" /\ sock[s].agent \in {"dialing", "stale"}
    BY DEF Accepts, Answers, TypeOK
  <1>2. sock' = [sock EXCEPT ![s] = x]
    BY DEF Accepts, Answers, TypeOK
  <1>3. Fades(x, sock[s], {}) /\ x.agent = sock[s].agent
    BY <1>1 DEF Fades, WsConns, Before
  <1> HIDE DEF x
  <1>4. SocksFade /\ sock'[s] = x /\ \A t \in Socks \ {s} : sock'[t] = sock[t]
    BY <1>2, <1>3, OneFading
  <1>5. AgentEndsStay /\ RelayEndsStay
    BY <1>1, <1>3, <1>4 DEF AgentEndsStay, RelayEndsStay
  <1>6. AgentStays
    BY AgentTyped DEF AgentStays, Accepts, Agents, Tried
  <1>7. UNCHANGED <<streams, relay, req, left, rest>>
    BY DEF Accepts
  <1> QED
    BY <1>4, <1>5, <1>6, <1>7, StreamsSame, RequestsSame, RelaySame, OthersSame, Fading

LEMMA DialFailsKeeps == ASSUME Answers, NEW s \in Socks, DialFails(s) PROVE Answers'
  <1>1. sock[s] \in WsConns /\ sock[s].agent \in {"dialing", "stale"}
          /\ sock' = [sock EXCEPT ![s] = AgentGone(sock[s])]
    BY DEF DialFails, Answers, TypeOK
  <1>2. SocksFade /\ sock'[s] = AgentGone(sock[s]) /\ \A t \in Socks \ {s} : sock'[t] = sock[t]
    BY <1>1, AgentGoneFades, OneFading
  <1>3. AgentEndsStay /\ RelayEndsStay
    BY <1>1, <1>2, AgentGoneFades DEF AgentEndsStay, RelayEndsStay
  <1>4. agent' \in Agents /\ agent'.version = agent.version
    <2>1. CASE agent' = Failed(s)
      <3> DEFINE past == sock[s].path = "past"
                 misses == IF past /\ agent.misses < 3 THEN agent.misses + 1 ELSE agent.misses
      <3>1. agent \in Agents
        BY AgentTyped
      <3>2. misses \in 0..3 /\ Tried(sock[s].path) \in {"never", "recent", "due"}
        BY <3>1 DEF Agents, Tried
      <3>3. agent' = [agent EXCEPT !.due = TRUE, !.misses = misses, !.tried = Tried(sock[s].path),
                                   !.vpn = agent.vpn \/ (past /\ misses = 3)]
        BY <2>1 DEF Failed
      <3> HIDE DEF misses, past
      <3>4. (agent.vpn \/ (past /\ misses = 3)) \in BOOLEAN
        OBVIOUS
      <3> QED
        BY <3>1, <3>2, <3>3, <3>4 DEF Agents
    <2> QED
      BY <2>1, AgentTyped DEF DialFails
  <1>5. UNCHANGED <<streams, relay, req, rest>> /\ (left' = left \/ Happens("refuse"))
    BY DEF DialFails
  <1>6. OthersTyped
    BY <1>5, OthersSame DEF Happenings
  <1> QED
    BY <1>2, <1>3, <1>4, <1>5, <1>6, StreamsSame, RequestsSame, RelaySame, Fading DEF AgentStays

LEMMA AgentOnlyKeeps ==
  ASSUME Answers, TenMinutes \/ Starts
  PROVE  Answers'
  <1>1. UNCHANGED <<sock, streams, relay, req, rest>> /\ (left' = left \/ Happens("start"))
    BY DEF TenMinutes, Starts
  <1>2. AgentStays
    BY AgentTyped DEF AgentStays, TenMinutes, Starts, Agents
  <1>3. AgentEndsStay /\ RelayEndsStay /\ SocksFade
    BY <1>1, NoneFades DEF AgentEndsStay, RelayEndsStay
  <1>4. OthersTyped
    BY <1>1, OthersSame DEF Happenings
  <1> QED
    BY <1>1, <1>2, <1>3, <1>4, StreamsSame, RequestsSame, RelaySame, Fading

-----------------------------------------------------------------------------
(* A link ends at the agent, and with it the streams it carried. *)
LEMMA AgentFinishesKeeps == ASSUME Answers, NEW s \in Socks, AgentFinishes(s) PROVE Answers'
  <1>1. sock[s] \in WsConns /\ sock' = [sock EXCEPT ![s] = AgentGone(sock[s])]
    BY DEF AgentFinishes, Answers, TypeOK
  <1>2. SocksFade /\ sock'[s] = AgentGone(sock[s]) /\ \A t \in Socks \ {s} : sock'[t] = sock[t]
    BY <1>1, AgentGoneFades, OneFading
  <1>3. RelayEndsStay
    BY <1>1, <1>2, AgentGoneFades DEF RelayEndsStay
  <1>4. AgentStays
    BY AgentTyped DEF AgentStays, AgentFinishes, Ended, Agents
  <1>5. StreamsFade
    <2>1. CASE streams' = NoStreams
      BY <2>1, NoneStart
    <2>2. CASE streams' = Forgets(s)
      <3>1. \A i \in Ids : streams[i] \in Streams
        BY DEF Answers, TypeOK
      <3>2. \A i \in Ids : streams'[i] = IF streams[i].c = s THEN [streams[i] EXCEPT !.c = 0] ELSE streams[i]
        BY <2>2 DEF Forgets
      <3>3. \A i \in Ids : /\ streams'[i] \in Streams
                           /\ streams'[i].c # 0 => streams'[i] = streams[i]
                              /\ streams[i].c \in Socks \ {s}
        BY <3>1, <3>2 DEF Streams
      <3>4. \A i \in Ids : streams'[i].c # 0 => sock'[streams'[i].c].agent \in {"open", "closing"}
        BY <1>2, <3>3 DEF Answers, AllMet
      <3>5. streams' \in [Ids -> Streams]
        BY <2>2, <3>3 DEF Forgets
      <3> QED
        BY <3>3, <3>4, <3>5 DEF StreamsFade, Continues
    <2> QED
      BY <2>1, <2>2 DEF AgentFinishes
  <1>6. UNCHANGED <<relay, req, left, rest>>
    BY DEF AgentFinishes
  <1> QED
    BY <1>2, <1>3, <1>4, <1>5, <1>6, RequestsSame, RelaySame, OthersSame, Fading

LEMMA AgentSilentKeeps == ASSUME Answers, NEW s \in Socks, AgentSilent(s) PROVE Answers'
  <1>1. sock[s] \in WsConns /\ sock' = [sock EXCEPT ![s] = AgentCloses(sock[s])]
    BY DEF AgentSilent, Answers, TypeOK
  <1>2. SocksFade /\ sock'[s] = AgentCloses(sock[s]) /\ \A t \in Socks \ {s} : sock'[t] = sock[t]
    BY <1>1, AgentClosesFades, OneFading
  <1>3. AgentEndsStay /\ RelayEndsStay
    BY <1>1, <1>2, AgentClosesFades DEF AgentEndsStay, RelayEndsStay
  <1>4. UNCHANGED <<agent, streams, relay, req, left, rest>>
    BY DEF AgentSilent
  <1> QED
    BY <1>2, <1>3, <1>4, StreamsSame, RequestsSame, AgentSame, RelaySame, OthersSame, Fading

LEMMA StoppedKeeps ==
  ASSUME Answers, NEW run \in BOOLEAN, Stopped(run), NEW h \in Happenings, Happens(h)
  PROVE  Answers'
  <1>1. sock' = [s \in Socks |-> Left(s)] /\ streams' = NoStreams
          /\ UNCHANGED <<relay, req, rest>>
    BY DEF Stopped
  <1>2. ASSUME NEW s \in Socks PROVE Fades(Left(s), sock[s], {}) /\ Left(s).relay = sock[s].relay
    <2>1. sock[s] \in WsConns
      BY DEF Answers, TypeOK
    <2>2. CASE sock[s].agent = "dialing"
      <3>1. Left(s) = [sock[s] EXCEPT !.agent = "stale"]
        BY <2>2 DEF Left
      <3> QED
        BY <2>1, <2>2, <3>1 DEF Fades, WsConns, Before
    <2>3. CASE sock[s].agent # "dialing"
      <3>1. Left(s) \in {sock[s], AgentCloses(sock[s])}
        BY <2>3 DEF Left
      <3> QED
        BY <2>1, <3>1, AgentClosesFades, Unfaded
    <2> QED
      BY <2>2, <2>3
  <1>3. SocksFade
    BY <1>1, <1>2, EachFades
  <1>4. RelayEndsStay
    BY <1>1, <1>2 DEF RelayEndsStay
  <1>5. AgentStays
    <2>1. agent' = [agent EXCEPT !.running = run, !.due = run, !.conn = 0, !.vpn = FALSE, !.misses = 0]
      BY DEF Stopped
    <2>2. agent \in Agents /\ run \in BOOLEAN
      BY AgentTyped
    <2>3. agent' \in Agents /\ agent'.version = agent.version
      <3>1. agent' = [running |-> run, conn |-> 0, due |-> run, version |-> agent.version,
                      vpn |-> FALSE, misses |-> 0, tried |-> agent.tried]
        BY <2>1, <2>2 DEF Agents
      <3> QED
        BY <2>2, <3>1 DEF Agents
    <2> QED
      BY <2>3 DEF AgentStays
  <1>6. OthersTyped
    BY <1>1, OthersSame
  <1> QED
    BY <1>1, <1>3, <1>4, <1>5, <1>6, NoneStart, RequestsSame, RelaySame, Fading

LEMMA LostFades ==
  ASSUME NEW r \in WsConns, NEW y, y = [r EXCEPT !.cut = TRUE, !.up = <<>>]
  PROVE  /\ Fades(AgentGone(y), r, {}) /\ AgentGone(y).agent \in {"none", "gone"}
         /\ r.relay \in {"open", "closing"} => AgentGone(y).relay = r.relay
  <1> DEFINE z == [y EXCEPT !.agent = "gone", !.down = <<>>]
  <1>1. r.down \in Seq(Frames) /\ r.up \in Seq(Frames) /\ <<>> \in Seq(Frames)
    BY DEF WsConns
  <1>2. Fades(z, r, {})
    BY <1>1, NothingAmong DEF Fades, WsConns, Before
  <1>3. z.agent = "gone" /\ z.relay = r.relay
    BY DEF WsConns
  <1>4. AgentGone(y) = z \/ (AgentGone(y) = Free /\ r.relay \in {"none", "gone"})
    BY <1>3 DEF AgentGone, Freed
  <1>5. Fades(Free, r, {}) /\ Free.agent = "none"
    BY FreeTyped DEF Fades, Free
  <1> HIDE DEF z
  <1> QED
    BY <1>2, <1>3, <1>4, <1>5

(* A new process runs another version, perhaps: no socket of the old one   *)
(* is open.                                                                *)
LEMMA RestartsKeeps == ASSUME Answers, Restarts PROVE Answers'
  <1> DEFINE Lost(s) == [sock[s] EXCEPT !.cut = TRUE, !.up = <<>>]
  <1>1. PICK v \in {1, 2}, power \in BOOLEAN :
          /\ agent' = Started(v)
          /\ sock' = [s \in Socks |-> IF sock[s].agent = "none" THEN sock[s]
                                      ELSE AgentGone(IF power THEN Lost(s) ELSE sock[s])]
    BY DEF Restarts
  <1>2. ASSUME NEW s \in Socks
        PROVE  /\ Fades(sock'[s], sock[s], {}) /\ sock'[s].agent # "open"
               /\ sock[s].relay \in {"open", "closing"} => sock'[s].relay = sock[s].relay
    <2>1. sock[s] \in WsConns
      BY DEF Answers, TypeOK
    <2>2. CASE sock[s].agent = "none"
      BY <1>1, <2>1, <2>2, Unfaded
    <2>3. CASE sock[s].agent # "none" /\ power
      BY <1>1, <2>1, <2>3, LostFades
    <2>4. CASE sock[s].agent # "none" /\ ~power
      BY <1>1, <2>1, <2>4, AgentGoneFades
    <2> QED
      BY <2>2, <2>3, <2>4
  <1>3. SocksFade
    BY <1>1, <1>2, EachFades
  <1>4. RelayEndsStay
    BY <1>2 DEF RelayEndsStay
  <1>5. AgentStays
    <2>1. Started(v) \in Agents
      BY DEF Started, Agents
    <2> QED
      BY <1>1, <1>2, <2>1 DEF AgentStays
  <1>6. UNCHANGED <<relay, req, rest>> /\ streams' = NoStreams /\ Happens("restart")
    BY DEF Restarts
  <1>7. OthersTyped
    BY <1>6, OthersSame DEF Happenings
  <1> QED
    BY <1>3, <1>4, <1>5, <1>6, <1>7, NoneStart, RequestsSame, RelaySame, Fading

-----------------------------------------------------------------------------
(* A link ends at the relay, and with it the requests it carried. *)
LEMMA RelayFinishesKeeps == ASSUME Answers, NEW s \in Socks, RelayFinishes(s) PROVE Answers'
  <1>1. sock[s] \in WsConns /\ sock' = [sock EXCEPT ![s] = RelayGone(sock[s])]
    BY DEF RelayFinishes, Answers, TypeOK
  <1>2. SocksFade /\ sock'[s] = RelayGone(sock[s]) /\ \A t \in Socks \ {s} : sock'[t] = sock[t]
    BY <1>1, RelayGoneFades, OneFading
  <1>3. AgentEndsStay
    BY <1>1, <1>2, RelayGoneFades DEF AgentEndsStay
  <1>4. RequestsFade
    <2>1. req' = FailAll(s) /\ \A q \in Requests : req[q] \in Browsers
      BY DEF RelayFinishes, Answers, TypeOK
    <2>2. ASSUME NEW q \in Requests, Asked(q, s)
          PROVE  /\ req'[q] \in Browsers /\ Alike(req'[q], req[q])
                 /\ req'[q].at = "ended" /\ req'[q].how \in {"error", "cut"}
      <3>1. req'[q] = [req[q] EXCEPT !.at = "ended", !.how = IF req[q].head THEN "cut" ELSE "error"]
        BY <2>1, <2>2 DEF FailAll, Asked, Fail, Closed
      <3> QED
        BY <2>1, <3>1 DEF Browsers, Alike
    <2>3. ASSUME NEW q \in Requests, ~Asked(q, s)
          PROVE  req'[q] = req[q] /\ (req[q].at = "open" =>
                   sock'[req[q].sock].relay \in {"open", "closing"})
      <3>1. req'[q] = req[q]
        BY <2>1, <2>3 DEF FailAll, Asked
      <3>2. req[q].at = "open" => req[q].sock \in Socks \ {s}
              /\ sock[req[q].sock].relay \in {"open", "closing"}
        BY <2>3 DEF Answers, AllServed, Serves, Asked
      <3> QED
        BY <1>2, <3>1, <3>2
    <2>4. req' \in [Requests -> Browsers]
      BY <2>1, <2>2, <2>3 DEF FailAll
    <2> QED
      BY <2>2, <2>3, <2>4 DEF RequestsFade, Alike
  <1>5. RelayStays
    BY DEF RelayStays, RelayFinishes, Answers, TypeOK, Relays
  <1>6. UNCHANGED <<agent, streams, left, rest>>
    BY DEF RelayFinishes, ends
  <1> QED
    BY <1>2, <1>3, <1>4, <1>5, <1>6, StreamsSame, AgentSame, OthersSame, Fading

LEMMA RelayClosesKeeps ==
  ASSUME Answers, NEW s \in Socks, HelloMissing(s) \/ RelaySilent(s)
  PROVE  Answers'
  <1>1. /\ sock[s] \in WsConns /\ sock' = [sock EXCEPT ![s] = RelayCloses(sock[s])]
        /\ UNCHANGED <<agent, streams, relay, req, rest>> /\ (left' = left \/ Happens("slow"))
    BY DEF HelloMissing, RelaySilent, Answers, TypeOK, ends
  <1>2. SocksFade /\ sock'[s] = RelayCloses(sock[s]) /\ \A t \in Socks \ {s} : sock'[t] = sock[t]
    BY <1>1, RelayClosesFades, OneFading
  <1>3. AgentEndsStay /\ RelayEndsStay
    BY <1>1, <1>2, RelayClosesFades DEF AgentEndsStay, RelayEndsStay
  <1>4. OthersTyped
    BY <1>1, OthersSame DEF Happenings
  <1> QED
    BY <1>1, <1>2, <1>3, <1>4, StreamsSame, RequestsSame, AgentSame, RelaySame, Fading

LEMMA RevokesKeeps == ASSUME Answers, Revokes PROVE Answers'
  <1>1. /\ sock' = [s \in Socks |-> IF s = relay.current THEN RelayCloses(sock[s]) ELSE sock[s]]
        /\ UNCHANGED <<agent, streams, req, rest>> /\ Happens("revoke")
    BY DEF Revokes, ends
  <1>2. ASSUME NEW s \in Socks
        PROVE  /\ Fades(sock'[s], sock[s], {CloseFrame}) /\ sock'[s].agent = sock[s].agent
               /\ sock[s].relay \in {"open", "closing"} => sock'[s].relay \in {"open", "closing"}
    <2>1. sock[s] \in WsConns
      BY DEF Answers, TypeOK
    <2> QED
      BY <1>1, <2>1, RelayClosesFades, Unfaded, Wider
  <1>3. SocksFade /\ AgentEndsStay /\ RelayEndsStay
    BY <1>1, <1>2, EachFades DEF AgentEndsStay, RelayEndsStay
  <1>4. RelayStays
    BY DEF RelayStays, Revokes, Relays, NoPage
  <1>5. OthersTyped
    BY <1>1, OthersSame DEF Happenings
  <1> QED
    BY <1>1, <1>3, <1>4, <1>5, StreamsSame, RequestsSame, AgentSame, Fading

LEMMA RelayRestartsKeeps == ASSUME Answers, RelayRestarts PROVE Answers'
  <1>1. /\ sock' = [s \in Socks |-> IF sock[s].relay = "none" THEN sock[s] ELSE RelayGone(sock[s])]
        /\ req' = [q \in Requests |-> IF req[q].at = "open" THEN Closed(req[q], "cut") ELSE req[q]]
        /\ UNCHANGED <<agent, streams, rest>> /\ Happens("relayRestart")
    BY DEF RelayRestarts, ends
  <1>2. ASSUME NEW s \in Socks
        PROVE  /\ Fades(sock'[s], sock[s], {})
               /\ sock[s].agent \in {"open", "closing"} => sock'[s].agent = sock[s].agent
    <2>1. sock[s] \in WsConns
      BY DEF Answers, TypeOK
    <2> QED
      BY <1>1, <2>1, RelayGoneFades, Unfaded
  <1>3. SocksFade /\ AgentEndsStay
    BY <1>1, <1>2, EachFades DEF AgentEndsStay
  <1>4. RequestsFade
    <2>1. \A q \in Requests : req[q] \in Browsers
      BY DEF Answers, TypeOK
    <2>2. \A q \in Requests :
            IF req[q].at = "open" THEN req'[q] = [req[q] EXCEPT !.at = "ended", !.how = "cut"] ELSE req'[q] = req[q]
      BY <1>1 DEF Closed
    <2>3. ASSUME NEW q \in Requests, req[q].at = "open"
          PROVE  /\ req'[q] \in Browsers /\ Alike(req'[q], req[q])
                 /\ req'[q].at = "ended" /\ req'[q].how = "cut"
      <3>1. req'[q] = [req[q] EXCEPT !.at = "ended", !.how = "cut"] /\ req[q] \in Browsers
        BY <2>1, <2>2, <2>3
      <3> QED
        BY <3>1 DEF Browsers, Alike
    <2>4. \A q \in Requests : req[q].at # "open" => req'[q] = req[q]
      BY <2>2
    <2>5. req' \in [Requests -> Browsers]
      BY <1>1, <2>1, <2>3, <2>4
    <2> QED
      BY <2>3, <2>4, <2>5 DEF RequestsFade, Alike
  <1>5. RelayStays
    BY DEF RelayStays, RelayRestarts, Answers, TypeOK, Relays, NoPage
  <1>6. OthersTyped
    BY <1>1, OthersSame DEF Happenings
  <1> QED
    BY <1>1, <1>3, <1>4, <1>5, <1>6, StreamsSame, AgentSame, Fading

-----------------------------------------------------------------------------
(* The network. *)
LEMMA CutKeeps == ASSUME Answers, NEW s \in Socks, Cut(s) PROVE Answers'
  <1>1. /\ sock[s] \in WsConns /\ sock' = [sock EXCEPT ![s] = Severed(sock[s])]
        /\ UNCHANGED <<agent, streams, relay, req, rest>> /\ Happens("cut")
    BY DEF Cut, Answers, TypeOK, Severed
  <1>2. SocksFade /\ sock'[s] = Severed(sock[s]) /\ \A t \in Socks \ {s} : sock'[t] = sock[t]
    BY <1>1, SeveredFades, OneFading
  <1>3. AgentEndsStay /\ RelayEndsStay
    BY <1>1, <1>2, SeveredFades DEF AgentEndsStay, RelayEndsStay
  <1>4. OthersTyped
    BY <1>1, OthersSame DEF Happenings
  <1> QED
    BY <1>1, <1>2, <1>3, <1>4, StreamsSame, RequestsSame, AgentSame, RelaySame, Fading

LEMMA ShiftsKeeps == ASSUME Answers, Shifts PROVE Answers'
  <1>1. /\ sock' = [s \in Socks |-> IF sock[s].agent = "none" THEN sock[s] ELSE Severed(sock[s])]
        /\ UNCHANGED <<agent, streams, relay, req, chosen, strayed>> /\ Happens("shift")
        /\ world' = chosen.then
    BY DEF Shifts, Severed
  <1>2. ASSUME NEW s \in Socks
        PROVE  Fades(sock'[s], sock[s], {}) /\ sock'[s].agent = sock[s].agent
                 /\ sock'[s].relay = sock[s].relay
    <2>1. sock[s] \in WsConns
      BY DEF Answers, TypeOK
    <2> QED
      BY <1>1, <2>1, SeveredFades, Unfaded
  <1>3. SocksFade /\ AgentEndsStay /\ RelayEndsStay
    BY <1>1, <1>2, EachFades DEF AgentEndsStay, RelayEndsStay
  <1>4. OthersTyped
    BY <1>1, Spent, RelayAssumption DEF OthersTyped, Happenings, Answers, TypeOK
  <1> QED
    BY <1>1, <1>3, <1>4, StreamsSame, RequestsSame, AgentSame, RelaySame, Fading

-----------------------------------------------------------------------------
(* The browsers' requests. *)

(* A request that is open has a socket, and what the relay says about it   *)
(* there bears its id.                                                     *)
LEMMA OpenRequest ==
  ASSUME Answers, NEW q \in Requests, req[q].at = "open", NEW t \in {"reqEnd", "cancel"}
  PROVE  LET s == req[q].sock
             f == D(t, req[q].id, q)
         IN  s \in Socks /\ f \in Frames /\ Proper(s, f) /\ sock[s].relay \in {"open", "closing"}
  <1>1. /\ req[q].sock \in Socks /\ req[q].id \in Nat /\ Serves(sock[req[q].sock], req[q], q)
        /\ sock[req[q].sock].next \in Nat
    BY DEF Answers, AllServed, TypeOK, Browsers, WsConns
  <1>2. q \in Nat
    BY RelayAssumption, FS_CardinalityType
  <1>3. \A p \in Requests : Asked(p, req[q].sock) /\ req[p].id = req[q].id => p = q
    BY DEF Answers, Distinct, Asked
  <1>4. D(t, req[q].id, q) \in Frames
    BY <1>1, <1>2 DEF D, Frames
  <1>5. D(t, req[q].id, q).id = req[q].id /\ D(t, req[q].id, q).q = q
    BY DEF D
  <1> QED
    BY <1>1, <1>3, <1>4, <1>5 DEF Proper, Serves

(* It is told of it, and the request stays open or ends. *)
LEMMA TellsKeeps ==
  ASSUME Answers, NEW q \in Requests, req[q].at = "open", NEW t \in {"reqEnd", "cancel"},
         NEW w \in Browsers,
         sock' = [sock EXCEPT ![req[q].sock] = Down(@, <<D(t, req[q].id, q)>>)],
         req' = [req EXCEPT ![q] = w], Alike(w, req[q]),
         \/ w.at = "open" /\ w.how = req[q].how
         \/ w.at = "ended" /\ w.how \in {"error", "cut", "left"},
         UNCHANGED <<agent, streams, relay>>, OthersTyped
  PROVE  Answers'
  <1> DEFINE s == req[q].sock
             f == D(t, req[q].id, q)
  <1>1. s \in Socks /\ f \in Frames /\ Proper(s, f)
    BY OpenRequest
  <1>2. sock[s] \in WsConns /\ sock' = [sock EXCEPT ![s] = Down(sock[s], <<f>>)]
    BY <1>1 DEF Answers, TypeOK
  <1>3. /\ Fades(Down(sock[s], <<f>>), sock[s], {f}) /\ Down(sock[s], <<f>>).relay = sock[s].relay
        /\ Down(sock[s], <<f>>).agent = sock[s].agent
    BY <1>1, <1>2, DownFades
  <1> HIDE DEF f
  <1>4. SocksFade /\ sock'[s] = Down(sock[s], <<f>>) /\ \A r \in Socks \ {s} : sock'[r] = sock[r]
    <2> DEFINE x == Down(sock[s], <<f>>)
               G == {f}
    <2>1. Fades(x, sock[s], G) /\ \A g \in G : Proper(s, g)
      BY <1>1, <1>3
    <2>2. sock' = [sock EXCEPT ![s] = x]
      BY <1>2
    <2> HIDE DEF x, G
    <2>3. SocksFade /\ sock'[s] = x /\ \A r \in Socks \ {s} : sock'[r] = sock[r]
      BY <1>1, <2>1, <2>2, OneFades
    <2> QED
      BY <2>3 DEF x
  <1>5. AgentEndsStay /\ RelayEndsStay
    BY <1>3, <1>4 DEF AgentEndsStay, RelayEndsStay
  <1>6. RequestsFade
    <2>1. req' \in [Requests -> Browsers] /\ req'[q] = w
            /\ \A p \in Requests \ {q} : req'[p] = req[p]
      BY DEF Answers, TypeOK
    <2>2. \A p \in Requests : req[p].at = "open" =>
            req[p].sock \in Socks /\ sock'[req[p].sock].relay \in {"open", "closing"}
      BY <1>5 DEF Answers, AllServed, Serves, RelayEndsStay
    <2>3. \A p \in Requests : Alike(req[p], req[p])
      BY DEF Alike
    <2>4. \A p \in Requests :
            /\ Alike(req'[p], req[p])
            /\ \/ req'[p].at = req[p].at /\ req'[p].how = req[p].how
               \/ req'[p].at = "ended" /\ req'[p].how \in {"error", "cut", "left"}
            /\ req'[p].at = "open" => sock'[req[p].sock].relay \in {"open", "closing"}
      BY <2>1, <2>2, <2>3
    <2> QED
      BY <2>1, <2>4 DEF RequestsFade
  <1> QED
    BY <1>4, <1>5, <1>6, StreamsSame, AgentSame, RelaySame, Fading

LEMMA TellingKeeps ==
  ASSUME Answers, NEW q \in Requests, Uploads(q) \/ Leaves(q) \/ TakesTooLong(q)
  PROVE  Answers'
  <1>1. req[q] \in Browsers /\ req[q].at = "open" /\ UNCHANGED <<agent, streams, relay, rest>>
    BY DEF Uploads, Leaves, TakesTooLong, Answers, TypeOK, ends
  <1>2. OthersTyped
    <2>1. left' = left \/ Happens("leave") \/ Happens("slow")
      BY DEF Uploads, Leaves, TakesTooLong
    <2> QED
      BY <1>1, <2>1, OthersSame DEF Happenings
  <1>3. CASE Uploads(q)
    <2> DEFINE w == [req[q] EXCEPT !.sent = TRUE]
    <2>1. w \in Browsers /\ Alike(w, req[q]) /\ w.at = "open" /\ w.how = req[q].how
      BY <1>1 DEF Browsers, Alike
    <2>2. req' = [req EXCEPT ![q] = w]
            /\ sock' = [sock EXCEPT ![req[q].sock] = Down(@, <<D("reqEnd", req[q].id, q)>>)]
      BY <1>3 DEF Uploads, Answers, TypeOK
    <2> HIDE DEF w
    <2> QED
      BY <1>1, <1>2, <2>1, <2>2, TellsKeeps
  <1>4. CASE Leaves(q) \/ TakesTooLong(q)
    <2>1. PICK how \in {"left", "cut", "error"} : req' = [req EXCEPT ![q] = Closed(req[q], how)]
      BY <1>4 DEF Leaves, TakesTooLong, Fail, Answers, TypeOK
    <2> DEFINE w == Closed(req[q], how)
    <2>2. w \in Browsers /\ Alike(w, req[q]) /\ w.at = "ended" /\ w.how = how
      BY <1>1 DEF Browsers, Alike, Closed
    <2>3. req' = [req EXCEPT ![q] = w]
            /\ sock' = [sock EXCEPT ![req[q].sock] = Down(@, <<D("cancel", req[q].id, q)>>)]
      BY <1>4, <2>1 DEF Leaves, TakesTooLong, Cancelled
    <2> HIDE DEF w
    <2> QED
      BY <1>1, <1>2, <2>2, <2>3, TellsKeeps
  <1> QED
    BY <1>3, <1>4

-----------------------------------------------------------------------------
(* A frame that is taken from the agent's queue. *)
LEMMA TakenFades ==
  ASSUME NEW r \in WsConns, r.down # <<>>, NEW y, y = [r EXCEPT !.down = Tail(r.down)]
  PROVE  /\ Fades(y, r, {}) /\ y \in WsConns /\ y.agent = r.agent /\ y.relay = r.relay
         /\ Head(r.down) \in Frames /\ Head(r.down) \in Among(r.down)
         /\ \A x : Fades(x, y, {}) => Fades(x, r, {})
  <1>1. /\ r.up \in Seq(Frames) /\ Head(r.down) \in Frames /\ Head(r.down) \in Among(r.down)
        /\ Tail(r.down) \in Seq(Frames) /\ Among(Tail(r.down)) \subseteq Among(r.down)
    BY AmongRest DEF WsConns
  <1>2. y \in WsConns
    BY <1>1 DEF WsConns
  <1>3. /\ y.next = r.next /\ y.link = r.link /\ y.version = r.version /\ y.agent = r.agent
           /\ y.relay = r.relay
        /\ y.cut = r.cut /\ y.up = r.up /\ Among(y.down) \subseteq Among(r.down)
    BY <1>1 DEF WsConns
  <1>4. \A x : Fades(x, y, {}) => Fades(x, r, {})
    BY <1>3 DEF Fades
  <1>5. Fades(y, r, {})
    BY <1>2, <1>4, Unfaded
  <1> QED
    BY <1>1, <1>2, <1>3, <1>4, <1>5

(* A frame in a queue is about the request of its id there. *)
LEMMA InQueue ==
  ASSUME Answers, NEW s \in Socks, NEW f \in Among(sock[s].up) \cup Among(sock[s].down)
  PROVE  Proper(s, f)
  BY DEF Answers, SocksSound, Sound, AllServed, Serves, Proper, Asked

(* The agent hears what makes it send no answer. *)
LEMMA HearsFading ==
  ASSUME Answers, NEW s \in Socks, sock[s].down # <<>>, sock[s].agent \in {"open", "closing"},
         NEW y, y = [sock[s] EXCEPT !.down = Tail(sock[s].down)],
         sock' = [sock EXCEPT ![s] = y] \/ sock' = [sock EXCEPT ![s] = AgentCloses(y)]
  PROVE  /\ SocksFade /\ AgentEndsStay /\ RelayEndsStay
         /\ Head(sock[s].down) \in Frames /\ Proper(s, Head(sock[s].down))
  <1>1. sock[s] \in WsConns
    BY DEF Answers, TypeOK
  <1>2. /\ Fades(y, sock[s], {}) /\ y \in WsConns /\ y.agent = sock[s].agent
           /\ y.relay = sock[s].relay
        /\ Head(sock[s].down) \in Frames /\ Head(sock[s].down) \in Among(sock[s].down)
        /\ \A x : Fades(x, y, {}) => Fades(x, sock[s], {})
    BY <1>1, TakenFades
  <1>3. /\ Fades(AgentCloses(y), sock[s], {}) /\ AgentCloses(y).agent \in {"open", "closing"}
        /\ AgentCloses(y).relay = sock[s].relay
    BY <1>2, AgentClosesFades
  <1>4. PICK x : /\ sock' = [sock EXCEPT ![s] = x] /\ Fades(x, sock[s], {})
                 /\ x.agent \in {"open", "closing"} /\ x.relay = sock[s].relay
    BY <1>2, <1>3
  <1>5. SocksFade /\ sock'[s] = x /\ \A t \in Socks \ {s} : sock'[t] = sock[t]
    BY <1>4, OneFading
  <1>6. AgentEndsStay /\ RelayEndsStay
    BY <1>4, <1>5 DEF AgentEndsStay, RelayEndsStay
  <1> QED
    BY <1>2, <1>5, <1>6, InQueue

(* What the streams are after a frame of a request. *)
LEMMA HearsStreams ==
  ASSUME Answers, NEW s \in Socks, AgentEndsStay, NEW f \in Frames, Proper(s, f),
         sock[s].agent \in {"open", "closing"},
         \/ streams' = streams
         \/ streams' = [streams EXCEPT ![f.id] = NoStream]
         \/ streams' = [streams EXCEPT ![f.id].at = IF @ = "head" THEN "asked" ELSE @]
         \/ streams' = [streams EXCEPT ![f.id] = [c |-> s, q |-> f.q, at |-> "head", paused |-> FALSE]]
  PROVE  StreamsFade
  <1>1. streams \in [Ids -> Streams] /\ f.q \in Nat
    BY DEF Answers, TypeOK, Frames
  <1>2. \A i \in Ids : streams[i].c # 0 =>
          streams[i].c \in Socks /\ sock'[streams[i].c].agent \in {"open", "closing"}
    BY <1>1 DEF Answers, AllMet, AgentEndsStay, Streams
  <1>3. CASE streams' = streams
    BY <1>3, StreamsSame
  <1>4. CASE streams' = [streams EXCEPT ![f.id] = NoStream]
    <2>1. NoStream \in Streams /\ NoStream.c = 0
      BY DEF NoStream, Streams
    <2> HIDE DEF NoStream
    <2>2. streams' \in [Ids -> Streams] /\ \A i \in Ids : streams'[i] \in {streams[i], NoStream}
      BY <1>1, <1>4, <2>1
    <2> QED
      BY <1>2, <2>1, <2>2 DEF StreamsFade, Continues
  <1>5. CASE streams' = [streams EXCEPT ![f.id].at = IF @ = "head" THEN "asked" ELSE @]
    <2> DEFINE st == [streams[f.id] EXCEPT !.at = IF streams[f.id].at = "head" THEN "asked" ELSE streams[f.id].at]
    <2>1. f.id \in Ids =>
            /\ st \in Streams /\ st.c = streams[f.id].c /\ st.q = streams[f.id].q
            /\ st.at \in {"answering", "given"} => st.at = streams[f.id].at
      BY <1>1 DEF Streams
    <2>2. \A i \in Ids : streams'[i] = IF i = f.id THEN st ELSE streams[i]
      BY <1>1, <1>5
    <2> HIDE DEF st
    <2>3. streams' \in [Ids -> Streams]
      BY <1>1, <1>5, <2>1, <2>2
    <2> QED
      BY <1>2, <2>1, <2>2, <2>3 DEF StreamsFade, Continues
  <1>6. CASE streams' = [streams EXCEPT ![f.id] = [c |-> s, q |-> f.q, at |-> "head", paused |-> FALSE]]
    <2> DEFINE st == [c |-> s, q |-> f.q, at |-> "head", paused |-> FALSE]
    <2>1. st \in Streams /\ st.c = s /\ st.q = f.q /\ st.at = "head"
      BY <1>1 DEF Streams
    <2>2. \A i \in Ids : streams'[i] = IF i = f.id THEN st ELSE streams[i]
      BY <1>1, <1>6
    <2> HIDE DEF st
    <2>3. streams' \in [Ids -> Streams]
      BY <1>1, <1>6, <2>1, <2>2
    <2>4. ASSUME NEW i \in Ids, i = f.id PROVE Begun(i)
                   /\ sock'[streams'[i].c].agent \in {"open", "closing"}
      BY <2>1, <2>2, <2>4 DEF Begun, Proper, AgentEndsStay
    <2>5. ASSUME NEW i \in Ids, i # f.id PROVE streams'[i] = streams[i]
      BY <2>2, <2>5
    <2> QED
      BY <1>2, <2>3, <2>4, <2>5 DEF StreamsFade, Continues
  <1> QED
    BY <1>3, <1>4, <1>5, <1>6

LEMMA HearsKeeps ==
  ASSUME Answers, NEW s \in Socks, sock[s].down # <<>>, sock[s].agent \in {"open", "closing"},
         NEW y, y = [sock[s] EXCEPT !.down = Tail(sock[s].down)],
         NEW f, f = Head(sock[s].down),
         sock' = [sock EXCEPT ![s] = y] \/ sock' = [sock EXCEPT ![s] = AgentCloses(y)],
         \/ streams' = streams
         \/ streams' = [streams EXCEPT ![f.id] = NoStream]
         \/ streams' = [streams EXCEPT ![f.id].at = IF @ = "head" THEN "asked" ELSE @]
         \/ streams' = [streams EXCEPT ![f.id] = [c |-> s, q |-> f.q, at |-> "head", paused |-> FALSE]],
         UNCHANGED <<agent, relay, req>>, OthersTyped
  PROVE  Answers'
  <1>1. SocksFade /\ AgentEndsStay /\ RelayEndsStay /\ f \in Frames /\ Proper(s, f)
    BY HearsFading
  <1>2. StreamsFade
    BY <1>1, HearsStreams
  <1> QED
    BY <1>1, <1>2, RequestsSame, AgentSame, RelaySame, Fading

LEMMA DrainsKeeps == ASSUME Answers, NEW s \in Socks, Drains(s) PROVE Answers'
  <1>1. UNCHANGED <<sock, agent, relay, req, left, rest>> /\ streams' = Resumed
    BY DEF Drains
  <1>2. SocksFade /\ AgentEndsStay /\ RelayEndsStay
    BY <1>1, NoneFades DEF AgentEndsStay, RelayEndsStay
  <1>3. \A i \in Ids : streams[i] \in Streams
          /\ streams'[i] = [streams[i] EXCEPT !.paused = FALSE]
    BY <1>1 DEF Resumed, Answers, TypeOK
  <1>4. \A i \in Ids : /\ streams'[i] \in Streams /\ streams'[i].c = streams[i].c
                       /\ streams'[i].q = streams[i].q /\ streams'[i].at = streams[i].at
    BY <1>3 DEF Streams
  <1>5. \A i \in Ids : streams[i].c # 0 =>
          streams[i].c \in Socks /\ sock'[streams[i].c].agent \in {"open", "closing"}
    BY <1>1, <1>3 DEF Answers, AllMet, Streams
  <1>6. StreamsFade
    BY <1>1, <1>4, <1>5 DEF StreamsFade, Continues, Resumed
  <1> QED
    BY <1>1, <1>2, <1>6, RequestsSame, AgentSame, RelaySame, OthersSame, Fading

-----------------------------------------------------------------------------
(* x is r with frames of version v more for the relay, all of stream i and *)
(* about q.                                                                *)
Adds(x, r, i, q, v) ==
  /\ x \in WsConns
  /\ x.next = r.next /\ x.link = r.link /\ x.version = r.version
  /\ x.agent = r.agent /\ x.relay = r.relay /\ x.cut = r.cut
  /\ Among(x.down) \subseteq Among(r.down) /\ Among(r.up) \subseteq Among(x.up)
  /\ \A f \in Among(x.up) : \/ f \in Among(r.up)
                            \/ r.agent = "open" /\ f.id = i /\ f.q = q /\ f.v = v
  /\ \A k, h, b : k # i /\ Ordered(r.up, k, h, b) => Ordered(x.up, k, h, b)

LEMMA UpAdds ==
  ASSUME NEW r \in WsConns, NEW f \in Frames
  PROVE  LET x == Up(r, <<f>>) IN
         /\ Adds(x, r, f.id, f.q, f.v)
         /\ r.agent = "open" /\ ~r.cut /\ r.relay # "gone" => f \in Among(x.up)
         /\ \A h, b : /\ Ordered(r.up, f.id, h, b)
                      /\ r.agent = "open" /\ ~r.cut => (f.t = "resBody" => HeadIn(r.up, f.id, h))
                      /\ r.agent = "open" /\ ~r.cut => (f.t = "resEnd" => BodyIn(r.up, f.id, b))
                      => Ordered(x.up, f.id, h, b)
  <1> DEFINE x == Up(r, <<f>>)
             u == r.up \o <<f>>
  <1>1. r.up \in Seq(Frames)
    BY DEF WsConns
  <1>2. u \in Seq(Frames) /\ Among(u) = Among(r.up) \cup {f}
    BY <1>1, AmongSent
  <1>3. \A k, h, b : k # f.id /\ Ordered(r.up, k, h, b) => Ordered(u, k, h, b)
    BY <1>1, OrderedSent
  <1>4. \A h, b : /\ Ordered(r.up, f.id, h, b)
                  /\ f.t = "resBody" => HeadIn(r.up, f.id, h)
                  /\ f.t = "resEnd" => BodyIn(r.up, f.id, b)
                  => Ordered(u, f.id, h, b)
    BY <1>1, OrderedSent
  <1>5. CASE r.agent = "open" /\ ~r.cut /\ r.relay # "gone"
    <2>1. x = [r EXCEPT !.up = u]
      BY <1>5 DEF Up
    <2> HIDE DEF u, x
    <2>2. /\ x \in WsConns /\ x.next = r.next /\ x.link = r.link /\ x.version = r.version
          /\ x.agent = r.agent /\ x.relay = r.relay /\ x.cut = r.cut /\ x.down = r.down
             /\ x.up = u
      BY <1>2, <2>1 DEF WsConns
    <2>3. Adds(x, r, f.id, f.q, f.v)
      BY <1>2, <1>3, <1>5, <2>2 DEF Adds
    <2>4. \A h, b : /\ Ordered(r.up, f.id, h, b)
                    /\ r.agent = "open" /\ ~r.cut => (f.t = "resBody" => HeadIn(r.up, f.id, h))
                    /\ r.agent = "open" /\ ~r.cut => (f.t = "resEnd" => BodyIn(r.up, f.id, b))
                    => Ordered(x.up, f.id, h, b)
      BY <1>4, <1>5, <2>2
    <2>5. f \in Among(x.up)
      BY <1>2, <2>2
    <2> QED
      BY <2>3, <2>4, <2>5 DEF x
  <1>6. CASE ~(r.agent = "open" /\ ~r.cut /\ r.relay # "gone")
    <2>1. x = r
      BY <1>6 DEF Up
    <2>2. Adds(r, r, f.id, f.q, f.v)
      BY DEF Adds
    <2> HIDE DEF x
    <2>3. x.up = r.up
      BY <2>1
    <2> QED
      BY <1>6, <2>1, <2>2 DEF x
  <1> QED
    BY <1>5, <1>6

LEMMA SoundAdds ==
  ASSUME NEW r \in WsConns, NEW v, Sound(r, v), NEW i, NEW q, NEW x, Adds(x, r, i, q, v),
         i < r.next
  PROVE  Sound(x, v)
  <1>1. \A f \in Among(x.up) \cup Among(x.down) : f.id < x.next
    BY DEF Sound, Adds
  <1>2. x.agent \in Before => x.up = <<>> /\ ~x.link /\ x.next = 1
    <2> SUFFICES ASSUME x.agent \in Before PROVE x.up = <<>> /\ ~x.link /\ x.next = 1
      OBVIOUS
    <2>1. r.agent \in Before /\ r.agent # "open" /\ r.up = <<>> /\ ~r.link /\ r.next = 1
      BY DEF Sound, Adds, Before
    <2>2. Among(x.up) = {}
      BY <2>1, NothingAmong DEF Adds
    <2>3. x.up \in Seq(Frames)
      BY DEF Adds, WsConns
    <2>4. x.up # <<>> => Head(x.up) \in Among(x.up)
      BY <2>3, AmongRest
    <2> QED
      BY <2>1, <2>2, <2>4 DEF Adds
  <1>3. x.relay = "open" => x.link
    BY DEF Sound, Adds
  <1>4. \A f \in Among(x.up) : f \in Among(r.up) \/ (r.agent = "open" /\ f.v = v)
    BY DEF Adds
  <1>5. \A f \in Among(x.up) : f.t # "close" =>
          (x.agent = "open" => f.v = v) /\ (x.link => f.v = x.version)
    BY <1>4 DEF Sound, Adds
  <1>6. \A f, g \in Among(x.up) : f.t # "close" /\ g.t # "close" => f.v = g.v
    BY <1>4 DEF Sound
  <1>7. x.agent = "open" /\ x.link => x.version = v
    BY DEF Sound, Adds
  <1>8. \A f \in Among(x.up) : f.t # "close" =>
          /\ x.agent = "open" => f.v = v
          /\ x.link => f.v = x.version
          /\ \A g \in Among(x.up) : g.t # "close" => f.v = g.v
    BY <1>5, <1>6
  <1> QED
    BY <1>1, <1>2, <1>3, <1>7, <1>8 DEF Sound

LEMMA ServesAdds ==
  ASSUME NEW r \in WsConns, NEW w, NEW p, Serves(r, w, p), NEW x, NEW i, NEW q, NEW v, Adds(x, r,
         i, q, v),
         w.id = i => p = q /\ Ordered(x.up, i, w.head, w.body)
  PROVE  Serves(x, w, p)
  <1>1. \A f \in Among(x.up) \cup Among(x.down) : f.id = w.id => f.q = p
    BY DEF Serves, Adds
  <1>2. Ordered(x.up, w.id, w.head, w.body)
    BY DEF Serves, Adds
  <1> QED
    BY <1>1, <1>2 DEF Serves, Adds

LEMMA MeetsAdds ==
  ASSUME NEW r, NEW st, NEW w, NEW p, Meets(r, st, w, p), NEW x, NEW i, NEW q, NEW v, Adds(x, r,
         i, q, v)
  PROVE  Meets(x, st, w, p)
  BY DEF Meets, Adds, HeadIn, BodyIn

(* A step that sends answers of stream i, about n, over s, which is x then. *)
Sends(s, i, n, x) ==
  /\ Adds(x, sock[s], i, n, agent.version) /\ i < sock[s].next
  /\ \A q \in Requests : Asked(q, s) /\ req[q].id = i => q = n
     /\ Ordered(x.up, i, req[q].head, req[q].body)
  /\ sock' = [sock EXCEPT ![s] = x]
  /\ streams' \in [Ids -> Streams]
  /\ \A j \in Ids : streams'[j].c # 0 /\ streams'[j] # streams[j] =>
       /\ j = i /\ streams'[j].c = s /\ streams[j].c = s
       /\ \A q \in Requests : Asked(q, s) /\ req[q].id = i => Meets(x, streams'[j], req[q], q)

LEMMA Answering ==
  ASSUME Answers, NEW s \in Socks, NEW i, NEW n, NEW x, Sends(s, i, n, x),
         UNCHANGED <<agent, relay, req>>, OthersTyped
  PROVE  Answers'
  <1>1. /\ sock'[s] = x /\ (\A t \in Socks \ {s} : sock'[t] = sock[t]) /\ sock[s] \in WsConns
        /\ Sound(sock[s], agent.version) /\ x \in WsConns /\ Adds(x, sock[s], i, n, agent.version)
        /\ i < sock[s].next /\ streams' \in [Ids -> Streams]
        /\ sock' \in [Socks -> WsConns]
    BY DEF Answers, TypeOK, SocksSound, Adds, Sends
  <1> DEFINE Mine(q) == Asked(q, s) /\ req[q].id = i
  <1>2. \A q \in Requests : Mine(q) => q = n /\ Ordered(x.up, i, req[q].head, req[q].body)
    BY DEF Sends
  <1>3. \A j \in Ids : streams'[j].c # 0 /\ streams'[j] # streams[j] =>
          /\ j = i /\ streams'[j].c = s /\ streams[j].c = s
          /\ \A q \in Requests : Mine(q) => Meets(x, streams'[j], req[q], q)
    BY DEF Sends
  <1>4. TypeOK'
    BY <1>1 DEF Answers, TypeOK, OthersTyped
  <1>5. SocksSound'
    <2>1. Sound(x, agent.version)
      BY <1>1, SoundAdds
    <2> QED
      BY <1>1, <2>1 DEF Answers, SocksSound
  <1>6. AllOwn' /\ Distinct' /\ PageKept'
    BY DEF Answers, AllOwn, Distinct, PageKept, Asked
  <1>7. AllServed'
    <2> SUFFICES ASSUME NEW p \in Requests, req[p].at = "open"
                 PROVE  req[p].sock \in Socks /\ Serves(sock'[req[p].sock], req[p], p)
      BY DEF AllServed
    <2>1. req[p].sock \in Socks /\ Serves(sock[req[p].sock], req[p], p)
      BY DEF Answers, AllServed
    <2>2. CASE req[p].sock = s
      <3>1. req[p].id = i => p = n /\ Ordered(x.up, i, req[p].head, req[p].body)
        BY <1>2, <2>2 DEF Asked
      <3> QED
        BY <1>1, <2>1, <2>2, <3>1, ServesAdds
    <2> QED
      BY <1>1, <2>1, <2>2
  <1>8. AllMet'
    <2> SUFFICES ASSUME NEW j \in Ids, streams'[j].c # 0
                 PROVE  LET c == streams'[j].c IN
                        /\ sock'[c].agent \in {"open", "closing"} /\ j < sock'[c].next
                        /\ \A q \in Requests : Asked(q, c) /\ req[q].id = j =>
                             Meets(sock'[c], streams'[j], req[q], q)
      BY DEF AllMet, Asked
    <2>1. \A c \in Socks : sock'[c].agent = sock[c].agent /\ sock'[c].next = sock[c].next
      BY <1>1 DEF Adds
    <2>2. streams'[j].c \in Socks /\ streams'[j].c = streams[j].c
      BY <1>1, <1>3 DEF Streams
    <2>3. sock'[streams[j].c].agent \in {"open", "closing"} /\ j < sock'[streams[j].c].next
      BY <2>1, <2>2 DEF Answers, AllMet
    <2>4. CASE streams'[j] = streams[j] /\ streams[j].c = s
      <3>1. \A q \in Requests : Asked(q, s) /\ req[q].id = j =>
              Meets(sock[s], streams[j], req[q], q)
        BY <2>2, <2>4 DEF Answers, AllMet
      <3> QED
        BY <1>1, <2>2, <2>3, <2>4, <3>1, MeetsAdds
    <2>5. CASE streams'[j] = streams[j] /\ streams[j].c # s
      BY <1>1, <2>2, <2>3, <2>5 DEF Answers, AllMet
    <2>6. CASE streams'[j] # streams[j]
      BY <1>1, <1>3, <2>2, <2>3, <2>6
    <2> QED
      BY <2>4, <2>5, <2>6
  <1> QED
    BY <1>4, <1>5, <1>6, <1>7, <1>8 DEF Answers

(* A stream whose socket was left goes on unheard. *)
LEMMA UnheardKeeps ==
  ASSUME Answers, NEW i \in Ids, NEW tt \in Streams, tt.c = 0,
         sock' = sock, streams' = [streams EXCEPT ![i] = tt], UNCHANGED <<agent, relay, req>>, OthersTyped
  PROVE  Answers'
  <1>1. SocksFade /\ AgentEndsStay /\ RelayEndsStay
    BY NoneFades DEF AgentEndsStay, RelayEndsStay
  <1>2. streams' \in [Ids -> Streams] /\ \A j \in Ids : streams'[j] \in {tt, streams[j]}
    BY DEF Answers, TypeOK
  <1>3. \A j \in Ids : streams[j].c # 0 =>
          streams[j].c \in Socks /\ sock'[streams[j].c].agent \in {"open", "closing"}
    BY DEF Answers, AllMet, TypeOK, Streams
  <1>4. StreamsFade
    BY <1>2, <1>3 DEF StreamsFade, Continues
  <1> QED
    BY <1>1, <1>4, RequestsSame, AgentSame, RelaySame, Fading

(* What is sent of a stream in its turn: f, and the stream is tt then. *)
Turn(i, f, tt) ==
  /\ f.id = i /\ f.q = streams[i].q /\ f.v = agent.version
  /\ f.t = "resBody" => streams[i].at \in {"answering", "given"}
  /\ f.t = "resEnd" => streams[i].at = "given"
  /\ sock' = [sock EXCEPT ![streams[i].c] = Up(@, <<f>>)]
  /\ streams' = [streams EXCEPT ![i] = tt]
  /\ \/ tt.c = 0
     \/ /\ tt.c = streams[i].c /\ tt.q = streams[i].q
        /\ \/ f.t = "resHead" /\ tt.at = "answering"
           \/ f.t = "resBody" /\ tt.at = "given" /\ streams[i].at = "answering"

LEMMA TurnKeeps ==
  ASSUME Answers, NEW i \in Ids, streams[i].c \in Socks, NEW f \in Frames, NEW tt \in Streams,
         Turn(i, f, tt),
         UNCHANGED <<agent, relay, req>>, OthersTyped
  PROVE  Answers'
  <1> DEFINE s == streams[i].c
  <1>1. /\ f.id = i /\ f.q = streams[i].q /\ f.v = agent.version
        /\ f.t = "resBody" => streams[i].at \in {"answering", "given"}
        /\ f.t = "resEnd" => streams[i].at = "given"
        /\ sock' = [sock EXCEPT ![s] = Up(@, <<f>>)]
        /\ streams' = [streams EXCEPT ![i] = tt]
        /\ \/ tt.c = 0
           \/ /\ tt.c = s /\ tt.q = streams[i].q
              /\ \/ f.t = "resHead" /\ tt.at = "answering"
                 \/ f.t = "resBody" /\ tt.at = "given" /\ streams[i].at = "answering"
        /\ s \in Socks
    BY DEF Turn
  <1> DEFINE r == sock[s]
             x == Up(r, <<f>>)
  <1>2. r \in WsConns /\ s # 0 /\ sock' = [sock EXCEPT ![s] = x] /\ streams \in [Ids -> Streams]
    BY <1>1, RelayAssumption DEF Answers, TypeOK
  <1>3. /\ Adds(x, r, i, streams[i].q, agent.version)
        /\ r.agent = "open" /\ ~r.cut /\ r.relay # "gone" => f \in Among(x.up)
        /\ \A h, b : /\ Ordered(r.up, i, h, b)
                     /\ r.agent = "open" /\ ~r.cut => (f.t = "resBody" => HeadIn(r.up, i, h))
                     /\ r.agent = "open" /\ ~r.cut => (f.t = "resEnd" => BodyIn(r.up, i, b))
                     => Ordered(x.up, i, h, b)
    BY <1>1, <1>2, UpAdds
  <1>4. i < r.next /\ \A q \in Requests : Asked(q, s) /\ req[q].id = i =>
          Meets(r, streams[i], req[q], q)
    BY <1>2 DEF Answers, AllMet
  <1>5. \A q \in Requests : Asked(q, s) => Serves(r, req[q], q)
    BY DEF Answers, AllServed, Asked
  <1> HIDE DEF x, r
  <1>6. ASSUME NEW q \in Requests, Asked(q, s), req[q].id = i
        PROVE  q = streams[i].q /\ Ordered(x.up, i, req[q].head, req[q].body)
    <2>1. Meets(r, streams[i], req[q], q) /\ Serves(r, req[q], q)
      BY <1>4, <1>5, <1>6
    <2> QED
      BY <1>1, <1>3, <1>6, <2>1 DEF Meets, Serves
  <1>7. ASSUME tt.c = s, NEW q \in Requests, Asked(q, s), req[q].id = i
        PROVE  Meets(x, tt, req[q], q)
    <2>1. Meets(r, streams[i], req[q], q) /\ Serves(r, req[q], q)
      BY <1>4, <1>5, <1>7
    <2>2. Meets(x, streams[i], req[q], q) /\ x.agent = r.agent /\ x.cut = r.cut
      BY <1>3, <2>1, MeetsAdds DEF Adds
    <2>3. x.agent = "open" /\ ~x.cut => f \in Among(x.up)
      BY <1>3, <2>1, <2>2 DEF Serves
    <2>4. CASE f.t = "resHead" /\ tt.at = "answering"
      BY <1>1, <1>2, <1>7, <2>2, <2>3, <2>4 DEF Meets, HeadIn
    <2>5. CASE f.t = "resBody" /\ tt.at = "given" /\ streams[i].at = "answering"
      BY <1>1, <1>2, <1>7, <2>2, <2>3, <2>5 DEF Meets, BodyIn
    <2> QED
      BY <1>1, <1>2, <1>7, <2>4, <2>5
  <1>8. streams' \in [Ids -> Streams] /\ streams'[i] = tt /\ \A j \in Ids : j # i =>
          streams'[j] = streams[j]
    BY <1>1, <1>2
  <1>9. \A j \in Ids : streams'[j].c # 0 /\ streams'[j] # streams[j] =>
          /\ j = i /\ streams'[j].c = s /\ streams[j].c = s
          /\ \A q \in Requests : Asked(q, s) /\ req[q].id = i => Meets(x, streams'[j], req[q], q)
    BY <1>1, <1>7, <1>8
  <1>10. /\ Adds(x, sock[s], i, streams[i].q, agent.version) /\ i < sock[s].next
        /\ \A q \in Requests : Asked(q, s) /\ req[q].id = i =>
             q = streams[i].q /\ Ordered(x.up, i, req[q].head, req[q].body)
    BY <1>3, <1>4, <1>6 DEF r
  <1>11. Sends(s, i, streams[i].q, x)
    BY <1>2, <1>8, <1>9, <1>10 DEF Sends
  <1> QED
    BY <1>11, Answering

LEMMA VersionTyped == Answers => agent.version \in Nat /\ Ids \subseteq Nat
  BY RelayAssumption, FS_CardinalityType DEF Answers, TypeOK, Agents, Ids

LEMMA FrameTyped ==
  ASSUME Answers, NEW t \in {"hello", "resHead", "badHead", "resBody", "resEnd"}, NEW i \in Nat,
         NEW q \in Nat
  PROVE  /\ F(t, i, q) \in Frames /\ F(t, i, q).t = t /\ F(t, i, q).id = i
         /\ F(t, i, q).q = q /\ F(t, i, q).v = agent.version
  BY VersionTyped DEF F, Frames

LEMMA AnswerKeeps == ASSUME Answers, NEW i \in Ids, Begins(i) \/ Gives(i)
  \/ Ends(i) PROVE Answers'
  <1>1. streams \in [Ids -> Streams] /\ streams[i].q \in Nat /\ i \in Nat
          /\ streams[i] \in Streams
    BY VersionTyped DEF Answers, TypeOK, Streams
  <1>2. UNCHANGED <<agent, relay, req>> /\ OthersTyped
    <2>1. UNCHANGED <<agent, relay, req, left, rest>>
      BY DEF Begins, Gives, Ends
    <2> QED
      BY <2>1, OthersSame
  <1>3. PICK t \in {"resHead", "resBody", "resEnd"}, tt \in Streams :
          /\ sock' = Answered(i, <<F(t, i, streams[i].q)>>)
             /\ streams' = [streams EXCEPT ![i] = tt]
          /\ t = "resBody" => streams[i].at = "answering"
          /\ t = "resEnd" => streams[i].at = "given"
          /\ \/ tt.c = 0
             \/ /\ tt.c = streams[i].c /\ tt.q = streams[i].q
                /\ (t = "resHead" /\ tt.at = "answering") \/ (t = "resBody" /\ tt.at = "given")
    <2>1. CASE Begins(i)
      <3> DEFINE tt == [streams[i] EXCEPT !.at = "answering"]
      <3>1. tt \in Streams /\ tt.c = streams[i].c /\ tt.q = streams[i].q /\ tt.at = "answering"
        BY <1>1 DEF Streams
      <3>2. sock' = Answered(i, <<F("resHead", i, streams[i].q)>>)
              /\ streams' = [streams EXCEPT ![i] = tt]
        BY <1>1, <2>1 DEF Begins
      <3> HIDE DEF tt
      <3> QED
        BY <3>1, <3>2
    <2>2. CASE Gives(i)
      <3>1. PICK full \in BOOLEAN : streams' = [streams EXCEPT ![i].at = "given", ![i].paused = full]
        BY <2>2 DEF Gives
      <3> DEFINE tt == [streams[i] EXCEPT !.at = "given", !.paused = full]
      <3>2. tt \in Streams /\ tt.c = streams[i].c /\ tt.q = streams[i].q /\ tt.at = "given"
        BY <1>1 DEF Streams
      <3>3. /\ sock' = Answered(i, <<F("resBody", i, streams[i].q)>>)
               /\ streams' = [streams EXCEPT ![i] = tt]
            /\ streams[i].at = "answering"
        BY <1>1, <2>2, <3>1 DEF Gives
      <3> HIDE DEF tt
      <3> QED
        BY <3>2, <3>3
    <2>3. CASE Ends(i)
      <3>1. NoStream \in Streams /\ NoStream.c = 0
        BY DEF NoStream, Streams
      <3> QED
        BY <2>3, <3>1 DEF Ends
    <2> QED
      BY <2>1, <2>2, <2>3
  <1> DEFINE f == F(t, i, streams[i].q)
  <1>4. f \in Frames /\ f.t = t /\ f.id = i /\ f.q = streams[i].q /\ f.v = agent.version
    BY <1>1, FrameTyped
  <1>5. CASE streams[i].c = 0
    BY <1>2, <1>3, <1>5, UnheardKeeps DEF Answered
  <1>6. CASE streams[i].c # 0
    <2>1. streams[i].c \in Socks
      BY <1>1, <1>6 DEF Streams
    <2>2. sock' = [sock EXCEPT ![streams[i].c] = Up(@, <<f>>)]
      BY <1>3, <1>6 DEF Answered
    <2> HIDE DEF f
    <2>3. Turn(i, f, tt)
      BY <1>3, <1>4, <2>2 DEF Turn
    <2> QED
      BY <1>2, <1>4, <2>1, <2>3, TurnKeeps
  <1> QED
    BY <1>5, <1>6

-----------------------------------------------------------------------------
(* An answer that is sent at once. *)
LEMMA OneByOne ==
  ASSUME NEW u \in Seq(Frames), NEW a \in Frames, NEW b \in Frames, NEW c \in Frames
  PROVE  u \o <<a, b, c>> = ((u \o <<a>>) \o <<b>>) \o <<c>>
  <1> DEFINE n == Len(u)
             w == u \o <<a, b, c>>
             u1 == u \o <<a>>
             u2 == u1 \o <<b>>
             u3 == u2 \o <<c>>
  <1>1. n \in Nat /\ u1 \in Seq(Frames) /\ Len(u1) = n + 1 /\ u1[n + 1] = a
          /\ \A k \in 1..n : u1[k] = u[k]
    OBVIOUS
  <1>2. w \in Seq(Frames) /\ Len(w) = n + 3 /\ w[n + 1] = a /\ w[n + 2] = b /\ w[n + 3] = c
          /\ \A k \in 1..n : w[k] = u[k]
    OBVIOUS
  <1> HIDE DEF u1
  <1>3. u2 \in Seq(Frames) /\ Len(u2) = n + 2 /\ u2[n + 2] = b
          /\ \A k \in 1..(n + 1) : u2[k] = u1[k]
    BY <1>1
  <1> HIDE DEF u2
  <1>4. u3 \in Seq(Frames) /\ Len(u3) = n + 3 /\ u3[n + 3] = c
          /\ \A k \in 1..(n + 2) : u3[k] = u2[k]
    BY <1>1, <1>3
  <1> HIDE DEF u3, w, n
  <1>5. \A k \in 1..(n + 3) : k \in 1..n \/ k = n + 1 \/ k = n + 2 \/ k = n + 3
    BY <1>1
  <1>6. \A k \in 1..Len(w) : w[k] = u3[k]
    BY <1>1, <1>2, <1>3, <1>4, <1>5
  <1>7. w = u3
    BY <1>2, <1>4, <1>6, SeqEqual
  <1> QED
    BY <1>7 DEF w, u1, u2, u3

LEMMA RefusalAdds ==
  ASSUME NEW r \in WsConns, NEW i, NEW q, NEW v, NEW a \in Frames, NEW b \in Frames,
         NEW c \in Frames,
         a.t = "badHead", b.t = "resBody", c.t = "resEnd",
         a.id = i, b.id = i, c.id = i, a.q = q, b.q = q, c.q = q, a.v = v, b.v = v, c.v = v
  PROVE  LET x == Up(r, <<a, b, c>>) IN
         Adds(x, r, i, q, v) /\ \A h, e : Ordered(r.up, i, h, e) => Ordered(x.up, i, h, e)
  <1> DEFINE x == Up(r, <<a, b, c>>)
             u1 == r.up \o <<a>>
             u2 == u1 \o <<b>>
             u3 == u2 \o <<c>>
  <1>1. r.up \in Seq(Frames)
    BY DEF WsConns
  <1>2. u1 \in Seq(Frames) /\ Among(u1) = Among(r.up) \cup {a}
    BY <1>1, AmongSent
  <1>3. u2 \in Seq(Frames) /\ Among(u2) = Among(u1) \cup {b}
    BY <1>2, AmongSent
  <1>4. u3 \in Seq(Frames) /\ Among(u3) = Among(u2) \cup {c}
    BY <1>3, AmongSent
  <1>5. r.up \o <<a, b, c>> = u3
    <2>1. \A up \in Seq(Frames) : up \o <<a, b, c>> = ((up \o <<a>>) \o <<b>>) \o <<c>>
      BY OneByOne
    <2> QED
      BY <1>1, <2>1
  <1>6. \A k, h, e : Ordered(r.up, k, h, e) => Ordered(u1, k, h, e)
    BY <1>1, OrderedSent
  <1>7. \A h : HeadIn(u1, i, h)
    BY <1>2 DEF HeadIn
  <1>8. \A e : BodyIn(u2, i, e)
    BY <1>3 DEF BodyIn
  <1> HIDE DEF u1, u2, u3, x
  <1>9. \A k, h, e : Ordered(u1, k, h, e) => Ordered(u2, k, h, e)
    BY <1>2, <1>7, OrderedSent DEF u2
  <1>10. \A k, h, e : Ordered(u2, k, h, e) => Ordered(u3, k, h, e)
    BY <1>3, <1>8, OrderedSent DEF u3
  <1>11. CASE r.agent = "open" /\ ~r.cut /\ r.relay # "gone"
    <2>1. x = [r EXCEPT !.up = u3]
      BY <1>5, <1>11 DEF Up, x
    <2>2. /\ x \in WsConns /\ x.next = r.next /\ x.link = r.link /\ x.version = r.version
          /\ x.agent = r.agent /\ x.relay = r.relay /\ x.cut = r.cut /\ x.down = r.down
             /\ x.up = u3
      BY <1>4, <2>1 DEF WsConns
    <2>3. \A k, h, e : Ordered(r.up, k, h, e) => Ordered(x.up, k, h, e)
      BY <1>6, <1>9, <1>10, <2>2
    <2>4. Adds(x, r, i, q, v)
      BY <1>2, <1>3, <1>4, <1>11, <2>2, <2>3 DEF Adds
    <2> QED
      BY <2>3, <2>4 DEF x
  <1>12. CASE ~(r.agent = "open" /\ ~r.cut /\ r.relay # "gone")
    <2>1. x = r
      BY <1>12 DEF Up, x
    <2>2. Adds(r, r, i, q, v)
      BY DEF Adds
    <2> QED
      BY <2>1, <2>2 DEF x
  <1> QED
    BY <1>11, <1>12

LEMMA RefusalSent ==
  ASSUME Answers, NEW r \in WsConns, NEW i \in Nat, NEW q \in Nat
  PROVE  LET x == Up(r, Refusal(i, q)) IN
         /\ Adds(x, r, i, q, agent.version)
         /\ \A h, e : Ordered(r.up, i, h, e) => Ordered(x.up, i, h, e)
  <1> DEFINE a == F("badHead", i, q)
             b == F("resBody", i, q)
             c == F("resEnd", i, q)
  <1>1. /\ a \in Frames /\ a.t = "badHead" /\ a.id = i /\ a.q = q /\ a.v = agent.version
        /\ b \in Frames /\ b.t = "resBody" /\ b.id = i /\ b.q = q /\ b.v = agent.version
        /\ c \in Frames /\ c.t = "resEnd" /\ c.id = i /\ c.q = q /\ c.v = agent.version
    BY FrameTyped
  <1>2. Refusal(i, q) = <<a, b, c>>
    BY DEF Refusal
  <1> HIDE DEF a, b, c
  <1> QED
    BY <1>1, <1>2, RefusalAdds

(* The web UI cannot be had. *)
LEMMA UnansweredKeeps == ASSUME Answers, NEW i \in Ids, Unanswered(i) PROVE Answers'
  <1> DEFINE s == streams[i].c
             x == Up(sock[s], Refusal(i, streams[i].q))
  <1>1. /\ streams \in [Ids -> Streams] /\ streams[i].q \in Nat /\ i \in Nat
           /\ streams[i] \in Streams
        /\ sock \in [Socks -> WsConns]
    BY VersionTyped DEF Answers, TypeOK, Streams
  <1>2. UNCHANGED <<agent, relay, req>> /\ OthersTyped
    <2>1. UNCHANGED <<agent, relay, req, rest>> /\ Happens("refuse")
      BY DEF Unanswered
    <2> QED
      BY <2>1, OthersSame DEF Happenings
  <1>3. NoStream \in Streams /\ NoStream.c = 0 /\ streams' = [streams EXCEPT ![i] = NoStream]
    BY DEF Unanswered, NoStream, Streams
  <1>4. CASE s = 0
    <2>1. sock' = sock
      BY <1>4 DEF Unanswered, Answered
    <2> QED
      BY <1>2, <1>3, <2>1, UnheardKeeps
  <1>5. CASE s # 0
    <2>1. s \in Socks /\ sock[s] \in WsConns
      BY <1>1, <1>5 DEF Streams
    <2>2. /\ Adds(x, sock[s], i, streams[i].q, agent.version)
          /\ \A h, e : Ordered(sock[s].up, i, h, e) => Ordered(x.up, i, h, e)
      BY <1>1, <2>1, RefusalSent
    <2>3. sock' = [sock EXCEPT ![s] = x]
      BY <1>1, <1>5, <2>1 DEF Unanswered, Answered
    <2> HIDE DEF x
    <2>4. i < sock[s].next /\ \A q \in Requests : Asked(q, s) /\ req[q].id = i =>
            Meets(sock[s], streams[i], req[q], q)
      BY <1>5 DEF Answers, AllMet
    <2>5. \A q \in Requests : Asked(q, s) =>
            Ordered(sock[s].up, req[q].id, req[q].head, req[q].body)
      BY DEF Answers, AllServed, Asked, Serves
    <2>6. \A q \in Requests : Asked(q, s) /\ req[q].id = i =>
            q = streams[i].q /\ Ordered(x.up, i, req[q].head, req[q].body)
      BY <2>2, <2>4, <2>5 DEF Meets
    <2>7. streams' \in [Ids -> Streams]
            /\ \A j \in Ids : streams'[j].c = 0 \/ streams'[j] = streams[j]
      BY <1>1, <1>3
    <2>8. Sends(s, i, streams[i].q, x)
      BY <2>2, <2>3, <2>4, <2>6, <2>7 DEF Sends
    <2> QED
      BY <1>2, <2>1, <2>8, Answering
  <1> QED
    BY <1>4, <1>5

(* A page of the router's own web server that it may not ask for. *)
LEMMA RefusesKeeps ==
  ASSUME Answers, NEW s \in Socks, sock[s].down # <<>>,
         NEW y, y = [sock[s] EXCEPT !.down = Tail(sock[s].down)],
         NEW f, f = Head(sock[s].down),
         sock' = [sock EXCEPT ![s] = Up(y, Refusal(f.id, f.q))],
         UNCHANGED <<agent, streams, relay, req>>, OthersTyped
  PROVE  Answers'
  <1> DEFINE x == Up(y, Refusal(f.id, f.q))
  <1>1. sock[s] \in WsConns /\ streams \in [Ids -> Streams]
    BY DEF Answers, TypeOK
  <1>2. y \in WsConns /\ f \in Frames /\ f \in Among(sock[s].down)
    BY <1>1, TakenFades
  <1>3. /\ y.next = sock[s].next /\ y.link = sock[s].link /\ y.version = sock[s].version
        /\ y.agent = sock[s].agent /\ y.relay = sock[s].relay /\ y.cut = sock[s].cut
           /\ y.up = sock[s].up
    BY <1>1 DEF WsConns
  <1>4. Among(y.down) \subseteq Among(sock[s].down)
    <2>1. y.down = Tail(sock[s].down) /\ sock[s].down \in Seq(Frames)
      BY <1>1 DEF WsConns
    <2> QED
      BY <2>1, AmongRest
  <1>5. f.id \in Nat /\ f.q \in Nat
    BY <1>2 DEF Frames
  <1>6. /\ Adds(x, y, f.id, f.q, agent.version)
        /\ \A h, e : Ordered(y.up, f.id, h, e) => Ordered(x.up, f.id, h, e)
    BY <1>2, <1>5, RefusalSent
  <1> HIDE DEF x
  <1>7. Adds(x, sock[s], f.id, f.q, agent.version)
    BY <1>3, <1>4, <1>6 DEF Adds
  <1>8. Proper(s, f)
    BY <1>2, InQueue
  <1>9. \A q \in Requests : Asked(q, s) =>
          Ordered(sock[s].up, req[q].id, req[q].head, req[q].body)
    BY DEF Answers, AllServed, Asked, Serves
  <1>10. \A q \in Requests : Asked(q, s) /\ req[q].id = f.id =>
           q = f.q /\ Ordered(x.up, f.id, req[q].head, req[q].body)
    BY <1>3, <1>6, <1>8, <1>9 DEF Proper
  <1>11. f.id < sock[s].next /\ sock' = [sock EXCEPT ![s] = x]
    BY <1>8 DEF Proper, x
  <1>12. Sends(s, f.id, f.q, x)
    BY <1>1, <1>7, <1>10, <1>11 DEF Sends
  <1> QED
    BY <1>12, Answering

LEMMA AgentHearsKeeps == ASSUME Answers, NEW s \in Socks, AgentHears(s) PROVE Answers'
  <1> DEFINE f == Head(sock[s].down)
             y == [sock[s] EXCEPT !.down = Tail(sock[s].down)]
  <1>1. /\ sock[s].down # <<>> /\ sock[s].agent \in {"open", "closing"}
        /\ UNCHANGED <<agent, relay, req, world, left, chosen>>
    BY DEF AgentHears
  <1>2. strayed' \in BOOLEAN
    BY DEF AgentHears, Answers, TypeOK
  <1>3. OthersTyped
    BY <1>1, <1>2 DEF OthersTyped, Answers, TypeOK
  <1>4. \/ sock' = [sock EXCEPT ![s] = Up(y, Refusal(f.id, f.q))] /\ streams' = streams
        \/ /\ sock' = [sock EXCEPT ![s] = y] \/ sock' = [sock EXCEPT ![s] = AgentCloses(y)]
           /\ \/ streams' = streams
              \/ streams' = [streams EXCEPT ![f.id] = NoStream]
              \/ streams' = [streams EXCEPT ![f.id].at = IF @ = "head" THEN "asked" ELSE @]
              \/ streams' = [streams EXCEPT ![f.id] = [c |-> s, q |-> f.q, at |-> "head", paused |-> FALSE]]
    BY DEF AgentHears
  <1> HIDE DEF f, y
  <1>5. CASE sock' = [sock EXCEPT ![s] = Up(y, Refusal(f.id, f.q))] /\ streams' = streams
    BY <1>1, <1>3, <1>5, RefusesKeeps DEF f, y
  <1>6. CASE /\ sock' = [sock EXCEPT ![s] = y] \/ sock' = [sock EXCEPT ![s] = AgentCloses(y)]
             /\ \/ streams' = streams
                \/ streams' = [streams EXCEPT ![f.id] = NoStream]
                \/ streams' = [streams EXCEPT ![f.id].at = IF @ = "head" THEN "asked" ELSE @]
                \/ streams' = [streams EXCEPT ![f.id] = [c |-> s, q |-> f.q, at |-> "head", paused |-> FALSE]]
    BY <1>1, <1>3, <1>6, HearsKeeps DEF f, y
  <1> QED
    BY <1>4, <1>5, <1>6

-----------------------------------------------------------------------------
(* A dial lands: HELLO is the first frame of its socket. *)
LEMMA FreshKeeps ==
  ASSUME Answers, NEW s \in Socks, sock[s].agent \in Before,
         NEW x \in WsConns, sock' = [sock EXCEPT ![s] = x], Sound(x, agent.version),
         agent' \in Agents, agent'.version = agent.version, UNCHANGED <<streams, relay, req>>, OthersTyped
  PROVE  Answers'
  <1>1. sock' \in [Socks -> WsConns] /\ sock'[s] = x /\ \A t \in Socks \ {s} : sock'[t] = sock[t]
    BY DEF Answers, TypeOK
  <1>2. TypeOK'
    BY <1>1 DEF Answers, TypeOK, OthersTyped
  <1>3. SocksSound'
    BY <1>1 DEF Answers, SocksSound
  <1>4. AllOwn' /\ Distinct' /\ PageKept'
    BY DEF Answers, AllOwn, Distinct, PageKept, Asked
  <1>5. ~sock[s].link
    BY DEF Answers, SocksSound, Sound
  <1>6. AllServed'
    BY <1>1, <1>5 DEF Answers, AllServed, Serves
  <1>7. \A i \in Ids : streams[i].c # 0 => streams[i].c \in Socks \ {s}
    BY DEF Answers, AllMet, TypeOK, Streams, Before
  <1>8. AllMet'
    <2> SUFFICES ASSUME NEW i \in Ids, streams[i].c # 0
                 PROVE  LET c == streams[i].c IN
                        /\ sock'[c].agent \in {"open", "closing"} /\ i < sock'[c].next
                        /\ \A q \in Requests : Asked(q, c) /\ req[q].id = i =>
                           Meets(sock'[c], streams[i], req[q], q)
      BY DEF AllMet, Asked
    <2>1. sock'[streams[i].c] = sock[streams[i].c]
      BY <1>1, <1>7
    <2> QED
      BY <2>1 DEF Answers, AllMet
  <1> QED
    BY <1>2, <1>3, <1>4, <1>6, <1>8 DEF Answers

LEMMA LandsKeeps == ASSUME Answers, NEW s \in Socks, Lands(s) PROVE Answers'
  <1> DEFINE r == [sock[s] EXCEPT !.agent = "open"]
             f == F("hello", 0, 0)
  <1>1. /\ sock[s] \in WsConns /\ sock[s].agent \in {"dialing", "stale"}
           /\ sock[s].relay \in {"hello", "closing"}
        /\ ~sock[s].cut /\ agent \in Agents
    BY DEF Lands, Answers, TypeOK
  <1>2. /\ Sound(sock[s], agent.version) /\ sock[s].up = <<>> /\ ~sock[s].link /\ sock[s].next = 1
    BY <1>1 DEF Answers, SocksSound, Sound, Before
  <1>3. /\ r \in WsConns /\ r.agent = "open" /\ r.relay = sock[s].relay /\ ~r.cut
           /\ r.up = <<>> /\ ~r.link
        /\ r.next = 1 /\ r.down = sock[s].down
    BY <1>1, <1>2 DEF WsConns
  <1>4. f \in Frames /\ f.id = 0 /\ f.v = agent.version
    BY FrameTyped
  <1>5. UNCHANGED <<streams, relay, req, left, rest>> /\ OthersTyped
    BY OthersSame DEF Lands
  <1> HIDE DEF r, f
  <1>6. Among(<<>>) = {} /\ <<>> \in Seq(Frames)
    BY NothingAmong
  <1>7. \A g \in Frames : <<>> \o <<g>> \in Seq(Frames) /\ Among(<<>> \o <<g>>) = {g}
    BY <1>6, AmongSent
  <1>8. CASE sock[s].agent = "dialing"
    <2> DEFINE x == Up(r, <<f>>)
    <2>1. x = [r EXCEPT !.up = <<>> \o <<f>>]
      BY <1>1, <1>3 DEF Up
    <2>2. /\ x \in WsConns /\ x.agent = "open" /\ x.relay = r.relay /\ x.link = r.link
          /\ x.next = 1 /\ x.down = r.down /\ Among(x.up) = {f}
      BY <1>3, <1>4, <1>7, <2>1 DEF WsConns
    <2>3. sock' = [sock EXCEPT ![s] = x]
      BY <1>1, <1>8 DEF Lands, Answers, TypeOK, r, f
    <2> HIDE DEF x
    <2>4. Sound(x, agent.version)
      BY <1>1, <1>2, <1>3, <1>4, <2>2 DEF Sound, Before
    <2>5. agent' \in Agents /\ agent'.version = agent.version
      <3>1. \/ agent' = [agent EXCEPT !.conn = s]
            \/ agent' = [agent EXCEPT !.conn = s, !.misses = 0, !.vpn = FALSE]
        BY <1>8 DEF Lands
      <3>2. CASE agent' = [agent EXCEPT !.conn = s]
        BY <1>1, <3>2 DEF Agents
      <3>3. CASE agent' = [agent EXCEPT !.conn = s, !.misses = 0, !.vpn = FALSE]
        <4>1. agent' = [running |-> agent.running, conn |-> s, due |-> agent.due, version |-> agent.version,
                        vpn |-> FALSE, misses |-> 0, tried |-> agent.tried]
          BY <1>1, <3>3 DEF Agents
        <4> QED
          BY <1>1, <4>1 DEF Agents
      <3> QED
        BY <3>1, <3>2, <3>3
    <2> QED
      BY <1>1, <1>5, <2>2, <2>3, <2>4, <2>5, FreshKeeps DEF Before
  <1>9. CASE sock[s].agent # "dialing"
    <2> DEFINE x == AgentCloses(r)
             u == <<>> \o <<CloseFrame>>
    <2>1. x = [[r EXCEPT !.up = u] EXCEPT !.agent = "closing"]
      BY <1>1, <1>3 DEF Up, AgentCloses
    <2>2. u \in Seq(Frames) /\ Among(u) = {CloseFrame}
      BY <1>7, FreeTyped
    <2> HIDE DEF u
    <2>3. /\ x \in WsConns /\ x.agent = "closing" /\ x.relay = r.relay /\ x.link = r.link
          /\ x.next = 1 /\ x.down = r.down /\ Among(x.up) = {CloseFrame}
      BY <1>3, <2>2, <2>1 DEF WsConns
    <2>4. sock' = [sock EXCEPT ![s] = x] /\ agent' = agent
      BY <1>1, <1>9 DEF Lands, Answers, TypeOK, r
    <2> HIDE DEF x
    <2>5. Sound(x, agent.version)
      BY <1>1, <1>2, <1>3, <2>3, CloseId DEF Sound, Before
    <2> QED
      BY <1>1, <1>5, <2>3, <2>4, <2>5, FreshKeeps DEF Before
  <1> QED
    BY <1>8, <1>9

-----------------------------------------------------------------------------
(* A browser asks. *)
LEMMA RefusedAsk ==
  ASSUME Answers, NEW q \in Requests, UNCHANGED <<sock, agent, streams, relay>>, OthersTyped,
         req' = [req EXCEPT ![q] = Closed(@, "error")], req[q].at = "new"
  PROVE  Answers'
  <1>1. req \in [Requests -> Browsers] /\ req[q] \in Browsers
    BY DEF Answers, TypeOK
  <1> DEFINE w == Closed(req[q], "error")
  <1>2. w \in Browsers /\ Alike(w, req[q]) /\ w.at = "ended" /\ w.how = "error"
    BY <1>1 DEF Browsers, Alike, Closed
  <1>3. req' = [req EXCEPT ![q] = w]
    BY <1>1
  <1> HIDE DEF w
  <1>4. req' \in [Requests -> Browsers] /\ req'[q] = w
          /\ \A p \in Requests \ {q} : req'[p] = req[p]
    BY <1>1, <1>2, <1>3
  <1>5. \A p \in Requests : req[p].at = "open" => sock'[req[p].sock].relay \in {"open", "closing"}
    BY DEF Answers, AllServed, Serves
  <1>6. \A p \in Requests : Alike(req[p], req[p])
    BY DEF Alike
  <1>7. \A p \in Requests :
          /\ Alike(req'[p], req[p])
          /\ \/ req'[p].at = req[p].at /\ req'[p].how = req[p].how
             \/ req'[p].at = "ended" /\ req'[p].how \in {"error", "cut", "left"}
          /\ req'[p].at = "open" => sock'[req[p].sock].relay \in {"open", "closing"}
    BY <1>2, <1>4, <1>5, <1>6
  <1>8. RequestsFade
    BY <1>4, <1>7 DEF RequestsFade
  <1>9. AgentEndsStay /\ SocksFade
    BY NoneFades DEF AgentEndsStay
  <1> QED
    BY <1>8, <1>9, StreamsSame, AgentSame, RelaySame, Fading

(* Its frames go behind what is under way, with an id that is new. *)
LEMMA AmongBoth ==
  ASSUME NEW u \in Seq(Frames), NEW w \in Seq(Frames)
  PROVE  u \o w \in Seq(Frames) /\ Among(u \o w) \subseteq Among(u) \cup Among(w)
  <1> DEFINE n == Len(u)
             m == Len(w)
             z == u \o w
  <1>1. /\ z \in Seq(Frames) /\ n \in Nat /\ m \in Nat
        /\ DOMAIN z = 1..(n + m) /\ DOMAIN u = 1..n /\ DOMAIN w = 1..m
        /\ \A k \in 1..(n + m) : z[k] = IF k <= n THEN u[k] ELSE w[k - n]
    OBVIOUS
  <1> HIDE DEF z, n, m
  <1>2. ASSUME NEW k \in 1..(n + m) PROVE z[k] \in Among(u) \cup Among(w)
    <2>1. CASE k <= n
      BY <1>1, <2>1 DEF Among
    <2>2. CASE ~(k <= n)
      <3>1. k - n \in 1..m
        BY <1>1, <2>2
      <3> QED
        BY <1>1, <2>2, <3>1 DEF Among
    <2> QED
      BY <2>1, <2>2
  <1>3. Among(z) \subseteq Among(u) \cup Among(w)
    BY <1>1, <1>2 DEF Among
  <1> QED
    BY <1>1, <1>3 DEF z

(* A stream of its own: its frames are the only ones of its id. *)
LEMMA NextTaken ==
  ASSUME NEW r \in WsConns, NEW y, y = [r EXCEPT !.next = r.next + 1]
  PROVE  /\ y \in WsConns /\ y.next = r.next + 1 /\ y.agent = r.agent /\ y.relay = r.relay
            /\ y.link = r.link
         /\ y.version = r.version /\ y.cut = r.cut /\ y.up = r.up /\ y.down = r.down
  <1>1. r.next + 1 \in Nat \ {0}
    BY DEF WsConns
  <1> QED
    BY <1>1 DEF WsConns

LEMMA DownTyped ==
  ASSUME NEW r \in WsConns, NEW d \in Seq(Frames), NEW y, y = [r EXCEPT !.down = d]
  PROVE  /\ y \in WsConns /\ y.next = r.next /\ y.agent = r.agent /\ y.relay = r.relay
            /\ y.link = r.link
         /\ y.version = r.version /\ y.cut = r.cut /\ y.up = r.up /\ y.down = d
  BY DEF WsConns

AreOf(fs, i, q) == fs \in Seq(Frames) /\ \A f \in Among(fs) : f.id = i /\ f.q = q

LEMMA OneOrTwo ==
  ASSUME NEW a \in Frames, NEW b \in Frames, NEW i, NEW q, a.id = i, b.id = i, a.q = q, b.q = q
  PROVE  AreOf(<<a>>, i, q) /\ AreOf(<<a>> \o <<b>>, i, q)
  <1>1. <<a>> \in Seq(Frames) /\ Among(<<a>>) = {a}
    BY DEF Among
  <1>2. <<a>> \o <<b>> \in Seq(Frames) /\ Among(<<a>> \o <<b>>) = Among(<<a>>) \cup {b}
    BY <1>1, AmongSent
  <1> QED
    BY <1>1, <1>2 DEF AreOf

Opens(r, v, q, fs, x) ==
  /\ r \in WsConns /\ Sound(r, v) /\ r.relay = "open" /\ AreOf(fs, r.next, q)
  /\ x = Down([r EXCEPT !.next = r.next + 1], fs)

LEMMA NewStream ==
  ASSUME NEW r, NEW v, NEW q, NEW fs, NEW x, Opens(r, v, q, fs, x)
  PROVE  /\ x \in WsConns /\ Sound(x, v) /\ x.next = r.next + 1
         /\ x.agent = r.agent /\ x.relay = r.relay /\ x.link = r.link /\ x.version = r.version
         /\ x.cut = r.cut /\ x.up = r.up
         /\ \A f \in Among(x.down) : f \in Among(r.down) \/ (f.id = r.next /\ f.q = q)
  <1> DEFINE y == [r EXCEPT !.next = r.next + 1]
             d == r.down \o fs
  <1>1. r \in WsConns /\ Sound(r, v) /\ r.relay = "open" /\ AreOf(fs, r.next, q)
          /\ x = Down(y, fs)
    BY DEF Opens
  <1>2. r.next \in Nat \ {0} /\ r.down \in Seq(Frames) /\ r.up \in Seq(Frames)
    BY <1>1 DEF WsConns
  <1>3. /\ y \in WsConns /\ y.next = r.next + 1 /\ y.agent = r.agent /\ y.relay = r.relay
           /\ y.link = r.link
        /\ y.version = r.version /\ y.cut = r.cut /\ y.up = r.up /\ y.down = r.down
    BY <1>1, NextTaken
  <1>4. d \in Seq(Frames) /\ Among(d) \subseteq Among(r.down) \cup Among(fs)
    BY <1>1, <1>2, AmongBoth DEF AreOf
  <1>5. x = [y EXCEPT !.down = d] \/ x = y
    BY <1>1, <1>3 DEF Down
  <1> HIDE DEF y, d
  <1>6. /\ x \in WsConns /\ x.next = r.next + 1 /\ x.agent = r.agent /\ x.relay = r.relay
           /\ x.link = r.link
        /\ x.version = r.version /\ x.cut = r.cut /\ x.up = r.up /\ x.down \in {d, r.down}
    <2>1. CASE x = y
      BY <1>3, <2>1
    <2>2. CASE x = [y EXCEPT !.down = d]
      BY <1>3, <1>4, <2>2, DownTyped
    <2> QED
      BY <1>5, <2>1, <2>2
  <1>7. \A f \in Among(x.down) : f \in Among(r.down) \/ (f.id = r.next /\ f.q = q)
    BY <1>1, <1>4, <1>6 DEF AreOf
  <1>8. \A f \in Frames : f.id \in Nat
    BY DEF Frames
  <1>9. \A f \in Among(x.up) \cup Among(x.down) : f.id < x.next
    <2>1. \A f \in Among(r.up) \cup Among(r.down) : f.id < r.next /\ f.id \in Nat
      BY <1>1, <1>2, <1>8 DEF Sound, Among
    <2> QED
      BY <1>2, <1>6, <1>7, <2>1
  <1>10. r.agent \notin Before
    BY <1>1 DEF Sound
  <1>11. Sound(x, v)
    BY <1>1, <1>6, <1>9, <1>10 DEF Sound
  <1> QED
    BY <1>6, <1>7, <1>11

(* It is given a page that was kept, or a stream of its own: w, on x. *)
LEMMA AsksKeeps == ASSUME Answers, NEW q \in Requests, Asks(q) PROVE Answers'
  <1> DEFINE s == relay.current
             i == sock[s].next
  <1>1. /\ req[q].at = "new" /\ req[q] \in Browsers /\ req \in [Requests -> Browsers]
           /\ Own(req[q], q)
        /\ relay \in Relays
    BY DEF Asks, Answers, TypeOK, AllOwn
  <1>2. UNCHANGED <<agent, streams, relay>> /\ OthersTyped
    <2>1. UNCHANGED <<agent, streams, relay, left, rest>>
      BY DEF Asks, ends
    <2> QED
      BY <2>1, OthersSame
  <1>3. CASE ~Online
    BY <1>1, <1>2, <1>3, RefusedAsk DEF Asks
  <1>4. Online => s \in Socks /\ sock[s] \in WsConns /\ sock[s].relay = "open" /\ sock[s].link
    BY <1>1 DEF Online, Answers, TypeOK, Relays, SocksSound, Sound
  <1>5. CASE Online /\ Kept(q)
    <2> DEFINE over == [req[q] EXCEPT !.over = sock[s].version]
               w == Closed([over EXCEPT !.made = relay.cached.made], "cached")
    <2>1. req' = [req EXCEPT ![q] = w] /\ sock' = sock
      BY <1>5 DEF Asks
    <2>2. relay.cached.made = sock[s].version /\ sock[s].version \in Nat
      BY <1>4, <1>5 DEF Kept, Answers, PageKept, WsConns
    <2>3. w \in Browsers /\ w.at = "ended" /\ Own(w, q)
      BY <1>1, <2>2 DEF Browsers, Own, Closed
    <2> HIDE DEF w
    <2>4. req' \in [Requests -> Browsers] /\ req'[q] = w
            /\ \A p \in Requests \ {q} : req'[p] = req[p]
      BY <1>1, <2>1, <2>3
    <2>5. \A p \in Requests : req'[p].at = "open" => req'[p] = req[p]
      BY <2>3, <2>4
    <2>6. TypeOK'
      BY <1>2, <2>1, <2>4 DEF Answers, TypeOK, OthersTyped
    <2>7. AllOwn'
      BY <2>3, <2>4 DEF Answers, AllOwn
    <2>8. AllServed' /\ Distinct'
      BY <2>1, <2>5 DEF Answers, AllServed, Distinct, Asked
    <2>9. AllMet'
      BY <1>2, <2>1, <2>5 DEF Answers, AllMet, Asked
    <2>10. SocksSound' /\ PageKept'
      BY <1>2, <2>1 DEF Answers, SocksSound, PageKept
    <2> QED
      BY <2>6, <2>7, <2>8, <2>9, <2>10 DEF Answers
  <1>6. CASE Online /\ ~Kept(q)
    <2> DEFINE w == [req[q] EXCEPT !.over = sock[s].version, !.at = "open", !.sock = s, !.id = i]
               y == [sock[s] EXCEPT !.next = i + 1]
             a == D("reqHead", i, q)
             b == D("reqEnd", i, q)
    <2>1. q \in Nat /\ i \in Nat \ {0}
      BY <1>4, <1>6, RelayAssumption, FS_CardinalityType DEF WsConns
    <2>2. a \in Frames /\ b \in Frames /\ a.id = i /\ b.id = i /\ a.q = q /\ b.q = q
      BY <2>1 DEF D, Frames
    <2>3. sock' = [sock EXCEPT ![s] = Down(y, <<a>> \o IF req[q].sent THEN <<b>> ELSE <<>>)]
      BY <1>4, <1>6 DEF Asks, Answers, TypeOK
    <2> HIDE DEF a, b, y
    <2>4. PICK fs : AreOf(fs, i, q) /\ sock' = [sock EXCEPT ![s] = Down(y, fs)]
      <3> DEFINE one == <<a>>
                 two == <<a>> \o <<b>>
      <3>1. sock' = [sock EXCEPT ![s] = Down(y, one)] \/ sock' = [sock EXCEPT ![s] = Down(y, two)]
        <4>1. <<a>> \o <<>> = <<a>>
          OBVIOUS
        <4> QED
          BY <2>3, <4>1
      <3>2. AreOf(one, i, q) /\ AreOf(two, i, q)
        BY <2>2, OneOrTwo
      <3> HIDE DEF one, two
      <3> QED
        BY <3>1, <3>2
    <2>5. req' = [req EXCEPT ![q] = w]
      BY <1>1, <1>6 DEF Asks
    <2> DEFINE x == Down(y, fs)
    <2>6. /\ x \in WsConns /\ Sound(x, agent.version) /\ x.next = i + 1
          /\ x.agent = sock[s].agent /\ x.relay = sock[s].relay /\ x.link = sock[s].link
          /\ x.version = sock[s].version /\ x.cut = sock[s].cut /\ x.up = sock[s].up
          /\ \A f \in Among(x.down) : f \in Among(sock[s].down) \/ (f.id = i /\ f.q = q)
      <3>1. Sound(sock[s], agent.version)
        BY <1>4, <1>6 DEF Answers, SocksSound
      <3>2. sock[s] \in WsConns /\ sock[s].relay = "open" /\ AreOf(fs, sock[s].next, q)
        BY <1>4, <1>6, <2>4
      <3>3. x = Down([sock[s] EXCEPT !.next = sock[s].next + 1], fs)
        BY DEF y
      <3> HIDE DEF x, w
      <3>4. Opens(sock[s], agent.version, q, fs, x)
        BY <3>1, <3>2, <3>3 DEF Opens
      <3> QED
        BY <3>4, NewStream
    <2> HIDE DEF x
    <2>7. sock' \in [Socks -> WsConns] /\ sock'[s] = x
            /\ \A t \in Socks \ {s} : sock'[t] = sock[t]
      BY <1>4, <1>6, <2>4, <2>6 DEF Answers, TypeOK, x
    <2>8. /\ w \in Browsers /\ w.at = "open" /\ w.sock = s /\ w.id = i /\ w.over = sock[s].version
          /\ w.head = req[q].head /\ w.body = req[q].body /\ w.got = req[q].got
             /\ w.made = req[q].made
          /\ w.how = req[q].how
      BY <1>1, <1>4, <1>6, <2>1 DEF Browsers, WsConns
    <2> HIDE DEF w
    <2>9. req' \in [Requests -> Browsers] /\ req'[q] = w
            /\ \A p \in Requests \ {q} : req'[p] = req[p]
      BY <1>1, <2>5, <2>8
    <2>10. TypeOK'
      BY <1>2, <2>7, <2>9 DEF Answers, TypeOK, OthersTyped
    <2>11. SocksSound' /\ PageKept'
      BY <1>2, <2>6, <2>7 DEF Answers, SocksSound, PageKept
    <2>12. AllOwn'
      <3>1. Own(w, q)
        BY <1>1, <2>8 DEF Own, Browsers
      <3> QED
        BY <2>9, <3>1 DEF Answers, AllOwn
    <2>13. \A f \in Among(sock[s].up) \cup Among(sock[s].down) : f.id < i /\ f.id \in Nat
      <3>1. \A f \in Among(sock[s].up) \cup Among(sock[s].down) : f.id < i
        BY <1>4, <1>6 DEF Answers, SocksSound, Sound
      <3>2. \A f \in Among(sock[s].up) \cup Among(sock[s].down) : f \in Frames
        BY <1>4, <1>6 DEF Among, WsConns
      <3> QED
        BY <3>1, <3>2 DEF Frames
    <2>14. Serves(x, w, q)
      <3>1. \A f \in Among(x.up) \cup Among(x.down) : f.id = i => f.q = q
        BY <2>1, <2>6, <2>13
      <3>2. \A k \in DOMAIN x.up : x.up[k].id # i
        BY <2>1, <2>6, <2>13 DEF Among
      <3>3. Ordered(x.up, w.id, w.head, w.body)
        BY <2>8, <3>2 DEF Ordered
      <3> QED
        BY <1>4, <1>6, <2>1, <2>6, <2>8, <3>1, <3>3 DEF Serves
    <2>15. \A p \in Requests : Asked(p, s) => req[p].id < i /\ req[p].id \in Nat
      BY <2>1, <1>4, <1>6 DEF Answers, AllServed, Asked, Serves
    <2>16. ASSUME NEW p \in Requests, req'[p].at = "open"
           PROVE  req'[p].sock \in Socks /\ Serves(sock'[req'[p].sock], req'[p], p)
      <3>1. CASE p = q
        BY <1>4, <1>6, <2>7, <2>8, <2>9, <2>14, <3>1
      <3>2. CASE p # q
        <4>1. req'[p] = req[p] /\ req[p].at = "open" /\ req[p].sock \in Socks
                /\ Serves(sock[req[p].sock], req[p], p)
          BY <2>9, <2>16, <3>2 DEF Answers, AllServed
        <4>2. CASE req[p].sock # s
          BY <2>7, <4>1, <4>2
        <4>3. CASE req[p].sock = s
          <5>1. req[p].id \in 1..(i - 1) /\ req[p].id # i /\ req[p].id \in 1..(x.next - 1)
            BY <2>1, <2>6, <4>1, <4>3 DEF Serves
          <5>2. \A f \in Among(x.up) \cup Among(x.down) : f.id = req[p].id => f.q = p
            BY <2>6, <4>1, <4>3, <5>1 DEF Serves
          <5>3. Serves(x, req[p], p)
            BY <2>6, <4>1, <4>3, <5>1, <5>2 DEF Serves
          <5> QED
            BY <1>4, <1>6, <2>7, <4>1, <4>3, <5>3
        <4> QED
          BY <4>2, <4>3
      <3> QED
        BY <3>1, <3>2
    <2>17. AllServed'
      BY <2>16 DEF AllServed
    <2>18. Distinct'
      <3> SUFFICES ASSUME NEW p \in Requests, NEW o \in Requests, req'[p].at = "open", req'[o].at = "open",
                          req'[o].sock = req'[p].sock, req'[p].id = req'[o].id
                   PROVE  p = o
        BY DEF Distinct, Asked
      <3>1. CASE p # q /\ o # q
        BY <2>9, <3>1 DEF Answers, Distinct, Asked
      <3>2. CASE p = q /\ o # q
        BY <2>1, <2>8, <2>9, <2>15, <3>2 DEF Asked
      <3>3. CASE p # q /\ o = q
        BY <2>1, <2>8, <2>9, <2>15, <3>3 DEF Asked
      <3> QED
        BY <3>1, <3>2, <3>3
    <2>19. AllMet'
      <3> SUFFICES ASSUME NEW j \in Ids, streams[j].c # 0
                   PROVE  LET c == streams[j].c IN
                          /\ sock'[c].agent \in {"open", "closing"} /\ j < sock'[c].next
                          /\ \A p \in Requests : req'[p].at = "open" /\ req'[p].sock = c
                             /\ req'[p].id = j =>
                               Meets(sock'[c], streams[j], req'[p], p)
        BY <1>2 DEF AllMet, Asked
      <3> DEFINE c == streams[j].c
      <3>1. /\ c \in Socks /\ sock[c].agent \in {"open", "closing"} /\ j < sock[c].next
               /\ j \in Nat
            /\ sock[c].next \in Nat
        BY VersionTyped DEF Answers, AllMet, TypeOK, Streams, WsConns
      <3>2. sock'[c].agent \in {"open", "closing"} /\ j < sock'[c].next
        BY <2>1, <2>6, <2>7, <3>1
      <3>3. sock'[c].agent = sock[c].agent /\ sock'[c].cut = sock[c].cut
              /\ sock'[c].up = sock[c].up
        BY <2>6, <2>7, <3>1
      <3>4. ASSUME NEW p \in Requests, req'[p].at = "open", req'[p].sock = c, req'[p].id = j
            PROVE  Meets(sock'[c], streams[j], req'[p], p)
        <4>1. p # q
          BY <2>1, <2>8, <2>9, <3>1, <3>4
        <4>2. req'[p] = req[p]
          BY <2>9, <4>1
        <4>3. Meets(sock[c], streams[j], req[p], p)
          BY <3>4, <4>2 DEF Answers, AllMet, Asked
        <4> QED
          BY <3>3, <4>2, <4>3 DEF Meets
      <3> QED
        BY <3>2, <3>4
    <2> QED
      BY <2>10, <2>11, <2>12, <2>17, <2>18, <2>19 DEF Answers
  <1> QED
    BY <1>3, <1>5, <1>6

-----------------------------------------------------------------------------
(* A frame that the relay takes from the agent's. *)
Popped(r) == [r EXCEPT !.up = Tail(r.up)]

LEMMA PopTyped ==
  ASSUME NEW r \in WsConns, r.up # <<>>, NEW x, x = Popped(r)
  PROVE  /\ x \in WsConns /\ x.next = r.next /\ x.link = r.link /\ x.version = r.version
            /\ x.agent = r.agent
         /\ x.relay = r.relay /\ x.cut = r.cut /\ x.down = r.down /\ x.up = Tail(r.up)
         /\ r.up \in Seq(Frames) /\ Head(r.up) \in Frames
         /\ Among(r.up) = Among(Tail(r.up)) \cup {Head(r.up)} /\ Head(r.up) \in Among(r.up)
  <1>1. /\ r.up \in Seq(Frames) /\ Head(r.up) \in Frames /\ Tail(r.up) \in Seq(Frames)
        /\ Among(r.up) = Among(Tail(r.up)) \cup {Head(r.up)} /\ Head(r.up) \in Among(r.up)
    BY AmongRest DEF WsConns
  <1> QED
    BY <1>1 DEF WsConns, Popped

LEMMA PopSound ==
  ASSUME NEW r \in WsConns, r.up # <<>>, NEW v, Sound(r, v)
  PROVE  Sound(Popped(r), v)
  <1> DEFINE x == Popped(r)
  <1>1. /\ x.next = r.next /\ x.link = r.link /\ x.version = r.version /\ x.agent = r.agent
        /\ x.relay = r.relay /\ x.down = r.down /\ Among(x.up) \subseteq Among(r.up)
    BY PopTyped
  <1> HIDE DEF x
  <1>2. r.agent \notin Before
    BY DEF Sound
  <1>3. Sound(x, v)
    BY <1>1, <1>2 DEF Sound
  <1> QED
    BY <1>3 DEF x

(* z is w after f: it has its head, and its first bytes, if f is that. *)
Hears(z, w, f) ==
  /\ z.id = w.id /\ z.over = w.over
  /\ w.head \/ (f.id = w.id /\ f.t \in {"resHead", "badHead"}) => z.head
  /\ w.body \/ (f.id = w.id /\ f.t = "resBody") => z.body

LEMMA PopServes ==
  ASSUME NEW r \in WsConns, r.up # <<>>, NEW w \in Browsers, NEW q, Serves(r, w, q),
         NEW z \in Browsers, Hears(z, w, Head(r.up))
  PROVE  Serves(Popped(r), z, q)
  <1> DEFINE x == Popped(r)
  <1>1. /\ x.next = r.next /\ x.link = r.link /\ x.version = r.version /\ x.relay = r.relay
           /\ x.down = r.down
        /\ Among(x.up) \subseteq Among(r.up) /\ x.up = Tail(r.up) /\ r.up \in Seq(Frames)
    BY PopTyped
  <1>2. Ordered(r.up, w.id, w.head, w.body) /\ z.id = w.id /\ z.over = w.over
    BY DEF Serves, Hears
  <1>3. /\ z.head \/ ~(w.head \/ (Head(r.up).id = w.id
           /\ Head(r.up).t \in {"resHead", "badHead"}))
        /\ z.body \/ ~(w.body \/ (Head(r.up).id = w.id /\ Head(r.up).t = "resBody"))
    BY DEF Hears
  <1>4. Ordered(Tail(r.up), w.id, z.head, z.body)
    BY <1>1, <1>2, <1>3, OrderedRest
  <1> HIDE DEF x
  <1>5. Serves(x, z, q)
    BY <1>1, <1>2, <1>4 DEF Serves
  <1> QED
    BY <1>5 DEF x

LEMMA PopMeets ==
  ASSUME NEW r \in WsConns, r.up # <<>>, NEW st, NEW w, NEW q, Meets(r, st, w, q),
         NEW z, Hears(z, w, Head(r.up))
  PROVE  Meets(Popped(r), st, z, q)
  <1> DEFINE x == Popped(r)
  <1>1. /\ x.agent = r.agent /\ x.cut = r.cut /\ Among(r.up) = Among(x.up) \cup {Head(r.up)}
    BY PopTyped
  <1> HIDE DEF x
  <1>2. HeadIn(r.up, w.id, w.head) => HeadIn(x.up, z.id, z.head)
    BY <1>1 DEF HeadIn, Hears
  <1>3. BodyIn(r.up, w.id, w.body) => BodyIn(x.up, z.id, z.body)
    BY <1>1 DEF BodyIn, Hears
  <1>4. Meets(x, st, z, q)
    BY <1>1, <1>2, <1>3 DEF Meets
  <1> QED
    BY <1>4 DEF x

(* The relay hears a frame of s, which is x then. *)
Heard(s, x) ==
  /\ s \in Socks /\ x \in WsConns /\ Sound(x, agent.version) /\ x.agent = sock[s].agent
     /\ x.next = sock[s].next
  /\ sock' = [t \in Socks |-> sock'[t]] /\ sock'[s] = x
  /\ \A t \in Socks \ {s} :
       /\ Fades(sock'[t], sock[t], {CloseFrame}) /\ sock'[t].agent = sock[t].agent
       /\ sock[t].relay \in {"open", "closing"} => sock'[t].relay \in {"open", "closing"}
  /\ UNCHANGED <<agent, streams>> /\ OthersTyped /\ relay' \in Relays /\ PageKept'
  /\ req' \in [Requests -> Browsers]
  /\ \A q \in Requests :
       /\ Own(req'[q], q) /\ req'[q].sock = req[q].sock /\ req'[q].id = req[q].id
       /\ req'[q].at = "open" => req[q].at = "open"
       /\ ~Asked(q, s) => req'[q] = req[q]
  /\ \A q \in Requests : Asked(q, s) /\ req'[q].at = "open" =>
       /\ Serves(x, req'[q], q)
       /\ \A i \in Ids : req[q].id = i /\ Meets(sock[s], streams[i], req[q], q) =>
          Meets(x, streams[i], req'[q], q)

LEMMA HeardKeeps == ASSUME Answers, NEW s, NEW x, Heard(s, x) PROVE Answers'
  <1>1. s \in Socks /\ \A t \in Socks : sock[t] \in WsConns /\ Sound(sock[t], agent.version)
    BY DEF Heard, Answers, TypeOK, SocksSound
  <1>2. ASSUME NEW t \in Socks PROVE sock'[t] \in WsConns /\ Sound(sock'[t], agent'.version)
    <2>1. CASE t = s
      BY <2>1 DEF Heard
    <2>2. CASE t # s
      <3>1. Fades(sock'[t], sock[t], {CloseFrame}) /\ agent' = agent
        BY <2>2 DEF Heard
      <3>2. \A f \in {CloseFrame} : f.id < sock[t].next
        BY CloseProper DEF Proper
      <3>3. Sound(sock'[t], agent.version)
        BY <1>1, <3>1, <3>2, SoundFades
      <3> QED
        BY <3>1, <3>3 DEF Fades
    <2> QED
      BY <2>1, <2>2
  <1>3. TypeOK'
    <2>1. sock' \in [Socks -> WsConns]
      BY <1>2 DEF Heard
    <2> QED
      BY <2>1 DEF Heard, Answers, TypeOK, OthersTyped
  <1>4. SocksSound' /\ AllOwn' /\ PageKept'
    BY <1>2 DEF SocksSound, AllOwn, Heard
  <1>5. Distinct'
    BY DEF Heard, Answers, Distinct, Asked
  <1>6. ASSUME NEW t \in Socks \ {s}
        PROVE  /\ Fades(sock'[t], sock[t], {CloseFrame}) /\ sock'[t].agent = sock[t].agent
               /\ sock[t].relay \in {"open", "closing"} => sock'[t].relay \in {"open", "closing"}
               /\ \A f \in {CloseFrame} : Proper(t, f)
    BY CloseProper DEF Heard
  <1>7. ASSUME NEW q \in Requests, req'[q].at = "open"
        PROVE  req'[q].sock \in Socks /\ Serves(sock'[req'[q].sock], req'[q], q)
    <2>1. /\ req[q].at = "open" /\ req'[q].sock = req[q].sock /\ req[q].sock \in Socks
          /\ Serves(sock[req[q].sock], req[q], q) /\ req[q] \in Browsers
      BY <1>7 DEF Heard, Answers, AllServed, TypeOK
    <2>2. CASE req[q].sock = s
      BY <1>7, <2>1, <2>2 DEF Heard, Asked
    <2>3. CASE req[q].sock # s
      <3> DEFINE t == req[q].sock
      <3>1. t \in Socks \ {s} /\ req'[q] = req[q]
        BY <2>1, <2>3 DEF Heard, Asked
      <3>2. \A f \in {CloseFrame} : f.id = req[q].id => f.q = q
        BY <1>6, <2>1, <3>1 DEF Proper, Asked
      <3>3. sock'[t].relay \in {"open", "closing"} /\ Fades(sock'[t], sock[t], {CloseFrame})
        BY <1>6, <2>1, <3>1 DEF Serves
      <3>4. Alike(req[q], req[q])
        BY DEF Alike
      <3>5. Serves(sock'[t], req[q], q)
        BY <1>1, <2>1, <3>1, <3>2, <3>3, <3>4, ServesFades
      <3> QED
        BY <2>1, <3>1, <3>5
    <2> QED
      BY <2>2, <2>3
  <1>8. AllServed'
    BY <1>7 DEF AllServed
  <1>9. AllMet'
    <2> SUFFICES ASSUME NEW i \in Ids, streams[i].c # 0
                 PROVE  LET c == streams[i].c IN
                        /\ sock'[c].agent \in {"open", "closing"} /\ i < sock'[c].next
                        /\ \A q \in Requests : req'[q].at = "open" /\ req'[q].sock = c
                           /\ req'[q].id = i =>
                             Meets(sock'[c], streams[i], req'[q], q)
      BY DEF AllMet, Asked, Heard
    <2> DEFINE c == streams[i].c
    <2>1. /\ c \in Socks /\ sock[c].agent \in {"open", "closing"} /\ i < sock[c].next
          /\ \A q \in Requests : Asked(q, c) /\ req[q].id = i =>
             Meets(sock[c], streams[i], req[q], q)
      BY DEF Answers, TypeOK, AllMet, Streams
    <2>2. CASE c = s
      BY <2>1, <2>2 DEF Heard, Asked
    <2>3. CASE c # s
      <3>1. Fades(sock'[c], sock[c], {CloseFrame}) /\ sock'[c].agent = sock[c].agent
        BY <1>6, <2>1, <2>3
      <3>2. sock'[c].next = sock[c].next
        <4>1. sock'[c] # Free
          BY <2>1, <3>1 DEF Free
        <4> QED
          BY <3>1, <4>1 DEF Fades
      <3>3. ASSUME NEW q \in Requests, req'[q].at = "open", req'[q].sock = c, req'[q].id = i
            PROVE  Meets(sock'[c], streams[i], req'[q], q)
        <4>1. Asked(q, c) /\ req[q].id = i /\ req'[q] = req[q]
          BY <2>3, <3>3 DEF Heard, Asked
        <4>2. sock'[c].relay \in {"open", "closing"}
          BY <1>7, <3>3 DEF Serves
        <4>3. Alike(req[q], req[q])
          BY DEF Alike
        <4>4. Meets(sock[c], streams[i], req[q], q)
          BY <2>1, <4>1
        <4> QED
          BY <3>1, <4>1, <4>2, <4>3, <4>4, MeetsFades
      <3> QED
        BY <2>1, <3>1, <3>2, <3>3
    <2> QED
      BY <2>2, <2>3
  <1> QED
    BY <1>3, <1>4, <1>5, <1>8, <1>9 DEF Answers

(* What it hears is of no stream, or of one that no browser waits for. *)
Unheeded(s) ==
  LET f == Head(sock[s].up) IN
  \/ f.t \in {"hello", "close"}
  \/ \A q \in Requests : Asked(q, s) => req[q].id # f.id

LEMMA UnheededPop ==
  ASSUME Answers, NEW s \in Socks, sock[s].up # <<>>, Unheeded(s), NEW q \in Requests, Asked(q, s)
  PROVE  /\ Serves(Popped(sock[s]), req[q], q)
         /\ \A i \in Ids : Meets(sock[s], streams[i], req[q], q) =>
            Meets(Popped(sock[s]), streams[i], req[q], q)
  <1>1. sock[s] \in WsConns /\ req[q] \in Browsers /\ Serves(sock[s], req[q], q)
    BY DEF Answers, TypeOK, AllServed, Asked
  <1>2. Hears(req[q], req[q], Head(sock[s].up))
    BY DEF Hears, Unheeded
  <1> QED
    BY <1>1, <1>2, PopServes, PopMeets

LEMMA OwnAll == Answers => \A q \in Requests : Own(req[q], q)
  BY DEF Answers, AllOwn

LEMMA UnheededKeeps ==
  ASSUME Answers, NEW s \in Socks, sock[s].up # <<>>, Unheeded(s),
         NEW x, x \in {Popped(sock[s]), RelayCloses(Popped(sock[s]))},
         sock' = [sock EXCEPT ![s] = x],
         UNCHANGED <<agent, streams, relay, req>>, OthersTyped
  PROVE  Answers'
  <1> DEFINE y == Popped(sock[s])
  <1>1. sock[s] \in WsConns /\ Sound(sock[s], agent.version) /\ sock \in [Socks -> WsConns]
    BY DEF Answers, TypeOK, SocksSound
  <1>2. /\ y \in WsConns /\ y.agent = sock[s].agent /\ y.next = sock[s].next
           /\ y.relay = sock[s].relay
        /\ y.link = sock[s].link
    BY <1>1, PopTyped
  <1>3. Sound(y, agent.version)
    BY <1>1, PopSound
  <1>4. \A q \in Requests : Asked(q, s) =>
          /\ Serves(y, req[q], q)
          /\ \A i \in Ids : Meets(sock[s], streams[i], req[q], q) =>
             Meets(y, streams[i], req[q], q)
    BY UnheededPop
  <1>5. x \in {y, RelayCloses(y)}
    OBVIOUS
  <1> HIDE DEF y
  <1>6. /\ Fades(x, y, {CloseFrame}) /\ x.agent = y.agent
        /\ y.relay \in {"open", "closing"} => x.relay \in {"open", "closing"}
    <2>1. Fades(y, y, {CloseFrame})
      BY <1>2, Unfaded, Wider
    <2> QED
      BY <1>2, <1>5, <2>1, RelayClosesFades
  <1>7. x \in WsConns
    BY <1>6 DEF Fades
  <1>8. Sound(x, agent.version)
    <2>1. \A f \in {CloseFrame} : f.id < y.next
      BY <1>2, CloseProper DEF Proper
    <2> QED
      BY <1>2, <1>3, <1>6, <2>1, SoundFades
  <1>9. x.next = sock[s].next
    <2>1. CASE x = Free
      <3>1. y.agent = "none"
        BY <1>6, <2>1 DEF Free
      <3>2. sock[s].up = <<>>
        BY <1>1, <1>2, <3>1 DEF Sound, Before
      <3> QED
        BY <3>2
    <2>2. CASE x # Free
      BY <1>2, <1>6, <2>2 DEF Fades
    <2> QED
      BY <2>1, <2>2
  <1>10. ASSUME NEW q \in Requests, Asked(q, s)
         PROVE  /\ Serves(x, req[q], q)
                /\ \A i \in Ids : Meets(sock[s], streams[i], req[q], q) =>
                   Meets(x, streams[i], req[q], q)
    <2>1. /\ Serves(y, req[q], q) /\ req[q] \in Browsers
          /\ \A i \in Ids : Meets(sock[s], streams[i], req[q], q) =>
             Meets(y, streams[i], req[q], q)
      BY <1>4, <1>10 DEF Answers, TypeOK
    <2>2. x.relay \in {"open", "closing"}
      BY <1>6, <2>1 DEF Serves
    <2>3. \A f \in {CloseFrame} : f.id = req[q].id => f.q = q
      BY <1>10, CloseProper DEF Proper
    <2>4. Alike(req[q], req[q])
      BY DEF Alike
    <2>5. Serves(x, req[q], q)
      BY <1>2, <1>6, <2>1, <2>2, <2>3, <2>4, ServesFades
    <2>6. ASSUME NEW i \in Ids, Meets(y, streams[i], req[q], q) PROVE Meets(x, streams[i], req[q], q)
      BY <1>6, <2>2, <2>4, <2>6, MeetsFades
    <2> QED
      BY <2>1, <2>5, <2>6
  <1>11. sock' = [t \in Socks |-> sock'[t]] /\ sock'[s] = x
           /\ \A t \in Socks \ {s} : sock'[t] = sock[t]
    BY <1>1
  <1>12. \A t \in Socks : Fades(sock[t], sock[t], {CloseFrame})
    BY <1>1, Unfaded, Wider
  <1>13. relay' \in Relays /\ PageKept' /\ req' \in [Requests -> Browsers]
    BY DEF Answers, TypeOK, PageKept
  <1>14. Heard(s, x)
    BY <1>2, <1>6, <1>7, <1>8, <1>9, <1>10, <1>11, <1>12, <1>13, OwnAll DEF Heard, Asked
  <1> QED
    BY <1>14, HeardKeeps

(* A HELLO. *)
LEMMA AttachKeeps ==
  ASSUME Answers, NEW s \in Socks, sock[s].up # <<>>, sock[s].relay \in {"hello", "open",
         "closing"},
         Head(sock[s].up).t = "hello", Attach(s, Head(sock[s].up).v), UNCHANGED <<agent, streams>>, OthersTyped
  PROVE  Answers'
  <1> DEFINE f == Head(sock[s].up)
             y == Popped(sock[s])
             x == [sock[s] EXCEPT !.link = TRUE, !.version = f.v, !.up = Tail(sock[s].up),
                                  !.relay = IF sock[s].relay = "hello" THEN "open" ELSE sock[s].relay]
  <1>1. sock[s] \in WsConns /\ Sound(sock[s], agent.version) /\ sock \in [Socks -> WsConns]
    BY DEF Answers, TypeOK, SocksSound
  <1>2. /\ y \in WsConns /\ y.agent = sock[s].agent /\ y.next = sock[s].next
           /\ y.relay = sock[s].relay
        /\ y.link = sock[s].link /\ y.up = Tail(sock[s].up) /\ y.down = sock[s].down
           /\ y.cut = sock[s].cut
        /\ y.version = sock[s].version
        /\ f \in Frames /\ f \in Among(sock[s].up) /\ Among(y.up) \subseteq Among(sock[s].up)
        /\ f.t = "hello"
    BY <1>1, PopTyped
  <1>3. Sound(y, agent.version)
    BY <1>1, PopSound
  <1>4. f.v \in Nat
    BY <1>2 DEF Frames
  <1>5. /\ x \in WsConns /\ x.agent = y.agent /\ x.next = y.next /\ x.link = TRUE
           /\ x.version = f.v
        /\ x.up = y.up /\ x.down = y.down /\ x.cut = y.cut
        /\ x.relay = IF y.relay = "hello" THEN "open" ELSE y.relay
    BY <1>1, <1>2, <1>4 DEF WsConns
  <1>6. /\ sock' = Attached(s, f.v) /\ req' = req
        /\ relay' = [relay EXCEPT !.current = s, !.cached = IF @.label = f.v THEN @ ELSE NoPage]
    BY DEF Attach
  <1>7. sock'[s] = x
    BY <1>6 DEF Attached
  <1> HIDE DEF f, y, x
  <1>8. Sound(x, agent.version)
    <2>1. \A g \in Among(sock[s].up) : g.t # "close" => g.v = f.v
      BY <1>1, <1>2 DEF Sound
    <2>2. sock[s].agent = "open" => f.v = agent.version
      BY <1>1, <1>2 DEF Sound
    <2>3. x.agent \notin Before
      BY <1>1, <1>2, <1>5 DEF Sound
    <2> QED
      BY <1>2, <1>3, <1>5, <2>1, <2>2, <2>3 DEF Sound
  <1>9. sock[s].link => f.v = sock[s].version
    BY <1>1, <1>2 DEF Sound
  <1>10. ASSUME NEW q \in Requests, Asked(q, s)
         PROVE  /\ Serves(x, req[q], q)
                /\ \A i \in Ids : Meets(sock[s], streams[i], req[q], q) =>
                   Meets(x, streams[i], req[q], q)
    <2>1. Unheeded(s)
      BY <1>2 DEF Unheeded, f
    <2>2. /\ Serves(y, req[q], q)
          /\ \A i \in Ids : Meets(sock[s], streams[i], req[q], q) =>
             Meets(y, streams[i], req[q], q)
      BY <1>10, <2>1, UnheededPop DEF y
    <2>3. Serves(x, req[q], q)
      BY <1>2, <1>5, <1>9, <2>2 DEF Serves
    <2>4. \A i \in Ids : Meets(y, streams[i], req[q], q) => Meets(x, streams[i], req[q], q)
      BY <1>5 DEF Meets
    <2> QED
      BY <2>2, <2>3, <2>4
  <1>11. ASSUME NEW t \in Socks \ {s}
         PROVE  /\ Fades(sock'[t], sock[t], {CloseFrame}) /\ sock'[t].agent = sock[t].agent
                /\ sock[t].relay \in {"open", "closing"} => sock'[t].relay \in {"open", "closing"}
    <2>1. sock'[t] \in {sock[t], RelayCloses(sock[t])} /\ sock[t] \in WsConns
      BY <1>1, <1>6 DEF Attached
    <2>2. Fades(sock[t], sock[t], {CloseFrame})
      BY <2>1, Unfaded, Wider
    <2> QED
      BY <2>1, <2>2, RelayClosesFades
  <1>12. sock' = [t \in Socks |-> sock'[t]]
    BY <1>6 DEF Attached
  <1>13. relay' \in Relays /\ PageKept'
    <2>1. relay \in Relays /\ PageKept
      BY DEF Answers, TypeOK
    <2> DEFINE k == IF relay.cached.label = f.v THEN relay.cached ELSE NoPage
    <2>2. k \in [label : Nat, made : Nat] /\ k.made = k.label
      BY <2>1 DEF Relays, PageKept, NoPage
    <2>3. relay' = [known |-> relay.known, current |-> s, cached |-> k]
      BY <1>6, <2>1 DEF Relays
    <2> HIDE DEF k
    <2> QED
      BY <2>1, <2>2, <2>3 DEF Relays, PageKept
  <1>14. req' \in [Requests -> Browsers]
    BY <1>6 DEF Answers, TypeOK
  <1>15. Heard(s, x)
    BY <1>2, <1>5, <1>6, <1>7, <1>8, <1>10, <1>11, <1>12, <1>13, <1>14, OwnAll DEF Heard, Asked
  <1> QED
    BY <1>15, HeardKeeps

(* A frame of an answer, for the browser that waits for it. *)
Told(z, w) ==
  /\ z.sock = w.sock /\ z.id = w.id /\ z.over = w.over /\ z.at = w.at /\ z.how = w.how

LEMMA GotMore ==
  ASSUME NEW w \in Browsers, NEW g \in SUBSET Nat
  PROVE  LET z == [w EXCEPT !.got = g] IN
         /\ z \in Browsers /\ Told(z, w) /\ z.got = g
         /\ z.head = w.head /\ z.body = w.body /\ z.made = w.made
  BY DEF Browsers, Told

LEMMA HeadWritten ==
  ASSUME NEW w \in Browsers, NEW f \in Frames, f.t \in {"resHead", "badHead"}, ~w.head
  PROVE  /\ Written(w, f) \in Browsers /\ Told(Written(w, f), w)
            /\ Written(w, f).got = w.got \cup {f.q}
         /\ Written(w, f).head /\ Written(w, f).body = w.body /\ Written(w, f).made = w.made
  <1> DEFINE a == [w EXCEPT !.head = TRUE, !.ok = f.t = "resHead"]
             g == w.got \cup {f.q}
             z == [a EXCEPT !.got = g]
  <1>1. Written(w, f) = z
    BY DEF Written
  <1>2. a \in Browsers /\ Told(a, w) /\ a.head = TRUE /\ a.body = w.body /\ a.made = w.made
    BY DEF Browsers, Told
  <1>3. g \in SUBSET Nat
    BY DEF Browsers, Frames
  <1> HIDE DEF a, g
  <1>4. z \in Browsers /\ Told(z, a) /\ z.got = g /\ z.head = a.head /\ z.body = a.body
          /\ z.made = a.made
    BY <1>2, <1>3, GotMore
  <1> HIDE DEF z
  <1> QED
    BY <1>1, <1>2, <1>4 DEF Told, g

LEMMA BodyWritten ==
  ASSUME NEW w \in Browsers, NEW f \in Frames, f.t = "resBody", w.head
  PROVE  /\ Written(w, f) \in Browsers /\ Told(Written(w, f), w)
            /\ Written(w, f).got = w.got \cup {f.q}
         /\ Written(w, f).head /\ Written(w, f).body /\ Written(w, f).made = f.v
  <1> DEFINE a == [w EXCEPT !.body = TRUE, !.made = f.v]
             g == w.got \cup {f.q}
             z == [a EXCEPT !.got = g]
  <1>1. Written(w, f) = z
    BY DEF Written
  <1>2. a \in Browsers /\ Told(a, w) /\ a.head = w.head /\ a.body = TRUE /\ a.made = f.v
    BY DEF Browsers, Told, Frames
  <1>3. g \in SUBSET Nat
    BY DEF Browsers, Frames
  <1> HIDE DEF a, g
  <1>4. z \in Browsers /\ Told(z, a) /\ z.got = g /\ z.head = a.head /\ z.body = a.body
          /\ z.made = a.made
    BY <1>2, <1>3, GotMore
  <1> HIDE DEF z
  <1> QED
    BY <1>1, <1>2, <1>4 DEF Told, g

LEMMA FirstIn ==
  ASSUME NEW u, 1 \in DOMAIN u, NEW i, NEW h, NEW b, Ordered(u, i, h, b), u[1].id = i,
         \A j \in DOMAIN u : j \in Nat \ {0}
  PROVE  (u[1].t = "resBody" => h) /\ (u[1].t = "resEnd" => b)
  BY DEF Ordered

LEMMA WrittenOwn ==
  ASSUME NEW r \in WsConns, r.up # <<>>, NEW v, Sound(r, v), NEW w \in Browsers, NEW q, Serves(r,
         w, q), Own(w, q),
         w.at = "open", NEW f, f = Head(r.up), f.id = w.id, f.t # "close",
         NEW z, z = Written(w, f)
  PROVE  /\ z \in Browsers /\ z.sock = w.sock /\ z.over = w.over /\ Own(z, q) /\ Hears(z, w, f)
         /\ z.at = "open" \/ z.at = "ended"
         /\ z.how = "whole" => z.made = r.version
  <1>1. /\ r.up \in Seq(Frames) /\ f \in Frames /\ f \in Among(r.up)
    BY PopTyped
  <1>2. f.q = q /\ r.link /\ w.over = r.version /\ Ordered(r.up, w.id, w.head, w.body)
    BY <1>1 DEF Serves
  <1>3. f.v = r.version /\ f.v \in Nat /\ f.q \in Nat
    BY <1>1, <1>2 DEF Sound, Frames
  <1>4. (f.t = "resBody" => w.head) /\ (f.t = "resEnd" => w.body)
    <2> DEFINE u == r.up
               h == w.head
               b == w.body
    <2>1. 1 \in DOMAIN u /\ Head(u) = u[1] /\ \A j \in DOMAIN u : j \in Nat \ {0}
      BY <1>1
    <2>2. Ordered(u, w.id, h, b) /\ u[1].id = w.id /\ f = u[1]
      BY <1>2, <2>1
    <2> HIDE DEF u, h, b
    <2>3. (u[1].t = "resBody" => h) /\ (u[1].t = "resEnd" => b)
      BY <2>1, <2>2, FirstIn
    <2> QED
      BY <2>2, <2>3 DEF h, b
  <1>5. w.body => w.head
    BY DEF Own
  <1>6. w.how = "none"
    BY DEF Own
  <1>7. CASE f.t \in {"resHead", "badHead"} /\ ~w.head
    <2>1. /\ z \in Browsers /\ Told(z, w) /\ z.got = w.got \cup {f.q}
          /\ z.head /\ z.body = w.body /\ z.made = w.made
      BY <1>1, <1>7, HeadWritten
    <2>2. Own(z, q)
      BY <1>2, <1>5, <1>6, <1>7, <2>1 DEF Own, Told
    <2>3. Hears(z, w, f)
      BY <1>5, <1>7, <2>1 DEF Hears, Told
    <2> QED
      BY <1>6, <2>1, <2>2, <2>3 DEF Told
  <1>8. CASE f.t = "resBody" /\ w.head
    <2>1. /\ z \in Browsers /\ Told(z, w) /\ z.got = w.got \cup {f.q}
          /\ z.head /\ z.body /\ z.made = f.v
      BY <1>1, <1>8, BodyWritten
    <2>2. Own(z, q)
      BY <1>2, <1>3, <1>6, <1>8, <2>1 DEF Own, Told
    <2>3. Hears(z, w, f)
      BY <1>8, <2>1 DEF Hears, Told
    <2> QED
      BY <1>6, <2>1, <2>2, <2>3 DEF Told
  <1>9. CASE f.t = "resEnd" /\ w.head
    <2>1. z = [w EXCEPT !.at = "ended", !.how = "whole"]
      BY <1>9 DEF Written, Closed
    <2>2. /\ z \in Browsers /\ z.head = w.head /\ z.got = w.got /\ z.sock = w.sock /\ z.id = w.id
          /\ z.over = w.over /\ z.body = w.body /\ z.made = w.made /\ z.at = "ended"
             /\ z.how = "whole"
      BY <2>1 DEF Browsers
    <2>3. Own(z, q)
      BY <1>4, <1>9, <2>2 DEF Own
    <2>4. Hears(z, w, f)
      BY <1>9, <2>2 DEF Hears
    <2>5. z.made = r.version
      BY <1>2, <1>4, <1>9, <2>2 DEF Own
    <2> QED
      BY <2>2, <2>3, <2>4, <2>5
  <1>10. CASE f.t = "resEnd" /\ ~w.head
    BY <1>4, <1>5, <1>10
  <1>11. CASE ~(f.t \in {"resHead", "badHead"} /\ ~w.head) /\ f.t \notin {"resBody", "resEnd"}
    <2>1. z = w
      BY <1>11 DEF Written
    <2>2. Hears(w, w, f)
      BY <1>11 DEF Hears
    <2> QED
      BY <1>6, <2>1, <2>2
  <1> QED
    BY <1>4, <1>7, <1>8, <1>9, <1>10, <1>11

LEMMA WrittenKeeps ==
  ASSUME Answers, NEW s \in Socks, sock[s].up # <<>>, NEW f, f = Head(sock[s].up),
         f.t \notin {"hello", "close"},
         NEW q \in Requests, Asked(q, s), req[q].id = f.id, NEW z, z = Written(req[q], f),
         req' = [req EXCEPT ![q] = z], relay' = Keeps(s, z), sock' = [sock EXCEPT ![s] = Popped(sock[s])],
         UNCHANGED <<agent, streams>>, OthersTyped
  PROVE  Answers'
  <1> DEFINE x == Popped(sock[s])
  <1>1. /\ sock[s] \in WsConns /\ Sound(sock[s], agent.version) /\ sock \in [Socks -> WsConns]
        /\ req[q] \in Browsers /\ req \in [Requests -> Browsers] /\ relay \in Relays /\ PageKept
        /\ Serves(sock[s], req[q], q) /\ Own(req[q], q) /\ req[q].at = "open"
    BY DEF Answers, TypeOK, SocksSound, AllServed, AllOwn, Asked
  <1>2. /\ z \in Browsers /\ z.sock = req[q].sock /\ z.over = req[q].over /\ Own(z, q)
           /\ Hears(z, req[q], f)
        /\ z.at = "open" \/ z.at = "ended"
        /\ z.how = "whole" => z.made = sock[s].version
    BY <1>1, WrittenOwn
  <1>3. x \in WsConns /\ x.agent = sock[s].agent /\ x.next = sock[s].next
          /\ Sound(x, agent.version)
    BY <1>1, PopTyped, PopSound
  <1>4. req' \in [Requests -> Browsers] /\ req'[q] = z
          /\ \A p \in Requests \ {q} : req'[p] = req[p]
    BY <1>1, <1>2
  <1>5. sock' = [t \in Socks |-> sock'[t]] /\ sock'[s] = x
          /\ \A t \in Socks \ {s} : sock'[t] = sock[t]
    BY <1>1
  <1>6. relay' \in Relays /\ PageKept'
    <2>1. CASE relay' = relay
      BY <1>1, <2>1 DEF PageKept
    <2>2. CASE relay' # relay
      <3>1. relay' = [relay EXCEPT !.cached = [label |-> sock[s].version, made |-> z.made]]
              /\ z.how = "whole"
        BY <2>2 DEF Keeps
      <3>2. sock[s].version \in Nat /\ z.made = sock[s].version
        BY <1>1, <1>2, <3>1 DEF WsConns
      <3> QED
        BY <1>1, <3>1, <3>2 DEF Relays, PageKept
    <2> QED
      BY <2>1, <2>2
  <1>7. \A p \in Requests \ {q} : Asked(p, s) => req[p].id # f.id
    BY <1>1 DEF Answers, Distinct, Asked
  <1>8. ASSUME NEW p \in Requests, Asked(p, s)
        PROVE  /\ Serves(x, req'[p], p)
               /\ \A i \in Ids : Meets(sock[s], streams[i], req[p], p) =>
                  Meets(x, streams[i], req'[p], p)
    <2>1. Serves(sock[s], req[p], p) /\ req[p] \in Browsers /\ req'[p] \in Browsers
      BY <1>4, <1>8 DEF Answers, AllServed, Asked, TypeOK
    <2>2. Hears(req'[p], req[p], f)
      <3>1. CASE p = q
        BY <1>2, <1>4, <3>1
      <3>2. CASE p # q
        BY <1>4, <1>7, <1>8, <3>2 DEF Hears
      <3> QED
        BY <3>1, <3>2
    <2> QED
      BY <1>1, <2>1, <2>2, PopServes, PopMeets
  <1>9. \A t \in Socks : Fades(sock[t], sock[t], {CloseFrame})
    BY <1>1, Unfaded, Wider
  <1>10. \A p \in Requests :
           /\ Own(req'[p], p) /\ req'[p].sock = req[p].sock /\ req'[p].id = req[p].id
           /\ req'[p].at = "open" => req[p].at = "open"
           /\ ~Asked(p, s) => req'[p] = req[p]
    BY <1>1, <1>2, <1>4, OwnAll DEF Hears
  <1> HIDE DEF x
  <1>11. Heard(s, x)
    BY <1>3, <1>4, <1>5, <1>6, <1>8, <1>9, <1>10 DEF Heard
  <1> QED
    BY <1>11, HeardKeeps

LEMMA RelayHearsKeeps == ASSUME Answers, NEW s \in Socks, RelayHears(s) PROVE Answers'
  <1> DEFINE f == Head(sock[s].up)
  <1>1. /\ sock[s].relay \in {"hello", "open", "closing"} /\ sock[s].up # <<>>
        /\ UNCHANGED <<agent, streams, left, rest>>
    BY DEF RelayHears, ends
  <1>2. OthersTyped
    BY <1>1, OthersSame
  <1>3. \/ f.t = "hello" /\ Attach(s, f.v)
        \/ /\ f.t \in {"hello", "close"}
           /\ sock' = [sock EXCEPT ![s] = RelayCloses(Popped(sock[s]))]
           /\ UNCHANGED <<relay, req>>
        \/ /\ \A q \in Requests : ~(req[q].at = "open" /\ req[q].sock = s /\ req[q].id = f.id)
           /\ sock' = [sock EXCEPT ![s] = Popped(sock[s])] /\ UNCHANGED <<relay, req>>
        \/ /\ f.t \notin {"hello", "close"} /\ sock' = [sock EXCEPT ![s] = Popped(sock[s])]
           /\ \E q \in Requests :
                /\ req[q].at = "open" /\ req[q].sock = s /\ req[q].id = f.id
                /\ req' = [req EXCEPT ![q] = Written(req[q], f)]
                   /\ relay' = Keeps(s, Written(req[q], f))
    BY DEF RelayHears, Popped
  <1> HIDE DEF f
  <1>4. CASE f.t = "hello" /\ Attach(s, f.v)
    BY <1>1, <1>2, <1>4, AttachKeeps DEF f
  <1>5. CASE /\ f.t \in {"hello", "close"}
          /\ sock' = [sock EXCEPT ![s] = RelayCloses(Popped(sock[s]))]
             /\ UNCHANGED <<relay, req>>
    <2>1. Unheeded(s)
      BY <1>5 DEF Unheeded, f
    <2> QED
      BY <1>1, <1>2, <1>5, <2>1, UnheededKeeps
  <1>6. CASE /\ \A q \in Requests : ~(req[q].at = "open" /\ req[q].sock = s /\ req[q].id = f.id)
             /\ sock' = [sock EXCEPT ![s] = Popped(sock[s])] /\ UNCHANGED <<relay, req>>
    <2>1. Unheeded(s)
      BY <1>6 DEF Unheeded, f, Asked
    <2> QED
      BY <1>1, <1>2, <1>6, <2>1, UnheededKeeps
  <1>7. CASE /\ f.t \notin {"hello", "close"} /\ sock' = [sock EXCEPT ![s] = Popped(sock[s])]
             /\ \E q \in Requests :
                  /\ req[q].at = "open" /\ req[q].sock = s /\ req[q].id = f.id
                  /\ req' = [req EXCEPT ![q] = Written(req[q], f)]
                     /\ relay' = Keeps(s, Written(req[q], f))
    <2>1. PICK q \in Requests :
            /\ Asked(q, s) /\ req[q].id = f.id
            /\ req' = [req EXCEPT ![q] = Written(req[q], f)]
               /\ relay' = Keeps(s, Written(req[q], f))
      BY <1>7 DEF Asked
    <2> QED
      BY <1>1, <1>2, <1>7, <2>1, WrittenKeeps DEF f
  <1> QED
    BY <1>3, <1>4, <1>5, <1>6, <1>7

-----------------------------------------------------------------------------
LEMMA AnswersStart == Init => Answers
  <1> SUFFICES ASSUME Init PROVE Answers
    OBVIOUS
  <1>1. \A s \in Socks : sock[s] = Free
    BY DEF Init
  <1>2. sock \in [Socks -> WsConns]
    BY FreeTyped DEF Init
  <1>3. agent \in Agents
    BY DEF Init, Started, Agents
  <1>4. streams \in [Ids -> Streams] /\ \A i \in Ids : streams[i].c = 0
    BY DEF Init, NoStreams, NoStream, Streams
  <1>5. relay \in Relays /\ PageKept
    BY DEF Init, Relays, NoPage, PageKept
  <1>6. chosen \in Scenarios /\ world \in Worlds /\ left \in [Happenings -> Nat]
          /\ strayed \in BOOLEAN
    BY RelayAssumption DEF Init
  <1>7. ASSUME NEW q \in Requests PROVE req[q] \in Browsers /\ req[q].at = "new" /\ Own(req[q], q)
    <2>1. chosen.kinds[q] \in Kinds /\ req[q] = New(chosen.kinds[q])
      BY RelayAssumption DEF Init
    <2> QED
      BY <2>1 DEF New, Browsers, Own
  <1>8. req \in [Requests -> Browsers]
    BY <1>7 DEF Init
  <1>9. Sound(Free, agent.version)
    BY NothingAmong DEF Sound, Free
  <1>10. TypeOK
    BY <1>2, <1>3, <1>4, <1>5, <1>6, <1>8 DEF TypeOK
  <1>11. SocksSound /\ AllOwn /\ AllServed /\ Distinct /\ AllMet
    BY <1>1, <1>4, <1>7, <1>9 DEF SocksSound, AllOwn, AllServed, Distinct, AllMet
  <1> QED
    BY <1>5, <1>10, <1>11 DEF Answers

LEMMA AnswersStep == Answers /\ [Next]_vars => Answers'
  <1> SUFFICES ASSUME Answers, [Next]_vars PROVE Answers'
    OBVIOUS
  <1>1. CASE Dials
    BY <1>1, DialsKeeps
  <1>2. ASSUME NEW s \in Socks, Link(s) PROVE Answers'
    <2>1. CASE Accepts(s) \/ Lands(s) \/ DialFails(s) \/ AgentFinishes(s) \/ AgentSilent(s)
      BY <2>1, AcceptsKeeps, LandsKeeps, DialFailsKeeps, AgentFinishesKeeps, AgentSilentKeeps
    <2>2. CASE AgentHears(s) \/ RelayHears(s) \/ Drains(s) \/ Cut(s)
      BY <2>2, AgentHearsKeeps, RelayHearsKeeps, DrainsKeeps, CutKeeps
    <2>3. CASE RelayFinishes(s) \/ RelaySilent(s) \/ HelloMissing(s)
      BY <2>3, RelayFinishesKeeps, RelayClosesKeeps
    <2> QED
      BY <1>2, <2>1, <2>2, <2>3 DEF Link
  <1>3. ASSUME NEW i \in Ids, WebUi(i) PROVE Answers'
    BY <1>3, AnswerKeeps, UnansweredKeeps DEF WebUi
  <1>4. ASSUME NEW q \in Requests, Browser(q) PROVE Answers'
    BY <1>4, AsksKeeps, TellingKeeps DEF Browser
  <1>5. CASE Stops \/ Reconfigures
    <2>1. \/ Happens("stop") /\ Stopped(FALSE)
          \/ Happens("reconfigure") /\ Stopped(TRUE)
      BY <1>5 DEF Stops, Reconfigures
    <2> QED
      BY <2>1, StoppedKeeps DEF Happenings
  <1>6. CASE TenMinutes \/ Starts \/ Restarts \/ Revokes \/ RelayRestarts \/ Shifts
    BY <1>6, AgentOnlyKeeps, RestartsKeeps, RevokesKeeps, RelayRestartsKeeps, ShiftsKeeps
  <1>7. CASE UNCHANGED vars
    <2>1. UNCHANGED <<sock, agent, streams, relay, req, world, left, chosen, strayed>>
      BY <1>7 DEF vars
    <2> QED
      BY <2>1 DEF Answers, TypeOK, SocksSound, AllOwn, AllServed, Distinct, AllMet, PageKept,
         Asked
  <1> QED
    BY <1>1, <1>2, <1>3, <1>4, <1>5, <1>6, <1>7 DEF Next, Others

(* The sockets, the frames in flight and every record the two processes    *)
(* keep have their types: with the bounds of `left' any number, queues of  *)
(* any length.                                                             *)
THEOREM TypeCorrect == Spec => []TypeOK
  <1>1. Answers => TypeOK
    BY DEF Answers
  <1> QED
    BY <1>1, AnswersStart, AnswersStep, PTL DEF Spec

(* What a browser is given is the answer to its own request, and of the    *)
(* version its router ran when it asked; what is said to be whole has had  *)
(* its first bytes - for any number of links, stream ids that begin anew   *)
(* with each, and closes, cuts and restarts on either side (Link, request  *)
(* and _onMessage of proxy.js, the streams of agent.js).                   *)
THEOREM OwnAnswers == Spec => []OwnAnswer
  BY OwnEnough, AnswersStart, AnswersStep, PTL DEF Spec
=============================================================================
