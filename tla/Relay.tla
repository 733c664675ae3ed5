-------------------------------- MODULE Relay --------------------------------
(***************************************************************************)
(* Remote access to a router: the agent on the router keeps one outbound   *)
(* WebSocket to the relay (src/src/server/remote/agent.js, ws.js,          *)
(* frames.js), the relay carries browser requests over it as streams       *)
(* (src/relay/server.js, src/relay/lib/proxy.js), and the router's own web *)
(* UI answers them.                                                        *)
(*                                                                         *)
(* A socket has two ends that close one after the other, with frames in    *)
(* flight both ways; a cut one loses them all and tells nobody.  Either    *)
(* process may restart, the agent may be reconfigured at any moment, a     *)
(* router revoked, a browser leave.  Slots of `sock' are used again.       *)
(***************************************************************************)
EXTENDS Naturals, Sequences, FiniteSets

CONSTANTS
  Socks,       \* slots for sockets
  Requests,    \* browser requests, numbered in the order they are asked
  Scenarios    \* kinds of requests, the network, and what may still happen

Ids == Requests
Kinds == {"page", "rpc", "events", "luci"}
Worlds == {"plain", "tunnelled", "blocked", "nameless"}
Happenings == {"cut", "stop", "start", "reconfigure", "restart", "relayRestart", "revoke",
               "leave", "slow", "refuse", "shift"}

ASSUME RelayAssumption ==
  /\ IsFiniteSet(Socks) /\ Socks \subseteq Nat \ {0}
  /\ IsFiniteSet(Requests) /\ Requests = 1..Cardinality(Requests)
  /\ \A c \in Scenarios : /\ c.kinds \in [Requests -> Kinds] /\ c.asked \in {0} \cup Requests
                          /\ c.world \in Worlds /\ c.then \in Worlds
                          /\ c.left \in [Happenings -> Nat]

VARIABLES
  sock,        \* the sockets: both ends, and the frames in flight
  agent,       \* the agent's variables, and the process's version
  streams,     \* the agent's map of stream ids
  relay,       \* the relay: the router's record, its link, the cache
  req,         \* the browsers' requests, with what was written to them
  world,       \* what can be reached, directly and through the tunnel
  left,        \* bound: happenings that may still come
  chosen,      \* the scenario
  strayed      \* ghost: a stream was opened for a socket already left

vars == <<sock, agent, streams, relay, req, world, left, chosen, strayed>>
ends == <<agent, streams>>
rest == <<world, chosen, strayed>>

\* agent: "none", "dialing", "stale", "open", "closing", "gone"
\* relay: "none", "hello" (no HELLO yet), "open", "closing", "gone"
Free == [agent |-> "none", relay |-> "none", path |-> "direct", cut |-> FALSE,
         link |-> FALSE, version |-> 0, next |-> 1, up |-> <<>>, down |-> <<>>]

NoStream == [c |-> 0, q |-> 0, at |-> "none", paused |-> FALSE]
NoStreams == [i \in Ids |-> NoStream]
NoPage == [label |-> 0, made |-> 0]

\* A router that has just started, with remote access on.
Started(v) ==
  [running |-> TRUE, conn |-> 0, due |-> TRUE, version |-> v,
   vpn |-> FALSE, misses |-> 0, tried |-> "never"]

New(kind) ==
  [kind |-> kind, at |-> "new", sock |-> 0, id |-> 0, head |-> FALSE, body |-> FALSE, ok |-> FALSE,
   sent |-> kind # "rpc", how |-> "none", got |-> {}, made |-> 0, over |-> 0]

Init ==
  /\ chosen \in Scenarios
  /\ sock = [s \in Socks |-> Free]
  /\ agent = Started(1)
  /\ streams = NoStreams
  /\ relay = [known |-> TRUE, current |-> 0, cached |-> NoPage]
  /\ req = [q \in Requests |-> New(chosen.kinds[q])]
  /\ world = chosen.world
  /\ left = chosen.left
  /\ strayed = FALSE

Happens(what) == left[what] > 0 /\ left' = [left EXCEPT ![what] = @ - 1]

TunnelUp == world # "plain"
Reaches(path) == path = "vpn" \/ world \in {"plain", "tunnelled"}
Names == world # "nameless"

-----------------------------------------------------------------------------
(* Sockets (WsConn).                                                       *)

\* A frame: its stream, the request it is about, and the router's version.
F(t, i, q) == [t |-> t, id |-> i, q |-> q, v |-> agent.version]
D(t, i, q) == [t |-> t, id |-> i, q |-> q, v |-> 0]
CloseFrame == D("close", 0, 0)

\* An end that is not open sends nothing; what it sends into a cut is lost.
Up(r, fs) == IF r.agent = "open" /\ ~r.cut /\ r.relay # "gone" THEN [r EXCEPT !.up = @ \o fs] ELSE r
Down(r, fs) ==
  IF r.relay \in {"hello", "open"} /\ ~r.cut /\ r.agent # "gone" THEN [r EXCEPT !.down = @ \o fs] ELSE r

AgentCloses(r) == IF r.agent = "open" THEN [Up(r, <<CloseFrame>>) EXCEPT !.agent = "closing"] ELSE r
RelayCloses(r) ==
  IF r.relay \in {"hello", "open"} THEN [Down(r, <<CloseFrame>>) EXCEPT !.relay = "closing"] ELSE r

\* A slot whose ends are both gone is free again.
Freed(r) == IF r.agent = "gone" /\ r.relay \in {"none", "gone"} THEN Free ELSE r
AgentGone(r) == Freed([r EXCEPT !.agent = "gone", !.down = <<>>])
RelayGone(r) == Freed([r EXCEPT !.relay = "gone", !.up = <<>>])

\* An end that closes is gone after a while, one that does not once the other
\* is and what that one sent has arrived.
AgentEnds(s) ==
  LET r == sock[s] IN
  \/ r.agent = "closing"
  \/ r.agent = "open" /\ r.relay = "gone" /\ ~r.cut /\ r.down = <<>>

RelayEnds(s) ==
  LET r == sock[s] IN
  \/ r.relay = "closing"
  \/ r.relay \in {"hello", "open"} /\ r.agent = "gone" /\ ~r.cut /\ r.up = <<>>

-----------------------------------------------------------------------------
(* The agent dials.                                                        *)

\* The slot a new socket takes: a socket of its own, in the code.
NoSlot == \A s \in Socks : sock[s] # Free
Slot == CHOOSE s \in Socks : sock[s] = Free

\* attempt: through the tunnel once three direct dials in a row failed while it
\* was up, and direct again ten minutes after the last direct dial.
ViaVpn == agent.vpn /\ TunnelUp /\ agent.tried = "recent"

\* A direct dial while the tunnel is up goes past it.
Path == IF ViaVpn THEN "vpn" ELSE IF TunnelUp THEN "past" ELSE "direct"

Dials ==
  /\ agent.running /\ agent.due /\ ~NoSlot
  /\ sock' = [sock EXCEPT ![Slot].agent = "dialing", ![Slot].path = Path]
  /\ agent' = [agent EXCEPT !.due = FALSE, !.vpn = ViaVpn]
  /\ UNCHANGED <<streams, relay, req, left, rest>>

\* A direct dial counts from when it connects, after the name was resolved.
Tried(path) == IF path # "vpn" /\ Names THEN "recent" ELSE agent.tried

\* onUpgrade: the token is a registered router's.
Accepts(s) ==
  /\ sock[s].agent \in {"dialing", "stale"} /\ sock[s].relay = "none" /\ ~sock[s].cut
  /\ Reaches(sock[s].path) /\ Names /\ relay.known
  /\ sock' = [sock EXCEPT ![s].relay = "hello"]
  /\ agent' = [agent EXCEPT !.tried = Tried(sock[s].path)]
  /\ UNCHANGED <<streams, relay, req, left, rest>>

Hopeless(s) ==
  \/ sock[s].cut \/ sock[s].relay = "gone"
  \/ sock[s].relay = "none" /\ ~(Reaches(sock[s].path) /\ Names /\ relay.known)

\* Slip: direct dials are not counted.
FailedForGood(s) == [agent EXCEPT !.due = TRUE, !.tried = Tried(sock[s].path)]

\* Refused (401), unresolved, timed out: the next dial is due, unless this one
\* is of a link that was stopped meanwhile.
Failed(s) ==
  LET past == sock[s].path = "past"
      misses == IF past /\ agent.misses < 3 THEN agent.misses + 1 ELSE agent.misses
  IN  [agent EXCEPT !.due = TRUE, !.misses = misses, !.tried = Tried(sock[s].path),
                    !.vpn = @ \/ (past /\ misses = 3)]

DialFails(s) ==
  /\ sock[s].agent \in {"dialing", "stale"}
  /\ (Hopeless(s) /\ UNCHANGED left) \/ (~Hopeless(s) /\ Happens("refuse"))
  /\ sock' = [sock EXCEPT ![s] = AgentGone(@)]
  /\ agent' = IF sock[s].agent = "dialing" THEN Failed(s) ELSE agent
  /\ UNCHANGED <<streams, relay, req, rest>>

\* online: HELLO first.  A dial that landed too late is closed again.
Lands(s) ==
  /\ sock[s].relay \in {"hello", "closing"} /\ ~sock[s].cut
  /\ \/ /\ sock[s].agent = "dialing"
        /\ sock' = [sock EXCEPT ![s] = Up([@ EXCEPT !.agent = "open"], <<F("hello", 0, 0)>>)]
        /\ agent' = IF sock[s].path = "vpn" THEN [agent EXCEPT !.conn = s]
                     ELSE [agent EXCEPT !.conn = s, !.misses = 0, !.vpn = FALSE]
     \/ /\ sock[s].agent = "stale"
        /\ sock' = [sock EXCEPT ![s] = AgentCloses([@ EXCEPT !.agent = "open"])]
        /\ UNCHANGED agent
  /\ UNCHANGED <<streams, relay, req, left, rest>>

\* Backoff and dial together last a minute: ten pass while a link stands.  (They
\* are only counted under a tunnel.)
TenMinutes ==
  /\ agent.tried = "recent" /\ agent.conn # 0 /\ TunnelUp
  /\ agent' = [agent EXCEPT !.tried = "due"]
  /\ UNCHANGED <<sock, streams, relay, req, left, rest>>

-----------------------------------------------------------------------------
(* Ends of a link, on the agent's side.                                    *)

\* The link's own close: its streams end, and the next dial is due.  A socket
\* that was left before takes nothing with it.
Forgets(s) == [i \in Ids |-> IF streams[i].c = s THEN [streams[i] EXCEPT !.c = 0] ELSE streams[i]]
Ended(a) == [a EXCEPT !.conn = 0, !.due = a.running]

AgentFinishes(s) ==
  /\ AgentEnds(s)
  /\ sock' = [sock EXCEPT ![s] = AgentGone(@)]
  /\ agent' = IF agent.conn = s THEN Ended(agent) ELSE agent
  /\ streams' = IF agent.conn = s THEN NoStreams ELSE Forgets(s)
  /\ UNCHANGED <<relay, req, left, rest>>

\* keepalive: 75 s without a frame or a pong.
AgentSilent(s) ==
  /\ agent.conn = s /\ sock[s].cut /\ sock[s].agent = "open"
  /\ sock' = [sock EXCEPT ![s] = AgentCloses(@)]
  /\ UNCHANGED <<agent, streams, relay, req, left, rest>>

Left(s) == IF sock[s].agent = "dialing" THEN [sock[s] EXCEPT !.agent = "stale"]
           ELSE IF agent.conn = s THEN AgentCloses(sock[s]) ELSE sock[s]

Stopped(run) ==
  /\ agent' = [agent EXCEPT !.running = run, !.due = run, !.conn = 0, !.vpn = FALSE, !.misses = 0]
  /\ streams' = NoStreams
  /\ sock' = [s \in Socks |-> Left(s)]
  /\ UNCHANGED <<relay, req, rest>>

\* Remote access is switched off, or was set anew.
Stops == Happens("stop") /\ Stopped(FALSE)
Reconfigures == Happens("reconfigure") /\ Stopped(TRUE)

Starts ==
  /\ ~agent.running /\ Happens("start")
  /\ agent' = [agent EXCEPT !.running = TRUE, !.due = TRUE]
  /\ UNCHANGED <<sock, streams, relay, req, rest>>

\* The router's process is replaced (an update, perhaps), or loses its power.
Restarts ==
  /\ Happens("restart")
  /\ \E v \in {1, 2}, power \in BOOLEAN :
       /\ agent' = Started(v)
       /\ sock' = [s \in Socks |->
                    IF sock[s].agent = "none" THEN sock[s]
                    ELSE AgentGone(IF power THEN [sock[s] EXCEPT !.cut = TRUE, !.up = <<>>] ELSE sock[s])]
  /\ streams' = NoStreams
  /\ UNCHANGED <<relay, req, rest>>

-----------------------------------------------------------------------------
(* The agent's streams.                                                    *)

\* An answer is sent on the socket that asked, if it is still open.
Answered(i, fs) ==
  LET c == streams[i].c IN IF c = 0 THEN sock ELSE [sock EXCEPT ![c] = Up(@, fs)]

\* 403 or 502, the whole of it at once.
Refusal(i, q) == <<F("badHead", i, q), F("resBody", i, q), F("resEnd", i, q)>>

AgentHears(s) ==
  /\ sock[s].agent \in {"open", "closing"} /\ sock[s].down # <<>>
  /\ LET f == Head(sock[s].down)
         r == [sock[s] EXCEPT !.down = Tail(@)]
     IN  \/ /\ f.t = "reqHead" /\ streams[f.id].at = "none" /\ req[f.q].kind # "luci"
            /\ streams' = [streams EXCEPT ![f.id] = [c |-> s, q |-> f.q, at |-> "head", paused |-> FALSE]]
            /\ sock' = [sock EXCEPT ![s] = r]
            /\ strayed' = (strayed \/ agent.conn # s)
         \/ /\ f.t = "reqHead" /\ streams[f.id].at = "none" /\ req[f.q].kind = "luci"
            /\ sock' = [sock EXCEPT ![s] = Up(r, Refusal(f.id, f.q))]
            /\ UNCHANGED <<streams, strayed>>
         \/ /\ f.t = "reqHead" /\ streams[f.id].at # "none"
            /\ sock' = [sock EXCEPT ![s] = r]
            /\ UNCHANGED <<streams, strayed>>
         \/ /\ f.t = "reqEnd"
            /\ streams' = [streams EXCEPT ![f.id].at = IF @ = "head" THEN "asked" ELSE @]
            /\ sock' = [sock EXCEPT ![s] = r]
            /\ UNCHANGED strayed
         \/ /\ f.t = "cancel"
            /\ streams' = [streams EXCEPT ![f.id] = NoStream]
            /\ sock' = [sock EXCEPT ![s] = r]
            /\ UNCHANGED strayed
         \/ /\ f.t = "close"
            /\ sock' = [sock EXCEPT ![s] = AgentCloses(r)]
            /\ UNCHANGED <<streams, strayed>>
  /\ UNCHANGED <<agent, relay, req, world, left, chosen>>

\* The web UI answers, or its connection fails before it did.
Begins(i) ==
  /\ streams[i].at = "asked"
  /\ sock' = Answered(i, <<F("resHead", i, streams[i].q)>>)
  /\ streams' = [streams EXCEPT ![i].at = "answering"]
  /\ UNCHANGED <<agent, relay, req, left, rest>>

Unanswered(i) ==
  /\ streams[i].at \in {"head", "asked"} /\ Happens("refuse")
  /\ sock' = Answered(i, Refusal(i, streams[i].q))
  /\ streams' = [streams EXCEPT ![i] = NoStream]
  /\ UNCHANGED <<agent, relay, req, rest>>

\* A chunk; too many bytes waiting in the socket pause its source ...
Gives(i) ==
  /\ streams[i].at = "answering"
  /\ sock' = Answered(i, <<F("resBody", i, streams[i].q)>>)
  /\ \E full \in BOOLEAN : streams' = [streams EXCEPT ![i].at = "given", ![i].paused = full]
  /\ UNCHANGED <<agent, relay, req, left, rest>>

\* ... and its drain resumes every source.
Resumed == [i \in Ids |-> [streams[i] EXCEPT !.paused = FALSE]]
Drains(s) ==
  /\ sock[s].agent \in {"open", "closing"} /\ ~sock[s].cut
  /\ \E i \in Ids : streams[i].paused /\ streams[i].c = s
  /\ streams' = Resumed
  /\ UNCHANGED <<sock, agent, relay, req, left, rest>>

\* Only a stream of events has no end.
Ends(i) ==
  /\ streams[i].at = "given" /\ ~streams[i].paused /\ req[streams[i].q].kind # "events"
  /\ sock' = Answered(i, <<F("resEnd", i, streams[i].q)>>)
  /\ streams' = [streams EXCEPT ![i] = NoStream]
  /\ UNCHANGED <<agent, relay, req, left, rest>>

-----------------------------------------------------------------------------
(* Requests at the relay (Link).                                           *)

\* How a request ends for its browser: "whole", a "cached" page, an error page
\* ("error"), a connection that is "cut", or it "left" itself.
Closed(r, how) == [r EXCEPT !.at = "ended", !.how = how]

\* _fail: an error page while nothing was sent yet.
Fail(r) == Closed(r, IF r.head THEN "cut" ELSE "error")

\* Every stream of a link that is gone fails.
FailAll(s) == [q \in Requests |-> IF req[q].at = "open" /\ req[q].sock = s THEN Fail(req[q]) ELSE req[q]]

Online == relay.current # 0 /\ sock[relay.current].relay = "open"

\* Slip: a page that is kept is taken to be the link's.
KeptOfAny(q) == req[q].kind = "page" /\ relay.cached # NoPage

Kept(q) == req[q].kind = "page" /\ relay.cached.label = sock[relay.current].version

\* proxied: no open link, a page of the link's version that was kept, or a
\* stream of its own.
Asks(q) ==
  /\ req[q].at = "new" /\ q <= chosen.asked /\ \A p \in 1..(q - 1) : req[p].at # "new"
  /\ LET s == relay.current
         i == sock[s].next
         over == [req[q] EXCEPT !.over = sock[s].version]
         frames == <<D("reqHead", i, q)>> \o (IF req[q].sent THEN <<D("reqEnd", i, q)>> ELSE <<>>)
     IN  \/ /\ ~Online
            /\ req' = [req EXCEPT ![q] = Closed(@, "error")] /\ UNCHANGED sock
         \/ /\ Online /\ Kept(q)
            /\ req' = [req EXCEPT ![q] = Closed([over EXCEPT !.made = relay.cached.made], "cached")]
            /\ UNCHANGED sock
         \/ /\ Online /\ ~Kept(q)
            /\ req' = [req EXCEPT ![q] = [over EXCEPT !.at = "open", !.sock = s, !.id = i]]
            /\ sock' = [sock EXCEPT ![s] = Down([@ EXCEPT !.next = i + 1], frames)]
  /\ UNCHANGED <<ends, relay, left, rest>>

\* The rest of an upload.
Uploads(q) ==
  /\ req[q].at = "open" /\ ~req[q].sent
  /\ req' = [req EXCEPT ![q].sent = TRUE]
  /\ sock' = [sock EXCEPT ![req[q].sock] = Down(@, <<D("reqEnd", req[q].id, q)>>)]
  /\ UNCHANGED <<ends, relay, left, rest>>

\* Slip: an answer that was begun is taken to end by itself.
CancelledBefore(q) ==
  IF req[q].head THEN sock ELSE [sock EXCEPT ![req[q].sock] = Down(@, <<D("cancel", req[q].id, q)>>)]

\* _drop and _fail: the router is told, while the link is open.
Cancelled(q) == [sock EXCEPT ![req[q].sock] = Down(@, <<D("cancel", req[q].id, q)>>)]

Leaves(q) ==
  /\ req[q].at = "open" /\ Happens("leave")
  /\ req' = [req EXCEPT ![q] = Closed(@, "left")]
  /\ sock' = Cancelled(q)
  /\ UNCHANGED <<ends, relay, rest>>

\* A minute without the end of an answer, or an upload that is too large.
TakesTooLong(q) ==
  /\ req[q].at = "open" /\ ~(req[q].kind = "events" /\ req[q].head) /\ Happens("slow")
  /\ req' = [req EXCEPT ![q] = Fail(@)]
  /\ sock' = Cancelled(q)
  /\ UNCHANGED <<ends, relay, rest>>

\* What a frame of the answer does to the request its stream belongs to.
Written(r, f) ==
  CASE f.t \in {"resHead", "badHead"} /\ ~r.head ->
         [r EXCEPT !.head = TRUE, !.ok = f.t = "resHead", !.got = @ \cup {f.q}]
    [] f.t = "resBody" /\ r.head -> [r EXCEPT !.body = TRUE, !.made = f.v, !.got = @ \cup {f.q}]
    [] f.t = "resEnd" /\ r.head -> Closed(r, "whole")
    [] f.t = "resEnd" /\ ~r.head -> Closed(r, "error")
    [] OTHER -> r

\* A page that was answered whole is kept, under the version the link's HELLO
\* said.
Keeps(s, r) ==
  IF r.how = "whole" /\ r.ok /\ r.kind = "page"
    THEN [relay EXCEPT !.cached = [label |-> sock[s].version, made |-> r.made]]
    ELSE relay

\* Slip: the link before it is left to its silence.
AttachedBeside(s, v) ==
  [sock EXCEPT ![s] = [@ EXCEPT !.link = TRUE, !.version = v, !.up = Tail(@),
                                !.relay = IF @ = "hello" THEN "open" ELSE @]]

\* attach: the newest HELLO has the router; the link before it is closed.
Attached(s, v) ==
  [t \in Socks |->
     CASE t = s -> [sock[s] EXCEPT !.link = TRUE, !.version = v, !.up = Tail(@),
                                   !.relay = IF @ = "hello" THEN "open" ELSE @]
       [] t = relay.current /\ t # s -> RelayCloses(sock[t])
       [] OTHER -> sock[t]]

Attach(s, v) ==
  /\ sock' = Attached(s, v)
  /\ relay' = [relay EXCEPT !.current = s, !.cached = IF @.label = v THEN @ ELSE NoPage]
  /\ UNCHANGED req

\* The first message must be a HELLO, of a router that is still registered
\* when it comes.
RelayHears(s) ==
  /\ sock[s].relay \in {"hello", "open", "closing"} /\ sock[s].up # <<>>
  /\ LET f == Head(sock[s].up)
         r == [sock[s] EXCEPT !.up = Tail(@)]
         of == {q \in Requests : req[q].at = "open" /\ req[q].sock = s /\ req[q].id = f.id}
     IN  \/ f.t = "hello" /\ relay.known /\ Attach(s, f.v)
         \/ /\ f.t = "hello" /\ ~relay.known
            /\ sock' = [sock EXCEPT ![s] = RelayCloses(r)] /\ UNCHANGED <<relay, req>>
         \/ /\ f.t = "close"
            /\ sock' = [sock EXCEPT ![s] = RelayCloses(r)] /\ UNCHANGED <<relay, req>>
         \/ /\ f.t \notin {"hello", "close"} /\ of = {}
            /\ sock' = [sock EXCEPT ![s] = r] /\ UNCHANGED <<relay, req>>
         \/ /\ f.t \notin {"hello", "close"}
            /\ \E q \in of : LET now == Written(req[q], f) IN
                 req' = [req EXCEPT ![q] = now] /\ relay' = Keeps(s, now)
            /\ sock' = [sock EXCEPT ![s] = r]
  /\ UNCHANGED <<ends, left, rest>>

-----------------------------------------------------------------------------
(* Ends of a link, on the relay's side.                                    *)

RelayFinishes(s) ==
  /\ RelayEnds(s)
  /\ sock' = [sock EXCEPT ![s] = RelayGone(@)]
  /\ relay' = IF relay.current = s THEN [relay EXCEPT !.current = 0] ELSE relay
  /\ req' = FailAll(s)
  /\ UNCHANGED <<ends, left, rest>>

\* Ten seconds without a HELLO: nothing comes any more, or it is late.
HelloMissing(s) ==
  /\ sock[s].relay = "hello"
  /\ (sock[s].cut /\ UNCHANGED left) \/ (~sock[s].cut /\ Happens("slow"))
  /\ sock' = [sock EXCEPT ![s] = RelayCloses(@)]
  /\ UNCHANGED <<ends, relay, req, rest>>

RelaySilent(s) ==
  /\ sock[s].link /\ sock[s].relay = "open" /\ sock[s].cut
  /\ sock' = [sock EXCEPT ![s] = RelayCloses(@)]
  /\ UNCHANGED <<ends, relay, req, left, rest>>

\* The owner revokes the router: its token, its link, its pages.
Revokes ==
  /\ relay.known /\ Happens("revoke")
  /\ relay' = [known |-> FALSE, current |-> 0, cached |-> NoPage]
  /\ sock' = [s \in Socks |-> IF s = relay.current THEN RelayCloses(sock[s]) ELSE sock[s]]
  /\ UNCHANGED <<ends, req, rest>>

\* The relay restarts; what its browsers waited for is cut.
RelayRestarts ==
  /\ Happens("relayRestart")
  /\ relay' = [relay EXCEPT !.current = 0, !.cached = NoPage]
  /\ sock' = [s \in Socks |-> IF sock[s].relay = "none" THEN sock[s] ELSE RelayGone(sock[s])]
  /\ req' = [q \in Requests |-> IF req[q].at = "open" THEN Closed(req[q], "cut") ELSE req[q]]
  /\ UNCHANGED <<ends, rest>>

-----------------------------------------------------------------------------
(* The network.                                                            *)

Cut(s) ==
  /\ sock[s].agent # "none" /\ ~sock[s].cut
  /\ Happens("cut")
  /\ sock' = [sock EXCEPT ![s] = [@ EXCEPT !.cut = TRUE, !.up = <<>>, !.down = <<>>]]
  /\ UNCHANGED <<agent, streams, relay, req, rest>>

\* Censorship or a tunnel comes or goes, and what it carried is cut.
Shifts ==
  /\ world # chosen.then /\ Happens("shift")
  /\ world' = chosen.then
  /\ sock' = [s \in Socks |-> IF sock[s].agent = "none" THEN sock[s]
                              ELSE [sock[s] EXCEPT !.cut = TRUE, !.up = <<>>, !.down = <<>>]]
  /\ UNCHANGED <<agent, streams, relay, req, chosen, strayed>>

Link(s) ==
  \/ Accepts(s) \/ Lands(s) \/ AgentHears(s) \/ RelayHears(s) \/ AgentFinishes(s) \/ RelayFinishes(s)
  \/ AgentSilent(s) \/ RelaySilent(s) \/ DialFails(s) \/ HelloMissing(s) \/ Drains(s) \/ Cut(s)

WebUi(i) == Begins(i) \/ Unanswered(i) \/ Gives(i) \/ Ends(i)
Browser(q) == Asks(q) \/ Uploads(q) \/ Leaves(q) \/ TakesTooLong(q)
Others == TenMinutes \/ Stops \/ Reconfigures \/ Starts \/ Restarts \/ Revokes \/ RelayRestarts \/ Shifts

Next ==
  \/ Dials \/ \E s \in Socks : Link(s)
  \/ \E i \in Ids : WebUi(i)
  \/ \E q \in Requests : Browser(q)
  \/ Others

Spec == Init /\ [][Next]_vars

\* What becomes of a socket by itself: what was sent arrives unless it is cut,
\* timers fire, dials and closes come to an end.
Proceeds(s) ==
  \/ Accepts(s) \/ Lands(s) \/ (DialFails(s) /\ Hopeless(s)) \/ AgentHears(s) \/ RelayHears(s) \/ Drains(s)
  \/ AgentSilent(s) \/ AgentFinishes(s) \/ RelaySilent(s) \/ RelayFinishes(s) \/ (HelloMissing(s) /\ sock[s].cut)

\* The web UI answers and uploads go on.  A dial that could succeed may fail
\* only as often as its budget says, and a request is never saved by its
\* deadline.
Fairness ==
  /\ WF_vars(Dials)
  /\ \A s \in Socks : WF_vars(Proceeds(s))
  /\ \A i \in Ids : WF_vars(Begins(i) \/ Gives(i) \/ Ends(i))
  /\ \A q \in Requests : WF_vars(Uploads(q))

FairSpec == Spec /\ Fairness

-----------------------------------------------------------------------------
(* Correctness.                                                            *)

\* A message of frames.js, and a close.  id 0: about no stream.
Frames == [t : {"hello", "close", "resHead", "badHead", "resBody", "resEnd", "reqHead", "reqEnd", "cancel"},
           id : Nat, q : Nat, v : Nat]

WsConns == [agent : {"none", "dialing", "stale", "open", "closing", "gone"},
            relay : {"none", "hello", "open", "closing", "gone"},
            path : {"direct", "vpn", "past"}, cut : BOOLEAN, link : BOOLEAN,
            version : Nat, next : Nat \ {0}, up : Seq(Frames), down : Seq(Frames)]

Agents == [running : BOOLEAN, conn : Socks \cup {0}, due : BOOLEAN, version : Nat,
           vpn : BOOLEAN, misses : 0..3, tried : {"never", "recent", "due"}]

Streams == [c : Socks \cup {0}, q : Nat, at : {"none", "head", "asked", "answering", "given"},
            paused : BOOLEAN]

Relays == [known : BOOLEAN, current : Socks \cup {0}, cached : [label : Nat, made : Nat]]

Browsers == [kind : Kinds, at : {"new", "open", "ended"}, sock : Socks \cup {0}, id : Nat,
             head : BOOLEAN, body : BOOLEAN, ok : BOOLEAN, sent : BOOLEAN,
             how : {"none", "whole", "cached", "error", "cut", "left"},
             got : SUBSET Nat, made : Nat, over : Nat]

TypeOK ==
  /\ sock \in [Socks -> WsConns] /\ agent \in Agents /\ streams \in [Ids -> Streams]
  /\ relay \in Relays /\ req \in [Requests -> Browsers]
  /\ world \in Worlds /\ left \in [Happenings -> Nat] /\ chosen \in Scenarios /\ strayed \in BOOLEAN

\* One router has one link: an open link is the newest and its router is still
\* registered, however HELLOs, revocations and closes overtake each other; and
\* the agent holds no socket open but the one it answers for.
NewestHolds ==
  \A s \in Socks :
    /\ sock[s].link /\ sock[s].relay = "open" => s = relay.current /\ relay.known
    /\ sock[s].agent = "open" => s = agent.conn

\* What a browser is given is the answer to its own request, through links that
\* change and stream ids that begin anew; a page is of the version its router
\* runs, and whole when it says so.
OwnAnswer ==
  \A q \in Requests :
    /\ req[q].got \subseteq {q}
    /\ req[q].how = "whole" => req[q].body
    /\ req[q].how \in {"whole", "cached"} => req[q].made = req[q].over

\* An events stream that is alive at both ends.
Live(q) ==
  LET s == req[q].sock IN
  /\ req[q].at = "open" /\ req[q].kind = "events" /\ req[q].body
  /\ sock[s].link /\ sock[s].relay = "open" /\ ~sock[s].cut
  /\ streams[req[q].id].c = s /\ streams[req[q].id].q = q

\* The two ends of a stream come to agree: no browser waits for ever - its
\* request ends, or is a stream of events that is alive, without the help of the
\* deadline - and no work goes on for a browser that is gone.  (Unless a request
\* reached a socket the agent had left, where it may take another's id.)
EndsAgree ==
  \A q \in Requests :
    /\ req[q].at = "open" /\ ~Live(q) ~> req[q].at = "ended" \/ Live(q) \/ strayed
    /\ req[q].at = "ended" /\ (\E i \in Ids : streams[i].q = q) ~> (\A i \in Ids : streams[i].q # q) \/ strayed

\* The agent's link is the relay's link, and passes frames.
Linked ==
  /\ agent.conn # 0 /\ relay.current = agent.conn
  /\ LET r == sock[agent.conn] IN r.agent = "open" /\ r.relay = "open" /\ ~r.cut

\* A router with remote access on comes back after every failure, through the
\* tunnel when it cannot be reached directly - unless its name means nothing.
Relinked ==
  agent.running /\ relay.known ~> Linked \/ ~agent.running \/ ~relay.known \/ ~Names
=============================================================================
