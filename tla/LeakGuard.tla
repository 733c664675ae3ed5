------------------------------ MODULE LeakGuard ------------------------------
(***************************************************************************)
(* The leak guard of the desktop application on Windows: class LeakGuard   *)
(* (src/src/main/leakGuard.js), the watch that rechecks it                 *)
(* (dnsGuardWatch.js), and the calls of main.js that use it - connects,    *)
(* settings applies and recoveries, disconnects, the launch, the exit.     *)
(*                                                                         *)
(* While a tunnel is up every physical adapter's resolver is a loopback    *)
(* address that answers nothing (the hold), and at the strict level        *)
(* firewall rules keep everything else off those adapters.  A state file   *)
(* remembers the resolvers that were there.  Every operation on it runs in *)
(* one queue; an engage takes a receipt, and a release that presents an    *)
(* old one is refused.                                                     *)
(***************************************************************************)
EXTENDS Naturals, FiniteSets, Sequences

CONSTANTS
  Adapters,     \* the physical network adapters
  MaxConnects,  \* bound: connects, as numbers from 1
  Scenarios,    \* bound: the settings connects find, and how often each event happens
  FullEvery     \* fullEvery of the watch: every so many rechecks is a full one

NoToken == 0    \* no receipt
NoConnect == 0

Events == {"connect", "disconnect", "apply", "button", "fault", "refuse", "crash",
           "drift", "plug"}

\* What a connect is to build: a tunnel with the guard at a level, proxy mode with
\* or without the block of UDP.
Plans == {"off", "standard", "strict", "udp", "plain"}
Tunnelled == {"off", "standard", "strict"}
Guarded == {"standard", "strict"}

Connects == 1..MaxConnects

ASSUME LeakGuardAssumption ==
  /\ IsFiniteSet(Adapters) /\ MaxConnects \in Nat
  /\ Scenarios \subseteq [plans : SUBSET Plans, budget : [Events -> Nat]]
  /\ FullEvery \in Nat \ {0}

VARIABLES
  dns,       \* each adapter's resolvers: the user's own, the hold, or automatic
             \* ones after a reset that had nothing to put back, or stopped there
  present,   \* the adapters that are there
  rules,     \* the firewall rules of our group
  file,      \* the state file
  running,   \* the application runs
  queue,     \* operations on the guard; the first one runs
  token,     \* _token
  issued,    \* _tokenSeq
  own,       \* _ownSession
  refused,   \* _winFailed
  seen,      \* _winSeen
  calls,     \* the connects, those that stand and those that ended too
  begun,     \* connects so far
  latest,    \* the connect whose intent counts; none after a disconnect
  tun, up,   \* the current tunnel and the active ones, named by a connect
  disc,      \* a disconnect waits for its release
  rebuild,   \* a settings apply or a recovery waits for its hold, since this connect
  keep,      \* and it is a recovery, which will try again
  watch,     \* the recheck: its receipt, its ticks, inFlight
  told,      \* the user was told that a release failed
  plans,     \* the plans of this behaviour
  left,      \* the events that may still happen
  strays     \* history: adapters whose own resolvers a release could not put back,
             \* because they were away

machine == <<dns, present, rules>>
guard == <<token, issued, own, refused, seen>>
conn == <<calls, begun, latest, tun, up>>
callers == <<conn, disc, rebuild, keep>>
vars == <<machine, file, running, queue, guard, callers, watch, told, plans, left, strays>>

Resolvers == {"own", "hold", "auto"}
Originals == {"none", "own", "auto"}     \* none: the adapter is not recorded
Levels == {"none", "strict", "udp"}

Nothing == [a \in Adapters |-> "none"]
NoFile == [there |-> FALSE, peer |-> FALSE, rec |-> Nothing, strict |-> FALSE, udp |-> FALSE]
Files == [there : BOOLEAN, peer : BOOLEAN, rec : [Adapters -> Originals],
          strict : BOOLEAN, udp : BOOLEAN]

Callers == {"connect", "disconnect", "apply", "watch", "nobody"}
Kinds == {"engage", "block", "hold", "refresh", "release"}
Ops == [kind : Kinds, who : Callers, id : Nat, tok : Nat, strict : BOOLEAN, full : BOOLEAN,
        at : {"first", "lift", "apply", "rules"}, set : SUBSET Adapters,
        rec : [Adapters -> Originals]]

Op(kind, who, id) ==
  [kind |-> kind, who |-> who, id |-> id, tok |-> NoToken, strict |-> FALSE, full |-> FALSE,
   at |-> "first", set |-> {}, rec |-> Nothing]

Places == {"none", "open", "clearing", "selected", "holding", "starting", "resolving", "engaging",
           "stranded", "undoing", "stands", "gone"}
Calls == [pc : Places, plan : Plans, keep : BOOLEAN, tn : 0..MaxConnects, tok : Nat]
NoCall == [pc |-> "none", plan |-> "plain", keep |-> FALSE, tn |-> NoConnect, tok |-> NoToken]

NoWatch == [tok |-> NoToken, ticks |-> 0, busy |-> FALSE]

TypeOK ==
  /\ dns \in [Adapters -> Resolvers] /\ present \subseteq Adapters /\ rules \in Levels
  /\ file \in Files
  /\ {running, own, disc, keep, told} \subseteq BOOLEAN
  /\ queue \in Seq(Ops)
  /\ issued \in Nat /\ token \in Nat
  /\ refused \subseteq Adapters /\ seen \subseteq Adapters /\ strays \subseteq Adapters
  /\ calls \in [Connects -> Calls]
  /\ {begun, latest, tun, rebuild} \subseteq 0..MaxConnects /\ up \subseteq 0..MaxConnects
  /\ watch \in [tok : Nat, ticks : 0..FullEvery - 1, busy : BOOLEAN]
  /\ plans \subseteq Plans /\ left \in [Events -> Nat]

Init ==
  /\ dns = [a \in Adapters |-> "own"] /\ present = Adapters /\ rules = "none"
  /\ file = NoFile /\ running = TRUE /\ queue = <<>>
  /\ token = NoToken /\ issued = 0 /\ own = FALSE /\ refused = {} /\ seen = {}
  /\ calls = [c \in Connects |-> NoCall] /\ begun = 0 /\ latest = NoConnect
  /\ tun = NoConnect /\ up = {}
  /\ disc = FALSE /\ rebuild = NoConnect /\ keep = FALSE
  /\ watch = NoWatch /\ told = FALSE
  /\ \E s \in Scenarios : plans = s.plans /\ left = s.budget
  /\ strays = {}

Happens(e) == left[e] > 0 /\ left' = [left EXCEPT ![e] = @ - 1]

-----------------------------------------------------------------------------
(* The queue, and what a caller does with the answer of its operation.     *)

Runs(kind, at) == running /\ queue # <<>> /\ Head(queue).kind = kind /\ Head(queue).at = at

\* The running operation goes on at another step.
Step(op) == queue' = [queue EXCEPT ![1] = op]

\* The connect is overtaken: by a disconnect or a newer connect.
Stale(c) == latest # c

Goes(c, pc) == calls' = [calls EXCEPT ![c].pc = pc]

\* A connect that was overtaken undoes what its own receipt names.
UndoesNothing(c, tok) == FALSE
Undoes(c, tok) == Stale(c) /\ tok # NoToken

\* The gate after the guard's work.  A connect that was overtaken gives back what
\* its own receipt names, then its tunnel; one that was not stands.
Settle(c, tok, ops) ==
  LET undoes == Undoes(c, tok)
      ends == Stale(c) /\ ~undoes
  IN /\ calls' = [calls EXCEPT ![c].tok = tok,
                    ![c].pc = IF undoes THEN "undoing" ELSE IF ends THEN "gone" ELSE "stands"]
     /\ queue' = IF undoes THEN Append(ops, [Op("release", "connect", c) EXCEPT !.tok = tok]) ELSE ops
     /\ up' = IF ends THEN up \ {calls[c].tn} ELSE up

\* A connect begins: it is the newest intent from here on.
Begins(c, plan, again) ==
  /\ c \in Connects /\ begun' = c /\ latest' = c
  /\ calls' = [calls EXCEPT ![c] = [NoCall EXCEPT !.pc = "open", !.plan = plan, !.keep = again]]

ConnectGoesOn(c, tok, ops) ==
  /\ \/ /\ calls[c].pc = "clearing"
        /\ Goes(c, IF Stale(c) THEN "gone" ELSE "open") /\ queue' = ops /\ UNCHANGED up
     \/ /\ calls[c].pc = "holding"
        /\ Goes(c, "starting") /\ queue' = ops /\ up' = up \ {calls[c].tn}
     \/ calls[c].pc \in {"engaging", "stranded"} /\ Settle(c, tok, ops)
     \/ /\ calls[c].pc = "undoing"
        /\ Goes(c, "gone") /\ queue' = ops /\ up' = up \ {calls[c].tn}
  /\ UNCHANGED <<begun, latest, tun, disc, rebuild, keep>>

\* All tunnels stop, and the watch with them.
TunnelsStop == up' = {} /\ watch' = [watch EXCEPT !.tok = NoToken]

\* The rebuild of an apply or a recovery, unless something overtook its teardown.
ApplyGoesOn ==
  /\ TunnelsStop
  /\ rebuild' = NoConnect
  /\ IF latest = rebuild THEN \E p \in plans : Begins(begun + 1, p, keep)
                       ELSE UNCHANGED <<calls, begun, latest>>
  /\ UNCHANGED <<tun, disc, keep>>

DisconnectGoesOn == TunnelsStop /\ disc' = FALSE /\ UNCHANGED <<calls, begun, latest, tun, rebuild, keep>>

\* The first operation ends and answers with a receipt (or none); the next begins.
\* An engage that did not fail starts the watch with its receipt; none stops it.
Ends(tok, watching) ==
  LET op == Head(queue) ops == Tail(queue) IN
  \/ /\ op.who = "connect" /\ ConnectGoesOn(op.id, tok, ops)
     /\ watch' = IF watching
                   THEN [watch EXCEPT !.tok = tok, !.ticks = IF tok = NoToken THEN @ ELSE 0]
                   ELSE watch
  \/ op.who = "apply" /\ ApplyGoesOn /\ queue' = ops
  \/ op.who = "disconnect" /\ DisconnectGoesOn /\ queue' = ops
  \/ /\ op.who = "watch" /\ watch' = [watch EXCEPT !.busy = FALSE]
     /\ queue' = ops /\ UNCHANGED callers
  \/ op.who = "nobody" /\ queue' = ops /\ UNCHANGED <<callers, watch>>

Done == Ends(NoToken, FALSE)

World == <<running, plans, present>>

-----------------------------------------------------------------------------
(* engage and engageUdpBlock.                                              *)

\* winWithoutHold: our hold is nobody's original.
Original(a) == IF dns[a] = "hold" THEN "auto" ELSE dns[a]

\* mergeTargets: keep what is recorded, add what came up since.
MergedAfresh == [a \in Adapters |-> IF a \in present THEN Original(a) ELSE file.rec[a]]
Merged == [a \in Adapters |-> IF file.rec[a] = "none" /\ a \in present THEN Original(a) ELSE file.rec[a]]

Recorded(rec) == {a \in Adapters : rec[a] # "none"}

\* Set-DnsClientServerAddress: an adapter that is away cannot be set, and one that
\* is there may refuse.
Held(s) == [a \in Adapters |-> IF a \in s THEN "hold" ELSE dns[a]]
Refuses(targets, r) ==
  /\ targets \ present \subseteq r /\ r \subseteq targets
  /\ IF r \subseteq targets \ present THEN UNCHANGED left ELSE Happens("refuse")

\* Rules of a stricter session are out there that this level does not put back.
Leaves(op) == file.strict /\ ~op.strict

\* A UDP block that is still out there stays recorded, unless this level's rules or
\* the lifting of the last one's took it away.
StaysUnknown(op) == FALSE
Stays(op) == file.udp /\ ~op.strict /\ ~file.strict

\* The state goes to disk before the first adapter changes, and the receipt is live.
Writes(op, rec) ==
  /\ file' = [there |-> TRUE, peer |-> TRUE, rec |-> rec, strict |-> op.strict,
              udp |-> Stays(op)]
  /\ token' = op.tok
  /\ Step([op EXCEPT !.at = "apply"])

EngageRest == <<World, dns, issued, own, callers, watch, told, strays>>

Snapshot ==
  /\ Runs("engage", "first")
  /\ LET op == Head(queue) IN
       /\ Recorded(Merged) # {}
       /\ IF Leaves(op)
            THEN Step([op EXCEPT !.at = "lift", !.rec = Merged]) /\ UNCHANGED <<file, token>>
            ELSE Writes(op, Merged)
  /\ refused' = {} /\ seen' = {}
  /\ UNCHANGED <<EngageRest, rules, left>>

\* The rules of a stricter session go while the old file still claims them.
Lift ==
  /\ Runs("engage", "lift")
  /\ rules' = "none"
  /\ Writes([Head(queue) EXCEPT !.rec = Nothing], Head(queue).rec)
  /\ UNCHANGED <<EngageRest, refused, seen, left>>

LiftFails ==
  /\ Runs("engage", "lift") /\ Happens("fault")
  /\ rules' \in {rules, "none"}
  /\ Done
  /\ UNCHANGED <<dns, present, file, running, plans, guard, told, strays>>

\* No receipt: there is nothing to guard, or the snapshot failed.
EngagesNothing ==
  /\ \/ /\ Runs("engage", "first") /\ Recorded(Merged) = {}
        /\ refused' = {} /\ seen' = {} /\ Ends(NoToken, TRUE) /\ UNCHANGED left
     \/ /\ Runs("block", "first") /\ present = {}
        /\ Done /\ UNCHANGED <<refused, seen, left>>
     \/ /\ Runs("engage", "first") \/ Runs("block", "first")
        /\ Happens("fault") /\ Done /\ UNCHANGED <<refused, seen>>
  /\ UNCHANGED <<machine, file, running, plans, token, issued, own, told, strays>>

\* The adapters are held; only when not one could be is it an error.
SetAdapters ==
  /\ Runs("engage", "apply")
  /\ LET op == Head(queue) targets == Recorded(file.rec) IN
       \E r \in SUBSET targets :
         /\ Refuses(targets, r)
         /\ dns' = Held(targets \ r)
         /\ refused' = refused \cup r
         /\ IF r = targets THEN Ends(op.tok, FALSE)
            ELSE IF op.strict THEN Step([op EXCEPT !.at = "rules"]) /\ UNCHANGED <<callers, watch>>
            ELSE Ends(op.tok, TRUE)
  /\ UNCHANGED <<present, rules, file, running, plans, token, issued, own, seen, told, strays>>

\* The group's rules are removed, then put in: a script that fails stops anywhere.
Replaces(level) ==
  \/ rules' = level /\ UNCHANGED left
  \/ Happens("fault") /\ rules' \in {"none", level}
Failing == left' # left

\* An engage that fails after its state was written hands over its receipt all the
\* same; a UDP block that fails does not.
Block ==
  /\ Runs("engage", "rules") \/ Runs("block", "rules")
  /\ LET op == Head(queue) IN
       /\ Replaces(IF op.kind = "engage" THEN "strict" ELSE "udp")
       /\ Ends(IF op.kind = "block" /\ Failing THEN NoToken ELSE op.tok, op.kind = "engage" /\ ~Failing)
  /\ UNCHANGED <<dns, present, file, running, plans, guard, told, strays>>

\* Proxy mode's block of UDP: added to a state file that is there.
RecordBlock ==
  /\ Runs("block", "first") /\ present # {}
  /\ file' = [file EXCEPT !.there = TRUE, !.udp = TRUE]
  /\ token' = Head(queue).tok
  /\ Step([Head(queue) EXCEPT !.at = "rules"])
  /\ UNCHANGED <<EngageRest, rules, refused, seen, left>>

\* The script of an engage or a recheck is killed on its way: not the adapters'
\* refusal, and not remembered as one.
ApplyFails ==
  /\ Runs("engage", "apply") \/ Runs("refresh", "apply")
  /\ Happens("fault")
  /\ LET op == Head(queue) engages == op.kind = "engage" IN
       /\ \E s \in SUBSET ((IF engages THEN Recorded(file.rec) ELSE op.set) \cap present) : dns' = Held(s)
       /\ Ends(IF engages THEN op.tok ELSE NoToken, FALSE)
  /\ UNCHANGED <<present, rules, file, running, plans, guard, told, strays>>

Engage ==
  Snapshot \/ Lift \/ LiftFails \/ EngagesNothing \/ SetAdapters \/ ApplyFails \/ Block \/ RecordBlock

-----------------------------------------------------------------------------
(* holdForReconnect: the state file stays; the rules, when there are some,  *)
(* are put in anew with wider holes.  Its caller swallows a failure.        *)

Hold ==
  /\ Runs("hold", "first")
  /\ IF file.strict THEN Replaces("strict") ELSE UNCHANGED <<rules, left>>
  /\ Done
  /\ UNCHANGED <<dns, present, file, running, plans, guard, told, strays>>

-----------------------------------------------------------------------------
(* refresh: repair what drifted from the hold, for an exact live receipt.   *)

Refreshes(op) == op.tok = token /\ own /\ file.there /\ file.peer

Drifted == {a \in present : dns[a] # "hold" /\ a \notin refused}

\* The quick look at what netsh lists: a recorded adapter that drifted, or one
\* nobody recorded and nobody has looked at.
Newcomers == {a \in present : file.rec[a] = "none" /\ dns[a] # "hold" /\ a \notin seen}
NothingSeen == Recorded(file.rec) \cap Drifted = {} /\ Newcomers = {}

\* A full recheck tries again what refused.
RetriedNever(full) == refused
Retried(full) == IF full THEN {} ELSE refused

Quick(op) == ~op.full /\ Recorded(file.rec) # {}
Looks(op) ==
  /\ refused' = Retried(op.full)
  /\ seen' = IF Quick(op) THEN seen \cup Newcomers ELSE seen

\* A stale receipt, nothing to see, or one of the scripts failed.
RefreshSkips ==
  /\ Runs("refresh", "first")
  /\ LET op == Head(queue) IN
       \/ ~Refreshes(op) /\ UNCHANGED <<refused, seen, left>>
       \/ Refreshes(op) /\ Quick(op) /\ NothingSeen /\ UNCHANGED <<refused, seen, left>>
       \/ Refreshes(op) /\ Happens("fault") /\ (Looks(op) \/ UNCHANGED <<refused, seen>>)
  /\ Done
  /\ UNCHANGED <<machine, file, running, plans, token, issued, own, told, strays>>

\* The snapshot: adapters that came up are recorded before any is changed.
RefreshLooks ==
  /\ Runs("refresh", "first")
  /\ LET op == Head(queue) IN
       /\ Refreshes(op)
       /\ ~(Quick(op) /\ NothingSeen)
       /\ Looks(op)
       /\ LET changed == {a \in present : dns[a] # "hold" /\ a \notin refused'} IN
            IF changed = {} THEN Done /\ UNCHANGED file
            ELSE /\ file' = [file EXCEPT !.rec = Merged]
                 /\ Step([op EXCEPT !.at = "apply", !.set = changed])
                 /\ UNCHANGED <<callers, watch>>
  /\ UNCHANGED <<machine, running, plans, token, issued, own, told, left, strays>>

RefreshSets ==
  /\ Runs("refresh", "apply")
  /\ \E r \in SUBSET Head(queue).set :
       /\ Refuses(Head(queue).set, r)
       /\ dns' = Held(Head(queue).set \ r)
       /\ refused' = refused \cup r
  /\ Done
  /\ UNCHANGED <<present, rules, file, running, plans, token, issued, own, seen, told, strays>>

Refresh == RefreshSkips \/ RefreshLooks \/ RefreshSets

-----------------------------------------------------------------------------
(* release.                                                                *)

\* _owns: a release without a receipt is the user's own intent.
OwnsAll(tok) == TRUE
Owns(tok) == tok = NoToken \/ token = NoToken \/ tok = token

\* The restore skips an adapter that is away.
Restorable == Recorded(file.rec) \cap present
Restored(s) == [a \in Adapters |-> IF a \in s THEN file.rec[a] ELSE dns[a]]

RulesLifted == IF file.strict \/ file.udp THEN "none" ELSE rules
PassedOver == {a \in Recorded(file.rec) \ present : dns[a] # "own"}

\* A script of a release that stops on its way.  The rules go first; then each
\* adapter is reset to automatic resolvers before its own are set again.
RestoreStops ==
  /\ rules' = RulesLifted
  /\ \E s \in SUBSET Restorable :
       \/ dns' = Restored(s)
       \/ \E a \in s : dns' = [Restored(s) EXCEPT ![a] = "auto"]

ReleasesNothing ==
  /\ Runs("release", "first")
  /\ ~Owns(Head(queue).tok) \/ ~file.there
  /\ Done
  /\ UNCHANGED <<machine, file, running, plans, guard, told, left, strays>>

GivesBack ==
  /\ rules' = RulesLifted
  /\ dns' = Restored(Restorable)
  /\ strays' = (strays \cup PassedOver) \ {a \in Restorable : file.rec[a] = "own"}
  /\ file' = NoFile

Releases ==
  /\ Runs("release", "first") /\ Owns(Head(queue).tok) /\ file.there
  /\ GivesBack
  /\ token' = NoToken /\ own' = FALSE /\ told' = FALSE
  /\ Done
  /\ UNCHANGED <<present, running, plans, issued, refused, seen, left>>

\* The script stops anywhere: the file stays, and the user is told.
ReleaseFails ==
  /\ Runs("release", "first") /\ Owns(Head(queue).tok) /\ file.there
  /\ Happens("fault")
  /\ UNCHANGED <<dns, rules>> \/ RestoreStops
  /\ told' = TRUE
  /\ Done
  /\ UNCHANGED <<present, file, running, plans, guard, strays>>

Release == ReleasesNothing \/ Releases \/ ReleaseFails

-----------------------------------------------------------------------------
(* The callers in main.js.                                                 *)

Calling(c, pc) == calls[c].pc = pc /\ running

InFlight == \E c \in Connects : calls[c].pc \notin {"none", "stands", "gone"}

\* guardInUse
GuardInUse == InFlight \/ tun \in up

CallRest == <<machine, file, running, token, refused, seen, told, plans, strays>>

Asks(op) == queue' = Append(queue, op)

Connect ==
  /\ running /\ Happens("connect")
  /\ \E p \in plans : Begins(begun + 1, p, FALSE)
  /\ UNCHANGED <<CallRest, queue, issued, own, tun, up, disc, rebuild, keep, watch>>

\* A connect without a tunnel gives back a guard held for one; any other goes on to
\* its tunnel's instance, the running one if there is one.
Opens(c) ==
  /\ Calling(c, "open")
  /\ IF Stale(c) THEN Goes(c, "gone") /\ UNCHANGED <<queue, tun>>
     ELSE IF calls[c].plan \notin Tunnelled /\ tun \notin up /\ file.there /\ file.peer
       THEN Goes(c, "clearing") /\ Asks(Op("release", "connect", c)) /\ UNCHANGED tun
     ELSE /\ tun' = IF tun \in up THEN tun ELSE c
          /\ calls' = [calls EXCEPT ![c].pc = "selected", ![c].tn = tun']
          /\ UNCHANGED queue
  /\ UNCHANGED <<CallRest, issued, own, begun, latest, up, disc, rebuild, keep, watch, left>>

\* The connect fails before a tunnel came up: a guard nobody uses is given back,
\* but not by a recovery.
Fails(c) ==
  /\ Calling(c, "open") \/ Calling(c, "selected")
  /\ ~Stale(c) /\ Happens("fault")
  /\ Goes(c, "gone")
  /\ queue' = IF /\ ~calls[c].keep /\ file.there /\ file.peer /\ tun \notin up
                 /\ \A d \in Connects \ {c} : calls[d].pc \in {"none", "stands", "gone"}
                THEN Append(queue, Op("release", "nobody", NoConnect)) ELSE queue
  /\ UNCHANGED <<CallRest, issued, own, begun, latest, tun, up, disc, rebuild, keep, watch>>

\* The core runs.  A tunnel that is up was built for the last server: held, then
\* torn down.  Proxy mode puts the block of UDP in, or nothing.
Selects(c) ==
  /\ Calling(c, "selected")
  /\ \/ Stale(c) /\ Goes(c, "gone") /\ UNCHANGED <<queue, up>>
     \/ /\ ~Stale(c) /\ calls[c].plan \in Tunnelled /\ calls[c].tn \in up
        /\ Goes(c, "holding") /\ Asks(Op("hold", "connect", c)) /\ UNCHANGED up
     \/ /\ ~Stale(c) /\ calls[c].plan \in Tunnelled /\ calls[c].tn \notin up
        /\ Goes(c, "starting") /\ UNCHANGED <<queue, up>>
     \/ ~Stale(c) /\ calls[c].plan = "udp" /\ Goes(c, "resolving") /\ UNCHANGED <<queue, up>>
     \/ ~Stale(c) /\ calls[c].plan = "plain" /\ Settle(c, NoToken, queue)
  /\ UNCHANGED <<CallRest, issued, own, begun, latest, tun, disc, rebuild, keep, watch, left>>

\* The addresses the block leaves open are looked up; then it is put in, whoever's
\* intent counts by now.
Resolves(c) ==
  /\ Calling(c, "resolving")
  /\ Goes(c, "engaging") /\ own' = TRUE /\ issued' = issued + 1
  /\ Asks([Op("block", "connect", c) EXCEPT !.tok = issued'])
  /\ UNCHANGED <<CallRest, begun, latest, tun, up, disc, rebuild, keep, watch, left>>

\* The tunnel is up - whoever's intent counts by now - and the guard is engaged on
\* it, unless it is off.
TunnelStarts(c) ==
  /\ Calling(c, "starting")
  /\ IF calls[c].plan \in Guarded
       THEN /\ up' = up \cup {calls[c].tn}
            /\ Goes(c, "engaging") /\ own' = TRUE /\ issued' = issued + 1
            /\ Asks([Op("engage", "connect", c) EXCEPT !.tok = issued', !.strict = (calls[c].plan = "strict")])
       ELSE /\ UNCHANGED <<queue, issued, own>>
            /\ IF Stale(c) THEN Goes(c, "gone") /\ up' = up \ {calls[c].tn}
                           ELSE Goes(c, "stands") /\ up' = up \cup {calls[c].tn}
  /\ UNCHANGED <<CallRest, begun, latest, tun, disc, rebuild, keep, watch, left>>

\* No tunnel after all: a guard held for it is given back, unless a recovery will
\* try again.
TunnelFails(c) ==
  /\ Calling(c, "starting") /\ Happens("fault")
  /\ IF ~Stale(c) /\ ~calls[c].keep /\ file.there /\ file.peer
       THEN Goes(c, "stranded") /\ Asks(Op("release", "connect", c)) /\ UNCHANGED up
       ELSE Settle(c, NoToken, queue)
  /\ UNCHANGED <<CallRest, issued, own, begun, latest, tun, disc, rebuild, keep, watch>>

\* reapplyConnection, for changed settings or for a recovery.
Reapply ==
  /\ running /\ rebuild = NoConnect /\ latest # NoConnect /\ calls[latest].pc = "stands"
  /\ begun < MaxConnects
  /\ Happens("apply")
  /\ rebuild' = latest /\ keep' \in BOOLEAN
  /\ Asks(Op("hold", "apply", NoConnect))
  /\ UNCHANGED <<CallRest, issued, own, conn, disc, watch>>

Disconnect ==
  /\ running /\ ~disc /\ Happens("disconnect")
  /\ latest' = NoConnect /\ disc' = TRUE
  /\ Asks(Op("release", "disconnect", NoConnect))
  /\ UNCHANGED <<CallRest, issued, own, calls, begun, tun, up, rebuild, keep, watch>>

\* guard:release, the banner's button.
Button ==
  /\ running /\ ~GuardInUse /\ Happens("button")
  /\ Asks(Op("release", "nobody", NoConnect))
  /\ UNCHANGED <<CallRest, issued, own, callers, watch>>

\* DnsGuardWatch.tick
IsActive == tun \in up /\ ~disc /\ rebuild = NoConnect

NextTick == (watch.ticks + 1) % FullEvery

Tick ==
  /\ running /\ watch.tok # NoToken /\ ~watch.busy /\ IsActive
  /\ watch' = [watch EXCEPT !.busy = TRUE, !.ticks = NextTick]
  /\ Asks([Op("refresh", "watch", NoConnect) EXCEPT !.tok = watch.tok, !.full = (watch.ticks = 0)])
  /\ UNCHANGED <<CallRest, issued, own, callers, left>>

MainCalls ==
  \/ Connect \/ Reapply \/ Disconnect \/ Button
  \/ \E c \in Connects : Opens(c) \/ Fails(c) \/ Selects(c) \/ Resolves(c) \/ TunnelStarts(c) \/ TunnelFails(c)

-----------------------------------------------------------------------------
(* The end of the process and its launch.                                  *)

\* What the script of the running operation, or the exit hook's release, has done
\* so far when it is cut off.
CutOff ==
  \/ UNCHANGED <<dns, rules>>
  \/ Runs("engage", "lift") /\ rules' = "none" /\ UNCHANGED dns
  \/ Runs("engage", "apply") /\ UNCHANGED rules
       /\ \E s \in SUBSET (Recorded(file.rec) \cap present) : dns' = Held(s)
  \/ Runs("engage", "rules") /\ rules' \in {"none", "strict"} /\ UNCHANGED dns
  \/ Runs("block", "rules") /\ rules' \in {"none", "udp"} /\ UNCHANGED dns
  \/ Runs("hold", "first") /\ file.strict /\ rules' \in {"none", "strict"} /\ UNCHANGED dns
  \/ Runs("refresh", "apply") /\ UNCHANGED rules
       /\ \E s \in SUBSET (Head(queue).set \cap present) : dns' = Held(s)
  \/ file.there /\ RestoreStops

Forgets ==
  /\ running' = FALSE /\ queue' = <<>>
  /\ token' = NoToken /\ issued' = 0 /\ own' = FALSE /\ refused' = {} /\ seen' = {}
  /\ calls' = [c \in Connects |-> [NoCall EXCEPT !.pc = IF c <= begun THEN "gone" ELSE "none"]]
  /\ latest' = NoConnect /\ tun' = NoConnect /\ up' = {} /\ UNCHANGED begun
  /\ disc' = FALSE /\ rebuild' = NoConnect /\ keep' = FALSE /\ watch' = NoWatch

Crash ==
  /\ running /\ Happens("crash")
  /\ CutOff /\ Forgets
  /\ UNCHANGED <<present, file, told, plans, strays>>

\* The exit hook runs the release once more, on its own and synchronously.
Exit ==
  /\ running /\ Happens("crash") /\ file.there
  /\ GivesBack /\ Forgets /\ told' = FALSE
  /\ UNCHANGED <<present, plans>>

\* A state file at the launch is a dead session's: released before anything else.
Launch ==
  /\ ~running /\ running' = TRUE
  /\ queue' = IF file.there THEN <<Op("release", "nobody", NoConnect)>> ELSE <<>>
  /\ UNCHANGED <<machine, file, guard, callers, watch, told, plans, left, strays>>

-----------------------------------------------------------------------------
(* The machine.                                                            *)

\* Another program puts an adapter back on its own resolvers.
Drifts(a) ==
  /\ a \in present /\ dns[a] = "hold" /\ Happens("drift")
  /\ dns' = [dns EXCEPT ![a] = "own"]
  /\ UNCHANGED <<present, rules, file, running, queue, guard, callers, watch, told, plans, strays>>

\* An adapter is unplugged or comes back.  It keeps its resolvers while it is away.
Plugs(a) ==
  /\ Happens("plug")
  /\ present' = IF a \in present THEN present \ {a} ELSE present \cup {a}
  /\ UNCHANGED <<dns, rules, file, running, queue, guard, callers, watch, told, plans, strays>>

Work == Engage \/ Hold \/ Refresh \/ Release

Environment == \E a \in Adapters : Drifts(a) \/ Plugs(a)

\* Nothing is under way: the system may stop here.
Quiet == running /\ queue = <<>> /\ ~InFlight
Rest == Quiet /\ UNCHANGED vars

Next == Work \/ MainCalls \/ Tick \/ Crash \/ Exit \/ Launch \/ Environment \/ Rest

Spec == Init /\ [][Next]_vars

\* Node goes on with the operation that runs; the watch's timer goes on firing.
FairSpec == Spec /\ WF_vars(Work) /\ WF_vars(Tick)

-----------------------------------------------------------------------------
(* Correctness.                                                            *)

\* An adapter that is not on the user's own resolvers - on the hold, or on automatic
\* ones after a restore that stopped half way - has them on record: through any
\* sequence of engages, holds, rechecks, scripts that fail or are cut off, crashes,
\* unplugged adapters and releases, but for one that was away when it was to be put
\* back.
OriginalsKept == \A a \in Adapters \ strays : dns[a] = "own" \/ file.rec[a] = "own"

\* Rules that are out there are claimed by the file, so that a release or the next
\* launch removes them.
RulesRecorded == rules # "none" => file.strict \/ file.udp

\* A UDP block whose script failed after its state was written: live, and no connect
\* got its receipt.
Unreceipted == file.udp /\ token # NoToken /\ \A c \in Connects : calls[c].tok # token

\* The user disconnected and everything has come to rest: the guard is gone, or the
\* user was told that it could not be released.
DisconnectGivesBack == Quiet /\ latest = NoConnect => ~file.there \/ told \/ Unreceipted

\* A connection that stands over its tunnel with the receipt of its own engage.
Stands(c) ==
  /\ running /\ latest = c /\ calls[c].pc = "stands" /\ calls[c].plan \in Guarded
  /\ calls[c].tn \in up /\ calls[c].tok # NoToken
Last(c) == calls[c].tok = issued

\* No overtaken connect, stranded release, failed connect or button takes the guard
\* of a connection that stands and engaged last.
GuardStands == \A c \in Connects : Stands(c) /\ Last(c) => file.there /\ token = calls[c].tok

\* The watch looks after this connection.
Watched(c) == Stands(c) /\ Last(c) /\ watch.tok = calls[c].tok /\ IsActive

\* An adapter that drifted, or came up, is put on the hold as long as the session
\* lasts and the adapter stays.
DriftRepaired ==
  \A c \in Connects, a \in Adapters :
    (Watched(c) /\ a \in present /\ dns[a] # "hold")
      ~> (dns[a] = "hold" \/ a \notin present \/ ~Watched(c))

-----------------------------------------------------------------------------
(* The inductive invariant of OriginalsKept and RulesRecorded.             *)

\* Only the first operation of the queue has begun.
OneRuns == \A i \in 2..Len(queue) : queue[i].at = "first"

\* What an operation under way may rely on: nobody else wrote the file meanwhile.
RunsOn(op) ==
  /\ op.at = "lift" =>
       \A a \in Adapters : /\ file.rec[a] # "none" => op.rec[a] = file.rec[a]
                           /\ op.rec[a] = "auto" => a \in strays
  /\ op.kind = "refresh" /\ op.at = "apply" => op.set \subseteq Recorded(file.rec)
  /\ op.kind = "engage" /\ op.at = "apply" => op.strict = file.strict
  /\ op.kind = "engage" /\ op.at = "rules" => file.strict
  /\ op.kind = "block" /\ op.at = "rules" => file.udp
HeadShape == queue # <<>> => RunsOn(Head(queue))

\* Only what a release passed over is recorded as anything but the user's own.
RecordsOwn == \A a \in Adapters : file.rec[a] = "auto" => a \in strays

IInv == TypeOK /\ OneRuns /\ HeadShape /\ RecordsOwn /\ OriginalsKept /\ RulesRecorded
=============================================================================
