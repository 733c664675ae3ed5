----------------------------- MODULE NetWatcher -----------------------------
(***************************************************************************)
(* The watcher of the machine's network under a live tunnel                *)
(* (src/src/main/netWatcher.js, class NetWatcher).                         *)
(*                                                                         *)
(* A poll compares the network with a baseline and fires a recovery once   *)
(* the network has held still; a poke (wake from sleep, `online') fires at *)
(* once.  A recovery is the caller's asynchronous code: it may take any    *)
(* time, or never return.  A trigger that arrives meanwhile is remembered. *)
(***************************************************************************)
EXTENDS Naturals, FiniteSets

CONSTANTS
  Nets,        \* networks the machine can be attached to, as fingerprints
  NoNet,       \* the fingerprint of a machine with no routable address
  NoPending,   \* null: no fingerprint is being watched for holding still
  Interval,    \* intervalMs, the poll period
  Debounce,    \* debounceMs, how long a network must hold still
  MaxMoves,    \* bound: changes of the network
  MaxPokes,    \* bound: pokes
  MaxStops     \* bound: calls of stop()

ASSUME NetWatcherAssumption ==
  /\ Interval \in Nat \ {0} /\ Debounce \in Nat
  /\ MaxMoves \in Nat /\ MaxPokes \in Nat /\ MaxStops \in Nat
  /\ NoNet \notin Nets /\ NoPending \notin Nets \cup {NoNet}

Fingerprints == Nets \cup {NoNet}

VARIABLES
  net,         \* the network as the operating system has it
  watching,    \* the poll timer is set
  last,        \* the fingerprint of the last settled network, the baseline
  pending,     \* the fingerprint seen while the network was still moving
  settledFor,  \* how long the pending fingerprint has held
  moved,       \* the network has left the baseline since the last fire
  busy,        \* a recovery is in flight
  queued,      \* a trigger arrived during that recovery
  gen,         \* bumped by stop()
  runs,        \* recoveries in flight, each with the generation it began in
  hung,        \* those that will never return
  moves,       \* changes of the network so far
  pokes,       \* pokes so far
  seen,        \* ghost: the network the watcher last looked at
  owed         \* ghost: it saw a change that no recovery has begun since

state == <<last, pending, settledFor, moved, busy, queued, gen>>
nwVars == <<net, watching, state, runs, hung, moves, pokes, seen, owed>>

NwTypeOK ==
  /\ net \in Fingerprints /\ last \in Fingerprints /\ seen \in Fingerprints
  /\ pending \in Fingerprints \cup {NoPending}
  /\ settledFor \in 0..Debounce
  /\ {watching, moved, busy, queued, owed} \subseteq BOOLEAN
  /\ gen \in 0..MaxStops
  /\ runs \in SUBSET (0..MaxStops) /\ hung \in SUBSET runs
  /\ moves \in 0..MaxMoves /\ pokes \in 0..MaxPokes

\* A constructed watcher, not started; any network.
NwInit ==
  /\ net \in Fingerprints
  /\ last = net /\ seen = net      \* null until start(), which sets them
  /\ watching = FALSE
  /\ pending = NoPending /\ settledFor = 0
  /\ moved = FALSE /\ busy = FALSE /\ queued = FALSE
  /\ gen = 0 /\ runs = {} /\ hung = {}
  /\ moves = 0 /\ pokes = 0
  /\ owed = FALSE

\* The watcher reads the network; what it had not seen before is owed a recovery.
Saw(change) == seen' = net /\ owed' = change

-----------------------------------------------------------------------------
\* Slip: a trigger that finds a recovery in flight is dropped.
FireDropping ==
  IF busy THEN UNCHANGED <<busy, queued, runs>>
          ELSE busy' = TRUE /\ runs' = runs \cup {gen} /\ UNCHANGED queued

\* Run the recovery, or remember the trigger behind the one in flight.  A
\* recovery that fails or returns at once has settled before fire() returns.
Fire ==
  \/ /\ busy
     /\ queued' = TRUE
     /\ UNCHANGED <<busy, runs>>
  \/ /\ ~busy
     /\ busy' = TRUE /\ runs' = runs \cup {gen}
     /\ UNCHANGED queued
  \/ ~busy /\ UNCHANGED <<busy, runs, queued>>

\* Slip: stop() leaves the lock as it is.
ReleasedNever == UNCHANGED <<busy, queued>>

\* stop() forgets a recovery in flight: a hung one must not deafen the watcher.
Released == busy' = FALSE /\ queued' = FALSE

Start ==
  /\ ~watching
  /\ watching' = TRUE
  /\ last' = net
  /\ pending' = NoPending /\ settledFor' = 0 /\ moved' = FALSE
  /\ Saw(FALSE)
  /\ UNCHANGED <<net, busy, queued, gen, runs, hung, moves, pokes>>

Stop ==
  /\ gen < MaxStops
  /\ gen' = gen + 1
  /\ Released
  /\ pending' = NoPending /\ settledFor' = 0 /\ moved' = FALSE
  /\ watching' = FALSE
  /\ owed' = FALSE
  /\ UNCHANGED <<net, last, runs, hung, moves, pokes, seen>>

\* A poll.  While the network moves it only remembers that it left the
\* baseline; once it holds still that becomes the new one, and fires - unless
\* there is no address at all, when the trigger is held.
LeftBaseline == moved \/ net # last

TickMoving ==
  /\ watching /\ net # pending
  /\ moved' = LeftBaseline
  /\ pending' = net /\ settledFor' = 0
  /\ Saw(owed \/ net # seen)
  /\ UNCHANGED <<net, watching, last, busy, queued, gen, runs, hung, moves, pokes>>

TickHolding ==
  /\ watching /\ net = pending /\ settledFor + Interval < Debounce
  /\ moved' = LeftBaseline
  /\ settledFor' = settledFor + Interval
  /\ Saw(owed \/ net # seen)
  /\ UNCHANGED <<net, watching, last, pending, busy, queued, gen, runs, hung, moves, pokes>>

TickSettled ==
  /\ watching /\ net = pending /\ settledFor + Interval >= Debounce
  /\ last' = net /\ pending' = NoPending /\ settledFor' = 0
  /\ moved' = (LeftBaseline /\ net = NoNet)
  /\ IF LeftBaseline /\ net # NoNet
       THEN Fire /\ Saw(busy)
       ELSE UNCHANGED <<busy, queued, runs>> /\ Saw(owed \/ net # seen)
  /\ UNCHANGED <<net, watching, gen, hung, moves, pokes>>

Tick == TickMoving \/ TickHolding \/ TickSettled

\* An out-of-band signal: its recovery covers everything up to now.
Poke ==
  /\ watching
  /\ pokes < MaxPokes /\ pokes' = pokes + 1
  /\ last' = net /\ moved' = FALSE
  /\ Fire /\ Saw(busy)
  /\ UNCHANGED <<net, watching, pending, settledFor, gen, hung, moves>>

\* Slip: whoever returns releases the lock.
SettleForAnyone(g) ==
  /\ busy' = queued /\ queued' = FALSE
  /\ runs' = IF queued THEN (runs \ {g}) \cup {gen} ELSE runs \ {g}
  /\ owed' = (owed /\ ~queued)

\* A recovery of generation g returns: release the lock and run what arrived
\* meanwhile.  After a stop() it no longer speaks for the watcher.
Settle(g) ==
  IF g = gen
    THEN \/ /\ busy' = queued /\ queued' = FALSE
            /\ runs' = IF queued THEN runs ELSE runs \ {g}
            /\ owed' = (owed /\ ~queued)
         \/ queued /\ busy' = FALSE /\ queued' = FALSE /\ runs' = runs \ {g} /\ owed' = FALSE
    ELSE runs' = runs \ {g} /\ UNCHANGED <<busy, queued, owed>>

RunSettles ==
  \E g \in runs \ hung :
    /\ Settle(g)
    /\ UNCHANGED <<net, watching, last, pending, settledFor, moved, gen, hung, moves, pokes, seen>>

\* The caller's recovery waits for something that never comes.
Hangs ==
  /\ hung' = hung \cup runs /\ hung' # hung
  /\ UNCHANGED <<net, watching, state, runs, moves, pokes, seen, owed>>

\* Between two polls the network may do anything, and be back.
Move ==
  \E n \in Fingerprints \ {net} :
    /\ moves < MaxMoves /\ moves' = moves + 1
    /\ net' = n
    /\ UNCHANGED <<watching, state, runs, hung, pokes, seen, owed>>

NwNext == Start \/ Stop \/ Tick \/ Poke \/ RunSettles \/ Hangs \/ Move

NwSpec == NwInit /\ [][NwNext]_nwVars

\* The timer polls while it is set, and a recovery that is not hung returns.
NwFairSpec == NwSpec /\ WF_nwVars(Tick) /\ WF_nwVars(RunSettles)

-----------------------------------------------------------------------------
(* Correctness.                                                            *)

\* Every recovery in flight belongs to this generation or an older one, and the
\* lock is held exactly while one of this generation runs: neither two
\* recoveries at once, nor a lock that nobody will release.
LockIsTheRuns == (busy <=> gen \in runs) /\ (queued => busy)

\* A change that the watcher saw and no recovery began after is not forgotten:
\* it waits for the network to hold still, or behind the recovery in flight.
NothingLost == owed => moved \/ queued

\* A drop that came back on the same lease is a change too: as long as nothing
\* is owed to the baseline, it is what the watcher last looked at.
BaselineIsSeen == watching /\ ~moved => seen = last

\* So, once the network holds still and has an address, every change that was
\* seen gets its recovery, unless the watching ends or a recovery hangs.
ChangesRecovered ==
  owed ~> (~owed \/ ~watching \/ net = NoNet \/ gen \in hung)

\* Types and the three facts above: inductive.
NwInv ==
  /\ NwTypeOK
  /\ \A g \in runs : g <= gen
  /\ LockIsTheRuns /\ NothingLost /\ BaselineIsSeen
=============================================================================
