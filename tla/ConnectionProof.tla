-------------------------- MODULE ConnectionProof --------------------------
(***************************************************************************)
(* What holds of the connection for every number of calls in flight, every *)
(* settings and every budget of events.                                    *)
(*                                                                         *)
(* A call is one entry of tasks, and nearly every step replaces one entry  *)
(* and touches a few variables of the machine.  So the proof has one       *)
(* formula, Makes(t, r), for what a step that makes r of the call t may do *)
(* to the rest, one lemma that such a step keeps the invariant, and one    *)
(* lemma for each action that it is such a step.  The two actions that     *)
(* take a generation, Connect and Disconnect, and the exits of processes   *)
(* have lemmas of their own.                                               *)
(***************************************************************************)
EXTENDS Connection, FiniteSetTheorems, SequenceTheorems, TLAPS

\* The local variables of a call; a step changes their values only.
Names == DOMAIN Idle
LEMMA NamesAre ==
  {"pc", "op", "my", "at", "rg", "run", "att", "armed", "sw", "got", "own", "tn", "terr",
   "on", "what", "res", "next"} = Names
  BY DEF Names, Idle

Formed == tasks = [t \in Tasks |-> tasks[t]] /\ \A t \in Tasks : DOMAIN tasks[t] = Names
Inv == Formed /\ CleanInv

\* What the clean-up after a disconnect is about.
Machine == <<gen, dgen, active, userDisc, watcher, proxy, proc, alive, killed, made, astray, up, rule>>

\* What a step may make of the machine when it makes r of the call c.
Step(c, r) ==
  /\ UNCHANGED <<gen, dgen>>
  /\ DOMAIN r = Names /\ Placed(r)
  /\ r.op = "reload" /\ r.pc \in InStart \ {"grace"} /\ r.at = gen /\ gen = dgen => ~active'
  /\ made' \in Nat /\ alive' \subseteq 1..made'
  /\ userDisc' => Leaving(r) \/ (userDisc /\ ~Leaving(c))
  /\ gen = dgen =>
       /\ GivenUp' /\ (active' => active) /\ ~watcher'
       /\ rule' => Unblocks(r) \/ (rule /\ ~Unblocks(c))
       /\ \A n \in up' : Untunnels(r, n) \/ (n \in up /\ ~Untunnels(c, n))
       /\ proxy' => Unproxies(r) \/ (proxy /\ ~Unproxies(c))
       /\ Left' => Stills(r, proc') \/ (Left /\ proc' = proc /\ ~Stills(c, proc))

\* A rebuild is counted while it lasts.
Counts(c, r) ==
  reloading' = IF Rebuilds(c) = Rebuilds(r) THEN reloading
               ELSE IF Rebuilds(r) THEN reloading + 1 ELSE reloading - 1

\* The recovery lock is taken while it is free, and released by who has it.
Locks(c, r) ==
  /\ UNCHANGED rgen /\ runs' \in {runs, runs + 1}
  /\ HasLock(r) => (HasLock(c) /\ recovering' = recovering) \/ (~recovering /\ recovering' = TRUE)
  /\ ~HasLock(r) => recovering' = IF HasLock(c) THEN FALSE ELSE recovering

\* A turn with the system proxy is asked for, and given back when it has come.
Queues(t, c, r) ==
  /\ r.pc \in AtProxy => c.pc \notin AtProxy /\ waiting' = Append(waiting, t)
  /\ r.pc \notin AtProxy =>
       IF c.pc \in AtProxy THEN waiting # <<>> /\ Head(waiting) = t /\ waiting' = Tail(waiting)
                           ELSE UNCHANGED waiting

\* What a step leaves alone when it takes no part in them.
Lock == <<recovering, rgen, runs>>
Turns == <<recovering, rgen, runs, waiting>>
Shares(t, c, r) == Counts(c, r) /\ Locks(c, r) /\ Queues(t, c, r)

Makes(t, r) == tasks' = [tasks EXCEPT ![t] = r] /\ Step(tasks[t], r) /\ Shares(t, tasks[t], r)

\* What a step that leaves the machine alone may do.
Passes(c, r) ==
  /\ DOMAIN r = Names /\ Placed(r) /\ ReloadsLate(r)
  /\ Leaving(c) => Leaving(r)
  /\ gen = dgen =>
       /\ Unblocks(c) => Unblocks(r)
       /\ \A n \in up : Untunnels(c, n) => Untunnels(r, n)
       /\ Unproxies(c) => Unproxies(r)
       /\ Left /\ Stills(c, proc) => Stills(r, proc)

LEMMA StepKeeps ==
  ASSUME Inv, NEW t \in Tasks, NEW r, Makes(t, r)
  PROVE  Inv'
  <1> DEFINE c == tasks[t]
  <1>1. tasks'[t] = r /\ \A u \in Tasks : u # t => tasks'[u] = tasks[u]
    BY DEF Makes, Inv, Formed
  <1>2. Formed'
    BY <1>1 DEF Makes, Step, Inv, Formed
  <1>3. gen' \in Nat /\ dgen' \in 0..gen' /\ rgen' \in Nat /\ made' \in Nat /\ alive' \subseteq 1..made'
    BY DEF Makes, Step, Shares, Locks, Inv, CleanInv
  <1>4. ASSUME NEW u \in Tasks
        PROVE  (Placed(tasks[u]) /\ ReloadsLate(tasks[u]))'
    <2>1. CASE u = t
      BY <1>1, <2>1 DEF Makes, Step, Shares, Locks, Placed, ReloadsLate
    <2>2. CASE u # t
      BY <1>1, <2>2 DEF Makes, Step, Shares, Locks, Inv, CleanInv, Placed, ReloadsLate
    <2> QED
      BY <2>1, <2>2
  <1>5. userDisc' => \E u \in Tasks : Leaving(tasks[u])'
    <2>1. SUFFICES ASSUME userDisc' PROVE \E u \in Tasks : Leaving(tasks[u])'
      OBVIOUS
    <2>2. CASE Leaving(r)
      BY <1>1, <2>2 DEF Leaving, ForCore
    <2>3. CASE userDisc /\ ~Leaving(c)
      <3>1. PICK u \in Tasks : Leaving(tasks[u])
        BY <2>3 DEF Inv, CleanInv
      <3>2. tasks'[u] = tasks[u]
        BY <1>1, <2>3, <3>1
      <3> QED
        BY <3>1, <3>2 DEF Leaving, ForCore
    <2> QED
      BY <2>1, <2>2, <2>3 DEF Makes, Step
  <1>6. ASSUME gen' = dgen'
        PROVE  (/\ GivenUp /\ ~watcher
                /\ rule => \E u \in Tasks : Unblocks(tasks[u])
                /\ \A n \in up : \E u \in Tasks : Untunnels(tasks[u], n)
                /\ proxy => \E u \in Tasks : Unproxies(tasks[u])
                /\ Left => \E u \in Tasks : Stills(tasks[u], proc))'
    <2>1. gen = dgen /\ gen' = gen
      BY <1>6 DEF Makes, Step
    <2>2. GivenUp' /\ ~watcher'
      BY <2>1 DEF Makes, Step
    <2>3. rule' => \E u \in Tasks : Unblocks(tasks[u])'
      <3>1. CASE Unblocks(r)
        BY <1>1, <2>1, <3>1 DEF Unblocks
      <3>2. CASE rule /\ ~Unblocks(c)
        <4>1. PICK u \in Tasks : Unblocks(tasks[u])
          BY <2>1, <3>2 DEF Inv, CleanInv
        <4>2. tasks'[u] = tasks[u]
          BY <1>1, <3>2, <4>1
        <4> QED
          BY <2>1, <4>1, <4>2 DEF Unblocks
      <3> QED
        BY <2>1, <3>1, <3>2 DEF Makes, Step
    <2>4. ASSUME NEW n \in up' PROVE \E u \in Tasks : Untunnels(tasks[u], n)'
      <3>1. CASE Untunnels(r, n)
        BY <1>1, <3>1 DEF Untunnels
      <3>2. CASE n \in up /\ ~Untunnels(c, n)
        <4>1. PICK u \in Tasks : Untunnels(tasks[u], n)
          BY <2>1, <3>2 DEF Inv, CleanInv
        <4>2. tasks'[u] = tasks[u]
          BY <1>1, <3>2, <4>1
        <4> QED
          BY <4>1, <4>2 DEF Untunnels
      <3> QED
        BY <2>1, <2>4, <3>1, <3>2 DEF Makes, Step
    <2>5. proxy' => \E u \in Tasks : Unproxies(tasks[u])'
      <3>1. CASE Unproxies(r)
        BY <1>1, <3>1 DEF Unproxies
      <3>2. CASE proxy /\ ~Unproxies(c)
        <4>1. PICK u \in Tasks : Unproxies(tasks[u])
          BY <2>1, <3>2 DEF Inv, CleanInv
        <4>2. tasks'[u] = tasks[u]
          BY <1>1, <3>2, <4>1
        <4> QED
          BY <4>1, <4>2 DEF Unproxies
      <3> QED
        BY <2>1, <3>1, <3>2 DEF Makes, Step
    <2>6. Left' => \E u \in Tasks : Stills(tasks[u], proc)'
      <3>1. CASE Stills(r, proc')
        BY <1>1, <3>1 DEF Stills, ForCore
      <3>2. CASE Left /\ proc' = proc /\ ~Stills(c, proc)
        <4>1. PICK u \in Tasks : Stills(tasks[u], proc)
          BY <2>1, <3>2 DEF Inv, CleanInv
        <4>2. tasks'[u] = tasks[u]
          BY <1>1, <3>2, <4>1
        <4> QED
          BY <3>2, <4>1, <4>2 DEF Stills, ForCore
      <3> QED
        BY <2>1, <3>1, <3>2 DEF Makes, Step
    <2> QED
      BY <2>2, <2>3, <2>4, <2>5, <2>6
  <1> QED
    BY <1>2, <1>3, <1>4, <1>5, <1>6 DEF Inv, CleanInv

\* What takes no part in the lock and the turns, asks for a turn or ends one.
LEMMA SharesOn ==
  ASSUME NEW t, NEW c, NEW r, Counts(c, r), UNCHANGED Lock, Queues(t, c, r),
         r.run = c.run, r.rg = c.rg \/ r.run = 0
  PROVE  Shares(t, c, r)
  <1>1. HasLock(r) <=> HasLock(c)
    BY DEF HasLock
  <1>2. Locks(c, r)
    BY <1>1 DEF Locks, Lock
  <1> QED
    BY <1>2 DEF Shares

LEMMA SharesAlike ==
  ASSUME NEW t, NEW c, NEW r, Counts(c, r), UNCHANGED Turns, c.pc \notin AtProxy, r.pc \notin AtProxy,
         r.run = c.run, r.rg = c.rg \/ r.run = 0
  PROVE  Shares(t, c, r)
  <1>1. Queues(t, c, r) /\ UNCHANGED Lock
    BY DEF Queues, Turns, Lock
  <1> QED
    BY <1>1, SharesOn

LEMMA SharesAsks ==
  ASSUME NEW t, NEW c, NEW r, Counts(c, r), UNCHANGED Lock, waiting' = Append(waiting, t),
         c.pc \notin AtProxy, r.pc \in AtProxy, r.run = c.run, r.rg = c.rg
  PROVE  Shares(t, c, r)
  BY SharesOn DEF Queues

LEMMA SharesDone ==
  ASSUME NEW t, NEW c, NEW r, Counts(c, r), UNCHANGED Lock, ProxyDone(t),
         c.pc \in AtProxy, r.pc \notin AtProxy, r.run = c.run, r.rg = c.rg \/ r.run = 0
  PROVE  Shares(t, c, r)
  BY SharesOn DEF Queues, ProxyDone

LEMMA QuietMakes ==
  ASSUME Inv, NEW t \in Tasks, NEW r, tasks' = [tasks EXCEPT ![t] = r],
         UNCHANGED Machine, Passes(tasks[t], r), Shares(t, tasks[t], r)
  PROVE  Makes(t, r)
  <1> DEFINE c == tasks[t]
  <1>1. /\ Placed(r) /\ DOMAIN r = Names
        /\ r.op = "reload" /\ r.pc \in InStart \ {"grace"} /\ r.at = gen /\ gen = dgen => ~active'
    BY DEF Passes, Machine, ReloadsLate
  <1>2. userDisc' => Leaving(r) \/ (userDisc /\ ~Leaving(c))
    BY DEF Passes, Machine
  <1>3. ASSUME gen = dgen
        PROVE  /\ GivenUp' /\ (active' => active) /\ ~watcher'
               /\ rule' => Unblocks(r) \/ (rule /\ ~Unblocks(c))
               /\ \A n \in up' : Untunnels(r, n) \/ (n \in up /\ ~Untunnels(c, n))
               /\ proxy' => Unproxies(r) \/ (proxy /\ ~Unproxies(c))
               /\ Left' => Stills(r, proc') \/ (Left /\ proc' = proc /\ ~Stills(c, proc))
    BY <1>3 DEF Passes, Machine, Inv, CleanInv, GivenUp, Left
  <1> QED
    BY <1>1, <1>2, <1>3 DEF Makes, Step, Machine, Inv, CleanInv

-----------------------------------------------------------------------------
(* The kill switch; from here on there is one lemma for each action.       *)

USE DEF None, InStart, InConnect, Arming, Lifting, InDisconnect, InReapply, InRecovery, AtProxy

LEMMA ArmMakes ==
  ASSUME Inv, NEW t \in Tasks, Arm(t)
  PROVE  \E r : Makes(t, r)
  <1> DEFINE c == tasks[t]
             r == To(t, IF engaged THEN "armCheck" ELSE "armDelete")
  <1>1. /\ c.pc = "arm" /\ DOMAIN c = Names /\ Placed(c) /\ ReloadsLate(c)
        /\ gen \in Nat /\ dgen \in 0..gen /\ (gen = dgen => GivenUp)
    BY DEF Arm, At, Inv, Formed, CleanInv
  <1>2. tasks' = [tasks EXCEPT ![t] = r] /\ UNCHANGED Machine /\ UNCHANGED Turns /\ UNCHANGED reloading
    BY DEF Arm, Goes, Awaits, ArmRest, conn, sysproxy, core, started, tunnel, block, recovery,
       Turns, Machine
  <1>3. /\ DOMAIN r = Names
        /\ r.pc \in {"armCheck", "armDelete"}
        /\ r.op = c.op /\ r.my = c.my /\ r.at = c.at /\ r.run = c.run /\ r.rg = c.rg /\ r.armed = c.armed
        /\ r.sw = c.sw /\ r.got = c.got /\ r.own = c.own /\ r.tn = c.tn /\ r.on = c.on /\ r.next = c.next
    BY <1>1, NamesAre DEF To
  <1> HIDE DEF r
  <1>4. Shares(t, c, r)
    <2>1. Counts(c, r)
      BY <1>1, <1>2, <1>3 DEF Counts, Rebuilds, Placed
    <2> QED
      BY <1>1, <1>2, <1>3, <2>1, SharesAlike DEF Placed
  <1>5. Passes(c, r)
    BY <1>1, <1>3 DEF Passes, Placed, ReloadsLate, Leaving, ForCore, Unblocks, Untunnels,
         Unproxies, Stills
  <1> QED
    BY <1>2, <1>4, <1>5, QuietMakes

LEMMA ArmCheckMakes ==
  ASSUME Inv, NEW t \in Tasks, ArmCheck(t)
  PROVE  \E r : Makes(t, r)
  <1> DEFINE c == tasks[t]
             r == IF rule THEN [Then(t) EXCEPT !.got = "held"] ELSE To(t, "armDelete")
  <1>1. /\ c.pc = "armCheck" /\ DOMAIN c = Names /\ Placed(c) /\ ReloadsLate(c)
        /\ gen \in Nat /\ dgen \in 0..gen /\ (gen = dgen => GivenUp)
    BY DEF ArmCheck, At, Inv, Formed, CleanInv
  <1>2. tasks' = [tasks EXCEPT ![t] = r] /\ UNCHANGED Machine /\ UNCHANGED Turns /\ UNCHANGED reloading
    BY DEF ArmCheck, Goes, Awaits, ArmRest, conn, sysproxy, core, started, tunnel, block, recovery,
       Turns, Machine
  <1>3. /\ DOMAIN r = Names
        /\ r.pc \in {c.next, "armDelete"}
        /\ r.op = c.op /\ r.my = c.my /\ r.at = c.at /\ r.run = c.run /\ r.rg = c.rg /\ r.armed = c.armed
        /\ r.sw = c.sw /\ r.own = c.own /\ r.tn = c.tn /\ r.on = c.on /\ r.next = c.next
    BY <1>1, NamesAre DEF To, Then
  <1> HIDE DEF r
  <1>4. Shares(t, c, r)
    <2>1. Counts(c, r)
      BY <1>1, <1>2, <1>3 DEF Counts, Rebuilds, Placed
    <2> QED
      BY <1>1, <1>2, <1>3, <2>1, SharesAlike DEF Placed
  <1>5. Passes(c, r)
    BY <1>1, <1>3 DEF Passes, Placed, ReloadsLate, Leaving, ForCore, Unblocks, Untunnels,
         Unproxies, Stills
  <1> QED
    BY <1>2, <1>4, <1>5, QuietMakes

LEMMA ArmDeleteMakes ==
  ASSUME Inv, NEW t \in Tasks, ArmDelete(t)
  PROVE  \E r : Makes(t, r)
  <1> DEFINE c == tasks[t]
             r == To(t, "armAdd")
  <1>1. /\ c.pc = "armDelete" /\ DOMAIN c = Names /\ Placed(c) /\ ReloadsLate(c)
        /\ gen \in Nat /\ dgen \in 0..gen /\ (gen = dgen => GivenUp)
    BY DEF ArmDelete, At, Inv, Formed, CleanInv
  <1>2. /\ tasks' = [tasks EXCEPT ![t] = r] /\ UNCHANGED Turns /\ UNCHANGED reloading
        /\ rule' = FALSE
        /\ UNCHANGED <<gen, dgen, active, userDisc, watcher, proxy, proc, alive, killed, made, astray, up>>
    BY DEF ArmDelete, Goes, Awaits, ArmRest, conn, sysproxy, core, started, tunnel, block, recovery,
       Turns, Machine
  <1>3. /\ DOMAIN r = Names
        /\ r.pc = "armAdd"
        /\ r.op = c.op /\ r.my = c.my /\ r.at = c.at /\ r.run = c.run /\ r.rg = c.rg /\ r.armed = c.armed
        /\ r.sw = c.sw /\ r.got = c.got /\ r.own = c.own /\ r.tn = c.tn /\ r.on = c.on /\ r.next = c.next
    BY <1>1, NamesAre DEF To
  <1> HIDE DEF r
  <1>4. Shares(t, c, r)
    <2>1. Counts(c, r)
      BY <1>1, <1>2, <1>3 DEF Counts, Rebuilds, Placed
    <2> QED
      BY <1>1, <1>2, <1>3, <2>1, SharesAlike DEF Placed
  <1>5. Step(c, r)
    BY <1>1, <1>2, <1>3 DEF Step, Placed, ReloadsLate, Leaving, ForCore, Unblocks, Untunnels,
       Unproxies, Stills, Left, GivenUp, Inv, CleanInv
  <1> QED
    BY <1>2, <1>4, <1>5 DEF Makes

LEMMA ArmAddMakes ==
  ASSUME Inv, NEW t \in Tasks, ArmAdd(t)
  PROVE  \E r : Makes(t, r)
  <1> DEFINE c == tasks[t]
             added == To(t, "armAdded")
             unarmed == [Then(t) EXCEPT !.got = "no"]
  <1>1. /\ c.pc = "armAdd" /\ DOMAIN c = Names /\ Placed(c) /\ ReloadsLate(c)
        /\ gen \in Nat /\ dgen \in 0..gen /\ (gen = dgen => GivenUp)
    BY DEF ArmAdd, At, Inv, Formed, CleanInv
  <1>2. /\ UNCHANGED Turns
        /\ UNCHANGED <<reloading, gen, dgen, active, userDisc, watcher, proxy, proc, alive, killed, made,
                       astray, up>>
        /\ \/ tasks' = [tasks EXCEPT ![t] = added] /\ rule' = TRUE
           \/ tasks' = [tasks EXCEPT ![t] = unarmed] /\ UNCHANGED rule
    BY DEF ArmAdd, Goes, Awaits, ArmRest, conn, sysproxy, core, started, tunnel, recovery, Turns
  <1>3. /\ DOMAIN added = Names /\ added.pc = "armAdded"
        /\ added.op = c.op /\ added.my = c.my /\ added.at = c.at /\ added.next = c.next
        /\ added.run = c.run /\ added.rg = c.rg
        /\ DOMAIN unarmed = Names /\ unarmed.pc = c.next
        /\ unarmed.op = c.op /\ unarmed.my = c.my /\ unarmed.at = c.at /\ unarmed.next = c.next
        /\ unarmed.run = c.run /\ unarmed.rg = c.rg
    BY <1>1, NamesAre DEF To, Then
  <1> HIDE DEF added, unarmed
  <1>4. CASE tasks' = [tasks EXCEPT ![t] = added] /\ rule' = TRUE
    <2>1. Shares(t, c, added)
      <3>1. Counts(c, added)
        BY <1>1, <1>2, <1>3 DEF Counts, Rebuilds, Placed
      <3> QED
        BY <1>1, <1>2, <1>3, <3>1, SharesAlike DEF Placed
    <2>2. Step(c, added)
      BY <1>1, <1>2, <1>3, <1>4 DEF Step, Placed, ReloadsLate, Leaving, ForCore, Unblocks,
         Untunnels, Unproxies, Stills, Left, GivenUp, Inv, CleanInv
    <2> QED
      BY <1>4, <2>1, <2>2 DEF Makes
  <1>5. CASE tasks' = [tasks EXCEPT ![t] = unarmed] /\ UNCHANGED rule
    <2>1. Shares(t, c, unarmed)
      <3>1. Counts(c, unarmed)
        BY <1>1, <1>2, <1>3 DEF Counts, Rebuilds, Placed
      <3> QED
        BY <1>1, <1>2, <1>3, <3>1, SharesAlike DEF Placed
    <2>2. Passes(c, unarmed)
      BY <1>1, <1>3 DEF Passes, Placed, ReloadsLate, Leaving, ForCore, Unblocks, Untunnels,
         Unproxies, Stills
    <2> QED
      BY <1>2, <1>5, <2>1, <2>2, QuietMakes DEF Machine
  <1> QED
    BY <1>2, <1>4, <1>5

LEMMA ArmAddedMakes ==
  ASSUME Inv, NEW t \in Tasks, ArmAdded(t)
  PROVE  \E r : Makes(t, r)
  <1> DEFINE c == tasks[t]
             r == [Then(t) EXCEPT !.got = "added"]
  <1>1. /\ c.pc = "armAdded" /\ DOMAIN c = Names /\ Placed(c) /\ ReloadsLate(c)
        /\ gen \in Nat /\ dgen \in 0..gen /\ (gen = dgen => GivenUp)
    BY DEF ArmAdded, At, Inv, Formed, CleanInv
  <1>2. tasks' = [tasks EXCEPT ![t] = r] /\ UNCHANGED Machine /\ UNCHANGED Turns /\ UNCHANGED reloading
    BY DEF ArmAdded, Goes, Awaits, ArmRest, conn, sysproxy, core, started, tunnel, block, recovery,
       Turns, Machine
  <1>3. /\ DOMAIN r = Names
        /\ r.pc = c.next /\ r.got = "added"
        /\ r.op = c.op /\ r.my = c.my /\ r.at = c.at /\ r.run = c.run /\ r.rg = c.rg /\ r.armed = c.armed
        /\ r.sw = c.sw /\ r.own = c.own /\ r.tn = c.tn /\ r.on = c.on /\ r.next = c.next
    BY <1>1, NamesAre DEF To, Then
  <1> HIDE DEF r
  <1>4. Shares(t, c, r)
    <2>1. Counts(c, r)
      BY <1>1, <1>2, <1>3 DEF Counts, Rebuilds, Placed
    <2> QED
      BY <1>1, <1>2, <1>3, <2>1, SharesAlike DEF Placed
  <1>5. Passes(c, r)
    BY <1>1, <1>3 DEF Passes, Placed, ReloadsLate, Leaving, ForCore, Unblocks, Untunnels,
         Unproxies, Stills
  <1> QED
    BY <1>2, <1>4, <1>5, QuietMakes

LEMMA DisarmMakes ==
  ASSUME Inv, NEW t \in Tasks, Disarm(t)
  PROVE  \E r : Makes(t, r)
  <1> DEFINE c == tasks[t]
             r == To(t, "disarming")
  <1>1. /\ c.pc = "disarm" /\ DOMAIN c = Names /\ Placed(c) /\ ReloadsLate(c)
        /\ gen \in Nat /\ dgen \in 0..gen /\ (gen = dgen => GivenUp)
    BY DEF Disarm, At, Inv, Formed, CleanInv
  <1>2. tasks' = [tasks EXCEPT ![t] = r] /\ UNCHANGED Machine /\ UNCHANGED Turns /\ UNCHANGED reloading
    BY DEF Disarm, Goes, Awaits, ArmRest, conn, sysproxy, core, started, tunnel, block, recovery,
       Turns, Machine
  <1>3. /\ DOMAIN r = Names
        /\ r.pc = "disarming"
        /\ r.op = c.op /\ r.my = c.my /\ r.at = c.at /\ r.run = c.run /\ r.rg = c.rg /\ r.armed = c.armed
        /\ r.sw = c.sw /\ r.got = c.got /\ r.own = c.own /\ r.tn = c.tn /\ r.on = c.on /\ r.next = c.next
    BY <1>1, NamesAre DEF To
  <1> HIDE DEF r
  <1>4. Shares(t, c, r)
    <2>1. Counts(c, r)
      BY <1>1, <1>2, <1>3 DEF Counts, Rebuilds, Placed
    <2> QED
      BY <1>1, <1>2, <1>3, <2>1, SharesAlike DEF Placed
  <1>5. Passes(c, r)
    BY <1>1, <1>3 DEF Passes, Placed, ReloadsLate, Leaving, ForCore, Unblocks, Untunnels,
         Unproxies, Stills
  <1> QED
    BY <1>2, <1>4, <1>5, QuietMakes

LEMMA DisarmingMakes ==
  ASSUME Inv, NEW t \in Tasks, Disarming(t)
  PROVE  \E r : Makes(t, r)
  <1> DEFINE c == tasks[t]
             r == Then(t)
  <1>1. /\ c.pc = "disarming" /\ DOMAIN c = Names /\ Placed(c) /\ ReloadsLate(c)
        /\ gen \in Nat /\ dgen \in 0..gen /\ (gen = dgen => GivenUp)
    BY DEF Disarming, At, Inv, Formed, CleanInv
  <1>2. /\ tasks' = [tasks EXCEPT ![t] = r] /\ UNCHANGED Turns /\ UNCHANGED reloading
        /\ rule' = FALSE
        /\ UNCHANGED <<gen, dgen, active, userDisc, watcher, proxy, proc, alive, killed, made, astray, up>>
    BY DEF Disarming, Goes, Awaits, ArmRest, conn, sysproxy, core, started, tunnel, block, recovery,
       Turns, Machine
  <1>3. /\ DOMAIN r = Names
        /\ r.pc = c.next
        /\ r.op = c.op /\ r.my = c.my /\ r.at = c.at /\ r.run = c.run /\ r.rg = c.rg /\ r.armed = c.armed
        /\ r.sw = c.sw /\ r.got = c.got /\ r.own = c.own /\ r.tn = c.tn /\ r.on = c.on /\ r.next = c.next
    BY <1>1, NamesAre DEF To, Then
  <1> HIDE DEF r
  <1>4. Shares(t, c, r)
    <2>1. Counts(c, r)
      BY <1>1, <1>2, <1>3 DEF Counts, Rebuilds, Placed
    <2> QED
      BY <1>1, <1>2, <1>3, <2>1, SharesAlike DEF Placed
  <1>5. Step(c, r)
    BY <1>1, <1>2, <1>3 DEF Step, Placed, ReloadsLate, Leaving, ForCore, Unblocks, Untunnels,
       Unproxies, Stills, Left, GivenUp, Inv, CleanInv
  <1> QED
    BY <1>2, <1>4, <1>5 DEF Makes

-----------------------------------------------------------------------------
(* connectOnce.                                                            *)

LEMMA PrepareMakes ==
  ASSUME Inv, NEW t \in Tasks, Prepare(t)
  PROVE  \E r : Makes(t, r)
  <1> DEFINE c == tasks[t]
             stale == Answer(t, "stale")
             failed == Answer(t, "failed")
             ready == [To(t, "start") EXCEPT !.tn = tun']
  <1>1. /\ c.pc = "prepare" /\ DOMAIN c = Names /\ Placed(c) /\ ReloadsLate(c)
        /\ gen \in Nat /\ dgen \in 0..gen /\ (gen = dgen => GivenUp)
    BY DEF Prepare, At, Inv, Formed, CleanInv
  <1>2. /\ UNCHANGED Turns
        /\ UNCHANGED Machine
        /\ \/ tasks' = [tasks EXCEPT ![t] = stale] /\ UNCHANGED reloading
           \/ tasks' = [tasks EXCEPT ![t] = failed] /\ UNCHANGED reloading
           \/ tasks' = [tasks EXCEPT ![t] = ready] /\ reloading' = reloading + 1
    BY DEF Prepare, Goes, Awaits, conn, sysproxy, core, started, tunnel, block, recovery, Machine, Turns
  <1>3. /\ DOMAIN stale = Names /\ stale.pc = "answer" /\ stale.my = None
        /\ stale.op = c.op /\ stale.at = c.at /\ stale.run = c.run /\ stale.rg = c.rg
        /\ DOMAIN failed = Names /\ failed.pc = "answer" /\ failed.my = None
        /\ failed.op = c.op /\ failed.at = c.at /\ failed.run = c.run /\ failed.rg = c.rg
        /\ DOMAIN ready = Names /\ ready.pc = "start"
        /\ ready.op = c.op /\ ready.my = c.my /\ ready.at = c.at /\ ready.run = c.run /\ ready.rg = c.rg
    BY <1>1, NamesAre DEF To, Answer
  <1> HIDE DEF stale, failed, ready
  <1>4. CASE tasks' = [tasks EXCEPT ![t] = stale] /\ UNCHANGED reloading
    <2>1. Shares(t, c, stale)
      <3>1. Counts(c, stale)
        BY <1>1, <1>2, <1>3, <1>4 DEF Counts, Rebuilds, Placed
      <3> QED
        BY <1>1, <1>2, <1>3, <1>4, <3>1, SharesAlike DEF Placed
    <2>2. Passes(c, stale)
      BY <1>1, <1>3, <1>4 DEF Passes, Placed, ReloadsLate, Leaving, ForCore, Unblocks, Untunnels,
         Unproxies, Stills
    <2> QED
      BY <1>2, <1>4, <2>1, <2>2, QuietMakes DEF Machine
  <1>5. CASE tasks' = [tasks EXCEPT ![t] = failed] /\ UNCHANGED reloading
    <2>1. Shares(t, c, failed)
      <3>1. Counts(c, failed)
        BY <1>1, <1>2, <1>3, <1>5 DEF Counts, Rebuilds, Placed
      <3> QED
        BY <1>1, <1>2, <1>3, <1>5, <3>1, SharesAlike DEF Placed
    <2>2. Passes(c, failed)
      BY <1>1, <1>3, <1>5 DEF Passes, Placed, ReloadsLate, Leaving, ForCore, Unblocks, Untunnels,
         Unproxies, Stills
    <2> QED
      BY <1>2, <1>5, <2>1, <2>2, QuietMakes DEF Machine
  <1>6. CASE tasks' = [tasks EXCEPT ![t] = ready] /\ reloading' = reloading + 1
    <2>1. Shares(t, c, ready)
      <3>1. Counts(c, ready)
        BY <1>1, <1>2, <1>3, <1>6 DEF Counts, Rebuilds, Placed
      <3> QED
        BY <1>1, <1>2, <1>3, <1>6, <3>1, SharesAlike DEF Placed
    <2>2. Passes(c, ready)
      BY <1>1, <1>3, <1>6 DEF Passes, Placed, ReloadsLate, Leaving, ForCore, Unblocks, Untunnels,
         Unproxies, Stills
    <2> QED
      BY <1>2, <1>6, <2>1, <2>2, QuietMakes DEF Machine
  <1> QED
    BY <1>2, <1>4, <1>5, <1>6

LEMMA SpawnMakes ==
  ASSUME Inv, NEW t \in Tasks, tasks[t].pc \in {"start", "starting"}, Spawn(t),
         UNCHANGED Turns, UNCHANGED <<reloading, gen, dgen, active, userDisc, watcher, proxy, up, rule>>
  PROVE  \E r : Makes(t, r)
  <1> DEFINE c == tasks[t]
             r == [To(t, "grace") EXCEPT !.on = made']
  <1>1. /\ DOMAIN c = Names /\ Placed(c) /\ ReloadsLate(c)
        /\ gen \in Nat /\ dgen \in 0..gen /\ (gen = dgen => GivenUp)
        /\ made \in Nat /\ alive \subseteq 1..made
    BY DEF Inv, Formed, CleanInv
  <1>2. /\ tasks' = [tasks EXCEPT ![t] = r] /\ made' = made + 1 /\ proc' = made'
        /\ alive' = alive \cup {made'} /\ astray' = astray \cup Spawned(t)
    BY DEF Spawn, Awaits
  <1>3. /\ DOMAIN r = Names /\ r.pc = "grace" /\ r.on = made'
        /\ r.op = c.op /\ r.my = c.my /\ r.at = c.at /\ r.run = c.run /\ r.rg = c.rg /\ r.next = c.next
    BY <1>1, NamesAre DEF To
  <1> HIDE DEF r
  <1>4. Shares(t, c, r)
    <2>1. Counts(c, r)
      BY <1>3 DEF Counts, Rebuilds, Placed
    <2> QED
      BY <1>3, <2>1, SharesAlike DEF Placed
  <1>5. Placed(r) /\ r.pc \notin InStart \ {"grace"}
    BY <1>1, <1>3 DEF Placed
  <1>6. made' \in Nat /\ alive' \subseteq 1..made'
    BY <1>1, <1>2
  <1>7. ~Leaving(c) /\ ~Unblocks(c) /\ ~Unproxies(c) /\ \A n : ~Untunnels(c, n)
    BY DEF Leaving, ForCore, Unblocks, Unproxies, Untunnels
  <1>8. ASSUME gen = dgen
        PROVE  Stills(r, proc') \/ proc' \in astray'
    <2>1. CASE c.my # None
      BY <1>2, <1>3, <2>1 DEF Stills
    <2>2. CASE c.my = None
      <3>1. c.op = "reload" /\ (c.at = gen => ~active)
        BY <1>1, <1>8, <2>2 DEF Placed, ReloadsLate
      <3>2. made + 1 \in Spawned(t)
        BY <3>1 DEF Spawned
      <3> QED
        BY <1>2, <3>2
    <2> QED
      BY <2>1, <2>2
  <1>9. gen = dgen => GivenUp' /\ (active' => active) /\ ~watcher'
    BY <1>1 DEF GivenUp, Inv, CleanInv
  <1> QED
    BY <1>2, <1>3, <1>4, <1>5, <1>6, <1>7, <1>8, <1>9 DEF Makes, Step, Left

LEMMA StartMakes ==
  ASSUME Inv, NEW t \in Tasks, Start(t)
  PROVE  \E r : Makes(t, r)
  <1> DEFINE c == tasks[t]
             r == [To(t, "starting") EXCEPT !.on = proc]
  <1>1. /\ c.pc = "start" /\ DOMAIN c = Names /\ Placed(c) /\ ReloadsLate(c)
        /\ gen \in Nat /\ dgen \in 0..gen /\ (gen = dgen => GivenUp)
    BY DEF Start, At, Inv, Formed, CleanInv
  <1>2. /\ UNCHANGED Turns /\ UNCHANGED <<reloading, gen, dgen, active, userDisc, watcher, proxy, up, rule>>
        /\ StopsCore(t, "starting") \/ Spawn(t)
    BY DEF Start, StartRest, conn, sysproxy, tunnel, block, recovery, Turns
  <1>3. CASE Spawn(t)
    BY <1>1, <1>2, <1>3, SpawnMakes
  <1>4. CASE StopsCore(t, "starting")
    <2>1. /\ tasks' = [tasks EXCEPT ![t] = r] /\ killed' = killed \cup ({proc} \cap alive)
          /\ UNCHANGED <<proc, alive, made, astray>>
      BY <1>4 DEF StopsCore, Awaits, started
    <2>2. /\ DOMAIN r = Names /\ r.pc = "starting"
          /\ r.op = c.op /\ r.my = c.my /\ r.at = c.at /\ r.run = c.run /\ r.rg = c.rg /\ r.next = c.next
      BY <1>1, NamesAre DEF To
    <2> HIDE DEF r
    <2>3. Shares(t, c, r)
      <3>1. Counts(c, r)
        BY <1>1, <1>2, <2>2 DEF Counts, Rebuilds, Placed
      <3> QED
        BY <1>1, <1>2, <2>2, <3>1, SharesAlike DEF Placed
    <2>4. Step(c, r)
      BY <1>1, <1>2, <2>1, <2>2 DEF Step, Placed, ReloadsLate, Leaving, ForCore, Unblocks,
         Untunnels, Unproxies, Stills, Left, GivenUp, Inv, CleanInv
    <2> QED
      BY <2>1, <2>3, <2>4 DEF Makes
  <1> QED
    BY <1>2, <1>3, <1>4

LEMMA StartingMakes ==
  ASSUME Inv, NEW t \in Tasks, Starting(t)
  PROVE  \E r : Makes(t, r)
  BY SpawnMakes DEF Starting, At, StartRest, conn, sysproxy, tunnel, block, recovery, Turns

LEMMA CrashedMakes ==
  ASSUME Inv, NEW t \in Tasks, Crashed(t)
  PROVE  \E r : Makes(t, r)
  <1> DEFINE c == tasks[t]
             r == Answer(t, Overtaken(t))
  <1>1. /\ c.pc = "grace" /\ DOMAIN c = Names /\ Placed(c) /\ ReloadsLate(c)
        /\ gen \in Nat /\ dgen \in 0..gen /\ (gen = dgen => GivenUp) /\ c.my # None /\ c.on \notin alive
    BY DEF Crashed, At, Inv, Formed, CleanInv
  <1>2. tasks' = [tasks EXCEPT ![t] = r] /\ UNCHANGED Machine /\ UNCHANGED Turns /\
             reloading' = reloading - 1
    BY DEF Crashed, Goes, Awaits, conn, sysproxy, core, started, tunnel, block, recovery, Turns, Machine
  <1>3. /\ DOMAIN r = Names
        /\ r.pc = "answer" /\ r.my = None /\ r.op = c.op /\ r.at = c.at /\ r.run = c.run /\ r.rg = c.rg
    BY <1>1, NamesAre DEF Answer
  <1> HIDE DEF r
  <1>4. Shares(t, c, r)
    <2>1. Counts(c, r)
      BY <1>1, <1>2, <1>3 DEF Counts, Rebuilds, Placed
    <2> QED
      BY <1>1, <1>2, <1>3, <2>1, SharesAlike DEF Placed
  <1>5. Passes(c, r)
    BY <1>1, <1>3 DEF Passes, Placed, ReloadsLate, Leaving, ForCore, Unblocks, Untunnels, Unproxies,
       Stills, Left
  <1> QED
    BY <1>2, <1>4, <1>5, QuietMakes

LEMMA StartedMakes ==
  ASSUME Inv, NEW t \in Tasks, Started(t)
  PROVE  \E r : Makes(t, r)
  <1> DEFINE c == tasks[t]
             known == IF proc = c.on THEN proc ELSE None
             late == [[c EXCEPT !.own = known, !.on = 0] EXCEPT !.pc = "giveWay"]
             on == [[c EXCEPT !.own = known, !.on = 0] EXCEPT !.pc = "proxied"]
  <1>1. /\ c.pc = "grace" /\ DOMAIN c = Names /\ Placed(c) /\ ReloadsLate(c)
        /\ gen \in Nat /\ dgen \in 0..gen /\ (gen = dgen => GivenUp) /\ c.my # None
    BY DEF Started, At, Inv, Formed, CleanInv
  <1>2. /\ reloading' = reloading - 1
        /\ UNCHANGED <<gen, dgen, userDisc, watcher, proc, alive, killed, made, astray, up, rule>>
        /\ \/ Stale(t) /\ tasks' = [tasks EXCEPT ![t] = late] /\ UNCHANGED <<active, proxy>> /\
                UNCHANGED Turns
           \/ /\ ~Stale(t) /\ tasks' = [tasks EXCEPT ![t] = on] /\ proxy' = TRUE /\ active' = TRUE
              /\ UNCHANGED Lock /\ waiting' = Append(waiting, t)
    BY DEF Started, Goes, Awaits, conn, sysproxy, core, started, tunnel, block, recovery, Machine,
       Turns, Lock, AwaitsProxy
  <1>3. /\ DOMAIN late = Names /\ late.pc = "giveWay" /\ late.own = known
        /\ late.op = c.op /\ late.my = c.my /\ late.at = c.at /\ late.sw = c.sw /\ late.run = c.run /\
                late.rg = c.rg
        /\ DOMAIN on = Names /\ on.pc = "proxied"
        /\ on.op = c.op /\ on.my = c.my /\ on.at = c.at /\ on.run = c.run /\ on.rg = c.rg
    BY <1>1, NamesAre DEF To
  <1> HIDE DEF late, on
  <1>4. CASE Stale(t) /\ tasks' = [tasks EXCEPT ![t] = late] /\ UNCHANGED <<active, proxy>> /\
             UNCHANGED Turns
    <2>1. Shares(t, c, late)
      <3>1. Counts(c, late)
        BY <1>1, <1>2, <1>3, <1>4 DEF Counts, Rebuilds, Placed
      <3> QED
        BY <1>1, <1>2, <1>3, <1>4, <3>1, SharesAlike DEF Placed
    <2>2. Passes(c, late)
      BY <1>1, <1>3, <1>4 DEF Passes, Placed, ReloadsLate, Leaving, ForCore, Unblocks, Untunnels,
         Unproxies, Stills, Stale
    <2> QED
      BY <1>2, <1>4, <2>1, <2>2, QuietMakes DEF Machine
  <1>5. CASE /\ ~Stale(t) /\ tasks' = [tasks EXCEPT ![t] = on] /\ proxy' = TRUE /\ active' = TRUE
             /\ UNCHANGED Lock /\ waiting' = Append(waiting, t)
    <2>1. Shares(t, c, on)
      <3>1. Counts(c, on)
        BY <1>1, <1>2, <1>3, <1>5 DEF Counts, Rebuilds, Placed
      <3> QED
        BY <1>1, <1>2, <1>3, <1>5, <3>1, SharesAsks DEF Placed
    <2>2. Step(c, on)
      BY <1>1, <1>2, <1>3, <1>5 DEF Step, Placed, ReloadsLate, Leaving, ForCore, Unblocks,
         Untunnels, Unproxies, Stills, Left, GivenUp, Inv, CleanInv, Stale
    <2> QED
      BY <1>5, <2>1, <2>2 DEF Makes
  <1> QED
    BY <1>2, <1>4, <1>5

LEMMA ProxiedMakes ==
  ASSUME Inv, NEW t \in Tasks, Proxied(t)
  PROVE  \E r : Makes(t, r)
  <1> DEFINE c == tasks[t]
             switch == IF settings.kill /\ ~c.armed THEN [To(t,
                  "arm") EXCEPT !.next = "swap"] ELSE To(t, "swap")
  <1>1. /\ c.pc = "proxied" /\ DOMAIN c = Names /\ Placed(c) /\ ReloadsLate(c)
        /\ gen \in Nat /\ dgen \in 0..gen /\ (gen = dgen => GivenUp)
    BY DEF Proxied, At, Inv, Formed, CleanInv
  <1>2. PICK r \in {To(t, "giveWay"), To(t, "lan"), To(t, "tunnel"),
             switch} : tasks' = [tasks EXCEPT ![t] = r]
    BY DEF Proxied, Goes, Awaits
  <1>3. UNCHANGED Machine /\ UNCHANGED Lock /\ ProxyDone(t) /\ UNCHANGED reloading
    BY DEF Proxied, ProxyDone, conn, core, started, tunnel, block, recovery, Machine, Lock
  <1>4. /\ DOMAIN r = Names /\ r.pc \in {"giveWay", "lan", "tunnel", "arm", "swap"}
        /\ r.pc = "arm" => r.next = "swap"
        /\ r.op = c.op /\ r.my = c.my /\ r.at = c.at /\ r.run = c.run /\ r.rg = c.rg /\ r.sw = c.sw /\
                r.got = c.got
    BY <1>1, <1>2, NamesAre DEF To
  <1>5. Shares(t, c, r)
    <2>1. Counts(c, r)
      BY <1>1, <1>3, <1>4 DEF Counts, Rebuilds, Placed
    <2> QED
      BY <1>1, <1>3, <1>4, <2>1, SharesDone DEF Placed
  <1>6. Passes(c, r)
    BY <1>1, <1>4 DEF Passes, Placed, ReloadsLate, Leaving, ForCore, Unblocks, Untunnels,
         Unproxies, Stills
  <1> QED
    BY <1>2, <1>3, <1>5, <1>6, QuietMakes

LEMMA SwapMakes ==
  ASSUME Inv, NEW t \in Tasks, Swap(t)
  PROVE  \E r : Makes(t, r)
  <1> DEFINE c == tasks[t]
             r == [To(t, "tunnel") EXCEPT !.sw = (@ \/ c.got = "added"), !.got = "no"]
  <1>1. /\ c.pc = "swap" /\ DOMAIN c = Names /\ Placed(c) /\ ReloadsLate(c)
        /\ gen \in Nat /\ dgen \in 0..gen /\ (gen = dgen => GivenUp)
    BY DEF Swap, At, Inv, Formed, CleanInv
  <1>2. /\ tasks' = [tasks EXCEPT ![t] = r] /\ UNCHANGED Turns /\ UNCHANGED reloading
        /\ up' = up \ {c.tn}
        /\ UNCHANGED <<gen, dgen, active, userDisc, watcher, proxy, proc, alive, killed, made, astray,
                rule>>
    BY DEF Swap, Goes, Awaits, ConnectRest, conn, sysproxy, core, started, tunnel, block, recovery,
       Turns, Machine
  <1>3. /\ DOMAIN r = Names
        /\ r.pc = "tunnel" /\ (c.sw \/ c.got = "added" => r.sw)
        /\ r.op = c.op /\ r.my = c.my /\ r.at = c.at /\ r.run = c.run /\ r.rg = c.rg /\ r.armed = c.armed
        /\ r.own = c.own /\ r.tn = c.tn /\ r.on = c.on /\ r.next = c.next
    BY <1>1, NamesAre DEF To
  <1> HIDE DEF r
  <1>4. Shares(t, c, r)
    <2>1. Counts(c, r)
      BY <1>1, <1>2, <1>3 DEF Counts, Rebuilds, Placed
    <2> QED
      BY <1>1, <1>2, <1>3, <2>1, SharesAlike DEF Placed
  <1>5. Step(c, r)
    BY <1>1, <1>2, <1>3 DEF Step, Placed, ReloadsLate, Leaving, ForCore, Unblocks, Untunnels,
       Unproxies, Stills, Left, GivenUp, Inv, CleanInv
  <1> QED
    BY <1>2, <1>4, <1>5 DEF Makes

LEMMA TunnelMakes ==
  ASSUME Inv, NEW t \in Tasks, Tunnel(t)
  PROVE  \E r : Makes(t, r)
  <1> DEFINE c == tasks[t]
             tunnels == To(t, "tunnelled")
             fails == [To(t, "tunnelled") EXCEPT !.terr = TRUE]
  <1>1. /\ c.pc = "tunnel" /\ DOMAIN c = Names /\ Placed(c) /\ ReloadsLate(c)
        /\ gen \in Nat /\ dgen \in 0..gen /\ (gen = dgen => GivenUp)
    BY DEF Tunnel, At, Inv, Formed, CleanInv
  <1>2. /\ UNCHANGED Turns
        /\ UNCHANGED reloading
        /\ UNCHANGED <<gen, dgen, active, userDisc, watcher, proxy, proc, alive, killed, made, astray,
                rule>>
        /\ \/ tasks' = [tasks EXCEPT ![t] = tunnels] /\ up' = up \cup {c.tn}
           \/ tasks' = [tasks EXCEPT ![t] = fails] /\ UNCHANGED up
    BY DEF Tunnel, Goes, Awaits, ConnectRest, conn, sysproxy, core, started, tunnel, block,
       recovery, Machine, Turns
  <1>3. /\ DOMAIN tunnels = Names /\ tunnels.pc = "tunnelled"
        /\ tunnels.op = c.op /\ tunnels.my = c.my /\ tunnels.at = c.at /\ tunnels.tn = c.tn
        /\ tunnels.sw = c.sw /\ tunnels.run = c.run /\ tunnels.rg = c.rg
        /\ DOMAIN fails = Names /\ fails.pc = "tunnelled"
        /\ fails.op = c.op /\ fails.my = c.my /\ fails.at = c.at /\ fails.tn = c.tn /\ fails.sw = c.sw
        /\ fails.run = c.run /\ fails.rg = c.rg
    BY <1>1, NamesAre DEF To
  <1> HIDE DEF tunnels, fails
  <1>4. CASE tasks' = [tasks EXCEPT ![t] = tunnels] /\ up' = up \cup {c.tn}
    <2>1. Shares(t, c, tunnels)
      <3>1. Counts(c, tunnels)
        BY <1>1, <1>2, <1>3, <1>4 DEF Counts, Rebuilds, Placed
      <3> QED
        BY <1>1, <1>2, <1>3, <1>4, <3>1, SharesAlike DEF Placed
    <2>2. Step(c, tunnels)
      BY <1>1, <1>2, <1>3, <1>4 DEF Step, Placed, ReloadsLate, Leaving, ForCore, Unblocks,
         Untunnels, Unproxies, Stills, Left, GivenUp, Inv, CleanInv
    <2> QED
      BY <1>4, <2>1, <2>2 DEF Makes
  <1>5. CASE tasks' = [tasks EXCEPT ![t] = fails] /\ UNCHANGED up
    <2>1. Shares(t, c, fails)
      <3>1. Counts(c, fails)
        BY <1>1, <1>2, <1>3, <1>5 DEF Counts, Rebuilds, Placed
      <3> QED
        BY <1>1, <1>2, <1>3, <1>5, <3>1, SharesAlike DEF Placed
    <2>2. Passes(c, fails)
      BY <1>1, <1>3, <1>5 DEF Passes, Placed, ReloadsLate, Leaving, ForCore, Unblocks, Untunnels,
         Unproxies, Stills
    <2> QED
      BY <1>2, <1>5, <2>1, <2>2, QuietMakes DEF Machine
  <1> QED
    BY <1>2, <1>4, <1>5

LEMMA TunnelledMakes ==
  ASSUME Inv, NEW t \in Tasks, Tunnelled(t)
  PROVE  \E r : Makes(t, r)
  <1> DEFINE c == tasks[t]
             late == To(t, "giveWay")
             on == To(t, "lan")
  <1>1. /\ c.pc = "tunnelled" /\ DOMAIN c = Names /\ Placed(c) /\ ReloadsLate(c)
        /\ gen \in Nat /\ dgen \in 0..gen /\ (gen = dgen => GivenUp)
    BY DEF Tunnelled, At, Inv, Formed, CleanInv
  <1>2. /\ UNCHANGED Turns
        /\ UNCHANGED reloading
        /\ UNCHANGED <<gen, dgen, active, userDisc, watcher, proxy, proc, alive, killed, made, astray,
                rule>>
        /\ \/ tasks' = [tasks EXCEPT ![t] = late] /\ up' = up \ {c.tn}
           \/ ~Stale(t) /\ tasks' = [tasks EXCEPT ![t] = on] /\ UNCHANGED up
    BY DEF Tunnelled, Goes, Awaits, ConnectRest, conn, sysproxy, core, started, tunnel, block,
       recovery, Machine, Turns
  <1>3. /\ DOMAIN late = Names /\ late.pc = "giveWay"
        /\ late.op = c.op /\ late.my = c.my /\ late.at = c.at /\ late.sw = c.sw /\ late.run = c.run /\
                late.rg = c.rg
        /\ DOMAIN on = Names /\ on.pc = "lan"
        /\ on.op = c.op /\ on.my = c.my /\ on.at = c.at /\ on.sw = c.sw /\ on.run = c.run /\ on.rg = c.rg
    BY <1>1, NamesAre DEF To
  <1> HIDE DEF late, on
  <1>4. CASE tasks' = [tasks EXCEPT ![t] = late] /\ up' = up \ {c.tn}
    <2>1. Shares(t, c, late)
      <3>1. Counts(c, late)
        BY <1>1, <1>2, <1>3, <1>4 DEF Counts, Rebuilds, Placed
      <3> QED
        BY <1>1, <1>2, <1>3, <1>4, <3>1, SharesAlike DEF Placed
    <2>2. Step(c, late)
      BY <1>1, <1>2, <1>3, <1>4 DEF Step, Placed, ReloadsLate, Leaving, ForCore, Unblocks,
         Untunnels, Unproxies, Stills, Left, GivenUp, Inv, CleanInv
    <2> QED
      BY <1>4, <2>1, <2>2 DEF Makes
  <1>5. CASE ~Stale(t) /\ tasks' = [tasks EXCEPT ![t] = on] /\ UNCHANGED up
    <2>1. Shares(t, c, on)
      <3>1. Counts(c, on)
        BY <1>1, <1>2, <1>3, <1>5 DEF Counts, Rebuilds, Placed
      <3> QED
        BY <1>1, <1>2, <1>3, <1>5, <3>1, SharesAlike DEF Placed
    <2>2. Passes(c, on)
      BY <1>1, <1>3, <1>5 DEF Passes, Placed, ReloadsLate, Leaving, ForCore, Unblocks, Untunnels,
         Unproxies, Stills, Stale
    <2> QED
      BY <1>2, <1>5, <2>1, <2>2, QuietMakes DEF Machine
  <1> QED
    BY <1>2, <1>4, <1>5

LEMMA LanMakes ==
  ASSUME Inv, NEW t \in Tasks, Lan(t)
  PROVE  \E r : Makes(t, r)
  <1> DEFINE c == tasks[t]
             r == IF c.sw /\ ~Stale(t) /\ Running THEN [To(t,
                  "disarm") EXCEPT !.next = "last"] ELSE To(t, "last")
  <1>1. /\ c.pc = "lan" /\ DOMAIN c = Names /\ Placed(c) /\ ReloadsLate(c)
        /\ gen \in Nat /\ dgen \in 0..gen /\ (gen = dgen => GivenUp)
    BY DEF Lan, At, Inv, Formed, CleanInv
  <1>2. tasks' = [tasks EXCEPT ![t] = r] /\ UNCHANGED Machine /\ UNCHANGED Turns /\ UNCHANGED reloading
    BY DEF Lan, Goes, Awaits, ConnectRest, conn, sysproxy, core, started, tunnel, block, recovery,
       Turns, Machine
  <1>3. /\ DOMAIN r = Names
        /\ r.pc \in {"disarm", "last"} /\ (r.pc = "disarm" => r.next = "last")
        /\ r.op = c.op /\ r.my = c.my /\ r.at = c.at /\ r.run = c.run /\ r.rg = c.rg /\ r.armed = c.armed
        /\ r.sw = c.sw /\ r.got = c.got /\ r.own = c.own /\ r.tn = c.tn /\ r.on = c.on
    BY <1>1, NamesAre DEF To
  <1> HIDE DEF r
  <1>4. Shares(t, c, r)
    <2>1. Counts(c, r)
      BY <1>1, <1>2, <1>3 DEF Counts, Rebuilds, Placed
    <2> QED
      BY <1>1, <1>2, <1>3, <2>1, SharesAlike DEF Placed
  <1>5. Passes(c, r)
    BY <1>1, <1>3 DEF Passes, Placed, ReloadsLate, Leaving, ForCore, Unblocks, Untunnels,
         Unproxies, Stills
  <1> QED
    BY <1>2, <1>4, <1>5, QuietMakes

LEMMA LastMakes ==
  ASSUME Inv, NEW t \in Tasks, Last(t)
  PROVE  \E r : Makes(t, r)
  <1> DEFINE c == tasks[t]
             late == To(t, "giveWay")
             failed == Answer(t, "failed")
             ok == Answer(t, IF c.terr THEN "tunless" ELSE "ok")
  <1>1. /\ c.pc = "last" /\ DOMAIN c = Names /\ Placed(c) /\ ReloadsLate(c)
        /\ gen \in Nat /\ dgen \in 0..gen /\ (gen = dgen => GivenUp)
    BY DEF Last, At, Inv, Formed, CleanInv
  <1>2. /\ UNCHANGED Turns
        /\ UNCHANGED reloading
        /\ UNCHANGED <<gen, dgen, active, userDisc, proxy, proc, alive, killed, made, astray, up, rule>>
        /\ \/ tasks' = [tasks EXCEPT ![t] = late] /\ UNCHANGED watcher
           \/ ~Stale(t) /\ tasks' = [tasks EXCEPT ![t] = failed] /\ UNCHANGED watcher
           \/ ~Stale(t) /\ tasks' = [tasks EXCEPT ![t] = ok] /\ watcher' = TRUE
    BY DEF Last, Goes, Awaits, conn, sysproxy, core, started, tunnel, block, recovery, Machine, Turns
  <1>3. /\ DOMAIN late = Names /\ late.pc = "giveWay"
        /\ late.op = c.op /\ late.my = c.my /\ late.at = c.at /\ late.sw = c.sw /\ late.run = c.run /\
                late.rg = c.rg
        /\ DOMAIN failed = Names /\ failed.pc = "answer" /\ failed.my = None
        /\ failed.op = c.op /\ failed.at = c.at /\ failed.run = c.run /\ failed.rg = c.rg
        /\ DOMAIN ok = Names /\ ok.pc = "answer" /\ ok.my = None
        /\ ok.op = c.op /\ ok.at = c.at /\ ok.run = c.run /\ ok.rg = c.rg
    BY <1>1, NamesAre DEF To, Answer
  <1> HIDE DEF late, failed, ok
  <1>4. CASE tasks' = [tasks EXCEPT ![t] = late] /\ UNCHANGED watcher
    <2>1. Shares(t, c, late)
      <3>1. Counts(c, late)
        BY <1>1, <1>2, <1>3, <1>4 DEF Counts, Rebuilds, Placed
      <3> QED
        BY <1>1, <1>2, <1>3, <1>4, <3>1, SharesAlike DEF Placed
    <2>2. Passes(c, late)
      BY <1>1, <1>3, <1>4 DEF Passes, Placed, ReloadsLate, Leaving, ForCore, Unblocks, Untunnels,
         Unproxies, Stills
    <2> QED
      BY <1>2, <1>4, <2>1, <2>2, QuietMakes DEF Machine
  <1>5. CASE ~Stale(t) /\ tasks' = [tasks EXCEPT ![t] = failed] /\ UNCHANGED watcher
    <2>1. Shares(t, c, failed)
      <3>1. Counts(c, failed)
        BY <1>1, <1>2, <1>3, <1>5 DEF Counts, Rebuilds, Placed
      <3> QED
        BY <1>1, <1>2, <1>3, <1>5, <3>1, SharesAlike DEF Placed
    <2>2. Passes(c, failed)
      BY <1>1, <1>3, <1>5 DEF Passes, Placed, ReloadsLate, Leaving, ForCore, Unblocks, Untunnels,
         Unproxies, Stills, Stale
    <2> QED
      BY <1>2, <1>5, <2>1, <2>2, QuietMakes DEF Machine
  <1>6. CASE ~Stale(t) /\ tasks' = [tasks EXCEPT ![t] = ok] /\ watcher' = TRUE
    <2>1. Shares(t, c, ok)
      <3>1. Counts(c, ok)
        BY <1>1, <1>2, <1>3, <1>6 DEF Counts, Rebuilds, Placed
      <3> QED
        BY <1>1, <1>2, <1>3, <1>6, <3>1, SharesAlike DEF Placed
    <2>2. Step(c, ok)
      BY <1>1, <1>2, <1>3, <1>6 DEF Step, Placed, ReloadsLate, Leaving, ForCore, Unblocks,
         Untunnels, Unproxies, Stills, Left, GivenUp, Inv, CleanInv, Stale
    <2> QED
      BY <1>6, <2>1, <2>2 DEF Makes
  <1> QED
    BY <1>2, <1>4, <1>5, <1>6

LEMMA GiveWayMakes ==
  ASSUME Inv, NEW t \in Tasks, GiveWay(t)
  PROVE  \E r : Makes(t, r)
  <1> DEFINE c == tasks[t]
  <1>1. /\ c.pc = "giveWay" /\ DOMAIN c = Names /\ Placed(c) /\ ReloadsLate(c)
        /\ gen \in Nat /\ dgen \in 0..gen /\ (gen = dgen => GivenUp) /\ alive \subseteq 1..made /\
                made \in Nat
    BY DEF GiveWay, At, Inv, Formed, CleanInv
  <1>2. CASE LeavesCore(t)
    <2> DEFINE r == [To(t, "gaveCore") EXCEPT !.on = proc]
    <2>1. /\ tasks' = [tasks EXCEPT ![t] = r] /\ reloading' = reloading + 1 /\ UNCHANGED Turns
          /\ killed' = killed \cup ({proc} \cap alive)
          /\ UNCHANGED <<gen, dgen, active, userDisc, watcher, proxy, proc, alive, made, astray, up, rule>>
      BY <1>2 DEF GiveWay, StopsCore, Awaits, started, conn, sysproxy, tunnel, block, recovery, Turns
    <2>2. /\ DOMAIN r = Names /\ r.pc = "gaveCore"
          /\ r.op = c.op /\ r.my = c.my /\ r.at = c.at /\ r.run = c.run /\ r.rg = c.rg /\ r.sw = c.sw
      BY <1>1, NamesAre DEF To
    <2> HIDE DEF r
    <2>3. Shares(t, c, r)
      <3>1. Counts(c, r)
        BY <1>1, <2>1, <2>2 DEF Counts, Rebuilds, Placed
      <3> QED
        BY <1>1, <2>1, <2>2, <3>1, SharesAlike DEF Placed
    <2>4. Step(c, r)
      BY <1>1, <2>1, <2>2 DEF Step, Placed, ReloadsLate, Leaving, ForCore, Unblocks, Untunnels,
         Unproxies, Stills, Left, GivenUp, Inv, CleanInv
    <2> QED
      BY <2>1, <2>3, <2>4 DEF Makes
  <1>3. CASE ~LeavesCore(t)
    <2> DEFINE lifts == gen = dgen /\ c.sw
               r == IF lifts THEN [To(t, "disarm") EXCEPT !.next = "gone"] ELSE To(t, "gone")
    <2>1. tasks' = [tasks EXCEPT ![t] = r] /\ UNCHANGED Machine /\ UNCHANGED Turns /\ UNCHANGED reloading
      BY <1>3 DEF GiveWay, Goes, conn, sysproxy, core, started, tunnel, block, recovery, Machine, Turns
    <2>2. /\ DOMAIN r = Names
          /\ IF lifts THEN r.pc = "disarm" /\ r.next = "gone" ELSE r.pc = "gone"
          /\ r.op = c.op /\ r.my = c.my /\ r.at = c.at /\ r.run = c.run /\ r.rg = c.rg
      BY <1>1, NamesAre DEF To
    <2> HIDE DEF r
    <2>3. Shares(t, c, r)
      <3>1. Counts(c, r)
        BY <1>1, <2>1, <2>2 DEF Counts, Rebuilds, Placed
      <3> QED
        BY <1>1, <2>1, <2>2, <3>1, SharesAlike DEF Placed
    <2>4. gen = dgen => ~(Left /\ Stills(c, proc))
      BY <1>1, <1>3 DEF LeavesCore, Left, Stills, ForCore
    <2>5. Passes(c, r)
      BY <1>1, <2>2, <2>4 DEF Passes, Placed, ReloadsLate, Leaving, ForCore, Unblocks,
           Untunnels, Unproxies
    <2> QED
      BY <2>1, <2>3, <2>5, QuietMakes
  <1> QED
    BY <1>2, <1>3

LEMMA GaveCoreMakes ==
  ASSUME Inv, NEW t \in Tasks, GaveCore(t)
  PROVE  \E r : Makes(t, r)
  <1> DEFINE c == tasks[t]
             r == IF c.sw THEN [To(t, "disarm") EXCEPT !.next = "gone"] ELSE To(t, "gone")
  <1>1. /\ c.pc = "gaveCore" /\ DOMAIN c = Names /\ Placed(c) /\ ReloadsLate(c)
        /\ gen \in Nat /\ dgen \in 0..gen /\ (gen = dgen => GivenUp)
    BY DEF GaveCore, At, Inv, Formed, CleanInv
  <1>2. tasks' = [tasks EXCEPT ![t] = r] /\ UNCHANGED Machine /\ UNCHANGED Turns /\
             reloading' = reloading - 1
    BY DEF GaveCore, Goes, Awaits, conn, sysproxy, core, started, tunnel, block, recovery, Turns, Machine
  <1>3. /\ DOMAIN r = Names
        /\ IF c.sw THEN r.pc = "disarm" /\ r.next = "gone" ELSE r.pc = "gone"
        /\ r.op = c.op /\ r.my = c.my /\ r.at = c.at /\ r.run = c.run /\ r.rg = c.rg /\ r.armed = c.armed
        /\ r.sw = c.sw /\ r.got = c.got /\ r.own = c.own /\ r.tn = c.tn /\ r.on = c.on
    BY <1>1, NamesAre DEF To
  <1> HIDE DEF r
  <1>4. Shares(t, c, r)
    <2>1. Counts(c, r)
      BY <1>1, <1>2, <1>3 DEF Counts, Rebuilds, Placed
    <2> QED
      BY <1>1, <1>2, <1>3, <2>1, SharesAlike DEF Placed
  <1>5. Passes(c, r)
    BY <1>1, <1>3 DEF Passes, Placed, ReloadsLate, Leaving, ForCore, Unblocks, Untunnels,
         Unproxies, Stills
  <1> QED
    BY <1>2, <1>4, <1>5, QuietMakes

LEMMA GoneMakes ==
  ASSUME Inv, NEW t \in Tasks, Gone(t)
  PROVE  \E r : Makes(t, r)
  <1> DEFINE c == tasks[t]
             r == Answer(t, "stale")
  <1>1. /\ c.pc = "gone" /\ DOMAIN c = Names /\ Placed(c) /\ ReloadsLate(c)
        /\ gen \in Nat /\ dgen \in 0..gen /\ (gen = dgen => GivenUp)
    BY DEF Gone, At, Inv, Formed, CleanInv
  <1>2. tasks' = [tasks EXCEPT ![t] = r] /\ UNCHANGED Machine /\ UNCHANGED Turns /\ UNCHANGED reloading
    BY DEF Gone, Goes, Awaits, ConnectRest, conn, sysproxy, core, started, tunnel, block, recovery,
       Turns, Machine
  <1>3. /\ DOMAIN r = Names
        /\ r.pc = "answer" /\ r.my = None /\ r.op = c.op /\ r.at = c.at /\ r.run = c.run /\ r.rg = c.rg
    BY <1>1, NamesAre DEF Answer
  <1> HIDE DEF r
  <1>4. Shares(t, c, r)
    <2>1. Counts(c, r)
      BY <1>1, <1>2, <1>3 DEF Counts, Rebuilds, Placed
    <2> QED
      BY <1>1, <1>2, <1>3, <2>1, SharesAlike DEF Placed
  <1>5. Passes(c, r)
    BY <1>1, <1>3 DEF Passes, Placed, ReloadsLate, Leaving, ForCore, Unblocks, Untunnels,
         Unproxies, Stills
  <1> QED
    BY <1>2, <1>4, <1>5, QuietMakes

-----------------------------------------------------------------------------
(* reapplyConnection.                                                      *)

LEMMA ReapplyMakes ==
  ASSUME Inv, NEW t \in Tasks, Reapply(t)
  PROVE  \E r : Makes(t, r)
  <1> DEFINE c == tasks[t]
             r == IF ~active \/ ~Running THEN Return(t, "failed")
                  ELSE IF settings.kill
                    THEN [To(t, "arm") EXCEPT !.at = gen, !.next = "reapplyArmed"]
                    ELSE [To(t, "teardown") EXCEPT !.at = gen]
  <1>1. /\ c.pc = "reapply" /\ DOMAIN c = Names /\ Placed(c) /\ ReloadsLate(c)
        /\ gen \in Nat /\ dgen \in 0..gen /\ (gen = dgen => GivenUp)
    BY DEF Reapply, At, Inv, Formed, CleanInv
  <1>2. tasks' = [tasks EXCEPT ![t] = r] /\ UNCHANGED Machine /\ UNCHANGED Turns /\ UNCHANGED reloading
    BY DEF Reapply, Goes, Awaits, ConnectRest, conn, sysproxy, core, started, tunnel, block,
       recovery, Turns, Machine
  <1>3. /\ DOMAIN r = Names
        /\ r.pc \in {"arm", "teardown", IF c.op = "recover" THEN "recovered" ELSE "end"}
        /\ (r.pc = "arm" => r.next = "reapplyArmed")
        /\ r.op = c.op /\ r.my = c.my /\ r.at \in {c.at, gen} /\ r.run = c.run /\ r.rg = c.rg
    BY <1>1, NamesAre DEF To, Return
  <1> HIDE DEF r
  <1>4. Shares(t, c, r)
    <2>1. Counts(c, r)
      BY <1>1, <1>2, <1>3 DEF Counts, Rebuilds, Placed
    <2> QED
      BY <1>1, <1>2, <1>3, <2>1, SharesAlike DEF Placed
  <1>5. Passes(c, r)
    BY <1>1, <1>3 DEF Passes, Placed, ReloadsLate, Leaving, ForCore, Unblocks, Untunnels,
         Unproxies, Stills
  <1> QED
    BY <1>2, <1>4, <1>5, QuietMakes

LEMMA ReapplyArmedMakes ==
  ASSUME Inv, NEW t \in Tasks, ReapplyArmed(t)
  PROVE  \E r : Makes(t, r)
  <1> DEFINE c == tasks[t]
             armed == c.armed \/ c.got # "no"
             on == [c EXCEPT !.armed = armed, !.got = "no"]
             r == CASE c.at = gen -> [on EXCEPT !.pc = "teardown"]
                    [] c.at # gen /\ on.armed /\ gen = dgen -> [on EXCEPT !.pc = "disarm",
                         !.next = "reapplyStale"]
                    [] OTHER -> [on EXCEPT !.pc = "reapplyStale"]
  <1>1. /\ c.pc = "reapplyArmed" /\ DOMAIN c = Names /\ Placed(c) /\ ReloadsLate(c)
        /\ gen \in Nat /\ dgen \in 0..gen /\ (gen = dgen => GivenUp)
    BY DEF ReapplyArmed, At, Inv, Formed, CleanInv
  <1>2. tasks' = [tasks EXCEPT ![t] = r] /\ UNCHANGED Machine /\ UNCHANGED Turns /\ UNCHANGED reloading
    BY DEF ReapplyArmed, Goes, ConnectRest, conn, sysproxy, core, started, tunnel, block, recovery,
       Machine, Turns
  <1>3. on.armed <=> armed
    BY <1>1, NamesAre
  <1>4. /\ DOMAIN r = Names /\ r.op = c.op /\ r.my = c.my /\ r.at = c.at /\ r.run = c.run /\ r.rg = c.rg
        /\ r.pc \in {"teardown", "disarm", "reapplyStale"}
        /\ r.pc = "teardown" <=> c.at = gen
        /\ r.pc = "disarm" => r.next = "reapplyStale"
        /\ r.pc = "reapplyStale" => ~(on.armed /\ gen = dgen)
    BY <1>1, NamesAre
  <1> HIDE DEF r, on
  <1>5. Shares(t, c, r)
    <2>1. Counts(c, r)
      BY <1>1, <1>2, <1>4 DEF Counts, Rebuilds, Placed
    <2> QED
      BY <1>1, <1>2, <1>4, <2>1, SharesAlike DEF Placed
  <1>6. Passes(c, r)
    BY <1>1, <1>3, <1>4 DEF Passes, Placed, ReloadsLate, Leaving, ForCore, Unblocks, Untunnels,
       Unproxies, Stills
  <1> QED
    BY <1>2, <1>5, <1>6, QuietMakes

LEMMA ReapplyStaleMakes ==
  ASSUME Inv, NEW t \in Tasks, ReapplyStale(t)
  PROVE  \E r : Makes(t, r)
  <1> DEFINE c == tasks[t]
             r == Return(t, "stale")
  <1>1. /\ c.pc = "reapplyStale" /\ DOMAIN c = Names /\ Placed(c) /\ ReloadsLate(c)
        /\ gen \in Nat /\ dgen \in 0..gen /\ (gen = dgen => GivenUp)
    BY DEF ReapplyStale, At, Inv, Formed, CleanInv
  <1>2. tasks' = [tasks EXCEPT ![t] = r] /\ UNCHANGED Machine /\ UNCHANGED Turns /\ UNCHANGED reloading
    BY DEF ReapplyStale, Goes, Awaits, ConnectRest, conn, sysproxy, core, started, tunnel, block,
       recovery, Turns, Machine
  <1>3. /\ DOMAIN r = Names
        /\ r.pc = (IF c.op = "recover" THEN "recovered" ELSE "end")
        /\ r.op = c.op /\ r.my = c.my /\ r.at = c.at /\ r.run = c.run /\ r.rg = c.rg
    BY <1>1, NamesAre DEF To, Return
  <1> HIDE DEF r
  <1>4. Shares(t, c, r)
    <2>1. Counts(c, r)
      BY <1>1, <1>2, <1>3 DEF Counts, Rebuilds, Placed
    <2> QED
      BY <1>1, <1>2, <1>3, <2>1, SharesAlike DEF Placed
  <1>5. Passes(c, r)
    BY <1>1, <1>3 DEF Passes, Placed, ReloadsLate, Leaving, ForCore, Unblocks, Untunnels,
         Unproxies, Stills
  <1> QED
    BY <1>2, <1>4, <1>5, QuietMakes

LEMMA TeardownMakes ==
  ASSUME Inv, NEW t \in Tasks, Teardown(t)
  PROVE  \E r : Makes(t, r)
  <1> DEFINE c == tasks[t]
             r == To(t, "teardownTuns")
  <1>1. /\ c.pc = "teardown" /\ DOMAIN c = Names /\ Placed(c) /\ ReloadsLate(c)
        /\ gen \in Nat /\ dgen \in 0..gen /\ (gen = dgen => GivenUp)
    BY DEF Teardown, At, Inv, Formed, CleanInv
  <1>2. tasks' = [tasks EXCEPT ![t] = r] /\ UNCHANGED Machine /\ UNCHANGED Turns /\
             reloading' = reloading + 1
    BY DEF Teardown, Goes, Awaits, conn, sysproxy, core, started, tunnel, block, recovery, Turns, Machine
  <1>3. /\ DOMAIN r = Names
        /\ r.pc = "teardownTuns"
        /\ r.op = c.op /\ r.my = c.my /\ r.at = c.at /\ r.run = c.run /\ r.rg = c.rg /\ r.armed = c.armed
        /\ r.sw = c.sw /\ r.got = c.got /\ r.own = c.own /\ r.tn = c.tn /\ r.on = c.on /\ r.next = c.next
    BY <1>1, NamesAre DEF To
  <1> HIDE DEF r
  <1>4. Shares(t, c, r)
    <2>1. Counts(c, r)
      BY <1>1, <1>2, <1>3 DEF Counts, Rebuilds, Placed
    <2> QED
      BY <1>1, <1>2, <1>3, <2>1, SharesAlike DEF Placed
  <1>5. Passes(c, r)
    BY <1>1, <1>3 DEF Passes, Placed, ReloadsLate, Leaving, ForCore, Unblocks, Untunnels,
         Unproxies, Stills
  <1> QED
    BY <1>2, <1>4, <1>5, QuietMakes

LEMMA TeardownTunsMakes ==
  ASSUME Inv, NEW t \in Tasks, TeardownTuns(t)
  PROVE  \E r : Makes(t, r)
  <1> DEFINE c == tasks[t]
             r == To(t, "teardownCore")
  <1>1. /\ c.pc = "teardownTuns" /\ DOMAIN c = Names /\ Placed(c) /\ ReloadsLate(c)
        /\ gen \in Nat /\ dgen \in 0..gen /\ (gen = dgen => GivenUp)
    BY DEF TeardownTuns, At, Inv, Formed, CleanInv
  <1>2. /\ tasks' = [tasks EXCEPT ![t] = r] /\ UNCHANGED Turns /\ UNCHANGED reloading
        /\ up' = {}
        /\ UNCHANGED <<gen, dgen, active, userDisc, watcher, proxy, proc, alive, killed, made, astray,
                rule>>
    BY DEF TeardownTuns, Goes, Awaits, ConnectRest, conn, sysproxy, core, started, tunnel, block,
       recovery, Turns, Machine
  <1>3. /\ DOMAIN r = Names
        /\ r.pc = "teardownCore"
        /\ r.op = c.op /\ r.my = c.my /\ r.at = c.at /\ r.run = c.run /\ r.rg = c.rg /\ r.armed = c.armed
        /\ r.sw = c.sw /\ r.got = c.got /\ r.own = c.own /\ r.tn = c.tn /\ r.on = c.on /\ r.next = c.next
    BY <1>1, NamesAre DEF To
  <1> HIDE DEF r
  <1>4. Shares(t, c, r)
    <2>1. Counts(c, r)
      BY <1>1, <1>2, <1>3 DEF Counts, Rebuilds, Placed
    <2> QED
      BY <1>1, <1>2, <1>3, <2>1, SharesAlike DEF Placed
  <1>5. Step(c, r)
    BY <1>1, <1>2, <1>3 DEF Step, Placed, ReloadsLate, Leaving, ForCore, Unblocks, Untunnels,
       Unproxies, Stills, Left, GivenUp, Inv, CleanInv
  <1> QED
    BY <1>2, <1>4, <1>5 DEF Makes

LEMMA TeardownCoreMakes ==
  ASSUME Inv, NEW t \in Tasks, TeardownCore(t)
  PROVE  \E r : Makes(t, r)
  <1> DEFINE c == tasks[t]
             stops == [To(t, "tornDown") EXCEPT !.on = proc]
             none == To(t, "tornDown")
  <1>1. /\ c.pc = "teardownCore" /\ DOMAIN c = Names /\ Placed(c) /\ ReloadsLate(c)
        /\ gen \in Nat /\ dgen \in 0..gen /\ (gen = dgen => GivenUp)
    BY DEF TeardownCore, At, Inv, Formed, CleanInv
  <1>2. /\ UNCHANGED Turns
        /\ UNCHANGED reloading
        /\ UNCHANGED <<gen, dgen, active, userDisc, watcher, proxy, proc, alive, made, astray, up, rule>>
        /\ \/ tasks' = [tasks EXCEPT ![t] = stops] /\ killed' = killed \cup ({proc} \cap alive)
           \/ tasks' = [tasks EXCEPT ![t] = none] /\ UNCHANGED killed
    BY DEF TeardownCore, Goes, Awaits, conn, sysproxy, core, started, tunnel, block, recovery,
       Machine, Turns, StopsCore
  <1>3. /\ DOMAIN stops = Names /\ stops.pc = "tornDown"
        /\ stops.op = c.op /\ stops.my = c.my /\ stops.at = c.at /\ stops.run = c.run /\ stops.rg = c.rg
        /\ DOMAIN none = Names /\ none.pc = "tornDown"
        /\ none.op = c.op /\ none.my = c.my /\ none.at = c.at /\ none.run = c.run /\ none.rg = c.rg
    BY <1>1, NamesAre DEF To
  <1> HIDE DEF stops, none
  <1>4. CASE tasks' = [tasks EXCEPT ![t] = stops] /\ killed' = killed \cup ({proc} \cap alive)
    <2>1. Shares(t, c, stops)
      <3>1. Counts(c, stops)
        BY <1>1, <1>2, <1>3, <1>4 DEF Counts, Rebuilds, Placed
      <3> QED
        BY <1>1, <1>2, <1>3, <1>4, <3>1, SharesAlike DEF Placed
    <2>2. Step(c, stops)
      BY <1>1, <1>2, <1>3, <1>4 DEF Step, Placed, ReloadsLate, Leaving, ForCore, Unblocks,
         Untunnels, Unproxies, Stills, Left, GivenUp, Inv, CleanInv
    <2> QED
      BY <1>4, <2>1, <2>2 DEF Makes
  <1>5. CASE tasks' = [tasks EXCEPT ![t] = none] /\ UNCHANGED killed
    <2>1. Shares(t, c, none)
      <3>1. Counts(c, none)
        BY <1>1, <1>2, <1>3, <1>5 DEF Counts, Rebuilds, Placed
      <3> QED
        BY <1>1, <1>2, <1>3, <1>5, <3>1, SharesAlike DEF Placed
    <2>2. Passes(c, none)
      BY <1>1, <1>3, <1>5 DEF Passes, Placed, ReloadsLate, Leaving, ForCore, Unblocks, Untunnels,
         Unproxies, Stills
    <2> QED
      BY <1>2, <1>5, <2>1, <2>2, QuietMakes DEF Machine
  <1> QED
    BY <1>2, <1>4, <1>5

LEMMA TornDownMakes ==
  ASSUME Inv, NEW t \in Tasks, TornDown(t)
  PROVE  \E r : Makes(t, r)
  <1> DEFINE c == tasks[t]
             r == IF c.at = gen THEN To(t, "connect") ELSE Return(t, "stale")
  <1>1. /\ c.pc = "tornDown" /\ DOMAIN c = Names /\ Placed(c) /\ ReloadsLate(c)
        /\ gen \in Nat /\ dgen \in 0..gen /\ (gen = dgen => GivenUp)
    BY DEF TornDown, At, Inv, Formed, CleanInv
  <1>2. tasks' = [tasks EXCEPT ![t] = r] /\ UNCHANGED Machine /\ UNCHANGED Turns /\
             reloading' = reloading - 1
    BY DEF TornDown, Goes, Awaits, conn, sysproxy, core, started, tunnel, block, recovery, Turns, Machine
  <1>3. /\ DOMAIN r = Names
        /\ IF c.at = gen THEN r.pc = "connect" ELSE r.pc = (IF c.op = "recover" THEN "recovered" ELSE "end")
        /\ r.op = c.op /\ r.my = c.my /\ r.at = c.at /\ r.run = c.run /\ r.rg = c.rg
    BY <1>1, NamesAre DEF To, Return
  <1> HIDE DEF r
  <1>4. Shares(t, c, r)
    <2>1. Counts(c, r)
      BY <1>1, <1>2, <1>3 DEF Counts, Rebuilds, Placed
    <2> QED
      BY <1>1, <1>2, <1>3, <2>1, SharesAlike DEF Placed
  <1>5. Passes(c, r)
    BY <1>1, <1>3 DEF Passes, Placed, ReloadsLate, Leaving, ForCore, Unblocks, Untunnels,
         Unproxies, Stills
  <1> QED
    BY <1>2, <1>4, <1>5, QuietMakes

LEMMA ReapplyAnsweredMakes ==
  ASSUME Inv, NEW t \in Tasks, ReapplyAnswered(t)
  PROVE  \E r : Makes(t, r)
  <1> DEFINE c == tasks[t]
             failed == To(t, "reapplyFailed")
             stale == Return(t, "stale")
             back == Return(t, c.res)
             ok == IF c.armed THEN [back EXCEPT !.pc = "disarm", !.next = back.pc] ELSE back
  <1>1. /\ c.pc = "answer" /\ DOMAIN c = Names /\ Placed(c) /\ ReloadsLate(c)
        /\ gen \in Nat /\ dgen \in 0..gen /\ (gen = dgen => GivenUp)
    BY DEF ReapplyAnswered, At, Inv, Formed, CleanInv
  <1>2. /\ UNCHANGED reloading
        /\ UNCHANGED <<gen, dgen, active, userDisc, watcher, proc, alive, killed, made, astray, up, rule>>
        /\ \/ tasks' = [tasks EXCEPT ![t] = failed] /\ proxy' = FALSE /\ UNCHANGED Lock /\
                waiting' = Append(waiting, t)
           \/ tasks' = [tasks EXCEPT ![t] = stale] /\ UNCHANGED proxy /\ UNCHANGED Turns
           \/ tasks' = [tasks EXCEPT ![t] = ok] /\ UNCHANGED proxy /\ UNCHANGED Turns
    BY DEF ReapplyAnswered, Goes, Awaits, conn, sysproxy, core, started, tunnel, block, recovery,
       Machine, Turns, Lock, AwaitsProxy
  <1>3. /\ DOMAIN failed = Names /\ failed.pc = "reapplyFailed"
        /\ failed.op = c.op /\ failed.my = c.my /\ failed.at = c.at /\ failed.run = c.run /\
                failed.rg = c.rg
        /\ DOMAIN stale = Names /\ stale.pc = (IF c.op = "recover" THEN "recovered" ELSE "end")
        /\ stale.op = c.op /\ stale.my = c.my /\ stale.at = c.at /\ stale.run = c.run /\ stale.rg = c.rg
        /\ DOMAIN ok = Names
        /\ (LET p == (IF c.op = "recover" THEN "recovered" ELSE "end") IN ok.pc = p \/ (ok.pc = "disarm" /\ ok.next = p))
        /\ ok.op = c.op /\ ok.my = c.my /\ ok.at = c.at /\ ok.run = c.run /\ ok.rg = c.rg
    BY <1>1, NamesAre DEF To, Return
  <1> HIDE DEF failed, stale, ok
  <1>4. CASE tasks' = [tasks EXCEPT ![t] = failed] /\ proxy' = FALSE /\ UNCHANGED Lock /\
             waiting' = Append(waiting, t)
    <2>1. Shares(t, c, failed)
      <3>1. Counts(c, failed)
        BY <1>1, <1>2, <1>3, <1>4 DEF Counts, Rebuilds, Placed
      <3> QED
        BY <1>1, <1>2, <1>3, <1>4, <3>1, SharesAsks DEF Placed
    <2>2. Step(c, failed)
      BY <1>1, <1>2, <1>3, <1>4 DEF Step, Placed, ReloadsLate, Leaving, ForCore, Unblocks,
         Untunnels, Unproxies, Stills, Left, GivenUp, Inv, CleanInv
    <2> QED
      BY <1>4, <2>1, <2>2 DEF Makes
  <1>5. CASE tasks' = [tasks EXCEPT ![t] = stale] /\ UNCHANGED proxy /\ UNCHANGED Turns
    <2>1. Shares(t, c, stale)
      <3>1. Counts(c, stale)
        BY <1>1, <1>2, <1>3, <1>5 DEF Counts, Rebuilds, Placed
      <3> QED
        BY <1>1, <1>2, <1>3, <1>5, <3>1, SharesAlike DEF Placed
    <2>2. Passes(c, stale)
      BY <1>1, <1>3, <1>5 DEF Passes, Placed, ReloadsLate, Leaving, ForCore, Unblocks, Untunnels,
         Unproxies, Stills
    <2> QED
      BY <1>2, <1>5, <2>1, <2>2, QuietMakes DEF Machine
  <1>6. CASE tasks' = [tasks EXCEPT ![t] = ok] /\ UNCHANGED proxy /\ UNCHANGED Turns
    <2>1. Shares(t, c, ok)
      <3>1. Counts(c, ok)
        BY <1>1, <1>2, <1>3, <1>6 DEF Counts, Rebuilds, Placed
      <3> QED
        BY <1>1, <1>2, <1>3, <1>6, <3>1, SharesAlike DEF Placed
    <2>2. Passes(c, ok)
      BY <1>1, <1>3, <1>6 DEF Passes, Placed, ReloadsLate, Leaving, ForCore, Unblocks, Untunnels,
         Unproxies, Stills
    <2> QED
      BY <1>2, <1>6, <2>1, <2>2, QuietMakes DEF Machine
  <1> QED
    BY <1>2, <1>4, <1>5, <1>6

LEMMA ReapplyFailedMakes ==
  ASSUME Inv, NEW t \in Tasks, ReapplyFailed(t)
  PROVE  \E r : Makes(t, r)
  <1> DEFINE c == tasks[t]
             r == Return(t, "failed")
  <1>1. /\ c.pc = "reapplyFailed" /\ DOMAIN c = Names /\ Placed(c) /\ ReloadsLate(c)
        /\ gen \in Nat /\ dgen \in 0..gen /\ (gen = dgen => GivenUp)
    BY DEF ReapplyFailed, At, Inv, Formed, CleanInv
  <1>2. tasks' = [tasks EXCEPT ![t] = r] /\ UNCHANGED Machine /\ UNCHANGED Lock /\ ProxyDone(t) /\
             UNCHANGED reloading
    BY DEF ReapplyFailed, Goes, Awaits, conn, sysproxy, core, started, tunnel, block, recovery,
       Lock, Machine, ProxyDone
  <1>3. /\ DOMAIN r = Names
        /\ r.pc = (IF c.op = "recover" THEN "recovered" ELSE "end")
        /\ r.op = c.op /\ r.my = c.my /\ r.at = c.at /\ r.run = c.run /\ r.rg = c.rg
    BY <1>1, NamesAre DEF To, Return
  <1> HIDE DEF r
  <1>4. Shares(t, c, r)
    <2>1. Counts(c, r)
      BY <1>1, <1>2, <1>3 DEF Counts, Rebuilds, Placed
    <2> QED
      BY <1>1, <1>2, <1>3, <2>1, SharesDone DEF Placed
  <1>5. Passes(c, r)
    BY <1>1, <1>3 DEF Passes, Placed, ReloadsLate, Leaving, ForCore, Unblocks, Untunnels,
         Unproxies, Stills
  <1> QED
    BY <1>2, <1>4, <1>5, QuietMakes

-----------------------------------------------------------------------------
(* Calls that are made, and in-place reloads.                              *)

\* What a call that is made, or is over, is.
Fresh(r) ==
  /\ DOMAIN r = Names /\ r.my = None /\ r.at = None /\ r.run = 0
  /\ \/ r.op = "none" /\ r.pc = "idle"
     \/ r.op = "reload" /\ r.pc = "reload"
     \/ r.op = "recover" /\ r.pc = "recover"
     \/ r.op \in Ops \ {"reload", "recover"} /\ r.pc \in {"connect", "disconnect", "reapply", "drop"}

LEMMA IdleIs ==
  /\ Fresh(Idle) /\ DOMAIN Idle = Names
  /\ Idle.op = "none" /\ Idle.pc = "idle" /\ Idle.my = None /\ Idle.at = None /\ Idle.run = 0
  BY DEF Fresh, Idle, Names

\* A call that nothing is left to.
Spent(c) ==
  /\ ~Leaving(c)
  /\ gen = dgen => ~Unblocks(c) /\ (\A n : ~Untunnels(c, n)) /\ ~Unproxies(c) /\ ~Stills(c, proc)

LEMMA FreshMakes ==
  ASSUME Inv, NEW t \in Tasks, NEW r, Spent(tasks[t]), Fresh(r),
         tasks' = [tasks EXCEPT ![t] = r], UNCHANGED Machine, Shares(t, tasks[t], r)
  PROVE  Makes(t, r)
  <1>1. DOMAIN r = Names /\ gen \in Nat /\ dgen \in 0..gen /\ rgen \in Nat
    BY DEF Fresh, Inv, CleanInv
  <1>2. Placed(r) /\ ReloadsLate(r)
    BY <1>1 DEF Fresh, Placed, ReloadsLate
  <1>3. Passes(tasks[t], r)
    BY <1>1, <1>2 DEF Spent, Passes
  <1> QED
    BY <1>3, QuietMakes

\* A call that nothing is left to, and that is no recovery, ends or becomes another.
LEMMA EndsMakes ==
  ASSUME Inv, NEW t \in Tasks, NEW r, Spent(tasks[t]), Fresh(r), tasks[t].run = 0,
       tasks[t].pc \notin AtProxy,
         tasks' = [tasks EXCEPT ![t] = r], UNCHANGED Machine, UNCHANGED Turns,
         reloading' = IF Rebuilds(tasks[t]) THEN reloading - 1 ELSE reloading
  PROVE  Makes(t, r)
  <1>1. Counts(tasks[t], r) /\ r.pc \notin AtProxy /\ r.run = 0
    BY DEF Fresh, Counts, Rebuilds
  <1>2. Shares(t, tasks[t], r)
    BY <1>1, SharesAlike
  <1> QED
    BY <1>2, FreshMakes

\* A slot that is free takes any call.
LEMMA FreeIs ==
  ASSUME Inv, NEW t \in Tasks, tasks[t].pc = "idle"
  PROVE  Spent(tasks[t]) /\ tasks[t].run = 0 /\ ~Rebuilds(tasks[t])
  <1>1. Placed(tasks[t])
    BY DEF Inv, CleanInv
  <1> QED
    BY <1>1 DEF Placed, Rebuilds, Spent, Leaving, ForCore, Unblocks, Untunnels, Unproxies, Stills

LEMMA IdleMakes ==
  ASSUME Inv, NEW t \in Tasks, NEW r, tasks[t].pc = "idle", Fresh(r),
         tasks' = [tasks EXCEPT ![t] = r], UNCHANGED Machine, UNCHANGED Turns, UNCHANGED reloading
  PROVE  Makes(t, r)
  BY FreeIs, EndsMakes

LEMMA CalledMakes ==
  ASSUME Inv, NEW t \in Tasks, NEW r, Calls(t, r), Fresh(r),
         UNCHANGED Machine, UNCHANGED Turns, UNCHANGED reloading
  PROVE  Makes(t, r)
  BY IdleMakes DEF Calls, Slot, Free, Goes

LEMMA AsksReloadMakes ==
  ASSUME Inv, NEW t \in Tasks, AsksReload(t)
  PROVE  \E r : Makes(t, r)
  <1> DEFINE r == [Idle EXCEPT !.op = "reload", !.pc = "reload"]
  <1>1. tasks[t].pc = "idle" /\ tasks' = [tasks EXCEPT ![t] = r] /\ UNCHANGED Machine /\
             UNCHANGED Turns /\ UNCHANGED reloading
    BY DEF AsksReload, Slot, Free, Awaits, ConnectRest, conn, sysproxy, core, started, block,
       recovery, Machine, Turns
  <1>2. Fresh(r)
    BY DEF Fresh, Idle, Names
  <1> QED
    BY <1>1, <1>2, IdleMakes

LEMMA ReloadMakes ==
  ASSUME Inv, NEW t \in Tasks, Reload(t)
  PROVE  \E r : Makes(t, r)
  <1> DEFINE c == tasks[t]
             r == IF active /\ Running THEN [To(t, "reloadBuild") EXCEPT !.at = gen] ELSE Idle
  <1>1. /\ c.pc = "reload" /\ DOMAIN c = Names /\ Placed(c) /\ ReloadsLate(c)
        /\ gen \in Nat /\ dgen \in 0..gen /\ (gen = dgen => GivenUp)
    BY DEF Reload, At, Inv, Formed, CleanInv
  <1>2. tasks' = [tasks EXCEPT ![t] = r] /\ UNCHANGED Machine /\ UNCHANGED Turns /\ UNCHANGED reloading
    BY DEF Reload, Goes, Awaits, ConnectRest, conn, sysproxy, core, started, tunnel, block,
       recovery, Turns, Machine, Ends
  <1>3. /\ DOMAIN r = Names
        /\ \/ r.pc = "reloadBuild" /\ r.op = c.op /\ r.my = c.my /\ r.at = gen /\ r.run = c.run /\
                r.rg = c.rg
           \/ r.pc = "idle" /\ r.op = "none" /\ r.my = None /\ r.at = None /\ r.run = 0
    BY <1>1, NamesAre DEF To, Idle
  <1> HIDE DEF r
  <1>4. Shares(t, c, r)
    <2>1. Counts(c, r)
      BY <1>1, <1>2, <1>3 DEF Counts, Rebuilds, Placed
    <2> QED
      BY <1>1, <1>2, <1>3, <2>1, SharesAlike DEF Placed
  <1>5. Passes(c, r)
    BY <1>1, <1>3 DEF Passes, Placed, ReloadsLate, Leaving, ForCore, Unblocks, Untunnels,
         Unproxies, Stills
  <1> QED
    BY <1>2, <1>4, <1>5, QuietMakes

LEMMA ReloadBuildMakes ==
  ASSUME Inv, NEW t \in Tasks, ReloadBuild(t)
  PROVE  \E r : Makes(t, r)
  <1> DEFINE c == tasks[t]
             r == To(t, "reloadCheck")
  <1>1. /\ c.pc = "reloadBuild" /\ DOMAIN c = Names /\ Placed(c) /\ ReloadsLate(c)
        /\ gen \in Nat /\ dgen \in 0..gen /\ (gen = dgen => GivenUp)
    BY DEF ReloadBuild, At, Inv, Formed, CleanInv
  <1>2. tasks' = [tasks EXCEPT ![t] = r] /\ UNCHANGED Machine /\ UNCHANGED Turns /\
             reloading' = reloading + 1
    BY DEF ReloadBuild, Goes, Awaits, conn, sysproxy, core, started, tunnel, block, recovery,
         Turns, Machine
  <1>3. /\ DOMAIN r = Names
        /\ r.pc = "reloadCheck"
        /\ r.op = c.op /\ r.my = c.my /\ r.at = c.at /\ r.run = c.run /\ r.rg = c.rg /\ r.armed = c.armed
        /\ r.sw = c.sw /\ r.got = c.got /\ r.own = c.own /\ r.tn = c.tn /\ r.on = c.on /\ r.next = c.next
    BY <1>1, NamesAre DEF To
  <1> HIDE DEF r
  <1>4. Shares(t, c, r)
    <2>1. Counts(c, r)
      BY <1>1, <1>2, <1>3 DEF Counts, Rebuilds, Placed
    <2> QED
      BY <1>1, <1>2, <1>3, <2>1, SharesAlike DEF Placed
  <1>5. Passes(c, r)
    BY <1>1, <1>3 DEF Passes, Placed, ReloadsLate, Leaving, ForCore, Unblocks, Untunnels,
         Unproxies, Stills
  <1> QED
    BY <1>2, <1>4, <1>5, QuietMakes

LEMMA ThrowsFresh ==
  ASSUME NEW t \in Tasks, Throws(t)
  PROVE  \E r : tasks' = [tasks EXCEPT ![t] = r] /\ Fresh(r)
  <1>1. Fresh(Idle) /\ Fresh([Idle EXCEPT !.op = "drop", !.pc = "drop"])
    BY DEF Fresh, Idle, Names, Ops
  <1> QED
    BY <1>1 DEF Throws, Ends, Awaits, Goes

LEMMA ReloadCheckMakes ==
  ASSUME Inv, NEW t \in Tasks, ReloadCheck(t)
  PROVE  \E r : Makes(t, r)
  <1> DEFINE c == tasks[t]
             goes == To(t, "start")
  <1>1. /\ c.pc = "reloadCheck" /\ DOMAIN c = Names /\ Placed(c) /\ ReloadsLate(c)
        /\ gen \in Nat /\ dgen \in 0..gen /\ (gen = dgen => GivenUp)
    BY DEF ReloadCheck, At, Inv, Formed, CleanInv
  <1>2. Fresh(Idle)
    BY DEF Fresh, Idle, Names
  <1>3. /\ UNCHANGED Machine /\ UNCHANGED Turns
        /\ \/ (\E r : tasks' = [tasks EXCEPT ![t] = r] /\ Fresh(r)) /\ reloading' = reloading - 1
           \/ ~userDisc /\ tasks' = [tasks EXCEPT ![t] = goes] /\ UNCHANGED reloading
    BY <1>2, ThrowsFresh DEF ReloadCheck, Goes, Ends, Awaits, conn, sysproxy, core, started, tunnel,
       block, recovery, Machine, Turns
  <1>4. ASSUME NEW r, tasks' = [tasks EXCEPT ![t] = r], Fresh(r), reloading' = reloading - 1
        PROVE  Makes(t, r)
    <2>1. Spent(c) /\ Rebuilds(c) /\ c.run = 0
      BY <1>1 DEF Placed, Rebuilds, Spent, Leaving, ForCore, Unblocks, Untunnels, Unproxies, Stills
    <2> QED
      BY <1>1, <1>3, <1>4, <2>1, EndsMakes
  <1>5. CASE ~userDisc /\ tasks' = [tasks EXCEPT ![t] = goes] /\ UNCHANGED reloading
    <2>1. /\ DOMAIN goes = Names /\ goes.pc = "start"
          /\ goes.op = c.op /\ goes.my = c.my /\ goes.at = c.at /\ goes.run = c.run /\ goes.rg = c.rg
      BY <1>1, NamesAre DEF To
    <2> HIDE DEF goes
    <2>2. Shares(t, c, goes)
      <3>1. Counts(c, goes)
        BY <1>1, <1>5, <2>1 DEF Counts, Rebuilds, Placed
      <3> QED
        BY <1>1, <1>3, <1>5, <2>1, <3>1, SharesAlike DEF Placed
    <2>3. Passes(c, goes)
      BY <1>1, <1>5, <2>1 DEF GivenUp, Passes, Placed, ReloadsLate, Leaving, ForCore, Unblocks,
         Untunnels, Unproxies, Stills
    <2> QED
      BY <1>3, <1>5, <2>2, <2>3, QuietMakes
  <1> QED
    BY <1>3, <1>4, <1>5

LEMMA ReloadedMakes ==
  ASSUME Inv, NEW t \in Tasks, Reloaded(t)
  PROVE  \E r : Makes(t, r)
  <1> DEFINE c == tasks[t]
  <1>1. c.pc = "grace" /\ c.op = "reload" /\ Placed(c)
    BY DEF Reloaded, At, Inv, CleanInv
  <1>2. Fresh(Idle)
    BY DEF Fresh, Idle, Names
  <1>3. UNCHANGED Machine /\ UNCHANGED Turns /\ reloading' = reloading - 1
    BY DEF Reloaded, conn, sysproxy, core, started, tunnel, block, recovery, Machine, Turns
  <1>4. PICK r : tasks' = [tasks EXCEPT ![t] = r] /\ Fresh(r)
    BY <1>2, ThrowsFresh DEF Reloaded, Ends, Awaits
  <1>5. Spent(c) /\ Rebuilds(c) /\ c.run = 0
    BY <1>1 DEF Placed, Rebuilds, Spent, Leaving, ForCore, Unblocks, Untunnels, Unproxies, Stills
  <1> QED
    BY <1>1, <1>3, <1>4, <1>5, EndsMakes

-----------------------------------------------------------------------------
(* The user's calls, and recoveries.                                       *)

LEMMA UserConnectsMakes ==
  ASSUME Inv, NEW t \in Tasks, UserConnects(t)
  PROVE  \E r : Makes(t, r)
  <1> DEFINE r == [Idle EXCEPT !.op = "connect", !.pc = "connect"]
  <1>1. Fresh(r)
    BY DEF Fresh, Idle, Names, Ops
  <1> QED
    BY <1>1, CalledMakes DEF UserConnects, Called, CallRest, conn, sysproxy, core, started, tunnel,
       block, recovery, Machine, Turns

LEMMA UserDisconnectsMakes ==
  ASSUME Inv, NEW t \in Tasks, UserDisconnects(t)
  PROVE  \E r : Makes(t, r)
  <1> DEFINE r == [Idle EXCEPT !.op = "disconnect", !.pc = "disconnect"]
  <1>1. Fresh(r)
    BY DEF Fresh, Idle, Names, Ops
  <1> QED
    BY <1>1, CalledMakes DEF UserDisconnects, Called, CallRest, conn, sysproxy, core, started,
       tunnel, block, recovery, Machine, Turns

LEMMA UserAppliesMakes ==
  ASSUME Inv, NEW t \in Tasks, UserApplies(t)
  PROVE  \E r : Makes(t, r)
  <1> DEFINE r == [Idle EXCEPT !.op = "apply", !.pc = "reapply"]
  <1>1. Fresh(r)
    BY DEF Fresh, Idle, Names, Ops
  <1> QED
    BY <1>1, CalledMakes DEF UserApplies, Called, CallRest, conn, sysproxy, core, started, tunnel,
       block, recovery, Machine, Turns

LEMMA UserRetriesMakes ==
  ASSUME Inv, NEW t \in Tasks, UserRetries(t)
  PROVE  \E r : Makes(t, r)
  <1> DEFINE r == IF Running THEN [Idle EXCEPT !.op = "apply", !.pc = "reapply"]
                             ELSE [Idle EXCEPT !.op = "retry", !.pc = "connect", !.armed = engaged]
  <1>1. Fresh(r)
    BY DEF Fresh, Idle, Names, Ops
  <1>2. Calls(t, r) /\ UNCHANGED Machine /\ UNCHANGED Turns /\ UNCHANGED reloading
    BY DEF UserRetries, CallRest, conn, sysproxy, core, started, tunnel, block, recovery, Machine, Turns
  <1> QED
    BY <1>1, <1>2, CalledMakes

LEMMA ConnectAnsweredMakes ==
  ASSUME Inv, NEW t \in Tasks, ConnectAnswered(t)
  PROVE  \E r : Makes(t, r)
  <1> DEFINE c == tasks[t]
             r == IF c.armed /\ c.res \in {"ok", "tunless"} /\ Running
                  THEN [To(t, "disarm") EXCEPT !.next = "end"] ELSE Idle
  <1>1. /\ c.pc = "answer" /\ DOMAIN c = Names /\ Placed(c) /\ ReloadsLate(c)
        /\ gen \in Nat /\ dgen \in 0..gen /\ (gen = dgen => GivenUp) /\ c.op \in {"connect", "retry"}
    BY DEF ConnectAnswered, At, Inv, Formed, CleanInv
  <1>2. tasks' = [tasks EXCEPT ![t] = r] /\ UNCHANGED Machine /\ UNCHANGED Turns /\ UNCHANGED reloading
    BY DEF ConnectAnswered, Goes, Awaits, conn, sysproxy, core, started, tunnel, block, recovery,
       Turns, Machine, Ends
  <1>3. /\ DOMAIN r = Names
        /\ \/ r.pc = "disarm" /\ r.next = "end" /\ r.op = c.op /\ r.my = c.my /\ r.at = c.at /\
                r.run = c.run /\ r.rg = c.rg
           \/ r.pc = "idle" /\ r.op = "none" /\ r.my = None /\ r.at = None /\ r.run = 0
    BY <1>1, NamesAre DEF To, Idle
  <1> HIDE DEF r
  <1>4. Shares(t, c, r)
    <2>1. Counts(c, r)
      BY <1>1, <1>2, <1>3 DEF Counts, Rebuilds, Placed
    <2> QED
      BY <1>1, <1>2, <1>3, <2>1, SharesAlike DEF Placed
  <1>5. Passes(c, r)
    BY <1>1, <1>3 DEF Passes, Placed, ReloadsLate, Leaving, ForCore, Unblocks, Untunnels,
         Unproxies, Stills
  <1> QED
    BY <1>2, <1>4, <1>5, QuietMakes

LEMMA EndMakes ==
  ASSUME Inv, NEW t \in Tasks, End(t)
  PROVE  \E r : Makes(t, r)
  <1>1. tasks[t].pc = "end" /\ tasks' = [tasks EXCEPT ![t] = Idle] /\ UNCHANGED Machine /\
             UNCHANGED Turns /\ UNCHANGED reloading
    BY DEF End, At, Ends, Awaits, ConnectRest, conn, sysproxy, core, started, block, recovery,
       Machine, Turns
  <1>2. Fresh(Idle)
    BY DEF Fresh, Idle, Names
  <1>3. Placed(tasks[t])
    BY DEF Inv, CleanInv
  <1>4. Spent(tasks[t]) /\ ~Rebuilds(tasks[t]) /\ tasks[t].run = 0
    BY <1>1, <1>3 DEF Placed, Rebuilds, Spent, Leaving, ForCore, Unblocks, Untunnels, Unproxies, Stills
  <1> QED
    BY <1>1, <1>2, <1>4, EndsMakes

LEMMA RecoverMakes ==
  ASSUME Inv, LockInv, NEW t \in Tasks, Recover(t)
  PROVE  \E r : Makes(t, r)
  <1> DEFINE c == tasks[t]
             r == [To(t, IF Running THEN "reapply" ELSE "connect")
                     EXCEPT !.rg = rgen, !.run = runs', !.armed = ~Running /\ engaged]
  <1>1. /\ c.pc = "recover" /\ DOMAIN c = Names /\ Placed(c) /\ ReloadsLate(c)
        /\ gen \in Nat /\ dgen \in 0..gen /\ (gen = dgen => GivenUp) /\ rgen \in Nat
    BY DEF Recover, At, Inv, Formed, CleanInv
  <1>2. /\ UNCHANGED Machine /\ UNCHANGED <<rgen, waiting, reloading>>
        /\ \/ tasks' = [tasks EXCEPT ![t] = Idle] /\ UNCHANGED <<recovering, runs>>
           \/ /\ tasks' = [tasks EXCEPT ![t] = r]
              /\ ~recovering /\ recovering' = TRUE /\ runs' = runs + 1
    BY DEF Recover, Goes, Ends, Awaits, conn, sysproxy, core, started, tunnel, block, recovery, Machine
  <1>3. CASE tasks' = [tasks EXCEPT ![t] = Idle] /\ UNCHANGED <<recovering, runs>>
    <2>1. Spent(c) /\ ~Rebuilds(c) /\ c.run = 0
      BY <1>1 DEF Placed, Rebuilds, Spent, Leaving, ForCore, Unblocks, Untunnels, Unproxies, Stills
    <2>2. UNCHANGED Turns
      BY <1>2, <1>3 DEF Turns
    <2> QED
      BY <1>1, <1>2, <1>3, <2>1, <2>2, IdleIs, EndsMakes
  <1>4. CASE /\ tasks' = [tasks EXCEPT ![t] = r]
             /\ ~recovering /\ recovering' = TRUE /\ runs' = runs + 1
    <2>1. /\ DOMAIN r = Names /\ r.pc \in {"reapply", "connect"}
          /\ r.op = c.op /\ r.my = c.my /\ r.at = c.at /\ r.rg = rgen /\ r.run = runs + 1
      BY <1>1, <1>4, NamesAre DEF To
    <2> HIDE DEF r
    <2>2. HasLock(r) /\ r.run # 0
      BY <2>1 DEF HasLock, LockInv
    <2>3. Locks(c, r)
      BY <1>2, <1>4, <2>2 DEF Locks
    <2>4. Queues(t, c, r)
      BY <1>1, <1>2, <2>1 DEF Queues
    <2>5. Counts(c, r)
      BY <1>1, <1>2, <2>1 DEF Counts, Rebuilds
    <2>6. Passes(c, r)
      BY <1>1, <2>1, <2>2 DEF Passes, Placed, ReloadsLate, Leaving, ForCore, Unblocks, Untunnels,
         Unproxies, Stills
    <2> QED
      BY <1>2, <1>4, <2>3, <2>4, <2>5, <2>6, QuietMakes DEF Shares
  <1> QED
    BY <1>2, <1>3, <1>4

LEMMA RecoverAnsweredMakes ==
  ASSUME Inv, NEW t \in Tasks, RecoverAnswered(t)
  PROVE  \E r : Makes(t, r)
  <1> DEFINE c == tasks[t]
             r == IF c.armed /\ c.res \in {"ok", "tunless"} /\ Running
                  THEN [To(t, "disarm") EXCEPT !.next = "recovered"] ELSE To(t, "recovered")
  <1>1. /\ c.pc = "answer" /\ DOMAIN c = Names /\ Placed(c) /\ ReloadsLate(c)
        /\ gen \in Nat /\ dgen \in 0..gen /\ (gen = dgen => GivenUp) /\ c.op = "recover"
    BY DEF RecoverAnswered, At, Inv, Formed, CleanInv
  <1>2. tasks' = [tasks EXCEPT ![t] = r] /\ UNCHANGED Machine /\ UNCHANGED Turns /\ UNCHANGED reloading
    BY DEF RecoverAnswered, Goes, Awaits, ConnectRest, conn, sysproxy, core, started, tunnel, block,
       recovery, Turns, Machine
  <1>3. /\ DOMAIN r = Names
        /\ r.pc \in {"disarm", "recovered"} /\ (r.pc = "disarm" => r.next = "recovered")
        /\ r.op = c.op /\ r.my = c.my /\ r.at = c.at /\ r.run = c.run /\ r.rg = c.rg
    BY <1>1, NamesAre DEF To
  <1> HIDE DEF r
  <1>4. Shares(t, c, r)
    <2>1. Counts(c, r)
      BY <1>1, <1>2, <1>3 DEF Counts, Rebuilds, Placed
    <2> QED
      BY <1>1, <1>2, <1>3, <2>1, SharesAlike DEF Placed
  <1>5. Passes(c, r)
    BY <1>1, <1>3 DEF Passes, Placed, ReloadsLate, Leaving, ForCore, Unblocks, Untunnels,
         Unproxies, Stills
  <1> QED
    BY <1>2, <1>4, <1>5, QuietMakes

LEMMA RecoveredMakes ==
  ASSUME Inv, LockInv, NEW t \in Tasks, Recovered(t)
  PROVE  \E r : Makes(t, r)
  <1> DEFINE c == tasks[t]
             again == [Idle EXCEPT !.op = "recover", !.pc = "recover"]
  <1>1. Fresh(Idle) /\ Fresh(again)
    BY DEF Fresh, Idle, Names, Ops
  <1>2. PICK r \in {Idle, again} : tasks' = [tasks EXCEPT ![t] = r]
    BY DEF Recovered, Goes, Ends, Awaits
  <1>3. /\ c.pc = "recovered" /\ Placed(c) /\ UNCHANGED Machine
        /\ UNCHANGED <<reloading, rgen, runs, waiting>> /\ recovering' = (recovering /\ c.rg # rgen)
    BY DEF Recovered, At, conn, sysproxy, core, started, tunnel, block, Machine, Inv, CleanInv
  <1>4. Fresh(r)
    BY <1>1, <1>2
  <1>5. Spent(c)
    BY <1>3 DEF Spent, Leaving, ForCore, Unblocks, Untunnels, Unproxies, Stills
  <1>6. ~HasLock(r) /\ (HasLock(c) <=> c.rg = rgen)
    BY <1>3, <1>4 DEF Fresh, Placed, HasLock
  <1>7. recovering' = IF HasLock(c) THEN FALSE ELSE recovering
    BY <1>3, <1>6 DEF LockInv
  <1>8. Locks(c, r)
    BY <1>3, <1>6, <1>7 DEF Locks
  <1>9. Queues(t, c, r) /\ Counts(c, r)
    BY <1>3, <1>4 DEF Fresh, Queues, Counts, Rebuilds
  <1> QED
    BY <1>2, <1>3, <1>4, <1>5, <1>8, <1>9, FreshMakes DEF Shares

LEMMA TriggerMakes ==
  ASSUME Inv, NEW t \in Tasks, Trigger(t)
  PROVE  \E r : Makes(t, r)
  <1> DEFINE r == [Idle EXCEPT !.op = "recover", !.pc = "recover"]
  <1>1. Fresh(r)
    BY DEF Fresh, Idle, Names, Ops
  <1> QED
    BY <1>1, CalledMakes DEF Trigger, Called, CallRest, conn, sysproxy, core, started, tunnel,
       block, recovery, Machine, Turns

LEMMA TimerFiresMakes ==
  ASSUME Inv, NEW t \in Tasks, TimerFires(t)
  PROVE  \E r : Makes(t, r)
  <1> DEFINE r == [Idle EXCEPT !.op = "recover", !.pc = "recover", !.att = timer]
  <1>1. Fresh(r)
    BY DEF Fresh, Idle, Names, Ops
  <1> QED
    BY <1>1, CalledMakes DEF TimerFires, conn, sysproxy, core, started, tunnel, block, recovery,
       Machine, Turns

-----------------------------------------------------------------------------
(* onConnectionDrop.                                                       *)

LEMMA DropMakes ==
  ASSUME Inv, NEW t \in Tasks, Drop(t)
  PROVE  \E r : Makes(t, r)
  <1> DEFINE c == tasks[t]
  <1>1. /\ c.pc = "drop" /\ DOMAIN c = Names /\ Placed(c) /\ ReloadsLate(c)
        /\ gen \in Nat /\ dgen \in 0..gen /\ (gen = dgen => GivenUp)
    BY DEF Drop, At, Inv, Formed, CleanInv
  <1>2. PICK r \in {Idle, [To(t, "arm") EXCEPT !.next = "dropArmed"], To(t, "dropWait")} :
          tasks' = [tasks EXCEPT ![t] = r]
    BY DEF Drop, Goes, Awaits, Ends, GoesOn
  <1>3. UNCHANGED Machine /\ UNCHANGED Turns /\ UNCHANGED reloading
    BY DEF Drop, DropRest, conn, sysproxy, core, started, tunnel, block, recovery, Turns, Machine,
       Ends, GoesOn
  <1>4. /\ DOMAIN r = Names
        /\ \/ r.pc = "idle" /\ r.op = "none" /\ r.my = None /\ r.at = None /\ r.run = 0
           \/ r.pc \in {"arm", "dropWait"} /\ r.op = c.op /\ r.my = c.my /\ r.at = c.at /\
                   r.run = c.run /\ r.rg = c.rg
        /\ r.pc = "arm" => r.next = "dropArmed"
    <2>1. CASE r = Idle
      BY <1>1, <2>1, NamesAre DEF Idle
    <2>2. CASE r = [To(t, "arm") EXCEPT !.next = "dropArmed"]
      BY <1>1, <2>2, NamesAre DEF To
    <2>3. CASE r = To(t, "dropWait")
      BY <1>1, <2>3, NamesAre DEF To
    <2> QED
      BY <1>2, <2>1, <2>2, <2>3
  <1>5. Shares(t, c, r)
    <2>1. Counts(c, r)
      BY <1>1, <1>3, <1>4 DEF Counts, Rebuilds, Placed
    <2> QED
      BY <1>1, <1>3, <1>4, <2>1, SharesAlike DEF Placed
  <1>6. Passes(c, r)
    BY <1>1, <1>2, <1>4 DEF Passes, Placed, ReloadsLate, Leaving, ForCore, Unblocks, Untunnels,
       Unproxies, Stills
  <1> QED
    BY <1>2, <1>3, <1>5, <1>6, QuietMakes

LEMMA DropArmedMakes ==
  ASSUME Inv, NEW t \in Tasks, DropArmed(t)
  PROVE  \E r : Makes(t, r)
  <1> DEFINE c == tasks[t]
             on == [c EXCEPT !.armed = c.got = "added", !.got = "no"]
             r == IF on.armed /\ GivenUp THEN [on EXCEPT !.pc = "disarm", !.next = "end"]
                                         ELSE [on EXCEPT !.pc = "dropWait"]
  <1>1. /\ c.pc = "dropArmed" /\ DOMAIN c = Names /\ Placed(c) /\ ReloadsLate(c)
        /\ gen \in Nat /\ dgen \in 0..gen /\ (gen = dgen => GivenUp)
    BY DEF DropArmed, At, Inv, Formed, CleanInv
  <1>2. tasks' = [tasks EXCEPT ![t] = r]
    BY DEF DropArmed, Goes, GoesOn
  <1>3. UNCHANGED Machine /\ UNCHANGED Turns /\ UNCHANGED reloading
    BY DEF DropArmed, DropRest, conn, sysproxy, core, started, block, recovery, Machine, Turns
  <1>4. on.armed <=> c.got = "added"
    BY <1>1, NamesAre
  <1>5. /\ DOMAIN r = Names /\ r.op = c.op /\ r.my = c.my /\ r.at = c.at /\ r.run = c.run /\ r.rg = c.rg
        /\ IF on.armed /\ GivenUp THEN r.pc = "disarm" /\ r.next = "end" ELSE r.pc = "dropWait"
    BY <1>1, NamesAre
  <1> HIDE DEF r, on
  <1>6. Shares(t, c, r)
    <2>1. Counts(c, r)
      BY <1>1, <1>3, <1>5 DEF Counts, Rebuilds, Placed
    <2> QED
      BY <1>1, <1>3, <1>5, <2>1, SharesAlike DEF Placed
  <1>7. Passes(c, r)
    BY <1>1, <1>4, <1>5 DEF Passes, Placed, ReloadsLate, Leaving, ForCore, Unblocks, Untunnels,
       Unproxies, Stills
  <1> QED
    BY <1>2, <1>3, <1>6, <1>7, QuietMakes

LEMMA DropWaitMakes ==
  ASSUME Inv, NEW t \in Tasks, DropWait(t)
  PROVE  \E r : Makes(t, r)
  <1> DEFINE c == tasks[t]
  <1>1. /\ c.pc = "dropWait" /\ DOMAIN c = Names /\ Placed(c) /\ ReloadsLate(c)
        /\ gen \in Nat /\ dgen \in 0..gen /\ (gen = dgen => GivenUp)
    BY DEF DropWait, At, Inv, Formed, CleanInv
  <1>2. PICK r \in {Idle, [To(t, "disarm") EXCEPT !.next = "end"],
                   [Idle EXCEPT !.op = "disconnect", !.pc = "disconnect"],
                   [To(t, "dropJoin") EXCEPT !.on = runs], To(t, "dropTake")} :
          tasks' = [tasks EXCEPT ![t] = r]
    BY DEF DropWait, Goes, Awaits, Ends, Lifts
  <1>3. UNCHANGED Machine /\ UNCHANGED Turns /\ UNCHANGED reloading
    BY DEF DropWait, DropRest, conn, sysproxy, core, started, tunnel, block, recovery, Turns,
       Machine, Ends, Lifts
  <1>4. /\ DOMAIN r = Names
        /\ \/ r.pc \in {"idle", "disconnect"} /\ r.op \in {"none", "disconnect"} /\ r.my = None /\
                r.at = None /\ r.run = 0
           \/ /\ r.pc \in {"disarm", "dropJoin", "dropTake"}
              /\ r.op = c.op /\ r.my = c.my /\ r.at = c.at /\ r.run = c.run /\ r.rg = c.rg
        /\ r.pc = "disarm" => r.next = "end"
    <2>1. CASE r = Idle
      BY <1>1, <2>1, NamesAre DEF Idle
    <2>2. CASE r = [To(t, "disarm") EXCEPT !.next = "end"]
      BY <1>1, <2>2, NamesAre DEF To
    <2>3. CASE r = [Idle EXCEPT !.op = "disconnect", !.pc = "disconnect"]
      BY <1>1, <2>3, NamesAre DEF Idle
    <2>4. CASE r = [To(t, "dropJoin") EXCEPT !.on = runs]
      BY <1>1, <2>4, NamesAre DEF To
    <2>5. CASE r = To(t, "dropTake")
      BY <1>1, <2>5, NamesAre DEF To
    <2> QED
      BY <1>2, <2>1, <2>2, <2>3, <2>4, <2>5
  <1>5. Shares(t, c, r)
    <2>1. Counts(c, r)
      BY <1>1, <1>3, <1>4 DEF Counts, Rebuilds, Placed
    <2> QED
      BY <1>1, <1>3, <1>4, <2>1, SharesAlike DEF Placed
  <1>6. Passes(c, r)
    BY <1>1, <1>2, <1>4 DEF Passes, Placed, ReloadsLate, Leaving, ForCore, Unblocks, Untunnels,
       Unproxies, Stills
  <1> QED
    BY <1>2, <1>3, <1>5, <1>6, QuietMakes

LEMMA DropJoinMakes ==
  ASSUME Inv, NEW t \in Tasks, DropJoin(t)
  PROVE  \E r : Makes(t, r)
  <1> DEFINE c == tasks[t]
  <1>1. /\ c.pc = "dropJoin" /\ DOMAIN c = Names /\ Placed(c) /\ ReloadsLate(c)
        /\ gen \in Nat /\ dgen \in 0..gen /\ (gen = dgen => GivenUp)
    BY DEF DropJoin, At, Inv, Formed, CleanInv
  <1>2. PICK r \in {Idle, [To(t, "disarm") EXCEPT !.next = "end"], [To(t, "dropTake") EXCEPT !.on = 0]} :
          tasks' = [tasks EXCEPT ![t] = r]
    BY DEF DropJoin, Goes, Awaits, Ends, Lifts
  <1>3. UNCHANGED Machine /\ UNCHANGED Turns /\ UNCHANGED reloading
    BY DEF DropJoin, DropRest, conn, sysproxy, core, started, tunnel, block, recovery, Turns,
       Machine, Ends, Lifts
  <1>4. /\ DOMAIN r = Names
        /\ \/ r.pc = "idle" /\ r.op = "none" /\ r.my = None /\ r.at = None /\ r.run = 0
           \/ r.pc \in {"disarm", "dropTake"} /\ r.op = c.op /\ r.my = c.my /\ r.at = c.at /\
                   r.run = c.run /\ r.rg = c.rg
        /\ r.pc = "disarm" => r.next = "end"
    <2>1. CASE r = Idle
      BY <1>1, <2>1, NamesAre DEF Idle
    <2>2. CASE r = [To(t, "disarm") EXCEPT !.next = "end"]
      BY <1>1, <2>2, NamesAre DEF To
    <2>3. CASE r = [To(t, "dropTake") EXCEPT !.on = 0]
      BY <1>1, <2>3, NamesAre DEF To
    <2> QED
      BY <1>2, <2>1, <2>2, <2>3
  <1>5. Shares(t, c, r)
    <2>1. Counts(c, r)
      BY <1>1, <1>3, <1>4 DEF Counts, Rebuilds, Placed
    <2> QED
      BY <1>1, <1>3, <1>4, <2>1, SharesAlike DEF Placed
  <1>6. Passes(c, r)
    BY <1>1, <1>2, <1>4 DEF Passes, Placed, ReloadsLate, Leaving, ForCore, Unblocks, Untunnels,
       Unproxies, Stills
  <1> QED
    BY <1>2, <1>3, <1>5, <1>6, QuietMakes

LEMMA DropTakeMakes ==
  ASSUME Inv, NEW t \in Tasks, DropTake(t)
  PROVE  \E r : Makes(t, r)
  <1> DEFINE c == tasks[t]
             again == [Idle EXCEPT !.op = "recover", !.pc = "recover"]
  <1>1. /\ c.pc = "dropTake" /\ DOMAIN c = Names /\ Placed(c) /\ ReloadsLate(c)
        /\ gen \in Nat /\ dgen \in 0..gen /\ (gen = dgen => GivenUp)
    BY DEF DropTake, At, Inv, Formed, CleanInv
  <1>2. PICK r \in {again, [To(t, "dropReport") EXCEPT !.at = gen], [To(t,
             "dropProxy") EXCEPT !.at = gen]} :
          tasks' = [tasks EXCEPT ![t] = r]
    BY DEF DropTake, Goes, Awaits
  <1>3. /\ UNCHANGED Turns /\ UNCHANGED reloading /\ up' \in {up, {}}
        /\ UNCHANGED <<gen, dgen, active, userDisc, watcher, proxy, proc, alive, killed, made, astray,
                rule>>
    BY DEF DropTake, DropRest, conn, sysproxy, core, started, block, Turns
  <1>4. /\ DOMAIN r = Names
        /\ \/ r.pc = "recover" /\ r.op = "recover" /\ r.my = None /\ r.at = None /\ r.run = 0
           \/ r.pc \in {"dropReport", "dropProxy"} /\ r.op = c.op /\ r.my = c.my /\ r.at = gen /\
                   r.run = c.run /\ r.rg = c.rg
    BY <1>1, <1>2, NamesAre DEF To, Idle
  <1>5. Shares(t, c, r)
    <2>1. Counts(c, r)
      BY <1>1, <1>3, <1>4 DEF Counts, Rebuilds, Placed
    <2> QED
      BY <1>1, <1>3, <1>4, <2>1, SharesAlike DEF Placed
  <1>6. Step(c, r)
    BY <1>1, <1>3, <1>4 DEF Step, Placed, ReloadsLate, Leaving, ForCore, Unblocks, Untunnels,
       Unproxies, Stills, Left, GivenUp, Inv, CleanInv
  <1> QED
    BY <1>2, <1>5, <1>6 DEF Makes

LEMMA DropProxyMakes ==
  ASSUME Inv, NEW t \in Tasks, DropProxy(t)
  PROVE  \E r : Makes(t, r)
  <1> DEFINE c == tasks[t]
             clears == To(t, "dropProxied")
             over == Idle
  <1>1. /\ c.pc = "dropProxy" /\ DOMAIN c = Names /\ Placed(c) /\ ReloadsLate(c)
        /\ gen \in Nat /\ dgen \in 0..gen /\ (gen = dgen => GivenUp)
    BY DEF DropProxy, At, Inv, Formed, CleanInv
  <1>2. /\ UNCHANGED reloading
        /\ UNCHANGED <<gen, dgen, active, userDisc, watcher, proc, alive, killed, made, astray, up, rule>>
        /\ \/ tasks' = [tasks EXCEPT ![t] = clears] /\ proxy' = FALSE /\ UNCHANGED Lock /\
                waiting' = Append(waiting, t)
           \/ tasks' = [tasks EXCEPT ![t] = over] /\ UNCHANGED proxy /\ UNCHANGED Turns
    BY DEF DropProxy, Goes, Awaits, DropRest, conn, sysproxy, core, started, tunnel, block,
       recovery, Machine, Turns, Lock, AwaitsProxy, Ends
  <1>3. /\ DOMAIN clears = Names /\ clears.pc = "dropProxied"
        /\ clears.op = c.op /\ clears.my = c.my /\ clears.at = c.at /\ clears.run = c.run /\
                clears.rg = c.rg
        /\ DOMAIN over = Names /\ over.pc = "idle" /\ over.op = "none" /\ over.my = None
        /\ over.at = None /\ over.run = 0
    BY <1>1, NamesAre DEF To, Idle
  <1> HIDE DEF clears, over
  <1>4. CASE tasks' = [tasks EXCEPT ![t] = clears] /\ proxy' = FALSE /\ UNCHANGED Lock /\
             waiting' = Append(waiting, t)
    <2>1. Shares(t, c, clears)
      <3>1. Counts(c, clears)
        BY <1>1, <1>2, <1>3, <1>4 DEF Counts, Rebuilds, Placed
      <3> QED
        BY <1>1, <1>2, <1>3, <1>4, <3>1, SharesAsks DEF Placed
    <2>2. Step(c, clears)
      BY <1>1, <1>2, <1>3, <1>4 DEF Step, Placed, ReloadsLate, Leaving, ForCore, Unblocks,
         Untunnels, Unproxies, Stills, Left, GivenUp, Inv, CleanInv
    <2> QED
      BY <1>4, <2>1, <2>2 DEF Makes
  <1>5. CASE tasks' = [tasks EXCEPT ![t] = over] /\ UNCHANGED proxy /\ UNCHANGED Turns
    <2>1. Shares(t, c, over)
      <3>1. Counts(c, over)
        BY <1>1, <1>2, <1>3, <1>5 DEF Counts, Rebuilds, Placed
      <3> QED
        BY <1>1, <1>2, <1>3, <1>5, <3>1, SharesAlike DEF Placed
    <2>2. Passes(c, over)
      BY <1>1, <1>3, <1>5 DEF Passes, Placed, ReloadsLate, Leaving, ForCore, Unblocks, Untunnels,
         Unproxies, Stills
    <2> QED
      BY <1>2, <1>5, <2>1, <2>2, QuietMakes DEF Machine
  <1> QED
    BY <1>2, <1>4, <1>5

LEMMA DropReportMakes ==
  ASSUME Inv, NEW t \in Tasks, DropReport(t)
  PROVE  \E r : Makes(t, r)
  <1> DEFINE c == tasks[t]
  <1>1. /\ tasks' = [tasks EXCEPT ![t] = Idle] /\ Placed(c) /\ UNCHANGED Lock
        /\ \/ c.pc = "dropReport" /\ UNCHANGED waiting
           \/ c.pc = "dropProxied" /\ ProxyDone(t)
    BY DEF DropReport, At, Ends, Awaits, Inv, CleanInv, DropRest, Lock, sysproxy
  <1>2. UNCHANGED Machine /\ UNCHANGED reloading
    BY DEF DropReport, ProxyDone, DropRest, conn, sysproxy, core, started, block, Machine
  <1>3. Fresh(Idle) /\ Idle.pc = "idle" /\ Idle.run = 0
    BY DEF Fresh, Idle, Names
  <1>4. Spent(c) /\ c.run = 0 /\ Counts(c, Idle)
    BY <1>1, <1>2, <1>3 DEF Placed, Spent, Leaving, ForCore, Unblocks, Untunnels, Unproxies, Stills,
       Counts, Rebuilds
  <1>5. CASE c.pc = "dropReport" /\ UNCHANGED waiting
    <2>1. UNCHANGED Turns
      BY <1>1, <1>5 DEF Turns, Lock
    <2> QED
      BY <1>1, <1>2, <1>3, <1>4, <1>5, <2>1, SharesAlike, FreshMakes
  <1>6. CASE c.pc = "dropProxied" /\ ProxyDone(t)
    BY <1>1, <1>2, <1>3, <1>4, <1>6, SharesDone, FreshMakes
  <1> QED
    BY <1>1, <1>5, <1>6

-----------------------------------------------------------------------------
(* doDisconnect.                                                           *)

LEMMA DisTunsMakes ==
  ASSUME Inv, NEW t \in Tasks, DisTuns(t)
  PROVE  \E r : Makes(t, r)
  <1> DEFINE c == tasks[t]
             r == To(t, "disProxy")
  <1>1. /\ c.pc = "disTuns" /\ DOMAIN c = Names /\ Placed(c) /\ ReloadsLate(c)
        /\ gen \in Nat /\ dgen \in 0..gen /\ (gen = dgen => GivenUp)
    BY DEF DisTuns, At, Inv, Formed, CleanInv
  <1>2. /\ tasks' = [tasks EXCEPT ![t] = r] /\ UNCHANGED Turns /\ UNCHANGED reloading
        /\ up' = {}
        /\ UNCHANGED <<gen, dgen, active, userDisc, watcher, proxy, proc, alive, killed, made, astray,
                rule>>
    BY DEF DisTuns, Goes, Awaits, ConnectRest, conn, sysproxy, core, started, tunnel, block,
       recovery, Turns, Machine
  <1>3. /\ DOMAIN r = Names
        /\ r.pc = "disProxy"
        /\ r.op = c.op /\ r.my = c.my /\ r.at = c.at /\ r.run = c.run /\ r.rg = c.rg /\ r.armed = c.armed
        /\ r.sw = c.sw /\ r.got = c.got /\ r.own = c.own /\ r.tn = c.tn /\ r.on = c.on /\ r.next = c.next
    BY <1>1, NamesAre DEF To
  <1> HIDE DEF r
  <1>4. Shares(t, c, r)
    <2>1. Counts(c, r)
      BY <1>1, <1>2, <1>3 DEF Counts, Rebuilds, Placed
    <2> QED
      BY <1>1, <1>2, <1>3, <2>1, SharesAlike DEF Placed
  <1>5. Step(c, r)
    BY <1>1, <1>2, <1>3 DEF Step, Placed, ReloadsLate, Leaving, ForCore, Unblocks, Untunnels,
       Unproxies, Stills, Left, GivenUp, Inv, CleanInv
  <1> QED
    BY <1>2, <1>4, <1>5 DEF Makes

LEMMA DisProxyMakes ==
  ASSUME Inv, NEW t \in Tasks, DisProxy(t)
  PROVE  \E r : Makes(t, r)
  <1> DEFINE c == tasks[t]
             r == To(t, "disBlock")
  <1>1. /\ c.pc = "disProxy" /\ DOMAIN c = Names /\ Placed(c) /\ ReloadsLate(c)
        /\ gen \in Nat /\ dgen \in 0..gen /\ (gen = dgen => GivenUp)
    BY DEF DisProxy, At, Inv, Formed, CleanInv
  <1>2. /\ tasks' = [tasks EXCEPT ![t] = r] /\ proxy' = FALSE
        /\ UNCHANGED Lock /\ waiting' = Append(waiting, t) /\ UNCHANGED reloading
        /\ UNCHANGED <<gen, dgen, active, userDisc, watcher, proc, alive, killed, made, astray, up, rule>>
    BY DEF DisProxy, AwaitsProxy, Awaits, conn, core, started, tunnel, block, recovery, Lock
  <1>3. /\ DOMAIN r = Names /\ r.pc = "disBlock"
        /\ r.op = c.op /\ r.my = c.my /\ r.at = c.at /\ r.run = c.run /\ r.rg = c.rg
    BY <1>1, NamesAre DEF To
  <1> HIDE DEF r
  <1>4. Shares(t, c, r)
    <2>1. Counts(c, r)
      BY <1>1, <1>2, <1>3 DEF Counts, Rebuilds
    <2> QED
      BY <1>1, <1>2, <1>3, <2>1, SharesAsks
  <1>5. Step(c, r)
    BY <1>1, <1>2, <1>3 DEF Step, Placed, ReloadsLate, Leaving, ForCore, Unblocks, Untunnels,
       Unproxies, Stills, Left, GivenUp, Inv, CleanInv
  <1> QED
    BY <1>2, <1>4, <1>5 DEF Makes

LEMMA DisBlockMakes ==
  ASSUME Inv, NEW t \in Tasks, DisBlock(t)
  PROVE  \E r : Makes(t, r)
  <1> DEFINE c == tasks[t]
             r == [To(t, "disarm") EXCEPT !.next = "disCore"]
  <1>1. /\ c.pc = "disBlock" /\ DOMAIN c = Names /\ Placed(c) /\ ReloadsLate(c)
        /\ gen \in Nat /\ dgen \in 0..gen /\ (gen = dgen => GivenUp)
    BY DEF DisBlock, At, Inv, Formed, CleanInv
  <1>2. tasks' = [tasks EXCEPT ![t] = r] /\ UNCHANGED Machine /\ UNCHANGED Lock /\ ProxyDone(t) /\
             UNCHANGED reloading
    BY DEF DisBlock, Goes, Awaits, conn, sysproxy, core, started, tunnel, block, recovery, Lock,
       Machine, ProxyDone
  <1>3. /\ DOMAIN r = Names
        /\ r.pc = "disarm" /\ r.next = "disCore"
        /\ r.op = c.op /\ r.my = c.my /\ r.at = c.at /\ r.run = c.run /\ r.rg = c.rg /\ r.armed = c.armed
        /\ r.sw = c.sw /\ r.got = c.got /\ r.own = c.own /\ r.tn = c.tn /\ r.on = c.on
    BY <1>1, NamesAre DEF To
  <1> HIDE DEF r
  <1>4. Shares(t, c, r)
    <2>1. Counts(c, r)
      BY <1>1, <1>2, <1>3 DEF Counts, Rebuilds, Placed
    <2> QED
      BY <1>1, <1>2, <1>3, <2>1, SharesDone DEF Placed
  <1>5. Passes(c, r)
    BY <1>1, <1>3 DEF Passes, Placed, ReloadsLate, Leaving, ForCore, Unblocks, Untunnels,
         Unproxies, Stills
  <1> QED
    BY <1>2, <1>4, <1>5, QuietMakes

LEMMA DisCoreMakes ==
  ASSUME Inv, NEW t \in Tasks, DisCore(t)
  PROVE  \E r : Makes(t, r)
  <1> DEFINE c == tasks[t]
             stops == [To(t, "disDone") EXCEPT !.on = proc]
             none == To(t, "disDone")
  <1>1. /\ c.pc = "disCore" /\ DOMAIN c = Names /\ Placed(c) /\ ReloadsLate(c)
        /\ gen \in Nat /\ dgen \in 0..gen /\ (gen = dgen => GivenUp) /\ alive \subseteq 1..made /\
                made \in Nat
    BY DEF DisCore, At, Inv, Formed, CleanInv
  <1>2. /\ UNCHANGED Turns
        /\ UNCHANGED reloading
        /\ UNCHANGED <<gen, dgen, active, userDisc, watcher, proxy, proc, alive, made, astray, up, rule>>
        /\ \/ tasks' = [tasks EXCEPT ![t] = stops] /\ killed' = killed \cup ({proc} \cap alive)
           \/ proc = None /\ tasks' = [tasks EXCEPT ![t] = none] /\ UNCHANGED killed
    BY DEF DisCore, Goes, Awaits, conn, sysproxy, core, started, tunnel, block, recovery, Machine,
       Turns, StopsCore, Running
  <1>3. /\ DOMAIN stops = Names /\ stops.pc = "disDone"
        /\ stops.op = c.op /\ stops.my = c.my /\ stops.at = c.at /\ stops.run = c.run /\ stops.rg = c.rg
        /\ DOMAIN none = Names /\ none.pc = "disDone"
        /\ none.op = c.op /\ none.my = c.my /\ none.at = c.at /\ none.run = c.run /\ none.rg = c.rg
    BY <1>1, NamesAre DEF To
  <1> HIDE DEF stops, none
  <1>4. CASE tasks' = [tasks EXCEPT ![t] = stops] /\ killed' = killed \cup ({proc} \cap alive)
    <2>1. Shares(t, c, stops)
      <3>1. Counts(c, stops)
        BY <1>1, <1>2, <1>3, <1>4 DEF Counts, Rebuilds, Placed
      <3> QED
        BY <1>1, <1>2, <1>3, <1>4, <3>1, SharesAlike DEF Placed
    <2>2. Step(c, stops)
      BY <1>1, <1>2, <1>3, <1>4 DEF Step, Placed, ReloadsLate, Leaving, ForCore, Unblocks,
         Untunnels, Unproxies, Stills, Left, GivenUp, Inv, CleanInv
    <2> QED
      BY <1>4, <2>1, <2>2 DEF Makes
  <1>5. CASE proc = None /\ tasks' = [tasks EXCEPT ![t] = none] /\ UNCHANGED killed
    <2>1. Shares(t, c, none)
      <3>1. Counts(c, none)
        BY <1>1, <1>2, <1>3, <1>5 DEF Counts, Rebuilds, Placed
      <3> QED
        BY <1>1, <1>2, <1>3, <1>5, <3>1, SharesAlike DEF Placed
    <2>2. Passes(c, none)
      BY <1>1, <1>3, <1>5 DEF Passes, Placed, ReloadsLate, Leaving, ForCore, Unblocks, Untunnels,
         Unproxies, Stills, Left
    <2> QED
      BY <1>2, <1>5, <2>1, <2>2, QuietMakes DEF Machine
  <1> QED
    BY <1>2, <1>4, <1>5

LEMMA DisDoneMakes ==
  ASSUME Inv, NEW t \in Tasks, DisDone(t)
  PROVE  \E r : Makes(t, r)
  <1> DEFINE c == tasks[t]
             r == Idle
  <1>1. /\ c.pc = "disDone" /\ DOMAIN c = Names /\ Placed(c) /\ ReloadsLate(c)
        /\ gen \in Nat /\ dgen \in 0..gen /\ (gen = dgen => GivenUp)
    BY DEF DisDone, At, Inv, Formed, CleanInv
  <1>2. /\ tasks' = [tasks EXCEPT ![t] = r] /\ UNCHANGED Turns /\ UNCHANGED reloading
        /\ active' = FALSE /\ userDisc' = FALSE
        /\ UNCHANGED <<gen, dgen, watcher, proxy, proc, alive, killed, made, astray, up, rule>>
    BY DEF DisDone, Goes, Awaits, conn, sysproxy, core, started, tunnel, block, recovery, Turns,
       Machine, Ends
  <1>3. /\ DOMAIN r = Names
        /\ r.pc = "idle" /\ r.op = "none" /\ r.my = None /\ r.at = None /\ r.run = 0
    BY <1>1, NamesAre DEF Idle
  <1> HIDE DEF r
  <1>4. Shares(t, c, r)
    <2>1. Counts(c, r)
      BY <1>1, <1>2, <1>3 DEF Counts, Rebuilds, Placed
    <2> QED
      BY <1>1, <1>2, <1>3, <2>1, SharesAlike DEF Placed
  <1>5. Step(c, r)
    BY <1>1, <1>2, <1>3 DEF Step, Placed, ReloadsLate, Leaving, ForCore, Unblocks, Untunnels,
       Unproxies, Stills, Left, GivenUp, Inv, CleanInv
  <1> QED
    BY <1>2, <1>4, <1>5 DEF Makes

-----------------------------------------------------------------------------
(* The processes, and the two actions that take a generation.              *)

\* What the exit of a process does to the machine.
Exits ==
  /\ UNCHANGED <<gen, dgen, active, userDisc, watcher, proxy, made, astray, rule>> /\ UNCHANGED Turns
  /\ alive' \subseteq alive /\ up' \subseteq up /\ (Left' => Left /\ proc' = proc)

LEMMA CoreExitIs ==
  ASSUME Inv, NEW c \in alive,
         alive' = alive \ {c}, killed' = killed \ {c}, proc' = IF proc = c THEN None ELSE proc,
         UNCHANGED <<gen, dgen, active, userDisc, watcher, proxy, made, astray, up, rule>>, UNCHANGED Turns
  PROVE  Exits
  <1>1. None \notin alive
    BY DEF Inv, CleanInv
  <1> QED
    BY <1>1 DEF Exits, Left

LEMMA ExitKeeps ==
  ASSUME Inv, Exits, tasks' = tasks
  PROVE  Inv'
  <1>1. Formed'
    BY DEF Inv, Formed
  <1>2. \A t \in Tasks : (Placed(tasks[t]) /\ ReloadsLate(tasks[t]))'
    BY DEF Exits, Turns, Inv, CleanInv, Placed, ReloadsLate
  <1>3. userDisc' => \E t \in Tasks : Leaving(tasks[t])'
    BY DEF Exits, Inv, CleanInv, Leaving, ForCore
  <1>4. ASSUME gen' = dgen'
        PROVE  /\ GivenUp' /\ ~watcher'
               /\ rule' => \E t \in Tasks : Unblocks(tasks[t])'
               /\ proxy' => \E t \in Tasks : Unproxies(tasks[t])'
    BY <1>4 DEF Exits, Inv, CleanInv, GivenUp, Unblocks, Unproxies
  <1>5. ASSUME gen' = dgen', NEW n \in up' PROVE \E t \in Tasks : Untunnels(tasks[t], n)'
    BY <1>5 DEF Exits, Inv, CleanInv, Untunnels
  <1>6. gen' = dgen' /\ Left' => \E t \in Tasks : Stills(tasks[t], proc)'
    BY DEF Exits, Inv, CleanInv, Stills, ForCore
  <1> QED
    BY <1>1, <1>2, <1>3, <1>4, <1>5, <1>6 DEF Exits, Turns, Inv, CleanInv

LEMMA ExitMakes ==
  ASSUME Inv, Exits, NEW t \in Tasks, NEW r, Calls(t, r), Fresh(r), UNCHANGED reloading
  PROVE  Makes(t, r)
  <1>1. tasks[t].pc = "idle" /\ tasks' = [tasks EXCEPT ![t] = r]
    BY DEF Calls, Slot, Free, Goes
  <1>2. /\ Spent(tasks[t]) /\ tasks[t].run = 0 /\ r.run = 0 /\ Counts(tasks[t], r)
        /\ r.pc \notin AtProxy
    BY <1>1, FreeIs DEF Fresh, Counts, Rebuilds
  <1>3. Placed(r) /\ DOMAIN r = Names /\ r.pc \notin InStart
    BY DEF Fresh, Placed, Inv, CleanInv
  <1>4. UNCHANGED <<gen, dgen>> /\ made' \in Nat /\ alive' \subseteq 1..made'
    BY DEF Exits, Inv, CleanInv
  <1>5. userDisc' => userDisc /\ ~Leaving(tasks[t])
    BY <1>2 DEF Exits, Spent
  <1>6. ASSUME gen = dgen
        PROVE  /\ GivenUp' /\ (active' => active) /\ ~watcher'
               /\ rule' => rule /\ ~Unblocks(tasks[t])
               /\ \A n \in up' : n \in up /\ ~Untunnels(tasks[t], n)
               /\ proxy' => proxy /\ ~Unproxies(tasks[t])
               /\ Left' => Left /\ proc' = proc /\ ~Stills(tasks[t], proc)
    BY <1>2, <1>6 DEF Exits, Spent, GivenUp, Inv, CleanInv
  <1>7. Shares(t, tasks[t], r)
    BY <1>1, <1>2, SharesAlike DEF Exits
  <1> QED
    BY <1>1, <1>2, <1>3, <1>4, <1>5, <1>6, <1>7 DEF Makes, Step

LEMMA CoreExitsMakes ==
  ASSUME Inv, CoreExits
  PROVE  (Inv' /\ UNCHANGED <<tasks, reloading>> /\ UNCHANGED Turns) \/ \E t \in Tasks : \E r : Makes(t, r)
  <1> DEFINE r == [Idle EXCEPT !.op = "drop", !.pc = "drop"]
  <1>1. PICK c \in alive :
          /\ alive' = alive \ {c} /\ killed' = killed \ {c} /\ proc' = IF proc = c THEN None ELSE proc
          /\ (\E t \in Tasks : Calls(t, r)) \/ UNCHANGED ctl
          /\ UNCHANGED <<ExitRest, up, made, astray>>
    BY DEF CoreExits, Called
  <1>2. UNCHANGED <<gen, dgen, active, userDisc, watcher, proxy, made, astray, up, rule, reloading>> /\
             UNCHANGED Turns
    BY <1>1 DEF ExitRest, conn, sysproxy, block, recovery, Turns
  <1>3. Exits
    BY <1>1, <1>2, CoreExitIs
  <1>4. Fresh(r)
    BY DEF Fresh, Idle, Names, Ops
  <1> HIDE DEF r
  <1>5. CASE UNCHANGED ctl
    BY <1>2, <1>3, <1>5, ExitKeeps DEF ctl, Exits
  <1>6. CASE \E t \in Tasks : Calls(t, r)
    BY <1>2, <1>3, <1>4, <1>6, ExitMakes
  <1> QED
    BY <1>1, <1>5, <1>6

LEMMA TunnelExitsMakes ==
  ASSUME Inv, TunnelExits
  PROVE  (Inv' /\ UNCHANGED <<tasks, reloading>> /\ UNCHANGED Turns) \/ \E t \in Tasks : \E r : Makes(t, r)
  <1> DEFINE r == [Idle EXCEPT !.op = "drop", !.pc = "drop", !.what = "tun"]
  <1>1. /\ up' \subseteq up /\ UNCHANGED <<ExitRest, core>>
        /\ (\E t \in Tasks : Calls(t, r)) \/ UNCHANGED ctl
    BY DEF TunnelExits
  <1>2. Exits /\ UNCHANGED reloading
    BY <1>1 DEF Exits, ExitRest, conn, sysproxy, block, core, started, recovery, Turns, Left
  <1>3. Fresh(r)
    BY DEF Fresh, Idle, Names, Ops
  <1> HIDE DEF r
  <1>4. CASE UNCHANGED ctl
    BY <1>2, <1>4, ExitKeeps DEF ctl, Exits
  <1>5. CASE \E t \in Tasks : Calls(t, r)
    BY <1>2, <1>3, <1>5, ExitMakes
  <1> QED
    BY <1>1, <1>4, <1>5

\* A connect ends the machine of the disconnect.
LEMMA ConnectKeeps ==
  ASSUME Inv, NEW t \in Tasks, Connect(t)
  PROVE  Inv' /\ \E r : tasks' = [tasks EXCEPT ![t] = r] /\ Shares(t, tasks[t], r)
  <1> DEFINE c == tasks[t]
             r == IF c.armed THEN [To(t, "prepare") EXCEPT !.my = gen + 1]
                             ELSE [To(t, "disarm") EXCEPT !.my = gen + 1, !.next = "prepare"]
  <1>1. /\ c.pc = "connect" /\ DOMAIN c = Names /\ Placed(c)
        /\ gen \in Nat /\ dgen \in 0..gen /\ rgen \in Nat /\ made \in Nat /\ alive \subseteq 1..made
        /\ tasks = [u \in Tasks |-> tasks[u]]
    BY DEF Connect, At, Inv, Formed, CleanInv
  <1>2. /\ tasks' = [tasks EXCEPT ![t] = r] /\ gen' = gen + 1
        /\ UNCHANGED <<dgen, userDisc, made, alive, reloading>> /\ UNCHANGED Turns
    BY DEF Connect, Goes, Awaits, core, started, sysproxy, recovery, Turns
  <1>3. /\ DOMAIN r = Names /\ r.my = gen + 1 /\ r.op = c.op /\ r.at = c.at /\ r.run = c.run /\ r.rg = c.rg
        /\ r.pc \in {"prepare", "disarm"} /\ (r.pc = "disarm" => r.next = "prepare")
    BY <1>1, NamesAre DEF To
  <1> HIDE DEF r
  <1>4. tasks'[t] = r /\ \A u \in Tasks : u # t => tasks'[u] = tasks[u]
    BY <1>1, <1>2
  <1>5. Formed'
    BY <1>1, <1>2, <1>3, <1>4 DEF Inv, Formed
  <1>6. gen' # dgen' /\ gen' \in Nat /\ dgen' \in 0..gen' /\ rgen' = rgen
    BY <1>1, <1>2 DEF Turns
  <1>7. ASSUME NEW u \in Tasks
        PROVE  (Placed(tasks[u]) /\ ReloadsLate(tasks[u]))'
    <2>1. CASE u = t
      BY <1>1, <1>2, <1>3, <1>4, <1>6, <2>1 DEF Placed, ReloadsLate
    <2>2. CASE u # t
      BY <1>1, <1>2, <1>4, <1>6, <2>2 DEF Placed, ReloadsLate, Inv, CleanInv
    <2> QED
      BY <2>1, <2>2
  <1>8. userDisc' => \E u \in Tasks : Leaving(tasks[u])'
    <2>1. ~Leaving(c)
      BY <1>1 DEF Leaving, ForCore
    <2> QED
      BY <1>2, <1>4, <2>1 DEF Inv, CleanInv, Leaving, ForCore
  <1>9. Shares(t, c, r)
    <2>1. Counts(c, r)
      BY <1>1, <1>2, <1>3 DEF Counts, Rebuilds, Placed
    <2> QED
      BY <1>1, <1>2, <1>3, <2>1, SharesAlike DEF Placed
  <1> QED
    BY <1>1, <1>2, <1>5, <1>6, <1>7, <1>8, <1>9 DEF Inv, CleanInv

\* A disconnect has everything still to take away.
LEMMA DisconnectKeeps ==
  ASSUME Inv, NEW t \in Tasks, Disconnect(t)
  PROVE  Inv' /\ \E r : tasks' = [tasks EXCEPT ![t] = r] /\ Counts(tasks[t], r) /\ Queues(t, tasks[t], r)
              /\ runs' = runs /\ recovering' = FALSE /\ \A u \in Tasks : ~HasLock(tasks[u])'
  <1> DEFINE c == tasks[t]
             r == To(t, "disTuns")
  <1>1. /\ c.pc = "disconnect" /\ DOMAIN c = Names /\ Placed(c)
        /\ gen \in Nat /\ dgen \in 0..gen /\ rgen \in Nat /\ made \in Nat /\ alive \subseteq 1..made
        /\ tasks = [u \in Tasks |-> tasks[u]]
    BY DEF Disconnect, At, Inv, Formed, CleanInv
  <1>2. /\ tasks' = [tasks EXCEPT ![t] = r] /\ gen' = gen + 1 /\ dgen' = gen + 1
        /\ userDisc' = TRUE /\ watcher' = FALSE /\ UNCHANGED <<made, alive, reloading, runs, waiting>>
        /\ rgen' = rgen + 1 /\ recovering' = FALSE
    BY DEF Disconnect, LocksAnew, Awaits, core, started, sysproxy
  <1>3. /\ DOMAIN r = Names /\ r.my = c.my /\ r.op = c.op /\ r.at = c.at /\ r.run = c.run /\
                r.rg = c.rg /\ r.pc = "disTuns"
    BY <1>1, NamesAre DEF To
  <1> HIDE DEF r
  <1>4. tasks'[t] = r /\ \A u \in Tasks : u # t => tasks'[u] = tasks[u]
    BY <1>1, <1>2
  <1>5. Formed'
    BY <1>1, <1>2, <1>3, <1>4 DEF Inv, Formed
  <1>6. ASSUME NEW u \in Tasks
        PROVE  (Placed(tasks[u]) /\ ReloadsLate(tasks[u]))'
    <2>1. CASE u = t
      BY <1>1, <1>2, <1>3, <1>4, <2>1 DEF Placed, ReloadsLate
    <2>2. CASE u # t
      <3>1. Placed(tasks[u])
        BY DEF Inv, CleanInv
      <3> QED
        BY <1>1, <1>2, <1>4, <2>2, <3>1 DEF Placed, ReloadsLate
    <2> QED
      BY <2>1, <2>2
  <1>7. /\ Leaving(tasks[t])' /\ GivenUp'
        /\ Unblocks(tasks[t])' /\ (\A n \in up' : Untunnels(tasks'[t], n)) /\ Unproxies(tasks[t])' /\
                Stills(tasks[t], proc)'
    BY <1>2, <1>3, <1>4 DEF Leaving, ForCore, GivenUp, Unblocks, Untunnels, Unproxies, Stills
  <1>8. \A n \in up' : \E u \in Tasks : Untunnels(tasks'[u], n)
    BY <1>7
  <1>9. Counts(c, r) /\ Queues(t, c, r)
    BY <1>1, <1>2, <1>3 DEF Counts, Rebuilds, Queues
  <1>10. ASSUME NEW u \in Tasks PROVE ~HasLock(tasks[u])'
    <2>1. Placed(tasks[u]) /\ tasks'[u].run = tasks[u].run /\ tasks'[u].rg = tasks[u].rg
      BY <1>3, <1>4 DEF Inv, CleanInv
    <2> QED
      BY <1>1, <1>2, <2>1 DEF Placed, HasLock
  <1> QED
    BY <1>1, <1>2, <1>5, <1>6, <1>7, <1>8, <1>9, <1>10 DEF Inv, CleanInv

-----------------------------------------------------------------------------
(* What the calls share.                                                   *)

LEMMA CountKeeps ==
  ASSUME Inv, CountInv, NEW t \in Tasks, NEW r, tasks' = [tasks EXCEPT ![t] = r], Counts(tasks[t], r)
  PROVE  CountInv'
  <1> DEFINE S == {u \in Tasks : Rebuilds(tasks[u])}
             T == {u \in Tasks : Rebuilds(tasks'[u])}
  <1>1. tasks'[t] = r /\ \A u \in Tasks : u # t => tasks'[u] = tasks[u]
    BY DEF Inv, Formed
  <1>2. IsFiniteSet(S) /\ Cardinality(S) \in Nat
    BY ConnectionAssumption, FS_Subset, FS_CardinalityType
  <1>3. CASE Rebuilds(tasks[t]) = Rebuilds(r)
    <2>1. S = T
      BY <1>1, <1>3 DEF Rebuilds
    <2> QED
      BY <1>3, <2>1 DEF CountInv, Counts
  <1>4. CASE ~Rebuilds(tasks[t]) /\ Rebuilds(r)
    <2>1. T = S \cup {t} /\ t \notin S
      BY <1>1, <1>4 DEF Rebuilds
    <2> QED
      BY <1>2, <1>4, <2>1, FS_AddElement DEF CountInv, Counts
  <1>5. CASE Rebuilds(tasks[t]) /\ ~Rebuilds(r)
    <2>1. T = S \ {t} /\ t \in S
      BY <1>1, <1>5 DEF Rebuilds
    <2> QED
      BY <1>2, <1>5, <2>1, FS_RemoveElement DEF CountInv, Counts
  <1> QED
    BY <1>3, <1>4, <1>5 DEF Rebuilds

LEMMA LocksKeep ==
  ASSUME Inv, LockInv, NEW t \in Tasks, NEW r, tasks' = [tasks EXCEPT ![t] = r], Locks(tasks[t], r)
  PROVE  LockInv'
  <1> DEFINE c == tasks[t]
  <1>1. tasks'[t] = r /\ \A u \in Tasks : u # t => tasks'[u] = tasks[u]
    BY DEF Inv, Formed
  <1>2. HasLock(tasks[t])' <=> HasLock(r)
    BY <1>1 DEF Locks, HasLock
  <1>3. ASSUME NEW u \in Tasks, u # t PROVE HasLock(tasks[u])' <=> HasLock(tasks[u])
    BY <1>1, <1>3 DEF Locks, HasLock
  <1>4. runs' \in Nat
    BY DEF Locks, LockInv
  <1>5. CASE HasLock(r) /\ HasLock(c)
    <2>1. recovering' = recovering
      BY <1>5 DEF Locks, LockInv
    <2>2. \A u \in Tasks : HasLock(tasks[u])' <=> HasLock(tasks[u])
      BY <1>2, <1>3, <1>5
    <2> QED
      BY <1>4, <2>1, <2>2 DEF LockInv
  <1>6. CASE HasLock(r) /\ ~HasLock(c)
    <2>1. ~recovering /\ recovering' = TRUE
      BY <1>6 DEF Locks
    <2>2. \A u \in Tasks : HasLock(tasks[u])' <=> u = t
      BY <1>2, <1>3, <1>6, <2>1 DEF LockInv
    <2> QED
      BY <1>4, <2>1, <2>2 DEF LockInv
  <1>7. CASE ~HasLock(r) /\ HasLock(c)
    <2>1. recovering' = FALSE
      BY <1>7 DEF Locks
    <2>2. \A u \in Tasks : ~HasLock(tasks[u])'
      BY <1>2, <1>3, <1>7 DEF LockInv
    <2> QED
      BY <1>4, <2>1, <2>2 DEF LockInv
  <1>8. CASE ~HasLock(r) /\ ~HasLock(c)
    <2>1. recovering' = recovering
      BY <1>8 DEF Locks
    <2>2. \A u \in Tasks : HasLock(tasks[u])' <=> HasLock(tasks[u])
      BY <1>2, <1>3, <1>8
    <2> QED
      BY <1>4, <2>1, <2>2 DEF LockInv
  <1> QED
    BY <1>5, <1>6, <1>7, <1>8

LEMMA QueuesKeep ==
  ASSUME Inv, WaitInv, NEW t \in Tasks, NEW r, tasks' = [tasks EXCEPT ![t] = r], Queues(t, tasks[t], r)
  PROVE  WaitInv'
  <1> DEFINE c == tasks[t]
  <1>1. tasks'[t] = r /\ \A u \in Tasks : u # t => tasks'[u] = tasks[u]
    BY DEF Inv, Formed
  <1>2. /\ waiting \in Seq(Tasks) /\ Len(waiting) \in Nat
        /\ \A i, j \in 1..Len(waiting) : waiting[i] = waiting[j] => i = j
        /\ \A u \in Tasks : tasks[u].pc \in AtProxy <=> \E i \in 1..Len(waiting) : waiting[i] = u
    BY DEF WaitInv
  <1> HIDE DEF AtProxy
  <1>3. CASE r.pc \in AtProxy
    <2>1. c.pc \notin AtProxy /\ waiting' = Append(waiting, t)
      BY <1>3 DEF Queues
    <2>2. /\ waiting' \in Seq(Tasks) /\ Len(waiting') = Len(waiting) + 1
          /\ \A i \in 1..Len(waiting) : waiting'[i] = waiting[i]
          /\ waiting'[Len(waiting) + 1] = t
      BY <1>2, <2>1, AppendProperties
    <2>3. \A i \in 1..Len(waiting) : waiting[i] # t
      BY <1>2, <2>1
    <2>4. ASSUME NEW i \in 1..Len(waiting'), NEW j \in 1..Len(waiting'), waiting'[i] = waiting'[j]
          PROVE  i = j
      BY <1>2, <2>2, <2>3, <2>4
    <2>5. ASSUME NEW u \in Tasks
          PROVE  tasks'[u].pc \in AtProxy <=> \E i \in 1..Len(waiting') : waiting'[i] = u
      <3>1. CASE u = t
        BY <1>1, <1>2, <1>3, <2>2, <3>1
      <3>2. CASE u # t
        <4>1. \A i \in 1..Len(waiting') : waiting'[i] = u => i \in 1..Len(waiting) /\ waiting[i] = u
          BY <1>2, <2>2, <3>2
        <4>2. \A i \in 1..Len(waiting) : i \in 1..Len(waiting') /\ waiting'[i] = waiting[i]
          BY <1>2, <2>2
        <4> QED
          BY <1>1, <1>2, <3>2, <4>1, <4>2
      <3> QED
        BY <3>1, <3>2
    <2> QED
      BY <2>2, <2>4, <2>5 DEF WaitInv
  <1>4. CASE r.pc \notin AtProxy /\ c.pc \in AtProxy
    <2>1. waiting # <<>> /\ Head(waiting) = t /\ waiting' = Tail(waiting)
      BY <1>4 DEF Queues
    <2>2. /\ waiting' \in Seq(Tasks) /\ Len(waiting) \in Nat \ {0} /\ Len(waiting') = Len(waiting) - 1
          /\ \A i \in 1..Len(waiting') : i + 1 \in 1..Len(waiting) /\ waiting'[i] = waiting[i + 1]
          /\ 1 \in 1..Len(waiting) /\ waiting[1] = t
      BY <1>2, <2>1, HeadTailProperties, EmptySeq
    <2>3. \A i \in 1..Len(waiting') : waiting'[i] # t
      BY <1>2, <2>2
    <2>4. ASSUME NEW i \in 1..Len(waiting'), NEW j \in 1..Len(waiting'), waiting'[i] = waiting'[j]
          PROVE  i = j
      <3>1. i + 1 = j + 1
        BY <1>2, <2>2, <2>4
      <3> QED
        BY <2>2, <3>1
    <2>5. ASSUME NEW u \in Tasks
          PROVE  tasks'[u].pc \in AtProxy <=> \E i \in 1..Len(waiting') : waiting'[i] = u
      <3>1. CASE u = t
        BY <1>1, <1>4, <2>3, <3>1
      <3>2. CASE u # t
        <4>1. \A i \in 1..Len(waiting) : waiting[i] = u => i - 1 \in 1..Len(waiting') /\ waiting'[i - 1] = u
          BY <1>2, <2>2, <3>2
        <4> QED
          BY <1>1, <1>2, <2>2, <3>2, <4>1
      <3> QED
        BY <3>1, <3>2
    <2> QED
      BY <2>2, <2>4, <2>5 DEF WaitInv
  <1>5. CASE r.pc \notin AtProxy /\ c.pc \notin AtProxy
    <2>1. waiting' = waiting
      BY <1>5 DEF Queues
    <2>2. \A u \in Tasks : tasks'[u].pc \in AtProxy <=> tasks[u].pc \in AtProxy
      BY <1>1, <1>5
    <2> QED
      BY <1>2, <2>1, <2>2 DEF WaitInv
  <1> QED
    BY <1>3, <1>4, <1>5

SharedInv == CountInv /\ LockInv /\ WaitInv

LEMMA SharedKeeps ==
  ASSUME Inv, SharedInv, NEW t \in Tasks, NEW r, tasks' = [tasks EXCEPT ![t] = r], Shares(t, tasks[t], r)
  PROVE  SharedInv'
  BY CountKeeps, LocksKeep, QueuesKeep DEF Shares, SharedInv

LEMMA SharedStays ==
  ASSUME SharedInv, UNCHANGED <<tasks, reloading>>, UNCHANGED Turns
  PROVE  SharedInv'
  BY DEF SharedInv, CountInv, Rebuilds, LockInv, HasLock, WaitInv, Turns

-----------------------------------------------------------------------------
(* The invariant, and what follows from it.                                *)

\* Every step of a call but the two that take a generation is one that Step allows.
LEMMA NextMakes ==
  ASSUME Inv, LockInv, NEW t \in Tasks,
         \/ KillSwitch(t) \/ ConnectOnce(t) \/ ReapplyConnection(t) \/ UserCalls(t)
         \/ InPlaceReload(t) \/ Recovery(t) \/ OnConnectionDrop(t) \/ DoDisconnect(t)
  PROVE  Connect(t) \/ Disconnect(t) \/ \E r : Makes(t, r)
  <1>1. CASE KillSwitch(t)
    BY <1>1, ArmMakes, ArmCheckMakes, ArmDeleteMakes, ArmAddMakes, ArmAddedMakes, DisarmMakes,
          DisarmingMakes
    DEF KillSwitch
  <1>2. CASE ConnectOnce(t)
    BY <1>2, PrepareMakes, StartMakes, StartingMakes, CrashedMakes, StartedMakes, ProxiedMakes,
          SwapMakes, TunnelMakes, TunnelledMakes, LanMakes, LastMakes, GiveWayMakes, GaveCoreMakes,
          GoneMakes
    DEF ConnectOnce
  <1>3. CASE ReapplyConnection(t)
    BY <1>3, ReapplyMakes, ReapplyArmedMakes, ReapplyStaleMakes, TeardownMakes, TeardownTunsMakes,
          TeardownCoreMakes, TornDownMakes, ReapplyAnsweredMakes, ReapplyFailedMakes
    DEF ReapplyConnection
  <1>4. CASE UserCalls(t)
    BY <1>4, UserConnectsMakes, UserDisconnectsMakes, UserAppliesMakes, UserRetriesMakes,
          ConnectAnsweredMakes, EndMakes
    DEF UserCalls
  <1>5. CASE InPlaceReload(t)
    BY <1>5, AsksReloadMakes, ReloadMakes, ReloadBuildMakes, ReloadCheckMakes, ReloadedMakes
    DEF InPlaceReload
  <1>6. CASE Recovery(t)
    BY <1>6, RecoverMakes, RecoverAnsweredMakes, RecoveredMakes, TriggerMakes, TimerFiresMakes
    DEF Recovery
  <1>7. CASE OnConnectionDrop(t)
    BY <1>7, DropMakes, DropArmedMakes, DropWaitMakes, DropJoinMakes, DropTakeMakes, DropProxyMakes,
          DropReportMakes
    DEF OnConnectionDrop
  <1>8. CASE DoDisconnect(t)
    BY <1>8, DisTunsMakes, DisProxyMakes, DisBlockMakes, DisCoreMakes, DisDoneMakes
    DEF DoDisconnect
  <1> QED
    BY <1>1, <1>2, <1>3, <1>4, <1>5, <1>6, <1>7, <1>8

LEMMA InitInv == Init => Inv /\ SharedInv
  <1> SUFFICES ASSUME Init PROVE Inv /\ SharedInv
    OBVIOUS
  <1>1. \A t \in Tasks : tasks[t] = Idle
    BY DEF Init
  <1>2. Formed
    BY <1>1, IdleIs DEF Init, Formed
  <1>3. CleanInv
    BY <1>1, IdleIs DEF Init, CleanInv, Placed, ReloadsLate, GivenUp, Left
  <1>4. {t \in Tasks : Rebuilds(tasks[t])} = {}
    BY <1>1, IdleIs DEF Rebuilds
  <1>5. CountInv
    BY <1>4, FS_EmptySet DEF Init, CountInv
  <1>6. LockInv
    BY <1>1, IdleIs DEF Init, LockInv, HasLock
  <1>7. WaitInv
    BY <1>1, IdleIs, EmptySeq DEF Init, WaitInv
  <1> QED
    BY <1>2, <1>3, <1>5, <1>6, <1>7 DEF Inv, SharedInv

LEMMA NextInv == Inv /\ SharedInv /\ [Next]_vars => Inv' /\ SharedInv'
  <1> SUFFICES ASSUME Inv, SharedInv, [Next]_vars PROVE Inv' /\ SharedInv'
    OBVIOUS
  <1>1. ASSUME NEW t \in Tasks, NEW r, Makes(t, r)
        PROVE  Inv' /\ SharedInv'
    BY <1>1, StepKeeps, SharedKeeps DEF Makes
  <1>2. ASSUME NEW t \in Tasks, Connect(t)
        PROVE  Inv' /\ SharedInv'
    BY <1>2, ConnectKeeps, SharedKeeps
  <1>3. ASSUME NEW t \in Tasks, Disconnect(t)
        PROVE  Inv' /\ SharedInv'
    <2>1. PICK r : /\ tasks' = [tasks EXCEPT ![t] = r] /\ Counts(tasks[t], r) /\ Queues(t, tasks[t], r)
                   /\ runs' = runs /\ recovering' = FALSE /\ \A u \in Tasks : ~HasLock(tasks[u])'
      BY <1>3, DisconnectKeeps
    <2>2. LockInv'
      BY <2>1 DEF SharedInv, LockInv
    <2> QED
      BY <1>3, <2>1, <2>2, DisconnectKeeps, CountKeeps, QueuesKeep DEF SharedInv
  <1>4. CASE CoreExits
    BY <1>1, <1>4, CoreExitsMakes, SharedStays
  <1>5. CASE TunnelExits
    BY <1>1, <1>5, TunnelExitsMakes, SharedStays
  <1>6. CASE UNCHANGED vars
    <2>1. /\ UNCHANGED <<tasks, reloading>> /\ UNCHANGED Turns
          /\ UNCHANGED <<gen, dgen, active, userDisc, watcher, proxy, proc, alive, killed, made, astray,
                  up, rule>>
      BY <1>6 DEF vars, ctl, conn, sysproxy, core, started, tunnel, block, recovery, Turns
    <2>2. Exits
      BY <2>1 DEF Exits, Left
    <2> QED
      BY <2>1, <2>2, ExitKeeps, SharedStays
  <1>7. CASE Next
    BY <1>1, <1>2, <1>3, <1>4, <1>5, <1>6, <1>7, NextMakes DEF Next, Rest, SharedInv
  <1> QED
    BY <1>6, <1>7

\* The invariant: what a disconnect left behind is for some call in flight to take
\* away, and what the calls share is held by calls in flight only.
THEOREM Inductive == Spec => [](Inv /\ SharedInv)
  BY InitInv, NextInv, PTL DEF Spec

LEMMA AtRestIs ==
  ASSUME Inv, AtRest
  PROVE  \A t \in Tasks : tasks[t].pc = "idle" /\ tasks[t].run = 0
  <1>1. \A t \in Tasks : tasks[t].pc = "idle" /\ Placed(tasks[t])
    BY DEF AtRest, Free, Inv, CleanInv
  <1> QED
    BY <1>1 DEF Placed

\* A disconnect that nothing followed has left the machine clean, however the calls
\* that it overtook ended: doDisconnect, and the checks of connGen after every await.
THEOREM Clean == Spec => []DisconnectedIsClean
  <1>1. Inv => DisconnectedIsClean
    <2> SUFFICES ASSUME Inv, AtRest, gen = dgen
                 PROVE  /\ ~active /\ {proc} \cap alive \subseteq killed \cup astray
                        /\ up = {} /\ ~proxy /\ ~rule /\ ~watcher
      BY DEF DisconnectedIsClean
    <2>1. \A t \in Tasks : /\ ~Leaving(tasks[t]) /\ ~Unblocks(tasks[t]) /\ ~Unproxies(tasks[t])
                           /\ ~Stills(tasks[t], proc) /\ \A n : ~Untunnels(tasks[t], n)
      BY AtRestIs DEF Leaving, ForCore, Unblocks, Unproxies, Stills, Untunnels
    <2>2. ~userDisc /\ ~active
      BY <2>1 DEF Inv, CleanInv, GivenUp
    <2> QED
      BY <2>1, <2>2 DEF Inv, CleanInv, Left
  <1> QED
    BY <1>1, Inductive, PTL

\* What holds others off outlives no call: neither xrayReloading nor
\* userDisconnecting, which hide the next drop, nor the lock of the recovery, whose
\* owner may have been overtaken by a disconnect, nor a turn with the system proxy.
THEOREM Held == Spec => []NothingHeld
  <1>1. Inv /\ SharedInv => NothingHeld
    <2> SUFFICES ASSUME Inv, SharedInv, AtRest
                 PROVE  reloading = 0 /\ ~userDisc /\ ~recovering /\ waiting = <<>>
      BY DEF NothingHeld
    <2>1. \A t \in Tasks : /\ ~Leaving(tasks[t]) /\ ~Rebuilds(tasks[t]) /\ ~HasLock(tasks[t])
                           /\ tasks[t].pc \notin AtProxy
      BY AtRestIs DEF Leaving, ForCore, Rebuilds, HasLock
    <2>2. {t \in Tasks : Rebuilds(tasks[t])} = {}
      BY <2>1
    <2>3. reloading = 0
      BY <2>2, FS_EmptySet DEF SharedInv, CountInv
    <2>4. ~userDisc /\ ~recovering
      BY <2>1 DEF Inv, CleanInv, SharedInv, LockInv
    <2>5. waiting = <<>>
      <3>1. waiting \in Seq(Tasks) /\ \A i \in 1..Len(waiting) : waiting[i] \in Tasks
        BY LenProperties, ElementOfSeq DEF SharedInv, WaitInv
      <3>2. 1 \notin 1..Len(waiting)
        BY <2>1, <3>1 DEF SharedInv, WaitInv
      <3> QED
        BY <3>1, <3>2, EmptySeq
    <2> QED
      BY <2>3, <2>4, <2>5
  <1> QED
    BY <1>1, Inductive, PTL

-----------------------------------------------------------------------------
(* What is overtaken notices: TurnInv, and the steps of DisconnectPrevails.   *)

\* A step of t that takes no generation: t goes on where what it minds lets it, and,
\* left behind by a disconnect, only reports its failure.
Becomes(t, r) == tasks' = [tasks EXCEPT ![t] = r]
Aside(t) ==
  /\ turn \in {t, NoTask} /\ UNCHANGED <<gen, rgen>>
  /\ Abandoned(t) /\ ~Reports(t) => status' = status /\ timer' \in {timer, NoRetry}
Heeds(t) ==
  /\ Aside(t)
  /\ \A u \in Tasks : u # t => tasks'[u] = tasks[u]
  /\ Minds(tasks'[t]) /\ (tasks'[t].pc \in AtOnce => turn' = t)

\* What is known of a call before its step.
Known(t) ==
  /\ DOMAIN tasks = Tasks /\ DOMAIN tasks[t] = Names /\ gen \in Nat /\ dgen \in 0..gen
  /\ Placed(tasks[t]) /\ Minds(tasks[t]) /\ (tasks[t].pc \in AtOnce => turn = t)

LEMMA KnownIs ==
  ASSUME Inv, TurnInv, NEW t \in Tasks
  PROVE  Known(t)
  BY DEF Inv, Formed, CleanInv, TurnInv, Known

\* Where a call speaks up it was not left behind.
LEMMA SpeaksNewest ==
  ASSUME NEW t \in Tasks, Known(t),
         \/ tasks[t].pc \in {"recover", "teardown", "disDone"}
         \/ tasks[t].pc = "answer" /\ tasks[t].op = "retry"
         \/ tasks[t].pc \in {"dropReport", "dropProxied"} /\ tasks[t].at = gen
  PROVE  ~Abandoned(t)
  <1> DEFINE c == tasks[t]
  <1>1. c.my = None
    BY DEF Known, Minds, Connecting, InStart, InConnect, Arming, Lifting
  <1>2. c.at \in {None, gen}
    BY DEF Known, Minds, Leaving
  <1>3. c.run = 0 \/ c.rg = rgen
    BY DEF Known, Minds, Placed, Leaving, InRecovery, InReapply, InStart, InConnect, Arming, Lifting
  <1> QED
    BY <1>1, <1>2, <1>3 DEF Known, Abandoned, Behind, None

\* The kill switch.
LEMMA ArmHeeds ==
  ASSUME Inv, TurnInv, NEW t \in Tasks, Arm(t)
  PROVE  Heeds(t)
  <1>1. Known(t)
    BY KnownIs
  <1>2. tasks[t].pc = "arm" /\ Aside(t)
    BY DEF Arm, Aside, At, Quiet, Awaits, conn, recovery, ArmRest
  <1>3. \/ Becomes(t, To(t, "armCheck"))
        \/ Becomes(t, To(t, "armDelete"))
    BY DEF Arm, Becomes, Awaits
  <1>4. CASE Becomes(t, To(t, "armCheck"))
    BY <1>1, <1>2, <1>4, NamesAre DEF Heeds, Becomes, To, Known, Minds, Connecting, Dropping,
          Leaving, ForCore, InDisconnect, Arming, Lifting, InRecovery, InReapply, InStart,
          InConnect, AtOnce, Placed, Aside
  <1>5. CASE Becomes(t, To(t, "armDelete"))
    BY <1>1, <1>2, <1>5, NamesAre DEF Heeds, Becomes, To, Known, Minds, Connecting, Dropping,
          Leaving, ForCore, InDisconnect, Arming, Lifting, InRecovery, InReapply, InStart,
          InConnect, AtOnce, Placed, Aside
  <1> QED
    BY <1>3, <1>4, <1>5

LEMMA ArmCheckHeeds ==
  ASSUME Inv, TurnInv, NEW t \in Tasks, ArmCheck(t)
  PROVE  Heeds(t)
  <1>1. Known(t)
    BY KnownIs
  <1>2. tasks[t].pc = "armCheck" /\ Aside(t)
    BY DEF ArmCheck, Aside, At, Quiet, Goes, Awaits, conn, recovery, ArmRest
  <1>3. \/ Becomes(t, [Then(t) EXCEPT !.got = "held"])
        \/ Becomes(t, To(t, "armDelete"))
    BY DEF ArmCheck, Becomes, Goes, Awaits
  <1>4. CASE Becomes(t, [Then(t) EXCEPT !.got = "held"])
    BY <1>1, <1>2, <1>4, NamesAre DEF Heeds, Becomes, To, Then, Known, Minds, Connecting, Dropping,
          Leaving, ForCore, InDisconnect, Arming, Lifting, InRecovery, InReapply, InStart,
          InConnect, AtOnce, Placed, Aside
  <1>5. CASE Becomes(t, To(t, "armDelete"))
    BY <1>1, <1>2, <1>5, NamesAre DEF Heeds, Becomes, To, Known, Minds, Connecting, Dropping,
          Leaving, ForCore, InDisconnect, Arming, Lifting, InRecovery, InReapply, InStart,
          InConnect, AtOnce, Placed, Aside
  <1> QED
    BY <1>3, <1>4, <1>5

LEMMA ArmDeleteHeeds ==
  ASSUME Inv, TurnInv, NEW t \in Tasks, ArmDelete(t)
  PROVE  Heeds(t)
  <1>1. Known(t)
    BY KnownIs
  <1>2. tasks[t].pc = "armDelete" /\ Aside(t)
    BY DEF ArmDelete, Aside, At, Quiet, Awaits, conn, recovery, ArmRest
  <1>3. Becomes(t, To(t, "armAdd"))
    BY DEF ArmDelete, Becomes, Awaits
  <1> QED
    BY <1>1, <1>2, <1>3, NamesAre DEF Heeds, Becomes, To, Known, Minds, Connecting, Dropping,
          Leaving, ForCore, InDisconnect, Arming, Lifting, InRecovery, InReapply, InStart,
          InConnect, AtOnce, Placed, Aside

LEMMA ArmAddHeeds ==
  ASSUME Inv, TurnInv, NEW t \in Tasks, ArmAdd(t)
  PROVE  Heeds(t)
  <1>1. Known(t)
    BY KnownIs
  <1>2. tasks[t].pc = "armAdd" /\ Aside(t)
    BY DEF ArmAdd, Aside, At, Quiet, Goes, Awaits, conn, recovery, ArmRest
  <1>3. \/ Becomes(t, To(t, "armAdded"))
        \/ Becomes(t, [Then(t) EXCEPT !.got = "no"])
    BY DEF ArmAdd, Becomes, Goes, Awaits
  <1>4. CASE Becomes(t, To(t, "armAdded"))
    BY <1>1, <1>2, <1>4, NamesAre DEF Heeds, Becomes, To, Known, Minds, Connecting, Dropping,
          Leaving, ForCore, InDisconnect, Arming, Lifting, InRecovery, InReapply, InStart,
          InConnect, AtOnce, Placed, Aside
  <1>5. CASE Becomes(t, [Then(t) EXCEPT !.got = "no"])
    BY <1>1, <1>2, <1>5, NamesAre DEF Heeds, Becomes, To, Then, Known, Minds, Connecting, Dropping,
          Leaving, ForCore, InDisconnect, Arming, Lifting, InRecovery, InReapply, InStart,
          InConnect, AtOnce, Placed, Aside
  <1> QED
    BY <1>3, <1>4, <1>5

LEMMA ArmAddedHeeds ==
  ASSUME Inv, TurnInv, NEW t \in Tasks, ArmAdded(t)
  PROVE  Heeds(t)
  <1>1. Known(t)
    BY KnownIs
  <1>2. tasks[t].pc = "armAdded" /\ Aside(t)
    BY DEF ArmAdded, Aside, At, Quiet, Goes, conn, recovery, ArmRest
  <1>3. Becomes(t, [Then(t) EXCEPT !.got = "added"])
    BY DEF ArmAdded, Becomes, Goes
  <1> QED
    BY <1>1, <1>2, <1>3, NamesAre DEF Heeds, Becomes, To, Then, Known, Minds, Connecting, Dropping,
          Leaving, ForCore, InDisconnect, Arming, Lifting, InRecovery, InReapply, InStart,
          InConnect, AtOnce, Placed, Aside

LEMMA DisarmHeeds ==
  ASSUME Inv, TurnInv, NEW t \in Tasks, Disarm(t)
  PROVE  Heeds(t)
  <1>1. Known(t)
    BY KnownIs
  <1>2. tasks[t].pc = "disarm" /\ Aside(t)
    BY DEF Disarm, Aside, At, Quiet, Awaits, conn, recovery, ArmRest
  <1>3. Becomes(t, To(t, "disarming"))
    BY DEF Disarm, Becomes, Awaits
  <1> QED
    BY <1>1, <1>2, <1>3, NamesAre DEF Heeds, Becomes, To, Known, Minds, Connecting, Dropping,
          Leaving, ForCore, InDisconnect, Arming, Lifting, InRecovery, InReapply, InStart,
          InConnect, AtOnce, Placed, Aside

LEMMA DisarmingHeeds ==
  ASSUME Inv, TurnInv, NEW t \in Tasks, Disarming(t)
  PROVE  Heeds(t)
  <1>1. Known(t)
    BY KnownIs
  <1>2. tasks[t].pc = "disarming" /\ Aside(t)
    BY DEF Disarming, Aside, At, Quiet, Goes, conn, recovery, ArmRest
  <1>3. Becomes(t, Then(t))
    BY DEF Disarming, Becomes, Goes
  <1> QED
    BY <1>1, <1>2, <1>3, NamesAre DEF Heeds, Becomes, To, Then, Known, Minds, Connecting, Dropping,
          Leaving, ForCore, InDisconnect, Arming, Lifting, InRecovery, InReapply, InStart,
          InConnect, AtOnce, Placed, Aside

\* connectOnce.
LEMMA PrepareHeeds ==
  ASSUME Inv, TurnInv, NEW t \in Tasks, Prepare(t)
  PROVE  Heeds(t)
  <1>1. Known(t)
    BY KnownIs
  <1>2. tasks[t].pc = "prepare" /\ Aside(t)
    BY <1>1 DEF Prepare, Aside, At, Quiet, Goes, conn, recovery, Known, Abandoned, Behind, Reports,
          Placed, Minds, Leaving, ForCore, CleanInv, Inv, InRecovery, InReapply, InStart, InConnect,
          GivenUp, Stale, Connecting, Dropping, AtOnce, Arming, Lifting, InDisconnect
  <1>3. \/ Becomes(t, Answer(t, "stale"))
        \/ Becomes(t, Answer(t, "failed"))
        \/ Becomes(t, [To(t, "start") EXCEPT !.tn = tun'])
    BY DEF Prepare, Becomes, Goes
  <1>4. CASE Becomes(t, Answer(t, "stale"))
    BY <1>1, <1>2, <1>4, NamesAre DEF Heeds, Becomes, Answer, Known, Minds, Connecting, Dropping,
          Leaving, ForCore, InDisconnect, Arming, Lifting, InRecovery, InReapply, InStart,
          InConnect, AtOnce, Placed, Aside
  <1>5. CASE Becomes(t, Answer(t, "failed"))
    BY <1>1, <1>2, <1>5, NamesAre DEF Heeds, Becomes, Answer, Known, Minds, Connecting, Dropping,
          Leaving, ForCore, InDisconnect, Arming, Lifting, InRecovery, InReapply, InStart,
          InConnect, AtOnce, Placed, Aside
  <1>6. CASE Becomes(t, [To(t, "start") EXCEPT !.tn = tun'])
    BY <1>1, <1>2, <1>6, NamesAre DEF Heeds, Becomes, To, Known, Minds, Connecting, Dropping,
          Leaving, ForCore, InDisconnect, Arming, Lifting, InRecovery, InReapply, InStart,
          InConnect, AtOnce, Placed, Aside
  <1> QED
    BY <1>3, <1>4, <1>5, <1>6

LEMMA StartHeeds ==
  ASSUME Inv, TurnInv, NEW t \in Tasks, Start(t)
  PROVE  Heeds(t)
  <1>1. Known(t)
    BY KnownIs
  <1>2. tasks[t].pc = "start" /\ Aside(t)
    BY DEF Start, Aside, At, Quiet, Awaits, Spawn, StopsCore, conn, recovery, StartRest
  <1>3. \/ Becomes(t, [To(t, "starting") EXCEPT !.on = proc])
        \/ Becomes(t, [To(t, "grace") EXCEPT !.on = made'])
    BY DEF Start, Becomes, Awaits, Spawn, StopsCore
  <1>4. CASE Becomes(t, [To(t, "starting") EXCEPT !.on = proc])
    BY <1>1, <1>2, <1>4, NamesAre DEF Heeds, Becomes, To, Known, Minds, Connecting, Dropping,
          Leaving, ForCore, InDisconnect, Arming, Lifting, InRecovery, InReapply, InStart,
          InConnect, AtOnce, Placed, Aside
  <1>5. CASE Becomes(t, [To(t, "grace") EXCEPT !.on = made'])
    BY <1>1, <1>2, <1>5, NamesAre DEF Heeds, Becomes, To, Known, Minds, Connecting, Dropping,
          Leaving, ForCore, InDisconnect, Arming, Lifting, InRecovery, InReapply, InStart,
          InConnect, AtOnce, Placed, Aside
  <1> QED
    BY <1>3, <1>4, <1>5

LEMMA StartingHeeds ==
  ASSUME Inv, TurnInv, NEW t \in Tasks, Starting(t)
  PROVE  Heeds(t)
  <1>1. Known(t)
    BY KnownIs
  <1>2. tasks[t].pc = "starting" /\ Aside(t)
    BY DEF Starting, Aside, At, Quiet, Awaits, Spawn, conn, recovery, StartRest
  <1>3. Becomes(t, [To(t, "grace") EXCEPT !.on = made'])
    BY DEF Starting, Becomes, Awaits, Spawn
  <1> QED
    BY <1>1, <1>2, <1>3, NamesAre DEF Heeds, Becomes, To, Known, Minds, Connecting, Dropping,
          Leaving, ForCore, InDisconnect, Arming, Lifting, InRecovery, InReapply, InStart,
          InConnect, AtOnce, Placed, Aside

LEMMA CrashedHeeds ==
  ASSUME Inv, TurnInv, NEW t \in Tasks, Crashed(t)
  PROVE  Heeds(t)
  <1>1. Known(t)
    BY KnownIs
  <1>2. tasks[t].pc = "grace" /\ tasks[t].my # None /\ Aside(t)
    BY DEF Crashed, Aside, At, Quiet, Goes, conn, recovery
  <1>3. Becomes(t, Answer(t, Overtaken(t)))
    BY DEF Crashed, Becomes, Goes
  <1> QED
    BY <1>1, <1>2, <1>3, NamesAre DEF Heeds, Becomes, Answer, Known, Minds, Connecting, Dropping,
          Leaving, ForCore, InDisconnect, Arming, Lifting, InRecovery, InReapply, InStart,
          InConnect, AtOnce, Placed, Aside

LEMMA StartedHeeds ==
  ASSUME Inv, TurnInv, NEW t \in Tasks, Started(t)
  PROVE  Heeds(t)
  <1>1. Known(t)
    BY KnownIs
  <1>2. tasks[t].pc = "grace" /\ tasks[t].my # None /\ Aside(t)
    BY DEF Started, Aside, At, Quiet, Goes, Awaits, AwaitsProxy, recovery
  <1>3. \/ Becomes(t, [tasks[t] EXCEPT !.own = IF proc = tasks[t].on THEN proc ELSE None, !.on = 0,
                !.pc = "giveWay"])
        \/ Becomes(t, [tasks[t] EXCEPT !.own = IF proc = tasks[t].on THEN proc ELSE None, !.on = 0,
                !.pc = "proxied"])
    BY DEF Started, Becomes, Goes, Awaits, AwaitsProxy
  <1>4. CASE Becomes(t, [tasks[t] EXCEPT !.own = IF proc = tasks[t].on THEN proc ELSE None, !.on = 0,
             !.pc = "giveWay"])
    BY <1>1, <1>2, <1>4, NamesAre DEF Heeds, Becomes, Known, Minds, Connecting, Dropping, Leaving,
          ForCore, InDisconnect, Arming, Lifting, InRecovery, InReapply, InStart, InConnect, AtOnce,
          Placed, Aside
  <1>5. CASE Becomes(t, [tasks[t] EXCEPT !.own = IF proc = tasks[t].on THEN proc ELSE None, !.on = 0,
             !.pc = "proxied"])
    BY <1>1, <1>2, <1>5, NamesAre DEF Heeds, Becomes, Known, Minds, Connecting, Dropping, Leaving,
          ForCore, InDisconnect, Arming, Lifting, InRecovery, InReapply, InStart, InConnect, AtOnce,
          Placed, Aside
  <1> QED
    BY <1>3, <1>4, <1>5

LEMMA ProxiedHeeds ==
  ASSUME Inv, TurnInv, NEW t \in Tasks, Proxied(t)
  PROVE  Heeds(t)
  <1>1. Known(t)
    BY KnownIs
  <1>2. tasks[t].pc = "proxied" /\ Aside(t)
    BY DEF Proxied, Aside, At, Quiet, Goes, Awaits, conn, recovery
  <1>3. \/ Becomes(t, To(t, "giveWay"))
        \/ Becomes(t, To(t, "lan"))
        \/ Becomes(t, To(t, "tunnel"))
        \/ Becomes(t, [To(t, "arm") EXCEPT !.next = "swap"])
        \/ Becomes(t, To(t, "swap"))
    BY DEF Proxied, Becomes, Goes, Awaits
  <1>4. CASE Becomes(t, To(t, "giveWay"))
    BY <1>1, <1>2, <1>4, NamesAre DEF Heeds, Becomes, To, Known, Minds, Connecting, Dropping,
          Leaving, ForCore, InDisconnect, Arming, Lifting, InRecovery, InReapply, InStart,
          InConnect, AtOnce, Placed, Aside
  <1>5. CASE Becomes(t, To(t, "lan"))
    BY <1>1, <1>2, <1>5, NamesAre DEF Heeds, Becomes, To, Known, Minds, Connecting, Dropping,
          Leaving, ForCore, InDisconnect, Arming, Lifting, InRecovery, InReapply, InStart,
          InConnect, AtOnce, Placed, Aside
  <1>6. CASE Becomes(t, To(t, "tunnel"))
    BY <1>1, <1>2, <1>6, NamesAre DEF Heeds, Becomes, To, Known, Minds, Connecting, Dropping,
          Leaving, ForCore, InDisconnect, Arming, Lifting, InRecovery, InReapply, InStart,
          InConnect, AtOnce, Placed, Aside
  <1>7. CASE Becomes(t, [To(t, "arm") EXCEPT !.next = "swap"])
    BY <1>1, <1>2, <1>7, NamesAre DEF Heeds, Becomes, To, Known, Minds, Connecting, Dropping,
          Leaving, ForCore, InDisconnect, Arming, Lifting, InRecovery, InReapply, InStart,
          InConnect, AtOnce, Placed, Aside
  <1>8. CASE Becomes(t, To(t, "swap"))
    BY <1>1, <1>2, <1>8, NamesAre DEF Heeds, Becomes, To, Known, Minds, Connecting, Dropping,
          Leaving, ForCore, InDisconnect, Arming, Lifting, InRecovery, InReapply, InStart,
          InConnect, AtOnce, Placed, Aside
  <1> QED
    BY <1>3, <1>4, <1>5, <1>6, <1>7, <1>8

LEMMA SwapHeeds ==
  ASSUME Inv, TurnInv, NEW t \in Tasks, Swap(t)
  PROVE  Heeds(t)
  <1>1. Known(t)
    BY KnownIs
  <1>2. tasks[t].pc = "swap" /\ Aside(t)
    BY DEF Swap, Aside, At, Quiet, Awaits, conn, recovery, ConnectRest
  <1>3. Becomes(t, [To(t, "tunnel") EXCEPT !.sw = (@ \/ tasks[t].got = "added"), !.got = "no"])
    BY DEF Swap, Becomes, Awaits
  <1> QED
    BY <1>1, <1>2, <1>3, NamesAre DEF Heeds, Becomes, To, Known, Minds, Connecting, Dropping,
          Leaving, ForCore, InDisconnect, Arming, Lifting, InRecovery, InReapply, InStart,
          InConnect, AtOnce, Placed, Aside

LEMMA TunnelHeeds ==
  ASSUME Inv, TurnInv, NEW t \in Tasks, Tunnel(t)
  PROVE  Heeds(t)
  <1>1. Known(t)
    BY KnownIs
  <1>2. tasks[t].pc = "tunnel" /\ Aside(t)
    BY DEF Tunnel, Aside, At, Quiet, Awaits, conn, recovery, ConnectRest
  <1>3. \/ Becomes(t, To(t, "tunnelled"))
        \/ Becomes(t, [To(t, "tunnelled") EXCEPT !.terr = TRUE])
    BY DEF Tunnel, Becomes, Awaits
  <1>4. CASE Becomes(t, To(t, "tunnelled"))
    BY <1>1, <1>2, <1>4, NamesAre DEF Heeds, Becomes, To, Known, Minds, Connecting, Dropping,
          Leaving, ForCore, InDisconnect, Arming, Lifting, InRecovery, InReapply, InStart,
          InConnect, AtOnce, Placed, Aside
  <1>5. CASE Becomes(t, [To(t, "tunnelled") EXCEPT !.terr = TRUE])
    BY <1>1, <1>2, <1>5, NamesAre DEF Heeds, Becomes, To, Known, Minds, Connecting, Dropping,
          Leaving, ForCore, InDisconnect, Arming, Lifting, InRecovery, InReapply, InStart,
          InConnect, AtOnce, Placed, Aside
  <1> QED
    BY <1>3, <1>4, <1>5

LEMMA TunnelledHeeds ==
  ASSUME Inv, TurnInv, NEW t \in Tasks, Tunnelled(t)
  PROVE  Heeds(t)
  <1>1. Known(t)
    BY KnownIs
  <1>2. tasks[t].pc = "tunnelled" /\ Aside(t)
    BY DEF Tunnelled, Aside, At, Quiet, Awaits, conn, recovery, ConnectRest
  <1>3. \/ Becomes(t, To(t, "giveWay"))
        \/ Becomes(t, To(t, "lan"))
    BY DEF Tunnelled, Becomes, Awaits
  <1>4. CASE Becomes(t, To(t, "giveWay"))
    BY <1>1, <1>2, <1>4, NamesAre DEF Heeds, Becomes, To, Known, Minds, Connecting, Dropping,
          Leaving, ForCore, InDisconnect, Arming, Lifting, InRecovery, InReapply, InStart,
          InConnect, AtOnce, Placed, Aside
  <1>5. CASE Becomes(t, To(t, "lan"))
    BY <1>1, <1>2, <1>5, NamesAre DEF Heeds, Becomes, To, Known, Minds, Connecting, Dropping,
          Leaving, ForCore, InDisconnect, Arming, Lifting, InRecovery, InReapply, InStart,
          InConnect, AtOnce, Placed, Aside
  <1> QED
    BY <1>3, <1>4, <1>5

LEMMA LanHeeds ==
  ASSUME Inv, TurnInv, NEW t \in Tasks, Lan(t)
  PROVE  Heeds(t)
  <1>1. Known(t)
    BY KnownIs
  <1>2. tasks[t].pc = "lan" /\ Aside(t)
    BY DEF Lan, Aside, At, Quiet, Goes, conn, recovery, ConnectRest
  <1>3. \/ Becomes(t, [To(t, "disarm") EXCEPT !.next = "last"])
        \/ Becomes(t, To(t, "last"))
    BY DEF Lan, Becomes, Goes
  <1>4. CASE Becomes(t, [To(t, "disarm") EXCEPT !.next = "last"])
    BY <1>1, <1>2, <1>4, NamesAre DEF Heeds, Becomes, To, Known, Minds, Connecting, Dropping,
          Leaving, ForCore, InDisconnect, Arming, Lifting, InRecovery, InReapply, InStart,
          InConnect, AtOnce, Placed, Aside
  <1>5. CASE Becomes(t, To(t, "last"))
    BY <1>1, <1>2, <1>5, NamesAre DEF Heeds, Becomes, To, Known, Minds, Connecting, Dropping,
          Leaving, ForCore, InDisconnect, Arming, Lifting, InRecovery, InReapply, InStart,
          InConnect, AtOnce, Placed, Aside
  <1> QED
    BY <1>3, <1>4, <1>5

LEMMA LastHeeds ==
  ASSUME Inv, TurnInv, NEW t \in Tasks, Last(t)
  PROVE  Heeds(t)
  <1>1. Known(t)
    BY KnownIs
  <1>2. tasks[t].pc = "last" /\ Aside(t)
    BY <1>1 DEF Last, Aside, At, Quiet, Goes, Known, Abandoned, Behind, Reports, Placed, Minds,
          Leaving, ForCore, CleanInv, Inv, InRecovery, InReapply, InStart, InConnect, GivenUp,
          Stale, Connecting, Dropping, AtOnce, Arming, Lifting, InDisconnect
  <1>3. \/ Becomes(t, To(t, "giveWay"))
        \/ Becomes(t, Answer(t, "failed"))
        \/ Becomes(t, Answer(t, IF tasks[t].terr THEN "tunless" ELSE "ok"))
    BY DEF Last, Becomes, Goes
  <1>4. CASE Becomes(t, To(t, "giveWay"))
    BY <1>1, <1>2, <1>4, NamesAre DEF Heeds, Becomes, To, Known, Minds, Connecting, Dropping,
          Leaving, ForCore, InDisconnect, Arming, Lifting, InRecovery, InReapply, InStart,
          InConnect, AtOnce, Placed, Aside
  <1>5. CASE Becomes(t, Answer(t, "failed"))
    BY <1>1, <1>2, <1>5, NamesAre DEF Heeds, Becomes, Answer, Known, Minds, Connecting, Dropping,
          Leaving, ForCore, InDisconnect, Arming, Lifting, InRecovery, InReapply, InStart,
          InConnect, AtOnce, Placed, Aside
  <1>6. CASE Becomes(t, Answer(t, IF tasks[t].terr THEN "tunless" ELSE "ok"))
    BY <1>1, <1>2, <1>6, NamesAre DEF Heeds, Becomes, Answer, Known, Minds, Connecting, Dropping,
          Leaving, ForCore, InDisconnect, Arming, Lifting, InRecovery, InReapply, InStart,
          InConnect, AtOnce, Placed, Aside
  <1> QED
    BY <1>3, <1>4, <1>5, <1>6

LEMMA GiveWayHeeds ==
  ASSUME Inv, TurnInv, NEW t \in Tasks, GiveWay(t)
  PROVE  Heeds(t)
  <1>1. Known(t)
    BY KnownIs
  <1>2. tasks[t].pc = "giveWay" /\ Aside(t)
    BY DEF GiveWay, Aside, At, Quiet, Goes, Awaits, StopsCore, conn, recovery
  <1>3. \/ Becomes(t, [To(t, "gaveCore") EXCEPT !.on = proc])
        \/ Becomes(t, [To(t, "disarm") EXCEPT !.next = "gone"])
        \/ Becomes(t, To(t, "gone"))
    BY DEF GiveWay, Becomes, Goes, Awaits, StopsCore
  <1>4. CASE Becomes(t, [To(t, "gaveCore") EXCEPT !.on = proc])
    BY <1>1, <1>2, <1>4, NamesAre DEF Heeds, Becomes, To, Known, Minds, Connecting, Dropping,
          Leaving, ForCore, InDisconnect, Arming, Lifting, InRecovery, InReapply, InStart,
          InConnect, AtOnce, Placed, Aside
  <1>5. CASE Becomes(t, [To(t, "disarm") EXCEPT !.next = "gone"])
    BY <1>1, <1>2, <1>5, NamesAre DEF Heeds, Becomes, To, Known, Minds, Connecting, Dropping,
          Leaving, ForCore, InDisconnect, Arming, Lifting, InRecovery, InReapply, InStart,
          InConnect, AtOnce, Placed, Aside
  <1>6. CASE Becomes(t, To(t, "gone"))
    BY <1>1, <1>2, <1>6, NamesAre DEF Heeds, Becomes, To, Known, Minds, Connecting, Dropping,
          Leaving, ForCore, InDisconnect, Arming, Lifting, InRecovery, InReapply, InStart,
          InConnect, AtOnce, Placed, Aside
  <1> QED
    BY <1>3, <1>4, <1>5, <1>6

LEMMA GaveCoreHeeds ==
  ASSUME Inv, TurnInv, NEW t \in Tasks, GaveCore(t)
  PROVE  Heeds(t)
  <1>1. Known(t)
    BY KnownIs
  <1>2. tasks[t].pc = "gaveCore" /\ Aside(t)
    BY DEF GaveCore, Aside, At, Quiet, Goes, conn, recovery
  <1>3. \/ Becomes(t, [To(t, "disarm") EXCEPT !.next = "gone"])
        \/ Becomes(t, To(t, "gone"))
    BY DEF GaveCore, Becomes, Goes
  <1>4. CASE Becomes(t, [To(t, "disarm") EXCEPT !.next = "gone"])
    BY <1>1, <1>2, <1>4, NamesAre DEF Heeds, Becomes, To, Known, Minds, Connecting, Dropping,
          Leaving, ForCore, InDisconnect, Arming, Lifting, InRecovery, InReapply, InStart,
          InConnect, AtOnce, Placed, Aside
  <1>5. CASE Becomes(t, To(t, "gone"))
    BY <1>1, <1>2, <1>5, NamesAre DEF Heeds, Becomes, To, Known, Minds, Connecting, Dropping,
          Leaving, ForCore, InDisconnect, Arming, Lifting, InRecovery, InReapply, InStart,
          InConnect, AtOnce, Placed, Aside
  <1> QED
    BY <1>3, <1>4, <1>5

LEMMA GoneHeeds ==
  ASSUME Inv, TurnInv, NEW t \in Tasks, Gone(t)
  PROVE  Heeds(t)
  <1>1. Known(t)
    BY KnownIs
  <1>2. tasks[t].pc = "gone" /\ Aside(t)
    BY DEF Gone, Aside, At, Quiet, Goes, conn, recovery, ConnectRest
  <1>3. Becomes(t, Answer(t, "stale"))
    BY DEF Gone, Becomes, Goes
  <1> QED
    BY <1>1, <1>2, <1>3, NamesAre DEF Heeds, Becomes, Answer, Known, Minds, Connecting, Dropping,
          Leaving, ForCore, InDisconnect, Arming, Lifting, InRecovery, InReapply, InStart,
          InConnect, AtOnce, Placed, Aside

\* reapplyConnection.
LEMMA ReapplyHeeds ==
  ASSUME Inv, TurnInv, NEW t \in Tasks, Reapply(t)
  PROVE  Heeds(t)
  <1>1. Known(t)
    BY KnownIs
  <1>2. tasks[t].pc = "reapply" /\ Aside(t)
    BY DEF Reapply, Aside, At, Quiet, Goes, conn, recovery, ConnectRest
  <1>3. \/ Becomes(t, Return(t, "failed"))
        \/ Becomes(t, [To(t, "arm") EXCEPT !.at = gen, !.next = "reapplyArmed"])
        \/ Becomes(t, [To(t, "teardown") EXCEPT !.at = gen]) /\ turn' = t
    BY DEF Reapply, Becomes, Goes
  <1>4. CASE Becomes(t, Return(t, "failed"))
    BY <1>1, <1>2, <1>4, NamesAre DEF Heeds, Becomes, To, Return, Known, Minds, Connecting,
          Dropping, Leaving, ForCore, InDisconnect, Arming, Lifting, InRecovery, InReapply, InStart,
          InConnect, AtOnce, Placed, Aside
  <1>5. CASE Becomes(t, [To(t, "arm") EXCEPT !.at = gen, !.next = "reapplyArmed"])
    BY <1>1, <1>2, <1>5, NamesAre DEF Heeds, Becomes, To, Known, Minds, Connecting, Dropping,
          Leaving, ForCore, InDisconnect, Arming, Lifting, InRecovery, InReapply, InStart,
          InConnect, AtOnce, Placed, Aside
  <1>6. CASE Becomes(t, [To(t, "teardown") EXCEPT !.at = gen]) /\ turn' = t
    BY <1>1, <1>2, <1>6, NamesAre DEF Heeds, Becomes, To, Known, Minds, Connecting, Dropping,
          Leaving, ForCore, InDisconnect, Arming, Lifting, InRecovery, InReapply, InStart,
          InConnect, AtOnce, Placed, Aside
  <1> QED
    BY <1>3, <1>4, <1>5, <1>6

LEMMA ReapplyArmedHeeds ==
  ASSUME Inv, TurnInv, NEW t \in Tasks, ReapplyArmed(t)
  PROVE  Heeds(t)
  <1>1. Known(t)
    BY KnownIs
  <1>2. tasks[t].pc = "reapplyArmed" /\ Aside(t)
    BY DEF ReapplyArmed, Aside, At, Quiet, Goes, conn, recovery, ConnectRest
  <1>3. \/ Becomes(t, [tasks[t] EXCEPT !.armed = @ \/ tasks[t].got # "no", !.got = "no",
                !.pc = "teardown"]) /\ turn' = t /\ tasks[t].at = gen
        \/ Becomes(t, [tasks[t] EXCEPT !.armed = @ \/ tasks[t].got # "no", !.got = "no",
                !.pc = "disarm", !.next = "reapplyStale"])
        \/ Becomes(t, [tasks[t] EXCEPT !.armed = @ \/ tasks[t].got # "no", !.got = "no",
                !.pc = "reapplyStale"])
    BY DEF ReapplyArmed, Becomes, Goes
  <1>4. CASE Becomes(t, [tasks[t] EXCEPT !.armed = @ \/ tasks[t].got # "no", !.got = "no",
             !.pc = "teardown"]) /\ turn' = t /\ tasks[t].at = gen
    BY <1>1, <1>2, <1>4, NamesAre DEF Heeds, Becomes, Known, Minds, Connecting, Dropping, Leaving,
          ForCore, InDisconnect, Arming, Lifting, InRecovery, InReapply, InStart, InConnect, AtOnce,
          Placed, Aside
  <1>5. CASE Becomes(t, [tasks[t] EXCEPT !.armed = @ \/ tasks[t].got # "no", !.got = "no",
             !.pc = "disarm", !.next = "reapplyStale"])
    BY <1>1, <1>2, <1>5, NamesAre DEF Heeds, Becomes, Known, Minds, Connecting, Dropping, Leaving,
          ForCore, InDisconnect, Arming, Lifting, InRecovery, InReapply, InStart, InConnect, AtOnce,
          Placed, Aside
  <1>6. CASE Becomes(t, [tasks[t] EXCEPT !.armed = @ \/ tasks[t].got # "no", !.got = "no",
             !.pc = "reapplyStale"])
    BY <1>1, <1>2, <1>6, NamesAre DEF Heeds, Becomes, Known, Minds, Connecting, Dropping, Leaving,
          ForCore, InDisconnect, Arming, Lifting, InRecovery, InReapply, InStart, InConnect, AtOnce,
          Placed, Aside
  <1> QED
    BY <1>3, <1>4, <1>5, <1>6

LEMMA ReapplyStaleHeeds ==
  ASSUME Inv, TurnInv, NEW t \in Tasks, ReapplyStale(t)
  PROVE  Heeds(t)
  <1>1. Known(t)
    BY KnownIs
  <1>2. tasks[t].pc = "reapplyStale" /\ Aside(t)
    BY DEF ReapplyStale, Aside, At, Quiet, Goes, conn, recovery, ConnectRest
  <1>3. Becomes(t, Return(t, "stale"))
    BY DEF ReapplyStale, Becomes, Goes
  <1> QED
    BY <1>1, <1>2, <1>3, NamesAre DEF Heeds, Becomes, To, Return, Known, Minds, Connecting,
          Dropping, Leaving, ForCore, InDisconnect, Arming, Lifting, InRecovery, InReapply, InStart,
          InConnect, AtOnce, Placed, Aside

LEMMA TeardownHeeds ==
  ASSUME Inv, TurnInv, NEW t \in Tasks, Teardown(t)
  PROVE  Heeds(t)
  <1>1. Known(t)
    BY KnownIs
  <1>2. tasks[t].pc = "teardown" /\ Aside(t)
    BY <1>1, SpeaksNewest DEF Teardown, Aside, At, Quiet, Awaits, conn, recovery
  <1>3. Becomes(t, To(t, "teardownTuns"))
    BY DEF Teardown, Becomes, Awaits
  <1> QED
    BY <1>1, <1>2, <1>3, NamesAre DEF Heeds, Becomes, To, Known, Minds, Connecting, Dropping,
          Leaving, ForCore, InDisconnect, Arming, Lifting, InRecovery, InReapply, InStart,
          InConnect, AtOnce, Placed, Aside

LEMMA TeardownTunsHeeds ==
  ASSUME Inv, TurnInv, NEW t \in Tasks, TeardownTuns(t)
  PROVE  Heeds(t)
  <1>1. Known(t)
    BY KnownIs
  <1>2. tasks[t].pc = "teardownTuns" /\ Aside(t)
    BY DEF TeardownTuns, Aside, At, Quiet, Awaits, conn, recovery, ConnectRest
  <1>3. Becomes(t, To(t, "teardownCore"))
    BY DEF TeardownTuns, Becomes, Awaits
  <1> QED
    BY <1>1, <1>2, <1>3, NamesAre DEF Heeds, Becomes, To, Known, Minds, Connecting, Dropping,
          Leaving, ForCore, InDisconnect, Arming, Lifting, InRecovery, InReapply, InStart,
          InConnect, AtOnce, Placed, Aside

LEMMA TeardownCoreHeeds ==
  ASSUME Inv, TurnInv, NEW t \in Tasks, TeardownCore(t)
  PROVE  Heeds(t)
  <1>1. Known(t)
    BY KnownIs
  <1>2. tasks[t].pc = "teardownCore" /\ Aside(t)
    BY DEF TeardownCore, Aside, At, Quiet, Goes, Awaits, StopsCore, conn, recovery
  <1>3. \/ Becomes(t, [To(t, "tornDown") EXCEPT !.on = proc])
        \/ Becomes(t, To(t, "tornDown"))
    BY DEF TeardownCore, Becomes, Goes, Awaits, StopsCore
  <1>4. CASE Becomes(t, [To(t, "tornDown") EXCEPT !.on = proc])
    BY <1>1, <1>2, <1>4, NamesAre DEF Heeds, Becomes, To, Known, Minds, Connecting, Dropping,
          Leaving, ForCore, InDisconnect, Arming, Lifting, InRecovery, InReapply, InStart,
          InConnect, AtOnce, Placed, Aside
  <1>5. CASE Becomes(t, To(t, "tornDown"))
    BY <1>1, <1>2, <1>5, NamesAre DEF Heeds, Becomes, To, Known, Minds, Connecting, Dropping,
          Leaving, ForCore, InDisconnect, Arming, Lifting, InRecovery, InReapply, InStart,
          InConnect, AtOnce, Placed, Aside
  <1> QED
    BY <1>3, <1>4, <1>5

LEMMA TornDownHeeds ==
  ASSUME Inv, TurnInv, NEW t \in Tasks, TornDown(t)
  PROVE  Heeds(t)
  <1>1. Known(t)
    BY KnownIs
  <1>2. tasks[t].pc = "tornDown" /\ Aside(t)
    BY DEF TornDown, Aside, At, Quiet, Goes, conn, recovery
  <1>3. \/ Becomes(t, To(t, "connect")) /\ turn' = t /\ tasks[t].at = gen
        \/ Becomes(t, Return(t, "stale"))
    BY DEF TornDown, Becomes, Goes
  <1>4. CASE Becomes(t, To(t, "connect")) /\ turn' = t /\ tasks[t].at = gen
    BY <1>1, <1>2, <1>4, NamesAre DEF Heeds, Becomes, To, Known, Minds, Connecting, Dropping,
          Leaving, ForCore, InDisconnect, Arming, Lifting, InRecovery, InReapply, InStart,
          InConnect, AtOnce, Placed, Aside
  <1>5. CASE Becomes(t, Return(t, "stale"))
    BY <1>1, <1>2, <1>5, NamesAre DEF Heeds, Becomes, To, Return, Known, Minds, Connecting,
          Dropping, Leaving, ForCore, InDisconnect, Arming, Lifting, InRecovery, InReapply, InStart,
          InConnect, AtOnce, Placed, Aside
  <1> QED
    BY <1>3, <1>4, <1>5

LEMMA ReapplyAnsweredHeeds ==
  ASSUME Inv, TurnInv, NEW t \in Tasks, ReapplyAnswered(t)
  PROVE  Heeds(t)
  <1>1. Known(t)
    BY KnownIs
  <1>2. tasks[t].pc = "answer" /\ tasks[t].at # None /\ Aside(t)
    BY DEF ReapplyAnswered, Aside, At, Quiet, Goes, Awaits, AwaitsProxy, conn, recovery
  <1>3. \/ Becomes(t, To(t, "reapplyFailed"))
        \/ Becomes(t, Return(t, "stale"))
        \/ Becomes(t, Return(t, tasks[t].res))
        \/ Becomes(t, [Return(t, tasks[t].res) EXCEPT !.pc = "disarm", !.next = Return(t, tasks[t].res).pc])
    BY DEF ReapplyAnswered, Becomes, Goes, Awaits, AwaitsProxy
  <1>4. CASE Becomes(t, To(t, "reapplyFailed"))
    BY <1>1, <1>2, <1>4, NamesAre DEF Heeds, Becomes, To, Known, Minds, Connecting, Dropping,
          Leaving, ForCore, InDisconnect, Arming, Lifting, InRecovery, InReapply, InStart,
          InConnect, AtOnce, Placed, Aside
  <1>5. CASE Becomes(t, Return(t, "stale"))
    BY <1>1, <1>2, <1>5, NamesAre DEF Heeds, Becomes, To, Return, Known, Minds, Connecting,
          Dropping, Leaving, ForCore, InDisconnect, Arming, Lifting, InRecovery, InReapply, InStart,
          InConnect, AtOnce, Placed, Aside
  <1>6. CASE Becomes(t, Return(t, tasks[t].res))
    BY <1>1, <1>2, <1>6, NamesAre DEF Heeds, Becomes, To, Return, Known, Minds, Connecting,
          Dropping, Leaving, ForCore, InDisconnect, Arming, Lifting, InRecovery, InReapply, InStart,
          InConnect, AtOnce, Placed, Aside
  <1>7. CASE Becomes(t, [Return(t, tasks[t].res) EXCEPT !.pc = "disarm", !.next = Return(t,
             tasks[t].res).pc])
    BY <1>1, <1>2, <1>7, NamesAre DEF Heeds, Becomes, To, Return, Known, Minds, Connecting,
          Dropping, Leaving, ForCore, InDisconnect, Arming, Lifting, InRecovery, InReapply, InStart,
          InConnect, AtOnce, Placed, Aside
  <1> QED
    BY <1>3, <1>4, <1>5, <1>6, <1>7

LEMMA ReapplyFailedHeeds ==
  ASSUME Inv, TurnInv, NEW t \in Tasks, ReapplyFailed(t)
  PROVE  Heeds(t)
  <1>1. Known(t)
    BY KnownIs
  <1>2. tasks[t].pc = "reapplyFailed" /\ Aside(t)
    BY <1>1 DEF ReapplyFailed, Aside, At, Quiet, Goes, conn, recovery, Known, Abandoned, Behind,
          Reports, Placed, Minds, Leaving, ForCore, CleanInv, Inv, InRecovery, InReapply, InStart,
          InConnect, GivenUp, Stale, Connecting, Dropping, AtOnce, Arming, Lifting, InDisconnect
  <1>3. Becomes(t, Return(t, "failed"))
    BY DEF ReapplyFailed, Becomes, Goes
  <1> QED
    BY <1>1, <1>2, <1>3, NamesAre DEF Heeds, Becomes, To, Return, Known, Minds, Connecting,
          Dropping, Leaving, ForCore, InDisconnect, Arming, Lifting, InRecovery, InReapply, InStart,
          InConnect, AtOnce, Placed, Aside

\* Reloads.
LEMMA AsksReloadHeeds ==
  ASSUME Inv, TurnInv, NEW t \in Tasks, AsksReload(t)
  PROVE  Heeds(t)
  <1>1. Known(t)
    BY KnownIs
  <1>2. tasks[t].pc = "idle" /\ Aside(t)
    BY DEF AsksReload, Aside, Quiet, Slot, Free, Awaits, conn, recovery, ConnectRest
  <1>3. Becomes(t, [Idle EXCEPT !.op = "reload", !.pc = "reload"])
    BY DEF AsksReload, Becomes, Awaits
  <1> QED
    BY <1>1, <1>2, <1>3, NamesAre, IdleIs DEF Heeds, Becomes, Idle, Known, Minds, Connecting,
          Dropping, Leaving, ForCore, InDisconnect, Arming, Lifting, InRecovery, InReapply, InStart,
          InConnect, AtOnce, Placed, Aside

LEMMA ReloadHeeds ==
  ASSUME Inv, TurnInv, NEW t \in Tasks, Reload(t)
  PROVE  Heeds(t)
  <1>1. Known(t)
    BY KnownIs
  <1>2. tasks[t].pc = "reload" /\ Aside(t)
    BY DEF Reload, Aside, At, Quiet, Awaits, Ends, conn, recovery, ConnectRest
  <1>3. \/ Becomes(t, [To(t, "reloadBuild") EXCEPT !.at = gen])
        \/ Becomes(t, Idle)
    BY DEF Reload, Becomes, Awaits, Ends
  <1>4. CASE Becomes(t, [To(t, "reloadBuild") EXCEPT !.at = gen])
    BY <1>1, <1>2, <1>4, NamesAre DEF Heeds, Becomes, To, Known, Minds, Connecting, Dropping,
          Leaving, ForCore, InDisconnect, Arming, Lifting, InRecovery, InReapply, InStart,
          InConnect, AtOnce, Placed, Aside
  <1>5. CASE Becomes(t, Idle)
    BY <1>1, <1>2, <1>5, NamesAre, IdleIs DEF Heeds, Becomes, Idle, Known, Minds, Connecting,
          Dropping, Leaving, ForCore, InDisconnect, Arming, Lifting, InRecovery, InReapply, InStart,
          InConnect, AtOnce, Placed, Aside
  <1> QED
    BY <1>3, <1>4, <1>5

LEMMA ReloadBuildHeeds ==
  ASSUME Inv, TurnInv, NEW t \in Tasks, ReloadBuild(t)
  PROVE  Heeds(t)
  <1>1. Known(t)
    BY KnownIs
  <1>2. tasks[t].pc = "reloadBuild" /\ Aside(t)
    BY DEF ReloadBuild, Aside, At, Quiet, Awaits, conn, recovery
  <1>3. Becomes(t, To(t, "reloadCheck"))
    BY DEF ReloadBuild, Becomes, Awaits
  <1> QED
    BY <1>1, <1>2, <1>3, NamesAre DEF Heeds, Becomes, To, Known, Minds, Connecting, Dropping,
          Leaving, ForCore, InDisconnect, Arming, Lifting, InRecovery, InReapply, InStart,
          InConnect, AtOnce, Placed, Aside

LEMMA ReloadCheckHeeds ==
  ASSUME Inv, TurnInv, NEW t \in Tasks, ReloadCheck(t)
  PROVE  Heeds(t)
  <1>1. Known(t)
    BY KnownIs
  <1>2. tasks[t].pc = "reloadCheck" /\ Aside(t)
    BY DEF ReloadCheck, Aside, At, Quiet, Goes, Awaits, Ends, Throws, conn, recovery
  <1>3. \/ Becomes(t, To(t, "start"))
        \/ Becomes(t, Idle)
        \/ Becomes(t, [Idle EXCEPT !.op = "drop", !.pc = "drop"])
    BY DEF ReloadCheck, Becomes, Goes, Awaits, Ends, Throws
  <1>4. CASE Becomes(t, To(t, "start"))
    BY <1>1, <1>2, <1>4, NamesAre DEF Heeds, Becomes, To, Known, Minds, Connecting, Dropping,
          Leaving, ForCore, InDisconnect, Arming, Lifting, InRecovery, InReapply, InStart,
          InConnect, AtOnce, Placed, Aside
  <1>5. CASE Becomes(t, Idle)
    BY <1>1, <1>2, <1>5, NamesAre, IdleIs DEF Heeds, Becomes, Idle, Known, Minds, Connecting,
          Dropping, Leaving, ForCore, InDisconnect, Arming, Lifting, InRecovery, InReapply, InStart,
          InConnect, AtOnce, Placed, Aside
  <1>6. CASE Becomes(t, [Idle EXCEPT !.op = "drop", !.pc = "drop"])
    BY <1>1, <1>2, <1>6, NamesAre, IdleIs DEF Heeds, Becomes, Idle, Known, Minds, Connecting,
          Dropping, Leaving, ForCore, InDisconnect, Arming, Lifting, InRecovery, InReapply, InStart,
          InConnect, AtOnce, Placed, Aside
  <1> QED
    BY <1>3, <1>4, <1>5, <1>6

LEMMA ReloadedHeeds ==
  ASSUME Inv, TurnInv, NEW t \in Tasks, Reloaded(t)
  PROVE  Heeds(t)
  <1>1. Known(t)
    BY KnownIs
  <1>2. tasks[t].pc = "grace" /\ tasks[t].op = "reload" /\ Aside(t)
    BY DEF Reloaded, Aside, At, Quiet, Goes, Awaits, Ends, Throws, conn, recovery
  <1>3. \/ Becomes(t, Idle)
        \/ Becomes(t, [Idle EXCEPT !.op = "drop", !.pc = "drop"])
    BY DEF Reloaded, Becomes, Goes, Awaits, Ends, Throws
  <1>4. CASE Becomes(t, Idle)
    BY <1>1, <1>2, <1>4, NamesAre, IdleIs DEF Heeds, Becomes, Idle, Known, Minds, Connecting,
          Dropping, Leaving, ForCore, InDisconnect, Arming, Lifting, InRecovery, InReapply, InStart,
          InConnect, AtOnce, Placed, Aside
  <1>5. CASE Becomes(t, [Idle EXCEPT !.op = "drop", !.pc = "drop"])
    BY <1>1, <1>2, <1>5, NamesAre, IdleIs DEF Heeds, Becomes, Idle, Known, Minds, Connecting,
          Dropping, Leaving, ForCore, InDisconnect, Arming, Lifting, InRecovery, InReapply, InStart,
          InConnect, AtOnce, Placed, Aside
  <1> QED
    BY <1>3, <1>4, <1>5

\* The user's calls.
LEMMA UserConnectsHeeds ==
  ASSUME Inv, TurnInv, NEW t \in Tasks, UserConnects(t)
  PROVE  Heeds(t)
  <1>1. Known(t)
    BY KnownIs
  <1>2. tasks[t].pc = "idle" /\ Aside(t)
    BY DEF UserConnects, Aside, Quiet, Calls, Called, Slot, Free, Goes, conn, recovery, CallRest
  <1>3. Becomes(t, [Idle EXCEPT !.op = "connect", !.pc = "connect"]) /\ turn' = t
    BY DEF UserConnects, Becomes, Goes, Calls, Called
  <1> QED
    BY <1>1, <1>2, <1>3, NamesAre, IdleIs DEF Heeds, Becomes, Idle, Known, Minds, Connecting,
          Dropping, Leaving, ForCore, InDisconnect, Arming, Lifting, InRecovery, InReapply, InStart,
          InConnect, AtOnce, Placed, Aside

LEMMA UserDisconnectsHeeds ==
  ASSUME Inv, TurnInv, NEW t \in Tasks, UserDisconnects(t)
  PROVE  Heeds(t)
  <1>1. Known(t)
    BY KnownIs
  <1>2. tasks[t].pc = "idle" /\ Aside(t)
    BY DEF UserDisconnects, Aside, Quiet, Calls, Called, Slot, Free, Goes, conn, recovery, CallRest
  <1>3. Becomes(t, [Idle EXCEPT !.op = "disconnect", !.pc = "disconnect"]) /\ turn' = t
    BY DEF UserDisconnects, Becomes, Goes, Calls, Called
  <1> QED
    BY <1>1, <1>2, <1>3, NamesAre, IdleIs DEF Heeds, Becomes, Idle, Known, Minds, Connecting,
          Dropping, Leaving, ForCore, InDisconnect, Arming, Lifting, InRecovery, InReapply, InStart,
          InConnect, AtOnce, Placed, Aside

LEMMA UserAppliesHeeds ==
  ASSUME Inv, TurnInv, NEW t \in Tasks, UserApplies(t)
  PROVE  Heeds(t)
  <1>1. Known(t)
    BY KnownIs
  <1>2. tasks[t].pc = "idle" /\ Aside(t)
    BY DEF UserApplies, Aside, Quiet, Calls, Called, Slot, Free, Goes, conn, recovery, CallRest
  <1>3. Becomes(t, [Idle EXCEPT !.op = "apply", !.pc = "reapply"]) /\ turn' = t
    BY DEF UserApplies, Becomes, Goes, Calls, Called
  <1> QED
    BY <1>1, <1>2, <1>3, NamesAre, IdleIs DEF Heeds, Becomes, Idle, Known, Minds, Connecting,
          Dropping, Leaving, ForCore, InDisconnect, Arming, Lifting, InRecovery, InReapply, InStart,
          InConnect, AtOnce, Placed, Aside

LEMMA UserRetriesHeeds ==
  ASSUME Inv, TurnInv, NEW t \in Tasks, UserRetries(t)
  PROVE  Heeds(t)
  <1>1. Known(t)
    BY KnownIs
  <1>2. tasks[t].pc = "idle" /\ Aside(t)
    BY DEF UserRetries, Aside, Quiet, Calls, Slot, Free, Goes, conn, recovery, CallRest
  <1>3. \/ Becomes(t, [Idle EXCEPT !.op = "apply", !.pc = "reapply"]) /\ turn' = t
        \/ Becomes(t, [Idle EXCEPT !.op = "retry", !.pc = "connect", !.armed = engaged]) /\ turn' = t
    BY DEF UserRetries, Becomes, Goes, Calls
  <1>4. CASE Becomes(t, [Idle EXCEPT !.op = "apply", !.pc = "reapply"]) /\ turn' = t
    BY <1>1, <1>2, <1>4, NamesAre, IdleIs DEF Heeds, Becomes, Idle, Known, Minds, Connecting,
          Dropping, Leaving, ForCore, InDisconnect, Arming, Lifting, InRecovery, InReapply, InStart,
          InConnect, AtOnce, Placed, Aside
  <1>5. CASE Becomes(t, [Idle EXCEPT !.op = "retry", !.pc = "connect", !.armed = engaged]) /\ turn' = t
    BY <1>1, <1>2, <1>5, NamesAre, IdleIs DEF Heeds, Becomes, Idle, Known, Minds, Connecting,
          Dropping, Leaving, ForCore, InDisconnect, Arming, Lifting, InRecovery, InReapply, InStart,
          InConnect, AtOnce, Placed, Aside
  <1> QED
    BY <1>3, <1>4, <1>5

LEMMA ConnectAnsweredHeeds ==
  ASSUME Inv, TurnInv, NEW t \in Tasks, ConnectAnswered(t)
  PROVE  Heeds(t)
  <1>1. Known(t)
    BY KnownIs
  <1>2. tasks[t].pc = "answer" /\ tasks[t].op \in {"connect", "retry"} /\ Aside(t)
    BY <1>1, SpeaksNewest DEF ConnectAnswered, Aside, At, Quiet, Goes, Awaits, Ends, conn, recovery,
          Abandoned
  <1>3. \/ Becomes(t, [To(t, "disarm") EXCEPT !.next = "end"])
        \/ Becomes(t, Idle)
    BY DEF ConnectAnswered, Becomes, Goes, Awaits, Ends
  <1>4. CASE Becomes(t, [To(t, "disarm") EXCEPT !.next = "end"])
    BY <1>1, <1>2, <1>4, NamesAre DEF Heeds, Becomes, To, Known, Minds, Connecting, Dropping,
          Leaving, ForCore, InDisconnect, Arming, Lifting, InRecovery, InReapply, InStart,
          InConnect, AtOnce, Placed, Aside
  <1>5. CASE Becomes(t, Idle)
    BY <1>1, <1>2, <1>5, NamesAre, IdleIs DEF Heeds, Becomes, Idle, Known, Minds, Connecting,
          Dropping, Leaving, ForCore, InDisconnect, Arming, Lifting, InRecovery, InReapply, InStart,
          InConnect, AtOnce, Placed, Aside
  <1> QED
    BY <1>3, <1>4, <1>5

LEMMA EndHeeds ==
  ASSUME Inv, TurnInv, NEW t \in Tasks, End(t)
  PROVE  Heeds(t)
  <1>1. Known(t)
    BY KnownIs
  <1>2. tasks[t].pc = "end" /\ Aside(t)
    BY DEF End, Aside, At, Quiet, Awaits, Ends, conn, recovery, ConnectRest
  <1>3. Becomes(t, Idle)
    BY DEF End, Becomes, Awaits, Ends
  <1> QED
    BY <1>1, <1>2, <1>3, NamesAre, IdleIs DEF Heeds, Becomes, Idle, Known, Minds, Connecting,
          Dropping, Leaving, ForCore, InDisconnect, Arming, Lifting, InRecovery, InReapply, InStart,
          InConnect, AtOnce, Placed, Aside

\* Recoveries.
LEMMA RecoverHeeds ==
  ASSUME Inv, TurnInv, NEW t \in Tasks, Recover(t)
  PROVE  Heeds(t)
  <1>1. Known(t)
    BY KnownIs
  <1>2. tasks[t].pc = "recover" /\ Aside(t)
    BY <1>1, SpeaksNewest DEF Recover, Aside, At, Quiet, Goes, Awaits, Ends, conn, recovery
  <1>3. \/ Becomes(t, Idle)
        \/ Becomes(t, [To(t, IF Running THEN "reapply" ELSE "connect") EXCEPT !.rg = rgen,
                !.run = runs', !.armed = ~Running /\ engaged]) /\ turn' = t
    BY DEF Recover, Becomes, Goes, Awaits, Ends
  <1>4. CASE Becomes(t, Idle)
    BY <1>1, <1>2, <1>4, NamesAre, IdleIs DEF Heeds, Becomes, Idle, Known, Minds, Connecting,
          Dropping, Leaving, ForCore, InDisconnect, Arming, Lifting, InRecovery, InReapply, InStart,
          InConnect, AtOnce, Placed, Aside
  <1>5. CASE Becomes(t, [To(t, IF Running THEN "reapply" ELSE "connect") EXCEPT !.rg = rgen,
             !.run = runs', !.armed = ~Running /\ engaged]) /\ turn' = t
    BY <1>1, <1>2, <1>5, NamesAre DEF Heeds, Becomes, To, Known, Minds, Connecting, Dropping,
          Leaving, ForCore, InDisconnect, Arming, Lifting, InRecovery, InReapply, InStart,
          InConnect, AtOnce, Placed, Aside
  <1> QED
    BY <1>3, <1>4, <1>5

LEMMA RecoverAnsweredHeeds ==
  ASSUME Inv, TurnInv, NEW t \in Tasks, RecoverAnswered(t)
  PROVE  Heeds(t)
  <1>1. Known(t)
    BY KnownIs
  <1>2. tasks[t].pc = "answer" /\ Aside(t)
    BY DEF RecoverAnswered, Aside, At, Quiet, Goes, conn, recovery, ConnectRest
  <1>3. \/ Becomes(t, [To(t, "disarm") EXCEPT !.next = "recovered"])
        \/ Becomes(t, To(t, "recovered"))
    BY DEF RecoverAnswered, Becomes, Goes
  <1>4. CASE Becomes(t, [To(t, "disarm") EXCEPT !.next = "recovered"])
    BY <1>1, <1>2, <1>4, NamesAre DEF Heeds, Becomes, To, Known, Minds, Connecting, Dropping,
          Leaving, ForCore, InDisconnect, Arming, Lifting, InRecovery, InReapply, InStart,
          InConnect, AtOnce, Placed, Aside
  <1>5. CASE Becomes(t, To(t, "recovered"))
    BY <1>1, <1>2, <1>5, NamesAre DEF Heeds, Becomes, To, Known, Minds, Connecting, Dropping,
          Leaving, ForCore, InDisconnect, Arming, Lifting, InRecovery, InReapply, InStart,
          InConnect, AtOnce, Placed, Aside
  <1> QED
    BY <1>3, <1>4, <1>5

LEMMA RecoveredHeeds ==
  ASSUME Inv, TurnInv, NEW t \in Tasks, Recovered(t)
  PROVE  Heeds(t)
  <1>1. Known(t)
    BY KnownIs
  <1>2. tasks[t].pc = "recovered" /\ Aside(t)
    BY <1>1 DEF Recovered, Aside, At, Quiet, Goes, Awaits, Ends, conn, recovery, Known, Abandoned,
          Behind, Reports, Placed, Minds, Leaving, ForCore, CleanInv, Inv, InRecovery, InReapply,
          InStart, InConnect, GivenUp, Stale, Connecting, Dropping, AtOnce, Arming, Lifting,
          InDisconnect
  <1>3. \/ Becomes(t, Idle)
        \/ Becomes(t, [Idle EXCEPT !.op = "recover", !.pc = "recover"]) /\ turn' = t
    BY DEF Recovered, Becomes, Goes, Awaits, Ends
  <1>4. CASE Becomes(t, Idle)
    BY <1>1, <1>2, <1>4, NamesAre, IdleIs DEF Heeds, Becomes, Idle, Known, Minds, Connecting,
          Dropping, Leaving, ForCore, InDisconnect, Arming, Lifting, InRecovery, InReapply, InStart,
          InConnect, AtOnce, Placed, Aside
  <1>5. CASE Becomes(t, [Idle EXCEPT !.op = "recover", !.pc = "recover"]) /\ turn' = t
    BY <1>1, <1>2, <1>5, NamesAre, IdleIs DEF Heeds, Becomes, Idle, Known, Minds, Connecting,
          Dropping, Leaving, ForCore, InDisconnect, Arming, Lifting, InRecovery, InReapply, InStart,
          InConnect, AtOnce, Placed, Aside
  <1> QED
    BY <1>3, <1>4, <1>5

LEMMA TriggerHeeds ==
  ASSUME Inv, TurnInv, NEW t \in Tasks, Trigger(t)
  PROVE  Heeds(t)
  <1>1. Known(t)
    BY KnownIs
  <1>2. tasks[t].pc = "idle" /\ Aside(t)
    BY DEF Trigger, Aside, Quiet, Calls, Called, Slot, Free, Goes, conn, recovery, CallRest
  <1>3. Becomes(t, [Idle EXCEPT !.op = "recover", !.pc = "recover"]) /\ turn' = t
    BY DEF Trigger, Becomes, Goes, Calls, Called
  <1> QED
    BY <1>1, <1>2, <1>3, NamesAre, IdleIs DEF Heeds, Becomes, Idle, Known, Minds, Connecting,
          Dropping, Leaving, ForCore, InDisconnect, Arming, Lifting, InRecovery, InReapply, InStart,
          InConnect, AtOnce, Placed, Aside

LEMMA TimerFiresHeeds ==
  ASSUME Inv, TurnInv, NEW t \in Tasks, TimerFires(t)
  PROVE  Heeds(t)
  <1>1. Known(t)
    BY KnownIs
  <1>2. tasks[t].pc = "idle" /\ Aside(t)
    BY DEF TimerFires, Aside, Quiet, Calls, Slot, Free, Goes, conn, recovery
  <1>3. Becomes(t, [Idle EXCEPT !.op = "recover", !.pc = "recover", !.att = timer]) /\ turn' = t
    BY DEF TimerFires, Becomes, Goes, Calls
  <1> QED
    BY <1>1, <1>2, <1>3, NamesAre, IdleIs DEF Heeds, Becomes, Idle, Known, Minds, Connecting,
          Dropping, Leaving, ForCore, InDisconnect, Arming, Lifting, InRecovery, InReapply, InStart,
          InConnect, AtOnce, Placed, Aside

\* Drops.
LEMMA DropHeeds ==
  ASSUME Inv, TurnInv, NEW t \in Tasks, Drop(t)
  PROVE  Heeds(t)
  <1>1. Known(t)
    BY KnownIs
  <1>2. tasks[t].pc = "drop" /\ Aside(t)
    BY DEF Drop, Aside, At, Quiet, Goes, Awaits, Ends, GoesOn, conn, recovery, DropRest
  <1>3. \/ Becomes(t, Idle)
        \/ Becomes(t, [To(t, "arm") EXCEPT !.next = "dropArmed"])
        \/ Becomes(t, To(t, "dropWait"))
    BY DEF Drop, Becomes, Goes, Awaits, Ends, GoesOn
  <1>4. CASE Becomes(t, Idle)
    BY <1>1, <1>2, <1>4, NamesAre, IdleIs DEF Heeds, Becomes, Idle, Known, Minds, Connecting,
          Dropping, Leaving, ForCore, InDisconnect, Arming, Lifting, InRecovery, InReapply, InStart,
          InConnect, AtOnce, Placed, Aside
  <1>5. CASE Becomes(t, [To(t, "arm") EXCEPT !.next = "dropArmed"])
    BY <1>1, <1>2, <1>5, NamesAre DEF Heeds, Becomes, To, Known, Minds, Connecting, Dropping,
          Leaving, ForCore, InDisconnect, Arming, Lifting, InRecovery, InReapply, InStart,
          InConnect, AtOnce, Placed, Aside
  <1>6. CASE Becomes(t, To(t, "dropWait"))
    BY <1>1, <1>2, <1>6, NamesAre DEF Heeds, Becomes, To, Known, Minds, Connecting, Dropping,
          Leaving, ForCore, InDisconnect, Arming, Lifting, InRecovery, InReapply, InStart,
          InConnect, AtOnce, Placed, Aside
  <1> QED
    BY <1>3, <1>4, <1>5, <1>6

LEMMA DropArmedHeeds ==
  ASSUME Inv, TurnInv, NEW t \in Tasks, DropArmed(t)
  PROVE  Heeds(t)
  <1>1. Known(t)
    BY KnownIs
  <1>2. tasks[t].pc = "dropArmed" /\ Aside(t)
    BY DEF DropArmed, Aside, At, Quiet, Goes, GoesOn, conn, DropRest
  <1>3. \/ Becomes(t, [tasks[t] EXCEPT !.armed = tasks[t].got = "added", !.got = "no", !.pc = "disarm",
                !.next = "end"])
        \/ Becomes(t, [tasks[t] EXCEPT !.armed = tasks[t].got = "added", !.got = "no", !.pc = "dropWait"])
    BY DEF DropArmed, Becomes, Goes, GoesOn
  <1>4. CASE Becomes(t, [tasks[t] EXCEPT !.armed = tasks[t].got = "added", !.got = "no",
             !.pc = "disarm", !.next = "end"])
    BY <1>1, <1>2, <1>4, NamesAre DEF Heeds, Becomes, Known, Minds, Connecting, Dropping, Leaving,
          ForCore, InDisconnect, Arming, Lifting, InRecovery, InReapply, InStart, InConnect, AtOnce,
          Placed, Aside
  <1>5. CASE Becomes(t, [tasks[t] EXCEPT !.armed = tasks[t].got = "added", !.got = "no", !.pc = "dropWait"])
    BY <1>1, <1>2, <1>5, NamesAre DEF Heeds, Becomes, Known, Minds, Connecting, Dropping, Leaving,
          ForCore, InDisconnect, Arming, Lifting, InRecovery, InReapply, InStart, InConnect, AtOnce,
          Placed, Aside
  <1> QED
    BY <1>3, <1>4, <1>5

LEMMA DropWaitHeeds ==
  ASSUME Inv, TurnInv, NEW t \in Tasks, DropWait(t)
  PROVE  Heeds(t)
  <1>1. Known(t)
    BY KnownIs
  <1>2. tasks[t].pc = "dropWait" /\ Aside(t)
    BY <1>1 DEF DropWait, Aside, At, Quiet, Goes, Awaits, Ends, Lifts, conn, recovery, DropRest,
          Known, Abandoned, Behind, Reports, Placed, Minds, Leaving, ForCore, CleanInv, Inv,
          InRecovery, InReapply, InStart, InConnect, GivenUp, Stale, Connecting, Dropping, AtOnce,
          Arming, Lifting, InDisconnect
  <1>3. \/ Becomes(t, Idle)
        \/ Becomes(t, [To(t, "disarm") EXCEPT !.next = "end"])
        \/ Becomes(t, [Idle EXCEPT !.op = "disconnect", !.pc = "disconnect"]) /\ turn' = t
        \/ Becomes(t, [To(t, "dropJoin") EXCEPT !.on = runs])
        \/ Becomes(t, To(t, "dropTake"))
    BY DEF DropWait, Becomes, Goes, Awaits, Ends, Lifts
  <1>4. CASE Becomes(t, Idle)
    BY <1>1, <1>2, <1>4, NamesAre, IdleIs DEF Heeds, Becomes, Idle, Known, Minds, Connecting,
          Dropping, Leaving, ForCore, InDisconnect, Arming, Lifting, InRecovery, InReapply, InStart,
          InConnect, AtOnce, Placed, Aside
  <1>5. CASE Becomes(t, [To(t, "disarm") EXCEPT !.next = "end"])
    BY <1>1, <1>2, <1>5, NamesAre DEF Heeds, Becomes, To, Known, Minds, Connecting, Dropping,
          Leaving, ForCore, InDisconnect, Arming, Lifting, InRecovery, InReapply, InStart,
          InConnect, AtOnce, Placed, Aside
  <1>6. CASE Becomes(t, [Idle EXCEPT !.op = "disconnect", !.pc = "disconnect"]) /\ turn' = t
    BY <1>1, <1>2, <1>6, NamesAre, IdleIs DEF Heeds, Becomes, Idle, Known, Minds, Connecting,
          Dropping, Leaving, ForCore, InDisconnect, Arming, Lifting, InRecovery, InReapply, InStart,
          InConnect, AtOnce, Placed, Aside
  <1>7. CASE Becomes(t, [To(t, "dropJoin") EXCEPT !.on = runs])
    BY <1>1, <1>2, <1>7, NamesAre DEF Heeds, Becomes, To, Known, Minds, Connecting, Dropping,
          Leaving, ForCore, InDisconnect, Arming, Lifting, InRecovery, InReapply, InStart,
          InConnect, AtOnce, Placed, Aside
  <1>8. CASE Becomes(t, To(t, "dropTake"))
    BY <1>1, <1>2, <1>8, NamesAre DEF Heeds, Becomes, To, Known, Minds, Connecting, Dropping,
          Leaving, ForCore, InDisconnect, Arming, Lifting, InRecovery, InReapply, InStart,
          InConnect, AtOnce, Placed, Aside
  <1> QED
    BY <1>3, <1>4, <1>5, <1>6, <1>7, <1>8

LEMMA DropJoinHeeds ==
  ASSUME Inv, TurnInv, NEW t \in Tasks, DropJoin(t)
  PROVE  Heeds(t)
  <1>1. Known(t)
    BY KnownIs
  <1>2. tasks[t].pc = "dropJoin" /\ Aside(t)
    BY DEF DropJoin, Aside, At, Quiet, Goes, Awaits, Ends, Lifts, conn, recovery, DropRest
  <1>3. \/ Becomes(t, Idle)
        \/ Becomes(t, [To(t, "disarm") EXCEPT !.next = "end"])
        \/ Becomes(t, [To(t, "dropTake") EXCEPT !.on = 0])
    BY DEF DropJoin, Becomes, Goes, Awaits, Ends, Lifts
  <1>4. CASE Becomes(t, Idle)
    BY <1>1, <1>2, <1>4, NamesAre, IdleIs DEF Heeds, Becomes, Idle, Known, Minds, Connecting,
          Dropping, Leaving, ForCore, InDisconnect, Arming, Lifting, InRecovery, InReapply, InStart,
          InConnect, AtOnce, Placed, Aside
  <1>5. CASE Becomes(t, [To(t, "disarm") EXCEPT !.next = "end"])
    BY <1>1, <1>2, <1>5, NamesAre DEF Heeds, Becomes, To, Known, Minds, Connecting, Dropping,
          Leaving, ForCore, InDisconnect, Arming, Lifting, InRecovery, InReapply, InStart,
          InConnect, AtOnce, Placed, Aside
  <1>6. CASE Becomes(t, [To(t, "dropTake") EXCEPT !.on = 0])
    BY <1>1, <1>2, <1>6, NamesAre DEF Heeds, Becomes, To, Known, Minds, Connecting, Dropping,
          Leaving, ForCore, InDisconnect, Arming, Lifting, InRecovery, InReapply, InStart,
          InConnect, AtOnce, Placed, Aside
  <1> QED
    BY <1>3, <1>4, <1>5, <1>6

LEMMA DropTakeHeeds ==
  ASSUME Inv, TurnInv, NEW t \in Tasks, DropTake(t)
  PROVE  Heeds(t)
  <1>1. Known(t)
    BY KnownIs
  <1>2. tasks[t].pc = "dropTake" /\ Aside(t)
    BY DEF DropTake, Aside, At, Quiet, Goes, Awaits, conn, recovery, DropRest
  <1>3. \/ Becomes(t, [Idle EXCEPT !.op = "recover", !.pc = "recover"]) /\ turn' = t
        \/ Becomes(t, [To(t, "dropReport") EXCEPT !.at = gen])
        \/ Becomes(t, [To(t, "dropProxy") EXCEPT !.at = gen])
    BY DEF DropTake, Becomes, Goes, Awaits
  <1>4. CASE Becomes(t, [Idle EXCEPT !.op = "recover", !.pc = "recover"]) /\ turn' = t
    BY <1>1, <1>2, <1>4, NamesAre, IdleIs DEF Heeds, Becomes, Idle, Known, Minds, Connecting,
          Dropping, Leaving, ForCore, InDisconnect, Arming, Lifting, InRecovery, InReapply, InStart,
          InConnect, AtOnce, Placed, Aside
  <1>5. CASE Becomes(t, [To(t, "dropReport") EXCEPT !.at = gen])
    BY <1>1, <1>2, <1>5, NamesAre DEF Heeds, Becomes, To, Known, Minds, Connecting, Dropping,
          Leaving, ForCore, InDisconnect, Arming, Lifting, InRecovery, InReapply, InStart,
          InConnect, AtOnce, Placed, Aside
  <1>6. CASE Becomes(t, [To(t, "dropProxy") EXCEPT !.at = gen])
    BY <1>1, <1>2, <1>6, NamesAre DEF Heeds, Becomes, To, Known, Minds, Connecting, Dropping,
          Leaving, ForCore, InDisconnect, Arming, Lifting, InRecovery, InReapply, InStart,
          InConnect, AtOnce, Placed, Aside
  <1> QED
    BY <1>3, <1>4, <1>5, <1>6

LEMMA DropProxyHeeds ==
  ASSUME Inv, TurnInv, NEW t \in Tasks, DropProxy(t)
  PROVE  Heeds(t)
  <1>1. Known(t)
    BY KnownIs
  <1>2. tasks[t].pc = "dropProxy" /\ Aside(t)
    BY DEF DropProxy, Aside, At, Quiet, Awaits, AwaitsProxy, Ends, conn, recovery, DropRest
  <1>3. \/ Becomes(t, To(t, "dropProxied"))
        \/ Becomes(t, Idle)
    BY DEF DropProxy, Becomes, Awaits, AwaitsProxy, Ends
  <1>4. CASE Becomes(t, To(t, "dropProxied"))
    BY <1>1, <1>2, <1>4, NamesAre DEF Heeds, Becomes, To, Known, Minds, Connecting, Dropping,
          Leaving, ForCore, InDisconnect, Arming, Lifting, InRecovery, InReapply, InStart,
          InConnect, AtOnce, Placed, Aside
  <1>5. CASE Becomes(t, Idle)
    BY <1>1, <1>2, <1>5, NamesAre, IdleIs DEF Heeds, Becomes, Idle, Known, Minds, Connecting,
          Dropping, Leaving, ForCore, InDisconnect, Arming, Lifting, InRecovery, InReapply, InStart,
          InConnect, AtOnce, Placed, Aside
  <1> QED
    BY <1>3, <1>4, <1>5

LEMMA DropReportHeeds ==
  ASSUME Inv, TurnInv, NEW t \in Tasks, DropReport(t)
  PROVE  Heeds(t)
  <1>1. Known(t)
    BY KnownIs
  <1>2. tasks[t].pc \in {"dropReport", "dropProxied"} /\ Aside(t)
    BY <1>1, SpeaksNewest DEF DropReport, Aside, At, Quiet, Awaits, Ends, conn, recovery, DropRest
  <1>3. Becomes(t, Idle)
    BY DEF DropReport, Becomes, Awaits, Ends
  <1> QED
    BY <1>1, <1>2, <1>3, NamesAre, IdleIs DEF Heeds, Becomes, Idle, Known, Minds, Connecting,
          Dropping, Leaving, ForCore, InDisconnect, Arming, Lifting, InRecovery, InReapply, InStart,
          InConnect, AtOnce, Placed, Aside

\* doDisconnect.
LEMMA DisTunsHeeds ==
  ASSUME Inv, TurnInv, NEW t \in Tasks, DisTuns(t)
  PROVE  Heeds(t)
  <1>1. Known(t)
    BY KnownIs
  <1>2. tasks[t].pc = "disTuns" /\ Aside(t)
    BY DEF DisTuns, Aside, At, Quiet, Awaits, conn, recovery, ConnectRest
  <1>3. Becomes(t, To(t, "disProxy"))
    BY DEF DisTuns, Becomes, Awaits
  <1> QED
    BY <1>1, <1>2, <1>3, NamesAre DEF Heeds, Becomes, To, Known, Minds, Connecting, Dropping,
          Leaving, ForCore, InDisconnect, Arming, Lifting, InRecovery, InReapply, InStart,
          InConnect, AtOnce, Placed, Aside

LEMMA DisProxyHeeds ==
  ASSUME Inv, TurnInv, NEW t \in Tasks, DisProxy(t)
  PROVE  Heeds(t)
  <1>1. Known(t)
    BY KnownIs
  <1>2. tasks[t].pc = "disProxy" /\ Aside(t)
    BY DEF DisProxy, Aside, At, Quiet, Awaits, AwaitsProxy, conn, recovery
  <1>3. Becomes(t, To(t, "disBlock"))
    BY DEF DisProxy, Becomes, Awaits, AwaitsProxy
  <1> QED
    BY <1>1, <1>2, <1>3, NamesAre DEF Heeds, Becomes, To, Known, Minds, Connecting, Dropping,
          Leaving, ForCore, InDisconnect, Arming, Lifting, InRecovery, InReapply, InStart,
          InConnect, AtOnce, Placed, Aside

LEMMA DisBlockHeeds ==
  ASSUME Inv, TurnInv, NEW t \in Tasks, DisBlock(t)
  PROVE  Heeds(t)
  <1>1. Known(t)
    BY KnownIs
  <1>2. tasks[t].pc = "disBlock" /\ Aside(t)
    BY DEF DisBlock, Aside, At, Quiet, Goes, conn, recovery
  <1>3. Becomes(t, [To(t, "disarm") EXCEPT !.next = "disCore"])
    BY DEF DisBlock, Becomes, Goes
  <1> QED
    BY <1>1, <1>2, <1>3, NamesAre DEF Heeds, Becomes, To, Known, Minds, Connecting, Dropping,
          Leaving, ForCore, InDisconnect, Arming, Lifting, InRecovery, InReapply, InStart,
          InConnect, AtOnce, Placed, Aside

LEMMA DisCoreHeeds ==
  ASSUME Inv, TurnInv, NEW t \in Tasks, DisCore(t)
  PROVE  Heeds(t)
  <1>1. Known(t)
    BY KnownIs
  <1>2. tasks[t].pc = "disCore" /\ Aside(t)
    BY DEF DisCore, Aside, At, Quiet, Goes, Awaits, StopsCore, conn, recovery
  <1>3. \/ Becomes(t, [To(t, "disDone") EXCEPT !.on = proc])
        \/ Becomes(t, To(t, "disDone"))
    BY DEF DisCore, Becomes, Goes, Awaits, StopsCore
  <1>4. CASE Becomes(t, [To(t, "disDone") EXCEPT !.on = proc])
    BY <1>1, <1>2, <1>4, NamesAre DEF Heeds, Becomes, To, Known, Minds, Connecting, Dropping,
          Leaving, ForCore, InDisconnect, Arming, Lifting, InRecovery, InReapply, InStart,
          InConnect, AtOnce, Placed, Aside
  <1>5. CASE Becomes(t, To(t, "disDone"))
    BY <1>1, <1>2, <1>5, NamesAre DEF Heeds, Becomes, To, Known, Minds, Connecting, Dropping,
          Leaving, ForCore, InDisconnect, Arming, Lifting, InRecovery, InReapply, InStart,
          InConnect, AtOnce, Placed, Aside
  <1> QED
    BY <1>3, <1>4, <1>5

LEMMA DisDoneHeeds ==
  ASSUME Inv, TurnInv, NEW t \in Tasks, DisDone(t)
  PROVE  Heeds(t)
  <1>1. Known(t)
    BY KnownIs
  <1>2. tasks[t].pc = "disDone" /\ Aside(t)
    BY <1>1, SpeaksNewest DEF DisDone, Aside, At, Quiet, Awaits, Ends, recovery
  <1>3. Becomes(t, Idle)
    BY DEF DisDone, Becomes, Awaits, Ends
  <1> QED
    BY <1>1, <1>2, <1>3, NamesAre, IdleIs DEF Heeds, Becomes, Idle, Known, Minds, Connecting,
          Dropping, Leaving, ForCore, InDisconnect, Arming, Lifting, InRecovery, InReapply, InStart,
          InConnect, AtOnce, Placed, Aside

-----------------------------------------------------------------------------
(* Every step.                                                                *)

LEMMA NoTaskIs == NoTask \notin Tasks
  BY ConnectionAssumption

\* It keeps what every call minds.
LEMMA HeedsKeeps ==
  ASSUME TurnInv, NEW t \in Tasks, Heeds(t)
  PROVE  TurnInv'
  <1> SUFFICES ASSUME NEW u \in Tasks
               PROVE  (Minds(tasks[u]) /\ (tasks[u].pc \in AtOnce => turn = u))'
    BY DEF TurnInv
  <1>1. UNCHANGED <<gen, rgen>> /\ turn \in {t, NoTask}
    BY DEF Heeds, Aside
  <1>2. CASE u = t
    BY <1>1, <1>2 DEF Heeds, Minds, Connecting, Dropping, Leaving, ForCore, AtOnce
  <1>3. CASE u # t
    <2>1. tasks'[u] = tasks[u] /\ tasks[u].pc \notin AtOnce
      BY <1>1, <1>3, NoTaskIs DEF Heeds, TurnInv
    <2> QED
      BY <1>1, <2>1 DEF TurnInv, Minds, Connecting, Dropping, Leaving, ForCore, AtOnce
  <1> QED
    BY <1>2, <1>3

\* What a call minds while another takes a generation in its turn.
LEMMA OthersMind ==
  ASSUME Inv, TurnInv, NEW t \in Tasks, turn = t, gen' = gen + 1,
         NEW u \in Tasks, u # t, tasks'[u] = tasks[u]
  PROVE  (Minds(tasks[u]) /\ (tasks[u].pc \in AtOnce => turn = u))'
  <1>1. Minds(tasks[u]) /\ tasks[u].pc \notin AtOnce
    BY NoTaskIs DEF TurnInv
  <1>2. tasks[u].at # gen'
    BY DEF Inv, CleanInv, Placed
  <1> QED
    BY <1>1, <1>2 DEF Minds, Connecting, Dropping, Leaving, ForCore, AtOnce

LEMMA ConnectHeeds ==
  ASSUME Inv, TurnInv, NEW t \in Tasks, Connect(t)
  PROVE  TurnInv' /\ turn = t /\ ~Behind(t) /\ \A u \in Tasks : u # t => tasks'[u] = tasks[u]
  <1> DEFINE c == tasks[t]
             r == IF c.armed THEN [To(t, "prepare") EXCEPT !.my = gen + 1]
                             ELSE [To(t, "disarm") EXCEPT !.my = gen + 1, !.next = "prepare"]
  <1>1. Known(t)
    BY KnownIs
  <1>2. c.pc = "connect" /\ tasks' = [tasks EXCEPT ![t] = r] /\ gen' = gen + 1 /\ UNCHANGED rgen
    BY DEF Connect, At, Goes, Awaits, recovery
  <1>3. turn = t
    BY <1>1, <1>2 DEF Known, AtOnce
  <1>4. c.my = None /\ c.at \in {None, gen} /\ (c.run # 0 => c.rg = rgen)
    BY <1>1, <1>2 DEF Known, Minds, Connecting, InStart, InConnect, Arming, Lifting
  <1>5. ~Behind(t)
    BY <1>1, <1>4 DEF Known, Behind, None
  <1>6. /\ r.my = gen + 1 /\ r.op = c.op /\ r.at = c.at /\ r.run = c.run /\ r.rg = c.rg
        /\ r.pc \in {"prepare", "disarm"} /\ (r.pc = "disarm" => r.next = "prepare")
    BY <1>1, NamesAre DEF Known, To
  <1> HIDE DEF r
  <1>7. tasks'[t] = r /\ \A u \in Tasks : u # t => tasks'[u] = tasks[u]
    BY <1>1, <1>2 DEF Known
  <1>8. (Minds(tasks[t]) /\ (tasks[t].pc \in AtOnce => turn = t))'
    <2>1. r.at # gen'
      BY <1>1, <1>2, <1>4, <1>6 DEF Known, None
    <2> QED
      BY <1>1, <1>2, <1>4, <1>6, <1>7, <2>1
      DEF Known, Minds, Connecting, Dropping, Leaving, ForCore, InDisconnect, InConnect, Arming, Lifting,
          AtOnce
  <1> QED
    BY <1>2, <1>3, <1>5, <1>7, <1>8, OthersMind DEF TurnInv

LEMMA DisconnectHeeds ==
  ASSUME Inv, TurnInv, NEW t \in Tasks, Disconnect(t)
  PROVE  TurnInv' /\ turn = t /\ ~Behind(t) /\ \A u \in Tasks : u # t => tasks'[u] = tasks[u]
  <1> DEFINE c == tasks[t]
             r == To(t, "disTuns")
  <1>1. Known(t)
    BY KnownIs
  <1>2. c.pc = "disconnect" /\ tasks' = [tasks EXCEPT ![t] = r] /\ gen' = gen + 1
    BY DEF Disconnect, At, Awaits
  <1>3. turn = t
    BY <1>1, <1>2 DEF Known, AtOnce
  <1>4. c.op = "disconnect" /\ c.my = None /\ c.at = None /\ c.run = 0
    BY <1>1, <1>2 DEF Known, Minds, Placed, Connecting, InStart, InConnect, Arming, Lifting
  <1>5. ~Behind(t)
    BY <1>1, <1>4 DEF Known, Behind, None
  <1>6. /\ r.my = c.my /\ r.op = c.op /\ r.at = c.at /\ r.run = c.run /\ r.pc = "disTuns"
    BY <1>1, NamesAre DEF Known, To
  <1> HIDE DEF r
  <1>7. tasks'[t] = r /\ \A u \in Tasks : u # t => tasks'[u] = tasks[u]
    BY <1>1, <1>2 DEF Known
  <1>8. (Minds(tasks[t]) /\ (tasks[t].pc \in AtOnce => turn = t))'
    BY <1>4, <1>6, <1>7 DEF Minds, Dropping, Arming, AtOnce
  <1>9. ASSUME NEW u \in Tasks, u # t
        PROVE  (Minds(tasks[u]) /\ (tasks[u].pc \in AtOnce => turn = u))'
    BY <1>2, <1>3, <1>7, <1>9, OthersMind
  <1> QED
    BY <1>3, <1>5, <1>7, <1>8, <1>9 DEF TurnInv

\* The exit of a process calls onConnectionDrop, or nobody.
LEMMA DropCallHeeds ==
  ASSUME Inv, TurnInv, NEW t \in Tasks, NEW r, Calls(t, r), Fresh(r), r.op = "drop", r.pc = "drop",
         UNCHANGED <<gen, rgen, status, timer>>
  PROVE  Heeds(t)
  <1>1. Known(t)
    BY KnownIs
  <1>2. Aside(t) /\ Becomes(t, r)
    BY DEF Calls, Quiet, Goes, Aside, Becomes
  <1>3. Minds(r) /\ r.pc \notin AtOnce
    BY DEF Fresh, Minds, Leaving, ForCore, InDisconnect, Lifting, AtOnce
  <1>4. tasks'[t] = r /\ \A u \in Tasks : u # t => tasks'[u] = tasks[u]
    BY <1>1, <1>2 DEF Known, Becomes
  <1> QED
    BY <1>2, <1>3, <1>4 DEF Heeds, Aside, Minds

LEMMA ExitsHeed ==
  ASSUME Inv, TurnInv, CoreExits \/ TunnelExits
  PROVE  UNCHANGED <<tasks, turn, gen, rgen>> \/ \E t \in Tasks : Heeds(t)
  <1> DEFINE r == [Idle EXCEPT !.op = "drop", !.pc = "drop"]
             s == [Idle EXCEPT !.op = "drop", !.pc = "drop", !.what = "tun"]
  <1>1. UNCHANGED <<gen, rgen, status, timer>>
    BY DEF CoreExits, TunnelExits, ExitRest, conn, recovery
  <1>2. UNCHANGED <<tasks, turn>> \/ \E t \in Tasks : Calls(t, r) \/ Calls(t, s)
    BY DEF CoreExits, TunnelExits, Called, ctl
  <1>3. Fresh(r) /\ r.op = "drop" /\ r.pc = "drop" /\ Fresh(s) /\ s.op = "drop" /\ s.pc = "drop"
    BY DEF Fresh, Idle, Names, Ops
  <1> HIDE DEF r, s
  <1> QED
    BY <1>1, <1>2, <1>3, DropCallHeeds

LEMMA NextHeeds ==
  ASSUME Inv, TurnInv, NEW t \in Tasks,
         \/ KillSwitch(t) \/ ConnectOnce(t) \/ ReapplyConnection(t) \/ UserCalls(t)
         \/ InPlaceReload(t) \/ Recovery(t) \/ OnConnectionDrop(t) \/ DoDisconnect(t)
  PROVE  Connect(t) \/ Disconnect(t) \/ Heeds(t)
  <1>1. CASE KillSwitch(t)
    BY <1>1, ArmHeeds, ArmCheckHeeds, ArmDeleteHeeds, ArmAddHeeds, ArmAddedHeeds, DisarmHeeds,
       DisarmingHeeds
    DEF KillSwitch
  <1>2. CASE ConnectOnce(t)
    BY <1>2, PrepareHeeds, StartHeeds, StartingHeeds, CrashedHeeds, StartedHeeds, ProxiedHeeds,
       SwapHeeds, TunnelHeeds, TunnelledHeeds, LanHeeds, LastHeeds, GiveWayHeeds,
       GaveCoreHeeds, GoneHeeds
    DEF ConnectOnce
  <1>3. CASE ReapplyConnection(t)
    BY <1>3, ReapplyHeeds, ReapplyArmedHeeds, ReapplyStaleHeeds, TeardownHeeds,
       TeardownTunsHeeds, TeardownCoreHeeds, TornDownHeeds, ReapplyAnsweredHeeds,
       ReapplyFailedHeeds
    DEF ReapplyConnection
  <1>4. CASE InPlaceReload(t)
    BY <1>4, AsksReloadHeeds, ReloadHeeds, ReloadBuildHeeds, ReloadCheckHeeds, ReloadedHeeds
    DEF InPlaceReload
  <1>5. CASE UserCalls(t)
    BY <1>5, UserConnectsHeeds, UserDisconnectsHeeds, UserAppliesHeeds, UserRetriesHeeds,
       ConnectAnsweredHeeds, EndHeeds
    DEF UserCalls
  <1>6. CASE Recovery(t)
    BY <1>6, RecoverHeeds, RecoverAnsweredHeeds, RecoveredHeeds, TriggerHeeds, TimerFiresHeeds
    DEF Recovery
  <1>7. CASE OnConnectionDrop(t)
    BY <1>7, DropHeeds, DropArmedHeeds, DropWaitHeeds, DropJoinHeeds, DropTakeHeeds,
       DropProxyHeeds, DropReportHeeds
    DEF OnConnectionDrop
  <1>8. CASE DoDisconnect(t)
    BY <1>8, DisTunsHeeds, DisProxyHeeds, DisBlockHeeds, DisCoreHeeds, DisDoneHeeds DEF DoDisconnect
  <1> QED
    BY <1>1, <1>2, <1>3, <1>4, <1>5, <1>6, <1>7, <1>8

LEMMA TurnNext ==
  ASSUME Inv, TurnInv, [Next]_vars
  PROVE  TurnInv' /\ [NewestConnects /\ LeftBehindIsSilent]_vars
  <1> DEFINE Good == TurnInv' /\ NewestConnects /\ LeftBehindIsSilent
  <1>1. ASSUME NEW t \in Tasks, Heeds(t) PROVE Good
    BY <1>1, HeedsKeeps DEF Heeds, Aside, NewestConnects, LeftBehindIsSilent
  <1>2. ASSUME NEW t \in Tasks, Connect(t) \/ Disconnect(t) PROVE Good
    <2>1. /\ TurnInv' /\ turn = t /\ ~Behind(t)
          /\ \A u \in Tasks : u # t => tasks'[u] = tasks[u]
      BY <1>2, ConnectHeeds, DisconnectHeeds
    <2>2. tasks[t].pc \in {"connect", "disconnect"}
      BY <1>2 DEF Connect, Disconnect, At
    <2> QED
      BY <2>1, <2>2 DEF Abandoned, NewestConnects, LeftBehindIsSilent
  <1>3. ASSUME UNCHANGED <<tasks, turn, gen, rgen>> PROVE Good
    <2>1. TurnInv'
      BY <1>3 DEF TurnInv, Minds, Connecting, Dropping, Leaving, ForCore, AtOnce
    <2> QED
      BY <1>3, <2>1 DEF NewestConnects, LeftBehindIsSilent
  <1>4. CASE UNCHANGED vars
    BY <1>3, <1>4 DEF vars, ctl, conn, recovery
  <1>5. CASE Next
    BY <1>1, <1>2, <1>3, <1>4, <1>5, NextHeeds, ExitsHeed DEF Next, Rest
  <1> QED
    BY <1>4, <1>5

LEMMA TurnAlways == Spec => []TurnInv
  <1>1. Init => TurnInv
    BY IdleIs DEF Init, TurnInv, Minds, Dropping, Leaving, ForCore, InDisconnect, Arming, Lifting, AtOnce
  <1>2. Inv /\ TurnInv /\ [Next]_vars => TurnInv'
    BY TurnNext
  <1> QED
    BY <1>1, <1>2, Inductive, PTL DEF Spec

\* What is overtaken notices before it connects, and what a disconnect overtook falls
\* silent: the checks of connGen and recoverGen after every await.
THEOREM Prevails == Spec => DisconnectPrevails
  <1>1. Inv /\ TurnInv /\ [Next]_vars => [NewestConnects /\ LeftBehindIsSilent]_vars
    BY TurnNext
  <1> QED
    BY <1>1, Inductive, TurnAlways, PTL DEF Spec, DisconnectPrevails

-----------------------------------------------------------------------------
(* The wish to be connected is somebody's: WishInv, and NeverSilentlyDead.    *)

Wished == Inv /\ SharedInv /\ TurnInv /\ WishInv

\* What the wish is read from; a step of a call that leaves it alone.
Wish == <<active, proc, unseen, timer, status, queued, runs, recovering, alive>>
Alike == UNCHANGED <<gen, dgen, rgen, settings>> /\ UNCHANGED Wish

\* What is due.
Due == <<timer, queued, runs>>

\* A step of t that takes no generation leaves the wish, if it is unmet, to t, to
\* another call, or to whose it was.
Steady == (queued => queued') /\ runs' = runs /\ (recovering' => recovering) /\ alive' \subseteq alive
Tends(t) ==
  /\ UNCHANGED <<gen, dgen, rgen, settings>>
  /\ \A u \in Tasks : u # t => tasks'[u] = tasks[u]
  /\ timer' \in 0..Retries /\ (timer' # NoRetry \/ queued' => settings.auto)
  /\ Recovers(tasks[t])' /\ (runs' = runs \/ ~recovering)
  /\ Dead' => \/ Cares(tasks[t])'
              \/ Dead /\ ~Cares(tasks[t]) /\ Steady
              \/ \E u \in Tasks : u # t /\ Cares(tasks[u])'

\* What t becomes in a step that leaves the wish alone.
Hands(c, r) ==
  /\ Recovers(r)
  /\ Dead /\ Cares(c) => Cares(r) \/ (userDisc /\ ~Leaving(c))

LEMMA PassesOn ==
  ASSUME Wished, NEW t \in Tasks, Known(t), Alike, NEW r, tasks' = [tasks EXCEPT ![t] = r],
       Hands(tasks[t], r)
  PROVE  Tends(t)
  <1>1. tasks'[t] = r /\ \A u \in Tasks : u # t => tasks'[u] = tasks[u]
    BY DEF Known
  <1>2. Recovers(tasks[t])'
    BY <1>1 DEF Hands, Alike, Wish, Recovers, HasLock
  <1>3. ASSUME Dead', Cares(tasks[t]), ~Cares(tasks[t])'
        PROVE  \E u \in Tasks : u # t /\ Cares(tasks[u])'
    <2>1. Dead /\ ~Cares(r)
      BY <1>1, <1>3 DEF Alike, Wish, Dead, Running, Cares, Rebuilding, Failing, LooksAt,
           HasLock, Leaving, ForCore, Dropping
    <2>2. userDisc /\ ~Leaving(tasks[t])
      BY <1>3, <2>1 DEF Hands
    <2>3. PICK u \in Tasks : Leaving(tasks[u])
      BY <2>2 DEF Wished, Inv, CleanInv
    <2>4. u # t /\ tasks'[u] = tasks[u]
      BY <1>1, <2>2, <2>3
    <2> QED
      BY <2>3, <2>4 DEF Cares, Leaving, ForCore
  <1>4. Dead' => Dead
    BY DEF Alike, Wish, Dead, Running
  <1> QED
    BY <1>1, <1>2, <1>3, <1>4 DEF Tends, Alike, Wish, Steady, Wished, WishInv

LEMMA TendsKeeps ==
  ASSUME Wished, NEW t \in Tasks, Tends(t)
  PROVE  WishInv'
  <1>1. ASSUME NEW u \in Tasks, u # t PROVE tasks'[u] = tasks[u]
    BY <1>1 DEF Tends
  <1>2. ASSUME NEW u \in Tasks PROVE Recovers(tasks[u])'
    <2>1. CASE u # t
      <3>1. HasLock(tasks[u]) => recovering
        BY DEF Wished, SharedInv, LockInv
      <3> QED
        BY <1>1, <2>1, <3>1 DEF Tends, Wished, WishInv, Recovers, HasLock
    <2> QED
      BY <2>1 DEF Tends
  <1>3. ASSUME Dead', Dead, ~Cares(tasks[t]), Steady
        PROVE  \E u \in Tasks : Cares(tasks[u])'
    <2>1. PICK u \in Tasks : u # t /\ Cares(tasks[u])
      BY <1>3 DEF Wished, WishInv
    <2>2. tasks'[u] = tasks[u] /\ UNCHANGED <<gen, dgen, rgen, settings>>
      BY <1>1, <2>1 DEF Tends
    <2>3. Rebuilding(tasks[u]) => Rebuilding(tasks[u])'
      BY <2>2 DEF Rebuilding
    <2>4. Failing(tasks[u]) => Failing(tasks[u])'
      BY <1>3, <2>2 DEF Failing, Steady
    <2>5. LooksAt(tasks[u]) => LooksAt(tasks[u])'
      BY <1>3, <2>2 DEF LooksAt, Steady, Dropping
    <2> QED
      BY <1>3, <2>1, <2>2, <2>3, <2>4, <2>5 DEF Cares, Steady, HasLock, Leaving, ForCore
  <1> QED
    BY <1>2, <1>3 DEF Tends, WishInv

\* The kill switch.
LEMMA ArmTends ==
  ASSUME Wished, NEW t \in Tasks, Arm(t)
  PROVE  Tends(t)
  <1>1. Known(t) /\ Recovers(tasks[t])
    BY KnownIs DEF Wished, WishInv
  <1>2. tasks[t].pc = "arm" /\ Alike
    BY DEF Arm, Wish, Alike, At, ArmRest, conn, recovery, core, started, Awaits
  <1>3. \/ Becomes(t, To(t, "armCheck"))
        \/ Becomes(t, To(t, "armDelete"))
    BY DEF Arm, Becomes, Awaits
  <1>4. Hands(tasks[t], To(t, "armCheck"))
    BY <1>1, <1>2, NamesAre DEF To, Hands, Dead, Cares, Rebuilding, Failing, LooksAt, Dropping,
          HasLock, Leaving, ForCore, Recovers, Known, Minds, Connecting, Placed, Arming, Lifting,
          InDisconnect, InStart, InConnect, InRecovery, InReapply
  <1>5. Hands(tasks[t], To(t, "armDelete"))
    BY <1>1, <1>2, NamesAre DEF To, Hands, Dead, Cares, Rebuilding, Failing, LooksAt, Dropping,
          HasLock, Leaving, ForCore, Recovers, Known, Minds, Connecting, Placed, Arming, Lifting,
          InDisconnect, InStart, InConnect, InRecovery, InReapply
  <1> QED
    BY <1>1, <1>2, <1>3, <1>4, <1>5, PassesOn DEF Becomes

LEMMA ArmCheckTends ==
  ASSUME Wished, NEW t \in Tasks, ArmCheck(t)
  PROVE  Tends(t)
  <1>1. Known(t) /\ Recovers(tasks[t])
    BY KnownIs DEF Wished, WishInv
  <1>2. tasks[t].pc = "armCheck" /\ Alike
    BY DEF ArmCheck, Wish, Alike, At, ArmRest, conn, recovery, core, started, Goes, Awaits
  <1>3. \/ Becomes(t, [Then(t) EXCEPT !.got = "held"])
        \/ Becomes(t, To(t, "armDelete"))
    BY DEF ArmCheck, Becomes, Goes, Awaits
  <1>4. Hands(tasks[t], [Then(t) EXCEPT !.got = "held"])
    BY <1>1, <1>2, NamesAre DEF To, Then, Hands, Dead, Cares, Rebuilding, Failing, LooksAt,
          Dropping, HasLock, Leaving, ForCore, Recovers, Known, Minds, Connecting, Placed, Arming,
          Lifting, InDisconnect, InStart, InConnect, InRecovery, InReapply
  <1>5. Hands(tasks[t], To(t, "armDelete"))
    BY <1>1, <1>2, NamesAre DEF To, Hands, Dead, Cares, Rebuilding, Failing, LooksAt, Dropping,
          HasLock, Leaving, ForCore, Recovers, Known, Minds, Connecting, Placed, Arming, Lifting,
          InDisconnect, InStart, InConnect, InRecovery, InReapply
  <1> QED
    BY <1>1, <1>2, <1>3, <1>4, <1>5, PassesOn DEF Becomes

LEMMA ArmDeleteTends ==
  ASSUME Wished, NEW t \in Tasks, ArmDelete(t)
  PROVE  Tends(t)
  <1>1. Known(t) /\ Recovers(tasks[t])
    BY KnownIs DEF Wished, WishInv
  <1>2. tasks[t].pc = "armDelete" /\ Alike
    BY DEF ArmDelete, Wish, Alike, At, ArmRest, conn, recovery, core, started, Awaits
  <1>3. Becomes(t, To(t, "armAdd"))
    BY DEF ArmDelete, Becomes, Awaits
  <1>4. Hands(tasks[t], To(t, "armAdd"))
    BY <1>1, <1>2, NamesAre DEF To, Hands, Dead, Cares, Rebuilding, Failing, LooksAt, Dropping,
          HasLock, Leaving, ForCore, Recovers, Known, Minds, Connecting, Placed, Arming, Lifting,
          InDisconnect, InStart, InConnect, InRecovery, InReapply
  <1> QED
    BY <1>1, <1>2, <1>3, <1>4, PassesOn DEF Becomes

LEMMA ArmAddTends ==
  ASSUME Wished, NEW t \in Tasks, ArmAdd(t)
  PROVE  Tends(t)
  <1>1. Known(t) /\ Recovers(tasks[t])
    BY KnownIs DEF Wished, WishInv
  <1>2. tasks[t].pc = "armAdd" /\ Alike
    BY DEF ArmAdd, Wish, Alike, At, ArmRest, conn, recovery, core, started, Goes, Awaits
  <1>3. \/ Becomes(t, To(t, "armAdded"))
        \/ Becomes(t, [Then(t) EXCEPT !.got = "no"])
    BY DEF ArmAdd, Becomes, Goes, Awaits
  <1>4. Hands(tasks[t], To(t, "armAdded"))
    BY <1>1, <1>2, NamesAre DEF To, Hands, Dead, Cares, Rebuilding, Failing, LooksAt, Dropping,
          HasLock, Leaving, ForCore, Recovers, Known, Minds, Connecting, Placed, Arming, Lifting,
          InDisconnect, InStart, InConnect, InRecovery, InReapply
  <1>5. Hands(tasks[t], [Then(t) EXCEPT !.got = "no"])
    BY <1>1, <1>2, NamesAre DEF To, Then, Hands, Dead, Cares, Rebuilding, Failing, LooksAt,
          Dropping, HasLock, Leaving, ForCore, Recovers, Known, Minds, Connecting, Placed, Arming,
          Lifting, InDisconnect, InStart, InConnect, InRecovery, InReapply
  <1> QED
    BY <1>1, <1>2, <1>3, <1>4, <1>5, PassesOn DEF Becomes

LEMMA ArmAddedTends ==
  ASSUME Wished, NEW t \in Tasks, ArmAdded(t)
  PROVE  Tends(t)
  <1>1. Known(t) /\ Recovers(tasks[t])
    BY KnownIs DEF Wished, WishInv
  <1>2. tasks[t].pc = "armAdded" /\ Alike
    BY DEF ArmAdded, Wish, Alike, At, ArmRest, conn, recovery, core, started, Goes
  <1>3. Becomes(t, [Then(t) EXCEPT !.got = "added"])
    BY DEF ArmAdded, Becomes, Goes
  <1>4. Hands(tasks[t], [Then(t) EXCEPT !.got = "added"])
    BY <1>1, <1>2, NamesAre DEF To, Then, Hands, Dead, Cares, Rebuilding, Failing, LooksAt,
          Dropping, HasLock, Leaving, ForCore, Recovers, Known, Minds, Connecting, Placed, Arming,
          Lifting, InDisconnect, InStart, InConnect, InRecovery, InReapply
  <1> QED
    BY <1>1, <1>2, <1>3, <1>4, PassesOn DEF Becomes

LEMMA DisarmTends ==
  ASSUME Wished, NEW t \in Tasks, Disarm(t)
  PROVE  Tends(t)
  <1>1. Known(t) /\ Recovers(tasks[t])
    BY KnownIs DEF Wished, WishInv
  <1>2. tasks[t].pc = "disarm" /\ Alike
    BY DEF Disarm, Wish, Alike, At, ArmRest, conn, recovery, core, started, Awaits
  <1>3. Becomes(t, To(t, "disarming"))
    BY DEF Disarm, Becomes, Awaits
  <1>4. Hands(tasks[t], To(t, "disarming"))
    BY <1>1, <1>2, NamesAre DEF To, Hands, Dead, Cares, Rebuilding, Failing, LooksAt, Dropping,
          HasLock, Leaving, ForCore, Recovers, Known, Minds, Connecting, Placed, Arming, Lifting,
          InDisconnect, InStart, InConnect, InRecovery, InReapply
  <1> QED
    BY <1>1, <1>2, <1>3, <1>4, PassesOn DEF Becomes

LEMMA DisarmingTends ==
  ASSUME Wished, NEW t \in Tasks, Disarming(t)
  PROVE  Tends(t)
  <1>1. Known(t) /\ Recovers(tasks[t])
    BY KnownIs DEF Wished, WishInv
  <1>2. tasks[t].pc = "disarming" /\ Alike
    BY DEF Disarming, Wish, Alike, At, ArmRest, conn, recovery, core, started, Goes
  <1>3. Becomes(t, Then(t))
    BY DEF Disarming, Becomes, Goes
  <1>4. Hands(tasks[t], Then(t))
    BY <1>1, <1>2, NamesAre DEF To, Then, Hands, Dead, Cares, Rebuilding, Failing, LooksAt,
          Dropping, HasLock, Leaving, ForCore, Recovers, Known, Minds, Connecting, Placed, Arming,
          Lifting, InDisconnect, InStart, InConnect, InRecovery, InReapply
  <1> QED
    BY <1>1, <1>2, <1>3, <1>4, PassesOn DEF Becomes

\* connectOnce.
LEMMA PrepareTends ==
  ASSUME Wished, NEW t \in Tasks, Prepare(t)
  PROVE  Tends(t)
  <1>1. /\ Known(t) /\ Recovers(tasks[t]) /\ made \in Nat
        /\ timer \in 0..Retries /\ (timer # NoRetry \/ queued => settings.auto)
    BY KnownIs DEF Wished, WishInv, Inv, CleanInv
  <1>2. tasks[t].pc = "prepare" /\ UNCHANGED <<gen, dgen, rgen, settings>>
    BY DEF Prepare, At, conn, recovery, core, started, Goes
  <1>3. \/ Becomes(t, Answer(t, "stale")) /\ Stale(t) /\ Alike
        \/ Becomes(t, Answer(t, "failed")) /\ ~Stale(t) /\ UNCHANGED Due
        \/ Becomes(t, [To(t, "start") EXCEPT !.tn = tun']) /\ UNCHANGED Due
    BY DEF Prepare, conn, recovery, core, started, Becomes, Goes, Alike, Wish, Due
  <1>4. CASE Becomes(t, Answer(t, "stale")) /\ Stale(t) /\ Alike
    <2>1. Hands(tasks[t], Answer(t, "stale"))
      BY <1>1, <1>2, <1>4, NamesAre DEF Answer, Stale, Hands, Dead, Cares, Rebuilding, Failing,
            LooksAt, Dropping, HasLock, Leaving, ForCore, Recovers, Known, Minds, Connecting, Placed,
            Arming, Lifting, InDisconnect, InStart, InConnect, InRecovery, InReapply
    <2> QED
      BY <1>1, <1>4, <2>1, PassesOn DEF Becomes
  <1>5. CASE Becomes(t, Answer(t, "failed")) /\ ~Stale(t) /\ UNCHANGED Due
    <2>1. Recovers(tasks[t])' /\ (Dead' => Cares(tasks[t])')
      BY <1>1, <1>2, <1>5, NamesAre DEF Becomes, Due, Running, Answer, Stale, Dead, Cares, Rebuilding,
            Failing, LooksAt, Dropping, HasLock, Leaving, ForCore, Recovers, Known, Minds, Connecting,
            Placed, Arming, Lifting, InDisconnect, InStart, InConnect, InRecovery, InReapply
    <2> QED
      BY <1>1, <1>2, <1>5, <2>1 DEF Tends, Becomes, Due, Known
  <1>6. CASE Becomes(t, [To(t, "start") EXCEPT !.tn = tun']) /\ UNCHANGED Due
    <2>1. Recovers(tasks[t])' /\ (Dead' => Cares(tasks[t])')
      BY <1>1, <1>2, <1>6, NamesAre DEF Becomes, Due, Running, To, Dead, Cares, Rebuilding, Failing,
            LooksAt, Dropping, HasLock, Leaving, ForCore, Recovers, Known, Minds, Connecting, Placed,
            Arming, Lifting, InDisconnect, InStart, InConnect, InRecovery, InReapply
    <2> QED
      BY <1>1, <1>2, <1>6, <2>1 DEF Tends, Becomes, Due, Known
  <1> QED
    BY <1>3, <1>4, <1>5, <1>6

LEMMA StartTends ==
  ASSUME Wished, NEW t \in Tasks, Start(t)
  PROVE  Tends(t)
  <1>1. /\ Known(t) /\ Recovers(tasks[t]) /\ made \in Nat
        /\ timer \in 0..Retries /\ (timer # NoRetry \/ queued => settings.auto)
    BY KnownIs DEF Wished, WishInv, Inv, CleanInv
  <1>2. tasks[t].pc = "start" /\ UNCHANGED <<gen, dgen, rgen, settings>>
    BY DEF Start, At, StartRest, conn, recovery, core, started, Awaits, Spawn, StopsCore
  <1>3. \/ Becomes(t, [To(t, "starting") EXCEPT !.on = proc]) /\ Alike
        \/ Becomes(t, [To(t, "grace") EXCEPT !.on = made']) /\ proc' = made + 1 /\ UNCHANGED Due
    BY DEF Start, StartRest, conn, recovery, core, started, Becomes, Awaits, Spawn, StopsCore,
          Running, Alike, Wish, Due
  <1>4. CASE Becomes(t, [To(t, "starting") EXCEPT !.on = proc]) /\ Alike
    <2>1. Hands(tasks[t], [To(t, "starting") EXCEPT !.on = proc])
      BY <1>1, <1>2, <1>4, NamesAre DEF To, Hands, Dead, Cares, Rebuilding, Failing, LooksAt,
            Dropping, HasLock, Leaving, ForCore, Recovers, Known, Minds, Connecting, Placed, Arming,
            Lifting, InDisconnect, InStart, InConnect, InRecovery, InReapply
    <2> QED
      BY <1>1, <1>4, <2>1, PassesOn DEF Becomes
  <1>5. CASE Becomes(t, [To(t, "grace") EXCEPT !.on = made']) /\ proc' = made + 1 /\ UNCHANGED Due
    <2>1. Recovers(tasks[t])' /\ (Dead' => Cares(tasks[t])')
      BY <1>1, <1>2, <1>5, NamesAre DEF Becomes, Due, Running, None, To, Dead, Cares, Rebuilding,
            Failing, LooksAt, Dropping, HasLock, Leaving, ForCore, Recovers, Known, Minds, Connecting,
            Placed, Arming, Lifting, InDisconnect, InStart, InConnect, InRecovery, InReapply
    <2> QED
      BY <1>1, <1>2, <1>5, <2>1 DEF Tends, Becomes, Due, Known
  <1> QED
    BY <1>3, <1>4, <1>5

LEMMA StartingTends ==
  ASSUME Wished, NEW t \in Tasks, Starting(t)
  PROVE  Tends(t)
  <1>1. /\ Known(t) /\ Recovers(tasks[t]) /\ made \in Nat
        /\ timer \in 0..Retries /\ (timer # NoRetry \/ queued => settings.auto)
    BY KnownIs DEF Wished, WishInv, Inv, CleanInv
  <1>2. tasks[t].pc = "starting" /\ UNCHANGED <<gen, dgen, rgen, settings>>
    BY DEF Starting, At, StartRest, conn, recovery, core, started, Awaits, Spawn
  <1>3. Becomes(t, [To(t, "grace") EXCEPT !.on = made']) /\ proc' = made + 1 /\ UNCHANGED Due
    BY DEF Starting, StartRest, conn, recovery, core, started, Becomes, Awaits, Spawn, Due
  <1>4. CASE Becomes(t, [To(t, "grace") EXCEPT !.on = made']) /\ proc' = made + 1 /\ UNCHANGED Due
    <2>1. Recovers(tasks[t])' /\ (Dead' => Cares(tasks[t])')
      BY <1>1, <1>2, <1>4, NamesAre DEF Becomes, Due, Running, None, To, Dead, Cares, Rebuilding,
            Failing, LooksAt, Dropping, HasLock, Leaving, ForCore, Recovers, Known, Minds, Connecting,
            Placed, Arming, Lifting, InDisconnect, InStart, InConnect, InRecovery, InReapply
    <2> QED
      BY <1>1, <1>2, <1>4, <2>1 DEF Tends, Becomes, Due, Known
  <1> QED
    BY <1>3, <1>4

LEMMA CrashedTends ==
  ASSUME Wished, NEW t \in Tasks, Crashed(t)
  PROVE  Tends(t)
  <1>1. Known(t) /\ Recovers(tasks[t])
    BY KnownIs DEF Wished, WishInv
  <1>2. tasks[t].pc = "grace" /\ tasks[t].my # None /\ Alike
    BY DEF Crashed, Wish, Alike, At, conn, recovery, core, started, Goes
  <1>3. Becomes(t, Answer(t, Overtaken(t)))
    BY DEF Crashed, Becomes, Goes
  <1>4. Hands(tasks[t], Answer(t, Overtaken(t)))
    BY <1>1, <1>2, NamesAre DEF Answer, Overtaken, Stale, Hands, Dead, Cares, Rebuilding, Failing,
          LooksAt, Dropping, HasLock, Leaving, ForCore, Recovers, Known, Minds, Connecting, Placed,
          Arming, Lifting, InDisconnect, InStart, InConnect, InRecovery, InReapply
  <1> QED
    BY <1>1, <1>2, <1>3, <1>4, PassesOn DEF Becomes

LEMMA StartedTends ==
  ASSUME Wished, NEW t \in Tasks, Started(t)
  PROVE  Tends(t)
  <1>1. /\ Known(t) /\ Recovers(tasks[t]) /\ made \in Nat
        /\ timer \in 0..Retries /\ (timer # NoRetry \/ queued => settings.auto)
    BY KnownIs DEF Wished, WishInv, Inv, CleanInv
  <1>2. tasks[t].pc = "grace" /\ tasks[t].my # None /\ UNCHANGED <<gen, dgen, rgen, settings>>
    BY DEF Started, At, recovery, core, started, Goes, Awaits, AwaitsProxy
  <1>3. \/ Becomes(t, [tasks[t] EXCEPT !.own = IF proc = tasks[t].on THEN proc ELSE None, !.on = 0,
                !.pc = "giveWay"]) /\ Stale(t) /\ Alike
        \/ Becomes(t, [tasks[t] EXCEPT !.own = IF proc = tasks[t].on THEN proc ELSE None, !.on = 0,
                !.pc = "proxied"]) /\ ~Stale(t) /\ UNCHANGED Due
    BY DEF Started, recovery, core, started, Becomes, Goes, Awaits, AwaitsProxy, Alike, Wish, Due
  <1>4. CASE Becomes(t, [tasks[t] EXCEPT !.own = IF proc = tasks[t].on THEN proc ELSE None, !.on = 0,
             !.pc = "giveWay"]) /\ Stale(t) /\ Alike
    <2>1. Hands(tasks[t], [tasks[t] EXCEPT !.own = IF proc = tasks[t].on THEN proc ELSE None, !.on = 0,
               !.pc = "giveWay"])
      BY <1>1, <1>2, <1>4, NamesAre DEF Stale, Hands, Dead, Cares, Rebuilding, Failing, LooksAt,
            Dropping, HasLock, Leaving, ForCore, Recovers, Known, Minds, Connecting, Placed, Arming,
            Lifting, InDisconnect, InStart, InConnect, InRecovery, InReapply
    <2> QED
      BY <1>1, <1>4, <2>1, PassesOn DEF Becomes
  <1>5. CASE Becomes(t, [tasks[t] EXCEPT !.own = IF proc = tasks[t].on THEN proc ELSE None, !.on = 0,
             !.pc = "proxied"]) /\ ~Stale(t) /\ UNCHANGED Due
    <2>1. Recovers(tasks[t])' /\ (Dead' => Cares(tasks[t])')
      BY <1>1, <1>2, <1>5, NamesAre DEF Becomes, Due, Running, Stale, Dead, Cares, Rebuilding,
            Failing, LooksAt, Dropping, HasLock, Leaving, ForCore, Recovers, Known, Minds, Connecting,
            Placed, Arming, Lifting, InDisconnect, InStart, InConnect, InRecovery, InReapply
    <2> QED
      BY <1>1, <1>2, <1>5, <2>1 DEF Tends, Becomes, Due, Known
  <1> QED
    BY <1>3, <1>4, <1>5

LEMMA ProxiedTends ==
  ASSUME Wished, NEW t \in Tasks, Proxied(t)
  PROVE  Tends(t)
  <1>1. Known(t) /\ Recovers(tasks[t])
    BY KnownIs DEF Wished, WishInv
  <1>2. tasks[t].pc = "proxied" /\ Alike
    BY DEF Proxied, Wish, Alike, At, conn, recovery, core, started, Goes, Awaits
  <1>3. \/ Becomes(t, To(t, "giveWay")) /\ (Stale(t))
        \/ Becomes(t, To(t, "lan"))
        \/ Becomes(t, To(t, "tunnel"))
        \/ Becomes(t, [To(t, "arm") EXCEPT !.next = "swap"])
        \/ Becomes(t, To(t, "swap"))
    BY DEF Proxied, Becomes, Goes, Awaits
  <1>4. ASSUME Stale(t) PROVE Hands(tasks[t], To(t, "giveWay"))
    BY <1>1, <1>2, <1>4, NamesAre DEF To, Hands, Dead, Cares, Rebuilding, Failing, LooksAt,
          Dropping, HasLock, Leaving, ForCore, Recovers, Known, Minds, Connecting, Placed, Arming,
          Lifting, InDisconnect, InStart, InConnect, InRecovery, InReapply, Stale
  <1>5. Hands(tasks[t], To(t, "lan"))
    BY <1>1, <1>2, NamesAre DEF To, Hands, Dead, Cares, Rebuilding, Failing, LooksAt, Dropping,
          HasLock, Leaving, ForCore, Recovers, Known, Minds, Connecting, Placed, Arming, Lifting,
          InDisconnect, InStart, InConnect, InRecovery, InReapply
  <1>6. Hands(tasks[t], To(t, "tunnel"))
    BY <1>1, <1>2, NamesAre DEF To, Hands, Dead, Cares, Rebuilding, Failing, LooksAt, Dropping,
          HasLock, Leaving, ForCore, Recovers, Known, Minds, Connecting, Placed, Arming, Lifting,
          InDisconnect, InStart, InConnect, InRecovery, InReapply
  <1>7. Hands(tasks[t], [To(t, "arm") EXCEPT !.next = "swap"])
    BY <1>1, <1>2, NamesAre DEF To, Hands, Dead, Cares, Rebuilding, Failing, LooksAt, Dropping,
          HasLock, Leaving, ForCore, Recovers, Known, Minds, Connecting, Placed, Arming, Lifting,
          InDisconnect, InStart, InConnect, InRecovery, InReapply
  <1>8. Hands(tasks[t], To(t, "swap"))
    BY <1>1, <1>2, NamesAre DEF To, Hands, Dead, Cares, Rebuilding, Failing, LooksAt, Dropping,
          HasLock, Leaving, ForCore, Recovers, Known, Minds, Connecting, Placed, Arming, Lifting,
          InDisconnect, InStart, InConnect, InRecovery, InReapply
  <1> QED
    BY <1>1, <1>2, <1>3, <1>4, <1>5, <1>6, <1>7, <1>8, PassesOn DEF Becomes

LEMMA SwapTends ==
  ASSUME Wished, NEW t \in Tasks, Swap(t)
  PROVE  Tends(t)
  <1>1. Known(t) /\ Recovers(tasks[t])
    BY KnownIs DEF Wished, WishInv
  <1>2. tasks[t].pc = "swap" /\ Alike
    BY DEF Swap, Wish, Alike, At, ConnectRest, conn, recovery, core, started, Awaits
  <1>3. Becomes(t, [To(t, "tunnel") EXCEPT !.sw = (@ \/ tasks[t].got = "added"), !.got = "no"])
    BY DEF Swap, Becomes, Awaits
  <1>4. Hands(tasks[t], [To(t, "tunnel") EXCEPT !.sw = (@ \/ tasks[t].got = "added"), !.got = "no"])
    BY <1>1, <1>2, NamesAre DEF To, Hands, Dead, Cares, Rebuilding, Failing, LooksAt, Dropping,
          HasLock, Leaving, ForCore, Recovers, Known, Minds, Connecting, Placed, Arming, Lifting,
          InDisconnect, InStart, InConnect, InRecovery, InReapply
  <1> QED
    BY <1>1, <1>2, <1>3, <1>4, PassesOn DEF Becomes

LEMMA TunnelTends ==
  ASSUME Wished, NEW t \in Tasks, Tunnel(t)
  PROVE  Tends(t)
  <1>1. Known(t) /\ Recovers(tasks[t])
    BY KnownIs DEF Wished, WishInv
  <1>2. tasks[t].pc = "tunnel" /\ Alike
    BY DEF Tunnel, Wish, Alike, At, ConnectRest, conn, recovery, core, started, Awaits
  <1>3. \/ Becomes(t, To(t, "tunnelled"))
        \/ Becomes(t, [To(t, "tunnelled") EXCEPT !.terr = TRUE])
    BY DEF Tunnel, Becomes, Awaits
  <1>4. Hands(tasks[t], To(t, "tunnelled"))
    BY <1>1, <1>2, NamesAre DEF To, Hands, Dead, Cares, Rebuilding, Failing, LooksAt, Dropping,
          HasLock, Leaving, ForCore, Recovers, Known, Minds, Connecting, Placed, Arming, Lifting,
          InDisconnect, InStart, InConnect, InRecovery, InReapply
  <1>5. Hands(tasks[t], [To(t, "tunnelled") EXCEPT !.terr = TRUE])
    BY <1>1, <1>2, NamesAre DEF To, Hands, Dead, Cares, Rebuilding, Failing, LooksAt, Dropping,
          HasLock, Leaving, ForCore, Recovers, Known, Minds, Connecting, Placed, Arming, Lifting,
          InDisconnect, InStart, InConnect, InRecovery, InReapply
  <1> QED
    BY <1>1, <1>2, <1>3, <1>4, <1>5, PassesOn DEF Becomes

LEMMA TunnelledTends ==
  ASSUME Wished, NEW t \in Tasks, Tunnelled(t)
  PROVE  Tends(t)
  <1>1. Known(t) /\ Recovers(tasks[t])
    BY KnownIs DEF Wished, WishInv
  <1>2. tasks[t].pc = "tunnelled" /\ Alike
    BY DEF Tunnelled, Wish, Alike, At, ConnectRest, conn, recovery, core, started, Awaits
  <1>3. \/ Becomes(t, To(t, "giveWay")) /\ (Stale(t))
        \/ Becomes(t, To(t, "lan"))
    BY DEF Tunnelled, Becomes, Awaits
  <1>4. ASSUME Stale(t) PROVE Hands(tasks[t], To(t, "giveWay"))
    BY <1>1, <1>2, <1>4, NamesAre DEF To, Hands, Dead, Cares, Rebuilding, Failing, LooksAt,
          Dropping, HasLock, Leaving, ForCore, Recovers, Known, Minds, Connecting, Placed, Arming,
          Lifting, InDisconnect, InStart, InConnect, InRecovery, InReapply, Stale
  <1>5. Hands(tasks[t], To(t, "lan"))
    BY <1>1, <1>2, NamesAre DEF To, Hands, Dead, Cares, Rebuilding, Failing, LooksAt, Dropping,
          HasLock, Leaving, ForCore, Recovers, Known, Minds, Connecting, Placed, Arming, Lifting,
          InDisconnect, InStart, InConnect, InRecovery, InReapply
  <1> QED
    BY <1>1, <1>2, <1>3, <1>4, <1>5, PassesOn DEF Becomes

LEMMA LanTends ==
  ASSUME Wished, NEW t \in Tasks, Lan(t)
  PROVE  Tends(t)
  <1>1. Known(t) /\ Recovers(tasks[t])
    BY KnownIs DEF Wished, WishInv
  <1>2. tasks[t].pc = "lan" /\ Alike
    BY DEF Lan, Wish, Alike, At, ConnectRest, conn, recovery, core, started, Goes
  <1>3. \/ Becomes(t, [To(t, "disarm") EXCEPT !.next = "last"])
        \/ Becomes(t, To(t, "last"))
    BY DEF Lan, Becomes, Goes
  <1>4. Hands(tasks[t], [To(t, "disarm") EXCEPT !.next = "last"])
    BY <1>1, <1>2, NamesAre DEF To, Hands, Dead, Cares, Rebuilding, Failing, LooksAt, Dropping,
          HasLock, Leaving, ForCore, Recovers, Known, Minds, Connecting, Placed, Arming, Lifting,
          InDisconnect, InStart, InConnect, InRecovery, InReapply
  <1>5. Hands(tasks[t], To(t, "last"))
    BY <1>1, <1>2, NamesAre DEF To, Hands, Dead, Cares, Rebuilding, Failing, LooksAt, Dropping,
          HasLock, Leaving, ForCore, Recovers, Known, Minds, Connecting, Placed, Arming, Lifting,
          InDisconnect, InStart, InConnect, InRecovery, InReapply
  <1> QED
    BY <1>1, <1>2, <1>3, <1>4, <1>5, PassesOn DEF Becomes

LEMMA LastTends ==
  ASSUME Wished, NEW t \in Tasks, Last(t)
  PROVE  Tends(t)
  <1>1. /\ Known(t) /\ Recovers(tasks[t]) /\ made \in Nat
        /\ timer \in 0..Retries /\ (timer # NoRetry \/ queued => settings.auto)
    BY KnownIs DEF Wished, WishInv, Inv, CleanInv
  <1>2. tasks[t].pc = "last" /\ UNCHANGED <<gen, dgen, rgen, settings>>
    BY DEF Last, At, core, started, Goes
  <1>3. \/ Becomes(t, To(t, "giveWay")) /\ Stale(t) /\ Alike
        \/ Becomes(t, Answer(t, "failed")) /\ Alike
        \/ Becomes(t, Answer(t, IF tasks[t].terr THEN "tunless" ELSE "ok")) /\ proc' # None /\
                timer' \in {timer, NoRetry} /\ (queued' => queued) /\ runs' = runs
    BY DEF Last, core, started, Becomes, Goes, Running, Alike, Wish, None
  <1>4. CASE Becomes(t, To(t, "giveWay")) /\ Stale(t) /\ Alike
    <2>1. Hands(tasks[t], To(t, "giveWay"))
      BY <1>1, <1>2, <1>4, NamesAre DEF To, Stale, Hands, Dead, Cares, Rebuilding, Failing, LooksAt,
            Dropping, HasLock, Leaving, ForCore, Recovers, Known, Minds, Connecting, Placed, Arming,
            Lifting, InDisconnect, InStart, InConnect, InRecovery, InReapply
    <2> QED
      BY <1>1, <1>4, <2>1, PassesOn DEF Becomes
  <1>5. CASE Becomes(t, Answer(t, "failed")) /\ Alike
    <2>1. Hands(tasks[t], Answer(t, "failed"))
      BY <1>1, <1>2, <1>5, NamesAre DEF Answer, Hands, Dead, Cares, Rebuilding, Failing, LooksAt,
            Dropping, HasLock, Leaving, ForCore, Recovers, Known, Minds, Connecting, Placed, Arming,
            Lifting, InDisconnect, InStart, InConnect, InRecovery, InReapply
    <2> QED
      BY <1>1, <1>5, <2>1, PassesOn DEF Becomes
  <1>6. CASE Becomes(t, Answer(t, IF tasks[t].terr THEN "tunless" ELSE "ok")) /\ proc' # None /\
             timer' \in {timer, NoRetry} /\ (queued' => queued) /\ runs' = runs
    <2>1. Recovers(tasks[t])' /\ (Dead' => Cares(tasks[t])')
      BY <1>1, <1>2, <1>6, NamesAre DEF Becomes, Due, Running, Answer, Dead, Cares, Rebuilding,
            Failing, LooksAt, Dropping, HasLock, Leaving, ForCore, Recovers, Known, Minds, Connecting,
            Placed, Arming, Lifting, InDisconnect, InStart, InConnect, InRecovery, InReapply
    <2> QED
      BY <1>1, <1>2, <1>6, <2>1, ConnectionAssumption DEF Tends, Becomes, Due, Known, NoRetry
  <1> QED
    BY <1>3, <1>4, <1>5, <1>6

LEMMA GiveWayTends ==
  ASSUME Wished, NEW t \in Tasks, GiveWay(t)
  PROVE  Tends(t)
  <1>1. Known(t) /\ Recovers(tasks[t])
    BY KnownIs DEF Wished, WishInv
  <1>2. tasks[t].pc = "giveWay" /\ Alike
    BY DEF GiveWay, Wish, Alike, At, conn, recovery, core, started, Goes, Awaits, StopsCore
  <1>3. \/ Becomes(t, [To(t, "gaveCore") EXCEPT !.on = proc])
        \/ Becomes(t, [To(t, "disarm") EXCEPT !.next = "gone"])
        \/ Becomes(t, To(t, "gone"))
    BY DEF GiveWay, Becomes, Goes, Awaits, StopsCore
  <1>4. Hands(tasks[t], [To(t, "gaveCore") EXCEPT !.on = proc])
    BY <1>1, <1>2, NamesAre DEF To, Hands, Dead, Cares, Rebuilding, Failing, LooksAt, Dropping,
          HasLock, Leaving, ForCore, Recovers, Known, Minds, Connecting, Placed, Arming, Lifting,
          InDisconnect, InStart, InConnect, InRecovery, InReapply
  <1>5. Hands(tasks[t], [To(t, "disarm") EXCEPT !.next = "gone"])
    BY <1>1, <1>2, NamesAre DEF To, Hands, Dead, Cares, Rebuilding, Failing, LooksAt, Dropping,
          HasLock, Leaving, ForCore, Recovers, Known, Minds, Connecting, Placed, Arming, Lifting,
          InDisconnect, InStart, InConnect, InRecovery, InReapply
  <1>6. Hands(tasks[t], To(t, "gone"))
    BY <1>1, <1>2, NamesAre DEF To, Hands, Dead, Cares, Rebuilding, Failing, LooksAt, Dropping,
          HasLock, Leaving, ForCore, Recovers, Known, Minds, Connecting, Placed, Arming, Lifting,
          InDisconnect, InStart, InConnect, InRecovery, InReapply
  <1> QED
    BY <1>1, <1>2, <1>3, <1>4, <1>5, <1>6, PassesOn DEF Becomes

LEMMA GaveCoreTends ==
  ASSUME Wished, NEW t \in Tasks, GaveCore(t)
  PROVE  Tends(t)
  <1>1. Known(t) /\ Recovers(tasks[t])
    BY KnownIs DEF Wished, WishInv
  <1>2. tasks[t].pc = "gaveCore" /\ Alike
    BY DEF GaveCore, Wish, Alike, At, conn, recovery, core, started, Goes
  <1>3. \/ Becomes(t, [To(t, "disarm") EXCEPT !.next = "gone"])
        \/ Becomes(t, To(t, "gone"))
    BY DEF GaveCore, Becomes, Goes
  <1>4. Hands(tasks[t], [To(t, "disarm") EXCEPT !.next = "gone"])
    BY <1>1, <1>2, NamesAre DEF To, Hands, Dead, Cares, Rebuilding, Failing, LooksAt, Dropping,
          HasLock, Leaving, ForCore, Recovers, Known, Minds, Connecting, Placed, Arming, Lifting,
          InDisconnect, InStart, InConnect, InRecovery, InReapply
  <1>5. Hands(tasks[t], To(t, "gone"))
    BY <1>1, <1>2, NamesAre DEF To, Hands, Dead, Cares, Rebuilding, Failing, LooksAt, Dropping,
          HasLock, Leaving, ForCore, Recovers, Known, Minds, Connecting, Placed, Arming, Lifting,
          InDisconnect, InStart, InConnect, InRecovery, InReapply
  <1> QED
    BY <1>1, <1>2, <1>3, <1>4, <1>5, PassesOn DEF Becomes

LEMMA GoneTends ==
  ASSUME Wished, NEW t \in Tasks, Gone(t)
  PROVE  Tends(t)
  <1>1. Known(t) /\ Recovers(tasks[t])
    BY KnownIs DEF Wished, WishInv
  <1>2. tasks[t].pc = "gone" /\ Alike
    BY DEF Gone, Wish, Alike, At, ConnectRest, conn, recovery, core, started, Goes
  <1>3. Becomes(t, Answer(t, "stale"))
    BY DEF Gone, Becomes, Goes
  <1>4. Hands(tasks[t], Answer(t, "stale"))
    BY <1>1, <1>2, NamesAre DEF Answer, Hands, Dead, Cares, Rebuilding, Failing, LooksAt, Dropping,
          HasLock, Leaving, ForCore, Recovers, Known, Minds, Connecting, Placed, Arming, Lifting,
          InDisconnect, InStart, InConnect, InRecovery, InReapply
  <1> QED
    BY <1>1, <1>2, <1>3, <1>4, PassesOn DEF Becomes

\* reapplyConnection.
LEMMA ReapplyTends ==
  ASSUME Wished, NEW t \in Tasks, Reapply(t)
  PROVE  Tends(t)
  <1>1. Known(t) /\ Recovers(tasks[t])
    BY KnownIs DEF Wished, WishInv
  <1>2. tasks[t].pc = "reapply" /\ Alike
    BY DEF Reapply, Wish, Alike, At, ConnectRest, conn, recovery, core, started, Goes
  <1>3. \/ Becomes(t, Return(t, "failed")) /\ (~active \/ ~Running)
        \/ Becomes(t, [To(t, "arm") EXCEPT !.at = gen, !.next = "reapplyArmed"]) /\ (Running)
        \/ Becomes(t, [To(t, "teardown") EXCEPT !.at = gen]) /\ (Running)
    BY DEF Reapply, Becomes, Goes
  <1>4. ASSUME ~active \/ ~Running PROVE Hands(tasks[t], Return(t, "failed"))
    BY <1>1, <1>2, <1>4, NamesAre DEF To, Return, Hands, Dead, Cares, Rebuilding, Failing, LooksAt,
          Dropping, HasLock, Leaving, ForCore, Recovers, Known, Minds, Connecting, Placed, Arming,
          Lifting, InDisconnect, InStart, InConnect, InRecovery, InReapply, Running
  <1>5. ASSUME Running PROVE Hands(tasks[t], [To(t, "arm") EXCEPT !.at = gen, !.next = "reapplyArmed"])
    BY <1>1, <1>2, <1>5, NamesAre DEF To, Hands, Dead, Cares, Rebuilding, Failing, LooksAt,
          Dropping, HasLock, Leaving, ForCore, Recovers, Known, Minds, Connecting, Placed, Arming,
          Lifting, InDisconnect, InStart, InConnect, InRecovery, InReapply, Running
  <1>6. ASSUME Running PROVE Hands(tasks[t], [To(t, "teardown") EXCEPT !.at = gen])
    BY <1>1, <1>2, <1>6, NamesAre DEF To, Hands, Dead, Cares, Rebuilding, Failing, LooksAt,
          Dropping, HasLock, Leaving, ForCore, Recovers, Known, Minds, Connecting, Placed, Arming,
          Lifting, InDisconnect, InStart, InConnect, InRecovery, InReapply, Running
  <1> QED
    BY <1>1, <1>2, <1>3, <1>4, <1>5, <1>6, PassesOn DEF Becomes

LEMMA ReapplyArmedTends ==
  ASSUME Wished, NEW t \in Tasks, ReapplyArmed(t)
  PROVE  Tends(t)
  <1>1. Known(t) /\ Recovers(tasks[t])
    BY KnownIs DEF Wished, WishInv
  <1>2. tasks[t].pc = "reapplyArmed" /\ Alike
    BY DEF ReapplyArmed, Wish, Alike, At, ConnectRest, conn, recovery, core, started, Goes
  <1>3. \/ Becomes(t, [tasks[t] EXCEPT !.armed = @ \/ tasks[t].got # "no", !.got = "no",
                !.pc = "teardown"]) /\ (tasks[t].at = gen)
        \/ Becomes(t, [tasks[t] EXCEPT !.armed = @ \/ tasks[t].got # "no", !.got = "no",
                !.pc = "disarm", !.next = "reapplyStale"]) /\ (tasks[t].at # gen)
        \/ Becomes(t, [tasks[t] EXCEPT !.armed = @ \/ tasks[t].got # "no", !.got = "no",
                !.pc = "reapplyStale"]) /\ (tasks[t].at # gen)
    BY DEF ReapplyArmed, Becomes, Goes
  <1>4. ASSUME tasks[t].at = gen PROVE Hands(tasks[t], [tasks[t] EXCEPT !.armed = @ \/ tasks[t].got # "no", !.got = "no", !.pc = "teardown"])
    BY <1>1, <1>2, <1>4, NamesAre DEF Hands, Dead, Cares, Rebuilding, Failing, LooksAt, Dropping,
          HasLock, Leaving, ForCore, Recovers, Known, Minds, Connecting, Placed, Arming, Lifting,
          InDisconnect, InStart, InConnect, InRecovery, InReapply
  <1>5. ASSUME tasks[t].at # gen PROVE Hands(tasks[t], [tasks[t] EXCEPT !.armed = @ \/ tasks[t].got # "no", !.got = "no", !.pc = "disarm", !.next = "reapplyStale"])
    BY <1>1, <1>2, <1>5, NamesAre DEF Hands, Dead, Cares, Rebuilding, Failing, LooksAt, Dropping,
          HasLock, Leaving, ForCore, Recovers, Known, Minds, Connecting, Placed, Arming, Lifting,
          InDisconnect, InStart, InConnect, InRecovery, InReapply
  <1>6. ASSUME tasks[t].at # gen PROVE Hands(tasks[t], [tasks[t] EXCEPT !.armed = @ \/ tasks[t].got # "no", !.got = "no", !.pc = "reapplyStale"])
    BY <1>1, <1>2, <1>6, NamesAre DEF Hands, Dead, Cares, Rebuilding, Failing, LooksAt, Dropping,
          HasLock, Leaving, ForCore, Recovers, Known, Minds, Connecting, Placed, Arming, Lifting,
          InDisconnect, InStart, InConnect, InRecovery, InReapply
  <1> QED
    BY <1>1, <1>2, <1>3, <1>4, <1>5, <1>6, PassesOn DEF Becomes

LEMMA ReapplyStaleTends ==
  ASSUME Wished, NEW t \in Tasks, ReapplyStale(t)
  PROVE  Tends(t)
  <1>1. Known(t) /\ Recovers(tasks[t])
    BY KnownIs DEF Wished, WishInv
  <1>2. tasks[t].pc = "reapplyStale" /\ Alike
    BY DEF ReapplyStale, Wish, Alike, At, ConnectRest, conn, recovery, core, started, Goes
  <1>3. Becomes(t, Return(t, "stale"))
    BY DEF ReapplyStale, Becomes, Goes
  <1>4. Hands(tasks[t], Return(t, "stale"))
    BY <1>1, <1>2, NamesAre DEF To, Return, Hands, Dead, Cares, Rebuilding, Failing, LooksAt,
          Dropping, HasLock, Leaving, ForCore, Recovers, Known, Minds, Connecting, Placed, Arming,
          Lifting, InDisconnect, InStart, InConnect, InRecovery, InReapply
  <1> QED
    BY <1>1, <1>2, <1>3, <1>4, PassesOn DEF Becomes

LEMMA TeardownTends ==
  ASSUME Wished, NEW t \in Tasks, Teardown(t)
  PROVE  Tends(t)
  <1>1. /\ Known(t) /\ Recovers(tasks[t]) /\ made \in Nat
        /\ timer \in 0..Retries /\ (timer # NoRetry \/ queued => settings.auto)
    BY KnownIs DEF Wished, WishInv, Inv, CleanInv
  <1>2. tasks[t].pc = "teardown" /\ UNCHANGED <<gen, dgen, rgen, settings>>
    BY DEF Teardown, At, conn, recovery, core, started, Awaits
  <1>3. Becomes(t, To(t, "teardownTuns")) /\ UNCHANGED Due
    BY DEF Teardown, conn, recovery, core, started, Becomes, Awaits, Due
  <1>4. CASE Becomes(t, To(t, "teardownTuns")) /\ UNCHANGED Due
    <2>1. Recovers(tasks[t])' /\ (Dead' => Cares(tasks[t])')
      BY <1>1, <1>2, <1>4, NamesAre DEF Becomes, Due, Running, To, Dead, Cares, Rebuilding, Failing,
            LooksAt, Dropping, HasLock, Leaving, ForCore, Recovers, Known, Minds, Connecting, Placed,
            Arming, Lifting, InDisconnect, InStart, InConnect, InRecovery, InReapply
    <2> QED
      BY <1>1, <1>2, <1>4, <2>1 DEF Tends, Becomes, Due, Known
  <1> QED
    BY <1>3, <1>4

LEMMA TeardownTunsTends ==
  ASSUME Wished, NEW t \in Tasks, TeardownTuns(t)
  PROVE  Tends(t)
  <1>1. Known(t) /\ Recovers(tasks[t])
    BY KnownIs DEF Wished, WishInv
  <1>2. tasks[t].pc = "teardownTuns" /\ Alike
    BY DEF TeardownTuns, Wish, Alike, At, ConnectRest, conn, recovery, core, started, Awaits
  <1>3. Becomes(t, To(t, "teardownCore"))
    BY DEF TeardownTuns, Becomes, Awaits
  <1>4. Hands(tasks[t], To(t, "teardownCore"))
    BY <1>1, <1>2, NamesAre DEF To, Hands, Dead, Cares, Rebuilding, Failing, LooksAt, Dropping,
          HasLock, Leaving, ForCore, Recovers, Known, Minds, Connecting, Placed, Arming, Lifting,
          InDisconnect, InStart, InConnect, InRecovery, InReapply
  <1> QED
    BY <1>1, <1>2, <1>3, <1>4, PassesOn DEF Becomes

LEMMA TeardownCoreTends ==
  ASSUME Wished, NEW t \in Tasks, TeardownCore(t)
  PROVE  Tends(t)
  <1>1. Known(t) /\ Recovers(tasks[t])
    BY KnownIs DEF Wished, WishInv
  <1>2. tasks[t].pc = "teardownCore" /\ Alike
    BY DEF TeardownCore, Wish, Alike, At, conn, recovery, core, started, Goes, Awaits, StopsCore
  <1>3. \/ Becomes(t, [To(t, "tornDown") EXCEPT !.on = proc])
        \/ Becomes(t, To(t, "tornDown"))
    BY DEF TeardownCore, Becomes, Goes, Awaits, StopsCore
  <1>4. Hands(tasks[t], [To(t, "tornDown") EXCEPT !.on = proc])
    BY <1>1, <1>2, NamesAre DEF To, Hands, Dead, Cares, Rebuilding, Failing, LooksAt, Dropping,
          HasLock, Leaving, ForCore, Recovers, Known, Minds, Connecting, Placed, Arming, Lifting,
          InDisconnect, InStart, InConnect, InRecovery, InReapply
  <1>5. Hands(tasks[t], To(t, "tornDown"))
    BY <1>1, <1>2, NamesAre DEF To, Hands, Dead, Cares, Rebuilding, Failing, LooksAt, Dropping,
          HasLock, Leaving, ForCore, Recovers, Known, Minds, Connecting, Placed, Arming, Lifting,
          InDisconnect, InStart, InConnect, InRecovery, InReapply
  <1> QED
    BY <1>1, <1>2, <1>3, <1>4, <1>5, PassesOn DEF Becomes

LEMMA TornDownTends ==
  ASSUME Wished, NEW t \in Tasks, TornDown(t)
  PROVE  Tends(t)
  <1>1. Known(t) /\ Recovers(tasks[t])
    BY KnownIs DEF Wished, WishInv
  <1>2. tasks[t].pc = "tornDown" /\ Alike
    BY DEF TornDown, Wish, Alike, At, conn, recovery, core, started, Goes
  <1>3. \/ Becomes(t, To(t, "connect"))
        \/ Becomes(t, Return(t, "stale")) /\ (tasks[t].at # gen)
    BY DEF TornDown, Becomes, Goes
  <1>4. Hands(tasks[t], To(t, "connect"))
    BY <1>1, <1>2, NamesAre DEF To, Hands, Dead, Cares, Rebuilding, Failing, LooksAt, Dropping,
          HasLock, Leaving, ForCore, Recovers, Known, Minds, Connecting, Placed, Arming, Lifting,
          InDisconnect, InStart, InConnect, InRecovery, InReapply
  <1>5. ASSUME tasks[t].at # gen PROVE Hands(tasks[t], Return(t, "stale"))
    BY <1>1, <1>2, <1>5, NamesAre DEF To, Return, Hands, Dead, Cares, Rebuilding, Failing, LooksAt,
          Dropping, HasLock, Leaving, ForCore, Recovers, Known, Minds, Connecting, Placed, Arming,
          Lifting, InDisconnect, InStart, InConnect, InRecovery, InReapply
  <1> QED
    BY <1>1, <1>2, <1>3, <1>4, <1>5, PassesOn DEF Becomes

LEMMA ReapplyAnsweredTends ==
  ASSUME Wished, NEW t \in Tasks, ReapplyAnswered(t)
  PROVE  Tends(t)
  <1>1. Known(t) /\ Recovers(tasks[t])
    BY KnownIs DEF Wished, WishInv
  <1>2. tasks[t].pc = "answer" /\ tasks[t].at # None /\ Alike
    BY DEF ReapplyAnswered, Wish, Alike, At, conn, recovery, core, started, Goes, Awaits,
          AwaitsProxy
  <1>3. \/ Becomes(t, To(t, "reapplyFailed"))
        \/ Becomes(t, Return(t, "stale")) /\ (tasks[t].res = "stale")
        \/ Becomes(t, Return(t, tasks[t].res)) /\ (tasks[t].res # "failed")
        \/ Becomes(t, [Return(t, tasks[t].res) EXCEPT !.pc = "disarm", !.next = Return(t,
                tasks[t].res).pc]) /\ (tasks[t].res # "failed")
    BY DEF ReapplyAnswered, Becomes, Goes, Awaits, AwaitsProxy
  <1>4. Hands(tasks[t], To(t, "reapplyFailed"))
    BY <1>1, <1>2, NamesAre DEF To, Hands, Dead, Cares, Rebuilding, Failing, LooksAt, Dropping,
          HasLock, Leaving, ForCore, Recovers, Known, Minds, Connecting, Placed, Arming, Lifting,
          InDisconnect, InStart, InConnect, InRecovery, InReapply
  <1>5. ASSUME tasks[t].res = "stale" PROVE Hands(tasks[t], Return(t, "stale"))
    BY <1>1, <1>2, <1>5, NamesAre DEF To, Return, Hands, Dead, Cares, Rebuilding, Failing, LooksAt,
          Dropping, HasLock, Leaving, ForCore, Recovers, Known, Minds, Connecting, Placed, Arming,
          Lifting, InDisconnect, InStart, InConnect, InRecovery, InReapply
  <1>6. ASSUME tasks[t].res # "failed" PROVE Hands(tasks[t], Return(t, tasks[t].res))
    BY <1>1, <1>2, <1>6, NamesAre DEF To, Return, Hands, Dead, Cares, Rebuilding, Failing, LooksAt,
          Dropping, HasLock, Leaving, ForCore, Recovers, Known, Minds, Connecting, Placed, Arming,
          Lifting, InDisconnect, InStart, InConnect, InRecovery, InReapply
  <1>7. ASSUME tasks[t].res # "failed" PROVE Hands(tasks[t], [Return(t,
             tasks[t].res) EXCEPT !.pc = "disarm", !.next = Return(t, tasks[t].res).pc])
    BY <1>1, <1>2, <1>7, NamesAre DEF To, Return, Hands, Dead, Cares, Rebuilding, Failing, LooksAt,
          Dropping, HasLock, Leaving, ForCore, Recovers, Known, Minds, Connecting, Placed, Arming,
          Lifting, InDisconnect, InStart, InConnect, InRecovery, InReapply
  <1> QED
    BY <1>1, <1>2, <1>3, <1>4, <1>5, <1>6, <1>7, PassesOn DEF Becomes

LEMMA ReapplyFailedTends ==
  ASSUME Wished, NEW t \in Tasks, ReapplyFailed(t)
  PROVE  Tends(t)
  <1>1. /\ Known(t) /\ Recovers(tasks[t]) /\ made \in Nat
        /\ timer \in 0..Retries /\ (timer # NoRetry \/ queued => settings.auto)
    BY KnownIs DEF Wished, WishInv, Inv, CleanInv
  <1>2. tasks[t].pc = "reapplyFailed" /\ UNCHANGED <<gen, dgen, rgen, settings>>
    BY DEF ReapplyFailed, At, conn, recovery, core, started, Goes
  <1>3. Becomes(t, Return(t, "failed")) /\ status' = "error" /\ UNCHANGED Due
    BY DEF ReapplyFailed, conn, recovery, core, started, Becomes, Goes, Due
  <1>4. CASE Becomes(t, Return(t, "failed")) /\ status' = "error" /\ UNCHANGED Due
    <2>1. Recovers(tasks[t])' /\ (Dead' => Cares(tasks[t])')
      BY <1>1, <1>2, <1>4, NamesAre DEF Becomes, Due, Running, To, Return, Dead, Cares, Rebuilding,
            Failing, LooksAt, Dropping, HasLock, Leaving, ForCore, Recovers, Known, Minds, Connecting,
            Placed, Arming, Lifting, InDisconnect, InStart, InConnect, InRecovery, InReapply
    <2> QED
      BY <1>1, <1>2, <1>4, <2>1 DEF Tends, Becomes, Due, Known
  <1> QED
    BY <1>3, <1>4

\* Reloads.
LEMMA AsksReloadTends ==
  ASSUME Wished, NEW t \in Tasks, AsksReload(t)
  PROVE  Tends(t)
  <1>1. Known(t) /\ Recovers(tasks[t])
    BY KnownIs DEF Wished, WishInv
  <1>2. tasks[t].pc = "idle" /\ Alike
    BY DEF AsksReload, Wish, Alike, At, ConnectRest, conn, recovery, core, started, Awaits, Slot,
          Free
  <1>3. Becomes(t, [Idle EXCEPT !.op = "reload", !.pc = "reload"])
    BY DEF AsksReload, Becomes, Awaits
  <1>4. Hands(tasks[t], [Idle EXCEPT !.op = "reload", !.pc = "reload"])
    BY <1>1, <1>2, NamesAre, IdleIs, ConnectionAssumption DEF Idle, Hands, Dead, Cares, Rebuilding,
          Failing, LooksAt, Dropping, HasLock, Leaving, ForCore, Recovers, Known, Minds, Connecting,
          Placed, Arming, Lifting, InDisconnect, InStart, InConnect, InRecovery, InReapply
  <1> QED
    BY <1>1, <1>2, <1>3, <1>4, PassesOn DEF Becomes

LEMMA ReloadTends ==
  ASSUME Wished, NEW t \in Tasks, Reload(t)
  PROVE  Tends(t)
  <1>1. Known(t) /\ Recovers(tasks[t])
    BY KnownIs DEF Wished, WishInv
  <1>2. tasks[t].pc = "reload" /\ Alike
    BY DEF Reload, Wish, Alike, At, ConnectRest, conn, recovery, core, started, Awaits, Ends
  <1>3. \/ Becomes(t, [To(t, "reloadBuild") EXCEPT !.at = gen])
        \/ Becomes(t, Idle)
    BY DEF Reload, Becomes, Awaits, Ends
  <1>4. Hands(tasks[t], [To(t, "reloadBuild") EXCEPT !.at = gen])
    BY <1>1, <1>2, NamesAre DEF To, Hands, Dead, Cares, Rebuilding, Failing, LooksAt, Dropping,
          HasLock, Leaving, ForCore, Recovers, Known, Minds, Connecting, Placed, Arming, Lifting,
          InDisconnect, InStart, InConnect, InRecovery, InReapply
  <1>5. Hands(tasks[t], Idle)
    BY <1>1, <1>2, NamesAre, IdleIs, ConnectionAssumption DEF Idle, Hands, Dead, Cares, Rebuilding,
          Failing, LooksAt, Dropping, HasLock, Leaving, ForCore, Recovers, Known, Minds, Connecting,
          Placed, Arming, Lifting, InDisconnect, InStart, InConnect, InRecovery, InReapply
  <1> QED
    BY <1>1, <1>2, <1>3, <1>4, <1>5, PassesOn DEF Becomes

LEMMA ReloadBuildTends ==
  ASSUME Wished, NEW t \in Tasks, ReloadBuild(t)
  PROVE  Tends(t)
  <1>1. Known(t) /\ Recovers(tasks[t])
    BY KnownIs DEF Wished, WishInv
  <1>2. tasks[t].pc = "reloadBuild" /\ Alike
    BY DEF ReloadBuild, Wish, Alike, At, conn, recovery, core, started, Awaits
  <1>3. Becomes(t, To(t, "reloadCheck"))
    BY DEF ReloadBuild, Becomes, Awaits
  <1>4. Hands(tasks[t], To(t, "reloadCheck"))
    BY <1>1, <1>2, NamesAre DEF To, Hands, Dead, Cares, Rebuilding, Failing, LooksAt, Dropping,
          HasLock, Leaving, ForCore, Recovers, Known, Minds, Connecting, Placed, Arming, Lifting,
          InDisconnect, InStart, InConnect, InRecovery, InReapply
  <1> QED
    BY <1>1, <1>2, <1>3, <1>4, PassesOn DEF Becomes

LEMMA ReloadCheckTends ==
  ASSUME Wished, NEW t \in Tasks, ReloadCheck(t)
  PROVE  Tends(t)
  <1>1. Known(t) /\ Recovers(tasks[t])
    BY KnownIs DEF Wished, WishInv
  <1>2. tasks[t].pc = "reloadCheck" /\ Alike
    BY DEF ReloadCheck, Wish, Alike, At, conn, recovery, core, started, Goes, Awaits, Ends, Throws
  <1>3. \/ Becomes(t, To(t, "start"))
        \/ Becomes(t, Idle)
        \/ Becomes(t, [Idle EXCEPT !.op = "drop", !.pc = "drop"])
    BY DEF ReloadCheck, Becomes, Goes, Awaits, Ends, Throws
  <1>4. Hands(tasks[t], To(t, "start"))
    BY <1>1, <1>2, NamesAre DEF To, Hands, Dead, Cares, Rebuilding, Failing, LooksAt, Dropping,
          HasLock, Leaving, ForCore, Recovers, Known, Minds, Connecting, Placed, Arming, Lifting,
          InDisconnect, InStart, InConnect, InRecovery, InReapply
  <1>5. Hands(tasks[t], Idle)
    BY <1>1, <1>2, NamesAre, IdleIs, ConnectionAssumption DEF Idle, Hands, Dead, Cares, Rebuilding,
          Failing, LooksAt, Dropping, HasLock, Leaving, ForCore, Recovers, Known, Minds, Connecting,
          Placed, Arming, Lifting, InDisconnect, InStart, InConnect, InRecovery, InReapply
  <1>6. Hands(tasks[t], [Idle EXCEPT !.op = "drop", !.pc = "drop"])
    BY <1>1, <1>2, NamesAre, IdleIs, ConnectionAssumption DEF Idle, Hands, Dead, Cares, Rebuilding,
          Failing, LooksAt, Dropping, HasLock, Leaving, ForCore, Recovers, Known, Minds, Connecting,
          Placed, Arming, Lifting, InDisconnect, InStart, InConnect, InRecovery, InReapply
  <1> QED
    BY <1>1, <1>2, <1>3, <1>4, <1>5, <1>6, PassesOn DEF Becomes

LEMMA ReloadedTends ==
  ASSUME Wished, NEW t \in Tasks, Reloaded(t)
  PROVE  Tends(t)
  <1>1. Known(t) /\ Recovers(tasks[t])
    BY KnownIs DEF Wished, WishInv
  <1>2. tasks[t].pc = "grace" /\ tasks[t].op = "reload" /\ Alike
    BY DEF Reloaded, Wish, Alike, At, conn, recovery, core, started, Goes, Awaits, Ends, Throws
  <1>3. \/ Becomes(t, Idle) /\ (tasks[t].on \in alive \/ Running)
        \/ Becomes(t, [Idle EXCEPT !.op = "drop", !.pc = "drop"])
    BY DEF Reloaded, Becomes, Goes, Awaits, Ends, Throws
  <1>4. ASSUME tasks[t].on \in alive \/ Running PROVE Hands(tasks[t], Idle)
    BY <1>1, <1>2, <1>4, NamesAre, IdleIs, ConnectionAssumption DEF Idle, Hands, Dead, Cares,
          Rebuilding, Failing, LooksAt, Dropping, HasLock, Leaving, ForCore, Recovers, Known, Minds,
          Connecting, Placed, Arming, Lifting, InDisconnect, InStart, InConnect, InRecovery,
          InReapply, Running
  <1>5. Hands(tasks[t], [Idle EXCEPT !.op = "drop", !.pc = "drop"])
    BY <1>1, <1>2, NamesAre, IdleIs, ConnectionAssumption DEF Idle, Hands, Dead, Cares, Rebuilding,
          Failing, LooksAt, Dropping, HasLock, Leaving, ForCore, Recovers, Known, Minds, Connecting,
          Placed, Arming, Lifting, InDisconnect, InStart, InConnect, InRecovery, InReapply
  <1> QED
    BY <1>1, <1>2, <1>3, <1>4, <1>5, PassesOn DEF Becomes

\* The user's calls.
LEMMA UserConnectsTends ==
  ASSUME Wished, NEW t \in Tasks, UserConnects(t)
  PROVE  Tends(t)
  <1>1. Known(t) /\ Recovers(tasks[t])
    BY KnownIs DEF Wished, WishInv
  <1>2. tasks[t].pc = "idle" /\ Alike
    BY DEF UserConnects, Wish, Alike, At, CallRest, conn, recovery, core, started, Goes, Calls,
          Called, Slot, Free
  <1>3. Becomes(t, [Idle EXCEPT !.op = "connect", !.pc = "connect"])
    BY DEF UserConnects, Becomes, Goes, Calls, Called
  <1>4. Hands(tasks[t], [Idle EXCEPT !.op = "connect", !.pc = "connect"])
    BY <1>1, <1>2, NamesAre, IdleIs, ConnectionAssumption DEF Idle, Hands, Dead, Cares, Rebuilding,
          Failing, LooksAt, Dropping, HasLock, Leaving, ForCore, Recovers, Known, Minds, Connecting,
          Placed, Arming, Lifting, InDisconnect, InStart, InConnect, InRecovery, InReapply
  <1> QED
    BY <1>1, <1>2, <1>3, <1>4, PassesOn DEF Becomes

LEMMA UserDisconnectsTends ==
  ASSUME Wished, NEW t \in Tasks, UserDisconnects(t)
  PROVE  Tends(t)
  <1>1. Known(t) /\ Recovers(tasks[t])
    BY KnownIs DEF Wished, WishInv
  <1>2. tasks[t].pc = "idle" /\ Alike
    BY DEF UserDisconnects, Wish, Alike, At, CallRest, conn, recovery, core, started, Goes, Calls,
          Called, Slot, Free
  <1>3. Becomes(t, [Idle EXCEPT !.op = "disconnect", !.pc = "disconnect"])
    BY DEF UserDisconnects, Becomes, Goes, Calls, Called
  <1>4. Hands(tasks[t], [Idle EXCEPT !.op = "disconnect", !.pc = "disconnect"])
    BY <1>1, <1>2, NamesAre, IdleIs, ConnectionAssumption DEF Idle, Hands, Dead, Cares, Rebuilding,
          Failing, LooksAt, Dropping, HasLock, Leaving, ForCore, Recovers, Known, Minds, Connecting,
          Placed, Arming, Lifting, InDisconnect, InStart, InConnect, InRecovery, InReapply
  <1> QED
    BY <1>1, <1>2, <1>3, <1>4, PassesOn DEF Becomes

LEMMA UserAppliesTends ==
  ASSUME Wished, NEW t \in Tasks, UserApplies(t)
  PROVE  Tends(t)
  <1>1. Known(t) /\ Recovers(tasks[t])
    BY KnownIs DEF Wished, WishInv
  <1>2. tasks[t].pc = "idle" /\ Alike
    BY DEF UserApplies, Wish, Alike, At, CallRest, conn, recovery, core, started, Goes, Calls,
          Called, Slot, Free
  <1>3. Becomes(t, [Idle EXCEPT !.op = "apply", !.pc = "reapply"])
    BY DEF UserApplies, Becomes, Goes, Calls, Called
  <1>4. Hands(tasks[t], [Idle EXCEPT !.op = "apply", !.pc = "reapply"])
    BY <1>1, <1>2, NamesAre, IdleIs, ConnectionAssumption DEF Idle, Hands, Dead, Cares, Rebuilding,
          Failing, LooksAt, Dropping, HasLock, Leaving, ForCore, Recovers, Known, Minds, Connecting,
          Placed, Arming, Lifting, InDisconnect, InStart, InConnect, InRecovery, InReapply
  <1> QED
    BY <1>1, <1>2, <1>3, <1>4, PassesOn DEF Becomes

LEMMA UserRetriesTends ==
  ASSUME Wished, NEW t \in Tasks, UserRetries(t)
  PROVE  Tends(t)
  <1>1. Known(t) /\ Recovers(tasks[t])
    BY KnownIs DEF Wished, WishInv
  <1>2. tasks[t].pc = "idle" /\ Alike
    BY DEF UserRetries, Wish, Alike, At, CallRest, conn, recovery, core, started, Goes, Calls, Slot,
          Free
  <1>3. \/ Becomes(t, [Idle EXCEPT !.op = "apply", !.pc = "reapply"])
        \/ Becomes(t, [Idle EXCEPT !.op = "retry", !.pc = "connect", !.armed = engaged])
    BY DEF UserRetries, Becomes, Goes, Calls
  <1>4. Hands(tasks[t], [Idle EXCEPT !.op = "apply", !.pc = "reapply"])
    BY <1>1, <1>2, NamesAre, IdleIs, ConnectionAssumption DEF Idle, Hands, Dead, Cares, Rebuilding,
          Failing, LooksAt, Dropping, HasLock, Leaving, ForCore, Recovers, Known, Minds, Connecting,
          Placed, Arming, Lifting, InDisconnect, InStart, InConnect, InRecovery, InReapply
  <1>5. Hands(tasks[t], [Idle EXCEPT !.op = "retry", !.pc = "connect", !.armed = engaged])
    BY <1>1, <1>2, NamesAre, IdleIs, ConnectionAssumption DEF Idle, Hands, Dead, Cares, Rebuilding,
          Failing, LooksAt, Dropping, HasLock, Leaving, ForCore, Recovers, Known, Minds, Connecting,
          Placed, Arming, Lifting, InDisconnect, InStart, InConnect, InRecovery, InReapply
  <1> QED
    BY <1>1, <1>2, <1>3, <1>4, <1>5, PassesOn DEF Becomes

LEMMA ConnectAnsweredTends ==
  ASSUME Wished, NEW t \in Tasks, ConnectAnswered(t)
  PROVE  Tends(t)
  <1>1. /\ Known(t) /\ Recovers(tasks[t]) /\ made \in Nat
        /\ timer \in 0..Retries /\ (timer # NoRetry \/ queued => settings.auto)
    BY KnownIs DEF Wished, WishInv, Inv, CleanInv
  <1>2. tasks[t].pc = "answer" /\ tasks[t].op \in {"connect", "retry"} /\
             UNCHANGED <<gen, dgen, rgen, settings>>
    BY DEF ConnectAnswered, At, conn, recovery, core, started, Goes, Awaits, Ends
  <1>3. \/ Becomes(t, [To(t, "disarm") EXCEPT !.next = "end"]) /\ proc' # None /\ UNCHANGED Due
        \/ Becomes(t, Idle) /\ status' = "error" /\ UNCHANGED Due
        \/ Becomes(t, Idle) /\ ~(tasks[t].res = "failed" /\ (tasks[t].op = "retry" \/ gen # dgen)) /\ Alike
    BY DEF ConnectAnswered, conn, recovery, core, started, Becomes, Goes, Awaits, Ends, Running,
          Alike, Wish, Due, None
  <1>4. CASE Becomes(t, [To(t, "disarm") EXCEPT !.next = "end"]) /\ proc' # None /\ UNCHANGED Due
    <2>1. Recovers(tasks[t])' /\ (Dead' => Cares(tasks[t])')
      BY <1>1, <1>2, <1>4, NamesAre DEF Becomes, Due, Running, To, Dead, Cares, Rebuilding, Failing,
            LooksAt, Dropping, HasLock, Leaving, ForCore, Recovers, Known, Minds, Connecting, Placed,
            Arming, Lifting, InDisconnect, InStart, InConnect, InRecovery, InReapply
    <2> QED
      BY <1>1, <1>2, <1>4, <2>1 DEF Tends, Becomes, Due, Known
  <1>5. CASE Becomes(t, Idle) /\ status' = "error" /\ UNCHANGED Due
    <2>1. Recovers(tasks[t])' /\ (Dead' => Cares(tasks[t])')
      BY <1>1, <1>2, <1>5, NamesAre, IdleIs, ConnectionAssumption DEF Becomes, Due, Running, Idle,
            Dead, Cares, Rebuilding, Failing, LooksAt, Dropping, HasLock, Leaving, ForCore, Recovers,
            Known, Minds, Connecting, Placed, Arming, Lifting, InDisconnect, InStart, InConnect,
            InRecovery, InReapply
    <2> QED
      BY <1>1, <1>2, <1>5, <2>1 DEF Tends, Becomes, Due, Known
  <1>6. CASE Becomes(t, Idle) /\ ~(tasks[t].res = "failed" /\ (tasks[t].op = "retry" \/ gen # dgen)) /\
             Alike
    <2>1. Hands(tasks[t], Idle)
      BY <1>1, <1>2, <1>6, NamesAre, IdleIs, ConnectionAssumption DEF Idle, Hands, Dead, Cares,
            Rebuilding, Failing, LooksAt, Dropping, HasLock, Leaving, ForCore, Recovers, Known, Minds,
            Connecting, Placed, Arming, Lifting, InDisconnect, InStart, InConnect, InRecovery,
            InReapply
    <2> QED
      BY <1>1, <1>6, <2>1, PassesOn DEF Becomes
  <1> QED
    BY <1>3, <1>4, <1>5, <1>6

LEMMA EndTends ==
  ASSUME Wished, NEW t \in Tasks, End(t)
  PROVE  Tends(t)
  <1>1. Known(t) /\ Recovers(tasks[t])
    BY KnownIs DEF Wished, WishInv
  <1>2. tasks[t].pc = "end" /\ Alike
    BY DEF End, Wish, Alike, At, ConnectRest, conn, recovery, core, started, Awaits, Ends
  <1>3. Becomes(t, Idle)
    BY DEF End, Becomes, Awaits, Ends
  <1>4. Hands(tasks[t], Idle)
    BY <1>1, <1>2, NamesAre, IdleIs, ConnectionAssumption DEF Idle, Hands, Dead, Cares, Rebuilding,
          Failing, LooksAt, Dropping, HasLock, Leaving, ForCore, Recovers, Known, Minds, Connecting,
          Placed, Arming, Lifting, InDisconnect, InStart, InConnect, InRecovery, InReapply
  <1> QED
    BY <1>1, <1>2, <1>3, <1>4, PassesOn DEF Becomes

\* Recoveries.
LEMMA RecoverTends ==
  ASSUME Wished, NEW t \in Tasks, Recover(t)
  PROVE  Tends(t)
  <1> DEFINE b == [To(t, IF Running THEN "reapply" ELSE "connect")
                     EXCEPT !.rg = rgen, !.run = runs', !.armed = ~Running /\ engaged]
  <1>1. /\ Known(t) /\ Recovers(tasks[t])
        /\ timer \in 0..Retries /\ (timer # NoRetry \/ queued => settings.auto)
    BY KnownIs DEF Wished, WishInv
  <1>2. tasks[t].pc = "recover" /\ UNCHANGED <<gen, dgen, rgen, settings>>
    BY DEF Recover, At, conn, recovery
  <1>3. \/ Becomes(t, Idle) /\ (~active \/ ~settings.auto) /\ Alike
        \/ /\ Becomes(t, Idle) /\ active /\ settings.auto /\ recovering
           /\ queued' /\ UNCHANGED <<status, recovering, timer, runs>>
        \/ /\ Becomes(t, b) /\ active /\ settings.auto /\ ~recovering
           /\ timer' = NoRetry /\ UNCHANGED queued
    BY DEF Recover, conn, recovery, core, started, Becomes, Goes, Awaits, Ends, Alike, Wish
  <1>4. CASE Becomes(t, Idle) /\ (~active \/ ~settings.auto) /\ Alike
    <2>1. Hands(tasks[t], Idle)
      BY <1>1, <1>2, <1>4, IdleIs, ConnectionAssumption DEF Idle, Hands, Dead, Cares,
           Rebuilding, Failing,
            LooksAt, Dropping, HasLock, Leaving, ForCore, Recovers, Known, Minds, Connecting, Arming,
            Lifting, InDisconnect, InStart, InConnect
    <2> QED
      BY <1>1, <1>4, <2>1, PassesOn DEF Becomes
  <1>5. CASE /\ Becomes(t, Idle) /\ active /\ settings.auto /\ recovering
             /\ queued' /\ UNCHANGED <<status, recovering, timer, runs>>
    <2>1. PICK u \in Tasks : HasLock(tasks[u])
      BY <1>5 DEF Wished, SharedInv, LockInv
    <2>2. u # t
      BY <1>1, <1>2, <2>1 DEF Known, Minds, HasLock
    <2>3. tasks'[u] = tasks[u] /\ Cares(tasks[u])'
      BY <1>1, <1>2, <1>5, <2>1, <2>2 DEF Becomes, Known, Cares, HasLock
    <2>4. Recovers(tasks[t])'
      BY <1>1, <1>2, <1>5, IdleIs, ConnectionAssumption DEF Becomes, Known, Idle, Recovers,
           HasLock, Lifting
    <2> QED
      BY <1>1, <1>2, <1>5, <2>2, <2>3, <2>4 DEF Tends, Becomes, Known
  <1>6. CASE /\ Becomes(t, b) /\ active /\ settings.auto /\ ~recovering
             /\ timer' = NoRetry /\ UNCHANGED queued
    <2>1. tasks'[t] = b
      BY <1>1, <1>6 DEF Becomes, Known
    <2>2. /\ b.pc \in {"reapply", "connect"} /\ b.op = "recover"
          /\ b.att = tasks[t].att /\ b.run = runs'
      BY <1>1, <1>2, NamesAre DEF Known, Placed, To
    <2> HIDE DEF b
    <2>3. Recovers(tasks[t])' /\ Cares(tasks[t])'
      BY <1>1, <1>2, <1>6, <2>1, <2>2 DEF Recovers, HasLock, Cares, Rebuilding, Failing, Lifting
    <2> QED
      BY <1>1, <1>2, <1>6, <2>3, ConnectionAssumption DEF Tends, Becomes, Known, NoRetry
  <1> QED
    BY <1>3, <1>4, <1>5, <1>6

LEMMA RecoverAnsweredTends ==
  ASSUME Wished, NEW t \in Tasks, RecoverAnswered(t)
  PROVE  Tends(t)
  <1>1. Known(t) /\ Recovers(tasks[t])
    BY KnownIs DEF Wished, WishInv
  <1>2. tasks[t].pc = "answer" /\ Alike
    BY DEF RecoverAnswered, Wish, Alike, At, ConnectRest, conn, recovery, core, started, Goes
  <1>3. \/ Becomes(t, [To(t, "disarm") EXCEPT !.next = "recovered"]) /\ (Running)
        \/ Becomes(t, To(t, "recovered"))
    BY DEF RecoverAnswered, Becomes, Goes
  <1>4. ASSUME Running PROVE Hands(tasks[t], [To(t, "disarm") EXCEPT !.next = "recovered"])
    BY <1>1, <1>2, <1>4, NamesAre DEF To, Hands, Dead, Cares, Rebuilding, Failing, LooksAt,
          Dropping, HasLock, Leaving, ForCore, Recovers, Known, Minds, Connecting, Placed, Arming,
          Lifting, InDisconnect, InStart, InConnect, InRecovery, InReapply, Running
  <1>5. Hands(tasks[t], To(t, "recovered"))
    BY <1>1, <1>2, NamesAre DEF To, Hands, Dead, Cares, Rebuilding, Failing, LooksAt, Dropping,
          HasLock, Leaving, ForCore, Recovers, Known, Minds, Connecting, Placed, Arming, Lifting,
          InDisconnect, InStart, InConnect, InRecovery, InReapply
  <1> QED
    BY <1>1, <1>2, <1>3, <1>4, <1>5, PassesOn DEF Becomes

LEMMA RecoveredTends ==
  ASSUME Wished, NEW t \in Tasks, Recovered(t)
  PROVE  Tends(t)
  <1> DEFINE c == tasks[t]
             failed == c.res \in {"failed", "tunless"}
             again == [Idle EXCEPT !.op = "recover", !.pc = "recover"]
  <1>1. /\ Known(t) /\ Recovers(c)
        /\ timer \in 0..Retries /\ (timer # NoRetry \/ queued => settings.auto)
    BY KnownIs DEF Wished, WishInv
  <1>2. c.pc = "recovered" /\ UNCHANGED <<gen, dgen, rgen, settings, active, proc, unseen, alive, runs>>
    BY DEF Recovered, At, conn, recovery, core, started
  <1>3. /\ timer' = IF failed /\ c.att < Retries THEN c.att + 1 ELSE timer
        /\ status' = IF failed /\ c.att = Retries THEN "reconnect-failed" ELSE status
        /\ recovering' = (recovering /\ c.rg # rgen) /\ queued' = (queued /\ c.rg # rgen)
        /\ \/ Becomes(t, again) /\ queued
           \/ Becomes(t, Idle) /\ ~(c.rg = rgen /\ queued)
    BY DEF Recovered, Goes, Awaits, Ends, Becomes
  <1>4. c.run # 0 /\ c.att \in 0..Retries /\ settings.auto
    BY <1>1, <1>2 DEF Known, Placed, Recovers
  <1>5. timer' \in 0..Retries /\ (timer' # NoRetry \/ queued' => settings.auto)
    BY <1>1, <1>3, <1>4, ConnectionAssumption
  <1>6. failed => ~Dead'
    BY <1>3, <1>4, ConnectionAssumption DEF Dead, NoRetry
  <1>7. CASE Becomes(t, again) /\ queued
    <2>1. tasks'[t] = again /\ again.pc = "recover" /\ again.run = 0 /\ again.att = 0
      BY <1>1, <1>7, IdleIs DEF Becomes, Known, Idle
    <2> HIDE DEF again
    <2>2. Recovers(tasks[t])' /\ Cares(tasks[t])'
      BY <1>2, <1>4, <2>1, ConnectionAssumption DEF Recovers, HasLock, Cares, Lifting
    <2> QED
      BY <1>1, <1>2, <1>5, <1>7, <2>2 DEF Tends, Becomes, Known
  <1>8. CASE Becomes(t, Idle) /\ ~(c.rg = rgen /\ queued)
    <2>1. Recovers(tasks[t])'
      BY <1>1, <1>2, <1>8, IdleIs, ConnectionAssumption DEF Becomes, Known, Idle, Recovers,
           HasLock, Lifting
    <2>2. ASSUME ~failed PROVE Dead' => Dead /\ ~Cares(c) /\ Steady
      <3>1. (Dead' => Dead) /\ Steady
        BY <1>2, <1>3, <1>8, <2>2 DEF Dead, Running, Steady
      <3>2. ~Cares(c)
        BY <1>1, <1>2, <1>8, <2>2 DEF Cares, Rebuilding, Failing, LooksAt, Dropping, HasLock,
             Leaving, ForCore,
              Known, Minds, Connecting, Arming, Lifting, InDisconnect, InStart, InConnect
      <3> QED
        BY <3>1, <3>2
    <2> QED
      BY <1>1, <1>2, <1>5, <1>6, <1>8, <2>1, <2>2 DEF Tends, Becomes, Known
  <1> QED
    BY <1>3, <1>7, <1>8

LEMMA TriggerTends ==
  ASSUME Wished, NEW t \in Tasks, Trigger(t)
  PROVE  Tends(t)
  <1>1. Known(t) /\ Recovers(tasks[t])
    BY KnownIs DEF Wished, WishInv
  <1>2. tasks[t].pc = "idle" /\ Alike
    BY DEF Trigger, Wish, Alike, At, CallRest, conn, recovery, core, started, Goes, Calls, Called,
          Slot, Free
  <1>3. Becomes(t, [Idle EXCEPT !.op = "recover", !.pc = "recover"])
    BY DEF Trigger, Becomes, Goes, Calls, Called
  <1>4. Hands(tasks[t], [Idle EXCEPT !.op = "recover", !.pc = "recover"])
    BY <1>1, <1>2, NamesAre, IdleIs, ConnectionAssumption DEF Idle, Hands, Dead, Cares, Rebuilding,
          Failing, LooksAt, Dropping, HasLock, Leaving, ForCore, Recovers, Known, Minds, Connecting,
          Placed, Arming, Lifting, InDisconnect, InStart, InConnect, InRecovery, InReapply
  <1> QED
    BY <1>1, <1>2, <1>3, <1>4, PassesOn DEF Becomes

LEMMA TimerFiresTends ==
  ASSUME Wished, NEW t \in Tasks, TimerFires(t)
  PROVE  Tends(t)
  <1>1. /\ Known(t) /\ Recovers(tasks[t]) /\ made \in Nat
        /\ timer \in 0..Retries /\ (timer # NoRetry \/ queued => settings.auto)
    BY KnownIs DEF Wished, WishInv, Inv, CleanInv
  <1>2. tasks[t].pc = "idle" /\ UNCHANGED <<gen, dgen, rgen, settings>>
    BY DEF TimerFires, At, conn, recovery, core, started, Goes, Calls, Slot, Free
  <1>3. Becomes(t, [Idle EXCEPT !.op = "recover", !.pc = "recover", !.att = timer]) /\
             timer # NoRetry /\ timer' = NoRetry /\ UNCHANGED <<queued, runs>>
    BY DEF TimerFires, conn, recovery, core, started, Becomes, Goes, Calls
  <1>4. CASE Becomes(t, [Idle EXCEPT !.op = "recover", !.pc = "recover", !.att = timer]) /\
             timer # NoRetry /\ timer' = NoRetry /\ UNCHANGED <<queued, runs>>
    <2>1. Recovers(tasks[t])' /\ (Dead' => Cares(tasks[t])')
      BY <1>1, <1>2, <1>4, NamesAre, IdleIs, ConnectionAssumption DEF Becomes, Due, Running, Idle,
            Dead, Cares, Rebuilding, Failing, LooksAt, Dropping, HasLock, Leaving, ForCore, Recovers,
            Known, Minds, Connecting, Placed, Arming, Lifting, InDisconnect, InStart, InConnect,
            InRecovery, InReapply
    <2> QED
      BY <1>1, <1>2, <1>4, <2>1, ConnectionAssumption DEF Tends, Becomes, Due, Known, NoRetry
  <1> QED
    BY <1>3, <1>4

\* Drops.
LEMMA DropTends ==
  ASSUME Wished, NEW t \in Tasks, Drop(t)
  PROVE  Tends(t)
  <1>1. Known(t) /\ Recovers(tasks[t])
    BY KnownIs DEF Wished, WishInv
  <1>2. tasks[t].pc = "drop" /\ Alike
    BY DEF Drop, Wish, Alike, At, DropRest, conn, recovery, core, started, Goes, Awaits, Ends,
          GoesOn
  <1>3. \/ Becomes(t, Idle) /\ (GivenUp)
        \/ Becomes(t, [To(t, "arm") EXCEPT !.next = "dropArmed"])
        \/ Becomes(t, To(t, "dropWait"))
    BY DEF Drop, Becomes, Goes, Awaits, Ends, GoesOn
  <1>4. ASSUME GivenUp PROVE Hands(tasks[t], Idle)
    BY <1>1, <1>2, <1>4, NamesAre, IdleIs, ConnectionAssumption DEF Idle, Hands, Dead, Cares,
          Rebuilding, Failing, LooksAt, Dropping, HasLock, Leaving, ForCore, Recovers, Known, Minds,
          Connecting, Placed, Arming, Lifting, InDisconnect, InStart, InConnect, InRecovery,
          InReapply, GivenUp
  <1>5. Hands(tasks[t], [To(t, "arm") EXCEPT !.next = "dropArmed"])
    BY <1>1, <1>2, NamesAre DEF To, Hands, Dead, Cares, Rebuilding, Failing, LooksAt, Dropping,
          HasLock, Leaving, ForCore, Recovers, Known, Minds, Connecting, Placed, Arming, Lifting,
          InDisconnect, InStart, InConnect, InRecovery, InReapply
  <1>6. Hands(tasks[t], To(t, "dropWait"))
    BY <1>1, <1>2, NamesAre DEF To, Hands, Dead, Cares, Rebuilding, Failing, LooksAt, Dropping,
          HasLock, Leaving, ForCore, Recovers, Known, Minds, Connecting, Placed, Arming, Lifting,
          InDisconnect, InStart, InConnect, InRecovery, InReapply
  <1> QED
    BY <1>1, <1>2, <1>3, <1>4, <1>5, <1>6, PassesOn DEF Becomes

LEMMA DropArmedTends ==
  ASSUME Wished, NEW t \in Tasks, DropArmed(t)
  PROVE  Tends(t)
  <1>1. Known(t) /\ Recovers(tasks[t])
    BY KnownIs DEF Wished, WishInv
  <1>2. tasks[t].pc = "dropArmed" /\ Alike
    BY DEF DropArmed, Wish, Alike, At, DropRest, conn, core, started, Goes, GoesOn
  <1>3. \/ Becomes(t, [tasks[t] EXCEPT !.armed = tasks[t].got = "added", !.got = "no", !.pc = "disarm",
                !.next = "end"]) /\ (GivenUp)
        \/ Becomes(t, [tasks[t] EXCEPT !.armed = tasks[t].got = "added", !.got = "no", !.pc = "dropWait"])
    BY DEF DropArmed, Becomes, Goes, GoesOn
  <1>4. ASSUME GivenUp PROVE Hands(tasks[t], [tasks[t] EXCEPT !.armed = tasks[t].got = "added",
             !.got = "no", !.pc = "disarm", !.next = "end"])
    BY <1>1, <1>2, <1>4, NamesAre DEF Hands, Dead, Cares, Rebuilding, Failing, LooksAt, Dropping,
          HasLock, Leaving, ForCore, Recovers, Known, Minds, Connecting, Placed, Arming, Lifting,
          InDisconnect, InStart, InConnect, InRecovery, InReapply, GivenUp
  <1>5. Hands(tasks[t], [tasks[t] EXCEPT !.armed = tasks[t].got = "added", !.got = "no", !.pc = "dropWait"])
    BY <1>1, <1>2, NamesAre DEF Hands, Dead, Cares, Rebuilding, Failing, LooksAt, Dropping, HasLock,
          Leaving, ForCore, Recovers, Known, Minds, Connecting, Placed, Arming, Lifting,
          InDisconnect, InStart, InConnect, InRecovery, InReapply
  <1> QED
    BY <1>1, <1>2, <1>3, <1>4, <1>5, PassesOn DEF Becomes

LEMMA DropWaitTends ==
  ASSUME Wished, NEW t \in Tasks, DropWait(t)
  PROVE  Tends(t)
  <1>1. /\ Known(t) /\ Recovers(tasks[t]) /\ made \in Nat
        /\ timer \in 0..Retries /\ (timer # NoRetry \/ queued => settings.auto)
    BY KnownIs DEF Wished, WishInv, Inv, CleanInv
  <1>2. tasks[t].pc = "dropWait" /\ UNCHANGED <<gen, dgen, rgen, settings>>
    BY DEF DropWait, At, DropRest, conn, recovery, core, started, Goes, Awaits, Ends, Lifts
  <1>3. \/ Becomes(t, Idle) /\ GivenUp /\ Alike
        \/ Becomes(t, Idle) /\ (tasks[t].what = "core" => Running) /\ Alike
        \/ Becomes(t, Idle) /\ status' = "reconnect-failed" /\ UNCHANGED Due
        \/ Becomes(t, [To(t, "disarm") EXCEPT !.next = "end"]) /\ (tasks[t].what = "core" => Running) /\
                Alike
        \/ Becomes(t, [Idle EXCEPT !.op = "disconnect", !.pc = "disconnect"]) /\ UNCHANGED Due
        \/ Becomes(t, [To(t, "dropJoin") EXCEPT !.on = runs]) /\ settings.auto /\ Alike
        \/ Becomes(t, To(t, "dropTake")) /\ settings.auto /\ Alike
    BY DEF DropWait, DropRest, conn, recovery, core, started, Becomes, Goes, Awaits, Ends, Lifts,
          Healed, Running, Alike, Wish, Due
  <1>4. CASE Becomes(t, Idle) /\ GivenUp /\ Alike
    <2>1. Hands(tasks[t], Idle)
      BY <1>1, <1>2, <1>4, NamesAre, IdleIs, ConnectionAssumption DEF Idle, Hands, Dead, Cares,
            Rebuilding, Failing, LooksAt, Dropping, HasLock, Leaving, ForCore, Recovers, Known, Minds,
            Connecting, Placed, Arming, Lifting, InDisconnect, InStart, InConnect, InRecovery,
            InReapply, GivenUp
    <2> QED
      BY <1>1, <1>4, <2>1, PassesOn DEF Becomes
  <1>5. CASE Becomes(t, Idle) /\ (tasks[t].what = "core" => Running) /\ Alike
    <2>1. Hands(tasks[t], Idle)
      BY <1>1, <1>2, <1>5, NamesAre, IdleIs, ConnectionAssumption DEF Idle, Hands, Dead, Cares,
            Rebuilding, Failing, LooksAt, Dropping, HasLock, Leaving, ForCore, Recovers, Known, Minds,
            Connecting, Placed, Arming, Lifting, InDisconnect, InStart, InConnect, InRecovery,
            InReapply, Running
    <2> QED
      BY <1>1, <1>5, <2>1, PassesOn DEF Becomes
  <1>6. CASE Becomes(t, Idle) /\ status' = "reconnect-failed" /\ UNCHANGED Due
    <2>1. Recovers(tasks[t])' /\ (Dead' => Cares(tasks[t])')
      BY <1>1, <1>2, <1>6, NamesAre, IdleIs, ConnectionAssumption DEF Becomes, Due, Running, Idle,
            Dead, Cares, Rebuilding, Failing, LooksAt, Dropping, HasLock, Leaving, ForCore, Recovers,
            Known, Minds, Connecting, Placed, Arming, Lifting, InDisconnect, InStart, InConnect,
            InRecovery, InReapply
    <2> QED
      BY <1>1, <1>2, <1>6, <2>1 DEF Tends, Becomes, Due, Known
  <1>7. CASE Becomes(t, [To(t, "disarm") EXCEPT !.next = "end"]) /\
             (tasks[t].what = "core" => Running) /\ Alike
    <2>1. Hands(tasks[t], [To(t, "disarm") EXCEPT !.next = "end"])
      BY <1>1, <1>2, <1>7, NamesAre DEF To, Hands, Dead, Cares, Rebuilding, Failing, LooksAt,
            Dropping, HasLock, Leaving, ForCore, Recovers, Known, Minds, Connecting, Placed, Arming,
            Lifting, InDisconnect, InStart, InConnect, InRecovery, InReapply, Running
    <2> QED
      BY <1>1, <1>7, <2>1, PassesOn DEF Becomes
  <1>8. CASE Becomes(t, [Idle EXCEPT !.op = "disconnect", !.pc = "disconnect"]) /\ UNCHANGED Due
    <2>1. Recovers(tasks[t])' /\ (Dead' => Cares(tasks[t])')
      BY <1>1, <1>2, <1>8, NamesAre, IdleIs, ConnectionAssumption DEF Becomes, Due, Running, Idle,
            Dead, Cares, Rebuilding, Failing, LooksAt, Dropping, HasLock, Leaving, ForCore, Recovers,
            Known, Minds, Connecting, Placed, Arming, Lifting, InDisconnect, InStart, InConnect,
            InRecovery, InReapply
    <2> QED
      BY <1>1, <1>2, <1>8, <2>1 DEF Tends, Becomes, Due, Known
  <1>9. CASE Becomes(t, [To(t, "dropJoin") EXCEPT !.on = runs]) /\ settings.auto /\ Alike
    <2>1. Hands(tasks[t], [To(t, "dropJoin") EXCEPT !.on = runs])
      BY <1>1, <1>2, <1>9, NamesAre DEF To, Hands, Dead, Cares, Rebuilding, Failing, LooksAt,
            Dropping, HasLock, Leaving, ForCore, Recovers, Known, Minds, Connecting, Placed, Arming,
            Lifting, InDisconnect, InStart, InConnect, InRecovery, InReapply
    <2> QED
      BY <1>1, <1>9, <2>1, PassesOn DEF Becomes
  <1>10. CASE Becomes(t, To(t, "dropTake")) /\ settings.auto /\ Alike
    <2>1. Hands(tasks[t], To(t, "dropTake"))
      BY <1>1, <1>2, <1>10, NamesAre DEF To, Hands, Dead, Cares, Rebuilding, Failing, LooksAt,
            Dropping, HasLock, Leaving, ForCore, Recovers, Known, Minds, Connecting, Placed, Arming,
            Lifting, InDisconnect, InStart, InConnect, InRecovery, InReapply
    <2> QED
      BY <1>1, <1>10, <2>1, PassesOn DEF Becomes
  <1> QED
    BY <1>3, <1>4, <1>5, <1>6, <1>7, <1>8, <1>9, <1>10

LEMMA DropJoinTends ==
  ASSUME Wished, NEW t \in Tasks, DropJoin(t)
  PROVE  Tends(t)
  <1> DEFINE c == tasks[t]
  <1>1. Known(t) /\ Recovers(c)
    BY KnownIs DEF Wished, WishInv
  <1>2. c.pc = "dropJoin" /\ Alike
    BY DEF DropJoin, At, DropRest, conn, core, started, Alike, Wish
  <1>3. \/ Becomes(t, Idle) /\ (GivenUp \/ timer # NoRetry \/ recovering)
        \/ Becomes(t, Idle) /\ Healed(t)
        \/ Becomes(t, [To(t, "disarm") EXCEPT !.next = "end"]) /\ Healed(t)
        \/ Becomes(t, [To(t, "dropTake") EXCEPT !.on = 0])
    BY DEF DropJoin, Lifts, Goes, Awaits, Ends, Becomes
  <1>4. recovering => c.on # runs
    <2>1. \A u \in Tasks : tasks[u].run # c.on
      BY <1>2 DEF DropJoin, Resumes
    <2>2. recovering => \E u \in Tasks : tasks[u].run = runs
      BY DEF Wished, SharedInv, LockInv, WishInv, Recovers
    <2> QED
      BY <2>1, <2>2
  <1>5. ASSUME GivenUp \/ timer # NoRetry \/ recovering PROVE Hands(c, Idle)
    BY <1>1, <1>2, <1>4, <1>5, IdleIs, ConnectionAssumption DEF GivenUp, Idle, Hands, Dead,
         Cares, Rebuilding,
          Failing, LooksAt, Dropping, HasLock, Leaving, ForCore, Recovers, Known, Minds,
         Connecting, Placed,
          Arming, Lifting, InDisconnect, InStart, InConnect, InRecovery, InReapply
  <1>6. ASSUME Healed(t) PROVE Hands(c, Idle) /\ Hands(c, [To(t, "disarm") EXCEPT !.next = "end"])
    BY <1>1, <1>2, <1>6, NamesAre, IdleIs, ConnectionAssumption DEF Healed, Running, To, Idle,
         Hands, Dead, Cares,
          Rebuilding, Failing, LooksAt, Dropping, HasLock, Leaving, ForCore, Recovers, Known,
         Minds, Connecting,
          Placed, Arming, Lifting, InDisconnect, InStart, InConnect, InRecovery, InReapply
  <1>7. Hands(c, [To(t, "dropTake") EXCEPT !.on = 0])
    BY <1>1, <1>2, NamesAre DEF To, Hands, Dead, Cares, Rebuilding, Failing, LooksAt, Dropping,
         HasLock, Leaving,
          ForCore, Recovers, Known, Minds, Connecting, Placed, Arming, Lifting, InDisconnect, InStart,
          InConnect, InRecovery, InReapply
  <1> QED
    BY <1>1, <1>2, <1>3, <1>5, <1>6, <1>7, PassesOn DEF Becomes

LEMMA DropTakeTends ==
  ASSUME Wished, NEW t \in Tasks, DropTake(t)
  PROVE  Tends(t)
  <1>1. /\ Known(t) /\ Recovers(tasks[t]) /\ made \in Nat
        /\ timer \in 0..Retries /\ (timer # NoRetry \/ queued => settings.auto)
    BY KnownIs DEF Wished, WishInv, Inv, CleanInv
  <1>2. tasks[t].pc = "dropTake" /\ UNCHANGED <<gen, dgen, rgen, settings>>
    BY DEF DropTake, At, DropRest, conn, recovery, core, started, Goes, Awaits
  <1>3. \/ Becomes(t, [Idle EXCEPT !.op = "recover", !.pc = "recover"]) /\ UNCHANGED Due
        \/ Becomes(t, [To(t, "dropReport") EXCEPT !.at = gen]) /\ proc' # None /\ timer' = NoRetry /\
                ~queued' /\ runs' = runs
        \/ Becomes(t, [To(t, "dropProxy") EXCEPT !.at = gen]) /\ timer' = NoRetry /\ ~queued' /\
                runs' = runs
    BY DEF DropTake, DropRest, conn, recovery, core, started, Becomes, Goes, Awaits, Running, Due,
          None
  <1>4. CASE Becomes(t, [Idle EXCEPT !.op = "recover", !.pc = "recover"]) /\ UNCHANGED Due
    <2>1. Recovers(tasks[t])' /\ (Dead' => Cares(tasks[t])')
      BY <1>1, <1>2, <1>4, NamesAre, IdleIs, ConnectionAssumption DEF Becomes, Due, Running, Idle,
            Dead, Cares, Rebuilding, Failing, LooksAt, Dropping, HasLock, Leaving, ForCore, Recovers,
            Known, Minds, Connecting, Placed, Arming, Lifting, InDisconnect, InStart, InConnect,
            InRecovery, InReapply
    <2> QED
      BY <1>1, <1>2, <1>4, <2>1 DEF Tends, Becomes, Due, Known
  <1>5. CASE Becomes(t, [To(t, "dropReport") EXCEPT !.at = gen]) /\ proc' # None /\ timer' = NoRetry /\
             ~queued' /\ runs' = runs
    <2>1. Recovers(tasks[t])' /\ (Dead' => Cares(tasks[t])')
      BY <1>1, <1>2, <1>5, NamesAre DEF Becomes, Due, Running, To, Dead, Cares, Rebuilding, Failing,
            LooksAt, Dropping, HasLock, Leaving, ForCore, Recovers, Known, Minds, Connecting, Placed,
            Arming, Lifting, InDisconnect, InStart, InConnect, InRecovery, InReapply
    <2> QED
      BY <1>1, <1>2, <1>5, <2>1, ConnectionAssumption DEF Tends, Becomes, Due, Known, NoRetry
  <1>6. CASE Becomes(t, [To(t, "dropProxy") EXCEPT !.at = gen]) /\ timer' = NoRetry /\ ~queued' /\
             runs' = runs
    <2>1. Recovers(tasks[t])' /\ (Dead' => Cares(tasks[t])')
      BY <1>1, <1>2, <1>6, NamesAre DEF Becomes, Due, Running, To, Dead, Cares, Rebuilding, Failing,
            LooksAt, Dropping, HasLock, Leaving, ForCore, Recovers, Known, Minds, Connecting, Placed,
            Arming, Lifting, InDisconnect, InStart, InConnect, InRecovery, InReapply
    <2> QED
      BY <1>1, <1>2, <1>6, <2>1, ConnectionAssumption DEF Tends, Becomes, Due, Known, NoRetry
  <1> QED
    BY <1>3, <1>4, <1>5, <1>6

LEMMA DropProxyTends ==
  ASSUME Wished, NEW t \in Tasks, DropProxy(t)
  PROVE  Tends(t)
  <1>1. Known(t) /\ Recovers(tasks[t])
    BY KnownIs DEF Wished, WishInv
  <1>2. tasks[t].pc = "dropProxy" /\ Alike
    BY DEF DropProxy, Wish, Alike, At, DropRest, conn, recovery, core, started, Awaits, AwaitsProxy,
          Ends
  <1>3. \/ Becomes(t, To(t, "dropProxied"))
        \/ Becomes(t, Idle) /\ (tasks[t].at # gen)
    BY DEF DropProxy, Becomes, Awaits, AwaitsProxy, Ends
  <1>4. Hands(tasks[t], To(t, "dropProxied"))
    BY <1>1, <1>2, NamesAre DEF To, Hands, Dead, Cares, Rebuilding, Failing, LooksAt, Dropping,
          HasLock, Leaving, ForCore, Recovers, Known, Minds, Connecting, Placed, Arming, Lifting,
          InDisconnect, InStart, InConnect, InRecovery, InReapply
  <1>5. ASSUME tasks[t].at # gen PROVE Hands(tasks[t], Idle)
    BY <1>1, <1>2, <1>5, NamesAre, IdleIs, ConnectionAssumption DEF Idle, Hands, Dead, Cares,
          Rebuilding, Failing, LooksAt, Dropping, HasLock, Leaving, ForCore, Recovers, Known, Minds,
          Connecting, Placed, Arming, Lifting, InDisconnect, InStart, InConnect, InRecovery,
          InReapply
  <1> QED
    BY <1>1, <1>2, <1>3, <1>4, <1>5, PassesOn DEF Becomes

LEMMA DropReportTends ==
  ASSUME Wished, NEW t \in Tasks, DropReport(t)
  PROVE  Tends(t)
  <1>1. /\ Known(t) /\ Recovers(tasks[t]) /\ made \in Nat
        /\ timer \in 0..Retries /\ (timer # NoRetry \/ queued => settings.auto)
    BY KnownIs DEF Wished, WishInv, Inv, CleanInv
  <1>2. tasks[t].pc \in {"dropReport", "dropProxied"} /\ UNCHANGED <<gen, dgen, rgen, settings>>
    BY DEF DropReport, At, DropRest, conn, recovery, core, started, Awaits, Ends
  <1>3. \/ Becomes(t, Idle) /\ status' = "reconnect-failed" /\ UNCHANGED Due
        \/ Becomes(t, Idle) /\ tasks[t].at # gen /\ Alike
    BY DEF DropReport, DropRest, conn, recovery, core, started, Becomes, Awaits, Ends, Alike, Wish,
          Due
  <1>4. CASE Becomes(t, Idle) /\ status' = "reconnect-failed" /\ UNCHANGED Due
    <2>1. Recovers(tasks[t])' /\ (Dead' => Cares(tasks[t])')
      BY <1>1, <1>2, <1>4, NamesAre, IdleIs, ConnectionAssumption DEF Becomes, Due, Running, Idle,
            Dead, Cares, Rebuilding, Failing, LooksAt, Dropping, HasLock, Leaving, ForCore, Recovers,
            Known, Minds, Connecting, Placed, Arming, Lifting, InDisconnect, InStart, InConnect,
            InRecovery, InReapply
    <2> QED
      BY <1>1, <1>2, <1>4, <2>1 DEF Tends, Becomes, Due, Known
  <1>5. CASE Becomes(t, Idle) /\ tasks[t].at # gen /\ Alike
    <2>1. Hands(tasks[t], Idle)
      BY <1>1, <1>2, <1>5, NamesAre, IdleIs, ConnectionAssumption DEF Idle, Hands, Dead, Cares,
            Rebuilding, Failing, LooksAt, Dropping, HasLock, Leaving, ForCore, Recovers, Known, Minds,
            Connecting, Placed, Arming, Lifting, InDisconnect, InStart, InConnect, InRecovery,
            InReapply
    <2> QED
      BY <1>1, <1>5, <2>1, PassesOn DEF Becomes
  <1> QED
    BY <1>3, <1>4, <1>5

\* doDisconnect.
LEMMA DisTunsTends ==
  ASSUME Wished, NEW t \in Tasks, DisTuns(t)
  PROVE  Tends(t)
  <1>1. Known(t) /\ Recovers(tasks[t])
    BY KnownIs DEF Wished, WishInv
  <1>2. tasks[t].pc = "disTuns" /\ Alike
    BY DEF DisTuns, Wish, Alike, At, ConnectRest, conn, recovery, core, started, Awaits
  <1>3. Becomes(t, To(t, "disProxy"))
    BY DEF DisTuns, Becomes, Awaits
  <1>4. Hands(tasks[t], To(t, "disProxy"))
    BY <1>1, <1>2, NamesAre DEF To, Hands, Dead, Cares, Rebuilding, Failing, LooksAt, Dropping,
          HasLock, Leaving, ForCore, Recovers, Known, Minds, Connecting, Placed, Arming, Lifting,
          InDisconnect, InStart, InConnect, InRecovery, InReapply
  <1> QED
    BY <1>1, <1>2, <1>3, <1>4, PassesOn DEF Becomes

LEMMA DisProxyTends ==
  ASSUME Wished, NEW t \in Tasks, DisProxy(t)
  PROVE  Tends(t)
  <1>1. Known(t) /\ Recovers(tasks[t])
    BY KnownIs DEF Wished, WishInv
  <1>2. tasks[t].pc = "disProxy" /\ Alike
    BY DEF DisProxy, Wish, Alike, At, conn, recovery, core, started, Awaits, AwaitsProxy
  <1>3. Becomes(t, To(t, "disBlock"))
    BY DEF DisProxy, Becomes, Awaits, AwaitsProxy
  <1>4. Hands(tasks[t], To(t, "disBlock"))
    BY <1>1, <1>2, NamesAre DEF To, Hands, Dead, Cares, Rebuilding, Failing, LooksAt, Dropping,
          HasLock, Leaving, ForCore, Recovers, Known, Minds, Connecting, Placed, Arming, Lifting,
          InDisconnect, InStart, InConnect, InRecovery, InReapply
  <1> QED
    BY <1>1, <1>2, <1>3, <1>4, PassesOn DEF Becomes

LEMMA DisBlockTends ==
  ASSUME Wished, NEW t \in Tasks, DisBlock(t)
  PROVE  Tends(t)
  <1>1. Known(t) /\ Recovers(tasks[t])
    BY KnownIs DEF Wished, WishInv
  <1>2. tasks[t].pc = "disBlock" /\ Alike
    BY DEF DisBlock, Wish, Alike, At, conn, recovery, core, started, Goes
  <1>3. Becomes(t, [To(t, "disarm") EXCEPT !.next = "disCore"])
    BY DEF DisBlock, Becomes, Goes
  <1>4. Hands(tasks[t], [To(t, "disarm") EXCEPT !.next = "disCore"])
    BY <1>1, <1>2, NamesAre DEF To, Hands, Dead, Cares, Rebuilding, Failing, LooksAt, Dropping,
          HasLock, Leaving, ForCore, Recovers, Known, Minds, Connecting, Placed, Arming, Lifting,
          InDisconnect, InStart, InConnect, InRecovery, InReapply
  <1> QED
    BY <1>1, <1>2, <1>3, <1>4, PassesOn DEF Becomes

LEMMA DisCoreTends ==
  ASSUME Wished, NEW t \in Tasks, DisCore(t)
  PROVE  Tends(t)
  <1>1. Known(t) /\ Recovers(tasks[t])
    BY KnownIs DEF Wished, WishInv
  <1>2. tasks[t].pc = "disCore" /\ Alike
    BY DEF DisCore, Wish, Alike, At, conn, recovery, core, started, Goes, Awaits, StopsCore
  <1>3. \/ Becomes(t, [To(t, "disDone") EXCEPT !.on = proc])
        \/ Becomes(t, To(t, "disDone"))
    BY DEF DisCore, Becomes, Goes, Awaits, StopsCore
  <1>4. Hands(tasks[t], [To(t, "disDone") EXCEPT !.on = proc])
    BY <1>1, <1>2, NamesAre DEF To, Hands, Dead, Cares, Rebuilding, Failing, LooksAt, Dropping,
          HasLock, Leaving, ForCore, Recovers, Known, Minds, Connecting, Placed, Arming, Lifting,
          InDisconnect, InStart, InConnect, InRecovery, InReapply
  <1>5. Hands(tasks[t], To(t, "disDone"))
    BY <1>1, <1>2, NamesAre DEF To, Hands, Dead, Cares, Rebuilding, Failing, LooksAt, Dropping,
          HasLock, Leaving, ForCore, Recovers, Known, Minds, Connecting, Placed, Arming, Lifting,
          InDisconnect, InStart, InConnect, InRecovery, InReapply
  <1> QED
    BY <1>1, <1>2, <1>3, <1>4, <1>5, PassesOn DEF Becomes

LEMMA DisDoneTends ==
  ASSUME Wished, NEW t \in Tasks, DisDone(t)
  PROVE  Tends(t)
  <1>1. /\ Known(t) /\ Recovers(tasks[t]) /\ made \in Nat
        /\ timer \in 0..Retries /\ (timer # NoRetry \/ queued => settings.auto)
    BY KnownIs DEF Wished, WishInv, Inv, CleanInv
  <1>2. tasks[t].pc = "disDone" /\ UNCHANGED <<gen, dgen, rgen, settings>>
    BY DEF DisDone, At, recovery, core, started, Awaits, Ends
  <1>3. Becomes(t, Idle) /\ ~active' /\ UNCHANGED Due
    BY DEF DisDone, recovery, core, started, Becomes, Awaits, Ends, Due
  <1>4. CASE Becomes(t, Idle) /\ ~active' /\ UNCHANGED Due
    <2>1. Recovers(tasks[t])' /\ (Dead' => Cares(tasks[t])')
      BY <1>1, <1>2, <1>4, NamesAre, IdleIs, ConnectionAssumption DEF Becomes, Due, Running, Idle,
            Dead, Cares, Rebuilding, Failing, LooksAt, Dropping, HasLock, Leaving, ForCore, Recovers,
            Known, Minds, Connecting, Placed, Arming, Lifting, InDisconnect, InStart, InConnect,
            InRecovery, InReapply
    <2> QED
      BY <1>1, <1>2, <1>4, <2>1 DEF Tends, Becomes, Due, Known
  <1> QED
    BY <1>3, <1>4

LEMMA ConnectTends ==
  ASSUME Wished, NEW t \in Tasks, Connect(t)
  PROVE  WishInv'
  <1> DEFINE c == tasks[t]
             r == IF c.armed THEN [To(t, "prepare") EXCEPT !.my = gen + 1]
                             ELSE [To(t, "disarm") EXCEPT !.my = gen + 1, !.next = "prepare"]
  <1>1. Known(t) /\ Recovers(c)
    BY KnownIs DEF Wished, WishInv
  <1>2. /\ tasks' = [tasks EXCEPT ![t] = r] /\ gen' = gen + 1
        /\ UNCHANGED <<settings, rgen, timer, queued, runs>>
    BY DEF Connect, At, Goes, Awaits, recovery
  <1>3. /\ r.my = gen + 1 /\ r.att = c.att /\ r.run = c.run /\ r.rg = c.rg
        /\ r.pc \in {"prepare", "disarm"} /\ (r.pc = "disarm" => r.next = "prepare")
    BY <1>1, NamesAre DEF Known, To
  <1> HIDE DEF r
  <1>4. tasks'[t] = r /\ \A u \in Tasks : u # t => tasks'[u] = tasks[u]
    BY <1>1, <1>2 DEF Known
  <1>5. Cares(tasks[t])'
    BY <1>1, <1>2, <1>3, <1>4 DEF Known, Cares, Rebuilding, None
  <1>6. c.run # 0 => settings.auto
    BY <1>1 DEF Recovers
  <1>7. \A u \in Tasks : Recovers(tasks[u]) /\ tasks[u].my \in 0..gen /\ gen \in Nat
    BY DEF Wished, WishInv, Inv, CleanInv, Placed
  <1>8. ASSUME NEW u \in Tasks PROVE Recovers(tasks[u])'
    <2>1. CASE u = t
      BY <1>1, <1>2, <1>3, <1>4, <2>1 DEF Recovers, HasLock, Lifting
    <2>2. CASE u # t
      BY <1>2, <1>4, <1>7, <2>2 DEF Recovers, HasLock, Lifting
    <2> QED
      BY <2>1, <2>2
  <1> QED
    BY <1>2, <1>5, <1>8 DEF Wished, WishInv

LEMMA DisconnectTends ==
  ASSUME Wished, NEW t \in Tasks, Disconnect(t)
  PROVE  WishInv'
  <1> DEFINE c == tasks[t]
             r == To(t, "disTuns")
  <1>1. Known(t) /\ Recovers(c)
    BY KnownIs DEF Wished, WishInv
  <1>2. /\ tasks' = [tasks EXCEPT ![t] = r] /\ gen' = gen + 1 /\ rgen' = rgen + 1
        /\ queued' = FALSE /\ timer' = NoRetry /\ UNCHANGED <<settings, runs>>
    BY DEF Disconnect, LocksAnew, At, Awaits
  <1>3. r.att = c.att /\ r.run = c.run /\ r.pc = "disTuns" /\ r.my = c.my /\ r.rg = c.rg
    BY <1>1, NamesAre DEF Known, To
  <1> HIDE DEF r
  <1>4. tasks'[t] = r /\ \A u \in Tasks : u # t => tasks'[u] = tasks[u]
    BY <1>1, <1>2 DEF Known
  <1>5. Cares(tasks[t])'
    BY <1>3, <1>4 DEF Cares, Leaving, ForCore, InDisconnect
  <1>6. \A u \in Tasks : /\ Recovers(tasks[u]) /\ tasks[u].my \in 0..gen /\ gen \in Nat
                         /\ tasks'[u].att = tasks[u].att /\ tasks'[u].run = tasks[u].run
                         /\ tasks'[u].my = tasks[u].my /\ tasks'[u].rg = tasks[u].rg
    BY <1>3, <1>4 DEF Wished, WishInv, Inv, CleanInv, Placed
  <1>7. ASSUME NEW u \in Tasks PROVE ~HasLock(tasks[u])'
    BY <1>2, <1>6 DEF Wished, Inv, CleanInv, Placed, HasLock
  <1>8. ASSUME NEW u \in Tasks PROVE Recovers(tasks[u])'
    <2>1. tasks'[u].pc \in {"dropJoin", "dropTake"} => tasks[u].pc \in {"dropJoin", "dropTake"}
      BY <1>3, <1>4
    <2> QED
      BY <1>2, <1>6, <1>7, <2>1 DEF Recovers
  <1> QED
    BY <1>2, <1>5, <1>8, ConnectionAssumption DEF WishInv, NoRetry

LEMMA SameWish ==
  ASSUME WishInv, UNCHANGED <<gen, dgen, rgen, settings, tasks>>, UNCHANGED Wish
  PROVE  WishInv'
  BY DEF WishInv, Wish, Dead, Running, Recovers, Cares, Rebuilding, Failing, LooksAt, Dropping,
       HasLock, Leaving, ForCore

LEMMA CoreExitsTend ==
  ASSUME Wished, CoreExits
  PROVE  WishInv'
  <1> DEFINE drop == [Idle EXCEPT !.op = "drop", !.pc = "drop"]
  <1>1. PICK x \in alive :
          /\ alive' = alive \ {x} /\ proc' = (IF proc = x THEN None ELSE proc)
          /\ unseen' = (unseen \/ (proc = x /\ Unseen))
          /\ IF proc = x /\ Dropped("core") THEN \E t \in Tasks : Calls(t, drop) ELSE UNCHANGED tasks
          /\ UNCHANGED <<gen, dgen, rgen, settings, active, userDisc, reloading, timer, status, queued,
                  runs, recovering>>
    BY DEF CoreExits, ExitRest, Called, conn, recovery, ctl
  <1>2. /\ \A u \in Tasks : Recovers(tasks[u])
        /\ timer \in 0..Retries /\ (timer # NoRetry \/ queued => settings.auto)
    BY DEF Wished, WishInv
  <1>3. /\ drop.pc = "drop" /\ drop.what = "core" /\ drop.att = 0 /\ drop.run = 0
    BY DEF Idle
  <1> HIDE DEF drop
  <1>4. CASE proc = x /\ Dropped("core")
    <2>1. PICK t \in Tasks : Calls(t, drop)
      BY <1>1, <1>4
    <2>2. Known(t)
      BY KnownIs DEF Wished
    <2>3. tasks'[t] = drop /\ \A u \in Tasks : u # t => tasks'[u] = tasks[u]
      BY <2>1, <2>2 DEF Calls, Goes, Known
    <2>4. Cares(tasks[t])'
      BY <1>3, <2>3 DEF Cares, LooksAt, Dropping
    <2>5. ASSUME NEW u \in Tasks PROVE Recovers(tasks[u])'
      BY <1>1, <1>2, <1>3, <2>3, ConnectionAssumption DEF Recovers, HasLock, Lifting
    <2> QED
      BY <1>1, <1>2, <2>4, <2>5 DEF WishInv
  <1>5. CASE ~(proc = x /\ Dropped("core"))
    <2>0. UNCHANGED tasks
      BY <1>1, <1>5
    <2>1. \A u \in Tasks : Recovers(tasks[u])'
      BY <1>1, <1>2, <2>0 DEF Recovers, HasLock
    <2>2. ASSUME NEW u \in Tasks, Cares(tasks[u]) PROVE Cares(tasks[u])'
      <3>1. Rebuilding(tasks[u]) => Rebuilding(tasks[u])'
        BY <1>1, <2>0 DEF Rebuilding
      <3>2. Failing(tasks[u]) => Failing(tasks[u])'
        BY <1>1, <2>0 DEF Failing
      <3>3. LooksAt(tasks[u]) => LooksAt(tasks[u])'
        BY <1>1, <2>0 DEF LooksAt, Dropping
      <3> QED
        BY <1>1, <2>0, <2>2, <3>1, <3>2, <3>3 DEF Cares, HasLock, Leaving, ForCore
    <2>3. ASSUME Dead', ~Dead PROVE \E u \in Tasks : Cares(tasks[u])'
      <3>1. proc = x /\ active /\ ~unseen /\ ~Unseen
        BY <1>1, <2>3 DEF Dead, Running
      <3>2. CASE userDisc
        <4>1. PICK u \in Tasks : Leaving(tasks[u])
          BY <3>2 DEF Wished, Inv, CleanInv
        <4> QED
          BY <2>2, <4>1 DEF Cares
      <3>3. CASE \E u \in Tasks : Mends(tasks[u])
        <4>1. PICK u \in Tasks : Mends(tasks[u])
          BY <3>3
        <4>2. CASE tasks[u].op = "reload" /\ tasks[u].pc = "grace" /\ tasks[u].on = proc
          <5>1. Failing(tasks[u])'
            BY <1>1, <2>0, <3>1, <4>2 DEF Failing
          <5> QED
            BY <5>1 DEF Cares
        <4>3. CASE Rebuilding(tasks[u])
          BY <2>2, <4>3 DEF Cares
        <4> QED
          BY <4>1, <4>2, <4>3 DEF Mends, Rebuilding
      <3>4. ~userDisc => reloading # 0
        BY <1>5, <3>1 DEF Dropped
      <3> QED
        BY <3>1, <3>2, <3>3, <3>4 DEF Unseen
    <2> QED
      BY <1>1, <1>2, <2>1, <2>2, <2>3 DEF Wished, WishInv
  <1> QED
    BY <1>1, <1>4, <1>5

LEMMA DropCallTends ==
  ASSUME Wished, NEW t \in Tasks, NEW r, Calls(t, r), r.pc = "drop", r.att = 0, r.run = 0, r.next = "end",
         UNCHANGED <<gen, dgen, rgen, settings>>, UNCHANGED Wish
  PROVE  WishInv'
  <1>1. Known(t) /\ tasks[t].pc = "idle" /\ tasks' = [tasks EXCEPT ![t] = r]
    BY KnownIs DEF Wished, Calls, Slot, Free, Goes
  <1>2. Hands(tasks[t], r)
    BY <1>1, ConnectionAssumption DEF Hands, Dead, Cares, Rebuilding, Failing, LooksAt,
         Dropping, HasLock, Leaving,
          ForCore, Recovers, Known, Minds, Connecting, Placed, Arming, Lifting, InDisconnect, InStart,
          InConnect, InRecovery, InReapply
  <1> QED
    BY <1>1, <1>2, PassesOn, TendsKeeps DEF Alike

LEMMA TunnelExitsTend ==
  ASSUME Wished, TunnelExits
  PROVE  WishInv'
  <1> DEFINE drop == [Idle EXCEPT !.op = "drop", !.pc = "drop", !.what = "tun"]
  <1>1. /\ UNCHANGED <<gen, dgen, rgen, settings>> /\ UNCHANGED Wish
        /\ UNCHANGED tasks \/ \E t \in Tasks : Calls(t, drop)
    BY DEF TunnelExits, ExitRest, conn, recovery, ctl, core, started, Wish
  <1>2. drop.pc = "drop" /\ drop.att = 0 /\ drop.run = 0 /\ drop.next = "end"
    BY DEF Idle
  <1> HIDE DEF drop
  <1>3. CASE UNCHANGED tasks
    BY <1>1, <1>3, SameWish DEF Wished
  <1> QED
    BY <1>1, <1>2, <1>3, DropCallTends

LEMMA CallTends ==
  ASSUME Wished, NEW t \in Tasks,
         \/ KillSwitch(t) \/ ConnectOnce(t) \/ ReapplyConnection(t) \/ UserCalls(t)
         \/ InPlaceReload(t) \/ Recovery(t) \/ OnConnectionDrop(t) \/ DoDisconnect(t)
  PROVE  Connect(t) \/ Disconnect(t) \/ Tends(t)
  <1>1. CASE KillSwitch(t)
    BY <1>1, ArmTends, ArmCheckTends, ArmDeleteTends, ArmAddTends, ArmAddedTends, DisarmTends,
       DisarmingTends
    DEF KillSwitch
  <1>2. CASE ConnectOnce(t)
    BY <1>2, PrepareTends, StartTends, StartingTends, CrashedTends, StartedTends, ProxiedTends,
       SwapTends, TunnelTends, TunnelledTends, LanTends, LastTends, GiveWayTends,
       GaveCoreTends, GoneTends
    DEF ConnectOnce
  <1>3. CASE ReapplyConnection(t)
    BY <1>3, ReapplyTends, ReapplyArmedTends, ReapplyStaleTends, TeardownTends,
       TeardownTunsTends, TeardownCoreTends, TornDownTends, ReapplyAnsweredTends,
       ReapplyFailedTends
    DEF ReapplyConnection
  <1>4. CASE InPlaceReload(t)
    BY <1>4, AsksReloadTends, ReloadTends, ReloadBuildTends, ReloadCheckTends, ReloadedTends
    DEF InPlaceReload
  <1>5. CASE UserCalls(t)
    BY <1>5, UserConnectsTends, UserDisconnectsTends, UserAppliesTends, UserRetriesTends,
       ConnectAnsweredTends, EndTends
    DEF UserCalls
  <1>6. CASE Recovery(t)
    BY <1>6, RecoverTends, RecoverAnsweredTends, RecoveredTends, TriggerTends, TimerFiresTends
    DEF Recovery
  <1>7. CASE OnConnectionDrop(t)
    BY <1>7, DropTends, DropArmedTends, DropWaitTends, DropJoinTends, DropTakeTends,
       DropProxyTends, DropReportTends
    DEF OnConnectionDrop
  <1>8. CASE DoDisconnect(t)
    BY <1>8, DisTunsTends, DisProxyTends, DisBlockTends, DisCoreTends, DisDoneTends
    DEF DoDisconnect
  <1> QED
    BY <1>1, <1>2, <1>3, <1>4, <1>5, <1>6, <1>7, <1>8

LEMMA WishNext ==
  ASSUME Wished, [Next]_vars
  PROVE  WishInv'
  <1>1. ASSUME NEW t \in Tasks, Connect(t) \/ Disconnect(t) \/ Tends(t) PROVE WishInv'
    BY <1>1, ConnectTends, DisconnectTends, TendsKeeps
  <1>2. CASE UNCHANGED vars
    BY <1>2, SameWish DEF Wished, Wish, vars, ctl, conn, core, started, recovery
  <1>3. CASE Next
    BY <1>1, <1>2, <1>3, CallTends, CoreExitsTend, TunnelExitsTend DEF Next, Rest
  <1> QED
    BY <1>2, <1>3

LEMMA WishAlways == Spec => []WishInv
  <1>1. Init => WishInv
    BY IdleIs, ConnectionAssumption DEF Init, WishInv, Dead, Recovers, HasLock, Lifting, NoRetry, Idle
  <1>2. Inv /\ SharedInv /\ TurnInv /\ WishInv /\ [Next]_vars => WishInv'
    BY WishNext DEF Wished
  <1> QED
    BY <1>1, <1>2, Inductive, TurnAlways, PTL DEF Spec

\* The wish to be connected is met, will be tried again, or the window says that it
\* failed: onConnectionDrop, runRecovery and the reports of doConnect's callers, between
\* them, lose no exit of the core but what xrayReloading hides.
THEOREM Told == Spec => []NeverSilentlyDead
  <1>1. Inv /\ TurnInv /\ WishInv => NeverSilentlyDead
    <2> SUFFICES ASSUME Inv, TurnInv, WishInv, AtRest, NEW t \in Tasks
                 PROVE  ~Cares(tasks[t])
      BY DEF NeverSilentlyDead, WishInv, Dead
    <2>1. tasks[t].pc = "idle" /\ tasks[t].run = 0 /\ Minds(tasks[t])
      BY AtRestIs DEF TurnInv
    <2> QED
      BY <2>1 DEF Cares, Rebuilding, Failing, LooksAt, Dropping, HasLock, Leaving, ForCore, Minds,
                  Connecting, Arming, Lifting, InDisconnect, InStart, InConnect
  <1> QED
    BY <1>1, Inductive, TurnAlways, WishAlways, PTL DEF Spec
=============================================================================
