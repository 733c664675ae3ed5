----------------------- MODULE ConnectionHistoryProof -----------------------
(***************************************************************************)
(* What holds of the connection under a condition on its history: one core *)
(* at a time as long as no two starts wait for an exit at once (OneWaits), *)
(* and a connection that is open again once it is made where nothing       *)
(* straggles behind a newer command (Straggles).                           *)
(*                                                                         *)
(* Both rest on ConnectionProof: on Inv, and on its lemmas about what each *)
(* step of a call makes of the call and of the machine.                    *)
(***************************************************************************)
EXTENDS ConnectionProof, FiniteSetTheorems, SequenceTheorems, TLAPS

-----------------------------------------------------------------------------
(* Two cores: they take two starts that wait for an exit at the same time.  *)

\* No step but a start's waits for a core that is to make way for another, or makes one;
\* and a call comes to its start by waiting its turn.
Stops(t) ==
  /\ \A u \in Tasks : u # t => tasks'[u] = tasks[u]
  /\ UNCHANGED <<proc, alive>> /\ killed \subseteq killed'
  /\ tasks'[t].pc # "starting"
  /\ turn' \in {t, NoTask}
  /\ turn' = t /\ ToStart(tasks'[t]) => ToStart(tasks[t]) /\ At(t, tasks[t].pc)

Shaped(t) == DOMAIN tasks = Tasks /\ DOMAIN tasks[t] = Names /\ Placed(tasks[t])
LEMMA ShapedIs ==
  ASSUME Inv, NEW t \in Tasks
  PROVE  Shaped(t)
  BY DEF Inv, Formed, CleanInv, Shaped

LEMMA KillSwitchStops ==
  ASSUME Inv, NEW t \in Tasks, KillSwitch(t)
  PROVE  Stops(t)
  <1>1. Shaped(t)
    BY ShapedIs
  <1>2. CASE Arm(t)
    BY <1>1, <1>2, NamesAre DEF Stops, Shaped, Arm, ArmRest, conn, recovery, core, started, Awaits,
          To, Goes, At, ToStart
  <1>3. CASE ArmCheck(t)
    BY <1>1, <1>3, NamesAre DEF Stops, Shaped, ArmCheck, ArmRest, conn, recovery, core, started,
          Goes, Awaits, To, Then, At, Placed, Lifting, Arming, ToStart
  <1>4. CASE ArmDelete(t)
    BY <1>1, <1>4, NamesAre DEF Stops, Shaped, ArmDelete, ArmRest, conn, recovery, core, started,
          Awaits, To, Goes, At, ToStart
  <1>5. CASE ArmAdd(t)
    BY <1>1, <1>5, NamesAre DEF Stops, Shaped, ArmAdd, ArmRest, conn, recovery, core, started, Goes,
          Awaits, To, Then, At, Placed, Lifting, Arming, ToStart
  <1>6. CASE ArmAdded(t)
    BY <1>1, <1>6, NamesAre DEF Stops, Shaped, ArmAdded, ArmRest, conn, recovery, core, started,
          Goes, To, Then, At, Placed, Lifting, Arming, Awaits, ToStart
  <1>7. CASE Disarm(t)
    BY <1>1, <1>7, NamesAre, ConnectionAssumption DEF Stops, Shaped, Disarm, ArmRest, conn,
          recovery, core, started, Awaits, To, Goes, At, ToStart
  <1>8. CASE Disarming(t)
    BY <1>1, <1>8, NamesAre DEF Stops, Shaped, Disarming, ArmRest, conn, recovery, core, started,
          Goes, To, Then, At, Placed, Lifting, Arming, Awaits, ToStart
  <1> QED
    BY <1>2, <1>3, <1>4, <1>5, <1>6, <1>7, <1>8 DEF KillSwitch

LEMMA ConnectOnceStops ==
  ASSUME Inv, NEW t \in Tasks, ConnectOnce(t), ~Start(t), ~Starting(t)
  PROVE  Stops(t)
  <1>1. Shaped(t)
    BY ShapedIs
  <1>2. CASE Connect(t)
    <2>1. \/ Becomes(t, [To(t, "prepare") EXCEPT !.my = gen + 1]) /\ turn' # t
          \/ Becomes(t, [To(t, "disarm") EXCEPT !.my = gen + 1, !.next = "prepare"])
      BY <1>2, ConnectionAssumption DEF Connect, Becomes, Goes, Awaits
    <2>2. UNCHANGED <<proc, alive, killed>> /\ turn' \in {t, NoTask}
      BY <1>2 DEF Connect, Goes, Awaits, core, started
    <2>3. CASE Becomes(t, [To(t, "prepare") EXCEPT !.my = gen + 1]) /\ turn' # t
      BY <1>1, <2>2, <2>3, NamesAre DEF Stops, Shaped, Becomes, To
    <2>4. CASE Becomes(t, [To(t, "disarm") EXCEPT !.my = gen + 1, !.next = "prepare"])
      BY <1>1, <2>2, <2>4, NamesAre DEF Stops, Shaped, Becomes, To, ToStart
    <2> QED
      BY <2>1, <2>3, <2>4
  <1>3. CASE Prepare(t)
    BY <1>1, <1>3, NamesAre DEF Stops, Shaped, Prepare, conn, recovery, core, started, Goes, To,
          Answer, Awaits, At, ToStart
  <1>4. CASE Crashed(t)
    BY <1>1, <1>4, NamesAre DEF Stops, Shaped, Crashed, conn, recovery, core, started, Goes, Answer,
          Overtaken, Awaits, At, ToStart
  <1>5. CASE Started(t)
    BY <1>1, <1>5, NamesAre DEF Stops, Shaped, Started, recovery, core, started, Goes, Awaits,
          AwaitsProxy, At, ToStart
  <1>6. CASE Proxied(t)
    <2>1. \/ Becomes(t, To(t, "giveWay"))
          \/ Becomes(t, To(t, "lan"))
          \/ Becomes(t, To(t, "tunnel"))
          \/ Becomes(t, [To(t, "arm") EXCEPT !.next = "swap"])
          \/ Becomes(t, To(t, "swap"))
      BY <1>6 DEF Proxied, Becomes, Goes, Awaits
    <2>2. UNCHANGED <<proc, alive, killed>> /\ turn' \in {t, NoTask}
      BY <1>6 DEF Proxied, conn, recovery, core, started, Goes, Awaits
    <2>3. CASE Becomes(t, To(t, "giveWay"))
      BY <1>1, <2>2, <2>3, NamesAre DEF Stops, Shaped, Becomes, To, Goes, Awaits, At, ToStart
    <2>4. CASE Becomes(t, To(t, "lan"))
      BY <1>1, <2>2, <2>4, NamesAre DEF Stops, Shaped, Becomes, To, Goes, Awaits, At, ToStart
    <2>5. CASE Becomes(t, To(t, "tunnel"))
      BY <1>1, <2>2, <2>5, NamesAre DEF Stops, Shaped, Becomes, To, Goes, Awaits, At, ToStart
    <2>6. CASE Becomes(t, [To(t, "arm") EXCEPT !.next = "swap"])
      BY <1>1, <2>2, <2>6, NamesAre DEF Stops, Shaped, Becomes, To, Goes, Awaits, At, ToStart
    <2>7. CASE Becomes(t, To(t, "swap"))
      BY <1>1, <2>2, <2>7, NamesAre DEF Stops, Shaped, Becomes, To, Goes, Awaits, At, ToStart
    <2> QED
      BY <2>1, <2>3, <2>4, <2>5, <2>6, <2>7
  <1>7. CASE Swap(t)
    BY <1>1, <1>7, NamesAre DEF Stops, Shaped, Swap, ConnectRest, conn, recovery, core, started,
          Awaits, To, Goes, At, ToStart
  <1>8. CASE Tunnel(t)
    BY <1>1, <1>8, NamesAre DEF Stops, Shaped, Tunnel, ConnectRest, conn, recovery, core, started,
          Awaits, To, Goes, At, ToStart
  <1>9. CASE Tunnelled(t)
    BY <1>1, <1>9, NamesAre DEF Stops, Shaped, Tunnelled, ConnectRest, conn, recovery, core,
          started, Awaits, To, Goes, At, ToStart
  <1>10. CASE Lan(t)
    BY <1>1, <1>10, NamesAre DEF Stops, Shaped, Lan, ConnectRest, conn, recovery, core, started,
          Goes, To, Awaits, At, ToStart
  <1>11. CASE Last(t)
    <2>1. \/ Becomes(t, To(t, "giveWay"))
          \/ Becomes(t, Answer(t, "failed"))
          \/ Becomes(t, Answer(t, IF tasks[t].terr THEN "tunless" ELSE "ok"))
      BY <1>11 DEF Last, Becomes, Goes
    <2>2. UNCHANGED <<proc, alive, killed>> /\ turn' \in {t, NoTask}
      BY <1>11 DEF Last, core, started, Goes
    <2>3. CASE Becomes(t, To(t, "giveWay"))
      BY <1>1, <2>2, <2>3, NamesAre DEF Stops, Shaped, Becomes, To, Goes, Awaits, At, ToStart
    <2>4. CASE Becomes(t, Answer(t, "failed"))
      BY <1>1, <2>2, <2>4, NamesAre DEF Stops, Shaped, Becomes, Answer, Goes, Awaits, At, ToStart
    <2>5. CASE Becomes(t, Answer(t, IF tasks[t].terr THEN "tunless" ELSE "ok"))
      BY <1>1, <2>2, <2>5, NamesAre DEF Stops, Shaped, Becomes, Answer, Goes, Awaits, At, ToStart
    <2> QED
      BY <2>1, <2>3, <2>4, <2>5
  <1>12. CASE GiveWay(t)
    <2>1. \/ Becomes(t, [To(t, "gaveCore") EXCEPT !.on = proc])
          \/ Becomes(t, [To(t, "disarm") EXCEPT !.next = "gone"])
          \/ Becomes(t, To(t, "gone"))
      BY <1>12 DEF GiveWay, Becomes, Goes, Awaits, StopsCore
    <2>2. UNCHANGED <<proc, alive>> /\ killed \subseteq killed' /\ turn' \in {t, NoTask}
      BY <1>12 DEF GiveWay, StopsCore, core, started, Goes, Awaits
    <2>3. CASE Becomes(t, [To(t, "gaveCore") EXCEPT !.on = proc])
      BY <1>1, <2>2, <2>3, NamesAre DEF Stops, Shaped, Becomes, To, Goes, Awaits, At, ToStart
    <2>4. CASE Becomes(t, [To(t, "disarm") EXCEPT !.next = "gone"])
      BY <1>1, <2>2, <2>4, NamesAre DEF Stops, Shaped, Becomes, To, Goes, Awaits, At, ToStart
    <2>5. CASE Becomes(t, To(t, "gone"))
      BY <1>1, <2>2, <2>5, NamesAre DEF Stops, Shaped, Becomes, To, Goes, Awaits, At, ToStart
    <2> QED
      BY <2>1, <2>3, <2>4, <2>5
  <1>13. CASE GaveCore(t)
    BY <1>1, <1>13, NamesAre DEF Stops, Shaped, GaveCore, conn, recovery, core, started, Goes, To,
          Awaits, At, ToStart
  <1>14. CASE Gone(t)
    BY <1>1, <1>14, NamesAre DEF Stops, Shaped, Gone, ConnectRest, conn, recovery, core, started,
          Goes, Answer, Awaits, At, ToStart
  <1> QED
    BY <1>2, <1>3, <1>4, <1>5, <1>6, <1>7, <1>8, <1>9, <1>10, <1>11, <1>12, <1>13, <1>14 DEF
          ConnectOnce

LEMMA ReapplyConnectionStops ==
  ASSUME Inv, NEW t \in Tasks, ReapplyConnection(t)
  PROVE  Stops(t)
  <1>1. Shaped(t)
    BY ShapedIs
  <1>2. CASE Reapply(t)
    BY <1>1, <1>2, NamesAre DEF Stops, Shaped, Reapply, ConnectRest, conn, recovery, core, started,
          Goes, To, Return, Awaits, At, ToStart
  <1>3. CASE ReapplyArmed(t)
    BY <1>1, <1>3, NamesAre DEF Stops, Shaped, ReapplyArmed, ConnectRest, conn, recovery, core,
          started, Goes, Awaits, At, ToStart
  <1>4. CASE ReapplyStale(t)
    BY <1>1, <1>4, NamesAre DEF Stops, Shaped, ReapplyStale, ConnectRest, conn, recovery, core,
          started, Goes, To, Return, Awaits, At, ToStart
  <1>5. CASE Teardown(t)
    BY <1>1, <1>5, NamesAre DEF Stops, Shaped, Teardown, conn, recovery, core, started, Awaits, To,
          Goes, At, ToStart
  <1>6. CASE TeardownTuns(t)
    BY <1>1, <1>6, NamesAre DEF Stops, Shaped, TeardownTuns, ConnectRest, conn, recovery, core,
          started, Awaits, To, Goes, At, ToStart
  <1>7. CASE TeardownCore(t)
    BY <1>1, <1>7, NamesAre DEF Stops, Shaped, TeardownCore, conn, recovery, core, started, Goes,
          Awaits, StopsCore, To, At, ToStart
  <1>8. CASE TornDown(t)
    BY <1>1, <1>8, NamesAre DEF Stops, Shaped, TornDown, conn, recovery, core, started, Goes, To,
          Return, Awaits, At, ToStart
  <1>9. CASE ReapplyAnswered(t)
    <2>1. \/ Becomes(t, To(t, "reapplyFailed"))
          \/ Becomes(t, Return(t, "stale"))
          \/ Becomes(t, Return(t, tasks[t].res))
          \/ Becomes(t, [Return(t, tasks[t].res) EXCEPT !.pc = "disarm", !.next = Return(t,
                  tasks[t].res).pc])
      BY <1>9 DEF ReapplyAnswered, Becomes, Goes, Awaits, AwaitsProxy
    <2>2. UNCHANGED <<proc, alive, killed>> /\ turn' \in {t, NoTask}
      BY <1>9 DEF ReapplyAnswered, conn, recovery, core, started, Goes, Awaits, AwaitsProxy
    <2>3. CASE Becomes(t, To(t, "reapplyFailed"))
      BY <1>1, <2>2, <2>3, NamesAre DEF Stops, Shaped, Becomes, To, Goes, Awaits, At, ToStart
    <2>4. CASE Becomes(t, Return(t, "stale"))
      BY <1>1, <2>2, <2>4, NamesAre DEF Stops, Shaped, Becomes, To, Return, Goes, Awaits, At,
            ToStart
    <2>5. CASE Becomes(t, Return(t, tasks[t].res))
      BY <1>1, <2>2, <2>5, NamesAre DEF Stops, Shaped, Becomes, To, Return, Goes, Awaits, At,
            ToStart
    <2>6. CASE Becomes(t, [Return(t, tasks[t].res) EXCEPT !.pc = "disarm", !.next = Return(t,
               tasks[t].res).pc])
      BY <1>1, <2>2, <2>6, NamesAre DEF Stops, Shaped, Becomes, To, Return, Goes, Awaits, At,
            ToStart
    <2> QED
      BY <2>1, <2>3, <2>4, <2>5, <2>6
  <1>10. CASE ReapplyFailed(t)
    BY <1>1, <1>10, NamesAre DEF Stops, Shaped, ReapplyFailed, conn, recovery, core, started, Goes,
          To, Return, Awaits, At, ToStart
  <1> QED
    BY <1>2, <1>3, <1>4, <1>5, <1>6, <1>7, <1>8, <1>9, <1>10 DEF ReapplyConnection

LEMMA InPlaceReloadStops ==
  ASSUME Inv, NEW t \in Tasks, InPlaceReload(t)
  PROVE  Stops(t)
  <1>1. Shaped(t)
    BY ShapedIs
  <1>2. CASE AsksReload(t)
    BY <1>1, <1>2, NamesAre, IdleIs DEF Stops, Shaped, AsksReload, ConnectRest, conn, recovery,
          core, started, Awaits, Idle, Goes, At, ToStart
  <1>3. CASE Reload(t)
    <2>1. \/ Becomes(t, [To(t, "reloadBuild") EXCEPT !.at = gen])
          \/ Becomes(t, Idle)
      BY <1>3 DEF Reload, Becomes, Awaits, Ends
    <2>2. UNCHANGED <<proc, alive, killed>> /\ turn' \in {t, NoTask}
      BY <1>3 DEF Reload, Awaits, Ends, ConnectRest, conn, core, started
    <2>3. CASE Becomes(t, [To(t, "reloadBuild") EXCEPT !.at = gen])
      BY <1>1, <2>2, <2>3, NamesAre DEF Stops, Shaped, Becomes, To, ToStart
    <2>4. CASE Becomes(t, Idle)
      BY <1>1, <2>2, <2>4, NamesAre, IdleIs DEF Stops, Shaped, Becomes, Idle, ToStart
    <2> QED
      BY <2>1, <2>3, <2>4
  <1>4. CASE ReloadBuild(t)
    BY <1>1, <1>4, NamesAre, ConnectionAssumption DEF Stops, Shaped, ReloadBuild, conn, recovery,
          core, started, Awaits, To, Goes, At, ToStart
  <1>5. CASE ReloadCheck(t)
    BY <1>1, <1>5, NamesAre, IdleIs DEF Stops, Shaped, ReloadCheck, conn, recovery, core, started,
          Goes, Awaits, Ends, Throws, To, Idle, At, ToStart
  <1>6. CASE Reloaded(t)
    <2>1. \/ Becomes(t, Idle)
          \/ Becomes(t, [Idle EXCEPT !.op = "drop", !.pc = "drop"])
      BY <1>6 DEF Reloaded, Becomes, Goes, Awaits, Ends, Throws
    <2>2. UNCHANGED <<proc, alive, killed>> /\ turn' \in {t, NoTask}
      BY <1>6 DEF Reloaded, Goes, Awaits, Ends, Throws, conn, core, started
    <2>3. CASE Becomes(t, Idle)
      BY <1>1, <2>2, <2>3, NamesAre, IdleIs DEF Stops, Shaped, Becomes, Idle, ToStart
    <2>4. CASE Becomes(t, [Idle EXCEPT !.op = "drop", !.pc = "drop"])
      BY <1>1, <2>2, <2>4, NamesAre, IdleIs DEF Stops, Shaped, Becomes, Idle, ToStart
    <2> QED
      BY <2>1, <2>3, <2>4
  <1> QED
    BY <1>2, <1>3, <1>4, <1>5, <1>6 DEF InPlaceReload

LEMMA UserCallsStops ==
  ASSUME Inv, NEW t \in Tasks, UserCalls(t)
  PROVE  Stops(t)
  <1>1. Shaped(t)
    BY ShapedIs
  <1>2. CASE UserConnects(t)
    BY <1>1, <1>2, NamesAre, IdleIs DEF Stops, Shaped, UserConnects, CallRest, conn, recovery, core,
          started, Goes, Calls, Called, Idle, Awaits, At, ToStart
  <1>3. CASE UserDisconnects(t)
    BY <1>1, <1>3, NamesAre, IdleIs DEF Stops, Shaped, UserDisconnects, CallRest, conn, recovery,
          core, started, Goes, Calls, Called, Idle, Awaits, At, ToStart
  <1>4. CASE UserApplies(t)
    BY <1>1, <1>4, NamesAre, IdleIs DEF Stops, Shaped, UserApplies, CallRest, conn, recovery, core,
          started, Goes, Calls, Called, Idle, Awaits, At, ToStart
  <1>5. CASE UserRetries(t)
    BY <1>1, <1>5, NamesAre, IdleIs DEF Stops, Shaped, UserRetries, CallRest, conn, recovery, core,
          started, Goes, Calls, Idle, Awaits, At, ToStart
  <1>6. CASE ConnectAnswered(t)
    <2>1. \/ Becomes(t, [To(t, "disarm") EXCEPT !.next = "end"])
          \/ Becomes(t, Idle)
      BY <1>6 DEF ConnectAnswered, Becomes, Goes, Awaits, Ends
    <2>2. UNCHANGED <<proc, alive, killed>> /\ turn' \in {t, NoTask}
      BY <1>6 DEF ConnectAnswered, conn, recovery, core, started, Goes, Awaits, Ends
    <2>3. CASE Becomes(t, [To(t, "disarm") EXCEPT !.next = "end"])
      BY <1>1, <2>2, <2>3, NamesAre DEF Stops, Shaped, Becomes, To, Goes, Awaits, At, ToStart
    <2>4. CASE Becomes(t, Idle)
      BY <1>1, <2>2, <2>4, NamesAre, IdleIs DEF Stops, Shaped, Becomes, Idle, Goes, Awaits, At,
            ToStart
    <2> QED
      BY <2>1, <2>3, <2>4
  <1>7. CASE End(t)
    BY <1>1, <1>7, NamesAre, IdleIs DEF Stops, Shaped, End, ConnectRest, conn, recovery, core,
          started, Awaits, Ends, Idle, Goes, At, ToStart
  <1> QED
    BY <1>2, <1>3, <1>4, <1>5, <1>6, <1>7 DEF UserCalls

LEMMA RecoveryStops ==
  ASSUME Inv, NEW t \in Tasks, Recovery(t)
  PROVE  Stops(t)
  <1>1. Shaped(t)
    BY ShapedIs
  <1>2. CASE Recover(t)
    <2>1. \/ Becomes(t, Idle)
          \/ Becomes(t, [To(t, IF Running THEN "reapply" ELSE "connect") EXCEPT !.rg = rgen,
                  !.run = runs', !.armed = ~Running /\ engaged])
      BY <1>2 DEF Recover, Becomes, Goes, Awaits, Ends
    <2>2. UNCHANGED <<proc, alive, killed>> /\ turn' \in {t, NoTask}
      BY <1>2 DEF Recover, conn, recovery, core, started, Goes, Awaits, Ends
    <2>3. CASE Becomes(t, Idle)
      BY <1>1, <2>2, <2>3, NamesAre, IdleIs DEF Stops, Shaped, Becomes, Idle, Goes, Awaits, At,
            ToStart
    <2>4. CASE Becomes(t, [To(t, IF Running THEN "reapply" ELSE "connect") EXCEPT !.rg = rgen,
               !.run = runs', !.armed = ~Running /\ engaged])
      BY <1>1, <2>2, <2>4, NamesAre DEF Stops, Shaped, Becomes, To, Goes, Awaits, At, ToStart
    <2> QED
      BY <2>1, <2>3, <2>4
  <1>3. CASE RecoverAnswered(t)
    BY <1>1, <1>3, NamesAre DEF Stops, Shaped, RecoverAnswered, ConnectRest, conn, recovery, core,
          started, Goes, To, Awaits, At, ToStart
  <1>4. CASE Recovered(t)
    <2>1. \/ Becomes(t, Idle)
          \/ Becomes(t, [Idle EXCEPT !.op = "recover", !.pc = "recover"])
      BY <1>4 DEF Recovered, Becomes, Goes, Awaits, Ends
    <2>2. UNCHANGED <<proc, alive, killed>> /\ turn' \in {t, NoTask}
      BY <1>4 DEF Recovered, conn, recovery, core, started, Goes, Awaits, Ends
    <2>3. CASE Becomes(t, Idle)
      BY <1>1, <2>2, <2>3, NamesAre, IdleIs DEF Stops, Shaped, Becomes, Idle, Goes, Awaits, At,
            ToStart
    <2>4. CASE Becomes(t, [Idle EXCEPT !.op = "recover", !.pc = "recover"])
      BY <1>1, <2>2, <2>4, NamesAre, IdleIs DEF Stops, Shaped, Becomes, Idle, Goes, Awaits, At,
            ToStart
    <2> QED
      BY <2>1, <2>3, <2>4
  <1>5. CASE Trigger(t)
    BY <1>1, <1>5, NamesAre, IdleIs DEF Stops, Shaped, Trigger, CallRest, conn, recovery, core,
          started, Goes, Calls, Called, Idle, Awaits, At, ToStart
  <1>6. CASE TimerFires(t)
    BY <1>1, <1>6, NamesAre, IdleIs DEF Stops, Shaped, TimerFires, conn, recovery, core, started,
          Goes, Calls, Idle, Awaits, At, ToStart
  <1> QED
    BY <1>2, <1>3, <1>4, <1>5, <1>6 DEF Recovery

LEMMA OnConnectionDropStops ==
  ASSUME Inv, NEW t \in Tasks, OnConnectionDrop(t)
  PROVE  Stops(t)
  <1>1. Shaped(t)
    BY ShapedIs
  <1>2. CASE Drop(t)
    <2>1. \/ Becomes(t, Idle)
          \/ Becomes(t, [To(t, "arm") EXCEPT !.next = "dropArmed"])
          \/ Becomes(t, To(t, "dropWait"))
      BY <1>2 DEF Drop, Becomes, Goes, Awaits, Ends, GoesOn
    <2>2. UNCHANGED <<proc, alive, killed>> /\ turn' \in {t, NoTask}
      BY <1>2 DEF Drop, DropRest, conn, recovery, core, started, Goes, Awaits, Ends, GoesOn
    <2>3. CASE Becomes(t, Idle)
      BY <1>1, <2>2, <2>3, NamesAre, IdleIs DEF Stops, Shaped, Becomes, Idle, Goes, Awaits, At,
            ToStart
    <2>4. CASE Becomes(t, [To(t, "arm") EXCEPT !.next = "dropArmed"])
      BY <1>1, <2>2, <2>4, NamesAre DEF Stops, Shaped, Becomes, To, Goes, Awaits, At, ToStart
    <2>5. CASE Becomes(t, To(t, "dropWait"))
      BY <1>1, <2>2, <2>5, NamesAre DEF Stops, Shaped, Becomes, To, Goes, Awaits, At, ToStart
    <2> QED
      BY <2>1, <2>3, <2>4, <2>5
  <1>3. CASE DropArmed(t)
    <2>1. \/ Becomes(t, [tasks[t] EXCEPT !.armed = tasks[t].got = "added", !.got = "no",
                  !.pc = "disarm", !.next = "end"])
          \/ Becomes(t, [tasks[t] EXCEPT !.armed = tasks[t].got = "added", !.got = "no", !.pc = "dropWait"])
      BY <1>3 DEF DropArmed, Becomes, Goes, GoesOn
    <2>2. UNCHANGED <<proc, alive, killed>> /\ turn' \in {t, NoTask}
      BY <1>3 DEF DropArmed, DropRest, conn, core, started, Goes, GoesOn
    <2>3. CASE Becomes(t, [tasks[t] EXCEPT !.armed = tasks[t].got = "added", !.got = "no",
               !.pc = "disarm", !.next = "end"])
      BY <1>1, <2>2, <2>3, NamesAre DEF Stops, Shaped, Becomes, Goes, Awaits, At, ToStart
    <2>4. CASE Becomes(t, [tasks[t] EXCEPT !.armed = tasks[t].got = "added", !.got = "no",
               !.pc = "dropWait"])
      BY <1>1, <2>2, <2>4, NamesAre DEF Stops, Shaped, Becomes, Goes, Awaits, At, ToStart
    <2> QED
      BY <2>1, <2>3, <2>4
  <1>4. CASE DropWait(t)
    <2>1. \/ Becomes(t, Idle)
          \/ Becomes(t, [To(t, "disarm") EXCEPT !.next = "end"])
          \/ Becomes(t, [Idle EXCEPT !.op = "disconnect", !.pc = "disconnect"])
          \/ Becomes(t, [To(t, "dropJoin") EXCEPT !.on = runs])
          \/ Becomes(t, To(t, "dropTake"))
      BY <1>4 DEF DropWait, Becomes, Goes, Awaits, Ends, Lifts
    <2>2. UNCHANGED <<proc, alive, killed>> /\ turn' \in {t, NoTask}
      BY <1>4 DEF DropWait, DropRest, conn, recovery, core, started, Goes, Awaits, Ends, Lifts
    <2>3. CASE Becomes(t, Idle)
      BY <1>1, <2>2, <2>3, NamesAre, IdleIs DEF Stops, Shaped, Becomes, Idle, Goes, Awaits, At,
            ToStart
    <2>4. CASE Becomes(t, [To(t, "disarm") EXCEPT !.next = "end"])
      BY <1>1, <2>2, <2>4, NamesAre DEF Stops, Shaped, Becomes, To, Goes, Awaits, At, ToStart
    <2>5. CASE Becomes(t, [Idle EXCEPT !.op = "disconnect", !.pc = "disconnect"])
      BY <1>1, <2>2, <2>5, NamesAre, IdleIs DEF Stops, Shaped, Becomes, Idle, Goes, Awaits, At,
            ToStart
    <2>6. CASE Becomes(t, [To(t, "dropJoin") EXCEPT !.on = runs])
      BY <1>1, <2>2, <2>6, NamesAre DEF Stops, Shaped, Becomes, To, Goes, Awaits, At, ToStart
    <2>7. CASE Becomes(t, To(t, "dropTake"))
      BY <1>1, <2>2, <2>7, NamesAre DEF Stops, Shaped, Becomes, To, Goes, Awaits, At, ToStart
    <2> QED
      BY <2>1, <2>3, <2>4, <2>5, <2>6, <2>7
  <1>5. CASE DropJoin(t)
    <2>1. \/ Becomes(t, Idle)
          \/ Becomes(t, [To(t, "disarm") EXCEPT !.next = "end"])
          \/ Becomes(t, [To(t, "dropTake") EXCEPT !.on = 0])
      BY <1>5 DEF DropJoin, Becomes, Goes, Awaits, Ends, Lifts
    <2>2. UNCHANGED <<proc, alive, killed>> /\ turn' \in {t, NoTask}
      BY <1>5 DEF DropJoin, DropRest, conn, recovery, core, started, Goes, Awaits, Ends, Lifts
    <2>3. CASE Becomes(t, Idle)
      BY <1>1, <2>2, <2>3, NamesAre, IdleIs DEF Stops, Shaped, Becomes, Idle, Goes, Awaits, At,
            ToStart
    <2>4. CASE Becomes(t, [To(t, "disarm") EXCEPT !.next = "end"])
      BY <1>1, <2>2, <2>4, NamesAre DEF Stops, Shaped, Becomes, To, Goes, Awaits, At, ToStart
    <2>5. CASE Becomes(t, [To(t, "dropTake") EXCEPT !.on = 0])
      BY <1>1, <2>2, <2>5, NamesAre DEF Stops, Shaped, Becomes, To, Goes, Awaits, At, ToStart
    <2> QED
      BY <2>1, <2>3, <2>4, <2>5
  <1>6. CASE DropTake(t)
    <2>1. \/ Becomes(t, [Idle EXCEPT !.op = "recover", !.pc = "recover"])
          \/ Becomes(t, [To(t, "dropReport") EXCEPT !.at = gen])
          \/ Becomes(t, [To(t, "dropProxy") EXCEPT !.at = gen])
      BY <1>6 DEF DropTake, Becomes, Goes, Awaits
    <2>2. UNCHANGED <<proc, alive, killed>> /\ turn' \in {t, NoTask}
      BY <1>6 DEF DropTake, Goes, Awaits, DropRest, core, started
    <2>3. CASE Becomes(t, [Idle EXCEPT !.op = "recover", !.pc = "recover"])
      BY <1>1, <2>2, <2>3, NamesAre, IdleIs DEF Stops, Shaped, Becomes, Idle, ToStart
    <2>4. CASE Becomes(t, [To(t, "dropReport") EXCEPT !.at = gen])
      BY <1>1, <2>2, <2>4, NamesAre DEF Stops, Shaped, Becomes, To, ToStart
    <2>5. CASE Becomes(t, [To(t, "dropProxy") EXCEPT !.at = gen])
      BY <1>1, <2>2, <2>5, NamesAre DEF Stops, Shaped, Becomes, To, ToStart
    <2> QED
      BY <2>1, <2>3, <2>4, <2>5
  <1>7. CASE DropProxy(t)
    BY <1>1, <1>7, NamesAre, IdleIs DEF Stops, Shaped, DropProxy, DropRest, conn, recovery, core,
          started, Awaits, AwaitsProxy, Ends, To, Idle, Goes, At, ToStart
  <1>8. CASE DropReport(t)
    BY <1>1, <1>8, NamesAre, IdleIs DEF Stops, Shaped, DropReport, DropRest, conn, recovery, core,
          started, Awaits, Ends, Idle, Goes, At, ToStart
  <1> QED
    BY <1>2, <1>3, <1>4, <1>5, <1>6, <1>7, <1>8 DEF OnConnectionDrop

LEMMA DoDisconnectStops ==
  ASSUME Inv, NEW t \in Tasks, DoDisconnect(t)
  PROVE  Stops(t)
  <1>1. Shaped(t)
    BY ShapedIs
  <1>2. CASE Disconnect(t)
    BY <1>1, <1>2, NamesAre DEF Stops, Shaped, Disconnect, core, started, Awaits, To, Goes, At,
          ToStart
  <1>3. CASE DisTuns(t)
    BY <1>1, <1>3, NamesAre DEF Stops, Shaped, DisTuns, ConnectRest, conn, recovery, core, started,
          Awaits, To, Goes, At, ToStart
  <1>4. CASE DisProxy(t)
    BY <1>1, <1>4, NamesAre DEF Stops, Shaped, DisProxy, conn, recovery, core, started, Awaits,
          AwaitsProxy, To, Goes, At, ToStart
  <1>5. CASE DisBlock(t)
    BY <1>1, <1>5, NamesAre DEF Stops, Shaped, DisBlock, conn, recovery, core, started, Goes, To,
          Awaits, At, ToStart
  <1>6. CASE DisCore(t)
    BY <1>1, <1>6, NamesAre DEF Stops, Shaped, DisCore, conn, recovery, core, started, Goes, Awaits,
          StopsCore, To, At, ToStart
  <1>7. CASE DisDone(t)
    BY <1>1, <1>7, NamesAre, IdleIs DEF Stops, Shaped, DisDone, recovery, core, started, Awaits,
          Ends, Idle, Goes, At, ToStart
  <1> QED
    BY <1>2, <1>3, <1>4, <1>5, <1>6, <1>7 DEF DoDisconnect

\* One whose core is gone goes on before anybody else comes to a start.
LEMMA GoesOnFirst ==
  ASSUME NEW t \in Tasks, NEW u \in Tasks, tasks[u].pc = "starting", tasks[u].on \notin alive,
         ToStart(tasks[t]), At(t, tasks[t].pc)
  PROVE  turn = t
  <1>1. Resumes(u)
    BY DEF Resumes
  <1>2. tasks[t].pc \in {"prepare", "start", "reloadCheck", "disarming"}
    BY DEF ToStart
  <1>3. ~Resumes(t)
    BY <1>2 DEF Resumes
  <1> QED
    BY <1>1, <1>3 DEF At, Quiet

LEMMA StopsKeep ==
  ASSUME SpawnInv, NEW t \in Tasks, Stops(t)
  PROVE  SpawnInv'
  <1>1. OneKnown' /\ proc' \in alive' \cup {None}
    BY DEF Stops, SpawnInv, OneKnown
  <1>2. SUFFICES ASSUME NEW u \in Tasks, tasks'[u].pc = "starting"
                 PROVE  /\ tasks'[u].on \notin alive' \ killed'
                        /\ proc' = IF tasks'[u].on \in alive' THEN tasks'[u].on ELSE None
                        /\ tasks'[u].on \notin alive' =>
                             \A w \in Tasks : turn' = w => ~ToStart(tasks'[w])
    BY <1>1, <1>2 DEF SpawnInv, ToStart
  <1>3. u # t /\ tasks'[u] = tasks[u] /\ tasks[u].pc = "starting"
    BY <1>2 DEF Stops
  <1>4. /\ tasks[u].on \notin alive \ killed
        /\ proc = IF tasks[u].on \in alive THEN tasks[u].on ELSE None
        /\ tasks[u].on \notin alive => \A w \in Tasks : turn = w => ~ToStart(tasks[w])
    BY <1>3 DEF SpawnInv
  <1>5. ASSUME tasks'[u].on \notin alive', NEW w \in Tasks, turn' = w, ToStart(tasks'[w])
        PROVE  FALSE
    <2>1. w = t
      BY <1>5, ConnectionAssumption DEF Stops
    <2>2. ToStart(tasks[t]) /\ At(t, tasks[t].pc) /\ alive' = alive
      BY <1>5, <2>1 DEF Stops
    <2>3. turn = t
      BY <1>3, <1>5, <2>2, GoesOnFirst
    <2> QED
      BY <1>3, <1>4, <1>5, <2>2, <2>3
  <1> QED
    BY <1>3, <1>4, <1>5 DEF Stops

LEMMA SpawnKeeps ==
  ASSUME Inv, SpawnInv, NEW t \in Tasks, Spawn(t), proc \notin alive \ killed,
         \A u \in Tasks : u # t => tasks[u].pc # "starting"
  PROVE  SpawnInv'
  <1>1. Shaped(t) /\ made \in Nat
    BY ShapedIs DEF Inv, CleanInv
  <1>2. /\ tasks' = [tasks EXCEPT ![t] = [To(t, "grace") EXCEPT !.on = made']]
        /\ proc' = made + 1 /\ alive' = alive \cup {made + 1} /\ killed' = killed
    BY DEF Spawn, Awaits
  <1>3. tasks'[t].pc = "grace" /\ \A u \in Tasks : u # t => tasks'[u] = tasks[u]
    BY <1>1, <1>2, NamesAre DEF Shaped, To
  <1>4. \A u \in Tasks : tasks'[u].pc # "starting"
    BY <1>3
  <1>5. alive' \ killed' \subseteq {proc'} /\ proc' \in alive'
    BY <1>2 DEF SpawnInv, OneKnown
  <1> QED
    BY <1>4, <1>5 DEF SpawnInv, OneKnown

LEMMA StartKeeps ==
  ASSUME Inv, SpawnInv, NEW t \in Tasks, Start(t)
  PROVE  SpawnInv'
  <1>1. Shaped(t) /\ None \notin alive /\ ToStart(tasks[t]) /\ At(t, tasks[t].pc)
    BY ShapedIs DEF Inv, CleanInv, None, Start, At, ToStart
  <1>2. CASE Running
    <2>1. /\ tasks' = [tasks EXCEPT ![t] = [To(t, "starting") EXCEPT !.on = proc]]
          /\ killed' = killed \cup ({proc} \cap alive) /\ UNCHANGED <<proc, alive>>
      BY <1>2 DEF Start, StopsCore, Awaits, started
    <2>2. tasks'[t].on = proc /\ \A u \in Tasks : u # t => tasks'[u] = tasks[u]
      BY <1>1, <2>1, NamesAre DEF Shaped, To
    <2>3. proc \in alive /\ proc # None
      BY <1>2 DEF SpawnInv, Running
    <2>4. ASSUME NEW u \in Tasks, tasks'[u].pc = "starting"
          PROVE  tasks'[u].on = proc
      <3>1. CASE u = t
        BY <2>2, <3>1
      <3>2. CASE u # t
        BY <2>2, <2>3, <2>4, <3>2 DEF SpawnInv
      <3> QED
        BY <3>1, <3>2
    <2>5. alive' \ killed' = (alive \ killed) \ {proc}
      BY <2>1, <2>3
    <2>6. OneKnown' /\ proc' \in alive' \cup {None}
      BY <2>1, <2>3, <2>5 DEF SpawnInv, OneKnown
    <2> QED
      BY <2>1, <2>3, <2>4, <2>5, <2>6 DEF SpawnInv
  <1>3. CASE ~Running
    <2>1. Spawn(t) /\ proc = None /\ tasks[t].pc = "start"
      BY <1>3 DEF Start, Running, At
    <2>2. ASSUME NEW u \in Tasks, tasks[u].pc = "starting"
          PROVE  FALSE
      <3>1. /\ tasks[u].on \notin alive
            /\ \A w \in Tasks : turn = w => ~ToStart(tasks[w])
        BY <1>1, <2>1, <2>2 DEF SpawnInv
      <3>2. turn = t
        BY <1>1, <2>2, <3>1, GoesOnFirst
      <3> QED
        BY <1>1, <3>1, <3>2
    <2> QED
      BY <1>1, <2>1, <2>2, SpawnKeeps
  <1> QED
    BY <1>2, <1>3

LEMMA StartingKeeps ==
  ASSUME Inv, SpawnInv, OneWaits, NEW t \in Tasks, Starting(t)
  PROVE  SpawnInv'
  <1>1. Spawn(t) /\ tasks[t].pc = "starting" /\ None \notin alive
    BY DEF Starting, At, Inv, CleanInv, None
  <1>2. \A u \in Tasks : u # t => tasks[u].pc # "starting"
    BY <1>1 DEF OneWaits
  <1>3. proc \notin alive \ killed
    BY <1>1 DEF SpawnInv
  <1> QED
    BY <1>1, <1>2, <1>3, SpawnKeeps

\* A core exits only where nobody has waited for one in vain.
LEMMA ExitsKeep ==
  ASSUME Inv, SpawnInv, CoreExits \/ TunnelExits
  PROVE  SpawnInv'
  <1> DEFINE drop == [Idle EXCEPT !.op = "drop", !.pc = "drop"]
             fall == [Idle EXCEPT !.op = "drop", !.pc = "drop", !.what = "tun"]
  <1>1. \/ UNCHANGED tasks /\ turn' = NoTask
        \/ \E t \in Tasks : Calls(t, drop) \/ Calls(t, fall)
    BY DEF CoreExits, TunnelExits, Called, ctl, Quiet
  <1>2. /\ drop.pc # "starting" /\ fall.pc # "starting"
        /\ ~ToStart(drop) /\ ~ToStart(fall)
    BY DEF Idle, ToStart
  <1> HIDE DEF drop, fall
  <1>3. ASSUME NEW u \in Tasks, tasks'[u].pc = "starting"
        PROVE  tasks'[u] = tasks[u]
    BY <1>1, <1>2, <1>3, ShapedIs DEF Calls, Goes, Shaped
  <1>4. ASSUME NEW w \in Tasks, turn' = w
        PROVE  ~ToStart(tasks'[w])
    <2>1. PICK t \in Tasks : Calls(t, drop) \/ Calls(t, fall)
      BY <1>1, <1>4, ConnectionAssumption
    <2>2. w = t /\ (tasks'[t] = drop \/ tasks'[t] = fall)
      BY <1>4, <2>1, ShapedIs DEF Calls, Goes, Shaped
    <2> QED
      BY <1>2, <2>2
  <1>5. \A u \in Tasks : tasks[u].pc = "starting" => tasks[u].on \in alive
    BY DEF CoreExits, TunnelExits, Quiet, Resumes
  <1>6. \/ UNCHANGED <<proc, alive, killed>>
        \/ \E x \in alive : /\ alive' = alive \ {x} /\ killed' = killed \ {x}
                            /\ proc' = IF proc = x THEN None ELSE proc
    BY DEF CoreExits, TunnelExits, core
  <1>7. /\ OneKnown' /\ proc' \in alive' \cup {None}
        /\ alive' \ killed' \subseteq alive \ killed
    BY <1>6 DEF SpawnInv, OneKnown
  <1>8. ASSUME NEW u \in Tasks, tasks'[u].pc = "starting"
        PROVE  /\ tasks'[u].on \notin alive' \ killed'
               /\ proc' = IF tasks'[u].on \in alive' THEN tasks'[u].on ELSE None
    <2>1. /\ tasks'[u] = tasks[u] /\ tasks[u].on \in alive /\ proc = tasks[u].on
          /\ tasks[u].on \notin alive \ killed
      BY <1>3, <1>5, <1>8 DEF SpawnInv
    <2> QED
      BY <1>6, <1>7, <2>1
  <1> QED
    BY <1>4, <1>7, <1>8 DEF SpawnInv

LEMMA SpawnNext ==
  ASSUME Inv, SpawnInv, OneWaits, [Next]_vars
  PROVE  SpawnInv'
  <1>1. CASE UNCHANGED vars
    BY <1>1 DEF SpawnInv, OneKnown, vars, ctl, core
  <1>2. ASSUME NEW t \in Tasks, Stops(t) PROVE SpawnInv'
    BY <1>2, StopsKeep
  <1>3. ASSUME NEW t \in Tasks, ConnectOnce(t) PROVE SpawnInv'
    BY <1>2, <1>3, StartKeeps, StartingKeeps, ConnectOnceStops
  <1>4. CASE Next
    BY <1>1, <1>2, <1>3, <1>4, ExitsKeep, KillSwitchStops, ReapplyConnectionStops, InPlaceReloadStops,
         UserCallsStops,
       RecoveryStops, OnConnectionDropStops, DoDisconnectStops
    DEF Next, Rest
  <1> QED
    BY <1>1, <1>4

\* As long as no two starts wait for an exit at once, the only core that nobody told to
\* stop is the one that is known - at every moment, at rest as OneCore says it, and with
\* reloads that were overtaken and cores that outlive their stop among them.  A single
\* start that waits cannot be robbed of its place (XrayManager.start, stop): while its
\* core lives, any other start waits too, and when it exits nobody comes in between.
THEOREM Alone == Spec /\ []OneWaits => [](OneKnown /\ OneCore)
  <1>1. Init => SpawnInv
    BY IdleIs DEF Init, SpawnInv, OneKnown, None
  <1>2. Inv /\ SpawnInv /\ OneWaits /\ [Next]_vars => SpawnInv'
    BY SpawnNext
  <1>3. SpawnInv => OneKnown /\ OneCore
    BY DEF SpawnInv, OneKnown, OneCore
  <1> QED
    BY <1>1, <1>2, <1>3, Inductive, PTL DEF Spec

-----------------------------------------------------------------------------
(* The block: OpenInv, and ConnectedIsOpen but for a call that comes too late. *)

Opened == Wished /\ OpenInv

\* A step of t that takes no generation leaves the block, where a connection stands or
\* comes about, to t or to whose it was.
Lands(t) ==
  /\ tasks'[t].my \in {tasks[t].my, None}
  /\ Fits(tasks[t])' /\ (tasks'[t].pc \in InTurn => turn' = t)
  /\ (active' => active \/ Newest(tasks[t])) /\ (GivenUp' => GivenUp)
  /\ recovering' => timer' = NoRetry
  /\ status' = "connected" => status = "connected" \/ Newest(tasks[t])
  /\ gen # dgen /\ rule' =>
       /\ rule \/ Opens(tasks[t])'
       /\ LacksTunnel(tasks[t])' => LacksTunnel(tasks[t]) \/ Newest(tasks[t])
       /\ status' = "connected" /\ ~Connects /\ ~Tunless =>
            (recovering' => recovering) /\ timer' \in {timer, NoRetry} /\ runs' = runs
       /\ Opens(tasks[t]) =>
            \/ Opens(tasks[t])'
            \/ status' # "connected" /\ (~Connects \/ (Newest(tasks[t]) /\ tasks'[t].my = None))
            \/ Awaited(tasks[t])' /\ ~Connects /\ ~Tunless
       /\ Awaited(tasks[t]) /\ ~Connects /\ ~Tunless /\ status' = "connected" =>
            Opens(tasks[t])' \/ Awaited(tasks[t])'
Lets(t) ==
  /\ turn \in {t, NoTask} /\ UNCHANGED <<gen, dgen, settings>>
  /\ \A u \in Tasks : u # t => tasks'[u] = tasks[u]
  /\ Lands(t)

\* What the block is read from, and what t becomes in a step that leaves it alone.
Calm == <<gen, dgen, settings, active, userDisc, status, proc, recovering, timer, runs, rule>>
Leads(t, r) ==
  /\ r.my \in {tasks[t].my, None}
  /\ Fits(r) /\ (r.pc \in InTurn => turn' = t)
  /\ gen # dgen /\ rule =>
       /\ LacksTunnel(r) => LacksTunnel(tasks[t]) \/ Newest(tasks[t])
       /\ Opens(tasks[t]) =>
            \/ Opens(r)
            \/ status # "connected" /\ Newest(tasks[t]) /\ r.my = None
            \/ Awaited(r) /\ ~Connects /\ ~Tunless
       /\ Awaited(tasks[t]) => Opens(r) \/ Awaited(r)

\* What is known of a call before its step.
Ready(t) ==
  /\ Known(t) /\ Recovers(tasks[t]) /\ Fits(tasks[t]) /\ (tasks[t].pc \in InTurn => turn = t)
  /\ (recovering => timer = NoRetry) /\ (active => gen # 0)

LEMMA ReadyIs ==
  ASSUME Opened, NEW t \in Tasks
  PROVE  Ready(t)
  BY KnownIs DEF Opened, Wished, WishInv, OpenInv, Ready

LEMMA LeadsOn ==
  ASSUME Opened, NEW t \in Tasks, turn \in {t, NoTask}, UNCHANGED Calm, NEW r, Becomes(t, r),
          Leads(t, r)
  PROVE  Lets(t)
  <1>1. Ready(t)
    BY ReadyIs
  <1>2. tasks'[t] = r /\ \A u \in Tasks : u # t => tasks'[u] = tasks[u]
    BY <1>1 DEF Ready, Known, Becomes
  <1>3. /\ Fits(tasks[t])' <=> Fits(r)
        /\ Opens(tasks[t])' <=> Opens(r)
        /\ Awaited(tasks[t])' <=> Awaited(r)
        /\ LacksTunnel(tasks[t])' <=> LacksTunnel(r)
        /\ GivenUp' <=> GivenUp
    BY <1>2 DEF Calm, Fits, Opens, Awaited, LacksTunnel, Newest, Past, Fails, Clears, ClearsOwn,
            Brings,
         Running, GivenUp
  <1> QED
    BY <1>1, <1>2, <1>3 DEF Lets, Lands, Leads, Calm, Ready

\* Another call is as it was, but that what it must pass at once it cannot be at.
LEMMA OthersOpen ==
  ASSUME Opened, NEW t \in Tasks, Lets(t), NEW u \in Tasks, u # t
  PROVE  /\ tasks'[u] = tasks[u] /\ tasks[u].pc \notin InTurn \cup AtOnce
         /\ Fits(tasks[u])'
         /\ Newest(tasks[u])' <=> Newest(tasks[u])
         /\ ~LacksTunnel(tasks[u])'
         /\ Opens(tasks[u]) => Opens(tasks[u])'
  <1>1. /\ tasks'[u] = tasks[u] /\ UNCHANGED <<gen, dgen, settings>>
        /\ turn \in {t, NoTask} /\ (GivenUp' => GivenUp)
        /\ status' = "connected" => status = "connected" \/ Newest(tasks[t])
    BY DEF Lets, Lands
  <1>2. Ready(u) /\ tasks[u].pc \notin InTurn \cup AtOnce
    <2>1. u \notin {t, NoTask}
      BY NoTaskIs
    <2> QED
      BY <1>1, <2>1, ReadyIs DEF Ready, Known
  <1>3. Newest(tasks[t]) => ~Newest(tasks[u])
    BY DEF Opened, OpenInv
  <1>4. ~Fails(tasks[u])
    BY <1>2 DEF Fails, InTurn, AtOnce
  <1>5. Fits(tasks[u])'
    BY <1>1, <1>2, <1>3, <1>4 DEF Ready, Fits, Newest, Past, Fails
  <1>6. Opens(tasks[u]) => Opens(tasks[u])'
    <2>1. Clears(tasks[u]) => Clears(tasks[u])'
      BY <1>1, <1>2 DEF Clears, InTurn
    <2>2. ClearsOwn(tasks[u]) => ClearsOwn(tasks[u])'
      BY <1>1, <1>2 DEF ClearsOwn, InTurn
    <2>3. Brings(tasks[u]) => Brings(tasks[u])'
      BY <1>1 DEF Brings
    <2> QED
      BY <1>1, <2>1, <2>2, <2>3 DEF Opens, Newest
  <1> QED
    BY <1>1, <1>2, <1>5, <1>6 DEF Newest, LacksTunnel, InTurn

LEMMA LetsKeeps ==
  ASSUME Opened, NEW t \in Tasks, Lets(t)
  PROVE  OpenInv'
  <1> DEFINE c == tasks[t]
  <1>1. /\ turn \in {t, NoTask} /\ UNCHANGED <<gen, dgen, settings>> /\ Lands(t)
    BY DEF Lets
  <1>2. \A u \in Tasks : u # t =>
          /\ tasks'[u] = tasks[u] /\ tasks[u].pc \notin InTurn \cup AtOnce
          /\ Fits(tasks[u])'
          /\ Newest(tasks[u])' <=> Newest(tasks[u])
          /\ ~LacksTunnel(tasks[u])'
          /\ Opens(tasks[u]) => Opens(tasks[u])'
    BY OthersOpen
  <1>3. Newest(c)' => Newest(c)
    BY <1>1 DEF Lands, Newest
  <1>4. Connects' => Connects
    BY <1>2, <1>3 DEF Connects
  <1>5. active' => gen' # 0
    BY <1>1 DEF Lands, Newest, Opened, OpenInv, None
  <1>6. \A u, v \in Tasks : Newest(tasks[u])' /\ Newest(tasks[v])' => u = v
    BY <1>2, <1>3 DEF Opened, OpenInv
  <1>7. \A u \in Tasks : Fits(tasks[u])' /\ (tasks'[u].pc \in InTurn => turn' = u)
    BY <1>1, <1>2 DEF Lands
  <1>8. ASSUME rule', gen' # dgen', (status = "connected" \/ Connects)'
        PROVE  \E u \in Tasks : Opens(tasks[u])' \/ (Awaited(tasks[u]) /\ ~Connects /\ ~Tunless)'
    <2>1. status = "connected" \/ Connects
      BY <1>1, <1>4, <1>8 DEF Lands, Connects
    <2>2. ASSUME ~Connects, ~Tunless
          PROVE  status' = "connected" /\ ~Connects' /\ ~Tunless'
      <3>1. ~LacksTunnel(tasks[t])'
        BY <1>1, <1>8, <2>2 DEF Lands, Connects, Tunless
      <3> QED
        BY <1>2, <1>4, <1>8, <2>2, <3>1 DEF Tunless
    <2>3. CASE Opens(c)'
      BY <2>3
    <2>4. ASSUME NEW u \in Tasks, Opens(tasks[u])
          PROVE  \E v \in Tasks : Opens(tasks[v])' \/ (Awaited(tasks[v]) /\ ~Connects /\ ~Tunless)'
      <3>1. CASE u # t
        BY <1>2, <2>4, <3>1
      <3>2. CASE u = t
        <4>1. \/ Opens(c)'
              \/ status' # "connected" /\ (~Connects \/ (Newest(c) /\ tasks'[t].my = None))
              \/ Awaited(c)' /\ ~Connects /\ ~Tunless
          BY <1>1, <1>8, <2>4, <3>2 DEF Lands
        <4>2. ASSUME status' # "connected", ~Connects \/ (Newest(c) /\ tasks'[t].my = None)
              PROVE  FALSE
          <5>1. PICK v \in Tasks : Newest(tasks[v])'
            BY <1>8, <4>2 DEF Connects
          <5>2. CASE v = t
            BY <1>4, <1>8, <4>2, <5>1, <5>2 DEF Newest
          <5>3. CASE v # t
            BY <1>2, <1>4, <1>8, <4>2, <5>1, <5>3 DEF Opened, OpenInv
          <5> QED
            BY <5>2, <5>3
        <4> QED
          BY <2>2, <4>1, <4>2
      <3> QED
        BY <3>1, <3>2
    <2>5. ASSUME NEW u \in Tasks, Awaited(tasks[u]), ~Connects, ~Tunless
          PROVE  \E v \in Tasks : Opens(tasks[v])' \/ (Awaited(tasks[v]) /\ ~Connects /\ ~Tunless)'
      <3>1. CASE u = t
        BY <1>1, <1>8, <2>2, <2>5, <3>1 DEF Lands
      <3>2. CASE u # t
        <4>1. tasks'[u] = tasks[u] /\ tasks[u].pc \notin InTurn \cup AtOnce
          BY <1>2, <3>2
        <4>2. /\ (recovering' => recovering) /\ timer' \in {timer, NoRetry} /\ runs' = runs
              /\ (GivenUp' => GivenUp)
          BY <1>1, <1>8, <2>2, <2>5 DEF Lands
        <4>3. Awaited(tasks[u])'
          BY <1>1, <2>5, <4>1, <4>2 DEF Awaited, InTurn, AtOnce
        <4> QED
          BY <2>2, <2>5, <4>3
      <3> QED
        BY <3>1, <3>2
    <2>6. CASE rule
      <3>1. PICK u \in Tasks : Opens(tasks[u]) \/ (Awaited(tasks[u]) /\ ~Connects /\ ~Tunless)
        BY <1>1, <1>8, <2>1, <2>6 DEF Opened, OpenInv
      <3> QED
        BY <2>4, <2>5, <3>1
    <2> QED
      BY <1>1, <1>8, <2>3, <2>6 DEF Lands
  <1>9. recovering' => timer' = NoRetry
    BY <1>1 DEF Lands
  <1> QED
    BY <1>5, <1>6, <1>7, <1>8, <1>9 DEF OpenInv

\* While a call that awaits something goes on, no other lacks its tunnel.
LEMMA NoneLacks ==
  ASSUME Opened, NEW t \in Tasks, turn \in {t, NoTask}, tasks[t].pc \notin InTurn
  PROVE  ~Tunless
  BY NoTaskIs DEF Opened, OpenInv, Tunless, LacksTunnel, InTurn

\* The recovery that has the lock is the last.
LEMMA LockedRuns ==
  ASSUME Opened, recovering
  PROVE  \E u \in Tasks : tasks[u].run = runs
  BY DEF Opened, Wished, SharedInv, LockInv, WishInv, Recovers

\* The kill switch.
LEMMA ArmLets ==
  ASSUME Opened, NEW t \in Tasks, Arm(t)
  PROVE  Lets(t)
  <1>1. Ready(t)
    BY ReadyIs
  <1>2. tasks[t].pc = "arm" /\ turn \in {t, NoTask} /\ UNCHANGED Calm
    BY DEF Arm, At, Quiet, ArmRest, conn, recovery, core, started, block, Awaits, Calm
  <1>3. \/ Becomes(t, To(t, "armCheck"))
        \/ Becomes(t, To(t, "armDelete"))
    BY DEF Arm, Becomes, Awaits
  <1>4. Leads(t, To(t, "armCheck"))
    BY <1>1, <1>2, NamesAre DEF Leads, To, Ready, Known, Fits, Opens, Clears, ClearsOwn, Brings,
      Awaited, LacksTunnel, Newest, Past, Fails, InTurn, InStart, InConnect, Arming, Lifting,
      InDisconnect
  <1>5. Leads(t, To(t, "armDelete"))
    BY <1>1, <1>2, NamesAre DEF Leads, To, Ready, Known, Fits, Opens, Clears, ClearsOwn, Brings,
      Awaited, LacksTunnel, Newest, Past, Fails, InTurn, InStart, InConnect, Arming, Lifting,
      InDisconnect
  <1> QED
    BY <1>2, <1>3, <1>4, <1>5, LeadsOn

LEMMA ArmCheckLets ==
  ASSUME Opened, NEW t \in Tasks, ArmCheck(t)
  PROVE  Lets(t)
  <1>1. Ready(t)
    BY ReadyIs
  <1>2. tasks[t].pc = "armCheck" /\ turn \in {t, NoTask} /\ UNCHANGED Calm
    BY DEF ArmCheck, At, Quiet, ArmRest, conn, recovery, core, started, block, Goes, Awaits, Calm
  <1>3. \/ Becomes(t, [Then(t) EXCEPT !.got = "held"]) /\ turn' = t
        \/ Becomes(t, To(t, "armDelete"))
    BY DEF ArmCheck, Becomes, Goes, Awaits
  <1>4. ASSUME turn' = t PROVE Leads(t, [Then(t) EXCEPT !.got = "held"])
    BY <1>1, <1>2, <1>4, NamesAre DEF Leads, To, Then, Ready, Known, Placed, Fits, Opens, Clears,
      ClearsOwn, Brings, Awaited, LacksTunnel, Newest, Past, Fails, InStart, InConnect, Arming,
      Lifting, InDisconnect
  <1>5. Leads(t, To(t, "armDelete"))
    BY <1>1, <1>2, NamesAre DEF Leads, To, Ready, Known, Fits, Opens, Clears, ClearsOwn, Brings,
      Awaited, LacksTunnel, Newest, Past, Fails, InTurn, InStart, InConnect, Arming, Lifting,
      InDisconnect
  <1> QED
    BY <1>2, <1>3, <1>4, <1>5, LeadsOn

LEMMA ArmDeleteLets ==
  ASSUME Opened, NEW t \in Tasks, ArmDelete(t)
  PROVE  Lets(t)
  <1>1. Ready(t)
    BY ReadyIs
  <1>2. tasks[t].pc = "armDelete" /\ turn \in {t, NoTask} /\ UNCHANGED <<gen, dgen, settings>>
    BY DEF ArmDelete, At, Quiet, ArmRest, conn, recovery, core, started, Awaits
  <1>3. Becomes(t, To(t, "armAdd")) /\ ~rule' /\
          UNCHANGED <<active, userDisc, status, recovering, timer, runs>>
    BY DEF ArmDelete, Becomes, Awaits, ArmRest, conn, recovery, core, started, Calm
  <1>4. Lands(t)
    BY <1>1, <1>2, <1>3, NamesAre DEF Lands, Becomes, To, Ready, Known, Fits, Opens, Clears,
      Newest, Past, Fails, InTurn, GivenUp, InStart, InConnect, Arming, Lifting
  <1> QED
    BY <1>1, <1>2, <1>3, <1>4 DEF Lets, Becomes, Ready, Known

LEMMA ArmAddLets ==
  ASSUME Opened, NEW t \in Tasks, ArmAdd(t), ~LateArms
  PROVE  Lets(t)
  <1>1. Ready(t)
    BY ReadyIs
  <1>2. tasks[t].pc = "armAdd" /\ turn \in {t, NoTask} /\ UNCHANGED <<gen, dgen, settings>>
    BY DEF ArmAdd, At, Quiet, ArmRest, conn, recovery, core, started, Goes, Awaits
  <1>3. \/ Becomes(t, To(t, "armAdded")) /\ (gen # dgen => ~Behind(t)) /\
          UNCHANGED <<active, userDisc, status, recovering, timer, runs>>
        \/ Becomes(t, [Then(t) EXCEPT !.got = "no"]) /\ turn' = t /\ UNCHANGED Calm
    BY <1>1, <1>2 DEF ArmAdd, Becomes, Goes, Awaits, ArmRest, conn, recovery, core, started, Calm,
          LateArms
  <1>4. CASE Becomes(t, To(t, "armAdded")) /\ (gen # dgen => ~Behind(t)) /\
          UNCHANGED <<active, userDisc, status, recovering, timer, runs>>
    <2>1. gen # dgen => tasks[t].my \in {None, gen} /\ tasks[t].at \in {None, gen}
      BY <1>1, <1>4 DEF Behind, Ready, Known, Placed, None
    <2>2. gen # dgen => Opens(tasks[t])'
      BY <1>1, <1>2, <1>4, <2>1, NamesAre DEF Becomes, To, Ready, Known, Placed, Fits, Opens,
        Clears, ClearsOwn, Brings, Newest, None, Arming
    <2>3. Lands(t)
      BY <1>1, <1>2, <1>4, <2>2, NamesAre DEF Lands, Becomes, To, Ready, Known, Fits, Opens,
        Clears, LacksTunnel, Newest, Past, Fails, InTurn, GivenUp, InStart, InConnect, Arming,
        Lifting
    <2> QED
      BY <1>1, <1>2, <1>4, <2>3 DEF Lets, Becomes, Ready, Known
  <1>5. ASSUME turn' = t /\ UNCHANGED Calm PROVE Leads(t, [Then(t) EXCEPT !.got = "no"])
    BY <1>1, <1>2, <1>5, NamesAre DEF Leads, To, Then, Ready, Known, Placed, Fits, Opens, Clears,
      ClearsOwn, Brings, Awaited, LacksTunnel, Newest, Past, Fails, InStart, InConnect, Arming,
      Lifting, InDisconnect
  <1> QED
    BY <1>2, <1>3, <1>4, <1>5, LeadsOn

LEMMA ArmAddedLets ==
  ASSUME Opened, NEW t \in Tasks, ArmAdded(t)
  PROVE  Lets(t)
  <1>1. Ready(t)
    BY ReadyIs
  <1>2. tasks[t].pc = "armAdded" /\ turn \in {t, NoTask} /\ UNCHANGED Calm
    BY DEF ArmAdded, At, Quiet, ArmRest, conn, recovery, core, started, Goes, Calm
  <1>3. Becomes(t, [Then(t) EXCEPT !.got = "added"])
    BY DEF ArmAdded, Becomes, Goes
  <1>4. Leads(t, [Then(t) EXCEPT !.got = "added"])
    BY <1>1, <1>2, <1>3, NamesAre DEF Leads, To, Then, Ready, Known, Minds, Connecting, Placed,
      Fits, Opens, Clears, ClearsOwn, Brings, Awaited, LacksTunnel, Newest, Past, Fails, InTurn,
      InStart, InConnect, Arming, Lifting, InDisconnect
  <1> QED
    BY <1>2, <1>3, <1>4, LeadsOn

LEMMA DisarmLets ==
  ASSUME Opened, NEW t \in Tasks, Disarm(t)
  PROVE  Lets(t)
  <1>1. Ready(t)
    BY ReadyIs
  <1>2. tasks[t].pc = "disarm" /\ turn \in {t, NoTask} /\ UNCHANGED Calm
    BY DEF Disarm, At, Quiet, ArmRest, conn, recovery, core, started, Awaits, Calm
  <1>3. Becomes(t, To(t, "disarming"))
    BY DEF Disarm, Becomes, Awaits
  <1>4. Leads(t, To(t, "disarming"))
    BY <1>1, <1>2, <1>3, NamesAre DEF Leads, To, Ready, Known, Fits, Opens, Clears, LacksTunnel,
      Newest, Past, Fails, InTurn, InStart, InConnect, Arming, Lifting
  <1> QED
    BY <1>2, <1>3, <1>4, LeadsOn

LEMMA DisarmingLets ==
  ASSUME Opened, NEW t \in Tasks, Disarming(t)
  PROVE  Lets(t)
  <1>1. Ready(t)
    BY ReadyIs
  <1>2. tasks[t].pc = "disarming" /\ turn \in {t, NoTask} /\ UNCHANGED <<gen, dgen, settings>>
    BY DEF Disarming, At, Quiet, ArmRest, conn, recovery, core, started, Goes
  <1>3. Becomes(t, Then(t)) /\ ~rule' /\ turn' = t /\
          UNCHANGED <<active, userDisc, status, recovering, timer, runs>>
    BY DEF Disarming, Becomes, Goes, ArmRest, conn, recovery, core, started, Calm
  <1>4. Lands(t)
    BY <1>1, <1>2, <1>3, NamesAre DEF Lands, Becomes, To, Then, Ready, Known, Recovers, Placed,
      Fits, Opens, Clears, Newest, Past, Fails, GivenUp, InStart, InConnect, Arming, Lifting
  <1> QED
    BY <1>1, <1>2, <1>3, <1>4 DEF Lets, Becomes, Ready, Known

\* connectOnce.
LEMMA PrepareLets ==
  ASSUME Opened, NEW t \in Tasks, Prepare(t)
  PROVE  Lets(t)
  <1>1. Ready(t)
    BY ReadyIs
  <1>2. tasks[t].pc = "prepare" /\ turn \in {t, NoTask} /\ UNCHANGED <<gen, dgen, settings>>
    BY DEF Prepare, At, Quiet, conn, recovery, core, started, block, Goes
  <1>3. \/ Becomes(t, Answer(t, "stale")) /\ Stale(t) /\ turn' = t /\ UNCHANGED Calm
        \/ Becomes(t, Answer(t, "failed")) /\ ~Stale(t) /\ turn' = t /\ status' = "connecting" /\
                UNCHANGED <<active, userDisc, recovering, timer, runs, rule>>
        \/ Becomes(t, [To(t, "start") EXCEPT !.tn = tun']) /\ status' = "connecting" /\
                UNCHANGED <<active, userDisc, recovering, timer, runs, rule>>
    BY DEF Prepare, Becomes, Goes, conn, recovery, core, started, block, Calm, Stale
  <1>4. ASSUME Stale(t) /\ turn' = t /\ UNCHANGED Calm PROVE Leads(t, Answer(t, "stale"))
    BY <1>1, <1>2, <1>4, NamesAre DEF Leads, Answer, Stale, Ready, Known, Fits, Opens, Clears,
      Brings, Awaited, LacksTunnel, Newest, Fails, InStart, Arming, Lifting, InDisconnect
  <1>5. CASE Becomes(t, Answer(t, "failed")) /\ ~Stale(t) /\ turn' = t /\
          status' = "connecting" /\ UNCHANGED <<active, userDisc, recovering, timer, runs, rule>>
    <2>1. Lands(t)
      BY <1>1, <1>2, <1>5, NamesAre DEF Lands, Becomes, Answer, Stale, Ready, Known, Placed, Fits,
        Opens, Clears, Newest, GivenUp, InStart, InConnect, Arming, Lifting
    <2> QED
      BY <1>1, <1>2, <1>5, <2>1 DEF Lets, Becomes, Ready, Known
  <1>6. CASE Becomes(t, [To(t, "start") EXCEPT !.tn = tun']) /\ status' = "connecting" /\
          UNCHANGED <<active, userDisc, recovering, timer, runs, rule>>
    <2>1. Lands(t)
      BY <1>1, <1>2, <1>6, NamesAre DEF Lands, Becomes, To, Ready, Known, Fits, Opens, Clears,
        ClearsOwn, Brings, LacksTunnel, Newest, InTurn, GivenUp, InStart, Arming, Lifting,
        InDisconnect
    <2> QED
      BY <1>1, <1>2, <1>6, <2>1 DEF Lets, Becomes, Ready, Known
  <1> QED
    BY <1>2, <1>3, <1>4, <1>5, <1>6, LeadsOn

LEMMA StartLets ==
  ASSUME Opened, NEW t \in Tasks, Start(t)
  PROVE  Lets(t)
  <1>1. Ready(t)
    BY ReadyIs
  <1>2. tasks[t].pc = "start" /\ turn \in {t, NoTask} /\ UNCHANGED <<gen, dgen, settings>>
    BY DEF Start, At, Quiet, StartRest, conn, recovery, core, started, block, Awaits, Spawn,
          StopsCore
  <1>3. \/ Becomes(t, [To(t, "starting") EXCEPT !.on = proc]) /\ UNCHANGED Calm
        \/ Becomes(t, [To(t, "grace") EXCEPT !.on = made']) /\
                UNCHANGED <<active, userDisc, status, recovering, timer, runs, rule>>
    BY DEF Start, Becomes, Awaits, Spawn, StopsCore, StartRest, conn, recovery, core, started,
          block, Calm
  <1>4. ASSUME UNCHANGED Calm PROVE Leads(t, [To(t, "starting") EXCEPT !.on = proc])
    BY <1>1, <1>2, <1>4, NamesAre DEF Leads, To, Ready, Known, Fits, Opens, Clears, ClearsOwn,
      Brings, Awaited, LacksTunnel, Newest, Past, Fails, InTurn, InStart, Arming, Lifting,
      InDisconnect
  <1>5. CASE Becomes(t, [To(t, "grace") EXCEPT !.on = made']) /\
          UNCHANGED <<active, userDisc, status, recovering, timer, runs, rule>>
    <2>1. Lands(t)
      BY <1>1, <1>2, <1>5, NamesAre DEF Lands, Becomes, To, Ready, Known, Fits, Opens, Clears,
        ClearsOwn, Brings, Awaited, LacksTunnel, Newest, Past, Fails, InTurn, GivenUp, InStart,
        Arming, Lifting, InDisconnect
    <2> QED
      BY <1>1, <1>2, <1>5, <2>1 DEF Lets, Becomes, Ready, Known
  <1> QED
    BY <1>2, <1>3, <1>4, <1>5, LeadsOn

LEMMA StartingLets ==
  ASSUME Opened, NEW t \in Tasks, Starting(t)
  PROVE  Lets(t)
  <1>1. Ready(t)
    BY ReadyIs
  <1>2. tasks[t].pc = "starting" /\ turn \in {t, NoTask} /\ UNCHANGED <<gen, dgen, settings>>
    BY DEF Starting, At, Quiet, StartRest, conn, recovery, core, started, block, Awaits, Spawn
  <1>3. Becomes(t, [To(t, "grace") EXCEPT !.on = made']) /\
          UNCHANGED <<active, userDisc, status, recovering, timer, runs, rule>>
    BY DEF Starting, Becomes, Awaits, Spawn, StartRest, conn, recovery, core, started, block, Calm
  <1>4. Lands(t)
    BY <1>1, <1>2, <1>3, NamesAre DEF Lands, Becomes, To, Ready, Known, Fits, Opens, Clears,
      ClearsOwn, Brings, Awaited, LacksTunnel, Newest, Past, Fails, InTurn, GivenUp, InStart,
      Arming, Lifting, InDisconnect
  <1> QED
    BY <1>1, <1>2, <1>3, <1>4 DEF Lets, Becomes, Ready, Known

LEMMA CrashedLets ==
  ASSUME Opened, NEW t \in Tasks, Crashed(t)
  PROVE  Lets(t)
  <1>1. Ready(t)
    BY ReadyIs
  <1>2. tasks[t].pc = "grace" /\ tasks[t].my # None /\ turn \in {t, NoTask} /\ UNCHANGED Calm
    BY DEF Crashed, At, Quiet, conn, recovery, core, started, block, Goes, Calm
  <1>3. Becomes(t, Answer(t, Overtaken(t))) /\ turn' = t
    BY DEF Crashed, Becomes, Goes
  <1>4. Leads(t, Answer(t, Overtaken(t)))
    BY <1>1, <1>2, <1>3, NamesAre DEF Leads, Answer, Overtaken, Stale, Ready, Known, Fits, Opens,
      Clears, Brings, Awaited, LacksTunnel, Newest, Past, Fails, InStart, Arming, Lifting,
      InDisconnect
  <1> QED
    BY <1>2, <1>3, <1>4, LeadsOn

LEMMA StartedLets ==
  ASSUME Opened, NEW t \in Tasks, Started(t)
  PROVE  Lets(t)
  <1>1. Ready(t)
    BY ReadyIs
  <1>2. tasks[t].pc = "grace" /\ tasks[t].my # None /\ turn \in {t, NoTask} /\
          UNCHANGED <<gen, dgen, settings>>
    BY DEF Started, At, Quiet, recovery, core, started, block, Goes, Awaits, AwaitsProxy
  <1>3. \/ Becomes(t, [tasks[t] EXCEPT !.own = IF proc = tasks[t].on THEN proc ELSE None,
          !.on = 0, !.pc = "giveWay"]) /\ Stale(t) /\ UNCHANGED Calm
        \/ Becomes(t, [tasks[t] EXCEPT !.own = IF proc = tasks[t].on THEN proc ELSE None,
                !.on = 0, !.pc = "proxied"]) /\ ~Stale(t) /\ active' /\
                UNCHANGED <<userDisc, status, recovering, timer, runs, rule>>
    BY DEF Started, Becomes, Goes, Awaits, AwaitsProxy, recovery, core, started, block, Calm, Stale
  <1>4. ASSUME Stale(t) /\ UNCHANGED Calm
        PROVE  Leads(t, [tasks[t] EXCEPT !.own = IF proc = tasks[t].on THEN proc ELSE None,
                !.on = 0, !.pc = "giveWay"])
    BY <1>1, <1>2, <1>4, NamesAre DEF Leads, Stale, Ready, Known, Fits, Opens, Clears, Brings,
      Awaited, LacksTunnel, Newest, Fails, InTurn, InStart, Arming, Lifting, InDisconnect
  <1>5. CASE Becomes(t, [tasks[t] EXCEPT !.own = IF proc = tasks[t].on THEN proc ELSE None,
          !.on = 0, !.pc = "proxied"]) /\ ~Stale(t) /\ active' /\
          UNCHANGED <<userDisc, status, recovering, timer, runs, rule>>
    <2>1. Lands(t)
      BY <1>1, <1>2, <1>5, NamesAre DEF Lands, Becomes, Stale, Ready, Known, Fits, Opens, Clears,
        ClearsOwn, Brings, Newest, Past, InTurn, GivenUp, InStart, Arming, Lifting, InDisconnect
    <2> QED
      BY <1>1, <1>2, <1>5, <2>1 DEF Lets, Becomes, Ready, Known
  <1> QED
    BY <1>2, <1>3, <1>4, <1>5, LeadsOn

LEMMA ProxiedLets ==
  ASSUME Opened, NEW t \in Tasks, Proxied(t)
  PROVE  Lets(t)
  <1>1. Ready(t)
    BY ReadyIs
  <1>2. tasks[t].pc = "proxied" /\ turn \in {t, NoTask} /\ UNCHANGED Calm
    BY DEF Proxied, At, Quiet, conn, recovery, core, started, block, Goes, Awaits, Calm
  <1>3. \/ Becomes(t, To(t, "giveWay")) /\ Stale(t)
        \/ Becomes(t, To(t, "lan"))
        \/ Becomes(t, To(t, "tunnel"))
        \/ Becomes(t, [To(t, "arm") EXCEPT !.next = "swap"]) /\ ~tasks[t].armed
        \/ Becomes(t, To(t, "swap"))
    BY DEF Proxied, Becomes, Goes, Awaits, Stale
  <1>4. ASSUME Stale(t) PROVE Leads(t, To(t, "giveWay"))
    BY <1>1, <1>2, <1>4, NamesAre DEF Leads, To, Stale, Ready, Known, Fits, Opens, Clears, Brings,
      Awaited, LacksTunnel, Newest, Fails, InTurn, InStart, Arming, Lifting, InDisconnect
  <1>5. Leads(t, To(t, "lan"))
    BY <1>1, <1>2, NamesAre DEF Leads, To, Ready, Known, Fits, Opens, Clears, ClearsOwn, Brings,
      Awaited, LacksTunnel, Newest, Past, Fails, InTurn, InStart, InConnect, Arming, Lifting,
      InDisconnect
  <1>6. Leads(t, To(t, "tunnel"))
    BY <1>1, <1>2, NamesAre DEF Leads, To, Ready, Known, Fits, Opens, Clears, ClearsOwn, Brings,
      Awaited, LacksTunnel, Newest, Past, Fails, InTurn, InStart, InConnect, Arming, Lifting,
      InDisconnect
  <1>7. ASSUME ~tasks[t].armed PROVE Leads(t, [To(t, "arm") EXCEPT !.next = "swap"])
    BY <1>1, <1>2, <1>7, NamesAre DEF Leads, To, Ready, Known, Fits, Opens, Clears, ClearsOwn,
      Brings, Awaited, LacksTunnel, Newest, Past, Fails, InTurn, InStart, InConnect, Arming,
      Lifting, InDisconnect
  <1>8. Leads(t, To(t, "swap"))
    BY <1>1, <1>2, NamesAre DEF Leads, To, Ready, Known, Fits, Opens, Clears, ClearsOwn, Brings,
      Awaited, LacksTunnel, Newest, Past, Fails, InTurn, InStart, InConnect, Arming, Lifting,
      InDisconnect
  <1> QED
    BY <1>2, <1>3, <1>4, <1>5, <1>6, <1>7, <1>8, LeadsOn

LEMMA SwapLets ==
  ASSUME Opened, NEW t \in Tasks, Swap(t)
  PROVE  Lets(t)
  <1>1. Ready(t)
    BY ReadyIs
  <1>2. tasks[t].pc = "swap" /\ turn \in {t, NoTask} /\ UNCHANGED Calm
    BY DEF Swap, At, Quiet, ConnectRest, conn, recovery, core, started, block, Awaits, Calm
  <1>3. Becomes(t, [To(t, "tunnel") EXCEPT !.sw = (@ \/ tasks[t].got = "added"), !.got = "no"])
    BY DEF Swap, Becomes, Awaits
  <1>4. Leads(t, [To(t, "tunnel") EXCEPT !.sw = (@ \/ tasks[t].got = "added"), !.got = "no"])
    BY <1>1, <1>2, <1>3, NamesAre DEF Leads, To, Ready, Known, Fits, Opens, Clears, ClearsOwn,
      Brings, Awaited, LacksTunnel, Newest, Past, Fails, InTurn, InStart, InConnect, Arming,
      Lifting, InDisconnect
  <1> QED
    BY <1>2, <1>3, <1>4, LeadsOn

LEMMA TunnelLets ==
  ASSUME Opened, NEW t \in Tasks, Tunnel(t)
  PROVE  Lets(t)
  <1>1. Ready(t)
    BY ReadyIs
  <1>2. tasks[t].pc = "tunnel" /\ turn \in {t, NoTask} /\ UNCHANGED Calm
    BY DEF Tunnel, At, Quiet, ConnectRest, conn, recovery, core, started, block, Awaits, Calm
  <1>3. \/ Becomes(t, To(t, "tunnelled"))
        \/ Becomes(t, [To(t, "tunnelled") EXCEPT !.terr = TRUE])
    BY DEF Tunnel, Becomes, Awaits
  <1>4. Leads(t, To(t, "tunnelled"))
    BY <1>1, <1>2, NamesAre DEF Leads, To, Ready, Known, Fits, Opens, Clears, ClearsOwn, Brings,
      Awaited, LacksTunnel, Newest, Past, Fails, InTurn, InStart, InConnect, Arming, Lifting,
      InDisconnect
  <1>5. Leads(t, [To(t, "tunnelled") EXCEPT !.terr = TRUE])
    BY <1>1, <1>2, NamesAre DEF Leads, To, Ready, Known, Fits, Opens, Clears, ClearsOwn, Brings,
      Awaited, LacksTunnel, Newest, Past, Fails, InTurn, InStart, InConnect, Arming, Lifting,
      InDisconnect
  <1> QED
    BY <1>2, <1>3, <1>4, <1>5, LeadsOn

LEMMA TunnelledLets ==
  ASSUME Opened, NEW t \in Tasks, Tunnelled(t)
  PROVE  Lets(t)
  <1>1. Ready(t)
    BY ReadyIs
  <1>2. tasks[t].pc = "tunnelled" /\ turn \in {t, NoTask} /\ UNCHANGED Calm
    BY DEF Tunnelled, At, Quiet, ConnectRest, conn, recovery, core, started, block, Awaits, Calm
  <1>3. \/ Becomes(t, To(t, "giveWay")) /\ Stale(t)
        \/ Becomes(t, To(t, "lan"))
    BY DEF Tunnelled, Becomes, Awaits, Stale
  <1>4. ASSUME Stale(t) PROVE Leads(t, To(t, "giveWay"))
    BY <1>1, <1>2, <1>4, NamesAre DEF Leads, To, Stale, Ready, Known, Fits, Opens, Clears, Brings,
      Awaited, LacksTunnel, Newest, Fails, InTurn, InStart, Arming, Lifting, InDisconnect
  <1>5. Leads(t, To(t, "lan"))
    BY <1>1, <1>2, NamesAre DEF Leads, To, Ready, Known, Fits, Opens, Clears, ClearsOwn, Brings,
      Awaited, LacksTunnel, Newest, Past, Fails, InTurn, InStart, InConnect, Arming, Lifting,
      InDisconnect
  <1> QED
    BY <1>2, <1>3, <1>4, <1>5, LeadsOn

LEMMA LanLets ==
  ASSUME Opened, NEW t \in Tasks, Lan(t)
  PROVE  Lets(t)
  <1>1. Ready(t)
    BY ReadyIs
  <1>2. tasks[t].pc = "lan" /\ turn \in {t, NoTask} /\ UNCHANGED Calm
    BY DEF Lan, At, Quiet, ConnectRest, conn, recovery, core, started, block, Goes, Calm
  <1>3. \/ Becomes(t, [To(t, "disarm") EXCEPT !.next = "last"])
        \/ Becomes(t, To(t, "last")) /\ turn' = t /\ (tasks[t].sw /\ Newest(tasks[t]) => ~Running)
    BY DEF Lan, Becomes, Goes, Running, Newest, Stale
  <1>4. Leads(t, [To(t, "disarm") EXCEPT !.next = "last"])
    BY <1>1, <1>2, NamesAre DEF Leads, To, Ready, Known, Fits, Opens, Clears, LacksTunnel, Newest,
      Past, Fails, InTurn, InStart, InConnect, Arming, Lifting
  <1>5. ASSUME turn' = t /\ (tasks[t].sw /\ Newest(tasks[t]) => ~Running)
        PROVE  Leads(t, To(t, "last"))
    BY <1>1, <1>2, <1>5, NamesAre DEF Leads, To, Ready, Known, Fits, Opens, Clears, ClearsOwn,
      Brings, Awaited, LacksTunnel, Newest, Past, Fails, InStart, InConnect, Arming, Lifting,
      InDisconnect
  <1> QED
    BY <1>2, <1>3, <1>4, <1>5, LeadsOn

LEMMA LastLets ==
  ASSUME Opened, NEW t \in Tasks, Last(t)
  PROVE  Lets(t)
  <1>1. Ready(t)
    BY ReadyIs
  <1>2. tasks[t].pc = "last" /\ turn \in {t, NoTask} /\ UNCHANGED <<gen, dgen, settings>>
    BY DEF Last, At, Quiet, core, started, block, Goes
  <1>3. \/ Becomes(t, To(t, "giveWay")) /\ Stale(t) /\ UNCHANGED Calm
        \/ Becomes(t, Answer(t, "failed")) /\ ~Stale(t) /\ turn' = t /\ UNCHANGED Calm
        \/ Becomes(t, Answer(t, IF tasks[t].terr THEN "tunless" ELSE "ok")) /\ ~Stale(t) /\
                Running' /\ Running /\ turn' = t /\ timer' \in {timer, NoRetry} /\
                UNCHANGED <<active, userDisc, recovering, runs, rule>>
    BY DEF Last, Becomes, Goes, core, started, block, Calm, Running, Stale
  <1>4. ASSUME Stale(t) /\ UNCHANGED Calm PROVE Leads(t, To(t, "giveWay"))
    BY <1>1, <1>2, <1>4, NamesAre DEF Leads, To, Stale, Ready, Known, Fits, Opens, Clears, Brings,
      Awaited, LacksTunnel, Newest, Fails, InTurn, InStart, Arming, Lifting, InDisconnect
  <1>5. ASSUME ~Stale(t) /\ turn' = t /\ UNCHANGED Calm PROVE Leads(t, Answer(t, "failed"))
    BY <1>1, <1>2, <1>5, NamesAre DEF Leads, Answer, Stale, Ready, Known, Placed, Fits, Opens,
      Clears, Awaited, Newest, Past, InStart, InConnect, Arming, Lifting
  <1>6. CASE Becomes(t, Answer(t, IF tasks[t].terr THEN "tunless" ELSE "ok")) /\ ~Stale(t) /\
          Running' /\ Running /\ turn' = t /\ timer' \in {timer, NoRetry} /\
          UNCHANGED <<active, userDisc, recovering, runs, rule>>
    <2>1. Lands(t)
      BY <1>1, <1>2, <1>6, NamesAre DEF Lands, Becomes, Answer, Stale, Ready, Known, Placed, Fits,
        Opens, Clears, ClearsOwn, Brings, Awaited, Newest, Fails, GivenUp, InStart, InConnect,
        Arming, Lifting, InDisconnect
    <2> QED
      BY <1>1, <1>2, <1>6, <2>1 DEF Lets, Becomes, Ready, Known
  <1> QED
    BY <1>2, <1>3, <1>4, <1>5, <1>6, LeadsOn

LEMMA GiveWayLets ==
  ASSUME Opened, NEW t \in Tasks, GiveWay(t)
  PROVE  Lets(t)
  <1>1. Ready(t)
    BY ReadyIs
  <1>2. tasks[t].pc = "giveWay" /\ turn \in {t, NoTask} /\ UNCHANGED Calm
    BY DEF GiveWay, At, Quiet, conn, recovery, core, started, block, Goes, Awaits, StopsCore, Calm
  <1>3. \/ Becomes(t, [To(t, "gaveCore") EXCEPT !.on = proc])
        \/ Becomes(t, [To(t, "disarm") EXCEPT !.next = "gone"])
        \/ Becomes(t, To(t, "gone"))
    BY DEF GiveWay, Becomes, Goes, Awaits, StopsCore
  <1>4. Leads(t, [To(t, "gaveCore") EXCEPT !.on = proc])
    BY <1>1, <1>2, NamesAre DEF Leads, To, Ready, Known, Fits, Opens, Clears, ClearsOwn, Brings,
      Awaited, LacksTunnel, Newest, Past, Fails, InTurn, InStart, InConnect, Arming, Lifting,
      InDisconnect
  <1>5. Leads(t, [To(t, "disarm") EXCEPT !.next = "gone"])
    BY <1>1, <1>2, NamesAre DEF Leads, To, Ready, Known, Fits, Opens, Clears, LacksTunnel, Past,
      Fails, InTurn, InStart, InConnect, Arming, Lifting
  <1>6. Leads(t, To(t, "gone"))
    BY <1>1, <1>2, NamesAre DEF Leads, To, Ready, Known, Fits, Opens, Clears, ClearsOwn, Brings,
      Awaited, LacksTunnel, Newest, Past, Fails, InTurn, InStart, InConnect, Arming, Lifting,
      InDisconnect
  <1> QED
    BY <1>2, <1>3, <1>4, <1>5, <1>6, LeadsOn

LEMMA GaveCoreLets ==
  ASSUME Opened, NEW t \in Tasks, GaveCore(t)
  PROVE  Lets(t)
  <1>1. Ready(t)
    BY ReadyIs
  <1>2. tasks[t].pc = "gaveCore" /\ turn \in {t, NoTask} /\ UNCHANGED Calm
    BY DEF GaveCore, At, Quiet, conn, recovery, core, started, block, Goes, Calm
  <1>3. \/ Becomes(t, [To(t, "disarm") EXCEPT !.next = "gone"])
        \/ Becomes(t, To(t, "gone"))
    BY DEF GaveCore, Becomes, Goes
  <1>4. Leads(t, [To(t, "disarm") EXCEPT !.next = "gone"])
    BY <1>1, <1>2, NamesAre DEF Leads, To, Ready, Known, Fits, Opens, Clears, LacksTunnel, Past,
      Fails, InTurn, InStart, InConnect, Arming, Lifting
  <1>5. Leads(t, To(t, "gone"))
    BY <1>1, <1>2, NamesAre DEF Leads, To, Ready, Known, Fits, Opens, Clears, ClearsOwn, Brings,
      Awaited, LacksTunnel, Newest, Past, Fails, InTurn, InStart, InConnect, Arming, Lifting,
      InDisconnect
  <1> QED
    BY <1>2, <1>3, <1>4, <1>5, LeadsOn

LEMMA GoneLets ==
  ASSUME Opened, NEW t \in Tasks, Gone(t)
  PROVE  Lets(t)
  <1>1. Ready(t)
    BY ReadyIs
  <1>2. tasks[t].pc = "gone" /\ turn \in {t, NoTask} /\ UNCHANGED Calm
    BY DEF Gone, At, Quiet, ConnectRest, conn, recovery, core, started, block, Goes, Calm
  <1>3. Becomes(t, Answer(t, "stale")) /\ turn' = t
    BY DEF Gone, Becomes, Goes
  <1>4. Leads(t, Answer(t, "stale"))
    BY <1>1, <1>2, <1>3, NamesAre DEF Leads, Answer, Ready, Known, Fits, Opens, Clears, Brings,
      Awaited, LacksTunnel, Past, Fails, InStart, InConnect, Arming, Lifting, InDisconnect
  <1> QED
    BY <1>2, <1>3, <1>4, LeadsOn

\* reapplyConnection.
LEMMA ReapplyLets ==
  ASSUME Opened, NEW t \in Tasks, Reapply(t)
  PROVE  Lets(t)
  <1>1. Ready(t)
    BY ReadyIs
  <1>2. tasks[t].pc = "reapply" /\ turn \in {t, NoTask} /\ UNCHANGED Calm
    BY DEF Reapply, At, Quiet, ConnectRest, conn, recovery, core, started, block, Goes, Calm
  <1>3. \/ Becomes(t, Return(t, "failed")) /\ (~active \/ ~Running) /\ turn' = t
        \/ Becomes(t, [To(t, "arm") EXCEPT !.at = gen, !.next = "reapplyArmed"]) /\ active /\
                Running
        \/ Becomes(t, [To(t, "teardown") EXCEPT !.at = gen]) /\ active /\ Running
    BY DEF Reapply, Becomes, Goes, Running
  <1>4. ASSUME (~active \/ ~Running) /\ turn' = t PROVE Leads(t, Return(t, "failed"))
    BY <1>1, <1>2, <1>4, NamesAre DEF Leads, To, Return, Ready, Known, Minds, Connecting, Fits,
      Opens, Clears, Brings, Awaited, LacksTunnel, Newest, Fails, InStart, InConnect, Arming,
      Lifting, InDisconnect
  <1>5. ASSUME active /\ Running
        PROVE  Leads(t, [To(t, "arm") EXCEPT !.at = gen, !.next = "reapplyArmed"])
    BY <1>1, <1>2, <1>5, NamesAre DEF Leads, To, Ready, Known, Minds, Connecting, Fits, Opens,
      Clears, LacksTunnel, Newest, Fails, InTurn, InStart, InConnect, Arming, Lifting, None
  <1>6. ASSUME active /\ Running PROVE Leads(t, [To(t, "teardown") EXCEPT !.at = gen])
    BY <1>1, <1>2, <1>6, NamesAre DEF Leads, To, Ready, Known, Minds, Connecting, Fits, Opens,
      Clears, LacksTunnel, Newest, Fails, InTurn, InStart, InConnect, Arming, Lifting
  <1> QED
    BY <1>2, <1>3, <1>4, <1>5, <1>6, LeadsOn

LEMMA ReapplyArmedLets ==
  ASSUME Opened, NEW t \in Tasks, ReapplyArmed(t)
  PROVE  Lets(t)
  <1>1. Ready(t)
    BY ReadyIs
  <1>2. tasks[t].pc = "reapplyArmed" /\ turn \in {t, NoTask} /\ UNCHANGED Calm
    BY DEF ReapplyArmed, At, Quiet, ConnectRest, conn, recovery, core, started, block, Goes, Calm
  <1>3. \/ Becomes(t, [tasks[t] EXCEPT !.armed = @ \/ tasks[t].got # "no", !.got = "no",
          !.pc = "teardown"]) /\ tasks[t].at = gen
        \/ Becomes(t, [tasks[t] EXCEPT !.armed = @ \/ tasks[t].got # "no", !.got = "no",
                !.pc = "disarm", !.next = "reapplyStale"]) /\ tasks[t].at # gen
        \/ Becomes(t, [tasks[t] EXCEPT !.armed = @ \/ tasks[t].got # "no", !.got = "no",
                !.pc = "reapplyStale"]) /\ tasks[t].at # gen
    BY DEF ReapplyArmed, Becomes, Goes
  <1>4. ASSUME tasks[t].at = gen
        PROVE  Leads(t, [tasks[t] EXCEPT !.armed = @ \/ tasks[t].got # "no", !.got = "no",
                !.pc = "teardown"])
    BY <1>1, <1>2, <1>4, NamesAre DEF Leads, Ready, Known, Minds, Connecting, Fits, Opens, Clears,
      LacksTunnel, Newest, Fails, InTurn, InStart, InConnect, Arming, Lifting
  <1>5. ASSUME tasks[t].at # gen
        PROVE  Leads(t, [tasks[t] EXCEPT !.armed = @ \/ tasks[t].got # "no", !.got = "no",
                !.pc = "disarm", !.next = "reapplyStale"])
    BY <1>1, <1>2, <1>5, NamesAre DEF Leads, Ready, Known, Minds, Connecting, Fits, Opens, Clears,
      LacksTunnel, Newest, Fails, InTurn, InStart, InConnect, Arming, Lifting
  <1>6. ASSUME tasks[t].at # gen
        PROVE  Leads(t, [tasks[t] EXCEPT !.armed = @ \/ tasks[t].got # "no", !.got = "no",
                !.pc = "reapplyStale"])
    BY <1>1, <1>2, <1>6, NamesAre DEF Leads, Ready, Known, Minds, Connecting, Fits, Opens, Clears,
      Brings, Awaited, LacksTunnel, Newest, Fails, InTurn, InStart, InConnect, Arming, Lifting,
      InDisconnect
  <1> QED
    BY <1>2, <1>3, <1>4, <1>5, <1>6, LeadsOn

LEMMA ReapplyStaleLets ==
  ASSUME Opened, NEW t \in Tasks, ReapplyStale(t)
  PROVE  Lets(t)
  <1>1. Ready(t)
    BY ReadyIs
  <1>2. tasks[t].pc = "reapplyStale" /\ turn \in {t, NoTask} /\ UNCHANGED Calm
    BY DEF ReapplyStale, At, Quiet, ConnectRest, conn, recovery, core, started, block, Goes, Calm
  <1>3. Becomes(t, Return(t, "stale")) /\ turn' = t
    BY DEF ReapplyStale, Becomes, Goes
  <1>4. Leads(t, Return(t, "stale"))
    BY <1>1, <1>2, <1>3, NamesAre DEF Leads, To, Return, Ready, Known, Minds, Connecting, Fits,
      Opens, Clears, Brings, Awaited, LacksTunnel, Newest, Fails, InStart, InConnect, Arming,
      Lifting, InDisconnect
  <1> QED
    BY <1>2, <1>3, <1>4, LeadsOn

LEMMA TeardownLets ==
  ASSUME Opened, NEW t \in Tasks, Teardown(t)
  PROVE  Lets(t)
  <1>1. Ready(t)
    BY ReadyIs
  <1>2. tasks[t].pc = "teardown" /\ turn \in {t, NoTask} /\ UNCHANGED <<gen, dgen, settings>>
    BY DEF Teardown, At, Quiet, conn, recovery, core, started, block, Awaits
  <1>3. Becomes(t, To(t, "teardownTuns")) /\ status' = "connecting" /\
          UNCHANGED <<active, userDisc, recovering, timer, runs, rule>>
    BY DEF Teardown, Becomes, Awaits, conn, recovery, core, started, block, Calm
  <1>4. Lands(t)
    BY <1>1, <1>2, <1>3, NamesAre DEF Lands, Becomes, To, Ready, Known, Minds, Fits, Opens,
      Clears, LacksTunnel, InTurn, GivenUp, InStart, Arming, Lifting
  <1> QED
    BY <1>1, <1>2, <1>3, <1>4 DEF Lets, Becomes, Ready, Known

LEMMA TeardownTunsLets ==
  ASSUME Opened, NEW t \in Tasks, TeardownTuns(t)
  PROVE  Lets(t)
  <1>1. Ready(t)
    BY ReadyIs
  <1>2. tasks[t].pc = "teardownTuns" /\ turn \in {t, NoTask} /\ UNCHANGED Calm
    BY DEF TeardownTuns, At, Quiet, ConnectRest, conn, recovery, core, started, block, Awaits, Calm
  <1>3. Becomes(t, To(t, "teardownCore"))
    BY DEF TeardownTuns, Becomes, Awaits
  <1>4. Leads(t, To(t, "teardownCore"))
    BY <1>1, <1>2, <1>3, NamesAre DEF Leads, To, Ready, Known, Minds, Connecting, Fits, Opens,
      Clears, Brings, Awaited, LacksTunnel, Newest, Fails, InTurn, InStart, InConnect, Arming,
      Lifting, InDisconnect
  <1> QED
    BY <1>2, <1>3, <1>4, LeadsOn

LEMMA TeardownCoreLets ==
  ASSUME Opened, NEW t \in Tasks, TeardownCore(t)
  PROVE  Lets(t)
  <1>1. Ready(t)
    BY ReadyIs
  <1>2. tasks[t].pc = "teardownCore" /\ turn \in {t, NoTask} /\ UNCHANGED Calm
    BY DEF TeardownCore, At, Quiet, conn, recovery, core, started, block, Goes, Awaits, StopsCore,
          Calm
  <1>3. \/ Becomes(t, [To(t, "tornDown") EXCEPT !.on = proc])
        \/ Becomes(t, To(t, "tornDown"))
    BY DEF TeardownCore, Becomes, Goes, Awaits, StopsCore
  <1>4. Leads(t, [To(t, "tornDown") EXCEPT !.on = proc])
    BY <1>1, <1>2, NamesAre DEF Leads, To, Ready, Known, Minds, Connecting, Fits, Opens, Clears,
      Brings, Awaited, LacksTunnel, Newest, Fails, InTurn, InStart, InConnect, Arming, Lifting,
      InDisconnect
  <1>5. Leads(t, To(t, "tornDown"))
    BY <1>1, <1>2, NamesAre DEF Leads, To, Ready, Known, Minds, Connecting, Fits, Opens, Clears,
      Brings, Awaited, LacksTunnel, Newest, Fails, InTurn, InStart, InConnect, Arming, Lifting,
      InDisconnect
  <1> QED
    BY <1>2, <1>3, <1>4, <1>5, LeadsOn

LEMMA TornDownLets ==
  ASSUME Opened, NEW t \in Tasks, TornDown(t)
  PROVE  Lets(t)
  <1>1. Ready(t)
    BY ReadyIs
  <1>2. tasks[t].pc = "tornDown" /\ turn \in {t, NoTask} /\ UNCHANGED Calm
    BY DEF TornDown, At, Quiet, conn, recovery, core, started, block, Goes, Calm
  <1>3. \/ Becomes(t, To(t, "connect"))
        \/ Becomes(t, Return(t, "stale")) /\ tasks[t].at # gen /\ turn' = t
    BY DEF TornDown, Becomes, Goes
  <1>4. Leads(t, To(t, "connect"))
    BY <1>1, <1>2, NamesAre DEF Leads, To, Ready, Known, Minds, Connecting, Fits, Opens, Clears,
      LacksTunnel, Newest, Fails, InTurn, InStart, InConnect, Arming, Lifting
  <1>5. ASSUME tasks[t].at # gen /\ turn' = t PROVE Leads(t, Return(t, "stale"))
    BY <1>1, <1>2, <1>5, NamesAre DEF Leads, To, Return, Ready, Known, Minds, Connecting, Fits,
      Opens, Clears, Brings, Awaited, LacksTunnel, Newest, Fails, InStart, InConnect, Arming,
      Lifting, InDisconnect
  <1> QED
    BY <1>2, <1>3, <1>4, <1>5, LeadsOn

LEMMA ReapplyAnsweredLets ==
  ASSUME Opened, NEW t \in Tasks, ReapplyAnswered(t)
  PROVE  Lets(t)
  <1>1. Ready(t)
    BY ReadyIs
  <1>2. tasks[t].pc = "answer" /\ tasks[t].at # None /\ turn \in {t, NoTask} /\ UNCHANGED Calm
    BY DEF ReapplyAnswered, At, Quiet, conn, recovery, core, started, block, Goes, Awaits,
          AwaitsProxy, Calm
  <1>3. \/ Becomes(t, To(t, "reapplyFailed")) /\ tasks[t].res = "failed"
        \/ Becomes(t, Return(t, "stale")) /\ tasks[t].res = "stale" /\ turn' = t
        \/ Becomes(t, Return(t, tasks[t].res)) /\ tasks[t].res \notin {"failed", "stale"} /\
                ~tasks[t].armed /\ turn' = t
        \/ Becomes(t, [Return(t, tasks[t].res) EXCEPT !.pc = "disarm", !.next = Return(t,
                tasks[t].res).pc]) /\ tasks[t].res \notin {"failed", "stale"}
    BY DEF ReapplyAnswered, Becomes, Goes, Awaits, AwaitsProxy
  <1>4. ASSUME tasks[t].res = "failed" PROVE Leads(t, To(t, "reapplyFailed"))
    BY <1>1, <1>2, <1>4, NamesAre DEF Leads, To, Ready, Known, Minds, Connecting, Fits, Opens,
      Clears, Brings, Awaited, LacksTunnel, Fails, InTurn, InStart, InConnect, Arming, Lifting,
      InDisconnect
  <1>5. ASSUME tasks[t].res = "stale" /\ turn' = t PROVE Leads(t, Return(t, "stale"))
    BY <1>1, <1>2, <1>5, NamesAre DEF Leads, To, Return, Ready, Known, Minds, Connecting, Fits,
      Opens, Clears, Brings, Awaited, LacksTunnel, Newest, Fails, InStart, InConnect, Arming,
      Lifting, InDisconnect
  <1>6. ASSUME tasks[t].res \notin {"failed", "stale"} /\ ~tasks[t].armed /\ turn' = t
        PROVE  Leads(t, Return(t, tasks[t].res))
    BY <1>1, <1>2, <1>6, NamesAre DEF Leads, To, Return, Ready, Known, Minds, Connecting, Fits,
      Opens, Clears, Brings, Awaited, LacksTunnel, Newest, Fails, InStart, InConnect, Arming,
      Lifting, InDisconnect
  <1>7. ASSUME tasks[t].res \notin {"failed", "stale"}
        PROVE  Leads(t, [Return(t, tasks[t].res) EXCEPT !.pc = "disarm", !.next = Return(t,
                tasks[t].res).pc])
    BY <1>1, <1>2, <1>7, NamesAre DEF Leads, To, Return, Ready, Known, Minds, Connecting, Fits,
      Opens, Clears, LacksTunnel, Newest, Fails, InTurn, InStart, InConnect, Arming, Lifting
  <1> QED
    BY <1>2, <1>3, <1>4, <1>5, <1>6, <1>7, LeadsOn

LEMMA ReapplyFailedLets ==
  ASSUME Opened, NEW t \in Tasks, ReapplyFailed(t)
  PROVE  Lets(t)
  <1>1. Ready(t)
    BY ReadyIs
  <1>2. tasks[t].pc = "reapplyFailed" /\ turn \in {t, NoTask} /\ UNCHANGED <<gen, dgen, settings>>
    BY DEF ReapplyFailed, At, Quiet, conn, recovery, core, started, block, Goes
  <1>3. Becomes(t, Return(t, "failed")) /\ turn' = t /\ status' = "error" /\
          UNCHANGED <<active, userDisc, recovering, timer, runs, rule>>
    BY DEF ReapplyFailed, Becomes, Goes, conn, recovery, core, started, block, Calm
  <1>4. Lands(t)
    BY <1>1, <1>2, <1>3, NamesAre DEF Lands, Becomes, To, Return, Ready, Known, Minds, Connecting,
      Fits, Opens, Clears, Brings, LacksTunnel, GivenUp, InStart, InConnect, Arming, Lifting,
      InDisconnect
  <1> QED
    BY <1>1, <1>2, <1>3, <1>4 DEF Lets, Becomes, Ready, Known

\* Reloads.
LEMMA AsksReloadLets ==
  ASSUME Opened, NEW t \in Tasks, AsksReload(t)
  PROVE  Lets(t)
  <1>1. Ready(t)
    BY ReadyIs
  <1>2. tasks[t].pc = "idle" /\ turn \in {t, NoTask} /\ UNCHANGED Calm
    BY DEF AsksReload, At, Quiet, ConnectRest, conn, recovery, core, started, block, Awaits, Slot,
          Free, Calm
  <1>3. Becomes(t, [Idle EXCEPT !.op = "reload", !.pc = "reload"])
    BY DEF AsksReload, Becomes, Awaits
  <1>4. Leads(t, [Idle EXCEPT !.op = "reload", !.pc = "reload"])
    BY <1>1, <1>2, <1>3, NamesAre, IdleIs DEF Leads, Idle, Ready, Known, Minds, Connecting,
      Fits, Opens, Clears, Brings, Awaited, LacksTunnel, Newest, Fails, InTurn, InStart,
      InConnect, Arming, Lifting, InDisconnect
  <1> QED
    BY <1>2, <1>3, <1>4, LeadsOn

LEMMA ReloadLets ==
  ASSUME Opened, NEW t \in Tasks, Reload(t)
  PROVE  Lets(t)
  <1>1. Ready(t)
    BY ReadyIs
  <1>2. tasks[t].pc = "reload" /\ turn \in {t, NoTask} /\ UNCHANGED Calm
    BY DEF Reload, At, Quiet, ConnectRest, conn, recovery, core, started, block, Awaits, Ends, Calm
  <1>3. \/ Becomes(t, [To(t, "reloadBuild") EXCEPT !.at = gen])
        \/ Becomes(t, Idle)
    BY DEF Reload, Becomes, Awaits, Ends
  <1>4. Leads(t, [To(t, "reloadBuild") EXCEPT !.at = gen])
    BY <1>1, <1>2, NamesAre DEF Leads, To, Ready, Known, Minds, Connecting, Fits, Opens, Clears,
      Brings, Awaited, LacksTunnel, Newest, Fails, InTurn, InStart, InConnect, Arming, Lifting,
      InDisconnect
  <1>5. Leads(t, Idle)
    BY <1>1, <1>2, NamesAre, IdleIs DEF Leads, Idle, Ready, Known, Minds, Connecting, Fits, Opens,
      Clears, Brings, Awaited, LacksTunnel, Newest, Fails, InTurn, InStart, InConnect, Arming,
      Lifting, InDisconnect
  <1> QED
    BY <1>2, <1>3, <1>4, <1>5, LeadsOn

LEMMA ReloadBuildLets ==
  ASSUME Opened, NEW t \in Tasks, ReloadBuild(t)
  PROVE  Lets(t)
  <1>1. Ready(t)
    BY ReadyIs
  <1>2. tasks[t].pc = "reloadBuild" /\ turn \in {t, NoTask} /\ UNCHANGED Calm
    BY DEF ReloadBuild, At, Quiet, conn, recovery, core, started, block, Awaits, Calm
  <1>3. Becomes(t, To(t, "reloadCheck"))
    BY DEF ReloadBuild, Becomes, Awaits
  <1>4. Leads(t, To(t, "reloadCheck"))
    BY <1>1, <1>2, <1>3, NamesAre DEF Leads, To, Ready, Known, Minds, Connecting, Fits, Opens,
      Clears, Brings, Awaited, LacksTunnel, Newest, Fails, InTurn, InStart, InConnect, Arming,
      Lifting, InDisconnect
  <1> QED
    BY <1>2, <1>3, <1>4, LeadsOn

LEMMA ReloadCheckLets ==
  ASSUME Opened, NEW t \in Tasks, ReloadCheck(t)
  PROVE  Lets(t)
  <1>1. Ready(t)
    BY ReadyIs
  <1>2. tasks[t].pc = "reloadCheck" /\ turn \in {t, NoTask} /\ UNCHANGED Calm
    BY DEF ReloadCheck, At, Quiet, conn, recovery, core, started, block, Goes, Awaits, Ends, Throws,
          Calm
  <1>3. \/ Becomes(t, To(t, "start"))
        \/ Becomes(t, Idle)
        \/ Becomes(t, [Idle EXCEPT !.op = "drop", !.pc = "drop"])
    BY DEF ReloadCheck, Becomes, Goes, Awaits, Ends, Throws
  <1>4. Leads(t, To(t, "start"))
    BY <1>1, <1>2, NamesAre DEF Leads, To, Ready, Known, Minds, Connecting, Fits, Opens, Clears,
      Brings, Awaited, LacksTunnel, Newest, Fails, InTurn, InStart, InConnect, Arming, Lifting,
      InDisconnect
  <1>5. Leads(t, Idle)
    BY <1>1, <1>2, NamesAre, IdleIs DEF Leads, Idle, Ready, Known, Minds, Connecting, Fits, Opens,
      Clears, Brings, Awaited, LacksTunnel, Newest, Fails, InTurn, InStart, InConnect, Arming,
      Lifting, InDisconnect
  <1>6. Leads(t, [Idle EXCEPT !.op = "drop", !.pc = "drop"])
    BY <1>1, <1>2, NamesAre, IdleIs DEF Leads, Idle, Ready, Known, Minds, Connecting, Fits, Opens,
      Clears, Brings, Awaited, LacksTunnel, Newest, Fails, InTurn, InStart, InConnect, Arming,
      Lifting, InDisconnect
  <1> QED
    BY <1>2, <1>3, <1>4, <1>5, <1>6, LeadsOn

LEMMA ReloadedLets ==
  ASSUME Opened, NEW t \in Tasks, Reloaded(t)
  PROVE  Lets(t)
  <1>1. Ready(t)
    BY ReadyIs
  <1>2. tasks[t].pc = "grace" /\ tasks[t].op = "reload" /\ turn \in {t, NoTask} /\ UNCHANGED Calm
    BY DEF Reloaded, At, Quiet, conn, recovery, core, started, block, Goes, Awaits, Ends, Throws,
          Calm
  <1>3. \/ Becomes(t, Idle)
        \/ Becomes(t, [Idle EXCEPT !.op = "drop", !.pc = "drop"])
    BY DEF Reloaded, Becomes, Goes, Awaits, Ends, Throws
  <1>4. Leads(t, Idle)
    BY <1>1, <1>2, NamesAre, IdleIs DEF Leads, Idle, Ready, Known, Fits, Opens, Clears, Brings,
      Awaited, LacksTunnel, Past, Fails, InTurn, InStart, InConnect, Arming, Lifting, InDisconnect
  <1>5. Leads(t, [Idle EXCEPT !.op = "drop", !.pc = "drop"])
    BY <1>1, <1>2, NamesAre, IdleIs DEF Leads, Idle, Ready, Known, Fits, Opens, Clears, Brings,
      Awaited, LacksTunnel, Past, Fails, InTurn, InStart, InConnect, Arming, Lifting, InDisconnect
  <1> QED
    BY <1>2, <1>3, <1>4, <1>5, LeadsOn

\* The user's calls.
LEMMA UserConnectsLets ==
  ASSUME Opened, NEW t \in Tasks, UserConnects(t)
  PROVE  Lets(t)
  <1>1. Ready(t)
    BY ReadyIs
  <1>2. tasks[t].pc = "idle" /\ turn \in {t, NoTask} /\ UNCHANGED Calm
    BY DEF UserConnects, At, Quiet, CallRest, conn, recovery, core, started, block, Goes, Calls,
          Called, Slot, Free, Calm
  <1>3. Becomes(t, [Idle EXCEPT !.op = "connect", !.pc = "connect"])
    BY DEF UserConnects, Becomes, Goes, Calls, Called
  <1>4. Leads(t, [Idle EXCEPT !.op = "connect", !.pc = "connect"])
    BY <1>1, <1>2, <1>3, NamesAre, IdleIs DEF Leads, Idle, Ready, Known, Fits, Opens, Clears,
      LacksTunnel, Newest, Fails, InTurn, InStart, Arming, Lifting
  <1> QED
    BY <1>2, <1>3, <1>4, LeadsOn

LEMMA UserDisconnectsLets ==
  ASSUME Opened, NEW t \in Tasks, UserDisconnects(t)
  PROVE  Lets(t)
  <1>1. Ready(t)
    BY ReadyIs
  <1>2. tasks[t].pc = "idle" /\ turn \in {t, NoTask} /\ UNCHANGED Calm
    BY DEF UserDisconnects, At, Quiet, CallRest, conn, recovery, core, started, block, Goes, Calls,
          Called, Slot, Free, Calm
  <1>3. Becomes(t, [Idle EXCEPT !.op = "disconnect", !.pc = "disconnect"])
    BY DEF UserDisconnects, Becomes, Goes, Calls, Called
  <1>4. Leads(t, [Idle EXCEPT !.op = "disconnect", !.pc = "disconnect"])
    BY <1>1, <1>2, <1>3, NamesAre, IdleIs DEF Leads, Idle, Ready, Known, Fits, Opens, Clears,
      LacksTunnel, Newest, Fails, InTurn, InStart, Arming, Lifting
  <1> QED
    BY <1>2, <1>3, <1>4, LeadsOn

LEMMA UserAppliesLets ==
  ASSUME Opened, NEW t \in Tasks, UserApplies(t)
  PROVE  Lets(t)
  <1>1. Ready(t)
    BY ReadyIs
  <1>2. tasks[t].pc = "idle" /\ turn \in {t, NoTask} /\ UNCHANGED Calm
    BY DEF UserApplies, At, Quiet, CallRest, conn, recovery, core, started, block, Goes, Calls,
          Called, Slot, Free, Calm
  <1>3. Becomes(t, [Idle EXCEPT !.op = "apply", !.pc = "reapply"])
    BY DEF UserApplies, Becomes, Goes, Calls, Called
  <1>4. Leads(t, [Idle EXCEPT !.op = "apply", !.pc = "reapply"])
    BY <1>1, <1>2, <1>3, NamesAre, IdleIs DEF Leads, Idle, Ready, Known, Minds, Connecting,
      Fits, Opens, Clears, Brings, Awaited, LacksTunnel, Newest, Fails, InTurn, InStart,
      InConnect, Arming, Lifting, InDisconnect
  <1> QED
    BY <1>2, <1>3, <1>4, LeadsOn

LEMMA UserRetriesLets ==
  ASSUME Opened, NEW t \in Tasks, UserRetries(t)
  PROVE  Lets(t)
  <1>1. Ready(t)
    BY ReadyIs
  <1>2. tasks[t].pc = "idle" /\ turn \in {t, NoTask} /\ UNCHANGED Calm
    BY DEF UserRetries, At, Quiet, CallRest, conn, recovery, core, started, block, Goes, Calls,
          Slot, Free, Calm
  <1>3. \/ Becomes(t, [Idle EXCEPT !.op = "apply", !.pc = "reapply"])
        \/ Becomes(t, [Idle EXCEPT !.op = "retry", !.pc = "connect", !.armed = engaged])
    BY DEF UserRetries, Becomes, Goes, Calls
  <1>4. Leads(t, [Idle EXCEPT !.op = "apply", !.pc = "reapply"])
    BY <1>1, <1>2, NamesAre, IdleIs DEF Leads, Idle, Ready, Known, Minds, Connecting, Fits, Opens,
      Clears, Brings, Awaited, LacksTunnel, Newest, Fails, InTurn, InStart, InConnect, Arming,
      Lifting, InDisconnect
  <1>5. Leads(t, [Idle EXCEPT !.op = "retry", !.pc = "connect", !.armed = engaged])
    BY <1>1, <1>2, NamesAre, IdleIs DEF Leads, Idle, Ready, Known, Fits, Opens, Clears,
      LacksTunnel, Newest, Fails, InTurn, InStart, Arming, Lifting
  <1> QED
    BY <1>2, <1>3, <1>4, <1>5, LeadsOn

LEMMA ConnectAnsweredLets ==
  ASSUME Opened, NEW t \in Tasks, ConnectAnswered(t)
  PROVE  Lets(t)
  <1>1. Ready(t)
    BY ReadyIs
  <1>2. tasks[t].pc = "answer" /\ tasks[t].op \in {"connect", "retry"} /\ turn \in {t, NoTask} /\
          UNCHANGED <<gen, dgen, settings>>
    BY DEF ConnectAnswered, At, Quiet, conn, recovery, core, started, block, Goes, Awaits, Ends
  <1>3. \/ Becomes(t, [To(t, "disarm") EXCEPT !.next = "end"]) /\
          status' \in {status, "error"} /\
          UNCHANGED <<active, userDisc, recovering, timer, runs, rule>>
        \/ Becomes(t, Idle) /\ ~(tasks[t].armed /\ tasks[t].res \in {"ok", "tunless"} /\
                Running) /\ status' \in {status, "error"} /\
                UNCHANGED <<active, userDisc, recovering, timer, runs, rule>>
    BY DEF ConnectAnswered, Becomes, Goes, Awaits, Ends, conn, recovery, core, started, block, Calm,
          Running
  <1>4. CASE Becomes(t, [To(t, "disarm") EXCEPT !.next = "end"]) /\
          status' \in {status, "error"} /\
          UNCHANGED <<active, userDisc, recovering, timer, runs, rule>>
    <2>1. Lands(t)
      BY <1>1, <1>2, <1>4, NamesAre DEF Lands, Becomes, To, Ready, Known, Minds, Connecting, Fits,
        Opens, Clears, LacksTunnel, Newest, Fails, InTurn, GivenUp, InStart, InConnect, Arming,
        Lifting
    <2> QED
      BY <1>1, <1>2, <1>4, <2>1 DEF Lets, Becomes, Ready, Known
  <1>5. CASE Becomes(t, Idle) /\ ~(tasks[t].armed /\ tasks[t].res \in {"ok", "tunless"} /\
          Running) /\ status' \in {status, "error"} /\
          UNCHANGED <<active, userDisc, recovering, timer, runs, rule>>
    <2>1. Lands(t)
      BY <1>1, <1>2, <1>5, NamesAre, IdleIs DEF Lands, Becomes, Idle, Ready, Known, Minds,
              Connecting,
            Fits, Opens, Clears, Brings, Awaited, LacksTunnel, Newest, Fails, InTurn, GivenUp,
            InStart, InConnect, Arming, Lifting, InDisconnect
    <2> QED
      BY <1>1, <1>2, <1>5, <2>1 DEF Lets, Becomes, Ready, Known
  <1> QED
    BY <1>3, <1>4, <1>5

LEMMA EndLets ==
  ASSUME Opened, NEW t \in Tasks, End(t)
  PROVE  Lets(t)
  <1>1. Ready(t)
    BY ReadyIs
  <1>2. tasks[t].pc = "end" /\ turn \in {t, NoTask} /\ UNCHANGED Calm
    BY DEF End, At, Quiet, ConnectRest, conn, recovery, core, started, block, Awaits, Ends, Calm
  <1>3. Becomes(t, Idle)
    BY DEF End, Becomes, Awaits, Ends
  <1>4. Leads(t, Idle)
    BY <1>1, <1>2, <1>3, NamesAre, IdleIs DEF Leads, Idle, Ready, Known, Minds, Connecting,
      Fits, Opens, Clears, Brings, Awaited, LacksTunnel, Newest, Fails, InTurn, InStart,
      InConnect, Arming, Lifting, InDisconnect
  <1> QED
    BY <1>2, <1>3, <1>4, LeadsOn

\* Recoveries.
LEMMA RecoverLets ==
  ASSUME Opened, NEW t \in Tasks, Recover(t)
  PROVE  Lets(t)
  <1>1. Ready(t)
    BY ReadyIs
  <1>2. tasks[t].pc = "recover" /\ turn \in {t, NoTask} /\ UNCHANGED <<gen, dgen, settings>>
    BY DEF Recover, At, Quiet, conn, recovery, core, started, block, Goes, Awaits, Ends
  <1>3. \/ Becomes(t, Idle) /\ ~(active /\ settings.auto /\ ~recovering) /\ UNCHANGED Calm
        \/ Becomes(t, [To(t, "reapply") EXCEPT !.rg = rgen, !.run = runs', !.armed = ~Running /\
                engaged]) /\ timer' = NoRetry /\ status' = "reconnecting" /\
                UNCHANGED <<active, userDisc, rule>>
        \/ Becomes(t, [To(t, "connect") EXCEPT !.rg = rgen, !.run = runs', !.armed = ~Running /\
                engaged]) /\ timer' = NoRetry /\ status' = "reconnecting" /\
                UNCHANGED <<active, userDisc, rule>>
    BY DEF Recover, Becomes, Goes, Awaits, Ends, conn, recovery, core, started, block, Calm
  <1>4. ASSUME ~(active /\ settings.auto /\ ~recovering) /\ UNCHANGED Calm PROVE Leads(t, Idle)
    BY <1>1, <1>2, <1>4, NamesAre, IdleIs DEF Leads, Idle, Ready, Known, Minds, Connecting, Fits,
      Opens, Clears, Brings, Awaited, LacksTunnel, Newest, Fails, InTurn, InStart, InConnect,
      Arming, Lifting, InDisconnect
  <1>5. CASE Becomes(t, [To(t, "reapply") EXCEPT !.rg = rgen, !.run = runs',
          !.armed = ~Running /\ engaged]) /\ timer' = NoRetry /\ status' = "reconnecting" /\
          UNCHANGED <<active, userDisc, rule>>
    <2>1. Lands(t)
      BY <1>1, <1>2, <1>5, NamesAre DEF Lands, Becomes, To, Ready, Known, Minds, Connecting, Fits,
        Opens, Clears, Brings, LacksTunnel, InTurn, GivenUp, InStart, InConnect, Arming, Lifting,
        InDisconnect
    <2> QED
      BY <1>1, <1>2, <1>5, <2>1 DEF Lets, Becomes, Ready, Known
  <1>6. CASE Becomes(t, [To(t, "connect") EXCEPT !.rg = rgen, !.run = runs',
          !.armed = ~Running /\ engaged]) /\ timer' = NoRetry /\ status' = "reconnecting" /\
          UNCHANGED <<active, userDisc, rule>>
    <2>1. Lands(t)
      BY <1>1, <1>2, <1>6, NamesAre DEF Lands, Becomes, To, Ready, Known, Fits, Opens, Clears,
        LacksTunnel, InTurn, GivenUp, InStart, Arming, Lifting
    <2> QED
      BY <1>1, <1>2, <1>6, <2>1 DEF Lets, Becomes, Ready, Known
  <1> QED
    BY <1>2, <1>3, <1>4, <1>5, <1>6, LeadsOn

LEMMA RecoverAnsweredLets ==
  ASSUME Opened, NEW t \in Tasks, RecoverAnswered(t)
  PROVE  Lets(t)
  <1>1. Ready(t)
    BY ReadyIs
  <1>2. tasks[t].pc = "answer" /\ tasks[t].op = "recover" /\ turn \in {t, NoTask} /\ UNCHANGED Calm
    BY DEF RecoverAnswered, At, Quiet, ConnectRest, conn, recovery, core, started, block, Goes, Calm
  <1>3. \/ Becomes(t, [To(t, "disarm") EXCEPT !.next = "recovered"]) /\ tasks[t].res # "failed"
        \/ Becomes(t, To(t, "recovered")) /\ turn' = t /\ ~(tasks[t].armed /\
                tasks[t].res \in {"ok", "tunless"} /\ Running)
    BY DEF RecoverAnswered, Becomes, Goes, Running
  <1>4. ASSUME tasks[t].res # "failed"
        PROVE  Leads(t, [To(t, "disarm") EXCEPT !.next = "recovered"])
    BY <1>1, <1>2, <1>4, NamesAre DEF Leads, To, Ready, Known, Minds, Connecting, Fits, Opens,
      Clears, LacksTunnel, Newest, Fails, InTurn, InStart, InConnect, Arming, Lifting
  <1>5. ASSUME turn' = t /\ ~(tasks[t].armed /\ tasks[t].res \in {"ok", "tunless"} /\ Running)
        PROVE  Leads(t, To(t, "recovered"))
    BY <1>1, <1>2, <1>5, NamesAre DEF Leads, To, Ready, Known, Minds, Connecting, Fits, Opens,
      Clears, Brings, Awaited, LacksTunnel, Newest, Fails, InStart, InConnect, Arming, Lifting,
      InDisconnect
  <1> QED
    BY <1>2, <1>3, <1>4, <1>5, LeadsOn

LEMMA RecoveredLets ==
  ASSUME Opened, NEW t \in Tasks, Recovered(t), ~LateRetries
  PROVE  Lets(t)
  <1> DEFINE again == [Idle EXCEPT !.op = "recover", !.pc = "recover"]
  <1>1. Ready(t)
    BY ReadyIs
  <1>2. tasks[t].pc = "recovered" /\ turn \in {t, NoTask} /\ UNCHANGED <<gen, dgen, settings>>
    BY DEF Recovered, At, Quiet, conn, Goes, Awaits, Ends
  <1>3. /\ Becomes(t, Idle) \/ Becomes(t, again)
        /\ tasks[t].rg # rgen => timer' = timer
        /\ recovering' = (recovering /\ tasks[t].rg # rgen)
        /\ tasks[t].res \notin {"failed", "tunless"} => UNCHANGED <<timer, status>>
        /\ status' \in {status, "reconnect-failed"}
        /\ UNCHANGED <<active, userDisc, runs, rule>>
    BY <1>2 DEF Recovered, LateRetries, Becomes, Goes, Awaits, Ends, conn, recovery, block
  <1>4. /\ ~Opens(tasks[t]) /\ ~Awaited(tasks[t])
        /\ LacksTunnel(tasks[t]) => Tunless
        /\ tasks[t].my = None /\ (tasks[t].res = "failed" => status # "connected")
    BY <1>1, <1>2 DEF Ready, Known, Minds, Connecting, Fits, Fails, Opens, Clears, ClearsOwn,
            Brings, Awaited,
         LacksTunnel, Tunless, Newest, InStart, InConnect, Arming, Lifting, InDisconnect
  <1>5. \A r \in {Idle, again} : r.pc \in {"idle", "recover"} /\ r.my = None
    BY IdleIs, NamesAre
  <1> HIDE DEF again
  <1>6. Fits(tasks[t])' /\ tasks'[t].my = None /\ tasks'[t].pc \notin InTurn /\
          ~LacksTunnel(tasks[t])'
    <2>1. tasks'[t].pc \in {"idle", "recover"} /\ tasks'[t].my = None
      BY <1>1, <1>3, <1>5 DEF Ready, Known, Becomes
    <2> QED
      BY <2>1 DEF Fits, Newest, Past, Fails, LacksTunnel, InTurn, InStart, InConnect, Arming,
              Lifting
  <1>7. Lands(t)
    <2>1. recovering' => timer' = NoRetry
      BY <1>1, <1>3 DEF Ready
    <2>2. status' = "connected" => status = "connected"
      BY <1>3
    <2>3. status' = "connected" /\ ~Tunless => timer' = timer
      BY <1>2, <1>3, <1>4, <2>2 DEF LacksTunnel
    <2> QED
      BY <1>3, <1>4, <1>6, <2>1, <2>2, <2>3 DEF Lands, GivenUp
  <1> QED
    BY <1>1, <1>2, <1>3, <1>7 DEF Lets, Becomes, Ready, Known

LEMMA TriggerLets ==
  ASSUME Opened, NEW t \in Tasks, Trigger(t)
  PROVE  Lets(t)
  <1>1. Ready(t)
    BY ReadyIs
  <1>2. tasks[t].pc = "idle" /\ turn \in {t, NoTask} /\ UNCHANGED Calm
    BY DEF Trigger, At, Quiet, CallRest, conn, recovery, core, started, block, Goes, Calls, Called,
          Slot, Free, Calm
  <1>3. Becomes(t, [Idle EXCEPT !.op = "recover", !.pc = "recover"])
    BY DEF Trigger, Becomes, Goes, Calls, Called
  <1>4. Leads(t, [Idle EXCEPT !.op = "recover", !.pc = "recover"])
    BY <1>1, <1>2, <1>3, NamesAre, IdleIs DEF Leads, Idle, Ready, Known, Minds, Connecting,
      Fits, Opens, Clears, Brings, Awaited, LacksTunnel, Newest, Fails, InTurn, InStart,
      InConnect, Arming, Lifting, InDisconnect
  <1> QED
    BY <1>2, <1>3, <1>4, LeadsOn

LEMMA TimerFiresLets ==
  ASSUME Opened, NEW t \in Tasks, TimerFires(t)
  PROVE  Lets(t)
  <1>1. Ready(t)
    BY ReadyIs
  <1>2. tasks[t].pc = "idle" /\ turn \in {t, NoTask} /\ UNCHANGED <<gen, dgen, settings>>
    BY DEF TimerFires, At, Quiet, conn, recovery, core, started, block, Goes, Calls, Slot, Free
  <1>3. Becomes(t, [Idle EXCEPT !.op = "recover", !.pc = "recover", !.att = timer]) /\
          timer' = NoRetry /\ UNCHANGED <<active, userDisc, status, recovering, runs, rule>>
    BY DEF TimerFires, Becomes, Goes, Calls, conn, recovery, core, started, block, Calm
  <1>4. Lands(t)
    BY <1>1, <1>2, <1>3, NamesAre, IdleIs DEF Lands, Becomes, Idle, Ready, Known, Minds,
      Connecting, Fits, Opens, Clears, Brings, Awaited, LacksTunnel, Newest, Fails, InTurn,
      GivenUp, InStart, InConnect, Arming, Lifting, InDisconnect
  <1> QED
    BY <1>1, <1>2, <1>3, <1>4 DEF Lets, Becomes, Ready, Known

\* Drops.
LEMMA DropLets ==
  ASSUME Opened, NEW t \in Tasks, Drop(t)
  PROVE  Lets(t)
  <1>1. Ready(t)
    BY ReadyIs
  <1>2. tasks[t].pc = "drop" /\ turn \in {t, NoTask} /\ UNCHANGED Calm
    BY DEF Drop, At, Quiet, DropRest, conn, recovery, core, started, block, Goes, Awaits, Ends,
          GoesOn, Calm
  <1>3. \/ Becomes(t, Idle)
        \/ Becomes(t, [To(t, "arm") EXCEPT !.next = "dropArmed"])
        \/ Becomes(t, To(t, "dropWait"))
    BY DEF Drop, Becomes, Goes, Awaits, Ends, GoesOn
  <1>4. Leads(t, Idle)
    BY <1>1, <1>2, NamesAre, IdleIs DEF Leads, Idle, Ready, Known, Minds, Connecting, Fits, Opens,
      Clears, Brings, Awaited, LacksTunnel, Newest, Fails, InTurn, InStart, InConnect, Arming,
      Lifting, InDisconnect
  <1>5. Leads(t, [To(t, "arm") EXCEPT !.next = "dropArmed"])
    BY <1>1, <1>2, NamesAre DEF Leads, To, Ready, Known, Minds, Connecting, Fits, Opens, Clears,
      Brings, Awaited, LacksTunnel, Newest, Fails, InTurn, InStart, InConnect, Arming, Lifting,
      InDisconnect
  <1>6. Leads(t, To(t, "dropWait"))
    BY <1>1, <1>2, NamesAre DEF Leads, To, Ready, Known, Minds, Connecting, Fits, Opens, Clears,
      Brings, Awaited, LacksTunnel, Newest, Fails, InTurn, InStart, InConnect, Arming, Lifting,
      InDisconnect
  <1> QED
    BY <1>2, <1>3, <1>4, <1>5, <1>6, LeadsOn

LEMMA DropArmedLets ==
  ASSUME Opened, NEW t \in Tasks, DropArmed(t)
  PROVE  Lets(t)
  <1>1. Ready(t)
    BY ReadyIs
  <1>2. tasks[t].pc = "dropArmed" /\ turn \in {t, NoTask} /\ UNCHANGED Calm
    BY DEF DropArmed, At, Quiet, DropRest, conn, core, started, block, Goes, GoesOn, Calm
  <1>3. \/ Becomes(t, [tasks[t] EXCEPT !.armed = tasks[t].got = "added", !.got = "no",
          !.pc = "disarm", !.next = "end"])
        \/ Becomes(t, [tasks[t] EXCEPT !.armed = tasks[t].got = "added", !.got = "no",
                !.pc = "dropWait"]) /\ (tasks[t].got = "added" => ~GivenUp)
    BY <1>1, <1>2, NamesAre DEF DropArmed, Becomes, Goes, GoesOn, GivenUp, Ready, Known
  <1>4. Leads(t, [tasks[t] EXCEPT !.armed = tasks[t].got = "added", !.got = "no",
          !.pc = "disarm", !.next = "end"])
    BY <1>1, <1>2, NamesAre DEF Leads, Ready, Known, Minds, Connecting, Fits, Opens, Clears,
      LacksTunnel, Newest, Fails, InTurn, InStart, InConnect, Arming, Lifting
  <1>5. ASSUME (tasks[t].got = "added" => ~GivenUp)
        PROVE  Leads(t, [tasks[t] EXCEPT !.armed = tasks[t].got = "added", !.got = "no",
                !.pc = "dropWait"])
    BY <1>1, <1>2, <1>5, NamesAre DEF Leads, Ready, Known, Minds, Connecting, Fits, Opens, Clears,
      Brings, Awaited, LacksTunnel, Newest, Fails, InTurn, InStart, InConnect, Arming, Lifting,
      InDisconnect
  <1> QED
    BY <1>2, <1>3, <1>4, <1>5, LeadsOn

LEMMA DropWaitLets ==
  ASSUME Opened, NEW t \in Tasks, DropWait(t)
  PROVE  Lets(t)
  <1>1. Ready(t)
    BY ReadyIs
  <1>2. tasks[t].pc = "dropWait" /\ turn \in {t, NoTask} /\ UNCHANGED <<gen, dgen, settings>>
    BY DEF DropWait, At, Quiet, DropRest, conn, recovery, core, started, block, Goes, Awaits, Ends,
          Lifts
  <1>0. ~Tunless
    BY <1>2, NoneLacks DEF InTurn
  <1>3. \/ Becomes(t, Idle) /\ (GivenUp \/ ~tasks[t].armed) /\ UNCHANGED Calm
        \/ Becomes(t, Idle) /\ status' = "reconnect-failed" /\ ~InFlight /\
                UNCHANGED <<active, userDisc, recovering, timer, runs, rule>>
        \/ Becomes(t, [To(t, "disarm") EXCEPT !.next = "end"]) /\ UNCHANGED Calm
        \/ Becomes(t, [Idle EXCEPT !.op = "disconnect", !.pc = "disconnect"]) /\
                UNCHANGED <<active, userDisc, status, recovering, timer, runs, rule>>
        \/ Becomes(t, [To(t, "dropJoin") EXCEPT !.on = runs]) /\ recovering /\ ~GivenUp /\
                ~InFlight /\ UNCHANGED Calm
        \/ Becomes(t, To(t, "dropTake")) /\ settings.auto /\ ~recovering /\ ~GivenUp /\
                ~InFlight /\ turn' = t /\ UNCHANGED Calm
    BY <1>1, <1>2 DEF DropWait, Becomes, Goes, Awaits, Ends, Lifts, DropRest, conn, recovery, core,
          started, block, Calm, Healed, GivenUp, Resumes
  <1>4. ASSUME (GivenUp \/ ~tasks[t].armed) /\ UNCHANGED Calm PROVE Leads(t, Idle)
    BY <1>1, <1>2, <1>4, NamesAre, IdleIs DEF Leads, Idle, Ready, Known, Minds, Connecting, Fits,
      Opens, Clears, Brings, Awaited, LacksTunnel, Newest, Fails, InTurn, InStart, InConnect,
      Arming, Lifting, InDisconnect
  <1>5. CASE Becomes(t, Idle) /\ status' = "reconnect-failed" /\ ~InFlight /\
          UNCHANGED <<active, userDisc, recovering, timer, runs, rule>>
    <2>1. Lands(t)
      BY <1>1, <1>2, <1>5, NamesAre, IdleIs DEF Lands, Becomes, Idle, Ready, Known, Fits, Opens,
            Clears, LacksTunnel, Newest, InTurn, GivenUp, InStart, Arming, Lifting, InFlight,
                    Connects
    <2> QED
      BY <1>1, <1>2, <1>5, <2>1 DEF Lets, Becomes, Ready, Known
  <1>6. ASSUME UNCHANGED Calm PROVE Leads(t, [To(t, "disarm") EXCEPT !.next = "end"])
    BY <1>1, <1>2, <1>6, NamesAre DEF Leads, To, Ready, Known, Minds, Connecting, Fits, Opens,
      Clears, LacksTunnel, Newest, Fails, InTurn, InStart, InConnect, Arming, Lifting
  <1>7. CASE Becomes(t, [Idle EXCEPT !.op = "disconnect", !.pc = "disconnect"]) /\
          UNCHANGED <<active, userDisc, status, recovering, timer, runs, rule>>
    <2>1. Lands(t)
      BY <1>1, <1>2, <1>7, NamesAre, IdleIs DEF Lands, Becomes, Idle, Ready, Known, Fits, Opens,
            Clears, LacksTunnel, Newest, Fails, InTurn, GivenUp, InStart, Arming, Lifting
    <2> QED
      BY <1>1, <1>2, <1>7, <2>1 DEF Lets, Becomes, Ready, Known
  <1>8. ASSUME recovering /\ ~GivenUp /\ ~InFlight /\ UNCHANGED Calm
        PROVE  Leads(t, [To(t, "dropJoin") EXCEPT !.on = runs])
    BY <1>0, <1>1, <1>2, <1>8, NamesAre DEF Leads, To, Ready, Known, Fits, Opens, Clears, Brings,
      Awaited, LacksTunnel, Newest, Fails, InTurn, InStart, Arming, Lifting, InDisconnect,
      InFlight, Connects
  <1>9. ASSUME settings.auto /\ ~recovering /\ ~GivenUp /\ ~InFlight /\ turn' = t /\ UNCHANGED Calm
        PROVE  Leads(t, To(t, "dropTake"))
    BY <1>0, <1>1, <1>2, <1>9, NamesAre DEF Leads, To, Ready, Known, Fits, Opens, Clears, Awaited,
      LacksTunnel, Newest, Fails, InStart, Arming, Lifting, InFlight, Connects
  <1> QED
    BY <1>2, <1>3, <1>4, <1>5, <1>6, <1>7, <1>8, <1>9, LeadsOn

LEMMA DropJoinLets ==
  ASSUME Opened, NEW t \in Tasks, DropJoin(t)
  PROVE  Lets(t)
  <1>1. Ready(t)
    BY ReadyIs
  <1>2. tasks[t].pc = "dropJoin" /\ turn \in {t, NoTask} /\ UNCHANGED <<gen, dgen, settings>>
    BY DEF DropJoin, At, Quiet, DropRest, conn, recovery, core, started, block, Goes, Awaits, Ends,
          Lifts
  <1>0. recovering => tasks[t].on # runs
    BY <1>2, LockedRuns DEF DropJoin, Resumes
  <1>3. \/ Becomes(t, Idle) /\ (tasks[t].armed => GivenUp \/ timer # NoRetry \/ recovering) /\
          UNCHANGED Calm
        \/ Becomes(t, [To(t, "disarm") EXCEPT !.next = "end"]) /\ UNCHANGED Calm
        \/ Becomes(t, [To(t, "dropTake") EXCEPT !.on = 0]) /\ ~GivenUp /\ ~recovering /\
                turn' = t /\ UNCHANGED Calm
    BY DEF DropJoin, Becomes, Goes, Awaits, Ends, Lifts, DropRest, conn, recovery, core, started,
          block, Calm, Healed, GivenUp
  <1>4. ASSUME (tasks[t].armed => GivenUp \/ timer # NoRetry \/ recovering) /\ UNCHANGED Calm
        PROVE  Leads(t, Idle)
    BY <1>0, <1>1, <1>2, <1>4, NamesAre, IdleIs DEF Leads, Idle, Ready, Known, Minds, Connecting,
      Fits, Opens, Clears, Brings, Awaited, LacksTunnel, Newest, Fails, InTurn, InStart,
      InConnect, Arming, Lifting, InDisconnect
  <1>5. ASSUME UNCHANGED Calm PROVE Leads(t, [To(t, "disarm") EXCEPT !.next = "end"])
    BY <1>1, <1>2, <1>5, NamesAre DEF Leads, To, Ready, Known, Minds, Connecting, Fits, Opens,
      Clears, LacksTunnel, Newest, Fails, InTurn, InStart, InConnect, Arming, Lifting
  <1>6. ASSUME ~GivenUp /\ ~recovering /\ turn' = t /\ UNCHANGED Calm
        PROVE  Leads(t, [To(t, "dropTake") EXCEPT !.on = 0])
    BY <1>1, <1>2, <1>6, NamesAre DEF Leads, To, Ready, Known, Recovers, Minds, Connecting, Fits,
      Opens, Clears, Brings, Awaited, LacksTunnel, Newest, Fails, InStart, InConnect, Arming,
      Lifting, InDisconnect
  <1> QED
    BY <1>2, <1>3, <1>4, <1>5, <1>6, LeadsOn

LEMMA DropTakeLets ==
  ASSUME Opened, NEW t \in Tasks, DropTake(t)
  PROVE  Lets(t)
  <1>1. Ready(t)
    BY ReadyIs
  <1>2. tasks[t].pc = "dropTake" /\ turn \in {t, NoTask} /\ UNCHANGED <<gen, dgen, settings>>
    BY DEF DropTake, At, Quiet, DropRest, conn, recovery, core, started, block, Goes, Awaits
  <1>3. \/ Becomes(t, [Idle EXCEPT !.op = "recover", !.pc = "recover"]) /\ UNCHANGED Calm
        \/ Becomes(t, [To(t, "dropReport") EXCEPT !.at = gen]) /\ timer' = NoRetry /\
                UNCHANGED <<active, userDisc, status, recovering, runs, rule>>
        \/ Becomes(t, [To(t, "dropProxy") EXCEPT !.at = gen]) /\ timer' = NoRetry /\
                UNCHANGED <<active, userDisc, status, recovering, runs, rule>>
    BY DEF DropTake, Becomes, Goes, Awaits, DropRest, conn, recovery, core, started, block, Calm
  <1>4. ASSUME UNCHANGED Calm PROVE Leads(t, [Idle EXCEPT !.op = "recover", !.pc = "recover"])
    BY <1>1, <1>2, <1>4, NamesAre, IdleIs DEF Leads, Idle, Ready, Known, Minds, Connecting, Fits,
      Opens, Clears, Brings, Awaited, LacksTunnel, Newest, Fails, InTurn, GivenUp, InStart,
      InConnect, Arming, Lifting, InDisconnect
  <1>5. CASE Becomes(t, [To(t, "dropReport") EXCEPT !.at = gen]) /\ timer' = NoRetry /\
          UNCHANGED <<active, userDisc, status, recovering, runs, rule>>
    <2>1. Lands(t)
      BY <1>1, <1>2, <1>5, NamesAre DEF Lands, Becomes, To, Ready, Known, Minds, Connecting, Fits,
        Opens, Clears, Brings, Awaited, LacksTunnel, Newest, Fails, InTurn, GivenUp, InStart,
        InConnect, Arming, Lifting, InDisconnect
    <2> QED
      BY <1>1, <1>2, <1>5, <2>1 DEF Lets, Becomes, Ready, Known
  <1>6. CASE Becomes(t, [To(t, "dropProxy") EXCEPT !.at = gen]) /\ timer' = NoRetry /\
          UNCHANGED <<active, userDisc, status, recovering, runs, rule>>
    <2>1. Lands(t)
      BY <1>1, <1>2, <1>6, NamesAre DEF Lands, Becomes, To, Ready, Known, Minds, Connecting, Fits,
        Opens, Clears, Brings, Awaited, LacksTunnel, Newest, Fails, InTurn, GivenUp, InStart,
        InConnect, Arming, Lifting, InDisconnect
    <2> QED
      BY <1>1, <1>2, <1>6, <2>1 DEF Lets, Becomes, Ready, Known
  <1> QED
    BY <1>2, <1>3, <1>4, <1>5, <1>6, LeadsOn

LEMMA DropProxyLets ==
  ASSUME Opened, NEW t \in Tasks, DropProxy(t)
  PROVE  Lets(t)
  <1>1. Ready(t)
    BY ReadyIs
  <1>2. tasks[t].pc = "dropProxy" /\ turn \in {t, NoTask} /\ UNCHANGED Calm
    BY DEF DropProxy, At, Quiet, DropRest, conn, recovery, core, started, block, Awaits,
          AwaitsProxy, Ends, Calm
  <1>3. \/ Becomes(t, To(t, "dropProxied"))
        \/ Becomes(t, Idle) /\ tasks[t].at # gen
    BY DEF DropProxy, Becomes, Awaits, AwaitsProxy, Ends
  <1>4. Leads(t, To(t, "dropProxied"))
    BY <1>1, <1>2, NamesAre DEF Leads, To, Ready, Known, Minds, Connecting, Fits, Opens, Clears,
      Brings, Awaited, LacksTunnel, Newest, Fails, InTurn, InStart, InConnect, Arming, Lifting,
      InDisconnect
  <1>5. ASSUME tasks[t].at # gen PROVE Leads(t, Idle)
    BY <1>1, <1>2, <1>5, NamesAre, IdleIs DEF Leads, Idle, Ready, Known, Minds, Connecting, Fits,
      Opens, Clears, Brings, Awaited, LacksTunnel, Newest, Fails, InTurn, InStart, InConnect,
      Arming, Lifting, InDisconnect
  <1> QED
    BY <1>2, <1>3, <1>4, <1>5, LeadsOn

LEMMA DropReportLets ==
  ASSUME Opened, NEW t \in Tasks, DropReport(t)
  PROVE  Lets(t)
  <1>1. Ready(t)
    BY ReadyIs
  <1>2. tasks[t].pc \in {"dropReport", "dropProxied"} /\ turn \in {t, NoTask} /\
          UNCHANGED <<gen, dgen, settings>>
    BY DEF DropReport, At, Quiet, DropRest, conn, recovery, core, started, block, Awaits, Ends
  <1>3. \/ Becomes(t, Idle) /\ status' = "reconnect-failed" /\
          UNCHANGED <<active, userDisc, recovering, timer, runs, rule>>
        \/ Becomes(t, Idle) /\ tasks[t].at # gen /\ UNCHANGED Calm
    BY DEF DropReport, Becomes, Awaits, Ends, DropRest, conn, recovery, core, started, block, Calm
  <1>4. CASE Becomes(t, Idle) /\ status' = "reconnect-failed" /\
          UNCHANGED <<active, userDisc, recovering, timer, runs, rule>>
    <2>1. Lands(t)
      BY <1>1, <1>2, <1>4, NamesAre, IdleIs DEF Lands, Becomes, Idle, Ready, Known, Fits, Opens,
            Clears, Brings, LacksTunnel, InTurn, GivenUp, InStart, Arming, Lifting, InDisconnect
    <2> QED
      BY <1>1, <1>2, <1>4, <2>1 DEF Lets, Becomes, Ready, Known
  <1>5. ASSUME tasks[t].at # gen /\ UNCHANGED Calm PROVE Leads(t, Idle)
    BY <1>1, <1>2, <1>5, NamesAre, IdleIs DEF Leads, Idle, Ready, Known, Minds, Connecting, Fits,
      Opens, Clears, Brings, Awaited, LacksTunnel, Newest, Fails, InTurn, InStart, InConnect,
      Arming, Lifting, InDisconnect
  <1> QED
    BY <1>2, <1>3, <1>4, <1>5, LeadsOn

\* doDisconnect.
LEMMA DisTunsLets ==
  ASSUME Opened, NEW t \in Tasks, DisTuns(t)
  PROVE  Lets(t)
  <1>1. Ready(t)
    BY ReadyIs
  <1>2. tasks[t].pc = "disTuns" /\ turn \in {t, NoTask} /\ UNCHANGED Calm
    BY DEF DisTuns, At, Quiet, ConnectRest, conn, recovery, core, started, block, Awaits, Calm
  <1>3. Becomes(t, To(t, "disProxy"))
    BY DEF DisTuns, Becomes, Awaits
  <1>4. Leads(t, To(t, "disProxy"))
    BY <1>1, <1>2, <1>3, NamesAre DEF Leads, To, Ready, Known, Minds, Connecting, Fits, Opens,
      Clears, LacksTunnel, Newest, Fails, InTurn, InStart, InConnect, Arming, Lifting,
      InDisconnect
  <1> QED
    BY <1>2, <1>3, <1>4, LeadsOn

LEMMA DisProxyLets ==
  ASSUME Opened, NEW t \in Tasks, DisProxy(t)
  PROVE  Lets(t)
  <1>1. Ready(t)
    BY ReadyIs
  <1>2. tasks[t].pc = "disProxy" /\ turn \in {t, NoTask} /\ UNCHANGED Calm
    BY DEF DisProxy, At, Quiet, conn, recovery, core, started, block, Awaits, AwaitsProxy, Calm
  <1>3. Becomes(t, To(t, "disBlock"))
    BY DEF DisProxy, Becomes, Awaits, AwaitsProxy
  <1>4. Leads(t, To(t, "disBlock"))
    BY <1>1, <1>2, <1>3, NamesAre DEF Leads, To, Ready, Known, Minds, Connecting, Fits, Opens,
      Clears, LacksTunnel, Newest, Fails, InTurn, InStart, InConnect, Arming, Lifting,
      InDisconnect
  <1> QED
    BY <1>2, <1>3, <1>4, LeadsOn

LEMMA DisBlockLets ==
  ASSUME Opened, NEW t \in Tasks, DisBlock(t)
  PROVE  Lets(t)
  <1>1. Ready(t)
    BY ReadyIs
  <1>2. tasks[t].pc = "disBlock" /\ turn \in {t, NoTask} /\ UNCHANGED Calm
    BY DEF DisBlock, At, Quiet, conn, recovery, core, started, block, Goes, Calm
  <1>3. Becomes(t, [To(t, "disarm") EXCEPT !.next = "disCore"])
    BY DEF DisBlock, Becomes, Goes
  <1>4. Leads(t, [To(t, "disarm") EXCEPT !.next = "disCore"])
    BY <1>1, <1>2, <1>3, NamesAre DEF Leads, To, Ready, Known, Minds, Connecting, Fits, Opens,
      Clears, LacksTunnel, Newest, Fails, InTurn, InStart, InConnect, Arming, Lifting
  <1> QED
    BY <1>2, <1>3, <1>4, LeadsOn

LEMMA DisCoreLets ==
  ASSUME Opened, NEW t \in Tasks, DisCore(t)
  PROVE  Lets(t)
  <1>1. Ready(t)
    BY ReadyIs
  <1>2. tasks[t].pc = "disCore" /\ turn \in {t, NoTask} /\ UNCHANGED Calm
    BY DEF DisCore, At, Quiet, conn, recovery, core, started, block, Goes, Awaits, StopsCore, Calm
  <1>3. \/ Becomes(t, [To(t, "disDone") EXCEPT !.on = proc])
        \/ Becomes(t, To(t, "disDone"))
    BY DEF DisCore, Becomes, Goes, Awaits, StopsCore
  <1>4. Leads(t, [To(t, "disDone") EXCEPT !.on = proc])
    BY <1>1, <1>2, NamesAre DEF Leads, To, Ready, Known, Minds, Connecting, Fits, Opens, Clears,
      Brings, Awaited, LacksTunnel, Newest, Fails, InTurn, InStart, InConnect, Arming, Lifting,
      InDisconnect
  <1>5. Leads(t, To(t, "disDone"))
    BY <1>1, <1>2, NamesAre DEF Leads, To, Ready, Known, Minds, Connecting, Fits, Opens, Clears,
      Brings, Awaited, LacksTunnel, Newest, Fails, InTurn, InStart, InConnect, Arming, Lifting,
      InDisconnect
  <1> QED
    BY <1>2, <1>3, <1>4, <1>5, LeadsOn

LEMMA DisDoneLets ==
  ASSUME Opened, NEW t \in Tasks, DisDone(t), ~LateOff
  PROVE  Lets(t)
  <1>1. Ready(t)
    BY ReadyIs
  <1>2. tasks[t].pc = "disDone" /\ turn \in {t, NoTask} /\ UNCHANGED <<gen, dgen, settings>>
    BY DEF DisDone, At, Quiet, recovery, core, started, block, Awaits, Ends
  <1>3. Becomes(t, Idle) /\ status' = "disconnected" /\ ~active' /\ GivenUp /\
          UNCHANGED <<recovering, timer, runs, rule>>
    BY <1>1, <1>2 DEF DisDone, Becomes, Awaits, Ends, recovery, core, started, block, Calm, GivenUp,
          LateOff
  <1>4. Lands(t)
    BY <1>1, <1>2, <1>3, NamesAre, IdleIs DEF Lands, Becomes, Idle, Ready, Known, Fits, Opens,
      Clears, Brings, LacksTunnel, InTurn, InStart, Arming, Lifting, InDisconnect
  <1> QED
    BY <1>1, <1>2, <1>3, <1>4 DEF Lets, Becomes, Ready, Known

LEMMA ConnectOpens ==
  ASSUME Opened, NEW t \in Tasks, Connect(t)
  PROVE  OpenInv'
  <1> DEFINE c == tasks[t]
             r == IF c.armed THEN [To(t, "prepare") EXCEPT !.my = gen + 1]
                             ELSE [To(t, "disarm") EXCEPT !.my = gen + 1, !.next = "prepare"]
  <1>1. Ready(t)
    BY ReadyIs
  <1>2. /\ tasks' = [tasks EXCEPT ![t] = r] /\ gen' = gen + 1 /\ turn \in {t, NoTask}
        /\ UNCHANGED <<settings, dgen, active, status, recovering, timer>>
    BY DEF Connect, At, Quiet, Goes, Awaits, recovery
  <1>3. /\ r.my = gen + 1 /\ r.pc \in {"prepare", "disarm"} /\
          (r.pc = "disarm" => r.next = "prepare")
        /\ r.pc = "prepare" => r.armed
    BY <1>1, NamesAre DEF Ready, Known, To
  <1> HIDE DEF r
  <1>4. tasks'[t] = r /\ \A u \in Tasks : u # t => tasks'[u] = tasks[u]
    BY <1>1, <1>2 DEF Ready, Known
  <1>5. gen \in Nat
    BY <1>1 DEF Ready, Known
  <1>6. Opens(tasks[t])'
    BY <1>2, <1>3, <1>4, <1>5 DEF Opens, Clears, ClearsOwn, Newest, Lifting, None
  <1>7. ASSUME NEW u \in Tasks, u # t
        PROVE  ~Newest(tasks[u])' /\ Fits(tasks[u])' /\ tasks'[u].pc \notin InTurn
    <2>1. Ready(u) /\ u \notin {t, NoTask} /\ tasks'[u] = tasks[u]
      BY <1>4, <1>7, ReadyIs, NoTaskIs
    <2>2. tasks[u].my \in 0..gen
      BY <2>1 DEF Ready, Known, Placed
    <2>3. ~Newest(tasks[u])'
      BY <1>2, <1>5, <2>1, <2>2 DEF Newest
    <2> QED
      BY <1>2, <2>1, <2>3 DEF Ready, Fits, Fails
  <1>8. Fits(tasks[t])' /\ tasks'[t].pc \notin InTurn
    BY <1>3, <1>4 DEF Fits, Fails, Past, InTurn, InStart, InConnect, Arming, Lifting
  <1>9. recovering' => timer' = NoRetry
    BY <1>1, <1>2 DEF Ready
  <1> QED
    BY <1>2, <1>5, <1>6, <1>7, <1>8, <1>9 DEF OpenInv

LEMMA DisconnectOpens ==
  ASSUME Opened, NEW t \in Tasks, Disconnect(t)
  PROVE  OpenInv'
  <1> DEFINE r == To(t, "disTuns")
  <1>1. Ready(t) /\ tasks[t].pc = "disconnect"
    BY ReadyIs DEF Disconnect, At
  <1>2. /\ tasks' = [tasks EXCEPT ![t] = r] /\ gen' = gen + 1 /\ dgen' = gen' /\
          turn \in {t, NoTask}
        /\ UNCHANGED <<settings, active, status>> /\ recovering' = FALSE
    BY DEF Disconnect, LocksAnew, At, Quiet, Awaits
  <1>3. r.pc = "disTuns" /\ r.my = tasks[t].my
    BY <1>1, NamesAre DEF Ready, Known, To
  <1> HIDE DEF r
  <1>4. tasks'[t] = r /\ \A u \in Tasks : u # t => tasks'[u] = tasks[u]
    BY <1>1, <1>2 DEF Ready, Known
  <1>5. gen \in Nat
    BY <1>1 DEF Ready, Known
  <1>6. ASSUME NEW u \in Tasks
        PROVE  ~Newest(tasks[u])'
    <2>1. Ready(u) /\ tasks'[u].my = tasks[u].my
      BY <1>3, <1>4, ReadyIs
    <2>2. tasks[u].my \in 0..gen
      BY <2>1 DEF Ready, Known, Placed
    <2> QED
      BY <1>2, <1>5, <2>1, <2>2 DEF Newest
  <1>7. ASSUME NEW u \in Tasks, u # t
        PROVE  Fits(tasks[u])' /\ tasks'[u].pc \notin InTurn
    <2>1. Ready(u) /\ u \notin {t, NoTask} /\ tasks'[u] = tasks[u]
      BY <1>4, <1>7, ReadyIs, NoTaskIs
    <2> QED
      BY <1>2, <1>6, <2>1 DEF Ready, Fits, Fails
  <1>8. Fits(tasks[t])' /\ tasks'[t].pc \notin InTurn
    BY <1>3, <1>4, <1>6 DEF Fits, Fails, Past, InTurn, InStart, InConnect, Arming, Lifting
  <1> QED
    BY <1>2, <1>5, <1>6, <1>7, <1>8 DEF OpenInv

LEMMA SameOpen ==
  ASSUME OpenInv, UNCHANGED <<tasks, turn, gen, dgen, settings, active, status, userDisc,
          recovering, timer, runs, rule>>,
         proc' = proc \/ turn = NoTask
  PROVE  OpenInv'
  <1>1. \A u \in Tasks : Fits(tasks[u])' <=> Fits(tasks[u])
    BY DEF Fits, Newest, Past, Fails
  <1>2. ASSUME NEW u \in Tasks PROVE Opens(tasks[u]) => Opens(tasks[u])'
    <2>1. proc' = proc \/ tasks[u].pc \notin InTurn
      BY NoTaskIs DEF OpenInv
    <2> QED
      BY <2>1 DEF Opens, Clears, ClearsOwn, Brings, Newest, Running, GivenUp, InTurn
  <1>3. /\ Connects' <=> Connects
        /\ Tunless' <=> Tunless
        /\ \A u \in Tasks : Awaited(tasks[u]) => Awaited(tasks[u])'
        /\ \A u \in Tasks : Newest(tasks[u])' <=> Newest(tasks[u])
    BY DEF Connects, Tunless, LacksTunnel, Newest, Awaited, GivenUp
  <1> QED
    BY <1>1, <1>2, <1>3 DEF OpenInv

LEMMA DropCallOpens ==
  ASSUME Opened, NEW t \in Tasks, NEW r, Calls(t, r), r.pc = "drop", r.my = None,
         UNCHANGED <<gen, dgen, settings, active, status, userDisc, recovering, timer, runs, rule>>
  PROVE  OpenInv'
  <1>1. Ready(t) /\ tasks[t].pc = "idle" /\ turn = NoTask /\ Becomes(t, r)
    BY ReadyIs DEF Calls, Slot, Free, Goes, Becomes, Quiet
  <1>2. tasks'[t] = r /\ \A u \in Tasks : u # t => tasks'[u] = tasks[u]
    BY <1>1 DEF Ready, Known, Becomes
  <1>3. ~Opens(tasks[t]) /\ ~Awaited(tasks[t])
    BY <1>1 DEF Ready, Known, Minds, Connecting, Opens, Clears, ClearsOwn, Brings, Awaited,
            Newest, InStart,
         InConnect, Arming, Lifting, InDisconnect
  <1>4. Fits(tasks[t])' /\ r.pc \notin InTurn /\ ~LacksTunnel(tasks[t])'
    BY <1>2 DEF Fits, Newest, Past, Fails, LacksTunnel, InTurn, InStart, InConnect, Arming, Lifting
  <1>5. Lets(t)
    BY <1>1, <1>2, <1>3, <1>4 DEF Lets, Lands, Ready, GivenUp
  <1> QED
    BY <1>5, LetsKeeps

LEMMA ExitsOpen ==
  ASSUME Opened, CoreExits \/ TunnelExits
  PROVE  OpenInv'
  <1> DEFINE core1 == [Idle EXCEPT !.op = "drop", !.pc = "drop"]
             tun1 == [Idle EXCEPT !.op = "drop", !.pc = "drop", !.what = "tun"]
  <1>1. /\ turn = NoTask
        /\ UNCHANGED <<gen, dgen, settings, active, status, userDisc, recovering, timer, runs,
                rule>>
        /\ UNCHANGED <<tasks, turn>> \/ \E t \in Tasks : Calls(t, core1) \/ Calls(t, tun1)
    BY DEF CoreExits, TunnelExits, ExitRest, Called, Quiet, conn, recovery, block, ctl
  <1>2. core1.pc = "drop" /\ core1.my = None /\ tun1.pc = "drop" /\ tun1.my = None
    BY DEF Idle
  <1> HIDE DEF core1, tun1
  <1>3. CASE UNCHANGED <<tasks, turn>>
    BY <1>1, <1>3, SameOpen DEF Opened
  <1> QED
    BY <1>1, <1>2, <1>3, DropCallOpens

LEMMA CallLets ==
  ASSUME Opened, ~Straggles, NEW t \in Tasks,
         \/ KillSwitch(t) \/ ConnectOnce(t) \/ ReapplyConnection(t) \/ UserCalls(t)
         \/ InPlaceReload(t) \/ Recovery(t) \/ OnConnectionDrop(t) \/ DoDisconnect(t)
  PROVE  Connect(t) \/ Disconnect(t) \/ Lets(t)
  <1>0. ~LateArms /\ ~LateRetries /\ ~LateOff
    BY DEF Straggles
  <1>1. CASE KillSwitch(t)
    BY <1>0, <1>1, ArmLets, ArmCheckLets, ArmDeleteLets, ArmAddLets, ArmAddedLets, DisarmLets,
       DisarmingLets
    DEF KillSwitch
  <1>2. CASE ConnectOnce(t)
    BY <1>2, PrepareLets, StartLets, StartingLets, CrashedLets, StartedLets, ProxiedLets,
       SwapLets, TunnelLets, TunnelledLets, LanLets, LastLets, GiveWayLets, GaveCoreLets,
       GoneLets
    DEF ConnectOnce
  <1>3. CASE ReapplyConnection(t)
    BY <1>3, ReapplyLets, ReapplyArmedLets, ReapplyStaleLets, TeardownLets, TeardownTunsLets,
       TeardownCoreLets, TornDownLets, ReapplyAnsweredLets, ReapplyFailedLets
    DEF ReapplyConnection
  <1>4. CASE InPlaceReload(t)
    BY <1>4, AsksReloadLets, ReloadLets, ReloadBuildLets, ReloadCheckLets, ReloadedLets
    DEF InPlaceReload
  <1>5. CASE UserCalls(t)
    BY <1>5, UserConnectsLets, UserDisconnectsLets, UserAppliesLets, UserRetriesLets,
       ConnectAnsweredLets, EndLets
    DEF UserCalls
  <1>6. CASE Recovery(t)
    BY <1>0, <1>6, RecoverLets, RecoverAnsweredLets, RecoveredLets, TriggerLets, TimerFiresLets
    DEF Recovery
  <1>7. CASE OnConnectionDrop(t)
    BY <1>7, DropLets, DropArmedLets, DropWaitLets, DropJoinLets, DropTakeLets, DropProxyLets,
       DropReportLets
    DEF OnConnectionDrop
  <1>8. CASE DoDisconnect(t)
    BY <1>0, <1>8, DisTunsLets, DisProxyLets, DisBlockLets, DisCoreLets, DisDoneLets
    DEF DoDisconnect
  <1> QED
    BY <1>1, <1>2, <1>3, <1>4, <1>5, <1>6, <1>7, <1>8

LEMMA OpenNext ==
  ASSUME Opened, [Next]_vars, [~Straggles]_vars
  PROVE  OpenInv'
  <1>1. CASE UNCHANGED vars
    BY <1>1, SameOpen DEF Opened, vars, ctl, conn, core, recovery, block
  <1>2. ASSUME NEW t \in Tasks, Connect(t) \/ Disconnect(t) \/ Lets(t) PROVE OpenInv'
    BY <1>2, ConnectOpens, DisconnectOpens, LetsKeeps
  <1>3. CASE Next /\ ~UNCHANGED vars
    BY <1>2, <1>3, CallLets, ExitsOpen DEF Next, Rest
  <1> QED
    BY <1>1, <1>3

\* A connection that stands is not blocked, but by a call that comes too late: the
\* block goes with the newest connect, with the drop that put it in, or with what took
\* it over (armKillSwitch and disarmKillSwitch, and their callers).
THEOREM Open == Spec /\ [][~Straggles]_vars => []ConnectedIsOpen
  <1>1. Init => OpenInv
    BY IdleIs DEF Init, OpenInv, Fits, Newest, Past, Fails, InTurn, InStart, InConnect, Arming,
            Lifting
  <1>2. Inv /\ SharedInv /\ TurnInv /\ WishInv /\ OpenInv /\ [Next]_vars /\
          [~Straggles]_vars => OpenInv'
    BY OpenNext DEF Opened, Wished
  <1>3. Inv /\ TurnInv /\ OpenInv => ConnectedIsOpen
    <2> SUFFICES ASSUME Inv, TurnInv, OpenInv, AtRest, status = "connected", rule
                 PROVE  FALSE
      BY DEF ConnectedIsOpen
    <2>1. \A t \in Tasks : tasks[t].pc = "idle" /\ tasks[t].run = 0 /\ Minds(tasks[t])
      BY AtRestIs DEF TurnInv
    <2>2. CASE gen = dgen
      BY <2>1, <2>2 DEF Inv, CleanInv, Unblocks, InDisconnect, Lifting
    <2>3. CASE gen # dgen
      <3>1. PICK t \in Tasks : Opens(tasks[t]) \/ Awaited(tasks[t])
        BY <2>3 DEF OpenInv
      <3> QED
        BY <2>1, <3>1 DEF Minds, Connecting, Opens, Clears, ClearsOwn, Brings, Awaited, Newest,
                InStart,
             InConnect, Arming, Lifting, InDisconnect
    <2> QED
      BY <2>2, <2>3
  <1> QED
    BY <1>1, <1>2, <1>3, Inductive, TurnAlways, WishAlways, PTL DEF Spec
=============================================================================
