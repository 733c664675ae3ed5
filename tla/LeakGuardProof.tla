--------------------------- MODULE LeakGuardProof ---------------------------
(***************************************************************************)
(* Theorems about LeakGuard, for any adapters, any number of connects that *)
(* overlap in any way, and any number of faults, crashes and changes by    *)
(* others.                                                                 *)
(*                                                                         *)
(* What happens to the machine: the inductive invariant is IInv.           *)
(* OriginalsKept alone is not inductive: an operation sets adapters        *)
(* several steps after it recorded them, so the invariant says what the    *)
(* operation at the head of the queue may rely on (HeadShape), and that    *)
(* only that one has begun (OneRuns).                                      *)
(*                                                                         *)
(* Whose the guard is: WhoseInv for GuardStands, Owed for                  *)
(* DisconnectGivesBack, both on top of IInv.  They speak of the whole      *)
(* queue: receipts in it are in order, a connect has at most the one       *)
(* operation it waits for, and no release without a receipt is behind the  *)
(* engage of the newest intent (Line).                                     *)
(***************************************************************************)
EXTENDS LeakGuard, TLAPS

-----------------------------------------------------------------------------
(* The queue.                                                              *)

Queues == {q \in Seq(Ops) : \A i \in 2..Len(q) : q[i].at = "first"}
FreshQueues == {q \in Seq(Ops) : \A i \in 1..Len(q) : q[i].at = "first"}

LEMMA OpType ==
  ASSUME NEW k \in Kinds, NEW w \in Callers, NEW i \in Nat
  PROVE  Op(k, w, i) \in Ops /\ Op(k, w, i).at = "first"
  BY DEF Op, Ops, Nothing, Originals, NoToken

\* A new operation waits behind the others.
LEMMA Asked ==
  ASSUME NEW q \in Queues, NEW op \in Ops, op.at = "first"
  PROVE  /\ Append(q, op) \in Queues /\ Append(q, op) # <<>>
         /\ q # <<>> => Head(Append(q, op)) = Head(q)
         /\ q = <<>> => Head(Append(q, op)) = op
         /\ q \in FreshQueues => Append(q, op) \in FreshQueues
<1> DEFINE r == Append(q, op)
<1>1. r \in Seq(Ops) /\ Len(r) = Len(q) + 1 /\ Len(q) \in Nat
  BY DEF Queues
<1>2. \A i \in 1..Len(r) : r[i] = IF i = Len(q) + 1 THEN op ELSE q[i]
  BY DEF Queues
<1>3. r # <<>> /\ Head(r) = r[1]
  BY <1>1
<1>4. q # <<>> => Len(q) # 0 /\ Head(q) = q[1]
  BY DEF Queues
<1> HIDE DEF r
<1>5. \A i \in 2..Len(r) : r[i].at = "first"
  BY <1>1, <1>2 DEF Queues
<1>6. q \in FreshQueues => \A i \in 1..Len(r) : r[i].at = "first"
  BY <1>1, <1>2 DEF FreshQueues
<1>7. r \in Queues /\ (q \in FreshQueues => r \in FreshQueues)
  BY <1>1, <1>5, <1>6 DEF Queues, FreshQueues
<1>8. /\ q # <<>> => Head(r) = Head(q)
      /\ q = <<>> => Head(r) = op
  BY <1>1, <1>2, <1>3, <1>4
<1> QED  BY <1>3, <1>7, <1>8 DEF r

\* The first operation leaves: nothing else has begun.
LEMMA Popped ==
  ASSUME NEW q \in Queues, q # <<>>
  PROVE  Tail(q) \in FreshQueues /\ Head(q) \in Ops
<1>1. Tail(q) \in Seq(Ops) /\ Len(Tail(q)) = Len(q) - 1 /\ Len(q) \in Nat \ {0} /\ Head(q) \in Ops
  BY DEF Queues
<1>2. \A i \in 1..Len(Tail(q)) : Tail(q)[i] = q[i + 1]
  BY DEF Queues
<1>3. ASSUME NEW i \in 1..Len(Tail(q))
      PROVE  Tail(q)[i].at = "first"
  <2>1. i + 1 \in 2..Len(q)
    BY <1>1
  <2> QED  BY <1>2, <2>1 DEF Queues
<1> QED  BY <1>1, <1>3 DEF FreshQueues

\* A queue of which nothing has begun.
LEMMA FreshHead ==
  ASSUME NEW q \in FreshQueues
  PROVE  q \in Queues /\ (q # <<>> => Head(q).at = "first" /\ Head(q) \in Ops)
  BY DEF FreshQueues, Queues

\* The first operation goes on.
LEMMA Stepped ==
  ASSUME NEW q \in Queues, q # <<>>, NEW op \in Ops
  PROVE  /\ [q EXCEPT ![1] = op] \in Queues /\ [q EXCEPT ![1] = op] # <<>>
         /\ Head([q EXCEPT ![1] = op]) = op
<1> DEFINE r == [q EXCEPT ![1] = op]
<1>1. r \in Seq(Ops) /\ Len(r) = Len(q) /\ Len(q) \in Nat \ {0}
  BY DEF Queues
<1>2. r[1] = op /\ \A i \in 2..Len(q) : r[i] = q[i]
  BY DEF Queues
<1> HIDE DEF r
<1>3. r \in Queues /\ r # <<>> /\ Head(r) = op
  BY <1>1, <1>2 DEF Queues
<1> QED  BY <1>3 DEF r

-----------------------------------------------------------------------------
(* Types.                                                                  *)

Ids == 0..MaxConnects
Watches == [tok : Nat, ticks : 0..FullEvery - 1, busy : BOOLEAN]

\* What the callers and the watch are.
CallersOK ==
  /\ calls \in [Connects -> Calls]
  /\ begun \in Ids /\ latest \in Ids /\ tun \in Ids /\ rebuild \in Ids /\ up \subseteq Ids
  /\ disc \in BOOLEAN /\ keep \in BOOLEAN
  /\ watch \in Watches

\* What the guard is.
GuardOK ==
  /\ issued \in Nat /\ token \in Nat /\ own \in BOOLEAN
  /\ refused \subseteq Adapters /\ seen \subseteq Adapters

\* What the machine and the disk are.
MachineOK ==
  /\ dns \in [Adapters -> Resolvers] /\ present \subseteq Adapters /\ rules \in Levels
  /\ file \in Files /\ strays \subseteq Adapters

RestOK == running \in BOOLEAN /\ told \in BOOLEAN /\ plans \subseteq Plans /\ left \in [Events -> Nat]

LEMMA TypeParts ==
  TypeOK /\ OneRuns <=> CallersOK /\ GuardOK /\ MachineOK /\ RestOK /\ queue \in Queues
  BY DEF TypeOK, OneRuns, CallersOK, GuardOK, MachineOK, RestOK, Queues, Ids, Watches

LEMMA TypePartsNext ==
  CallersOK' /\ GuardOK' /\ MachineOK' /\ RestOK' /\ queue' \in Queues => TypeOK' /\ OneRuns'
  BY DEF TypeOK, OneRuns, CallersOK, GuardOK, MachineOK, RestOK, Queues, Ids, Watches

LEMMA NoTicks == 0 \in 0..FullEvery - 1 /\ 0 \in 0..MaxConnects
<1>1. FullEvery \in Nat \ {0} /\ MaxConnects \in Nat
  BY LeakGuardAssumption
<1> QED  BY <1>1

\* An event that happens leaves a budget.
LEMMA HappensType ==
  ASSUME RestOK, NEW e \in Events, Happens(e)
  PROVE  left' \in [Events -> Nat]
  BY DEF RestOK, Happens

LEMMA GoesType ==
  ASSUME calls \in [Connects -> Calls], NEW c, NEW pc \in Places, Goes(c, pc)
  PROVE  calls' \in [Connects -> Calls]
  BY DEF Goes, Calls

LEMMA BeginsType ==
  ASSUME calls \in [Connects -> Calls], MaxConnects \in Nat,
         NEW c, NEW p \in Plans, NEW k \in {TRUE, FALSE}, Begins(c, p, k)
  PROVE  calls' \in [Connects -> Calls] /\ begun' \in Ids /\ latest' \in Ids
<1>1. c \in Ids
  BY DEF Begins, Connects, Ids
<1> DEFINE r == [NoCall EXCEPT !.pc = "open", !.plan = p, !.keep = k]
<1>2. NoCall \in Calls
  BY NoTicks DEF NoCall, NoConnect, NoToken, Calls, Places, Plans
<1>3. "open" \in Places
  BY DEF Places
<1>4. r \in Calls
  <2>1. CASE k = TRUE
    BY <1>2, <1>3, <2>1 DEF Calls
  <2>2. CASE k = FALSE
    BY <1>2, <1>3, <2>2 DEF Calls
  <2> QED  BY <2>1, <2>2
<1> QED  BY <1>1, <1>4 DEF Begins

LEMMA SettleType ==
  ASSUME calls \in [Connects -> Calls], up \subseteq Ids, NEW c \in Nat, NEW tok \in Nat,
         NEW q \in Queues, Settle(c, tok, q)
  PROVE  /\ calls' \in [Connects -> Calls] /\ up' \subseteq Ids /\ queue' \in Queues
         /\ q \in FreshQueues => queue' \in FreshQueues
         /\ q # <<>> => queue' # <<>> /\ Head(queue') = Head(q)
         /\ q = <<>> /\ queue' # <<>> => Head(queue').at = "first"
<1> DEFINE op == [Op("release", "connect", c) EXCEPT !.tok = tok]
<1>1. op \in Ops /\ op.at = "first"
  <2>1. Op("release", "connect", c) \in Ops /\ Op("release", "connect", c).at = "first"
    BY OpType DEF Kinds, Callers
  <2> QED  BY <2>1 DEF Ops
<1>2. calls' \in [Connects -> Calls]
  <2>1. PICK pc \in {"undoing", "gone", "stands"} : calls' = [calls EXCEPT ![c].tok = tok, ![c].pc = pc]
    BY DEF Settle
  <2>2. pc \in Places
    BY DEF Places
  <2> QED  BY <2>1, <2>2 DEF Calls
<1>3. up' \subseteq Ids
  BY DEF Settle
<1>4. queue' = Append(q, op) \/ queue' = q
  BY DEF Settle
<1> HIDE DEF op
<1> QED  BY <1>1, <1>2, <1>3, <1>4, Asked

LEMMA ConnectGoesOnType ==
  ASSUME CallersOK, NEW c \in Nat, NEW tok \in Nat, NEW q \in FreshQueues, ConnectGoesOn(c, tok, q)
  PROVE  /\ calls' \in [Connects -> Calls] /\ up' \subseteq Ids /\ queue' \in FreshQueues
         /\ UNCHANGED <<begun, latest, tun, disc, rebuild, keep>>
<1>1. CASE calls[c].pc \in {"engaging", "stranded"} /\ Settle(c, tok, q)
  <2>1. /\ calls' \in [Connects -> Calls] /\ up' \subseteq Ids /\ queue' \in FreshQueues
    BY <1>1, SettleType, FreshHead DEF CallersOK
  <2> QED  BY <2>1 DEF ConnectGoesOn
<1>2. CASE ~(calls[c].pc \in {"engaging", "stranded"} /\ Settle(c, tok, q))
  <2>1. PICK pc \in Places : Goes(c, pc)
    BY <1>2 DEF ConnectGoesOn, Places
  <2>2. up' \subseteq up /\ queue' = q
    BY <1>2 DEF ConnectGoesOn
  <2>3. calls' \in [Connects -> Calls]
    BY <2>1, GoesType DEF CallersOK
  <2> QED  BY <2>2, <2>3 DEF ConnectGoesOn, CallersOK
<1> QED  BY <1>1, <1>2

\* An operation that ends leaves callers and a queue of which nothing has begun.
LEMMA EndsType ==
  ASSUME CallersOK, RestOK, queue \in Queues, queue # <<>>, NEW tok \in Nat, NEW w \in BOOLEAN,
         Ends(tok, w)
  PROVE  CallersOK' /\ queue' \in FreshQueues
<1> DEFINE op == Head(queue)
<1>1. op \in Ops /\ Tail(queue) \in FreshQueues
  BY Popped
<1>2. CASE op.who = "connect" /\ ConnectGoesOn(op.id, tok, Tail(queue))
           /\ watch' = IF w THEN [watch EXCEPT !.tok = tok, !.ticks = IF tok = NoToken THEN @ ELSE 0]
                          ELSE watch
  <2>1. op.id \in Nat
    BY <1>1 DEF Ops
  <2>2. watch' \in Watches
    BY <1>2, NoTicks DEF CallersOK, Watches
  <2> QED  BY <1>1, <1>2, <2>1, <2>2, ConnectGoesOnType DEF CallersOK
<1>3. CASE op.who = "apply" /\ ApplyGoesOn /\ queue' = Tail(queue)
  <2>1. calls' \in [Connects -> Calls] /\ begun' \in Ids /\ latest' \in Ids
    BY <1>3, BeginsType, LeakGuardAssumption DEF ApplyGoesOn, CallersOK, RestOK
  <2>2. up' = {} /\ watch' \in Watches
    BY <1>3 DEF ApplyGoesOn, TunnelsStop, CallersOK, Watches, NoToken
  <2>3. rebuild' \in Ids /\ UNCHANGED <<tun, disc, keep>>
    BY <1>3, NoTicks DEF ApplyGoesOn, NoConnect, Ids
  <2> QED  BY <1>1, <1>3, <2>1, <2>2, <2>3 DEF CallersOK
<1>4. CASE op.who = "disconnect" /\ DisconnectGoesOn /\ queue' = Tail(queue)
  BY <1>1, <1>4 DEF DisconnectGoesOn, TunnelsStop, CallersOK, Watches, NoToken
<1>5. CASE op.who = "watch" /\ watch' = [watch EXCEPT !.busy = FALSE] /\ queue' = Tail(queue) /\ UNCHANGED callers
  BY <1>1, <1>5 DEF CallersOK, Watches, callers, conn
<1>6. CASE op.who = "nobody" /\ queue' = Tail(queue) /\ UNCHANGED <<callers, watch>>
  BY <1>1, <1>6 DEF CallersOK, callers, conn
<1> QED  BY <1>2, <1>3, <1>4, <1>5, <1>6 DEF Ends

-----------------------------------------------------------------------------
(* The parts of the invariant, and the three ways the queue moves on.      *)

Kept == RecordsOwn /\ OriginalsKept /\ RulesRecorded
Typed == CallersOK /\ GuardOK /\ MachineOK /\ RestOK /\ queue \in Queues

LEMMA Parts == IInv <=> Typed /\ HeadShape /\ Kept
  BY TypeParts DEF IInv, Typed, Kept

LEMMA PartsNext == Typed' /\ HeadShape' /\ Kept' => IInv'
  BY TypePartsNext DEF IInv, Typed, Kept

\* An operation of which nothing has begun relies on nothing.
LEMMA FreshShape ==
  ASSUME queue' \in FreshQueues
  PROVE  HeadShape' /\ queue' \in Queues
<1>1. queue' # <<>> => Head(queue').at = "first"
  BY FreshHead
<1>2. queue' \in Queues
  BY FreshHead
<1> QED  BY <1>1, <1>2 DEF HeadShape, RunsOn

\* The operation that runs ends.
LEMMA Ending ==
  ASSUME IInv, queue # <<>>, NEW tok \in Nat, NEW w \in BOOLEAN, Ends(tok, w),
         GuardOK', MachineOK', RestOK', Kept'
  PROVE  IInv'
<1>1. CallersOK' /\ queue' \in FreshQueues
  BY EndsType, Parts DEF Typed
<1> QED  BY <1>1, FreshShape, PartsNext DEF Typed

LEMMA EndingDone ==
  ASSUME IInv, queue # <<>>, Done, GuardOK', MachineOK', RestOK', Kept'
  PROVE  IInv'
<1>1. NoToken \in Nat /\ FALSE \in BOOLEAN
  BY DEF NoToken
<1> QED  BY <1>1, Ending DEF Done

\* The operation that runs goes on.
LEMMA Stepping ==
  ASSUME IInv, queue # <<>>, NEW op \in Ops, Step(op), UNCHANGED <<callers, watch>>,
         GuardOK', MachineOK', RestOK', Kept', RunsOn(op)'
  PROVE  IInv'
<1>1. queue' \in Queues /\ Head(queue') = op
  BY Stepped, Parts DEF Step, Typed
<1>2. HeadShape'
  BY <1>1 DEF HeadShape, RunsOn
<1>3. CallersOK'
  BY Parts DEF Typed, CallersOK, callers, conn
<1> QED  BY <1>1, <1>2, <1>3, PartsNext DEF Typed

\* A caller asks for an operation, or for none: nothing that counts changes.
LEMMA Asking ==
  ASSUME IInv, UNCHANGED <<dns, rules, file, strays>>,
         \/ queue' = queue
         \/ \E op \in Ops : op.at = "first" /\ queue' = Append(queue, op),
         CallersOK', GuardOK', MachineOK', RestOK'
  PROVE  IInv'
<1>1. Typed /\ HeadShape /\ Kept
  BY Parts
<1>2. Kept'
  BY <1>1 DEF Kept, RecordsOwn, OriginalsKept, RulesRecorded
<1>3. HeadShape' /\ queue' \in Queues
  <2>1. CASE queue' = queue
    BY <1>1, <2>1 DEF Typed, HeadShape, RunsOn
  <2>2. CASE \E op \in Ops : op.at = "first" /\ queue' = Append(queue, op)
    <3>1. PICK op \in Ops : op.at = "first" /\ queue' = Append(queue, op)
      BY <2>2
    <3>2. /\ queue' \in Queues
          /\ queue # <<>> => Head(queue') = Head(queue)
          /\ queue = <<>> => Head(queue') = op
      BY <1>1, <3>1, Asked DEF Typed
    <3>3. CASE queue = <<>>
      BY <3>1, <3>2, <3>3 DEF HeadShape, RunsOn
    <3>4. CASE queue # <<>>
      BY <1>1, <3>2, <3>4 DEF HeadShape, RunsOn
    <3> QED  BY <3>2, <3>3, <3>4
  <2> QED  BY <2>1, <2>2
<1> QED  BY <1>1, <1>2, <1>3, PartsNext DEF Typed

-----------------------------------------------------------------------------
(* What engage and release write.                                          *)

\* A snapshot extends the record, and records an automatic original only for an
\* adapter a release could not put back.
LEMMA MergedOK ==
  ASSUME MachineOK, Kept
  PROVE  /\ Merged \in [Adapters -> Originals]
         /\ \A a \in Adapters : file.rec[a] # "none" => Merged[a] = file.rec[a]
         /\ \A a \in Adapters : Merged[a] = "auto" => a \in strays
         /\ \A a \in present : Merged[a] # "none"
<1>1. \A a \in Adapters : Original(a) \in {"own", "auto"} /\ file.rec[a] \in Originals
  BY DEF MachineOK, Files, Original, Resolvers
<1>2. ASSUME NEW a \in Adapters, file.rec[a] = "none", Original(a) = "auto"
      PROVE  a \in strays
  BY <1>2 DEF Kept, OriginalsKept, Original
<1>3. \A a \in Adapters : file.rec[a] = "auto" => a \in strays
  BY DEF Kept, RecordsOwn
<1>4. \A a \in Adapters :
        Merged[a] = IF file.rec[a] = "none" /\ a \in present THEN Original(a) ELSE file.rec[a]
  BY DEF Merged
<1>5. Merged \in [Adapters -> Originals]
  BY <1>1 DEF Merged, Originals
<1>6. present \subseteq Adapters
  BY DEF MachineOK
<1> QED  BY <1>1, <1>2, <1>3, <1>4, <1>5, <1>6

LEMMA HeldType ==
  ASSUME MachineOK, NEW s
  PROVE  Held(s) \in [Adapters -> Resolvers]
  BY DEF MachineOK, Held, Resolvers

\* Holding recorded adapters keeps their originals.
LEMMA HeldKept ==
  ASSUME MachineOK, Kept, NEW s \in SUBSET Recorded(file.rec), dns' = Held(s),
         UNCHANGED <<rules, file, strays>>
  PROVE  Kept' /\ dns' \in [Adapters -> Resolvers]
<1>1. \A a \in s : file.rec[a] # "none"
  BY DEF Recorded
<1>2. \A a \in Adapters : dns'[a] = IF a \in s THEN "hold" ELSE dns[a]
  BY DEF Held
<1>3. \A a \in s : a \in Adapters /\ file.rec[a] \in Originals
  BY DEF Recorded, MachineOK, Files
<1>4. OriginalsKept'
  BY <1>1, <1>2, <1>3 DEF Kept, OriginalsKept, RecordsOwn, Originals
<1> QED  BY <1>4, HeldType DEF Kept, RecordsOwn, RulesRecorded

\* A restore that stops anywhere keeps the originals, in the file or in place: an
\* adapter it had only reset is still on record.
LEMMA RestoreStopsKept ==
  ASSUME MachineOK, Kept, RestoreStops, UNCHANGED <<file, strays>>
  PROVE  Kept' /\ dns' \in [Adapters -> Resolvers] /\ rules' \in Levels
<1>1. PICK s \in SUBSET Restorable :
        \/ dns' = Restored(s)
        \/ \E a \in s : dns' = [Restored(s) EXCEPT ![a] = "auto"]
  BY DEF RestoreStops
<1>2. \A a \in s : a \in Adapters /\ file.rec[a] \in {"own", "auto"}
  BY DEF Restorable, Recorded, MachineOK, Files, Originals
<1>3. Restored(s) \in [Adapters -> Resolvers]
  BY <1>2 DEF Restored, MachineOK, Resolvers
<1>4. dns' \in [Adapters -> Resolvers]
  BY <1>1, <1>2, <1>3 DEF Resolvers
<1>5. \A a \in Adapters : a \in s \/ dns'[a] = dns[a]
  BY <1>1 DEF Restored
<1>6. OriginalsKept'
  BY <1>2, <1>5 DEF Kept, OriginalsKept, RecordsOwn
<1>7. rules' \in Levels /\ RulesRecorded'
  BY DEF RestoreStops, RulesLifted, Kept, RulesRecorded, MachineOK, Levels
<1> QED  BY <1>4, <1>6, <1>7 DEF Kept, RecordsOwn

\* A release that goes well leaves nothing to record.
LEMMA GivesBackKept ==
  ASSUME MachineOK, Kept, GivesBack, UNCHANGED present
  PROVE  Kept' /\ MachineOK'
<1>1. \A a \in Restorable : a \in Adapters /\ file.rec[a] \in {"own", "auto"}
  BY DEF Restorable, Recorded, MachineOK, Files, Originals
<1>2. \A a \in Adapters : dns'[a] = IF a \in Restorable THEN file.rec[a] ELSE dns[a]
  BY DEF GivesBack, Restored
<1>3. dns' \in [Adapters -> Resolvers]
  BY <1>1 DEF GivesBack, Restored, MachineOK, Resolvers
<1>4. OriginalsKept'
  <2> SUFFICES ASSUME NEW a \in Adapters, a \notin strays'
               PROVE  dns'[a] = "own"
    BY DEF OriginalsKept
  <2>1. CASE a \in Restorable
    <3>1. file.rec[a] # "own" => a \in strays
      BY <1>1, <2>1 DEF Kept, RecordsOwn
    <3>2. file.rec[a] = "own"
      BY <3>1, <2>1 DEF GivesBack
    <3> QED  BY <1>2, <2>1, <3>2
  <2>2. CASE a \notin Restorable
    <3>1. a \notin strays /\ a \notin PassedOver
      BY <2>2 DEF GivesBack
    <3>2. dns[a] = "own" \/ file.rec[a] = "own"
      BY <3>1 DEF Kept, OriginalsKept
    <3>3. dns[a] = "own" \/ file.rec[a] # "own"
      BY <2>2, <3>1 DEF Restorable, PassedOver, Recorded
    <3> QED  BY <1>2, <2>2, <3>2, <3>3
  <2> QED  BY <2>1, <2>2
<1>5. rules' \in Levels /\ RulesRecorded'
  BY DEF GivesBack, RulesLifted, Kept, RulesRecorded, MachineOK, Levels
<1>6. file' \in Files /\ RecordsOwn'
  BY DEF GivesBack, NoFile, Nothing, Files, Originals, RecordsOwn
<1>7. strays' \subseteq Adapters
  BY DEF GivesBack, PassedOver, Recorded, MachineOK
<1> QED  BY <1>3, <1>4, <1>5, <1>6, <1>7 DEF Kept, MachineOK

-----------------------------------------------------------------------------
(* The operations.                                                         *)

\* The operation at the head of the queue.
LEMMA HeadOp ==
  ASSUME IInv, NEW k, NEW at, Runs(k, at)
  PROVE  /\ queue # <<>> /\ Head(queue) \in Ops /\ Head(queue).kind = k /\ Head(queue).at = at
         /\ RunsOn(Head(queue)) /\ Head(queue).tok \in Nat
<1>1. queue # <<>> /\ queue \in Queues /\ HeadShape /\ Head(queue).kind = k /\ Head(queue).at = at
  BY Parts DEF Runs, Typed
<1>2. Head(queue) \in Ops
  BY <1>1, Popped
<1> QED  BY <1>1, <1>2 DEF HeadShape, Ops

\* What an engage writes claims the rules that are out there.
LEMMA WritesKept ==
  ASSUME MachineOK, NEW op \in Ops, NEW rec \in [Adapters -> Originals], Writes(op, rec),
         \A a \in Adapters : file.rec[a] # "none" => rec[a] = file.rec[a],
         \A a \in Adapters : rec[a] = "auto" => a \in strays,
         Kept, UNCHANGED <<dns, present, strays>>,
         rules' = "none" \/ (rules' = rules /\ ~Leaves(op))
  PROVE  Kept' /\ MachineOK' /\ file'.strict = op.strict
<1>1. file' = [there |-> TRUE, peer |-> TRUE, rec |-> rec, strict |-> op.strict, udp |-> Stays(op)]
  BY DEF Writes
<1>2. op.strict \in BOOLEAN /\ Stays(op) \in BOOLEAN
  BY DEF Ops, Stays
<1>3. file' \in Files
  <2>1. CASE Stays(op)
    BY <1>1, <1>2, <2>1 DEF Files
  <2>2. CASE ~Stays(op)
    BY <1>1, <1>2, <2>2 DEF Files
  <2> QED  BY <2>1, <2>2
<1>4. MachineOK'
  BY <1>3 DEF MachineOK, Levels
<1>5. RecordsOwn' /\ OriginalsKept'
  BY <1>1 DEF Kept, RecordsOwn, OriginalsKept
<1>6. RulesRecorded'
  BY <1>1 DEF Kept, RulesRecorded, Leaves, Stays
<1> QED  BY <1>1, <1>4, <1>5, <1>6 DEF Kept

LEMMA WritesKeeps ==
  ASSUME IInv, queue # <<>>, NEW op \in Ops, NEW rec \in [Adapters -> Originals], Writes(op, rec),
         op.kind = "engage", Kept', MachineOK', file'.strict = op.strict,
         refused' \subseteq Adapters, seen' \subseteq Adapters,
         UNCHANGED <<EngageRest, left>>
  PROVE  IInv'
<1> DEFINE next == [op EXCEPT !.at = "apply"]
<1>1. next \in Ops /\ next.kind = "engage" /\ next.at = "apply" /\ next.strict = op.strict
  BY DEF Ops
<1>2. Step(next)
  BY DEF Writes
<1>3. PICK nx : nx = next
  OBVIOUS
<1>4. RunsOn(nx)'
  BY <1>1, <1>3 DEF RunsOn
<1>5. GuardOK' /\ RestOK'
  BY Parts DEF Typed, GuardOK, RestOK, EngageRest, World, Writes, Ops
<1>6. UNCHANGED <<callers, watch>>
  BY DEF EngageRest
<1> HIDE DEF next
<1> QED  BY <1>1, <1>2, <1>3, <1>4, <1>5, <1>6, Stepping

LEMMA SnapshotKeeps ==
  ASSUME IInv, Snapshot
  PROVE  IInv'
<1>1. /\ queue # <<>> /\ Head(queue) \in Ops /\ Head(queue).kind = "engage"
      /\ Typed /\ Kept
  BY HeadOp, Parts DEF Snapshot
<1>2. /\ Merged \in [Adapters -> Originals]
      /\ \A a \in Adapters : file.rec[a] # "none" => Merged[a] = file.rec[a]
      /\ \A a \in Adapters : Merged[a] = "auto" => a \in strays
  BY <1>1, MergedOK DEF Typed
<1>3. PICK op, rec : op = Head(queue) /\ rec = Merged
  OBVIOUS
<1>4. UNCHANGED <<EngageRest, left>> /\ rules' = rules
  BY DEF Snapshot
<1>5. UNCHANGED <<dns, present, strays, running, plans, told, issued, own, callers, watch, left>>
  BY <1>4 DEF EngageRest, World
<1>6. CASE Leaves(op)
  <2> DEFINE next == [op EXCEPT !.at = "lift", !.rec = rec]
  <2>1. next \in Ops /\ next.kind = "engage" /\ next.at = "lift" /\ next.rec = rec
    BY <1>1, <1>2, <1>3 DEF Ops
  <2>2. Step(next) /\ UNCHANGED <<file, token>> /\ refused' = {} /\ seen' = {}
    BY <1>3, <1>6 DEF Snapshot
  <2>3. PICK nx : nx = next
    OBVIOUS
  <2>4. RunsOn(nx)'
    BY <1>2, <1>3, <1>5, <2>1, <2>2, <2>3 DEF RunsOn
  <2>5. GuardOK' /\ MachineOK' /\ RestOK' /\ Kept'
    BY <1>1, <1>4, <1>5, <2>2
       DEF Typed, GuardOK, MachineOK, RestOK, Kept, RecordsOwn, OriginalsKept, RulesRecorded
  <2> HIDE DEF next
  <2> QED  BY <1>1, <1>5, <2>1, <2>2, <2>3, <2>4, <2>5, Stepping
<1>7. CASE ~Leaves(op)
  <2>1. Writes(op, rec)
    BY <1>3, <1>7 DEF Snapshot
  <2>2. Kept' /\ MachineOK' /\ file'.strict = op.strict
    BY <1>1, <1>2, <1>3, <1>4, <1>5, <1>7, <2>1, WritesKept DEF Typed
  <2>3. refused' \subseteq Adapters /\ seen' \subseteq Adapters
    BY DEF Snapshot
  <2> QED  BY <1>1, <1>2, <1>3, <1>4, <2>1, <2>2, <2>3, WritesKeeps
<1> QED  BY <1>6, <1>7

LEMMA LiftKeeps ==
  ASSUME IInv, Lift
  PROVE  IInv'
<1>1. /\ queue # <<>> /\ Head(queue) \in Ops /\ Head(queue).kind = "engage"
      /\ Head(queue).at = "lift" /\ RunsOn(Head(queue)) /\ Typed /\ Kept
  BY HeadOp, Parts DEF Lift
<1>2. PICK op, rec : op = [Head(queue) EXCEPT !.rec = Nothing] /\ rec = Head(queue).rec
  OBVIOUS
<1>3. op \in Ops /\ op.kind = "engage" /\ rec \in [Adapters -> Originals]
  BY <1>1, <1>2 DEF Ops, Nothing, Originals
<1>4. /\ \A a \in Adapters : file.rec[a] # "none" => rec[a] = file.rec[a]
      /\ \A a \in Adapters : rec[a] = "auto" => a \in strays
  BY <1>1, <1>2 DEF RunsOn
<1>5. Writes(op, rec) /\ rules' = "none" /\ UNCHANGED <<EngageRest, left>>
  BY <1>2 DEF Lift
<1>6. UNCHANGED <<dns, present, strays>>
  BY <1>5 DEF EngageRest, World
<1>7. Kept' /\ MachineOK' /\ file'.strict = op.strict
  BY <1>1, <1>3, <1>4, <1>5, <1>6, WritesKept DEF Typed
<1>8. refused' \subseteq Adapters /\ seen' \subseteq Adapters
  BY <1>1 DEF Lift, Typed, GuardOK
<1> QED  BY <1>1, <1>3, <1>5, <1>7, <1>8, WritesKeeps

LEMMA LiftFailsKeeps ==
  ASSUME IInv, LiftFails
  PROVE  IInv'
<1>1. /\ queue # <<>> /\ Done /\ Happens("fault") /\ rules' \in {rules, "none"} /\ Typed /\ Kept
      /\ UNCHANGED <<dns, present, file, running, plans, guard, told, strays>>
  BY Parts DEF LiftFails, Runs
<1>2. GuardOK' /\ MachineOK' /\ RestOK' /\ Kept'
  BY <1>1, HappensType
     DEF Typed, GuardOK, MachineOK, RestOK, Kept, RecordsOwn, OriginalsKept, RulesRecorded, guard,
         Levels, Events
<1> QED  BY <1>1, <1>2, EndingDone

LEMMA EngagesNothingKeeps ==
  ASSUME IInv, EngagesNothing
  PROVE  IInv'
<1>1. queue # <<>> /\ UNCHANGED <<machine, file, running, plans, token, issued, own, told, strays>>
  BY DEF EngagesNothing, Runs
<1>2. /\ left' \in [Events -> Nat]
      /\ refused' \subseteq Adapters /\ seen' \subseteq Adapters
  BY HappensType, Parts DEF EngagesNothing, Events, Typed, RestOK, GuardOK
<1>3. GuardOK' /\ MachineOK' /\ RestOK' /\ Kept'
  BY <1>1, <1>2, Parts
     DEF Typed, GuardOK, MachineOK, RestOK, Kept, RecordsOwn, OriginalsKept, RulesRecorded, machine
<1>4. NoToken \in Nat
  BY DEF NoToken
<1>5. CASE Ends(NoToken, TRUE)
  BY <1>1, <1>3, <1>4, <1>5, Ending
<1>6. CASE Done
  BY <1>1, <1>3, <1>6, EndingDone
<1> QED  BY <1>5, <1>6 DEF EngagesNothing

LEMMA RefusesType ==
  ASSUME RestOK, NEW targets, NEW r, Refuses(targets, r)
  PROVE  left' \in [Events -> Nat] /\ r \subseteq targets
<1>1. CASE UNCHANGED left
  BY <1>1 DEF RestOK, Refuses
<1>2. CASE Happens("refuse")
  BY <1>2, HappensType DEF Events, Refuses
<1> QED  BY <1>1, <1>2 DEF Refuses

LEMMA SetAdaptersKeeps ==
  ASSUME IInv, SetAdapters
  PROVE  IInv'
<1>1. /\ queue # <<>> /\ Head(queue) \in Ops /\ Head(queue).kind = "engage" /\ Head(queue).tok \in Nat
      /\ Head(queue).at = "apply" /\ RunsOn(Head(queue)) /\ Typed /\ Kept
  BY HeadOp, Parts DEF SetAdapters
<1>2. PICK op : op = Head(queue)
  OBVIOUS
<1>3. PICK targets : targets = Recorded(file.rec)
  OBVIOUS
<1>4. PICK r \in SUBSET targets :
        /\ Refuses(targets, r)
        /\ dns' = Held(targets \ r)
        /\ refused' = refused \cup r
        /\ \/ Ends(op.tok, FALSE)
           \/ op.strict /\ Step([op EXCEPT !.at = "rules"]) /\ UNCHANGED <<callers, watch>>
           \/ Ends(op.tok, TRUE)
  BY <1>2, <1>3 DEF SetAdapters
<1>5. UNCHANGED <<present, rules, file, running, plans, token, issued, own, seen, told, strays>>
  BY DEF SetAdapters
<1>6. Kept' /\ dns' \in [Adapters -> Resolvers]
  BY <1>1, <1>3, <1>4, <1>5, HeldKept DEF Typed
<1>7. targets \subseteq Adapters
  BY <1>3 DEF Recorded
<1>8. GuardOK' /\ MachineOK' /\ RestOK'
  BY <1>1, <1>4, <1>5, <1>6, <1>7, RefusesType DEF Typed, GuardOK, MachineOK, RestOK
<1>9. CASE op.strict /\ Step([op EXCEPT !.at = "rules"]) /\ UNCHANGED <<callers, watch>>
  <2> DEFINE next == [op EXCEPT !.at = "rules"]
  <2>1. next \in Ops /\ next.kind = "engage" /\ next.at = "rules"
    BY <1>1, <1>2 DEF Ops
  <2>2. file'.strict
    BY <1>1, <1>2, <1>5, <1>9 DEF RunsOn
  <2>3. PICK nx : nx = next
    OBVIOUS
  <2>4. RunsOn(nx)'
    BY <2>1, <2>2, <2>3 DEF RunsOn
  <2> HIDE DEF next
  <2>5. next \in Ops /\ Step(next)
    BY <1>9, <2>1 DEF next
  <2> QED  BY <1>1, <1>6, <1>8, <1>9, <2>3, <2>4, <2>5, Stepping
<1>10. CASE Ends(op.tok, FALSE)
  BY <1>1, <1>2, <1>6, <1>8, <1>10, Ending
<1>11. CASE Ends(op.tok, TRUE)
  BY <1>1, <1>2, <1>6, <1>8, <1>11, Ending
<1> QED  BY <1>4, <1>9, <1>10, <1>11

LEMMA ApplyFailsKeeps ==
  ASSUME IInv, ApplyFails
  PROVE  IInv'
<1>1. /\ queue # <<>> /\ Head(queue) \in Ops /\ Head(queue).tok \in Nat /\ Head(queue).at = "apply"
      /\ Head(queue).kind \in {"engage", "refresh"} /\ RunsOn(Head(queue)) /\ Typed /\ Kept
  BY HeadOp, Parts DEF ApplyFails
<1>2. PICK s \in SUBSET Recorded(file.rec) : dns' = Held(s)
  BY <1>1 DEF ApplyFails, RunsOn
<1>3. UNCHANGED <<present, rules, file, running, plans, guard, told, strays>> /\ Happens("fault")
  BY DEF ApplyFails
<1>4. Kept' /\ dns' \in [Adapters -> Resolvers]
  BY <1>1, <1>2, <1>3, HeldKept DEF Typed
<1>5. GuardOK' /\ MachineOK' /\ RestOK'
  BY <1>1, <1>3, <1>4, HappensType DEF Typed, GuardOK, MachineOK, RestOK, guard, Events
<1>6. NoToken \in Nat
  BY DEF NoToken
<1>7. CASE Ends(Head(queue).tok, FALSE)
  BY <1>1, <1>4, <1>5, <1>7, Ending
<1>8. CASE Ends(NoToken, FALSE)
  BY <1>1, <1>4, <1>5, <1>6, <1>8, Ending
<1> QED  BY <1>7, <1>8 DEF ApplyFails

LEMMA ReplacesType ==
  ASSUME RestOK, NEW level \in Levels, Replaces(level)
  PROVE  left' \in [Events -> Nat] /\ rules' \in {"none", level}
<1>1. CASE UNCHANGED left /\ rules' = level
  BY <1>1 DEF RestOK
<1>2. CASE Happens("fault") /\ rules' \in {"none", level}
  BY <1>2, HappensType DEF Events
<1> QED  BY <1>1, <1>2 DEF Replaces

LEMMA BlockKeeps ==
  ASSUME IInv, Block
  PROVE  IInv'
<1>1. /\ queue # <<>> /\ Head(queue).tok \in Nat /\ RunsOn(Head(queue)) /\ Typed /\ Kept
      /\ Head(queue).at = "rules" /\ Head(queue).kind \in {"engage", "block"}
  BY HeadOp, Parts DEF Block
<1>2. file.strict \/ file.udp
  BY <1>1 DEF RunsOn
<1>3. PICK level \in {"strict", "udp"} : Replaces(level)
  BY DEF Block
<1>4. left' \in [Events -> Nat] /\ rules' \in Levels
  BY <1>1, <1>3, ReplacesType DEF Typed, Levels
<1>5. UNCHANGED <<dns, present, file, running, plans, guard, told, strays>>
  BY DEF Block
<1>6. GuardOK' /\ MachineOK' /\ RestOK' /\ Kept'
  BY <1>1, <1>2, <1>4, <1>5
     DEF Typed, GuardOK, MachineOK, RestOK, Kept, RecordsOwn, OriginalsKept, RulesRecorded, guard
<1>7. PICK tok \in Nat, w \in BOOLEAN : Ends(tok, w)
  <2>1. NoToken \in Nat
    BY DEF NoToken
  <2>2. PICK w : w = (Head(queue).kind = "engage" /\ ~Failing)
    OBVIOUS
  <2>3. PICK tok : tok = IF Head(queue).kind = "block" /\ Failing THEN NoToken ELSE Head(queue).tok
    OBVIOUS
  <2>4. Ends(tok, w)
    BY <2>2, <2>3 DEF Block
  <2>5. tok \in Nat /\ w \in BOOLEAN
    BY <1>1, <2>1, <2>2, <2>3
  <2> QED  BY <2>4, <2>5
<1> QED  BY <1>1, <1>6, <1>7, Ending

LEMMA RecordBlockKeeps ==
  ASSUME IInv, RecordBlock
  PROVE  IInv'
<1>1. /\ queue # <<>> /\ Head(queue) \in Ops /\ Head(queue).kind = "block" /\ Head(queue).tok \in Nat
      /\ Typed /\ Kept
  BY HeadOp, Parts DEF RecordBlock
<1>2. PICK op : op = [Head(queue) EXCEPT !.at = "rules"]
  OBVIOUS
<1>3. op \in Ops /\ op.kind = "block" /\ op.at = "rules"
  BY <1>1, <1>2 DEF Ops
<1>4. Step(op) /\ file' = [file EXCEPT !.there = TRUE, !.udp = TRUE] /\ token' = Head(queue).tok
      /\ UNCHANGED <<rules, refused, seen, left, EngageRest>>
  BY <1>2 DEF RecordBlock
<1>5. UNCHANGED <<dns, present, strays, running, plans, told, issued, own, callers, watch>>
  BY <1>4 DEF EngageRest, World
<1>6. file' \in Files /\ file'.udp /\ file'.rec = file.rec
  BY <1>1, <1>4 DEF Typed, MachineOK, Files
<1>7. RunsOn(op)'
  BY <1>3, <1>6 DEF RunsOn
<1>8. GuardOK' /\ MachineOK' /\ RestOK' /\ Kept'
  BY <1>1, <1>4, <1>5, <1>6
     DEF Typed, GuardOK, MachineOK, RestOK, Kept, RecordsOwn, OriginalsKept, RulesRecorded
<1> QED  BY <1>1, <1>3, <1>4, <1>5, <1>7, <1>8, Stepping

LEMMA HoldKeeps ==
  ASSUME IInv, Hold
  PROVE  IInv'
<1>1. queue # <<>> /\ Done /\ Typed /\ Kept
  BY Parts DEF Hold, Runs
<1>2. UNCHANGED <<dns, present, file, running, plans, guard, told, strays>>
  BY DEF Hold
<1>3. /\ left' \in [Events -> Nat] /\ rules' \in Levels
      /\ rules' = rules \/ file.strict
  <2>1. CASE file.strict
    BY <1>1, <2>1, ReplacesType DEF Hold, Typed, Levels
  <2>2. CASE ~file.strict
    BY <1>1, <2>2 DEF Hold, Typed, RestOK, MachineOK
  <2> QED  BY <2>1, <2>2
<1>4. GuardOK' /\ MachineOK' /\ RestOK' /\ Kept'
  BY <1>1, <1>2, <1>3
     DEF Typed, GuardOK, MachineOK, RestOK, Kept, RecordsOwn, OriginalsKept, RulesRecorded, guard
<1> QED  BY <1>1, <1>4, EndingDone

LEMMA LooksType ==
  ASSUME GuardOK, MachineOK, NEW op, Looks(op)
  PROVE  refused' \subseteq Adapters /\ seen' \subseteq Adapters
  BY DEF Looks, Retried, Newcomers, GuardOK, MachineOK

LEMMA RefreshSkipsKeeps ==
  ASSUME IInv, RefreshSkips
  PROVE  IInv'
<1>1. queue # <<>> /\ Done /\ UNCHANGED <<machine, file, running, plans, token, issued, own, told, strays>>
  BY DEF RefreshSkips, Runs
<1>2. /\ left' \in [Events -> Nat]
      /\ refused' \subseteq Adapters /\ seen' \subseteq Adapters
  <2>1. Typed
    BY Parts
  <2>2. CASE UNCHANGED <<refused, seen>>
    BY <2>1, <2>2, HappensType DEF RefreshSkips, Events, Typed, RestOK, GuardOK
  <2>3. CASE Happens("fault") /\ Looks(Head(queue))
    BY <2>1, <2>3, HappensType, LooksType DEF Events, Typed
  <2> QED  BY <2>2, <2>3 DEF RefreshSkips
<1>3. GuardOK' /\ MachineOK' /\ RestOK' /\ Kept'
  BY <1>1, <1>2, Parts
     DEF Typed, GuardOK, MachineOK, RestOK, Kept, RecordsOwn, OriginalsKept, RulesRecorded, machine
<1> QED  BY <1>1, <1>3, EndingDone

LEMMA RefreshLooksKeeps ==
  ASSUME IInv, RefreshLooks
  PROVE  IInv'
<1>1. queue # <<>> /\ Head(queue) \in Ops /\ Head(queue).kind = "refresh" /\ Typed /\ Kept
  BY HeadOp, Parts DEF RefreshLooks
<1>2. PICK op : op = Head(queue)
  OBVIOUS
<1>3. UNCHANGED <<dns, present, rules, running, plans, token, issued, own, told, left, strays>>
  BY DEF RefreshLooks, machine
<1>4. refused' \subseteq Adapters /\ seen' \subseteq Adapters
  BY <1>1, LooksType DEF RefreshLooks, Typed
<1>5. GuardOK' /\ RestOK'
  BY <1>1, <1>3, <1>4 DEF Typed, GuardOK, RestOK
<1>6. PICK changed : changed = {a \in present : dns[a] # "hold" /\ a \notin refused'}
  OBVIOUS
<1>7. CASE Done /\ UNCHANGED file
  <2>1. MachineOK' /\ Kept'
    BY <1>1, <1>3, <1>7 DEF Typed, MachineOK, Kept, RecordsOwn, OriginalsKept, RulesRecorded
  <2> QED  BY <1>1, <1>5, <1>7, <2>1, EndingDone
<1>8. CASE /\ file' = [file EXCEPT !.rec = Merged]
           /\ Step([op EXCEPT !.at = "apply", !.set = changed])
           /\ UNCHANGED <<callers, watch>>
  <2> DEFINE next == [op EXCEPT !.at = "apply", !.set = changed]
  <2>1. /\ Merged \in [Adapters -> Originals]
        /\ \A a \in Adapters : file.rec[a] # "none" => Merged[a] = file.rec[a]
        /\ \A a \in Adapters : Merged[a] = "auto" => a \in strays
        /\ \A a \in present : Merged[a] # "none"
    BY <1>1, MergedOK DEF Typed
  <2>2. file' \in Files /\ file'.rec = Merged /\ file'.strict = file.strict /\ file'.udp = file.udp
    BY <1>1, <1>8, <2>1 DEF Typed, MachineOK, Files
  <2>3. MachineOK'
    BY <1>1, <1>3, <2>2 DEF Typed, MachineOK
  <2>4. Kept'
    BY <1>1, <1>3, <2>1, <2>2 DEF Kept, RecordsOwn, OriginalsKept, RulesRecorded
  <2>5. present \subseteq Adapters
    BY <1>1 DEF Typed, MachineOK
  <2>6. changed \subseteq Recorded(file.rec)' /\ changed \in SUBSET Adapters
    BY <1>6, <2>1, <2>2, <2>5 DEF Recorded
  <2>7. next \in Ops /\ next.kind = "refresh" /\ next.at = "apply" /\ next.set = changed
    BY <1>1, <1>2, <2>6 DEF Ops
  <2>8. PICK nx : nx = next
    OBVIOUS
  <2>9. RunsOn(nx)'
    BY <2>6, <2>7, <2>8 DEF RunsOn
  <2> HIDE DEF next
  <2>10. next \in Ops /\ Step(next)
    BY <1>8, <2>7 DEF next
  <2> QED  BY <1>1, <1>5, <1>8, <2>3, <2>4, <2>8, <2>9, <2>10, Stepping
<1> QED  BY <1>2, <1>6, <1>7, <1>8 DEF RefreshLooks

LEMMA RefreshSetsKeeps ==
  ASSUME IInv, RefreshSets
  PROVE  IInv'
<1>1. /\ queue # <<>> /\ Head(queue).kind = "refresh" /\ Head(queue).at = "apply"
      /\ RunsOn(Head(queue)) /\ Typed /\ Kept
  BY HeadOp, Parts DEF RefreshSets
<1>2. PICK set : set = Head(queue).set
  OBVIOUS
<1>3. set \subseteq Recorded(file.rec) /\ set \subseteq Adapters
  BY <1>1, <1>2 DEF RunsOn, Recorded
<1>4. PICK r \in SUBSET set : Refuses(set, r) /\ dns' = Held(set \ r) /\ refused' = refused \cup r
  BY <1>2 DEF RefreshSets
<1>5. Done /\ UNCHANGED <<present, rules, file, running, plans, token, issued, own, seen, told, strays>>
  BY DEF RefreshSets
<1>6. Kept' /\ dns' \in [Adapters -> Resolvers]
  BY <1>1, <1>3, <1>4, <1>5, HeldKept DEF Typed
<1>7. GuardOK' /\ MachineOK' /\ RestOK'
  BY <1>1, <1>3, <1>4, <1>5, <1>6, RefusesType DEF Typed, GuardOK, MachineOK, RestOK
<1> QED  BY <1>1, <1>5, <1>6, <1>7, EndingDone

LEMMA ReleaseKeeps ==
  ASSUME IInv, Release
  PROVE  IInv'
<1>1. queue # <<>> /\ Done /\ Typed /\ Kept
  BY Parts DEF Release, ReleasesNothing, Releases, ReleaseFails, Runs
<1>2. CASE ReleasesNothing
  <2>1. UNCHANGED <<machine, file, running, plans, guard, told, left, strays>>
    BY <1>2 DEF ReleasesNothing
  <2>2. GuardOK' /\ MachineOK' /\ RestOK' /\ Kept'
    BY <1>1, <2>1
       DEF Typed, GuardOK, MachineOK, RestOK, Kept, RecordsOwn, OriginalsKept, RulesRecorded, machine, guard
  <2> QED  BY <1>1, <2>2, EndingDone
<1>3. CASE Releases
  <2>1. GivesBack /\ token' = NoToken /\ own' = FALSE /\ told' = FALSE
        /\ UNCHANGED <<present, running, plans, issued, refused, seen, left>>
    BY <1>3 DEF Releases
  <2>2. Kept' /\ MachineOK'
    BY <1>1, <2>1, GivesBackKept DEF Typed
  <2>3. GuardOK' /\ RestOK'
    BY <1>1, <2>1 DEF Typed, GuardOK, RestOK, NoToken
  <2> QED  BY <1>1, <2>2, <2>3, EndingDone
<1>4. CASE ReleaseFails
  <2>1. UNCHANGED <<dns, rules>> \/ RestoreStops
    BY <1>4 DEF ReleaseFails
  <2>2. /\ told' = TRUE /\ Happens("fault")
        /\ UNCHANGED <<present, file, running, plans, guard, strays>>
    BY <1>4 DEF ReleaseFails
  <2>3. Kept' /\ dns' \in [Adapters -> Resolvers] /\ rules' \in Levels
    <3>1. CASE UNCHANGED <<dns, rules>>
      BY <1>1, <2>2, <3>1 DEF Typed, MachineOK, Kept, RecordsOwn, OriginalsKept, RulesRecorded
    <3>2. CASE RestoreStops
      BY <1>1, <2>2, <3>2, RestoreStopsKept DEF Typed
    <3> QED  BY <2>1, <3>1, <3>2
  <2>4. GuardOK' /\ MachineOK' /\ RestOK'
    BY <1>1, <2>2, <2>3, HappensType DEF Typed, GuardOK, MachineOK, RestOK, guard, Events
  <2> QED  BY <1>1, <2>3, <2>4, EndingDone
<1> QED  BY <1>2, <1>3, <1>4 DEF Release

-----------------------------------------------------------------------------
(* The callers.                                                            *)

AsksOne == \E op \in Ops : op.at = "first" /\ queue' = Append(queue, op)

LEMMA CallKeeps ==
  ASSUME IInv, UNCHANGED CallRest, CallersOK', issued' \in Nat, own' \in BOOLEAN,
         left' \in [Events -> Nat], queue' = queue \/ AsksOne
  PROVE  IInv'
<1>1. UNCHANGED <<dns, present, rules, file, strays, running, token, refused, seen, told, plans>>
  BY DEF CallRest, machine
<1>2. GuardOK' /\ MachineOK' /\ RestOK'
  BY <1>1, Parts DEF Typed, GuardOK, MachineOK, RestOK
<1> QED  BY <1>1, <1>2, Asking DEF AsksOne

\* What any caller may ask for.
LEMMA AsksType ==
  ASSUME NEW k \in Kinds, NEW w \in Callers, NEW i \in Nat, Asks(Op(k, w, i))
  PROVE  AsksOne
  BY OpType DEF Asks, AsksOne

LEMMA KindsAndCallers ==
  /\ Kinds = {"engage", "block", "hold", "refresh", "release"}
  /\ Callers = {"connect", "disconnect", "apply", "watch", "nobody"}
  /\ NoConnect \in Nat /\ NoToken \in Nat
  BY DEF Kinds, Callers, NoConnect, NoToken

\* What a call keeps when it changes neither the guard's receipts nor the budget.
LEMMA SettleKeeps ==
  ASSUME IInv, NEW c \in Connects, Settle(c, NoToken, queue),
         UNCHANGED <<CallRest, issued, own, begun, latest, tun, disc, rebuild, keep, watch>>,
         left' \in [Events -> Nat]
  PROVE  IInv'
<1>1. Typed /\ c \in Nat /\ NoToken \in Nat
  BY Parts, LeakGuardAssumption DEF Connects, NoToken
<1>2. calls' \in [Connects -> Calls] /\ up' \subseteq Ids
  BY <1>1, SettleType DEF Typed, CallersOK
<1>3. queue' = queue \/ AsksOne
  <2> DEFINE op == [Op("release", "connect", c) EXCEPT !.tok = NoToken]
  <2>1. Op("release", "connect", c) \in Ops /\ Op("release", "connect", c).at = "first"
    BY <1>1, OpType, KindsAndCallers
  <2>2. op \in Ops /\ op.at = "first"
    BY <1>1, <2>1 DEF Ops
  <2>3. queue' = Append(queue, op) \/ queue' = queue
    BY DEF Settle
  <2> HIDE DEF op
  <2> QED  BY <2>2, <2>3 DEF AsksOne
<1>4. CallersOK' /\ issued' \in Nat /\ own' \in BOOLEAN
  BY <1>1, <1>2 DEF Typed, CallersOK, GuardOK
<1> QED  BY <1>3, <1>4, CallKeeps

LEMMA ConnectKeeps ==
  ASSUME IInv, Connect
  PROVE  IInv'
<1>1. PICK p \in plans : Begins(begun + 1, p, FALSE)
  BY DEF Connect
<1>2. Typed /\ MaxConnects \in Nat
  BY Parts, LeakGuardAssumption
<1>3. p \in Plans
  BY <1>2 DEF Typed, RestOK
<1>4. calls' \in [Connects -> Calls] /\ begun' \in Ids /\ latest' \in Ids
  BY <1>1, <1>2, <1>3, BeginsType DEF Typed, CallersOK
<1>5. UNCHANGED <<CallRest, queue, issued, own, tun, up, disc, rebuild, keep, watch>> /\ Happens("connect")
  BY DEF Connect
<1>6. left' \in [Events -> Nat]
  BY <1>2, <1>5, HappensType DEF Typed, Events
<1>7. CallersOK' /\ issued' \in Nat /\ own' \in BOOLEAN
  BY <1>2, <1>4, <1>5 DEF Typed, CallersOK, GuardOK
<1> QED  BY <1>5, <1>6, <1>7, CallKeeps

LEMMA OpensKeeps ==
  ASSUME IInv, NEW c \in Connects, Opens(c)
  PROVE  IInv'
<1>1. Typed /\ c \in Nat /\ c \in Ids
  BY Parts, LeakGuardAssumption DEF Connects, Ids
<1>2. UNCHANGED <<CallRest, issued, own, begun, latest, up, disc, rebuild, keep, watch, left>>
  BY DEF Opens
<1>3. /\ queue' = queue \/ AsksOne
      /\ tun' \in Ids /\ calls' \in [Connects -> Calls]
  <2>1. CASE Goes(c, "gone") /\ UNCHANGED <<queue, tun>>
    BY <1>1, <2>1, GoesType DEF Typed, CallersOK, Places
  <2>2. CASE Goes(c, "clearing") /\ Asks(Op("release", "connect", c)) /\ UNCHANGED tun
    BY <1>1, <2>2, GoesType, AsksType, KindsAndCallers DEF Typed, CallersOK, Places
  <2>3. CASE /\ tun' = IF tun \in up THEN tun ELSE c
             /\ calls' = [calls EXCEPT ![c].pc = "selected", ![c].tn = tun']
             /\ UNCHANGED queue
    <3>1. tun' \in Ids /\ "selected" \in Places
      BY <1>1, <2>3 DEF Typed, CallersOK, Places
    <3>2. calls' \in [Connects -> Calls]
      BY <1>1, <2>3, <3>1 DEF Typed, CallersOK, Calls, Ids
    <3> QED  BY <2>3, <3>1, <3>2
  <2> QED  BY <2>1, <2>2, <2>3 DEF Opens
<1>4. CallersOK' /\ issued' \in Nat /\ own' \in BOOLEAN /\ left' \in [Events -> Nat]
  BY <1>1, <1>2, <1>3 DEF Typed, CallersOK, GuardOK, RestOK
<1> QED  BY <1>2, <1>3, <1>4, CallKeeps

LEMMA FailsKeeps ==
  ASSUME IInv, NEW c \in Connects, Fails(c)
  PROVE  IInv'
<1>1. Typed
  BY Parts
<1>2. /\ UNCHANGED <<CallRest, issued, own, begun, latest, tun, up, disc, rebuild, keep, watch>>
      /\ Happens("fault") /\ Goes(c, "gone")
  BY DEF Fails
<1>3. queue' = queue \/ AsksOne
  <2>1. Op("release", "nobody", NoConnect) \in Ops /\ Op("release", "nobody", NoConnect).at = "first"
    BY OpType, KindsAndCallers
  <2>2. queue' = queue \/ queue' = Append(queue, Op("release", "nobody", NoConnect))
    BY DEF Fails
  <2> QED  BY <2>1, <2>2 DEF AsksOne
<1>4. calls' \in [Connects -> Calls] /\ left' \in [Events -> Nat]
  BY <1>1, <1>2, GoesType, HappensType DEF Typed, CallersOK, Places, Events
<1>5. CallersOK' /\ issued' \in Nat /\ own' \in BOOLEAN
  BY <1>1, <1>2, <1>4 DEF Typed, CallersOK, GuardOK
<1> QED  BY <1>2, <1>3, <1>4, <1>5, CallKeeps

LEMMA SelectsKeeps ==
  ASSUME IInv, NEW c \in Connects, Selects(c)
  PROVE  IInv'
<1>1. Typed /\ c \in Nat
  BY Parts, LeakGuardAssumption DEF Connects
<1>2. UNCHANGED <<CallRest, issued, own, begun, latest, tun, disc, rebuild, keep, watch, left>>
  BY DEF Selects
<1>3. left' \in [Events -> Nat]
  BY <1>1, <1>2 DEF Typed, RestOK
<1>4. CASE Settle(c, NoToken, queue)
  BY <1>2, <1>3, <1>4, SettleKeeps
<1>5. CASE /\ \E pc \in {"gone", "starting", "resolving", "holding"} : Goes(c, pc)
           /\ queue' = queue \/ Asks(Op("hold", "connect", c))
           /\ UNCHANGED up
  <2>1. calls' \in [Connects -> Calls]
    BY <1>1, <1>5, GoesType DEF Typed, CallersOK, Places
  <2>2. queue' = queue \/ AsksOne
    BY <1>1, <1>5, AsksType, KindsAndCallers
  <2>3. CallersOK' /\ issued' \in Nat /\ own' \in BOOLEAN
    BY <1>1, <1>2, <1>5, <2>1 DEF Typed, CallersOK, GuardOK
  <2> QED  BY <1>2, <1>3, <2>2, <2>3, CallKeeps
<1> QED  BY <1>4, <1>5 DEF Selects

LEMMA ResolvesKeeps ==
  ASSUME IInv, NEW c \in Connects, Resolves(c)
  PROVE  IInv'
<1>1. Typed /\ c \in Nat
  BY Parts, LeakGuardAssumption DEF Connects
<1>2. /\ UNCHANGED <<CallRest, begun, latest, tun, up, disc, rebuild, keep, watch, left>>
      /\ Goes(c, "engaging") /\ own' = TRUE /\ issued' = issued + 1
  BY DEF Resolves
<1>3. PICK op : op = [Op("block", "connect", c) EXCEPT !.tok = issued']
  OBVIOUS
<1>4. op \in Ops /\ op.at = "first"
  <2>1. Op("block", "connect", c) \in Ops /\ Op("block", "connect", c).at = "first"
    BY <1>1, OpType, KindsAndCallers
  <2>2. issued' \in Nat
    BY <1>1, <1>2 DEF Typed, GuardOK
  <2> QED  BY <1>3, <2>1, <2>2 DEF Ops
<1>5. AsksOne
  BY <1>3, <1>4 DEF Resolves, Asks, AsksOne
<1>6. calls' \in [Connects -> Calls]
  BY <1>1, <1>2, GoesType DEF Typed, CallersOK, Places
<1>7. CallersOK' /\ issued' \in Nat /\ own' \in BOOLEAN /\ left' \in [Events -> Nat]
  BY <1>1, <1>2, <1>6 DEF Typed, CallersOK, GuardOK, RestOK
<1> QED  BY <1>2, <1>5, <1>7, CallKeeps

LEMMA TunnelStartsKeeps ==
  ASSUME IInv, NEW c \in Connects, TunnelStarts(c)
  PROVE  IInv'
<1>1. Typed /\ c \in Nat /\ calls[c] \in Calls
  BY Parts, LeakGuardAssumption DEF Connects, Typed, CallersOK
<1>2. UNCHANGED <<CallRest, begun, latest, tun, disc, rebuild, keep, watch, left>>
  BY DEF TunnelStarts
<1>3. up' \subseteq Ids
  BY <1>1 DEF TunnelStarts, Typed, CallersOK, Calls, Ids
<1>4. calls' \in [Connects -> Calls]
  <2>1. PICK pc \in {"engaging", "gone", "stands"} : Goes(c, pc)
    BY DEF TunnelStarts
  <2> QED  BY <1>1, <2>1, GoesType DEF Typed, CallersOK, Places
<1>5. CASE calls[c].plan \in Guarded
  <2>1. own' = TRUE /\ issued' = issued + 1
    BY <1>5 DEF TunnelStarts
  <2>2. PICK strict : strict = (calls[c].plan = "strict")
    OBVIOUS
  <2>3. PICK op : op = [Op("engage", "connect", c) EXCEPT !.tok = issued', !.strict = strict]
    OBVIOUS
  <2>4. op \in Ops /\ op.at = "first"
    <3>1. Op("engage", "connect", c) \in Ops /\ Op("engage", "connect", c).at = "first"
      BY <1>1, OpType, KindsAndCallers
    <3>2. issued' \in Nat
      BY <1>1, <2>1 DEF Typed, GuardOK
    <3>3. strict \in BOOLEAN
      BY <2>2
    <3> QED  BY <2>3, <3>1, <3>2, <3>3 DEF Ops
  <2>5. AsksOne
    BY <1>5, <2>2, <2>3, <2>4 DEF TunnelStarts, Asks, AsksOne
  <2>6. CallersOK' /\ issued' \in Nat /\ own' \in BOOLEAN /\ left' \in [Events -> Nat]
    BY <1>1, <1>2, <1>3, <1>4, <2>1 DEF Typed, CallersOK, GuardOK, RestOK
  <2> QED  BY <1>2, <2>5, <2>6, CallKeeps
<1>6. CASE calls[c].plan \notin Guarded
  <2>1. UNCHANGED <<queue, issued, own>>
    BY <1>6 DEF TunnelStarts
  <2>2. CallersOK' /\ issued' \in Nat /\ own' \in BOOLEAN /\ left' \in [Events -> Nat]
    BY <1>1, <1>2, <1>3, <1>4, <2>1 DEF Typed, CallersOK, GuardOK, RestOK
  <2> QED  BY <1>2, <2>1, <2>2, CallKeeps
<1> QED  BY <1>5, <1>6

LEMMA TunnelFailsKeeps ==
  ASSUME IInv, NEW c \in Connects, TunnelFails(c)
  PROVE  IInv'
<1>1. Typed /\ c \in Nat
  BY Parts, LeakGuardAssumption DEF Connects
<1>2. UNCHANGED <<CallRest, issued, own, begun, latest, tun, disc, rebuild, keep, watch>> /\ Happens("fault")
  BY DEF TunnelFails
<1>3. left' \in [Events -> Nat]
  BY <1>1, <1>2, HappensType DEF Typed, Events
<1>4. CASE Settle(c, NoToken, queue)
  BY <1>2, <1>3, <1>4, SettleKeeps
<1>5. CASE Goes(c, "stranded") /\ Asks(Op("release", "connect", c)) /\ UNCHANGED up
  <2>1. calls' \in [Connects -> Calls] /\ AsksOne
    BY <1>1, <1>5, GoesType, AsksType, KindsAndCallers DEF Typed, CallersOK, Places
  <2>2. CallersOK' /\ issued' \in Nat /\ own' \in BOOLEAN
    BY <1>1, <1>2, <1>5, <2>1 DEF Typed, CallersOK, GuardOK
  <2> QED  BY <1>2, <1>3, <2>1, <2>2, CallKeeps
<1> QED  BY <1>4, <1>5 DEF TunnelFails

LEMMA ReapplyKeeps ==
  ASSUME IInv, Reapply
  PROVE  IInv'
<1>1. Typed /\ AsksOne /\ Happens("apply")
  BY Parts, AsksType, KindsAndCallers DEF Reapply
<1>2. UNCHANGED <<CallRest, issued, own, conn, disc, watch>> /\ rebuild' = latest /\ keep' \in BOOLEAN
  BY DEF Reapply
<1>3. CallersOK' /\ issued' \in Nat /\ own' \in BOOLEAN /\ left' \in [Events -> Nat]
  BY <1>1, <1>2, HappensType DEF Typed, CallersOK, GuardOK, conn, Events
<1> QED  BY <1>1, <1>2, <1>3, CallKeeps

LEMMA DisconnectKeeps ==
  ASSUME IInv, Disconnect
  PROVE  IInv'
<1>1. Typed /\ AsksOne /\ Happens("disconnect")
  BY Parts, AsksType, KindsAndCallers DEF Disconnect
<1>2. /\ UNCHANGED <<CallRest, issued, own, calls, begun, tun, up, rebuild, keep, watch>>
      /\ latest' = NoConnect /\ disc' = TRUE
  BY DEF Disconnect
<1>3. NoConnect \in Ids
  BY NoTicks DEF NoConnect, Ids
<1>4. CallersOK' /\ issued' \in Nat /\ own' \in BOOLEAN /\ left' \in [Events -> Nat]
  BY <1>1, <1>2, <1>3, HappensType DEF Typed, CallersOK, GuardOK, Events
<1> QED  BY <1>1, <1>2, <1>4, CallKeeps

LEMMA ButtonKeeps ==
  ASSUME IInv, Button
  PROVE  IInv'
<1>1. Typed /\ AsksOne /\ Happens("button")
  BY Parts, AsksType, KindsAndCallers DEF Button
<1>2. UNCHANGED <<CallRest, issued, own, callers, watch>>
  BY DEF Button
<1>3. CallersOK' /\ issued' \in Nat /\ own' \in BOOLEAN /\ left' \in [Events -> Nat]
  BY <1>1, <1>2, HappensType DEF Typed, CallersOK, GuardOK, Events, callers, conn
<1> QED  BY <1>1, <1>2, <1>3, CallKeeps

LEMMA TickKeeps ==
  ASSUME IInv, Tick
  PROVE  IInv'
<1>1. Typed
  BY Parts
<1>2. UNCHANGED <<CallRest, issued, own, callers, left>>
      /\ watch' = [watch EXCEPT !.busy = TRUE, !.ticks = NextTick]
  BY DEF Tick
<1>3. NextTick \in 0..FullEvery - 1
  <2>1. FullEvery \in Nat \ {0} /\ watch.ticks + 1 \in Nat
    BY <1>1, LeakGuardAssumption DEF Typed, CallersOK, Watches
  <2> QED  BY <2>1 DEF NextTick
<1>4. watch' \in Watches
  BY <1>1, <1>2, <1>3 DEF Typed, CallersOK, Watches
<1>5. AsksOne
  <2>1. PICK full : full = (watch.ticks = 0)
    OBVIOUS
  <2>2. PICK op : op = [Op("refresh", "watch", NoConnect) EXCEPT !.tok = watch.tok, !.full = full]
    OBVIOUS
  <2>3. Op("refresh", "watch", NoConnect) \in Ops /\ Op("refresh", "watch", NoConnect).at = "first"
    BY OpType, KindsAndCallers
  <2>4. watch.tok \in Nat /\ full \in BOOLEAN
    BY <1>1, <2>1 DEF Typed, CallersOK, Watches
  <2>5. op \in Ops /\ op.at = "first"
    BY <2>2, <2>3, <2>4 DEF Ops
  <2> QED  BY <2>1, <2>2, <2>5 DEF Tick, Asks, AsksOne
<1>6. CallersOK' /\ issued' \in Nat /\ own' \in BOOLEAN /\ left' \in [Events -> Nat]
  BY <1>1, <1>2, <1>4 DEF Typed, CallersOK, GuardOK, RestOK, callers, conn
<1> QED  BY <1>2, <1>5, <1>6, CallKeeps

-----------------------------------------------------------------------------
(* The end of the process, its launch, and others.                         *)

LEMMA ForgetsType ==
  ASSUME Typed, Forgets
  PROVE  /\ CallersOK' /\ GuardOK' /\ running' = FALSE
         /\ queue' \in FreshQueues
<1>1. 0 \in 0..MaxConnects /\ 0 \in 0..FullEvery - 1
  BY NoTicks
<1>2. NoCall \in Calls
  BY <1>1 DEF NoCall, NoConnect, NoToken, Calls, Places, Plans
<1>3. calls' \in [Connects -> Calls]
  <2>1. \A pc \in Places : [NoCall EXCEPT !.pc = pc] \in Calls
    BY <1>2 DEF Calls
  <2>2. "gone" \in Places /\ "none" \in Places
    BY DEF Places
  <2> QED  BY <2>1, <2>2 DEF Forgets
<1>4. CallersOK'
  BY <1>1, <1>3 DEF Forgets, Typed, CallersOK, NoConnect, NoWatch, NoToken, Ids, Watches
<1>5. GuardOK' /\ running' = FALSE
  BY DEF Forgets, GuardOK, NoToken
<1>6. queue' \in FreshQueues
  BY DEF Forgets, FreshQueues
<1> QED  BY <1>4, <1>5, <1>6

\* A script that is cut off has held recorded adapters, put recorded resolvers
\* back, or moved rules the file claims.
LEMMA CutOffKeeps ==
  ASSUME IInv, CutOff, UNCHANGED <<file, strays>>
  PROVE  Kept' /\ dns' \in [Adapters -> Resolvers] /\ rules' \in Levels
<1>1. Typed /\ HeadShape /\ Kept /\ MachineOK
  BY Parts DEF Typed
<1>2. CASE dns' = dns /\ rules' \in {rules, "none"}
  BY <1>1, <1>2 DEF MachineOK, Levels, Kept, RecordsOwn, OriginalsKept, RulesRecorded
<1>3. CASE Runs("engage", "apply") /\ UNCHANGED rules
           /\ \E s \in SUBSET (Recorded(file.rec) \cap present) : dns' = Held(s)
  <2>1. PICK s \in SUBSET Recorded(file.rec) : dns' = Held(s)
    BY <1>3
  <2>2. Kept' /\ dns' \in [Adapters -> Resolvers]
    BY <1>1, <1>3, <2>1, HeldKept
  <2> QED  BY <1>1, <1>3, <2>2 DEF MachineOK
<1>4. CASE (file.strict \/ file.udp) /\ rules' \in Levels /\ UNCHANGED dns
  BY <1>1, <1>4 DEF MachineOK, Kept, RecordsOwn, OriginalsKept, RulesRecorded
<1>5. CASE Runs("refresh", "apply") /\ UNCHANGED rules
           /\ \E s \in SUBSET (Head(queue).set \cap present) : dns' = Held(s)
  <2>1. Head(queue).set \subseteq Recorded(file.rec)
    BY <1>5, HeadOp DEF RunsOn
  <2>2. PICK s \in SUBSET Recorded(file.rec) : dns' = Held(s)
    BY <1>5, <2>1
  <2>3. Kept' /\ dns' \in [Adapters -> Resolvers]
    BY <1>1, <1>5, <2>2, HeldKept
  <2> QED  BY <1>1, <1>5, <2>3 DEF MachineOK
<1>6. CASE RestoreStops
  BY <1>1, <1>6, RestoreStopsKept
<1>7. Runs("engage", "rules") => file.strict
  BY HeadOp DEF RunsOn
<1>8. Runs("block", "rules") => file.udp
  BY HeadOp DEF RunsOn
<1>9. \/ dns' = dns /\ rules' \in {rules, "none"}
      \/ Runs("engage", "apply") /\ UNCHANGED rules
           /\ \E s \in SUBSET (Recorded(file.rec) \cap present) : dns' = Held(s)
      \/ (file.strict \/ file.udp) /\ rules' \in Levels /\ UNCHANGED dns
      \/ Runs("refresh", "apply") /\ UNCHANGED rules
           /\ \E s \in SUBSET (Head(queue).set \cap present) : dns' = Held(s)
      \/ RestoreStops
  BY <1>7, <1>8 DEF CutOff, Levels
<1> QED  BY <1>2, <1>3, <1>4, <1>5, <1>6, <1>9

LEMMA EndKeeps ==
  ASSUME IInv, Crash \/ Exit
  PROVE  IInv'
<1>1. Typed /\ Kept /\ MachineOK
  BY Parts DEF Typed
<1>2. Forgets /\ Happens("crash") /\ UNCHANGED <<present, plans>>
  BY DEF Crash, Exit
<1>3. CallersOK' /\ GuardOK' /\ running' = FALSE /\ queue' \in FreshQueues
  BY <1>1, <1>2, ForgetsType
<1>4. Kept' /\ MachineOK' /\ told' \in BOOLEAN
  <2>1. CASE Crash
    <3>1. Kept' /\ dns' \in [Adapters -> Resolvers] /\ rules' \in Levels
      BY <2>1, CutOffKeeps DEF Crash
    <3> QED  BY <1>1, <2>1, <3>1 DEF Crash, Typed, MachineOK, RestOK
  <2>2. CASE Exit
    BY <1>1, <2>2, GivesBackKept DEF Exit
  <2> QED  BY <2>1, <2>2
<1>5. RestOK'
  BY <1>1, <1>2, <1>3, <1>4, HappensType DEF Typed, RestOK, Events
<1> QED  BY <1>3, <1>4, <1>5, FreshShape, PartsNext DEF Typed

LEMMA LaunchKeeps ==
  ASSUME IInv, Launch
  PROVE  IInv'
<1>1. Typed /\ Kept
  BY Parts
<1>2. /\ running' = TRUE
      /\ UNCHANGED <<machine, file, guard, callers, watch, told, plans, left, strays>>
  BY DEF Launch
<1>3. queue' \in FreshQueues
  <2>1. Op("release", "nobody", NoConnect) \in Ops /\ Op("release", "nobody", NoConnect).at = "first"
    BY OpType, KindsAndCallers
  <2>2. PICK op \in Ops : op = Op("release", "nobody", NoConnect)
    BY <2>1
  <2>3. queue' = <<op>> \/ queue' = <<>>
    BY <2>2 DEF Launch
  <2>4. op.at = "first"
    BY <2>1, <2>2
  <2>5. <<op>> \in Seq(Ops) /\ Len(<<op>>) = 1 /\ <<op>>[1] = op
    OBVIOUS
  <2>6. \A i \in 1..1 : i = 1
    OBVIOUS
  <2>7. <<op>> \in FreshQueues
    BY <2>4, <2>5, <2>6 DEF FreshQueues
  <2>8. <<>> \in FreshQueues
    BY DEF FreshQueues
  <2> QED  BY <2>3, <2>7, <2>8
<1>4. CallersOK' /\ GuardOK' /\ MachineOK' /\ RestOK' /\ Kept'
  BY <1>1, <1>2
     DEF Typed, CallersOK, GuardOK, MachineOK, RestOK, Kept, RecordsOwn, OriginalsKept, RulesRecorded,
         machine, guard, callers, conn
<1> QED  BY <1>3, <1>4, FreshShape, PartsNext DEF Typed

\* What others do to the machine disturbs nothing: an adapter that drifts is back
\* on the user's own, one that comes or goes keeps its resolvers.
LEMMA EnvironmentKeeps ==
  ASSUME IInv, Environment
  PROVE  IInv'
<1>1. Typed /\ HeadShape /\ Kept
  BY Parts
<1>2. PICK a \in Adapters : Drifts(a) \/ Plugs(a)
  BY DEF Environment
<1>3. UNCHANGED <<rules, file, running, queue, guard, callers, watch, told, plans, strays>>
  BY <1>2 DEF Drifts, Plugs
<1>4. left' \in [Events -> Nat]
  BY <1>1, <1>2, HappensType DEF Drifts, Plugs, Events, Typed
<1>5. /\ dns' \in [Adapters -> Resolvers] /\ present' \subseteq Adapters
      /\ \A b \in Adapters : dns'[b] = dns[b] \/ dns'[b] = "own"
  BY <1>1, <1>2 DEF Drifts, Plugs, Typed, MachineOK, Resolvers
<1>6. Typed'
  BY <1>1, <1>3, <1>4, <1>5
     DEF Typed, CallersOK, GuardOK, MachineOK, RestOK, guard, callers, conn
<1>7. HeadShape'
  BY <1>1, <1>3 DEF HeadShape, RunsOn
<1>8. Kept'
  BY <1>1, <1>3, <1>5 DEF Kept, RecordsOwn, OriginalsKept, RulesRecorded
<1> QED  BY <1>6, <1>7, <1>8, PartsNext

LEMMA StutterKeeps ==
  ASSUME IInv, UNCHANGED vars
  PROVE  IInv'
<1>1. Typed /\ HeadShape /\ Kept
  BY Parts
<1>2. Typed' /\ HeadShape' /\ Kept'
  BY <1>1 DEF vars, machine, guard, callers, conn, Typed, CallersOK, GuardOK, MachineOK, RestOK,
              HeadShape, RunsOn, Kept, RecordsOwn, OriginalsKept, RulesRecorded
<1> QED  BY <1>2, PartsNext

-----------------------------------------------------------------------------
(* The theorems.                                                           *)

LEMMA InitIInv == Init => IInv
<1> SUFFICES ASSUME Init
             PROVE  IInv
  OBVIOUS
<1>1. 0 \in 0..MaxConnects /\ 0 \in 0..FullEvery - 1
  BY NoTicks
<1>2. PICK s \in Scenarios : plans = s.plans /\ left = s.budget
  BY DEF Init
<1>3. plans \subseteq Plans /\ left \in [Events -> Nat]
  BY <1>2, LeakGuardAssumption
<1>4. NoCall \in Calls
  BY <1>1 DEF NoCall, NoConnect, NoToken, Calls, Places, Plans
<1>5. CallersOK
  BY <1>1, <1>4 DEF Init, CallersOK, NoConnect, NoWatch, NoToken, Ids, Watches
<1>6. GuardOK /\ RestOK
  BY <1>3 DEF Init, GuardOK, RestOK, NoToken
<1>7. file \in Files
  BY DEF Init, NoFile, Nothing, Files, Originals
<1>8. MachineOK
  BY <1>7 DEF Init, MachineOK, Resolvers, Levels
<1>9. queue \in Queues /\ HeadShape
  BY DEF Init, Queues, HeadShape
<1>10. Kept
  BY DEF Init, Kept, RecordsOwn, OriginalsKept, RulesRecorded, NoFile, Nothing
<1> QED  BY <1>5, <1>6, <1>8, <1>9, <1>10, Parts DEF Typed

LEMMA NextIInv == IInv /\ [Next]_vars => IInv'
<1> SUFFICES ASSUME IInv, [Next]_vars
             PROVE  IInv'
  OBVIOUS
<1>1. CASE Work
  BY <1>1, SnapshotKeeps, LiftKeeps, LiftFailsKeeps, EngagesNothingKeeps, SetAdaptersKeeps, ApplyFailsKeeps, BlockKeeps, RecordBlockKeeps,
     HoldKeeps, RefreshSkipsKeeps, RefreshLooksKeeps, RefreshSetsKeeps, ReleaseKeeps
     DEF Work, Engage, Refresh
<1>2. CASE MainCalls
  BY <1>2, ConnectKeeps, ReapplyKeeps, DisconnectKeeps, ButtonKeeps, OpensKeeps, FailsKeeps, SelectsKeeps,
     ResolvesKeeps, TunnelStartsKeeps, TunnelFailsKeeps DEF MainCalls
<1>3. CASE Tick
  BY <1>3, TickKeeps
<1>4. CASE Crash \/ Exit
  BY <1>4, EndKeeps
<1>5. CASE Launch
  BY <1>5, LaunchKeeps
<1>6. CASE Environment
  BY <1>6, EnvironmentKeeps
<1>7. CASE Rest \/ UNCHANGED vars
  BY <1>7, StutterKeeps DEF Rest
<1> QED  BY <1>1, <1>2, <1>3, <1>4, <1>5, <1>6, <1>7 DEF Next

LEMMA Invariant == Spec => []IInv
  BY InitIInv, NextIInv, PTL DEF Spec

\* Every variable keeps its type, however connects, scripts and crashes interleave.
THEOREM TypeCorrect == Spec => []TypeOK
<1>1. IInv => TypeOK
  BY DEF IInv
<1> QED  BY Invariant, <1>1, PTL

\* leakGuard.js's first promise: an adapter is on the user's own resolvers, or on
\* the hold with the user's own on disk - unless it was away at a release.
THEOREM OriginalsAlwaysKept == Spec => []OriginalsKept
<1>1. IInv => OriginalsKept
  BY DEF IInv
<1> QED  BY Invariant, <1>1, PTL

\* Firewall rules never outlive the record a release or the next launch removes
\* them by.
THEOREM RulesAlwaysRecorded == Spec => []RulesRecorded
<1>1. IInv => RulesRecorded
  BY DEF IInv
<1> QED  BY Invariant, <1>1, PTL

-----------------------------------------------------------------------------
(* Who has the guard.                                                      *)

\* An operation that engages: it writes the state and hands out a receipt.
Brings(op) == op.kind \in {"engage", "block"}

Working(op) == Brings(op) /\ op.at \in {"apply", "rules"}

\* A connect waits for an operation of its own, of one kind in each place.
Awaits(pc, op) ==
  \/ pc = "engaging" /\ Brings(op)
  \/ pc = "holding" /\ op.kind = "hold"
  \/ pc \in {"clearing", "stranded", "undoing"} /\ op.kind = "release"
Waiting == {"engaging", "holding", "clearing", "stranded", "undoing"}

Of(op, c) == op.who = "connect" /\ op.id = c
FreeOf(q, c) == \A i \in 1..Len(q) : ~Of(q[i], c)

\* A connect has at most one operation in the queue, the one it waits for, and only
\* connects engage.
OneEach(q, cs) ==
  \A i \in 1..Len(q) :
    /\ Brings(q[i]) => q[i].who = "connect"
    /\ q[i].who = "connect" =>
         /\ q[i].id \in Connects /\ Awaits(cs[q[i].id].pc, q[i])
         /\ \A j \in 1..Len(q) : j # i => ~Of(q[j], q[i].id)

\* Receipts are handed out in the order of the queue: what is still to engage has a
\* later one than every connect and every release.
Receipts(q, cs, n) ==
  /\ \A c \in Connects : cs[c].tok <= n
  /\ \A i \in 1..Len(q) : q[i].kind = "release" => q[i].tok <= n
  /\ \A i \in 1..Len(q) : Brings(q[i]) =>
       /\ 1 <= q[i].tok /\ q[i].tok <= n
       /\ \A c \in Connects : cs[c].tok < q[i].tok
       /\ \A j \in 1..Len(q) :
            q[j].kind = "release" \/ (j < i /\ Brings(q[j])) => q[j].tok < q[i].tok

\* No release without a receipt waits behind the engage of the newest intent.
Spared(q, l) ==
  \A i, j \in 1..Len(q) :
    Brings(q[i]) /\ q[i].id = l /\ i < j /\ q[j].kind = "release" => q[j].tok # NoToken

Line(q, cs, n, l) == OneEach(q, cs) /\ Receipts(q, cs, n) /\ Spared(q, l)

-----------------------------------------------------------------------------
(* How the queue moves, for any queue.                                     *)

LEMMA OpParts ==
  ASSUME NEW op \in Ops
  PROVE  /\ op.kind \in Kinds /\ op.who \in Callers /\ op.id \in Nat /\ op.tok \in Nat
         /\ op.at \in {"first", "lift", "apply", "rules"}
  BY DEF Ops

LEMMA QueueParts ==
  ASSUME NEW q \in Queues
  PROVE  /\ Len(q) \in Nat /\ \A i \in 1..Len(q) : q[i] \in Ops /\ q[i].tok \in Nat
         /\ q # <<>> => 1 \in 1..Len(q) /\ Head(q) = q[1]
<1>1. Len(q) \in Nat /\ \A i \in 1..Len(q) : q[i] \in Ops
  BY DEF Queues
<1>2. q # <<>> => 1 \in 1..Len(q) /\ Head(q) = q[1]
  BY DEF Queues
<1> QED  BY <1>1, <1>2, OpParts

\* Behind the first operation.
LEMMA TailParts ==
  ASSUME NEW q \in Queues, q # <<>>
  PROVE  /\ Len(Tail(q)) \in Nat /\ Len(Tail(q)) = Len(q) - 1
         /\ \A i \in 1..Len(Tail(q)) : i + 1 \in 2..Len(q) /\ Tail(q)[i] = q[i + 1]
         /\ \A i \in 2..Len(q) : i - 1 \in 1..Len(Tail(q)) /\ Tail(q)[i - 1] = q[i]
<1>1. Tail(q) \in Seq(Ops) /\ Len(Tail(q)) = Len(q) - 1 /\ Len(q) \in Nat \ {0}
  BY DEF Queues
<1>2. \A i \in 1..Len(Tail(q)) : Tail(q)[i] = q[i + 1]
  BY DEF Queues
<1>3. \A i \in 2..Len(q) : i - 1 \in 1..Len(Tail(q)) /\ (i - 1) + 1 = i
  BY <1>1
<1>4. \A i \in 1..Len(Tail(q)) : i + 1 \in 2..Len(q)
  BY <1>1
<1>5. \A i \in 2..Len(q) : i - 1 \in 1..Len(Tail(q)) /\ Tail(q)[i - 1] = q[i]
  BY <1>2, <1>3
<1> QED  BY <1>1, <1>2, <1>4, <1>5

LEMMA AppendParts ==
  ASSUME NEW q \in Queues, NEW op \in Ops
  PROVE  /\ Len(Append(q, op)) = Len(q) + 1 /\ Len(q) \in Nat
         /\ \A i \in 1..Len(Append(q, op)) : Append(q, op)[i] = IF i = Len(q) + 1 THEN op ELSE q[i]
  BY DEF Queues

\* The first leaves: what is left is in order, and nothing of its caller is left.
LEMMA LineTail ==
  ASSUME NEW q \in Queues, q # <<>>, NEW cs, NEW n \in Nat, NEW l, Line(q, cs, n, l)
  PROVE  /\ Line(Tail(q), cs, n, l)
         /\ Head(q).who = "connect" => FreeOf(Tail(q), Head(q).id)
<1> DEFINE t == Tail(q)
<1>1. /\ Len(t) \in Nat /\ Len(t) = Len(q) - 1 /\ Len(q) \in Nat
      /\ \A i \in 1..Len(t) : i + 1 \in 2..Len(q) /\ t[i] = q[i + 1]
      /\ Head(q) = q[1] /\ 1 \in 1..Len(q)
  BY TailParts, QueueParts
<1> HIDE DEF t
<1>2. \A i \in 1..Len(t) : i + 1 \in 1..Len(q) /\ i + 1 # 1
  BY <1>1
<1>3. OneEach(t, cs)
  <2>1. \A i, j \in 1..Len(t) : j # i => j + 1 # i + 1
    BY <1>1
  <2>2. \A i \in 1..Len(t) : i + 1 \in 1..Len(q) /\ t[i] = q[i + 1]
    BY <1>1, <1>2
  <2> QED  BY <2>1, <2>2 DEF Line, OneEach
<1>4. Receipts(t, cs, n)
  <2>1. \A i \in 1..Len(t) : t[i] = q[i + 1] /\ i + 1 \in 1..Len(q)
    BY <1>1, <1>2
  <2>2. \A i, j \in 1..Len(t) : j < i => j + 1 < i + 1
    BY <1>1
  <2>3. ASSUME NEW i \in 1..Len(t), Brings(t[i])
        PROVE  /\ 1 <= t[i].tok /\ t[i].tok <= n
               /\ \A c \in Connects : cs[c].tok < t[i].tok
               /\ \A j \in 1..Len(t) :
                    t[j].kind = "release" \/ (j < i /\ Brings(t[j])) => t[j].tok < t[i].tok
    <3> DEFINE k == i + 1
    <3>1. k \in 1..Len(q) /\ t[i] = q[k]
      BY <2>1
    <3>2. \A j \in 1..Len(t) : j + 1 \in 1..Len(q) /\ t[j] = q[j + 1] /\ (j < i => j + 1 < k)
      BY <2>1, <2>2
    <3> HIDE DEF k
    <3> QED  BY <2>3, <3>1, <3>2 DEF Line, Receipts
  <2>4. \A i \in 1..Len(t) : t[i].kind = "release" => t[i].tok <= n
    BY <2>1 DEF Line, Receipts
  <2> QED  BY <2>3, <2>4 DEF Line, Receipts
<1>5. Spared(t, l)
  <2>1. \A i \in 1..Len(t) : t[i] = q[i + 1] /\ i + 1 \in 1..Len(q)
    BY <1>1, <1>2
  <2>2. \A i, j \in 1..Len(t) : i < j => i + 1 < j + 1
    BY <1>1
  <2>3. ASSUME NEW i \in 1..Len(t), NEW j \in 1..Len(t),
               Brings(t[i]), t[i].id = l, i < j, t[j].kind = "release"
        PROVE  t[j].tok # NoToken
    <3> DEFINE a == i + 1
               b == j + 1
    <3>1. a \in 1..Len(q) /\ b \in 1..Len(q) /\ t[i] = q[a] /\ t[j] = q[b] /\ a < b
      BY <2>1, <2>2, <2>3
    <3> HIDE DEF a, b
    <3> QED  BY <2>3, <3>1 DEF Line, Spared
  <2> QED  BY <2>3 DEF Spared
<1>6. Head(q).who = "connect" => FreeOf(t, Head(q).id)
  <2> SUFFICES ASSUME q[1].who = "connect", NEW i \in 1..Len(t) PROVE ~Of(t[i], q[1].id)
    BY <1>1 DEF FreeOf
  <2> DEFINE k == i + 1
  <2>1. k \in 1..Len(q) /\ k # 1 /\ t[i] = q[k]
    BY <1>1, <1>2
  <2> HIDE DEF k
  <2> QED  BY <1>1, <2>1 DEF Line, OneEach
<1> QED  BY <1>3, <1>4, <1>5, <1>6 DEF Line, t

\* The first goes on with what it is.
Alike(a, b) == a.kind = b.kind /\ a.who = b.who /\ a.id = b.id /\ a.tok = b.tok

LEMMA LineStep ==
  ASSUME NEW q \in Queues, q # <<>>, NEW op \in Ops, Alike(op, Head(q)),
         NEW cs, NEW n \in Nat, NEW l, Line(q, cs, n, l)
  PROVE  Line([q EXCEPT ![1] = op], cs, n, l)
<1> DEFINE r == [q EXCEPT ![1] = op]
<1>1. /\ Len(r) = Len(q) /\ Len(q) \in Nat /\ 1 \in 1..Len(q)
      /\ r[1] = op /\ \A i \in 2..Len(q) : r[i] = q[i]
  BY DEF Queues
<1>2. Head(q) = q[1]
  BY QueueParts
<1> HIDE DEF r
<1>3. \A i \in 1..Len(q) : Alike(r[i], q[i])
  BY <1>1, <1>2 DEF Alike
<1>4. OneEach(r, cs)
  BY <1>1, <1>3 DEF Line, OneEach, Alike, Of, Brings, Awaits
<1>5. Receipts(r, cs, n)
  BY <1>1, <1>3 DEF Line, Receipts, Alike, Brings
<1>6. Spared(r, l)
  BY <1>1, <1>3 DEF Line, Spared, Alike, Brings
<1> QED  BY <1>4, <1>5, <1>6 DEF Line, r

\* A connect that waits for nothing has nothing in the queue.
LEMMA Free ==
  ASSUME NEW q, NEW cs, OneEach(q, cs), NEW c, cs[c].pc \notin Waiting
  PROVE  FreeOf(q, c)
  BY DEF OneEach, FreeOf, Of, Awaits, Waiting

\* Connects that have nothing in the queue move as they like; receipts are only
\* given up, or are older than what is still to engage.
LEMMA LineCalls ==
  ASSUME NEW q \in Queues, NEW cs, NEW cs2, NEW n \in Nat, NEW l, Line(q, cs, n, l),
         \A c \in Connects : cs2[c].pc = cs[c].pc \/ FreeOf(q, c),
         \A c \in Connects : cs2[c].tok = cs[c].tok
             \/ (cs2[c].tok <= n /\ \A i \in 1..Len(q) : Brings(q[i]) => cs2[c].tok < q[i].tok)
  PROVE  Line(q, cs2, n, l)
<1>1. OneEach(q, cs2)
  BY DEF Line, OneEach, FreeOf, Of
<1>2. Receipts(q, cs2, n)
  BY DEF Line, Receipts
<1> QED  BY <1>1, <1>2 DEF Line

\* Another connect, or none, is the newest intent: it has nothing in the queue yet.
LEMMA LineLatest ==
  ASSUME NEW q, NEW cs, NEW n, NEW l, NEW l2, Line(q, cs, n, l), l2 = l \/ l2 = NoConnect \/ FreeOf(q, l2)
  PROVE  Line(q, cs, n, l2)
<1>1. NoConnect \notin Connects
  BY DEF NoConnect, Connects
<1>2. Spared(q, l2)
  BY <1>1 DEF Line, OneEach, Spared, FreeOf, Of
<1> QED  BY <1>2 DEF Line

\* Someone asks for an operation that engages nothing.
LEMMA LineAsks ==
  ASSUME NEW q \in Queues, NEW cs, NEW n \in Nat, NEW l, Line(q, cs, n, l),
         NEW op \in Ops, ~Brings(op),
         op.who = "connect" => op.id \in Connects /\ FreeOf(q, op.id) /\ Awaits(cs[op.id].pc, op),
         op.kind = "release" =>
           /\ op.tok <= n /\ \A i \in 1..Len(q) : Brings(q[i]) => op.tok < q[i].tok
           /\ op.tok = NoToken => \A i \in 1..Len(q) : Brings(q[i]) => q[i].id # l
  PROVE  Line(Append(q, op), cs, n, l)
<1> DEFINE r == Append(q, op)
<1>1. /\ Len(r) = Len(q) + 1 /\ Len(q) \in Nat
      /\ \A i \in 1..Len(r) : r[i] = IF i = Len(q) + 1 THEN op ELSE q[i]
  BY AppendParts
<1> HIDE DEF r
<1>2. \A i \in 1..Len(r) : (i \in 1..Len(q) /\ r[i] = q[i]) \/ (i = Len(q) + 1 /\ r[i] = op)
  BY <1>1
<1>3. \A i \in 1..Len(r) : Brings(r[i]) => i \in 1..Len(q) /\ r[i] = q[i]
  BY <1>2
<1>4. OneEach(r, cs)
  <2> SUFFICES ASSUME NEW i \in 1..Len(r)
               PROVE  /\ Brings(r[i]) => r[i].who = "connect"
                      /\ r[i].who = "connect" =>
                           /\ r[i].id \in Connects /\ Awaits(cs[r[i].id].pc, r[i])
                           /\ \A j \in 1..Len(r) : j # i => ~Of(r[j], r[i].id)
    BY DEF OneEach
  <2>1. CASE i \in 1..Len(q) /\ r[i] = q[i]
    BY <1>2, <2>1 DEF Line, OneEach, FreeOf, Of
  <2>2. CASE i = Len(q) + 1 /\ r[i] = op
    BY <1>2, <2>2 DEF FreeOf
  <2> QED  BY <1>2, <2>1, <2>2
<1>5. Receipts(r, cs, n)
  BY <1>1, <1>2, <1>3 DEF Line, Receipts
<1>6. Spared(r, l)
  BY <1>1, <1>2, <1>3 DEF Line, Spared
<1> QED  BY <1>4, <1>5, <1>6 DEF Line, r

\* A connect asks for an engage with the next receipt.
LEMMA LineBrings ==
  ASSUME NEW q \in Queues, NEW cs, NEW n \in Nat, NEW l, Line(q, cs, n, l),
         \A c \in Connects : cs[c].tok \in Nat,
         NEW op \in Ops, Brings(op), op.who = "connect", op.id \in Connects,
         FreeOf(q, op.id), Awaits(cs[op.id].pc, op), op.tok = n + 1
  PROVE  Line(Append(q, op), cs, n + 1, l)
<1> DEFINE r == Append(q, op)
<1>1. /\ Len(r) = Len(q) + 1 /\ Len(q) \in Nat
      /\ \A i \in 1..Len(r) : r[i] = IF i = Len(q) + 1 THEN op ELSE q[i]
      /\ \A i \in 1..Len(q) : q[i].tok \in Nat
  BY AppendParts, QueueParts
<1> HIDE DEF r
<1>2. \A i \in 1..Len(r) : (i \in 1..Len(q) /\ r[i] = q[i]) \/ (i = Len(q) + 1 /\ r[i] = op)
  BY <1>1
<1>3. op.kind # "release" /\ op.tok \in Nat
  BY DEF Brings
<1>4. OneEach(r, cs)
  <2> SUFFICES ASSUME NEW i \in 1..Len(r)
               PROVE  /\ Brings(r[i]) => r[i].who = "connect"
                      /\ r[i].who = "connect" =>
                           /\ r[i].id \in Connects /\ Awaits(cs[r[i].id].pc, r[i])
                           /\ \A j \in 1..Len(r) : j # i => ~Of(r[j], r[i].id)
    BY DEF OneEach
  <2>1. CASE i \in 1..Len(q) /\ r[i] = q[i]
    BY <1>2, <2>1 DEF Line, OneEach, FreeOf, Of
  <2>2. CASE i = Len(q) + 1 /\ r[i] = op
    BY <1>2, <2>2 DEF FreeOf
  <2> QED  BY <1>2, <2>1, <2>2
<1>5. Receipts(r, cs, n + 1)
  <2>1. \A c \in Connects : cs[c].tok <= n + 1 /\ cs[c].tok < n + 1
    BY DEF Line, Receipts
  <2>2. \A i \in 1..Len(r) : r[i].kind = "release" => r[i].tok <= n + 1 /\ r[i].tok < n + 1
    BY <1>1, <1>2, <1>3 DEF Line, Receipts
  <2>3. ASSUME NEW i \in 1..Len(r), Brings(r[i])
        PROVE  /\ 1 <= r[i].tok /\ r[i].tok <= n + 1
               /\ \A c \in Connects : cs[c].tok < r[i].tok
               /\ \A j \in 1..Len(r) :
                    r[j].kind = "release" \/ (j < i /\ Brings(r[j])) => r[j].tok < r[i].tok
    <3>1. CASE i \in 1..Len(q) /\ r[i] = q[i]
      <4>1. /\ 1 <= q[i].tok /\ q[i].tok <= n
            /\ \A c \in Connects : cs[c].tok < q[i].tok
            /\ \A j \in 1..Len(q) :
                 q[j].kind = "release" \/ (j < i /\ Brings(q[j])) => q[j].tok < q[i].tok
        BY <2>3, <3>1 DEF Line, Receipts
      <4>2. \A j \in 1..Len(r) :
              r[j].kind = "release" \/ (j < i /\ Brings(r[j])) => j \in 1..Len(q) /\ r[j] = q[j]
        <5>1. \A j \in 1..Len(r) : j < i => j # Len(q) + 1
          BY <1>1, <3>1
        <5> QED  BY <1>2, <1>3, <5>1
      <4>3. \A j \in 1..Len(r) :
              r[j].kind = "release" \/ (j < i /\ Brings(r[j])) => r[j].tok < q[i].tok
        BY <4>1, <4>2
      <4>4. q[i].tok <= n + 1
        BY <1>1, <3>1, <4>1
      <4> QED  BY <3>1, <4>1, <4>3, <4>4
    <3>2. CASE i = Len(q) + 1 /\ r[i] = op
      <4>1. \A j \in 1..Len(r) : j < i => j \in 1..Len(q) /\ r[j] = q[j]
        BY <1>1, <1>2, <3>2
      <4>2. \A j \in 1..Len(r) : j < i /\ Brings(r[j]) => r[j].tok < n + 1
        BY <1>1, <4>1 DEF Line, Receipts
      <4> QED  BY <2>1, <2>2, <3>2, <4>2
    <3> QED  BY <1>2, <3>1, <3>2
  <2> QED  BY <2>1, <2>2, <2>3 DEF Receipts
<1>6. Spared(r, l)
  <2> SUFFICES ASSUME NEW i \in 1..Len(r), NEW j \in 1..Len(r),
                      Brings(r[i]), r[i].id = l, i < j, r[j].kind = "release"
               PROVE  r[j].tok # NoToken
    BY DEF Spared
  <2>1. j \in 1..Len(q) /\ r[j] = q[j]
    BY <1>2, <1>3
  <2>2. i \in 1..Len(q) /\ r[i] = q[i]
    BY <1>1, <1>2, <2>1
  <2> QED  BY <2>1, <2>2 DEF Line, Spared
<1> QED  BY <1>4, <1>5, <1>6 DEF Line, r

-----------------------------------------------------------------------------
(* The invariant of GuardStands.                                           *)

\* The places of a connect that has chosen the instance of its tunnel.
Chosen == {"selected", "holding", "starting", "resolving", "engaging", "stranded", "stands"}

\* The intent that counts is the newest connect's, or nobody's; the current tunnel
\* is the one it chose.
Newest ==
  /\ latest \in {NoConnect, begun}
  /\ \A c \in Connects : c > begun => calls[c] = NoCall
  /\ \A c \in Connects : latest = c /\ calls[c].pc \in Chosen => tun = calls[c].tn

Idle == ~running => queue = <<>> /\ latest = NoConnect

InLine == Line(queue, calls, issued, latest)

\* The engage that is at work has made its receipt the live one.
Under == queue # <<>> /\ Working(Head(queue)) => token = Head(queue).tok /\ file.there

\* Whoever stands and engaged last has the live receipt, and nothing that waits
\* would take the guard from it.
Standing ==
  \A c \in Connects : Stands(c) /\ Last(c) =>
    /\ file.there /\ token = calls[c].tok
    /\ \A i \in 1..Len(queue) : queue[i].kind = "release" => queue[i].tok \notin {NoToken, token}

WhoseInv == Newest /\ Idle /\ InLine /\ Under /\ Standing

-----------------------------------------------------------------------------
(* What the end of an operation does to its caller and the queue.          *)

Outcome(tok) ==
  /\ Newest' /\ InLine'
  /\ latest' = NoConnect => latest = NoConnect
  /\ \A c \in Connects : Stands(c)' /\ Last(c)' =>
       \/ Stands(c) /\ Last(c) /\ calls'[c].tok = calls[c].tok
       \/ tok # NoToken /\ latest = c /\ Head(queue).id = c /\ calls'[c].tok = tok /\ queue' = Tail(queue)
  /\ \A c \in Connects :
       calls'[c].tok = calls[c].tok \/ calls'[c].tok = NoToken \/ (tok # NoToken /\ calls'[c].tok = tok)
  /\ \A i \in 2..Len(queue) : \E j \in 1..Len(queue') : queue'[j] = queue[i]
  /\ \A j \in 1..Len(queue') :
       (\E i \in 2..Len(queue) : queue'[j] = queue[i]) \/ (tok # NoToken /\ queue'[j].tok = tok)
  /\ latest = NoConnect /\ tok # NoToken =>
       \E j \in 1..Len(queue') : queue'[j].kind = "release" /\ queue'[j].tok = tok

\* The receipt an operation may answer with.
Answers(tok) == tok = NoToken \/ (Working(Head(queue)) /\ tok = Head(queue).tok)

LEMMA Connecting ==
  ASSUME NEW c \in Connects
  PROVE  c \in Nat /\ c # NoConnect
<1>1. MaxConnects \in Nat
  BY LeakGuardAssumption
<1> QED  BY <1>1 DEF Connects, NoConnect

\* The rest of the queue as it was.
LEMMA TailOutcome ==
  ASSUME queue \in Queues, queue # <<>>, queue' = Tail(queue)
  PROVE  /\ \A i \in 2..Len(queue) : \E j \in 1..Len(queue') : queue'[j] = queue[i]
         /\ \A j \in 1..Len(queue') : \E i \in 2..Len(queue) : queue'[j] = queue[i]
<1>1. /\ \A i \in 1..Len(Tail(queue)) : i + 1 \in 2..Len(queue) /\ Tail(queue)[i] = queue[i + 1]
      /\ \A i \in 2..Len(queue) : i - 1 \in 1..Len(Tail(queue)) /\ Tail(queue)[i - 1] = queue[i]
  BY TailParts
<1> QED  BY <1>1

\* Nobody's connect moved.
LEMMA OthersOutcome ==
  ASSUME IInv, WhoseInv, queue # <<>>, queue' = Tail(queue), up' \subseteq up,
         UNCHANGED <<calls, begun, latest, tun, running, issued>>
  PROVE  Outcome(NoToken)
<1>1. queue \in Queues /\ issued \in Nat
  BY Parts DEF Typed, GuardOK
<1>2. Line(Tail(queue), calls, issued, latest)
  BY <1>1, LineTail DEF WhoseInv, InLine
<1>3. Newest' /\ InLine'
  BY <1>2 DEF WhoseInv, Newest, InLine
<1>4. \A c \in Connects : Stands(c)' /\ Last(c)' => Stands(c) /\ Last(c)
  BY DEF Stands, Last
<1> QED  BY <1>1, <1>3, <1>4, TailOutcome DEF Outcome

\* A new connect begins.
LEMMA BeginsNext ==
  ASSUME IInv, WhoseInv, NEW p \in Plans, NEW k \in BOOLEAN, Begins(begun + 1, p, k), tun' = tun
  PROVE  /\ Newest' /\ latest' # NoConnect /\ calls'[latest'].pc = "open" /\ latest' \in Connects
         /\ \A q : OneEach(q, calls) => FreeOf(q, latest')
         /\ \A c \in Connects : c # latest' => calls'[c] = calls[c]
         /\ calls'[latest'].tok = NoToken /\ calls[latest'].tok = NoToken
<1>1. calls \in [Connects -> Calls] /\ begun \in Nat
  BY Parts DEF Typed, CallersOK, Ids
<1>2. PICK c : c = begun + 1
  OBVIOUS
<1>3. /\ c \in Connects /\ begun' = c /\ latest' = c
      /\ calls' = [calls EXCEPT ![c] = [NoCall EXCEPT !.pc = "open", !.plan = p, !.keep = k]]
  BY <1>2 DEF Begins
<1>4. c # NoConnect /\ calls[c] = NoCall
  BY <1>1, <1>2, <1>3, Connecting DEF WhoseInv, Newest
<1>5. calls'[c].pc = "open" /\ calls'[c].tok = NoToken /\ \A d \in Connects : d # c => calls'[d] = calls[d]
  BY <1>1, <1>3 DEF NoCall
<1>6. \A d \in Connects : d > c => calls'[d] = NoCall
  <2> SUFFICES ASSUME NEW d \in Connects, d > c
               PROVE  calls'[d] = NoCall
    OBVIOUS
  <2>1. d \in Nat
    BY Connecting
  <2>2. d > begun /\ d # c
    BY <1>1, <1>2, <2>1
  <2> QED  BY <1>5, <2>2 DEF WhoseInv, Newest
<1>7. Newest'
  BY <1>3, <1>5, <1>6 DEF Newest, Chosen
<1>8. calls[c].pc \notin Waiting /\ calls[c].tok = NoToken
  BY <1>4 DEF NoCall, Waiting
<1>9. \A q : OneEach(q, calls) => FreeOf(q, c)
  BY <1>8, Free
<1> QED  BY <1>3, <1>4, <1>5, <1>7, <1>8, <1>9

LEMMA BeginsOutcome ==
  ASSUME IInv, WhoseInv, queue # <<>>, queue' = Tail(queue), NEW p \in Plans, NEW k \in BOOLEAN,
         Begins(begun + 1, p, k), UNCHANGED <<tun, running, issued>>
  PROVE  Outcome(NoToken)
<1>1. queue \in Queues /\ issued \in Nat /\ Tail(queue) \in Queues
  BY Parts, Popped, FreshHead DEF Typed, GuardOK
<1>2. /\ Newest' /\ latest' # NoConnect /\ calls'[latest'].pc = "open" /\ latest' \in Connects
      /\ \A q : OneEach(q, calls) => FreeOf(q, latest')
      /\ \A c \in Connects : c # latest' => calls'[c] = calls[c]
      /\ calls'[latest'].tok = NoToken /\ calls[latest'].tok = NoToken
  BY BeginsNext
<1>3. Line(Tail(queue), calls, issued, latest)
  BY <1>1, LineTail DEF WhoseInv, InLine
<1>4. FreeOf(Tail(queue), latest')
  BY <1>2, <1>3 DEF Line
<1>5. Line(Tail(queue), calls', issued, latest)
  <2>1. \A c \in Connects : calls'[c].pc = calls[c].pc \/ FreeOf(Tail(queue), c)
    BY <1>2, <1>4
  <2>2. \A c \in Connects : calls'[c].tok = calls[c].tok
    BY <1>2
  <2> QED  BY <1>1, <1>3, <2>1, <2>2, LineCalls
<1>6. InLine'
  BY <1>4, <1>5, LineLatest DEF InLine
<1>7. \A c \in Connects : ~Stands(c)'
  BY <1>2 DEF Stands
<1>8. \A c \in Connects : calls'[c].tok = calls[c].tok
  BY <1>2
<1> QED  BY <1>1, <1>2, <1>6, <1>7, <1>8, TailOutcome DEF Outcome

\* The connect whose operation ended has begun, and has nothing else in the queue.
LEMMA Caller ==
  ASSUME IInv, WhoseInv, queue # <<>>, Head(queue).who = "connect", NEW c, c = Head(queue).id
  PROVE  /\ c \in Connects /\ Awaits(calls[c].pc, Head(queue)) /\ FreeOf(Tail(queue), c)
         /\ ~(c > begun) /\ calls[c].pc \in Waiting /\ calls[c] \in Calls
         /\ queue \in Queues /\ issued \in Nat /\ Tail(queue) \in Queues
         /\ Line(Tail(queue), calls, issued, latest)
<1>1. queue \in Queues /\ issued \in Nat /\ Tail(queue) \in Queues /\ calls \in [Connects -> Calls]
  BY Parts, Popped, FreshHead DEF Typed, GuardOK, CallersOK
<1>2. 1 \in 1..Len(queue) /\ Head(queue) = queue[1]
  BY <1>1, QueueParts
<1>3. c \in Connects /\ Awaits(calls[c].pc, Head(queue))
  BY <1>2 DEF WhoseInv, InLine, Line, OneEach
<1>4. calls[c].pc \in Waiting
  BY <1>3 DEF Awaits, Waiting
<1>5. ~(c > begun)
  BY <1>3, <1>4 DEF WhoseInv, Newest, NoCall, Waiting
<1>6. Line(Tail(queue), calls, issued, latest) /\ FreeOf(Tail(queue), c)
  BY <1>1, LineTail DEF WhoseInv, InLine
<1> QED  BY <1>1, <1>3, <1>4, <1>5, <1>6

\* Its receipt is older than what is still to engage, and handed out already.
LEMMA Answered ==
  ASSUME IInv, WhoseInv, queue # <<>>, NEW tok \in Nat, Answers(tok)
  PROVE  /\ tok <= issued /\ \A i \in 1..Len(Tail(queue)) : Brings(Tail(queue)[i]) => tok < Tail(queue)[i].tok
         /\ tok # NoToken => \A i \in 1..Len(Tail(queue)) :
              Tail(queue)[i].kind = "release" => Tail(queue)[i].tok < tok
         /\ tok # NoToken => \A c \in Connects : calls[c].tok < tok
<1>1. queue \in Queues /\ issued \in Nat
  BY Parts DEF Typed, GuardOK
<1>2. 1 \in 1..Len(queue) /\ Head(queue) = queue[1] /\ Len(queue) \in Nat
  BY <1>1, QueueParts
<1>3. \A i \in 1..Len(Tail(queue)) : i + 1 \in 2..Len(queue) /\ Tail(queue)[i] = queue[i + 1]
  BY <1>1, TailParts
<1>4. \A i \in 1..Len(Tail(queue)) : i + 1 \in 1..Len(queue) /\ 1 < i + 1
  BY <1>2, <1>3
<1>5. CASE tok = NoToken
  <2>1. \A i \in 1..Len(queue) : queue[i].tok \in Nat /\ (Brings(queue[i]) => 1 <= queue[i].tok)
    BY <1>1, QueueParts DEF WhoseInv, InLine, Line, Receipts
  <2>2. \A i \in 1..Len(queue) : Brings(queue[i]) => 0 < queue[i].tok
    BY <2>1
  <2> QED  BY <1>1, <1>3, <1>4, <1>5, <2>2 DEF NoToken
<1>6. CASE tok # NoToken
  <2>1. tok = queue[1].tok /\ Brings(queue[1])
    BY <1>2, <1>6 DEF Answers, Working
  <2> QED  BY <1>2, <1>3, <1>4, <2>1 DEF WhoseInv, InLine, Line, Receipts
<1> QED  BY <1>5, <1>6

\* The connect goes on, and asks for nothing.
LEMMA GoesOutcome ==
  ASSUME IInv, WhoseInv, queue # <<>>, Head(queue).who = "connect", NEW c, c = Head(queue).id,
         queue' = Tail(queue), up' \subseteq up, UNCHANGED <<begun, latest, tun, running, issued>>,
         NEW tok \in Nat, Answers(tok),
         NEW r, calls' = [calls EXCEPT ![c] = r], r.tn = calls[c].tn,
         r.tok = calls[c].tok \/ r.tok = tok,
         r.pc \in Chosen => calls[c].pc \in Chosen,
         r.pc = "stands" => r.tok = tok,
         latest = NoConnect => tok = NoToken
  PROVE  Outcome(tok)
<1>1. /\ c \in Connects /\ FreeOf(Tail(queue), c) /\ ~(c > begun)
      /\ queue \in Queues /\ issued \in Nat /\ Tail(queue) \in Queues
      /\ Line(Tail(queue), calls, issued, latest)
  BY Caller
<1>2. calls \in [Connects -> Calls]
  BY Parts DEF Typed, CallersOK
<1>3. calls'[c] = r /\ \A d \in Connects : d # c => calls'[d] = calls[d]
  BY <1>1, <1>2
<1>4. Line(Tail(queue), calls', issued, latest)
  <2>1. \A d \in Connects : calls'[d].pc = calls[d].pc \/ FreeOf(Tail(queue), d)
    BY <1>1, <1>3
  <2>2. \A d \in Connects : calls'[d].tok = calls[d].tok
          \/ (calls'[d].tok <= issued
              /\ \A i \in 1..Len(Tail(queue)) : Brings(Tail(queue)[i]) => calls'[d].tok < Tail(queue)[i].tok)
    BY <1>3, Answered
  <2> QED  BY <1>1, <2>1, <2>2, LineCalls
<1>5. InLine'
  BY <1>4 DEF InLine
<1>6. Newest'
  BY <1>1, <1>3 DEF WhoseInv, Newest
<1>7. ASSUME NEW d \in Connects, Stands(d)', Last(d)'
      PROVE  \/ Stands(d) /\ Last(d) /\ calls'[d].tok = calls[d].tok
             \/ tok # NoToken /\ latest = d /\ Head(queue).id = d /\ calls'[d].tok = tok /\ queue' = Tail(queue)
  <2>1. CASE d = c
    BY <1>3, <1>7, <2>1 DEF Stands
  <2>2. CASE d # c
    BY <1>3, <1>7, <2>2 DEF Stands, Last
  <2> QED  BY <2>1, <2>2
<1>8. \A d \in Connects :
        calls'[d].tok = calls[d].tok \/ calls'[d].tok = NoToken \/ (tok # NoToken /\ calls'[d].tok = tok)
  BY <1>3
<1> QED  BY <1>1, <1>5, <1>6, <1>7, <1>8, TailOutcome DEF Outcome

\* An overtaken connect gives back what its own receipt names.
LEMMA UndoOutcome ==
  ASSUME IInv, WhoseInv, queue # <<>>, Head(queue).who = "connect", NEW c, c = Head(queue).id,
         UNCHANGED <<begun, latest, tun, running, issued>>, up' \subseteq up,
         NEW tok \in Nat, Answers(tok), Undoes(c, tok),
         calls' = [calls EXCEPT ![c].tok = tok, ![c].pc = "undoing"],
         NEW op, op = [Op("release", "connect", c) EXCEPT !.tok = tok],
         queue' = Append(Tail(queue), op)
  PROVE  Outcome(tok)
<1>1. /\ c \in Connects /\ FreeOf(Tail(queue), c) /\ ~(c > begun) /\ calls[c] \in Calls
      /\ queue \in Queues /\ issued \in Nat /\ Tail(queue) \in Queues
      /\ Line(Tail(queue), calls, issued, latest)
  BY Caller
<1>2. calls \in [Connects -> Calls]
  BY Parts DEF Typed, CallersOK
<1>3. /\ calls'[c].pc = "undoing" /\ calls'[c].tok = tok
      /\ \A d \in Connects : d # c => calls'[d] = calls[d]
  BY <1>1, <1>2 DEF Calls
<1>4. op \in Ops /\ op.kind = "release" /\ op.who = "connect" /\ op.id = c /\ op.tok = tok
  <2>1. c \in Nat
    BY <1>1, Connecting
  <2>2. Op("release", "connect", c) \in Ops
    BY <2>1, OpType, KindsAndCallers
  <2> QED  BY <2>1, <2>2 DEF Ops, Op
<1>5. latest # c /\ tok # NoToken
  BY DEF Undoes, Stale
<1>6. Line(Tail(queue), calls', issued, latest)
  <2>1. \A d \in Connects : calls'[d].pc = calls[d].pc \/ FreeOf(Tail(queue), d)
    BY <1>1, <1>3
  <2>2. \A d \in Connects : calls'[d].tok = calls[d].tok
          \/ (calls'[d].tok <= issued
              /\ \A i \in 1..Len(Tail(queue)) : Brings(Tail(queue)[i]) => calls'[d].tok < Tail(queue)[i].tok)
    BY <1>3, Answered
  <2> QED  BY <1>1, <2>1, <2>2, LineCalls
<1>7. Line(queue', calls', issued, latest)
  <2>1. ~Brings(op) /\ Awaits(calls'[c].pc, op)
    BY <1>3, <1>4 DEF Brings, Awaits
  <2>2. op.tok <= issued /\ \A i \in 1..Len(Tail(queue)) : Brings(Tail(queue)[i]) => op.tok < Tail(queue)[i].tok
    BY <1>4, Answered
  <2> HIDE DEF WhoseInv
  <2> QED  BY <1>1, <1>4, <1>5, <1>6, <2>1, <2>2, LineAsks
<1>8. InLine'
  BY <1>7 DEF InLine
<1>9. Newest'
  BY <1>1, <1>3, <1>5 DEF WhoseInv, Newest
<1>10. ASSUME NEW d \in Connects, Stands(d)', Last(d)'
       PROVE  Stands(d) /\ Last(d) /\ calls'[d].tok = calls[d].tok
  <2>1. d # c
    BY <1>5, <1>10 DEF Stands
  <2> QED  BY <1>3, <1>10, <2>1 DEF Stands, Last
<1>11. \A d \in Connects :
        calls'[d].tok = calls[d].tok \/ calls'[d].tok = NoToken \/ (tok # NoToken /\ calls'[d].tok = tok)
  BY <1>3, <1>5
<1>12. /\ \A i \in 2..Len(queue) : i - 1 \in 1..Len(Tail(queue)) /\ Tail(queue)[i - 1] = queue[i]
       /\ \A i \in 1..Len(Tail(queue)) : i + 1 \in 2..Len(queue) /\ Tail(queue)[i] = queue[i + 1]
  BY <1>1, TailParts
<1>13. /\ Len(queue') = Len(Tail(queue)) + 1 /\ Len(Tail(queue)) \in Nat
       /\ \A i \in 1..Len(queue') : queue'[i] = IF i = Len(Tail(queue)) + 1 THEN op ELSE Tail(queue)[i]
  BY <1>1, <1>4, AppendParts
<1>14. \A i \in 2..Len(queue) : \E j \in 1..Len(queue') : queue'[j] = queue[i]
  <2>1. \A i \in 1..Len(Tail(queue)) : i \in 1..Len(queue') /\ queue'[i] = Tail(queue)[i]
    BY <1>13
  <2> QED  BY <1>12, <2>1
<1>15. \A j \in 1..Len(queue') :
         (\E i \in 2..Len(queue) : queue'[j] = queue[i]) \/ (tok # NoToken /\ queue'[j].tok = tok)
  <2>1. \A j \in 1..Len(queue') : queue'[j] = op \/ (j \in 1..Len(Tail(queue)) /\ queue'[j] = Tail(queue)[j])
    BY <1>13
  <2> QED  BY <1>4, <1>5, <1>12, <2>1
<1>16. \E j \in 1..Len(queue') : queue'[j].kind = "release" /\ queue'[j].tok = tok
  <2>1. Len(queue') \in 1..Len(queue') /\ queue'[Len(queue')] = op
    BY <1>13
  <2> QED  BY <1>4, <2>1
<1> QED  BY <1>8, <1>9, <1>10, <1>11, <1>14, <1>15, <1>16 DEF Outcome

LEMMA ConnectOutcome ==
  ASSUME IInv, WhoseInv, queue # <<>>, Head(queue).who = "connect", NEW tok \in Nat, Answers(tok),
         ConnectGoesOn(Head(queue).id, tok, Tail(queue)), UNCHANGED <<running, issued>>
  PROVE  Outcome(tok)
<1>1. PICK c : c = Head(queue).id
  OBVIOUS
<1>2. /\ c \in Connects /\ Awaits(calls[c].pc, Head(queue)) /\ calls[c] \in Calls
      /\ calls \in [Connects -> Calls]
  BY <1>1, Caller, Parts DEF Typed, CallersOK
<1>3. UNCHANGED <<begun, latest, tun>>
  BY DEF ConnectGoesOn
<1>4. c # NoConnect
  BY <1>2, Connecting
<1>5. calls[c].pc # "engaging" => tok = NoToken
  BY <1>2 DEF Awaits, Answers, Working, Brings
<1>6. CASE /\ calls[c].pc \in {"clearing", "holding", "undoing"} /\ queue' = Tail(queue) /\ up' \subseteq up
           /\ \E pc \in {"gone", "open", "starting"} :
                Goes(c, pc) /\ (pc = "starting" => calls[c].pc = "holding")
  <2>1. PICK pc \in {"gone", "open", "starting"} : Goes(c, pc) /\ (pc = "starting" => calls[c].pc = "holding")
    BY <1>6
  <2>2. PICK r : r = [calls[c] EXCEPT !.pc = pc]
    OBVIOUS
  <2>3. calls' = [calls EXCEPT ![c] = r]
    BY <2>1, <2>2 DEF Goes
  <2>4. r.tn = calls[c].tn /\ r.tok = calls[c].tok /\ r.pc = pc
    BY <1>2, <2>2 DEF Calls
  <2>5. r.pc \in Chosen => calls[c].pc \in Chosen
    BY <2>1, <2>4 DEF Chosen
  <2>6. tok = NoToken
    BY <1>5, <1>6
  <2> QED  BY <1>1, <1>3, <1>6, <2>1, <2>3, <2>4, <2>5, <2>6, GoesOutcome
<1>7. CASE calls[c].pc \in {"engaging", "stranded"} /\ Settle(c, tok, Tail(queue))
  <2>1. CASE Undoes(c, tok)
    <3>1. PICK op : op = [Op("release", "connect", c) EXCEPT !.tok = tok]
      OBVIOUS
    <3>2. /\ calls' = [calls EXCEPT ![c].tok = tok, ![c].pc = "undoing"]
          /\ queue' = Append(Tail(queue), op) /\ up' = up
      BY <1>7, <2>1, <3>1 DEF Settle
    <3> QED  BY <1>1, <1>3, <2>1, <3>1, <3>2, UndoOutcome
  <2>2. CASE ~Undoes(c, tok)
    <3>1. PICK pc \in {"gone", "stands"} : calls' = [calls EXCEPT ![c].tok = tok, ![c].pc = pc]
      BY <1>7, <2>2 DEF Settle
    <3>2. queue' = Tail(queue) /\ up' \subseteq up
      BY <1>7, <2>2 DEF Settle
    <3>3. PICK r : r = [calls[c] EXCEPT !.tok = tok, !.pc = pc]
      OBVIOUS
    <3>4. calls' = [calls EXCEPT ![c] = r]
      BY <1>2, <3>1, <3>3
    <3>5. r.tn = calls[c].tn /\ r.tok = tok /\ r.pc = pc
      BY <1>2, <3>3 DEF Calls
    <3>6. calls[c].pc \in Chosen
      BY <1>7 DEF Chosen
    <3>7. latest = NoConnect => tok = NoToken
      BY <1>4, <2>2 DEF Undoes, Stale
    <3> QED  BY <1>1, <1>3, <3>2, <3>4, <3>5, <3>6, <3>7, GoesOutcome
  <2> QED  BY <2>1, <2>2
<1>8. \/ /\ calls[c].pc \in {"clearing", "holding", "undoing"} /\ queue' = Tail(queue) /\ up' \subseteq up
         /\ \E pc \in {"gone", "open", "starting"} :
              Goes(c, pc) /\ (pc = "starting" => calls[c].pc = "holding")
      \/ calls[c].pc \in {"engaging", "stranded"} /\ Settle(c, tok, Tail(queue))
  BY <1>1 DEF ConnectGoesOn
<1> QED  BY <1>6, <1>7, <1>8

\* However the operation ended.
LEMMA EndsOutcome ==
  ASSUME IInv, WhoseInv, queue # <<>>, NEW tok \in Nat, NEW w \in BOOLEAN, Ends(tok, w), Answers(tok),
         UNCHANGED <<running, issued>>
  PROVE  Outcome(tok)
<1>1. queue \in Queues /\ plans \subseteq Plans /\ keep \in BOOLEAN
  BY Parts DEF Typed, RestOK, CallersOK
<1>2. Head(queue).who # "connect" => tok = NoToken
  BY <1>1, QueueParts DEF WhoseInv, InLine, Line, OneEach, Answers, Working
<1>3. CASE Head(queue).who = "connect"
  <2>1. ConnectGoesOn(Head(queue).id, tok, Tail(queue))
    BY <1>3 DEF Ends
  <2> QED  BY <1>3, <2>1, ConnectOutcome
<1>4. CASE Head(queue).who # "connect" /\ queue' = Tail(queue) /\ up' \subseteq up
           /\ UNCHANGED <<calls, begun, latest, tun>>
  BY <1>2, <1>4, OthersOutcome
<1>5. CASE Head(queue).who # "connect" /\ queue' = Tail(queue) /\ UNCHANGED tun
           /\ \E p \in plans : Begins(begun + 1, p, keep)
  BY <1>1, <1>2, <1>5, BeginsOutcome
<1> QED
  BY <1>3, <1>4, <1>5 DEF Ends, ApplyGoesOn, DisconnectGoesOn, TunnelsStop, callers, conn

-----------------------------------------------------------------------------
(* What the operation at the head of the queue may do to the guard: go on,  *)
(* end, or give it back.                                                    *)

\* A release that would take the guard, were t the live receipt.
Takes(op, t) == op.kind = "release" /\ (op.tok = NoToken \/ t = NoToken \/ op.tok = t)

GoesOn ==
  /\ queue # <<>> /\ UNCHANGED <<running, callers, issued, told>>
  /\ \E op \in Ops :
       /\ Step(op) /\ Alike(op, Head(queue)) /\ op.kind # "release"
       /\ \/ /\ token' = token /\ file'.there = file.there /\ file'.udp = file.udp
             /\ Working(op) <=> Working(Head(queue))
          \/ Working(op) /\ token' = op.tok /\ file'.there

Finishes ==
  /\ queue # <<>> /\ UNCHANGED <<running, issued, token>>
  /\ file'.there = file.there /\ file'.udp = file.udp
  /\ told' \/ (told' = told /\ (Takes(Head(queue), token) => ~file.there))
  /\ \E tok \in Nat, w \in BOOLEAN :
       /\ Ends(tok, w) /\ Answers(tok)
       /\ Working(Head(queue)) /\ tok # Head(queue).tok => Head(queue).kind = "block" /\ Head(queue).at = "rules"

GivesUp ==
  /\ queue # <<>> /\ UNCHANGED <<running, issued>>
  /\ Takes(Head(queue), token) /\ Done /\ ~file'.there /\ token' = NoToken

LEMMA DoneFinishes ==
  ASSUME queue # <<>>, Done, UNCHANGED <<running, issued, token, told>>,
         file'.there = file.there, file'.udp = file.udp, ~Working(Head(queue)),
         Takes(Head(queue), token) => ~file.there
  PROVE  Finishes
<1>1. NoToken \in Nat /\ FALSE \in BOOLEAN /\ Answers(NoToken)
  BY DEF NoToken, Answers
<1> QED  BY <1>1 DEF Done, Finishes

\* What runs, with its parts.
LEMMA Running ==
  ASSUME IInv, NEW k, NEW at, Runs(k, at)
  PROVE  /\ queue # <<>> /\ Head(queue) \in Ops /\ Head(queue).tok \in Nat /\ file \in Files
         /\ Head(queue).kind = k /\ Head(queue).at = at /\ NoToken \in Nat
         /\ k # "release" => ~Takes(Head(queue), token)
  BY HeadOp, Parts DEF Typed, MachineOK, Takes, NoToken

\* The state is written, and the receipt of the operation is the live one.
LEMMA WritesShape ==
  ASSUME IInv, queue # <<>>, Head(queue) \in Ops, NEW op \in Ops, Alike(op, Head(queue)), op.kind = "engage",
         NEW rec, Writes(op, rec), UNCHANGED EngageRest
  PROVE  GoesOn
<1>1. PICK next : next = [op EXCEPT !.at = "apply"]
  OBVIOUS
<1>2. next \in Ops /\ Alike(next, Head(queue)) /\ Working(next) /\ next.tok = op.tok /\ next.kind # "release"
  BY <1>1 DEF Ops, Alike, Working, Brings
<1>3. Step(next) /\ token' = next.tok /\ file'.there
  BY <1>1, <1>2 DEF Writes
<1> QED  BY <1>2, <1>3 DEF GoesOn, EngageRest, World

LEMMA SnapshotShape ==
  ASSUME IInv, Snapshot
  PROVE  GoesOn
<1>1. /\ queue # <<>> /\ Head(queue) \in Ops /\ Head(queue).kind = "engage" /\ file \in Files
      /\ Head(queue).at = "first" /\ MachineOK /\ Kept
  BY Running, Parts DEF Snapshot, Typed
<1>2. UNCHANGED EngageRest
  BY DEF Snapshot
<1>3. CASE Leaves(Head(queue))
  <2>1. PICK op, rec : rec = Merged /\ op = [Head(queue) EXCEPT !.at = "lift", !.rec = rec]
    OBVIOUS
  <2>2. Merged \in [Adapters -> Originals]
    BY <1>1, MergedOK
  <2>3. op \in Ops /\ Alike(op, Head(queue)) /\ op.kind = "engage" /\ op.at = "lift"
    BY <1>1, <2>1, <2>2 DEF Ops, Alike
  <2>4. Step(op) /\ UNCHANGED <<file, token>>
    BY <1>3, <2>1 DEF Snapshot
  <2> QED  BY <1>1, <1>2, <2>3, <2>4 DEF GoesOn, EngageRest, World, Working
<1>4. CASE ~Leaves(Head(queue))
  <2>1. Writes(Head(queue), Merged)
    BY <1>4 DEF Snapshot
  <2>2. Alike(Head(queue), Head(queue))
    BY DEF Alike
  <2> QED  BY <1>1, <1>2, <2>1, <2>2, WritesShape
<1> QED  BY <1>3, <1>4

LEMMA LiftShape ==
  ASSUME IInv, Lift
  PROVE  GoesOn
<1>1. queue # <<>> /\ Head(queue) \in Ops /\ Head(queue).kind = "engage"
  BY Running DEF Lift
<1>2. PICK op, rec : op = [Head(queue) EXCEPT !.rec = Nothing] /\ rec = Head(queue).rec
  OBVIOUS
<1>3. op \in Ops /\ Alike(op, Head(queue)) /\ op.kind = "engage"
  BY <1>1, <1>2 DEF Ops, Alike, Nothing, Originals
<1>4. Writes(op, rec) /\ UNCHANGED EngageRest
  BY <1>2 DEF Lift
<1> QED  BY <1>1, <1>3, <1>4, WritesShape

LEMMA LiftFailsShape ==
  ASSUME IInv, LiftFails
  PROVE  Finishes
<1>1. queue # <<>> /\ Head(queue).at = "lift" /\ ~Takes(Head(queue), token)
  BY Running DEF LiftFails
<1>2. Done /\ UNCHANGED <<running, issued, token, told, file>>
  BY DEF LiftFails, guard
<1> QED  BY <1>1, <1>2, DoneFinishes DEF Working

LEMMA EngagesNothingShape ==
  ASSUME IInv, EngagesNothing
  PROVE  Finishes
<1>1. queue # <<>> /\ Head(queue).at = "first" /\ ~Takes(Head(queue), token) /\ NoToken \in Nat
  <2>1. Runs("engage", "first") \/ Runs("block", "first")
    BY DEF EngagesNothing
  <2>2. "engage" # "release" /\ "block" # "release"
    OBVIOUS
  <2> QED  BY <2>1, <2>2, Running
<1>2. UNCHANGED <<running, issued, token, told, file>>
  BY DEF EngagesNothing
<1>3. PICK w \in BOOLEAN : Ends(NoToken, w)
  BY DEF EngagesNothing, Done
<1> QED  BY <1>1, <1>2, <1>3 DEF Finishes, Answers, Working

LEMMA SetAdaptersShape ==
  ASSUME IInv, SetAdapters
  PROVE  GoesOn \/ Finishes
<1>1. /\ queue # <<>> /\ Head(queue) \in Ops /\ Head(queue).tok \in Nat /\ ~Takes(Head(queue), token)
      /\ Head(queue).kind = "engage" /\ Head(queue).at = "apply"
  BY Running DEF SetAdapters
<1>2. Working(Head(queue)) /\ Answers(Head(queue).tok)
  BY <1>1 DEF Working, Brings, Answers
<1>3. UNCHANGED <<running, issued, token, told, file>>
  BY DEF SetAdapters
<1>4. CASE \E w \in BOOLEAN : Ends(Head(queue).tok, w)
  BY <1>1, <1>2, <1>3, <1>4 DEF Finishes
<1>5. CASE Step([Head(queue) EXCEPT !.at = "rules"]) /\ UNCHANGED <<callers, watch>>
  <2>1. PICK op : op = [Head(queue) EXCEPT !.at = "rules"]
    OBVIOUS
  <2>2. op \in Ops /\ Alike(op, Head(queue)) /\ op.kind # "release" /\ Working(op)
    BY <1>1, <2>1 DEF Ops, Alike, Working, Brings
  <2> QED  BY <1>1, <1>2, <1>3, <1>5, <2>1, <2>2 DEF GoesOn
<1> QED  BY <1>4, <1>5 DEF SetAdapters

LEMMA ApplyFailsShape ==
  ASSUME IInv, ApplyFails
  PROVE  Finishes
<1>1. /\ queue # <<>> /\ Head(queue) \in Ops /\ Head(queue).tok \in Nat /\ ~Takes(Head(queue), token)
      /\ Head(queue).kind \in {"engage", "refresh"} /\ Head(queue).at = "apply" /\ NoToken \in Nat
  BY Running DEF ApplyFails
<1>2. UNCHANGED <<running, issued, token, told, file>>
  BY DEF ApplyFails, guard
<1>3. CASE Head(queue).kind = "engage"
  <2>1. Ends(Head(queue).tok, FALSE) /\ Answers(Head(queue).tok)
    BY <1>1, <1>3 DEF ApplyFails, Answers, Working, Brings
  <2> QED  BY <1>1, <1>2, <2>1 DEF Finishes
<1>4. CASE Head(queue).kind = "refresh"
  <2>1. Ends(NoToken, FALSE) /\ Answers(NoToken) /\ ~Working(Head(queue))
    BY <1>4 DEF ApplyFails, Answers, Working, Brings
  <2> QED  BY <1>1, <1>2, <2>1 DEF Finishes
<1> QED  BY <1>1, <1>3, <1>4

LEMMA BlockShape ==
  ASSUME IInv, Block
  PROVE  Finishes
<1>1. /\ queue # <<>> /\ Head(queue) \in Ops /\ Head(queue).tok \in Nat /\ ~Takes(Head(queue), token)
      /\ Brings(Head(queue)) /\ Head(queue).at = "rules" /\ NoToken \in Nat
  BY Running DEF Block, Brings
<1>2. UNCHANGED <<running, issued, token, told, file>>
  BY DEF Block, guard
<1>3. Working(Head(queue)) /\ Answers(Head(queue).tok) /\ Answers(NoToken)
  BY <1>1 DEF Working, Answers
<1>4. PICK f, w : f = (Head(queue).kind = "block" /\ Failing) /\ w = (Head(queue).kind = "engage" /\ ~Failing)
  OBVIOUS
<1>5. w \in BOOLEAN /\ Ends(IF f THEN NoToken ELSE Head(queue).tok, w)
  BY <1>4 DEF Block
<1>6. CASE f
  BY <1>1, <1>2, <1>3, <1>4, <1>5, <1>6 DEF Finishes
<1>7. CASE ~f
  BY <1>1, <1>2, <1>3, <1>5, <1>7 DEF Finishes
<1> QED  BY <1>6, <1>7

LEMMA RecordBlockShape ==
  ASSUME IInv, RecordBlock
  PROVE  GoesOn
<1>1. queue # <<>> /\ Head(queue) \in Ops /\ Head(queue).kind = "block" /\ file \in Files
  BY Running DEF RecordBlock
<1>2. PICK op : op = [Head(queue) EXCEPT !.at = "rules"]
  OBVIOUS
<1>3. op \in Ops /\ Alike(op, Head(queue)) /\ op.kind # "release" /\ Working(op) /\ op.tok = Head(queue).tok
  BY <1>1, <1>2 DEF Ops, Alike, Working, Brings
<1>4. Step(op) /\ token' = op.tok /\ file'.there /\ UNCHANGED EngageRest
  BY <1>1, <1>2, <1>3 DEF RecordBlock, Files
<1> QED  BY <1>1, <1>3, <1>4 DEF GoesOn, EngageRest, World

LEMMA HoldShape ==
  ASSUME IInv, Hold
  PROVE  Finishes
<1>1. queue # <<>> /\ Head(queue).kind = "hold" /\ ~Takes(Head(queue), token)
  BY Running DEF Hold
<1>2. Done /\ UNCHANGED <<running, issued, token, told, file>>
  BY DEF Hold, guard
<1> QED  BY <1>1, <1>2, DoneFinishes DEF Working, Brings

LEMMA RefreshShape ==
  ASSUME IInv, Refresh
  PROVE  GoesOn \/ Finishes
<1>1. /\ queue # <<>> /\ Head(queue) \in Ops /\ Head(queue).kind = "refresh" /\ file \in Files
      /\ ~Takes(Head(queue), token) /\ ~Working(Head(queue))
  BY Running DEF Refresh, RefreshSkips, RefreshLooks, RefreshSets, Working, Brings
<1>2. UNCHANGED <<running, issued, token, told>>
  BY DEF Refresh, RefreshSkips, RefreshLooks, RefreshSets
<1>3. CASE Done /\ UNCHANGED file
  BY <1>1, <1>2, <1>3, DoneFinishes
<1>4. CASE RefreshLooks /\ ~(Done /\ UNCHANGED file)
  <2> DEFINE looked == {a \in present : dns[a] # "hold" /\ a \notin refused'}
  <2>0. looked \in SUBSET Adapters
    BY Parts DEF Typed, MachineOK
  <2>1. PICK changed \in SUBSET Adapters :
          /\ file' = [file EXCEPT !.rec = Merged]
          /\ Step([Head(queue) EXCEPT !.at = "apply", !.set = changed])
          /\ UNCHANGED <<callers, watch>>
    <3>1. \/ Done /\ UNCHANGED file
          \/ /\ file' = [file EXCEPT !.rec = Merged]
             /\ Step([Head(queue) EXCEPT !.at = "apply", !.set = looked])
             /\ UNCHANGED <<callers, watch>>
      BY <1>4 DEF RefreshLooks
    <3> HIDE DEF looked
    <3> QED  BY <1>4, <2>0, <3>1
  <2>2. PICK op : op = [Head(queue) EXCEPT !.at = "apply", !.set = changed]
    OBVIOUS
  <2>3. op \in Ops /\ Alike(op, Head(queue)) /\ op.kind = "refresh"
    BY <1>1, <2>2 DEF Ops, Alike
  <2>4. file'.there = file.there /\ file'.udp = file.udp
    BY <1>1, <2>1 DEF Files
  <2> QED  BY <1>1, <1>2, <2>1, <2>2, <2>3, <2>4 DEF GoesOn, Working, Brings
<1> QED  BY <1>3, <1>4 DEF Refresh, RefreshSkips, RefreshSets

LEMMA ReleaseShape ==
  ASSUME IInv, Release
  PROVE  Finishes \/ GivesUp
<1>1. /\ queue # <<>> /\ Head(queue) \in Ops /\ Head(queue).kind = "release" /\ ~Working(Head(queue))
  BY Running DEF Release, ReleasesNothing, Releases, ReleaseFails, Working, Brings
<1>2. CASE ReleasesNothing
  <2>1. Done /\ UNCHANGED <<running, issued, token, told, file>>
    BY <1>2 DEF ReleasesNothing, guard
  <2>2. Takes(Head(queue), token) => ~file.there
    BY <1>2 DEF ReleasesNothing, Takes, Owns
  <2> QED  BY <1>1, <2>1, <2>2, DoneFinishes
<1>3. CASE Releases
  BY <1>1, <1>3 DEF Releases, GivesBack, NoFile, GivesUp, Takes, Owns
<1>4. CASE ReleaseFails
  <2>1. NoToken \in Nat /\ FALSE \in BOOLEAN /\ Answers(NoToken)
    BY DEF NoToken, Answers
  <2> QED  BY <1>1, <1>4, <2>1 DEF ReleaseFails, guard, Done, Finishes
<1> QED  BY <1>2, <1>3, <1>4 DEF Release

LEMMA WorkShape ==
  ASSUME IInv, Work
  PROVE  GoesOn \/ Finishes \/ GivesUp
  BY SnapshotShape, LiftShape, LiftFailsShape, EngagesNothingShape, SetAdaptersShape, ApplyFailsShape,
     BlockShape, RecordBlockShape, HoldShape, RefreshShape, ReleaseShape
     DEF Work, Engage

-----------------------------------------------------------------------------
(* Owed, the invariant of DisconnectGivesBack.                             *)

\* A guard that nobody's intent keeps is on its way back, the user was told that it
\* could not be, or no connect got its receipt.
Owed ==
  running /\ latest = NoConnect /\ file.there =>
    \/ told \/ Unreceipted
    \/ \E i \in 1..Len(queue) : Takes(queue[i], token)
    \/ queue # <<>> /\ Working(Head(queue))

\* The operation at the head goes on.
LEMMA GoesOnKeeps ==
  ASSUME IInv, WhoseInv, Owed, GoesOn
  PROVE  WhoseInv' /\ Owed'
<1>1. PICK op \in Ops :
       /\ Step(op) /\ Alike(op, Head(queue)) /\ op.kind # "release"
       /\ \/ /\ token' = token /\ file'.there = file.there /\ file'.udp = file.udp
             /\ Working(op) <=> Working(Head(queue))
          \/ Working(op) /\ token' = op.tok /\ file'.there
  BY DEF GoesOn
<1>2. queue # <<>> /\ UNCHANGED <<running, callers, issued, told>>
  BY DEF GoesOn
<1>3. UNCHANGED <<calls, begun, latest, tun, up>>
  BY <1>2 DEF callers, conn
<1>4. queue \in Queues /\ issued \in Nat
  BY Parts DEF Typed, GuardOK
<1>5. queue' = [queue EXCEPT ![1] = op] /\ queue' # <<>> /\ Head(queue') = op
  BY <1>1, <1>2, <1>4, Stepped DEF Step
<1>6. /\ Len(queue') = Len(queue) /\ queue'[1] = op /\ \A i \in 2..Len(queue) : queue'[i] = queue[i]
      /\ 1 \in 1..Len(queue) /\ Head(queue) = queue[1] /\ Len(queue) \in Nat
  BY <1>2, <1>4, <1>5, QueueParts DEF Queues
<1>7. InLine'
  BY <1>1, <1>2, <1>3, <1>4, <1>5, LineStep DEF WhoseInv, InLine
<1>8. Newest' /\ Idle'
  BY <1>2, <1>3 DEF WhoseInv, Newest, Idle
<1>9. Under'
  BY <1>1, <1>2, <1>5 DEF WhoseInv, Under, Alike
<1>10. Standing'
  <2> SUFFICES ASSUME NEW c \in Connects, Stands(c), Last(c)
               PROVE  /\ file'.there /\ token' = calls[c].tok
                      /\ \A i \in 1..Len(queue') : queue'[i].kind = "release" => queue'[i].tok \notin {NoToken, token'}
    BY <1>2, <1>3 DEF Standing, Stands, Last
  <2>1. ~Brings(Head(queue))
    <3>1. calls[c].tok = issued
      BY DEF Last
    <3>2. Brings(queue[1]) => queue[1].tok <= issued /\ calls[c].tok < queue[1].tok /\ queue[1].tok \in Nat
      BY <1>4, <1>6, QueueParts DEF WhoseInv, InLine, Line, Receipts
    <3> QED  BY <1>4, <1>6, <3>1, <3>2
  <2>2. ~Brings(op)
    BY <1>1, <2>1 DEF Alike, Brings
  <2>3. UNCHANGED token /\ file'.there = file.there
    BY <1>1, <2>2 DEF Working
  <2>4. \A i \in 1..Len(queue') : queue'[i].kind = "release" => queue'[i] = queue[i] /\ i \in 1..Len(queue)
    BY <1>1, <1>6
  <2> QED  BY <2>3, <2>4 DEF WhoseInv, Standing
<1>11. Owed'
  <2> SUFFICES ASSUME running, latest = NoConnect, file'.there, ~Working(op)
               PROVE  told \/ Unreceipted' \/ \E i \in 1..Len(queue') : Takes(queue'[i], token')
    BY <1>2, <1>3, <1>5 DEF Owed, Takes
  <2>1. token' = token /\ file'.there = file.there /\ file'.udp = file.udp
    BY <1>1
  <2>2. CASE told \/ Unreceipted
    BY <1>3, <2>1, <2>2 DEF Unreceipted
  <2>3. CASE \E i \in 1..Len(queue) : Takes(queue[i], token)
    <3>1. PICK i \in 1..Len(queue) : Takes(queue[i], token)
      BY <2>3
    <3>2. i # 1
      BY <1>1, <1>6, <3>1 DEF Takes, Alike
    <3>3. i \in 1..Len(queue') /\ queue'[i] = queue[i]
      BY <1>6, <3>2
    <3>4. Takes(queue'[i], token')
      BY <2>1, <3>1, <3>3 DEF Takes
    <3> QED  BY <3>3, <3>4
  <2>4. CASE Working(Head(queue))
    BY <1>1, <2>4
  <2> QED  BY <1>2, <2>1, <2>2, <2>3, <2>4 DEF Owed
<1> QED  BY <1>7, <1>8, <1>9, <1>10, <1>11 DEF WhoseInv

\* An operation under way that ends: nothing but its receipt changed hands.
LEMMA FinishesKeeps ==
  ASSUME IInv, WhoseInv, Owed, Finishes
  PROVE  WhoseInv' /\ Owed'
<1>1. PICK tok \in Nat, w \in BOOLEAN :
       /\ Ends(tok, w) /\ Answers(tok)
       /\ Working(Head(queue)) /\ tok # Head(queue).tok =>
            Head(queue).kind = "block" /\ Head(queue).at = "rules"
  BY DEF Finishes
<1>2. /\ queue # <<>> /\ UNCHANGED <<running, issued, token>>
      /\ file'.there = file.there /\ file'.udp = file.udp
      /\ told' \/ (told' = told /\ (Takes(Head(queue), token) => ~file.there))
  BY DEF Finishes
<1>3. Outcome(tok)
  BY <1>1, <1>2, EndsOutcome
<1>4. queue \in Queues /\ issued \in Nat /\ queue' \in FreshQueues /\ HeadShape /\ token \in Nat
  BY <1>1, <1>2, EndsType, Parts DEF Typed, GuardOK
<1>5. /\ 1 \in 1..Len(queue) /\ Head(queue) = queue[1] /\ Len(queue) \in Nat
      /\ \A i \in 1..Len(queue) : queue[i].tok \in Nat
  BY <1>2, <1>4, QueueParts
<1>6. running
  BY <1>2 DEF WhoseInv, Idle
<1>7. Newest' /\ InLine' /\ Idle'
  BY <1>2, <1>3, <1>6 DEF Outcome, Idle
<1>8. Under'
  BY <1>4, FreshHead DEF Under, Working
<1>9. Standing'
  <2> SUFFICES ASSUME NEW c \in Connects, Stands(c)', Last(c)'
               PROVE  /\ file'.there /\ token' = calls'[c].tok
                      /\ \A i \in 1..Len(queue') :
                           queue'[i].kind = "release" => queue'[i].tok \notin {NoToken, token'}
    BY DEF Standing
  <2>1. CASE Stands(c) /\ Last(c) /\ calls'[c].tok = calls[c].tok
    <3>1. file.there /\ token = calls[c].tok
      BY <2>1 DEF WhoseInv, Standing
    <3>2. tok = NoToken
      <4>1. calls[c].tok = issued
        BY <2>1 DEF Last
      <4>2. ~Brings(queue[1])
        BY <1>4, <1>5, <4>1 DEF WhoseInv, InLine, Line, Receipts
      <4> QED  BY <1>1, <1>5, <4>2 DEF Answers, Working
    <3>3. \A i \in 1..Len(queue') : \E j \in 1..Len(queue) : queue'[i] = queue[j]
      BY <1>3, <1>5, <3>2 DEF Outcome
    <3>4. \A i \in 1..Len(queue) : queue[i].kind = "release" => queue[i].tok \notin {NoToken, token}
      BY <2>1 DEF WhoseInv, Standing
    <3> QED  BY <1>2, <2>1, <3>1, <3>3, <3>4
  <2>2. CASE tok # NoToken /\ latest = c /\ Head(queue).id = c /\ calls'[c].tok = tok /\ queue' = Tail(queue)
    <3>1. Working(queue[1]) /\ tok = queue[1].tok
      BY <1>1, <1>5, <2>2 DEF Answers
    <3>2. token = tok /\ file.there
      BY <1>2, <1>5, <3>1 DEF WhoseInv, Under
    <3>3. \A i \in 1..Len(queue') : i + 1 \in 2..Len(queue) /\ queue'[i] = queue[i + 1]
      BY <1>2, <1>4, <2>2, TailParts
    <3>4. ASSUME NEW i \in 1..Len(queue'), queue'[i].kind = "release"
          PROVE  queue'[i].tok \notin {NoToken, token}
      <4>1. i + 1 \in 1..Len(queue) /\ 1 < i + 1 /\ queue'[i] = queue[i + 1]
        BY <1>5, <3>3
      <4>2. queue[i + 1].tok # NoToken
        BY <1>5, <2>2, <3>1, <3>4, <4>1 DEF WhoseInv, InLine, Line, Spared, Working
      <4>3. queue[i + 1].tok < tok /\ queue[i + 1].tok \in Nat
        BY <1>5, <3>1, <3>4, <4>1 DEF WhoseInv, InLine, Line, Receipts, Working
      <4> QED  BY <3>2, <4>1, <4>2, <4>3
    <3> QED  BY <1>2, <2>2, <3>2, <3>4
  <2> QED  BY <1>3, <2>1, <2>2 DEF Outcome
<1>10. Owed'
  <2> SUFFICES ASSUME latest' = NoConnect, file'.there, ~told'
               PROVE  Unreceipted' \/ \E i \in 1..Len(queue') : Takes(queue'[i], token')
    BY DEF Owed, Takes
  <2>1. latest = NoConnect /\ file.there /\ ~told /\ ~Takes(Head(queue), token)
    BY <1>2, <1>3 DEF Outcome
  <2>2. CASE tok # NoToken
    <3>1. Working(Head(queue)) /\ tok = Head(queue).tok
      BY <1>1, <2>2 DEF Answers
    <3>2. token = tok
      BY <1>2, <3>1 DEF WhoseInv, Under
    <3>3. \E j \in 1..Len(queue') : queue'[j].kind = "release" /\ queue'[j].tok = tok
      BY <1>3, <2>1, <2>2 DEF Outcome
    <3> QED  BY <1>2, <3>2, <3>3 DEF Takes
  <2>3. CASE tok = NoToken /\ Unreceipted
    BY <1>2, <1>3, <2>3 DEF Outcome, Unreceipted
  <2>4. CASE tok = NoToken /\ \E i \in 1..Len(queue) : Takes(queue[i], token)
    <3>1. PICK i \in 1..Len(queue) : Takes(queue[i], token)
      BY <2>4
    <3>2. i \in 2..Len(queue)
      BY <1>5, <2>1, <3>1
    <3>3. \E j \in 1..Len(queue') : queue'[j] = queue[i]
      BY <1>3, <3>2 DEF Outcome
    <3> QED  BY <1>2, <3>1, <3>3 DEF Takes
  <2>5. CASE tok = NoToken /\ Working(Head(queue))
    <3>1. Brings(queue[1]) /\ 1 <= queue[1].tok /\ \A c \in Connects : calls[c].tok < queue[1].tok
      BY <1>5, <2>5 DEF WhoseInv, InLine, Line, Receipts, Working
    <3>2. token = queue[1].tok /\ token # NoToken
      BY <1>2, <1>5, <2>5, <3>1 DEF WhoseInv, Under, NoToken
    <3>3. Head(queue).kind = "block" /\ Head(queue).at = "rules"
      BY <1>1, <1>5, <2>5, <3>2
    <3>4. file.udp
      BY <1>2, <1>4, <3>3 DEF HeadShape, RunsOn
    <3>5. \A c \in Connects : calls'[c].tok = calls[c].tok \/ calls'[c].tok = NoToken
      BY <1>3, <2>5 DEF Outcome
    <3>6. calls \in [Connects -> Calls]
      BY Parts DEF Typed, CallersOK
    <3>7. \A c \in Connects : calls[c].tok \in Nat /\ calls[c].tok # token
      BY <1>5, <3>1, <3>2, <3>6 DEF Calls
    <3> QED  BY <1>2, <3>2, <3>4, <3>5, <3>7 DEF Unreceipted
  <2> QED  BY <1>2, <1>6, <2>1, <2>2, <2>3, <2>4, <2>5 DEF Owed
<1> QED  BY <1>7, <1>8, <1>9, <1>10 DEF WhoseInv

\* A release that goes well: it was nobody's who stands.
LEMMA GivesUpKeeps ==
  ASSUME IInv, WhoseInv, Owed, GivesUp
  PROVE  WhoseInv' /\ Owed'
<1>1. /\ queue # <<>> /\ UNCHANGED <<running, issued>>
      /\ Takes(Head(queue), token) /\ Ends(NoToken, FALSE) /\ ~file'.there /\ token' = NoToken
  BY DEF GivesUp, Done
<1>2. NoToken \in Nat /\ FALSE \in BOOLEAN /\ Answers(NoToken)
  BY DEF NoToken, Answers
<1>3. Outcome(NoToken)
  BY <1>1, <1>2, EndsOutcome
<1>4. queue \in Queues /\ queue' \in FreshQueues
  BY <1>1, <1>2, EndsType, Parts DEF Typed
<1>5. 1 \in 1..Len(queue) /\ Head(queue) = queue[1]
  BY <1>1, <1>4, QueueParts
<1>6. running
  BY <1>1 DEF WhoseInv, Idle
<1>7. Newest' /\ InLine' /\ Idle'
  BY <1>1, <1>3, <1>6 DEF Outcome, Idle
<1>8. Under'
  BY <1>4, FreshHead DEF Under, Working
<1>9. \A c \in Connects : ~(Stands(c) /\ Last(c))
  <2> SUFFICES ASSUME NEW c \in Connects, Stands(c), Last(c)
               PROVE  FALSE
    OBVIOUS
  <2>1. token = calls[c].tok /\ token # NoToken /\ queue[1].tok \notin {NoToken, token}
    BY <1>1, <1>5 DEF WhoseInv, Standing, Takes, Stands
  <2> QED  BY <1>1, <1>5, <2>1 DEF Takes
<1>10. Standing'
  BY <1>3, <1>9 DEF Outcome, Standing
<1>11. Owed'
  BY <1>1 DEF Owed
<1> QED  BY <1>7, <1>8, <1>10, <1>11 DEF WhoseInv

LEMMA WorkKeeps ==
  ASSUME IInv, WhoseInv, Owed, Work
  PROVE  WhoseInv' /\ Owed'
  BY WorkShape, GoesOnKeeps, FinishesKeeps, GivesUpKeeps

-----------------------------------------------------------------------------
(* What callers do to it.                                                  *)

\* Whatever joins the queue, what was owed by it and what runs in it stay.
LEMMA Joined ==
  ASSUME IInv, NEW op \in Ops, op.at = "first", queue' = queue \/ queue' = Append(queue, op),
         UNCHANGED <<file, token>>
  PROVE  /\ Under => Under'
         /\ queue # <<>> => queue' # <<>> /\ Head(queue') = Head(queue)
         /\ \A i \in 1..Len(queue) : \E j \in 1..Len(queue') : queue'[j] = queue[i]
         /\ \A j \in 1..Len(queue') : (\E i \in 1..Len(queue) : queue'[j] = queue[i])
                                        \/ (queue'[j] = op /\ queue' = Append(queue, op))
         /\ queue' = Append(queue, op) => \E j \in 1..Len(queue') : queue'[j] = op
<1>1. queue \in Queues
  BY Parts DEF Typed
<1>2. CASE queue' = queue
  <2>1. queue' # Append(queue, op)
    <3>1. Len(Append(queue, op)) = Len(queue) + 1 /\ Len(queue) \in Nat
      BY <1>1, AppendParts
    <3> QED  BY <1>2, <3>1
  <2> QED  BY <1>2, <2>1 DEF Under
<1>3. CASE queue' = Append(queue, op)
  <2>1. /\ queue' # <<>>
        /\ queue # <<>> => Head(queue') = Head(queue)
        /\ queue = <<>> => Head(queue') = op
    BY <1>1, <1>3, Asked
  <2>2. /\ Len(queue') = Len(queue) + 1 /\ Len(queue) \in Nat
        /\ \A i \in 1..Len(queue') : queue'[i] = IF i = Len(queue) + 1 THEN op ELSE queue[i]
    BY <1>1, <1>3, AppendParts
  <2>3. \A i \in 1..Len(queue) : i \in 1..Len(queue') /\ queue'[i] = queue[i]
    BY <2>2
  <2>4. Len(queue') \in 1..Len(queue') /\ queue'[Len(queue')] = op
    BY <2>2
  <2>5. \A j \in 1..Len(queue') : queue'[j] = op \/ (j \in 1..Len(queue) /\ queue'[j] = queue[j])
    BY <2>2
  <2>6. Under => Under'
    BY <2>1 DEF Under, Working
  <2> QED  BY <1>3, <2>1, <2>3, <2>4, <2>5, <2>6
<1> QED  BY <1>2, <1>3

\* What was owed stays owed, as long as nobody's intent counts and no connect gets
\* a receipt.
LEMMA OwedStays ==
  ASSUME IInv, Owed, NEW op \in Ops, op.at = "first", queue' = queue \/ queue' = Append(queue, op),
         UNCHANGED <<file, token, told, running>>,
         \A c \in Connects : calls'[c].tok = calls[c].tok \/ calls'[c].tok = NoToken,
         latest' = NoConnect => latest = NoConnect
  PROVE  Owed'
<1> SUFFICES ASSUME running, latest = NoConnect, file.there
             PROVE  Owed'
  BY DEF Owed
<1>1. CASE told \/ Unreceipted
  BY <1>1 DEF Owed, Unreceipted
<1>2. CASE \E i \in 1..Len(queue) : Takes(queue[i], token)
  <2>1. \E j \in 1..Len(queue') : Takes(queue'[j], token)
    BY <1>2, Joined
  <2> QED  BY <2>1 DEF Owed
<1>3. CASE queue # <<>> /\ Working(Head(queue))
  <2>1. queue' # <<>> /\ Head(queue') = Head(queue)
    BY <1>3, Joined
  <2> QED  BY <1>3, <2>1 DEF Owed
<1> QED  BY <1>1, <1>2, <1>3 DEF Owed

\* No receipt is the oldest.
LEMMA NoTokenFirst ==
  ASSUME IInv, InLine
  PROVE  /\ NoToken <= issued /\ issued \in Nat /\ queue \in Queues
         /\ \A i \in 1..Len(queue) : Brings(queue[i]) => NoToken < queue[i].tok
<1>1. queue \in Queues /\ issued \in Nat
  BY Parts DEF Typed, GuardOK
<1>2. \A i \in 1..Len(queue) : queue[i].tok \in Nat /\ (Brings(queue[i]) => 1 <= queue[i].tok)
  BY <1>1, QueueParts DEF InLine, Line, Receipts
<1> QED  BY <1>1, <1>2 DEF NoToken

\* A connect that waits for nothing moves on, and may ask for a hold or a release.
LEMMA Moves ==
  ASSUME IInv, WhoseInv, Owed, running, UNCHANGED <<CallRest, issued, latest, begun>>,
         NEW c \in Connects, calls[c].pc \notin Waiting, calls[c].pc # "none",
         NEW r, calls' = [calls EXCEPT ![c] = r],
         r.tok = calls[c].tok \/ r.tok = NoToken,
         r.pc = "stands" => r.tok = NoToken \/ r.plan \notin Guarded,
         latest = c /\ r.pc \in Chosen => tun' = r.tn,
         tun' = tun \/ latest = c,
         up' \subseteq up \/ latest = c,
         NEW op \in Ops, op.at = "first", ~Brings(op),
         op.who = "connect" => op.id = c /\ Awaits(r.pc, op),
         op.kind = "release" => op.tok = NoToken /\ latest = c,
         queue' = queue \/ queue' = Append(queue, op)
  PROVE  WhoseInv' /\ Owed'
<1>1. calls \in [Connects -> Calls] /\ queue \in Queues /\ issued \in Nat /\ c # NoConnect
  BY Parts, Connecting DEF Typed, CallersOK, GuardOK
<1>2. calls'[c] = r /\ \A d \in Connects : d # c => calls'[d] = calls[d]
  BY <1>1
<1>3. UNCHANGED <<file, token, told, running>>
  BY DEF CallRest
<1>4. FreeOf(queue, c)
  BY Free DEF WhoseInv, InLine, Line
<1>5. NoToken <= issued /\ \A i \in 1..Len(queue) : Brings(queue[i]) => NoToken < queue[i].tok
  BY NoTokenFirst DEF WhoseInv
<1>6. Line(queue, calls', issued, latest)
  <2>1. \A d \in Connects : calls'[d].pc = calls[d].pc \/ FreeOf(queue, d)
    BY <1>2, <1>4
  <2>2. \A d \in Connects : calls'[d].tok = calls[d].tok
          \/ (calls'[d].tok <= issued /\ \A i \in 1..Len(queue) : Brings(queue[i]) => calls'[d].tok < queue[i].tok)
    BY <1>2, <1>5
  <2>3. Line(queue, calls, issued, latest)
    BY DEF WhoseInv, InLine
  <2> QED  BY <1>1, <2>1, <2>2, <2>3, LineCalls
<1>7. InLine'
  <2>1. CASE queue' = queue
    BY <1>6, <2>1 DEF InLine
  <2>2. CASE queue' = Append(queue, op)
    <3>1. op.kind = "release" => \A i \in 1..Len(queue) : Brings(queue[i]) => queue[i].id # latest
      BY <1>4 DEF WhoseInv, InLine, Line, OneEach, FreeOf, Of
    <3>2. op.kind = "release" => op.tok <= issued /\ \A i \in 1..Len(queue) : Brings(queue[i]) => op.tok < queue[i].tok
      BY <1>5
    <3>3. op.who = "connect" => op.id \in Connects /\ FreeOf(queue, op.id) /\ Awaits(calls'[op.id].pc, op)
      BY <1>2, <1>4
    <3> HIDE DEF WhoseInv
    <3>4. Line(Append(queue, op), calls', issued, latest)
      BY <1>1, <1>6, <3>1, <3>2, <3>3, LineAsks
    <3> QED  BY <2>2, <3>4 DEF InLine
  <2> QED  BY <2>1, <2>2
<1>8. ~(c > begun)
  BY DEF WhoseInv, Newest, NoCall
<1>9. Newest' /\ Idle'
  <2>1. \A d \in Connects : d > begun => calls'[d] = NoCall
    BY <1>2, <1>8 DEF WhoseInv, Newest
  <2>2. \A d \in Connects : latest = d /\ calls'[d].pc \in Chosen => tun' = calls'[d].tn
    BY <1>2 DEF WhoseInv, Newest
  <2> QED  BY <1>3, <2>1, <2>2 DEF WhoseInv, Newest, Idle
<1>10. Under'
  BY <1>3, Joined DEF WhoseInv
<1>11. Standing'
  <2> SUFFICES ASSUME NEW d \in Connects, Stands(d)', Last(d)'
               PROVE  /\ file'.there /\ token' = calls'[d].tok
                      /\ \A i \in 1..Len(queue') :
                           queue'[i].kind = "release" => queue'[i].tok \notin {NoToken, token'}
    BY DEF Standing
  <2>1. d # c /\ latest = d
    BY <1>2 DEF Stands
  <2>2. Stands(d) /\ Last(d) /\ calls'[d] = calls[d]
    BY <1>2, <1>3, <2>1 DEF Stands, Last
  <2>3. /\ file.there /\ token = calls[d].tok
        /\ \A i \in 1..Len(queue) : queue[i].kind = "release" => queue[i].tok \notin {NoToken, token}
    BY <2>2 DEF WhoseInv, Standing
  <2>4. op.kind # "release"
    BY <2>1
  <2>5. \A j \in 1..Len(queue') : queue'[j] = op \/ \E i \in 1..Len(queue) : queue'[j] = queue[i]
    BY <1>3, Joined
  <2> QED  BY <1>3, <2>2, <2>3, <2>4, <2>5
<1>12. Owed'
  <2>1. \A d \in Connects : calls'[d].tok = calls[d].tok \/ calls'[d].tok = NoToken
    BY <1>2
  <2> QED  BY <1>3, <2>1, OwedStays
<1> QED  BY <1>7, <1>9, <1>10, <1>11, <1>12 DEF WhoseInv

\* A connect asks for an engage, with the next receipt.
LEMMA Issues ==
  ASSUME IInv, WhoseInv, Owed, running, UNCHANGED <<CallRest, latest, begun, tun>>, issued' = issued + 1,
         NEW c \in Connects, calls[c].pc \in {"resolving", "starting"}, Goes(c, "engaging"),
         NEW op \in Ops, op.at = "first", Brings(op), op.who = "connect", op.id = c, op.tok = issued + 1,
         queue' = Append(queue, op)
  PROVE  WhoseInv' /\ Owed'
<1>1. calls \in [Connects -> Calls] /\ queue \in Queues /\ issued \in Nat
  BY Parts DEF Typed, CallersOK, GuardOK
<1>2. /\ calls'[c].pc = "engaging" /\ calls'[c].tok = calls[c].tok /\ calls'[c].tn = calls[c].tn
      /\ \A d \in Connects : d # c => calls'[d] = calls[d]
      /\ calls[c].pc \notin Waiting /\ calls[c].pc # "none" /\ calls[c].pc \in Chosen
      /\ \A d \in Connects : calls'[d].tok = calls[d].tok /\ calls'[d].tok \in Nat
  BY <1>1 DEF Goes, Calls, Waiting, Chosen
<1>3. UNCHANGED <<file, token, told, running>>
  BY DEF CallRest
<1>4. FreeOf(queue, c)
  BY <1>2, Free DEF WhoseInv, InLine, Line
<1>5. Line(queue, calls', issued, latest)
  <2>1. \A d \in Connects : calls'[d].pc = calls[d].pc \/ FreeOf(queue, d)
    BY <1>2, <1>4
  <2>2. Line(queue, calls, issued, latest) /\ \A d \in Connects : calls'[d].tok = calls[d].tok
    BY <1>2 DEF WhoseInv, InLine
  <2> QED  BY <1>1, <2>1, <2>2, LineCalls
<1>6. InLine'
  <2>1. Awaits(calls'[c].pc, op)
    BY <1>2 DEF Awaits
  <2>2. Line(Append(queue, op), calls', issued + 1, latest)
    BY <1>1, <1>2, <1>4, <1>5, <2>1, LineBrings
  <2> QED  BY <2>2 DEF InLine
<1>7. Newest' /\ Idle'
  <2>1. ~(c > begun)
    BY <1>2 DEF WhoseInv, Newest, NoCall
  <2>2. \A d \in Connects : d > begun => calls'[d] = NoCall
    BY <1>2, <2>1 DEF WhoseInv, Newest
  <2>3. \A d \in Connects : latest = d /\ calls'[d].pc \in Chosen => tun = calls'[d].tn
    BY <1>2 DEF WhoseInv, Newest
  <2> QED  BY <1>3, <2>2, <2>3 DEF WhoseInv, Newest, Idle
<1>8. Under'
  BY <1>3, Joined DEF WhoseInv
<1>9. Standing'
  <2>1. \A d \in Connects : calls'[d].tok # issued'
    BY <1>1, <1>2 DEF WhoseInv, InLine, Line, Receipts
  <2> QED  BY <2>1 DEF Standing, Last
<1>10. Owed'
  BY <1>2, <1>3, OwedStays
<1> QED  BY <1>6, <1>7, <1>8, <1>9, <1>10 DEF WhoseInv

\* Someone else asks for something; a release only when nobody's intent counts any
\* more, or no tunnel that stands is there to be guarded.
LEMMA OthersAsk ==
  ASSUME IInv, WhoseInv, Owed, running, UNCHANGED <<CallRest, issued, calls, begun, tun, up>>,
         latest' = latest \/ latest' = NoConnect,
         NEW op \in Ops, op.at = "first", ~Brings(op), op.who # "connect",
         op.kind = "release" => op.tok = NoToken /\ (latest' = NoConnect \/ ~GuardInUse),
         latest' # latest => op.kind = "release",
         queue' = Append(queue, op)
  PROVE  WhoseInv' /\ Owed'
<1>1. calls \in [Connects -> Calls] /\ queue \in Queues /\ issued \in Nat
  BY Parts DEF Typed, CallersOK, GuardOK
<1>2. UNCHANGED <<file, token, told, running>>
  BY DEF CallRest
<1>3. NoToken <= issued /\ \A i \in 1..Len(queue) : Brings(queue[i]) => NoToken < queue[i].tok
  BY NoTokenFirst DEF WhoseInv
<1>4. Line(queue, calls, issued, latest')
  BY LineLatest DEF WhoseInv, InLine
<1>5. op.kind = "release" => \A i \in 1..Len(queue) : Brings(queue[i]) => queue[i].id # latest'
  <2> SUFFICES ASSUME op.kind = "release", NEW i \in 1..Len(queue), Brings(queue[i]), queue[i].id = latest'
               PROVE  FALSE
    OBVIOUS
  <2>1. latest' \in Connects /\ calls[latest'].pc = "engaging"
    BY <1>4 DEF Line, OneEach, Awaits, Brings
  <2>2. latest' # NoConnect
    BY <2>1, Connecting
  <2> QED  BY <2>1, <2>2 DEF GuardInUse, InFlight
<1>6. InLine'
  <2>1. Line(Append(queue, op), calls, issued, latest')
    BY <1>1, <1>3, <1>4, <1>5, LineAsks
  <2> QED  BY <2>1 DEF InLine
<1>7. Newest' /\ Idle'
  <2>1. \A c \in Connects : latest' = c => latest = c
    BY Connecting
  <2> QED  BY <1>2, <2>1 DEF WhoseInv, Newest, Idle
<1>8. Under'
  BY <1>2, Joined DEF WhoseInv
<1>9. Standing'
  <2> SUFFICES ASSUME NEW d \in Connects, Stands(d)', Last(d)'
               PROVE  /\ file'.there /\ token' = calls'[d].tok
                      /\ \A i \in 1..Len(queue') :
                           queue'[i].kind = "release" => queue'[i].tok \notin {NoToken, token'}
    BY DEF Standing
  <2>1. latest' = d /\ latest = d /\ d # NoConnect
    BY Connecting DEF Stands
  <2>2. Stands(d) /\ Last(d)
    BY <1>2, <2>1 DEF Stands, Last
  <2>3. /\ file.there /\ token = calls[d].tok
        /\ \A i \in 1..Len(queue) : queue[i].kind = "release" => queue[i].tok \notin {NoToken, token}
    BY <2>2 DEF WhoseInv, Standing
  <2>4. tun \in up
    BY <2>1, <2>2 DEF WhoseInv, Newest, Stands, Chosen
  <2>5. op.kind # "release"
    BY <2>1, <2>4 DEF GuardInUse
  <2>6. \A j \in 1..Len(queue') : queue'[j] = op \/ \E i \in 1..Len(queue) : queue'[j] = queue[i]
    BY <1>2, Joined
  <2> QED  BY <1>2, <2>3, <2>5, <2>6
<1>10. Owed'
  <2>1. CASE latest' = latest
    BY <1>2, <2>1, OwedStays
  <2>2. CASE latest' # latest
    <3>1. Takes(op, token')
      BY <2>2 DEF Takes
    <3>2. \E j \in 1..Len(queue') : queue'[j] = op
      BY <1>2, Joined
    <3> QED  BY <3>1, <3>2 DEF Owed
  <2> QED  BY <2>1, <2>2
<1> QED  BY <1>6, <1>7, <1>8, <1>9, <1>10 DEF WhoseInv

\* An operation that a caller asks for without more.
LEMMA PlainOp ==
  ASSUME NEW k \in Kinds, NEW w \in Callers, NEW i \in Nat
  PROVE  /\ Op(k, w, i) \in Ops /\ Op(k, w, i).at = "first" /\ Op(k, w, i).kind = k
         /\ Op(k, w, i).who = w /\ Op(k, w, i).id = i /\ Op(k, w, i).tok = NoToken
<1>1. Op(k, w, i) \in Ops /\ Op(k, w, i).at = "first"
  BY OpType
<1> QED  BY <1>1 DEF Op

LEMMA ConnectWhose ==
  ASSUME IInv, WhoseInv, Owed, Connect
  PROVE  WhoseInv' /\ Owed'
<1>1. PICK p \in plans : Begins(begun + 1, p, FALSE)
  BY DEF Connect
<1>2. p \in Plans /\ FALSE \in BOOLEAN /\ queue \in Queues /\ issued \in Nat
  BY Parts DEF Typed, RestOK, GuardOK
<1>3. UNCHANGED <<queue, issued, tun, up, file, token, running>>
  BY DEF Connect, CallRest
<1>4. /\ Newest' /\ latest' # NoConnect /\ calls'[latest'].pc = "open" /\ latest' \in Connects
      /\ \A q : OneEach(q, calls) => FreeOf(q, latest')
      /\ \A c \in Connects : c # latest' => calls'[c] = calls[c]
      /\ calls'[latest'].tok = NoToken /\ calls[latest'].tok = NoToken
  BY <1>1, <1>2, <1>3, BeginsNext
<1>5. FreeOf(queue, latest')
  BY <1>4 DEF WhoseInv, InLine, Line
<1>6. Line(queue, calls', issued, latest)
  <2>1. \A c \in Connects : calls'[c].pc = calls[c].pc \/ FreeOf(queue, c)
    BY <1>4, <1>5
  <2>2. \A c \in Connects : calls'[c].tok = calls[c].tok
    BY <1>4
  <2>3. Line(queue, calls, issued, latest)
    BY DEF WhoseInv, InLine
  <2> QED  BY <1>2, <2>1, <2>2, <2>3, LineCalls
<1>7. InLine'
  BY <1>3, <1>5, <1>6, LineLatest DEF InLine
<1>8. Idle' /\ Under' /\ Owed'
  BY <1>3, <1>4 DEF Connect, Idle, Under, Owed, WhoseInv
<1>9. Standing'
  BY <1>4 DEF Standing, Stands
<1> QED  BY <1>4, <1>7, <1>8, <1>9 DEF WhoseInv

\* The records of a connect.
LEMMA CallOf ==
  ASSUME IInv, NEW c \in Connects
  PROVE  calls[c] \in Calls /\ calls \in [Connects -> Calls] /\ c \in Nat /\ c # NoConnect
  BY Parts, Connecting DEF Typed, CallersOK

LEMMA OpensWhose ==
  ASSUME IInv, WhoseInv, Owed, NEW c \in Connects, Opens(c)
  PROVE  WhoseInv' /\ Owed'
<1>1. calls[c] \in Calls /\ calls \in [Connects -> Calls] /\ c \in Nat
  BY CallOf
<1>2. /\ running /\ calls[c].pc = "open" /\ calls[c].pc \notin Waiting /\ calls[c].pc # "none"
      /\ UNCHANGED <<CallRest, issued, latest, begun, up>>
  BY DEF Opens, Calling, Waiting
<1>3. PICK op : op = Op("release", "connect", c)
  OBVIOUS
<1>4. op \in Ops /\ op.at = "first" /\ op.kind = "release" /\ op.id = c /\ op.tok = NoToken /\ ~Brings(op)
  BY <1>1, <1>3, PlainOp, KindsAndCallers DEF Brings
<1>5. CASE Goes(c, "gone") /\ UNCHANGED <<queue, tun>>
  <2>1. PICK r : r = [calls[c] EXCEPT !.pc = "gone"]
    OBVIOUS
  <2>2. calls' = [calls EXCEPT ![c] = r] /\ r.pc = "gone" /\ r.tok = calls[c].tok
    BY <1>1, <1>5, <2>1 DEF Goes, Calls
  <2>3. PICK o : o = Op("hold", "nobody", NoConnect)
    OBVIOUS
  <2>4. o \in Ops /\ o.at = "first" /\ o.kind = "hold" /\ o.who # "connect" /\ ~Brings(o)
    BY <2>3, PlainOp, KindsAndCallers DEF Brings
  <2> QED  BY <1>2, <1>5, <2>2, <2>4, Moves DEF Chosen
<1>6. CASE ~Stale(c) /\ Goes(c, "clearing") /\ Asks(op) /\ UNCHANGED tun
  <2>1. PICK r : r = [calls[c] EXCEPT !.pc = "clearing"]
    OBVIOUS
  <2>2. calls' = [calls EXCEPT ![c] = r] /\ r.pc = "clearing" /\ r.tok = calls[c].tok
    BY <1>1, <1>6, <2>1 DEF Goes, Calls
  <2>3. Awaits(r.pc, op) /\ r.pc \notin Chosen /\ latest = c
    BY <1>4, <1>6, <2>2 DEF Awaits, Chosen, Stale
  <2> QED  BY <1>2, <1>4, <1>6, <2>2, <2>3, Moves DEF Asks
<1>7. CASE ~Stale(c) /\ calls' = [calls EXCEPT ![c].pc = "selected", ![c].tn = tun'] /\ UNCHANGED queue
  <2>1. PICK r, t : t = tun' /\ r = [calls[c] EXCEPT !.pc = "selected", !.tn = t]
    OBVIOUS
  <2>2. calls' = [calls EXCEPT ![c] = r] /\ r.pc = "selected" /\ r.tok = calls[c].tok /\ r.tn = tun'
    BY <1>1, <1>7, <2>1 DEF Calls
  <2>3. latest = c
    BY <1>7 DEF Stale
  <2>4. PICK o : o = Op("hold", "nobody", NoConnect)
    OBVIOUS
  <2>5. o \in Ops /\ o.at = "first" /\ o.kind = "hold" /\ o.who # "connect" /\ ~Brings(o)
    BY <2>4, PlainOp, KindsAndCallers DEF Brings
  <2> QED  BY <1>2, <1>7, <2>2, <2>3, <2>5, Moves
<1> QED  BY <1>3, <1>5, <1>6, <1>7 DEF Opens

\* A connect that moves on and asks for nothing, with the tunnel it chose.
LEMMA MovesAlone ==
  ASSUME IInv, WhoseInv, Owed, running, UNCHANGED <<CallRest, issued, latest, begun, tun, queue>>,
         NEW c \in Connects, calls[c].pc \notin Waiting, calls[c].pc # "none",
         NEW r, calls' = [calls EXCEPT ![c] = r],
         r.tok = calls[c].tok \/ r.tok = NoToken, r.tn = calls[c].tn,
         r.pc = "stands" => r.tok = NoToken \/ r.plan \notin Guarded,
         r.pc \in Chosen => calls[c].pc \in Chosen,
         up' \subseteq up \/ latest = c
  PROVE  WhoseInv' /\ Owed'
<1>1. PICK o : o = Op("hold", "nobody", NoConnect)
  OBVIOUS
<1>2. o \in Ops /\ o.at = "first" /\ o.kind = "hold" /\ o.who # "connect" /\ ~Brings(o)
  BY <1>1, PlainOp, KindsAndCallers DEF Brings
<1>3. latest = c /\ r.pc \in Chosen => tun' = r.tn
  BY DEF WhoseInv, Newest
<1> QED  BY <1>2, <1>3, Moves

LEMMA GoesAlone ==
  ASSUME IInv, WhoseInv, Owed, running, UNCHANGED <<CallRest, issued, latest, begun, tun, queue>>,
         NEW c \in Connects, calls[c].pc \notin Waiting, calls[c].pc # "none",
         NEW pc, Goes(c, pc), pc \in Chosen => calls[c].pc \in Chosen,
         pc = "stands" => calls[c].plan \notin Guarded,
         up' \subseteq up \/ latest = c
  PROVE  WhoseInv' /\ Owed'
<1>1. PICK r : r = [calls[c] EXCEPT !.pc = pc]
  OBVIOUS
<1>2. /\ calls' = [calls EXCEPT ![c] = r] /\ r.pc = pc /\ r.tok = calls[c].tok /\ r.tn = calls[c].tn
      /\ r.plan = calls[c].plan
  BY <1>1, CallOf DEF Goes, Calls
<1> QED  BY <1>2, MovesAlone

\* The gate without a receipt: there is nothing to give back.
LEMMA SettlesAlone ==
  ASSUME IInv, WhoseInv, Owed, running, UNCHANGED <<CallRest, issued, latest, begun, tun>>,
         NEW c \in Connects, calls[c].pc \in Chosen, calls[c].pc \notin Waiting,
         Settle(c, NoToken, queue)
  PROVE  WhoseInv' /\ Owed'
<1>1. ~Undoes(c, NoToken)
  BY DEF Undoes
<1>2. PICK pc \in {"gone", "stands"} : calls' = [calls EXCEPT ![c].tok = NoToken, ![c].pc = pc]
  BY <1>1 DEF Settle
<1>3. queue' = queue /\ up' \subseteq up
  BY <1>1 DEF Settle
<1>4. PICK r : r = [calls[c] EXCEPT !.tok = NoToken, !.pc = pc]
  OBVIOUS
<1>5. /\ calls' = [calls EXCEPT ![c] = r] /\ r.pc = pc /\ r.tok = NoToken /\ r.tn = calls[c].tn
  BY <1>2, <1>4, CallOf DEF Calls
<1>6. calls[c].pc # "none"
  BY DEF Chosen
<1> QED  BY <1>3, <1>5, <1>6, MovesAlone

LEMMA FailsWhose ==
  ASSUME IInv, WhoseInv, Owed, NEW c \in Connects, Fails(c)
  PROVE  WhoseInv' /\ Owed'
<1>1. /\ running /\ calls[c].pc \in {"open", "selected"} /\ calls[c].pc \notin Waiting /\ calls[c].pc # "none"
      /\ UNCHANGED <<CallRest, issued, latest, begun, tun, up>> /\ latest = c
  BY DEF Fails, Calling, Stale, Waiting
<1>2. PICK op : op = Op("release", "nobody", NoConnect)
  OBVIOUS
<1>3. /\ op \in Ops /\ op.at = "first" /\ op.kind = "release" /\ op.who # "connect"
      /\ op.tok = NoToken /\ ~Brings(op)
  BY <1>2, PlainOp, KindsAndCallers DEF Brings
<1>4. queue' = queue \/ queue' = Append(queue, op)
  BY <1>2 DEF Fails
<1>5. PICK r : r = [calls[c] EXCEPT !.pc = "gone"]
  OBVIOUS
<1>6. calls' = [calls EXCEPT ![c] = r] /\ r.pc = "gone" /\ r.tok = calls[c].tok
  BY <1>5, CallOf DEF Fails, Goes, Calls
<1> QED  BY <1>1, <1>3, <1>4, <1>6, Moves DEF Chosen

LEMMA SelectsWhose ==
  ASSUME IInv, WhoseInv, Owed, NEW c \in Connects, Selects(c)
  PROVE  WhoseInv' /\ Owed'
<1>1. /\ running /\ calls[c].pc = "selected" /\ calls[c].pc \notin Waiting /\ calls[c].pc # "none"
      /\ calls[c].pc \in Chosen /\ UNCHANGED <<CallRest, issued, latest, begun, tun>>
  BY DEF Selects, Calling, Waiting, Chosen
<1>2. CASE /\ \E pc \in {"gone", "starting", "resolving"} : Goes(c, pc)
           /\ UNCHANGED <<queue, up>>
  BY <1>1, <1>2, GoesAlone
<1>3. CASE Goes(c, "holding") /\ Asks(Op("hold", "connect", c)) /\ UNCHANGED up
  <2>1. PICK op : op = Op("hold", "connect", c)
    OBVIOUS
  <2>2. /\ op \in Ops /\ op.at = "first" /\ op.kind = "hold" /\ op.id = c /\ ~Brings(op)
    BY <2>1, CallOf, PlainOp, KindsAndCallers DEF Brings
  <2>3. PICK r : r = [calls[c] EXCEPT !.pc = "holding"]
    OBVIOUS
  <2>4. /\ calls' = [calls EXCEPT ![c] = r] /\ r.pc = "holding" /\ r.tok = calls[c].tok
        /\ r.tn = calls[c].tn
    BY <1>3, <2>3, CallOf DEF Goes, Calls
  <2>5. Awaits(r.pc, op) /\ (latest = c => tun' = r.tn)
    BY <1>1, <2>2, <2>4 DEF Awaits, WhoseInv, Newest
  <2> QED  BY <1>1, <1>3, <2>1, <2>2, <2>4, <2>5, Moves DEF Asks
<1>4. CASE Settle(c, NoToken, queue)
  BY <1>1, <1>4, SettlesAlone
<1> QED  BY <1>2, <1>3, <1>4 DEF Selects

LEMMA ResolvesWhose ==
  ASSUME IInv, WhoseInv, Owed, NEW c \in Connects, Resolves(c)
  PROVE  WhoseInv' /\ Owed'
<1>1. /\ running /\ calls[c].pc = "resolving" /\ UNCHANGED <<CallRest, latest, begun, tun>>
      /\ issued' = issued + 1 /\ Goes(c, "engaging") /\ issued \in Nat
  BY Parts DEF Resolves, Calling, Typed, GuardOK
<1>2. PICK op : op = [Op("block", "connect", c) EXCEPT !.tok = issued']
  OBVIOUS
<1>3. /\ op \in Ops /\ op.at = "first" /\ Brings(op) /\ op.who = "connect" /\ op.id = c /\ op.tok = issued + 1
  <2>1. Op("block", "connect", c) \in Ops /\ Op("block", "connect", c).at = "first"
        /\ Op("block", "connect", c).kind = "block" /\ Op("block", "connect", c).who = "connect"
        /\ Op("block", "connect", c).id = c
    BY CallOf, PlainOp, KindsAndCallers
  <2>2. issued' \in Nat
    BY <1>1
  <2> QED  BY <1>1, <1>2, <2>1, <2>2 DEF Ops, Brings
<1>4. queue' = Append(queue, op)
  BY <1>2 DEF Resolves, Asks
<1> QED  BY <1>1, <1>3, <1>4, Issues

LEMMA TunnelStartsWhose ==
  ASSUME IInv, WhoseInv, Owed, NEW c \in Connects, TunnelStarts(c)
  PROVE  WhoseInv' /\ Owed'
<1>1. /\ running /\ calls[c].pc = "starting" /\ UNCHANGED <<CallRest, latest, begun, tun>>
      /\ calls[c].pc \notin Waiting /\ calls[c].pc # "none" /\ calls[c].pc \in Chosen /\ issued \in Nat
  BY Parts DEF TunnelStarts, Calling, Waiting, Chosen, Typed, GuardOK
<1>2. CASE calls[c].plan \in Guarded
  <2>1. issued' = issued + 1 /\ Goes(c, "engaging")
    BY <1>2 DEF TunnelStarts
  <2>2. PICK strict : strict = (calls[c].plan = "strict")
    OBVIOUS
  <2>3. PICK op : op = [Op("engage", "connect", c) EXCEPT !.tok = issued', !.strict = strict]
    OBVIOUS
  <2>4. /\ op \in Ops /\ op.at = "first" /\ Brings(op) /\ op.who = "connect" /\ op.id = c /\ op.tok = issued + 1
    <3>1. Op("engage", "connect", c) \in Ops /\ Op("engage", "connect", c).at = "first"
          /\ Op("engage", "connect", c).kind = "engage" /\ Op("engage", "connect", c).who = "connect"
          /\ Op("engage", "connect", c).id = c
      BY CallOf, PlainOp, KindsAndCallers
    <3>2. issued' \in Nat /\ strict \in BOOLEAN
      BY <1>1, <2>1, <2>2
    <3> QED  BY <2>1, <2>3, <3>1, <3>2 DEF Ops, Brings
  <2>5. queue' = Append(queue, op)
    BY <1>2, <2>2, <2>3 DEF TunnelStarts, Asks
  <2> QED  BY <1>1, <2>1, <2>4, <2>5, Issues
<1>3. CASE calls[c].plan \notin Guarded
  <2>1. UNCHANGED <<queue, issued>>
    BY <1>3 DEF TunnelStarts
  <2>2. CASE Stale(c)
    <3>1. Goes(c, "gone") /\ up' \subseteq up
      BY <1>3, <2>2 DEF TunnelStarts
    <3> QED  BY <1>1, <2>1, <3>1, GoesAlone
  <2>3. CASE ~Stale(c)
    <3>1. Goes(c, "stands") /\ latest = c
      BY <1>3, <2>3 DEF TunnelStarts, Stale
    <3> QED  BY <1>1, <1>3, <2>1, <3>1, GoesAlone
  <2> QED  BY <2>2, <2>3
<1> QED  BY <1>2, <1>3

LEMMA TunnelFailsWhose ==
  ASSUME IInv, WhoseInv, Owed, NEW c \in Connects, TunnelFails(c)
  PROVE  WhoseInv' /\ Owed'
<1>1. /\ running /\ calls[c].pc = "starting" /\ UNCHANGED <<CallRest, issued, latest, begun, tun>>
      /\ calls[c].pc \notin Waiting /\ calls[c].pc # "none" /\ calls[c].pc \in Chosen
  BY DEF TunnelFails, Calling, Waiting, Chosen
<1>2. CASE ~Stale(c) /\ Goes(c, "stranded") /\ Asks(Op("release", "connect", c)) /\ UNCHANGED up
  <2>1. PICK op : op = Op("release", "connect", c)
    OBVIOUS
  <2>2. /\ op \in Ops /\ op.at = "first" /\ op.kind = "release" /\ op.id = c /\ op.tok = NoToken /\ ~Brings(op)
    BY <2>1, CallOf, PlainOp, KindsAndCallers DEF Brings
  <2>3. PICK r : r = [calls[c] EXCEPT !.pc = "stranded"]
    OBVIOUS
  <2>4. /\ calls' = [calls EXCEPT ![c] = r] /\ r.pc = "stranded" /\ r.tok = calls[c].tok
        /\ r.tn = calls[c].tn
    BY <1>2, <2>3, CallOf DEF Goes, Calls
  <2>5. Awaits(r.pc, op) /\ latest = c /\ tun' = r.tn
    BY <1>1, <1>2, <2>2, <2>4 DEF Awaits, WhoseInv, Newest, Stale
  <2> QED  BY <1>1, <1>2, <2>1, <2>2, <2>4, <2>5, Moves DEF Asks
<1>3. CASE Settle(c, NoToken, queue)
  BY <1>1, <1>3, SettlesAlone
<1> QED  BY <1>2, <1>3 DEF TunnelFails

LEMMA ReapplyWhose ==
  ASSUME IInv, WhoseInv, Owed, Reapply
  PROVE  WhoseInv' /\ Owed'
<1>1. PICK op : op = Op("hold", "apply", NoConnect)
  OBVIOUS
<1>2. op \in Ops /\ op.at = "first" /\ op.kind = "hold" /\ op.who # "connect" /\ ~Brings(op)
  BY <1>1, PlainOp, KindsAndCallers DEF Brings
<1>3. running /\ UNCHANGED <<CallRest, issued, calls, begun, tun, up, latest>> /\ queue' = Append(queue, op)
  BY <1>1 DEF Reapply, Asks, conn
<1> QED  BY <1>2, <1>3, OthersAsk

LEMMA DisconnectWhose ==
  ASSUME IInv, WhoseInv, Owed, Disconnect
  PROVE  WhoseInv' /\ Owed'
<1>1. PICK op : op = Op("release", "disconnect", NoConnect)
  OBVIOUS
<1>2. /\ op \in Ops /\ op.at = "first" /\ op.kind = "release" /\ op.who # "connect" /\ ~Brings(op)
      /\ op.tok = NoToken
  BY <1>1, PlainOp, KindsAndCallers DEF Brings
<1>3. /\ running /\ UNCHANGED <<CallRest, issued, calls, begun, tun, up>> /\ latest' = NoConnect
      /\ queue' = Append(queue, op)
  BY <1>1 DEF Disconnect, Asks
<1> QED  BY <1>2, <1>3, OthersAsk

LEMMA ButtonWhose ==
  ASSUME IInv, WhoseInv, Owed, Button
  PROVE  WhoseInv' /\ Owed'
<1>1. PICK op : op = Op("release", "nobody", NoConnect)
  OBVIOUS
<1>2. /\ op \in Ops /\ op.at = "first" /\ op.kind = "release" /\ op.who # "connect" /\ ~Brings(op)
      /\ op.tok = NoToken
  BY <1>1, PlainOp, KindsAndCallers DEF Brings
<1>3. /\ running /\ UNCHANGED <<CallRest, issued, calls, begun, tun, up, latest>> /\ ~GuardInUse
      /\ queue' = Append(queue, op)
  BY <1>1 DEF Button, Asks, callers, conn
<1> QED  BY <1>2, <1>3, OthersAsk

LEMMA TickWhose ==
  ASSUME IInv, WhoseInv, Owed, Tick
  PROVE  WhoseInv' /\ Owed'
<1>1. PICK full : full = (watch.ticks = 0)
  OBVIOUS
<1>2. PICK op : op = [Op("refresh", "watch", NoConnect) EXCEPT !.tok = watch.tok, !.full = full]
  OBVIOUS
<1>3. op \in Ops /\ op.at = "first" /\ op.kind = "refresh" /\ op.who # "connect" /\ ~Brings(op)
  <2>1. /\ Op("refresh", "watch", NoConnect) \in Ops /\ Op("refresh", "watch", NoConnect).at = "first"
        /\ Op("refresh", "watch", NoConnect).kind = "refresh" /\ Op("refresh", "watch", NoConnect).who = "watch"
    BY PlainOp, KindsAndCallers
  <2>2. watch.tok \in Nat /\ full \in BOOLEAN
    BY <1>1, Parts DEF Typed, CallersOK, Watches
  <2> QED  BY <1>2, <2>1, <2>2 DEF Ops, Brings
<1>4. /\ running /\ UNCHANGED <<CallRest, issued, calls, begun, tun, up, latest>>
      /\ queue' = Append(queue, op)
  BY <1>1, <1>2 DEF Tick, Asks, callers, conn
<1> QED  BY <1>3, <1>4, OthersAsk

-----------------------------------------------------------------------------
(* The end of the process, its launch, and others.                         *)

LEMMA EndWhose ==
  ASSUME IInv, WhoseInv, Owed, Crash \/ Exit
  PROVE  WhoseInv' /\ Owed'
<1>1. Forgets
  BY DEF Crash, Exit
<1>2. /\ running' = FALSE /\ queue' = <<>> /\ latest' = NoConnect /\ begun' = begun /\ issued' = 0
      /\ calls' = [c \in Connects |-> [NoCall EXCEPT !.pc = IF c <= begun THEN "gone" ELSE "none"]]
  BY <1>1 DEF Forgets
<1>3. begun \in Nat
  BY Parts DEF Typed, CallersOK, Ids
<1>4. \A c \in Connects : calls'[c].tok = NoToken /\ (c > begun => calls'[c] = NoCall)
  <2> SUFFICES ASSUME NEW c \in Connects
               PROVE  calls'[c].tok = NoToken /\ (c > begun => calls'[c] = NoCall)
    OBVIOUS
  <2>1. c \in Nat
    BY Connecting
  <2>2. c > begun => ~(c <= begun)
    BY <1>3, <2>1
  <2>3. c > begun => calls'[c] = [NoCall EXCEPT !.pc = "none"]
    BY <1>2, <2>2
  <2>4. [NoCall EXCEPT !.pc = "none"] = NoCall
    <3>1. NoCall.pc = "none"
      BY DEF NoCall
    <3>2. NoCall \in [pc : {"none"}, plan : {"plain"}, keep : {FALSE}, tn : {NoConnect}, tok : {NoToken}]
      BY DEF NoCall
    <3> QED  BY <3>1, <3>2
  <2>5. calls'[c].tok = NoToken
    BY <1>2 DEF NoCall
  <2> QED  BY <2>3, <2>4, <2>5
<1>5. \A c \in Connects : c # NoConnect
  BY Connecting
<1>6. Len(queue') = 0
  BY <1>2
<1>7. InLine'
  BY <1>2, <1>4, <1>6 DEF InLine, Line, OneEach, Receipts, Spared, NoToken
<1>8. Newest' /\ Idle' /\ Under' /\ Standing' /\ Owed'
  BY <1>2, <1>4, <1>5 DEF Newest, Idle, Under, Standing, Stands, Owed
<1> QED  BY <1>7, <1>8 DEF WhoseInv

LEMMA LaunchWhose ==
  ASSUME IInv, WhoseInv, Owed, Launch
  PROVE  WhoseInv' /\ Owed'
<1>1. /\ ~running /\ running' = TRUE /\ queue = <<>> /\ latest = NoConnect
      /\ UNCHANGED <<file, token, issued, calls, begun, latest, tun, up, told>>
  BY DEF Launch, WhoseInv, Idle, guard, callers, conn
<1>2. PICK op : op = Op("release", "nobody", NoConnect)
  OBVIOUS
<1>3. /\ op \in Ops /\ op.at = "first" /\ op.kind = "release" /\ op.who # "connect" /\ ~Brings(op)
      /\ op.tok = NoToken
  BY <1>2, PlainOp, KindsAndCallers DEF Brings
<1>4. queue' = IF file.there THEN <<op>> ELSE <<>>
  BY <1>2 DEF Launch
<1>5. issued \in Nat
  BY Parts DEF Typed, GuardOK
<1>6. \A i \in 1..Len(queue') : queue'[i] = op
  BY <1>4
<1>7. InLine'
  BY <1>1, <1>3, <1>5, <1>6 DEF WhoseInv, InLine, Line, OneEach, Receipts, Spared, NoToken
<1>8. \A c \in Connects : c # NoConnect
  BY Connecting
<1>9. Newest' /\ Idle' /\ Standing'
  BY <1>1, <1>8 DEF WhoseInv, Newest, Idle, Standing, Stands
<1>10. queue' # <<>> => Head(queue') = op
  BY <1>4
<1>11. Under'
  BY <1>3, <1>10 DEF Under, Working
<1>12. Owed'
  <2>1. file.there => \E i \in 1..Len(queue') : Takes(queue'[i], token')
    <3>1. file.there => 1 \in 1..Len(queue') /\ queue'[1] = op
      BY <1>4
    <3> QED  BY <1>3, <3>1 DEF Takes
  <2> QED  BY <1>1, <2>1 DEF Owed
<1> QED  BY <1>7, <1>9, <1>11, <1>12 DEF WhoseInv

\* What others do to adapters is nobody's receipt.
LEMMA StutterWhose ==
  ASSUME IInv, WhoseInv, Owed, UNCHANGED <<file, running, queue, guard, callers, told>>
  PROVE  WhoseInv' /\ Owed'
  BY DEF guard, callers, conn, WhoseInv, Newest, Idle, InLine, Under, Standing, Stands, Last, Owed, Unreceipted

LEMMA InitWhose == Init => WhoseInv /\ Owed
<1> SUFFICES ASSUME Init
             PROVE  WhoseInv /\ Owed
  OBVIOUS
<1>1. /\ queue = <<>> /\ latest = NoConnect /\ running /\ issued = 0 /\ ~file.there
      /\ \A c \in Connects : calls[c] = NoCall /\ calls[c].tok = NoToken /\ c # NoConnect
  BY Connecting DEF Init, NoCall, NoFile
<1>2. Len(queue) = 0
  BY <1>1
<1>3. InLine
  BY <1>1, <1>2 DEF InLine, Line, OneEach, Receipts, Spared, NoToken
<1> QED  BY <1>1, <1>3 DEF WhoseInv, Newest, Idle, Under, Standing, Stands, Owed

LEMMA NextWhose == IInv /\ WhoseInv /\ Owed /\ [Next]_vars => WhoseInv' /\ Owed'
<1> SUFFICES ASSUME IInv, WhoseInv, Owed, [Next]_vars
             PROVE  WhoseInv' /\ Owed'
  OBVIOUS
<1>1. CASE Work
  BY <1>1, WorkKeeps
<1>2. CASE MainCalls
  BY <1>2, ConnectWhose, ReapplyWhose, DisconnectWhose, ButtonWhose, OpensWhose, FailsWhose, SelectsWhose,
     ResolvesWhose, TunnelStartsWhose, TunnelFailsWhose DEF MainCalls
<1>3. CASE Tick
  BY <1>3, TickWhose
<1>4. CASE Crash \/ Exit
  BY <1>4, EndWhose
<1>5. CASE Launch
  BY <1>5, LaunchWhose
<1>6. CASE Environment
  BY <1>6, StutterWhose DEF Environment, Drifts, Plugs
<1>7. CASE Rest \/ UNCHANGED vars
  BY <1>7, StutterWhose DEF Rest, vars, machine
<1> QED  BY <1>1, <1>2, <1>3, <1>4, <1>5, <1>6, <1>7 DEF Next

LEMMA WhoseInvariant == Spec => [](IInv /\ WhoseInv /\ Owed)
  BY InitIInv, NextIInv, InitWhose, NextWhose, PTL DEF Spec

\* No overtaken connect, stranded release, failed connect, button or crash takes the
\* guard of a connection that stands over its tunnel and engaged last: its state
\* file is there and its receipt is the live one (release and _owns of leakGuard.js,
\* the gates of main.js).
THEOREM GuardAlwaysStands == Spec => []GuardStands
<1>1. WhoseInv => GuardStands
  BY DEF WhoseInv, Standing, GuardStands
<1> QED  BY WhoseInvariant, <1>1, PTL

\* After a disconnect, or a launch over what a crash left, the guard that came to
\* rest is gone, or the user was told that it could not be given back - whatever
\* connects were still under way; but for a UDP block whose script failed.
THEOREM DisconnectAlwaysGivesBack == Spec => []DisconnectGivesBack
<1>1. Owed => DisconnectGivesBack
  BY DEF Owed, DisconnectGivesBack, Quiet
<1> QED  BY WhoseInvariant, <1>1, PTL
=============================================================================
