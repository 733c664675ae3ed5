----------------------------- MODULE UsageProof -----------------------------
(***************************************************************************)
(* That every byte is counted once, that a clean meter is on the disk, and *)
(* that the caps are held to the core that runs: for any configs,          *)
(* internets, caps, saving intervals and budgets of events.                *)
(***************************************************************************)
EXTENDS Usage, FiniteSetTheorems, WellFoundedInduction, TLAPS

(* Sums.  A set without a smallest exception has none. *)
LEMMA LeastSubset ==
  ASSUME NEW S, IsFiniteSet(S), NEW F, F \subseteq SUBSET S, F # {}
  PROVE  \E T \in F : \A U \in F : U \subseteq T => U = T
  <1>1. IsWellFoundedOn(StrictSubsetOrdering(S), SUBSET S)
    BY FS_StrictSubsetOrderingWellFounded, FS_FiniteSubsetsOfFinite
  <1>2. PICK T \in F : \A U \in F : ~(<<U, T>> \in StrictSubsetOrdering(S))
    BY <1>1, WFMin
  <1> QED
    BY <1>2 DEF StrictSubsetOrdering

Picked(s) == CHOOSE x \in s : TRUE
Adds(T, f, g) ==
  g = [s \in SUBSET T |-> IF s = {} THEN 0 ELSE f[Picked(s)] + g[s \ {Picked(s)}]]

LEMMA Smaller == ASSUME NEW s, s # {} PROVE Picked(s) \in s /\ s \ {Picked(s)} \subseteq s /\ s \ {Picked(s)} # s
  BY DEF Picked

LEMMA AddsAt ==
  ASSUME NEW T, NEW f, NEW g, Adds(T, f, g), NEW s \in SUBSET T
  PROVE  g[s] = IF s = {} THEN 0 ELSE f[Picked(s)] + g[s \ {Picked(s)}]
  BY DEF Adds

LEMMA OneSum ==
  ASSUME NEW S, IsFiniteSet(S), NEW f, NEW T \in SUBSET S, NEW U \in SUBSET S,
         NEW g, Adds(T, f, g), NEW h, Adds(U, f, h)
  PROVE  \A s \in SUBSET (T \cap U) : g[s] = h[s]
  <1> DEFINE F == {s \in SUBSET (T \cap U) : g[s] # h[s]}
  <1>1. SUFFICES ASSUME F # {} PROVE FALSE
    OBVIOUS
  <1>2. PICK s \in F : \A r \in F : r \subseteq s => r = s
    <2>1. F \subseteq SUBSET S
      OBVIOUS
    <2> HIDE DEF F
    <2> QED
      BY <1>1, <2>1, LeastSubset
  <1>3. /\ g[s] = IF s = {} THEN 0 ELSE f[Picked(s)] + g[s \ {Picked(s)}]
        /\ h[s] = IF s = {} THEN 0 ELSE f[Picked(s)] + h[s \ {Picked(s)}]
    BY DEF Adds
  <1>4. s # {}
    BY <1>3
  <1>5. s \ {Picked(s)} \notin F /\ s \ {Picked(s)} \in SUBSET (T \cap U)
    BY <1>2, <1>4, Smaller
  <1> QED
    BY <1>3, <1>4, <1>5

LEMMA SumExists ==
  ASSUME NEW S, IsFiniteSet(S), NEW f
  PROVE  \A T \in SUBSET S : \E g : Adds(T, f, g)
  <1> DEFINE F == {T \in SUBSET S : ~\E g : Adds(T, f, g)}
  <1>1. SUFFICES ASSUME F # {} PROVE FALSE
    OBVIOUS
  <1>2. PICK T \in F : \A U \in F : U \subseteq T => U = T
    <2>1. F \subseteq SUBSET S
      OBVIOUS
    <2> HIDE DEF F
    <2> QED
      BY <1>1, <2>1, LeastSubset
  <1> DEFINE Of(s) == CHOOSE g : Adds(s, f, g)
             At(s) == Of(s)[s]
             Value(s) == IF s = {} THEN 0 ELSE f[Picked(s)] + At(s \ {Picked(s)})
             G == [s \in SUBSET T |-> Value(s)]
  <1>3. ASSUME NEW s \in SUBSET T, s # T PROVE Adds(s, f, Of(s))
    BY <1>2, <1>3
  <1>4. ASSUME NEW s \in SUBSET T, s # T PROVE At(s) = Value(s)
    <2>1. At(s) = IF s = {} THEN 0 ELSE f[Picked(s)] + Of(s)[s \ {Picked(s)}]
      <3>1. Adds(s, f, Of(s)) /\ s \in SUBSET s
        BY <1>3, <1>4
      <3> HIDE DEF Of
      <3> QED
        BY <3>1, AddsAt
    <2>2. CASE s = {}
      BY <2>1, <2>2
    <2>3. CASE s # {}
      <3> DEFINE r == s \ {Picked(s)}
      <3>1. r \in SUBSET s /\ r # s /\ r \in SUBSET T /\ r # T
        BY <2>3, Smaller
      <3>2. Adds(r, f, Of(r)) /\ Adds(s, f, Of(s))
        BY <1>3, <1>4, <3>1
      <3>3. Of(s)[r] = Of(r)[r]
        BY <3>1, <3>2, OneSum
      <3> QED
        BY <2>1, <2>3, <3>3
    <2> QED
      BY <2>2, <2>3
  <1>5. ASSUME NEW s \in SUBSET T, s # {} PROVE G[s \ {Picked(s)}] = At(s \ {Picked(s)})
    <2>1. s \ {Picked(s)} \in SUBSET T /\ s \ {Picked(s)} # T
      BY <1>5, Smaller
    <2> QED
      BY <1>4, <2>1
  <1>6. \A s \in SUBSET T : Value(s) = IF s = {} THEN 0 ELSE f[Picked(s)] + G[s \ {Picked(s)}]
    <2> HIDE DEF G, At
    <2> QED
      BY <1>5
  <1>7. G = [s \in SUBSET T |-> IF s = {} THEN 0 ELSE f[Picked(s)] + G[s \ {Picked(s)}]]
    <2> DEFINE H == G
    <2>1. H = [s \in SUBSET T |-> Value(s)]
      OBVIOUS
    <2>2. \A s \in SUBSET T : Value(s) = IF s = {} THEN 0 ELSE f[Picked(s)] + H[s \ {Picked(s)}]
      BY <1>6
    <2> HIDE DEF H, Value
    <2>3. H = [s \in SUBSET T |-> IF s = {} THEN 0 ELSE f[Picked(s)] + H[s \ {Picked(s)}]]
      BY <2>1, <2>2
    <2> QED
      BY <2>3 DEF H
  <1>8. Adds(T, f, G)
    BY <1>7 DEF Adds
  <1> QED
    BY <1>2, <1>8

(* What a sum adds up to, one element after the other. *)
LEMMA SumSteps ==
  ASSUME NEW S, IsFiniteSet(S), NEW f, DOMAIN f = S
  PROVE  \E g : Adds(S, f, g) /\ Sum(f) = g[S]
  <1> DEFINE G == CHOOSE g : Adds(S, f, g)
  <1>1. Adds(S, f, G)
    BY SumExists
  <1>2. Sum(f) = (CHOOSE g : g = [s \in SUBSET DOMAIN f |-> IF s = {} THEN 0 ELSE f[Picked(s)] + g[s \ {Picked(s)}]])[DOMAIN f]
    BY DEF Sum, FoldFunction, FoldFunctionOnSet, MapThenFoldSet, Picked
  <1>3. Sum(f) = G[S]
    BY <1>2 DEF Adds
  <1> QED
    BY <1>1, <1>3

LEMMA SumTyped ==
  ASSUME NEW S, IsFiniteSet(S), NEW f \in [S -> Nat]
  PROVE  Sum(f) \in Nat
  <1>1. PICK g : Adds(S, f, g) /\ Sum(f) = g[S]
    BY SumSteps
  <1> DEFINE F == {s \in SUBSET S : g[s] \notin Nat}
  <1>2. SUFFICES ASSUME F # {} PROVE FALSE
    BY <1>1
  <1>3. PICK s \in F : \A r \in F : r \subseteq s => r = s
    <2>1. F \subseteq SUBSET S
      OBVIOUS
    <2> HIDE DEF F
    <2> QED
      BY <1>2, <2>1, LeastSubset
  <1>4. g[s] = IF s = {} THEN 0 ELSE f[Picked(s)] + g[s \ {Picked(s)}]
    BY <1>1 DEF Adds
  <1>5. s # {}
    BY <1>4
  <1>6. g[s \ {Picked(s)}] \in Nat /\ Picked(s) \in S
    BY <1>3, <1>5, Smaller
  <1> QED
    BY <1>4, <1>5, <1>6

LEMMA SumsAdd ==
  ASSUME NEW S, IsFiniteSet(S), NEW f \in [S -> Nat], NEW h \in [S -> Nat], NEW k \in [S -> Nat],
         \A x \in S : k[x] = f[x] + h[x]
  PROVE  Sum(k) = Sum(f) + Sum(h)
  <1>1. PICK a : Adds(S, f, a) /\ Sum(f) = a[S]
    BY SumSteps
  <1>2. PICK b : Adds(S, h, b) /\ Sum(h) = b[S]
    BY SumSteps
  <1>3. PICK c : Adds(S, k, c) /\ Sum(k) = c[S]
    BY SumSteps
  <1> DEFINE Right(s) == a[s] \in Nat /\ b[s] \in Nat /\ c[s] = a[s] + b[s]
             F == {s \in SUBSET S : ~Right(s)}
  <1>4. SUFFICES ASSUME F # {} PROVE FALSE
    BY <1>1, <1>2, <1>3
  <1>5. PICK s \in F : \A r \in F : r \subseteq s => r = s
    <2>1. F \subseteq SUBSET S
      OBVIOUS
    <2> HIDE DEF F
    <2> QED
      BY <1>4, <2>1, LeastSubset
  <1>6. /\ a[s] = IF s = {} THEN 0 ELSE f[Picked(s)] + a[s \ {Picked(s)}]
        /\ b[s] = IF s = {} THEN 0 ELSE h[Picked(s)] + b[s \ {Picked(s)}]
        /\ c[s] = IF s = {} THEN 0 ELSE k[Picked(s)] + c[s \ {Picked(s)}]
    BY <1>1, <1>2, <1>3 DEF Adds
  <1>7. s # {}
    BY <1>6
  <1>8. Right(s \ {Picked(s)}) /\ Picked(s) \in S
    BY <1>5, <1>7, Smaller
  <1>9. f[Picked(s)] \in Nat /\ h[Picked(s)] \in Nat /\ k[Picked(s)] = f[Picked(s)] + h[Picked(s)]
    BY <1>8
  <1> QED
    BY <1>6, <1>7, <1>8, <1>9

LEMMA SumOne ==
  ASSUME NEW S, IsFiniteSet(S), NEW l \in S
  PROVE  Sum([x \in S |-> IF x = l THEN 1 ELSE 0]) = 1
  <1> DEFINE f == [x \in S |-> IF x = l THEN 1 ELSE 0]
  <1>1. PICK g : Adds(S, f, g) /\ Sum(f) = g[S]
    BY SumSteps
  <1> DEFINE F == {s \in SUBSET S : g[s] # IF l \in s THEN 1 ELSE 0}
  <1>2. SUFFICES ASSUME F # {} PROVE FALSE
    BY <1>1
  <1>3. PICK s \in F : \A r \in F : r \subseteq s => r = s
    <2>1. F \subseteq SUBSET S
      OBVIOUS
    <2> HIDE DEF F
    <2> QED
      BY <1>2, <2>1, LeastSubset
  <1>4. g[s] = IF s = {} THEN 0 ELSE f[Picked(s)] + g[s \ {Picked(s)}]
    BY <1>1 DEF Adds
  <1>5. s # {}
    BY <1>4
  <1>6. g[s \ {Picked(s)}] = IF l \in s \ {Picked(s)} THEN 1 ELSE 0
    BY <1>3, <1>5, Smaller
  <1>7. f[Picked(s)] = IF Picked(s) = l THEN 1 ELSE 0
    BY <1>5, Smaller
  <1>8. Picked(s) \in s
    BY <1>5, Smaller
  <1> HIDE DEF f
  <1> QED
    BY <1>4, <1>5, <1>6, <1>7, <1>8

LEMMA SumZero ==
  ASSUME NEW S, IsFiniteSet(S)
  PROVE  Sum(Zero(S)) = 0
  <1>1. Zero(S) \in [S -> Nat] /\ \A x \in S : Zero(S)[x] = Zero(S)[x] + Zero(S)[x]
    BY DEF Zero
  <1> QED
    BY <1>1, SumsAdd, SumTyped

-----------------------------------------------------------------------------
(* Bytes given by internet. *)

Vectors == [Links -> Nat]
Behind(v, w) == \A l \in Links : v[l] <= w[l]

LEMMA LinksFinite == IsFiniteSet(Links)
  BY UsageAssumption

LEMMA LinkSum == ASSUME NEW v \in Vectors PROVE Sum(v) \in Nat
  BY LinksFinite, SumTyped DEF Vectors

LEMMA ZeroSum == Zero(Links) \in Vectors /\ Sum(Zero(Links)) = 0
  BY LinksFinite, SumZero DEF Zero, Vectors

(* What one has more than another, in all. *)
LEMMA SumApart ==
  ASSUME NEW v \in Vectors, NEW w \in Vectors, Behind(v, w)
  PROVE  /\ [l \in Links |-> w[l] - v[l]] \in Vectors
         /\ Sum([l \in Links |-> w[l] - v[l]]) = Sum(w) - Sum(v)
         /\ Sum(v) <= Sum(w)
  <1> DEFINE d == [l \in Links |-> w[l] - v[l]]
  <1>1. d \in Vectors
    BY DEF Behind, Vectors
  <1>2. \A l \in Links : w[l] = v[l] + d[l]
    BY DEF Vectors
  <1>3. Sum(w) = Sum(v) + Sum(d)
    <2> HIDE DEF d
    <2> QED
      BY <1>1, <1>2, LinksFinite, SumsAdd DEF Vectors
  <1>4. Sum(w) \in Nat /\ Sum(v) \in Nat /\ Sum(d) \in Nat
    BY <1>1, LinkSum
  <1> QED
    BY <1>1, <1>3, <1>4

LEMMA SumNext ==
  ASSUME NEW v \in Vectors, NEW l \in Links
  PROVE  [v EXCEPT ![l] = @ + 1] \in Vectors /\ Sum([v EXCEPT ![l] = @ + 1]) = Sum(v) + 1
  <1> DEFINE one == [k \in Links |-> IF k = l THEN 1 ELSE 0]
             w == [v EXCEPT ![l] = @ + 1]
  <1>1. one \in [Links -> Nat] /\ w \in [Links -> Nat] /\ v \in [Links -> Nat]
    BY DEF Vectors
  <1>2. \A k \in Links : w[k] = v[k] + one[k]
    BY DEF Vectors
  <1>3. Sum(one) = 1
    BY LinksFinite, SumOne
  <1>4. Sum(w) = Sum(v) + Sum(one)
    <2> HIDE DEF one, w
    <2> QED
      BY <1>1, <1>2, LinksFinite, SumsAdd
  <1> QED
    BY <1>1, <1>3, <1>4 DEF Vectors

(* What a core carried that no poll has counted. *)
Rest(c) == Spread(c.srv, [l \in Links |-> c.via[l] - c.counted[l]])

LEMMA RestIs ==
  ASSUME NEW c \in Cores, Behind(c.counted, c.via), NEW id \in Ids
  PROVE  /\ Rest(c)[id] = IF id = c.srv THEN Sum(c.via) - Sum(c.counted)
                          ELSE IF id \in Links THEN c.via[id] - c.counted[id] ELSE 0
         /\ Rest(c)[id] \in Nat
  <1>1. c.via \in Vectors /\ c.counted \in Vectors
    BY DEF Cores, Vectors
  <1>2. /\ [l \in Links |-> c.via[l] - c.counted[l]] \in Vectors
        /\ Sum([l \in Links |-> c.via[l] - c.counted[l]]) = Sum(c.via) - Sum(c.counted)
        /\ Sum(c.counted) <= Sum(c.via)
    BY <1>1, SumApart
  <1>3. Sum(c.via) \in Nat /\ Sum(c.counted) \in Nat
    BY <1>1, LinkSum
  <1>4. Rest(c)[id] = IF id = c.srv THEN Sum(c.via) - Sum(c.counted)
                      ELSE IF id \in Links THEN c.via[id] - c.counted[id] ELSE 0
    BY <1>2 DEF Rest, Spread
  <1> QED
    BY <1>1, <1>2, <1>3, <1>4 DEF Behind, Vectors

(* A core that begins, or none. *)
LEMMA NoRest ==
  ASSUME NEW s \in Servers \cup {None}, NEW skip \in SUBSET Links
  PROVE  /\ Fresh(s, skip) \in Cores /\ Behind(Fresh(s, skip).counted, Fresh(s, skip).via)
         /\ \A id \in Ids : Rest(Fresh(s, skip))[id] = 0
  <1> DEFINE c == Fresh(s, skip)
  <1>1. c \in Cores /\ c.srv = s /\ c.via = Zero(Links) /\ c.counted = Zero(Links)
    BY ZeroSum DEF Fresh, Cores, Vectors
  <1>2. Behind(c.counted, c.via)
    BY <1>1 DEF Behind, Zero
  <1>3. ASSUME NEW id \in Ids PROVE Rest(c)[id] = 0
    <2> HIDE DEF c
    <2> QED
      BY <1>1, <1>2, RestIs, ZeroSum DEF Zero
  <1> QED
    BY <1>1, <1>2, <1>3

LEMMA RestCarried ==
  ASSUME NEW c \in Cores, Behind(c.counted, c.via), c.srv \in Servers, NEW l \in Links,
         NEW d, d.srv = c.srv, d.counted = c.counted, d.without = c.without,
         d.via = [c.via EXCEPT ![l] = @ + 1],
         d = [srv |-> d.srv, via |-> d.via, counted |-> d.counted, without |-> d.without]
  PROVE  /\ d \in Cores /\ Behind(d.counted, d.via) /\ Behind(c.via, d.via)
         /\ \A id \in Ids : Rest(d)[id] = Rest(c)[id] + IF id = c.srv \/ id = l THEN 1 ELSE 0
  <1>2. d.via \in Vectors /\ Sum(d.via) = Sum(c.via) + 1 /\ c.via \in Vectors /\ c.counted \in Vectors
    BY SumNext DEF Cores, Vectors
  <1>3. d \in Cores
    BY <1>2 DEF Cores, Vectors
  <1>4. Behind(d.counted, d.via)
    BY <1>2 DEF Behind, Vectors
  <1>5. Sum(c.via) \in Nat /\ Sum(c.counted) \in Nat
    BY <1>2, LinkSum
  <1>6. ASSUME NEW id \in Ids
        PROVE  Rest(d)[id] = Rest(c)[id] + IF id = c.srv \/ id = l THEN 1 ELSE 0
    <2>1. /\ Rest(d)[id] = IF id = d.srv THEN Sum(d.via) - Sum(d.counted)
                           ELSE IF id \in Links THEN d.via[id] - d.counted[id] ELSE 0
          /\ Rest(c)[id] = IF id = c.srv THEN Sum(c.via) - Sum(c.counted)
                           ELSE IF id \in Links THEN c.via[id] - c.counted[id] ELSE 0
      BY <1>3, <1>4, RestIs
    <2>2. c.srv \notin Links
      BY UsageAssumption
    <2>3. CASE id = c.srv
      BY <1>2, <1>5, <2>1, <2>3
    <2>4. CASE id # c.srv
      BY <1>2, <2>1, <2>4 DEF Vectors
    <2> QED
      BY <2>3, <2>4
  <1>7. Behind(c.via, d.via)
    BY <1>2 DEF Behind, Vectors
  <1> QED
    BY <1>3, <1>4, <1>6, <1>7

(* A reading between what was counted and what was carried. *)
LEMMA RestRead ==
  ASSUME NEW c \in Cores, NEW v \in Vectors, Behind(c.counted, v), Behind(v, c.via), c.srv \in Servers,
         NEW d, d = [c EXCEPT !.counted = v]
  PROVE  /\ d \in Cores /\ Behind(d.counted, d.via)
         /\ \A id \in Ids : Rest(c)[id] = Rest(d)[id] +
              IF id = c.srv THEN Sum(v) - Sum(c.counted)
              ELSE IF id \in Links THEN v[id] - c.counted[id] ELSE 0
  <1>1. d.srv = c.srv /\ d.counted = v /\ d.via = c.via /\ d.without = c.without /\ d \in Cores
    BY DEF Cores, Vectors
  <1>2. c.via \in Vectors /\ c.counted \in Vectors
    BY DEF Cores, Vectors
  <1>3. Behind(d.counted, d.via) /\ Behind(c.counted, c.via)
    BY <1>1, <1>2 DEF Behind, Vectors
  <1>4. Sum(c.via) \in Nat /\ Sum(c.counted) \in Nat /\ Sum(v) \in Nat
    BY <1>2, LinkSum
  <1>5. ASSUME NEW id \in Ids
        PROVE  Rest(c)[id] = Rest(d)[id] +
                 IF id = c.srv THEN Sum(v) - Sum(c.counted)
                 ELSE IF id \in Links THEN v[id] - c.counted[id] ELSE 0
    <2>1. /\ Rest(d)[id] = IF id = d.srv THEN Sum(d.via) - Sum(d.counted)
                           ELSE IF id \in Links THEN d.via[id] - d.counted[id] ELSE 0
          /\ Rest(c)[id] = IF id = c.srv THEN Sum(c.via) - Sum(c.counted)
                           ELSE IF id \in Links THEN c.via[id] - c.counted[id] ELSE 0
      BY <1>1, <1>3, RestIs
    <2>2. CASE id = c.srv
      BY <1>1, <1>4, <2>1, <2>2
    <2>3. CASE id # c.srv
      BY <1>1, <1>2, <2>1, <2>3 DEF Vectors
    <2> QED
      BY <2>2, <2>3
  <1> QED
    BY <1>1, <1>3, <1>5

-----------------------------------------------------------------------------
(* The books: what is counted, what is gone and what is to be counted still. *)

Has(id) == IF id \in Servers THEN totals[id] ELSE used[id].bytes
Balance == ~raced => \A id \in Ids : Has(id) + gone[id] + Rest(core)[id] = carried[id]
Counts == core \in Cores /\ Behind(core.counted, core.via)

\* The invariant in the terms of the proof.
Inv == TypeOK /\ CoreShape /\ InStep /\ StoreInStep /\ Counts /\ Balance

LEMMA RestOfServer ==
  ASSUME NEW c \in Cores, Behind(c.counted, c.via), NEW s \in Servers
  PROVE  Rest(c)[s] = IF c.srv = s THEN Rest(c)[s] ELSE 0
  <1>1. s \notin Links /\ s \in Ids
    BY UsageAssumption DEF Ids
  <1> QED
    BY <1>1, RestIs

LEMMA Books == Inv <=> IInv
  <1>1. TypeOK /\ InStep => Counts
    BY DEF TypeOK, InStep, Counts, Cores, Behind, Vectors
  <1>2. ASSUME TypeOK, Counts PROVE Balance <=> EveryByteOnce
    <2>1. Uncounted = Rest(core)
      BY DEF Uncounted, Rest
    <2>2. \A s \in Servers : Rest(core)[s] = IF core.srv = s THEN Rest(core)[s] ELSE 0
      BY <1>2, RestOfServer DEF Counts
    <2>3. \A l \in Links : l \notin Servers
      BY UsageAssumption
    <2> QED
      BY <2>1, <2>2, <2>3 DEF Balance, EveryByteOnce, Has, Ids
  <1> QED
    BY <1>1, <1>2 DEF Inv, IInv

LEMMA RolledIs ==
  ASSUME TypeOK
  PROVE  /\ Rolled \in [Links -> Used]
         /\ Ended \in [Ids -> Int]
         /\ \A l \in Links : Ended[l] = used[l].bytes - Rolled[l].bytes
         /\ \A s \in Servers : Ended[s] = 0
         /\ \A l \in Links : used[l].bytes \in Nat /\ Rolled[l].bytes \in Nat
  <1>1. Rolled \in [Links -> Used]
    BY DEF Rolled, TypeOK, Unused, Used
  <1>2. \A l \in Links : used[l].bytes \in Nat /\ Rolled[l].bytes \in Nat
    BY <1>1 DEF TypeOK, Used
  <1> QED
    BY <1>1, <1>2, UsageAssumption DEF Ended, Ids

LEMMA SpendTyped == ASSUME TypeOK, NEW e \in Events, Spend(e) PROVE left' \in [Events -> Nat]
  BY DEF TypeOK, Spend

LEMMA SaveIs ==
  ASSUME NEW h \in Files, kept \in Files, failed \in BOOLEAN, Save(h)
  PROVE  held' = h /\ lazy' = FALSE /\ kept' \in Files /\ failed' \in BOOLEAN /\ (failed' \/ kept' = h)
  BY DEF Save

(* A core that ends, and the next one or none. *)
LEMMA EndsBooks ==
  ASSUME Inv, NEW s \in Servers \cup {None}, NEW skip \in SUBSET Links, core' = Fresh(s, skip),
         NEW x, gone' = [id \in Ids |-> gone'[id]],
         \A id \in Ids : gone'[id] = gone[id] + x[id] + Rest(core)[id],
         carried' = carried, raced' = raced,
         \A id \in Ids : x[id] \in Int /\ Has(id)' = Has(id) - x[id]
  PROVE  Counts' /\ Balance' /\ gone' \in [Ids -> Int]
  <1>1. Counts'
    BY NoRest DEF Counts
  <1>2. \A id \in Ids : Rest(core')[id] = 0
    BY NoRest
  <1>3. \A id \in Ids : Rest(core)[id] \in Nat /\ gone[id] \in Int /\ Has(id) \in Nat
    BY RestIs DEF Inv, Counts, TypeOK, Has, Used, Ids, Files
  <1>4. gone' \in [Ids -> Int]
    BY <1>3
  <1>5. ASSUME ~raced, NEW id \in Ids PROVE Has(id)' + gone'[id] + Rest(core')[id] = carried'[id]
    <2>1. Has(id) + gone[id] + Rest(core)[id] = carried[id]
      BY <1>5 DEF Inv, Balance
    <2> QED
      BY <1>2, <1>3, <2>1
  <1> QED
    BY <1>1, <1>4, <1>5 DEF Balance

LEMMA SameBooks ==
  ASSUME Inv, core' = core, totals' = totals, used' = used, UNCHANGED truth
  PROVE  Counts' /\ Balance'
  BY DEF Inv, Counts, Balance, Has, truth

(* The quota rolled to the day it is. *)
LEMMA RolledBooks ==
  ASSUME Inv, used' = Rolled, totals' = totals, core' = core, carried' = carried, raced' = raced,
         gone' = [id \in Ids |-> gone[id] + Ended[id]]
  PROVE  Counts' /\ Balance' /\ gone' \in [Ids -> Int]
  <1>1. Counts' /\ gone' \in [Ids -> Int]
    BY RolledIs DEF Inv, Counts, TypeOK
  <1>2. ASSUME ~raced, NEW id \in Ids PROVE Has(id)' + gone'[id] + Rest(core)[id] = carried[id]
    <2>1. Has(id) + gone[id] + Rest(core)[id] = carried[id] /\ Rest(core)[id] \in Nat
      BY <1>2, RestIs DEF Inv, Balance, Counts
    <2>2. gone[id] \in Int /\ gone'[id] = gone[id] + Ended[id]
      BY DEF Inv, TypeOK
    <2>3. CASE id \in Servers
      <3>1. Ended[id] = 0 /\ TypeOK
        BY <2>3, RolledIs DEF Inv
      <3>2. Has(id)' = Has(id) /\ Has(id) \in Nat
        BY <2>3, <3>1 DEF Has, TypeOK
      <3> QED
        BY <2>1, <2>2, <3>1, <3>2
    <2>4. CASE id \notin Servers
      BY <2>1, <2>2, <2>4, RolledIs DEF Has, Inv, Ids
    <2> QED
      BY <2>3, <2>4
  <1> QED
    BY <1>1, <1>2 DEF Balance

LEMMA Initial == Init => IInv
  <1> SUFFICES ASSUME Init PROVE Inv
    BY Books
  <1>1. core = Fresh(None, {}) /\ Counts /\ \A id \in Ids : Rest(core)[id] = 0
    BY NoRest DEF Init, NoCore, Fresh, Counts
  <1>2. TypeOK
    <2>1. \A S : Zero(S) \in [S -> Nat]
      BY DEF Zero
    <2>2. [l \in Links |-> Unused(0)] \in [Links -> Used]
      BY DEF Unused, Used
    <2>3. left \in [Events -> Nat]
      BY UsageAssumption DEF Init
    <2>4. NoOp \in Ops
      BY DEF NoOp, Kinds, Ops
    <2>5. totals \in [Servers -> Nat] /\ used \in [Links -> Used] /\ carried \in [Ids -> Nat] /\ gone \in [Ids -> Int]
      BY <2>1, <2>2 DEF Init
    <2>6. {kept, held} \subseteq Files
      BY <2>5 DEF Init, Files
    <2>7. core \in Cores
      BY <1>1 DEF Counts
    <2>8. {open, dirty, qdirty, reloading, cooling, polling, lazy, failed, pending, raced} \subseteq BOOLEAN
      BY DEF Init
    <2>9. /\ op \in Ops /\ tagMap \in Servers \cup {None} /\ {age, qage} \subseteq Nat
          /\ prev \in {<<>>} \cup [Links -> Nat] /\ qprev \in {<<>>} \cup [Links -> Nat]
      BY <2>4 DEF Init
    <2>10. /\ queued \subseteq Askers /\ built \in (SUBSET Links) \cup {NotBuilt}
           /\ reading \in Readings \cup {None} /\ day \in Nat
      BY DEF Init
    <2> QED
      BY <2>3, <2>5, <2>6, <2>7, <2>8, <2>9, <2>10 DEF TypeOK
  <1>3. CoreShape /\ InStep /\ StoreInStep
    BY <1>1 DEF Init, CoreShape, InStep, StoreInStep, Told, Running, Counts, Behind, NoOp, NoCore
  <1>4. Balance
    BY <1>1 DEF Init, Balance, Has, Zero, Unused, Ids
  <1> QED
    BY <1>1, <1>2, <1>3, <1>4 DEF Inv

-----------------------------------------------------------------------------
(* Types, in groups. *)

TFlags ==
  {open, dirty, qdirty, reloading, cooling, polling, lazy, failed, pending, raced} \subseteq BOOLEAN
TCore == core \in Cores /\ op \in Ops /\ reading \in Readings \cup {None}
TMeters ==
  /\ totals \in [Servers -> Nat] /\ tagMap \in Servers \cup {None} /\ {age, qage} \subseteq Nat
  /\ prev \in {<<>>} \cup [Links -> Nat] /\ qprev \in {<<>>} \cup [Links -> Nat]
  /\ built \in (SUBSET Links) \cup {NotBuilt} /\ day \in Nat
TQuota == used \in [Links -> Used] /\ queued \subseteq Askers
TFile == kept \in Files /\ held \in Files
TWorld == left \in [Events -> Nat] /\ carried \in [Ids -> Nat] /\ gone \in [Ids -> Int]

LEMMA Types ==
  /\ TypeOK <=> TFlags /\ TCore /\ TMeters /\ TQuota /\ TFile /\ TWorld
  /\ TypeOK' <=> TFlags' /\ TCore' /\ TMeters' /\ TQuota' /\ TFile' /\ TWorld'
  BY DEF TypeOK, TFlags, TCore, TMeters, TQuota, TFile, TWorld

LEMMA FreshIs ==
  /\ NoCore = Fresh(None, {})
  /\ \A s, skip : /\ Fresh(s, skip).srv = s /\ Fresh(s, skip).without = skip
                  /\ \A l \in Links : Fresh(s, skip).via[l] = 0 /\ Fresh(s, skip).counted[l] = 0
  BY DEF NoCore, Fresh, Zero

-----------------------------------------------------------------------------
(* What no meter sees. *)

LEMMA LazyTimerKeeps == ASSUME Inv, LazyTimer PROVE Inv'
  <1>1. TypeOK /\ TFlags /\ TCore /\ TMeters /\ TQuota /\ TFile /\ TWorld
    BY Types DEF Inv
  <1>0. held' = held /\ lazy' = FALSE /\ kept' \in Files /\ failed' \in BOOLEAN /\ (failed' \/ kept' = held)
    BY <1>1, SaveIs DEF LazyTimer, TFile, TFlags
  <1>2. TFlags'
    BY <1>1, <1>0
    DEF TFlags, LazyTimer, meter, quota, store, truth
  <1>3. TCore'
    BY <1>1
    DEF TCore, LazyTimer, meter, quota, store, truth
  <1>4. TMeters'
    BY <1>1
    DEF TMeters, LazyTimer, meter, quota, store, truth
  <1>5. TQuota'
    BY <1>1
    DEF TQuota, LazyTimer, meter, quota, store, truth
  <1>6. TFile'
    BY <1>1, <1>0
    DEF TFile, LazyTimer, meter, quota, store, truth
  <1>7. TWorld'
    BY <1>1
    DEF TWorld, LazyTimer, meter, quota, store, truth
  <1>8. CoreShape'
    BY <1>1
    DEF Inv, CoreShape, Running, NoOp, TCore, LazyTimer, meter, quota, store, truth
  <1>9. InStep'
    BY <1>1
    DEF Inv, InStep, CoreShape, Told, Running, TFlags, LazyTimer, meter, quota, store, truth
  <1>10. StoreInStep'
    <2>1. held' = held /\ lazy' = FALSE /\ (failed' \/ kept' = held)
      BY <1>1, SaveIs DEF LazyTimer, TFile, TFlags
    <2> QED
      BY <2>1 DEF Inv, StoreInStep, LazyTimer, meter, quota
  <1>11. Counts' /\ Balance'
    BY SameBooks DEF LazyTimer, meter, quota, truth
  <1> QED
    BY <1>2, <1>3, <1>4, <1>5, <1>6, <1>7, <1>8, <1>9, <1>10, <1>11, Types DEF Inv

LEMMA CoolDownKeeps == ASSUME Inv, CoolDown PROVE Inv'
  <1>1. TypeOK /\ TFlags /\ TCore /\ TMeters /\ TQuota /\ TFile /\ TWorld
    BY Types DEF Inv
  <1>2. TFlags'
    BY <1>1
    DEF TFlags, CoolDown, meter, quota, store, truth
  <1>3. TCore'
    BY <1>1
    DEF TCore, CoolDown, meter, quota, store, truth
  <1>4. TMeters'
    BY <1>1
    DEF TMeters, CoolDown, meter, quota, store, truth
  <1>5. TQuota'
    BY <1>1
    DEF TQuota, CoolDown, meter, quota, store, truth
  <1>6. TFile'
    BY <1>1
    DEF TFile, CoolDown, meter, quota, store, truth
  <1>7. TWorld'
    BY <1>1
    DEF TWorld, CoolDown, meter, quota, store, truth
  <1>8. CoreShape'
    BY <1>1
    DEF Inv, CoreShape, Running, NoOp, TCore, CoolDown, meter, quota, store, truth
  <1>9. InStep'
    BY <1>1
    DEF Inv, InStep, CoreShape, Told, Running, TFlags, CoolDown, meter, quota, store, truth
  <1>10. StoreInStep'
    BY <1>1
    DEF Inv, StoreInStep, TFlags, CoolDown, meter, quota, store, truth
  <1>11. Counts' /\ Balance'
    BY SameBooks DEF CoolDown, meter, quota, truth
  <1> QED
    BY <1>2, <1>3, <1>4, <1>5, <1>6, <1>7, <1>8, <1>9, <1>10, <1>11, Types DEF Inv

LEMMA PollReadsKeeps == ASSUME Inv, PollReads PROVE Inv'
  <1>1. TypeOK /\ TFlags /\ TCore /\ TMeters /\ TQuota /\ TFile /\ TWorld
    BY Types DEF Inv
  <1>2. TFlags'
    BY <1>1
    DEF TFlags, PollReads, meter, quota, store, truth
  <1>3. TCore'
    BY <1>1 DEF TCore, PollReads, Readings, Cores, Running
  <1>4. TMeters'
    BY <1>1
    DEF TMeters, PollReads, meter, quota, store, truth
  <1>5. TQuota'
    BY <1>1
    DEF TQuota, PollReads, meter, quota, store, truth
  <1>6. TFile'
    BY <1>1
    DEF TFile, PollReads, meter, quota, store, truth
  <1>7. TWorld'
    BY <1>1
    DEF TWorld, PollReads, meter, quota, store, truth
  <1>8. CoreShape'
    BY <1>1
    DEF Inv, CoreShape, Running, NoOp, TCore, PollReads, meter, quota, store, truth
  <1>9. InStep'
    BY <1>1 DEF Inv, InStep, CoreShape, Told, Running, PollReads, meter, quota, truth, TCore, Cores
  <1>10. StoreInStep'
    BY <1>1
    DEF Inv, StoreInStep, TFlags, PollReads, meter, quota, store, truth
  <1>11. Counts' /\ Balance'
    BY SameBooks DEF PollReads, meter, quota, truth
  <1> QED
    BY <1>2, <1>3, <1>4, <1>5, <1>6, <1>7, <1>8, <1>9, <1>10, <1>11, Types DEF Inv

LEMMA WatchAsksKeeps == ASSUME Inv, WatchAsks PROVE Inv'
  <1>1. TypeOK /\ TFlags /\ TCore /\ TMeters /\ TQuota /\ TFile /\ TWorld
    BY Types DEF Inv
  <1>2. TFlags'
    BY <1>1
    DEF TFlags, WatchAsks, Askers, meter, quota, store, truth
  <1>3. TCore'
    BY <1>1
    DEF TCore, WatchAsks, Askers, meter, quota, store, truth
  <1>4. TMeters'
    BY <1>1
    DEF TMeters, WatchAsks, Askers, meter, quota, store, truth
  <1>5. TQuota'
    BY <1>1
    DEF TQuota, WatchAsks, Askers, meter, quota, store, truth
  <1>6. TFile'
    BY <1>1
    DEF TFile, WatchAsks, Askers, meter, quota, store, truth
  <1>7. TWorld'
    BY <1>1, SpendTyped
    DEF Events, TWorld, WatchAsks, Askers, meter, quota, store, truth
  <1>8. CoreShape'
    BY <1>1
    DEF Inv, CoreShape, Running, NoOp, TCore, WatchAsks, Askers, meter, quota, store, truth
  <1>9. InStep'
    BY <1>1
    DEF Inv, InStep, CoreShape, Told, Running, TFlags, WatchAsks, Askers, meter, quota, store, truth
  <1>10. StoreInStep'
    BY <1>1
    DEF Inv, StoreInStep, TFlags, WatchAsks, Askers, meter, quota, store, truth
  <1>11. Counts' /\ Balance'
    BY SameBooks DEF WatchAsks, meter, quota, truth
  <1> QED
    BY <1>2, <1>3, <1>4, <1>5, <1>6, <1>7, <1>8, <1>9, <1>10, <1>11, Types DEF Inv

LEMMA GivesWayKeeps == ASSUME Inv, GivesWay PROVE Inv'
  <1>1. TypeOK /\ TFlags /\ TCore /\ TMeters /\ TQuota /\ TFile /\ TWorld
    BY Types DEF Inv
  <1>2. TFlags'
    BY <1>1
    DEF TFlags, GivesWay, meter, quota, store, truth
  <1>3. TCore'
    BY <1>1 DEF TCore, GivesWay, NoOp, Ops, Kinds
  <1>4. TMeters'
    BY <1>1
    DEF TMeters, GivesWay, meter, quota, store, truth
  <1>5. TQuota'
    BY <1>1
    DEF TQuota, GivesWay, meter, quota, store, truth
  <1>6. TFile'
    BY <1>1
    DEF TFile, GivesWay, meter, quota, store, truth
  <1>7. TWorld'
    BY <1>1, SpendTyped
    DEF Events, TWorld, GivesWay, meter, quota, store, truth
  <1>8. CoreShape'
    BY <1>1
    DEF Inv, CoreShape, Running, NoOp, TCore, GivesWay, meter, quota, store, truth
  <1>9. InStep'
    BY <1>1 DEF Inv, InStep, CoreShape, Told, Running, GivesWay, NoOp, meter, truth
  <1>10. StoreInStep'
    BY <1>1
    DEF Inv, StoreInStep, TFlags, GivesWay, meter, quota, store, truth
  <1>11. Counts' /\ Balance'
    BY SameBooks DEF GivesWay, meter, quota, truth
  <1> QED
    BY <1>2, <1>3, <1>4, <1>5, <1>6, <1>7, <1>8, <1>9, <1>10, <1>11, Types DEF Inv

LEMMA NextDayKeeps == ASSUME Inv, NextDay PROVE Inv'
  <1>1. TypeOK /\ TFlags /\ TCore /\ TMeters /\ TQuota /\ TFile /\ TWorld
    BY Types DEF Inv
  <1>2. TFlags'
    BY <1>1
    DEF TFlags, NextDay, meter, quota, store, truth
  <1>3. TCore'
    BY <1>1
    DEF TCore, NextDay, meter, quota, store, truth
  <1>4. TMeters'
    BY <1>1
    DEF TMeters, NextDay, meter, quota, store, truth
  <1>5. TQuota'
    BY <1>1
    DEF TQuota, NextDay, meter, quota, store, truth
  <1>6. TFile'
    BY <1>1
    DEF TFile, NextDay, meter, quota, store, truth
  <1>7. TWorld'
    BY <1>1, SpendTyped
    DEF Events, TWorld, NextDay, meter, quota, store, truth
  <1>8. CoreShape'
    BY <1>1
    DEF Inv, CoreShape, Running, NoOp, TCore, NextDay, meter, quota, store, truth
  <1>9. InStep'
    BY <1>1
    DEF Inv, InStep, CoreShape, Told, Running, TFlags, NextDay, meter, quota, store, truth
  <1>10. StoreInStep'
    BY <1>1
    DEF Inv, StoreInStep, TFlags, NextDay, meter, quota, store, truth
  <1>11. Counts' /\ Balance'
    BY SameBooks DEF NextDay, meter, quota, truth
  <1> QED
    BY <1>2, <1>3, <1>4, <1>5, <1>6, <1>7, <1>8, <1>9, <1>10, <1>11, Types DEF Inv

LEMMA EditKeeps == ASSUME Inv, Edit PROVE Inv'
  <1>1. TypeOK /\ TFlags /\ TCore /\ TMeters /\ TQuota /\ TFile /\ TWorld
    BY Types DEF Inv
  <1>2. TFlags'
    BY <1>1
    DEF TFlags, Edit, meter, quota, store, truth
  <1>3. TCore'
    BY <1>1
    DEF TCore, Edit, meter, quota, store, truth
  <1>4. TMeters'
    BY <1>1
    DEF TMeters, Edit, meter, quota, store, truth
  <1>5. TQuota'
    BY <1>1
    DEF TQuota, Edit, meter, quota, store, truth
  <1>6. TFile'
    BY <1>1
    DEF TFile, Edit, meter, quota, store, truth
  <1>7. TWorld'
    BY <1>1, SpendTyped
    DEF Events, TWorld, Edit, meter, quota, store, truth
  <1>8. CoreShape'
    BY <1>1
    DEF Inv, CoreShape, Running, NoOp, TCore, Edit, meter, quota, store, truth
  <1>9. InStep'
    BY <1>1
    DEF Inv, InStep, CoreShape, Told, Running, TFlags, Edit, meter, quota, store, truth
  <1>10. StoreInStep'
    BY <1>1
    DEF Inv, StoreInStep, TFlags, Edit, meter, quota, store, truth
  <1>11. Counts' /\ Balance'
    BY SameBooks DEF Edit, meter, quota, truth
  <1> QED
    BY <1>2, <1>3, <1>4, <1>5, <1>6, <1>7, <1>8, <1>9, <1>10, <1>11, Types DEF Inv

LEMMA ReadyKeeps == ASSUME Inv, Ready PROVE Inv'
  <1>1. TypeOK /\ TFlags /\ TCore /\ TMeters /\ TQuota /\ TFile /\ TWorld
    BY Types DEF Inv
  <1>2. TFlags'
    BY <1>1
    DEF TFlags, Ready, Reset, Stopped, meter, quota, store, truth
  <1>3. TCore'
    BY <1>1 DEF TCore, Ready, NoOp, Ops, Kinds
  <1>4. TMeters'
    BY <1>1 DEF TMeters, Ready, Reset, TCore, Ops
  <1>5. TQuota'
    BY <1>1
    DEF TQuota, Ready, Reset, Stopped, meter, quota, store, truth
  <1>6. TFile'
    BY <1>1
    DEF TFile, Ready, Reset, Stopped, meter, quota, store, truth
  <1>7. TWorld'
    BY <1>1
    DEF TWorld, Ready, Reset, Stopped, meter, quota, store, truth
  <1>8. CoreShape'
    BY <1>1
    DEF Inv, CoreShape, Running, NoOp, TCore, Ready, Reset, Stopped, meter, quota, store, truth
  <1>9. InStep'
    BY <1>1 DEF Inv, InStep, CoreShape, Told, Running, Ready, Reset, Before, Zero, NoOp, TCore, Readings, truth
  <1>10. StoreInStep'
    BY <1>1
    DEF Inv, StoreInStep, TFlags, Ready, Reset, Stopped, meter, quota, store, truth
  <1>11. Counts' /\ Balance'
    BY SameBooks DEF Ready, Reset, meter, quota, truth
  <1> QED
    BY <1>2, <1>3, <1>4, <1>5, <1>6, <1>7, <1>8, <1>9, <1>10, <1>11, Types DEF Inv

-----------------------------------------------------------------------------
(* Cores that run, end and begin. *)

LEMMA CarryKeeps == ASSUME Inv, Carry PROVE Inv'
  <1>1. TypeOK /\ TFlags /\ TCore /\ TMeters /\ TQuota /\ TFile /\ TWorld
    BY Types DEF Inv
  <1>a. PICK l \in Links :
        /\ core' = [core EXCEPT !.via[l] = @ + 1]
        /\ carried' = [carried EXCEPT ![core.srv] = @ + 1, ![l] = @ + 1]
    BY DEF Carry
  <1>0. /\ core.srv \in Servers /\ core' \in Cores /\ Behind(core'.counted, core'.via)
        /\ \A id \in Ids : Rest(core')[id] = Rest(core)[id] + IF id = core.srv \/ id = l THEN 1 ELSE 0
        /\ core'.srv = core.srv /\ core'.counted = core.counted /\ core'.without = core.without
        /\ Behind(core.via, core'.via)
        /\ core.srv \in Ids /\ l \in Ids /\ core.srv # l
    <2>1. core.srv \in Servers
      BY <1>1 DEF TCore, Cores, Carry, Running
    <2>2. core.srv \in Ids /\ l \in Ids /\ core.srv # l
      BY <2>1, UsageAssumption DEF Ids
    <2>3. core \in Cores /\ Behind(core.counted, core.via)
      BY DEF Inv, Counts
    <2>4. /\ core' \in Cores /\ Behind(core'.counted, core'.via)
          /\ \A id \in Ids : Rest(core')[id] = Rest(core)[id] + IF id = core.srv \/ id = l THEN 1 ELSE 0
          /\ core'.srv = core.srv /\ core'.counted = core.counted /\ core'.without = core.without
          /\ Behind(core.via, core'.via)
      <3>1. /\ core'.srv = core.srv /\ core'.counted = core.counted /\ core'.without = core.without
            /\ core'.via = [core.via EXCEPT ![l] = @ + 1]
            /\ core' = [srv |-> core'.srv, via |-> core'.via, counted |-> core'.counted, without |-> core'.without]
        BY <1>a, <2>3 DEF Cores
      <3> QED
        BY <2>1, <2>3, <3>1, RestCarried
    <2> QED
      BY <2>1, <2>2, <2>4
  <1>2. TFlags'
    BY <1>1
    DEF TFlags, Carry, meter, quota, store, truth
  <1>3. TCore'
    BY <1>1, <1>0
    DEF TCore, Carry, meter, quota, store, truth
  <1>4. TMeters'
    BY <1>1
    DEF TMeters, Carry, meter, quota, store, truth
  <1>5. TQuota'
    BY <1>1
    DEF TQuota, Carry, meter, quota, store, truth
  <1>6. TFile'
    BY <1>1
    DEF TFile, Carry, meter, quota, store, truth
  <1>7. TWorld'
    <2>1. left' \in [Events -> Nat]
      BY <1>1, SpendTyped DEF Carry, Events
    <2> QED
      BY <1>0, <1>1, <1>a, <2>1 DEF Carry, TWorld, truth
  <1>8. CoreShape'
    BY <1>1, <1>0
    DEF Inv, CoreShape, Running, NoOp, TCore, Carry, meter, quota, store, truth
  <1>9. InStep'
    <2>1. \A k \in Links : core.via[k] \in Nat /\ core'.via[k] \in Nat
      BY <1>0, <1>1 DEF TCore, Cores
    <2>2. \A k \in Links : /\ core.counted[k] \in Nat
                           /\ reading # None => reading.via[k] \in Nat
      BY <1>1 DEF TCore, Cores, Readings
    <2>3. op' = op /\ reading' = reading /\ qprev' = qprev /\ prev' = prev /\ raced' = raced /\ tagMap' = tagMap /\ built' = built
      BY DEF Carry, meter, quota, truth
    <2>4. (Told' <=> Told) /\ (Running' <=> Running) /\ InStep
      BY <1>0, <2>3 DEF Told, Running, Inv
    <2>5. ASSUME NEW k \in Links
          PROVE  /\ core'.counted[k] <= core'.via[k]
                 /\ Told' /\ ~raced' => Before(qprev')[k] = core'.counted[k] /\ Before(prev')[k] = core'.counted[k]
                 /\ op'.grace /\ ~raced' => core'.counted[k] = 0
                 /\ reading' # None /\ ~reading'.old => core'.counted[k] <= reading'.via[k] /\ reading'.via[k] <= core'.via[k]
      <3>1. core'.counted[k] <= core'.via[k]
        BY <1>0 DEF Behind
      <3>2. Told' /\ ~raced' => Before(qprev')[k] = core'.counted[k] /\ Before(prev')[k] = core'.counted[k]
        BY <1>0, <2>3, <2>4 DEF InStep
      <3>3. reading' # None /\ ~reading'.old => core'.counted[k] <= reading'.via[k] /\ reading'.via[k] <= core'.via[k]
        <4>1. reading # None /\ ~reading.old => core.counted[k] <= reading.via[k] /\ reading.via[k] <= core.via[k]
          BY <2>4 DEF InStep
        <4>2. core'.counted[k] = core.counted[k] /\ reading' = reading
          BY <1>0, <2>3
        <4>3. core.via[k] <= core'.via[k]
          BY <1>0 DEF Behind
        <4>4. core.via[k] \in Nat /\ core'.via[k] \in Nat
          BY <2>1
        <4>5. reading # None => reading.via[k] \in Nat
          BY <2>2
        <4> QED
          BY <4>1, <4>2, <4>3, <4>4, <4>5
      <3> QED
        BY <3>1, <3>2, <3>3, <1>0, <2>3, <2>4 DEF InStep
    <2> QED
      BY <1>0, <2>3, <2>4, <2>5 DEF InStep, Before
  <1>10. StoreInStep'
    BY <1>1
    DEF Inv, StoreInStep, TFlags, Carry, meter, quota, store, truth
  <1>11. Counts' /\ Balance'
    <2>1. Counts'
      BY <1>0 DEF Counts
    <2>2. ASSUME ~raced, NEW id \in Ids PROVE Has(id) + gone[id] + Rest(core')[id] = carried'[id]
      <3>1. Has(id) + gone[id] + Rest(core)[id] = carried[id] /\ Rest(core)[id] \in Nat
        BY <2>2, RestIs DEF Inv, Balance, Counts
      <3>2. carried'[id] = carried[id] + (IF id = core.srv \/ id = l THEN 1 ELSE 0) /\ carried[id] \in Nat
        BY <1>0, <1>1, <1>a DEF TWorld
      <3>3. gone[id] \in Int /\ Has(id) \in Nat
        BY <1>1 DEF TWorld, TMeters, TQuota, Has, Used, Ids
      <3> QED
        BY <1>0, <3>1, <3>2, <3>3
    <2> QED
      BY <2>1, <2>2 DEF Balance, Has, Carry, meter, quota, truth
  <1> QED
    BY <1>2, <1>3, <1>4, <1>5, <1>6, <1>7, <1>8, <1>9, <1>10, <1>11, Types DEF Inv

LEMMA OutdatedIs ==
  ASSUME TCore
  PROVE  /\ Outdated \in Readings \cup {None} /\ (Outdated # None => Outdated.old)
         /\ Outdated # None => reading # None
  BY DEF TCore, Outdated, Readings

LEMMA DieKeeps == ASSUME Inv, Die PROVE Inv'
  <1>1. TypeOK /\ TFlags /\ TCore /\ TMeters /\ TQuota /\ TFile /\ TWorld
    BY Types DEF Inv
  <1>0. gone' \in [Ids -> Int] /\ Counts' /\ Balance'
    <2> DEFINE x == [id \in Ids |-> 0]
    <2>1. \A id \in Ids : Rest(core)[id] \in Nat /\ gone[id] \in Int
      BY <1>1, RestIs DEF Inv, Counts, TWorld
    <2>2. \A id \in Ids : gone'[id] = gone[id] + x[id] + Rest(core)[id]
      BY <2>1 DEF Die, Ends, Uncounted, Rest
    <2>3. gone' = [id \in Ids |-> gone'[id]] /\ carried' = carried /\ raced' = raced
      BY DEF Die, Ends, truth
    <2>4. \A id \in Ids : Has(id) \in Nat
      BY <1>1 DEF TMeters, TQuota, Has, Used, Ids
    <2>5. \A id \in Ids : x[id] \in Int /\ Has(id)' = Has(id) - x[id]
      BY <2>4 DEF Has, Die, meter, quota
    <2>6. core' = Fresh(None, {})
      BY FreshIs DEF Die, Ends
    <2> HIDE DEF x
    <2> QED
      BY <1>1, <2>2, <2>3, <2>5, <2>6, EndsBooks
  <1>2. TFlags'
    BY <1>1
    DEF TFlags, Die, Ends, meter, quota, store, truth
  <1>3. TCore'
    <2>1. core' \in Cores
      BY <1>0 DEF Counts
    <2> QED
      BY <1>1, <2>1, OutdatedIs DEF TCore, Die, NoOp, Ops, Kinds
  <1>4. TMeters'
    BY <1>1
    DEF TMeters, Die, Ends, meter, quota, store, truth
  <1>5. TQuota'
    BY <1>1
    DEF TQuota, Die, Ends, meter, quota, store, truth
  <1>6. TFile'
    BY <1>1
    DEF TFile, Die, Ends, meter, quota, store, truth
  <1>7. TWorld'
    <2>1. left' \in [Events -> Nat]
      BY <1>1, SpendTyped DEF Die, Events
    <2> QED
      BY <1>0, <1>1, <2>1 DEF Die, TWorld, truth
  <1>8. CoreShape'
    BY <1>1, FreshIs DEF Inv, CoreShape, Running, NoOp, Die, Ends, TCore
  <1>9. InStep'
    BY <1>1, FreshIs, OutdatedIs DEF InStep, Die, Ends, Told, Running
  <1>10. StoreInStep'
    BY DEF Inv, StoreInStep, Die, store, meter
  <1>11. Counts' /\ Balance'
    BY <1>0
  <1> QED
    BY <1>2, <1>3, <1>4, <1>5, <1>6, <1>7, <1>8, <1>9, <1>10, <1>11, Types DEF Inv

LEMMA CoreStartsKeeps == ASSUME Inv, CoreStarts PROVE Inv'
  <1>1. TypeOK /\ TFlags /\ TCore /\ TMeters /\ TQuota /\ TFile /\ TWorld
    BY Types DEF Inv
  <1>a. op.srv \in Servers /\ op.skip \in SUBSET Links /\ op # NoOp /\ op.kind # "none"
    BY <1>1 DEF Inv, CoreShape, CoreStarts, TCore, Ops
  <1>0. gone' \in [Ids -> Int] /\ Counts' /\ Balance'
    <2> DEFINE x == [id \in Ids |-> 0]
    <2>1. \A id \in Ids : Rest(core)[id] \in Nat /\ gone[id] \in Int
      BY <1>1, RestIs DEF Inv, Counts, TWorld
    <2>2. \A id \in Ids : gone'[id] = gone[id] + x[id] + Rest(core)[id]
      BY <2>1 DEF CoreStarts, Ends, Uncounted, Rest
    <2>3. gone' = [id \in Ids |-> gone'[id]] /\ carried' = carried /\ raced' = raced
      BY DEF CoreStarts, Ends, truth
    <2>4. \A id \in Ids : Has(id) \in Nat
      BY <1>1 DEF TMeters, TQuota, Has, Used, Ids
    <2>5. \A id \in Ids : x[id] \in Int /\ Has(id)' = Has(id) - x[id]
      BY <2>4 DEF Has, CoreStarts, meter, quota
    <2>6. core' = Fresh(op.srv, op.skip)
      BY FreshIs DEF CoreStarts, Ends
    <2> HIDE DEF x
    <2> QED
      BY <1>1, <2>2, <2>3, <2>5, <2>6, EndsBooks, <1>a
  <1>2. TFlags'
    BY <1>1
    DEF TFlags, CoreStarts, Ends, meter, quota, store, truth
  <1>3. TCore'
    <2>1. core' \in Cores
      BY <1>0 DEF Counts
    <2> QED
      BY <1>1, <2>1, OutdatedIs DEF TCore, CoreStarts, Ops
  <1>4. TMeters'
    BY <1>1
    DEF TMeters, CoreStarts, Ends, meter, quota, store, truth
  <1>5. TQuota'
    BY <1>1
    DEF TQuota, CoreStarts, Ends, meter, quota, store, truth
  <1>6. TFile'
    BY <1>1
    DEF TFile, CoreStarts, Ends, meter, quota, store, truth
  <1>7. TWorld'
    BY <1>0, <1>1 DEF CoreStarts, TWorld, truth
  <1>8. CoreShape'
    <2>1. core'.srv = op.srv /\ core'.without = op.skip /\ op' = [op EXCEPT !.grace = TRUE] /\ open' = open
      BY FreshIs DEF CoreStarts, Ends
    <2>2. op'.kind = op.kind /\ op'.srv = op.srv /\ op'.skip = op.skip /\ op'.grace
      BY <1>1, <2>1 DEF TCore, Ops
    <2> QED
      BY <1>a, <2>1, <2>2, UsageAssumption DEF CoreShape, Running, CoreStarts, NoOp
  <1>9. InStep'
    <2>1. op'.grace
      BY <1>1 DEF TCore, Ops, CoreStarts
    <2> QED
      BY <1>1, <2>1, FreshIs, OutdatedIs DEF InStep, CoreStarts, Ends, Told, Running
  <1>10. StoreInStep'
    BY DEF Inv, StoreInStep, CoreStarts, store, meter, quota
  <1>11. Counts' /\ Balance'
    BY <1>0
  <1> QED
    BY <1>2, <1>3, <1>4, <1>5, <1>6, <1>7, <1>8, <1>9, <1>10, <1>11, Types DEF Inv

-----------------------------------------------------------------------------
(* Builds that begin: the quota rolls first. *)

LEMMA ConnectKeeps == ASSUME Inv, Connect PROVE Inv'
  <1>1. TypeOK /\ TFlags /\ TCore /\ TMeters /\ TQuota /\ TFile /\ TWorld
    BY Types DEF Inv
  <1>a. PICK s \in Servers, skip \in SUBSET Links : Skip(skip) /\ Begins("connect", s, skip)
    BY DEF Connect
  <1>0. Rolled \in [Links -> Used] /\ gone' \in [Ids -> Int] /\ Counts' /\ Balance' /\ used' = Rolled
    BY <1>1, <1>a, RolledIs, RolledBooks DEF Connect, Skip, meter
  <1>b. op'.kind # "none" /\ op'.srv \in Servers /\ ~op'.grace /\ ~op.grace
    BY <1>a DEF Begins, Connect, NoOp
  <1>2. TFlags'
    BY <1>1, <1>a DEF TFlags, Connect, Skip, meter, store
  <1>3. TCore'
    BY <1>1, <1>a DEF TCore, Connect, Begins, Ops, Kinds
  <1>4. TMeters'
    BY <1>1
    DEF TMeters, Connect, Skip, Begins, meter, quota, store, truth
  <1>5. TQuota'
    BY <1>0, <1>1 DEF TQuota, Connect, Skip, quota
  <1>6. TFile'
    BY <1>1
    DEF TFile, Connect, Skip, Begins, meter, quota, store, truth
  <1>7. TWorld'
    <2>1. left' \in [Events -> Nat]
      BY <1>1, SpendTyped DEF Connect, Events
    <2> QED
      BY <1>0, <1>1, <2>1 DEF Connect, TWorld
  <1>8. CoreShape'
    BY <1>b DEF Inv, CoreShape, Running, NoOp, Connect, meter, quota
  <1>9. InStep'
    BY <1>b DEF Inv, InStep, Told, Running, Connect, meter
  <1>10. StoreInStep'
    BY <1>a, <1>1 DEF Inv, StoreInStep, Skip, Connect, meter, store, TFlags
  <1>11. Counts' /\ Balance'
    BY <1>0
  <1> QED
    BY <1>2, <1>3, <1>4, <1>5, <1>6, <1>7, <1>8, <1>9, <1>10, <1>11, Types DEF Inv

LEMMA ReloadBeginsKeeps == ASSUME Inv, ReloadBegins PROVE Inv'
  <1>1. TypeOK /\ TFlags /\ TCore /\ TMeters /\ TQuota /\ TFile /\ TWorld
    BY Types DEF Inv
  <1>2. PICK a \in queued :
          /\ open /\ op = NoOp /\ queued' = queued \ {a}
          /\ \/ /\ Running
                /\ \E skip \in SUBSET Links : Skip(skip) /\ Begins(a, core.srv, skip)
                /\ gone' = [id \in Ids |-> gone[id] + Ended[id]]
                /\ UNCHANGED reloading
             \/ /\ ~Running
                /\ reloading' = (reloading /\ a # "quota")
                /\ UNCHANGED <<op, used, qdirty, gone>>
          /\ UNCHANGED <<open, core, meter, qprev, built, qage, cooling, polling, reading, store, day,
                         pending, left, carried, raced>>
    BY DEF ReloadBegins
  <1>3. a \in {"quota", "watch"}
    BY <1>1, <1>2 DEF TQuota, Askers
  <1>4. CASE Running
    <2>1. PICK skip \in SUBSET Links : Skip(skip) /\ Begins(a, core.srv, skip)
      BY <1>2, <1>4
    <2>2. core.srv \in Servers
      BY <1>1, <1>4 DEF TCore, Cores, Running
    <2>3. op'.kind = a /\ op'.srv = core.srv /\ ~op'.grace /\ ~op.grace /\ op' \in Ops
      BY <1>2, <1>3, <2>1, <2>2 DEF Begins, NoOp, Ops, Kinds, Askers
    <2>4. Rolled \in [Links -> Used] /\ gone' \in [Ids -> Int] /\ Counts' /\ Balance' /\ used' = Rolled
      BY <1>1, <1>2, <1>4, <2>1, RolledIs, RolledBooks DEF Skip, meter
    <2>5. TFlags' /\ TCore' /\ TMeters' /\ TFile'
      BY <1>1, <1>2, <1>4, <2>1, <2>3 DEF TFlags, TCore, TMeters, TFile, Skip, meter, store
    <2>6. TQuota' /\ TWorld'
      BY <1>1, <1>2, <2>4 DEF TQuota, TWorld
    <2>7. CoreShape'
      BY <1>2, <1>3, <1>4, <2>2, <2>3 DEF Inv, CoreShape, Running, NoOp
    <2>8. InStep'
      BY <1>2, <1>4, <2>3 DEF Inv, InStep, Told, Running, meter
    <2>9. StoreInStep'
      BY <1>1, <1>2, <2>1 DEF Inv, StoreInStep, Skip, meter, store, TFlags
    <2> QED
      BY <2>4, <2>5, <2>6, <2>7, <2>8, <2>9, Types DEF Inv
  <1>5. CASE ~Running
    <2>1. TFlags' /\ TCore' /\ TMeters' /\ TFile' /\ TQuota' /\ TWorld'
      BY <1>1, <1>2, <1>5 DEF TFlags, TCore, TMeters, TFile, TQuota, TWorld, meter, store
    <2>2. CoreShape' /\ InStep' /\ StoreInStep'
      BY <1>2, <1>5 DEF Inv, CoreShape, InStep, StoreInStep, Told, Running, meter, store
    <2>3. Counts' /\ Balance'
      BY <1>2, <1>5, SameBooks DEF meter, truth
    <2> QED
      BY <2>1, <2>2, <2>3, Types DEF Inv
  <1> QED
    BY <1>4, <1>5

-----------------------------------------------------------------------------
(* Sessions that end. *)

LEMMA EndsAlone ==
  ASSUME Inv, Ends(NoCore), totals' = totals, used' = used, carried' = carried, raced' = raced
  PROVE  gone' \in [Ids -> Int] /\ Counts' /\ Balance'
  <1>1. TypeOK /\ TFlags /\ TCore /\ TMeters /\ TQuota /\ TFile /\ TWorld
    BY Types DEF Inv
  <1> QED
    <2> DEFINE x == [id \in Ids |-> 0]
    <2>1. \A id \in Ids : Rest(core)[id] \in Nat /\ gone[id] \in Int
      BY <1>1, RestIs DEF Inv, Counts, TWorld
    <2>2. \A id \in Ids : gone'[id] = gone[id] + x[id] + Rest(core)[id]
      BY <2>1 DEF Ends, Uncounted, Rest
    <2>3. gone' = [id \in Ids |-> gone'[id]] /\ carried' = carried /\ raced' = raced
      BY DEF Ends, truth
    <2>4. \A id \in Ids : Has(id) \in Nat
      BY <1>1 DEF TMeters, TQuota, Has, Used, Ids
    <2>5. \A id \in Ids : x[id] \in Int /\ Has(id)' = Has(id) - x[id]
      BY <2>4 DEF Has
    <2>6. core' = Fresh(None, {})
      BY FreshIs DEF Ends
    <2> HIDE DEF x
    <2> QED
      BY <1>1, <2>2, <2>3, <2>5, <2>6, EndsBooks

LEMMA HeldTotals ==
  ASSUME TFile, NEW t \in [Servers -> Nat]
  PROVE  /\ [held EXCEPT !.totals = t] \in Files
         /\ [held EXCEPT !.totals = t].totals = t /\ [held EXCEPT !.totals = t].used = held.used
  BY DEF TFile, Files

LEMMA HeldIs ==
  ASSUME TFile, NEW t \in [Servers -> Nat], NEW u \in [Links -> Used]
  PROVE  /\ [held EXCEPT !.used = u] \in Files
         /\ [held EXCEPT !.used = u].used = u /\ [held EXCEPT !.used = u].totals = held.totals
         /\ [[held EXCEPT !.used = u] EXCEPT !.totals = t] \in Files
         /\ [[held EXCEPT !.used = u] EXCEPT !.totals = t].used = u
         /\ [[held EXCEPT !.used = u] EXCEPT !.totals = t].totals = t
         /\ held.totals \in [Servers -> Nat] /\ held.used \in [Links -> Used]
  BY DEF TFile, Files

(* The totals and the internets' bytes as they go to the file. *)
LEMMA SessionEnds ==
  ASSUME Inv, NEW written \in BOOLEAN, EndsSession(written), written \/ ~dirty, open,
         UNCHANGED <<totals, tagMap, used, cooling, queued, day, pending, carried, raced>>
  PROVE  /\ TCore' /\ TMeters' /\ TQuota' /\ TFile'
         /\ {lazy', failed', reloading', qdirty', dirty', polling'} \subseteq BOOLEAN
         /\ gone' \in [Ids -> Int] /\ Counts' /\ Balance'
         /\ CoreShape' /\ InStep' /\ StoreInStep'
  <1>1. TypeOK /\ TFlags /\ TCore /\ TMeters /\ TQuota /\ TFile /\ TWorld
    BY Types DEF Inv
  <1>2. gone' \in [Ids -> Int] /\ Counts' /\ Balance'
    BY EndsAlone DEF EndsSession
  <1>3. core' = NoCore /\ op' = NoOp /\ reading' = None /\ polling' = FALSE /\ NoOp \in Ops /\ NoCore \in Cores
    BY <1>2 DEF EndsSession, Ends, Stopped, NoOp, Ops, Kinds, Counts
  <1> DEFINE u == IF qdirty THEN used ELSE held.used
             h == [held EXCEPT !.used = u]
             w == [h EXCEPT !.totals = totals]
  <1>4. /\ h \in Files /\ h.used = u /\ h.totals = held.totals
        /\ w \in Files /\ w.used = u /\ w.totals = totals
    <2>1. u \in [Links -> Used] /\ totals \in [Servers -> Nat]
      BY <1>1, HeldIs DEF TQuota, TMeters
    <2> HIDE DEF u
    <2> QED
      BY <1>1, <2>1, HeldIs
  <1>5. \/ /\ written /\ held' = w /\ lazy' = FALSE
           /\ kept' \in Files /\ failed' \in BOOLEAN /\ (failed' \/ kept' = w)
        \/ ~written /\ held' = h /\ lazy' = (lazy \/ qdirty) /\ kept' = kept /\ failed' = failed
    <2>1. IF written THEN Save(w) ELSE held' = h /\ lazy' = (lazy \/ qdirty) /\ UNCHANGED <<kept, failed>>
      BY DEF EndsSession
    <2> HIDE DEF w, h
    <2>2. CASE written
      BY <1>1, <1>4, <2>1, <2>2, SaveIs DEF TFile, TFlags
    <2> QED
      BY <2>1, <2>2
  <1> HIDE DEF u, w, h
  <1>6. u = IF qdirty THEN used ELSE held.used
    BY DEF u
  <1>7. TFile' /\ {lazy', failed'} \subseteq BOOLEAN
    BY <1>1, <1>4, <1>5 DEF TFile, TFlags
  <1>8. /\ dirty' = FALSE /\ qdirty' = FALSE /\ age' \in Nat /\ qage' \in Nat
        /\ prev' = <<>> /\ qprev' = <<>> /\ built' = NotBuilt /\ reloading' \in BOOLEAN
    BY <1>1 DEF EndsSession, TMeters, TFlags
  <1>9. TMeters' /\ TQuota' /\ TCore'
    BY <1>1, <1>3, <1>8 DEF TMeters, TQuota, TCore
  <1>10. CoreShape' /\ InStep'
    BY <1>3, FreshIs DEF CoreShape, InStep, Told, Running, NoOp
  <1>11. StoreInStep'
    <2>1. /\ dirty \/ held.totals = totals
          /\ qdirty \/ held.used = used
          /\ failed \/ kept.totals = held.totals
          /\ failed \/ lazy \/ kept.used = held.used
      BY DEF Inv, StoreInStep
    <2>2. held'.totals = totals /\ held'.used = used
      BY <1>4, <1>5, <1>6, <2>1
    <2>3. failed' \/ kept'.totals = held'.totals
      BY <1>4, <1>5, <2>1
    <2>4. failed' \/ lazy' \/ kept'.used = held'.used
      BY <1>4, <1>5, <1>6, <2>1
    <2> QED
      BY <2>2, <2>3, <2>4 DEF StoreInStep
  <1> QED
    BY <1>2, <1>3, <1>7, <1>8, <1>9, <1>10, <1>11

LEMMA DisconnectKeeps == ASSUME Inv, Disconnect PROVE Inv'
  <1>1. TypeOK /\ TFlags /\ TWorld /\ dirty \in BOOLEAN
    BY Types DEF Inv, TFlags
  <1>2. /\ TCore' /\ TMeters' /\ TQuota' /\ TFile'
        /\ {lazy', failed', reloading', qdirty', dirty', polling'} \subseteq BOOLEAN
        /\ gone' \in [Ids -> Int] /\ Counts' /\ Balance'
        /\ CoreShape' /\ InStep' /\ StoreInStep'
    BY <1>1, SessionEnds DEF Disconnect, TFlags
  <1>3. TFlags'
    BY <1>1, <1>2 DEF TFlags, Disconnect
  <1>4. left' \in [Events -> Nat]
    BY <1>1, SpendTyped DEF Disconnect, Events
  <1>5. TWorld'
    BY <1>1, <1>2, <1>4 DEF TWorld, Disconnect
  <1> QED
    BY <1>2, <1>3, <1>5, Types DEF Inv

LEMMA QuitKeeps == ASSUME Inv, Quit PROVE Inv'
  <1>1. TypeOK /\ TFlags /\ TWorld
    BY Types DEF Inv
  <1>2. /\ TCore' /\ TMeters' /\ TQuota' /\ TFile'
        /\ {lazy', failed', reloading', qdirty', dirty', polling'} \subseteq BOOLEAN
        /\ gone' \in [Ids -> Int] /\ Counts' /\ Balance'
        /\ CoreShape' /\ InStep' /\ StoreInStep'
    BY <1>1, SessionEnds DEF Quit, TFlags
  <1>3. TFlags'
    BY <1>1, <1>2 DEF TFlags, Quit
  <1>4. left' \in [Events -> Nat]
    BY <1>1, SpendTyped DEF Quit, Events
  <1>5. TWorld'
    BY <1>1, <1>2, <1>4 DEF TWorld, Quit
  <1> QED
    BY <1>2, <1>3, <1>5, Types DEF Inv

LEMMA CrashKeeps == ASSUME Inv, Crash PROVE Inv'
  <1>1. TypeOK /\ TFlags /\ TCore /\ TMeters /\ TQuota /\ TFile /\ TWorld
    BY Types DEF Inv
  <1>2. gone' \in [Ids -> Int] /\ Counts' /\ Balance'
    BY EndsAlone DEF Crash, meter, quota
  <1>3. core' = NoCore /\ op' = NoOp /\ reading' = None /\ polling' = FALSE /\ NoOp \in Ops /\ NoCore \in Cores
    BY <1>2 DEF Crash, Ends, Stopped, NoOp, Ops, Kinds, Counts
  <1>4. TFlags' /\ TCore' /\ TMeters' /\ TQuota' /\ TFile'
    BY <1>1, <1>3 DEF TFlags, TCore, TMeters, TQuota, TFile, Crash, meter, quota
  <1>5. left' \in [Events -> Nat]
    BY <1>1, SpendTyped DEF Crash, Events
  <1>6. TWorld'
    BY <1>1, <1>2, <1>5 DEF TWorld, Crash
  <1>7. CoreShape' /\ InStep' /\ StoreInStep'
    BY <1>3, FreshIs DEF CoreShape, InStep, StoreInStep, Told, Running, NoOp, Crash
  <1> QED
    BY <1>2, <1>4, <1>6, <1>7, Types DEF Inv

LEMMA ReapplyKeeps == ASSUME Inv, Reapply PROVE Inv'
  <1>1. TypeOK /\ TFlags /\ TCore /\ TMeters /\ TQuota /\ TFile /\ TWorld
    BY Types DEF Inv
  <1>2. PICK skip \in SUBSET Links : Skip(skip) /\ Begins("reapply", tagMap, skip)
    BY DEF Reapply
  <1>3. tagMap \in Servers /\ NoCore \in Cores
    BY <1>1, NoRest, FreshIs DEF Reapply, TMeters
  <1>4. op'.kind = "reapply" /\ op'.srv = tagMap /\ ~op'.grace /\ op' \in Ops
    BY <1>2, <1>3 DEF Begins, Ops, Kinds
  <1>5. /\ Rolled \in [Links -> Used] /\ used' = Rolled
        /\ gone' \in [Ids -> Int] /\ Counts' /\ Balance'
    <2>1. \A id \in Ids : Rest(core)[id] \in Nat /\ gone[id] \in Int /\ Ended[id] \in Int
      BY <1>1, RestIs, RolledIs DEF Inv, Counts, TWorld
    <2>2. \A id \in Ids : gone'[id] = gone[id] + Ended[id] + Rest(core)[id]
      BY <2>1 DEF Reapply, Uncounted, Rest
    <2>3. /\ gone' = [id \in Ids |-> gone'[id]] /\ carried' = carried /\ raced' = raced
          /\ totals' = totals /\ used' = Rolled /\ core' = Fresh(None, {})
      BY <1>2, FreshIs DEF Reapply, Skip
    <2>4. \A s \in Servers : totals[s] \in Nat
      BY <1>1 DEF TMeters
    <2>5. \A id \in Ids : Has(id)' = Has(id) - Ended[id]
      BY <1>1, <2>1, <2>3, <2>4, RolledIs DEF Has, Ids
    <2>6. Counts' /\ Balance' /\ gone' \in [Ids -> Int]
      <3> DEFINE x == Ended
      <3>1. \A id \in Ids : x[id] \in Int /\ Has(id)' = Has(id) - x[id]
        BY <2>1, <2>5
      <3>2. \A id \in Ids : gone'[id] = gone[id] + x[id] + Rest(core)[id]
        BY <2>2
      <3> HIDE DEF x
      <3>3. None \in Servers \cup {None} /\ {} \in SUBSET Links
        OBVIOUS
      <3> QED
        BY <2>3, <3>1, <3>2, <3>3, EndsBooks
    <2> QED
      BY <1>1, <2>3, <2>6, RolledIs
  <1> DEFINE h == [held EXCEPT !.totals = totals]
  <1>6. h \in Files /\ h.totals = totals /\ h.used = held.used
    BY <1>1, HeldTotals DEF TMeters
  <1>7. \/ /\ dirty /\ held' = h /\ lazy' = FALSE /\ age' = 0
           /\ kept' \in Files /\ failed' \in BOOLEAN /\ (failed' \/ kept' = h)
        \/ ~dirty /\ held' = held /\ lazy' = lazy /\ kept' = kept /\ failed' = failed /\ age' = age
    <2>1. IF dirty THEN Save(h) /\ age' = 0 ELSE NoSave /\ UNCHANGED age
      BY DEF Reapply
    <2> HIDE DEF h
    <2>2. CASE dirty
      BY <1>1, <1>6, <2>1, <2>2, SaveIs DEF TFile, TFlags
    <2>3. CASE ~dirty
      BY <2>1, <2>3 DEF NoSave, store
    <2> QED
      BY <2>2, <2>3
  <1> HIDE DEF h
  <1>8. TFlags' /\ TFile'
    BY <1>1, <1>2, <1>6, <1>7 DEF TFlags, TFile, Reapply, Stopped, Skip
  <1>9. TCore' /\ TMeters' /\ TQuota'
    BY <1>1, <1>3, <1>4, <1>5, <1>7 DEF TCore, TMeters, TQuota, Reapply, Stopped
  <1>10. left' \in [Events -> Nat]
    BY <1>1, SpendTyped DEF Reapply, Events
  <1>11. TWorld'
    BY <1>1, <1>5, <1>10 DEF TWorld, Reapply
  <1>12. CoreShape' /\ InStep'
    BY <1>3, <1>4, FreshIs DEF CoreShape, InStep, Told, Running, NoOp, Reapply, Stopped
  <1>13. StoreInStep'
    <2>1. /\ dirty \/ held.totals = totals
          /\ qdirty \/ held.used = used
          /\ failed \/ kept.totals = held.totals
          /\ failed \/ lazy \/ kept.used = held.used
      BY DEF Inv, StoreInStep, Reapply
    <2>2. totals' = totals /\ qdirty' = (qdirty \/ Rolled # used)
      BY <1>2 DEF Reapply, Skip
    <2> QED
      BY <1>5, <1>6, <1>7, <2>1, <2>2 DEF StoreInStep
  <1> QED
    BY <1>5, <1>8, <1>9, <1>11, <1>12, <1>13, Types DEF Inv

(* What the disk does not have, no meter has after the next launch. *)
LEMMA LaunchKeeps == ASSUME Inv, Launch PROVE Inv'
  <1>1. TypeOK /\ TFlags /\ TCore /\ TMeters /\ TQuota /\ TFile /\ TWorld
    BY Types DEF Inv
  <1>2. ~Running /\ op = NoOp /\ reading = None
    BY DEF Inv, CoreShape, Launch
  <1>3. kept.totals \in [Servers -> Nat] /\ kept.used \in [Links -> Used]
    BY <1>1 DEF TFile, Files
  <1>4. ASSUME NEW id \in Ids
        PROVE  gone'[id] \in Int /\ Has(id)' + gone'[id] = Has(id) + gone[id]
    <2>1. gone'[id] = gone[id] + IF id \in Servers THEN totals[id] - kept.totals[id]
                                                   ELSE used[id].bytes - kept.used[id].bytes
      BY DEF Launch
    <2>2. gone[id] \in Int
      BY <1>1 DEF TWorld
    <2>3. CASE id \in Servers
      BY <1>1, <1>3, <2>1, <2>2, <2>3 DEF Has, TMeters, Launch
    <2>4. CASE id \notin Servers
      <3>1. used[id].bytes \in Nat /\ kept.used[id].bytes \in Nat
        BY <1>1, <1>3, <2>4 DEF TQuota, Used, Ids
      <3> QED
        BY <2>1, <2>2, <2>4, <3>1 DEF Has, Launch
    <2> QED
      BY <2>3, <2>4
  <1>5. Counts' /\ Balance'
    <2>1. ASSUME ~raced, NEW id \in Ids PROVE Has(id)' + gone'[id] + Rest(core)[id] = carried[id]
      BY <1>4, <2>1 DEF Inv, Balance
    <2> QED
      BY <2>1 DEF Inv, Counts, Balance, Launch
  <1>6. gone' \in [Ids -> Int]
    BY <1>4 DEF Launch
  <1>7. TFlags' /\ TCore' /\ TMeters' /\ TQuota' /\ TFile' /\ TWorld'
    <2>1. TFlags' /\ TCore'
      BY <1>1 DEF TFlags, TCore, Launch
    <2>2. TMeters' /\ TQuota'
      BY <1>1, <1>3 DEF TMeters, TQuota, Launch
    <2>3. TFile' /\ TWorld'
      BY <1>1, <1>6 DEF TFile, TWorld, Launch
    <2> QED
      BY <2>1, <2>2, <2>3
  <1>8. CoreShape' /\ InStep' /\ StoreInStep'
    BY <1>2 DEF Inv, CoreShape, InStep, StoreInStep, Told, Running, Launch, NoOp
  <1> QED
    BY <1>5, <1>7, <1>8, Types DEF Inv

LEMMA ClearKeeps == ASSUME Inv, Clear PROVE Inv'
  <1>1. TypeOK /\ TFlags /\ TCore /\ TMeters /\ TQuota /\ TFile /\ TWorld
    BY Types DEF Inv
  <1>2. PICK s \in Servers :
          /\ totals' = [totals EXCEPT ![s] = 0] /\ gone' = [gone EXCEPT ![s] = @ + totals[s]]
          /\ Save([held EXCEPT !.totals = totals'])
    BY DEF Clear
  <1>3. totals' \in [Servers -> Nat] /\ gone' \in [Ids -> Int] /\ s \in Ids
    BY <1>1, <1>2 DEF TMeters, TWorld, Ids
  <1> DEFINE h == [held EXCEPT !.totals = totals']
  <1>4. h \in Files /\ h.totals = totals' /\ h.used = held.used
    BY <1>1, <1>3, HeldTotals
  <1>5. held' = h /\ lazy' = FALSE /\ kept' \in Files /\ failed' \in BOOLEAN /\ (failed' \/ kept' = h)
    <2>1. Save(h)
      BY <1>2
    <2> HIDE DEF h
    <2> QED
      BY <1>1, <1>4, <2>1, SaveIs DEF TFile, TFlags
  <1> HIDE DEF h
  <1>6. TFlags' /\ TCore' /\ TMeters' /\ TQuota' /\ TFile'
    <2>1. TFlags'
      BY <1>1, <1>5 DEF TFlags, Clear, quota
    <2>2. TFile'
      BY <1>4, <1>5 DEF TFile
    <2>3. TMeters' /\ TQuota' /\ TCore'
      BY <1>1, <1>3 DEF TMeters, TQuota, TCore, Clear, quota
    <2> QED
      BY <2>1, <2>2, <2>3
  <1>7. left' \in [Events -> Nat]
    BY <1>1, SpendTyped DEF Clear, Events
  <1>8. TWorld'
    BY <1>1, <1>3, <1>7 DEF TWorld, Clear
  <1>9. CoreShape' /\ InStep'
    BY DEF Inv, CoreShape, InStep, Told, Running, Clear, quota
  <1>10. StoreInStep'
    BY <1>4, <1>5 DEF Inv, StoreInStep, Clear, quota
  <1>11. Counts' /\ Balance'
    <2>1. ASSUME ~raced, NEW id \in Ids PROVE Has(id)' + gone'[id] + Rest(core)[id] = carried[id]
      <3>1. Has(id) + gone[id] + Rest(core)[id] = carried[id] /\ Rest(core)[id] \in Nat
        BY <2>1, RestIs DEF Inv, Balance, Counts
      <3>2. gone[id] \in Int /\ (id \in Servers => totals[id] \in Nat)
        BY <1>1 DEF TWorld, TMeters
      <3>3. CASE id = s
        <4>1. gone'[id] = gone[id] + totals[id] /\ Has(id)' = 0 /\ Has(id) = totals[id]
          BY <1>1, <1>2, <1>3, <3>3 DEF Has, TWorld, TMeters
        <4> QED
          BY <3>1, <3>2, <3>3, <4>1
      <3>4. CASE id # s
        <4>1. gone'[id] = gone[id] /\ Has(id)' = Has(id)
          BY <1>1, <1>2, <1>3, <3>4 DEF Has, TWorld, TMeters, Clear, quota
        <4> QED
          BY <3>1, <4>1
      <3> QED
        BY <3>3, <3>4
    <2> QED
      BY <2>1 DEF Inv, Counts, Balance, Clear
  <1> QED
    BY <1>6, <1>8, <1>9, <1>10, <1>11, Types DEF Inv

-----------------------------------------------------------------------------
(* An answer that lands. *)

LEMMA DeltaIs ==
  ASSUME NEW p \in Nat, NEW c \in Nat
  PROVE  deltaOf(p, c) \in Nat /\ (p <= c => deltaOf(p, c) = c - p)
  BY DEF deltaOf

LEMMA BeforeIs ==
  ASSUME TMeters
  PROVE  Before(prev) \in Vectors /\ Before(qprev) \in Vectors
  BY ZeroSum DEF TMeters, Before, Vectors

LEMMA SettleIs ==
  ASSUME TFlags, TQuota, NEW want, Settle(want)
  PROVE  reloading' \in BOOLEAN /\ cooling' \in BOOLEAN /\ queued' \subseteq Askers
  BY DEF TFlags, TQuota, Settle, Askers

LEMMA PollLandsKeeps == ASSUME Inv, PollLands PROVE Inv'
  <1>1. TypeOK /\ TFlags /\ TCore /\ TMeters /\ TQuota /\ TFile /\ TWorld
    BY Types DEF Inv
  <1> DEFINE by == [l \in Links |-> deltaOf(Before(qprev)[l], reading.via[l])]
             sum == deltaOf(Sum(Before(prev)), Sum(reading.via))
             u == [l \in Links |-> [Rolled[l] EXCEPT !.bytes = @ + by[l]]]
             t == IF tagMap = None THEN totals ELSE [totals EXCEPT ![tagMap] = @ + sum]
             links == qdirty \/ u # used
             configs == dirty \/ t # totals
             flush == links /\ Later(qage) = SaveEvery
             write == configs /\ Later(age) = SaveEvery
             h == [totals |-> IF write THEN t ELSE held.totals, used |-> IF flush THEN u ELSE held.used]
             new == [id \in Ids |-> IF id = reading.of THEN sum ELSE IF id \in Links THEN by[id] ELSE 0]
  <1>2. /\ open /\ reading # None /\ reading' = None
        /\ used' = u /\ qprev' = reading.via /\ totals' = t /\ prev' = reading.via
        /\ qdirty' = (links /\ ~flush) /\ qage' = IF flush THEN 0 ELSE Later(qage)
        /\ dirty' = (configs /\ ~write) /\ age' = IF write THEN 0 ELSE Later(age)
        /\ IF write THEN Save(h)
                    ELSE held' = h /\ lazy' = (lazy \/ flush) /\ UNCHANGED <<kept, failed>>
        /\ Settle(Over(u))
        /\ core' = IF reading.old THEN core ELSE [core EXCEPT !.counted = reading.via]
        /\ gone' = [id \in Ids |-> gone[id] + Ended[id] - IF reading.old THEN new[id] ELSE 0]
        /\ raced' = (raced \/ (op.grace /\ ~reading.old) \/ reading.of # tagMap)
        /\ UNCHANGED <<open, op, tagMap, built, polling, day, pending, left, carried>>
    BY DEF PollLands
  <1>3. reading.via \in Vectors /\ reading.of \in Servers /\ reading.old \in BOOLEAN
    BY <1>1, <1>2 DEF TCore, Readings, Vectors
  <1>4. Before(prev) \in Vectors /\ Before(qprev) \in Vectors
    BY <1>1, BeforeIs
  <1>5. by \in Vectors /\ sum \in Nat
    <2>1. \A l \in Links : Before(qprev)[l] \in Nat /\ reading.via[l] \in Nat
      BY <1>3, <1>4 DEF Vectors
    <2>2. Sum(Before(prev)) \in Nat /\ Sum(reading.via) \in Nat
      BY <1>3, <1>4, LinkSum
    <2> QED
      BY <2>1, <2>2, DeltaIs DEF Vectors
  <1>by. \A l \in Links : by[l] = deltaOf(Before(qprev)[l], reading.via[l]) /\ by[l] \in Nat
    <2>1. \A l \in Links : by[l] = deltaOf(Before(qprev)[l], reading.via[l])
      OBVIOUS
    <2> HIDE DEF by
    <2> QED
      BY <1>5, <2>1 DEF Vectors
  <1>sum. sum = deltaOf(Sum(Before(prev)), Sum(reading.via))
    OBVIOUS
  <1>new. /\ \A id \in Ids : new[id] = IF id = reading.of THEN sum ELSE IF id \in Links THEN by[id] ELSE 0
          /\ \A id \in Ids : new[id] \in Nat
    <2> HIDE DEF by, sum
    <2> QED
      BY <1>5, <1>by DEF Ids
  <1> HIDE DEF by, sum, new
  <1>6. u \in [Links -> Used] /\ \A l \in Links : u[l].bytes = Rolled[l].bytes + by[l]
    BY <1>1, <1>by, RolledIs DEF Used
  <1>7. t \in [Servers -> Nat] /\ \A s \in Servers : t[s] = totals[s] + IF s = tagMap THEN sum ELSE 0
    BY <1>1, <1>5, UsageAssumption DEF TMeters
  <1> HIDE DEF u, t
  <1>8. h \in Files /\ h.totals = (IF write THEN t ELSE held.totals) /\ h.used = IF flush THEN u ELSE held.used
    <2>1. held.totals \in [Servers -> Nat] /\ held.used \in [Links -> Used]
      BY <1>1 DEF TFile, Files
    <2> HIDE DEF write, flush
    <2> QED
      BY <1>6, <1>7, <2>1 DEF Files
  <1> HIDE DEF h
  <1>9. {links, configs, flush, write} \subseteq BOOLEAN
    BY <1>1 DEF TFlags
  <1>10. Later(age) \in Nat /\ Later(qage) \in Nat
    BY <1>1, UsageAssumption DEF TMeters, Later
  <1>11. \/ /\ write /\ held' = h /\ lazy' = FALSE
            /\ kept' \in Files /\ failed' \in BOOLEAN /\ (failed' \/ kept' = h)
         \/ ~write /\ held' = h /\ lazy' = (lazy \/ flush) /\ kept' = kept /\ failed' = failed
    <2> HIDE DEF write, flush
    <2>1. CASE write
      BY <1>1, <1>2, <1>8, <2>1, SaveIs DEF TFile, TFlags
    <2> QED
      BY <1>2, <2>1
  <1>12. (links <=> qdirty \/ u # used) /\ (configs <=> dirty \/ t # totals)
    OBVIOUS
  <1>13. (write => configs) /\ (flush => links)
    OBVIOUS
  <1> HIDE DEF write, flush, links, configs
  <1>14. StoreInStep'
    <2>1. /\ dirty \/ held.totals = totals
          /\ qdirty \/ held.used = used
          /\ failed \/ kept.totals = held.totals
          /\ failed \/ lazy \/ kept.used = held.used
      BY <1>2 DEF Inv, StoreInStep
    <2>2. dirty' \/ held'.totals = totals'
      BY <1>2, <1>8, <1>11, <1>12, <1>13, <2>1
    <2>3. qdirty' \/ held'.used = used'
      BY <1>2, <1>8, <1>11, <1>12, <1>13, <2>1
    <2>4. failed' \/ kept'.totals = held'.totals
      BY <1>8, <1>11, <2>1
    <2>5. failed' \/ lazy' \/ kept'.used = held'.used
      BY <1>8, <1>11, <2>1
    <2> QED
      BY <2>2, <2>3, <2>4, <2>5 DEF StoreInStep
  <1>15. \A l \in Links :
           /\ core.counted[l] \in Nat /\ core.via[l] \in Nat
           /\ ~reading.old => core.counted[l] <= reading.via[l] /\ reading.via[l] <= core.via[l]
    BY <1>1, <1>2 DEF Inv, InStep, TCore, Cores
  <1>16. /\ ~reading.old => Running /\ reading.of = core.srv /\ core.srv \in Servers
         /\ reading.old => ~Told
    BY <1>2, <1>3 DEF Inv, InStep
  <1>17. core \in Cores /\ Behind(core.counted, core.via)
    BY DEF Inv, Counts
  <1>18. ASSUME ~reading.old
         PROVE  /\ core' \in Cores /\ Behind(core'.counted, core'.via)
                /\ \A id \in Ids : Rest(core)[id] = Rest(core')[id] +
                     IF id = core.srv THEN Sum(reading.via) - Sum(core.counted)
                     ELSE IF id \in Links THEN reading.via[id] - core.counted[id] ELSE 0
                /\ core'.srv = core.srv /\ core'.counted = reading.via /\ core'.without = core.without
                /\ core'.via = core.via
    <2>1. core' = [core EXCEPT !.counted = reading.via]
      BY <1>2, <1>18
    <2>2. Behind(core.counted, reading.via) /\ Behind(reading.via, core.via)
      BY <1>15, <1>18 DEF Behind
    <2>3. core'.srv = core.srv /\ core'.counted = reading.via /\ core'.without = core.without /\ core'.via = core.via
      BY <1>17, <2>1 DEF Cores
    <2> QED
      BY <1>3, <1>16, <1>17, <1>18, <2>1, <2>2, <2>3, RestRead
  <1>19. /\ reading.old => core' = core
         /\ core'.srv = core.srv /\ core'.without = core.without /\ core'.via = core.via
         /\ core' \in Cores /\ Behind(core'.counted, core'.via)
    BY <1>2, <1>17, <1>18
  <1>20. gone' \in [Ids -> Int] /\ \A id \in Ids : gone[id] \in Int /\ Ended[id] \in Int
    <2>1. \A id \in Ids : gone[id] \in Int /\ Ended[id] \in Int /\ new[id] \in Int
      BY <1>1, <1>new, RolledIs DEF TWorld
    <2> QED
      BY <1>2, <2>1
  <1>21. Balance'
    <2> SUFFICES ASSUME ~raced', NEW id \in Ids
                 PROVE  Has(id)' + gone'[id] + Rest(core')[id] = carried[id]
      BY <1>2 DEF Balance
    <2>1. ~raced /\ (op.grace => reading.old) /\ reading.of = tagMap
      BY <1>2
    <2>2. Has(id) + gone[id] + Rest(core)[id] = carried[id] /\ Rest(core)[id] \in Nat
      BY <1>17, <2>1, RestIs DEF Inv, Balance
    <2>3. Rest(core')[id] \in Nat
      BY <1>19, RestIs
    <2> DEFINE more == IF id = tagMap THEN sum ELSE IF id \in Links THEN by[id] ELSE 0
    <2>4. more = new[id] /\ more \in Nat
      BY <1>new, <2>1
    <2>5. Has(id)' + Ended[id] = Has(id) + more /\ Has(id) \in Nat /\ Has(id)' \in Nat
      <3>1. CASE id \in Servers
        <4>1. Has(id)' = t[id] /\ Has(id) = totals[id] /\ Ended[id] = 0 /\ id \notin Links
          BY <1>1, <1>2, <3>1, RolledIs, UsageAssumption DEF Has
        <4>2. totals[id] \in Nat /\ t[id] \in Nat /\ t[id] = totals[id] + IF id = tagMap THEN sum ELSE 0
          BY <1>1, <1>7, <3>1 DEF TMeters
        <4> QED
          BY <1>5, <4>1, <4>2
      <3>2. CASE id \notin Servers
        <4>1. id \in Links /\ id # tagMap
          BY <1>3, <2>1, <3>2 DEF Ids
        <4>2. Has(id)' = u[id].bytes /\ Has(id) = used[id].bytes
          BY <1>2, <3>2 DEF Has
        <4>3. /\ used[id].bytes \in Nat /\ Rolled[id].bytes \in Nat /\ u[id].bytes = Rolled[id].bytes + by[id]
              /\ Ended[id] = used[id].bytes - Rolled[id].bytes /\ by[id] \in Nat
          BY <1>1, <1>6, <1>by, <4>1, RolledIs
        <4> QED
          BY <4>1, <4>2, <4>3
      <3> QED
        BY <3>1, <3>2
    <2>6. CASE reading.old
      <3>1. gone'[id] = gone[id] + Ended[id] - more /\ core' = core
        BY <1>2, <1>19, <2>4, <2>6
      <3> QED
        BY <1>20, <2>2, <2>4, <2>5, <3>1
    <2>7. CASE ~reading.old
      <3>1. gone'[id] = gone[id] + Ended[id]
        BY <1>2, <1>20, <2>7
      <3>2. Told /\ \A l \in Links : Before(qprev)[l] = core.counted[l] /\ Before(prev)[l] = core.counted[l]
        BY <1>16, <2>1, <2>7 DEF Told, Inv, InStep
      <3>3. Before(prev) = core.counted /\ core.counted \in Vectors
        BY <1>4, <1>17, <3>2 DEF Vectors, Cores
      <3>4. sum = Sum(reading.via) - Sum(core.counted)
        <4>1. Behind(core.counted, reading.via)
          BY <1>15, <2>7 DEF Behind
        <4>2. Sum(core.counted) \in Nat /\ Sum(reading.via) \in Nat /\ Sum(core.counted) <= Sum(reading.via)
          BY <1>3, <3>3, <4>1, LinkSum, SumApart
        <4>3. sum = deltaOf(Sum(core.counted), Sum(reading.via))
          BY <1>sum, <3>3
        <4> QED
          BY <4>2, <4>3, DeltaIs
      <3>5. ASSUME id \in Links PROVE by[id] = reading.via[id] - core.counted[id]
        <4>1. core.counted[id] \in Nat /\ reading.via[id] \in Nat /\ core.counted[id] <= reading.via[id]
          BY <1>3, <1>15, <2>7, <3>5 DEF Vectors
        <4>2. by[id] = deltaOf(core.counted[id], reading.via[id])
          BY <1>by, <3>2, <3>5
        <4> QED
          BY <4>1, <4>2, DeltaIs
      <3>6. Rest(core)[id] = Rest(core')[id] + more
        BY <1>16, <1>18, <2>1, <2>7, <3>4, <3>5
      <3> QED
        BY <1>20, <2>2, <2>3, <2>4, <2>5, <3>1, <3>6
    <2> QED
      BY <1>3, <2>6, <2>7
  <1>22. InStep'
    <2>1. (Told' <=> Told) /\ (Running' <=> Running) /\ op' = op
      BY <1>2, <1>19 DEF Told, Running
    <2>2. Told => tagMap' = core'.srv /\ built' = core'.without /\ ~reading.old
      BY <1>2, <1>16, <1>19 DEF Inv, InStep
    <2>3. reading.via # <<>> \/ Links = {}
      BY <1>3 DEF Vectors
    <2>4. \A l \in Links : Before(reading.via)[l] = reading.via[l]
      BY <1>3, <2>3 DEF Before, Vectors
    <2>5. ASSUME NEW l \in Links
          PROVE  /\ core'.counted[l] <= core'.via[l]
                 /\ Told /\ ~raced' => Before(qprev')[l] = core'.counted[l] /\ Before(prev')[l] = core'.counted[l]
                 /\ op.grace /\ ~raced' => core'.counted[l] = 0
      <3>1. core'.counted[l] <= core'.via[l]
        BY <1>19 DEF Behind
      <3>2. Told => Before(qprev')[l] = core'.counted[l] /\ Before(prev')[l] = core'.counted[l]
        BY <1>2, <1>18, <2>2, <2>4
      <3>3. op.grace /\ ~raced' => reading.old /\ ~raced
        BY <1>2
      <3>4. op.grace /\ ~raced' => core'.counted[l] = 0
        BY <1>19, <3>3 DEF Inv, InStep
      <3> QED
        BY <3>1, <3>2, <3>4
    <2> QED
      BY <1>2, <2>1, <2>2, <2>5 DEF InStep
  <1>23. CoreShape'
    <2>1. reading.old \/ Running
      BY <1>3, <1>16
    <2> QED
      BY <1>2, <1>19, <2>1 DEF Inv, CoreShape, Running
  <1>24. TFlags'
    <2>1. {qdirty', dirty', lazy', failed', raced', reloading', cooling'} \subseteq BOOLEAN
      BY <1>1, <1>2, <1>3, <1>9, <1>11, SettleIs DEF TFlags
    <2> QED
      BY <1>1, <1>2, <2>1 DEF TFlags
  <1>25. TCore' /\ TQuota' /\ TFile'
    BY <1>1, <1>2, <1>6, <1>8, <1>11, <1>19, SettleIs DEF TCore, TQuota, TFile
  <1>26. TMeters'
    BY <1>1, <1>2, <1>3, <1>7, <1>10 DEF TMeters, Vectors
  <1>27. TWorld'
    BY <1>1, <1>2, <1>20 DEF TWorld
  <1>28. Counts'
    BY <1>19 DEF Counts
  <1> QED
    BY <1>14, <1>21, <1>22, <1>23, <1>24, <1>25, <1>26, <1>27, <1>28, Types DEF Inv

-----------------------------------------------------------------------------
(* Every step. *)

LEMMA Step == Inv /\ [Next]_vars => Inv'
  <1> SUFFICES ASSUME Inv, [Next]_vars PROVE Inv'
    OBVIOUS
  <1>1. CASE Polls
    BY <1>1, PollReadsKeeps, PollLandsKeeps DEF Polls
  <1>2. CASE Builds
    BY <1>2, ReloadBeginsKeeps, CoreStartsKeeps, GivesWayKeeps, ReadyKeeps DEF Builds
  <1>3. CASE User
    BY <1>3, ConnectKeeps, ReapplyKeeps, DisconnectKeeps, QuitKeeps, ClearKeeps, EditKeeps DEF User
  <1>4. CASE World
    BY <1>4, CarryKeeps, DieKeeps, WatchAsksKeeps, CrashKeeps, NextDayKeeps DEF World
  <1>5. CASE LazyTimer \/ CoolDown \/ Launch
    BY <1>5, LazyTimerKeeps, CoolDownKeeps, LaunchKeeps
  <1>6. CASE UNCHANGED vars
    BY <1>6 DEF vars, meter, quota, store, truth, Inv, TypeOK, CoreShape, InStep, StoreInStep, Counts,
         Balance, Told, Running, Has
  <1> QED
    BY <1>1, <1>2, <1>3, <1>4, <1>5, <1>6 DEF Next

LEMMA Inductive == IInv /\ [Next]_vars => IInv'
  <1>1. Inv' => IInv'
    BY Books, PTL
  <1> QED
    BY <1>1, Books, Step

LEMMA UsageInvariant == Spec => []IInv
  BY Initial, Inductive, PTL DEF Spec

(* The variables keep their types. *)
THEOREM TypeCorrect == Spec => []TypeOK
  <1>1. IInv => TypeOK
    BY DEF IInv
  <1> QED
    BY <1>1, UsageInvariant, PTL

(* Every byte is counted once, however cores come and go. *)
THEOREM EveryByteCountedOnce == Spec => []EveryByteOnce
  <1>1. IInv => EveryByteOnce
    BY DEF IInv
  <1> QED
    BY <1>1, UsageInvariant, PTL

(* What a clean meter counted is on the disk, on its way there, or failed. *)
THEOREM CleanIsSaved == Spec => []CleanMeansSaved
  <1>1. IInv => CleanMeansSaved
    BY DEF IInv, StoreInStep, CleanMeansSaved
  <1> QED
    BY <1>1, UsageInvariant, PTL

(* The caps are held to what the core that runs was built without. *)
THEOREM AlwaysHeldToWhatRuns == Spec => []HeldToWhatRuns
  <1>1. IInv => HeldToWhatRuns
    BY DEF IInv, CoreShape, InStep, Told, HeldToWhatRuns
  <1> QED
    BY <1>1, UsageInvariant, PTL
=============================================================================
