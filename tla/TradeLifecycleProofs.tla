------------------------ MODULE TradeLifecycleProofs ------------------------
(***************************************************************************)
(* Proofs about TradeLifecycle, for any number of targets, any cases and   *)
(* any number of attempts: the take-profit plan allocates the whole        *)
(* position, the ledger of a ladder balances, and a stop is never replaced *)
(* by nothing.                                                             *)
(***************************************************************************)
EXTENDS TradeLifecycle, SumTheorems, SequenceTheorems, TLAPS

USE NoneAssumption, TargetsAssumption, AttemptsAssumption

-----------------------------------------------------------------------------
(* Natural numbers and chains of values.                                   *)

\* Every set of naturals that is not empty has a smallest element.
LEMMA Smallest ==
  ASSUME NEW S \in SUBSET Nat, S # {}
  PROVE  \E n \in S : \A m \in S : n <= m
<1>1. PICK n \in S : \A m \in S : <<m, n>> \notin OpToRel(<, Nat)
  BY NatLessThanWellFounded, WFMin
<1>2. ASSUME NEW m \in S PROVE n <= m
  <2>1. ~(m < n)
    BY <1>1 DEF OpToRel
  <2>2. QED BY <2>1
<1>3. QED BY <1>2

\* Every set of naturals up to a bound that is not empty has a largest element.
LEMMA Largest ==
  ASSUME NEW M \in Nat, NEW S \in SUBSET (0..M), S # {}
  PROVE  \E n \in S : \A m \in S : m <= n
<1> DEFINE T == {k \in Nat : M - k \in S}
<1>1. PICK x \in S : TRUE
  OBVIOUS
<1>2. M - x \in T
  BY <1>1
<1>3. PICK k \in T : \A j \in T : k <= j
  BY <1>2, Smallest
<1>4. ASSUME NEW m \in S PROVE m <= M - k
  <2>1. M - m \in T
    OBVIOUS
  <2>2. k <= M - m
    BY <1>3, <2>1
  <2>3. QED BY <2>2
<1>5. QED BY <1>3, <1>4

\* A set that has 0 and with every number the next has all up to the bound.
LEMMA UpTo ==
  ASSUME NEW M \in Nat, NEW G, 0 \in G,
         \A n \in 0..M : n \in G /\ n < M => n + 1 \in G
  PROVE  \A n \in 0..M : n \in G
<1> DEFINE bad == {n \in 0..M : n \notin G}
<1>1. SUFFICES ASSUME bad # {} PROVE FALSE
  OBVIOUS
<1>2. PICK n \in bad : \A m \in bad : n <= m
  <2>1. bad \in SUBSET Nat
    OBVIOUS
  <2> HIDE DEF bad
  <2>2. QED BY <1>1, <2>1, Smallest
<1>3. n # 0
  OBVIOUS
<1>4. n - 1 \in 0..M /\ n - 1 < M /\ n - 1 \notin bad
  BY <1>2, <1>3
<1>5. QED BY <1>4

\* A value for every number up to M, each from the one before it: a recursive
\* function that steps from h on.
Chain(f, M, h, a, step) ==
  \A g \in 0..M : f[g] = IF g <= h THEN a ELSE step[<<g, f[g - 1]>>]

\* Such a chain exists up to every bound.
LEMMA ChainExists ==
  ASSUME NEW M \in Nat, NEW h \in Nat, NEW a \in Int,
         NEW step \in [(1..M) \X Int -> Int]
  PROVE  \E f \in [0..M -> Int] : Chain(f, M, h, a, step)
<1> DEFINE G == {n \in 0..M : \E f \in [0..n -> Int] : Chain(f, n, h, a, step)}
<1>1. 0 \in G
  <2>1. [g \in 0..0 |-> a] \in [0..0 -> Int]
    OBVIOUS
  <2>2. Chain([g \in 0..0 |-> a], 0, h, a, step)
    BY DEF Chain
  <2>3. QED BY <2>1, <2>2
<1>2. ASSUME NEW n \in 0..M, n \in G, n < M PROVE n + 1 \in G
  <2>1. PICK f \in [0..n -> Int] : Chain(f, n, h, a, step)
    BY <1>2
  <2> DEFINE last == IF n + 1 <= h THEN a ELSE step[<<n + 1, f[n]>>]
             e == [g \in 0..(n + 1) |-> IF g = n + 1 THEN last ELSE f[g]]
  <2>2. last \in Int
    <3>1. <<n + 1, f[n]>> \in (1..M) \X Int
      BY <1>2, <2>1
    <3>2. QED BY <3>1
  <2>3. e \in [0..(n + 1) -> Int]
    <3> HIDE DEF last
    <3>1. QED BY <2>1, <2>2
  <2>4. ASSUME NEW g \in 0..(n + 1)
        PROVE  e[g] = IF g <= h THEN a ELSE step[<<g, e[g - 1]>>]
    <3>1. CASE g = n + 1
      <4>1. e[g] = last
        BY <3>1
      <4>2. e[g - 1] = f[n]
        BY <3>1
      <4>3. QED BY <3>1, <4>1, <4>2
    <3>2. CASE g # n + 1
      <4>1. g \in 0..n
        BY <3>2
      <4>2. f[g] = IF g <= h THEN a ELSE step[<<g, f[g - 1]>>]
        BY <2>1, <4>1 DEF Chain
      <4>3. e[g] = f[g]
        BY <3>2
      <4>4. g > h => e[g - 1] = f[g - 1]
        BY <4>1
      <4> HIDE DEF e
      <4>5. CASE g <= h
        BY <4>2, <4>3, <4>5
      <4>6. CASE ~(g <= h)
        <5>1. e[g] = step[<<g, f[g - 1]>>]
          BY <4>2, <4>3, <4>6
        <5>2. e[g - 1] = f[g - 1]
          BY <4>1, <4>4, <4>6
        <5>3. QED BY <4>6, <5>1, <5>2
      <4>7. QED BY <4>5, <4>6
    <3>3. QED BY <3>1, <3>2
  <2>5. Chain(e, n + 1, h, a, step)
    <3> HIDE DEF e
    <3>1. QED BY <2>4 DEF Chain
  <2>6. n + 1 \in 0..M
    BY <1>2
  <2> HIDE DEF e
  <2>7. QED BY <2>3, <2>5, <2>6
<1>3. M \in 0..M /\ \A n \in 0..M : n \in G
  <2> HIDE DEF G
  <2>1. QED BY <1>1, <1>2, UpTo
<1>4. QED BY <1>3

-----------------------------------------------------------------------------
(* Trade records.                                                          *)

\* What has come in is the fills of the legs; before the first one nothing was
\* closed, and the trade is not open; after it the trade waits no more, and of a
\* ladder all of it remains, waits for its fills, or was booked.
Balanced(t) ==
  /\ \A i \in Legs : t.got[i] <= LegQty[i]
  /\ t.entered = t.got[1] + t.got[2] + t.got[3]
  /\ t.ladder \/ (t.got[1] = 0 /\ t.got[3] = 0)
  /\ IF t.entered = 0
     THEN /\ t.audit = 0 /\ t.booked = 0 /\ t.status # "open"
          /\ t.status # "waiting" => ~t.owned
     ELSE /\ t.status # "waiting"
          /\ t.ladder => t.entered = t.remaining + t.audit + t.booked
Sound(t) == t \in TradeRecord /\ Balanced(t)

\* The quantities of a record, and what its plan looks at.
PlanInput(t) == t.hits \in Nat /\ t.aims \in Nat /\ t.remaining \in Int
LEMMA Quantities ==
  ASSUME NEW t \in TradeRecord
  PROVE  /\ t.remaining \in Nat /\ t.remaining <= MaxQty /\ MaxQty \in Nat
         /\ t.entered \in Nat /\ t.entered <= MaxQty
         /\ t.audit \in Nat /\ t.booked \in Nat
         /\ t.hits \in Nat /\ t.hits <= MaxTargets
         /\ t.aims \in Nat /\ t.aims >= 1 /\ t.aims <= MaxTargets
         /\ PlanInput(t)
BY DEF TradeRecord, MaxQty, PlanInput

\* The trade has something to close.
Filled(t) == t.entered > 0

\* What every step does to what the record says of its legs and of its end: no
\* leg is planned again, no fill is recorded that the exchange does not have,
\* and a trade that has ended keeps a reason.
Records(t, u) ==
  /\ u.ladder = t.ladder /\ (u.reason = None => t.reason = None)
  /\ \A i \in Legs : /\ u.known[i] = "planned" => t.known[i] = "planned"
                     /\ u.got[i] = t.got[i] \/ u.got[i] <= leg'[i].got

\* The steps that make a single order a position: it is sent, it is applied as
\* the monitor has read it, its cancellation came too late, or the sync shows it.
Enters ==
  \/ SubmitLeg \/ MonitorApplies
  \/ \E k \in Tasks :
       \/ CancelWaiting(k) /\ Goto(k, <<"plan", "activated", "close", "closed">>)
       \/ SyncBooks(k) /\ IsWaiting(trade)

\* A single order has brought in all that remains, waits for its fills, and was
\* booked.
Clear(t) == ~t.ladder /\ Filled(t) => t.remaining + t.audit + t.booked <= t.entered

\* What it does to the quantities: what has come in stays, and is only ever set
\* anew, over what was booked, where a single order becomes a position.
Grows(t, u) ==
  /\ Records(t, u) /\ (Filled(t) => Filled(u))
  /\ IF t.ladder THEN u.entered >= t.entered ELSE Enters \/ u.entered = t.entered
  /\ Clear(t) => Clear(u) \/ (Enters /\ Filled(trade))
Keeps(t, u) == Sound(u) /\ Grows(t, u)

\* Steps add up, and what was filled stays filled.
LEMMA KeepsIsTransitive ==
  ASSUME NEW t \in TradeRecord, NEW u, NEW w, Keeps(t, u), Keeps(u, w)
  PROVE  Keeps(t, w)
<1>1. Records(t, w) /\ (Filled(t) => Filled(w)) /\ Sound(w)
  BY DEF Keeps, Grows, Records, Sound, TradeRecord
<1>2. IF t.ladder THEN w.entered >= t.entered ELSE Enters \/ w.entered = t.entered
  BY DEF Keeps, Grows, Records, Sound, TradeRecord
<1>3. Clear(t) => Clear(w) \/ (Enters /\ Filled(trade))
  BY DEF Keeps, Grows
<1>4. QED BY <1>1, <1>2, <1>3 DEF Keeps, Grows

\* Legs that have brought something in have done so after a step, too.
LEMMA FilledStays ==
  ASSUME NEW t \in TradeRecord, NEW u, Keeps(t, u), Filled(t)
  PROVE  Filled(u)
BY DEF Keeps, Grows, Records, Sound, Filled, TradeRecord

\* A step that leaves the quantities alone keeps the ledger, unless it opens or
\* closes a trade that has nothing.
SameLedger(t, u) ==
  /\ u.ladder = t.ladder /\ u.remaining = t.remaining /\ u.entered = t.entered
  /\ u.got = t.got /\ u.audit = t.audit /\ u.booked = t.booked
  /\ u.reason = None => t.reason = None
  /\ \A i \in Legs : u.known[i] = "planned" => t.known[i] = "planned"

\* Then the ledger balances after the step.
LEMMA LedgerKept ==
  ASSUME NEW t, Sound(t), NEW u \in TradeRecord, SameLedger(t, u),
         u.status = t.status \/ (Filled(t) /\ u.status # "waiting"),
         (u.owned => t.owned) \/ u.status = "waiting" \/ Filled(t)
  PROVE  Keeps(t, u)
<1>1. Balanced(u)
  <2>1. Balanced(t) /\ t.entered \in Nat
    BY Quantities DEF Sound
  <2>2. CASE t.entered = 0
    BY <2>1, <2>2 DEF Balanced, SameLedger, Filled
  <2>3. CASE t.entered # 0
    BY <2>1, <2>3 DEF Balanced, SameLedger, Filled
  <2>4. QED BY <2>2, <2>3
<1>2. QED
  BY <1>1 DEF Sound, Keeps, Grows, Records, SameLedger, TradeRecord, Filled, Clear

\* Booking, auditing and closing move quantity of a trade that has come in.
LEMMA SumKept ==
  ASSUME NEW t, Sound(t), Filled(t), NEW u \in TradeRecord,
         u.ladder = t.ladder, u.entered = t.entered, u.got = t.got,
         u.known = t.known, u.reason = None => t.reason = None,
         u.status # "waiting" \/ u.status = t.status,
         u.remaining + u.audit + u.booked = t.remaining + t.audit + t.booked
  PROVE  Keeps(t, u)
<1>1. Balanced(t) /\ t.entered \in Nat /\ t.entered # 0
  BY Quantities DEF Sound, Filled
<1>2. Balanced(u)
  BY <1>1 DEF Balanced
<1>3. Clear(t) => Clear(u)
  BY DEF Clear, Filled
<1>4. QED BY <1>1, <1>2, <1>3 DEF Keeps, Grows, Records, Sound, Filled

\* An open trade, and one of the engine's that does not wait, has something.
LEMMA OpenIsFilled ==
  ASSUME NEW t, Sound(t), t.status = "open" \/ (t.owned /\ t.status # "waiting")
  PROVE  Filled(t)
<1>1. t.entered \in Nat /\ t.entered # 0
  BY Quantities DEF Sound, Balanced
<1>2. QED BY <1>1 DEF Filled

\* The names in the code are among those of the records.
LEMMA Names ==
  /\ "filled" \in Knowns /\ "working" \in Knowns
  /\ \A x \in SUBSET Issues, i \in {"protection", "drift", "reconcile"} :
       x \union {i} \in SUBSET Issues /\ {} \in SUBSET Issues
  /\ \A r \in Reasons : r \in {None} \union Reasons
  /\ \A r \in {"target", "stop", "close", "missing", "unfilled", "failed"} :
       r \in Reasons /\ r \in {None} \union Reasons
  /\ \A r \in Reasons : r # None
  /\ 0 \in Int /\ 0 \in Nat
<1>1. 0 \in Int /\ 0 \in Nat
  OBVIOUS
<1>2. QED BY <1>1, NoneAssumption, Zenon DEF Knowns, Settled, Issues, Reasons

-----------------------------------------------------------------------------
(* The take-profit plan.                                                   *)

\* What the strategy would close at each target is an integer.
LEMMA SharesType ==
  ASSUME NEW t, PlanInput(t)
  PROVE  Shares(t) \in [0..MaxTargets -> Int]
<1> DEFINE step == [p \in (1..MaxTargets) \X Int |-> p[2] \div 2]
           Eq(f) == f = [g \in 0..MaxTargets |->
                           IF g <= t.hits THEN t.remaining ELSE f[g - 1] \div 2]
<1>1. t.hits \in Nat /\ t.remaining \in Int
  BY DEF PlanInput
<1>2. step \in [(1..MaxTargets) \X Int -> Int]
  OBVIOUS
<1>3. ASSUME NEW f \in [0..MaxTargets -> Int] PROVE
        Chain(f, MaxTargets, t.hits, t.remaining, step) => Eq(f)
  <2> SUFFICES ASSUME Chain(f, MaxTargets, t.hits, t.remaining, step) PROVE Eq(f)
    OBVIOUS
  <2>1. ASSUME NEW g \in 0..MaxTargets
        PROVE  f[g] = IF g <= t.hits THEN t.remaining ELSE f[g - 1] \div 2
    <3>1. CASE g <= t.hits
      BY <3>1 DEF Chain
    <3>2. CASE ~(g <= t.hits)
      <4>1. <<g, f[g - 1]>> \in (1..MaxTargets) \X Int
        BY <1>1, <3>2
      <4>2. f[g] = step[<<g, f[g - 1]>>]
        BY <3>2 DEF Chain
      <4>3. QED BY <3>2, <4>1, <4>2
    <3>3. QED BY <3>1, <3>2
  <2>2. QED BY <2>1
<1>4. \E f \in [0..MaxTargets -> Int] : Eq(f)
  <2> HIDE DEF step, Eq
  <2>1. QED BY <1>1, <1>2, <1>3, ChainExists
<1>5. Shares(t) = CHOOSE f : Eq(f)
  BY Zenon DEF Shares
<1>6. Eq(Shares(t))
  <2> HIDE DEF Eq
  <2>1. QED BY <1>4, <1>5
<1> DEFINE s == Shares(t)
<1>7. s = [g \in 0..MaxTargets |-> IF g <= t.hits THEN t.remaining
                                   ELSE s[g - 1] \div 2]
  BY <1>6
<1> HIDE DEF s
<1>8. ASSUME NEW n \in 0..MaxTargets, s[n] \in Int, n < MaxTargets PROVE s[n + 1] \in Int
  BY <1>1, <1>7, <1>8
<1> DEFINE G == {n \in 0..MaxTargets : s[n] \in Int}
<1>9. 0 \in G /\ \A n \in 0..MaxTargets : n \in G /\ n < MaxTargets => n + 1 \in G
  <2>1. s[0] = t.remaining
    BY <1>1, <1>7
  <2>2. QED BY <1>1, <1>8, <2>1
<1>10. \A n \in 0..MaxTargets : n \in G
  <2> HIDE DEF G
  <2>1. QED BY <1>9, UpTo
<1>11. QED BY <1>7, <1>10 DEF s
\* How many steps a target takes from what is left before it.
Take(t, g, x) == Lesser(x - (LastTarget(t) - g), Greater(1, Shares(t)[g]))

\* The steps that are left after each target, one target from the one before.
LEMMA LeftsStep ==
  ASSUME NEW t, PlanInput(t)
  PROVE  /\ Lefts(t) \in [0..MaxTargets -> Int]
         /\ \A g \in 0..MaxTargets :
              Lefts(t)[g] = IF g <= t.hits THEN t.remaining
                            ELSE IF g >= LastTarget(t) THEN 0
                            ELSE Lefts(t)[g - 1] - Take(t, g, Lefts(t)[g - 1])
<1> DEFINE step == [p \in (1..MaxTargets) \X Int |->
                      IF p[1] >= LastTarget(t) THEN 0 ELSE p[2] - Take(t, p[1], p[2])]
           Eq(f) == f = [g \in 0..MaxTargets |->
                           IF g <= t.hits THEN t.remaining
                           ELSE IF g >= LastTarget(t) THEN 0
                           ELSE f[g - 1] - Lesser(f[g - 1] - (LastTarget(t) - g),
                                                  Greater(1, Shares(t)[g]))]
<1>1. t.hits \in Nat /\ t.remaining \in Int /\ t.aims \in Nat /\ LastTarget(t) \in Int
  BY DEF PlanInput, LastTarget, Lesser
<1>2. ASSUME NEW g \in 0..MaxTargets, NEW x \in Int PROVE x - Take(t, g, x) \in Int
  <2>1. Shares(t)[g] \in Int
    BY SharesType
  <2>2. QED BY <1>1, <2>1 DEF Take, Lesser, Greater
<1>3. step \in [(1..MaxTargets) \X Int -> Int]
  <2>1. ASSUME NEW p \in (1..MaxTargets) \X Int PROVE step[p] \in Int
    BY <1>2
  <2>2. QED BY <2>1
<1>4. ASSUME NEW f \in [0..MaxTargets -> Int],
             Chain(f, MaxTargets, t.hits, t.remaining, step)
      PROVE  Eq(f)
  <2>1. ASSUME NEW g \in 0..MaxTargets
        PROVE  f[g] = IF g <= t.hits THEN t.remaining
                      ELSE IF g >= LastTarget(t) THEN 0
                      ELSE f[g - 1] - Take(t, g, f[g - 1])
    <3>1. CASE g <= t.hits
      BY <1>4, <3>1 DEF Chain
    <3>2. CASE ~(g <= t.hits)
      <4>1. <<g, f[g - 1]>> \in (1..MaxTargets) \X Int
        BY <1>1, <3>2
      <4>2. f[g] = step[<<g, f[g - 1]>>]
        BY <1>4, <3>2 DEF Chain
      <4>3. QED BY <3>2, <4>1, <4>2
    <3>3. QED BY <3>1, <3>2
  <2>2. QED BY <2>1 DEF Take
<1>5. \E f \in [0..MaxTargets -> Int] : Eq(f)
  <2> HIDE DEF step, Eq
  <2>1. QED BY <1>1, <1>3, <1>4, ChainExists
<1>6. Lefts(t) = CHOOSE f : Eq(f)
  BY Zenon DEF Lefts
<1>7. Eq(Lefts(t))
  <2> HIDE DEF Eq
  <2>1. QED BY <1>5, <1>6
<1> DEFINE l == Lefts(t)
<1>8. l = [g \in 0..MaxTargets |->
             IF g <= t.hits THEN t.remaining
             ELSE IF g >= LastTarget(t) THEN 0 ELSE l[g - 1] - Take(t, g, l[g - 1])]
  BY <1>7 DEF Take
<1> HIDE DEF l
<1> DEFINE G == {n \in 0..MaxTargets : l[n] \in Int}
<1>9. ASSUME NEW n \in 0..MaxTargets, l[n] \in Int, n < MaxTargets PROVE l[n + 1] \in Int
  <2>1. n + 1 \in 0..MaxTargets /\ (n + 1) - 1 = n
    BY <1>9
  <2>2. l[n] - Take(t, n + 1, l[n]) \in Int
    BY <1>2, <1>9, <2>1
  <2>3. l[n + 1] = IF n + 1 <= t.hits THEN t.remaining
                   ELSE IF n + 1 >= LastTarget(t) THEN 0 ELSE l[n] - Take(t, n + 1, l[n])
    BY <1>8, <2>1
  <2>4. QED BY <1>1, <2>2, <2>3
<1>10. 0 \in G /\ \A n \in 0..MaxTargets : n \in G /\ n < MaxTargets => n + 1 \in G
  <2>1. l[0] = t.remaining
    BY <1>1, <1>8
  <2>2. QED BY <1>1, <1>9, <2>1
<1>11. \A n \in 0..MaxTargets : n \in G
  <2> HIDE DEF G
  <2>1. QED BY <1>10, UpTo
<1>12. l \in [0..MaxTargets -> Int]
  BY <1>8, <1>11
<1>13. ASSUME NEW g \in 0..MaxTargets
       PROVE  l[g] = IF g <= t.hits THEN t.remaining
                     ELSE IF g >= LastTarget(t) THEN 0 ELSE l[g - 1] - Take(t, g, l[g - 1])
  BY <1>8
<1>14. QED BY <1>12, <1>13 DEF l

\* The plan has a quantity for every target.
LEMMA PlanType ==
  ASSUME NEW t, PlanInput(t)
  PROVE  PlanTargets(t) \in [Goals -> Int]
<1>1. PlanTargets(t) =
        [g \in Goals |-> IF g \in (t.hits + 1)..LastTarget(t)
                         THEN Lefts(t)[g - 1] - Lefts(t)[g] ELSE 0]
  BY DEF PlanTargets
<1>2. ASSUME NEW g \in Goals PROVE Lefts(t)[g - 1] - Lefts(t)[g] \in Int
  <2>1. g \in 0..MaxTargets /\ g - 1 \in 0..MaxTargets
    BY DEF Goals
  <2>2. QED BY <2>1, LeftsStep
<1>3. QED BY <1>1, <1>2

\* The take-profit plan of a trade with a target left gives at least one step
\* to each target it selects, nothing to the others, and the whole remainder
\* to all of them together: no part of a position is without a target
\* (plan_maximum_take_profit_orders in live_trading/take_profit_planner.py, which
\* asserts it.)
PlanTakesAll(t) ==
  /\ \A g \in Goals : IF g \in (t.hits + 1)..LastTarget(t)
                      THEN PlanTargets(t)[g] >= 1 ELSE PlanTargets(t)[g] = 0
  /\ SumFunction(PlanTargets(t)) = t.remaining

\* The plan does so for every trade that has something left and a target ahead,
\* for any number of targets.
THEOREM PlanIsComplete ==
  ASSUME NEW t, PlanInput(t), t.hits < t.aims, t.aims <= MaxTargets,
         t.remaining > 0
  PROVE  PlanTakesAll(t)
<1> DEFINE L == LastTarget(t)
           l == Lefts(t)
           p == PlanTargets(t)
           h == t.hits
<1>1. /\ h \in Nat /\ t.remaining \in Nat /\ L \in Nat /\ h < L /\ L <= MaxTargets
      /\ t.remaining >= L - h
  BY DEF PlanInput, LastTarget, Lesser
<1>2. /\ l \in [0..MaxTargets -> Int]
      /\ \A g \in 0..MaxTargets :
           l[g] = IF g <= h THEN t.remaining
                  ELSE IF g >= L THEN 0 ELSE l[g - 1] - Take(t, g, l[g - 1])
  BY LeftsStep
<1>3. p = [g \in Goals |-> IF g \in (h + 1)..L THEN l[g - 1] - l[g] ELSE 0]
  BY DEF PlanTargets
<1>4. \A g \in 0..MaxTargets : Shares(t)[g] \in Int
  BY SharesType
<1> HIDE DEF L, l, p, h
<1>5. ASSUME NEW g \in 0..MaxTargets, g > h, g < L, l[g - 1] >= L - (g - 1)
      PROVE  l[g] >= L - g /\ l[g - 1] - l[g] >= 1
  <2>1. Take(t, g, l[g - 1]) = Lesser(l[g - 1] - (L - g), Greater(1, Shares(t)[g]))
    BY DEF Take, L
  <2>2. l[g - 1] \in Int /\ Shares(t)[g] \in Int
    BY <1>1, <1>2, <1>4, <1>5
  <2>3. /\ Take(t, g, l[g - 1]) \in Int /\ Take(t, g, l[g - 1]) >= 1
        /\ Take(t, g, l[g - 1]) <= l[g - 1] - (L - g)
    BY <1>1, <1>5, <2>1, <2>2 DEF Lesser, Greater
  <2>4. l[g] = l[g - 1] - Take(t, g, l[g - 1])
    BY <1>1, <1>2, <1>5
  <2>5. QED BY <1>1, <2>2, <2>3, <2>4
\* What is left after a target suffices for the targets after it.
<1> DEFINE G == {n \in 0..MaxTargets : n < h \/ n >= L \/ l[n] >= L - n}
<1>6. \A n \in 0..MaxTargets : n \in G
  <2>1. 0 \in G
    BY <1>1, <1>2
  <2>2. ASSUME NEW n \in 0..MaxTargets, n \in G, n < MaxTargets PROVE n + 1 \in G
    <3>1. n + 1 \in 0..MaxTargets /\ (n + 1) - 1 = n
      BY <2>2
    <3>2. CASE n + 1 <= h
      <4>1. l[n + 1] = t.remaining
        BY <1>2, <3>1, <3>2
      <4>2. QED BY <1>1, <3>1, <3>2, <4>1
    <3>3. CASE n + 1 >= L
      BY <3>1, <3>3
    <3>4. CASE n + 1 > h /\ n + 1 < L
      BY <1>1, <1>5, <2>2, <3>1, <3>4
    <3>5. QED BY <1>1, <3>1, <3>2, <3>3, <3>4
  <2> HIDE DEF G
  <2>3. QED BY <2>1, <2>2, UpTo
<1>7. ASSUME NEW g \in Goals
      PROVE  IF g \in (h + 1)..L THEN p[g] >= 1 ELSE p[g] = 0
  <2>1. g \in 0..MaxTargets /\ g - 1 \in 0..MaxTargets
    BY DEF Goals
  <2>2. CASE g \notin (h + 1)..L
    BY <1>3, <2>2
  <2>3. CASE g \in (h + 1)..L
    <3>1. l[g - 1] >= L - (g - 1)
      <4>1. g - 1 \in G
        BY <1>6, <2>1
      <4>2. QED BY <1>1, <2>3, <4>1
    <3>2. p[g] = l[g - 1] - l[g]
      BY <1>3, <2>3
    <3>3. CASE g < L
      BY <1>1, <1>5, <2>1, <2>3, <3>1, <3>2, <3>3
    <3>4. CASE g = L
      <4>1. l[g] = 0
        BY <1>1, <1>2, <2>1, <3>4
      <4>2. l[g - 1] \in Int
        BY <1>2, <2>1
      <4>3. QED BY <1>1, <3>1, <3>2, <3>4, <4>1, <4>2
    <3>5. QED BY <1>1, <2>3, <3>3, <3>4
  <2>4. QED BY <2>2, <2>3
<1> HIDE DEF G
\* Up to each target the plan takes what is not left after it.
<1> DEFINE Sum(n) == SumFunctionOnSet(p, 1..n)
           H == {n \in 0..MaxTargets :
                   Sum(n) = IF n <= h THEN 0
                            ELSE IF n < L THEN t.remaining - l[n] ELSE t.remaining}
<1>8. \A n \in 0..MaxTargets : n \in H
  <2>1. 0 \in H
    <3>1. 1..0 = {}
      OBVIOUS
    <3>2. Sum(0) = 0
      BY <3>1, SumOfNothing
    <3>3. QED BY <1>1, <3>2
  <2>2. ASSUME NEW n \in 0..MaxTargets, n \in H, n < MaxTargets PROVE n + 1 \in H
    <3>1. /\ n + 1 \in 0..MaxTargets /\ (n + 1) - 1 = n
          /\ n + 1 \in Goals /\ n + 1 \in 1..(n + 1)
      BY <2>2 DEF Goals
    <3>2. (1..(n + 1)) \ {n + 1} = 1..n
      OBVIOUS
    <3>3. IsFiniteSet(1..(n + 1))
      BY FS_Interval
    <3>4. ASSUME NEW x \in 1..(n + 1) PROVE p[x] \in Nat
      <4>1. x \in Goals /\ x \in 0..MaxTargets /\ x - 1 \in 0..MaxTargets
        BY <2>2 DEF Goals
      <4>2. l[x - 1] \in Int /\ l[x] \in Int
        BY <1>2, <4>1
      <4>3. p[x] \in Int
        BY <1>3, <4>1, <4>2
      <4>4. p[x] >= 0
        BY <1>7, <4>1, <4>3
      <4>5. QED BY <4>3, <4>4
    <3>5. Sum(n + 1) = p[n + 1] + Sum(n)
      BY <3>1, <3>2, <3>3, <3>4, SumSplit
    <3>6. p[n + 1] = IF n + 1 \in (h + 1)..L THEN l[n] - l[n + 1] ELSE 0
      BY <1>3, <3>1
    <3>7. /\ l[n] = IF n <= h THEN t.remaining ELSE IF n >= L THEN 0 ELSE l[n]
          /\ l[n + 1] = IF n + 1 <= h THEN t.remaining
                        ELSE IF n + 1 >= L THEN 0 ELSE l[n + 1]
          /\ l[n] \in Int /\ l[n + 1] \in Int
      BY <1>2, <3>1
    <3>8. Sum(n) = IF n <= h THEN 0 ELSE IF n < L THEN t.remaining - l[n] ELSE t.remaining
      BY <2>2
    <3> HIDE DEF Sum
    <3>9. QED BY <1>1, <3>1, <3>5, <3>6, <3>7, <3>8
  <2> HIDE DEF H
  <2>3. QED BY <2>1, <2>2, UpTo
<1>9. SumFunction(p) = t.remaining
  <2>1. DOMAIN p = 1..MaxTargets
    BY <1>3 DEF Goals
  <2>2. Sum(MaxTargets) = t.remaining
    BY <1>1, <1>8
  <2>3. QED BY <2>1, <2>2 DEF SumFunction
<1>10. QED BY <1>7, <1>9 DEF PlanTakesAll, L, p, h

-----------------------------------------------------------------------------
(* The operators of FillLedger.                                            *)

\* A booking moves quantity from the remainder or the audit to what was booked.
LEMMA BookedKeeps ==
  ASSUME NEW t, Sound(t), Filled(t), NEW n \in Nat, NEW why \in Reasons
  PROVE  Keeps(t, Booked(t, n, why)) /\ Booked(t, n, why).sl = t.sl
<1> DEFINE u == Booked(t, n, why)
           applied == Lesser(t.remaining + t.audit, n)
           already == Lesser(t.audit, applied)
           left == t.remaining - Lesser(t.remaining, applied - already)
<1>1. t \in TradeRecord /\ Balanced(t)
  BY DEF Sound
<1>2. /\ t.remaining \in Nat /\ t.audit \in Nat /\ t.booked \in Nat /\ t.entered \in Nat
      /\ t.remaining <= MaxQty /\ MaxQty \in Nat
  BY <1>1, Quantities
<1>3. /\ applied \in Nat /\ already \in Nat /\ already <= t.audit
      /\ left \in 0..MaxQty
  BY <1>2 DEF Lesser
<1>4. left + (t.audit - already) + (t.booked + applied) = t.remaining + t.audit + t.booked
  BY <1>2 DEF Lesser
<1> HIDE DEF applied, already, left
<1>5. u = [t EXCEPT !.audit = @ - already, !.remaining = left, !.booked = @ + applied,
                    !.status = IF left = 0 THEN "closed" ELSE "open",
                    !.reason = IF left = 0 THEN why ELSE @]
  BY DEF Booked, applied, already, left
<1> HIDE DEF u
<1>6. u \in TradeRecord
  <2> DEFINE status == IF left = 0 THEN "closed" ELSE "open"
             reason == IF left = 0 THEN why ELSE t.reason
  <2>1. /\ status \in {"waiting", "open", "closed"}
        /\ reason \in {None} \union Reasons
        /\ t.audit - already \in Nat /\ t.booked + applied \in Nat
    BY <1>1, <1>2, <1>3 DEF TradeRecord
  <2>2. u = [t EXCEPT !.audit = t.audit - already, !.remaining = left,
                      !.booked = t.booked + applied, !.status = status, !.reason = reason]
    BY <1>1, <1>5
  <2> HIDE DEF status, reason
  <2>3. QED BY <1>1, <1>3, <2>1, <2>2 DEF TradeRecord
<1>7. /\ u.audit = t.audit - already /\ u.remaining = left /\ u.booked = t.booked + applied
      /\ u.entered = t.entered /\ u.got = t.got /\ u.ladder = t.ladder /\ u.sl = t.sl
      /\ u.known = t.known /\ (u.reason = None => t.reason = None)
      /\ u.status # "waiting"
  BY <1>1, <1>5, Names DEF TradeRecord
<1>8. u.remaining + u.audit + u.booked = t.remaining + t.audit + t.booked
  BY <1>2, <1>3, <1>4, <1>7
<1>9. QED BY <1>6, <1>7, <1>8, SumKept DEF u

\* Fills of the legs add to the remainder what they add to what has come in.
LegsRead(v) ==
  /\ DOMAIN v \subseteq Legs
  /\ \A i \in DOMAIN v : /\ v[i].state \in {"rests", "filled", "gone"}
                         /\ v[i].got \in Nat /\ v[i].got <= LegQty[i]
                         /\ v[i].got <= leg'[i].got

\* The query of a ladder keeps the ledger, and the tracked stop.
LEMMA RangeFillsKeep ==
  ASSUME NEW t, Sound(t), t.ladder, NEW v, LegsRead(v)
  PROVE  /\ Keeps(t, WithRangeFills(t, v)) /\ WithRangeFills(t, v).sl = t.sl
         /\ WithRangeFills(t, v).status \in {t.status, "open"}
         /\ WithRangeFills(t, v).owned = t.owned
         /\ Added(t, WithRangeFills(t, v)) \in Int
         /\ Added(t, WithRangeFills(t, v)) > 0 => Filled(WithRangeFills(t, v))
<1> DEFINE w == WithRangeFills(t, v)
           got == [i \in Legs |-> IF i \in DOMAIN v THEN Greater(t.got[i], v[i].got)
                                  ELSE t.got[i]]
           known == [i \in Legs |->
                       IF i \notin DOMAIN v THEN t.known[i]
                       ELSE IF v[i].state = "rests" THEN "working" ELSE v[i].state]
           entered == got[1] + got[2] + got[3]
           late == t.late /\ ~LadderOver(v)
           u == [t EXCEPT !.got = got, !.known = known, !.late = late]
           status == IF entered = t.entered THEN t.status ELSE "open"
           remaining == IF entered = t.entered THEN t.remaining
                        ELSE IF t.entered = 0 THEN entered
                        ELSE t.remaining + (entered - t.entered)
<1>1. t \in TradeRecord /\ Balanced(t)
  BY DEF Sound
<1>2. /\ t.remaining \in Nat /\ t.entered \in Nat /\ t.got \in [Legs -> 0..2]
      /\ t.audit \in Nat /\ t.booked \in Nat
      /\ \A i \in Legs : t.got[i] <= LegQty[i]
      /\ t.known \in [Legs -> Knowns] /\ t.late \in BOOLEAN
      /\ t.status \in {"waiting", "open", "closed"}
  BY <1>1, Quantities DEF TradeRecord, Balanced
<1>3. /\ got \in [Legs -> 0..2]
      /\ \A i \in Legs : got[i] >= t.got[i] /\ got[i] <= LegQty[i]
  <2>1. ASSUME NEW i \in Legs
        PROVE  got[i] \in 0..2 /\ got[i] >= t.got[i] /\ got[i] <= LegQty[i]
    <3>1. /\ t.got[i] \in 0..2 /\ t.got[i] <= LegQty[i] /\ LegQty[i] \in 0..2
          /\ i \in DOMAIN v => v[i].got \in Nat /\ v[i].got <= LegQty[i]
      BY <1>2 DEF LegsRead, Legs, LegQty
    <3>2. QED BY <3>1 DEF Greater
  <2>2. QED BY <2>1
<1>4. known \in [Legs -> Knowns]
  <2>1. ASSUME NEW i \in Legs PROVE known[i] \in Knowns
    <3>1. t.known[i] \in Knowns
      BY <1>2
    <3>2. i \in DOMAIN v => v[i].state \in {"rests", "filled", "gone"}
      BY DEF LegsRead
    <3>3. QED BY <3>1, <3>2 DEF Knowns, Settled
  <2>2. QED BY <2>1
<1>5. late \in BOOLEAN
  OBVIOUS
<1> HIDE DEF got, known, late
<1>6. entered \in 0..MaxQty /\ entered >= t.entered
  <2>1. got[1] <= 1 /\ got[2] <= 2 /\ got[3] <= 1
    BY <1>3 DEF Legs, LegQty
  <2>2. QED BY <1>1, <1>2, <1>3, <2>1 DEF Legs, MaxQty, Balanced
<1>7. w = IF entered - t.entered = 0 THEN u
          ELSE [u EXCEPT !.entered = entered, !.status = "open",
                         !.remaining = IF t.entered = 0 THEN entered
                                       ELSE t.remaining + (entered - t.entered)]
  <2>1. u.remaining = t.remaining
    BY <1>1 DEF TradeRecord
  <2>2. w = IF entered - t.entered = 0 THEN u
            ELSE [u EXCEPT !.entered = entered, !.status = "open",
                           !.remaining = IF t.entered = 0 THEN entered
                                         ELSE u.remaining + (entered - t.entered)]
    BY DEF WithRangeFills, got, known, late
  <2>3. QED BY <2>1, <2>2
<1> HIDE DEF w
<1>8. status \in {"waiting", "open", "closed"} /\ remaining \in 0..MaxQty
  <2>1. t.entered > 0 => t.remaining + t.audit + t.booked = t.entered
    BY <1>1, <1>2 DEF Balanced
  <2>2. t.remaining <= MaxQty /\ MaxQty \in Nat
    BY <1>1, Quantities
  <2>3. QED BY <1>2, <1>6, <2>1, <2>2
<1>9. w = [t EXCEPT !.got = got, !.known = known, !.late = late, !.entered = entered,
                    !.status = status, !.remaining = remaining]
  <2>1. CASE entered = t.entered
    <3>1. w = u /\ status = t.status /\ remaining = t.remaining
      BY <1>2, <1>6, <1>7, <2>1
    <3>2. QED BY <1>1, <2>1, <3>1 DEF TradeRecord
  <2>2. CASE entered # t.entered
    <3>1. /\ w = [u EXCEPT !.entered = entered, !.status = "open", !.remaining = remaining]
          /\ status = "open"
      BY <1>2, <1>6, <1>7, <2>2
    <3>2. QED BY <1>1, <3>1 DEF TradeRecord
  <2>3. QED BY <2>1, <2>2
<1>10. status \in {t.status, "open"} /\ (entered = t.entered => status = t.status)
  OBVIOUS
<1>11. t.ladder /\ entered # t.entered =>
         remaining = (IF t.entered = 0 THEN 0 ELSE t.remaining) + (entered - t.entered)
  BY <1>2, <1>6
<1>12. entered = t.entered => remaining = t.remaining
  OBVIOUS
<1> HIDE DEF status, remaining
<1>13. w \in TradeRecord
  BY <1>1, <1>3, <1>4, <1>5, <1>6, <1>8, <1>9 DEF TradeRecord
<1>14. /\ w.got = got /\ w.entered = entered /\ w.remaining = remaining
       /\ w.ladder = t.ladder /\ w.sl = t.sl /\ w.audit = t.audit /\ w.booked = t.booked
       /\ w.status = status /\ w.owned = t.owned
  BY <1>1, <1>9 DEF TradeRecord
<1>15. t.ladder => entered >= t.entered /\ t.entered >= 0
  BY <1>2, <1>6
<1>16. Balanced(w)
  <2>1. \A i \in Legs : got[i] <= LegQty[i]
    BY <1>3
  <2>2. CASE entered = t.entered
    BY <1>1, <1>2, <1>10, <1>12, <1>14, <2>1, <2>2 DEF Balanced
  <2>3. CASE entered # t.entered
    <3>1. w.entered > 0 /\ w.status = "open"
      BY <1>2, <1>6, <1>14, <2>3 DEF status
    <3>2. w.entered = w.remaining + w.audit + w.booked
      <4>1. CASE t.entered = 0
        BY <1>1, <1>2, <1>6, <1>11, <1>14, <2>3, <4>1 DEF Balanced
      <4>2. CASE t.entered # 0
        BY <1>1, <1>2, <1>6, <1>11, <1>14, <2>3, <4>2 DEF Balanced
      <4>3. QED BY <4>1, <4>2
    <3>3. QED BY <1>14, <2>1, <3>1, <3>2 DEF Balanced
  <2>4. QED BY <2>2, <2>3
<1>17. Added(t, w) = entered - t.entered
  BY <1>14 DEF Added
<1>18. Filled(w) \/ Added(t, w) <= 0
  BY <1>2, <1>6, <1>14, <1>15, <1>17 DEF Filled
<1>19. Filled(t) => Filled(w)
  BY <1>2, <1>6, <1>14 DEF Filled
<1>20. Records(t, w)
  <2>1. w.known = known /\ w.reason = t.reason
    BY <1>1, <1>9 DEF TradeRecord
  <2>2. ASSUME NEW i \in Legs PROVE known[i] = "planned" => t.known[i] = "planned"
    BY DEF known, LegsRead
  <2>3. ASSUME NEW i \in Legs PROVE got[i] = t.got[i] \/ got[i] <= leg'[i].got
    BY <1>2 DEF got, LegsRead, Greater
  <2>4. QED BY <1>14, <2>1, <2>2, <2>3 DEF Records
<1>21. Grows(t, w)
  BY <1>6, <1>14, <1>19, <1>20 DEF Grows, Clear
<1>22. QED
  BY <1>2, <1>6, <1>8, <1>10, <1>13, <1>14, <1>15, <1>16, <1>17, <1>18, <1>21
     DEF Keeps, Sound, w

\* A record with another entry is a record.
LEMMA EntryTyped ==
  ASSUME NEW t \in TradeRecord, NEW n \in 0..MaxQty, NEW got \in [Legs -> 0..2],
         NEW known \in [Legs -> Knowns]
  PROVE  [t EXCEPT !.status = "open", !.remaining = n, !.entered = n, !.got = got,
                   !.known = known, !.late = FALSE] \in TradeRecord
BY Zenon DEF TradeRecord

\* A single order becomes a position; a ladder never does by this.
LEMMA EntryKeeps ==
  ASSUME NEW t, Sound(t), ~t.ladder, NEW n \in 1..2, n <= leg'[2].got,
         Enters, Filled(t) => Filled(trade)
  PROVE  /\ Keeps(t, WithEntry(t, n)) /\ WithEntry(t, n).sl = t.sl
         /\ Filled(WithEntry(t, n))
<1>1. WithEntry(t, n) \in TradeRecord
  <2>0. t.got \in [Legs -> 0..2] /\ n \in 0..MaxQty /\ n \in 0..2
    BY DEF Sound, TradeRecord, MaxQty
  <2>1. [t.got EXCEPT ![2] = n] \in [Legs -> 0..2]
    BY <2>0
  <2>2. [t.known EXCEPT ![2] = "filled"] \in [Legs -> Knowns]
    BY Names DEF Sound, TradeRecord
  <2> DEFINE got == [t.got EXCEPT ![2] = n]
             known == [t.known EXCEPT ![2] = "filled"]
  <2>3. WithEntry(t, n) = [t EXCEPT !.status = "open", !.remaining = n, !.entered = n,
                                    !.got = got, !.known = known, !.late = FALSE]
    BY Zenon DEF WithEntry
  <2>4. /\ got \in [Legs -> 0..2] /\ known \in [Legs -> Knowns]
        /\ n \in 0..MaxQty /\ t \in TradeRecord
        /\ "open" \in {"waiting", "open", "closed"} /\ FALSE \in BOOLEAN
    BY <2>0, <2>1, <2>2 DEF Sound
  <2> HIDE DEF got, known
  <2>5. [t EXCEPT !.status = "open", !.remaining = n, !.entered = n, !.got = got,
                  !.known = known, !.late = FALSE] \in TradeRecord
    BY <2>4, EntryTyped, Zenon
  <2>6. QED BY <2>3, <2>5, Zenon
<1>2. /\ WithEntry(t, n).ladder = t.ladder /\ WithEntry(t, n).sl = t.sl
      /\ WithEntry(t, n).entered = n /\ WithEntry(t, n).got = [t.got EXCEPT ![2] = n]
      /\ WithEntry(t, n).status = "open" /\ WithEntry(t, n).reason = t.reason
      /\ WithEntry(t, n).known = [t.known EXCEPT ![2] = "filled"]
  BY DEF Sound, TradeRecord, WithEntry
<1>3. Balanced(WithEntry(t, n)) /\ Filled(WithEntry(t, n))
  <2>1. /\ t.got \in [Legs -> 0..2] /\ t.got[1] = 0 /\ t.got[3] = 0
        /\ \A i \in Legs : t.got[i] <= LegQty[i]
    BY DEF Sound, Balanced, TradeRecord
  <2> DEFINE got == [t.got EXCEPT ![2] = n]
  <2>2. got[1] = 0 /\ got[2] = n /\ got[3] = 0 /\ \A i \in Legs : got[i] <= LegQty[i]
    BY <2>1 DEF Legs, LegQty
  <2> HIDE DEF got
  <2>3. WithEntry(t, n).got = got
    BY <1>2 DEF got
  <2>4. n # 0 /\ n > 0 /\ got[1] + got[2] + got[3] = n
    BY <2>2
  <2> DEFINE w == WithEntry(t, n)
  <2>5. /\ w.entered = n /\ w.status = "open" /\ ~w.ladder /\ w.got = got
    BY <1>2, <2>3
  <2> HIDE DEF w
  <2>6. Balanced(w) /\ Filled(w)
    BY <2>2, <2>4, <2>5 DEF Balanced, Filled
  <2>7. QED BY <2>6 DEF w
<1>4. Records(t, WithEntry(t, n))
  <2> DEFINE w == WithEntry(t, n)
  <2>1. t.got \in [Legs -> 0..2] /\ t.known \in [Legs -> Knowns]
    BY DEF Sound, TradeRecord
  <2>2. ASSUME NEW i \in Legs
        PROVE  /\ w.known[i] = "planned" => t.known[i] = "planned"
               /\ w.got[i] = t.got[i] \/ w.got[i] <= leg'[i].got
    BY <1>2, <2>1
  <2> HIDE DEF w
  <2>3. w.ladder = t.ladder /\ w.reason = t.reason
    BY <1>2 DEF w
  <2>4. Records(t, w)
    BY <2>2, <2>3 DEF Records
  <2>5. QED BY <2>4 DEF w
<1>5. Clear(WithEntry(t, n)) \/ Filled(trade)
  <2>1. /\ WithEntry(t, n).remaining = n /\ WithEntry(t, n).entered = n
        /\ WithEntry(t, n).audit = t.audit /\ WithEntry(t, n).booked = t.booked
    BY DEF Sound, TradeRecord, WithEntry
  <2>2. ASSUME ~Filled(t) PROVE t.audit = 0 /\ t.booked = 0
    BY <2>2, Quantities DEF Sound, Balanced, Filled
  <2> DEFINE w == WithEntry(t, n)
  <2> HIDE DEF w
  <2>3. w.remaining = n /\ w.entered = n /\ w.audit = t.audit /\ w.booked = t.booked
    BY <2>1 DEF w
  <2>4. Clear(w) \/ Filled(trade)
    BY <2>2, <2>3 DEF Clear
  <2>5. QED BY <2>4 DEF w
<1>6. QED BY <1>1, <1>2, <1>3, <1>4, <1>5 DEF Keeps, Grows, Sound

\* What a snapshot takes off the remainder goes to the audit.
LEMMA PositionKeeps ==
  ASSUME NEW t, Sound(t), Filled(t), NEW q \in Nat
  PROVE  Keeps(t, WithPosition(t, q)) /\ WithPosition(t, q).sl = t.sl
<1> DEFINE u == WithPosition(t, q)
           audit == t.audit + t.remaining - q
<1>1. CASE q = 0 \/ q >= t.remaining
  <2>1. u = t /\ t \in TradeRecord
    BY <1>1 DEF WithPosition, Sound
  <2> HIDE DEF u
  <2>2. SameLedger(t, u) /\ u.status = t.status /\ u.owned = t.owned
    BY <2>1 DEF SameLedger
  <2>3. QED BY <2>1, <2>2, LedgerKept DEF u
<1>2. CASE ~(q = 0 \/ q >= t.remaining)
  <2>1. /\ t.remaining \in Nat /\ t.audit \in Nat /\ t.booked \in Nat
        /\ t.entered \in Nat /\ audit \in Nat /\ q \in 0..MaxQty
    BY <1>2, Quantities DEF Sound
  <2>2. audit + q = t.audit + t.remaining
    BY <2>1
  <2> DEFINE issues == t.issues \union {"drift"}
  <2>3. u = [t EXCEPT !.remaining = q, !.audit = audit, !.issues = issues]
    BY <1>2 DEF WithPosition, Sound, TradeRecord
  <2>i. issues \in SUBSET Issues
    BY Names DEF Sound, TradeRecord
  <2> HIDE DEF audit, u, issues
  <2>4. u \in TradeRecord
    BY <2>1, <2>3, <2>i, Zenon DEF Sound, TradeRecord
  <2>5. /\ u.audit = audit /\ u.remaining = q /\ u.booked = t.booked /\ u.got = t.got
        /\ u.entered = t.entered /\ u.ladder = t.ladder /\ u.sl = t.sl
        /\ u.status = t.status /\ u.known = t.known /\ u.reason = t.reason
    BY <2>3 DEF Sound, TradeRecord
  <2>6. u.remaining + u.audit + u.booked = t.remaining + t.audit + t.booked
    BY <2>1, <2>2, <2>5
  <2>7. QED BY <2>4, <2>5, <2>6, SumKept DEF u
<1>3. QED BY <1>1, <1>2

\* The same for the end of a trade whose position is missing.
LEMMA MissingKeeps ==
  ASSUME NEW t, Sound(t), Filled(t)
  PROVE  Keeps(t, ClosedMissing(t))
<1> DEFINE u == ClosedMissing(t)
           audit == t.audit + t.remaining
<1>1. /\ t.remaining \in Nat /\ t.audit \in Nat /\ t.booked \in Nat
      /\ t.entered \in Nat /\ audit \in Nat
  BY Quantities DEF Sound
<1>0. /\ 0 \in 0..MaxQty /\ 0 \in 0..MaxTargets /\ 0 \in 0..Confirmations
      /\ 0 \in {0} \union Slots /\ {} \in SUBSET Goals
  BY DEF MaxQty, Confirmations
<1>2. u = [t EXCEPT !.owned = FALSE, !.issues = {}, !.miss = 0, !.sl = 0, !.tps = {},
                    !.need = 0, !.status = "closed", !.remaining = 0, !.audit = audit,
                    !.reason = "missing"]
  BY DEF ClosedMissing, Untracked, Finalized, Sound, TradeRecord
<1> HIDE DEF audit, u
<1>3. u \in TradeRecord
  <2>1. "missing" \in {None} \union Reasons
    BY Names
  <2>2. QED BY <1>0, <1>1, <1>2, <2>1, Names, Zenon DEF Sound, TradeRecord
<1>4. /\ u.audit = audit /\ u.remaining = 0 /\ u.booked = t.booked /\ u.got = t.got
      /\ u.entered = t.entered /\ u.ladder = t.ladder /\ u.status = "closed"
      /\ u.known = t.known /\ u.reason # None
  BY <1>2, Names DEF Sound, TradeRecord
<1>5. u.remaining + u.audit + u.booked = t.remaining + t.audit + t.booked
  BY <1>1, <1>4 DEF audit
<1>6. QED BY <1>3, <1>4, <1>5, SumKept DEF u

\* A close moves quantity from the remainder to what was booked.
LEMMA ClosedByKeeps ==
  ASSUME NEW t, Sound(t), Filled(t), NEW n \in Nat, n <= t.remaining
  PROVE  Keeps(t, ClosedBy(t, n)) /\ ClosedBy(t, n).sl = t.sl
<1> DEFINE u == ClosedBy(t, n)
           left == t.remaining - n
           booked == t.booked + n
           status == IF t.remaining = n THEN "closed" ELSE "open"
           reason == IF t.remaining = n THEN "close" ELSE t.reason
<1>1. /\ t.remaining \in Nat /\ t.audit \in Nat /\ t.booked \in Nat
      /\ t.entered \in Nat /\ left \in 0..MaxQty /\ booked \in Nat
      /\ status \in {"waiting", "open", "closed"} /\ {} \in SUBSET Goals
  BY Quantities DEF Sound
<1>r. reason \in {None} \union Reasons
  BY Names DEF Sound, TradeRecord
<1>2. left + booked = t.remaining + t.booked
  BY <1>1
<1>3. u = [t EXCEPT !.remaining = left, !.booked = booked, !.tps = {},
                    !.status = status, !.reason = reason]
  BY DEF ClosedBy, Sound, TradeRecord
<1> HIDE DEF left, booked, status, reason, u
<1>4. u \in TradeRecord
  BY <1>1, <1>3, <1>r, Zenon DEF Sound, TradeRecord
<1>5. /\ u.audit = t.audit /\ u.remaining = left /\ u.booked = booked /\ u.got = t.got
      /\ u.entered = t.entered /\ u.ladder = t.ladder /\ u.sl = t.sl
      /\ u.status \in {"open", "closed"} /\ u.known = t.known
      /\ u.reason = None => t.reason = None
  BY <1>3, Names DEF Sound, TradeRecord, status, reason
<1>6. u.remaining + u.audit + u.booked = t.remaining + t.audit + t.booked
  BY <1>1, <1>2, <1>5
<1>7. QED BY <1>4, <1>5, <1>6, SumKept DEF u

\* An entry that ended without a fill.
LEMMA UnfilledKeeps ==
  ASSUME NEW t, Sound(t), t.ladder => t.entered = 0
  PROVE  /\ Keeps(t, Unfilled(t)) /\ Unfilled(t).sl = t.sl
         /\ \A why \in Reasons : Keeps(t, [Unfilled(t) EXCEPT !.reason = why])
<1>0. ASSUME NEW r \in Reasons
      PROVE  /\ Keeps(t, [t EXCEPT !.owned = FALSE, !.issues = {}, !.miss = 0,
                                   !.status = "closed", !.remaining = 0, !.reason = r])
             /\ [t EXCEPT !.owned = FALSE, !.issues = {}, !.miss = 0,
                          !.status = "closed", !.remaining = 0, !.reason = r].sl = t.sl
  <2> DEFINE u == [t EXCEPT !.owned = FALSE, !.issues = {}, !.miss = 0,
                           !.status = "closed", !.remaining = 0, !.reason = r]
  <2>1. u \in TradeRecord
    <3>1. r \in {None} \union Reasons /\ 0 \in 0..MaxQty /\ 0 \in 0..Confirmations
      BY Names DEF MaxQty, Confirmations
    <3>2. QED BY <3>1, Names, Zenon DEF Sound, TradeRecord
  <2>2. /\ u.audit = t.audit /\ u.remaining = 0 /\ u.booked = t.booked /\ u.got = t.got
        /\ u.entered = t.entered /\ u.ladder = t.ladder /\ ~u.owned /\ u.sl = t.sl
        /\ u.status = "closed" /\ t.entered \in Int /\ u.known = t.known
        /\ u.reason # None
    BY Names DEF Sound, TradeRecord
  <2> HIDE DEF u
  <2>3. Balanced(u)
    <3>1. Balanced(t)
      BY DEF Sound
    <3>2. QED BY <2>2, <3>1 DEF Balanced
  <2>4. Clear(t) => Clear(u)
    <3>1. t.remaining \in Nat /\ t.audit \in Nat /\ t.booked \in Nat /\ t.entered \in Nat
      BY Quantities DEF Sound
    <3>2. QED BY <2>2, <3>1 DEF Clear, Filled
  <2>5. QED BY <2>1, <2>2, <2>3, <2>4 DEF Keeps, Grows, Records, Sound, Filled, u
<1>1. Unfilled(t) = [t EXCEPT !.owned = FALSE, !.issues = {}, !.miss = 0,
                              !.status = "closed", !.remaining = 0, !.reason = "unfilled"]
  BY DEF Unfilled, Finalized, Sound, TradeRecord
<1>2. ASSUME NEW why \in Reasons PROVE Keeps(t, [Unfilled(t) EXCEPT !.reason = why])
  <2>1. [Unfilled(t) EXCEPT !.reason = why] =
          [t EXCEPT !.owned = FALSE, !.issues = {}, !.miss = 0,
                    !.status = "closed", !.remaining = 0, !.reason = why]
    BY <1>1 DEF Sound, TradeRecord
  <2>2. QED BY <1>0, <2>1
<1>3. "unfilled" \in Reasons
  BY Names
<1>4. QED BY <1>0, <1>1, <1>2, <1>3 DEF Reasons

-----------------------------------------------------------------------------
(* The inductive invariant.                                                *)

ExchangeSound ==
  /\ leg \in [Legs -> LegRecord] /\ \A i \in Legs : leg[i].got <= LegQty[i]
  /\ target \in [Goals -> OrderRecord] /\ stop \in [Slots -> OrderRecord]
  /\ loose \in [executed : Nat, claimed : Nat] /\ position \in Nat

\* The code that only a single order reaches, after its fill, the code that only
\* a ladder does, the code that a trade reaches only after a fill, and the rest,
\* but for the last step of a protection sync and the look at a single order.
Singles == {"activated", "undone", "holds"}
Sells == {"enforced", "close", "halve", "free", "shave", "market", "slice",
          "protect", "absent"}
Ladders == {"policy", "expire", "expired", "retire"}
Frees == {"legs", "cleanup", "opened", "plan", "stop", "targets", "restop",
          "failed", "rearm", "rearmed", "orders", "book", "synced", "flattened",
          "closed", "answered", "counted", "cancel", "refresh"}
Inner(t) ==
  Frees \union (IF t.ladder THEN Ladders ELSE {"entry"})
        \union (IF Filled(t) THEN Sells ELSE {})
        \union (IF Filled(t) /\ ~t.ladder THEN Singles ELSE {})

\* Only the innermost routine of a task verifies a protection.
Verifies(s) == s # <<>> /\ Head(s) = "verify"
StackFits(s, t) ==
  s \in Seq(Inner(t)) \/ (Verifies(s) /\ Tail(s) \in Seq(Inner(t)))

\* A task that verifies holds the guard, and the stop it is about to cancel is
\* not the one the trade tracks.
VerifiesSafely(k) ==
  Verifies(task[k].stack) =>
    guard = k /\ (task[k].prev = 0 \/ trade.sl # task[k].prev)

LifeInv ==
  /\ ExchangeSound
  /\ Sound(trade)
  /\ task \in [Tasks -> TaskRecord] /\ guard \in Tasks \union {None}
  /\ \A k \in Tasks : StackFits(task[k].stack, trade) /\ VerifiesSafely(k)

\* What every step keeps, and what it does to the record of the trade.
Lives == LifeInv' /\ Keeps(trade, trade')

\* The labels of the code, and None which is none of them.
LEMMA LabelsKnown ==
  /\ Labels = Frees \union Ladders \union Singles \union Sells \union {"verify", "entry"}
  /\ "verify" \notin Frees \union Ladders \union Singles \union Sells \union {"entry"}
  /\ None \notin Tasks
<1>1. Labels = Frees \union Ladders \union Singles \union Sells \union {"verify", "entry"}
  BY Zenon DEF Labels, GuardedLabels, AtOnce, Frees, Ladders, Singles, Sells
<1>2. "verify" \notin Frees \union Ladders \union Singles \union Sells \union {"entry"}
  BY DEF Frees, Ladders, Singles, Sells
<1>3. QED BY <1>1, <1>2

\* A step takes no label away from what a trade may be at.
LEMMA InnerGrows ==
  ASSUME NEW t \in TradeRecord, NEW u, Keeps(t, u)
  PROVE  /\ Inner(t) \subseteq Inner(u)
         /\ "verify" \notin Inner(u) /\ Inner(u) \subseteq Labels
<1>1. Filled(t) => Filled(u)
  BY FilledStays
<1>2. u.ladder = t.ladder
  BY DEF Keeps, Grows, Records
<1>3. QED BY <1>1, <1>2, LabelsKnown DEF Inner

\* A stack fits on after a step.
LEMMA FitsStays ==
  ASSUME NEW t \in TradeRecord, NEW u, Keeps(t, u), NEW s, StackFits(s, t)
  PROVE  StackFits(s, u)
<1>1. Inner(t) \subseteq Inner(u)
  BY InnerGrows
<1>2. Seq(Inner(t)) \subseteq Seq(Inner(u))
  BY <1>1
<1>3. QED BY <1>2 DEF StackFits

\* A task that moves keeps the invariant when its stack fits the new trade, the
\* other tasks keep the guard, and the tracked stop changes under the guard only.
LEMMA Moved ==
  ASSUME LifeInv, NEW k \in Tasks, NEW u \in TaskRecord, task' = [task EXCEPT ![k] = u],
         StackFits(u.stack, trade'),
         Verifies(u.stack) => guard' = k /\ (u.prev = 0 \/ trade'.sl # u.prev),
         \A j \in Tasks : j # k /\ guard = j => guard' = j,
         Keeps(trade, trade'), ExchangeSound', guard' \in Tasks \union {None},
         trade'.sl = trade.sl \/ guard \in {None, k}
  PROVE  Lives
<1>1. trade \in TradeRecord /\ Sound(trade')
  BY DEF LifeInv, Sound, Keeps
<1>2. task' \in [Tasks -> TaskRecord] /\ task'[k] = u
  BY DEF LifeInv
<1>3. ASSUME NEW j \in Tasks
      PROVE  StackFits(task'[j].stack, trade') /\ VerifiesSafely(j)'
  <2>1. CASE j = k
    BY <1>2, <2>1 DEF VerifiesSafely
  <2>2. CASE j # k
    <3>1. task'[j] = task[j]
      BY <2>2 DEF LifeInv
    <3>2. StackFits(task[j].stack, trade')
      BY <1>1, FitsStays DEF LifeInv
    <3>3. VerifiesSafely(j)'
      <4> SUFFICES ASSUME Verifies(task[j].stack)
                   PROVE  guard' = j /\ (task[j].prev = 0 \/ trade'.sl # task[j].prev)
        BY <3>1 DEF VerifiesSafely
      <4>1. guard = j /\ (task[j].prev = 0 \/ trade.sl # task[j].prev)
        BY DEF LifeInv, VerifiesSafely
      <4>2. guard' = j /\ trade'.sl = trade.sl
        BY <2>2, <4>1, LabelsKnown
      <4>3. QED BY <4>1, <4>2
    <3>4. QED BY <3>1, <3>2, <3>3
  <2>3. QED BY <2>1, <2>2
<1>4. QED BY <1>1, <1>2, <1>3 DEF LifeInv, Lives

\* The same when no task moves.
LEMMA Stayed ==
  ASSUME LifeInv, UNCHANGED <<task, guard>>, Keeps(trade, trade'), ExchangeSound',
         trade'.sl = trade.sl
  PROVE  Lives
<1>1. trade \in TradeRecord /\ Sound(trade')
  BY DEF LifeInv, Sound, Keeps
<1>2. ASSUME NEW j \in Tasks
      PROVE  StackFits(task[j].stack, trade') /\ VerifiesSafely(j)'
  BY <1>1, FitsStays DEF LifeInv, VerifiesSafely
<1>3. QED BY <1>1, <1>2 DEF LifeInv, Lives

\* A task that is idle.
LEMMA IdleIsTask == Idle \in TaskRecord
<1>1. /\ NoQty \in [Goals -> 0..MaxQty] /\ 0 \in 0..(Attempts - 1)
      /\ 0 \in 0..MaxTargets /\ 0 \in {0} \union Slots
  BY DEF NoQty, MaxQty
<1>2. <<>> \in Seq(Labels) /\ <<>> \in Seq(ViewRecord) /\ TRUE \in BOOLEAN
  OBVIOUS
<1>3. QED BY <1>1, <1>2, Zenon DEF Idle, TaskRecord

\* A task at a label of the code.
LEMMA Running ==
  ASSUME LifeInv, NEW k \in Tasks, NEW label \in Labels, Runs(k, label)
  PROVE  /\ task[k].stack # <<>> /\ Head(task[k].stack) = label
         /\ label \in GuardedLabels => guard \in {None, k}
         /\ task[k] \in TaskRecord
         /\ Tail(task[k].stack) \in Seq(Inner(trade))
         /\ label # "verify" => label \in Inner(trade)
<1>1. task[k].stack # <<>> /\ Head(task[k].stack) = label
  BY DEF Runs
<1>2. task[k] \in TaskRecord /\ StackFits(task[k].stack, trade)
  BY DEF LifeInv
<1>3. label \in GuardedLabels => guard \in {None, k}
  BY DEF Runs
<1>4. CASE task[k].stack \in Seq(Inner(trade))
  BY <1>1, <1>2, <1>3, <1>4
<1>5. CASE task[k].stack \notin Seq(Inner(trade))
  BY <1>1, <1>2, <1>3, <1>5 DEF StackFits, Verifies
<1>6. QED BY <1>4, <1>5

\* A task that leaves its label for others, with changed locals.
LEMMA Continued ==
  ASSUME LifeInv, NEW k \in Tasks, NEW label \in Labels, Runs(k, label),
         NEW t \in TaskRecord, NEW s, Continues(k, t, s),
         s \in Seq(Inner(trade'))
           \/ (Verifies(s) /\ Tail(s) \in Seq(Inner(trade')) /\ s \in Seq(Labels)
               /\ label \in GuardedLabels /\ (t.prev = 0 \/ trade'.sl # t.prev)),
         Keeps(trade, trade'), ExchangeSound',
         trade'.sl = trade.sl \/ label \in GuardedLabels
  PROVE  Lives
<1>1. /\ task[k].stack # <<>> /\ Head(task[k].stack) = label
      /\ label \in GuardedLabels => guard \in {None, k}
  BY Running
<1>2. /\ trade \in TradeRecord /\ "verify" \notin Inner(trade')
      /\ Inner(trade') \subseteq Labels
  BY InnerGrows DEF LifeInv, Sound
<1>3. /\ guard' = IF guard = k \/ label \in GuardedLabels
                  THEN IF \E i \in DOMAIN s : s[i] \in GuardedLabels THEN k ELSE None
                  ELSE guard
      /\ task' = [task EXCEPT ![k] = IF s = <<>> THEN Idle ELSE [t EXCEPT !.stack = s]]
  BY <1>1 DEF Continues, Leave
<1> DEFINE u == IF s = <<>> THEN Idle ELSE [t EXCEPT !.stack = s]
<1>4. s \in Seq(Labels) /\ (s \in Seq(Inner(trade')) => ~Verifies(s))
  <2>1. CASE s \in Seq(Inner(trade'))
    BY <1>2, <2>1 DEF Verifies
  <2>2. QED BY <2>1
<1>5. u \in TaskRecord /\ u.stack = s /\ (s # <<>> => u.prev = t.prev)
  <2>1. CASE s = <<>>
    <3>1. Idle.stack = <<>>
      BY DEF Idle
    <3>2. QED BY <2>1, <3>1, IdleIsTask
  <2>2. CASE s # <<>>
    BY <1>4, <2>2 DEF TaskRecord
  <2>3. QED BY <2>1, <2>2
<1>6. StackFits(s, trade')
  BY DEF StackFits
<1>7. Verifies(s) => guard' = k /\ (t.prev = 0 \/ trade'.sl # t.prev)
  <2> SUFFICES ASSUME Verifies(s) PROVE guard' = k /\ (t.prev = 0 \/ trade'.sl # t.prev)
    OBVIOUS
  <2>1. label \in GuardedLabels /\ (t.prev = 0 \/ trade'.sl # t.prev)
    BY <1>4
  <2>2. 1 \in DOMAIN s /\ s[1] \in GuardedLabels
    BY <1>4 DEF Verifies, GuardedLabels
  <2>3. QED BY <1>3, <2>1, <2>2
<1>8. ASSUME NEW j \in Tasks, j # k, guard = j PROVE guard' = j
  BY <1>1, <1>3, <1>8, LabelsKnown
<1>9. trade'.sl = trade.sl \/ guard \in {None, k}
  BY <1>1
<1> HIDE DEF u
<1>10. task' = [task EXCEPT ![k] = u]
  BY <1>3 DEF u
<1>11. Verifies(u.stack) => guard' = k /\ (u.prev = 0 \/ trade'.sl # u.prev)
  BY <1>5, <1>7 DEF Verifies
<1>12. guard' \in Tasks \union {None}
  BY <1>3 DEF LifeInv
<1>13. QED BY <1>5, <1>6, <1>8, <1>9, <1>10, <1>11, <1>12, Moved

\* A task that puts labels in the place of its own.
LEMMA Became ==
  ASSUME LifeInv, NEW k \in Tasks, NEW label \in Labels, Runs(k, label),
         NEW t \in TaskRecord, NEW labels \in Seq(Inner(trade')), Becomes(k, t, labels),
         Keeps(trade, trade'), ExchangeSound',
         trade'.sl = trade.sl \/ label \in GuardedLabels
  PROVE  Lives
<1>1. Tail(task[k].stack) \in Seq(Inner(trade'))
  <2>1. Tail(task[k].stack) \in Seq(Inner(trade)) /\ trade \in TradeRecord
    BY Running DEF LifeInv, Sound
  <2>2. Inner(trade) \subseteq Inner(trade')
    BY <2>1, InnerGrows
  <2>3. QED BY <2>1, <2>2
<1>2. labels \o Tail(task[k].stack) \in Seq(Inner(trade'))
  BY <1>1, ConcatProperties
<1>3. QED BY <1>2, Continued DEF Becomes

\* The same for the last step of a protection sync, which runs under the guard.
LEMMA BecameVerify ==
  ASSUME LifeInv, NEW k \in Tasks, NEW label \in GuardedLabels, Runs(k, label),
         NEW t \in TaskRecord, Becomes(k, t, <<"verify">>),
         t.prev = 0 \/ trade'.sl # t.prev,
         Keeps(trade, trade'), ExchangeSound'
  PROVE  Lives
<1> DEFINE rest == Tail(task[k].stack)
           s == <<"verify">> \o rest
<1>1. label \in Labels
  BY DEF Labels
<1>2. rest \in Seq(Inner(trade'))
  <2>1. rest \in Seq(Inner(trade)) /\ trade \in TradeRecord
    BY <1>1, Running DEF LifeInv, Sound
  <2>2. Inner(trade) \subseteq Inner(trade')
    BY <2>1, InnerGrows
  <2>3. QED BY <2>1, <2>2
<1>3. Inner(trade') \subseteq Labels /\ "verify" \in Labels
  BY InnerGrows, LabelsKnown DEF LifeInv, Sound
<1> HIDE DEF rest
<1>4. s \in Seq(Labels) /\ s # <<>> /\ Head(s) = "verify" /\ Tail(s) = rest
  <2>1. rest \in Seq(Labels)
    BY <1>2, <1>3
  <2>2. QED BY <1>3, <2>1
<1>5. Continues(k, t, s)
  BY DEF Becomes, rest
<1> HIDE DEF s
<1>6. QED BY <1>1, <1>2, <1>4, <1>5, Continued DEF Verifies

\* A task whose exception reaches the account sync around it, or nothing.
LEMMA Aborted ==
  ASSUME LifeInv, NEW k \in Tasks, NEW label \in Labels, Runs(k, label), Abort(k),
         Keeps(trade, trade'), ExchangeSound',
         trade'.sl = trade.sl \/ label \in GuardedLabels
  PROVE  Lives
<1> DEFINE stack == task[k].stack
           ends == {i \in DOMAIN stack : stack[i] = "synced"}
           first == CHOOSE i \in ends : \A j \in ends : i <= j
           rest == IF ends = {} THEN <<>> ELSE SubSeq(stack, 1 + first, Len(stack))
           views == IF ends = {} THEN <<>> ELSE EarlierViews(k)
           t == [Idle EXCEPT !.aim = task[k].aim, !.views = views]
<1>1. /\ task[k] \in TaskRecord /\ stack # <<>> /\ stack \in Seq(Labels)
      /\ Tail(stack) \in Seq(Inner(trade)) /\ trade \in TradeRecord
  BY Running DEF LifeInv, Sound, TaskRecord
<1>2. Continues(k, t, rest)
  BY DEF Abort, Idle
<1>3. rest \in Seq(Inner(trade'))
  <2>1. CASE ends = {}
    BY <2>1
  <2>2. CASE ends # {}
    <3>1. ends \in SUBSET Nat /\ ends \subseteq DOMAIN stack
      BY <1>1
    <3> HIDE DEF ends, stack
    <3>2. first \in ends
      BY <2>2, <3>1, Smallest
    <3> HIDE DEF first
    <3>3. first \in 1..Len(stack)
      <4>1. DOMAIN stack = 1..Len(stack)
        BY <1>1, LenProperties
      <4>2. QED BY <3>1, <3>2, <4>1
    <3>4. Inner(trade) \subseteq Inner(trade')
      BY <1>1, InnerGrows
    <3>5. ASSUME NEW i \in (1 + first)..Len(stack) PROVE stack[i] \in Inner(trade')
      <4>1. /\ i - 1 \in 1..Len(Tail(stack)) /\ Tail(stack)[i - 1] = stack[i]
        BY <1>1, <3>3
      <4>2. Tail(stack)[i - 1] \in Inner(trade)
        BY <1>1, <4>1
      <4>3. QED BY <3>4, <4>1, <4>2
    <3>6. SubSeq(stack, 1 + first, Len(stack)) \in Seq(Inner(trade'))
      BY <1>1, <3>3, <3>5, SubSeqProperties
    <3>7. QED BY <2>2, <3>6
  <2>3. QED BY <2>1, <2>2
<1>4. views \in Seq(ViewRecord)
  <2>1. task[k].views \in Seq(ViewRecord)
    BY <1>1 DEF TaskRecord
  <2>2. EarlierViews(k) \in Seq(ViewRecord)
    BY <2>1 DEF EarlierViews
  <2> HIDE DEF ends
  <2>3. QED BY <2>2
<1> HIDE DEF views, rest
<1>5. t \in TaskRecord
  <2>1. Idle \in TaskRecord
    BY IdleIsTask
  <2>2. task[k].aim \in 0..MaxTargets
    BY <1>1 DEF TaskRecord
  <2>3. QED BY <1>4, <2>1, <2>2 DEF TaskRecord
<1> HIDE DEF t
<1>6. QED BY <1>2, <1>3, <1>5, Continued

-----------------------------------------------------------------------------
(* Changes that leave the ledger alone.                                    *)

\* A change of what is not in the ledger, which opens, closes and hands over
\* nothing.
Quiet(t, u) == Keeps(t, u) /\ u.sl = t.sl /\ u.status = t.status

\* Such a step keeps the ledger.
LEMMA QuietChange ==
  ASSUME NEW t, Sound(t), NEW u \in TradeRecord, SameLedger(t, u),
         u.status = t.status, u.owned => t.owned
  PROVE  Keeps(t, u)
BY LedgerKept DEF TradeRecord

\* The steps of the record that touch neither its quantities nor its status.
LEMMA QuietOnes ==
  ASSUME NEW t, Sound(t)
  PROVE  /\ Quiet(t, t)
         /\ Quiet(t, WithMiss(t)) /\ Quiet(t, WithoutMiss(t))
         /\ Quiet(t, Finalized(t)) /\ Quiet(t, RetryLater(t))
         /\ \A b \in BOOLEAN : Quiet(t, [t EXCEPT !.late = b])
         /\ Quiet(t, [t EXCEPT !.deferred = FALSE])
<1>1. t \in TradeRecord /\ 0 \in 0..Confirmations
  BY DEF Sound, Confirmations
<1>2. Quiet(t, t)
  BY <1>1, QuietChange DEF SameLedger, Quiet
<1>3. Quiet(t, WithMiss(t))
  <2> DEFINE m == Lesser(Confirmations, t.miss + 1)
             u == [t EXCEPT !.miss = m]
  <2>1. m \in 0..Confirmations
    BY <1>1 DEF TradeRecord, Lesser, Confirmations
  <2>2. WithMiss(t) = u
    BY <1>1 DEF WithMiss, TradeRecord
  <2> HIDE DEF m
  <2>3. u \in TradeRecord
    BY <1>1, <2>1, Zenon DEF TradeRecord
  <2>4. /\ SameLedger(t, u) /\ u.status = t.status /\ (u.owned => t.owned)
        /\ u.sl = t.sl
    BY <1>1 DEF SameLedger, TradeRecord
  <2>5. QED BY <2>2, <2>3, <2>4, QuietChange DEF Quiet
<1>4. Quiet(t, WithoutMiss(t))
  <2> DEFINE i == t.issues \ {"reconcile"}
             u == [t EXCEPT !.miss = 0, !.issues = i]
  <2>1. i \in SUBSET Issues
    BY <1>1 DEF TradeRecord
  <2>2. WithoutMiss(t) = u
    BY <1>1 DEF WithoutMiss, TradeRecord
  <2> HIDE DEF i
  <2>3. u \in TradeRecord
    BY <1>1, <2>1, Zenon DEF TradeRecord
  <2>4. /\ SameLedger(t, u) /\ u.status = t.status /\ (u.owned => t.owned)
        /\ u.sl = t.sl
    BY <1>1 DEF SameLedger, TradeRecord
  <2>5. QED BY <2>2, <2>3, <2>4, QuietChange DEF Quiet
<1>5. Quiet(t, Finalized(t))
  <2> DEFINE u == [t EXCEPT !.owned = FALSE, !.issues = {}, !.miss = 0]
  <2>1. u \in TradeRecord
    BY <1>1, Zenon DEF TradeRecord
  <2>2. /\ SameLedger(t, u) /\ u.status = t.status /\ (u.owned => t.owned)
        /\ u.sl = t.sl
    BY <1>1 DEF SameLedger, TradeRecord
  <2>3. QED BY <2>1, <2>2, QuietChange DEF Quiet, Finalized
<1>6. Quiet(t, RetryLater(t))
  <2> DEFINE i == t.issues \union {"protection"}
             u == [t EXCEPT !.deferred = TRUE, !.issues = i]
  <2>1. i \in SUBSET Issues
    BY <1>1 DEF TradeRecord, Issues
  <2>2. RetryLater(t) = u
    BY <1>1 DEF RetryLater, TradeRecord
  <2> HIDE DEF i
  <2>3. u \in TradeRecord
    BY <1>1, <2>1, Zenon DEF TradeRecord
  <2>4. /\ SameLedger(t, u) /\ u.status = t.status /\ (u.owned => t.owned)
        /\ u.sl = t.sl
    BY <1>1 DEF SameLedger, TradeRecord
  <2>5. QED BY <2>2, <2>3, <2>4, QuietChange DEF Quiet
<1>7. ASSUME NEW b \in BOOLEAN PROVE Quiet(t, [t EXCEPT !.late = b])
  <2> DEFINE u == [t EXCEPT !.late = b]
  <2>1. u \in TradeRecord
    BY <1>1, Zenon DEF TradeRecord
  <2>2. /\ SameLedger(t, u) /\ u.status = t.status /\ (u.owned => t.owned)
        /\ u.sl = t.sl
    BY <1>1 DEF SameLedger, TradeRecord
  <2>3. QED BY <2>1, <2>2, QuietChange DEF Quiet
<1>8. Quiet(t, [t EXCEPT !.deferred = FALSE])
  <2> DEFINE u == [t EXCEPT !.deferred = FALSE]
  <2>1. u \in TradeRecord
    BY <1>1, Zenon DEF TradeRecord
  <2>2. /\ SameLedger(t, u) /\ u.status = t.status /\ (u.owned => t.owned)
        /\ u.sl = t.sl
    BY <1>1 DEF SameLedger, TradeRecord
  <2>3. QED BY <2>1, <2>2, QuietChange DEF Quiet
<1>9. QED BY <1>2, <1>3, <1>4, <1>5, <1>6, <1>7, <1>8

\* What is known of the legs and which issues are open.
LEMMA KnownKept ==
  ASSUME NEW t, Sound(t), NEW k \in [Legs -> Knowns],
         \A i \in Legs : k[i] = "planned" => t.known[i] = "planned"
  PROVE  Quiet(t, [t EXCEPT !.known = k])
<1> DEFINE u == [t EXCEPT !.known = k]
<1>1. u \in TradeRecord
  BY Zenon DEF Sound, TradeRecord
<1>2. /\ SameLedger(t, u) /\ u.status = t.status /\ (u.owned => t.owned) /\ u.sl = t.sl
  BY DEF SameLedger, Sound, TradeRecord
<1>3. QED BY <1>1, <1>2, QuietChange DEF Quiet

\* The issues of the trade change.
LEMMA IssuesKept ==
  ASSUME NEW t, Sound(t), NEW i \in SUBSET Issues
  PROVE  Quiet(t, [t EXCEPT !.issues = i])
<1> DEFINE u == [t EXCEPT !.issues = i]
<1>1. u \in TradeRecord
  BY Zenon DEF Sound, TradeRecord
<1>2. /\ SameLedger(t, u) /\ u.status = t.status /\ (u.owned => t.owned) /\ u.sl = t.sl
  BY DEF SameLedger, Sound, TradeRecord
<1>3. QED BY <1>1, <1>2, QuietChange DEF Quiet

\* What the trade tracks of its protection, the targets it has hit and the level
\* of its stop.
LEMMA TrackedKept ==
  ASSUME NEW t, Sound(t), NEW S \in SUBSET Goals, NEW sl \in {0} \union Slots,
         NEW need \in 0..MaxTargets, NEW aims \in 1..MaxTargets,
         NEW hits \in 0..MaxTargets, NEW level \in 0..MaxTargets
  PROVE  Keeps(t, [t EXCEPT !.tps = S, !.sl = sl, !.need = need, !.aims = aims,
                            !.hits = hits, !.level = level])
<1> DEFINE u == [t EXCEPT !.tps = S, !.sl = sl, !.need = need, !.aims = aims,
                          !.hits = hits, !.level = level]
<1>1. u \in TradeRecord
  BY Zenon DEF Sound, TradeRecord
<1>2. /\ SameLedger(t, u) /\ u.status = t.status /\ (u.owned => t.owned)
  BY DEF SameLedger, Sound, TradeRecord
<1>3. QED BY <1>1, <1>2, QuietChange

\* The trade tracks other targets or another stop.
LEMMA OrdersTracked ==
  ASSUME NEW t, Sound(t), NEW S \in SUBSET Goals, NEW sl \in {0} \union Slots
  PROVE  /\ Keeps(t, [t EXCEPT !.tps = S, !.sl = sl])
         /\ Keeps(t, [t EXCEPT !.sl = sl]) /\ [t EXCEPT !.sl = sl].sl = sl
         /\ Keeps(t, [t EXCEPT !.tps = S]) /\ [t EXCEPT !.tps = S].sl = t.sl
<1>1. /\ t \in TradeRecord /\ t.need \in 0..MaxTargets /\ t.aims \in 1..MaxTargets
      /\ t.hits \in 0..MaxTargets /\ t.level \in 0..MaxTargets
      /\ t.tps \in SUBSET Goals /\ t.sl \in {0} \union Slots
  BY DEF Sound, TradeRecord
<1>2. ASSUME NEW x \in SUBSET Goals, NEW y \in {0} \union Slots
      PROVE  Keeps(t, [t EXCEPT !.tps = x, !.sl = y])
  <2>1. [t EXCEPT !.tps = x, !.sl = y] =
          [t EXCEPT !.tps = x, !.sl = y, !.need = t.need, !.aims = t.aims,
                    !.hits = t.hits, !.level = t.level]
    BY <1>1 DEF TradeRecord
  <2>2. Keeps(t, [t EXCEPT !.tps = x, !.sl = y, !.need = t.need, !.aims = t.aims,
                           !.hits = t.hits, !.level = t.level])
    BY <1>1, TrackedKept, Zenon
  <2>3. QED BY <2>1, <2>2
<1>3. /\ [t EXCEPT !.tps = t.tps, !.sl = sl] = [t EXCEPT !.sl = sl]
      /\ [t EXCEPT !.tps = S, !.sl = t.sl] = [t EXCEPT !.tps = S]
      /\ [t EXCEPT !.sl = sl].sl = sl /\ [t EXCEPT !.tps = S].sl = t.sl
  BY <1>1 DEF TradeRecord
<1>4. Keeps(t, [t EXCEPT !.tps = S, !.sl = sl])
  BY <1>2
<1>5. /\ Keeps(t, [t EXCEPT !.tps = t.tps, !.sl = sl])
      /\ Keeps(t, [t EXCEPT !.tps = S, !.sl = t.sl])
  BY <1>1, <1>2
<1>6. QED BY <1>3, <1>4, <1>5

\* The targets a snapshot shows as hit.
LEMMA HitsKept ==
  ASSUME NEW t, Sound(t), NEW hit \in SUBSET Goals
  PROVE  Quiet(t, TargetsHit(t, hit))
<1> DEFINE most == CHOOSE g \in hit : \A h \in hit : h <= g
           hits == IF hit = {} THEN t.hits ELSE Greater(t.hits, most)
           u == [t EXCEPT !.hits = hits]
<1>1. t \in TradeRecord /\ t.hits \in 0..MaxTargets
  BY DEF Sound, TradeRecord
<1>2. hits \in 0..MaxTargets
  <2>1. CASE hit = {}
    BY <1>1, <2>1
  <2>2. CASE hit # {}
    <3>1. hit \in SUBSET (0..MaxTargets) /\ MaxTargets \in Nat
      BY DEF Goals
    <3>2. \E g \in hit : \A h \in hit : h <= g
      BY <2>2, <3>1, Largest
    <3>3. most \in hit /\ hit \subseteq 1..MaxTargets
      BY <3>2 DEF Goals
    <3> HIDE DEF most
    <3>4. QED BY <1>1, <2>2, <3>1, <3>3 DEF Greater
  <2>3. QED BY <2>1, <2>2
<1>3. TargetsHit(t, hit) = u
  BY <1>1 DEF TargetsHit, TradeRecord
<1> HIDE DEF hits
<1>4. u \in TradeRecord
  BY <1>1, <1>2, Zenon DEF TradeRecord
<1>5. /\ SameLedger(t, u) /\ u.status = t.status /\ (u.owned => t.owned) /\ u.sl = t.sl
  BY <1>1 DEF SameLedger, TradeRecord
<1>6. QED BY <1>3, <1>4, <1>5, QuietChange DEF Quiet

\* The sums of the fills in a snapshot.
LEMMA FillsAreNat ==
  ASSUME NEW v \in ViewRecord, NEW o \in BOOLEAN
  PROVE  /\ StopsSeen(v, o) \in Nat /\ FillsSeen(v, o) \in Nat
         /\ MatchingTargets(v) \in SUBSET Goals
<1>1. v.target \in [Goals -> Nat] /\ v.stop \in [Slots -> Nat] /\ v.loose \in Nat
  BY DEF ViewRecord
<1>2. IsFiniteSet(Goals) /\ IsFiniteSet(Slots)
  <2>1. 1 \in Int /\ 3 \in Int /\ MaxTargets \in Int
    OBVIOUS
  <2>2. IsFiniteSet(1..MaxTargets) /\ IsFiniteSet(1..3)
    BY <2>1, FS_Interval, Zenon
  <2>3. QED BY <2>2 DEF Goals, Slots
<1>3. UnclaimedTargets(v) \in Nat
  <2>1. SumFunctionOnSet(v.target, Goals) \in Nat
    BY <1>1, <1>2, SumType
  <2>2. QED BY <1>1, <2>1 DEF UnclaimedTargets, SumFunction
<1>4. UnclaimedStops(v) \in Nat
  <2>1. SumFunctionOnSet(v.stop, Slots) \in Nat
    BY <1>1, <1>2, SumType
  <2>2. QED BY <1>1, <2>1 DEF UnclaimedStops, SumFunction
<1>5. QED BY <1>1, <1>3, <1>4 DEF StopsSeen, FillsSeen, MatchingTargets

\* Booking the fills of a snapshot keeps the ledger.
LEMMA FillsKeep ==
  ASSUME NEW t, Sound(t), Filled(t), NEW v \in ViewRecord, NEW o \in BOOLEAN
  PROVE  Keeps(t, WithMissingFills(t, v, o)) /\ WithMissingFills(t, v, o).sl = t.sl
<1> DEFINE why == IF StopsSeen(v, o) > 0 THEN "stop"
                  ELSE IF v.loose > 0 /\ ~o THEN "close" ELSE "target"
           n == FillsSeen(v, o)
           a == Booked(t, n, why)
           b == TargetsHit(a, MatchingTargets(v))
           i == b.issues \ ({"reconcile"} \union IF b.audit = 0 THEN {"drift"} ELSE {})
<1>1. t \in TradeRecord /\ n \in Nat /\ MatchingTargets(v) \in SUBSET Goals
  BY FillsAreNat DEF Sound
<1>2. why \in Reasons
  BY Names
<1> HIDE DEF why, n
<1>3. Keeps(t, a) /\ a.sl = t.sl
  BY <1>1, <1>2, BookedKeeps
<1> HIDE DEF a
<1>4. Keeps(a, b) /\ b.sl = a.sl
  BY <1>1, <1>3, HitsKept DEF Keeps, Quiet
<1> HIDE DEF b
<1>5. i \in SUBSET Issues
  BY <1>4 DEF Keeps, Sound, TradeRecord
<1>6. Keeps(b, [b EXCEPT !.issues = i]) /\ [b EXCEPT !.issues = i].sl = b.sl
  BY <1>4, <1>5, IssuesKept DEF Keeps, Quiet
<1>7. WithMissingFills(t, v, o) = IF n = 0 THEN t ELSE [b EXCEPT !.issues = i]
  <2>1. WithMissingFills(t, v, o) =
          IF n = 0 THEN t
          ELSE [b EXCEPT !.issues =
                 @ \ ({"reconcile"} \union IF b.audit = 0 THEN {"drift"} ELSE {})]
    BY Zenon DEF WithMissingFills, b, a, n, why
  <2>2. QED BY <1>4, <2>1 DEF Keeps, Sound, TradeRecord
<1> HIDE DEF i
<1>8. Keeps(t, b)
  BY <1>1, <1>3, <1>4, KeepsIsTransitive
<1>9. Keeps(t, [b EXCEPT !.issues = i])
  BY <1>1, <1>6, <1>8, KeepsIsTransitive
<1>10. Keeps(t, t)
  BY QuietOnes DEF Quiet
<1>11. QED BY <1>3, <1>4, <1>6, <1>7, <1>9, <1>10

\* The position of a snapshot, and the end of the tracking of the orders.
LEMMA ShownKeeps ==
  ASSUME NEW t, Sound(t), Filled(t), NEW k, View(k) \in ViewRecord
  PROVE  Keeps(t, PositionShown(k, t)) /\ PositionShown(k, t).sl = t.sl
<1> DEFINE q == View(k).pos
           u == WithPosition(t, q)
<1>1. q \in Nat /\ t \in TradeRecord
  BY DEF ViewRecord, Sound
<1>2. Keeps(t, u) /\ u.sl = t.sl
  BY <1>1, PositionKeeps
<1> HIDE DEF u
<1>3. Keeps(u, WithoutMiss(u)) /\ WithoutMiss(u).sl = u.sl
  BY <1>2, QuietOnes DEF Keeps, Quiet
<1>4. Keeps(t, WithoutMiss(u))
  BY <1>1, <1>2, <1>3, KeepsIsTransitive
<1>5. Keeps(t, t)
  BY QuietOnes DEF Quiet
<1>6. QED BY <1>2, <1>3, <1>4, <1>5 DEF PositionShown, u

\* A trade that has ended tracks nothing, and is finalized.
LEMMA UntrackedKeeps ==
  ASSUME NEW t, Sound(t)
  PROVE  Keeps(t, Finalized(Untracked(t)))
<1> DEFINE u == [t EXCEPT !.tps = {}, !.sl = 0, !.need = 0, !.aims = t.aims,
                          !.hits = t.hits, !.level = t.level]
<1>1. /\ t \in TradeRecord /\ t.aims \in 1..MaxTargets /\ t.hits \in 0..MaxTargets
      /\ t.level \in 0..MaxTargets /\ 0 \in 0..MaxTargets /\ {} \in SUBSET Goals
      /\ 0 \in {0} \union Slots
  BY DEF Sound, TradeRecord
<1>2. Untracked(t) = u
  BY <1>1 DEF Untracked, TradeRecord
<1>3. Keeps(t, u)
  BY <1>1, TrackedKept
<1> HIDE DEF u
<1>4. Keeps(u, Finalized(u))
  BY <1>3, QuietOnes DEF Keeps, Quiet
<1>5. QED BY <1>1, <1>2, <1>3, <1>4, KeepsIsTransitive

-----------------------------------------------------------------------------
(* The orders of the exchange.                                             *)

\* What happens to an order leaves it an order.
LEMMA OrdersKept ==
  ASSUME NEW o \in OrderRecord, NEW n \in Nat, NEW q \in 0..MaxQty,
         NEW l \in 0..MaxTargets
  PROVE  /\ Cancelled(o) \in OrderRecord /\ Removed(o) \in OrderRecord
         /\ Executed(o, n) \in OrderRecord
         /\ Claimed(o, n) \in OrderRecord /\ Claimed(o, n).state = o.state
         /\ Placed(o, q, l) \in OrderRecord /\ Placed(o, q, l).state = "rests"
<1>1. /\ 0 \in 0..MaxQty /\ 0 \in 0..MaxTargets
      /\ "rests" \in OrderStates /\ "filled" \in OrderStates /\ "gone" \in OrderStates
  BY DEF OrderStates, MaxQty
<1>2. o.executed + n \in Nat /\ o.claimed + n \in Nat
  BY DEF OrderRecord
<1>3. Removed(o) \in OrderRecord
  BY <1>1, Zenon DEF Removed, OrderRecord
<1>4. Executed(o, n) \in OrderRecord
  <2> DEFINE e == o.executed + n
  <2>1. Executed(o, n) = [o EXCEPT !.state = "filled", !.qty = 0, !.level = 0,
                                   !.executed = e]
    BY DEF Executed, OrderRecord
  <2>2. e \in Nat
    BY <1>2
  <2> HIDE DEF e
  <2>3. QED BY <1>1, <2>1, <2>2, Zenon DEF OrderRecord
<1>5. Claimed(o, n) \in OrderRecord /\ Claimed(o, n).state = o.state
  BY <1>2 DEF Claimed, OrderRecord
<1>6. Placed(o, q, l) \in OrderRecord /\ Placed(o, q, l).state = "rests"
  <2>1. Placed(o, q, l) \in OrderRecord
    BY <1>1, Zenon DEF Placed, OrderRecord
  <2>2. QED BY <2>1 DEF Placed, OrderRecord
<1>7. QED BY <1>3, <1>4, <1>5, <1>6 DEF Cancelled

\* An order that is cancelled or executes needs no quantity.
LEMMA OrdersEnd ==
  ASSUME NEW o \in OrderRecord
  PROVE  /\ Cancelled(o) \in OrderRecord /\ Removed(o) \in OrderRecord
         /\ \A n \in Nat : Executed(o, n) \in OrderRecord
         /\ \A n \in Nat : /\ Claimed(o, n) \in OrderRecord
                            /\ Claimed(o, n).state = o.state
<1>1. 0 \in 0..MaxQty /\ 0 \in 0..MaxTargets /\ 0 \in Nat
  BY DEF MaxQty
<1>2. QED BY <1>1, OrdersKept

\* A cancelled entry order keeps what has come in.
LEMMA LegStopped ==
  ASSUME NEW l \in LegRecord
  PROVE  Stopped(l) \in LegRecord /\ Stopped(l).got = l.got
BY DEF Stopped, LegRecord, OrderStates

\* The exchange moves on its own.
LEMMA ExchangeMoves ==
  ASSUME ExchangeSound, ExchangeStep
  PROVE  ExchangeSound'
<1>1. ASSUME NEW i \in Legs, LegFills(i) PROVE ExchangeSound'
  <2>1. /\ leg[i].got \in Nat /\ leg[i].got <= LegQty[i] /\ LegQty[i] \in 0..2
        /\ "filled" \in OrderStates
    BY DEF ExchangeSound, LegRecord, LegQty, Legs, OrderStates
  <2>2. position' \in Nat
    BY <1>1, <2>1 DEF ExchangeSound, LegFills
  <2>3. [state |-> "filled", got |-> LegQty[i]] \in LegRecord
    BY <2>1 DEF LegRecord
  <2>4. leg' = [leg EXCEPT ![i] = [state |-> "filled", got |-> LegQty[i]]]
    BY <1>1 DEF LegFills
  <2>5. leg' \in [Legs -> LegRecord] /\ \A j \in Legs : leg'[j].got <= LegQty[j]
    BY <2>1, <2>3, <2>4 DEF ExchangeSound
  <2>6. QED BY <1>1, <2>2, <2>5 DEF ExchangeSound, LegFills
<1>2. ASSUME NEW i \in Legs, LegFillsPartly(i) PROVE ExchangeSound'
  <2>1. leg[i] \in LegRecord /\ LegQty[i] \in Nat /\ LegQty[i] >= 1
    BY DEF ExchangeSound, LegQty, Legs
  <2>2. [leg[i] EXCEPT !.got = 1] \in LegRecord /\ [leg[i] EXCEPT !.got = 1].got = 1
    BY <2>1 DEF LegRecord
  <2>3. leg' = [leg EXCEPT ![i] = [leg[i] EXCEPT !.got = 1]]
    BY <1>2 DEF LegFillsPartly, ExchangeSound
  <2>4. leg' \in [Legs -> LegRecord] /\ \A j \in Legs : leg'[j].got <= LegQty[j]
    BY <2>1, <2>2, <2>3 DEF ExchangeSound
  <2>5. position' \in Nat
    BY <1>2 DEF ExchangeSound, LegFillsPartly
  <2>6. QED BY <1>2, <2>4, <2>5 DEF ExchangeSound, LegFillsPartly
<1>3. ASSUME NEW i \in Legs, LegDies(i) PROVE ExchangeSound'
  <2>1. /\ [leg[i] EXCEPT !.state = "gone"] \in LegRecord
        /\ [leg[i] EXCEPT !.state = "gone"].got = leg[i].got
    BY DEF ExchangeSound, LegRecord, OrderStates
  <2>2. leg' = [leg EXCEPT ![i] = [leg[i] EXCEPT !.state = "gone"]]
    BY <1>3 DEF LegDies, ExchangeSound
  <2>3. leg' \in [Legs -> LegRecord] /\ \A j \in Legs : leg'[j].got <= LegQty[j]
    BY <2>1, <2>2 DEF ExchangeSound
  <2>4. QED BY <1>3, <2>3 DEF ExchangeSound, LegDies
<1>4. ASSUME NEW g \in Goals, TargetFills(g) PROVE ExchangeSound'
  <2> DEFINE n == Lesser(target[g].qty, position)
  <2>1. target[g] \in OrderRecord /\ n \in Nat /\ position - n \in Nat
    BY DEF ExchangeSound, OrderRecord, Lesser
  <2>2. Executed(target[g], n) \in OrderRecord
    BY <2>1, OrdersEnd
  <2>3. position' = position - n /\ target' = [target EXCEPT ![g] = Executed(target[g], n)]
    BY <1>4 DEF TargetFills
  <2> HIDE DEF n
  <2>4. QED BY <1>4, <2>1, <2>2, <2>3 DEF ExchangeSound, TargetFills
<1>5. ASSUME NEW s \in Slots, StopFires(s) PROVE ExchangeSound'
  <2> DEFINE n == Lesser(stop[s].qty, position)
  <2>1. stop[s] \in OrderRecord /\ n \in Nat /\ position - n \in Nat
    BY DEF ExchangeSound, OrderRecord, Lesser
  <2>2. Executed(stop[s], n) \in OrderRecord
    BY <2>1, OrdersEnd
  <2>3. position' = position - n /\ stop' = [stop EXCEPT ![s] = Executed(stop[s], n)]
    BY <1>5 DEF StopFires
  <2> HIDE DEF n
  <2>4. QED BY <1>5, <2>1, <2>2, <2>3 DEF ExchangeSound, StopFires
<1>6. ASSUME NEW s \in Slots, StopDies(s) PROVE ExchangeSound'
  <2>1. Removed(stop[s]) \in OrderRecord
    BY OrdersEnd DEF ExchangeSound
  <2>2. stop' = [stop EXCEPT ![s] = Removed(stop[s])]
    BY <1>6 DEF StopDies, ExchangeSound
  <2>3. QED BY <1>6, <2>1, <2>2 DEF ExchangeSound, StopDies
<1>7. QED BY <1>1, <1>2, <1>3, <1>4, <1>5, <1>6 DEF ExchangeStep

\* Cancelled legs, and what their fills add to the trade.
LEMMA CancelKeeps ==
  ASSUME ExchangeSound, NEW t, Sound(t), t.ladder, NEW I \in SUBSET Legs, NEW F \in SUBSET Legs,
         CancelLegs(t, I, F)
  PROVE  /\ leg' \in [Legs -> LegRecord] /\ \A i \in Legs : leg'[i].got <= LegQty[i]
         /\ Keeps(t, trade') /\ trade'.sl = t.sl
         /\ Added(t, trade') > 0 => Filled(trade')
<1> DEFINE live == {i \in I \ F : t.known[i] \in {"sent", "working"}}
           v == LegsShown({i \in Legs \ F : t.known[i] \notin {"planned", "unsent"}})
           u == WithRangeFills(t, v)
           i == u.issues \union {"reconcile"}
<1>1. leg' = [j \in Legs |-> IF j \in live THEN Stopped(leg[j]) ELSE leg[j]]
  BY DEF CancelLegs
<1>2. leg' \in [Legs -> LegRecord] /\ \A j \in Legs : leg'[j].got <= LegQty[j]
  <2> HIDE DEF live
  <2>1. QED BY <1>1, LegStopped DEF ExchangeSound
<1>3. LegsRead(v)
  BY <1>2 DEF LegsShown, LegsRead, LegRecord, OrderStates
<1>4. trade' = IF CancelConfirmed(t, I, F) THEN u ELSE [u EXCEPT !.issues = i]
  BY DEF CancelLegs
<1> HIDE DEF v
<1>5. /\ Keeps(t, u) /\ u.sl = t.sl /\ t \in TradeRecord
      /\ Added(t, u) > 0 => Filled(u)
  BY <1>3, RangeFillsKeep DEF Sound
<1> HIDE DEF u
<1>6. i \in SUBSET Issues
  BY <1>5, Names DEF Keeps, Sound, TradeRecord
<1> HIDE DEF i
<1> DEFINE w == [u EXCEPT !.issues = i]
<1>7. /\ Keeps(u, w) /\ w.sl = u.sl /\ w.entered = u.entered /\ w.ladder = u.ladder
  BY <1>5, <1>6, IssuesKept DEF Keeps, Quiet, Sound, TradeRecord
<1>8. w.sl = t.sl /\ (Added(t, w) > 0 => Filled(w))
  BY <1>5, <1>7 DEF Added, Filled
<1> HIDE DEF w
<1>9. Keeps(t, w)
  BY <1>5, <1>7, KeepsIsTransitive
<1>10. trade' = u \/ trade' = w
  BY <1>4 DEF w
<1>11. QED BY <1>2, <1>5, <1>8, <1>9, <1>10

\* What the legs show to have come in never falls.
LEMMA EnteredGrows ==
  ASSUME NEW t, Sound(t), NEW v, DOMAIN v \subseteq Legs,
         \A i \in DOMAIN v : v[i].got \in Int
  PROVE  /\ t.ladder => WithRangeFills(t, v).entered >= t.entered /\ t.entered >= 0
         /\ t.ladder /\ (\E i \in DOMAIN v : v[i].got > 0)
              => WithRangeFills(t, v).entered > 0
<1> DEFINE got == [i \in Legs |-> IF i \in DOMAIN v THEN Greater(t.got[i], v[i].got)
                                  ELSE t.got[i]]
           entered == got[1] + got[2] + got[3]
           known == [i \in Legs |->
                       IF i \notin DOMAIN v THEN t.known[i]
                       ELSE IF v[i].state = "rests" THEN "working" ELSE v[i].state]
           u == [t EXCEPT !.got = got, !.known = known, !.late = @ /\ ~LadderOver(v)]
<1>1. /\ t \in TradeRecord /\ t.entered \in Int /\ t.got \in [Legs -> Int]
      /\ \A i \in Legs : t.got[i] >= 0
  BY DEF Sound, TradeRecord
<1>2. got \in [Legs -> Int] /\ \A i \in Legs : got[i] >= t.got[i]
  BY <1>1 DEF Greater
<1>3. \A i \in DOMAIN v : got[i] >= v[i].got
  BY <1>1 DEF Greater
<1> HIDE DEF got, known
<1>4. entered \in Int
  BY <1>2 DEF Legs
<1>5. t.ladder => /\ t.entered = t.got[1] + t.got[2] + t.got[3]
                  /\ t.got[1] >= 0 /\ t.got[2] >= 0 /\ t.got[3] >= 0
  BY <1>1 DEF Sound, Balanced, Legs
<1>6. WithRangeFills(t, v) =
        IF entered - t.entered = 0 THEN u
        ELSE [u EXCEPT !.entered = entered, !.status = "open",
                       !.remaining = IF t.entered = 0 THEN entered
                                     ELSE @ + (entered - t.entered)]
  BY DEF WithRangeFills, got, known
<1>7. WithRangeFills(t, v).entered = entered
  <2>1. u.entered = t.entered /\ DOMAIN u = DOMAIN t /\ "entered" \in DOMAIN u
    BY <1>1 DEF TradeRecord
  <2>2. CASE entered - t.entered = 0
    BY <1>1, <1>4, <1>6, <2>1, <2>2
  <2>3. CASE entered - t.entered # 0
    BY <1>6, <2>1, <2>3
  <2>4. QED BY <2>2, <2>3
<1>8. t.ladder => entered >= t.entered /\ t.entered >= 0
  BY <1>1, <1>2, <1>5 DEF Legs
<1>9. ASSUME t.ladder, NEW i \in DOMAIN v, v[i].got > 0 PROVE entered > 0
  <2>1. got[i] > 0 /\ i \in Legs
    BY <1>2, <1>3, <1>9
  <2>2. got[1] >= 0 /\ got[2] >= 0 /\ got[3] >= 0
    BY <1>1, <1>2, <1>5, <1>9 DEF Legs
  <2>3. QED BY <1>2, <2>1, <2>2 DEF Legs
<1>10. QED BY <1>7, <1>8, <1>9

\* A ladder whose legs are confirmed cancelled and that never filled.
LEMMA EndsKeeps ==
  ASSUME ExchangeSound, NEW t, Sound(t), NEW I, NEW F, NEW why \in Reasons,
         EndsUnfilled(t, I, F, why)
  PROVE  /\ leg' \in [Legs -> LegRecord] /\ \A i \in Legs : leg'[i].got <= LegQty[i]
         /\ Keeps(t, trade') /\ trade'.sl = t.sl
<1>1. leg' = [i \in Legs |-> Stopped(leg[i])]
  BY DEF EndsUnfilled
<1>2. leg' \in [Legs -> LegRecord] /\ \A i \in Legs : leg'[i].got <= LegQty[i]
  BY <1>1, LegStopped DEF ExchangeSound
<1>3. t.ladder => t.entered = 0
  <2>1. WithRangeFills(t, leg').entered = 0 /\ t.entered \in Int
    BY DEF EndsUnfilled, Sound, TradeRecord
  <2>2. DOMAIN leg' \subseteq Legs /\ \A i \in DOMAIN leg' : leg'[i].got \in Int
    BY <1>2 DEF LegRecord
  <2>3. QED BY <2>1, <2>2, EnteredGrows
<1>4. trade' = [Unfilled(t) EXCEPT !.reason = why]
  BY DEF EndsUnfilled
<1>5. Keeps(t, trade') /\ Unfilled(t).sl = t.sl /\ Keeps(t, Unfilled(t))
  BY <1>3, <1>4, UnfilledKeeps
<1>6. trade'.sl = t.sl
  BY <1>4, <1>5 DEF Keeps, Sound, TradeRecord
<1>7. QED BY <1>2, <1>5, <1>6

-----------------------------------------------------------------------------
(* How a step leaves its label.                                            *)

\* The labels a trade may be at.
LEMMA InnerHas ==
  ASSUME NEW t
  PROVE  /\ Frees \subseteq Inner(t)
         /\ Filled(t) => Sells \subseteq Inner(t)
         /\ ~t.ladder => "entry" \in Inner(t)
         /\ ~t.ladder /\ Filled(t) => Singles \subseteq Inner(t)
         /\ t.ladder => Ladders \subseteq Inner(t)
         /\ \A a \in Sells : a \in Inner(t) => Filled(t)
         /\ \A a \in Singles : a \in Inner(t) => ~t.ladder /\ Filled(t)
         /\ "entry" \in Inner(t) => ~t.ladder
         /\ \A a \in Ladders : a \in Inner(t) => t.ladder
BY DEF Inner, Filled, Frees, Ladders, Sells, Singles

\* Short stacks.
LEMMA Lists ==
  ASSUME NEW S
  PROVE  /\ <<>> \in Seq(S)
         /\ \A a \in S : <<a>> \in Seq(S)
         /\ \A a \in S, b \in S : <<a, b>> \in Seq(S)
         /\ \A a \in S, b \in S, c \in S : <<a, b, c>> \in Seq(S)
         /\ \A a \in S, b \in S, c \in S, d \in S : <<a, b, c, d>> \in Seq(S)
         /\ \A r \in Seq(S), s \in Seq(S) : r \o s \in Seq(S)
OBVIOUS

\* A step that leaves the trade.
LEMMA TradeUnchanged ==
  ASSUME LifeInv, UNCHANGED trade
  PROVE  Keeps(trade, trade') /\ trade'.sl = trade.sl /\ Sound(trade)
BY QuietOnes DEF LifeInv, Quiet

\* A step that leaves the exchange.
LEMMA ExchangeUnchanged ==
  ASSUME LifeInv, UNCHANGED exchange
  PROVE  ExchangeSound'
BY DEF LifeInv, ExchangeSound, exchange

\* What a task is left with.
LEMMA LocalsKept ==
  ASSUME NEW t \in TaskRecord
  PROVE  /\ \A b \in BOOLEAN :
              [t EXCEPT !.ok = b, !.prev = 0, !.todo = NoQty] \in TaskRecord
         /\ [t EXCEPT !.prev = 0, !.todo = NoQty] \in TaskRecord
         /\ [t EXCEPT !.ok = TRUE] \in TaskRecord
         /\ [t EXCEPT !.todo = NoQty] \in TaskRecord
<1>1. NoQty \in [Goals -> 0..MaxQty] /\ 0 \in {0} \union Slots
  BY DEF NoQty, MaxQty
<1>2. QED BY <1>1, Zenon DEF TaskRecord

\* A task goes on to other labels.
LEMMA Gone ==
  ASSUME LifeInv, NEW k \in Tasks, NEW label \in Labels, Runs(k, label),
         NEW labels \in Seq(Inner(trade')), Goto(k, labels),
         Keeps(trade, trade'), ExchangeSound',
         trade'.sl = trade.sl \/ label \in GuardedLabels
  PROVE  Lives
<1>1. task[k] \in TaskRecord /\ Becomes(k, task[k], labels)
  BY DEF LifeInv, Goto
<1>2. QED BY <1>1, Became

\* A routine returns.
LEMMA Returned ==
  ASSUME LifeInv, NEW k \in Tasks, NEW label \in Labels, Runs(k, label),
         NEW ok \in BOOLEAN, Return(k, ok), Keeps(trade, trade'), ExchangeSound',
         trade'.sl = trade.sl \/ label \in GuardedLabels
  PROVE  Lives
<1> DEFINE t == [task[k] EXCEPT !.ok = ok, !.prev = 0, !.todo = NoQty]
<1>1. t \in TaskRecord
  BY LocalsKept DEF LifeInv
<1>2. Becomes(k, t, <<>>) /\ <<>> \in Seq(Inner(trade'))
  BY Lists DEF Return
<1> HIDE DEF t
<1>3. QED BY <1>1, <1>2, Became

\* The caller of a routine takes its outcome.
LEMMA TookOver ==
  ASSUME LifeInv, NEW k \in Tasks, NEW label \in Labels, Runs(k, label),
         NEW labels \in Seq(Inner(trade')), Taken(k, labels),
         Keeps(trade, trade'), ExchangeSound',
         trade'.sl = trade.sl \/ label \in GuardedLabels
  PROVE  Lives
<1> DEFINE t == [task[k] EXCEPT !.ok = TRUE]
<1>1. t \in TaskRecord
  BY LocalsKept DEF LifeInv
<1>2. Becomes(k, t, labels)
  BY DEF Taken
<1> HIDE DEF t
<1>3. QED BY <1>1, <1>2, Became

\* An attempt of a protection sync fails.
LEMMA Failed ==
  ASSUME LifeInv, NEW k \in Tasks, NEW label \in Labels, Runs(k, label), Fails(k),
         Keeps(trade, trade'), ExchangeSound',
         trade'.sl = trade.sl \/ label \in GuardedLabels
  PROVE  Lives
<1> DEFINE t == [task[k] EXCEPT !.prev = 0, !.todo = NoQty]
<1>1. t \in TaskRecord
  BY LocalsKept DEF LifeInv
<1>2. Becomes(k, t, <<"failed">>)
  BY DEF Fails
<1>3. <<"failed">> \in Seq(Inner(trade'))
  <2>1. "failed" \in Inner(trade')
    BY InnerHas DEF Frees
  <2>2. QED BY <2>1, Lists
<1> HIDE DEF t
<1>4. QED BY <1>1, <1>2, <1>3, Became

-----------------------------------------------------------------------------
(* The routines.                                                           *)

\* Some of the resting targets are cancelled, or none.
LEMMA TargetsCancelled ==
  ASSUME ExchangeSound, NEW G,
         target' = [g \in Goals |-> IF g \in G THEN target[g] ELSE Cancelled(target[g])]
  PROVE  target' \in [Goals -> OrderRecord]
<1>1. ASSUME NEW g \in Goals PROVE Cancelled(target[g]) \in OrderRecord
  BY OrdersEnd DEF ExchangeSound
<1>2. QED BY <1>1 DEF ExchangeSound

\* A query shows one of the stops, or none.
LEMMA StopsShownAre ==
  ASSUME NEW st \in [Slots -> OrderRecord], NEW x \in {0} \union Slots,
         NEW sl \in StopsShown(st, x)
  PROVE  sl \in {0} \union Slots
BY DEF StopsShown, Resting

\* A plan asks for no more than the position, and for no more targets than there
\* are.
LEMMA PlanBounded ==
  ASSUME NEW t \in TradeRecord, t.hits < t.aims
  PROVE  /\ PlanTargets(t) \in [Goals -> 0..MaxQty]
         /\ Cardinality(PlannedTargets(t)) \in 0..MaxTargets
<1> DEFINE p == PlanTargets(t)
<1>1. /\ PlanInput(t) /\ t.aims <= MaxTargets /\ t.remaining \in Nat
      /\ t.remaining <= MaxQty /\ t.hits \in Nat /\ t.aims \in Nat /\ MaxQty \in Nat
  BY Quantities
<1>2. p \in [Goals -> Int]
  BY <1>1, PlanType
<1>3. IsFiniteSet(Goals) /\ Cardinality(Goals) = MaxTargets
  <2>1. 1 \in Int /\ MaxTargets \in Int /\ 1 <= MaxTargets
    OBVIOUS
  <2>2. IsFiniteSet(1..MaxTargets)
    BY <2>1, FS_Interval, Zenon
  <2>3. Cardinality(1..MaxTargets) = IF 1 > MaxTargets THEN 0 ELSE MaxTargets - 1 + 1
    BY <2>1, FS_Interval, Zenon
  <2>4. QED BY <2>1, <2>2, <2>3 DEF Goals
<1>4. ASSUME NEW g \in Goals PROVE p[g] \in 0..MaxQty
  <2>1. CASE t.remaining > 0
    <3>1. PlanTakesAll(t)
      BY <1>1, <2>1, PlanIsComplete
    <3>2. \A h \in Goals : p[h] \in Nat
      <4>1. \A h \in Goals : p[h] >= 1 \/ p[h] = 0
        BY <3>1, Zenon DEF PlanTakesAll
      <4> HIDE DEF p
      <4>2. QED BY <1>2, <4>1
    <3>3. SumFunctionOnSet(p, Goals) = t.remaining
      <4>1. DOMAIN p = Goals
        BY <1>2
      <4>2. QED BY <3>1, <4>1 DEF PlanTakesAll, SumFunction
    <3> HIDE DEF p
    <3>4. p[g] <= SumFunctionOnSet(p, Goals)
      BY <1>3, <3>2, SumHasPart
    <3>5. QED BY <1>1, <3>2, <3>3, <3>4
  <2>2. CASE t.remaining = 0
    <3>1. LastTarget(t) = t.hits
      BY <1>1, <2>2 DEF LastTarget, Lesser
    <3>2. g \notin (t.hits + 1)..LastTarget(t)
      BY <1>1, <3>1
    <3>3. p[g] = 0
      BY <3>2 DEF PlanTargets
    <3>4. QED BY <1>1, <3>3
  <2>3. QED BY <1>1, <2>1, <2>2
<1>5. Cardinality(PlannedTargets(t)) \in 0..MaxTargets
  <2>1. PlannedTargets(t) \subseteq Goals
    BY DEF PlannedTargets
  <2>2. /\ IsFiniteSet(PlannedTargets(t))
        /\ Cardinality(PlannedTargets(t)) <= Cardinality(Goals)
    BY <1>3, <2>1, FS_Subset
  <2>3. Cardinality(PlannedTargets(t)) \in Nat
    BY <2>2, FS_CardinalityType
  <2>4. QED BY <1>3, <2>2, <2>3
<1> HIDE DEF p
<1>6. p \in [Goals -> 0..MaxQty]
  BY <1>2, <1>4
<1>7. QED BY <1>5, <1>6 DEF p

\* Planning a protection and cancelling the old targets.
LEMMA PlanProtectionStep ==
  ASSUME LifeInv, NEW k \in Tasks, PlanProtection(k)
  PROVE  Lives
<1>1. /\ Runs(k, "plan") /\ "plan" \in Labels /\ "plan" \in GuardedLabels
      /\ task[k] \in TaskRecord
  BY LabelsKnown DEF PlanProtection, Frees, GuardedLabels, LifeInv
<1>2. ASSUME UNCHANGED <<target, trade>> PROVE Keeps(trade, trade') /\ ExchangeSound'
  BY <1>2, TradeUnchanged, ExchangeUnchanged DEF PlanProtection, exchange
<1>3. CASE Return(k, TRUE) /\ UNCHANGED <<target, trade>>
  BY <1>1, <1>2, <1>3, Returned
<1>4. CASE Fails(k) /\ UNCHANGED <<target, trade>>
  BY <1>1, <1>2, <1>4, Failed
<1>5. ASSUME CanRestore(trade), NEW sl \in StopsShown(stop, trade.sl), NEW F,
             target' = [g \in Goals |-> IF g \in F THEN target[g]
                                        ELSE Cancelled(target[g])],
             LET t == [Advanced(WithDefaults(trade)) EXCEPT !.sl = sl, !.tps = {}]
             IN  /\ trade' = [t EXCEPT !.need = Cardinality(PlannedTargets(t))]
                 /\ IF F # {} THEN Fails(k)
                    ELSE Becomes(k, [task[k] EXCEPT !.todo = PlanTargets(t), !.prev = sl],
                                 IF sl = 0 THEN <<"stop">> ELSE <<"targets">>)
      PROVE  Lives
  <2> DEFINE aims == IF trade.hits < trade.aims THEN trade.aims ELSE trade.hits + 1
             level == Greater(trade.level, trade.hits)
             t == [Advanced(WithDefaults(trade)) EXCEPT !.sl = sl, !.tps = {}]
             need == Cardinality(PlannedTargets(t))
  <2>1. /\ Sound(trade) /\ trade \in TradeRecord /\ trade.hits \in 0..MaxTargets
        /\ trade.aims \in 1..MaxTargets /\ trade.level \in 0..MaxTargets
        /\ trade.need \in 0..MaxTargets
    BY DEF LifeInv, Sound, TradeRecord
  <2>2. sl \in {0} \union Slots
    BY <1>5, StopsShownAre DEF LifeInv, ExchangeSound, Sound, TradeRecord
  <2>3. /\ aims \in 1..MaxTargets /\ level \in 0..MaxTargets /\ {} \in SUBSET Goals
        /\ trade.hits < aims
    BY <1>5, <2>1 DEF Greater, CanRestore
  <2>4. t = [trade EXCEPT !.tps = {}, !.sl = sl, !.need = trade.need, !.aims = aims,
                          !.hits = trade.hits, !.level = level]
    <3>1. WithDefaults(trade) = [trade EXCEPT !.aims = aims]
      BY <2>1 DEF WithDefaults, TradeRecord
    <3>2. Advanced(WithDefaults(trade)) = [trade EXCEPT !.aims = aims, !.level = level]
      BY <2>1, <3>1 DEF Advanced, TradeRecord
    <3> HIDE DEF aims, level
    <3>3. QED BY <2>1, <3>2 DEF TradeRecord
  <2> HIDE DEF aims, level, t
  <2>5. Keeps(trade, t) /\ t \in TradeRecord
    BY <2>1, <2>2, <2>3, <2>4, TrackedKept DEF Keeps, Sound
  <2>6. need \in 0..MaxTargets /\ PlanTargets(t) \in [Goals -> 0..MaxQty]
    <3>1. t.hits < t.aims
      BY <2>1, <2>3, <2>4 DEF TradeRecord
    <3>2. QED BY <2>5, <3>1, PlanBounded
  <2>7. trade' = [t EXCEPT !.need = need]
    BY <1>5 DEF t
  <2> HIDE DEF need
  <2>8. trade' = [trade EXCEPT !.tps = {}, !.sl = sl, !.need = need, !.aims = aims,
                               !.hits = trade.hits, !.level = level]
    BY <2>1, <2>4, <2>7 DEF TradeRecord
  <2>9. Keeps(trade, trade')
    BY <2>1, <2>2, <2>3, <2>6, <2>8, TrackedKept
  <2>10. ExchangeSound'
    <3>1. target' \in [Goals -> OrderRecord]
      BY <1>5, TargetsCancelled DEF LifeInv
    <3>2. QED BY <3>1 DEF PlanProtection, ExchangeSound, LifeInv
  <2>11. CASE F # {}
    <3>1. Fails(k)
      BY <1>5, <2>11
    <3>2. QED BY <1>1, <2>9, <2>10, <3>1, Failed
  <2>12. CASE F = {}
    <3> DEFINE u == [task[k] EXCEPT !.todo = PlanTargets(t), !.prev = sl]
               labels == IF sl = 0 THEN <<"stop">> ELSE <<"targets">>
    <3>2. u \in TaskRecord
      BY <1>1, <2>2, <2>6, Zenon DEF TaskRecord
    <3>3. labels \in Seq(Inner(trade'))
      <4>1. "stop" \in Inner(trade') /\ "targets" \in Inner(trade')
        BY InnerHas DEF Frees
      <4>2. QED BY <4>1, Lists
    <3>4. Becomes(k, u, labels)
      BY <1>5, <2>12 DEF t
    <3> HIDE DEF u, labels
    <3>5. QED BY <1>1, <2>9, <2>10, <3>2, <3>3, <3>4, Became
  <2>13. QED BY <2>11, <2>12
<1>6. QED BY <1>3, <1>4, <1>5 DEF PlanProtection

\* The submission of a stop; the one before is not tracked any more when it
\* succeeds.
LEMMA SubmitStopStep ==
  ASSUME LifeInv, NEW k \in Tasks, FirstStop(k) \/ NewStop(k)
  PROVE  Lives
<1>0. PICK label \in {"stop", "restop"}, next \in {"targets", "verify"} :
        SubmitStop(k, label, next) /\ (label = "stop" <=> next = "targets")
  BY DEF FirstStop, NewStop
<1>1. /\ Runs(k, label) /\ label \in Labels /\ label \in GuardedLabels
      /\ task[k] \in TaskRecord /\ Sound(trade) /\ trade \in TradeRecord
  BY <1>0, LabelsKnown DEF SubmitStop, Frees, GuardedLabels, LifeInv, Sound
<1>2. CASE Fails(k) /\ UNCHANGED <<stop, trade>>
  <2>1. Keeps(trade, trade') /\ ExchangeSound'
    BY <1>0, <1>2, TradeUnchanged, ExchangeUnchanged DEF SubmitStop, exchange
  <2>2. QED BY <1>1, <1>2, <2>1, Failed
<1>3. ASSUME NEW s \in FreeSlots(k),
             stop' = [stop EXCEPT ![s] = Placed(@, trade.remaining, trade.level)]
      PROVE  ExchangeSound'
  <2>1. /\ s \in Slots /\ trade.remaining \in 0..MaxQty /\ trade.level \in 0..MaxTargets
        /\ 0 \in Nat
    BY <1>1 DEF FreeSlots, TradeRecord
  <2>2. Placed(stop[s], trade.remaining, trade.level) \in OrderRecord
    BY <2>1, OrdersKept DEF LifeInv, ExchangeSound
  <2>3. stop' = [stop EXCEPT ![s] = Placed(stop[s], trade.remaining, trade.level)]
    BY <1>3, <2>1 DEF LifeInv, ExchangeSound
  <2>4. stop' \in [Slots -> OrderRecord]
    BY <2>1, <2>2, <2>3 DEF LifeInv, ExchangeSound
  <2>5. QED BY <1>0, <2>4 DEF SubmitStop, LifeInv, ExchangeSound
<1>4. ASSUME NEW s \in FreeSlots(k),
             stop' = [stop EXCEPT ![s] = Placed(@, trade.remaining, trade.level)],
             Fails(k), UNCHANGED trade
      PROVE  Lives
  <2>1. ExchangeSound'
    BY <1>3, <1>4
  <2>2. QED BY <1>1, <1>4, <2>1, TradeUnchanged, Failed
<1>5. ASSUME NEW s \in FreeSlots(k),
             stop' = [stop EXCEPT ![s] = Placed(@, trade.remaining, trade.level)],
             trade' = [trade EXCEPT !.sl = s], Goto(k, <<next>>)
      PROVE  Lives
  <2>1. ExchangeSound'
    BY <1>3, <1>5
  <2>2. s \in Slots /\ s # task[k].prev /\ trade'.sl = s
    BY <1>1, <1>5 DEF FreeSlots, TradeRecord
  <2>3. s \in {0} \union Slots /\ {} \in SUBSET Goals
    BY <2>2
  <2>5. Keeps(trade, trade')
    BY <1>1, <1>5, <2>3, OrdersTracked
  <2>6. CASE next = "verify"
    BY <1>1, <1>5, <2>1, <2>2, <2>5, <2>6, BecameVerify DEF Goto
  <2>7. CASE next = "targets"
    <3>1. <<next>> \in Seq(Inner(trade'))
      BY <2>7, InnerHas, Lists DEF Frees
    <3>2. QED BY <1>1, <1>5, <2>1, <2>5, <3>1, Gone
  <2>8. QED BY <2>6, <2>7
<1>6. QED BY <1>0, <1>2, <1>4, <1>5 DEF SubmitStop

\* The submission of the targets.
LEMMA PlaceTargetsStep ==
  ASSUME LifeInv, NEW k \in Tasks, PlaceTargets(k)
  PROVE  Lives
<1>1. /\ Runs(k, "targets") /\ "targets" \in Labels /\ "targets" \in GuardedLabels
      /\ task[k] \in TaskRecord /\ Sound(trade) /\ trade \in TradeRecord
  BY LabelsKnown DEF PlaceTargets, Frees, GuardedLabels, LifeInv, Sound
<1> DEFINE all == {g \in Goals : task[k].todo[g] > 0}
           u == [task[k] EXCEPT !.todo = NoQty]
<1>2. PICK placed \in SUBSET Goals :
        /\ target' = [g \in Goals |-> IF g \in placed
                                      THEN Placed(target[g], task[k].todo[g], g)
                                      ELSE target[g]]
        /\ trade' = [trade EXCEPT !.tps = placed]
        /\ IF placed # all THEN Fails(k)
           ELSE Becomes(k, u, IF task[k].prev = 0 THEN <<"verify">> ELSE <<"restop">>)
  <2>1. PICK n \in 0..MaxTargets :
          LET placed == {g \in all : g <= n} IN
          /\ target' = [g \in Goals |-> IF g \in placed
                                        THEN Placed(target[g], task[k].todo[g], g)
                                        ELSE target[g]]
          /\ trade' = [trade EXCEPT !.tps = placed]
          /\ IF placed # all THEN Fails(k)
             ELSE Becomes(k, u, IF task[k].prev = 0 THEN <<"verify">> ELSE <<"restop">>)
    BY Zenon DEF PlaceTargets
  <2>2. {g \in all : g <= n} \in SUBSET Goals
    OBVIOUS
  <2> HIDE DEF all, u
  <2>3. QED BY <2>1, <2>2
<1> HIDE DEF all
<1>3. ExchangeSound'
  <2>1. ASSUME NEW g \in Goals PROVE Placed(target[g], task[k].todo[g], g) \in OrderRecord
    <3>1. /\ target[g] \in OrderRecord /\ task[k].todo[g] \in 0..MaxQty
          /\ g \in 0..MaxTargets /\ 0 \in Nat
      BY <1>1 DEF LifeInv, ExchangeSound, TaskRecord, Goals
    <3>2. QED BY <3>1, OrdersKept
  <2>2. target' \in [Goals -> OrderRecord]
    BY <1>2, <2>1 DEF LifeInv, ExchangeSound
  <2>3. QED BY <2>2 DEF PlaceTargets, LifeInv, ExchangeSound
<1>4. Keeps(trade, trade') /\ trade'.sl = trade.sl
  <2>1. 0 \in {0} \union Slots
    OBVIOUS
  <2>2. QED BY <1>1, <1>2, <2>1, OrdersTracked
<1>5. u \in TaskRecord /\ u.prev = task[k].prev
  BY <1>1, LocalsKept DEF TaskRecord
<1> HIDE DEF u
<1>6. CASE placed # all
  BY <1>1, <1>2, <1>3, <1>4, <1>6, Failed
<1>7. CASE placed = all /\ task[k].prev = 0
  BY <1>1, <1>2, <1>3, <1>4, <1>5, <1>7, BecameVerify
<1>8. CASE placed = all /\ task[k].prev # 0
  <2>1. <<"restop">> \in Seq(Inner(trade'))
    BY InnerHas, Lists DEF Frees
  <2>2. Becomes(k, u, <<"restop">>)
    BY <1>2, <1>8
  <2>3. QED BY <1>1, <1>3, <1>4, <1>5, <2>1, <2>2, Became
<1>9. QED BY <1>6, <1>7, <1>8

\* What a query of the orders shows of the protection.
LEMMA RefreshedKeeps ==
  ASSUME LifeInv, NEW t, Sound(t), NEW sl \in {0} \union Slots
  PROVE  Keeps(t, Refreshed(t, sl))
<1>1. Resting(target) \in SUBSET Goals
  BY DEF LifeInv, ExchangeSound, Resting
<1>2. QED BY <1>1, OrdersTracked DEF Refreshed

\* The end of a protection sync.
LEMMA VerifyProtectionStep ==
  ASSUME LifeInv, NEW k \in Tasks, VerifyProtection(k)
  PROVE  Lives
<1>1. /\ Runs(k, "verify") /\ "verify" \in Labels /\ "verify" \in GuardedLabels
      /\ task[k] \in TaskRecord /\ Sound(trade) /\ trade \in TradeRecord
  BY LabelsKnown DEF VerifyProtection, GuardedLabels, LifeInv, Sound
<1> DEFINE prev == task[k].prev
<1>2. stop' \in [Slots -> OrderRecord]
  <2>1. stop \in [Slots -> OrderRecord] /\ prev \in {0} \union Slots
    BY <1>1 DEF LifeInv, ExchangeSound, TaskRecord
  <2>2. UNCHANGED stop \/ (prev # 0 /\ stop' = [stop EXCEPT ![prev] = Cancelled(@)])
    BY DEF VerifyProtection
  <2>3. CASE UNCHANGED stop
    BY <2>1, <2>3
  <2>4. CASE prev # 0 /\ stop' = [stop EXCEPT ![prev] = Cancelled(@)]
    <3>1. prev \in Slots
      BY <2>1, <2>4
    <3>2. Cancelled(stop[prev]) \in OrderRecord
      BY <2>1, <3>1, OrdersEnd
    <3>3. stop' = [stop EXCEPT ![prev] = Cancelled(stop[prev])]
      BY <2>1, <2>4, <3>1
    <3> HIDE DEF prev
    <3>4. QED BY <2>1, <3>1, <3>2, <3>3
  <2>5. QED BY <2>2, <2>3, <2>4
<1>3. ExchangeSound'
  BY <1>2 DEF VerifyProtection, LifeInv, ExchangeSound
<1>4. CASE Fails(k) /\ UNCHANGED trade
  BY <1>1, <1>3, <1>4, TradeUnchanged, Failed
<1>5. ASSUME NEW sl \in StopsShown(stop', trade.sl),
             LET t == Refreshed(trade, sl) IN
             IF Protected(t)
             THEN /\ trade' = [t EXCEPT !.deferred = FALSE,
                                        !.issues = @ \ {"protection"}]
                  /\ Return(k, TRUE)
             ELSE trade' = t /\ Fails(k)
      PROVE  Lives
  <2> DEFINE t == Refreshed(trade, sl)
             u == [t EXCEPT !.deferred = FALSE]
             i == u.issues \ {"protection"}
  <2>1. Keeps(trade, t)
    <3>1. trade.sl \in {0} \union Slots
      BY <1>1 DEF TradeRecord
    <3>2. sl \in {0} \union Slots
      BY <1>2, <3>1, StopsShownAre
    <3>3. QED BY <1>1, <3>2, RefreshedKeeps
  <2>2. CASE Protected(t)
    <3>1. trade' = [t EXCEPT !.deferred = FALSE, !.issues = @ \ {"protection"}]
      BY <1>5, <2>2
    <3> HIDE DEF t
    <3>2. Keeps(t, u) /\ t \in TradeRecord
      BY <2>1, QuietOnes DEF Keeps, Sound, Quiet
    <3>3. i \in SUBSET Issues
      BY <3>2 DEF Keeps, Sound, TradeRecord
    <3>4. trade' = [u EXCEPT !.issues = i]
      BY <3>1, <3>2 DEF TradeRecord
    <3> HIDE DEF u, i
    <3>5. Keeps(u, trade')
      BY <3>2, <3>3, <3>4, IssuesKept DEF Keeps, Quiet
    <3>6. Keeps(trade, trade')
      BY <1>1, <2>1, <3>2, <3>5, KeepsIsTransitive
    <3>7. Return(k, TRUE)
      BY <1>5, <2>2 DEF t
    <3>8. QED BY <1>1, <1>3, <3>6, <3>7, Returned
  <2>3. CASE ~Protected(t)
    <3>1. trade' = t /\ Fails(k)
      BY <1>5, <2>3
    <3> HIDE DEF t
    <3>2. QED BY <1>1, <1>3, <2>1, <3>1, Failed
  <2>4. QED BY <2>2, <2>3
<1>6. QED BY <1>4, <1>5 DEF VerifyProtection

\* An attempt that failed.
LEMMA ProtectionFailedStep ==
  ASSUME LifeInv, NEW k \in Tasks, ProtectionFailed(k)
  PROVE  Lives
<1>1. /\ Runs(k, "failed") /\ "failed" \in Labels /\ "failed" \in GuardedLabels
      /\ task[k] \in TaskRecord /\ Sound(trade) /\ trade \in TradeRecord
  BY LabelsKnown DEF ProtectionFailed, Frees, GuardedLabels, LifeInv, Sound
<1>2. ExchangeSound'
  BY ExchangeUnchanged DEF ProtectionFailed
<1>3. Keeps(trade, trade')
  <2>1. CASE UNCHANGED trade
    BY <2>1, TradeUnchanged
  <2>2. CASE \E sl \in StopsShown(stop, trade.sl) : trade' = Refreshed(trade, sl)
    <3>1. PICK sl \in StopsShown(stop, trade.sl) : trade' = Refreshed(trade, sl)
      BY <2>2
    <3>2. sl \in {0} \union Slots
      BY <1>1, StopsShownAre DEF LifeInv, ExchangeSound, TradeRecord
    <3>3. QED BY <1>1, <3>1, <3>2, RefreshedKeeps
  <2>3. QED BY <2>1, <2>2 DEF ProtectionFailed
<1>4. CASE Return(k, TRUE)
  BY <1>1, <1>2, <1>3, <1>4, Returned
<1> DEFINE again == [task[k] EXCEPT !.tries = @ + 1]
           over == [task[k] EXCEPT !.tries = 0, !.ok = FALSE]
<1>5. (task[k].tries + 1 < Attempts => again \in TaskRecord) /\ over \in TaskRecord
  <2>1. /\ task[k].tries + 1 < Attempts => task[k].tries + 1 \in 0..(Attempts - 1)
        /\ 0 \in 0..(Attempts - 1)
    BY <1>1 DEF TaskRecord
  <2>2. QED BY <1>1, <2>1 DEF TaskRecord
<1>6. <<"plan">> \in Seq(Inner(trade')) /\ <<>> \in Seq(Inner(trade'))
  BY InnerHas, Lists DEF Frees
<1> HIDE DEF again, over
<1>7. CASE task[k].tries + 1 < Attempts /\ Becomes(k, again, <<"plan">>)
  BY <1>1, <1>2, <1>3, <1>5, <1>6, <1>7, Became
<1>8. CASE Becomes(k, over, <<>>)
  BY <1>1, <1>2, <1>3, <1>5, <1>6, <1>8, Became
<1>9. QED BY <1>4, <1>7, <1>8 DEF ProtectionFailed, again, over

\* What could not be protected is flattened.
LEMMA EnforcedStep ==
  ASSUME LifeInv, NEW k \in Tasks, Enforced(k)
  PROVE  Lives
<1>1. Runs(k, "enforced") /\ "enforced" \in Labels /\ "enforced" \in Sells
  BY LabelsKnown DEF Enforced, Sells
<1>2. ExchangeSound' /\ Keeps(trade, trade') /\ trade'.sl = trade.sl /\ Sound(trade)
  BY TradeUnchanged, ExchangeUnchanged DEF Enforced
<1>3. Filled(trade')
  <2>1. "enforced" \in Inner(trade)
    BY <1>1, LabelsKnown, Running
  <2>2. QED BY <1>1, <1>2, <2>1, InnerHas, FilledStays DEF Sound
<1>4. CASE Return(k, TRUE)
  BY <1>1, <1>2, <1>4, Returned
<1>5. CASE Taken(k, <<"close", "flattened">>)
  <2>1. "close" \in Inner(trade') /\ "flattened" \in Inner(trade')
    BY <1>3, InnerHas DEF Frees, Sells
  <2>2. <<"close", "flattened">> \in Seq(Inner(trade'))
    BY <2>1, Lists
  <2>3. QED BY <1>1, <1>2, <1>5, <2>2, TookOver
<1>6. QED BY <1>4, <1>5 DEF Enforced

\* After the flattening.
LEMMA FlattenedStep ==
  ASSUME LifeInv, NEW k \in Tasks, Flattened(k)
  PROVE  Lives
<1>1. Runs(k, "flattened") /\ "flattened" \in Labels /\ Sound(trade)
  BY LabelsKnown DEF Flattened, Frees, LifeInv
<1>2. Keeps(trade, trade') /\ trade'.sl = trade.sl
  BY <1>1, QuietOnes DEF Flattened, Quiet
<1>3. ExchangeSound'
  BY ExchangeUnchanged DEF Flattened
<1>4. Taken(k, <<>>) /\ <<>> \in Seq(Inner(trade'))
  BY Lists DEF Flattened
<1>5. QED BY <1>1, <1>2, <1>3, <1>4, TookOver

\* The cancellations before a closing order.
LEMMA StartCloseStep ==
  ASSUME LifeInv, NEW k \in Tasks,
         StartClose(k, "close", "market") \/ StartClose(k, "halve", "slice")
  PROVE  Lives
<1>0. PICK label \in {"close", "halve"}, next \in {"market", "slice"} :
        StartClose(k, label, next)
  OBVIOUS
<1>1. /\ Runs(k, label) /\ label \in Labels /\ label \in GuardedLabels
      /\ label \in Sells /\ next \in Sells /\ task[k] \in TaskRecord
      /\ Sound(trade) /\ trade \in TradeRecord
  BY <1>0, LabelsKnown DEF StartClose, Sells, GuardedLabels, LifeInv, Sound
<1>2. PICK F \in Unanswered, G \in OneOf(Resting(target), CancelFails) :
        LET live == IF trade.ladder THEN Legs ELSE {} IN
        /\ IF trade.ladder THEN CancelLegs(trade, Legs, F)
           ELSE UNCHANGED <<leg, trade>> /\ F = {}
        /\ IF CancelConfirmed(trade, live, F)
           THEN /\ target' = [g \in Goals |-> IF g \in G THEN target[g]
                                              ELSE Cancelled(target[g])]
                /\ IF G = {} THEN Goto(k, <<next>>) ELSE Return(k, FALSE)
           ELSE UNCHANGED target /\ G = {} /\ Return(k, FALSE)
  BY <1>0, Zenon DEF StartClose
<1>3. /\ leg' \in [Legs -> LegRecord] /\ \A i \in Legs : leg'[i].got <= LegQty[i]
      /\ Keeps(trade, trade')
  <2>1. F \in SUBSET Legs
    BY DEF Unanswered, OneOf
  <2>2. CASE trade.ladder
    BY <1>1, <1>2, <2>1, <2>2, CancelKeeps DEF LifeInv
  <2>3. CASE ~trade.ladder
    BY <1>2, <2>3, TradeUnchanged DEF LifeInv, ExchangeSound
  <2>4. QED BY <2>2, <2>3
<1>4. target' \in [Goals -> OrderRecord]
  <2>1. \/ UNCHANGED target
        \/ target' = [g \in Goals |-> IF g \in G THEN target[g] ELSE Cancelled(target[g])]
    BY <1>2
  <2>2. QED BY <2>1, TargetsCancelled DEF LifeInv, ExchangeSound
<1>5. ExchangeSound'
  BY <1>0, <1>3, <1>4 DEF StartClose, LifeInv, ExchangeSound
<1>6. <<next>> \in Seq(Inner(trade'))
  <2>1. label \in Inner(trade)
    BY <1>1, LabelsKnown, Running
  <2>2. Filled(trade')
    BY <1>1, <1>3, <2>1, InnerHas, FilledStays
  <2>3. next \in Inner(trade')
    BY <1>1, <2>2, InnerHas
  <2>4. QED BY <2>3, Lists
<1>7. Goto(k, <<next>>) \/ Return(k, FALSE)
  BY <1>2
<1>8. QED BY <1>1, <1>3, <1>5, <1>6, <1>7, Gone, Returned

\* The cancellations before the close for a target.
LEMMA FreeTargetsStep ==
  ASSUME LifeInv, NEW k \in Tasks,
         FreeTargets(k, "free", "market") \/ FreeTargets(k, "shave", "slice")
  PROVE  Lives
<1>0. PICK label \in {"free", "shave"}, next \in {"market", "slice"} :
        FreeTargets(k, label, next)
  OBVIOUS
<1>1. /\ Runs(k, label) /\ label \in Labels /\ label \in GuardedLabels
      /\ label \in Sells /\ next \in Sells /\ Sound(trade) /\ trade \in TradeRecord
  BY <1>0, LabelsKnown DEF FreeTargets, Sells, GuardedLabels, LifeInv, Sound
<1>2. PICK G \in OneOf(Resting(target), CancelFails) :
        /\ target' = [g \in Goals |-> IF g \in G THEN target[g] ELSE Cancelled(target[g])]
        /\ IF G = {} THEN Goto(k, <<next>>) ELSE Return(k, FALSE)
  BY <1>0 DEF FreeTargets
<1>3. Keeps(trade, trade')
  BY <1>0, TradeUnchanged DEF FreeTargets
<1>4. ExchangeSound'
  <2>1. target' \in [Goals -> OrderRecord]
    BY <1>2, TargetsCancelled DEF LifeInv
  <2>2. QED BY <1>0, <2>1 DEF FreeTargets, LifeInv, ExchangeSound
<1>5. <<next>> \in Seq(Inner(trade'))
  <2>1. label \in Inner(trade)
    BY <1>1, LabelsKnown, Running
  <2>2. Filled(trade')
    BY <1>1, <1>3, <2>1, InnerHas, FilledStays
  <2>3. next \in Inner(trade')
    BY <1>1, <2>2, InnerHas
  <2>4. QED BY <2>3, Lists
<1>6. QED BY <1>1, <1>2, <1>3, <1>4, <1>5, Gone, Returned

\* The end of a close that executed.
LEMMA RefreshStep ==
  ASSUME LifeInv, NEW k \in Tasks, NEW label \in GuardedLabels, Runs(k, label), Refresh(k),
         Keeps(trade, trade'), ExchangeSound'
  PROVE  Lives
<1> DEFINE t == [task[k] EXCEPT !.ok = TRUE, !.prev = 0, !.todo = NoQty]
<1>1. t \in TaskRecord /\ label \in Labels
  BY LocalsKept DEF LifeInv, Labels
<1>2. "refresh" \in Inner(trade') /\ "rearm" \in Inner(trade')
  BY InnerHas DEF Frees
<1>3. <<"refresh", "rearm">> \in Seq(Inner(trade'))
  BY <1>2, Lists
<1>4. Becomes(k, t, <<"refresh", "rearm">>)
  BY DEF Refresh
<1> HIDE DEF t
<1>5. QED BY <1>1, <1>3, <1>4, Became

\* A close that is refused, or not answered.
LEMMA NotClosedStep ==
  ASSUME LifeInv, NEW k \in Tasks, NEW label \in GuardedLabels, Runs(k, label),
         NEW asked \in Nat, CloseRefused(k, asked) \/ CloseUnanswered(k, asked),
         UNCHANGED <<leg, target>>
  PROVE  Lives
<1>1. label \in Labels /\ FALSE \in BOOLEAN
  BY DEF Labels
<1>2. Keeps(trade, trade') /\ Return(k, FALSE)
  BY TradeUnchanged DEF CloseRefused, CloseUnanswered
<1>3. /\ loose' \in [executed : Nat, claimed : Nat] /\ position' \in Nat
      /\ UNCHANGED stop
  <2> DEFINE n == Lesser(asked, position)
  <2>1. /\ loose \in [executed : Nat, claimed : Nat] /\ position \in Nat
        /\ n \in Nat /\ position - n \in Nat
    BY DEF LifeInv, ExchangeSound, Lesser
  <2>2. CASE CloseRefused(k, asked)
    BY <2>1, <2>2 DEF CloseRefused
  <2>3. CASE CloseUnanswered(k, asked)
    <3>1. loose' = [loose EXCEPT !.executed = @ + n] /\ position' = position - n
      BY <2>3 DEF CloseUnanswered
    <3> HIDE DEF n
    <3>2. QED BY <2>1, <2>3, <3>1 DEF CloseUnanswered
  <2>4. QED BY <2>2, <2>3
<1>4. ExchangeSound'
  BY <1>3 DEF LifeInv, ExchangeSound
<1>5. QED BY <1>1, <1>2, <1>4, Returned

\* The closing order.
LEMMA CloseAtMarketStep ==
  ASSUME LifeInv, NEW k \in Tasks, CloseAtMarket(k)
  PROVE  Lives
<1>1. /\ Runs(k, "market") /\ "market" \in Labels /\ "market" \in GuardedLabels
      /\ "market" \in Sells /\ Sound(trade) /\ trade \in TradeRecord
      /\ trade.remaining \in Nat
  BY LabelsKnown DEF CloseAtMarket, Sells, GuardedLabels, LifeInv, Sound, TradeRecord
<1>2. Filled(trade)
  <2>1. "market" \in Inner(trade)
    BY <1>1, LabelsKnown, Running
  <2>2. QED BY <1>1, <2>1, InnerHas
<1>3. CASE CloseRefused(k, trade.remaining) \/ CloseUnanswered(k, trade.remaining)
  BY <1>1, <1>3, NotClosedStep DEF CloseAtMarket
<1>4. ASSUME NEW left \in Leftovers, NEW F, trade.remaining > 0, position' = left,
             LET t == ClosedBy(trade, Greater(0, trade.remaining - left)) IN
             IF IsOpen(t) \/ trade.sl = 0
             THEN F = {} /\ trade' = t /\ UNCHANGED stop
             ELSE /\ trade' = [t EXCEPT !.sl = 0]
                  /\ stop' = [s \in Slots |-> IF s \in F THEN stop[s]
                                              ELSE Cancelled(stop[s])],
             UNCHANGED loose, Refresh(k)
      PROVE  Lives
  <2> DEFINE n == Greater(0, trade.remaining - left)
             t == ClosedBy(trade, n)
  <2>1. left \in Nat /\ n \in Nat /\ n <= trade.remaining
    BY <1>1, <1>4 DEF LifeInv, ExchangeSound, Leftovers, Greater
  <2>2. Keeps(trade, t)
    <3> HIDE DEF n
    <3>1. QED BY <1>1, <1>2, <2>1, ClosedByKeeps
  <2>3. trade' = t \/ trade' = [t EXCEPT !.sl = 0]
    BY <1>4
  <2> HIDE DEF t
  <2>4. Keeps(trade, trade')
    <3>1. 0 \in {0} \union Slots /\ {} \in SUBSET Goals
      OBVIOUS
    <3>2. Keeps(t, [t EXCEPT !.sl = 0])
      BY <2>2, <3>1, OrdersTracked DEF Keeps
    <3>3. QED BY <1>1, <2>2, <2>3, <3>2, KeepsIsTransitive
  <2>5. stop' \in [Slots -> OrderRecord]
    <3>1. \/ UNCHANGED stop
          \/ stop' = [s \in Slots |-> IF s \in F THEN stop[s] ELSE Cancelled(stop[s])]
      BY <1>4
    <3>2. ASSUME NEW s \in Slots PROVE Cancelled(stop[s]) \in OrderRecord
      BY OrdersEnd DEF LifeInv, ExchangeSound
    <3>3. QED BY <3>1, <3>2 DEF LifeInv, ExchangeSound
  <2>6. ExchangeSound'
    BY <1>4, <2>1, <2>5 DEF CloseAtMarket, LifeInv, ExchangeSound
  <2>7. QED BY <1>1, <1>4, <2>4, <2>6, RefreshStep
<1>5. QED BY <1>3, <1>4 DEF CloseAtMarket

\* The order that closes a part.
LEMMA CloseHalfStep ==
  ASSUME LifeInv, NEW k \in Tasks, CloseHalf(k)
  PROVE  Lives
<1> DEFINE asked == trade.remaining \div 2
           n == Lesser(asked, position)
<1>1. /\ Runs(k, "slice") /\ "slice" \in Labels /\ "slice" \in GuardedLabels
      /\ "slice" \in Sells /\ Sound(trade) /\ trade \in TradeRecord
  BY LabelsKnown DEF CloseHalf, Sells, GuardedLabels, LifeInv, Sound
<1>2. Filled(trade)
  <2>1. "slice" \in Inner(trade)
    BY <1>1, LabelsKnown, Running
  <2>2. QED BY <1>1, <2>1, InnerHas
<1>3. /\ trade.remaining \in Nat /\ asked \in Nat /\ position \in Nat
      /\ asked > 0 => asked <= trade.remaining
  BY <1>1 DEF TradeRecord, LifeInv, ExchangeSound
<1>4. CASE CloseRefused(k, asked) \/ CloseUnanswered(k, asked)
  BY <1>1, <1>3, <1>4, NotClosedStep DEF CloseHalf
<1>5. ASSUME asked > 0, position > 0, position' = position - n,
             trade' = ClosedBy(trade, n), UNCHANGED <<stop, loose>>, Refresh(k)
      PROVE  Lives
  <2>1. n \in Nat /\ n <= trade.remaining /\ position - n \in Nat
    BY <1>3, <1>5 DEF Lesser
  <2> HIDE DEF n
  <2>2. Keeps(trade, trade')
    BY <1>1, <1>2, <1>5, <2>1, ClosedByKeeps
  <2>3. ExchangeSound'
    BY <1>5, <2>1 DEF CloseHalf, LifeInv, ExchangeSound
  <2>4. QED BY <1>1, <1>5, <2>2, <2>3, RefreshStep
<1>6. QED BY <1>4, <1>5 DEF CloseHalf

\* The protection of what a close has left.
LEMMA RearmStep ==
  ASSUME LifeInv, NEW k \in Tasks, Rearm(k) \/ Rearmed(k)
  PROVE  Lives
<1>1. ExchangeSound' /\ Keeps(trade, trade') /\ trade'.sl = trade.sl
  BY TradeUnchanged, ExchangeUnchanged DEF Rearm, Rearmed
<1>2. /\ "rearm" \in Labels /\ "rearmed" \in Labels /\ task[k].ok \in BOOLEAN
      /\ "plan" \in Inner(trade') /\ "rearmed" \in Inner(trade')
  BY LabelsKnown, InnerHas DEF Frees, LifeInv, TaskRecord
<1>3. <<"plan", "rearmed">> \in Seq(Inner(trade'))
  BY <1>2, Lists
<1>4. CASE Rearm(k)
  BY <1>1, <1>2, <1>3, <1>4, Gone, Returned DEF Rearm
<1>5. CASE Rearmed(k)
  BY <1>1, <1>2, <1>5, Returned DEF Rearmed
<1>6. QED BY <1>4, <1>5

\* Every step of a routine keeps the invariant.
LEMMA RoutinesKeep ==
  ASSUME LifeInv, NEW k \in Tasks, RoutineStep(k)
  PROVE  Lives
BY PlanProtectionStep, SubmitStopStep, PlaceTargetsStep, VerifyProtectionStep,
   ProtectionFailedStep, EnforcedStep, FlattenedStep, CloseAtMarketStep, CloseHalfStep,
   RearmStep, StartCloseStep, FreeTargetsStep DEF RoutineStep

-----------------------------------------------------------------------------
(* Entries that wait.                                                      *)

\* A trade that has something can be protected and flattened.
LEMMA EnforceFits ==
  ASSUME NEW t, Filled(t)
  PROVE  Enforce \in Seq(Inner(t))
<1>1. "plan" \in Inner(t) /\ "enforced" \in Inner(t)
  BY InnerHas DEF Frees, Sells
<1>2. QED BY <1>1, Lists DEF Enforce

\* An activated entry whose protection failed is flattened.
LEMMA ActivatedStep ==
  ASSUME LifeInv, NEW k \in Tasks, Activated(k)
  PROVE  Lives
<1>1. Runs(k, "activated") /\ "activated" \in Labels /\ "activated" \in Singles
  BY LabelsKnown DEF Activated, Singles
<1>2. ExchangeSound' /\ Keeps(trade, trade') /\ trade'.sl = trade.sl /\ UNCHANGED trade
  BY TradeUnchanged, ExchangeUnchanged DEF Activated
<1>3. ~trade'.ladder /\ Filled(trade')
  BY <1>1, <1>2, LabelsKnown, Running, InnerHas
<1>4. "close" \in Inner(trade') /\ "undone" \in Inner(trade')
  BY <1>3, InnerHas DEF Sells, Singles
<1>5. (IF task[k].ok THEN <<>> ELSE <<"close", "undone">>) \in Seq(Inner(trade'))
  BY <1>4, Lists
<1>6. QED BY <1>1, <1>2, <1>5, TookOver DEF Activated

\* The failure of an activation reaches its caller.
LEMMA UndoneStep ==
  ASSUME LifeInv, NEW k \in Tasks, Undone(k)
  PROVE  Lives
<1>1. /\ Runs(k, "undone") /\ "undone" \in Labels /\ "undone" \in Singles
      /\ Sound(trade) /\ trade \in TradeRecord
  BY LabelsKnown DEF Undone, Singles, LifeInv, Sound
<1>2. Filled(trade)
  BY <1>1, LabelsKnown, Running, InnerHas
<1> DEFINE u == [trade EXCEPT !.status = "closed", !.reason = "failed"]
<1>3. u \in TradeRecord /\ u.sl = trade.sl /\ u.status = "closed" /\ SameLedger(trade, u)
  <2>1. "failed" \in {None} \union Reasons
    BY Names
  <2>2. u \in TradeRecord
    BY <1>1, <2>1, Zenon DEF TradeRecord
  <2>3. u.reason # None
    BY <1>1, Names DEF TradeRecord
  <2>4. QED BY <1>1, <2>2, <2>3 DEF TradeRecord, SameLedger
<1>4. Keeps(trade, u)
  <2> HIDE DEF u
  <2>1. QED BY <1>1, <1>2, <1>3, LedgerKept
<1>5. Keeps(trade, trade') /\ trade'.sl = trade.sl
  BY <1>1, <1>3, <1>4, QuietOnes DEF Undone, Quiet
<1>6. ExchangeSound' /\ Abort(k)
  BY ExchangeUnchanged DEF Undone
<1>7. QED BY <1>1, <1>5, <1>6, Aborted

\* The ladder ends unfilled, or legs are cancelled.
LEMMA LadderEnds ==
  ASSUME LifeInv, NEW k \in Tasks, NEW label \in Labels, Runs(k, label),
         UNCHANGED <<target, stop, loose, position>>,
         NEW F \in Unanswered, EndsUnfilled(trade, Legs, F, "unfilled"), Abort(k)
  PROVE  Lives
<1>1. /\ leg' \in [Legs -> LegRecord] /\ \A i \in Legs : leg'[i].got <= LegQty[i]
      /\ Keeps(trade, trade') /\ trade'.sl = trade.sl
  BY EndsKeeps, Names DEF LifeInv
<1>2. ExchangeSound'
  BY <1>1 DEF LifeInv, ExchangeSound
<1>3. QED BY <1>1, <1>2, Aborted

\* Legs of the ladder are cancelled.
LEMMA LadderCancels ==
  ASSUME LifeInv, trade.ladder, NEW I \in SUBSET Legs, NEW F \in Unanswered, CancelLegs(trade, I, F),
         UNCHANGED <<target, stop, loose, position>>
  PROVE  /\ ExchangeSound' /\ Keeps(trade, trade') /\ trade'.sl = trade.sl
         /\ Added(trade, trade') > 0 => Filled(trade')
<1>1. F \in SUBSET Legs
  BY DEF Unanswered, OneOf
<1>2. /\ leg' \in [Legs -> LegRecord] /\ \A i \in Legs : leg'[i].got <= LegQty[i]
      /\ Keeps(trade, trade') /\ trade'.sl = trade.sl
      /\ Added(trade, trade') > 0 => Filled(trade')
  BY <1>1, CancelKeeps DEF LifeInv
<1>3. ExchangeSound'
  BY <1>2 DEF LifeInv, ExchangeSound
<1>4. QED BY <1>2, <1>3

\* A ladder whose time is over.
LEMMA ExpireStep ==
  ASSUME LifeInv, NEW k \in Tasks, Expire(k)
  PROVE  Lives
<1>1. /\ Runs(k, "expire") /\ "expire" \in Labels
      /\ UNCHANGED <<target, stop, loose, position>> /\ trade.ladder
  <2>1. Runs(k, "expire") /\ "expire" \in Labels /\ "expire" \in Ladders
    BY LabelsKnown DEF Expire, Ladders
  <2>2. trade.ladder
    BY <2>1, LabelsKnown, Running, InnerHas
  <2>3. QED BY <2>1, <2>2 DEF Expire
<1>2. CASE \E F \in Unanswered : EndsUnfilled(trade, Legs, F, "unfilled") /\ Abort(k)
  BY <1>1, <1>2, LadderEnds
<1>3. ASSUME NEW F \in Unanswered, CancelLegs(trade, Legs, F),
             IF ~CancelConfirmed(trade, Legs, F) THEN Abort(k)
             ELSE /\ trade'.entered > 0
                  /\ Goto(k, (IF Added(trade, trade') > 0 THEN Enforce ELSE <<>>)
                             \o <<"expired">>)
      PROVE  Lives
  <2>1. /\ ExchangeSound' /\ Keeps(trade, trade') /\ trade'.sl = trade.sl
        /\ Added(trade, trade') > 0 => Filled(trade')
    BY <1>1, <1>3, LadderCancels
  <2>2. (IF Added(trade, trade') > 0 THEN Enforce ELSE <<>>) \o <<"expired">>
          \in Seq(Inner(trade'))
    <3>1. <<"expired">> \in Seq(Inner(trade'))
      BY <1>1, <2>1, InnerHas, Lists DEF Ladders, Keeps, Grows, Records
    <3>2. (IF Added(trade, trade') > 0 THEN Enforce ELSE <<>>) \in Seq(Inner(trade'))
      BY <2>1, EnforceFits, Lists
    <3>3. QED BY <3>1, <3>2, ConcatProperties
  <2>3. CASE Abort(k)
    BY <1>1, <2>1, <2>3, Aborted
  <2>4. CASE Goto(k, (IF Added(trade, trade') > 0 THEN Enforce ELSE <<>>) \o <<"expired">>)
    BY <1>1, <2>1, <2>2, <2>4, Gone
  <2>5. QED BY <1>3, <2>3, <2>4
<1>4. QED BY <1>2, <1>3 DEF Expire

\* The rest of a ladder whose time is over.
LEMMA ExpiredStep ==
  ASSUME LifeInv, NEW k \in Tasks, Expired(k)
  PROVE  Lives
<1>1. /\ Runs(k, "expired") /\ "expired" \in Labels /\ Goto(k, <<>>)
      /\ <<>> \in Seq(Inner(trade')) /\ FALSE \in BOOLEAN
  BY LabelsKnown, Lists DEF Expired, Ladders
<1>2. Keeps(trade, trade') /\ trade'.sl = trade.sl
  BY QuietOnes DEF Expired, LifeInv, Quiet
<1>3. ExchangeSound'
  BY ExchangeUnchanged DEF Expired
<1>4. QED BY <1>1, <1>2, <1>3, Gone

\* A single order is taken for a position; the exchange keeps its orders.
LEMMA StopFillingKeeps ==
  ASSUME LifeInv, UNCHANGED <<target, stop, loose, position>>, StopFilling \/ UNCHANGED leg
  PROVE  ExchangeSound'
<1>1. 2 \in Legs /\ leg[2] \in LegRecord
  BY DEF Legs, LifeInv, ExchangeSound
<1>2. Stopped(leg[2]) \in LegRecord /\ Stopped(leg[2]).got = leg[2].got
  BY <1>1, LegStopped
<1>3. leg' = [leg EXCEPT ![2] = Stopped(leg[2])] \/ UNCHANGED leg
  BY <1>1 DEF StopFilling, LifeInv, ExchangeSound
<1>4. leg' \in [Legs -> LegRecord] /\ \A i \in Legs : leg'[i].got <= LegQty[i]
  BY <1>1, <1>2, <1>3 DEF LifeInv, ExchangeSound
<1>5. QED BY <1>4 DEF LifeInv, ExchangeSound

\* A single order that ended without a fill.
LEMMA SingleUnfilled ==
  ASSUME LifeInv, ~trade.ladder, trade' = Unfilled(trade)
  PROVE  Keeps(trade, trade') /\ trade'.sl = trade.sl
BY UnfilledKeeps DEF LifeInv

\* What a single order has brought in stays when it is stopped.
LEMMA StoppedHas ==
  ASSUME LifeInv, StopFilling \/ UNCHANGED leg
  PROVE  leg[2].got <= leg'[2].got
<1>1. leg \in [Legs -> LegRecord] /\ 2 \in Legs
  BY DEF LifeInv, ExchangeSound, Legs
<1>2. leg[2].got \in 0..2 /\ Stopped(leg[2]).got = leg[2].got
  BY <1>1 DEF LegRecord, Stopped
<1>3. leg'[2] \in {leg[2], Stopped(leg[2])}
  BY <1>1 DEF StopFilling
<1>4. QED BY <1>2, <1>3

\* A single order that has become a position.
LEMMA SingleEntered ==
  ASSUME LifeInv, ~trade.ladder, NEW n \in 1..2, n <= leg'[2].got,
         trade' = WithEntry(trade, n), Enters
  PROVE  /\ Keeps(trade, trade') /\ trade'.sl = trade.sl /\ ~trade'.ladder
         /\ Filled(trade')
BY EntryKeeps DEF LifeInv, Keeps, Grows, Records

\* The cancellation of an entry that waits.
LEMMA CancelWaitingStep ==
  ASSUME LifeInv, NEW k \in Tasks, CancelWaiting(k)
  PROVE  Lives
<1>1. /\ Runs(k, "cancel") /\ "cancel" \in Labels
      /\ UNCHANGED <<target, stop, loose, position>>
  BY LabelsKnown DEF CancelWaiting, Frees
<1>2. CASE \E F \in Unanswered : EndsUnfilled(trade, Legs, F, "unfilled") /\ Abort(k)
  BY <1>1, <1>2, LadderEnds
<1>3. ASSUME trade.ladder, NEW F \in Unanswered, CancelLegs(trade, Legs, F),
             IF ~CancelConfirmed(trade, Legs, F) THEN Abort(k)
             ELSE trade'.entered > 0 /\ Goto(k, <<"close", "closed">>)
      PROVE  Lives
  <2>1. ExchangeSound' /\ Keeps(trade, trade') /\ trade'.sl = trade.sl
    BY <1>1, <1>3, LadderCancels
  <2>2. CASE Abort(k)
    BY <1>1, <2>1, <2>2, Aborted
  <2>3. CASE trade'.entered > 0 /\ Goto(k, <<"close", "closed">>)
    <3>1. "close" \in Inner(trade') /\ "closed" \in Inner(trade')
      BY <2>3, InnerHas DEF Frees, Sells, Filled
    <3>2. <<"close", "closed">> \in Seq(Inner(trade'))
      BY <3>1, Lists
    <3>3. QED BY <1>1, <2>1, <2>3, <3>2, Gone
  <2>4. QED BY <1>3, <2>2, <2>3
<1>4. CASE UNCHANGED <<leg, trade>> /\ Abort(k)
  <2>1. ExchangeSound' /\ Keeps(trade, trade') /\ trade'.sl = trade.sl
    BY <1>1, <1>4, TradeUnchanged, ExchangeUnchanged DEF exchange
  <2>2. QED BY <1>1, <1>4, <2>1, Aborted
<1>5. ASSUME ~trade.ladder, StopFilling, trade' = Unfilled(trade), Abort(k)
      PROVE  Lives
  <2>1. ExchangeSound'
    BY <1>1, <1>5, StopFillingKeeps
  <2>2. QED BY <1>1, <1>5, <2>1, SingleUnfilled, Aborted
<1>6. ASSUME ~trade.ladder, StopFilling, leg[2].got # 0, trade' = WithEntry(trade, leg[2].got),
             Goto(k, <<"plan", "activated", "close", "closed">>)
      PROVE  Lives
  <2>1. ExchangeSound'
    BY <1>1, <1>6, StopFillingKeeps
  <2>2. leg[2].got \in 1..2
    <3>1. leg[2].got \in 0..2
      BY DEF LifeInv, ExchangeSound, LegRecord, Legs
    <3>2. QED BY <1>6, <3>1
  <2>l. leg[2].got <= leg'[2].got
    BY <1>6, StoppedHas
  <2>e. Enters
    BY <1>6, Zenon DEF Enters
  <2>3. Keeps(trade, trade') /\ trade'.sl = trade.sl /\ ~trade'.ladder /\ Filled(trade')
    BY <1>6, <2>2, <2>l, <2>e, SingleEntered
  <2>4. {"plan", "activated", "close", "closed"} \subseteq Inner(trade')
    BY <2>3, InnerHas DEF Frees, Sells, Singles
  <2>5. <<"plan", "activated", "close", "closed">> \in Seq(Inner(trade'))
    BY <2>4, Lists
  <2>6. QED BY <1>1, <1>6, <2>1, <2>3, <2>5, Gone
<1>7. QED BY <1>2, <1>3, <1>4, <1>5, <1>6 DEF CancelWaiting

\* The end of a close by message.
LEMMA ClosedStep ==
  ASSUME LifeInv, NEW k \in Tasks, Closed(k)
  PROVE  Lives
<1>1. Runs(k, "closed") /\ "closed" \in Labels /\ <<>> \in Seq(Inner(trade'))
  BY LabelsKnown, Lists DEF Closed, Frees
<1>2. Keeps(trade, trade') /\ trade'.sl = trade.sl
  <2>1. Sound(trade) /\ (trade' = Finalized(trade) \/ trade' = trade)
    BY DEF Closed, LifeInv
  <2>2. QED BY <2>1, QuietOnes DEF Quiet
<1>3. ExchangeSound'
  BY ExchangeUnchanged DEF Closed
<1>4. Taken(k, <<>>) \/ Abort(k)
  BY DEF Closed
<1>5. QED BY <1>1, <1>2, <1>3, <1>4, TookOver, Aborted

\* Legs the policy retires.
LEMMA ApplyPolicyStep ==
  ASSUME LifeInv, NEW k \in Tasks, ApplyPolicy(k)
  PROVE  Lives
<1>1. /\ Runs(k, "policy") /\ "policy" \in Labels
      /\ UNCHANGED <<target, stop, loose, position>> /\ trade.ladder
  <2>1. Runs(k, "policy") /\ "policy" \in Labels /\ "policy" \in Ladders
    BY LabelsKnown DEF ApplyPolicy, Ladders
  <2>2. trade.ladder
    BY <2>1, LabelsKnown, Running, InnerHas
  <2>3. QED BY <2>1, <2>2 DEF ApplyPolicy
<1>2. CASE UNCHANGED <<leg, trade>> /\ Goto(k, <<>>)
  <2>1. ExchangeSound' /\ Keeps(trade, trade') /\ trade'.sl = trade.sl
    BY <1>1, <1>2, TradeUnchanged, ExchangeUnchanged DEF exchange
  <2>2. <<>> \in Seq(Inner(trade'))
    BY Lists
  <2>3. QED BY <1>1, <1>2, <2>1, <2>2, Gone
<1>3. ASSUME NEW I, I = RetiredLegs(trade, trade.hits) \cap Pending(trade),
             NEW F \in Unanswered, CancelLegs(trade, I, F),
             IF ~CancelConfirmed(trade, I, F) THEN Abort(k)
             ELSE Goto(k, IF Added(trade, trade') > 0
                          THEN Enforce \o <<"policy">> ELSE <<>>)
      PROVE  Lives
  <2>1. I \in SUBSET Legs
    BY <1>3 DEF Pending
  <2>2. /\ ExchangeSound' /\ Keeps(trade, trade') /\ trade'.sl = trade.sl
        /\ Added(trade, trade') > 0 => Filled(trade')
    BY <1>1, <1>3, <2>1, LadderCancels
  <2>3. (IF Added(trade, trade') > 0 THEN Enforce \o <<"policy">> ELSE <<>>)
          \in Seq(Inner(trade'))
    <3>1. <<"policy">> \in Seq(Inner(trade')) /\ <<>> \in Seq(Inner(trade'))
      BY <1>1, <2>2, InnerHas, Lists DEF Ladders, Keeps, Grows, Records
    <3>2. Added(trade, trade') > 0 => Enforce \o <<"policy">> \in Seq(Inner(trade'))
      BY <2>2, <3>1, EnforceFits, ConcatProperties
    <3>3. QED BY <3>1, <3>2
  <2>4. CASE Abort(k)
    BY <1>1, <2>2, <2>4, Aborted
  <2>5. CASE Goto(k, IF Added(trade, trade') > 0 THEN Enforce \o <<"policy">> ELSE <<>>)
    BY <1>1, <2>2, <2>3, <2>5, Gone
  <2>6. QED BY <1>3, <2>4, <2>5
<1>4. QED BY <1>2, <1>3 DEF ApplyPolicy

\* What a query of the single order leads to.
LEMMA EntryShownStep ==
  ASSUME LifeInv, NEW k \in Tasks, NEW label \in Labels, Runs(k, label), ~trade.ladder,
         UNCHANGED <<target, stop, loose, position>>, Enters,
         NEW v, NEW rest, rest = <<>> \/ rest = <<"holds">>, EntryShown(k, v, rest)
  PROVE  Lives
<1>1. ASSUME UNCHANGED trade, Abort(k) \/ Goto(k, <<"cancel">>),
             UNCHANGED leg
      PROVE  Lives
  <2>1. ExchangeSound' /\ Keeps(trade, trade') /\ trade'.sl = trade.sl
    BY <1>1, TradeUnchanged, ExchangeUnchanged DEF exchange
  <2>2. <<"cancel">> \in Seq(Inner(trade'))
    BY InnerHas, Lists DEF Frees
  <2>3. QED BY <1>1, <2>1, <2>2, Aborted, Gone
<1>2. ASSUME trade' = Unfilled(trade), UNCHANGED leg, Abort(k)
      PROVE  Lives
  <2>1. ExchangeSound'
    BY <1>2, StopFillingKeeps
  <2>2. QED BY <1>2, <2>1, SingleUnfilled, Aborted
<1>3. ASSUME StopFilling \/ UNCHANGED leg,
             \E n \in 1..leg[2].got : trade' = WithEntry(trade, n),
             Goto(k, <<"plan", "activated">> \o rest)
      PROVE  Lives
  <2>1. ExchangeSound'
    BY <1>3, StopFillingKeeps
  <2>2. PICK n \in 1..2 : n <= leg'[2].got /\ trade' = WithEntry(trade, n)
    <3>1. leg[2].got \in 0..2 /\ leg[2].got <= leg'[2].got
      BY <1>3, StoppedHas DEF LifeInv, ExchangeSound, LegRecord, Legs
    <3>2. /\ 1..leg[2].got \subseteq 1..2
          /\ \A n \in 1..leg[2].got : n <= leg'[2].got
      <4>1. leg'[2].got \in 0..2
        <5>1. leg' \in [Legs -> LegRecord]
          BY <2>1 DEF ExchangeSound
        <5>2. QED BY <5>1 DEF LegRecord, Legs
      <4>2. QED BY <3>1, <4>1
    <3>3. QED BY <1>3, <3>2
  <2>3. Keeps(trade, trade') /\ trade'.sl = trade.sl /\ ~trade'.ladder /\ Filled(trade')
    BY <2>2, SingleEntered
  <2>4. {"plan", "activated", "holds"} \subseteq Inner(trade')
    BY <2>3, InnerHas DEF Frees, Singles
  <2>5. <<"plan", "activated">> \in Seq(Inner(trade')) /\ rest \in Seq(Inner(trade'))
    BY <2>4, Lists
  <2>6. <<"plan", "activated">> \o rest \in Seq(Inner(trade'))
    BY <2>5, ConcatProperties
  <2>7. QED BY <1>3, <2>1, <2>3, <2>6, Gone
<1>4. QED BY <1>1, <1>2, <1>3 DEF EntryShown

-----------------------------------------------------------------------------
(* Snapshots.                                                              *)

\* A task that starts, or moves without leaving a label.
LEMMA Started ==
  ASSUME LifeInv, NEW k \in Tasks, NEW u \in TaskRecord, task' = [task EXCEPT ![k] = u],
         u.stack \in Seq(Inner(trade')),
         \A j \in Tasks : j # k /\ guard = j => guard' = j,
         UNCHANGED guard \/ guard' = k,
         Keeps(trade, trade'), ExchangeSound', trade'.sl = trade.sl
  PROVE  Lives
<1>1. "verify" \notin Inner(trade')
  BY InnerGrows DEF LifeInv, Sound
<1>2. ~Verifies(u.stack)
  BY <1>1 DEF Verifies
<1>3. guard' \in Tasks \union {None}
  BY DEF LifeInv
<1>4. QED BY <1>2, <1>3, Moved DEF StackFits

\* A task with another stack or other snapshots.
LEMMA FreshTask ==
  ASSUME NEW t \in TaskRecord, NEW s \in Seq(Labels), NEW v \in Seq(ViewRecord)
  PROVE  /\ [t EXCEPT !.stack = s] \in TaskRecord
         /\ [t EXCEPT !.views = v] \in TaskRecord
         /\ [t EXCEPT !.stack = s, !.views = v] \in TaskRecord
BY Zenon DEF TaskRecord

\* What is shown of the exchange.
LEMMA ViewsKnown ==
  ASSUME LifeInv
  PROVE  /\ NoView \in ViewRecord /\ PositionsRead \in ViewRecord
         /\ SingleShown \in ViewRecord
         /\ \A k \in Tasks : View(k) \in ViewRecord
         /\ [i \in Sent |-> leg[i]] \in LegsShownRecord
<1>1. /\ leg \in [Legs -> LegRecord] /\ position \in Nat
  BY DEF LifeInv, ExchangeSound
<1>2. NoView \in ViewRecord
  <2>1. <<>> \in LegsShownRecord
    <3>1. <<>> \in [{} -> LegRecord]
      OBVIOUS
    <3>2. {} \in SUBSET Legs
      OBVIOUS
    <3>3. QED BY <3>1, <3>2 DEF LegsShownRecord
  <2>2. NoQty \in [Goals -> Nat] /\ [s \in Slots |-> 0] \in [Slots -> Nat]
    BY DEF NoQty
  <2>3. QED BY <2>1, <2>2 DEF NoView, ViewRecord
<1>3. PositionsRead \in ViewRecord
  BY <1>1, <1>2 DEF PositionsRead, ViewRecord
<1>4. ASSUME NEW S \in SUBSET Legs PROVE [i \in S |-> leg[i]] \in LegsShownRecord
  <2>1. [i \in S |-> leg[i]] \in [S -> LegRecord]
    BY <1>1
  <2>2. QED BY <2>1 DEF LegsShownRecord
<1>5. SingleShown \in ViewRecord
  <2>1. {2} \in SUBSET Legs
    BY DEF Legs
  <2>2. [i \in {2} |-> leg[2]] = [i \in {2} |-> leg[i]]
    OBVIOUS
  <2>3. [i \in {2} |-> leg[2]] \in LegsShownRecord
    BY <1>4, <2>1, <2>2
  <2>4. QED BY <1>2, <2>3, Zenon DEF SingleShown, ViewRecord
<1>6. ASSUME NEW k \in Tasks PROVE View(k) \in ViewRecord
  <2>1. task[k].views \in Seq(ViewRecord)
    BY DEF LifeInv, TaskRecord
  <2>2. task[k].views # <<>> => Head(task[k].views) \in ViewRecord
    BY <2>1
  <2>3. QED BY <1>2, <2>2 DEF View
<1>7. [i \in Sent |-> leg[i]] \in LegsShownRecord
  <2>1. Sent \in SUBSET Legs
    BY DEF Sent, Plan, Legs
  <2>2. QED BY <1>4, <2>1
<1>8. QED BY <1>2, <1>3, <1>5, <1>6, <1>7

\* Another view in the place of the innermost.
LEMMA ViewingKept ==
  ASSUME LifeInv, NEW k \in Tasks, NEW v \in ViewRecord
  PROVE  Viewing(k, v) \in TaskRecord
<1> DEFINE views == task[k].views
           w == [views EXCEPT ![1] = v]
<1>1. task[k] \in TaskRecord /\ views \in Seq(ViewRecord)
  BY DEF LifeInv, TaskRecord
<1>2. w \in Seq(ViewRecord)
  <2>1. CASE views = <<>>
    <3>1. DOMAIN views = {}
      BY <2>1
    <3>2. w = views
      BY <2>1, <3>1
    <3>3. QED BY <1>1, <3>2
  <2>2. CASE views # <<>>
    <3>1. 1 \in 1..Len(views)
      BY <1>1, <2>2
    <3>2. QED BY <1>1, <3>1, ExceptSeq
  <2>3. QED BY <2>1, <2>2
<1>3. Viewing(k, v) = [task[k] EXCEPT !.views = w]
  BY <1>1 DEF Viewing, TaskRecord
<1> HIDE DEF w
<1>4. QED BY <1>1, <1>2, <1>3, Zenon DEF TaskRecord

\* The legs that were sent, as they are read.
LEMMA SentRead ==
  ASSUME LifeInv, UNCHANGED leg
  PROVE  LegsRead([i \in Sent |-> leg[i]])
<1>1. leg \in [Legs -> LegRecord] /\ Sent \subseteq Legs
  BY DEF LifeInv, ExchangeSound, Sent, Plan, Legs
<1>2. \A i \in Sent : leg[i].state # "none"
  BY DEF Sent
<1>3. ASSUME NEW i \in Sent
      PROVE  /\ leg[i].state \in {"rests", "filled", "gone"}
             /\ leg[i].got \in 0..2 /\ leg[i].got <= LegQty[i]
             /\ leg[i].got <= leg'[i].got
  <2>1. leg[i] \in LegRecord /\ leg[i].got <= LegQty[i] /\ leg'[i] = leg[i]
    BY <1>1 DEF LifeInv, ExchangeSound
  <2>2. QED BY <1>2, <2>1 DEF LegRecord, OrderStates
<1>4. QED BY <1>1, <1>3 DEF LegsRead

\* A ladder is recorded as it is read.
LEMMA LadderShownKeeps ==
  ASSUME LifeInv, trade.ladder, NEW v, LegsRead(v), LadderShown(v)
  PROVE  /\ Keeps(trade, trade') /\ trade'.sl = trade.sl
         /\ AfterLadder(v) \in Seq(Inner(trade'))
<1> DEFINE t == WithRangeFills(trade, v)
           over == LadderOver(v) /\ t.entered = 0 /\ t.owned
<1>1. trade \in TradeRecord /\ Sound(trade)
  BY DEF LifeInv, Sound
<1>2. /\ Keeps(trade, t) /\ t.sl = trade.sl
      /\ Added(trade, t) \in Int /\ (Added(trade, t) > 0 => Filled(t))
  BY <1>1, RangeFillsKeep
<1>3. trade' = IF over THEN Unfilled(t) ELSE t
  BY DEF LadderShown
<1>4. AfterLadder(v) = IF Added(trade, t) > 0 THEN Enforce \o <<"policy">> ELSE <<>>
  BY DEF AfterLadder
<1> HIDE DEF t
<1>5. ASSUME over PROVE /\ Keeps(trade, trade') /\ trade'.sl = trade.sl
                        /\ Added(trade, t) > 0 => Filled(trade')
  <2>1. t.ladder => t.entered = 0
    BY <1>5
  <2>2. Keeps(t, trade') /\ trade'.sl = t.sl
    BY <1>2, <1>3, <1>5, <2>1, UnfilledKeeps DEF Keeps
  <2>3. Keeps(trade, trade')
    BY <1>1, <1>2, <2>2, KeepsIsTransitive
  <2>4. Added(trade, t) > 0 => Filled(trade')
    BY <1>2, <2>2, FilledStays DEF Keeps, Sound
  <2>5. QED BY <1>2, <2>2, <2>3, <2>4
<1>6. ASSUME ~over PROVE /\ Keeps(trade, trade') /\ trade'.sl = trade.sl
                         /\ Added(trade, t) > 0 => Filled(trade')
  <2>1. trade' = t
    BY <1>3, <1>6
  <2>2. QED BY <1>2, <2>1
<1>7. /\ Keeps(trade, trade') /\ trade'.sl = trade.sl
      /\ Added(trade, t) > 0 => Filled(trade')
  BY <1>2, <1>5, <1>6
<1>8. AfterLadder(v) \in Seq(Inner(trade'))
  <2>1. <<"policy">> \in Seq(Inner(trade')) /\ <<>> \in Seq(Inner(trade'))
    BY <1>7, InnerHas, Lists DEF Ladders, Keeps, Grows, Records
  <2>2. Added(trade, t) > 0 => Enforce \o <<"policy">> \in Seq(Inner(trade'))
    BY <1>7, <2>1, EnforceFits, ConcatProperties
  <2>3. QED BY <1>4, <2>1, <2>2
<1>9. QED BY <1>7, <1>8

\* The monitor looks at the trade.
LEMMA MonitorLooksStep ==
  ASSUME LifeInv, MonitorLooks
  PROVE  Lives
<1>1. /\ "monitor" \in Tasks /\ ExchangeSound' /\ UNCHANGED guard
      /\ Idle \in TaskRecord
  BY ExchangeUnchanged, IdleIsTask DEF MonitorLooks, Tasks
<1>2. CASE ~trade.ladder
  <2> DEFINE u == [Idle EXCEPT !.stack = <<"entry">>, !.views = <<SingleShown>>]
  <2>1. task' = [task EXCEPT !["monitor"] = u] /\ UNCHANGED trade
    BY <1>2 DEF MonitorLooks
  <2>2. Keeps(trade, trade') /\ trade'.sl = trade.sl
    BY <2>1, TradeUnchanged
  <2>3. "entry" \in Inner(trade')
    BY <1>2, <2>1, InnerHas DEF Singles
  <2>4. <<"entry">> \in Seq(Inner(trade'))
    BY <2>3, Lists
  <2>5. u \in TaskRecord /\ u.stack = <<"entry">>
    <3>1. "entry" \in Labels
      BY LabelsKnown DEF Singles
    <3>2. <<"entry">> \in Seq(Labels) /\ <<SingleShown>> \in Seq(ViewRecord)
      BY <3>1, ViewsKnown, Lists
    <3>3. QED BY <1>1, <3>2, FreshTask DEF TaskRecord
  <2> HIDE DEF u
  <2>6. QED BY <1>1, <2>1, <2>2, <2>4, <2>5, Started
<1>3. ASSUME NEW labels \in Seq(Inner(trade')), Keeps(trade, trade'), trade'.sl = trade.sl,
             task' = [task EXCEPT !["monitor"] = [Idle EXCEPT !.stack = labels]]
      PROVE  Lives
  <2> DEFINE u == [Idle EXCEPT !.stack = labels]
  <2>1. u \in TaskRecord /\ u.stack = labels
    <3>1. Inner(trade') \subseteq Labels
      BY <1>3, InnerGrows DEF LifeInv, Sound
    <3>2. labels \in Seq(Labels)
      BY <3>1
    <3>3. QED BY <1>1, <3>2 DEF TaskRecord
  <2> HIDE DEF u
  <2>2. task' = [task EXCEPT !["monitor"] = u]
    BY <1>3 DEF u
  <2>3. QED BY <1>1, <1>3, <2>1, <2>2, Started
<1>4. CASE trade.ladder /\ trade.late
  <2>1. /\ UNCHANGED trade
        /\ task' = [task EXCEPT !["monitor"] = [Idle EXCEPT !.stack = <<"expire">>]]
    BY <1>4 DEF MonitorLooks
  <2>2. <<"expire">> \in Seq(Inner(trade'))
    BY <1>4, <2>1, InnerHas, Lists DEF Ladders
  <2>3. QED BY <1>3, <2>1, <2>2, TradeUnchanged
<1>5. CASE trade.ladder /\ ~trade.late
  <2> DEFINE v == [i \in Sent |-> leg[i]]
  <2>1. /\ LadderShown(v)
        /\ task' = [task EXCEPT !["monitor"] = [Idle EXCEPT !.stack = AfterLadder(v)]]
    BY <1>5 DEF MonitorLooks
  <2>2. LegsRead(v)
    BY SentRead DEF MonitorLooks, exchange
  <2> HIDE DEF v
  <2>3. QED BY <1>3, <1>5, <2>1, <2>2, LadderShownKeeps
<1>6. QED BY <1>2, <1>4, <1>5

\* The monitor applies what it has read.
LEMMA MonitorAppliesStep ==
  ASSUME LifeInv, MonitorApplies
  PROVE  Lives
<1>1. /\ Runs("monitor", "entry") /\ "entry" \in Labels
      /\ "monitor" \in Tasks /\ UNCHANGED <<target, stop, loose, position>>
  BY LabelsKnown DEF MonitorApplies, Tasks
<1>2. ~trade.ladder
  BY <1>1, LabelsKnown, Running, InnerHas
<1>3. CASE EntryShown("monitor", View("monitor").leg[2], <<>>)
  <2>1. Enters
    BY DEF Enters
  <2>2. QED BY <1>1, <1>2, <1>3, <2>1, EntryShownStep
<1>4. CASE UNCHANGED <<leg, trade>> /\ Abort("monitor")
  <2>1. ExchangeSound' /\ Keeps(trade, trade') /\ trade'.sl = trade.sl
    BY <1>1, <1>4, TradeUnchanged, ExchangeUnchanged DEF exchange
  <2>2. QED BY <1>1, <1>4, <2>1, Aborted
<1>5. QED BY <1>3, <1>4 DEF MonitorApplies

-----------------------------------------------------------------------------
(* The account sync.                                                       *)

\* An account sync begins and reads the positions.
LEMMA SyncBeginsStep ==
  ASSUME LifeInv, SyncBegins
  PROVE  Lives
<1> DEFINE u == [task["sync"] EXCEPT !.stack = <<"orders", "synced">>,
                                     !.views = <<PositionsRead>>]
<1>1. /\ "sync" \in Tasks /\ ExchangeSound' /\ task["sync"] \in TaskRecord
      /\ Keeps(trade, trade') /\ trade'.sl = trade.sl
  BY TradeUnchanged, ExchangeUnchanged DEF SyncBegins, Tasks, LifeInv
<1>2. task' = [task EXCEPT !["sync"] = u]
  BY <1>1 DEF SyncBegins, LifeInv
<1>3. {"orders", "synced"} \subseteq Inner(trade') /\ {"orders", "synced"} \subseteq Labels
  BY InnerHas, LabelsKnown DEF Frees
<1>4. /\ <<"orders", "synced">> \in Seq(Inner(trade'))
      /\ <<"orders", "synced">> \in Seq(Labels)
  BY <1>3, Lists
<1>5. u \in TaskRecord /\ u.stack = <<"orders", "synced">>
  <2>1. <<PositionsRead>> \in Seq(ViewRecord)
    BY ViewsKnown, Lists
  <2>2. QED BY <1>1, <1>4, <2>1, FreshTask DEF TaskRecord
<1>6. guard' = "sync" /\ \A j \in Tasks : j # "sync" /\ guard = j => guard' = j
  BY LabelsKnown DEF SyncBegins
<1> HIDE DEF u
<1>7. QED BY <1>1, <1>2, <1>4, <1>5, <1>6, Started

\* The account sync inside a close.
LEMMA SyncAgainStep ==
  ASSUME LifeInv, NEW k \in Tasks, SyncAgain(k)
  PROVE  Lives
<1>1. /\ Runs(k, "refresh") /\ "refresh" \in Labels /\ ExchangeSound'
      /\ Keeps(trade, trade') /\ trade'.sl = trade.sl
  BY LabelsKnown, TradeUnchanged, ExchangeUnchanged DEF SyncAgain, Frees
<1>2. CASE Goto(k, <<>>)
  <2>1. <<>> \in Seq(Inner(trade'))
    BY Lists
  <2>2. QED BY <1>1, <1>2, <2>1, Gone
<1>3. CASE Becomes(k, [task[k] EXCEPT !.views = <<PositionsRead>> \o @],
                  <<"orders", "synced">>)
  <2> DEFINE views == <<PositionsRead>> \o task[k].views
             u == [task[k] EXCEPT !.views = views]
  <2>1. task[k] \in TaskRecord /\ task[k].views \in Seq(ViewRecord)
    BY DEF LifeInv, TaskRecord
  <2>2. views \in Seq(ViewRecord)
    <3>1. <<PositionsRead>> \in Seq(ViewRecord)
      BY ViewsKnown, Lists
    <3>2. QED BY <2>1, <3>1, ConcatProperties
  <2>3. [task[k] EXCEPT !.views = <<PositionsRead>> \o @] = u
    BY <2>1 DEF TaskRecord
  <2> HIDE DEF views
  <2>4. u \in TaskRecord
    BY <2>1, <2>2, Zenon DEF TaskRecord
  <2>5. {"orders", "synced"} \subseteq Inner(trade')
    BY InnerHas DEF Frees
  <2>6. <<"orders", "synced">> \in Seq(Inner(trade'))
    BY <2>5, Lists
  <2>7. Becomes(k, u, <<"orders", "synced">>)
    BY <1>3, <2>3
  <2> HIDE DEF u
  <2>8. QED BY <1>1, <2>4, <2>6, <2>7, Became
<1>4. QED BY <1>2, <1>3 DEF SyncAgain

\* The sync reads orders and fills.
LEMMA SyncReadsStep ==
  ASSUME LifeInv, NEW k \in Tasks, SyncReads(k)
  PROVE  Lives
<1>1. Runs(k, "orders") /\ "orders" \in Labels /\ ExchangeSound'
  BY LabelsKnown, ExchangeUnchanged DEF SyncReads, Frees
<1>2. PICK lag \in BOOLEAN, own \in BOOLEAN :
        LET v == OrdersShown(k, lag, own)
            next(labels) == Becomes(k, Viewing(k, v), labels)
        IN  IF ~trade.ladder THEN UNCHANGED trade /\ next(<<"book">>)
            ELSE IF trade.late THEN UNCHANGED trade /\ next(<<"expire", "book">>)
            ELSE LadderShown(v.leg) /\ next(AfterLadder(v.leg) \o <<"book">>)
  <2>1. (IF Meets("lag") THEN BOOLEAN ELSE {FALSE}) \subseteq BOOLEAN
    OBVIOUS
  <2>2. QED BY <2>1 DEF SyncReads
<1> DEFINE v == OrdersShown(k, lag, own)
<1>3. v \in ViewRecord /\ v.leg = [i \in Sent |-> leg[i]]
  <2>1. View(k).pos \in Nat
    BY ViewsKnown DEF ViewRecord
  <2>2. [i \in Sent |-> leg[i]] \in LegsShownRecord
    BY ViewsKnown
  <2>3. Resting(target) \in SUBSET Goals /\ Resting(stop) \in SUBSET Slots
    BY DEF LifeInv, ExchangeSound, Resting
  <2>4. [g \in Goals |-> IF lag THEN 0 ELSE target[g].executed] \in [Goals -> Nat]
    BY DEF LifeInv, ExchangeSound, OrderRecord
  <2>5. [s \in Slots |-> IF lag THEN 0 ELSE stop[s].executed] \in [Slots -> Nat]
    BY DEF LifeInv, ExchangeSound, OrderRecord
  <2>6. (IF lag THEN 0 ELSE loose.executed) \in Nat
    BY DEF LifeInv, ExchangeSound
  <2>7. QED BY <2>1, <2>2, <2>3, <2>4, <2>5, <2>6 DEF OrdersShown, ViewRecord
<1>4. LegsRead(v.leg)
  BY <1>3, SentRead DEF SyncReads, exchange
<1> HIDE DEF v
<1>5. Viewing(k, v) \in TaskRecord
  BY <1>3, ViewingKept
<1>6. "book" \in Inner(trade')
  BY InnerHas DEF Frees
<1>7. <<"book">> \in Seq(Inner(trade'))
  BY <1>6, Lists
<1>8. CASE /\ UNCHANGED trade
           /\ \/ Becomes(k, Viewing(k, v), <<"book">>)
              \/ trade.ladder /\ Becomes(k, Viewing(k, v), <<"expire", "book">>)
  <2>1. trade.ladder => <<"expire", "book">> \in Seq(Inner(trade'))
    BY <1>6, <1>8, InnerHas, Lists DEF Ladders
  <2>2. Keeps(trade, trade') /\ trade'.sl = trade.sl
    BY <1>8, TradeUnchanged
  <2>3. QED BY <1>1, <1>5, <1>7, <1>8, <2>1, <2>2, Became
<1>9. CASE /\ trade.ladder /\ LadderShown(v.leg)
           /\ Becomes(k, Viewing(k, v), AfterLadder(v.leg) \o <<"book">>)
  <2>1. /\ Keeps(trade, trade') /\ trade'.sl = trade.sl
        /\ AfterLadder(v.leg) \in Seq(Inner(trade'))
    BY <1>4, <1>9, LadderShownKeeps
  <2>2. AfterLadder(v.leg) \o <<"book">> \in Seq(Inner(trade'))
    BY <1>7, <2>1, ConcatProperties
  <2>3. QED BY <1>1, <1>5, <1>9, <2>1, <2>2, Became
<1>10. QED BY <1>2, <1>8, <1>9 DEF v

\* What has not been booked yet of the fills of a snapshot.
LEMMA UnprocessedKnown ==
  ASSUME LifeInv, NEW v \in ViewRecord
  PROVE  Unprocessed(v) \in ViewRecord /\ Unprocessed(v).leg = v.leg
<1> DEFINE tps == [g \in Goals |-> Greater(0, v.target[g] - target[g].claimed)]
           sls == [s \in Slots |-> Greater(0, v.stop[s] - stop[s].claimed)]
           l == Greater(0, v.loose - loose.claimed)
<1>1. /\ v.target \in [Goals -> Nat] /\ v.stop \in [Slots -> Nat] /\ v.loose \in Nat
      /\ \A g \in Goals : target[g].claimed \in Nat
      /\ \A s \in Slots : stop[s].claimed \in Nat
      /\ loose.claimed \in Nat
  BY DEF LifeInv, ExchangeSound, OrderRecord, ViewRecord
<1>2. tps \in [Goals -> Nat] /\ sls \in [Slots -> Nat] /\ l \in Nat
  BY <1>1 DEF Greater
<1>3. Unprocessed(v) = [v EXCEPT !.target = tps, !.stop = sls, !.loose = l]
  BY DEF Unprocessed
<1> HIDE DEF tps, sls, l
<1>4. Unprocessed(v) \in ViewRecord
  BY <1>2, <1>3, Zenon DEF ViewRecord
<1>5. QED BY <1>3, <1>4 DEF ViewRecord

\* Fills that have been booked are taken from the orders.
LEMMA ClaimsKeep ==
  ASSUME LifeInv, NEW v \in ViewRecord, NEW o \in BOOLEAN, ClaimFills(v, o),
         UNCHANGED <<leg, position>>
  PROVE  ExchangeSound'
<1>1. /\ target \in [Goals -> OrderRecord] /\ stop \in [Slots -> OrderRecord]
      /\ loose \in [executed : Nat, claimed : Nat]
      /\ v.target \in [Goals -> Nat] /\ v.stop \in [Slots -> Nat] /\ v.loose \in Nat
  BY DEF LifeInv, ExchangeSound, ViewRecord
<1>2. target' \in [Goals -> OrderRecord]
  <2>1. ASSUME NEW g \in Goals PROVE Claimed(target[g], v.target[g]) \in OrderRecord
    <3>1. v.target[g] \in Nat /\ target[g] \in OrderRecord
      BY <1>1
    <3>2. QED BY <3>1, OrdersEnd
  <2>2. QED BY <2>1 DEF ClaimFills
<1>3. stop' \in [Slots -> OrderRecord]
  <2>1. ASSUME NEW s \in Slots PROVE Claimed(stop[s], v.stop[s]) \in OrderRecord
    <3>1. v.stop[s] \in Nat /\ stop[s] \in OrderRecord
      BY <1>1
    <3>2. QED BY <3>1, OrdersEnd
  <2>2. QED BY <1>1, <2>1 DEF ClaimFills
<1>4. loose' \in [executed : Nat, claimed : Nat]
  <2>1. loose.claimed + v.loose \in Nat
    BY <1>1
  <2>2. QED BY <1>1, <2>1 DEF ClaimFills, Claimed
<1>5. QED BY <1>2, <1>3, <1>4 DEF LifeInv, ExchangeSound

\* The sync books the fills of owned orders.
LEMMA SyncBooksStep ==
  ASSUME LifeInv, NEW k \in Tasks, SyncBooks(k)
  PROVE  Lives
<1> DEFINE v == Unprocessed(View(k))
           t == WithMissingFills(trade, v, TRUE)
<1>1. /\ Runs(k, "book") /\ "book" \in Labels
      /\ Sound(trade) /\ trade \in TradeRecord /\ UNCHANGED position
      /\ v \in ViewRecord /\ View(k) \in ViewRecord
  BY LabelsKnown, ViewsKnown, UnprocessedKnown DEF SyncBooks, Frees, LifeInv, Sound
<1>2. CASE UNCHANGED <<leg, target, stop, loose, trade>> /\ Abort(k)
  <2>1. ExchangeSound' /\ Keeps(trade, trade') /\ trade'.sl = trade.sl
    BY <1>1, <1>2, TradeUnchanged, ExchangeUnchanged DEF exchange
  <2>2. QED BY <1>1, <1>2, <2>1, Aborted
<1>3. CASE /\ UNCHANGED <<target, stop, loose>> /\ ~trade.ladder /\ IsWaiting(trade)
           /\ EntryShown(k, v.leg[2], <<"holds">>)
  <2> HIDE DEF v
  <2>1. Enters
    BY <1>3 DEF Enters
  <2>2. QED BY <1>1, <1>3, <2>1, EntryShownStep
<1>4. ASSUME trade.status = "open", ClaimFills(v, TRUE), UNCHANGED leg,
             IF IsOpen(t)
             THEN trade' = PositionShown(k, t) /\ Goto(k, <<"protect">>)
             ELSE trade' = Finalized(Untracked(t)) /\ Abort(k)
      PROVE  Lives
  <2>1. ExchangeSound'
    BY <1>1, <1>4, ClaimsKeep
  <2>2. Filled(trade)
    BY <1>1, <1>4, OpenIsFilled
  <2>3. Keeps(trade, t) /\ t.sl = trade.sl
    <3> HIDE DEF v
    <3>1. QED BY <1>1, <2>2, FillsKeep
  <2>4. CASE IsOpen(t)
    <3>1. trade' = PositionShown(k, t) /\ Goto(k, <<"protect">>)
      BY <1>4, <2>4
    <3> HIDE DEF t
    <3>2. Filled(t) /\ Sound(t)
      BY <1>1, <2>2, <2>3, FilledStays DEF Keeps
    <3>3. Keeps(t, trade') /\ trade'.sl = t.sl
      BY <1>1, <3>1, <3>2, ShownKeeps
    <3>4. Keeps(trade, trade') /\ trade'.sl = trade.sl
      BY <1>1, <2>3, <3>3, KeepsIsTransitive
    <3>5. "protect" \in Inner(trade')
      BY <1>1, <2>2, <3>4, FilledStays, InnerHas DEF Sells
    <3>6. <<"protect">> \in Seq(Inner(trade'))
      BY <3>5, Lists
    <3>7. QED BY <1>1, <2>1, <3>1, <3>4, <3>6, Gone
  <2>5. CASE ~IsOpen(t)
    <3>1. trade' = Finalized(Untracked(t)) /\ Abort(k)
      BY <1>4, <2>5
    <3> HIDE DEF t
    <3>2. Keeps(t, trade')
      BY <2>3, <3>1, UntrackedKeeps DEF Keeps
    <3>3. Keeps(trade, trade')
      BY <1>1, <2>3, <3>2, KeepsIsTransitive
    <3>4. "book" \in GuardedLabels
      BY DEF GuardedLabels
    <3>5. QED BY <1>1, <2>1, <3>1, <3>3, <3>4, Aborted
  <2>6. QED BY <2>4, <2>5
<1>5. QED
  <2>1. CASE /\ ~trade.owned \/ ~IsOpen(trade)
             /\ UNCHANGED <<leg, target, stop, loose, trade>> /\ Abort(k)
    BY <1>2, <2>1
  <2>2. CASE /\ UNCHANGED <<target, stop, loose>> /\ IsWaiting(trade)
             /\ IF trade.ladder THEN UNCHANGED <<leg, trade>> /\ Abort(k)
                ELSE EntryShown(k, v.leg[2], <<"holds">>)
    BY <1>2, <1>3, <2>2
  <2>3. CASE /\ trade.owned /\ trade.status = "open"
             /\ ClaimFills(v, TRUE) /\ UNCHANGED leg
             /\ IF IsOpen(t)
                THEN trade' = PositionShown(k, t) /\ Goto(k, <<"protect">>)
                ELSE trade' = Finalized(Untracked(t)) /\ Abort(k)
    <3> HIDE DEF v, t
    <3>1. QED BY <1>4, <2>3
  <2>4. QED BY <2>1, <2>2, <2>3, Zenon DEF SyncBooks

\* The sync looks at the position of an entry it has activated.
LEMMA SyncHoldsStep ==
  ASSUME LifeInv, NEW k \in Tasks, SyncHolds(k)
  PROVE  Lives
<1>1. /\ Runs(k, "holds") /\ "holds" \in Labels /\ "holds" \in Singles
      /\ Sound(trade) /\ trade \in TradeRecord /\ View(k) \in ViewRecord
      /\ trade' = PositionShown(k, trade) /\ Goto(k, <<"protect">>) /\ ExchangeSound'
  BY LabelsKnown, ViewsKnown, ExchangeUnchanged DEF SyncHolds, Singles, LifeInv, Sound
<1>2. ~trade.ladder /\ Filled(trade)
  BY <1>1, LabelsKnown, Running, InnerHas
<1>3. Keeps(trade, trade') /\ trade'.sl = trade.sl
  BY <1>1, <1>2, ShownKeeps
<1>4. "protect" \in Inner(trade')
  BY <1>1, <1>2, <1>3, FilledStays, InnerHas DEF Sells
<1>5. <<"protect">> \in Seq(Inner(trade'))
  BY <1>4, Lists
<1>6. QED BY <1>1, <1>3, <1>5, Gone

\* The sync does not find the position.
LEMMA SyncAbsentStep ==
  ASSUME LifeInv, NEW k \in Tasks, SyncAbsent(k)
  PROVE  Lives
<1> DEFINE v == Unprocessed(View(k))
           b == WithMissingFills(trade, v, FALSE)
           t == WithMiss(b)
<1>1. /\ Runs(k, "absent") /\ "absent" \in Labels /\ "absent" \in GuardedLabels
      /\ "absent" \in Sells /\ Sound(trade) /\ trade \in TradeRecord
      /\ v \in ViewRecord /\ Abort(k)
  BY LabelsKnown, ViewsKnown, UnprocessedKnown
     DEF SyncAbsent, Sells, GuardedLabels, LifeInv, Sound
<1>2. Filled(trade)
  BY <1>1, LabelsKnown, Running, InnerHas
<1>3. trade' \in {trade, Finalized(Untracked(b)), t, ClosedMissing(t)}
  BY DEF SyncAbsent
<1>4. ExchangeSound'
  <2>1. \/ UNCHANGED <<target, stop, loose>>
        \/ ClaimFills(v, FALSE)
    BY DEF SyncAbsent
  <2>2. UNCHANGED <<leg, position>>
    BY DEF SyncAbsent
  <2> HIDE DEF v
  <2>3. QED BY <1>1, <2>1, <2>2, ClaimsKeep DEF LifeInv, ExchangeSound
<1>5. Keeps(trade, b)
  <2> HIDE DEF v
  <2>1. QED BY <1>1, <1>2, FillsKeep
<1> HIDE DEF b
<1>6. Sound(b) /\ b \in TradeRecord /\ Keeps(b, t)
  BY <1>5, QuietOnes DEF Keeps, Sound, Quiet
<1>7. Filled(b) /\ Filled(t)
  BY <1>1, <1>2, <1>5, <1>6, FilledStays
<1> HIDE DEF t
<1>8. Keeps(b, Finalized(Untracked(b)))
  BY <1>6, UntrackedKeeps
<1>9. Keeps(t, ClosedMissing(t)) /\ Keeps(trade, t)
  BY <1>1, <1>5, <1>6, <1>7, MissingKeeps, KeepsIsTransitive DEF Keeps
<1>10. Keeps(trade, trade)
  BY <1>1, QuietOnes DEF Quiet
<1>11. Keeps(trade, trade')
  BY <1>1, <1>3, <1>5, <1>8, <1>9, <1>10, KeepsIsTransitive
<1>12. QED BY <1>1, <1>4, <1>11, Aborted

\* The end of the sync.
LEMMA SyncEndsStep ==
  ASSUME LifeInv, NEW k \in Tasks, SyncEnds(k)
  PROVE  Lives
<1> DEFINE u == [task[k] EXCEPT !.views = EarlierViews(k)]
<1>1. /\ Runs(k, "synced") /\ "synced" \in Labels /\ ExchangeSound'
      /\ Keeps(trade, trade') /\ trade'.sl = trade.sl
      /\ Becomes(k, u, <<>>) /\ <<>> \in Seq(Inner(trade'))
  BY LabelsKnown, Lists, TradeUnchanged, ExchangeUnchanged DEF SyncEnds, Frees
<1>2. u \in TaskRecord
  <2>1. task[k] \in TaskRecord /\ task[k].views \in Seq(ViewRecord)
    BY DEF LifeInv, TaskRecord
  <2>2. EarlierViews(k) \in Seq(ViewRecord)
    BY <2>1 DEF EarlierViews
  <2>3. QED BY <2>1, <2>2, Zenon DEF TaskRecord
<1> HIDE DEF u
<1>3. QED BY <1>1, <1>2, Became

-----------------------------------------------------------------------------
(* What the sync does with the orders of the trade.                        *)

\* Legs an execution retires are cancelled first.
LEMMA RetireFirstStep ==
  ASSUME LifeInv, NEW k \in Tasks, Runs(k, "protect"),
         trade.ladder, NEW I \in SUBSET Legs, RetireFirst(k, I)
  PROVE  Lives
<1>1. "protect" \in Labels /\ "protect" \in Sells /\ trade \in TradeRecord
  BY LabelsKnown DEF Sells, LifeInv, Sound
<1>2. ExchangeSound' /\ Keeps(trade, trade') /\ trade'.sl = trade.sl
  BY LadderCancels DEF RetireFirst
<1>3. "protect" \in Inner(trade')
  <2>1. Filled(trade)
    BY <1>1, LabelsKnown, Running, InnerHas
  <2>2. QED BY <1>1, <1>2, <2>1, FilledStays, InnerHas
<1>4. <<"protect">> \in Seq(Inner(trade'))
  BY <1>3, Lists
<1>5. Abort(k) \/ Goto(k, <<"protect">>)
  BY DEF RetireFirst
<1>6. QED BY <1>1, <1>2, <1>4, <1>5, Aborted, Gone

\* The protection is repaired, or the position is looked for.
LEMMA RepairStep ==
  ASSUME LifeInv, NEW k \in Tasks, Runs(k, "protect"), Repair(k) \/ Goto(k, Onwards(k)),
         Keeps(trade, trade'), ExchangeSound'
  PROVE  Lives
<1>1. /\ "protect" \in Labels /\ "protect" \in GuardedLabels /\ "protect" \in Sells
      /\ trade \in TradeRecord
  BY LabelsKnown DEF Sells, GuardedLabels, LifeInv, Sound
<1>2. Filled(trade')
  <2>1. Filled(trade)
    BY <1>1, LabelsKnown, Running, InnerHas
  <2>2. QED BY <1>1, <2>1, FilledStays
<1>3. Enforce \in Seq(Inner(trade'))
  BY <1>2, EnforceFits
<1>4. Onwards(k) \in Seq(Inner(trade'))
  <2>1. "absent" \in Inner(trade')
    BY <1>2, InnerHas DEF Sells
  <2>2. QED BY <2>1, Lists DEF Onwards
<1>5. Viewing(k, NoView) \in TaskRecord
  BY ViewsKnown, ViewingKept
<1>6. CASE Repair(k)
  BY <1>1, <1>3, <1>5, <1>6, Became DEF Repair
<1>7. CASE Goto(k, Onwards(k))
  BY <1>1, <1>4, <1>7, Gone
<1>8. QED BY <1>6, <1>7

\* Orders that were found to be gone are not tracked any more.
LEMMA DetachedKeeps ==
  ASSUME LifeInv, NEW k, NEW seen
  PROVE  Keeps(trade, Detached(k, trade, seen))
<1> DEFINE S == trade.tps \ {g \in Asked(k, seen) : target[g].state # "rests"}
           sl == IF StopAsked(k, seen) /\ stop[trade.sl].state = "gone" THEN 0 ELSE trade.sl
<1>1. Sound(trade) /\ trade \in TradeRecord
  BY DEF LifeInv, Sound
<1>2. S \in SUBSET Goals /\ sl \in {0} \union Slots
  BY <1>1 DEF TradeRecord
<1>3. Detached(k, trade, seen) = [trade EXCEPT !.tps = S, !.sl = sl]
  BY <1>1 DEF Detached, TradeRecord
<1> HIDE DEF S, sl
<1>4. Keeps(trade, [trade EXCEPT !.tps = S, !.sl = sl])
  BY <1>1, <1>2, OrdersTracked, Zenon
<1>5. QED BY <1>3, <1>4

\* The sync finds an executed target.
LEMMA TargetsDoneStep ==
  ASSUME LifeInv, NEW k \in Tasks, Runs(k, "protect"), NEW seen, TargetsDone(k, seen)
  PROVE  Lives
<1>1. "protect" \in Labels
  BY LabelsKnown DEF Sells
<1>2. CASE trade.ladder /\ \E legs \in SUBSET Legs : RetireFirst(k, legs)
  BY <1>2, RetireFirstStep
<1>3. CASE UNCHANGED exchange /\ UNCHANGED trade /\ Abort(k)
  <2>1. ExchangeSound' /\ Keeps(trade, trade') /\ trade'.sl = trade.sl
    BY <1>3, TradeUnchanged, ExchangeUnchanged
  <2>2. QED BY <1>1, <1>3, <2>1, Aborted
<1>4. CASE /\ UNCHANGED exchange /\ trade' = Detached(k, trade, seen)
           /\ Repair(k) \/ Goto(k, Onwards(k))
  BY <1>4, ExchangeUnchanged, DetachedKeeps, RepairStep
<1>5. QED
  <2> DEFINE hit == HitTargets(k, seen)
             most == CHOOSE g \in hit : \A h \in hit : h <= g
             legs == IF trade.ladder THEN RetiredLegs(trade, most) \cap Pending(trade)
                     ELSE {}
             early == View(k).lag \/ \E g \in hit : Unclaimed(target[g]) > 0
  <2>1. legs \in SUBSET Legs /\ (legs # {} => trade.ladder)
    BY DEF Pending
  <2>2. IF legs # {} THEN RetireFirst(k, legs)
        ELSE /\ UNCHANGED exchange
             /\ IF early THEN UNCHANGED trade /\ Abort(k)
                ELSE /\ trade' = Detached(k, trade, seen)
                     /\ IF Repairs(k) THEN Repair(k) ELSE Goto(k, Onwards(k))
    BY Zenon DEF TargetsDone
  <2> HIDE DEF legs, early
  <2>3. QED BY <1>2, <1>3, <1>4, <2>1, <2>2

\* The sync finds an executed stop.
LEMMA StopDoneStep ==
  ASSUME LifeInv, NEW k \in Tasks, Runs(k, "protect"), NEW seen, StopDone(k, seen)
  PROVE  Lives
<1> DEFINE s == trade.sl
           n == Unprocessed(View(k)).stop[s]
           a == Booked(trade, n, "stop")
           b == [a EXCEPT !.sl = 0]
           t == IF b.audit = 0 THEN [b EXCEPT !.issues = @ \ {"drift"}] ELSE b
           legs == IF trade.ladder THEN Pending(trade) ELSE {}
<1>1. /\ "protect" \in Labels /\ "protect" \in GuardedLabels /\ "protect" \in Sells
      /\ Sound(trade) /\ trade \in TradeRecord /\ Unprocessed(View(k)) \in ViewRecord
  BY LabelsKnown, ViewsKnown, UnprocessedKnown DEF Sells, GuardedLabels, LifeInv, Sound
<1>2. s \in Slots
  BY <1>1 DEF StopDone, StopHit, StopAsked, TradeRecord
<1>3. n \in Nat /\ stop[s] \in OrderRecord
  BY <1>1, <1>2 DEF ViewRecord, LifeInv, ExchangeSound
<1>4. Filled(trade)
  BY <1>1, LabelsKnown, Running, InnerHas
<1>5. Keeps(trade, a)
  <2>1. "stop" \in Reasons
    BY Names
  <2> HIDE DEF n
  <2>2. QED BY <1>1, <1>3, <1>4, <2>1, BookedKeeps
<1> HIDE DEF a
<1>6. Keeps(trade, b) /\ b \in TradeRecord
  <2>1. 0 \in {0} \union Slots /\ {} \in SUBSET Goals
    OBVIOUS
  <2>2. Keeps(a, b)
    BY <1>5, <2>1, OrdersTracked DEF Keeps
  <2>3. QED BY <1>1, <1>5, <2>2, KeepsIsTransitive DEF Keeps, Sound
<1> HIDE DEF b
<1>7. Keeps(trade, t)
  <2> DEFINE i == b.issues \ {"drift"}
  <2>1. i \in SUBSET Issues
    BY <1>6 DEF TradeRecord
  <2>2. Keeps(b, [b EXCEPT !.issues = i])
    BY <1>6, <2>1, IssuesKept DEF Keeps, Quiet
  <2>3. t = b \/ t = [b EXCEPT !.issues = i]
    BY <1>6 DEF TradeRecord
  <2>4. QED BY <1>1, <1>6, <2>2, <2>3, KeepsIsTransitive
<1>8. ExchangeSound' \/ legs # {}
  <2> SUFFICES ASSUME legs = {} PROVE ExchangeSound'
    OBVIOUS
  <2>1. /\ UNCHANGED <<leg, target, loose, position>>
        /\ UNCHANGED stop \/ stop' = [stop EXCEPT ![s] = Claimed(@, n)]
    BY DEF StopDone
  <2>2. Claimed(stop[s], n) \in OrderRecord
    BY <1>3, OrdersEnd
  <2>3. stop' \in [Slots -> OrderRecord]
    <3> HIDE DEF n
    <3>1. stop \in [Slots -> OrderRecord]
      BY DEF LifeInv, ExchangeSound
    <3>2. stop' = stop \/ stop' = [stop EXCEPT ![s] = Claimed(stop[s], n)]
      BY <1>2, <2>1, <3>1
    <3> HIDE DEF s
    <3>3. QED BY <1>2, <2>2, <3>1, <3>2
  <2>4. QED BY <2>1, <2>3 DEF LifeInv, ExchangeSound
<1>9. legs \in SUBSET Legs /\ (legs # {} => trade.ladder)
  BY DEF Pending
<1>10. \/ legs # {} /\ RetireFirst(k, legs)
       \/ legs = {} /\ trade' = t /\ Repair(k)
       \/ legs = {} /\ trade' = Finalized(Untracked(t)) /\ Abort(k)
       \/ legs = {} /\ UNCHANGED trade /\ Abort(k)
       \/ legs = {} /\ trade' = [trade EXCEPT !.sl = 0] /\ Goto(k, Onwards(k))
  BY DEF StopDone, t, b, a
<1> HIDE DEF t, legs
<1>11. CASE legs # {} /\ RetireFirst(k, legs)
  BY <1>9, <1>11, RetireFirstStep
<1>12. CASE legs = {} /\ trade' = t /\ Repair(k)
  BY <1>7, <1>8, <1>12, RepairStep
<1>13. CASE legs = {} /\ trade' = Finalized(Untracked(t)) /\ Abort(k)
  <2>1. Keeps(trade, trade')
    <3>1. Keeps(t, trade')
      BY <1>7, <1>13, UntrackedKeeps DEF Keeps
    <3>2. QED BY <1>1, <1>7, <3>1, KeepsIsTransitive
  <2>2. QED BY <1>1, <1>8, <1>13, <2>1, Aborted
<1>14. CASE legs = {} /\ UNCHANGED trade /\ Abort(k)
  BY <1>1, <1>8, <1>14, TradeUnchanged, Aborted
<1>15. CASE legs = {} /\ trade' = [trade EXCEPT !.sl = 0] /\ Goto(k, Onwards(k))
  <2>1. 0 \in {0} \union Slots /\ {} \in SUBSET Goals
    OBVIOUS
  <2>2. Keeps(trade, trade')
    BY <1>1, <1>15, <2>1, OrdersTracked
  <2>3. QED BY <1>8, <1>15, <2>2, RepairStep
<1>16. QED BY <1>10, <1>11, <1>12, <1>13, <1>14, <1>15

\* The sync finds no execution.
LEMMA GapLookedStep ==
  ASSUME LifeInv, NEW k \in Tasks, Runs(k, "protect"), NEW seen, GapLooked(k, seen)
  PROVE  Lives
<1> DEFINE t == Detached(k, trade, seen)
<1>1. /\ "protect" \in Labels /\ "protect" \in GuardedLabels
      /\ trade \in TradeRecord /\ ExchangeSound'
  BY LabelsKnown, ExchangeUnchanged DEF GapLooked, Sells, GuardedLabels, LifeInv, Sound
<1>2. Keeps(trade, t) /\ Sound(t) /\ t \in TradeRecord
  BY DetachedKeeps DEF Keeps, Sound
<1> HIDE DEF t
<1>3. ASSUME NEW sl \in StopsShown(stop, t.sl) PROVE Keeps(trade, Refreshed(t, sl))
  <2>1. sl \in {0} \union Slots
    BY <1>2, StopsShownAre DEF LifeInv, ExchangeSound, TradeRecord
  <2>2. Keeps(t, Refreshed(t, sl))
    BY <1>2, <2>1, RefreshedKeeps
  <2>3. QED BY <1>1, <1>2, <2>2, KeepsIsTransitive
<1>4. /\ trade' = t \/ \E sl \in StopsShown(stop, t.sl) : trade' = Refreshed(t, sl)
      /\ Repair(k) \/ Goto(k, Onwards(k)) \/ Goto(k, <<>>)
  BY DEF GapLooked, t
<1>5. Keeps(trade, trade')
  BY <1>2, <1>3, <1>4
<1>6. CASE Repair(k) \/ Goto(k, Onwards(k))
  BY <1>1, <1>5, <1>6, RepairStep
<1>7. CASE Goto(k, <<>>)
  <2>1. <<>> \in Seq(Inner(trade'))
    BY Lists
  <2>2. QED BY <1>1, <1>5, <1>7, <2>1, Gone
<1>8. QED BY <1>4, <1>6, <1>7

\* The reconciliation of the protection.
LEMMA SyncProtectsStep ==
  ASSUME LifeInv, NEW k \in Tasks, SyncProtects(k)
  PROVE  Lives
<1>1. Runs(k, "protect")
  BY DEF SyncProtects
<1>2. CASE UNCHANGED <<exchange, trade>> /\ Repair(k)
  BY <1>1, <1>2, TradeUnchanged, ExchangeUnchanged, RepairStep
<1>3. CASE \E seen \in BOOLEAN :
             TargetsDone(k, seen) \/ StopDone(k, seen) \/ GapLooked(k, seen)
  BY <1>1, <1>3, TargetsDoneStep, StopDoneStep, GapLookedStep
<1>4. QED BY <1>2, <1>3 DEF SyncProtects

-----------------------------------------------------------------------------
(* The poll task.                                                          *)

\* A leg of the trade gets another status.
LEMMA LegMarked ==
  ASSUME NEW t, Sound(t), NEW i \in Legs, NEW x \in Knowns, x # "planned"
  PROVE  Quiet(t, [t EXCEPT !.known[i] = x])
<1> DEFINE k == [t.known EXCEPT ![i] = x]
<1>1. k \in [Legs -> Knowns]
  BY DEF Sound, TradeRecord
<1>2. [t EXCEPT !.known[i] = x] = [t EXCEPT !.known = k]
  BY DEF Sound, TradeRecord
<1>3. \A j \in Legs : k[j] = "planned" => t.known[j] = "planned"
  BY DEF Sound, TradeRecord
<1> HIDE DEF k
<1>4. QED BY <1>1, <1>2, <1>3, KnownKept

\* An order of the exchange gets another state.
LEMMA LegSent ==
  ASSUME LifeInv, NEW i \in Legs, UNCHANGED <<target, stop, loose>>, position' \in Nat,
         \/ \E x \in {"rests", "gone"} : leg' = [leg EXCEPT ![i].state = x]
         \/ \E got \in {0, LegQty[i]} : leg' = [leg EXCEPT ![i] = EntryOrder(got)]
         \/ UNCHANGED leg
  PROVE  ExchangeSound'
<1>1. /\ leg \in [Legs -> LegRecord] /\ leg[i] \in LegRecord /\ LegQty[i] \in 0..2
      /\ {"rests", "gone", "filled"} \subseteq OrderStates
      /\ \A j \in Legs : leg[j].got <= LegQty[j]
  BY DEF LifeInv, ExchangeSound, LegQty, Legs, OrderStates
<1>2. ASSUME NEW x \in {"rests", "gone"}, leg' = [leg EXCEPT ![i].state = x]
      PROVE  leg' \in [Legs -> LegRecord] /\ \A j \in Legs : leg'[j].got <= LegQty[j]
  <2> DEFINE l == [leg[i] EXCEPT !.state = x]
  <2>1. l \in LegRecord /\ l.got = leg[i].got
    BY <1>1 DEF LegRecord
  <2>2. leg' = [leg EXCEPT ![i] = l]
    BY <1>1, <1>2
  <2> HIDE DEF l
  <2>3. QED BY <1>1, <2>1, <2>2
<1>3. ASSUME NEW got \in {0, LegQty[i]}, leg' = [leg EXCEPT ![i] = EntryOrder(got)]
      PROVE  leg' \in [Legs -> LegRecord] /\ \A j \in Legs : leg'[j].got <= LegQty[j]
  <2>1. EntryOrder(got) \in LegRecord /\ EntryOrder(got).got <= LegQty[i]
    BY <1>1 DEF EntryOrder, LegRecord
  <2>2. QED BY <1>1, <1>3, <2>1
<1>4. leg' \in [Legs -> LegRecord] /\ \A j \in Legs : leg'[j].got <= LegQty[j]
  BY <1>1, <1>2, <1>3
<1>5. QED BY <1>4 DEF LifeInv, ExchangeSound

\* A leg of a ladder that executes at once gives the trade something.
LEMMA LegEntered ==
  ASSUME NEW t, Sound(t), t.ladder, NEW i \in Legs, NEW n \in Nat, n > 0,
         n <= LegQty[i], n <= leg'[i].got
  PROVE  LET w == WithRangeFills(t, [j \in {i} |-> [state |-> "filled", got |-> n]])
         IN  Keeps(t, w) /\ w.sl = t.sl /\ Filled(w)
<1> DEFINE v == [j \in {i} |-> [state |-> "filled", got |-> n]]
           w == WithRangeFills(t, v)
<1>1. LegsRead(v)
  BY DEF LegsRead
<1>2. DOMAIN v \subseteq Legs /\ (\A j \in DOMAIN v : v[j].got \in Int)
      /\ (\E j \in DOMAIN v : v[j].got > 0)
  OBVIOUS
<1> HIDE DEF v
<1>3. Keeps(t, w) /\ w.sl = t.sl
  BY <1>1, RangeFillsKeep
<1>4. w.ladder = t.ladder
  BY <1>3 DEF Keeps, Grows, Records
<1>5. t.ladder => w.entered > 0
  BY <1>2, EnteredGrows
<1>6. Filled(w)
  BY <1>4, <1>5 DEF Filled
<1>7. QED BY <1>3, <1>6 DEF v

\* A leg or the single order is sent.
LEMMA SendLegStep ==
  ASSUME LifeInv, SubmitLeg, Runs("poll", "legs"), NEW i \in Plan, SendLeg(i)
  PROVE  Lives
<1>1. /\ "poll" \in Tasks /\ "legs" \in Labels /\ Sound(trade) /\ trade \in TradeRecord
      /\ UNCHANGED <<target, stop, loose>> /\ position \in Nat
      /\ i \in Legs /\ LegQty[i] \in 0..2 /\ LegQty[i] > 0
      /\ {"planned", "sent", "working", "filled", "gone"} \subseteq Knowns
  <2>1. {"planned", "sent", "working", "filled", "gone"} \subseteq Knowns
    BY DEF Knowns, Settled
  <2>2. i \in Legs /\ LegQty[i] \in 0..2 /\ LegQty[i] > 0
    BY DEF LegQty, Legs, Plan
  <2>3. QED
    BY <2>1, <2>2, LabelsKnown
       DEF Tasks, Frees, LifeInv, Sound, SendLeg, ExchangeSound
<1>2. <<"legs">> \in Seq(Inner(trade')) /\ <<"opened">> \in Seq(Inner(trade'))
      /\ <<"cleanup">> \in Seq(Inner(trade'))
  BY InnerHas, Lists DEF Frees
<1>3. ASSUME NEW x \in {"sent", "working", "gone"},
             trade' = [trade EXCEPT !.known[i] = x], ExchangeSound',
             \E labels \in {<<"legs">>, <<"opened">>, <<"cleanup">>} : Goto("poll", labels)
      PROVE  Lives
  <2>1. Keeps(trade, trade') /\ trade'.sl = trade.sl
    BY <1>1, <1>3, LegMarked DEF Quiet
  <2>2. QED BY <1>1, <1>2, <1>3, <2>1, Gone
<1>4. ASSUME NEW got \in {0, LegQty[i]}, leg' = [leg EXCEPT ![i] = EntryOrder(got)],
             position' = position + got
      PROVE  ExchangeSound'
  <2>1. position' \in Nat
    BY <1>1, <1>4
  <2>2. QED BY <1>1, <1>4, <2>1, LegSent
<1> DEFINE t == [trade EXCEPT !.known[i] = "filled"]
<1>5. Keeps(trade, t) /\ t.sl = trade.sl /\ Sound(t) /\ t.ladder = trade.ladder
  BY <1>1, LegMarked DEF Quiet, Keeps, Grows, Records
<1>e. Filled(t) => Filled(trade)
  BY <1>1 DEF TradeRecord, Filled
<1>6. ASSUME NEW next, next = <<"legs">> \/ next = <<"opened">>, ExchangeSound',
             trade.ladder, leg'[i].got = LegQty[i],
             trade' = WithRangeFills(t, [j \in {i} |->
                                           [state |-> "filled", got |-> LegQty[i]]]),
             Goto("poll", Enforce \o next)
      PROVE  Lives
  <2> HIDE DEF t
  <2> DEFINE q == LegQty[i]
  <2>0. /\ t.ladder /\ q \in Nat /\ q > 0 /\ q <= LegQty[i] /\ Sound(t)
        /\ q <= leg'[i].got /\ i \in Legs
        /\ trade' = WithRangeFills(t, [j \in {i} |-> [state |-> "filled", got |-> q]])
    BY <1>1, <1>5, <1>6
  <2> HIDE DEF q
  <2>1. Keeps(t, trade') /\ trade'.sl = t.sl /\ Filled(trade')
    BY <2>0, LegEntered, Zenon
  <2>2. Keeps(trade, trade') /\ trade'.sl = trade.sl
    BY <1>1, <1>5, <2>1, KeepsIsTransitive
  <2>3. Enforce \o next \in Seq(Inner(trade'))
    BY <1>2, <1>6, <2>1, EnforceFits, ConcatProperties
  <2>4. QED BY <1>1, <1>6, <2>2, <2>3, Gone
<1>7. ASSUME ExchangeSound', ~trade.ladder, trade' = WithEntry(t, LegQty[i]),
             LegQty[i] <= leg'[2].got,
             Goto("poll", <<"plan", "activated", "opened">>)
      PROVE  Lives
  <2> HIDE DEF t
  <2>0. LegQty[i] \in 1..2
    BY <1>1
  <2>1. Keeps(t, trade') /\ trade'.sl = t.sl /\ Filled(trade')
    <3>1. Enters
      BY DEF Enters
    <3>2. QED BY <1>1, <1>5, <1>e, <1>7, <2>0, <3>1, EntryKeeps
  <2>2. Keeps(trade, trade') /\ trade'.sl = trade.sl /\ ~trade'.ladder /\ Filled(trade')
    BY <1>1, <1>5, <1>7, <2>1, KeepsIsTransitive DEF Keeps, Grows, Records
  <2>3. {"plan", "activated", "opened"} \subseteq Inner(trade')
    BY <2>2, InnerHas DEF Frees, Singles
  <2>4. <<"plan", "activated", "opened">> \in Seq(Inner(trade'))
    BY <2>3, Lists
  <2>5. QED BY <1>1, <1>7, <2>2, <2>4, Gone
<1>8. ASSUME NEW got \in {0, LegQty[i]}, leg' = [leg EXCEPT ![i] = EntryOrder(got)],
             position' = position + got, NEW next, next = <<"legs">> \/ next = <<"opened">>,
             LET u == [trade EXCEPT !.known[i] = IF got = 0 THEN "working" ELSE "filled"]
                 v == [j \in {i} |-> [state |-> "filled", got |-> got]]
             IN  IF got = 0 THEN trade' = u /\ Goto("poll", next)
                 ELSE IF trade.ladder
                      THEN trade' = WithRangeFills(u, v) /\ Goto("poll", Enforce \o next)
                      ELSE trade' = WithEntry(u, got)
                           /\ Goto("poll", <<"plan", "activated", "opened">>)
      PROVE  Lives
  <2>1. ExchangeSound'
    BY <1>4, <1>8
  <2>2. CASE got = 0
    <3>1. trade' = [trade EXCEPT !.known[i] = "working"] /\ Goto("poll", next)
      BY <1>8, <2>2
    <3>2. QED BY <1>3, <1>8, <2>1, <3>1
  <2>3. CASE got # 0
    <3>1. got = LegQty[i]
      BY <1>8, <2>3
    <3>2. \/ /\ trade.ladder /\ Goto("poll", Enforce \o next)
             /\ trade' = WithRangeFills(t, [j \in {i} |->
                                              [state |-> "filled", got |-> LegQty[i]]])
          \/ /\ ~trade.ladder /\ Goto("poll", <<"plan", "activated", "opened">>)
             /\ trade' = WithEntry(t, LegQty[i])
      BY <1>8, <2>3, <3>1
    <3> HIDE DEF t
    <3>3. leg'[i].got = LegQty[i] /\ (~trade.ladder => i = 2)
      <4>1. leg'[i] = EntryOrder(got) /\ i \in Legs
        BY <1>1, <1>8 DEF LifeInv, ExchangeSound
      <4>2. EntryOrder(got).got = got
        BY DEF EntryOrder
      <4>3. ~trade.ladder => i = 2
        BY DEF Plan
      <4>4. QED BY <3>1, <4>1, <4>2, <4>3
    <3>4. ~trade.ladder => LegQty[i] <= leg'[2].got
      BY <1>1, <3>3
    <3>5. QED BY <1>6, <1>7, <1>8, <2>1, <3>2, <3>3, <3>4
  <2>4. QED BY <2>2, <2>3
<1>9. ASSUME NEW x \in {"gone", "sent"}, trade' = [trade EXCEPT !.known[i] = x],
             Goto("poll", <<"cleanup">>), UNCHANGED position,
             \/ \E y \in {"rests", "gone"} : leg' = [leg EXCEPT ![i].state = y]
             \/ UNCHANGED leg
      PROVE  Lives
  <2>1. ExchangeSound'
    BY <1>1, <1>9, LegSent
  <2>2. QED BY <1>3, <1>9, <2>1
<1>10. CASE \E got \in {0} \union (IF Resting(leg) = {} THEN {LegQty[i]} ELSE {}) :
              LET u == [trade EXCEPT !.known[i] = IF got = 0 THEN "working" ELSE "filled"]
                  v == [j \in {i} |-> [state |-> "filled", got |-> got]]
                  more == \E j \in Plan \ {i} : u.known[j] = "planned"
                  next == IF more THEN <<"legs">> ELSE <<"opened">>
              IN  /\ leg' = [leg EXCEPT ![i] = EntryOrder(got)]
                  /\ position' = position + got
                  /\ IF got = 0 THEN trade' = u /\ Goto("poll", next)
                     ELSE IF trade.ladder
                          THEN /\ trade' = WithRangeFills(u, v)
                               /\ Goto("poll", Enforce \o next)
                          ELSE trade' = WithEntry(u, got)
                               /\ Goto("poll", <<"plan", "activated", "opened">>)
  <2> HIDE DEF t
  <2>1. QED BY <1>8, <1>10, Zenon
<1>11. CASE /\ leg' = [leg EXCEPT ![i].state = "gone"]
            /\ trade' = [trade EXCEPT !.known[i] = "gone"]
            /\ Goto("poll", <<"cleanup">>) /\ UNCHANGED position
  BY <1>9, <1>11
<1>12. CASE /\ leg' \in {leg, [leg EXCEPT ![i].state = "rests"]}
            /\ trade' = [trade EXCEPT !.known[i] = "sent"]
            /\ Goto("poll", <<"cleanup">>) /\ UNCHANGED position
  BY <1>9, <1>12
<1>13. QED BY <1>10, <1>11, <1>12, Zenon DEF SendLeg

\* The next leg, or the single order, is sent.
LEMMA SubmitLegStep ==
  ASSUME LifeInv, SubmitLeg
  PROVE  Lives
BY SendLegStep DEF SubmitLeg

\* A failed submission: what was sent is cancelled.
LEMMA CleanUpStep ==
  ASSUME LifeInv, CleanUp
  PROVE  Lives
<1>1. /\ Runs("poll", "cleanup") /\ "cleanup" \in Labels /\ "poll" \in Tasks
      /\ UNCHANGED <<target, stop, loose, position>>
      /\ trade \in TradeRecord /\ Sound(trade) /\ ExchangeSound
      /\ "failed" \in Reasons
  BY LabelsKnown, Names DEF CleanUp, Frees, Tasks, LifeInv, Sound
<1>2. CASE /\ ~trade.ladder /\ trade' = [Unfilled(trade) EXCEPT !.reason = "failed"]
           /\ UNCHANGED leg /\ Abort("poll")
  <2>1. /\ Keeps(trade, trade') /\ Unfilled(trade).sl = trade.sl
        /\ Keeps(trade, Unfilled(trade))
    BY <1>1, <1>2, UnfilledKeeps
  <2>2. trade'.sl = trade.sl
    BY <1>2, <2>1 DEF Keeps, Sound, TradeRecord
  <2>3. ExchangeSound'
    BY <1>1, <1>2 DEF ExchangeSound
  <2>4. QED BY <1>1, <1>2, <2>1, <2>2, <2>3, Aborted
<1> DEFINE known == [i \in Legs |-> IF trade.known[i] = "planned" THEN "unsent"
                                    ELSE trade.known[i]]
           t == [trade EXCEPT !.known = known]
           sent == {i \in Legs : t.known[i] # "unsent"}
<1>3. Keeps(trade, t) /\ t.sl = trade.sl /\ Sound(t) /\ sent \in SUBSET Legs
  <2>1. known \in [Legs -> Knowns]
    BY <1>1 DEF TradeRecord, Knowns, Settled
  <2>2. \A i \in Legs : known[i] = "planned" => trade.known[i] = "planned"
    OBVIOUS
  <2> HIDE DEF known
  <2>3. QED BY <1>1, <2>1, <2>2, KnownKept DEF Quiet, Keeps
<1>4. t = [trade EXCEPT !.known = [i \in Legs |-> IF @[i] = "planned" THEN "unsent"
                                                  ELSE @[i]]]
  BY <1>1 DEF TradeRecord
<1> HIDE DEF t
<1>5. ASSUME NEW F \in Unanswered,
             leg' \in [Legs -> LegRecord] /\ \A i \in Legs : leg'[i].got <= LegQty[i],
             Keeps(t, trade'), trade'.sl = t.sl
      PROVE  ExchangeSound' /\ Keeps(trade, trade') /\ trade'.sl = trade.sl
  <2>1. ExchangeSound'
    BY <1>1, <1>5 DEF ExchangeSound
  <2>2. QED BY <1>1, <1>3, <1>5, <2>1, KeepsIsTransitive
<1>6. ASSUME NEW F \in Unanswered, EndsUnfilled(t, sent, F, "failed"), Abort("poll")
      PROVE  Lives
  <2>1. /\ leg' \in [Legs -> LegRecord] /\ \A i \in Legs : leg'[i].got <= LegQty[i]
        /\ Keeps(t, trade') /\ trade'.sl = t.sl
    BY <1>1, <1>3, <1>6, EndsKeeps
  <2>2. ExchangeSound' /\ Keeps(trade, trade') /\ trade'.sl = trade.sl
    BY <1>5, <2>1
  <2>3. QED BY <1>1, <1>6, <2>2, Aborted
<1>7. ASSUME trade.ladder, NEW F \in Unanswered, CancelLegs(t, sent, F),
             Goto("poll", (IF trade'.entered > 0 THEN Enforce ELSE <<>>) \o <<"opened">>)
      PROVE  Lives
  <2>1. F \in SUBSET Legs
    BY DEF Unanswered, OneOf
  <2>2. /\ leg' \in [Legs -> LegRecord] /\ \A i \in Legs : leg'[i].got <= LegQty[i]
        /\ Keeps(t, trade') /\ trade'.sl = t.sl
    <3>1. t.ladder
      BY <1>3, <1>7 DEF Keeps, Grows, Records
    <3>2. QED BY <1>1, <1>3, <1>7, <2>1, <3>1, CancelKeeps
  <2>3. ExchangeSound' /\ Keeps(trade, trade') /\ trade'.sl = trade.sl
    BY <1>5, <2>2
  <2>4. <<"opened">> \in Seq(Inner(trade'))
    BY InnerHas, Lists DEF Frees
  <2>5. (IF trade'.entered > 0 THEN Enforce ELSE <<>>) \in Seq(Inner(trade'))
    <3>1. trade'.entered > 0 => Filled(trade')
      BY DEF Filled
    <3>2. QED BY <3>1, EnforceFits, Lists
  <2>6. (IF trade'.entered > 0 THEN Enforce ELSE <<>>) \o <<"opened">>
          \in Seq(Inner(trade'))
    BY <2>4, <2>5, ConcatProperties
  <2>7. QED BY <1>1, <1>7, <2>3, <2>6, Gone
<1> HIDE DEF sent
<1>8. CASE /\ trade.ladder
           /\ \E F \in Unanswered :
                \/ EndsUnfilled(t, sent, F, "failed") /\ Abort("poll")
                \/ /\ CancelLegs(t, sent, F)
                   /\ Goto("poll", (IF trade'.entered > 0 THEN Enforce ELSE <<>>)
                                   \o <<"opened">>)
  BY <1>6, <1>7, <1>8
<1>9. QED BY <1>2, <1>4, <1>8 DEF CleanUp, sent

\* The trade becomes one of the engine's.
LEMMA OpenedStep ==
  ASSUME LifeInv, Opened
  PROVE  Lives
<1>1. /\ Runs("poll", "opened") /\ "opened" \in Labels /\ "poll" \in Tasks
      /\ trade \in TradeRecord /\ Sound(trade) /\ <<>> \in Seq(Inner(trade'))
  BY LabelsKnown, Lists DEF Opened, Frees, Tasks, LifeInv, Sound
<1> DEFINE u == [trade EXCEPT !.owned = TRUE]
<1>2. trade.status # "closed" => Keeps(trade, u) /\ u.sl = trade.sl
  <2> SUFFICES ASSUME trade.status # "closed" PROVE Keeps(trade, u) /\ u.sl = trade.sl
    OBVIOUS
  <2>1. u \in TradeRecord /\ u.sl = trade.sl /\ u.status = trade.status
    BY <1>1 DEF TradeRecord
  <2>2. SameLedger(trade, u)
    BY <1>1 DEF SameLedger, TradeRecord
  <2>3. u.status = "waiting" \/ Filled(trade)
    BY <1>1, <2>1, OpenIsFilled DEF TradeRecord
  <2> HIDE DEF u
  <2>4. QED BY <1>1, <2>1, <2>2, <2>3, LedgerKept
<1>3. Keeps(trade, trade') /\ trade'.sl = trade.sl
  BY <1>1, <1>2, QuietOnes DEF Opened, Quiet
<1>4. ExchangeSound' /\ Goto("poll", <<>>)
  BY ExchangeUnchanged DEF Opened
<1>5. QED BY <1>1, <1>3, <1>4, Gone

\* A message asks for a close or a cancellation.
LEMMA CloseAskedStep ==
  ASSUME LifeInv, CloseAsked
  PROVE  Lives
<1>1. /\ "poll" \in Tasks /\ task["poll"] \in TaskRecord /\ Sound(trade)
      /\ ExchangeSound' /\ UNCHANGED guard /\ trade.owned
  BY ExchangeUnchanged DEF CloseAsked, Tasks, LifeInv
<1>2. ASSUME NEW labels,
             \/ labels = <<"cancel">>
             \/ /\ trade.status # "waiting"
                /\ labels \in {<<"close", "answered">>, <<"close", "closed">>,
                               <<"halve", "answered">>},
             trade' \in {trade, WithMiss(trade), WithoutMiss(trade)},
             task' = [task EXCEPT !["poll"].stack = labels]
      PROVE  Lives
  <2>1. Keeps(trade, trade') /\ trade'.sl = trade.sl /\ trade \in TradeRecord
    BY <1>1, <1>2, QuietOnes DEF Quiet, Sound
  <2>2. labels \in Seq(Inner(trade'))
    <3>1. CASE labels = <<"cancel">>
      BY <3>1, InnerHas, Lists DEF Frees
    <3>2. CASE trade.status # "waiting" /\ labels # <<"cancel">>
      <4>1. Filled(trade')
        BY <1>1, <2>1, <3>2, OpenIsFilled, FilledStays
      <4>2. /\ "close" \in Inner(trade') /\ "halve" \in Inner(trade')
            /\ "closed" \in Inner(trade') /\ "answered" \in Inner(trade')
        BY <4>1, InnerHas DEF Frees, Sells
      <4>3. /\ <<"close", "answered">> \in Seq(Inner(trade'))
            /\ <<"close", "closed">> \in Seq(Inner(trade'))
            /\ <<"halve", "answered">> \in Seq(Inner(trade'))
        BY <4>2, Lists
      <4>4. QED BY <1>2, <3>2, <4>3
    <3>3. QED BY <1>2, <3>1, <3>2
  <2> DEFINE u == [task["poll"] EXCEPT !.stack = labels]
  <2>3. u \in TaskRecord /\ u.stack = labels
    <3>1. Inner(trade') \subseteq Labels
      BY <2>1, InnerGrows
    <3>2. labels \in Seq(Labels)
      BY <2>2, <3>1
    <3>3. QED BY <1>1, <3>2, FreshTask DEF TaskRecord
  <2>4. task' = [task EXCEPT !["poll"] = u]
    BY <1>1, <1>2 DEF LifeInv
  <2> HIDE DEF u
  <2>5. QED BY <1>1, <2>1, <2>2, <2>3, <2>4, Started
<1>3. QED BY <1>2 DEF CloseAsked, IsWaiting

\* After the close one message has asked for.
LEMMA AnsweredStep ==
  ASSUME LifeInv, Answered
  PROVE  Lives
<1>1. /\ Runs("poll", "answered") /\ "answered" \in Labels /\ "poll" \in Tasks
      /\ Taken("poll", <<>>) /\ <<>> \in Seq(Inner(trade'))
  BY LabelsKnown, Lists DEF Answered, Frees, Tasks
<1>2. Keeps(trade, trade') /\ trade'.sl = trade.sl
  BY QuietOnes DEF Answered, LifeInv, Quiet
<1>3. ExchangeSound'
  BY ExchangeUnchanged DEF Answered
<1>4. QED BY <1>1, <1>2, <1>3, TookOver

-----------------------------------------------------------------------------
(* The price refresh, the clock and the exchange.                          *)

\* The price is beyond a level of a trade without protection.
LEMMA PriceMeetsStep ==
  ASSUME LifeInv, PriceMeets
  PROVE  Lives
<1>1. /\ "price" \in Tasks /\ task["price"] \in TaskRecord /\ Sound(trade)
      /\ trade \in TradeRecord /\ ExchangeSound' /\ UNCHANGED guard
      /\ Keeps(trade, trade') /\ trade'.sl = trade.sl /\ Filled(trade)
  BY ExchangeUnchanged, TradeUnchanged, OpenIsFilled
     DEF PriceMeets, Tasks, LifeInv, Sound, exchange
<1>2. /\ {"close", "closed", "free", "shave", "counted"} \subseteq Inner(trade')
      /\ trade.ladder => "retire" \in Inner(trade')
  <2>1. Filled(trade') /\ trade'.ladder = trade.ladder
    BY <1>1, FilledStays DEF Keeps, Grows, Records
  <2>2. QED BY <2>1, InnerHas DEF Frees, Sells, Ladders
<1>3. PICK aim \in Reached(trade) :
        task' = [task EXCEPT
                   !["price"].aim = aim,
                   !["price"].stack =
                      IF aim = 0 THEN <<"close", "closed">>
                      ELSE (IF trade.ladder THEN <<"retire">> ELSE <<>>)
                           \o <<ClosesAt(trade, aim), "counted">>]
  BY Zenon DEF PriceMeets
<1>4. aim \in 0..MaxTargets
  BY <1>1 DEF Reached, TradeRecord
<1> DEFINE labels == IF aim = 0 THEN <<"close", "closed">>
                     ELSE (IF trade.ladder THEN <<"retire">> ELSE <<>>)
                          \o <<ClosesAt(trade, aim), "counted">>
           u == [task["price"] EXCEPT !.aim = aim, !.stack = labels]
<1>5. labels \in Seq(Inner(trade'))
  <2>1. <<"close", "closed">> \in Seq(Inner(trade'))
    BY <1>2, Lists
  <2>2. ClosesAt(trade, aim) \in Inner(trade')
    BY <1>2 DEF ClosesAt
  <2>3. <<ClosesAt(trade, aim), "counted">> \in Seq(Inner(trade'))
    BY <1>2, <2>2, Lists
  <2>4. (IF trade.ladder THEN <<"retire">> ELSE <<>>) \in Seq(Inner(trade'))
    BY <1>2, Lists
  <2>5. QED BY <2>1, <2>3, <2>4, ConcatProperties
<1>6. task' = [task EXCEPT !["price"] = u]
  <2>1. task \in [Tasks -> TaskRecord]
    BY DEF LifeInv
  <2> HIDE DEF labels
  <2>2. task' = [task EXCEPT !["price"].aim = aim, !["price"].stack = labels]
    BY <1>3 DEF labels
  <2>3. QED BY <1>1, <2>1, <2>2
<1>7. u \in TaskRecord /\ u.stack = labels
  <2>1. Inner(trade') \subseteq Labels
    BY <1>1, InnerGrows
  <2>2. labels \in Seq(Labels)
    BY <1>5, <2>1
  <2> HIDE DEF labels
  <2>3. u \in TaskRecord
    BY <1>1, <1>4, <2>2, Zenon DEF TaskRecord
  <2>4. QED BY <1>1, <2>3 DEF TaskRecord
<1> HIDE DEF u, labels
<1>8. QED BY <1>1, <1>5, <1>6, <1>7, Started

\* Legs the target retires are cancelled.
LEMMA RetireForHitStep ==
  ASSUME LifeInv, NEW k \in Tasks, RetireForHit(k)
  PROVE  Lives
<1> DEFINE I == RetiredLegs(trade, trade.hits + 1) \cap Pending(trade)
<1>1. /\ Runs(k, "retire") /\ "retire" \in Labels /\ I \in SUBSET Legs
      /\ UNCHANGED <<target, stop, loose, position>> /\ trade.ladder
  <2>1. Runs(k, "retire") /\ "retire" \in Labels /\ "retire" \in Ladders
    BY LabelsKnown DEF RetireForHit, Ladders
  <2>2. trade.ladder
    BY <2>1, LabelsKnown, Running, InnerHas
  <2>3. QED BY <2>1, <2>2 DEF RetireForHit, Pending
<1>2. PICK F \in Unanswered :
        /\ CancelLegs(trade, I, F)
        /\ IF ~CancelConfirmed(trade, I, F) THEN Abort(k)
           ELSE Goto(k, IF Added(trade, trade') > 0 THEN Enforce ELSE <<>>)
  BY Zenon DEF RetireForHit
<1> HIDE DEF I
<1>3. /\ ExchangeSound' /\ Keeps(trade, trade') /\ trade'.sl = trade.sl
      /\ Added(trade, trade') > 0 => Filled(trade')
  BY <1>1, <1>2, LadderCancels
<1>4. (IF Added(trade, trade') > 0 THEN Enforce ELSE <<>>) \in Seq(Inner(trade'))
  BY <1>3, EnforceFits, Lists
<1>5. CASE Abort(k)
  BY <1>1, <1>3, <1>5, Aborted
<1>6. CASE Goto(k, IF Added(trade, trade') > 0 THEN Enforce ELSE <<>>)
  BY <1>1, <1>3, <1>4, <1>6, Gone
<1>7. QED BY <1>2, <1>5, <1>6

\* The target is counted.
LEMMA CountedStep ==
  ASSUME LifeInv, NEW k \in Tasks, Counted(k)
  PROVE  Lives
<1> DEFINE hits == Lesser(MaxTargets, trade.hits + 1)
           level == task[k].aim
           t == [trade EXCEPT !.hits = hits, !.level = level]
<1>1. /\ Runs(k, "counted") /\ "counted" \in Labels /\ Taken(k, <<>>)
      /\ <<>> \in Seq(Inner(trade')) /\ trade \in TradeRecord /\ Sound(trade)
  BY LabelsKnown, Lists DEF Counted, Frees, LifeInv, Sound
<1>2. hits \in 0..MaxTargets /\ level \in 0..MaxTargets
  <2>1. trade.hits \in 0..MaxTargets
    BY <1>1 DEF TradeRecord
  <2>2. level \in 0..MaxTargets
    BY DEF LifeInv, TaskRecord
  <2>3. QED BY <2>1, <2>2 DEF Lesser
<1>3. Quiet(trade, t)
  <2> HIDE DEF hits, level
  <2>1. t \in TradeRecord
    BY <1>1, <1>2, Zenon DEF TradeRecord
  <2>2. /\ SameLedger(trade, t) /\ t.status = trade.status /\ (t.owned => trade.owned)
        /\ t.sl = trade.sl
    BY <1>1 DEF SameLedger, TradeRecord
  <2>3. QED BY <1>1, <2>1, <2>2, QuietChange DEF Quiet
<1> HIDE DEF t
<1>4. /\ Keeps(trade, t) /\ t.sl = trade.sl
      /\ Keeps(t, Finalized(t)) /\ Finalized(t).sl = t.sl
  BY <1>3, QuietOnes DEF Quiet, Keeps
<1>5. Keeps(trade, Finalized(t))
  BY <1>1, <1>4, KeepsIsTransitive
<1>6. trade' \in {trade, t, Finalized(t)}
  BY DEF Counted, t
<1>7. Keeps(trade, trade') /\ trade'.sl = trade.sl
  BY <1>1, <1>4, <1>5, <1>6, QuietOnes DEF Quiet
<1>8. ExchangeSound'
  BY ExchangeUnchanged DEF Counted
<1>9. QED BY <1>1, <1>7, <1>8, TookOver

\* The clock.
LEMMA ClockStep ==
  ASSUME LifeInv, Expires \/ RetryDue
  PROVE  Lives
<1>1. UNCHANGED <<task, guard>> /\ ExchangeSound'
  BY ExchangeUnchanged DEF Expires, RetryDue
<1>2. Keeps(trade, trade') /\ trade'.sl = trade.sl
  BY QuietOnes DEF Expires, RetryDue, LifeInv, Quiet
<1>3. QED BY <1>1, <1>2, Stayed

\* The exchange moves.
LEMMA ExchangesStep ==
  ASSUME LifeInv, Exchanges
  PROVE  Lives
<1>1. UNCHANGED <<task, guard>> /\ UNCHANGED trade /\ ExchangeSound'
  BY ExchangeMoves DEF Exchanges, LifeInv
<1>2. Keeps(trade, trade') /\ trade'.sl = trade.sl
  BY <1>1, TradeUnchanged
<1>3. QED BY <1>1, <1>2, Stayed

-----------------------------------------------------------------------------
(* The theorems.                                                           *)

\* The initial states satisfy the invariant.
LEMMA InitHolds == Init => LifeInv
<1> SUFFICES ASSUME Init PROVE LifeInv
  OBVIOUS
<1>1. ExchangeSound
  <2>1. /\ NoOrder \in OrderRecord /\ [state |-> "none", got |-> 0] \in LegRecord
        /\ NoFills \in [executed : Nat, claimed : Nat]
    BY DEF NoOrder, OrderRecord, LegRecord, OrderStates, NoFills, MaxQty
  <2>2. \A i \in Legs : LegQty[i] >= 0
    BY DEF Legs, LegQty
  <2>3. QED BY <2>1, <2>2 DEF Init, ExchangeInit, ExchangeSound
<1>2. PICK c \in Cases : trade = NewTrade(c.ladder, c.aims)
  BY DEF Init
<1>3. c.ladder \in BOOLEAN /\ c.aims \in 1..MaxTargets
  BY CasesAssumption
<1>4. Sound(trade)
  <2> DEFINE remaining == IF c.ladder THEN MaxQty ELSE LegQty[2]
             got == [i \in Legs |-> 0]
             known == [i \in Legs |-> "planned"]
  <2>1. /\ remaining \in 0..MaxQty /\ got \in [Legs -> 0..2] /\ 0 \in 0..MaxQty
        /\ known \in [Legs -> Knowns] /\ 0 \in {0} \union Slots
        /\ {} \in SUBSET Goals /\ {} \in SUBSET Issues
        /\ "waiting" \in {"waiting", "open", "closed"} /\ FALSE \in BOOLEAN
        /\ None \in {None} \union Reasons /\ 0 \in Nat /\ 0 \in 0..MaxTargets
        /\ 0 \in 0..Confirmations
    BY DEF MaxQty, LegQty, Knowns, Confirmations
  <2> HIDE DEF remaining, known
  <2>2. trade = [ladder |-> c.ladder, status |-> "waiting", owned |-> FALSE,
                 remaining |-> remaining, entered |-> 0, got |-> got, known |-> known,
                 late |-> FALSE, tps |-> {}, sl |-> 0, need |-> 0, hits |-> 0,
                 aims |-> c.aims, level |-> 0, audit |-> 0, booked |-> 0, miss |-> 0,
                 deferred |-> FALSE, issues |-> {}, reason |-> None]
    BY <1>2 DEF NewTrade, remaining, known
  <2>3. trade \in TradeRecord
    <3> HIDE DEF got
    <3>1. QED BY <1>3, <2>1, <2>2 DEF TradeRecord
  <2>4. Balanced(trade)
    BY <2>1, <2>2 DEF Balanced, Legs, LegQty
  <2>5. QED BY <2>3, <2>4 DEF Sound
<1>5. "legs" \in Labels /\ <<"legs">> \in Seq(Labels) /\ <<>> \in Seq(Labels)
  BY LabelsKnown, Lists DEF Frees
<1>6. Idle.stack = <<>> /\ [Idle EXCEPT !.stack = <<"legs">>].stack = <<"legs">>
  BY DEF Idle
<1>7. task \in [Tasks -> TaskRecord]
  <2>1. [Idle EXCEPT !.stack = <<"legs">>] \in TaskRecord
    BY <1>5, IdleIsTask, FreshTask DEF TaskRecord
  <2>2. QED BY <2>1, IdleIsTask DEF Init
<1>8. ASSUME NEW k \in Tasks PROVE StackFits(task[k].stack, trade) /\ VerifiesSafely(k)
  <2>1. task[k].stack = <<"legs">> \/ task[k].stack = <<>>
    BY <1>6 DEF Init
  <2>2. task[k].stack \in Seq(Inner(trade))
    BY <2>1, InnerHas, Lists DEF Frees
  <2>3. ~Verifies(task[k].stack)
    BY <2>1 DEF Verifies
  <2>4. QED BY <2>2, <2>3 DEF StackFits, VerifiesSafely
<1>9. QED BY <1>1, <1>4, <1>7, <1>8 DEF Init, LifeInv

\* Every step keeps the invariant.
LEMMA NextKeeps == LifeInv /\ [Next]_vars => Lives
<1> SUFFICES ASSUME LifeInv, [Next]_vars PROVE Lives
  OBVIOUS
<1>1. CASE UNCHANGED vars
  <2>1. LifeInv'
    BY <1>1 DEF vars, LifeInv, ExchangeSound, VerifiesSafely
  <2>2. Keeps(trade, trade')
    BY <1>1, TradeUnchanged DEF vars
  <2>3. QED BY <2>1, <2>2 DEF Lives
<1>2. CASE Exchanges
  BY <1>2, ExchangesStep
<1>3. CASE Expires \/ RetryDue
  BY <1>3, ClockStep
<1>4. CASE Polls
  BY <1>4, SubmitLegStep, CleanUpStep, OpenedStep, CloseAskedStep, AnsweredStep DEF Polls
<1>5. CASE Monitors
  BY <1>5, MonitorLooksStep, MonitorAppliesStep DEF Monitors
<1>6. CASE Prices
  <2>1. "price" \in Tasks
    BY DEF Tasks
  <2>2. QED BY <1>6, <2>1, PriceMeetsStep, RetireForHitStep, CountedStep DEF Prices
<1>7. CASE SyncBegins
  BY <1>7, SyncBeginsStep
<1>8. ASSUME NEW k \in Tasks, Syncs(k) PROVE Lives
  BY <1>8, SyncAgainStep, SyncReadsStep, SyncBooksStep, SyncHoldsStep, SyncProtectsStep,
     SyncAbsentStep, SyncEndsStep DEF Syncs
<1>9. ASSUME NEW k \in Tasks, Handles(k) PROVE Lives
  BY <1>9, ActivatedStep, UndoneStep, CancelWaitingStep, ClosedStep, ExpireStep,
     ExpiredStep, ApplyPolicyStep DEF Handles
<1>10. ASSUME NEW k \in Tasks, RoutineStep(k) PROVE Lives
  BY <1>10, RoutinesKeep
<1>11. QED
  BY <1>1, <1>2, <1>3, <1>4, <1>5, <1>6, <1>7, <1>8, <1>9, <1>10 DEF Next, Engine

\* The ledger, the places of the tasks and the guard of a protection sync fit
\* together in every state.
THEOREM Invariant == Spec => []LifeInv
<1>1. LifeInv /\ [Next]_vars => LifeInv'
  BY NextKeeps DEF Lives
<1>2. QED BY <1>1, InitHolds, PTL DEF Spec

\* What the legs of a ladder have brought in is what remains, what waits for
\* its fills and what was booked.
THEOREM LedgerAlwaysBalances == Spec => []LedgerBalances
<1>1. LifeInv => LedgerBalances
  BY DEF LifeInv, Sound, Balanced, LedgerBalances
<1>2. QED BY <1>1, Invariant, PTL

\* The stop that a trade tracks rests on after a claim of executed orders.
LEMMA ClaimedRests ==
  ASSUME NEW o, NEW n, o \in OrderRecord
  PROVE  Claimed(o, n).state = o.state
BY DEF Claimed, OrderRecord

\* A stop that is sent, or the cancellation of the one it replaces, leaves the
\* stop the trade tracks.
LEMMA StopStays ==
  ASSUME LifeInv, Engine, trade.sl \in Resting(stop), trade'.status = "open"
  PROVE  trade.sl \in Resting(stop')
<1> DEFINE s == trade.sl
<1>1. /\ stop \in [Slots -> OrderRecord] /\ s \in Slots /\ stop[s].state = "rests"
      /\ trade \in TradeRecord
  BY DEF LifeInv, ExchangeSound, Resting, Sound
<1>2. CASE UNCHANGED stop
  BY <1>2
<1>3. ASSUME NEW k \in Tasks, NEW label, NEW next, SubmitStop(k, label, next)
      PROVE  s \in Resting(stop')
  <2>1. \/ UNCHANGED stop
        \/ \E r \in FreeSlots(k) :
             stop' = [stop EXCEPT ![r] = Placed(@, trade.remaining, trade.level)]
    BY <1>3 DEF SubmitStop
  <2>2. ASSUME NEW r \in FreeSlots(k),
               stop' = [stop EXCEPT ![r] = Placed(@, trade.remaining, trade.level)]
        PROVE  s \in Resting(stop')
    <3>1. r # s
      BY <1>1 DEF FreeSlots
    <3>2. QED BY <1>1, <2>2, <3>1 DEF Resting
  <2>3. QED BY <1>2, <2>1, <2>2
<1>4. ASSUME NEW k \in Tasks, VerifyProtection(k) PROVE s \in Resting(stop')
  <2> DEFINE prev == task[k].prev
  <2>1. "verify" \in Labels /\ Runs(k, "verify")
    BY <1>4, LabelsKnown DEF VerifyProtection
  <2>2. Verifies(task[k].stack)
    BY <2>1, Running DEF Verifies
  <2>3. prev = 0 \/ prev # s
    BY <2>2 DEF LifeInv, VerifiesSafely
  <2>4. UNCHANGED stop \/ (prev # 0 /\ stop' = [stop EXCEPT ![prev] = Cancelled(@)])
    BY <1>4 DEF VerifyProtection
  <2> HIDE DEF prev
  <2>5. QED BY <1>1, <1>2, <2>3, <2>4 DEF Resting
<1>5. ASSUME NEW k \in Tasks, CloseAtMarket(k) PROVE UNCHANGED stop
  <2>1. ASSUME NEW left, NEW t, t = ClosedBy(trade, Greater(0, trade.remaining - left)),
               ~IsOpen(t), trade' = [t EXCEPT !.sl = 0]
        PROVE  FALSE
    <3>1. t.status = "closed" /\ trade'.status = t.status
      BY <1>1, <2>1 DEF IsOpen, ClosedBy, TradeRecord
    <3>2. QED BY <3>1
  <2>2. \/ UNCHANGED stop
        \/ \E left \in Leftovers :
             LET t == ClosedBy(trade, Greater(0, trade.remaining - left))
             IN  ~IsOpen(t) /\ trade' = [t EXCEPT !.sl = 0]
    BY <1>5, Zenon DEF CloseAtMarket, CloseRefused, CloseUnanswered
  <2>3. QED BY <2>1, <2>2
<1>6. ASSUME NEW k \in Tasks, SyncBooks(k) PROVE s \in Resting(stop')
  <2> DEFINE v == Unprocessed(View(k))
  <2>1. \/ UNCHANGED stop
        \/ stop' = [r \in Slots |-> IF v.own \/ ~TRUE
                                    THEN Claimed(stop[r], v.stop[r]) ELSE stop[r]]
    BY <1>6 DEF SyncBooks, ClaimFills
  <2> HIDE DEF v
  <2>2. QED BY <1>1, <1>2, <2>1, ClaimedRests DEF Resting
<1>7. ASSUME NEW k \in Tasks, SyncProtects(k) PROVE s \in Resting(stop')
  <2>1. \/ UNCHANGED stop
        \/ stop' = [stop EXCEPT ![s] = Claimed(@, Unprocessed(View(k)).stop[s])]
    BY <1>7 DEF SyncProtects, TargetsDone, StopDone, GapLooked, RetireFirst, exchange
  <2>2. QED BY <1>1, <1>2, <2>1, ClaimedRests DEF Resting
<1>8. ASSUME NEW k \in Tasks, SyncAbsent(k) PROVE s \in Resting(stop')
  <2> DEFINE v == Unprocessed(View(k))
  <2>1. \/ UNCHANGED stop
        \/ stop' = [r \in Slots |-> IF v.own \/ ~FALSE
                                    THEN Claimed(stop[r], v.stop[r]) ELSE stop[r]]
    BY <1>8 DEF SyncAbsent, ClaimFills
  <2> HIDE DEF v
  <2>2. QED BY <1>1, <1>2, <2>1, ClaimedRests DEF Resting
<1>9. ASSUME Expires \/ RetryDue \/ Polls \/ Monitors \/ Prices \/ SyncBegins
       PROVE  UNCHANGED stop
  <2>1. ASSUME Polls PROVE UNCHANGED stop
    BY <2>1 DEF Polls, SubmitLeg, SendLeg, CleanUp, Opened, CloseAsked, Answered, exchange
  <2>2. ASSUME Monitors PROVE UNCHANGED stop
    BY <2>2 DEF Monitors, MonitorLooks, MonitorApplies, exchange
  <2>3. ASSUME Prices PROVE UNCHANGED stop
    BY <2>3 DEF Prices, PriceMeets, RetireForHit, Counted, exchange
  <2>4. ASSUME Expires \/ RetryDue \/ SyncBegins PROVE UNCHANGED stop
    BY <2>4 DEF Expires, RetryDue, SyncBegins, exchange
  <2>5. QED BY <1>9, <2>1, <2>2, <2>3, <2>4
<1>10. ASSUME NEW k \in Tasks, Handles(k) PROVE UNCHANGED stop
  BY <1>10 DEF Handles, Activated, Undone, CancelWaiting, Closed, Expire, Expired,
     ApplyPolicy, exchange
<1>11. ASSUME NEW k \in Tasks, Syncs(k) PROVE s \in Resting(stop')
  <2>1. ASSUME SyncAgain(k) \/ SyncReads(k) \/ SyncHolds(k) \/ SyncEnds(k)
        PROVE  UNCHANGED stop
    BY <2>1 DEF SyncAgain, SyncReads, SyncHolds, SyncEnds, exchange
  <2>2. QED BY <1>2, <1>6, <1>7, <1>8, <1>11, <2>1 DEF Syncs
<1>12. ASSUME NEW k \in Tasks, RoutineStep(k) PROVE s \in Resting(stop')
  <2>1. ASSUME PlanProtection(k) \/ PlaceTargets(k) \/ ProtectionFailed(k) \/ Enforced(k)
               \/ Flattened(k) \/ CloseHalf(k) \/ Rearm(k) \/ Rearmed(k)
        PROVE  UNCHANGED stop
    BY <2>1 DEF PlanProtection, PlaceTargets, ProtectionFailed, Enforced, Flattened,
       CloseHalf, CloseRefused, CloseUnanswered, Rearm, Rearmed, exchange
  <2>2. ASSUME \/ StartClose(k, "close", "market") \/ StartClose(k, "halve", "slice")
               \/ FreeTargets(k, "free", "market") \/ FreeTargets(k, "shave", "slice")
        PROVE  UNCHANGED stop
    BY <2>2 DEF StartClose, FreeTargets
  <2>3. ASSUME FirstStop(k) \/ NewStop(k) PROVE s \in Resting(stop')
    BY <1>3, <2>3 DEF FirstStop, NewStop
  <2>4. QED BY <1>2, <1>4, <1>5, <1>12, <2>1, <2>2, <2>3 DEF RoutineStep
<1>13. QED BY <1>2, <1>9, <1>10, <1>11, <1>12 DEF Engine

\* While the stop that is tracked rests, no routine of the engine leaves a trade
\* with a position without a resting stop.
THEOREM StopIsKept == Spec => StopKept
<1>1. LifeInv /\ [Next]_vars =>
        [ trade.status = "open" /\ trade'.status = "open" /\ position' > 0
          /\ task' # task /\ trade.sl \in Resting(stop)
            => Resting(stop') # {} ]_vars
  <2> SUFFICES ASSUME LifeInv, Next, trade'.status = "open", task' # task,
                      trade.sl \in Resting(stop)
               PROVE  Resting(stop') # {}
    OBVIOUS
  <2>1. Engine
    BY DEF Next, Exchanges
  <2>2. QED BY <2>1, StopStays
<1>2. QED BY <1>1, Invariant, PTL DEF Spec, StopKept
=============================================================================
