------------------------- MODULE TradeLedgerProofs -------------------------
(***************************************************************************)
(* Proofs about what a trade of TradeLifecycle books against what the      *)
(* exchange has executed: every variable keeps its type, no more quantity  *)
(* is booked as closed than was sold, and an account sync leaves no open   *)
(* position without protection.                                            *)
(***************************************************************************)
EXTENDS TradeLifecycleProofs

USE NoneAssumption, TargetsAssumption, AttemptsAssumption

\* What was executed for the trade and nobody has booked yet.
Owed ==
  SumFunctionOnSet([g \in Goals |-> Unclaimed(target[g])], Goals)
    + SumFunctionOnSet([s \in Slots |-> Unclaimed(stop[s])], Slots)
    + Unclaimed(loose)

\* A leg that is planned was not sent, one that was not sent has brought nothing
\* in, and no fill is recorded that the exchange does not have.
LegsBacked ==
  \A i \in Legs :
    /\ leg[i].state = "none" => leg[i].got = 0
    /\ trade.known[i] = "planned" => leg[i].state = "none"
    /\ trade.got[i] <= leg[i].got

\* No more is claimed of an order than was executed, and no snapshot shows more.
Shown(v) ==
  /\ \A g \in Goals : v.target[g] <= target[g].executed
  /\ \A s \in Slots : v.stop[s] <= stop[s].executed
  /\ v.loose <= loose.executed
OrdersBacked ==
  /\ \A g \in Goals : target[g].claimed <= target[g].executed
  /\ \A s \in Slots : stop[s].claimed <= stop[s].executed
  /\ loose.claimed <= loose.executed
ViewsBacked ==
  \A k \in Tasks : \A n \in DOMAIN task[k].views : Shown(task[k].views[n])

\* Nothing applies the entry of a single order late.
Calm == ~(Meets("monitor") \/ Meets("message"))

\* The trades of which BookedIsSold speaks.
Counts ==
  /\ trade.reason = None /\ ~Meets("residual")
  /\ trade.ladder \/ Calm

\* What was sold covers what was booked and what still may be.
SoldCovers ==
  /\ position <= Entered
  /\ Counts => trade.booked + Owed <= Entered - position

\* A single order is then never set anew over what was booked of it.
Cleared == Calm => Clear(trade)

Backed == LifeInv /\ LegsBacked /\ OrdersBacked /\ ViewsBacked /\ SoldCovers

-----------------------------------------------------------------------------
(* Steps.                                                                  *)

\* What a step does: the invariant, and the property.
Advances ==
  Backed' /\ (Counts => trade'.booked <= Entered' - position')

\* Legs are stopped at most, and no order executes or is claimed.
LegsStay == \A i \in Legs : leg'[i] \in {leg[i], Stopped(leg[i])}
OrdersStay ==
  /\ \A g \in Goals : /\ target'[g].executed = target[g].executed
                      /\ target'[g].claimed = target[g].claimed
  /\ \A s \in Slots : /\ stop'[s].executed = stop[s].executed
                      /\ stop'[s].claimed = stop[s].claimed
  /\ UNCHANGED <<loose, position>>

\* Executions only ever grow.
Grown ==
  /\ \A g \in Goals : target[g].executed <= target'[g].executed
  /\ \A s \in Slots : stop[s].executed <= stop'[s].executed
  /\ loose.executed <= loose'.executed

\* A snapshot that shows no more than what is executed after the step.
Fits(v) ==
  /\ \A g \in Goals : v.target[g] <= target'[g].executed
  /\ \A s \in Slots : v.stop[s] <= stop'[s].executed
  /\ v.loose <= loose'.executed

\* A task moves on, with snapshots that fit.
Steps(k) ==
  \E t, s : /\ Continues(k, t, s) /\ "views" \in DOMAIN t
            /\ \A n \in DOMAIN t.views : Fits(t.views[n])

\* The quantities of the orders are natural numbers.
Amounts ==
  /\ \A g \in Goals : target[g].executed \in Nat /\ target[g].claimed \in Nat
  /\ \A s \in Slots : stop[s].executed \in Nat /\ stop[s].claimed \in Nat
  /\ loose.executed \in Nat /\ loose.claimed \in Nat
  /\ \A i \in Legs : leg[i].got \in 0..2
  /\ Entered \in Nat /\ position \in Nat

\* They are so before a step and after it.
LEMMA OrderQuantities == ExchangeSound => Amounts
<1> SUFFICES ASSUME ExchangeSound PROVE Amounts
  OBVIOUS
<1>1. /\ \A g \in Goals : target[g] \in OrderRecord
      /\ \A s \in Slots : stop[s] \in OrderRecord
      /\ \A i \in Legs : leg[i] \in LegRecord
  BY DEF ExchangeSound
<1>2. \A i \in Legs : leg[i].got \in 0..2
  BY <1>1 DEF LegRecord
<1>3. Entered \in Nat
  <2>1. leg[1].got \in 0..2 /\ leg[2].got \in 0..2 /\ leg[3].got \in 0..2
    BY <1>2 DEF Legs
  <2>2. QED BY <2>1 DEF Entered
<1>4. QED BY <1>1, <1>2, <1>3 DEF OrderRecord, ExchangeSound, Amounts

\* The same after the step.
LEMMA LaterQuantities == ExchangeSound' => Amounts'
BY OrderQuantities, PTL

\* A snapshot that was taken before a step fits after it.
LEMMA OldFits ==
  ASSUME Backed, Grown, ExchangeSound', NEW k \in Tasks,
         NEW n \in DOMAIN task[k].views
  PROVE  Fits(task[k].views[n])
<1> DEFINE v == task[k].views[n]
<1>1. Shown(v)
  BY DEF Backed, ViewsBacked
<1>2. v \in ViewRecord
  <2>1. task[k].views \in Seq(ViewRecord)
    BY DEF Backed, LifeInv, TaskRecord
  <2>2. QED BY <2>1
<1>3. /\ \A g \in Goals : v.target[g] \in Nat
      /\ \A s \in Slots : v.stop[s] \in Nat /\ v.loose \in Nat
  BY <1>2 DEF ViewRecord
<1> HIDE DEF v
<1>4. ExchangeSound
  BY DEF Backed, LifeInv
<1>5. /\ \A g \in Goals : target[g].executed \in Nat
      /\ \A s \in Slots : stop[s].executed \in Nat
      /\ loose.executed \in Nat
  BY <1>4, OrderQuantities DEF Amounts
<1>6. /\ \A g \in Goals : target'[g].executed \in Nat
      /\ \A s \in Slots : stop'[s].executed \in Nat
      /\ loose'.executed \in Nat
  BY LaterQuantities DEF Amounts
<1>7. v.loose \in Nat
  BY <1>2 DEF ViewRecord, v
<1>8. Fits(v)
  BY <1>1, <1>3, <1>5, <1>6, <1>7 DEF Shown, Grown, Fits
<1>9. QED BY <1>8 DEF v

\* A task that moves on leaves snapshots that fit, and what the trade may meet.
LEMMA StepsFit ==
  ASSUME Backed, Grown, ExchangeSound', NEW k \in Tasks, Steps(k)
  PROVE  ViewsBacked' /\ meets' = meets
<1>1. PICK t, s : /\ Continues(k, t, s) /\ "views" \in DOMAIN t
                  /\ \A n \in DOMAIN t.views : Fits(t.views[n])
  BY DEF Steps
<1> DEFINE u == IF s = <<>> THEN Idle ELSE [t EXCEPT !.stack = s]
<1>2. task' = [task EXCEPT ![k] = u] /\ meets' = meets
  BY <1>1 DEF Continues, Leave
<1>3. \A n \in DOMAIN u.views : Fits(u.views[n])
  <2>1. CASE s = <<>>
    <3>1. u.views = <<>>
      BY <2>1 DEF Idle
    <3>2. QED BY <3>1
  <2>2. CASE s # <<>>
    <3>1. u.views = t.views
      BY <1>1, <2>2
    <3>2. QED BY <1>1, <3>1
  <2>3. QED BY <2>1, <2>2
<1> HIDE DEF u
<1>4. task \in [Tasks -> TaskRecord]
  BY DEF Backed, LifeInv
<1>5. ASSUME NEW j \in Tasks, NEW n \in DOMAIN task'[j].views
      PROVE  Fits(task'[j].views[n])
  <2>1. CASE j = k
    BY <1>2, <1>3, <1>4, <1>5, <2>1
  <2>2. CASE j # k
    <3>1. task'[j] = task[j]
      BY <1>2, <1>4, <2>2
    <3>2. n \in DOMAIN task[j].views
      BY <1>5, <3>1
    <3>3. Fits(task[j].views[n])
      BY <3>2, OldFits
    <3>4. QED BY <3>1, <3>3
  <2>3. QED BY <2>1, <2>2
<1>6. QED BY <1>2, <1>5 DEF ViewsBacked, Fits, Shown

\* Most calls keep the snapshots of their task.
LEMMA CallsFit ==
  ASSUME Backed, Grown, ExchangeSound', NEW k \in Tasks
  PROVE  /\ \A t, labels : /\ Becomes(k, t, labels) /\ t.views = task[k].views
                           /\ "views" \in DOMAIN t
                           => Steps(k)
         /\ \A labels : Goto(k, labels) => Steps(k)
         /\ \A ok : Return(k, ok) => Steps(k)
         /\ \A labels : Taken(k, labels) => Steps(k)
         /\ Fails(k) => Steps(k)
         /\ Refresh(k) => Steps(k)
         /\ Abort(k) => Steps(k)
<1>1. task[k] \in TaskRecord /\ "views" \in DOMAIN task[k]
  BY DEF Backed, LifeInv, TaskRecord
<1>2. ASSUME NEW t, NEW labels, Becomes(k, t, labels), t.views = task[k].views,
             "views" \in DOMAIN t
      PROVE  Steps(k)
  <2>1. \A n \in DOMAIN t.views : Fits(t.views[n])
    BY <1>2, OldFits
  <2>2. QED BY <1>2, <2>1 DEF Steps, Becomes
<1>3. ASSUME NEW labels, Goto(k, labels) PROVE Steps(k)
  BY <1>1, <1>2, <1>3 DEF Goto
<1>4. ASSUME NEW ok, Return(k, ok) PROVE Steps(k)
  <2> DEFINE t == [task[k] EXCEPT !.ok = ok, !.prev = 0, !.todo = NoQty]
  <2>1. t.views = task[k].views /\ "views" \in DOMAIN t
    BY <1>1 DEF TaskRecord
  <2>2. QED BY <1>2, <1>4, <2>1 DEF Return
<1>5. ASSUME NEW labels, Taken(k, labels) PROVE Steps(k)
  <2> DEFINE t == [task[k] EXCEPT !.ok = TRUE]
  <2>1. t.views = task[k].views /\ "views" \in DOMAIN t
    BY <1>1 DEF TaskRecord
  <2>2. QED BY <1>2, <1>5, <2>1 DEF Taken
<1>6. ASSUME Fails(k) PROVE Steps(k)
  <2> DEFINE t == [task[k] EXCEPT !.prev = 0, !.todo = NoQty]
  <2>1. t.views = task[k].views /\ "views" \in DOMAIN t
    BY <1>1 DEF TaskRecord
  <2>2. QED BY <1>2, <1>6, <2>1 DEF Fails
<1>7. ASSUME Refresh(k) PROVE Steps(k)
  <2> DEFINE t == [task[k] EXCEPT !.ok = TRUE, !.prev = 0, !.todo = NoQty]
  <2>1. t.views = task[k].views /\ "views" \in DOMAIN t
    BY <1>1 DEF TaskRecord
  <2>2. QED BY <1>2, <1>7, <2>1 DEF Refresh
<1>8. \A n \in DOMAIN EarlierViews(k) : Fits(EarlierViews(k)[n])
  <2>1. task[k].views \in Seq(ViewRecord)
    BY <1>1 DEF TaskRecord
  <2>2. ASSUME NEW n \in DOMAIN EarlierViews(k)
        PROVE  /\ n + 1 \in DOMAIN task[k].views
               /\ EarlierViews(k)[n] = task[k].views[n + 1]
    BY <2>1, <2>2 DEF EarlierViews
  <2>3. QED BY <2>2, OldFits
<1>9. ASSUME Abort(k) PROVE Steps(k)
  <2> DEFINE stack == task[k].stack
             ends == {i \in DOMAIN stack : stack[i] = "synced"}
             rest == IF ends = {} THEN <<>>
                     ELSE SubSeq(stack, 1 + CHOOSE i \in ends : \A j \in ends : i <= j,
                                 Len(stack))
             views == IF ends = {} THEN <<>> ELSE EarlierViews(k)
             t == [Idle EXCEPT !.aim = task[k].aim, !.views = views]
  <2>1. Continues(k, t, rest)
    BY <1>9 DEF Abort, Idle
  <2>2. \A n \in DOMAIN views : Fits(views[n])
    BY <1>8
  <2> HIDE DEF views, rest
  <2>3. "views" \in DOMAIN t /\ t.views = views
    BY DEF Idle
  <2> HIDE DEF t
  <2>4. QED BY <2>1, <2>2, <2>3 DEF Steps
<1>10. QED BY <1>2, <1>3, <1>4, <1>5, <1>6, <1>7, <1>9

\* A step keeps the ledger when its quantities fit.
LEMMA Assembled ==
  ASSUME Backed, Lives, ViewsBacked', OrdersBacked', meets' = meets,
         \A i \in Legs : /\ leg[i].got <= leg'[i].got
                         /\ leg'[i].state = "none" => leg'[i].got = 0
                         /\ trade'.known[i] = "planned" => leg'[i].state = "none",
         position' <= Entered',
         Counts /\ Counts' => trade'.booked + Owed' <= Entered' - position'
  PROVE  Backed'
<1>1. LifeInv' /\ Keeps(trade, trade') /\ LifeInv
  BY DEF Lives, Backed
<1>2. \A i \in Legs : /\ leg[i].got \in 0..2 /\ leg'[i].got \in 0..2
                      /\ trade.got[i] \in 0..2
  BY <1>1, OrderQuantities, LaterQuantities DEF Amounts, LifeInv, Sound, TradeRecord
<1>3. LegsBacked'
  <2>1. ASSUME NEW i \in Legs PROVE trade'.got[i] <= leg'[i].got
    <3>1. trade'.got[i] = trade.got[i] \/ trade'.got[i] <= leg'[i].got
      BY <1>1 DEF Keeps, Grows, Records
    <3>2. trade.got[i] <= leg[i].got
      BY DEF Backed, LegsBacked
    <3>3. QED BY <1>2, <3>1, <3>2
  <2>2. QED BY <2>1 DEF LegsBacked
<1>4. Counts' => Counts
  BY <1>1 DEF Counts, Calm, Meets, Keeps, Grows, Records
<1>5. SoldCovers'
  BY <1>4 DEF SoldCovers
<1>6. QED BY <1>1, <1>3, <1>5 DEF Backed

\* Nothing is executed when the orders stay.
LEMMA StayGrown ==
  ASSUME Backed, Lives, OrdersStay
  PROVE  Grown /\ ExchangeSound'
<1>1. ExchangeSound /\ ExchangeSound'
  BY DEF Backed, LifeInv, Lives
<1>2. QED BY <1>1, OrderQuantities DEF OrdersStay, Grown, Amounts

\* What has come in is the same when legs are stopped at most.
LEMMA LegsStayed ==
  ASSUME ExchangeSound, LegsStay
  PROVE  /\ \A i \in Legs : /\ leg'[i].got = leg[i].got
                            /\ leg'[i].state = "none" <=> leg[i].state = "none"
         /\ Entered' = Entered
<1>1. ASSUME NEW i \in Legs
      PROVE  /\ leg'[i].got = leg[i].got
             /\ leg'[i].state = "none" <=> leg[i].state = "none"
  <2>1. leg[i] \in LegRecord /\ leg'[i] \in {leg[i], Stopped(leg[i])}
    BY DEF ExchangeSound, LegsStay
  <2>2. Stopped(leg[i]).got = leg[i].got
        /\ (Stopped(leg[i]).state = "none" <=> leg[i].state = "none")
    BY <2>1 DEF Stopped, LegRecord
  <2>3. QED BY <2>1, <2>2
<1>2. leg'[1].got = leg[1].got /\ leg'[2].got = leg[2].got /\ leg'[3].got = leg[3].got
  BY <1>1 DEF Legs
<1>3. QED BY <1>1, <1>2 DEF Entered

\* Nothing more is owed when the orders stay.
LEMMA OwedStays ==
  ASSUME OrdersStay
  PROVE  Owed' = Owed
<1> DEFINE f == [g \in Goals |-> Unclaimed(target[g])]
           g == [s \in Slots |-> Unclaimed(stop[s])]
           h == [x \in Goals |-> Unclaimed(target'[x])]
           l == [s \in Slots |-> Unclaimed(stop'[s])]
<1>1. f = h /\ g = l /\ loose' = loose
  BY DEF OrdersStay, Unclaimed
<1>2. Owed = SumFunctionOnSet(f, Goals) + SumFunctionOnSet(g, Slots) + Unclaimed(loose)
  BY DEF Owed
<1>3. Owed' = SumFunctionOnSet(h, Goals) + SumFunctionOnSet(l, Slots) + Unclaimed(loose')
  BY DEF Owed
<1> HIDE DEF f, g, h, l
<1>4. QED BY <1>1, <1>2, <1>3

\* There are finitely many targets and stops.
LEMMA GoalsFinite == IsFiniteSet(Goals) /\ IsFiniteSet(Slots)
<1>1. 1 \in Int /\ 3 \in Int /\ MaxTargets \in Int
  OBVIOUS
<1>2. IsFiniteSet(1..MaxTargets) /\ IsFiniteSet(1..3)
  BY <1>1, FS_Interval, Zenon
<1>3. QED BY <1>2 DEF Goals, Slots

\* What is owed is a natural number.
OwedIsKnown == Owed \in Nat
LEMMA OwedIsNat == ExchangeSound /\ OrdersBacked => OwedIsKnown
<1> SUFFICES ASSUME ExchangeSound, OrdersBacked PROVE Owed \in Nat
  BY DEF OwedIsKnown
<1> DEFINE f == [g \in Goals |-> Unclaimed(target[g])]
           h == [s \in Slots |-> Unclaimed(stop[s])]
<1>1. Amounts
  BY OrderQuantities
<1>2. (\A g \in Goals : f[g] \in Nat) /\ (\A s \in Slots : h[s] \in Nat)
      /\ Unclaimed(loose) \in Nat
  BY <1>1 DEF Amounts, OrdersBacked, Unclaimed
<1>3. Owed = SumFunctionOnSet(f, Goals) + SumFunctionOnSet(h, Slots) + Unclaimed(loose)
  BY DEF Owed
<1> HIDE DEF f, h
<1>4. SumFunctionOnSet(f, Goals) \in Nat /\ SumFunctionOnSet(h, Slots) \in Nat
  BY <1>2, GoalsFinite, SumType
<1>5. QED BY <1>2, <1>3, <1>4

\* The same after the step.
LEMMA OwedIsNatLater == ExchangeSound' /\ OrdersBacked' => OwedIsKnown'
BY OwedIsNat, PTL

\* A step whose quantities fit has the property, too.
LEMMA Covered ==
  ASSUME Backed, Backed', Counts => trade'.booked + Owed' <= Entered' - position'
  PROVE  Advances
<1>1. Owed' \in Nat /\ Amounts' /\ trade'.booked \in Nat
  <2>1. ExchangeSound' /\ OrdersBacked' /\ Sound(trade')
    BY DEF Backed, LifeInv
  <2>2. trade'.booked \in Nat
    BY <2>1, Quantities DEF Sound
  <2>3. QED BY <2>1, <2>2, OwedIsNatLater, LaterQuantities DEF OwedIsKnown
<1>2. Entered' \in Nat /\ position' \in Nat
  BY <1>1 DEF Amounts
<1>3. QED BY <1>1, <1>2 DEF Advances

\* A step without a fill, a claim or a booking.
LEMMA Unmoved ==
  ASSUME Backed, Lives, LegsStay, OrdersStay, trade'.booked = trade.booked,
         ViewsBacked', meets' = meets
  PROVE  Advances
<1>1. ExchangeSound /\ ExchangeSound'
  BY DEF Backed, LifeInv, Lives
<1>2. /\ \A i \in Legs : /\ leg'[i].got = leg[i].got
                         /\ leg'[i].state = "none" <=> leg[i].state = "none"
      /\ Entered' = Entered
  BY <1>1, LegsStayed
<1>3. Amounts
  BY <1>1, OrderQuantities
<1>4. OrdersBacked'
  BY DEF Backed, OrdersBacked, OrdersStay
<1>5. \A i \in Legs : /\ leg[i].got <= leg'[i].got
                      /\ leg'[i].state = "none" => leg'[i].got = 0
                      /\ trade'.known[i] = "planned" => leg'[i].state = "none"
  <2> SUFFICES ASSUME NEW i \in Legs
               PROVE  /\ leg[i].got <= leg'[i].got
                      /\ leg'[i].state = "none" => leg'[i].got = 0
                      /\ trade'.known[i] = "planned" => leg'[i].state = "none"
    OBVIOUS
  <2>1. trade'.known[i] = "planned" => trade.known[i] = "planned"
    BY DEF Lives, Keeps, Grows, Records
  <2>2. /\ leg[i].state = "none" => leg[i].got = 0
        /\ trade.known[i] = "planned" => leg[i].state = "none"
    BY DEF Backed, LegsBacked
  <2>3. QED BY <1>2, <1>3, <2>1, <2>2 DEF Amounts
<1>6. position' <= Entered' /\ (Counts => trade'.booked + Owed' <= Entered' - position')
  <2>1. Owed' = Owed /\ position' = position
    BY OwedStays DEF OrdersStay
  <2>2. QED BY <1>2, <2>1 DEF Backed, SoldCovers
<1>7. Backed'
  BY <1>4, <1>5, <1>6, Assembled
<1>8. QED BY <1>6, <1>7, Covered

\* The same for a task that moves on.
LEMMA Quietly ==
  ASSUME Backed, Lives, LegsStay, OrdersStay, trade'.booked = trade.booked,
         NEW k \in Tasks, Steps(k)
  PROVE  Advances
BY StayGrown, StepsFit, Unmoved

\* Nothing of the exchange changes.
LEMMA ExchangeStays ==
  ASSUME UNCHANGED exchange
  PROVE  LegsStay /\ OrdersStay
BY DEF exchange, LegsStay, OrdersStay

-----------------------------------------------------------------------------
(* What books nothing.                                                     *)

\* The changes of the record without a booking.
SameBook(t, u) == "booked" \in DOMAIN u /\ u.booked = t.booked
\* Whatever leaves the booked quantity as it is books nothing.
LEMMA NothingBooked ==
  ASSUME NEW t, "booked" \in DOMAIN t
  PROVE  /\ SameBook(t, t)
         /\ \A v : SameBook(t, WithRangeFills(t, v))
         /\ \A n : SameBook(t, WithEntry(t, n))
         /\ \A q : SameBook(t, WithPosition(t, q))
         /\ SameBook(t, WithMiss(t)) /\ SameBook(t, WithoutMiss(t))
         /\ SameBook(t, Finalized(t)) /\ SameBook(t, Untracked(t))
         /\ SameBook(t, Unfilled(t)) /\ SameBook(t, ClosedMissing(t))
         /\ SameBook(t, RetryLater(t)) /\ SameBook(t, Advanced(t))
         /\ SameBook(t, WithDefaults(t))
         /\ \A sl : SameBook(t, Refreshed(t, sl))
         /\ \A k, seen : SameBook(t, Detached(k, t, seen))
         /\ \A k : SameBook(t, PositionShown(k, t))
<1>1. \A v : SameBook(t, WithRangeFills(t, v))
  BY DEF SameBook, WithRangeFills
<1>2. \A n : SameBook(t, WithEntry(t, n))
  BY DEF SameBook, WithEntry
<1>3. \A q : SameBook(t, WithPosition(t, q))
  BY DEF SameBook, WithPosition
<1>4. /\ SameBook(t, WithMiss(t)) /\ SameBook(t, WithoutMiss(t))
      /\ SameBook(t, Finalized(t)) /\ SameBook(t, Untracked(t))
      /\ SameBook(t, Unfilled(t)) /\ SameBook(t, ClosedMissing(t))
  BY DEF SameBook, WithMiss, WithoutMiss, Finalized, Untracked, Unfilled, ClosedMissing
<1>5. /\ SameBook(t, RetryLater(t)) /\ SameBook(t, Advanced(t))
      /\ SameBook(t, WithDefaults(t)) /\ SameBook(t, t)
      /\ \A sl : SameBook(t, Refreshed(t, sl))
  BY DEF SameBook, RetryLater, Advanced, WithDefaults, Refreshed
<1>6. \A k, seen : SameBook(t, Detached(k, t, seen))
  BY DEF SameBook, Detached
<1>7. \A k : SameBook(t, PositionShown(k, t))
  BY DEF SameBook, PositionShown, WithPosition, WithoutMiss
<1>8. QED BY <1>1, <1>2, <1>3, <1>4, <1>5, <1>6, <1>7

\* The record of the trade has what was booked.
LEMMA HasBook ==
  ASSUME Backed
  PROVE  "booked" \in DOMAIN trade
BY DEF Backed, LifeInv, Sound, TradeRecord

\* Cancellations of entry legs.
LEMMA LegsCancelled ==
  ASSUME Backed
  PROVE  /\ \A t, I, F : CancelLegs(t, I, F) => LegsStay
         /\ \A t, I, F, why : EndsUnfilled(t, I, F, why) => LegsStay
         /\ StopFilling => LegsStay
         /\ UNCHANGED leg => LegsStay
         /\ UNCHANGED <<target, stop, loose, position>> => OrdersStay
<1>1. leg \in [Legs -> LegRecord]
  BY DEF Backed, LifeInv, ExchangeSound
<1>2. \A t, I, F : CancelLegs(t, I, F) => LegsStay
  BY DEF CancelLegs, LegsStay
<1>3. \A t, I, F, why : EndsUnfilled(t, I, F, why) => LegsStay
  BY DEF EndsUnfilled, LegsStay
<1>4. StopFilling => LegsStay
  BY <1>1 DEF StopFilling, LegsStay
<1>5. /\ UNCHANGED leg => LegsStay
      /\ UNCHANGED <<target, stop, loose, position>> => OrdersStay
  BY DEF LegsStay, OrdersStay
<1>6. QED BY <1>2, <1>3, <1>4, <1>5

\* Neither a cancellation of legs nor the end without a fill books anything.
LEMMA CancelBooksNothing ==
  ASSUME NEW t, "booked" \in DOMAIN t
  PROVE  /\ \A I, F : CancelLegs(t, I, F) => trade'.booked = t.booked
         /\ \A I, F, why : EndsUnfilled(t, I, F, why) => trade'.booked = t.booked
<1>1. ASSUME NEW I, NEW F, CancelLegs(t, I, F) PROVE trade'.booked = t.booked
  <2> DEFINE v == LegsShown({i \in Legs \ F : t.known[i] \notin {"planned", "unsent"}})
  <2>1. SameBook(t, WithRangeFills(t, v))
    BY NothingBooked
  <2>2. \/ trade' = WithRangeFills(t, v)
        \/ trade' = [WithRangeFills(t, v) EXCEPT !.issues = @ \union {"reconcile"}]
    BY <1>1 DEF CancelLegs
  <2> HIDE DEF v
  <2>3. QED BY <2>1, <2>2 DEF SameBook
<1>2. ASSUME NEW I, NEW F, NEW why, EndsUnfilled(t, I, F, why)
      PROVE  trade'.booked = t.booked
  <2>1. SameBook(t, Unfilled(t)) /\ trade' = [Unfilled(t) EXCEPT !.reason = why]
    BY <1>2, NothingBooked DEF EndsUnfilled
  <2>2. QED BY <2>1 DEF SameBook
<1>3. QED BY <1>1, <1>2

-----------------------------------------------------------------------------
(* The steps that book nothing.                                            *)

\* A task moves on with the snapshots it has, or without the innermost one.
Moves(k) ==
  \/ \E labels : Goto(k, labels) \/ Taken(k, labels)
  \/ \E ok : Return(k, ok)
  \/ Fails(k) \/ Refresh(k) \/ Abort(k)
  \/ \E t, labels : /\ Becomes(k, t, labels) /\ t.views = task[k].views
                    /\ "views" \in DOMAIN t

\* A step that leaves legs, orders, position and the booked quantity alone advances
\* the ledger.
LEMMA Moving ==
  ASSUME Backed, Lives, LegsStay, OrdersStay, trade'.booked = trade.booked,
         NEW k \in Tasks, Moves(k)
  PROVE  Advances
<1>1. Grown /\ ExchangeSound'
  BY StayGrown
<1>2. Steps(k)
  BY <1>1, CallsFit DEF Moves
<1>3. QED BY <1>2, Quietly

\* What the engine's calls leave of an order.
LEMMA OrderLeft ==
  ASSUME NEW o \in OrderRecord
  PROVE  /\ Cancelled(o).executed = o.executed /\ Cancelled(o).claimed = o.claimed
         /\ \A q, l : /\ Placed(o, q, l).executed = o.executed
                      /\ Placed(o, q, l).claimed = o.claimed
BY DEF OrderRecord, Cancelled, Removed, Placed

\* The locals of a routine change, its snapshots do not.
LEMMA LocalsMove ==
  ASSUME Backed, NEW k \in Tasks
  PROVE  /\ "views" \in DOMAIN task[k]
         /\ \A q, labels : Becomes(k, [task[k] EXCEPT !.todo = q], labels) => Moves(k)
         /\ \A q, p, labels : Becomes(k, [task[k] EXCEPT !.todo = q, !.prev = p], labels)
                                => Moves(k)
         /\ \A labels : Becomes(k, [task[k] EXCEPT !.tries = @ + 1], labels) => Moves(k)
         /\ \A labels : Becomes(k, [task[k] EXCEPT !.tries = 0, !.ok = FALSE], labels)
                          => Moves(k)
<1>1. "views" \in DOMAIN task[k]
  BY DEF Backed, LifeInv, TaskRecord
<1>2. ASSUME NEW q, NEW labels, Becomes(k, [task[k] EXCEPT !.todo = q], labels)
      PROVE  Moves(k)
  BY <1>1, <1>2 DEF Moves
<1>3. ASSUME NEW q, NEW p, NEW labels,
             Becomes(k, [task[k] EXCEPT !.todo = q, !.prev = p], labels)
      PROVE  Moves(k)
  <2> DEFINE t == [task[k] EXCEPT !.todo = q, !.prev = p]
  <2>1. t.views = task[k].views /\ "views" \in DOMAIN t /\ Becomes(k, t, labels)
    BY <1>1, <1>3
  <2> HIDE DEF t
  <2>2. QED BY <2>1 DEF Moves
<1>4. ASSUME NEW labels, Becomes(k, [task[k] EXCEPT !.tries = @ + 1], labels)
      PROVE  Moves(k)
  BY <1>1, <1>4 DEF Moves
<1>5. ASSUME NEW labels, Becomes(k, [task[k] EXCEPT !.tries = 0, !.ok = FALSE], labels)
      PROVE  Moves(k)
  <2> DEFINE t == [task[k] EXCEPT !.tries = 0, !.ok = FALSE]
  <2>1. t.views = task[k].views /\ "views" \in DOMAIN t /\ Becomes(k, t, labels)
    BY <1>1, <1>5
  <2> HIDE DEF t
  <2>2. QED BY <2>1 DEF Moves
<1>6. QED BY <1>1, <1>2, <1>3, <1>4, <1>5

\* Handlers between the routines.
LEMMA HandlersAdvance ==
  ASSUME Backed, Lives, NEW k \in Tasks,
         Activated(k) \/ Undone(k) \/ Closed(k) \/ Expired(k) \/ Enforced(k)
           \/ Flattened(k) \/ Rearm(k) \/ Rearmed(k) \/ Counted(k)
  PROVE  Advances
<1>1. UNCHANGED exchange
  BY DEF Activated, Undone, Closed, Expired, Enforced, Flattened, Rearm, Rearmed, Counted
<1>2. Moves(k)
  BY DEF Activated, Undone, Closed, Expired, Enforced, Flattened, Rearm, Rearmed, Counted,
         Moves
<1>3. trade'.booked = trade.booked
  <2>1. "booked" \in DOMAIN trade
    BY HasBook
  <2>2. SameBook(trade, Finalized(trade)) /\ SameBook(trade, RetryLater(trade))
    BY <2>1, NothingBooked
  <2>3. ASSUME Counted(k) PROVE trade'.booked = trade.booked
    <3> DEFINE t == [trade EXCEPT !.hits = Lesser(MaxTargets, @ + 1),
                                  !.level = task[k].aim]
    <3>1. SameBook(trade, t)
      BY <2>1 DEF SameBook
    <3>2. trade' \in {trade, t, Finalized(t)}
      BY <2>3 DEF Counted
    <3> HIDE DEF t
    <3>3. SameBook(t, Finalized(t))
      BY <3>1, NothingBooked DEF SameBook
    <3>4. QED BY <3>1, <3>2, <3>3 DEF SameBook
  <2>4. ASSUME Undone(k) \/ Expired(k) PROVE trade'.booked = trade.booked
    BY <2>1, <2>4 DEF Undone, Expired
  <2>5. ASSUME Activated(k) \/ Closed(k) \/ Enforced(k) \/ Flattened(k) \/ Rearm(k)
               \/ Rearmed(k)
        PROVE  trade'.booked = trade.booked
    <3>1. trade' \in {trade, Finalized(trade), RetryLater(trade)}
      BY <2>5 DEF Activated, Closed, Enforced, Flattened, Rearm, Rearmed
    <3>2. QED BY <2>2, <3>1 DEF SameBook
  <2>6. QED BY <2>3, <2>4, <2>5
<1>4. QED BY <1>1, <1>2, <1>3, ExchangeStays, Moving

\* Orders that are placed or cancelled execute nothing.
LEMMA OrdersKeep ==
  ASSUME Backed, UNCHANGED <<loose, position>>,
         \A g \in Goals : \/ target'[g] \in {target[g], Cancelled(target[g])}
                          \/ \E q, l : target'[g] = Placed(target[g], q, l),
         \A s \in Slots : \/ stop'[s] \in {stop[s], Cancelled(stop[s])}
                          \/ \E q, l : stop'[s] = Placed(stop[s], q, l)
  PROVE  OrdersStay
<1>1. /\ \A g \in Goals : target[g] \in OrderRecord
      /\ \A s \in Slots : stop[s] \in OrderRecord
  BY DEF Backed, LifeInv, ExchangeSound
<1>2. ASSUME NEW g \in Goals
      PROVE  target'[g].executed = target[g].executed /\ target'[g].claimed = target[g].claimed
  BY <1>1, OrderLeft
<1>3. ASSUME NEW s \in Slots
      PROVE  stop'[s].executed = stop[s].executed /\ stop'[s].claimed = stop[s].claimed
  BY <1>1, OrderLeft
<1>4. QED BY <1>2, <1>3 DEF OrdersStay

\* The protection sync.
LEMMA PlanAdvances ==
  ASSUME Backed, Lives, NEW k \in Tasks, PlanProtection(k)
  PROVE  Advances
<1>1. UNCHANGED <<leg, stop, loose, position>>
  BY DEF PlanProtection
<1>2. target \in [Goals -> OrderRecord] /\ stop \in [Slots -> OrderRecord]
  BY DEF Backed, LifeInv, ExchangeSound
<1>3. CASE UNCHANGED <<target, trade>> /\ (Return(k, TRUE) \/ Fails(k))
  <2>1. Moves(k)
    BY <1>3 DEF Moves
  <2>2. QED BY <1>1, <1>3, <2>1, ExchangeStays, Moving DEF exchange
<1>4. CASE ~(UNCHANGED <<target, trade>> /\ (Return(k, TRUE) \/ Fails(k)))
  <2>1. PICK sl \in StopsShown(stop, trade.sl), F \in OneOf(Resting(target), CancelFails) :
             LET t == [Advanced(WithDefaults(trade)) EXCEPT
                         !.sl = sl, !.tps = {}]
                 u == [t EXCEPT !.need = Cardinality(PlannedTargets(t))]
             IN  /\ target' = [g \in Goals |-> IF g \in F THEN target[g]
                                               ELSE Cancelled(target[g])]
                 /\ trade' = u
                 /\ IF F # {} THEN Fails(k)
                    ELSE Becomes(k, [task[k] EXCEPT !.todo = PlanTargets(t),
                                                    !.prev = sl],
                                 IF sl = 0 THEN <<"stop">> ELSE <<"targets">>)
    BY <1>4 DEF PlanProtection
  <2> DEFINE d == Advanced(WithDefaults(trade))
             t == [d EXCEPT !.sl = sl, !.tps = {}]
             u == [t EXCEPT !.need = Cardinality(PlannedTargets(t))]
  <2>2. SameBook(trade, d)
    BY HasBook, NothingBooked DEF SameBook
  <2>3. /\ \A g \in Goals : target'[g] \in {target[g], Cancelled(target[g])}
        /\ trade' = u
    BY <2>1, Zenon
  <2>4. Fails(k) \/ \E q, labels : Becomes(k, [task[k] EXCEPT !.todo = q, !.prev = sl], labels)
    BY <2>1, Zenon
  <2>5. Moves(k)
    BY <2>4, LocalsMove DEF Moves
  <2>6. trade'.booked = trade.booked
    <3> HIDE DEF d
    <3>1. t.booked = d.booked /\ u.booked = d.booked
      BY <2>2 DEF SameBook
    <3>2. QED BY <2>2, <2>3, <3>1 DEF SameBook
  <2>7. OrdersStay
    BY <1>1, <2>3, OrdersKeep
  <2>8. LegsStay
    BY <1>1 DEF LegsStay
  <2>9. QED BY <2>5, <2>6, <2>7, <2>8, Moving
<1>5. QED BY <1>3, <1>4

\* The orders that protect the trade are sent.
LEMMA PlacedAdvances ==
  ASSUME Backed, Lives, NEW k \in Tasks, FirstStop(k) \/ NewStop(k) \/ PlaceTargets(k)
  PROVE  Advances
<1>1. UNCHANGED <<leg, loose, position>>
  BY DEF FirstStop, NewStop, SubmitStop, PlaceTargets
<1>2. target \in [Goals -> OrderRecord] /\ stop \in [Slots -> OrderRecord]
  BY DEF Backed, LifeInv, ExchangeSound
<1>3. "booked" \in DOMAIN trade
  BY HasBook
<1>4. CASE FirstStop(k) \/ NewStop(k)
  <2>1. PICK label, next : SubmitStop(k, label, next)
    BY <1>4 DEF FirstStop, NewStop
  <2>2. Moves(k) /\ trade'.booked = trade.booked
    BY <1>3, <2>1 DEF SubmitStop, Moves
  <2>3. UNCHANGED target
    BY <2>1 DEF SubmitStop
  <2>4. \A s \in Slots : \/ stop'[s] = stop[s]
                         \/ \E q, l : stop'[s] = Placed(stop[s], q, l)
    BY <1>2, <2>1 DEF SubmitStop
  <2>5. OrdersStay
    BY <1>1, <2>3, <2>4, OrdersKeep
  <2>6. QED BY <1>1, <2>2, <2>5, Moving DEF LegsStay
<1>5. CASE PlaceTargets(k)
  <2>1. UNCHANGED stop
    BY <1>5 DEF PlaceTargets
  <2>2. trade'.booked = trade.booked
    BY <1>3, <1>5 DEF PlaceTargets
  <2>3. Moves(k)
    <3>1. Fails(k) \/ \E labels : Becomes(k, [task[k] EXCEPT !.todo = NoQty], labels)
      BY <1>5, Zenon DEF PlaceTargets
    <3>2. QED BY <3>1, LocalsMove DEF Moves
  <2>4. ASSUME NEW g \in Goals
        PROVE  target'[g] = target[g] \/ \E q, l : target'[g] = Placed(target[g], q, l)
    <3>1. PICK placed :
              target' = [h \in Goals |-> IF h \in placed
                                         THEN Placed(target[h], task[k].todo[h], h)
                                         ELSE target[h]]
      BY <1>5, Zenon DEF PlaceTargets
    <3>2. target'[g] \in {target[g], Placed(target[g], task[k].todo[g], g)}
      BY <3>1
    <3>3. QED BY <3>2
  <2>5. OrdersStay
    BY <1>1, <2>1, <2>4, OrdersKeep
  <2>6. QED BY <1>1, <2>2, <2>3, <2>5, Moving DEF LegsStay
<1>6. QED BY <1>4, <1>5

\* Protection is verified, or found missing.
LEMMA VerifiedAdvances ==
  ASSUME Backed, Lives, NEW k \in Tasks, VerifyProtection(k) \/ ProtectionFailed(k)
  PROVE  Advances
<1>1. UNCHANGED <<leg, target, loose, position>>
  BY DEF VerifyProtection, ProtectionFailed, exchange
<1>2. stop \in [Slots -> OrderRecord]
  BY DEF Backed, LifeInv, ExchangeSound
<1>3. \A s \in Slots : stop'[s] \in {stop[s], Cancelled(stop[s])}
  BY <1>2 DEF VerifyProtection, ProtectionFailed, exchange
<1>4. OrdersStay
  BY <1>1, <1>3, OrdersKeep
<1>5. Moves(k)
  <2>1. \/ Fails(k) \/ Return(k, TRUE)
        \/ \E labels : Becomes(k, [task[k] EXCEPT !.tries = @ + 1], labels)
        \/ \E labels : Becomes(k, [task[k] EXCEPT !.tries = 0, !.ok = FALSE], labels)
    BY Zenon DEF VerifyProtection, ProtectionFailed
  <2>2. QED BY <2>1, LocalsMove DEF Moves
<1>6. trade'.booked = trade.booked
  <2>1. \A sl : SameBook(trade, Refreshed(trade, sl))
    BY HasBook, NothingBooked
  <2>2. \/ trade' = trade
        \/ \E sl : \/ trade' = Refreshed(trade, sl)
                   \/ trade' = [Refreshed(trade, sl) EXCEPT
                                  !.deferred = FALSE, !.issues = @ \ {"protection"}]
    BY Zenon DEF VerifyProtection, ProtectionFailed
  <2>3. ASSUME NEW sl,
               \/ trade' = Refreshed(trade, sl)
               \/ trade' = [Refreshed(trade, sl) EXCEPT
                              !.deferred = FALSE, !.issues = @ \ {"protection"}]
        PROVE  trade'.booked = trade.booked
    <3> DEFINE t == Refreshed(trade, sl)
               u == [t EXCEPT !.deferred = FALSE, !.issues = @ \ {"protection"}]
    <3>1. "booked" \in DOMAIN t /\ t.booked = trade.booked
      BY <2>1 DEF SameBook
    <3>2. trade' = t \/ trade' = u
      BY <2>3
    <3> HIDE DEF t
    <3>3. u.booked = t.booked
      BY <3>1
    <3>4. QED BY <3>1, <3>2, <3>3
  <2>4. QED BY <2>2, <2>3, Zenon
<1>7. QED BY <1>1, <1>4, <1>5, <1>6, Moving DEF LegsStay

\* Before a closing order.
LEMMA CloseStarts ==
  ASSUME Backed, Lives, NEW k \in Tasks,
         \/ StartClose(k, "close", "market") \/ StartClose(k, "halve", "slice")
         \/ FreeTargets(k, "free", "market") \/ FreeTargets(k, "shave", "slice")
  PROVE  Advances
<1>1. "booked" \in DOMAIN trade
  BY HasBook
<1>2. ASSUME NEW label, NEW next, StartClose(k, label, next) PROVE Advances
  <2>1. Moves(k)
    BY <1>2, Zenon DEF StartClose, Moves
  <2>2. UNCHANGED <<stop, loose, position>>
    BY <1>2 DEF StartClose
  <2>3. \A g \in Goals : target'[g] \in {target[g], Cancelled(target[g])}
    BY <1>2, Zenon DEF StartClose
  <2>4. (\E F : CancelLegs(trade, Legs, F)) \/ UNCHANGED <<leg, trade>>
    BY <1>2, Zenon DEF StartClose
  <2>5. LegsStay
    BY <2>4, LegsCancelled DEF LegsStay
  <2>6. trade'.booked = trade.booked
    BY <1>1, <2>4, CancelBooksNothing
  <2>7. OrdersStay
    BY <2>2, <2>3, OrdersKeep
  <2>8. QED BY <2>1, <2>5, <2>6, <2>7, Moving
<1>3. ASSUME NEW label, NEW next, FreeTargets(k, label, next) PROVE Advances
  <2>1. Moves(k)
    BY <1>3, Zenon DEF FreeTargets, Moves
  <2>2. UNCHANGED <<leg, stop, loose, position, trade>>
    BY <1>3 DEF FreeTargets
  <2>3. \A g \in Goals : target'[g] \in {target[g], Cancelled(target[g])}
    BY <1>3, Zenon DEF FreeTargets
  <2>4. OrdersStay
    BY <2>2, <2>3, OrdersKeep
  <2>5. QED BY <2>1, <2>2, <2>4, Moving DEF LegsStay
<1>4. QED BY <1>2, <1>3

\* A closing order that is refused.
LEMMA RefusedAdvances ==
  ASSUME Backed, Lives, NEW k \in Tasks, NEW asked, CloseRefused(k, asked),
         UNCHANGED <<leg, target>>
  PROVE  Advances
<1>1. Moves(k) /\ UNCHANGED exchange /\ trade' = trade
  BY DEF CloseRefused, Moves, exchange
<1>2. QED BY <1>1, ExchangeStays, Moving

\* Entry legs are cancelled, or the trade ends without a fill.
LEMMA CancelAdvances ==
  ASSUME Backed, Lives, NEW k \in Tasks, Moves(k),
         UNCHANGED <<target, stop, loose, position>>,
         NEW t, SameBook(trade, t),
         \E I, F : CancelLegs(t, I, F) \/ \E why : EndsUnfilled(t, I, F, why)
  PROVE  Advances
<1>1. LegsStay /\ OrdersStay
  BY LegsCancelled
<1>2. trade'.booked = trade.booked
  BY CancelBooksNothing DEF SameBook
<1>3. QED BY <1>1, <1>2, Moving

\* A waiting leg expires, is withdrawn by the ladder policy, or retired after a target.
LEMMA LaddersAdvance ==
  ASSUME Backed, Lives, NEW k \in Tasks,
         Expire(k) \/ ApplyPolicy(k) \/ RetireForHit(k)
  PROVE  Advances
<1>1. UNCHANGED <<target, stop, loose, position>>
  BY DEF Expire, ApplyPolicy, RetireForHit
<1>2. Moves(k)
  BY Zenon DEF Expire, ApplyPolicy, RetireForHit, Moves
<1>3. SameBook(trade, trade)
  BY HasBook, NothingBooked
<1>4. CASE UNCHANGED <<leg, trade>>
  <2>1. LegsStay /\ OrdersStay
    BY <1>1, <1>4, LegsCancelled
  <2>2. QED BY <1>2, <1>4, <2>1, Moving
<1>5. CASE \E I, F : CancelLegs(trade, I, F) \/ \E why : EndsUnfilled(trade, I, F, why)
  BY <1>1, <1>2, <1>3, <1>5, CancelAdvances
<1>6. QED BY <1>4, <1>5, Zenon DEF Expire, ApplyPolicy, RetireForHit

\* The clean-up of a closed trade.
LEMMA CleanUpAdvances ==
  ASSUME Backed, Lives, CleanUp
  PROVE  Advances
<1>1. UNCHANGED <<target, stop, loose, position>> /\ "poll" \in Tasks
  BY DEF CleanUp, Tasks
<1>2. Moves("poll")
  BY Zenon DEF CleanUp, Moves
<1> DEFINE t == [trade EXCEPT !.known = [i \in Legs |->
                   IF @[i] = "planned" THEN "unsent" ELSE @[i]]]
<1>3. SameBook(trade, t)
  BY HasBook DEF SameBook
<1>4. CASE ~trade.ladder
  <2>1. trade' = [Unfilled(trade) EXCEPT !.reason = "failed"] /\ UNCHANGED leg
    BY <1>4 DEF CleanUp
  <2>2. SameBook(trade, Unfilled(trade))
    BY HasBook, NothingBooked
  <2>3. trade'.booked = trade.booked
    BY <2>1, <2>2 DEF SameBook
  <2>4. LegsStay /\ OrdersStay
    BY <1>1, <2>1, LegsCancelled
  <2>5. QED BY <1>1, <1>2, <2>3, <2>4, Moving
<1>5. CASE trade.ladder
  <2>1. \E I, F : CancelLegs(t, I, F) \/ \E why : EndsUnfilled(t, I, F, why)
    BY <1>5, Zenon DEF CleanUp
  <2> HIDE DEF t
  <2>2. QED BY <1>1, <1>2, <1>3, <2>1, CancelAdvances
<1>6. QED BY <1>4, <1>5

\* The steps of a single order.
LEMMA EntryAdvances ==
  ASSUME Backed, Lives, NEW k \in Tasks,
         UNCHANGED <<target, stop, loose, position>>,
         \/ \E v, rest : EntryShown(k, v, rest)
         \/ UNCHANGED <<leg, trade>> /\ Abort(k)
  PROVE  Advances
<1>1. Moves(k)
  BY Zenon DEF EntryShown, Moves
<1>2. StopFilling \/ UNCHANGED leg
  BY Zenon DEF EntryShown
<1>3. \/ trade' = Unfilled(trade) \/ trade' = trade \/ \E n : trade' = WithEntry(trade, n)
  BY Zenon DEF EntryShown
<1>4. trade'.booked = trade.booked
  BY <1>3, HasBook, NothingBooked DEF SameBook
<1>5. LegsStay /\ OrdersStay
  BY <1>2, LegsCancelled
<1>6. QED BY <1>1, <1>4, <1>5, Moving

\* Cancelling what still waits.
LEMMA CancelWaitingAdvances ==
  ASSUME Backed, Lives, NEW k \in Tasks, CancelWaiting(k)
  PROVE  Advances
<1>1. UNCHANGED <<target, stop, loose, position>>
  BY DEF CancelWaiting
<1>2. Moves(k)
  BY Zenon DEF CancelWaiting, Moves
<1>3. SameBook(trade, trade)
  BY HasBook, NothingBooked
<1>4. CASE trade.ladder
  <2>1. \E I, F : CancelLegs(trade, I, F) \/ \E why : EndsUnfilled(trade, I, F, why)
    BY <1>4, Zenon DEF CancelWaiting
  <2>2. QED BY <1>1, <1>2, <1>3, <2>1, CancelAdvances
<1>5. CASE ~trade.ladder
  <2>1. StopFilling \/ UNCHANGED leg
    BY <1>5, Zenon DEF CancelWaiting
  <2>2. \/ trade' = Unfilled(trade) \/ trade' = trade \/ \E n : trade' = WithEntry(trade, n)
    BY <1>5, Zenon DEF CancelWaiting
  <2>3. trade'.booked = trade.booked
    BY <2>2, HasBook, NothingBooked DEF SameBook
  <2>4. LegsStay /\ OrdersStay
    BY <1>1, <2>1, LegsCancelled
  <2>5. QED BY <1>2, <2>3, <2>4, Moving
<1>6. QED BY <1>4, <1>5

\* The poll task between the routines.
LEMMA PollAdvances ==
  ASSUME Backed, Lives, Opened \/ Answered \/ MonitorApplies
  PROVE  Advances
<1>1. "poll" \in Tasks /\ "monitor" \in Tasks
  BY DEF Tasks
<1>2. CASE MonitorApplies
  BY <1>1, <1>2, EntryAdvances DEF MonitorApplies
<1>3. CASE Opened \/ Answered
  <2>1. UNCHANGED exchange /\ Moves("poll")
    BY <1>3, Zenon DEF Opened, Answered, Moves
  <2>2. SameBook(trade, Finalized(trade))
    BY HasBook, NothingBooked
  <2>3. \/ trade' = trade \/ trade' = Finalized(trade) \/ trade' = [trade EXCEPT !.owned = TRUE]
    BY <1>3, Zenon DEF Opened, Answered
  <2>4. trade'.booked = trade.booked
    BY <2>2, <2>3, HasBook DEF SameBook
  <2>5. QED BY <1>1, <2>1, <2>4, ExchangeStays, Moving
<1>4. QED BY <1>2, <1>3

-----------------------------------------------------------------------------
(* Tasks that begin something, and the clock.                              *)

\* The tasks' snapshots stay, or are of the orders that have executed nothing.
Unseen(v) == (\A g \in Goals : v.target[g] = 0) /\ (\A s \in Slots : v.stop[s] = 0)
             /\ v.loose = 0

\* A snapshot without fills fits whatever has executed.
LEMMA UnseenFits ==
  ASSUME ExchangeSound'
  PROVE  \A v : Unseen(v) => Fits(v)
<1>1. Amounts'
  BY LaterQuantities
<1>2. QED BY <1>1 DEF Unseen, Fits, Amounts

\* The snapshots a task starts with show no order.
LEMMA NothingSeen ==
  /\ Unseen(NoView) /\ Unseen(PositionsRead) /\ Unseen(SingleShown)
BY DEF Unseen, NoView, PositionsRead, SingleShown, NoQty

\* A step that leaves the exchange, with the snapshots that were there and new
\* ones without fills.
LEMMA Begun ==
  ASSUME Backed, Lives, UNCHANGED <<exchange, meets>>, trade'.booked = trade.booked,
         \A j \in Tasks : \/ task'[j].views \in {task[j].views, <<>>}
                          \/ \E v : Unseen(v) /\ task'[j].views = <<v>>
  PROVE  Advances
<1>1. LegsStay /\ OrdersStay
  BY ExchangeStays
<1>2. Grown /\ ExchangeSound'
  BY <1>1, StayGrown
<1>3. ASSUME NEW j \in Tasks, NEW n \in DOMAIN task'[j].views
      PROVE  Fits(task'[j].views[n])
  <2>1. CASE task'[j].views = task[j].views
    BY <1>2, <1>3, <2>1, OldFits
  <2>2. CASE task'[j].views = <<>>
    BY <1>3, <2>2
  <2>3. ASSUME NEW v, Unseen(v), task'[j].views = <<v>>
        PROVE  Fits(task'[j].views[n])
    <3>1. task'[j].views[n] = v
      BY <1>3, <2>3
    <3>2. QED BY <1>2, <2>3, <3>1, UnseenFits
  <2>4. QED BY <2>1, <2>2, <2>3
<1>4. ViewsBacked'
  BY <1>3 DEF ViewsBacked, Fits, Shown
<1>5. QED BY <1>1, <1>4, Unmoved

\* The stack of a task is replaced.
LEMMA Restacked ==
  ASSUME Backed, NEW k \in Tasks, NEW u, task' = [task EXCEPT ![k] = u],
         \/ u.views \in {task[k].views, <<>>}
         \/ \E v : Unseen(v) /\ u.views = <<v>>
  PROVE  \A j \in Tasks : \/ task'[j].views \in {task[j].views, <<>>}
                          \/ \E v : Unseen(v) /\ task'[j].views = <<v>>
<1>1. task \in [Tasks -> TaskRecord]
  BY DEF Backed, LifeInv
<1>2. ASSUME NEW j \in Tasks
      PROVE  \/ task'[j].views \in {task[j].views, <<>>}
             \/ \E v : Unseen(v) /\ task'[j].views = <<v>>
  <2>1. CASE j = k
    BY <1>1, <2>1
  <2>2. CASE j # k
    BY <1>1, <2>2
  <2>3. QED BY <2>1, <2>2
<1>3. QED BY <1>2

\* The expiry passes, or a retry falls due.
LEMMA ClockAdvances ==
  ASSUME Backed, Lives, Expires \/ RetryDue
  PROVE  Advances
<1>1. UNCHANGED <<exchange, meets, task>>
  BY DEF Expires, RetryDue
<1>2. trade'.booked = trade.booked
  BY HasBook DEF Expires, RetryDue
<1>3. QED BY <1>1, <1>2, Begun

\* A close is asked for.
LEMMA AskedAdvances ==
  ASSUME Backed, Lives, CloseAsked
  PROVE  Advances
<1>1. UNCHANGED <<exchange, meets>> /\ "poll" \in Tasks
  BY DEF CloseAsked, Tasks
<1>2. trade' = trade \/ trade' = WithMiss(trade) \/ trade' = WithoutMiss(trade)
  BY Zenon DEF CloseAsked
<1>3. trade'.booked = trade.booked
  BY <1>2, HasBook, NothingBooked DEF SameBook
<1>4. PICK labels : task' = [task EXCEPT !["poll"].stack = labels]
  BY Zenon DEF CloseAsked
<1> DEFINE u == [task["poll"] EXCEPT !.stack = labels]
<1>5. task' = [task EXCEPT !["poll"] = u]
  BY <1>4
<1>6. task["poll"] \in TaskRecord
  BY <1>1 DEF Backed, LifeInv
<1>7. u.views = task["poll"].views
  BY <1>6 DEF TaskRecord
<1> HIDE DEF u
<1>8. QED BY <1>1, <1>3, <1>5, <1>7, Restacked, Begun

\* The price meets a level.
LEMMA PriceAdvances ==
  ASSUME Backed, Lives, PriceMeets
  PROVE  Advances
<1>1. UNCHANGED <<exchange, meets, trade>> /\ "price" \in Tasks
  BY DEF PriceMeets, Tasks
<1>2. PICK aim, labels : task' = [task EXCEPT !["price"].aim = aim, !["price"].stack = labels]
  BY Zenon DEF PriceMeets
<1> DEFINE u == [task["price"] EXCEPT !.aim = aim, !.stack = labels]
<1>3. task["price"] \in TaskRecord
  BY <1>1 DEF Backed, LifeInv
<1>4. task' = [task EXCEPT !["price"] = u]
  <2>1. "price" \in DOMAIN task
    BY <1>1 DEF Backed, LifeInv
  <2>2. QED BY <1>2, <1>3, <2>1 DEF TaskRecord
<1>5. u.views = task["price"].views
  BY <1>3 DEF TaskRecord
<1> HIDE DEF u
<1>6. QED BY <1>1, <1>4, <1>5, Restacked, Begun

\* The start of a protection sync.
LEMMA SyncBeginsAdvances ==
  ASSUME Backed, Lives, SyncBegins
  PROVE  Advances
<1>1. UNCHANGED <<exchange, meets, trade>> /\ "sync" \in Tasks
  BY DEF SyncBegins, Tasks
<1>2. task' = [task EXCEPT !["sync"].stack = <<"orders", "synced">>,
                           !["sync"].views = <<PositionsRead>>]
  BY DEF SyncBegins
<1> DEFINE u == [task["sync"] EXCEPT !.stack = <<"orders", "synced">>,
                                     !.views = <<PositionsRead>>]
<1>3. task["sync"] \in TaskRecord
  BY <1>1 DEF Backed, LifeInv
<1>4. task' = [task EXCEPT !["sync"] = u]
  <2>1. "sync" \in DOMAIN task
    BY <1>1 DEF Backed, LifeInv
  <2>2. QED BY <1>2, <1>3, <2>1 DEF TaskRecord
<1>5. u.views = <<PositionsRead>>
  BY <1>3 DEF TaskRecord
<1> HIDE DEF u
<1>6. QED BY <1>1, <1>4, <1>5, NothingSeen, Restacked, Begun

\* The monitor looks at the legs.
LEMMA LooksAdvances ==
  ASSUME Backed, Lives, MonitorLooks
  PROVE  Advances
<1>1. UNCHANGED <<exchange, meets>> /\ "monitor" \in Tasks
  BY DEF MonitorLooks, Tasks
<1> DEFINE v == [i \in Sent |-> leg[i]]
<1>2. trade' = trade \/ LadderShown(v)
  BY Zenon DEF MonitorLooks
<1>3. trade'.booked = trade.booked
  <2> DEFINE t == WithRangeFills(trade, v)
  <2>1. SameBook(trade, t)
    BY HasBook, NothingBooked
  <2>2. trade' = trade \/ trade' = t \/ trade' = Unfilled(t)
    BY <1>2, Zenon DEF LadderShown
  <2> HIDE DEF t
  <2>3. SameBook(t, Unfilled(t))
    BY <2>1, NothingBooked DEF SameBook
  <2>4. QED BY <2>1, <2>2, <2>3 DEF SameBook
<1>4. PICK u : /\ task' = [task EXCEPT !["monitor"] = u]
               /\ u.views = <<>> \/ u.views = <<SingleShown>>
  <2>1. \/ \E labels : task' = [task EXCEPT !["monitor"] = [Idle EXCEPT !.stack = labels]]
        \/ \E labels : task' = [task EXCEPT !["monitor"] =
                                  [Idle EXCEPT !.stack = labels, !.views = <<SingleShown>>]]
    BY Zenon DEF MonitorLooks
  <2>2. \A labels : /\ [Idle EXCEPT !.stack = labels].views = <<>>
                    /\ [Idle EXCEPT !.stack = labels, !.views = <<SingleShown>>].views
                         = <<SingleShown>>
    BY DEF Idle
  <2>3. QED BY <2>1, <2>2
<1> HIDE DEF v
<1>7. QED BY <1>1, <1>3, <1>4, NothingSeen, Restacked, Begun

-----------------------------------------------------------------------------
(* The account sync.                                                       *)

\* A snapshot that fits replaces the innermost one of the task.
LEMMA Replaced ==
  ASSUME Backed, Grown, ExchangeSound', NEW k \in Tasks, NEW v, Fits(v), NEW labels,
         Becomes(k, Viewing(k, v), labels)
  PROVE  Steps(k)
<1> DEFINE t == Viewing(k, v)
<1>1. "views" \in DOMAIN task[k] /\ task[k].views \in Seq(ViewRecord)
  BY DEF Backed, LifeInv, TaskRecord
<1>2. "views" \in DOMAIN t /\ t.views = [task[k].views EXCEPT ![1] = v]
  BY <1>1 DEF Viewing
<1>3. ASSUME NEW n \in DOMAIN t.views PROVE Fits(t.views[n])
  <2>1. n \in DOMAIN task[k].views /\ t.views[n] \in {v, task[k].views[n]}
    BY <1>2, <1>3
  <2>2. QED BY <2>1, OldFits
<1>4. Becomes(k, t, labels)
  OBVIOUS
<1> HIDE DEF t
<1>5. QED BY <1>2, <1>3, <1>4 DEF Steps, Becomes

\* A protection gap is repaired without a snapshot.
LEMMA RepairSteps ==
  ASSUME Backed, Grown, ExchangeSound', NEW k \in Tasks, Repair(k)
  PROVE  Steps(k)
BY NothingSeen, UnseenFits, Replaced DEF Repair

\* A new account sync starts on top of the task, or the last one ends.
LEMMA SyncsNest ==
  ASSUME Backed, Lives, NEW k \in Tasks, SyncAgain(k) \/ SyncEnds(k)
  PROVE  Advances
<1>1. UNCHANGED <<exchange, trade>>
  BY DEF SyncAgain, SyncEnds
<1>2. LegsStay /\ OrdersStay
  BY <1>1, ExchangeStays
<1>3. Grown /\ ExchangeSound'
  BY <1>2, StayGrown
<1>4. "views" \in DOMAIN task[k] /\ task[k].views \in Seq(ViewRecord)
  BY DEF Backed, LifeInv, TaskRecord
<1>5. ASSUME NEW vs, NEW labels, Becomes(k, [task[k] EXCEPT !.views = vs], labels),
             \A n \in DOMAIN vs : Fits(vs[n])
      PROVE  Steps(k)
  <2> DEFINE t == [task[k] EXCEPT !.views = vs]
  <2>1. "views" \in DOMAIN t /\ t.views = vs /\ Becomes(k, t, labels)
    BY <1>4, <1>5
  <2> HIDE DEF t
  <2>2. QED BY <1>5, <2>1 DEF Steps, Becomes
<1>6. ASSUME Becomes(k, [task[k] EXCEPT !.views = <<PositionsRead>> \o @],
                     <<"orders", "synced">>)
      PROVE  Steps(k)
  <2> DEFINE vs == <<PositionsRead>> \o task[k].views
  <2>1. Fits(PositionsRead)
    BY <1>3, NothingSeen, UnseenFits
  <2>2. ASSUME NEW n \in DOMAIN vs PROVE Fits(vs[n])
    <3>1. CASE n = 1
      <4>1. vs[n] = PositionsRead
        BY <1>4, <3>1
      <4>2. QED BY <2>1, <4>1
    <3>2. CASE n # 1
      <4> DEFINE m == n - 1
      <4>1. m \in DOMAIN task[k].views /\ vs[n] = task[k].views[m]
        BY <1>4, <2>2, <3>2
      <4> HIDE DEF m, vs
      <4>2. QED BY <1>3, <4>1, OldFits
    <3>3. QED BY <3>1, <3>2
  <2>3. Becomes(k, [task[k] EXCEPT !.views = vs], <<"orders", "synced">>)
    BY <1>6
  <2> HIDE DEF vs
  <2>4. QED BY <1>5, <2>2, <2>3
<1>7. ASSUME Becomes(k, [task[k] EXCEPT !.views = EarlierViews(k)], <<>>)
      PROVE  Steps(k)
  <2>1. ASSUME NEW n \in DOMAIN EarlierViews(k) PROVE Fits(EarlierViews(k)[n])
    <3> DEFINE m == n + 1
    <3>1. m \in DOMAIN task[k].views /\ EarlierViews(k)[n] = task[k].views[m]
      BY <1>4, <2>1 DEF EarlierViews
    <3> HIDE DEF m
    <3>2. QED BY <1>3, <3>1, OldFits
  <2>2. QED BY <1>5, <1>7, <2>1
<1>8. Steps(k)
  BY <1>3, <1>6, <1>7, CallsFit DEF SyncAgain, SyncEnds
<1>9. QED BY <1>1, <1>2, <1>8, Quietly

\* A sync takes over what it read.
LEMMA ReadsAdvances ==
  ASSUME Backed, Lives, NEW k \in Tasks, SyncReads(k)
  PROVE  Advances
<1>1. UNCHANGED exchange
  BY DEF SyncReads
<1>2. LegsStay /\ OrdersStay /\ Grown /\ ExchangeSound'
  BY <1>1, ExchangeStays, StayGrown
<1>3. PICK lag, own, labels :
        /\ Becomes(k, Viewing(k, OrdersShown(k, lag, own)), labels)
        /\ trade' = trade \/ LadderShown(OrdersShown(k, lag, own).leg)
  BY Zenon DEF SyncReads
<1> DEFINE v == OrdersShown(k, lag, own)
<1>4. Fits(v)
  <2>1. Amounts
    BY OrderQuantities DEF Backed, LifeInv
  <2>2. /\ \A g \in Goals : v.target[g] <= target[g].executed
        /\ \A s \in Slots : v.stop[s] <= stop[s].executed
        /\ v.loose <= loose.executed
    BY <2>1 DEF OrdersShown, Amounts
  <2>3. target' = target /\ stop' = stop /\ loose' = loose
    BY <1>1 DEF exchange
  <2> HIDE DEF v
  <2>4. QED BY <2>2, <2>3 DEF Fits
<1>5. trade'.booked = trade.booked
  <2> DEFINE t == WithRangeFills(trade, v.leg)
  <2>1. SameBook(trade, t)
    BY HasBook, NothingBooked
  <2>2. trade' = trade \/ trade' = t \/ trade' = Unfilled(t)
    BY <1>3, Zenon DEF LadderShown
  <2> HIDE DEF t
  <2>3. SameBook(t, Unfilled(t))
    BY <2>1, NothingBooked DEF SameBook
  <2>4. QED BY <2>1, <2>2, <2>3 DEF SameBook
<1>6. Steps(k)
  <2>1. Becomes(k, Viewing(k, v), labels)
    BY <1>3
  <2> HIDE DEF v
  <2>2. QED BY <1>2, <1>4, <2>1, Replaced
<1>7. QED BY <1>2, <1>5, <1>6, Quietly

\* A sync takes over the position.
LEMMA HoldsAdvances ==
  ASSUME Backed, Lives, NEW k \in Tasks, SyncHolds(k)
  PROVE  Advances
<1>1. UNCHANGED exchange /\ Moves(k) /\ trade' = PositionShown(k, trade)
  BY DEF SyncHolds, Moves
<1>2. trade'.booked = trade.booked
  BY <1>1, HasBook, NothingBooked DEF SameBook
<1>3. QED BY <1>1, <1>2, ExchangeStays, Moving

\* Legs that are retired first.
LEMMA RetireAdvances ==
  ASSUME Backed, Lives, NEW k \in Tasks, NEW I, RetireFirst(k, I)
  PROVE  Advances
<1>1. UNCHANGED <<target, stop, loose, position>>
  BY DEF RetireFirst
<1>2. Moves(k)
  BY Zenon DEF RetireFirst, Moves
<1>3. \E F : CancelLegs(trade, I, F)
  BY Zenon DEF RetireFirst
<1>4. SameBook(trade, trade)
  BY HasBook, NothingBooked
<1>5. QED BY <1>1, <1>2, <1>3, <1>4, CancelAdvances

\* A step of the sync that books nothing.
LEMMA SyncSteps ==
  ASSUME Backed, Lives, NEW k \in Tasks, UNCHANGED exchange, trade'.booked = trade.booked,
         Moves(k) \/ Repair(k)
  PROVE  Advances
<1>1. LegsStay /\ OrdersStay /\ Grown /\ ExchangeSound'
  BY ExchangeStays, StayGrown
<1>2. CASE Moves(k)
  BY <1>1, <1>2, Moving
<1>3. CASE Repair(k)
  BY <1>1, <1>3, RepairSteps, Quietly
<1>4. QED BY <1>2, <1>3

\* The handler of a target fill ends.
LEMMA TargetsDoneAdvances ==
  ASSUME Backed, Lives, NEW k \in Tasks, NEW seen, TargetsDone(k, seen)
  PROVE  Advances
<1>1. CASE \E I : RetireFirst(k, I)
  BY <1>1, RetireAdvances
<1>2. CASE ~\E I : RetireFirst(k, I)
  <2>1. UNCHANGED exchange /\ (trade' = trade \/ trade' = Detached(k, trade, seen))
    BY <1>2, Zenon DEF TargetsDone
  <2>2. Moves(k) \/ Repair(k)
    BY <1>2, Zenon DEF TargetsDone, Moves
  <2>3. trade'.booked = trade.booked
    BY <2>1, HasBook, NothingBooked DEF SameBook
  <2>4. QED BY <2>1, <2>2, <2>3, SyncSteps
<1>3. QED BY <1>1, <1>2

\* A sync looks for a gap in the protection.
LEMMA GapAdvances ==
  ASSUME Backed, Lives, NEW k \in Tasks, NEW seen, GapLooked(k, seen)
  PROVE  Advances
<1> DEFINE t == Detached(k, trade, seen)
<1>1. UNCHANGED exchange
  BY DEF GapLooked
<1>2. Moves(k) \/ Repair(k)
  BY Zenon DEF GapLooked, Moves
<1>3. trade' = t \/ \E sl : trade' = Refreshed(t, sl)
  BY Zenon DEF GapLooked
<1>4. SameBook(trade, t)
  BY HasBook, NothingBooked
<1> HIDE DEF t
<1>5. \A sl : SameBook(t, Refreshed(t, sl))
  BY <1>4, NothingBooked DEF SameBook
<1>6. trade'.booked = trade.booked
  BY <1>3, <1>4, <1>5 DEF SameBook
<1>7. QED BY <1>1, <1>2, <1>6, SyncSteps

-----------------------------------------------------------------------------
(* What executes.                                                          *)

\* Three legs.
LEMMA LegIsOne == 1 \in Legs /\ 2 \in Legs /\ 3 \in Legs
BY DEF Legs

\* One leg brings in more.
LEMMA EnteredBy ==
  ASSUME ExchangeSound, NEW i \in Legs, NEW n \in Nat,
         \A j \in Legs : leg'[j].got = IF j = i THEN leg[j].got + n ELSE leg[j].got
  PROVE  Entered' = Entered + n
<1>1. Amounts
  BY OrderQuantities
<1>2. leg[1].got \in Nat /\ leg[2].got \in Nat /\ leg[3].got \in Nat
  BY <1>1, LegIsOne DEF Amounts
<1>3. i = 1 \/ i = 2 \/ i = 3
  BY DEF Legs
<1>4. leg'[1].got = IF 1 = i THEN leg[1].got + n ELSE leg[1].got
  BY LegIsOne
<1>5. leg'[2].got = IF 2 = i THEN leg[2].got + n ELSE leg[2].got
  BY LegIsOne
<1>6. leg'[3].got = IF 3 = i THEN leg[3].got + n ELSE leg[3].got
  BY LegIsOne
<1>7. QED BY <1>2, <1>3, <1>4, <1>5, <1>6 DEF Entered

\* One leg becomes another, and brings in more.
LEMMA LegBrings ==
  ASSUME Backed, NEW i \in Legs, NEW l, leg' = [leg EXCEPT ![i] = l],
         NEW n \in Nat, l.got = leg[i].got + n, l.state # "none",
         \A j \in Legs : trade'.known[j] = "planned" =>
                           trade.known[j] = "planned" /\ j # i
  PROVE  /\ Entered' = Entered + n
         /\ \A j \in Legs :
              /\ leg[j].got <= leg'[j].got
              /\ leg'[j].state = "none" => leg'[j].got = 0
              /\ trade'.known[j] = "planned" => leg'[j].state = "none"
<1>1. ExchangeSound /\ leg \in [Legs -> LegRecord] /\ Amounts
  BY OrderQuantities DEF Backed, LifeInv, ExchangeSound
<1>2. \A j \in Legs : leg'[j] = IF j = i THEN l ELSE leg[j]
  BY <1>1
<1>3. ASSUME NEW j \in Legs
      PROVE  /\ leg[j].got <= leg'[j].got
             /\ leg'[j].state = "none" => leg'[j].got = 0
             /\ trade'.known[j] = "planned" => leg'[j].state = "none"
             /\ leg'[j].got = IF j = i THEN leg[j].got + n ELSE leg[j].got
  <2>1. CASE j = i
    BY <1>1, <1>2, <2>1 DEF Amounts
  <2>2. CASE j # i
    <3>1. leg'[j] = leg[j] /\ leg[j].got \in 0..2
      BY <1>1, <1>2, <2>2 DEF Amounts
    <3>2. QED BY <3>1, <2>2 DEF Backed, LegsBacked
  <2>3. QED BY <2>1, <2>2
<1>4. Entered' = Entered + n
  BY <1>1, <1>3, EnteredBy
<1>5. QED BY <1>3, <1>4

\* A leg fills: the position grows with it.
LEMMA LegAdvances ==
  ASSUME Backed, Lives, NEW i \in Legs, NEW l, leg' = [leg EXCEPT ![i] = l],
         NEW n \in Nat, l.got = leg[i].got + n, l.state # "none",
         \A j \in Legs : trade'.known[j] = "planned" =>
                           trade.known[j] = "planned" /\ j # i,
         UNCHANGED <<target, stop, loose>>, position' = position + n,
         trade'.booked = trade.booked, ViewsBacked', meets' = meets
  PROVE  Advances
<1>1. /\ Entered' = Entered + n
      /\ \A j \in Legs : /\ leg[j].got <= leg'[j].got
                         /\ leg'[j].state = "none" => leg'[j].got = 0
                         /\ trade'.known[j] = "planned" => leg'[j].state = "none"
  BY LegBrings
<1>2. Amounts
  BY OrderQuantities DEF Backed, LifeInv
<1>3. OrdersBacked' /\ Owed' = Owed
  BY DEF Backed, OrdersBacked, Owed
<1>4. Sound(trade)
  BY DEF Backed, LifeInv
<1>5. position' <= Entered' /\ (Counts => trade'.booked + Owed' <= Entered' - position')
  <2>1. trade.booked \in Nat /\ Owed \in Nat
    BY <1>4, Quantities, OwedIsNat DEF Sound, Backed, LifeInv, OwedIsKnown
  <2>2. Entered \in Nat /\ position \in Nat
    BY <1>2 DEF Amounts
  <2>3. QED BY <1>1, <1>3, <2>1, <2>2 DEF Backed, SoldCovers
<1>6. Backed'
  BY <1>1, <1>3, <1>5, Assembled
<1>7. QED BY <1>5, <1>6, Covered

\* The leg that is submitted is not planned any more.
LEMMA SentLegKnown ==
  ASSUME Backed, NEW i \in Plan, SendLeg(i)
  PROVE  trade'.known[i] # "planned" /\ i \in Legs
<1>1. i \in Legs /\ (~trade.ladder => i = 2)
  BY DEF Plan, Legs
<1>2. trade.known \in [Legs -> Knowns] /\ {"ladder", "known", "got"} \subseteq DOMAIN trade
  BY DEF Backed, LifeInv, Sound, TradeRecord
<1>3. CASE trade' = [trade EXCEPT !.known[i] = "gone"]
  BY <1>1, <1>2, <1>3
<1>4. CASE trade' = [trade EXCEPT !.known[i] = "sent"]
  BY <1>1, <1>2, <1>4
<1>5. ASSUME NEW got,
             LET t == [trade EXCEPT !.known[i] = IF got = 0 THEN "working" ELSE "filled"]
                 v == [j \in {i} |-> [state |-> "filled", got |-> got]]
             IN  \/ trade' = t
                 \/ trade' = WithRangeFills(t, v)
                 \/ ~trade.ladder /\ trade' = WithEntry(t, got)
      PROVE  trade'.known[i] # "planned"
  <2> DEFINE t == [trade EXCEPT !.known[i] = IF got = 0 THEN "working" ELSE "filled"]
             v == [j \in {i} |-> [state |-> "filled", got |-> got]]
  <2>1. "known" \in DOMAIN t
        /\ t.known = [trade.known EXCEPT ![i] = IF got = 0 THEN "working" ELSE "filled"]
    BY <1>2
  <2>2. i \in DOMAIN v /\ v[i].state = "filled"
    OBVIOUS
  <2>3. CASE trade' = t
    BY <1>1, <1>2, <2>1, <2>3
  <2>4. CASE trade' = WithRangeFills(t, v)
    <3> HIDE DEF t, v
    <3>1. trade'.known = [j \in Legs |->
                  IF j \notin DOMAIN v THEN t.known[j]
                  ELSE IF v[j].state = "rests" THEN "working" ELSE v[j].state]
      BY <2>1, <2>4 DEF WithRangeFills
    <3>2. QED BY <1>1, <2>2, <3>1
  <2>5. CASE ~trade.ladder /\ trade' = WithEntry(t, got)
    <3>1. DOMAIN t.known = Legs
      BY <1>2, <2>1
    <3> HIDE DEF t
    <3>2. trade'.known = [t.known EXCEPT ![2] = "filled"]
      BY <2>1, <2>5 DEF WithEntry
    <3>3. QED BY <1>1, <2>5, <3>1, <3>2
  <2>6. QED BY <1>5, <2>3, <2>4, <2>5, Zenon
<1>6. \/ trade' = [trade EXCEPT !.known[i] = "gone"]
      \/ trade' = [trade EXCEPT !.known[i] = "sent"]
      \/ \E got :
             LET t == [trade EXCEPT !.known[i] = IF got = 0 THEN "working" ELSE "filled"]
                 v == [j \in {i} |-> [state |-> "filled", got |-> got]]
             IN  \/ trade' = t
                 \/ trade' = WithRangeFills(t, v)
                 \/ ~trade.ladder /\ trade' = WithEntry(t, got)
  BY Zenon DEF SendLeg
<1>7. QED BY <1>1, <1>3, <1>4, <1>5, <1>6

\* A leg is sent.
LEMMA SubmitAdvances ==
  ASSUME Backed, Lives, SubmitLeg
  PROVE  Advances
<1>1. PICK i \in Plan : NextLeg(i) /\ SendLeg(i)
  BY DEF SubmitLeg
<1>2. i \in Legs /\ trade'.known[i] # "planned" /\ "poll" \in Tasks
  BY <1>1, SentLegKnown DEF Tasks
<1>3. leg[i].got = 0 /\ leg[i] \in LegRecord /\ leg \in [Legs -> LegRecord]
  <2>1. trade.known[i] = "planned"
    BY <1>1 DEF NextLeg
  <2>2. QED BY <1>2, <2>1 DEF Backed, LegsBacked, LifeInv, ExchangeSound
<1>4. UNCHANGED <<target, stop, loose>>
  BY <1>1 DEF SendLeg
<1>5. Grown /\ ExchangeSound'
  <2>1. Amounts
    BY OrderQuantities DEF Backed, LifeInv
  <2>2. QED BY <1>4, <2>1 DEF Grown, Amounts, Lives, LifeInv
<1>6. ViewsBacked' /\ meets' = meets
  <2>1. \E labels : Goto("poll", labels)
    BY <1>1, Zenon DEF SendLeg
  <2>2. Steps("poll")
    BY <1>2, <1>5, <2>1, CallsFit
  <2>3. QED BY <1>2, <1>5, <2>2, StepsFit
<1>7. \A j \in Legs : trade'.known[j] = "planned" => trade.known[j] = "planned" /\ j # i
  BY <1>2 DEF Lives, Keeps, Grows, Records
<1>8. ASSUME NEW t, SameBook(trade, t), trade' = t, NEW n \in Nat,
             leg' = [leg EXCEPT ![i] = EntryOrder(n)], position' = position + n
      PROVE  Advances
  <2>1. EntryOrder(n).got = leg[i].got + n /\ EntryOrder(n).state # "none"
    BY <1>3, <1>8 DEF EntryOrder
  <2>2. trade'.booked = trade.booked
    BY <1>8 DEF SameBook
  <2>3. QED BY <1>2, <1>4, <1>6, <1>7, <1>8, <2>1, <2>2, LegAdvances
<1>9. ASSUME NEW got \in {0} \union (IF Resting(leg) = {} THEN {LegQty[i]} ELSE {}),
             LET t == [trade EXCEPT !.known[i] = IF got = 0 THEN "working" ELSE "filled"]
                 v == [j \in {i} |-> [state |-> "filled", got |-> got]]
             IN  /\ leg' = [leg EXCEPT ![i] = EntryOrder(got)]
                 /\ position' = position + got
                 /\ \/ trade' = t
                    \/ trade' = WithRangeFills(t, v)
                    \/ trade' = WithEntry(t, got)
      PROVE  Advances
  <2> DEFINE t == [trade EXCEPT !.known[i] = IF got = 0 THEN "working" ELSE "filled"]
             v == [j \in {i} |-> [state |-> "filled", got |-> got]]
  <2>1. got \in Nat
    BY <1>2, <1>9 DEF LegQty, Legs
  <2>2. SameBook(trade, t)
    BY HasBook DEF SameBook
  <2>3. /\ leg' = [leg EXCEPT ![i] = EntryOrder(got)] /\ position' = position + got
        /\ trade' = t \/ trade' = WithRangeFills(t, v) \/ trade' = WithEntry(t, got)
    BY <1>9, Zenon
  <2> HIDE DEF t, v
  <2>4. SameBook(trade, trade')
    BY <2>2, <2>3, NothingBooked DEF SameBook
  <2>5. QED BY <1>8, <2>1, <2>3, <2>4
<1>10. ASSUME NEW l, leg' = [leg EXCEPT ![i] = l], l.got = leg[i].got, l.state # "none",
              position' = position, trade'.booked = trade.booked
       PROVE  Advances
  <2>1. 0 \in Nat /\ l.got = leg[i].got + 0 /\ position' = position + 0
    <3>1. position \in Nat
      BY DEF Backed, LifeInv, ExchangeSound
    <3>2. QED BY <1>3, <1>10, <3>1
  <2>2. QED BY <1>2, <1>4, <1>6, <1>7, <1>10, <2>1, LegAdvances
<1>11. CASE /\ leg' = [leg EXCEPT ![i].state = "gone"]
            /\ trade' = [trade EXCEPT !.known[i] = "gone"] /\ UNCHANGED position
  <2> DEFINE l == [leg[i] EXCEPT !.state = "gone"]
  <2>1. leg' = [leg EXCEPT ![i] = l]
    BY <1>11
  <2>2. l.got = leg[i].got /\ l.state # "none"
    BY <1>3 DEF LegRecord
  <2>3. trade'.booked = trade.booked
    BY <1>11, HasBook
  <2> HIDE DEF l
  <2>4. QED BY <1>10, <1>11, <2>1, <2>2, <2>3
<1>12. CASE /\ leg' \in {leg, [leg EXCEPT ![i].state = "rests"]}
            /\ trade' = [trade EXCEPT !.known[i] = "sent"] /\ UNCHANGED position
  <2>1. trade'.booked = trade.booked
    BY <1>12, HasBook
  <2>2. CASE leg' = leg
    <3>1. LegsStay /\ OrdersStay
      BY <1>4, <1>12, <2>2, LegsCancelled
    <3>2. QED BY <1>6, <2>1, <3>1, Unmoved
  <2>3. CASE leg' = [leg EXCEPT ![i].state = "rests"]
    <3> DEFINE l == [leg[i] EXCEPT !.state = "rests"]
    <3>1. leg' = [leg EXCEPT ![i] = l]
      BY <2>3
    <3>2. l.got = leg[i].got /\ l.state # "none"
      BY <1>3 DEF LegRecord
    <3> HIDE DEF l
    <3>3. QED BY <1>10, <1>12, <2>1, <3>1, <3>2
  <2>4. QED BY <1>12, <2>2, <2>3
<1>13. QED
  <2>1. \/ \E got \in {0} \union (IF Resting(leg) = {} THEN {LegQty[i]} ELSE {}) :
             LET t == [trade EXCEPT !.known[i] = IF got = 0 THEN "working" ELSE "filled"]
                 v == [j \in {i} |-> [state |-> "filled", got |-> got]]
             IN  /\ leg' = [leg EXCEPT ![i] = EntryOrder(got)]
                 /\ position' = position + got
                 /\ \/ trade' = t
                    \/ trade' = WithRangeFills(t, v)
                    \/ trade' = WithEntry(t, got)
        \/ /\ leg' = [leg EXCEPT ![i].state = "gone"]
           /\ trade' = [trade EXCEPT !.known[i] = "gone"] /\ UNCHANGED position
        \/ /\ leg' \in {leg, [leg EXCEPT ![i].state = "rests"]}
           /\ trade' = [trade EXCEPT !.known[i] = "sent"] /\ UNCHANGED position
    BY <1>1, Zenon DEF SendLeg
  <2>2. QED BY <1>9, <1>11, <1>12, <2>1, Zenon

\* What is owed by one order, when the orders stay but for it.
LEMMA OwedMoves ==
  ASSUME Amounts, Amounts', OrdersBacked, OrdersBacked'
  PROVE  /\ \A g \in Goals :
              /\ \A h \in Goals : h # g => target'[h] = target[h]
              /\ UNCHANGED <<stop, loose>>
              => Owed' + Unclaimed(target[g]) = Owed + Unclaimed(target'[g])
         /\ \A s \in Slots :
              /\ \A r \in Slots : r # s => stop'[r] = stop[r]
              /\ UNCHANGED <<target, loose>>
              => Owed' + Unclaimed(stop[s]) = Owed + Unclaimed(stop'[s])
<1> DEFINE f == [g \in Goals |-> Unclaimed(target[g])]
           h == [s \in Slots |-> Unclaimed(stop[s])]
           f1 == [g \in Goals |-> Unclaimed(target'[g])]
           h1 == [s \in Slots |-> Unclaimed(stop'[s])]
<1>1. /\ \A g \in Goals : f[g] \in Nat /\ f1[g] \in Nat
      /\ \A s \in Slots : h[s] \in Nat /\ h1[s] \in Nat
      /\ Unclaimed(loose) \in Nat /\ Unclaimed(loose') \in Nat
  BY DEF Amounts, OrdersBacked, Unclaimed
<1>2. Owed = SumFunctionOnSet(f, Goals) + SumFunctionOnSet(h, Slots) + Unclaimed(loose)
  BY DEF Owed
<1>3. Owed' = SumFunctionOnSet(f1, Goals) + SumFunctionOnSet(h1, Slots) + Unclaimed(loose')
  BY DEF Owed
<1>4. /\ UNCHANGED target => f1 = f
      /\ UNCHANGED stop => h1 = h
  OBVIOUS
<1>5. /\ \A g \in Goals : f[g] = Unclaimed(target[g]) /\ f1[g] = Unclaimed(target'[g])
      /\ \A s \in Slots : h[s] = Unclaimed(stop[s]) /\ h1[s] = Unclaimed(stop'[s])
  OBVIOUS
<1> HIDE DEF f, h, f1, h1
<1>6. /\ SumFunctionOnSet(f, Goals) \in Nat /\ SumFunctionOnSet(f1, Goals) \in Nat
      /\ SumFunctionOnSet(h, Slots) \in Nat /\ SumFunctionOnSet(h1, Slots) \in Nat
  BY <1>1, GoalsFinite, SumType
<1>7. ASSUME NEW g \in Goals, \A x \in Goals : x # g => target'[x] = target[x],
             UNCHANGED <<stop, loose>>
      PROVE  Owed' + Unclaimed(target[g]) = Owed + Unclaimed(target'[g])
  <2>1. \A x \in Goals : x # g => f1[x] = f[x]
    BY <1>5, <1>7
  <2>2. SumFunctionOnSet(f1, Goals) + f[g] = SumFunctionOnSet(f, Goals) + f1[g]
    BY <1>1, <2>1, GoalsFinite, SumUpdate
  <2>3. h1 = h /\ loose' = loose
    BY <1>4, <1>7
  <2>4. QED BY <1>1, <1>2, <1>3, <1>5, <1>6, <2>2, <2>3
<1>8. ASSUME NEW s \in Slots, \A x \in Slots : x # s => stop'[x] = stop[x],
             UNCHANGED <<target, loose>>
      PROVE  Owed' + Unclaimed(stop[s]) = Owed + Unclaimed(stop'[s])
  <2>1. \A x \in Slots : x # s => h1[x] = h[x]
    BY <1>5, <1>8
  <2>2. SumFunctionOnSet(h1, Slots) + h[s] = SumFunctionOnSet(h, Slots) + h1[s]
    BY <1>1, <2>1, GoalsFinite, SumUpdate
  <2>3. f1 = f /\ loose' = loose
    BY <1>4, <1>8
  <2>4. QED BY <1>1, <1>2, <1>3, <1>5, <1>6, <2>2, <2>3
<1>9. QED BY <1>7, <1>8

\* Snapshots stay when no task moves.
LEMMA ViewsKept ==
  ASSUME Backed, Grown, ExchangeSound', UNCHANGED task
  PROVE  ViewsBacked'
<1>1. ASSUME NEW k \in Tasks, NEW n \in DOMAIN task'[k].views
      PROVE  Fits(task'[k].views[n])
  BY <1>1, OldFits
<1>2. QED BY <1>1 DEF ViewsBacked, Fits, Shown

\* An order sells n steps of the position.
LEMMA SoldAdvances ==
  ASSUME Backed, Lives, UNCHANGED <<leg, trade, meets>>, NEW n \in Nat,
         position' = position - n, Owed' = Owed + n, OrdersBacked', ViewsBacked'
  PROVE  Advances
<1>1. Amounts /\ ExchangeSound' /\ position' \in Nat
  BY OrderQuantities DEF Backed, Lives, LifeInv, ExchangeSound
<1>3. Entered' = Entered
  BY DEF Entered
<1>4. position' <= Entered' /\ (Counts => trade'.booked + Owed' <= Entered' - position')
  <2>1. trade.booked \in Nat /\ Owed \in Nat
    BY Quantities, OwedIsNat DEF Sound, Backed, LifeInv, OwedIsKnown
  <2>2. Entered \in Nat /\ position \in Nat
    BY <1>1 DEF Amounts
  <2>3. QED BY <1>3, <2>1, <2>2 DEF Backed, SoldCovers
<1>5. \A i \in Legs : /\ leg[i].got <= leg'[i].got
                      /\ leg'[i].state = "none" => leg'[i].got = 0
                      /\ trade'.known[i] = "planned" => leg'[i].state = "none"
  BY <1>1 DEF Backed, LegsBacked, Amounts
<1>6. Backed'
  BY <1>4, <1>5, Assembled
<1>7. QED BY <1>4, <1>6, Covered

\* An order executes.
LEMMA ExecutedMore ==
  ASSUME NEW o \in OrderRecord, NEW n \in Nat, o.claimed <= o.executed
  PROVE  /\ Executed(o, n).executed = o.executed + n
         /\ Executed(o, n).claimed = o.claimed
         /\ Executed(o, n).claimed <= Executed(o, n).executed
         /\ Unclaimed(Executed(o, n)) = Unclaimed(o) + n
         /\ Unclaimed(o) \in Nat
<1>1. Executed(o, n).executed = o.executed + n /\ Executed(o, n).claimed = o.claimed
  BY DEF OrderRecord, Executed
<1>2. o.executed \in Nat /\ o.claimed \in Nat
  BY DEF OrderRecord
<1>3. QED BY <1>1, <1>2 DEF Unclaimed

\* What a target or a stop sells.
LEMMA SellsPart ==
  ASSUME NEW q \in 0..MaxQty, position \in Nat
  PROVE  Lesser(q, position) \in Nat /\ Lesser(q, position) <= position
BY DEF Lesser, MaxQty

\* A target fills on the exchange.
LEMMA TargetAdvances ==
  ASSUME Backed, Lives, UNCHANGED <<trade, task, meets>>, NEW g \in Goals, TargetFills(g)
  PROVE  Advances
<1> DEFINE n == Lesser(target[g].qty, position)
<1>1. /\ target' = [target EXCEPT ![g] = Executed(target[g], n)]
      /\ position' = position - n /\ UNCHANGED <<leg, stop, loose>>
  BY DEF TargetFills
<1>2. target \in [Goals -> OrderRecord] /\ position \in Nat /\ ExchangeSound
  BY DEF Backed, LifeInv, ExchangeSound
<1>3. n \in Nat
  BY <1>2, SellsPart DEF OrderRecord
<1> HIDE DEF n
<1>4. Amounts /\ Amounts'
  BY <1>2, OrderQuantities, LaterQuantities DEF Lives, LifeInv
<1>5. /\ target'[g] = Executed(target[g], n)
      /\ \A h \in Goals : h # g => target'[h] = target[h]
  BY <1>1, <1>2
<1>6. target[g].claimed <= target[g].executed /\ target[g] \in OrderRecord
  BY <1>2 DEF Backed, OrdersBacked
<1>7. /\ target'[g].executed = target[g].executed + n
      /\ target'[g].claimed <= target'[g].executed
      /\ Unclaimed(target'[g]) = Unclaimed(target[g]) + n /\ Unclaimed(target[g]) \in Nat
  BY <1>3, <1>5, <1>6, ExecutedMore
<1>8. Grown
  BY <1>1, <1>3, <1>4, <1>5, <1>7 DEF Grown, Amounts
<1>9. OrdersBacked'
  BY <1>1, <1>5, <1>7 DEF Backed, OrdersBacked
<1>10. Owed' = Owed + n
  <2>1. OrdersBacked
    BY DEF Backed
  <2>2. Owed' + Unclaimed(target[g]) = Owed + Unclaimed(target'[g])
    BY <1>1, <1>4, <1>5, <1>9, <2>1, OwedMoves
  <2>3. Owed \in Nat /\ Owed' \in Nat
    BY <1>2, <1>9, <2>1, OwedIsNat, OwedIsNatLater DEF OwedIsKnown, Lives, LifeInv
  <2>4. QED BY <1>3, <1>7, <2>2, <2>3
<1>11. ViewsBacked'
  BY <1>8, ViewsKept DEF Lives, LifeInv
<1>12. QED BY <1>1, <1>3, <1>9, <1>10, <1>11, SoldAdvances

\* A stop fires on the exchange.
LEMMA StopFiresAdvances ==
  ASSUME Backed, Lives, UNCHANGED <<trade, task, meets>>, NEW s \in Slots, StopFires(s)
  PROVE  Advances
<1> DEFINE n == Lesser(stop[s].qty, position)
<1>1. /\ stop' = [stop EXCEPT ![s] = Executed(stop[s], n)]
      /\ position' = position - n /\ UNCHANGED <<leg, target, loose>>
  BY DEF StopFires
<1>2. stop \in [Slots -> OrderRecord] /\ position \in Nat /\ ExchangeSound
  BY DEF Backed, LifeInv, ExchangeSound
<1>3. n \in Nat
  BY <1>2, SellsPart DEF OrderRecord
<1> HIDE DEF n
<1>4. Amounts /\ Amounts'
  BY <1>2, OrderQuantities, LaterQuantities DEF Lives, LifeInv
<1>5. /\ stop'[s] = Executed(stop[s], n)
      /\ \A r \in Slots : r # s => stop'[r] = stop[r]
  BY <1>1, <1>2
<1>6. stop[s].claimed <= stop[s].executed /\ stop[s] \in OrderRecord
  BY <1>2 DEF Backed, OrdersBacked
<1>7. /\ stop'[s].executed = stop[s].executed + n
      /\ stop'[s].claimed <= stop'[s].executed
      /\ Unclaimed(stop'[s]) = Unclaimed(stop[s]) + n /\ Unclaimed(stop[s]) \in Nat
  BY <1>3, <1>5, <1>6, ExecutedMore
<1>8. Grown
  BY <1>1, <1>3, <1>4, <1>5, <1>7 DEF Grown, Amounts
<1>9. OrdersBacked'
  BY <1>1, <1>5, <1>7 DEF Backed, OrdersBacked
<1>10. Owed' = Owed + n
  <2>1. OrdersBacked
    BY DEF Backed
  <2>2. Owed' + Unclaimed(stop[s]) = Owed + Unclaimed(stop'[s])
    BY <1>1, <1>4, <1>5, <1>9, <2>1, OwedMoves
  <2>3. Owed \in Nat /\ Owed' \in Nat
    BY <1>2, <1>9, <2>1, OwedIsNat, OwedIsNatLater DEF OwedIsKnown, Lives, LifeInv
  <2>4. QED BY <1>3, <1>7, <2>2, <2>3
<1>11. ViewsBacked'
  BY <1>8, ViewsKept DEF Lives, LifeInv
<1>12. QED BY <1>1, <1>3, <1>9, <1>10, <1>11, SoldAdvances

\* An entry leg fills, all of it or one step.
LEMMA LegFillAdvances ==
  ASSUME Backed, Lives, UNCHANGED <<trade, task, meets>>, NEW i \in Legs,
         LegFills(i) \/ LegFillsPartly(i) \/ LegDies(i)
  PROVE  Advances
<1>1. leg \in [Legs -> LegRecord] /\ ExchangeSound /\ leg[i].state = "rests"
  BY DEF Backed, LifeInv, ExchangeSound, LegFills, LegFillsPartly, LegDies
<1>2. leg[i].got \in 0..2 /\ leg[i].got <= LegQty[i] /\ LegQty[i] \in 0..2
  BY <1>1 DEF ExchangeSound, LegRecord, LegQty, Legs
<1>3. UNCHANGED <<target, stop, loose>>
  BY DEF LegFills, LegFillsPartly, LegDies
<1>4. Grown
  <2>1. Amounts
    BY <1>1, OrderQuantities
  <2>2. QED BY <1>3, <2>1 DEF Grown, Amounts
<1>5. ViewsBacked'
  BY <1>4, ViewsKept DEF Lives, LifeInv
<1>6. \A j \in Legs : trade'.known[j] = "planned" => trade.known[j] = "planned" /\ j # i
  BY <1>1 DEF Backed, LegsBacked
<1>7. position \in Nat
  BY <1>1 DEF ExchangeSound
<1>8. ASSUME NEW l, leg' = [leg EXCEPT ![i] = l], NEW n \in Nat,
             l.got = leg[i].got + n, l.state # "none", position' = position + n
      PROVE  Advances
  BY <1>3, <1>5, <1>6, <1>8, LegAdvances
<1>9. CASE LegFills(i)
  <2> DEFINE l == [state |-> "filled", got |-> LegQty[i]]
             n == LegQty[i] - leg[i].got
  <2>1. leg' = [leg EXCEPT ![i] = l] /\ position' = position + LegQty[i] - leg[i].got
    BY <1>9 DEF LegFills
  <2>2. n \in Nat /\ l.got = leg[i].got + n /\ l.state # "none"
    BY <1>2
  <2>3. position' = position + n
    BY <1>2, <1>7, <2>1
  <2> HIDE DEF l, n
  <2>4. QED BY <1>8, <2>1, <2>2, <2>3
<1>10. CASE LegFillsPartly(i)
  <2> DEFINE l == [leg[i] EXCEPT !.got = 1]
  <2>1. leg' = [leg EXCEPT ![i] = l] /\ position' = position + 1 /\ leg[i].got = 0
    BY <1>10 DEF LegFillsPartly
  <2>2. l.got = leg[i].got + 1 /\ l.state # "none"
    BY <1>1, <2>1 DEF LegRecord
  <2> HIDE DEF l
  <2>3. QED BY <1>8, <2>1, <2>2
<1>11. CASE LegDies(i)
  <2> DEFINE l == [leg[i] EXCEPT !.state = "gone"]
  <2>1. leg' = [leg EXCEPT ![i] = l] /\ position' = position + 0
    BY <1>7, <1>11 DEF LegDies
  <2>2. l.got = leg[i].got + 0 /\ l.state # "none"
    BY <1>1, <1>2 DEF LegRecord
  <2> HIDE DEF l
  <2>3. QED BY <1>8, <2>1, <2>2
<1>12. QED BY <1>9, <1>10, <1>11

\* The steps of the exchange.
LEMMA ExchangesAdvance ==
  ASSUME Backed, Lives, Exchanges
  PROVE  Advances
<1>1. UNCHANGED <<trade, task, meets>>
  BY DEF Exchanges
<1>2. ASSUME NEW s \in Slots, StopDies(s) PROVE Advances
  <2>1. stop \in [Slots -> OrderRecord]
    BY DEF Backed, LifeInv, ExchangeSound
  <2>2. /\ \A r \in Slots : /\ stop'[r].executed = stop[r].executed
                            /\ stop'[r].claimed = stop[r].claimed
        /\ UNCHANGED <<leg, target, loose, position>>
    BY <1>2, <2>1 DEF StopDies, Removed, OrderRecord
  <2>3. LegsStay /\ OrdersStay
    BY <2>2 DEF LegsStay, OrdersStay
  <2>4. Grown /\ ExchangeSound'
    BY <2>3, StayGrown
  <2>5. ViewsBacked'
    BY <1>1, <2>4, ViewsKept
  <2>6. QED BY <1>1, <2>3, <2>5, Unmoved
<1>3. QED BY <1>1, <1>2, LegFillAdvances, TargetAdvances, StopFiresAdvances
          DEF Exchanges, ExchangeStep

-----------------------------------------------------------------------------
(* What is booked.                                                         *)

\* A booking takes at most what it is told.
LEMMA BooksAtMost ==
  ASSUME NEW t \in TradeRecord, NEW n \in Nat
  PROVE  \A why : /\ "booked" \in DOMAIN Booked(t, n, why)
                  /\ Booked(t, n, why).booked \in Nat
                  /\ Booked(t, n, why).booked <= t.booked + n
<1> DEFINE applied == Lesser(t.remaining + t.audit, n)
<1>1. t.remaining \in Nat /\ t.audit \in Nat /\ t.booked \in Nat
  BY Quantities
<1>2. applied \in Nat /\ applied <= n
  BY <1>1 DEF Lesser
<1>3. \A why : /\ "booked" \in DOMAIN Booked(t, n, why)
               /\ Booked(t, n, why).booked = t.booked + applied
  BY DEF Booked, TradeRecord
<1> HIDE DEF applied
<1>4. QED BY <1>1, <1>2, <1>3

\* The fills that a snapshot shows add at most their quantity to what is booked.
LEMMA FillsBookAtMost ==
  ASSUME NEW t \in TradeRecord, NEW v, NEW o, FillsSeen(v, o) \in Nat
  PROVE  /\ "booked" \in DOMAIN WithMissingFills(t, v, o)
         /\ WithMissingFills(t, v, o).booked \in Nat
         /\ WithMissingFills(t, v, o).booked <= t.booked + FillsSeen(v, o)
<1> DEFINE why == IF StopsSeen(v, o) > 0 THEN "stop"
                  ELSE IF v.loose > 0 /\ ~o THEN "close" ELSE "target"
           n == FillsSeen(v, o)
           b == Booked(t, n, why)
           c == TargetsHit(b, MatchingTargets(v))
           d == [c EXCEPT !.issues =
                   @ \ ({"reconcile"} \union IF c.audit = 0 THEN {"drift"} ELSE {})]
<1>1. "booked" \in DOMAIN b /\ b.booked \in Nat /\ b.booked <= t.booked + n
  BY BooksAtMost
<1>2. WithMissingFills(t, v, o) = IF n = 0 THEN t ELSE d
  BY DEF WithMissingFills
<1> HIDE DEF b, n
<1>3. "booked" \in DOMAIN c /\ c.booked = b.booked
  BY <1>1 DEF TargetsHit
<1> HIDE DEF c
<1>4. "booked" \in DOMAIN d /\ d.booked = c.booked
  BY <1>3
<1> HIDE DEF d
<1>5. t.booked \in Nat /\ "booked" \in DOMAIN t /\ n \in Nat
  BY Quantities DEF TradeRecord, n
<1>6. QED BY <1>1, <1>2, <1>3, <1>4, <1>5 DEF n

\* The fills of a snapshot that nobody has booked since are not more than what is
\* unclaimed.
Claimable(v) ==
  /\ v.target \in [Goals -> Nat] /\ v.stop \in [Slots -> Nat] /\ v.loose \in Nat
  /\ \A g \in Goals : v.target[g] <= Unclaimed(target[g])
  /\ \A s \in Slots : v.stop[s] <= Unclaimed(stop[s])
  /\ v.loose <= Unclaimed(loose)

\* What of its snapshot a task has not booked yet is still owed.
LEMMA UnprocessedFits ==
  ASSUME Backed, NEW k \in Tasks
  PROVE  Claimable(Unprocessed(View(k))) /\ View(k) \in ViewRecord
<1> DEFINE w == View(k)
           v == Unprocessed(w)
<1>1. Amounts /\ OrdersBacked
  BY OrderQuantities DEF Backed, LifeInv
<1>2. Shown(w) /\ w \in ViewRecord
  <2>1. CASE task[k].views = <<>>
    <3>1. w = NoView
      BY <2>1 DEF View
    <3>2. NoView \in ViewRecord
      <4>1. <<>> \in LegsShownRecord
        <5>1. <<>> \in [{} -> LegRecord] /\ {} \in SUBSET Legs
          OBVIOUS
        <5>2. QED BY <5>1 DEF LegsShownRecord
      <4>2. QED BY <4>1 DEF NoView, ViewRecord, NoQty
    <3>3. Shown(NoView)
      BY <1>1 DEF NoView, NoQty, Shown, Amounts
    <3>4. QED BY <3>1, <3>2, <3>3
  <2>2. CASE task[k].views # <<>>
    <3>1. task[k].views \in Seq(ViewRecord)
      BY DEF Backed, LifeInv, TaskRecord
    <3>2. 1 \in DOMAIN task[k].views /\ w = task[k].views[1]
      BY <2>2, <3>1 DEF View
    <3>3. QED BY <3>1, <3>2 DEF Backed, ViewsBacked
  <2>3. QED BY <2>1, <2>2
<1> HIDE DEF w
<1>3. w.target \in [Goals -> Nat] /\ w.stop \in [Slots -> Nat] /\ w.loose \in Nat
  BY <1>2 DEF ViewRecord
<1>4. /\ v.target = [g \in Goals |-> Greater(0, w.target[g] - target[g].claimed)]
      /\ v.stop = [s \in Slots |-> Greater(0, w.stop[s] - stop[s].claimed)]
      /\ v.loose = Greater(0, w.loose - loose.claimed)
  BY <1>2 DEF Unprocessed, ViewRecord
<1> HIDE DEF v
<1>5. \A g \in Goals : v.target[g] \in Nat /\ v.target[g] <= Unclaimed(target[g])
  BY <1>1, <1>2, <1>3, <1>4 DEF Amounts, OrdersBacked, Shown, Greater, Unclaimed
<1>6. \A s \in Slots : v.stop[s] \in Nat /\ v.stop[s] <= Unclaimed(stop[s])
  BY <1>1, <1>2, <1>3, <1>4 DEF Amounts, OrdersBacked, Shown, Greater, Unclaimed
<1>7. v.loose \in Nat /\ v.loose <= Unclaimed(loose)
  BY <1>1, <1>2, <1>3, <1>4 DEF Amounts, OrdersBacked, Shown, Greater, Unclaimed
<1>8. Claimable(v)
  BY <1>4, <1>5, <1>6, <1>7 DEF Claimable
<1>9. QED BY <1>2, <1>8 DEF v, w

\* An order that is claimed in part.
LEMMA ClaimedMore ==
  ASSUME NEW o, {"executed", "claimed"} \subseteq DOMAIN o,
         o.executed \in Nat, o.claimed \in Nat, NEW n \in Nat, n <= Unclaimed(o)
  PROVE  /\ Claimed(o, n).executed = o.executed
         /\ Claimed(o, n).claimed \in Nat
         /\ Claimed(o, n).claimed <= Claimed(o, n).executed
         /\ Unclaimed(Claimed(o, n)) \in Nat
         /\ Unclaimed(o) = Unclaimed(Claimed(o, n)) + n
<1>1. Claimed(o, n).executed = o.executed /\ Claimed(o, n).claimed = o.claimed + n
  BY DEF Claimed
<1>2. QED BY <1>1 DEF Unclaimed

\* What is claimed is not owed any more.
LEMMA ClaimsPay ==
  ASSUME Backed, NEW v, Claimable(v), NEW o, ClaimFills(v, o)
  PROVE  /\ FillsSeen(v, o) \in Nat
         /\ Owed = Owed' + FillsSeen(v, o) /\ Owed' \in Nat
         /\ OrdersBacked' /\ Grown
<1>1. Amounts /\ target \in [Goals -> OrderRecord] /\ stop \in [Slots -> OrderRecord]
      /\ loose \in [executed : Nat, claimed : Nat]
  BY OrderQuantities DEF Backed, LifeInv, ExchangeSound
<1> DEFINE st == [s \in Slots |-> IF v.own \/ ~o THEN v.stop[s] ELSE 0]
           lo == IF o THEN 0 ELSE v.loose
<1>2. \A g \in Goals : /\ target'[g] = Claimed(target[g], v.target[g])
                       /\ v.target[g] \in Nat /\ v.target[g] <= Unclaimed(target[g])
  BY DEF Claimable, ClaimFills
<1>3. \A s \in Slots : /\ stop'[s] = IF v.own \/ ~o THEN Claimed(stop[s], v.stop[s]) ELSE stop[s]
                       /\ v.stop[s] \in Nat /\ v.stop[s] <= Unclaimed(stop[s])
  BY DEF Claimable, ClaimFills
<1>4. ASSUME NEW g \in Goals
      PROVE  /\ target'[g].executed = target[g].executed
             /\ target'[g].claimed <= target'[g].executed
             /\ Unclaimed(target'[g]) \in Nat
             /\ Unclaimed(target[g]) = Unclaimed(target'[g]) + v.target[g]
  <2>1. target[g] \in OrderRecord
    BY <1>1
  <2>2. /\ {"executed", "claimed"} \subseteq DOMAIN target[g]
        /\ target[g].executed \in Nat /\ target[g].claimed \in Nat
    BY <2>1 DEF OrderRecord
  <2>3. QED BY <1>2, <2>2, ClaimedMore
<1>5. ASSUME NEW s \in Slots
      PROVE  /\ stop'[s].executed = stop[s].executed
             /\ stop'[s].claimed <= stop'[s].executed
             /\ Unclaimed(stop'[s]) \in Nat
             /\ Unclaimed(stop[s]) = Unclaimed(stop'[s]) + st[s] /\ st[s] \in Nat
  <2>1. stop[s] \in OrderRecord
    BY <1>1
  <2>2. /\ {"executed", "claimed"} \subseteq DOMAIN stop[s]
        /\ stop[s].executed \in Nat /\ stop[s].claimed \in Nat
    BY <2>1 DEF OrderRecord
  <2>3. CASE v.own \/ ~o
    <3>1. stop'[s] = Claimed(stop[s], v.stop[s]) /\ st[s] = v.stop[s]
      BY <1>3, <2>3
    <3> HIDE DEF st
    <3>2. QED BY <1>3, <2>2, <3>1, ClaimedMore
  <2>4. CASE ~(v.own \/ ~o)
    <3>1. stop'[s] = stop[s] /\ st[s] = 0 /\ stop[s].claimed <= stop[s].executed
      BY <1>3, <2>4 DEF Backed, OrdersBacked
    <3>2. Unclaimed(stop[s]) \in Nat
      BY <2>2, <3>1 DEF Unclaimed
    <3> HIDE DEF st
    <3>3. QED BY <3>1, <3>2
  <2>5. QED BY <2>3, <2>4
<1>6. /\ loose'.executed = loose.executed /\ loose'.claimed <= loose'.executed
      /\ Unclaimed(loose') \in Nat /\ Unclaimed(loose) = Unclaimed(loose') + lo /\ lo \in Nat
  <2>1. /\ {"executed", "claimed"} \subseteq DOMAIN loose
        /\ loose.executed \in Nat /\ loose.claimed \in Nat
    BY <1>1
  <2>2. CASE o
    <3>1. loose' = loose /\ lo = 0 /\ loose.claimed <= loose.executed
      BY <2>2 DEF ClaimFills, Backed, OrdersBacked
    <3>2. Unclaimed(loose) \in Nat
      BY <2>1, <3>1 DEF Unclaimed
    <3> HIDE DEF lo
    <3>3. QED BY <3>1, <3>2
  <2>3. CASE ~o
    <3>1. /\ loose' = Claimed(loose, v.loose) /\ lo = v.loose
          /\ v.loose \in Nat /\ v.loose <= Unclaimed(loose)
      BY <2>3 DEF ClaimFills, Claimable
    <3> HIDE DEF lo
    <3>2. QED BY <2>1, <3>1, ClaimedMore
  <2>4. QED BY <2>2, <2>3
<1> DEFINE f == [g \in Goals |-> Unclaimed(target[g])]
           h == [s \in Slots |-> Unclaimed(stop[s])]
           f1 == [g \in Goals |-> Unclaimed(target'[g])]
           h1 == [s \in Slots |-> Unclaimed(stop'[s])]
<1>7. /\ \A g \in Goals : f1[g] \in Nat /\ v.target[g] \in Nat /\ f[g] = f1[g] + v.target[g]
      /\ \A s \in Slots : h1[s] \in Nat /\ st[s] \in Nat /\ h[s] = h1[s] + st[s]
  BY <1>2, <1>4, <1>5
<1>8. Owed = SumFunctionOnSet(f, Goals) + SumFunctionOnSet(h, Slots) + Unclaimed(loose)
  BY DEF Owed
<1>9. Owed' = SumFunctionOnSet(f1, Goals) + SumFunctionOnSet(h1, Slots) + Unclaimed(loose')
  BY DEF Owed
<1>10. SumFunctionOnSet(st, Slots) = StopsSeen(v, o)
  <2>1. v.stop \in [Slots -> Nat]
    BY DEF Claimable
  <2>2. CASE v.own \/ ~o
    <3>1. \A s \in Slots : st[s] = v.stop[s]
      BY <2>2
    <3>2. SumFunctionOnSet(st, Slots) = SumFunctionOnSet(v.stop, Slots)
      <4> HIDE DEF st
      <4>1. QED BY <3>1, GoalsFinite, SumSame
    <3>3. DOMAIN v.stop = Slots
      BY <2>1
    <3>4. QED BY <2>2, <3>2, <3>3 DEF StopsSeen, UnclaimedStops, SumFunction
  <2>3. CASE ~(v.own \/ ~o)
    <3>1. \A s \in Slots : st[s] = 0
      BY <2>3
    <3>2. SumFunctionOnSet(st, Slots) = 0
      <4> HIDE DEF st
      <4>1. QED BY <3>1, GoalsFinite, SumOfZeros
    <3>3. QED BY <2>3, <3>2 DEF StopsSeen
  <2>4. QED BY <2>2, <2>3
<1>11. SumFunctionOnSet(v.target, Goals) = UnclaimedTargets(v)
  <2>1. DOMAIN v.target = Goals
    BY DEF Claimable
  <2>2. QED BY <2>1 DEF UnclaimedTargets, SumFunction
<1>12. FillsSeen(v, o) = UnclaimedTargets(v) + StopsSeen(v, o) + lo
  BY DEF FillsSeen
<1> HIDE DEF f, h, f1, h1, st, lo
<1>13. /\ SumFunctionOnSet(f, Goals)
            = SumFunctionOnSet(f1, Goals) + SumFunctionOnSet(v.target, Goals)
       /\ SumFunctionOnSet(h, Slots)
            = SumFunctionOnSet(h1, Slots) + SumFunctionOnSet(st, Slots)
  BY <1>7, GoalsFinite, SumAdd
<1>14. /\ SumFunctionOnSet(f1, Goals) \in Nat /\ SumFunctionOnSet(h1, Slots) \in Nat
       /\ SumFunctionOnSet(v.target, Goals) \in Nat /\ SumFunctionOnSet(st, Slots) \in Nat
  BY <1>7, GoalsFinite, SumType
<1>15. FillsSeen(v, o) \in Nat /\ Owed' \in Nat /\ Owed = Owed' + FillsSeen(v, o)
  BY <1>6, <1>8, <1>9, <1>10, <1>11, <1>12, <1>13, <1>14
<1>16. OrdersBacked' /\ Grown
  BY <1>1, <1>4, <1>5, <1>6 DEF OrdersBacked, Grown, Amounts
<1>17. QED BY <1>15, <1>16

\* A step that books no more than it claims.
LEMMA BooksAdvance ==
  ASSUME Backed, Lives, UNCHANGED <<leg, position>>, NEW n \in Nat, Owed' \in Nat,
         Owed = Owed' + n, trade'.booked <= trade.booked + n, OrdersBacked',
         ViewsBacked', meets' = meets
  PROVE  Advances
<1>1. Amounts
  BY OrderQuantities DEF Backed, LifeInv
<1>2. Entered' = Entered /\ position' = position
  BY DEF Entered
<1>3. trade.booked \in Nat /\ trade'.booked \in Nat
  BY Quantities DEF Sound, Backed, Lives, LifeInv
<1>4. position' <= Entered' /\ (Counts => trade'.booked + Owed' <= Entered' - position')
  <2>1. Entered \in Nat /\ position \in Nat
    BY <1>1 DEF Amounts
  <2>2. QED BY <1>2, <1>3, <2>1 DEF Backed, SoldCovers
<1>5. ASSUME NEW i \in Legs
      PROVE  /\ leg[i].got <= leg'[i].got
             /\ leg'[i].state = "none" => leg'[i].got = 0
             /\ trade'.known[i] = "planned" => leg'[i].state = "none"
  <2>1. trade'.known[i] = "planned" => trade.known[i] = "planned"
    BY DEF Lives, Keeps, Grows, Records
  <2>2. QED BY <1>1, <2>1 DEF Backed, LegsBacked, Amounts
<1>6. Backed'
  BY <1>4, <1>5, Assembled
<1>7. QED BY <1>4, <1>6, Covered

\* The fills of a snapshot are booked.
LEMMA ClaimsAdvance ==
  ASSUME Backed, Lives, NEW k \in Tasks, NEW v, v = Unprocessed(View(k)), NEW o,
         ClaimFills(v, o), UNCHANGED <<leg, position>>,
         trade'.booked = WithMissingFills(trade, v, o).booked, Moves(k)
  PROVE  Advances
<1>1. Claimable(v)
  BY UnprocessedFits
<1>2. /\ FillsSeen(v, o) \in Nat /\ Owed = Owed' + FillsSeen(v, o) /\ Owed' \in Nat
      /\ OrdersBacked' /\ Grown
  BY <1>1, ClaimsPay
<1>3. trade \in TradeRecord
  BY DEF Backed, LifeInv, Sound
<1>4. trade'.booked <= trade.booked + FillsSeen(v, o)
  BY <1>2, <1>3, FillsBookAtMost
<1>5. ViewsBacked' /\ meets' = meets
  <2>1. ExchangeSound'
    BY DEF Lives, LifeInv
  <2>2. Steps(k)
    BY <1>2, <2>1, CallsFit DEF Moves
  <2>3. QED BY <1>2, <2>1, <2>2, StepsFit
<1>6. QED BY <1>2, <1>4, <1>5, BooksAdvance

\* The sync books the fills of owned orders.
LEMMA SyncBooksAdvances ==
  ASSUME Backed, Lives, NEW k \in Tasks, SyncBooks(k)
  PROVE  Advances
<1> DEFINE v == Unprocessed(View(k))
           t == WithMissingFills(trade, v, TRUE)
<1>1. UNCHANGED position
  BY DEF SyncBooks
<1>2. CASE UNCHANGED <<leg, target, stop, loose, trade>> /\ Abort(k)
  BY <1>1, <1>2, EntryAdvances
<1>3. CASE UNCHANGED <<target, stop, loose>> /\ \E w, rest : EntryShown(k, w, rest)
  BY <1>1, <1>3, EntryAdvances
<1>4. CASE /\ ClaimFills(v, TRUE) /\ UNCHANGED leg
           /\ \/ trade' = PositionShown(k, t)
              \/ trade' = Finalized(Untracked(t))
           /\ Moves(k)
  <2>1. FillsSeen(v, TRUE) \in Nat
    BY <1>4, UnprocessedFits, ClaimsPay
  <2>2. "booked" \in DOMAIN t
    <3>1. trade \in TradeRecord
      BY DEF Backed, LifeInv, Sound
    <3> HIDE DEF v
    <3>2. QED BY <2>1, <3>1, FillsBookAtMost
  <2>3. t.booked = WithMissingFills(trade, v, TRUE).booked
    OBVIOUS
  <2> HIDE DEF t
  <2>4. SameBook(t, PositionShown(k, t)) /\ SameBook(t, Untracked(t))
    BY <2>2, NothingBooked
  <2>5. SameBook(t, Finalized(Untracked(t)))
    BY <2>4, NothingBooked DEF SameBook
  <2>6. trade'.booked = WithMissingFills(trade, v, TRUE).booked
    BY <1>4, <2>3, <2>4, <2>5 DEF SameBook
  <2>7. v = Unprocessed(View(k))
    OBVIOUS
  <2> HIDE DEF v
  <2>8. QED BY <1>1, <1>4, <2>6, <2>7, ClaimsAdvance
<1>5. QED
  <2>1. \/ UNCHANGED <<leg, target, stop, loose, trade>> /\ Abort(k)
        \/ UNCHANGED <<target, stop, loose>> /\ \E w, rest : EntryShown(k, w, rest)
        \/ /\ ClaimFills(v, TRUE) /\ UNCHANGED leg
           /\ \/ trade' = PositionShown(k, t) /\ Goto(k, <<"protect">>)
              \/ trade' = Finalized(Untracked(t)) /\ Abort(k)
    BY Zenon DEF SyncBooks
  <2> HIDE DEF v, t
  <2>2. QED BY <1>2, <1>3, <1>4, <2>1, Zenon DEF Moves

\* What is found when the position is not there.
LEMMA AbsentAdvances ==
  ASSUME Backed, Lives, NEW k \in Tasks, SyncAbsent(k)
  PROVE  Advances
<1> DEFINE v == Unprocessed(View(k))
           b == WithMissingFills(trade, v, FALSE)
           t == WithMiss(b)
<1>1. UNCHANGED <<leg, position>> /\ Moves(k) /\ Abort(k)
  BY DEF SyncAbsent, Moves
<1>2. CASE UNCHANGED <<target, stop, loose, trade>>
  BY <1>1, <1>2, EntryAdvances
<1>3. CASE /\ ClaimFills(v, FALSE)
           /\ trade' = Finalized(Untracked(b)) \/ trade' = t \/ trade' = ClosedMissing(t)
  <2>1. FillsSeen(v, FALSE) \in Nat
    BY <1>3, UnprocessedFits, ClaimsPay
  <2>2. "booked" \in DOMAIN b
    <3>1. trade \in TradeRecord
      BY DEF Backed, LifeInv, Sound
    <3> HIDE DEF v
    <3>2. QED BY <2>1, <3>1, FillsBookAtMost
  <2>3. b.booked = WithMissingFills(trade, v, FALSE).booked
    OBVIOUS
  <2> HIDE DEF b
  <2>4. SameBook(b, t) /\ SameBook(b, Untracked(b))
    BY <2>2, NothingBooked
  <2> HIDE DEF t
  <2>5. SameBook(b, Finalized(Untracked(b))) /\ SameBook(b, ClosedMissing(t))
    BY <2>4, NothingBooked DEF SameBook
  <2>6. trade'.booked = WithMissingFills(trade, v, FALSE).booked
    BY <1>3, <2>3, <2>4, <2>5 DEF SameBook
  <2>7. v = Unprocessed(View(k))
    OBVIOUS
  <2> HIDE DEF v
  <2>8. QED BY <1>1, <1>3, <2>6, <2>7, ClaimsAdvance
<1>4. \/ UNCHANGED <<target, stop, loose, trade>>
      \/ /\ ClaimFills(v, FALSE)
         /\ trade' = Finalized(Untracked(b)) \/ trade' = t \/ trade' = ClosedMissing(t)
  BY DEF SyncAbsent
<1> HIDE DEF v, b, t
<1>5. QED BY <1>2, <1>3, <1>4, Zenon

\* The fill of the stop is booked.
LEMMA StopDoneAdvances ==
  ASSUME Backed, Lives, NEW k \in Tasks, NEW seen, StopDone(k, seen)
  PROVE  Advances
<1> DEFINE s == trade.sl
           n == Unprocessed(View(k)).stop[s]
           b == [Booked(trade, n, "stop") EXCEPT !.sl = 0]
           t == IF b.audit = 0 THEN [b EXCEPT !.issues = @ \ {"drift"}] ELSE b
<1>1. CASE \E I : RetireFirst(k, I)
  BY <1>1, RetireAdvances
<1>2. CASE ~\E I : RetireFirst(k, I)
  <2>1. UNCHANGED <<leg, target, loose, position>> /\ s \in Slots
    <3>1. trade.sl \in {0} \union Slots
      BY DEF Backed, LifeInv, Sound, TradeRecord
    <3>2. QED BY <1>2, <3>1, Zenon DEF StopDone, StopHit, StopAsked
  <2>2. CASE /\ stop' = stop /\ Moves(k)
             /\ trade' = trade \/ trade' = [trade EXCEPT !.sl = 0]
    <3>1. trade'.booked = trade.booked
      BY <2>2, HasBook
    <3>2. QED BY <2>1, <2>2, <3>1, SyncSteps DEF exchange
  <2>3. CASE /\ stop' = [stop EXCEPT ![s] = Claimed(@, n)]
             /\ trade' = t \/ trade' = Finalized(Untracked(t))
             /\ Moves(k) \/ Repair(k)
    <3>1. stop \in [Slots -> OrderRecord] /\ Amounts /\ OrdersBacked /\ ExchangeSound'
      BY OrderQuantities DEF Backed, Lives, LifeInv, ExchangeSound
    <3>2. n \in Nat /\ n <= Unclaimed(stop[s])
      BY <2>1, UnprocessedFits DEF Claimable
    <3>3. trade \in TradeRecord
      BY DEF Backed, LifeInv, Sound
    <3>4. "booked" \in DOMAIN b /\ b.booked <= trade.booked + n
      <4> DEFINE c == Booked(trade, n, "stop")
      <4> HIDE DEF n
      <4>1. "booked" \in DOMAIN c /\ c.booked <= trade.booked + n
        BY <3>2, <3>3, BooksAtMost
      <4> HIDE DEF c
      <4>2. "booked" \in DOMAIN [c EXCEPT !.sl = 0] /\ [c EXCEPT !.sl = 0].booked = c.booked
        BY <4>1
      <4>3. QED BY <4>1, <4>2 DEF c
    <3> HIDE DEF b
    <3>5. SameBook(b, t)
      BY <3>4 DEF SameBook
    <3> HIDE DEF t
    <3>6. SameBook(t, Finalized(Untracked(t)))
      <4>1. SameBook(t, Untracked(t))
        BY <3>5, NothingBooked DEF SameBook
      <4>2. QED BY <4>1, NothingBooked DEF SameBook
    <3>7. trade'.booked <= trade.booked + n
      BY <2>3, <3>4, <3>5, <3>6 DEF SameBook
    <3> HIDE DEF n, s
    <3>8. stop'[s] = Claimed(stop[s], n) /\ \A r \in Slots : r # s => stop'[r] = stop[r]
      BY <2>1, <2>3, <3>1
    <3>9. /\ stop'[s].executed = stop[s].executed
          /\ stop'[s].claimed <= stop'[s].executed
          /\ Unclaimed(stop[s]) = Unclaimed(stop'[s]) + n
          /\ Unclaimed(stop'[s]) \in Nat
      <4>1. stop[s] \in OrderRecord
        BY <2>1, <3>1
      <4>2. /\ {"executed", "claimed"} \subseteq DOMAIN stop[s]
            /\ stop[s].executed \in Nat /\ stop[s].claimed \in Nat
        BY <4>1 DEF OrderRecord
      <4>3. QED BY <3>2, <3>8, <4>2, ClaimedMore
    <3>10. Grown /\ OrdersBacked'
      BY <2>1, <3>1, <3>8, <3>9 DEF Grown, OrdersBacked, Amounts
    <3>11. Owed' \in Nat /\ Owed = Owed' + n
      <4>1. Owed' + Unclaimed(stop[s]) = Owed + Unclaimed(stop'[s])
        BY <2>1, <3>1, <3>8, <3>10, OwedMoves, LaterQuantities
      <4>2. Owed \in Nat /\ Owed' \in Nat
        BY <3>1, <3>10, OwedIsNat, OwedIsNatLater DEF OwedIsKnown, Backed, LifeInv
      <4>3. QED BY <3>2, <3>9, <4>1, <4>2
    <3>12. ViewsBacked' /\ meets' = meets
      <4>1. Steps(k)
        BY <2>3, <3>1, <3>10, CallsFit, RepairSteps DEF Moves
      <4>2. QED BY <3>1, <3>10, <4>1, StepsFit
    <3>13. QED BY <2>1, <3>2, <3>7, <3>10, <3>11, <3>12, BooksAdvance
  <2>4. \/ /\ stop' = stop /\ Moves(k)
           /\ trade' = trade \/ trade' = [trade EXCEPT !.sl = 0]
        \/ /\ stop' = [stop EXCEPT ![s] = Claimed(@, n)]
           /\ trade' = t \/ trade' = Finalized(Untracked(t))
           /\ Moves(k) \/ Repair(k)
    BY <1>2, Zenon DEF StopDone, Moves
  <2> HIDE DEF s, n, b, t
  <2>5. QED BY <2>2, <2>3, <2>4, Zenon
<1>3. QED BY <1>1, <1>2

\* What is booked as closed by an order of the engine.
LEMMA ClosedBook ==
  ASSUME NEW t \in TradeRecord, NEW n \in Nat
  PROVE  /\ "booked" \in DOMAIN ClosedBy(t, n)
         /\ ClosedBy(t, n).booked = t.booked + n
         /\ "sl" \in DOMAIN ClosedBy(t, n)
         /\ t.remaining = n => ClosedBy(t, n).reason = "close"
BY DEF ClosedBy, TradeRecord

\* An answer that is lost: the order has executed, and nothing is booked.
LEMMA UnansweredAdvances ==
  ASSUME Backed, Lives, NEW k \in Tasks, NEW asked \in Nat, CloseUnanswered(k, asked),
         UNCHANGED <<leg, target>>
  PROVE  Advances
<1> DEFINE n == Lesser(asked, position)
<1>1. /\ loose' = [loose EXCEPT !.executed = @ + n] /\ position' = position - n
      /\ Return(k, FALSE) /\ UNCHANGED <<stop, trade>>
  BY DEF CloseUnanswered
<1>2. /\ ExchangeSound /\ ExchangeSound' /\ position \in Nat
      /\ loose \in [executed : Nat, claimed : Nat]
  BY DEF Backed, Lives, LifeInv, ExchangeSound
<1>3. n \in Nat
  BY <1>2 DEF Lesser
<1> HIDE DEF n
<1>4. loose'.executed = loose.executed + n /\ loose'.claimed = loose.claimed
  BY <1>1, <1>2
<1>5. Amounts /\ Amounts'
  BY <1>2, OrderQuantities, LaterQuantities
<1>6. Grown /\ OrdersBacked'
  BY <1>1, <1>3, <1>4, <1>5 DEF Grown, Amounts, Backed, OrdersBacked
<1>7. Owed' = Owed + n
  <2> DEFINE f == SumFunctionOnSet([g \in Goals |-> Unclaimed(target[g])], Goals)
             h == SumFunctionOnSet([s \in Slots |-> Unclaimed(stop[s])], Slots)
  <2>1. Owed = f + h + Unclaimed(loose)
    BY DEF Owed
  <2>2. Owed' = f + h + Unclaimed(loose')
    BY <1>1 DEF Owed
  <2>3. f \in Nat /\ h \in Nat
    <3>1. (\A g \in Goals : Unclaimed(target[g]) \in Nat)
          /\ (\A s \in Slots : Unclaimed(stop[s]) \in Nat)
      BY <1>5 DEF Amounts, Backed, OrdersBacked, Unclaimed
    <3>2. QED BY <3>1, GoalsFinite, SumType
  <2> HIDE DEF f, h
  <2>4. QED BY <1>3, <1>4, <1>5, <2>1, <2>2, <2>3 DEF Unclaimed, Amounts
<1>8. ViewsBacked' /\ meets' = meets
  <2>1. Steps(k)
    BY <1>1, <1>2, <1>6, CallsFit
  <2>2. QED BY <1>2, <1>6, <2>1, StepsFit
<1>9. QED BY <1>1, <1>3, <1>6, <1>7, <1>8, SoldAdvances

\* What was sold is booked by the answer.
LEMMA AnswerAdvances ==
  ASSUME Backed, Lives, NEW k \in Tasks, Refresh(k), UNCHANGED <<leg, target, loose>>,
         \A s \in Slots : stop'[s] \in {stop[s], Cancelled(stop[s])},
         position' <= position, trade'.booked \in Nat,
         Counts => /\ trade'.booked <= Entered - position'
                   /\ Counts' => trade'.booked - trade.booked <= position - position'
  PROVE  Advances
<1>1. ExchangeSound /\ ExchangeSound' /\ stop \in [Slots -> OrderRecord]
  BY DEF Backed, Lives, LifeInv, ExchangeSound
<1>2. \A s \in Slots : /\ stop'[s].executed = stop[s].executed
                       /\ stop'[s].claimed = stop[s].claimed
  BY <1>1, OrderLeft
<1>3. Amounts /\ Amounts'
  BY <1>1, OrderQuantities, LaterQuantities
<1>4. Grown /\ OrdersBacked'
  BY <1>2, <1>3 DEF Grown, Amounts, Backed, OrdersBacked
<1>5. Entered' = Entered
  BY DEF Entered
<1>6. Owed' = Owed
  <2> DEFINE g == [s \in Slots |-> Unclaimed(stop[s])]
             l == [s \in Slots |-> Unclaimed(stop'[s])]
             f == SumFunctionOnSet([x \in Goals |-> Unclaimed(target[x])], Goals)
  <2>1. g = l
    BY <1>2 DEF Unclaimed
  <2>2. Owed = f + SumFunctionOnSet(g, Slots) + Unclaimed(loose)
    BY DEF Owed
  <2>3. Owed' = f + SumFunctionOnSet(l, Slots) + Unclaimed(loose)
    BY DEF Owed
  <2> HIDE DEF f, g, l
  <2>4. QED BY <2>1, <2>2, <2>3
<1>7. Steps(k)
  BY <1>1, <1>4, CallsFit
<1>8. ViewsBacked' /\ meets' = meets
  BY <1>1, <1>4, <1>7, StepsFit
<1>9. /\ Entered \in Nat /\ position \in Nat /\ position' \in Nat /\ trade.booked \in Nat
      /\ Owed \in Nat
  <2>1. trade.booked \in Nat
    BY Quantities DEF Backed, LifeInv, Sound
  <2>2. Owed \in Nat
    BY <1>1, OwedIsNat DEF Backed, OwedIsKnown
  <2>3. QED BY <1>3, <2>1, <2>2 DEF Amounts
<1>10. /\ position' <= Entered'
       /\ Counts /\ Counts' => trade'.booked + Owed' <= Entered' - position'
  BY <1>5, <1>6, <1>9 DEF Backed, SoldCovers
<1>11. ASSUME NEW i \in Legs
       PROVE  /\ leg[i].got <= leg'[i].got
              /\ leg'[i].state = "none" => leg'[i].got = 0
              /\ trade'.known[i] = "planned" => leg'[i].state = "none"
  <2>1. trade'.known[i] = "planned" => trade.known[i] = "planned"
    BY DEF Lives, Keeps, Grows, Records
  <2>2. QED BY <1>3, <2>1 DEF Backed, LegsBacked, Amounts
<1>12. Backed'
  BY <1>4, <1>8, <1>10, <1>11, Assembled
<1>13. QED BY <1>5, <1>12 DEF Advances

\* A half of the remainder is sold.
LEMMA HalfAdvances ==
  ASSUME Backed, Lives, NEW k \in Tasks, CloseHalf(k)
  PROVE  Advances
<1> DEFINE asked == trade.remaining \div 2
           n == Lesser(asked, position)
<1>1. trade \in TradeRecord /\ position \in Nat /\ ExchangeSound
  BY DEF Backed, LifeInv, Sound, ExchangeSound
<1>2. asked \in Nat /\ n \in Nat /\ n <= position
  <2>1. asked \in Nat
    BY <1>1, Quantities
  <2> HIDE DEF asked
  <2>2. QED BY <1>1, <2>1 DEF Lesser
<1>3. UNCHANGED <<leg, target>>
  BY DEF CloseHalf
<1>4. CASE CloseRefused(k, asked) \/ CloseUnanswered(k, asked)
  <2> HIDE DEF asked
  <2>1. QED BY <1>2, <1>3, <1>4, RefusedAdvances, UnansweredAdvances
<1>5. CASE /\ position' = position - n /\ trade' = ClosedBy(trade, n)
           /\ UNCHANGED <<stop, loose>> /\ Refresh(k)
  <2> HIDE DEF n
  <2>1. trade'.booked = trade.booked + n /\ trade.booked \in Nat
    BY <1>1, <1>2, <1>5, ClosedBook, Quantities
  <2>2. Owed \in Nat /\ Amounts
    BY <1>1, OwedIsNat, OrderQuantities DEF Backed, OwedIsKnown
  <2>3. Counts => /\ trade'.booked <= Entered - position'
                  /\ trade'.booked - trade.booked <= position - position'
    BY <1>1, <1>2, <1>5, <2>1, <2>2 DEF Backed, SoldCovers, Amounts
  <2>4. position' <= position /\ trade'.booked \in Nat
    BY <1>1, <1>2, <1>5, <2>1
  <2>5. QED BY <1>3, <1>5, <2>3, <2>4, AnswerAdvances
<1>6. QED BY <1>4, <1>5 DEF CloseHalf

\* A trade never accounts for more than has come in.
LEMMA EntriesHold ==
  ASSUME Backed, Cleared, Filled(trade), trade.ladder \/ Calm
  PROVE  trade.booked + trade.remaining <= Entered
<1>1. Balanced(trade) /\ trade \in TradeRecord /\ LegsBacked /\ Amounts
  BY OrderQuantities DEF Backed, LifeInv, Sound
<1>2. /\ trade.entered >= trade.remaining + trade.audit + trade.booked
      /\ trade.entered = trade.got[1] + trade.got[2] + trade.got[3]
  BY <1>1, Quantities DEF Balanced, Filled, Cleared, Clear
<1>3. /\ trade.got[1] <= leg[1].got /\ trade.got[2] <= leg[2].got
      /\ trade.got[3] <= leg[3].got
  BY <1>1, LegIsOne DEF LegsBacked
<1>4. /\ leg[1].got \in Nat /\ leg[2].got \in Nat /\ leg[3].got \in Nat
      /\ trade.got[1] \in Nat /\ trade.got[2] \in Nat /\ trade.got[3] \in Nat
  BY <1>1, LegIsOne DEF Amounts, TradeRecord
<1>5. trade.remaining \in Nat /\ trade.audit \in Nat /\ trade.booked \in Nat
  BY <1>1, Quantities
<1>6. QED BY <1>2, <1>3, <1>4, <1>5 DEF Entered

\* The remainder is sold.
LEMMA MarketAdvances ==
  ASSUME Backed, Cleared, Lives, NEW k \in Tasks, CloseAtMarket(k)
  PROVE  Advances
<1>1. /\ trade \in TradeRecord /\ position \in Nat /\ ExchangeSound
      /\ trade.remaining \in Nat /\ trade.booked \in Nat
  BY Quantities DEF Backed, LifeInv, Sound, ExchangeSound
<1>2. UNCHANGED <<leg, target>> /\ Runs(k, "market")
  BY DEF CloseAtMarket
<1>3. Filled(trade)
  <2>1. "market" \in Labels /\ "market" \in Sells
    BY LabelsKnown DEF Sells
  <2>2. "market" \in Inner(trade)
    BY <1>2, <2>1, LabelsKnown, Running DEF Backed, Sells
  <2>3. QED BY <2>1, <2>2, InnerHas
<1>4. CASE CloseRefused(k, trade.remaining) \/ CloseUnanswered(k, trade.remaining)
  BY <1>1, <1>2, <1>4, RefusedAdvances, UnansweredAdvances
<1>5. ASSUME NEW left \in Leftovers, NEW F,
             LET t == ClosedBy(trade, Greater(0, trade.remaining - left)) IN
             /\ position' = left
             /\ IF IsOpen(t) \/ trade.sl = 0
                THEN F = {} /\ trade' = t /\ UNCHANGED stop
                ELSE /\ trade' = [t EXCEPT !.sl = 0]
                     /\ stop' = [s \in Slots |-> IF s \in F THEN stop[s]
                                                ELSE Cancelled(stop[s])],
             UNCHANGED loose, Refresh(k)
      PROVE  Advances
  <2> DEFINE n == Greater(0, trade.remaining - left)
             t == ClosedBy(trade, n)
  <2>1. /\ position' = left
        /\ trade' = t \/ trade' = [t EXCEPT !.sl = 0]
        /\ \/ UNCHANGED stop
           \/ stop' = [s \in Slots |-> IF s \in F THEN stop[s] ELSE Cancelled(stop[s])]
    BY <1>5, Zenon
  <2>2. left \in Nat /\ left <= position /\ (left > 0 => Meets("residual"))
    BY <1>1 DEF Leftovers
  <2>3. n \in Nat /\ (left = 0 => n = trade.remaining)
    BY <1>1, <2>2 DEF Greater
  <2>4. stop \in [Slots -> OrderRecord]
    BY <1>1 DEF ExchangeSound
  <2>5. \A s \in Slots : stop'[s] \in {stop[s], Cancelled(stop[s])}
    BY <2>1, <2>4
  <2> HIDE DEF n
  <2>6. /\ "booked" \in DOMAIN t /\ t.booked = trade.booked + n /\ "sl" \in DOMAIN t
        /\ "reason" \in DOMAIN t /\ (trade.remaining = n => t.reason = "close")
    BY <1>1, <2>3, ClosedBook DEF ClosedBy, TradeRecord
  <2> HIDE DEF t
  <2>7. /\ trade'.booked = trade.booked + n
        /\ trade.remaining = n => trade'.reason = "close"
    BY <2>1, <2>6
  <2>8. ASSUME Counts
        PROVE  /\ trade'.booked <= Entered - position'
               /\ ~Counts'
    <3>1. left = 0 /\ n = trade.remaining /\ (trade.ladder \/ Calm)
      BY <2>2, <2>3, <2>8 DEF Counts
    <3>2. trade.booked + trade.remaining <= Entered /\ Entered \in Nat
      BY <1>1, <1>3, <3>1, EntriesHold, OrderQuantities DEF Amounts
    <3>3. "close" # None
      BY Names DEF Reasons
    <3>4. trade'.reason = "close"
      BY <2>7, <3>1
    <3>5. ~Counts'
      BY <3>3, <3>4 DEF Counts
    <3>6. trade'.booked <= Entered - position'
      <4>1. position' = 0 /\ trade'.booked = trade.booked + trade.remaining
        BY <2>1, <2>7, <3>1
      <4>2. QED BY <1>1, <3>2, <4>1
    <3>7. QED BY <3>5, <3>6
  <2>9. QED BY <1>1, <1>2, <1>5, <2>1, <2>2, <2>3, <2>5, <2>7, <2>8, AnswerAdvances
<1>6. QED BY <1>4, <1>5 DEF CloseAtMarket

-----------------------------------------------------------------------------
(* Every step of the system.                                               *)

\* The routines that carry out a call.
LEMMA RoutinesAdvance ==
  ASSUME Backed, Cleared, Lives, NEW k \in Tasks, RoutineStep(k)
  PROVE  Advances
BY PlanAdvances, PlacedAdvances, VerifiedAdvances, HandlersAdvance, CloseStarts,
   MarketAdvances, HalfAdvances DEF RoutineStep

\* The steps of a protection sync.
LEMMA SyncsAdvance ==
  ASSUME Backed, Lives, NEW k \in Tasks, Syncs(k)
  PROVE  Advances
<1>1. CASE SyncProtects(k)
  <2>1. CASE UNCHANGED <<exchange, trade>> /\ Repair(k)
    BY <2>1, SyncSteps
  <2>2. CASE \E seen \in BOOLEAN : TargetsDone(k, seen) \/ StopDone(k, seen)
                                     \/ GapLooked(k, seen)
    BY <2>2, TargetsDoneAdvances, StopDoneAdvances, GapAdvances
  <2>3. QED BY <1>1, <2>1, <2>2, Zenon DEF SyncProtects
<1>2. QED BY <1>1, SyncsNest, ReadsAdvances, SyncBooksAdvances, HoldsAdvances,
             AbsentAdvances DEF Syncs

\* The handlers of the monitor.
LEMMA HandledAdvances ==
  ASSUME Backed, Lives, NEW k \in Tasks, Handles(k)
  PROVE  Advances
BY HandlersAdvance, CancelWaitingAdvances, LaddersAdvance DEF Handles

\* Every step keeps what the exchange has executed above what is booked.
LEMMA NextAdvances == Backed /\ Cleared /\ [Next]_vars => Advances
<1> SUFFICES ASSUME Backed, Cleared, [Next]_vars PROVE Advances
  OBVIOUS
<1>1. Lives
  BY NextKeeps DEF Backed
<1>2. CASE UNCHANGED vars
  <2>1. UNCHANGED <<exchange, trade, task, meets>>
    BY <1>2 DEF vars, exchange
  <2>2. QED BY <1>1, <2>1, Begun
<1>3. CASE Exchanges
  BY <1>1, <1>3, ExchangesAdvance
<1>4. CASE Expires \/ RetryDue
  BY <1>1, <1>4, ClockAdvances
<1>5. CASE Polls
  BY <1>1, <1>5, SubmitAdvances, CleanUpAdvances, PollAdvances, AskedAdvances DEF Polls
<1>6. CASE Monitors
  BY <1>1, <1>6, LooksAdvances, PollAdvances DEF Monitors
<1>7. CASE Prices
  <2>1. "price" \in Tasks
    BY DEF Tasks
  <2>2. QED BY <1>1, <1>7, <2>1, PriceAdvances, LaddersAdvance, HandlersAdvance DEF Prices
<1>8. CASE SyncBegins
  BY <1>1, <1>8, SyncBeginsAdvances
<1>9. ASSUME NEW k \in Tasks, Syncs(k) PROVE Advances
  BY <1>1, <1>9, SyncsAdvance
<1>10. ASSUME NEW k \in Tasks, Handles(k) PROVE Advances
  BY <1>1, <1>10, HandledAdvances
<1>11. ASSUME NEW k \in Tasks, RoutineStep(k) PROVE Advances
  BY <1>1, <1>11, RoutinesAdvance
<1>12. QED
  BY <1>2, <1>3, <1>4, <1>5, <1>6, <1>7, <1>8, <1>9, <1>10, <1>11 DEF Next, Engine

\* In the beginning nothing has executed.
LEMMA InitBacked == Init => Backed
<1> SUFFICES ASSUME Init PROVE Backed
  OBVIOUS
<1>1. LifeInv
  BY InitHolds
<1>2. /\ leg = [i \in Legs |-> [state |-> "none", got |-> 0]]
      /\ target = [g \in Goals |-> NoOrder] /\ stop = [s \in Slots |-> NoOrder]
      /\ loose = NoFills /\ position = 0
  BY DEF Init, ExchangeInit
<1>3. trade.got = [i \in Legs |-> 0] /\ trade.booked = 0
  BY DEF Init, NewTrade
<1>4. LegsBacked
  BY <1>2, <1>3 DEF LegsBacked
<1>5. OrdersBacked
  BY <1>2 DEF OrdersBacked, NoOrder, NoFills
<1>6. ViewsBacked
  <2>1. \A k \in Tasks : task[k].views = <<>>
    BY DEF Init, Idle
  <2>2. QED BY <2>1 DEF ViewsBacked
<1>7. Owed = 0
  <2> DEFINE f == [g \in Goals |-> Unclaimed(target[g])]
             h == [s \in Slots |-> Unclaimed(stop[s])]
  <2>1. (\A g \in Goals : f[g] = 0) /\ (\A s \in Slots : h[s] = 0) /\ Unclaimed(loose) = 0
    BY <1>2 DEF Unclaimed, NoOrder, NoFills
  <2>2. Owed = SumFunctionOnSet(f, Goals) + SumFunctionOnSet(h, Slots) + Unclaimed(loose)
    BY DEF Owed
  <2> HIDE DEF f, h
  <2>3. SumFunctionOnSet(f, Goals) = 0 /\ SumFunctionOnSet(h, Slots) = 0
    BY <2>1, GoalsFinite, SumOfZeros
  <2>4. QED BY <2>1, <2>2, <2>3
<1>8. Entered = 0
  BY <1>2 DEF Entered, Legs
<1>9. SoldCovers
  BY <1>2, <1>3, <1>7, <1>8 DEF SoldCovers
<1>10. QED BY <1>1, <1>4, <1>5, <1>6, <1>9 DEF Backed

-----------------------------------------------------------------------------
(* The end of an account sync.                                             *)

\* The labels right above the last label of an account sync, and those of the
\* protection sync, which are right above the one that enforces it.
Syncing == {"orders", "book", "holds", "protect", "absent", "enforced",
            "flattened", "cancel", "closed"}
Protecting == {"plan", "stop", "targets", "restop", "verify", "failed"}
\* The reads of an account sync, which nothing but its last label is right below,
\* and the labels that stay at the head of a stack: a look at a single order, and
\* its cancellation.
Reading == {"orders", "book"}
Heads == {"entry", "cancel"}
Above(a, b) == /\ b = "synced" => a \in Syncing
               /\ b = "enforced" => a \in Protecting
               /\ a \in Reading => b = "synced"
               /\ b \notin Heads
Nests(s) == \A i \in 1..(Len(s) - 1) : Above(s[i], s[i + 1])
Ends(s) == s # <<>> => s[Len(s)] \notin Reading

\* What an account sync leaves, and what a protection sync does.
Watched ==
  trade.owned /\ trade.status = "open" =>
    \/ Protected(trade) \/ trade.deferred \/ trade.issues # {}
    \/ \E s \in Slots : stop[s].state = "filled"
Guarded == ~IsOpen(trade) \/ Protected(trade)
\* A task that cancels a single order, when nothing does so late, is inside an
\* account sync, and the order has brought nothing in.
Cancels(k) == ~trade.ladder /\ Calm => guard = k /\ ~Filled(trade)
Arrives(k) == /\ At(k) = "synced" => Watched
              /\ At(k) = "enforced" /\ task[k].ok => Guarded
              /\ At(k) = "entry" => Meets("monitor")
              /\ At(k) = "cancel" => Cancels(k)

\* Nobody else is between two awaits.
Alone(k) == \A j \in Tasks : j # k => At(j) \notin AtOnce

Nested == \A k \in Tasks : Nests(task[k].stack) /\ Ends(task[k].stack)
OneAtOnce == \A j, k \in Tasks : At(j) \in AtOnce /\ At(k) \in AtOnce => j = k
SyncInv == LifeInv /\ Nested /\ OneAtOnce /\ \A k \in Tasks : Arrives(k)

\* What a step does.
Settles == SyncInv' /\ meets' = meets

\* The labels but for these, which are not put on a stack first, and those of
\* them that may be anywhere in what is put down.
Plain == Labels \ ({"synced", "enforced"} \union Heads)
Inside == Plain \ Reading

\* A task that runs is alone.
LEMMA RunsAlone ==
  ASSUME SyncInv, NEW k \in Tasks, NEW label, Runs(k, label)
  PROVE  Alone(k) /\ At(k) = label
<1>1. At(k) = label
  BY DEF Runs, At
<1>2. CASE label \in AtOnce
  BY <1>1, <1>2 DEF SyncInv, OneAtOnce, Alone
<1>3. CASE label \notin AtOnce
  <2>1. Awaiting
    BY <1>3 DEF Runs
  <2>2. QED BY <1>1, <2>1 DEF Awaiting, Alone
<1>4. QED BY <1>1, <1>2, <1>3

\* Nobody else makes a position of a single order that a task cancels.
LEMMA CancelsAlone ==
  ASSUME SyncInv, NEW j \in Tasks, At(j) = "cancel", Cancels(j), ~trade.ladder, Calm,
         task'[j] = task[j]
  PROVE  ~Enters
<1>1. guard = j /\ guard # None
  BY NoneAssumption DEF Cancels
<1>2. ~SubmitLeg
  <2>1. ASSUME Runs("poll", "legs") PROVE FALSE
    <3>1. "legs" \in GuardedLabels /\ At("poll") = "legs"
      BY <2>1 DEF Runs, At, GuardedLabels
    <3>2. guard = "poll"
      BY <1>1, <2>1, <3>1 DEF Runs
    <3>3. QED BY <1>1, <3>1, <3>2
  <2>2. QED BY <2>1 DEF SubmitLeg
<1>3. ~MonitorApplies
  <2>1. ASSUME Runs("monitor", "entry") PROVE FALSE
    <3>1. At("monitor") = "entry" /\ "monitor" \in Tasks
      BY <2>1 DEF Runs, At, Tasks
    <3>2. Meets("monitor")
      BY <3>1 DEF SyncInv, Arrives
    <3>3. QED BY <3>2 DEF Calm
  <2>2. QED BY <2>1 DEF MonitorApplies
<1>4. ASSUME NEW i \in Tasks, Runs(i, "cancel"),
             Goto(i, <<"plan", "activated", "close", "closed">>)
      PROVE  FALSE
  <2>1. At(i) = "cancel"
    BY <1>4 DEF Runs, At
  <2>2. i = j
    BY <1>1, <2>1 DEF SyncInv, Arrives, Cancels
  <2> DEFINE r == Tail(task[i].stack)
             l == <<"plan", "activated", "close", "closed">>
  <2>3. r \in Seq(Labels) /\ l \in Seq(Labels)
    <3>1. task[i].stack \in Seq(Labels) /\ task[i].stack # <<>>
      BY <1>4 DEF Runs, SyncInv, LifeInv, TaskRecord
    <3>2. l \in Seq(Labels)
      BY DEF Labels, GuardedLabels, AtOnce
    <3>3. QED BY <3>1, <3>2
  <2>4. task' = [task EXCEPT ![i] = IF l \o r = <<>> THEN Idle
                                    ELSE [task[i] EXCEPT !.stack = l \o r]]
    BY <1>4 DEF Goto, Becomes, Continues
  <2>5. l \o r # <<>> /\ (l \o r)[1] = "plan" /\ Head(l \o r) = (l \o r)[1]
    <3>1. Len(l) = 4 /\ l[1] = "plan"
      OBVIOUS
    <3> HIDE DEF l, r
    <3>2. Len(r) \in Nat /\ 1 \in 1..(Len(l) + Len(r)) /\ 1 <= Len(l)
      BY <2>3, <3>1
    <3>3. /\ l \o r \in Seq(Labels) /\ Len(l \o r) = Len(l) + Len(r)
          /\ (l \o r)[1] = l[1]
      BY <2>3, <3>2, ConcatProperties
    <3>4. l \o r # <<>> /\ Head(l \o r) = (l \o r)[1]
      BY <3>1, <3>2, <3>3
    <3>5. QED BY <3>1, <3>3, <3>4
  <2> HIDE DEF l, r
  <2>6. task[i] \in TaskRecord /\ task \in [Tasks -> TaskRecord]
    BY DEF SyncInv, LifeInv
  <2>7. task'[i].stack = l \o r
    BY <2>4, <2>5, <2>6 DEF TaskRecord
  <2>8. Head(task[i].stack) = "cancel"
    BY <1>4 DEF Runs
  <2>9. QED BY <2>2, <2>5, <2>7, <2>8
<1>5. ASSUME NEW i \in Tasks, Runs(i, "book") PROVE FALSE
  <2>1. "book" \in GuardedLabels /\ At(i) = "book"
    BY <1>5 DEF Runs, At, GuardedLabels
  <2>2. guard = i
    BY <1>1, <1>5, <2>1 DEF Runs
  <2>3. QED BY <1>1, <2>1, <2>2
<1>6. QED
  <2>1. \A i \in Tasks : /\ CancelWaiting(i) => Runs(i, "cancel")
                         /\ SyncBooks(i) => Runs(i, "book")
    BY DEF CancelWaiting, SyncBooks
  <2>2. QED BY <1>2, <1>3, <1>4, <1>5, <2>1, Zenon DEF Enters

\* A task that waits to look at a single order, or to cancel it, still does.
LEMMA StillCancels ==
  ASSUME SyncInv, Lives, meets' = meets, NEW j \in Tasks, task'[j] = task[j],
         guard = j => guard' = j
  PROVE  /\ At(j)' = "entry" => Meets("monitor")'
         /\ At(j)' = "cancel" => Cancels(j)'
<1>1. At(j)' = At(j)
  BY DEF At
<1>2. At(j)' = "entry" => Meets("monitor")'
  BY <1>1 DEF SyncInv, Arrives, Meets
<1>3. ASSUME At(j) = "cancel", ~trade'.ladder, Calm' PROVE guard' = j /\ ~Filled(trade')
  <2>1. ~trade.ladder /\ Calm
    BY <1>3 DEF Lives, Keeps, Grows, Records, Calm, Meets
  <2>2. Cancels(j)
    BY <1>3 DEF SyncInv, Arrives
  <2>3. ~Enters
    BY <1>3, <2>1, <2>2, CancelsAlone
  <2>4. trade'.entered = trade.entered
    BY <2>1, <2>3 DEF Lives, Keeps, Grows
  <2>5. QED BY <2>1, <2>2, <2>4 DEF Cancels, Filled
<1>4. QED BY <1>1, <1>2, <1>3 DEF Cancels

\* What a task does to its own stack is all that matters.
LEMMA Arrived ==
  ASSUME SyncInv, Lives, NEW k \in Tasks, Alone(k), NEW u,
         task' = [task EXCEPT ![k] = u], Nests(u.stack), Ends(u.stack), Arrives(k)',
         meets' = meets, \A j \in Tasks : j # k /\ guard = j => guard' = j
  PROVE  Settles
<1>1. task \in [Tasks -> TaskRecord]
  BY DEF SyncInv, LifeInv
<1>2. task'[k].stack = u.stack
  BY <1>1
<1>3. ASSUME NEW j \in Tasks, j # k
      PROVE  task'[j] = task[j] /\ At(j)' = At(j) /\ At(j) \notin AtOnce
  BY <1>1, <1>3 DEF At, Alone
<1>4. Nested'
  BY <1>2, <1>3 DEF SyncInv, Nested
<1>5. OneAtOnce'
  BY <1>3 DEF OneAtOnce
<1>6. ASSUME NEW j \in Tasks PROVE Arrives(j)'
  <2>1. CASE j = k
    BY <2>1
  <2>2. CASE j # k
    <3>1. At(j)' \notin AtOnce
      BY <1>3, <2>2
    <3>2. /\ At(j)' = "entry" => Meets("monitor")'
          /\ At(j)' = "cancel" => Cancels(j)'
      BY <1>3, <2>2, StillCancels
    <3>3. QED BY <3>1, <3>2 DEF Arrives, AtOnce
  <2>3. QED BY <2>1, <2>2
<1>7. QED BY <1>4, <1>5, <1>6 DEF SyncInv, Settles, Lives

\* Nothing moves when no task does, unless the trade or its stop do: tasks that
\* have ended something are not waited for.
LEMMA NobodyArrives ==
  ASSUME SyncInv, Lives, Awaiting, task' = task, guard' = guard, meets' = meets
  PROVE  Settles
<1>1. ASSUME NEW j \in Tasks PROVE At(j)' = At(j) /\ At(j) \notin AtOnce
  BY DEF At, Awaiting
<1>2. ASSUME NEW j \in Tasks PROVE Arrives(j)'
  <2>1. /\ At(j)' = "entry" => Meets("monitor")'
        /\ At(j)' = "cancel" => Cancels(j)'
    BY StillCancels
  <2>2. QED BY <1>1, <2>1 DEF Arrives, AtOnce
<1>3. OneAtOnce' /\ Nested'
  BY <1>1 DEF OneAtOnce, Nested, SyncInv
<1>4. QED BY <1>2, <1>3 DEF SyncInv, Settles, Lives

\* A task that goes on gives up no guard but its own, and meets nothing new.
LEMMA GuardsKept ==
  ASSUME SyncInv, NEW k \in Tasks, NEW label, Runs(k, label), NEW t, NEW stack,
         Continues(k, t, stack)
  PROVE  meets' = meets /\ \A j \in Tasks : j # k /\ guard = j => guard' = j
<1>1. meets' = meets
  BY DEF Continues, Leave
<1>2. ASSUME NEW j \in Tasks, j # k, guard = j PROVE guard' = j
  <2>1. label \notin GuardedLabels /\ Head(task[k].stack) = label
    BY <1>2, NoneAssumption DEF Runs
  <2>2. QED BY <1>2, <2>1 DEF Continues, Leave
<1>3. QED BY <1>1, <1>2

\* Stacks put on one another.
LEMMA NestsConcat ==
  ASSUME NEW a \in Seq(Labels), NEW b \in Seq(Labels), Nests(a), Nests(b),
         a # <<>> /\ b # <<>> => Above(a[Len(a)], b[1])
  PROVE  Nests(a \o b)
<1>1. /\ Len(a \o b) = Len(a) + Len(b) /\ Len(a) \in Nat /\ Len(b) \in Nat
      /\ \A i \in 1..(Len(a) + Len(b)) :
           (a \o b)[i] = IF i <= Len(a) THEN a[i] ELSE b[i - Len(a)]
  BY ConcatProperties, LenProperties
<1>2. ASSUME NEW i \in 1..(Len(a) + Len(b) - 1)
      PROVE  Above((a \o b)[i], (a \o b)[i + 1])
  <2>1. i \in 1..(Len(a) + Len(b)) /\ i + 1 \in 1..(Len(a) + Len(b))
    BY <1>1
  <2>2. CASE i < Len(a)
    <3>1. (a \o b)[i] = a[i] /\ (a \o b)[i + 1] = a[i + 1] /\ i \in 1..(Len(a) - 1)
      BY <1>1, <2>1, <2>2
    <3>2. QED BY <3>1 DEF Nests
  <2>3. CASE i = Len(a)
    <3>1. (a \o b)[i] = a[Len(a)] /\ (a \o b)[i + 1] = b[1]
      BY <1>1, <2>1, <2>3
    <3>2. a # <<>> /\ b # <<>>
      BY <1>1, <2>1, <2>3
    <3>3. QED BY <3>1, <3>2
  <2>4. CASE i > Len(a)
    <3>1. /\ (a \o b)[i] = b[i - Len(a)] /\ (a \o b)[i + 1] = b[(i - Len(a)) + 1]
          /\ i - Len(a) \in 1..(Len(b) - 1)
      BY <1>1, <2>1, <2>4
    <3>2. QED BY <3>1 DEF Nests
  <2>5. QED BY <1>1, <2>2, <2>3, <2>4
<1>3. QED BY <1>1, <1>2 DEF Nests

\* The rest of a stack, and what is right below its head.
LEMMA NestsTail ==
  ASSUME NEW s \in Seq(Labels), s # <<>>, Nests(s)
  PROVE  /\ Tail(s) \in Seq(Labels) /\ Nests(Tail(s)) /\ Head(s) \in Labels
         /\ Tail(s) # <<>> => Above(Head(s), Head(Tail(s))) /\ Tail(s)[1] = Head(Tail(s))
<1>1. /\ Tail(s) \in Seq(Labels) /\ Len(Tail(s)) = Len(s) - 1 /\ Head(s) \in Labels
      /\ Len(s) \in Nat /\ Head(s) = s[1]
      /\ \A i \in 1..Len(Tail(s)) : Tail(s)[i] = s[i + 1]
  BY HeadTailProperties, LenProperties
<1>2. ASSUME NEW i \in 1..(Len(Tail(s)) - 1) PROVE Above(Tail(s)[i], Tail(s)[i + 1])
  <2>1. i + 1 \in 1..(Len(s) - 1) /\ i \in 1..Len(Tail(s)) /\ i + 1 \in 1..Len(Tail(s))
    BY <1>1
  <2>2. Tail(s)[i] = s[i + 1] /\ Tail(s)[i + 1] = s[(i + 1) + 1]
    BY <1>1, <2>1
  <2>3. QED BY <2>1, <2>2 DEF Nests
<1>3. ASSUME Tail(s) # <<>>
      PROVE  Above(Head(s), Head(Tail(s))) /\ Tail(s)[1] = Head(Tail(s))
  <2>1. Len(Tail(s)) \in Nat /\ Len(Tail(s)) # 0
    BY <1>1, <1>3
  <2>2. 1 \in 1..(Len(s) - 1) /\ Head(Tail(s)) = Tail(s)[1] /\ Tail(s)[1] = s[1 + 1]
    BY <1>1, <2>1
  <2>3. QED BY <1>1, <2>2 DEF Nests
<1>4. QED BY <1>1, <1>2, <1>3 DEF Nests

\* How a stack ends when labels are put on it, or its head goes.
LEMMA EndsConcat ==
  ASSUME NEW a \in Seq(Labels), NEW b \in Seq(Labels), Ends(b), b = <<>> => Ends(a)
  PROVE  Ends(a \o b)
<1>1. /\ Len(a \o b) = Len(a) + Len(b) /\ Len(a) \in Nat /\ Len(b) \in Nat
      /\ \A i \in 1..(Len(a) + Len(b)) :
           (a \o b)[i] = IF i <= Len(a) THEN a[i] ELSE b[i - Len(a)]
      /\ a \o b \in Seq(Labels)
  BY ConcatProperties, LenProperties
<1>2. CASE b = <<>>
  <2>1. a \o b = a
    BY <1>2, ConcatEmptySeq
  <2>2. QED BY <1>2, <2>1
<1>3. CASE b # <<>>
  <2>1. Len(b) # 0
    BY <1>3
  <2>2. Len(a) + Len(b) \in 1..(Len(a) + Len(b)) /\ ~(Len(a) + Len(b) <= Len(a))
    BY <1>1, <2>1
  <2>3. (a \o b)[Len(a) + Len(b)] = b[(Len(a) + Len(b)) - Len(a)]
    BY <1>1, <2>2
  <2>4. (Len(a) + Len(b)) - Len(a) = Len(b)
    BY <1>1
  <2>5. (a \o b)[Len(a \o b)] = b[Len(b)]
    BY <1>1, <2>3, <2>4
  <2>6. QED BY <1>3, <2>5 DEF Ends
<1>4. QED BY <1>2, <1>3

LEMMA EndsTail ==
  ASSUME NEW s \in Seq(Labels), s # <<>>, Ends(s)
  PROVE  Ends(Tail(s)) /\ (Tail(s) = <<>> => Head(s) \notin Reading)
<1> DEFINE q == Tail(s)
<1>1. /\ q \in Seq(Labels) /\ Len(q) = Len(s) - 1 /\ Len(s) \in Nat
      /\ Head(s) = s[1] /\ \A i \in 1..Len(q) : q[i] = s[i + 1]
  BY HeadTailProperties, LenProperties
<1>2. Len(q) \in Nat /\ (q = <<>> <=> Len(q) = 0)
  <2> HIDE DEF q
  <2>1. QED BY <1>1
<1> HIDE DEF q
<1>3. ASSUME q = <<>> PROVE Ends(q) /\ Head(s) \notin Reading
  <2>1. Len(s) = 1
    BY <1>1, <1>2, <1>3
  <2>2. Head(s) \notin Reading
    BY <1>1, <2>1 DEF Ends
  <2>3. QED BY <1>3, <2>2 DEF Ends
<1>4. ASSUME q # <<>> PROVE Ends(q)
  <2>1. Len(q) \in 1..Len(q) /\ Len(q) + 1 = Len(s)
    BY <1>1, <1>2, <1>4
  <2>2. q[Len(q)] = s[Len(s)]
    BY <1>1, <2>1
  <2>3. QED BY <1>4, <2>2 DEF Ends
<1>5. QED BY <1>3, <1>4 DEF q

\* The stacks that the code puts down.
LEMMA NestsShort ==
  /\ \A a \in Labels : Nests(<<a>>)
  /\ \A a \in Labels \ Reading, b \in Plain : Nests(<<a, b>>)
  /\ \A a \in Labels \ Reading, b \in Inside, c \in Plain : Nests(<<a, b, c>>)
  /\ \A a \in Labels \ Reading, b, c \in Inside, d \in Plain : Nests(<<a, b, c, d>>)
  /\ Nests(<<"plan", "enforced">>)
  /\ \A b \in Plain : Nests(<<"plan", "enforced", b>>)
  /\ \A b \in Inside, c \in Plain : Nests(<<"plan", "enforced", b, c>>)
  /\ Nests(<<"orders", "synced">>)
<1>1. \A a \in Labels : Nests(<<a>>)
  BY DEF Nests
<1>2. \A a \in Labels \ Reading, b \in Plain : Nests(<<a, b>>)
  BY DEF Nests, Above, Plain, Inside, Reading, Heads
<1>3. \A a \in Labels \ Reading, b \in Inside, c \in Plain : Nests(<<a, b, c>>)
  BY DEF Nests, Above, Plain, Inside, Reading, Heads
<1>4. \A a \in Labels \ Reading, b, c \in Inside, d \in Plain : Nests(<<a, b, c, d>>)
  BY DEF Nests, Above, Plain, Inside, Reading, Heads
<1>5. Nests(<<"plan", "enforced">>)
  BY DEF Nests, Above, Reading, Heads, Protecting
<1>6. \A b \in Plain : Nests(<<"plan", "enforced", b>>)
  BY DEF Nests, Above, Plain, Inside, Reading, Heads, Protecting
<1>7. \A b \in Inside, c \in Plain : Nests(<<"plan", "enforced", b, c>>)
  BY DEF Nests, Above, Plain, Inside, Reading, Heads, Protecting
<1>8. Nests(<<"orders", "synced">>)
  BY DEF Nests, Above, Reading, Heads, Syncing
<1>9. QED BY <1>1, <1>2, <1>3, <1>4, <1>5, <1>6, <1>7, <1>8

\* A task that puts labels in the place of its own.
LEMMA Puts ==
  ASSUME SyncInv, Lives, NEW k \in Tasks, NEW label, Runs(k, label),
         NEW labels \in Seq(Labels), NEW t, Becomes(k, t, labels), "stack" \in DOMAIN t,
         labels # <<>>, Nests(labels),
         Head(labels) \in Plain \/ (Head(labels) = "cancel" /\ Cancels(k)'),
         label \in Syncing => labels[Len(labels)] \in Syncing,
         label \in Protecting => labels[Len(labels)] \in Protecting,
         labels[Len(labels)] \in Reading => label \in Reading
  PROVE  Settles
<1> DEFINE s == task[k].stack
           r == labels \o Tail(s)
<1>1. /\ s \in Seq(Labels) /\ s # <<>> /\ Head(s) = label /\ Nests(s) /\ Alone(k)
      /\ Ends(s)
  BY RunsAlone DEF Runs, SyncInv, Nested, LifeInv, TaskRecord
<1>2. /\ Tail(s) \in Seq(Labels) /\ Nests(Tail(s))
      /\ Tail(s) # <<>> => Above(label, Tail(s)[1])
      /\ Ends(Tail(s)) /\ (Tail(s) = <<>> => label \notin Reading)
  BY <1>1, NestsTail, EndsTail
<1>3. Tail(s) # <<>> => Above(labels[Len(labels)], Tail(s)[1])
  BY <1>2 DEF Above
<1>4. Nests(r) /\ Ends(r)
  <2>1. Tail(s) = <<>> => Ends(labels)
    BY <1>2 DEF Ends
  <2>2. QED BY <1>2, <1>3, <2>1, NestsConcat, EndsConcat
<1>5. r # <<>> /\ Head(r) = Head(labels)
  <2>1. Len(labels) \in Nat /\ Len(labels) # 0
    OBVIOUS
  <2>2. QED BY <1>2, <2>1
<1>6. task' = [task EXCEPT ![k] = [t EXCEPT !.stack = r]]
  BY <1>5 DEF Becomes, Continues
<1> HIDE DEF r
<1> DEFINE u == [t EXCEPT !.stack = r]
<1>7. u.stack = r
  OBVIOUS
<1>8. Arrives(k)'
  <2>1. At(k)' = Head(labels)
    BY <1>5, <1>6, <1>7 DEF At, SyncInv, LifeInv
  <2>2. QED BY <2>1 DEF Arrives, Plain, Heads
<1>9. meets' = meets /\ \A j \in Tasks : j # k /\ guard = j => guard' = j
  BY GuardsKept DEF Becomes
<1>10. QED BY <1>1, <1>4, <1>6, <1>7, <1>8, <1>9, Arrived

\* A task that leaves its label for what is below it.
LEMMA Pops ==
  ASSUME SyncInv, Lives, NEW k \in Tasks, NEW label, Runs(k, label),
         NEW t, Becomes(k, t, <<>>), "stack" \in DOMAIN t, "ok" \in DOMAIN t,
         label \in Syncing => Watched',
         label \in Protecting => (t.ok => Guarded')
  PROVE  Settles
<1> DEFINE s == task[k].stack
           r == <<>> \o Tail(s)
<1>1. /\ s \in Seq(Labels) /\ s # <<>> /\ Head(s) = label /\ Nests(s) /\ Alone(k)
      /\ Ends(s)
  BY RunsAlone DEF Runs, SyncInv, Nested, LifeInv, TaskRecord
<1>2. /\ Tail(s) \in Seq(Labels) /\ Nests(Tail(s))
      /\ Tail(s) # <<>> => Above(label, Head(Tail(s)))
      /\ Ends(Tail(s))
  BY <1>1, NestsTail, EndsTail
<1>3. r = Tail(s)
  BY <1>2, ConcatEmptySeq
<1> DEFINE u == IF r = <<>> THEN Idle ELSE [t EXCEPT !.stack = r]
<1>4. task' = [task EXCEPT ![k] = u]
  BY DEF Becomes, Continues
<1> HIDE DEF r, s
<1>5. u.stack = r /\ (r # <<>> => u.ok = t.ok)
  BY DEF Idle
<1> HIDE DEF u
<1>6. task'[k] = u
  BY <1>4 DEF SyncInv, LifeInv
<1>7. Arrives(k)'
  <2>1. CASE r = <<>>
    <3>1. At(k)' = None
      BY <1>5, <1>6, <2>1 DEF At
    <3>2. None \notin {"synced", "enforced", "entry", "cancel"}
      BY DEF Labels, AtOnce
    <3>3. QED BY <3>1, <3>2 DEF Arrives
  <2>2. CASE r # <<>>
    <3>1. At(k)' = Head(r) /\ task'[k].ok = t.ok
      BY <1>5, <1>6, <2>2 DEF At
    <3>2. Above(label, Head(r))
      BY <1>2, <1>3, <2>2
    <3>3. QED BY <3>1, <3>2 DEF Arrives, Above, Heads
  <2>3. QED BY <2>1, <2>2
<1>8. Nests(u.stack) /\ Ends(u.stack)
  BY <1>2, <1>3, <1>5
<1>9. meets' = meets /\ \A j \in Tasks : j # k /\ guard = j => guard' = j
  BY GuardsKept DEF Becomes
<1>10. QED BY <1>1, <1>4, <1>7, <1>8, <1>9, Arrived

\* A task whose exception ends the account sync around it, or the task.
LEMMA Aborts ==
  ASSUME SyncInv, Lives, NEW k \in Tasks, NEW label, Runs(k, label), Abort(k)
  PROVE  Settles
<1> DEFINE s == task[k].stack
           ends == {i \in DOMAIN s : s[i] = "synced"}
           first == CHOOSE i \in ends : \A j \in ends : i <= j
           r == IF ends = {} THEN <<>> ELSE SubSeq(s, 1 + first, Len(s))
           views == IF ends = {} THEN <<>> ELSE EarlierViews(k)
           t == [Idle EXCEPT !.aim = task[k].aim, !.views = views]
           u == IF r = <<>> THEN Idle ELSE [t EXCEPT !.stack = r]
<1>1. s \in Seq(Labels) /\ Nests(s) /\ Ends(s) /\ Alone(k)
  BY RunsAlone DEF SyncInv, Nested, LifeInv, TaskRecord
<1>2. task' = [task EXCEPT ![k] = u]
  BY DEF Abort, Continues, Idle
<1>g. meets' = meets /\ \A j \in Tasks : j # k /\ guard = j => guard' = j
  <2>1. Continues(k, t, r)
    BY DEF Abort, Idle
  <2> HIDE DEF t, r
  <2>2. QED BY <2>1, GuardsKept
<1>3. u.stack = r
  BY DEF Idle
<1> HIDE DEF u, t, views
<1>4. task'[k].stack = r
  BY <1>2, <1>3 DEF SyncInv, LifeInv
<1>5. Nests(r) /\ Ends(r) /\ (r # <<>> => Head(r) \in Plain)
  <2>1. CASE ends = {}
    BY <2>1 DEF Nests, Ends
  <2>2. CASE ends # {}
    <3>1. DOMAIN s = 1..Len(s) /\ Len(s) \in Nat
      BY <1>1, LenProperties
    <3>2. ends \in SUBSET Nat /\ ends \subseteq 1..Len(s)
      BY <3>1
    <3>3. first \in 1..Len(s) /\ s[first] = "synced"
      <4> HIDE DEF s
      <4>1. \E i \in ends : \A j \in ends : i <= j
        <5> HIDE DEF ends
        <5>1. QED BY <2>2, <3>2, Smallest
      <4>2. first \in ends
        <5> HIDE DEF ends
        <5>1. QED BY <4>1
      <4>3. QED BY <3>1, <4>2
    <3> HIDE DEF first, ends, s
    <3>4. r = SubSeq(s, 1 + first, Len(s))
      BY <2>2
    <3>5. ASSUME NEW i \in (1 + first)..Len(s) PROVE s[i] \in Labels
      BY <1>1, <3>3
    <3>6. /\ Len(r) = IF 1 + first <= Len(s) THEN Len(s) - first ELSE 0
          /\ \A i \in 1..(Len(s) - first) : r[i] = s[first + i]
          /\ r \in Seq(Labels)
      BY <3>1, <3>3, <3>4, <3>5, SubSeqProperties
    <3>7. ASSUME NEW i \in 1..(Len(r) - 1) PROVE Above(r[i], r[i + 1])
      <4>1. /\ i \in 1..(Len(s) - first) /\ i + 1 \in 1..(Len(s) - first)
            /\ first + i \in 1..(Len(s) - 1) /\ (first + i) + 1 = first + (i + 1)
        BY <3>1, <3>3, <3>6
      <4>2. Above(s[first + i], s[(first + i) + 1])
        BY <1>1, <4>1 DEF Nests
      <4>3. QED BY <3>6, <4>1, <4>2
    <3>8. ASSUME r # <<>> PROVE Head(r) \in Plain
      <4>1. Len(r) \in Nat /\ Len(r) # 0
        BY <3>6, <3>8
      <4>2. first \in 1..(Len(s) - 1) /\ 1 \in 1..(Len(s) - first) /\ 1 + first <= Len(s)
        <5>1. 1 + first <= Len(s)
          BY <3>6, <4>1
        <5>2. QED BY <3>1, <3>3, <5>1
      <4>3. Head(r) = s[first + 1] /\ s[first + 1] \in Labels
        BY <1>1, <3>6, <4>1, <4>2
      <4>4. Above("synced", s[first + 1])
        BY <1>1, <3>3, <4>2 DEF Nests
      <4>5. QED BY <4>3, <4>4 DEF Above, Plain, Syncing, Protecting
    <3>9. Ends(r)
      <4> HIDE DEF r
      <4>1. SUFFICES ASSUME r # <<>> PROVE r[Len(r)] \notin Reading
        BY DEF Ends
      <4>2. Len(r) \in Nat /\ Len(r) # 0
        BY <3>6, <4>1
      <4>3. 1 + first <= Len(s) /\ Len(r) = Len(s) - first
        BY <3>6, <4>2
      <4>4. /\ Len(s) - first \in 1..(Len(s) - first)
            /\ first + (Len(s) - first) = Len(s) /\ Len(s) # 0
        BY <3>1, <3>3, <4>3
      <4>5. r[Len(r)] = s[Len(s)]
        BY <3>6, <4>3, <4>4
      <4>6. Len(<<>>) = 0
        OBVIOUS
      <4>7. s # <<>>
        BY <4>4, <4>6, Zenon
      <4>8. QED BY <1>1, <4>5, <4>7 DEF Ends
    <3>10. QED BY <3>7, <3>8, <3>9 DEF Nests
  <2>3. QED BY <2>1, <2>2
<1> HIDE DEF r
<1>6. Arrives(k)'
  <2>1. CASE r = <<>>
    <3>1. At(k)' = None
      BY <1>4, <2>1 DEF At
    <3>2. None \notin {"synced", "enforced", "entry", "cancel"}
      BY DEF Labels, AtOnce
    <3>3. QED BY <3>1, <3>2 DEF Arrives
  <2>2. CASE r # <<>>
    <3>1. At(k)' = Head(r)
      BY <1>4, <2>2 DEF At
    <3>2. QED BY <1>5, <2>2, <3>1 DEF Arrives, Plain, Heads
  <2>3. QED BY <2>1, <2>2
<1>7. QED BY <1>1, <1>2, <1>g, <1>3, <1>5, <1>6, Arrived

\* Labels that may be put in the place of one.
Follows(a, b) ==
  /\ a \in Syncing => b \in Syncing
  /\ a \in Protecting => b \in Protecting
  /\ b \in Reading => a \in Reading
Replaces(label, labels) ==
  /\ labels \in Seq(Labels) /\ labels # <<>> /\ Nests(labels)
  /\ Head(labels) \in Plain /\ Follows(label, labels[Len(labels)])

\* One more label at the end of a list.
LEMMA ReplacesMore ==
  ASSUME NEW label, NEW x, NEW labels, Replaces(x, labels), x \notin Reading,
         NEW c \in Plain, Follows(label, c)
  PROVE  Replaces(label, labels \o <<c>>)
<1> DEFINE s == labels \o <<c>>
<1>1. labels \in Seq(Labels) /\ <<c>> \in Seq(Labels) /\ c \in Labels
  BY DEF Replaces, Plain
<1>2. Nests(<<c>>) /\ Above(labels[Len(labels)], c)
  BY <1>1, NestsShort DEF Above, Plain, Replaces, Follows
<1>3. Nests(s) /\ s \in Seq(Labels)
  BY <1>1, <1>2, NestsConcat, ConcatProperties DEF Replaces
<1>4. Len(labels) \in Nat /\ Len(labels) # 0 /\ Len(<<c>>) = 1 /\ <<c>>[1] = c
  BY <1>1 DEF Replaces
<1>5. Len(s) = Len(labels) + 1 /\ s[Len(labels) + 1] = c /\ s[1] = labels[1]
  BY <1>1, <1>4, ConcatProperties
<1> HIDE DEF s
<1>6. s # <<>> /\ Head(s) = Head(labels)
  BY <1>1, <1>3, <1>4, <1>5
<1>7. QED BY <1>3, <1>5, <1>6 DEF Replaces, s

\* The lists of labels in the code.
LEMMA ReplacesShort ==
  ASSUME NEW label
  PROVE  /\ \A a \in Plain : Follows(label, a) => Replaces(label, <<a>>)
         /\ \A a \in Inside, b \in Plain : Follows(label, b) => Replaces(label, <<a, b>>)
         /\ \A a, b \in Inside, c \in Plain :
              Follows(label, c) => Replaces(label, <<a, b, c>>)
         /\ \A a, b, c \in Inside, d \in Plain :
              Follows(label, d) => Replaces(label, <<a, b, c, d>>)
         /\ Follows(label, "enforced") => Replaces(label, Enforce)
         /\ \A b \in Plain : Follows(label, b) => Replaces(label, Enforce \o <<b>>)
         /\ \A b \in Inside, c \in Plain :
              Follows(label, c) => Replaces(label, Enforce \o <<b>> \o <<c>>)
         /\ Follows(label, "synced") => Replaces(label, <<"orders", "synced">>)
<1>1. /\ Plain \subseteq Labels /\ "plan" \in Plain /\ "orders" \in Plain
      /\ Inside \subseteq Plain /\ Inside \subseteq Labels \ Reading
  BY DEF Plain, Inside, Heads, Labels, GuardedLabels
<1>2. "enforced" \in Labels /\ "synced" \in Labels
  BY DEF Labels, GuardedLabels, AtOnce
<1>3. \A a \in Plain : Follows(label, a) => Replaces(label, <<a>>)
  BY <1>1, NestsShort DEF Replaces
<1>4. \A a \in Inside, b \in Plain : Follows(label, b) => Replaces(label, <<a, b>>)
  BY <1>1, NestsShort DEF Replaces
<1>5. \A a, b \in Inside, c \in Plain : Follows(label, c) => Replaces(label, <<a, b, c>>)
  BY <1>1, NestsShort DEF Replaces
<1>6. \A a, b, c \in Inside, d \in Plain :
        Follows(label, d) => Replaces(label, <<a, b, c, d>>)
  BY <1>1, NestsShort DEF Replaces
<1>7. Follows(label, "enforced") => Replaces(label, Enforce)
  BY <1>1, <1>2, NestsShort DEF Replaces, Enforce
<1>8. ASSUME NEW b \in Plain, NEW l, Follows(l, b) PROVE Replaces(l, Enforce \o <<b>>)
  <2>1. Replaces("enforced", Enforce)
    BY <1>1, <1>2, NestsShort DEF Replaces, Enforce, Follows, Reading
  <2>2. "enforced" \notin Reading
    BY DEF Reading
  <2>3. QED BY <1>8, <2>1, <2>2, ReplacesMore
<1>9. ASSUME NEW b \in Inside, NEW c \in Plain, Follows(label, c)
      PROVE  Replaces(label, Enforce \o <<b>> \o <<c>>)
  <2>1. Replaces(b, Enforce \o <<b>>)
    BY <1>1, <1>8 DEF Follows, Reading
  <2>2. b \notin Reading
    BY DEF Inside
  <2>3. QED BY <1>9, <2>1, <2>2, ReplacesMore
<1>10. Follows(label, "synced") => Replaces(label, <<"orders", "synced">>)
  BY <1>1, <1>2, NestsShort DEF Replaces
<1>11. QED BY <1>3, <1>4, <1>5, <1>6, <1>7, <1>8, <1>9, <1>10

\* The ways in which the code goes on.
LEMMA GoesOn ==
  ASSUME SyncInv, Lives, NEW k \in Tasks, NEW label, Runs(k, label)
  PROVE  /\ \A labels : Replaces(label, labels) /\ Goto(k, labels) => Settles
         /\ \A labels : Replaces(label, labels) /\ Taken(k, labels) => Settles
         /\ \A labels, t : /\ Replaces(label, labels) /\ "stack" \in DOMAIN t
                           /\ Becomes(k, t, labels)
                           => Settles
         /\ Abort(k) => Settles
<1>1. task[k] \in TaskRecord /\ "stack" \in DOMAIN task[k]
  BY DEF SyncInv, LifeInv, TaskRecord
<1>2. ASSUME NEW labels, NEW t, Replaces(label, labels), "stack" \in DOMAIN t,
             Becomes(k, t, labels)
      PROVE  Settles
  BY <1>2, Puts DEF Replaces, Follows, Reading
<1>3. ASSUME NEW labels, Replaces(label, labels), Goto(k, labels) PROVE Settles
  BY <1>1, <1>2, <1>3 DEF Goto
<1>4. ASSUME NEW labels, Replaces(label, labels), Taken(k, labels) PROVE Settles
  <2>1. "stack" \in DOMAIN [task[k] EXCEPT !.ok = TRUE]
    BY <1>1
  <2>2. QED BY <1>2, <1>4, <2>1 DEF Taken
<1>5. QED BY <1>2, <1>3, <1>4, Aborts

\* The ways in which it returns.
LEMMA Returns ==
  ASSUME SyncInv, Lives, NEW k \in Tasks, NEW label, Runs(k, label),
         label \in Syncing => Watched'
  PROVE  /\ label \notin Protecting /\ Goto(k, <<>>) => Settles
         /\ label \notin Protecting /\ Taken(k, <<>>) => Settles
         /\ \A ok : /\ Return(k, ok) /\ (label \in Protecting => (ok => Guarded'))
                    => Settles
<1>1. /\ task[k] \in TaskRecord /\ "stack" \in DOMAIN task[k] /\ "ok" \in DOMAIN task[k]
  BY DEF SyncInv, LifeInv, TaskRecord
<1>2. ASSUME label \notin Protecting, Goto(k, <<>>) PROVE Settles
  BY <1>1, <1>2, Pops DEF Goto
<1>3. ASSUME label \notin Protecting, Taken(k, <<>>) PROVE Settles
  <2> DEFINE t == [task[k] EXCEPT !.ok = TRUE]
  <2>1. "stack" \in DOMAIN t /\ "ok" \in DOMAIN t /\ Becomes(k, t, <<>>)
    BY <1>1, <1>3 DEF Taken
  <2> HIDE DEF t
  <2>2. QED BY <1>3, <2>1, Pops
<1>4. ASSUME NEW ok, Return(k, ok), label \in Protecting => (ok => Guarded')
      PROVE  Settles
  <2> DEFINE t == [task[k] EXCEPT !.ok = ok, !.prev = 0, !.todo = NoQty]
  <2>1. "stack" \in DOMAIN t /\ "ok" \in DOMAIN t /\ t.ok = ok /\ Becomes(k, t, <<>>)
    BY <1>1, <1>4 DEF Return, TaskRecord
  <2> HIDE DEF t
  <2>2. QED BY <1>4, <2>1, Pops
<1>5. QED BY <1>2, <1>3, <1>4

\* Fails and refreshes.
LEMMA Failing ==
  ASSUME SyncInv, Lives, NEW k \in Tasks, NEW label, Runs(k, label)
  PROVE  /\ label \notin Syncing /\ Fails(k) => Settles
         /\ label \notin Syncing \union Protecting /\ Refresh(k) => Settles
<1>1. /\ task[k] \in TaskRecord /\ "stack" \in DOMAIN task[k]
      /\ "failed" \in Plain /\ "refresh" \in Inside /\ "rearm" \in Plain
  BY DEF SyncInv, LifeInv, TaskRecord, Plain, Inside, Reading, Heads, Labels,
     GuardedLabels, AtOnce
<1>2. ASSUME label \notin Syncing, Fails(k) PROVE Settles
  <2>1. Replaces(label, <<"failed">>)
    BY <1>1, <1>2, ReplacesShort DEF Follows, Reading, Protecting
  <2>2. "stack" \in DOMAIN [task[k] EXCEPT !.prev = 0, !.todo = NoQty]
    BY <1>1
  <2>3. QED BY <1>2, <2>1, <2>2, GoesOn DEF Fails
<1>3. ASSUME label \notin Syncing \union Protecting, Refresh(k) PROVE Settles
  <2>1. Replaces(label, <<"refresh", "rearm">>)
    BY <1>1, <1>3, ReplacesShort DEF Follows, Reading
  <2>2. "stack" \in DOMAIN [task[k] EXCEPT !.ok = TRUE, !.prev = 0, !.todo = NoQty]
    BY <1>1
  <2>3. QED BY <1>3, <2>1, <2>2, GoesOn DEF Refresh
<1>4. QED BY <1>2, <1>3

\* The names of the code.
LEMMA PlainNames ==
  /\ {"legs", "cleanup", "opened", "plan", "stop", "targets", "restop", "verify",
      "failed", "close", "halve", "retire", "free", "shave", "market", "slice",
      "rearm", "rearmed", "orders", "book", "holds", "protect", "absent",
      "flattened", "activated", "undone", "closed", "answered", "counted",
      "expired", "policy", "expire", "refresh"} \subseteq Plain
  /\ Plain \ Reading \subseteq Inside
  /\ \A x \in Plain : <<>> \o <<x>> = <<x>>
<1>1. \A x \in Plain : <<>> \o <<x>> = <<x>>
  <2>1. ASSUME NEW x \in Plain PROVE <<>> \o <<x>> = <<x>>
    <3>1. <<x>> \in Seq(Plain)
      OBVIOUS
    <3>2. QED BY <3>1, ConcatEmptySeq
  <2>2. QED BY <2>1
<1>2. QED BY <1>1 DEF Plain, Inside, Heads, Reading, Labels, GuardedLabels, AtOnce

\* The protection is planned.
LEMMA PlanArrives ==
  ASSUME SyncInv, Lives, NEW k \in Tasks, PlanProtection(k)
  PROVE  Settles
<1>1. Runs(k, "plan") /\ "plan" \notin Syncing
  BY DEF PlanProtection, Syncing
<1>2. CASE ~IsOpen(trade) /\ Return(k, TRUE) /\ UNCHANGED trade
  BY <1>1, <1>2, Returns DEF Guarded
<1>3. CASE Fails(k)
  BY <1>1, <1>3, Failing
<1>4. ASSUME NEW sl, NEW t, NEW labels \in {<<"stop">>, <<"targets">>},
             Becomes(k, [task[k] EXCEPT !.todo = PlanTargets(t), !.prev = sl], labels)
      PROVE  Settles
  <2> DEFINE u == [task[k] EXCEPT !.todo = PlanTargets(t), !.prev = sl]
  <2>1. "stack" \in DOMAIN u
    BY DEF SyncInv, LifeInv, TaskRecord
  <2>2. Replaces("plan", <<"stop">>) /\ Replaces("plan", <<"targets">>)
    BY ReplacesShort, PlainNames DEF Follows, Reading, Syncing, Protecting
  <2>3. Becomes(k, u, labels)
    BY <1>4
  <2> HIDE DEF u
  <2>4. QED BY <1>1, <2>1, <2>2, <2>3, GoesOn
<1>5. QED
  BY <1>2, <1>3, <1>4, Zenon DEF PlanProtection

\* Stops and targets are placed.
LEMMA PlacingArrives ==
  ASSUME SyncInv, Lives, NEW k \in Tasks, FirstStop(k) \/ NewStop(k) \/ PlaceTargets(k)
  PROVE  Settles
<1>1. ASSUME NEW label \in Protecting, NEW next \in Protecting, SubmitStop(k, label, next)
      PROVE  Settles
  <2>1. Runs(k, label) /\ label \notin Syncing /\ (Fails(k) \/ Goto(k, <<next>>))
    BY <1>1, Zenon DEF SubmitStop, Protecting, Syncing
  <2>2. Replaces(label, <<next>>)
    BY <2>1, ReplacesShort, PlainNames DEF Follows, Reading, Protecting
  <2>3. QED BY <2>1, <2>2, GoesOn, Failing
<1>2. ASSUME PlaceTargets(k) PROVE Settles
  <2> DEFINE u == [task[k] EXCEPT !.todo = NoQty]
  <2>1. /\ Runs(k, "targets")
        /\ \/ Fails(k)
           \/ Becomes(k, u, IF task[k].prev = 0 THEN <<"verify">> ELSE <<"restop">>)
    BY <1>2, Zenon DEF PlaceTargets
  <2>2. "stack" \in DOMAIN u
    BY DEF SyncInv, LifeInv, TaskRecord
  <2> HIDE DEF u
  <2>3. Replaces("targets", <<"verify">>) /\ Replaces("targets", <<"restop">>)
    BY ReplacesShort, PlainNames DEF Follows, Reading, Syncing, Protecting
  <2>4. QED BY <2>1, <2>2, <2>3, GoesOn, Failing DEF Syncing
<1>3. QED BY <1>1, <1>2 DEF FirstStop, NewStop, Protecting

\* It is verified, or was not possible.
LEMMA VerdictArrives ==
  ASSUME SyncInv, Lives, NEW k \in Tasks, VerifyProtection(k) \/ ProtectionFailed(k)
  PROVE  Settles
<1>1. trade \in TradeRecord
  BY DEF SyncInv, LifeInv, Sound
<1>2. ASSUME VerifyProtection(k) PROVE Settles
  <2>1. Runs(k, "verify") /\ "verify" \notin Syncing
    BY <1>2 DEF VerifyProtection, Syncing
  <2>2. CASE Fails(k)
    BY <2>1, <2>2, Failing
  <2>3. ASSUME NEW sl, Protected(Refreshed(trade, sl)), Return(k, TRUE),
               trade' = [Refreshed(trade, sl) EXCEPT
                           !.deferred = FALSE, !.issues = @ \ {"protection"}]
        PROVE  Settles
    <3>1. Protected(trade')
      BY <1>1, <2>3 DEF Protected, Refreshed, TradeRecord
    <3>2. QED BY <2>1, <2>3, <3>1, Returns DEF Guarded
  <2>4. QED BY <1>2, <2>2, <2>3, Zenon DEF VerifyProtection
<1>3. ASSUME ProtectionFailed(k) PROVE Settles
  <2>1. Runs(k, "failed") /\ "failed" \notin Syncing
    BY <1>3 DEF ProtectionFailed, Syncing
  <2>2. CASE Return(k, TRUE) /\ Protected(trade')
    BY <2>1, <2>2, Returns DEF Guarded
  <2>3. CASE Becomes(k, [task[k] EXCEPT !.tries = @ + 1], <<"plan">>)
    <3>1. "stack" \in DOMAIN [task[k] EXCEPT !.tries = @ + 1]
      BY DEF SyncInv, LifeInv, TaskRecord
    <3>2. Replaces("failed", <<"plan">>)
      BY ReplacesShort, PlainNames DEF Follows, Reading, Syncing, Protecting
    <3>3. QED BY <2>1, <2>3, <3>1, <3>2, GoesOn
  <2>4. CASE Becomes(k, [task[k] EXCEPT !.tries = 0, !.ok = FALSE], <<>>)
    <3> DEFINE t == [task[k] EXCEPT !.tries = 0, !.ok = FALSE]
    <3>1. "stack" \in DOMAIN t /\ "ok" \in DOMAIN t /\ t.ok = FALSE /\ Becomes(k, t, <<>>)
      BY <2>4 DEF SyncInv, LifeInv, TaskRecord
    <3> HIDE DEF t
    <3>2. QED BY <2>1, <3>1, Pops
  <2>5. QED BY <1>3, <2>2, <2>3, <2>4, Zenon DEF ProtectionFailed
<1>4. QED BY <1>2, <1>3

\* What is not protected is flattened.
LEMMA EnforcedArrives ==
  ASSUME SyncInv, Lives, NEW k \in Tasks, Enforced(k) \/ Flattened(k)
  PROVE  Settles
<1>1. ASSUME Enforced(k) PROVE Settles
  <2>1. Runs(k, "enforced") /\ UNCHANGED <<exchange, trade>> /\ "enforced" \notin Protecting
    BY <1>1 DEF Enforced, Protecting
  <2>2. CASE task[k].ok /\ Return(k, TRUE)
    <3>1. Guarded
      BY <2>1, <2>2, RunsAlone DEF SyncInv, Arrives
    <3>2. Watched'
      BY <2>1, <3>1 DEF Guarded, Watched, IsOpen
    <3>3. QED BY <2>1, <2>2, <3>2, Returns
  <2>3. CASE Taken(k, <<"close", "flattened">>)
    <3>1. Replaces("enforced", <<"close", "flattened">>)
      BY ReplacesShort, PlainNames DEF Follows, Reading, Syncing, Protecting
    <3>2. QED BY <2>1, <2>3, <3>1, GoesOn
  <2>4. QED BY <1>1, <2>2, <2>3 DEF Enforced
<1>2. ASSUME Flattened(k) PROVE Settles
  <2>1. /\ Runs(k, "flattened") /\ Taken(k, <<>>) /\ "flattened" \notin Protecting
        /\ trade' = IF task[k].ok /\ ~IsOpen(trade)
                    THEN IF trade.owned THEN Finalized(trade) ELSE trade
                    ELSE RetryLater(trade)
    BY <1>2 DEF Flattened, Protecting
  <2>2. Watched'
    BY <2>1 DEF Watched, Finalized, RetryLater, IsOpen, SyncInv, LifeInv, Sound, TradeRecord
  <2>3. QED BY <2>1, <2>2, Returns
<1>3. QED BY <1>1, <1>2

\* The closing order and what follows it.
LEMMA ClosingArrives ==
  ASSUME SyncInv, Lives, NEW k \in Tasks,
         \/ CloseAtMarket(k) \/ CloseHalf(k) \/ Rearm(k) \/ Rearmed(k)
         \/ StartClose(k, "close", "market") \/ StartClose(k, "halve", "slice")
         \/ FreeTargets(k, "free", "market") \/ FreeTargets(k, "shave", "slice")
  PROVE  Settles
<1>1. ASSUME NEW label \in {"market", "slice", "rearm", "rearmed", "close", "halve",
                             "free", "shave"},
             Runs(k, label), NEW ok, Return(k, ok)
      PROVE  Settles
  BY <1>1, Returns DEF Syncing, Protecting
<1>2. ASSUME NEW label \in {"market", "slice"}, Runs(k, label), Refresh(k) PROVE Settles
  BY <1>2, Failing DEF Syncing, Protecting
<1>3. ASSUME CloseAtMarket(k) PROVE Settles
  <2>1. Runs(k, "market") /\ (Refresh(k) \/ \E ok : Return(k, ok))
    BY <1>3, Zenon DEF CloseAtMarket, CloseRefused, CloseUnanswered
  <2>2. QED BY <1>1, <1>2, <2>1
<1>4. ASSUME CloseHalf(k) PROVE Settles
  <2>1. Runs(k, "slice") /\ (Refresh(k) \/ \E ok : Return(k, ok))
    BY <1>4, Zenon DEF CloseHalf, CloseRefused, CloseUnanswered
  <2>2. QED BY <1>1, <1>2, <2>1
<1>5. ASSUME Rearm(k) PROVE Settles
  <2>1. Runs(k, "rearm") /\ (Goto(k, <<"plan", "rearmed">>) \/ Return(k, TRUE))
    BY <1>5 DEF Rearm
  <2>2. Replaces("rearm", <<"plan", "rearmed">>)
    BY ReplacesShort, PlainNames DEF Follows, Reading, Syncing, Protecting
  <2>3. QED BY <1>1, <2>1, <2>2, GoesOn
<1>6. ASSUME Rearmed(k) PROVE Settles
  BY <1>1, <1>6 DEF Rearmed
<1>7. ASSUME NEW label \in {"close", "halve", "free", "shave"},
             NEW next \in {"market", "slice"}, Runs(k, label),
             Goto(k, <<next>>) \/ Return(k, FALSE)
      PROVE  Settles
  <2>1. Replaces(label, <<next>>)
    BY <1>7, ReplacesShort, PlainNames DEF Follows, Reading, Syncing, Protecting
  <2>2. QED BY <1>1, <1>7, <2>1, GoesOn
<1>8. ASSUME NEW label, NEW next, StartClose(k, label, next)
      PROVE  Runs(k, label) /\ (Goto(k, <<next>>) \/ Return(k, FALSE))
  BY <1>8, Zenon DEF StartClose
<1>9. ASSUME NEW label, NEW next, FreeTargets(k, label, next)
      PROVE  Runs(k, label) /\ (Goto(k, <<next>>) \/ Return(k, FALSE))
  BY <1>9, Zenon DEF FreeTargets
<1>10. QED
  BY <1>3, <1>4, <1>5, <1>6, <1>7, <1>8, <1>9

\* An entry that was activated, cancelled or let expire.
LEMMA EntryArrives ==
  ASSUME SyncInv, Lives, NEW k \in Tasks, Handles(k)
  PROVE  Settles
<1>1. CASE Activated(k)
  <2>1. /\ Runs(k, "activated") /\ "activated" \notin Syncing \union Protecting
        /\ Taken(k, <<>>) \/ Taken(k, <<"close", "undone">>)
    BY <1>1 DEF Activated, Syncing, Protecting
  <2>2. Replaces("activated", <<"close", "undone">>)
    BY <2>1, ReplacesShort, PlainNames DEF Follows, Reading
  <2>3. QED BY <2>1, <2>2, GoesOn, Returns
<1>2. CASE Undone(k)
  BY <1>2, Aborts DEF Undone
<1>3. CASE CancelWaiting(k)
  <2>1. /\ Runs(k, "cancel")
        /\ \/ Abort(k) \/ Goto(k, <<"close", "closed">>)
           \/ Goto(k, <<"plan", "activated", "close", "closed">>)
    BY <1>3, Zenon DEF CancelWaiting
  <2>2. /\ Replaces("cancel", <<"close", "closed">>)
        /\ Replaces("cancel", <<"plan", "activated", "close", "closed">>)
    BY ReplacesShort, PlainNames DEF Follows, Reading, Syncing, Protecting
  <2>3. QED BY <2>1, <2>2, GoesOn
<1>4. CASE Closed(k)
  <2>1. /\ Runs(k, "closed") /\ "closed" \notin Protecting
        /\ Abort(k) \/ (Taken(k, <<>>) /\ trade' = Finalized(trade))
    BY <1>4 DEF Closed, Protecting
  <2>2. CASE Taken(k, <<>>) /\ trade' = Finalized(trade)
    <3>1. Watched'
      BY <2>2 DEF Watched, Finalized, SyncInv, LifeInv, Sound, TradeRecord
    <3>2. QED BY <2>1, <2>2, <3>1, Returns
  <2>3. QED BY <2>1, <2>2, Aborts
<1>5. CASE Expire(k)
  <2>1. /\ Runs(k, "expire")
        /\ \/ Abort(k)
           \/ \E c : Goto(k, (IF c THEN Enforce ELSE <<>>) \o <<"expired">>)
    BY <1>5, Zenon DEF Expire
  <2>2. "expired" \in Plain /\ Follows("expire", "expired")
    BY PlainNames DEF Follows, Reading, Syncing, Protecting
  <2>3. /\ Replaces("expire", Enforce \o <<"expired">>)
        /\ Replaces("expire", <<"expired">>)
    BY <2>2, ReplacesShort
  <2>4. <<>> \o <<"expired">> = <<"expired">>
    BY <2>2, PlainNames
  <2>5. QED BY <2>1, <2>3, <2>4, GoesOn
<1>6. CASE Expired(k)
  BY <1>6, Returns DEF Expired, Syncing, Protecting
<1>7. CASE ApplyPolicy(k)
  <2>1. /\ Runs(k, "policy") /\ "policy" \notin Syncing \union Protecting
        /\ Abort(k) \/ Goto(k, <<>>) \/ Goto(k, Enforce \o <<"policy">>)
    BY <1>7, Zenon DEF ApplyPolicy, Syncing, Protecting
  <2>2. Replaces("policy", Enforce \o <<"policy">>)
    BY <2>1, ReplacesShort, PlainNames DEF Follows, Reading
  <2>3. QED BY <2>1, <2>2, GoesOn, Returns
<1>8. QED
  BY <1>1, <1>2, <1>3, <1>4, <1>5, <1>6, <1>7 DEF Handles

\* A sync that goes on to cancel an order holds the guard: its end is below.
LEMMA BookCancels ==
  ASSUME SyncInv, Lives, NEW k \in Tasks, Runs(k, "book"), IsWaiting(trade),
         trade' = trade, Goto(k, <<"cancel">>)
  PROVE  Cancels(k)'
<1> DEFINE q == Tail(task[k].stack)
           r == <<"cancel">> \o q
<1>1. /\ task[k].stack \in Seq(Labels) /\ task[k].stack # <<>>
      /\ Head(task[k].stack) = "book" /\ Nests(task[k].stack) /\ Ends(task[k].stack)
  BY DEF Runs, SyncInv, Nested, LifeInv, TaskRecord
<1>2. q \in Seq(Labels) /\ q # <<>> /\ q[1] = "synced"
  <2>1. "book" \in Reading
    BY DEF Reading
  <2>2. QED BY <1>1, <2>1, NestsTail, EndsTail DEF Above
<1>3. guard' = IF \E i \in DOMAIN r : r[i] \in GuardedLabels THEN k ELSE None
  <2>1. "book" \in GuardedLabels
    BY DEF GuardedLabels
  <2>2. QED BY <1>1, <2>1 DEF Goto, Becomes, Continues, Leave
<1>4. 2 \in DOMAIN r /\ r[2] = "synced"
  <2> HIDE DEF q
  <2>1. <<"cancel">> \in Seq(Labels) /\ Len(<<"cancel">>) = 1
    BY DEF Labels
  <2> DEFINE c == <<"cancel">>
  <2> HIDE DEF c
  <2>2. Len(q) \in Nat /\ Len(q) # 0 /\ c \in Seq(Labels) /\ Len(c) = 1
    BY <1>2, <2>1 DEF c
  <2>3. 2 \in 1..(Len(c) + Len(q)) /\ ~(2 <= Len(c)) /\ 2 - Len(c) = 1
    BY <2>2
  <2>4. /\ c \o q \in Seq(Labels) /\ Len(c \o q) = Len(c) + Len(q)
        /\ (c \o q)[2] = q[2 - Len(c)]
    BY <1>2, <2>2, <2>3, ConcatProperties
  <2>5. DOMAIN (c \o q) = 1..Len(c \o q)
    BY <2>4, LenProperties
  <2>6. QED BY <1>2, <2>3, <2>4, <2>5 DEF c
<1> HIDE DEF r
<1>5. guard' = k
  BY <1>3, <1>4 DEF GuardedLabels
<1>6. ~Filled(trade')
  BY DEF SyncInv, LifeInv, Sound, Balanced, Filled, IsWaiting, TradeRecord
<1>7. QED BY <1>5, <1>6 DEF Cancels

\* A single order that was looked at, by the monitor or a sync.
LEMMA ShownArrives ==
  ASSUME SyncInv, Lives, NEW k \in Tasks, NEW v,
         \/ Runs(k, "entry") /\ EntryShown(k, v, <<>>)
         \/ Runs(k, "book") /\ IsWaiting(trade) /\ EntryShown(k, v, <<"holds">>)
  PROVE  Settles
<1>1. ASSUME NEW label \in {"entry", "book"}, Runs(k, label), NEW rest,
             label = "book" => IsWaiting(trade),
             EntryShown(k, v, rest), Replaces(label, <<"plan", "activated">> \o rest)
      PROVE  Settles
  <2>1. \/ Abort(k) \/ Goto(k, <<"plan", "activated">> \o rest)
        \/ UNCHANGED <<leg, trade>> /\ Goto(k, <<"cancel">>)
    BY <1>1, Zenon DEF EntryShown
  <2>2. CASE UNCHANGED <<leg, trade>> /\ Goto(k, <<"cancel">>)
    <3> DEFINE c == <<"cancel">>
    <3>1. /\ c \in Seq(Labels) /\ c # <<>> /\ Nests(c) /\ Head(c) = "cancel"
          /\ c[Len(c)] = "cancel"
      BY NestsShort DEF Labels
    <3>2. Becomes(k, task[k], c) /\ "stack" \in DOMAIN task[k]
      BY <2>2 DEF Goto, SyncInv, LifeInv, TaskRecord
    <3>3. Cancels(k)'
      <4>1. CASE label = "book"
        BY <1>1, <2>2, <4>1, BookCancels
      <4>2. CASE label = "entry"
        <5>1. Meets("monitor")
          BY <1>1, <4>2 DEF SyncInv, Arrives, Runs, At
        <5>2. meets' = meets
          BY <3>2 DEF Becomes, Continues, Leave
        <5>3. QED BY <5>1, <5>2 DEF Cancels, Calm, Meets
      <4>3. QED BY <1>1, <4>1, <4>2
    <3> HIDE DEF c
    <3>4. /\ label \in Syncing => "cancel" \in Syncing
          /\ label \notin Protecting /\ "cancel" \notin Reading
      BY <1>1 DEF Syncing, Protecting, Reading
    <3>5. QED BY <1>1, <3>1, <3>2, <3>3, <3>4, Puts
  <2>3. QED BY <1>1, <2>1, <2>2, GoesOn
<1>2. Replaces("entry", <<"plan", "activated">> \o <<>>)
  <2>1. <<"plan", "activated">> \o <<>> = <<"plan", "activated">>
    <3>1. <<"plan", "activated">> \in Seq(Plain)
      BY PlainNames
    <3>2. QED BY <3>1, ConcatEmptySeq
  <2>2. Replaces("entry", <<"plan", "activated">>)
    BY ReplacesShort, PlainNames DEF Follows, Reading, Syncing, Protecting
  <2>3. QED BY <2>1, <2>2
<1>3. Replaces("book", <<"plan", "activated">> \o <<"holds">>)
  <2>1. Replaces("activated", <<"plan", "activated">>)
    BY ReplacesShort, PlainNames DEF Follows, Reading
  <2>2. "holds" \in Plain /\ Follows("book", "holds") /\ "activated" \notin Reading
    BY PlainNames DEF Follows, Reading, Syncing, Protecting
  <2>3. QED BY <2>1, <2>2, ReplacesMore
<1>4. QED BY <1>1, <1>2, <1>3

\* An account sync reads and books.
LEMMA BookingArrives ==
  ASSUME SyncInv, Lives, NEW k \in Tasks,
         \/ SyncAgain(k) \/ SyncReads(k) \/ SyncBooks(k) \/ SyncHolds(k)
         \/ SyncAbsent(k) \/ SyncEnds(k)
  PROVE  Settles
<1>1. task[k] \in TaskRecord /\ "stack" \in DOMAIN task[k] /\ "ok" \in DOMAIN task[k]
  BY DEF SyncInv, LifeInv, TaskRecord
<1>2. CASE SyncAgain(k)
  <2>1. /\ Runs(k, "refresh") /\ "refresh" \notin Syncing \union Protecting
        /\ \/ Goto(k, <<>>)
           \/ Becomes(k, [task[k] EXCEPT !.views = <<PositionsRead>> \o @],
                      <<"orders", "synced">>)
    BY <1>2 DEF SyncAgain, Syncing, Protecting
  <2>2. "stack" \in DOMAIN [task[k] EXCEPT !.views = <<PositionsRead>> \o @]
    BY <1>1
  <2>3. Replaces("refresh", <<"orders", "synced">>)
    BY <2>1, ReplacesShort DEF Follows, Reading
  <2>4. QED BY <2>1, <2>2, <2>3, GoesOn, Returns
<1>3. CASE SyncReads(k)
  <2>1. PICK v, labels : /\ Runs(k, "orders") /\ Becomes(k, Viewing(k, v), labels)
                         /\ \/ labels = <<"book">> \/ labels = <<"expire", "book">>
                            \/ labels = AfterLadder(v.leg) \o <<"book">>
    BY <1>3, Zenon DEF SyncReads
  <2>2. "stack" \in DOMAIN Viewing(k, v)
    BY <1>1 DEF Viewing
  <2>3. Replaces("orders", labels)
    <3>1. /\ {"book", "expire", "policy"} \subseteq Plain
          /\ {"expire", "policy"} \subseteq Inside
          /\ Follows("orders", "book")
      BY PlainNames DEF Follows, Reading, Syncing, Protecting
    <3>2. /\ Replaces("orders", <<"book">>) /\ Replaces("orders", <<"expire", "book">>)
          /\ Replaces("orders", <<>> \o <<"book">>)
          /\ Replaces("orders", (Enforce \o <<"policy">>) \o <<"book">>)
      BY <3>1, ReplacesShort, PlainNames
    <3>3. QED BY <2>1, <3>2 DEF AfterLadder
  <2>4. QED BY <2>1, <2>2, <2>3, GoesOn
<1>4. CASE SyncBooks(k)
  <2>1. /\ Runs(k, "book")
        /\ \/ Abort(k) \/ Goto(k, <<"protect">>)
           \/ IsWaiting(trade) /\ EntryShown(k, Unprocessed(View(k)).leg[2], <<"holds">>)
    BY <1>4, Zenon DEF SyncBooks
  <2>2. Replaces("book", <<"protect">>)
    BY ReplacesShort, PlainNames DEF Follows, Reading, Syncing, Protecting
  <2>3. QED BY <2>1, <2>2, GoesOn, ShownArrives
<1>5. CASE SyncHolds(k)
  <2>1. Replaces("holds", <<"protect">>)
    BY ReplacesShort, PlainNames DEF Follows, Reading, Syncing, Protecting
  <2>2. QED BY <1>5, <2>1, GoesOn DEF SyncHolds
<1>6. CASE SyncAbsent(k)
  BY <1>6, Aborts DEF SyncAbsent
<1>7. CASE SyncEnds(k)
  <2> DEFINE t == [task[k] EXCEPT !.views = EarlierViews(k)]
  <2>1. Runs(k, "synced") /\ "synced" \notin Syncing \union Protecting /\ Becomes(k, t, <<>>)
    BY <1>7 DEF SyncEnds, Syncing, Protecting
  <2>2. "stack" \in DOMAIN t /\ "ok" \in DOMAIN t
    BY <1>1
  <2> HIDE DEF t
  <2>3. QED BY <2>1, <2>2, Pops
<1>8. QED BY <1>2, <1>3, <1>4, <1>5, <1>6, <1>7

\* An account sync looks after the protection.
LEMMA ProtectArrives ==
  ASSUME SyncInv, Lives, NEW k \in Tasks, SyncProtects(k)
  PROVE  Settles
<1>1. Runs(k, "protect") /\ "protect" \notin Protecting /\ trade \in TradeRecord
  BY DEF SyncProtects, Protecting, SyncInv, LifeInv, Sound
<1>2. /\ Replaces("protect", Enforce) /\ Replaces("protect", <<"protect">>)
      /\ Replaces("protect", <<"absent">>)
  BY ReplacesShort, PlainNames DEF Follows, Reading, Syncing, Protecting
<1>3. CASE Repair(k)
  <2>1. "stack" \in DOMAIN Viewing(k, NoView)
    BY DEF SyncInv, LifeInv, TaskRecord, Viewing
  <2>2. QED BY <1>1, <1>2, <1>3, <2>1, GoesOn DEF Repair
<1>4. CASE Abort(k)
  BY <1>1, <1>4, Aborts
<1>5. ASSUME NEW I, RetireFirst(k, I) PROVE Settles
  <2>1. Abort(k) \/ Goto(k, <<"protect">>)
    BY <1>5, Zenon DEF RetireFirst
  <2>2. QED BY <1>1, <1>2, <1>4, <2>1, GoesOn
<1>6. CASE Goto(k, Onwards(k)) /\ ~Repairs(k)
  BY <1>1, <1>2, <1>6, GoesOn DEF Onwards
<1>7. ASSUME Goto(k, <<>>), Watched' PROVE Settles
  BY <1>1, <1>7, Returns
<1>8. ASSUME NEW seen, TargetsDone(k, seen) PROVE Settles
  <2>1. \/ \E I : RetireFirst(k, I)
        \/ Abort(k) \/ Repair(k) \/ (Goto(k, Onwards(k)) /\ ~Repairs(k))
    BY <1>8, Zenon DEF TargetsDone
  <2>2. QED BY <1>3, <1>4, <1>5, <1>6, <2>1
<1>9. ASSUME NEW seen, StopDone(k, seen) PROVE Settles
  <2>1. \/ \E I : RetireFirst(k, I)
        \/ Abort(k) \/ Repair(k) \/ (Goto(k, Onwards(k)) /\ UNCHANGED stop)
    BY <1>9, Zenon DEF StopDone
  <2>2. CASE Goto(k, Onwards(k)) /\ UNCHANGED stop /\ Repairs(k)
    <3>1. StopHit(k, seen) /\ trade.sl \in Slots
      BY <1>1, <1>9 DEF StopDone, StopHit, StopAsked, TradeRecord
    <3>2. Watched'
      BY <2>2, <3>1 DEF StopHit, Watched
    <3>3. Goto(k, <<>>)
      BY <2>2 DEF Onwards
    <3>4. QED BY <1>7, <3>2, <3>3
  <2>3. QED BY <1>3, <1>4, <1>5, <1>6, <2>1, <2>2
<1>10. ASSUME NEW seen, GapLooked(k, seen) PROVE Settles
  <2> DEFINE t == Detached(k, trade, seen)
  <2>1. \/ (~Repairs(k) \/ t.deferred) /\ trade' = t /\ Goto(k, Onwards(k))
        \/ Repair(k) \/ (Protected(trade') /\ Goto(k, <<>>))
    BY <1>10, Zenon DEF GapLooked
  <2>2. CASE Protected(trade') /\ Goto(k, <<>>)
    BY <1>7, <2>2 DEF Watched
  <2>3. CASE Repairs(k) /\ t.deferred /\ trade' = t /\ Goto(k, Onwards(k))
    <3>1. Watched' /\ Goto(k, <<>>)
      BY <2>3 DEF Watched, Onwards
    <3>2. QED BY <1>7, <3>1
  <2>4. QED BY <1>3, <1>6, <2>1, <2>2, <2>3
<1>11. QED
  BY <1>3, <1>8, <1>9, <1>10, Zenon DEF SyncProtects

\* An idle task that begins.
LEMMA Begins ==
  ASSUME SyncInv, Lives, NEW k \in Tasks, Awaiting, NEW u,
         task' = [task EXCEPT ![k] = u], Nests(u.stack), Ends(u.stack),
         meets' = meets, guard' = guard \/ guard = None,
         \/ u.stack = <<>>
         \/ u.stack # <<>> /\ Head(u.stack) \in Plain
         \/ u.stack # <<>> /\ Head(u.stack) = "cancel" /\ Meets("message")
         \/ u.stack # <<>> /\ Head(u.stack) = "entry" /\ Meets("monitor")
  PROVE  Settles
<1>1. Alone(k)
  BY DEF Awaiting, Alone
<1>2. task'[k] = u
  BY DEF SyncInv, LifeInv
<1>3. At(k)' = IF u.stack = <<>> THEN None ELSE Head(u.stack)
  BY <1>2 DEF At
<1>4. \A x \in Plain \union {None} : x \notin {"synced", "enforced", "entry", "cancel"}
  <2>1. None \notin {"synced", "enforced", "entry", "cancel"}
    BY DEF Labels, AtOnce
  <2>2. QED BY <2>1 DEF Plain, Heads
<1>5. Arrives(k)'
  <2>1. CASE At(k)' \in Plain \union {None}
    BY <1>4, <2>1 DEF Arrives
  <2>2. CASE At(k)' = "cancel" /\ Meets("message")
    BY <2>2 DEF Arrives, Cancels, Calm, Meets
  <2>3. CASE At(k)' = "entry" /\ Meets("monitor")
    BY <2>3 DEF Arrives, Meets
  <2>4. QED BY <1>3, <2>1, <2>2, <2>3
<1>6. \A j \in Tasks : j # k /\ guard = j => guard' = j
  BY NoneAssumption
<1>7. QED BY <1>1, <1>5, <1>6, Arrived

\* The poll task.
LEMMA PollsArrive ==
  ASSUME SyncInv, Lives, Polls
  PROVE  Settles
<1>1. "poll" \in Tasks /\ task \in [Tasks -> TaskRecord]
  BY DEF Tasks, SyncInv, LifeInv
<1>2. ASSUME NEW label \in {"legs", "cleanup"}, Runs("poll", label),
             \/ Abort("poll") \/ Goto("poll", <<"legs">>) \/ Goto("poll", <<"opened">>)
             \/ Goto("poll", <<"cleanup">>)
             \/ Goto("poll", Enforce \o <<"legs">>) \/ Goto("poll", Enforce \o <<"opened">>)
             \/ Goto("poll", <<>> \o <<"opened">>)
             \/ Goto("poll", <<"plan", "activated", "opened">>)
      PROVE  Settles
  <2>1. /\ {"legs", "opened", "cleanup", "plan", "activated"} \subseteq Plain
        /\ {"plan", "activated"} \subseteq Inside
        /\ \A a : a \notin Reading => Follows(label, a)
        /\ Reading \intersect {"legs", "opened", "cleanup", "plan", "activated"} = {}
    BY <1>2, PlainNames DEF Follows, Reading, Syncing, Protecting
  <2>2. /\ Replaces(label, <<"legs">>) /\ Replaces(label, <<"opened">>)
        /\ Replaces(label, <<"cleanup">>)
        /\ Replaces(label, Enforce \o <<"legs">>) /\ Replaces(label, Enforce \o <<"opened">>)
        /\ Replaces(label, <<"plan", "activated", "opened">>)
    BY <2>1, ReplacesShort
  <2>3. <<>> \o <<"opened">> = <<"opened">>
    BY <2>1, PlainNames
  <2>4. QED BY <1>1, <1>2, <2>2, <2>3, GoesOn
<1>3. CASE SubmitLeg
  <2>1. PICK i \in Plan : Runs("poll", "legs") /\ SendLeg(i)
    BY <1>3 DEF SubmitLeg
  <2>2. \/ \E next \in {<<"legs">>, <<"opened">>} :
             Goto("poll", next) \/ Goto("poll", Enforce \o next)
        \/ Goto("poll", <<"plan", "activated", "opened">>)
        \/ Goto("poll", <<"cleanup">>)
    BY <2>1, Zenon DEF SendLeg
  <2>3. QED BY <1>2, <2>1, <2>2
<1>4. CASE CleanUp
  <2>1. /\ Runs("poll", "cleanup")
        /\ \/ Abort("poll")
           \/ \E c : Goto("poll", (IF c THEN Enforce ELSE <<>>) \o <<"opened">>)
    BY <1>4, Zenon DEF CleanUp
  <2>2. QED BY <1>2, <2>1
<1>5. CASE Opened
  BY <1>1, <1>5, Returns DEF Opened, Syncing, Protecting
<1>6. CASE Answered
  BY <1>1, <1>6, Returns DEF Answered, Syncing, Protecting
<1>7. CASE CloseAsked
  <2>1. PICK s \in {<<"cancel">>, <<"close", "answered">>, <<"close", "closed">>,
                    <<"halve", "answered">>} :
          /\ Awaiting /\ task' = [task EXCEPT !["poll"].stack = s]
          /\ UNCHANGED <<exchange, meets, guard>>
          /\ s = <<"cancel">> => Meets("message")
    <3>3. Awaiting /\ UNCHANGED <<exchange, meets, guard>>
      BY <1>7, Zenon DEF CloseAsked, Ready
    <3>4. PICK s : /\ task' = [task EXCEPT !["poll"].stack = s]
                   /\ \/ s = <<"cancel">> /\ Meets("message")
                      \/ s = <<"close", "answered">> \/ s = <<"close", "closed">>
                      \/ s = <<"halve", "answered">>
      BY <1>7, Zenon DEF CloseAsked
    <3>5. s \in {<<"cancel">>, <<"close", "answered">>, <<"close", "closed">>,
                 <<"halve", "answered">>}
      BY <3>4
    <3>6. s = <<"cancel">> => Meets("message")
      BY <3>4
    <3>7. QED BY <3>3, <3>4, <3>5, <3>6, Zenon
  <2>2. /\ Nests(s) /\ Ends(s) /\ s # <<>>
        /\ Head(s) \in Plain \/ (Head(s) = "cancel" /\ Meets("message"))
    <3>1. /\ {"close", "answered", "closed", "halve"} \subseteq Inside
          /\ {"close", "answered", "closed", "halve"} \subseteq Plain
          /\ "cancel" \in Labels
      BY PlainNames DEF Labels, Reading
    <3>2. /\ Nests(<<"cancel">>) /\ Nests(<<"close", "answered">>)
          /\ Nests(<<"close", "closed">>) /\ Nests(<<"halve", "answered">>)
      BY <3>1, NestsShort DEF Plain, Inside
    <3>3. /\ Ends(<<"cancel">>) /\ Ends(<<"close", "answered">>)
          /\ Ends(<<"close", "closed">>) /\ Ends(<<"halve", "answered">>)
      BY DEF Ends, Reading
    <3>4. QED BY <2>1, <3>1, <3>2, <3>3
  <2> DEFINE u == [task["poll"] EXCEPT !.stack = s]
  <2>3. task' = [task EXCEPT !["poll"] = u] /\ u.stack = s
    BY <1>1, <2>1 DEF TaskRecord
  <2> HIDE DEF u
  <2>4. QED BY <1>1, <2>1, <2>2, <2>3, Begins
<1>8. QED BY <1>3, <1>4, <1>5, <1>6, <1>7 DEF Polls

\* The pending monitor.
LEMMA MonitorsArrive ==
  ASSUME SyncInv, Lives, Monitors
  PROVE  Settles
<1>1. "monitor" \in Tasks
  BY DEF Tasks
<1>2. CASE MonitorApplies
  <2>1. /\ Runs("monitor", "entry")
        /\ Abort("monitor") \/ EntryShown("monitor", View("monitor").leg[2], <<>>)
    BY <1>2, Zenon DEF MonitorApplies
  <2>2. QED BY <1>1, <2>1, Aborts, ShownArrives
<1>3. CASE MonitorLooks
  <2>1. PICK u : /\ Awaiting /\ task' = [task EXCEPT !["monitor"] = u]
                 /\ Meets("monitor") /\ UNCHANGED <<exchange, meets, guard>>
                 /\ \/ u = [Idle EXCEPT !.stack = <<"entry">>, !.views = <<SingleShown>>]
                    \/ u = [Idle EXCEPT !.stack = <<"expire">>]
                    \/ \E v : u = [Idle EXCEPT !.stack = AfterLadder(v)]
    BY <1>3, Zenon DEF MonitorLooks, Ready
  <2>2. u.stack \in {<<"entry">>, <<"expire">>, <<>>, Enforce \o <<"policy">>}
    BY <2>1 DEF Idle, AfterLadder
  <2>3. /\ Nests(u.stack) /\ Ends(u.stack)
        /\ \/ u.stack = <<>>
           \/ u.stack # <<>> /\ Head(u.stack) \in Plain
           \/ u.stack # <<>> /\ Head(u.stack) = "entry"
    <3>1. {"expire", "policy"} \subseteq Plain /\ Follows("legs", "policy")
      BY PlainNames DEF Follows, Reading, Syncing, Protecting
    <3>2. Nests(<<>>)
      BY DEF Nests
    <3>3. Nests(<<"entry">>) /\ Nests(<<"expire">>)
      BY <3>1, NestsShort DEF Plain, Labels
    <3>4. Replaces("legs", Enforce \o <<"policy">>)
      BY <3>1, ReplacesShort
    <3>5. Ends(<<>>) /\ Ends(<<"entry">>) /\ Ends(<<"expire">>)
      BY DEF Ends, Reading
    <3>6. CASE u.stack = Enforce \o <<"policy">>
      <4> DEFINE e == Enforce \o <<"policy">>
      <4> HIDE DEF e
      <4>1. e # <<>> /\ Nests(e) /\ Head(e) \in Plain /\ Follows("legs", e[Len(e)])
        BY <3>4 DEF Replaces, e
      <4>2. Ends(e)
        BY <4>1 DEF Ends, Follows, Reading
      <4>3. u.stack = e
        BY <3>6 DEF e
      <4>4. QED BY <4>1, <4>2, <4>3
    <3>7. CASE u.stack \in {<<"entry">>, <<"expire">>}
      BY <3>1, <3>3, <3>5, <3>7
    <3>8. QED BY <2>2, <3>2, <3>5, <3>6, <3>7
  <2>4. QED BY <1>1, <2>1, <2>3, Begins
<1>4. QED BY <1>2, <1>3 DEF Monitors

\* The price refresh.
LEMMA PricesArrive ==
  ASSUME SyncInv, Lives, Prices
  PROVE  Settles
<1>1. "price" \in Tasks /\ task \in [Tasks -> TaskRecord]
  BY DEF Tasks, SyncInv, LifeInv
<1>2. CASE RetireForHit("price")
  <2>1. /\ Runs("price", "retire") /\ "retire" \notin Syncing \union Protecting
        /\ Abort("price") \/ Goto("price", Enforce) \/ Goto("price", <<>>)
    BY <1>2, Zenon DEF RetireForHit, Syncing, Protecting
  <2>2. Replaces("retire", Enforce)
    BY <2>1, ReplacesShort DEF Follows, Reading
  <2>3. QED BY <1>1, <2>1, <2>2, GoesOn, Returns
<1>3. CASE Counted("price")
  BY <1>1, <1>3, Returns DEF Counted, Syncing, Protecting
<1>4. CASE PriceMeets
  <2>1. PICK aim, s : /\ Awaiting
                      /\ task' = [task EXCEPT !["price"].aim = aim, !["price"].stack = s]
                      /\ UNCHANGED <<exchange, meets, trade, guard>>
                      /\ \/ s = <<"close", "closed">>
                         \/ \E legs \in {<<"retire">>, <<>>} :
                              s = legs \o <<ClosesAt(trade, aim), "counted">>
    BY <1>4, Zenon DEF PriceMeets, Ready
  <2>2. Nests(s) /\ Ends(s) /\ s # <<>> /\ Head(s) \in Plain
    <3>1. /\ {"close", "closed", "retire", "free", "shave", "counted"} \subseteq Plain
          /\ ClosesAt(trade, aim) \in {"free", "shave"}
          /\ Reading \intersect {"close", "closed", "retire", "free", "shave", "counted"} = {}
      BY PlainNames DEF ClosesAt, Reading
    <3> DEFINE c == ClosesAt(trade, aim)
    <3> HIDE DEF c
    <3>2. c \in Plain /\ c \notin Reading
      BY <3>1 DEF c
    <3>3. /\ Nests(<<"close", "closed">>) /\ Nests(<<c, "counted">>) /\ Nests(<<"retire">>)
      BY <3>1, <3>2, NestsShort DEF Plain, Inside
    <3>4. /\ <<"retire">> \in Seq(Labels) /\ <<c, "counted">> \in Seq(Labels)
          /\ <<>> \o <<c, "counted">> = <<c, "counted">>
      <4>1. <<c, "counted">> \in Seq(Labels)
        BY <3>1, <3>2 DEF Plain
      <4>2. QED BY <3>1, <4>1, ConcatEmptySeq DEF Plain
    <3>5. Nests(<<"retire">> \o <<c, "counted">>)
      BY <3>1, <3>2, <3>3, <3>4, NestsConcat DEF Above, Plain
    <3>6. /\ <<"retire">> \o <<c, "counted">> # <<>>
          /\ Head(<<"retire">> \o <<c, "counted">>) = "retire"
      BY <3>4, ConcatProperties
    <3>e. /\ Ends(<<"close", "closed">>) /\ Ends(<<c, "counted">>)
          /\ Ends(<<"retire">> \o <<c, "counted">>)
      <4>1. Ends(<<"close", "closed">>) /\ Ends(<<c, "counted">>)
        BY <3>1 DEF Ends
      <4>2. <<c, "counted">> # <<>>
        OBVIOUS
      <4>3. QED BY <3>4, <4>1, <4>2, EndsConcat
    <3>7. s \in {<<"close", "closed">>, <<c, "counted">>, <<"retire">> \o <<c, "counted">>}
      BY <2>1, <3>4 DEF c
    <3>8. CASE s = <<"retire">> \o <<c, "counted">>
      BY <3>1, <3>5, <3>6, <3>8, <3>e
    <3>9. CASE s \in {<<"close", "closed">>, <<c, "counted">>}
      BY <3>1, <3>2, <3>3, <3>9, <3>e
    <3>10. QED BY <3>7, <3>8, <3>9
  <2> DEFINE u == [task["price"] EXCEPT !.aim = aim, !.stack = s]
  <2>3. task' = [task EXCEPT !["price"] = u] /\ u.stack = s
    BY <1>1, <2>1 DEF TaskRecord
  <2> HIDE DEF u
  <2>4. QED BY <1>1, <2>1, <2>2, <2>3, Begins
<1>5. QED BY <1>2, <1>3, <1>4 DEF Prices

\* The account task begins a sync.
LEMMA SyncArrives ==
  ASSUME SyncInv, Lives, SyncBegins
  PROVE  Settles
<1>1. /\ "sync" \in Tasks /\ task \in [Tasks -> TaskRecord] /\ Awaiting
      /\ guard = None /\ meets' = meets
  BY DEF Tasks, SyncInv, LifeInv, SyncBegins, Ready
<1> DEFINE s == <<"orders", "synced">>
           u == [task["sync"] EXCEPT !.stack = s, !.views = <<PositionsRead>>]
<1>2. task' = [task EXCEPT !["sync"] = u] /\ u.stack = s
  BY <1>1 DEF SyncBegins, TaskRecord
<1>3. Nests(s) /\ Ends(s) /\ s # <<>> /\ Head(s) \in Plain
  BY NestsShort, PlainNames DEF Ends, Reading
<1> HIDE DEF u, s
<1>4. QED BY <1>1, <1>2, <1>3, Begins

\* Every step of the system.
LEMMA NextArrives == SyncInv /\ [Next]_vars => Settles
<1> SUFFICES ASSUME SyncInv, [Next]_vars PROVE Settles
  OBVIOUS
<1>1. Lives
  BY NextKeeps DEF SyncInv
<1>2. CASE UNCHANGED vars
  <2>1. Nested' /\ OneAtOnce' /\ meets' = meets
    BY <1>2 DEF vars, SyncInv, Nested, OneAtOnce, At
  <2>2. ASSUME NEW k \in Tasks PROVE Arrives(k)'
    <3>1. /\ At(k)' = At(k) /\ Watched' = Watched /\ Guarded' = Guarded
          /\ task' = task /\ meets' = meets /\ guard' = guard /\ trade' = trade
      BY <1>2 DEF vars, At, Watched, Guarded
    <3>2. Cancels(k)' = Cancels(k)
      BY <3>1 DEF Cancels, Calm, Meets, Filled
    <3>3. QED BY <3>1, <3>2 DEF SyncInv, Arrives, Meets
  <2>3. QED BY <1>1, <2>1, <2>2 DEF SyncInv, Settles, Lives
<1>3. CASE Exchanges \/ Expires \/ RetryDue
  BY <1>1, <1>3, NobodyArrives DEF Exchanges, Expires, RetryDue
<1>4. CASE Polls
  BY <1>1, <1>4, PollsArrive
<1>5. CASE Monitors
  BY <1>1, <1>5, MonitorsArrive
<1>6. CASE Prices
  BY <1>1, <1>6, PricesArrive
<1>7. CASE SyncBegins
  BY <1>1, <1>7, SyncArrives
<1>8. ASSUME NEW k \in Tasks, Syncs(k) PROVE Settles
  BY <1>1, <1>8, BookingArrives, ProtectArrives DEF Syncs
<1>9. ASSUME NEW k \in Tasks, Handles(k) PROVE Settles
  BY <1>1, <1>9, EntryArrives
<1>10. ASSUME NEW k \in Tasks, RoutineStep(k) PROVE Settles
  BY <1>1, <1>10, PlanArrives, PlacingArrives, VerdictArrives, EnforcedArrives,
     ClosingArrives DEF RoutineStep
<1>11. QED
  BY <1>2, <1>3, <1>4, <1>5, <1>6, <1>7, <1>8, <1>9, <1>10 DEF Next, Engine

-----------------------------------------------------------------------------
(* The theorems.                                                           *)

\* Only a step that sets a single order anew could take what was booked of it
\* from its fills, and without a late one no such step comes after a fill.
LEMMA NextClears == Backed /\ SyncInv /\ Cleared /\ [Next]_vars => Cleared'
<1> SUFFICES ASSUME Backed, SyncInv, Cleared, [Next]_vars, Calm', ~Clear(trade')
             PROVE  FALSE
  BY DEF Cleared
<1>1. Lives /\ meets' = meets
  BY NextKeeps, NextArrives DEF SyncInv, Settles
<1>2. ~trade.ladder /\ Calm
  BY <1>1 DEF Lives, Keeps, Grows, Records, Clear, Calm, Meets
<1>3. Enters /\ Filled(trade)
  BY <1>1, <1>2 DEF Lives, Keeps, Grows, Cleared
<1>4. trade \in TradeRecord /\ Balanced(trade)
  BY DEF Backed, LifeInv, Sound
<1>5. ~SubmitLeg
  <2>1. ASSUME NEW i \in Plan, NextLeg(i) PROVE FALSE
    <3>1. i = 2 /\ trade.known[2] = "planned" /\ 2 \in Legs
      BY <1>2, <2>1 DEF Plan, NextLeg, Legs
    <3>2. leg[2].got = 0 /\ trade.got[2] <= leg[2].got
      BY <3>1 DEF Backed, LegsBacked
    <3>3. trade.got[1] = 0 /\ trade.got[3] = 0 /\ trade.got[2] \in Nat
      BY <1>2, <1>4 DEF Balanced, TradeRecord, Legs
    <3>4. trade.entered = 0
      BY <1>4, <3>2, <3>3 DEF Balanced
    <3>5. QED BY <1>3, <3>4 DEF Filled
  <2>2. QED BY <2>1 DEF SubmitLeg
<1>6. ~MonitorApplies
  <2>1. SUFFICES ASSUME Runs("monitor", "entry") PROVE FALSE
    BY DEF MonitorApplies
  <2>2. At("monitor") = "entry" /\ "monitor" \in Tasks
    BY <2>1 DEF Runs, At, Tasks
  <2>3. QED BY <1>2, <2>2 DEF SyncInv, Arrives, Calm
<1>7. ASSUME NEW k \in Tasks, Runs(k, "cancel") PROVE FALSE
  <2>1. At(k) = "cancel"
    BY <1>7 DEF Runs, At
  <2>2. QED BY <1>2, <1>3, <2>1 DEF SyncInv, Arrives, Cancels
<1>8. ~IsWaiting(trade)
  BY <1>3, <1>4 DEF Balanced, Filled, IsWaiting, TradeRecord
<1>9. QED
  <2>1. \A k \in Tasks : CancelWaiting(k) => Runs(k, "cancel")
    BY DEF CancelWaiting
  <2>2. QED BY <1>3, <1>5, <1>6, <1>7, <1>8, <2>1, Zenon DEF Enters

\* In the beginning no task is in a sync, and nothing has come in.
LEMMA InitSyncs == Init => SyncInv /\ Cleared
<1> SUFFICES ASSUME Init PROVE SyncInv /\ Cleared
  OBVIOUS
<1>1. LifeInv
  BY InitHolds
<1>2. ASSUME NEW k \in Tasks
      PROVE  task[k].stack \in {<<"legs">>, <<>>} /\ At(k) \in {"legs", None}
  BY DEF Init, Idle, At
<1>3. Nests(<<"legs">>) /\ Nests(<<>>) /\ Ends(<<"legs">>) /\ Ends(<<>>)
  BY DEF Nests, Ends, Reading
<1>4. /\ "legs" \notin AtOnce /\ None \notin AtOnce
      /\ {"legs", None} \intersect Heads = {}
  BY DEF AtOnce, Labels, Heads
<1>5. Nested /\ OneAtOnce
  BY <1>2, <1>3, <1>4 DEF Nested, OneAtOnce
<1>6. \A k \in Tasks : Arrives(k)
  BY <1>2, <1>4 DEF Arrives, AtOnce, Heads
<1>7. Cleared
  BY DEF Init, NewTrade, Cleared, Clear, Filled
<1>8. QED BY <1>1, <1>5, <1>6, <1>7 DEF SyncInv

\* What holds of a trade, of its orders and of its tasks, in every state.
LEMMA AlwaysHolds == Spec => [](Backed /\ SyncInv /\ Cleared)
<1>1. Backed /\ SyncInv /\ Cleared /\ [Next]_vars => (Backed /\ SyncInv /\ Cleared)'
  BY NextAdvances, NextArrives, NextClears DEF Advances, Settles
<1>2. QED BY <1>1, InitBacked, InitSyncs, PTL DEF Spec

\* The exchange has executed what is recorded, in every state.
THEOREM AlwaysBacked == Spec => []Backed
BY AlwaysHolds, PTL

\* Every variable has its type in every state: the position is never more than
\* the legs have brought in, and no quantity of the trade leaves its range.
THEOREM TypeCorrect == Spec => []TypeOK
<1>1. Backed => TypeOK
  <2> SUFFICES ASSUME Backed PROVE TypeOK
    OBVIOUS
  <2>1. LifeInv /\ ExchangeSound /\ position <= Entered
    BY DEF Backed, SoldCovers, LifeInv
  <2>2. leg[1].got <= 1 /\ leg[2].got <= 2 /\ leg[3].got <= 1
    BY <2>1, LegIsOne DEF ExchangeSound, LegQty
  <2>3. leg[1].got \in Nat /\ leg[2].got \in Nat /\ leg[3].got \in Nat
    BY <2>1, LegIsOne, OrderQuantities DEF Amounts
  <2>4. position \in 0..MaxQty
    BY <2>1, <2>2, <2>3 DEF Entered, MaxQty, ExchangeSound
  <2>5. ExchangeTypeOK
    BY <2>1, <2>4 DEF ExchangeTypeOK, ExchangeSound
  <2>6. QED BY <2>1, <2>5 DEF TypeOK, TradeTypeOK, TaskTypeOK, LifeInv, Sound
<1>2. QED BY <1>1, AlwaysBacked, PTL

\* The engine never books more of a trade as closed than was sold, whichever task
\* books it: of a ladder unless a close leaves a residual, of a single order also
\* unless it is applied late (_unprocessed_exchange_fills,
\* _consume_pending_fill_audit).
THEOREM NeverOverbooks == Spec => BookedIsSold
<1>1. Backed /\ SyncInv /\ Cleared /\ [Next]_vars =>
        [ trade.reason = None /\ ~Meets("residual")
          /\ (trade.ladder \/ ~(Meets("monitor") \/ Meets("message")))
            => trade'.booked <= Entered' - position' ]_vars
  BY NextAdvances DEF Advances, Counts, Calm
<1>2. QED BY <1>1, AlwaysHolds, PTL DEF Spec, BookedIsSold

\* An account sync that ends leaves no open position without its protection, a
\* retry or an issue, whatever fails and whoever else moves meanwhile
\* (_reconcile_exchange_trade_protection, _enforce_trade_protection_or_flatten).
THEOREM SyncsProtect == Spec => []SyncLeavesProtected
<1>1. SyncInv => SyncLeavesProtected
  BY DEF SyncInv, Arrives, Watched, SyncLeavesProtected
<1>2. QED BY <1>1, AlwaysHolds, PTL
=============================================================================
