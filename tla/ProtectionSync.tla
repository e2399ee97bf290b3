--------------------------- MODULE ProtectionSync ---------------------------
(* The routines of live_trading/engine.py by which a trade gets, replaces   *)
(* and loses its exchange protection: cancelling entry legs, the protection *)
(* sync with its retries, enforcement, and the closing order.  They run     *)
(* inside the engine's tasks.  A task has a stack of labels; every label is *)
(* the code between two awaited exchange calls, so that the exchange and    *)
(* the other tasks move in between.                                         *)
EXTENDS FillLedger

CONSTANTS Attempts     \* LIVE_TRADING_PROTECTION_SYNC_RETRY_ATTEMPTS
ASSUME AttemptsAssumption == Attempts \in Nat \ {0}

VARIABLES
  task,    \* task: stack, snapshots of the syncs on it, locals of the routines
  guard    \* the task inside the account's execution guard

Tasks == {"poll", "sync", "monitor", "price"}
NoQty == [g \in Goals |-> 0]
Idle == [stack |-> <<>>, views |-> <<>>, todo |-> NoQty, prev |-> 0,
         tries |-> 0, aim |-> 0, ok |-> TRUE]

\* Labels inside "async with execution_guard()"; an account sync is inside as a
\* whole, and its last label stays at the bottom of its part of the stack.
GuardedLabels ==
  {"legs", "cleanup", "opened", "plan", "stop", "targets", "restop", "verify",
   "failed", "close", "halve", "retire", "free", "shave", "market", "slice",
   "rearm", "rearmed", "orders", "book", "holds", "protect", "absent", "synced"}

\* Labels that continue without an awaited call: asyncio runs nothing else.
AtOnce == {"close", "halve", "book", "holds", "protect", "absent", "synced",
           "failed", "enforced", "flattened", "rearm", "rearmed", "activated",
           "undone", "closed", "answered", "counted", "opened", "expired",
           "policy"}
Labels == GuardedLabels \union AtOnce \union {"expire", "cancel", "entry", "refresh"}
ASSUME NoneAssumption == None \notin Labels \union Tasks \union Reasons
At(k) == IF task[k].stack = <<>> THEN None ELSE Head(task[k].stack)
Awaiting == \A k \in Tasks : At(k) \notin AtOnce

\* The task can run the code at this label.
Runs(k, label) ==
  /\ task[k].stack # <<>> /\ Head(task[k].stack) = label
  /\ label \in AtOnce \/ Awaiting
  /\ label \in GuardedLabels => guard \in {None, k}

\* The guard is held as long as a guarded label is on the stack.
Leave(k, stack) ==
  /\ guard' = IF guard = k \/ Head(task[k].stack) \in GuardedLabels
              THEN IF \E i \in DOMAIN stack : stack[i] \in GuardedLabels
                   THEN k ELSE None
              ELSE guard
  /\ UNCHANGED meets

\* The label is left for the given ones, with the changed locals.
Continues(k, t, stack) ==
  /\ Leave(k, stack)
  /\ task' = [task EXCEPT ![k] =
                IF stack = <<>> THEN Idle ELSE [t EXCEPT !.stack = stack]]
Becomes(k, t, labels) == Continues(k, t, labels \o Tail(task[k].stack))
Goto(k, labels) == Becomes(k, task[k], labels)
\* The snapshots of the syncs around the innermost one.
EarlierViews(k) == SubSeq(task[k].views, 2, Len(task[k].views))

\* An exception that no routine on the stack catches; what called for the
\* account sync inside a close goes on without it.
Abort(k) ==
  LET stack == task[k].stack
      ends == {i \in DOMAIN stack : stack[i] = "synced"}
      rest == IF ends = {} THEN <<>>
              ELSE SubSeq(stack, 1 + CHOOSE i \in ends : \A j \in ends : i <= j,
                          Len(stack))
  IN  Continues(k, [Idle EXCEPT !.aim = task[k].aim,
                                !.views = IF ends = {} THEN @
                                          ELSE EarlierViews(k)], rest)
Return(k, ok) ==
  Becomes(k, [task[k] EXCEPT !.ok = ok, !.prev = 0, !.todo = NoQty], <<>>)
\* The caller of a routine takes its outcome.
Taken(k, labels) == Becomes(k, [task[k] EXCEPT !.ok = TRUE], labels)

SubmitFails == Meets("submit")
CancelFails == Meets("cancel")
QueryFails == Meets("query")
AnswerLost == Meets("answer")

\* _enforce_trade_protection_or_flatten as labels.
Enforce == <<"plan", "enforced">>

(* Entry legs. *)

LegsShown(S) == [i \in {j \in S : leg'[j].state # "none"} |-> leg'[i]]

\* Legs of I are cancelled, those of F without an answer, and the fills that
\* came before are recorded in t.  A leg that was sent without an answer is
\* found by its client id, if it exists.
CancelConfirmed(t, I, F) ==
  /\ \A i \in I : t.known[i] = "sent" => leg[i].state # "none"
  /\ I \cap F \cap Pending(t) = {}

CancelLegs(t, I, F) ==
  LET live == {i \in I \ F : t.known[i] \in {"sent", "working"}}
      shown == {i \in Legs \ F : t.known[i] \notin {"planned", "unsent"}}
  IN  /\ leg' = [i \in Legs |-> IF i \in live THEN Stopped(leg[i]) ELSE leg[i]]
      /\ trade' = LET u == WithRangeFills(t, LegsShown(shown))
                  IN  IF CancelConfirmed(t, I, F) THEN u
                      ELSE [u EXCEPT !.issues = @ \union {"reconcile"}]

\* At most one call of a step fails.
OneOf(S, may) == {{}} \union IF may THEN {{x} : x \in S} ELSE {}
Unanswered == OneOf(Legs, CancelFails)

(* The protection sync. *)

\* Which stop a query of the orders st shows as the trade's: any that rests,
\* else the tracked one unless it is known to be gone.
StopsShown(st, tracked) ==
  IF Resting(st) # {} THEN Resting(st)
  ELSE IF tracked # 0 /\ st[tracked].state = "filled" THEN {tracked}
  ELSE {0}

\* Missing targets are restored before anything is cancelled.
WithDefaults(t) == IF t.hits < t.aims THEN t ELSE [t EXCEPT !.aims = t.hits + 1]
CanRestore(t) == t.hits < t.aims \/ t.hits < MaxTargets

\* The stop follows the targets that were hit, and never moves back.
Advanced(t) == [t EXCEPT !.level = Greater(@, t.hits)]

Fails(k) == Becomes(k, [task[k] EXCEPT !.prev = 0, !.todo = NoQty], <<"failed">>)

\* Levels and quantities are computed, the tracked orders refreshed and the
\* old targets cancelled.
PlanProtection(k) ==
  /\ Runs(k, "plan")
  /\ UNCHANGED <<leg, stop, loose, position>>
  /\ \/ /\ ~IsOpen(trade)
        /\ Return(k, TRUE) /\ UNCHANGED <<target, trade>>
     \/ /\ IsOpen(trade) /\ (QueryFails \/ ~CanRestore(trade))
        /\ Fails(k) /\ UNCHANGED <<target, trade>>
     \/ /\ IsOpen(trade) /\ CanRestore(trade)
        /\ \E sl \in StopsShown(stop, trade.sl), F \in OneOf(Resting(target), CancelFails) :
             LET t == [Advanced(WithDefaults(trade)) EXCEPT
                         !.sl = sl, !.tps = {}]
                 u == [t EXCEPT !.need = Cardinality(PlannedTargets(t))]
             IN  /\ target' = [g \in Goals |-> IF g \in F THEN target[g]
                                               ELSE Cancelled(target[g])]
                 /\ trade' = u
                 /\ IF F # {} THEN Fails(k)
                    ELSE Becomes(k, [task[k] EXCEPT !.todo = PlanTargets(t),
                                                    !.prev = sl],
                                 IF sl = 0 THEN <<"stop">> ELSE <<"targets">>)

\* A slot the exchange has free for another stop of this trade.
FreeSlots(k) ==
  LET free == {s \in Slots : stop[s].state # "rests" /\ s # task[k].prev}
  IN  {s \in free : \A r \in free : s <= r}

\* A stop is submitted for the remainder.
SubmitStop(k, label, next) ==
  /\ Runs(k, label)
  /\ UNCHANGED <<leg, target, loose, position>>
  /\ \/ /\ SubmitFails \/ FreeSlots(k) = {}
        /\ Fails(k) /\ UNCHANGED <<stop, trade>>
     \/ \E s \in FreeSlots(k) :
          /\ stop' = [stop EXCEPT ![s] = Placed(@, trade.remaining, trade.level)]
          /\ \/ /\ trade' = [trade EXCEPT !.sl = s] /\ Goto(k, <<next>>)
             \/ /\ AnswerLost /\ Fails(k) /\ UNCHANGED trade

FirstStop(k) == SubmitStop(k, "stop", "targets")
NewStop(k) == SubmitStop(k, "restop", "verify")

\* The targets are placed one by one; a failure leaves the first of them.
PlaceTargets(k) ==
  /\ Runs(k, "targets")
  /\ UNCHANGED <<leg, stop, loose, position>>
  /\ LET all == {g \in Goals : task[k].todo[g] > 0}
     IN  \E n \in 0..MaxTargets :
           LET placed == {g \in all : g <= n} IN
           /\ placed # all => SubmitFails
           /\ target' = [g \in Goals |->
                           IF g \in placed
                           THEN Placed(target[g], task[k].todo[g], g)
                           ELSE target[g]]
           /\ trade' = [trade EXCEPT !.tps = placed]
           /\ IF placed # all THEN Fails(k)
              ELSE Becomes(k, [task[k] EXCEPT !.todo = NoQty],
                           IF task[k].prev = 0 THEN <<"verify">> ELSE <<"restop">>)

Protected(t) == t.sl # 0 /\ t.need > 0 /\ Cardinality(t.tps) >= t.need

\* What the open orders show the trade to track.
Refreshed(t, sl) == [t EXCEPT !.tps = Resting(target), !.sl = sl]

\* The predecessor is cancelled, its failure tolerated, and the orders are
\* queried again.
VerifyProtection(k) ==
  /\ Runs(k, "verify")
  /\ UNCHANGED <<leg, target, loose, position>>
  /\ LET prev == task[k].prev IN
     \/ prev = 0 /\ UNCHANGED stop
     \/ prev # 0 /\ stop' = [stop EXCEPT ![prev] = Cancelled(@)]
     \/ prev # 0 /\ CancelFails /\ UNCHANGED stop
  /\ \/ QueryFails /\ Fails(k) /\ UNCHANGED trade
     \/ \E sl \in StopsShown(stop', trade.sl) :
          LET t == Refreshed(trade, sl) IN
          IF Protected(t)
          THEN /\ trade' = [t EXCEPT !.deferred = FALSE,
                                     !.issues = @ \ {"protection"}]
               /\ Return(k, TRUE)
          ELSE trade' = t /\ Fails(k)

\* An attempt failed: enough when the exchange has what is required, else
\* another attempt, else the caller's failure.
ProtectionFailed(k) ==
  /\ Runs(k, "failed")
  /\ UNCHANGED exchange
  /\ \/ \E sl \in StopsShown(stop, trade.sl) :
          /\ IsOpen(trade) /\ trade' = Refreshed(trade, sl)
          /\ Protected(trade') /\ Return(k, TRUE)
     \/ /\ \/ QueryFails /\ UNCHANGED trade
           \/ ~IsOpen(trade) /\ UNCHANGED trade
           \/ \E sl \in StopsShown(stop, trade.sl) : /\ IsOpen(trade)
                                     /\ trade' = Refreshed(trade, sl)
                                     /\ ~Protected(trade')
        /\ IF task[k].tries + 1 < Attempts
           THEN Becomes(k, [task[k] EXCEPT !.tries = @ + 1], <<"plan">>)
           ELSE Becomes(k, [task[k] EXCEPT !.tries = 0, !.ok = FALSE], <<>>)

\* [mutant] A protection that failed is left for later.
EnforcedLater(k) ==
  /\ Runs(k, "enforced")
  /\ UNCHANGED <<exchange, trade>>
  /\ Return(k, TRUE)

\* Without protection the position is flattened.
Enforced(k) ==
  /\ Runs(k, "enforced")
  /\ UNCHANGED <<exchange, trade>>
  /\ IF task[k].ok THEN Return(k, TRUE) ELSE Taken(k, <<"close", "flattened">>)

\* The protection is tried again later.
RetryLater(t) ==
  [t EXCEPT !.deferred = TRUE, !.issues = @ \union {"protection"}]

\* A flattening that failed or left a remainder opens the circuit.
Flattened(k) ==
  /\ Runs(k, "flattened")
  /\ UNCHANGED exchange
  /\ trade' = IF task[k].ok /\ ~IsOpen(trade)
              THEN IF trade.owned THEN Finalized(trade) ELSE trade
              ELSE RetryLater(trade)
  /\ Taken(k, <<>>)

(* The closing order. *)

\* [mutant] The stop is cancelled with the targets, before the order is sent.
StartCloseUnstopped(k, label, next) ==
  /\ Runs(k, label)
  /\ UNCHANGED <<leg, loose, position, trade>>
  /\ ~trade.ladder
  /\ target' = [g \in Goals |-> Cancelled(target[g])]
  /\ stop' = [s \in Slots |-> Cancelled(stop[s])]
  /\ Goto(k, <<next>>)

\* Entry legs and targets are cancelled before the order is sent.
StartClose(k, label, next) ==
  /\ Runs(k, label)
  /\ UNCHANGED <<stop, loose, position>>
  /\ \E F \in Unanswered, G \in OneOf(Resting(target), CancelFails) :
       LET live == IF trade.ladder THEN Legs ELSE {} IN
       /\ IF trade.ladder THEN CancelLegs(trade, Legs, F)
          ELSE UNCHANGED <<leg, trade>> /\ F = {}
       /\ IF CancelConfirmed(trade, live, F)
          THEN /\ target' = [g \in Goals |-> IF g \in G THEN target[g]
                                             ELSE Cancelled(target[g])]
               /\ IF G = {} THEN Goto(k, <<next>>) ELSE Return(k, FALSE)
          ELSE UNCHANGED target /\ G = {} /\ Return(k, FALSE)

\* For a target hit only the targets are.
FreeTargets(k, label, next) ==
  /\ Runs(k, label)
  /\ UNCHANGED <<leg, stop, loose, position, trade>>
  /\ \E G \in OneOf(Resting(target), CancelFails) :
       /\ target' = [g \in Goals |-> IF g \in G THEN target[g]
                                     ELSE Cancelled(target[g])]
       /\ IF G = {} THEN Goto(k, <<next>>) ELSE Return(k, FALSE)

\* The closing order is refused, or its answer is lost.
CloseRefused(k, asked) ==
  /\ SubmitFails \/ position = 0 \/ asked = 0
  /\ Return(k, FALSE) /\ UNCHANGED <<stop, loose, position, trade>>
CloseUnanswered(k, asked) ==
  /\ AnswerLost /\ asked > 0 /\ position > 0
  /\ LET n == Lesser(asked, position)
     IN  loose' = [loose EXCEPT !.executed = @ + n] /\ position' = position - n
  /\ Return(k, FALSE) /\ UNCHANGED <<stop, trade>>

\* n steps are booked as closed by an order of the engine.
ClosedBy(t, n) ==
  [t EXCEPT !.remaining = @ - n, !.booked = @ + n, !.tps = {},
            !.status = IF t.remaining = n THEN "closed" ELSE "open",
            !.reason = IF t.remaining = n THEN "close" ELSE @]

\* The account is refreshed and what is left protected anew.
Refresh(k) ==
  Becomes(k, [task[k] EXCEPT !.ok = TRUE, !.prev = 0, !.todo = NoQty],
          <<"refresh", "rearm">>)

\* What the position shows to be left after the order.
Leftovers == {left \in 0..(position - 1) : left > 0 => Meets("residual")}

\* The remainder is sent as a reduce-only order, what is left of the bucket
\* as further ones; the remainder then follows the position.  The stop goes
\* once the trade is closed.
CloseAtMarket(k) ==
  /\ Runs(k, "market")
  /\ UNCHANGED <<leg, target>>
  /\ \/ CloseRefused(k, trade.remaining) \/ CloseUnanswered(k, trade.remaining)
     \/ /\ position > 0 /\ trade.remaining > 0
        /\ \E left \in Leftovers, F \in OneOf(Resting(stop), CancelFails) :
             LET t == ClosedBy(trade, Greater(0, trade.remaining - left)) IN
             /\ position' = left
             /\ IF IsOpen(t) \/ trade.sl = 0
                THEN F = {} /\ trade' = t /\ UNCHANGED stop
                ELSE /\ trade' = [t EXCEPT !.sl = 0]
                     /\ stop' = [s \in Slots |-> IF s \in F THEN stop[s]
                                                ELSE Cancelled(stop[s])]
        /\ UNCHANGED loose /\ Refresh(k)

\* A part of the remainder is sent, a half of it.
CloseHalf(k) ==
  LET asked == trade.remaining \div 2 IN
  /\ Runs(k, "slice")
  /\ UNCHANGED <<leg, target>>
  /\ \/ CloseRefused(k, asked) \/ CloseUnanswered(k, asked)
     \/ /\ asked > 0 /\ position > 0
        /\ LET n == Lesser(asked, position) IN
           position' = position - n /\ trade' = ClosedBy(trade, n)
        /\ UNCHANGED <<stop, loose>> /\ Refresh(k)

Rearm(k) ==
  /\ Runs(k, "rearm")
  /\ UNCHANGED <<exchange, trade>>
  /\ IF IsOpen(trade) THEN Goto(k, <<"plan", "rearmed">>) ELSE Return(k, TRUE)

Rearmed(k) ==
  /\ Runs(k, "rearmed")
  /\ UNCHANGED <<exchange, trade>>
  /\ Return(k, task[k].ok)

RoutineStep(k) ==
  \/ PlanProtection(k) \/ FirstStop(k) \/ PlaceTargets(k) \/ NewStop(k)
  \/ VerifyProtection(k) \/ ProtectionFailed(k) \/ Enforced(k) \/ Flattened(k)
  \/ CloseAtMarket(k) \/ CloseHalf(k) \/ Rearm(k) \/ Rearmed(k)
  \/ StartClose(k, "close", "market") \/ StartClose(k, "halve", "slice")
  \/ FreeTargets(k, "free", "market") \/ FreeTargets(k, "shave", "slice")
=============================================================================
