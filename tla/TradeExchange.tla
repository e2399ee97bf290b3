--------------------------- MODULE TradeExchange ---------------------------
(* The orders and the position of one logical trade on the futures         *)
(* exchange, as exchange/toobit/futures.py shows them to the live engine.   *)
(* The exchange moves on its own between any two calls of the engine: entry *)
(* legs fill, targets and stops execute, orders die.  Quantities are        *)
(* contract steps.  The engine's side is in FillLedger, ProtectionSync and  *)
(* TradeLifecycle, which extend this module.                                *)
EXTENDS Integers, FiniteSets, Sequences

CONSTANTS MaxTargets,  \* bound: targets, also after defaults have been restored
          Cases,       \* bound: the entries with their take-profit targets, and
                       \* what they may meet
          None

\* Besides fills, a trade may meet: "send" (an entry order is refused, or is
\* accepted and its answer lost), "submit", "cancel" and "query" (another order,
\* a cancellation or a query raises and changes nothing), "answer" (another order
\* is accepted and its answer lost), "die" (an order is rejected or expires),
\* "lag" (userTrades is empty or fails), "part" (an entry order executes in
\* part), "residual" (a market close executes only a part), "expiry" (of the
\* entry), "message" (one that asks for its close), "half" (one that asks for
\* the close of a part of the position), "monitor" (the pending monitor looks at
\* it), "price" (the mark price is beyond a level while the protection is
\* missing).
Events == {"send", "submit", "cancel", "query", "answer", "die", "lag", "part",
           "residual", "expiry", "message", "half", "monitor", "price"}
ASSUME TargetsAssumption == MaxTargets \in Nat \ {0}
ASSUME CasesAssumption ==
  Cases \subseteq [ladder : BOOLEAN, aims : 1..MaxTargets, meets : SUBSET Events]

Legs == 1..3
Goals == 1..MaxTargets
Slots == 1..3       \* bound: stop orders the exchange takes for the position

\* A range of four contract steps: 25%, 50% and 25%.  A single entry order is
\* the midpoint leg alone.
LegQty == <<1, 2, 1>>
MaxQty == 4

VARIABLES
  leg,       \* entry orders: state and executed quantity
  target,    \* take-profit orders by target: state, quantity, and of what was
             \* executed so far, how much the trade has claimed
  stop,      \* stop orders: the same and the level
  loose,     \* executed and claimed of close orders without an answer
  position,  \* what the exchange holds
  meets      \* what the trade of this behaviour may meet

exchange == <<leg, target, stop, loose, position>>

NoFills == [executed |-> 0, claimed |-> 0]
NoOrder == [state |-> "none", qty |-> 0, level |-> 0, executed |-> 0, claimed |-> 0]
OrderStates == {"none", "rests", "filled", "gone"}

ExchangeInit ==
  /\ leg = [i \in Legs |-> [state |-> "none", got |-> 0]]
  /\ target = [g \in Goals |-> NoOrder]
  /\ stop = [s \in Slots |-> NoOrder]
  /\ loose = NoFills /\ position = 0

Meets(e) == e \in meets

Entered == leg[1].got + leg[2].got + leg[3].got
Resting(orders) == {i \in DOMAIN orders : orders[i].state = "rests"}
Lesser(a, b) == IF a <= b THEN a ELSE b
Greater(a, b) == IF a >= b THEN a ELSE b

(* The exchange's own steps. *)

\* An entry order executes completely.  The legs are limit orders at rising
\* distance: the nearest one executes first.
LegFills(i) ==
  /\ leg[i].state = "rests" /\ \A j \in Resting(leg) : i <= j
  /\ leg' = [leg EXCEPT ![i] = [state |-> "filled", got |-> LegQty[i]]]
  /\ position' = position + LegQty[i] - leg[i].got
  /\ UNCHANGED <<target, stop, loose>>

\* An entry order of more than one step executes in part.
LegFillsPartly(i) ==
  /\ Meets("part") /\ leg[i].state = "rests" /\ leg[i].got = 0 /\ LegQty[i] > 1
  /\ \A j \in Resting(leg) : i <= j
  /\ leg' = [leg EXCEPT ![i].got = 1]
  /\ position' = position + 1
  /\ UNCHANGED <<target, stop, loose>>

LegDies(i) ==
  /\ Meets("die") /\ leg[i].state = "rests" /\ leg[i].got = 0
  /\ leg' = [leg EXCEPT ![i].state = "gone"]
  /\ UNCHANGED <<target, stop, loose, position>>

\* An order that does not rest any more has no quantity and no level.
Executed(order, n) ==
  [order EXCEPT !.state = "filled", !.qty = 0, !.level = 0, !.executed = @ + n]
Removed(order) == [order EXCEPT !.state = "gone", !.qty = 0, !.level = 0]
Unclaimed(order) == order.executed - order.claimed

\* The targets are limit orders at rising distance: the nearest one executes
\* first.  A close order never turns the position round.
TargetFills(g) ==
  /\ g \in Resting(target) /\ position > 0
  /\ \A h \in Resting(target) : g <= h
  /\ LET n == Lesser(target[g].qty, position)
     IN  /\ target' = [target EXCEPT ![g] = Executed(target[g], n)]
         /\ position' = position - n
  /\ UNCHANGED <<leg, stop, loose>>

\* The stop with the most protective level triggers first.
StopFires(s) ==
  /\ s \in Resting(stop) /\ position > 0
  /\ \A r \in Resting(stop) : stop[r].level <= stop[s].level
  /\ LET n == Lesser(stop[s].qty, position)
     IN  /\ stop' = [stop EXCEPT ![s] = Executed(stop[s], n)]
         /\ position' = position - n
  /\ UNCHANGED <<leg, target, loose>>

StopDies(s) ==
  /\ Meets("die") /\ s \in Resting(stop)
  /\ stop' = [stop EXCEPT ![s] = Removed(@)]
  /\ UNCHANGED <<leg, target, loose, position>>

ExchangeStep ==
  \/ \E i \in Legs : LegFills(i) \/ LegFillsPartly(i) \/ LegDies(i)
  \/ \E g \in Goals : TargetFills(g)
  \/ \E s \in Slots : StopFires(s) \/ StopDies(s)

(* What the engine's calls do to an order. *)

Cancelled(order) ==
  IF order.state = "rests" THEN Removed(order) ELSE order
Stopped(l) == IF l.state = "rests" THEN [l EXCEPT !.state = "gone"] ELSE l
Placed(order, q, l) ==
  [order EXCEPT !.state = "rests", !.qty = q, !.level = l]

LegRecord == [state : OrderStates, got : 0..2]
OrderRecord ==
  [state : OrderStates, qty : 0..MaxQty, level : 0..MaxTargets, executed : Nat,
   claimed : Nat]

ExchangeTypeOK ==
  /\ leg \in [Legs -> LegRecord]
  /\ target \in [Goals -> OrderRecord] /\ stop \in [Slots -> OrderRecord]
  /\ loose \in [executed : Nat, claimed : Nat]
  /\ position \in 0..MaxQty
=============================================================================
