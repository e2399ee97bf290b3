------------------------- MODULE PositionSizing -------------------------
(* The position manager of the live engine: how large a position opens,   *)
(* with which stop and targets, and what an update may change.  Prices,   *)
(* quantities and the balance are small integers, without fees; a price   *)
(* of 0 is absent.                                                         *)
EXTENDS Integers, Sequences, SequencesExt

CONSTANTS
  Balance,          \* the balance a position is sized from
  Factor,           \* risk_per_trade_pct of the session
  MinAllocation, MaxAllocation,  \* LIVE_TRADING_MIN/MAX_ALLOCATION_PCT
  DefaultLeverage, MaxLeverage,  \* of a signal, and the effective cap
  MaxLoss,          \* LIVE_TRADING_MAX_STOP_LOSS_PCT_OF_BALANCE
  Synthetic         \* the distance of a synthetic stop and of its target

ASSUME SizingAssumption ==
  /\ {Balance, Factor, MinAllocation, MaxAllocation, MaxLoss} \subseteq Nat
  /\ {DefaultLeverage, MaxLeverage, Synthetic} \subseteq Nat \ {0}

Larger(a, b) == IF a > b THEN a ELSE b
Smaller(a, b) == IF a < b THEN a ELSE b
Distance(a, b) == Larger(a - b, b - a)

\* What one unit loses from the entry to a price; negative for a profit.
LossPerUnit(side, entry, price) ==
  IF side = "long" THEN entry - price ELSE price - entry

RiskBudget == (Balance * MaxLoss) \div 100

\* The share of the balance a position takes, smaller under leverage.
Allocation(leverage) ==
  Smaller(Larger(Factor \div Larger(leverage, 1), MinAllocation),
          Larger(MaxAllocation, MinAllocation))

\* The largest quantity whose loss at the stop stays within the budget.
SafeQuantity(side, entry, stop) ==
  LET loss == LossPerUnit(side, entry, stop)
  IN IF entry <= 0 \/ stop <= 0 \/ loss <= 0 THEN 0 ELSE RiskBudget \div loss

\* The stop nearest to the one asked for whose loss fits the budget.
Clamped(side, entry, stop, quantity) ==
  IF entry <= 0 \/ stop <= 0 \/ quantity <= 0 THEN stop
  ELSE IF side = "long" THEN Larger(stop, entry - RiskBudget \div quantity)
  ELSE Smaller(stop, entry + RiskBudget \div quantity)

\* The targets on the winning side, not too far, once each, nearest first.
Sanitized(targets, side, entry, stop) ==
  LET reach == 50 * Distance(entry, stop)
      fit == {p \in {targets[k] : k \in DOMAIN targets} :
                /\ p > 0 /\ LossPerUnit(side, entry, p) < 0
                /\ stop # 0 /\ reach > 0 => Distance(entry, p) <= reach}
  IN SetToSortSeq(fit, LAMBDA a, b : IF side = "long" THEN a < b ELSE a > b)

SyntheticStop(side, entry) ==
  IF side = "long" THEN entry - Synthetic ELSE entry + Synthetic

\* The targets given, or the strategy's when none of them is valid.
TargetsOrDefault(targets, side, entry, stop) ==
  LET valid == Sanitized(targets, side, entry, stop)
      default == IF side = "long" THEN entry + Synthetic ELSE entry - Synthetic
  IN IF valid # <<>> THEN valid ELSE Sanitized(<<default>>, side, entry, stop)

-----------------------------------------------------------------------------
(* Opening. *)

\* The leverage of a signal, within the effective cap.
Effective(leverage) ==
  Smaller(IF leverage = 0 THEN DefaultLeverage ELSE Larger(leverage, 1),
          MaxLeverage)

\* What the allocation buys, before the stop limits it.
Wanted(leverage, entry) ==
  IF entry <= 0 THEN 0
  ELSE (Balance * Allocation(leverage) * leverage) \div (100 * entry)

\* The trade a signal opens as, of quantity 0 when its sizing is rejected.
Sized(parsed) ==
  LET leverage == Effective(parsed.leverage)
      side == parsed.side
      entry == parsed.entry
      wanted == Wanted(leverage, entry)
      quantity == IF parsed.stop = 0 THEN wanted
                  ELSE Smaller(wanted, SafeQuantity(side, entry, parsed.stop))
      stop == IF parsed.stop # 0 THEN parsed.stop
              ELSE Clamped(side, entry, SyntheticStop(side, entry), quantity)
      targets == TargetsOrDefault(parsed.targets, side, entry, stop)
  IN [status |-> "waiting", symbol |-> parsed.symbol, side |-> side,
      entry |-> entry, leverage |-> leverage, stop |-> stop,
      targets |-> targets, hits |-> 0, ordered |-> FALSE,
      margin |-> (entry * quantity) \div leverage,
      quantity |-> IF targets = <<>> THEN 0 ELSE quantity,
      remaining |-> IF targets = <<>> THEN 0 ELSE quantity,
      askedStop |-> parsed.stop, askedTargets |-> parsed.targets]

\* The protection computed again for the price the entry really has.  It fails
\* when the stop that was asked for would exceed the budget, and then keeps the
\* stop, or when there is no target for the stop it has set.
Rebased(trade) ==
  LET asked == IF trade.askedStop # 0 THEN trade.askedStop ELSE trade.stop
      sound == asked > 0 /\ LossPerUnit(trade.side, trade.entry, asked) > 0
      stop == IF sound THEN asked ELSE SyntheticStop(trade.side, trade.entry)
      safe == Clamped(trade.side, trade.entry, stop, trade.remaining)
      wanted == IF trade.askedTargets # <<>> THEN trade.askedTargets
                ELSE trade.targets
      targets == TargetsOrDefault(wanted, trade.side, trade.entry, safe)
  IN IF trade.remaining <= 0 \/ (trade.askedStop # 0 /\ safe # stop)
     THEN [sound |-> FALSE, trade |-> trade]
     ELSE IF targets = <<>>
     THEN [sound |-> FALSE, trade |-> [trade EXCEPT !.stop = safe]]
     ELSE [sound |-> TRUE, trade |-> [trade EXCEPT
             !.stop = safe, !.targets = targets, !.hits = 0]]

-----------------------------------------------------------------------------
(* Updates. *)

\* Mutant: any stop is allowed.
StopAllowedAlways(trade, stop) == TRUE

\* A stop whose loss exceeds the budget of what remains is refused.
StopAllowed(trade, stop) ==
  Clamped(trade.side, trade.entry, stop, trade.remaining) = stop

WithStop(trade, stop, toEntry) ==
  IF toEntry THEN [trade EXCEPT !.stop = trade.entry]
  ELSE IF stop # 0 /\ StopAllowed(trade, stop)
       THEN [trade EXCEPT !.stop = stop] ELSE trade

\* The targets already hit stay; those to come are replaced.
WithTargets(trade, targets) ==
  LET valid == Sanitized(targets, trade.side, trade.entry, trade.stop)
  IN IF valid = <<>> THEN trade
     ELSE [trade EXCEPT !.targets = SubSeq(@, 1, trade.hits) \o valid]

WithLeverage(trade, leverage) ==
  IF leverage <= 0 THEN trade
  ELSE [trade EXCEPT !.leverage = Smaller(leverage, MaxLeverage)]
=============================================================================
