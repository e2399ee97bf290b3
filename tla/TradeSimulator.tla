------------------------- MODULE TradeSimulator -------------------------
(* The simulator of the backtest, for the events of one record: it opens  *)
(* a trade at a candle, lets the candles hit its stop and its targets,    *)
(* applies the events to it, and is called once per segment of candles    *)
(* with the state the segment before left.  The same replay in one piece  *)
(* is WholeReplay.                                                         *)
(*                                                                         *)
(* A candle is [opens, closes, first, low, high, last]: two times and     *)
(* four prices.  The trade is open from "since" on and keeps the quantity *)
(* that remains; a fraction of it is rounded down to whole units.  The    *)
(* strategy is always there in a run; fees are left out.                  *)
EXTENDS BacktestRecords, PositionSizing

CONSTANTS
  Optimistic,   \* the fill policy, when one candle hits stop and target
  RiskFree,     \* the strategy moves the stop to the entry at the first target
  Trailing,     \* the strategy lets the stop follow the targets hit
  CloseAtEnd,   \* close_open_positions_at_end
  SegmentSize   \* the candles of one segment

ASSUME SimulatorAssumption ==
  {Optimistic, RiskFree, Trailing, CloseAtEnd} \subseteq BOOLEAN
  /\ SegmentSize \in Nat \ {0}

Unopened ==
  [status |-> "none", side |-> "unknown", entry |-> 0, since |-> 0, stop |-> 0,
   targets |-> <<>>, hits |-> 0, leverage |-> 1, original |-> 0,
   remaining |-> 0, pnl |-> 0,
   exit |-> 0, ended |-> 0, manual |-> FALSE]

IsOpen(trade) == trade.status = "open"

-----------------------------------------------------------------------------
(* Entry. *)

TakesMarket(parsed) == parsed.type = "market" \/ parsed.entry = 0

\* The candle an entry executes at, or 0: the next one to open for a market
\* entry, the first one to touch the price, the current one included, else.
EntryCandle(parsed, time, candles) ==
  SelectInSeq(candles, LAMBDA c :
    IF TakesMarket(parsed) THEN c.opens >= time
    ELSE c.closes > time /\ c.low <= parsed.entry /\ parsed.entry <= c.high)

\* The stop of the strategy risks exactly the budget.
StrategyStop(side, entry, quantity) ==
  IF side = "long" THEN Larger(entry - RiskBudget \div quantity, 0)
  ELSE entry + RiskBudget \div quantity

\* What the allocation buys at the entry price, as far as the stop allows it;
\* nothing when the stop is on the wrong side.
EntryQuantity(parsed, entry) ==
  LET wanted == Wanted(Effective(parsed.leverage), entry)
  IN IF parsed.stop = 0 THEN wanted
     ELSE Smaller(wanted, SafeQuantity(parsed.side, entry, parsed.stop))

EntryStop(parsed, entry, quantity) ==
  IF parsed.stop # 0 THEN parsed.stop
  ELSE StrategyStop(parsed.side, entry, quantity)

\* An opening that is not executed keeps what it asked for.
NotFilled(parsed, leverage) ==
  [Unopened EXCEPT !.status = "not_filled", !.side = parsed.side,
                   !.stop = parsed.stop, !.targets = parsed.targets,
                   !.leverage = leverage]

\* The position bought at a price, if there is anything to buy.
Bought(parsed, entry, since) ==
  LET quantity == EntryQuantity(parsed, entry)
      stop == EntryStop(parsed, entry, quantity)
  IN IF quantity = 0 THEN NotFilled(parsed, Effective(parsed.leverage))
     ELSE [Unopened EXCEPT
             !.status = "open", !.side = parsed.side, !.entry = entry,
             !.since = since, !.stop = stop,
             !.original = quantity, !.remaining = quantity,
             !.leverage = Effective(parsed.leverage),
             !.targets = TargetsOrDefault(parsed.targets, parsed.side, entry,
                                          stop)]

\* An opening that no candle of these executes is never filled.
Entered(event, candles) ==
  LET parsed == event.parsed
      k == EntryCandle(parsed, event.time, candles)
  IN IF k = 0 THEN NotFilled(parsed, 1)
     ELSE Bought(parsed, IF TakesMarket(parsed) THEN candles[k].first
                         ELSE parsed.entry, candles[k].opens)

-----------------------------------------------------------------------------
(* Exits. *)

Sold(trade, time, price, percent) ==
  LET quantity == (trade.remaining * Smaller(percent, 100)) \div 100
  IN IF quantity = 0 THEN trade
     ELSE [trade EXCEPT
             !.remaining = @ - quantity, !.exit = price, !.ended = time,
             !.pnl = @ - quantity * LossPerUnit(trade.side, trade.entry, price)]

Ended(trade, status) == [trade EXCEPT !.status = status]

\* The percent of what remains that the first, second, ... target closes.
CloseFractions == <<35, 40, 50>>

\* One target is hit: the strategy may move the stop, and a part is sold.
AfterHit(trade, time, target) ==
  LET coming == Len(trade.targets) - trade.hits
      percent == IF coming <= 1 THEN 100
                 ELSE CloseFractions[Smaller(trade.hits + 1, Len(CloseFractions))]
      behind == trade.hits - (IF Len(trade.targets) >= 5 THEN 2 ELSE 1)
      stop == IF Trailing /\ trade.hits > 0 /\ behind >= 0
              THEN trade.targets[behind + 1]
              ELSE IF RiskFree /\ trade.hits = 0 THEN trade.entry
              ELSE trade.stop
      sold == Sold([trade EXCEPT !.stop = stop], time, target, percent)
  IN IF trade.remaining = 0 THEN trade ELSE [sold EXCEPT !.hits = @ + 1]

TargetStatus(trade) ==
  CASE trade.manual -> "partial_close_then_tp"
    [] ~trade.manual /\ trade.hits > 1 -> "partial_tp_complete"
    [] OTHER -> "tp_hit"

StopStatus(trade) ==
  CASE trade.manual -> "partial_close_then_sl"
    [] ~trade.manual /\ trade.hits > 0 -> "partial_tp_then_sl"
    [] OTHER -> "sl_hit"

\* A candle that hits both is decided by the policy; the targets it reaches
\* are those to come when it starts.
AfterCandle(trade, candle) ==
  LET long == trade.side = "long"
      stopped == IF long THEN candle.low <= trade.stop
                 ELSE candle.high >= trade.stop
      reached == SelectSeq(
        SubSeq(trade.targets, trade.hits + 1, Len(trade.targets)),
        LAMBDA p : IF long THEN candle.high >= p ELSE candle.low <= p)
      taken == FoldLeft(LAMBDA t, p : AfterHit(t, candle.closes, p), trade,
                        reached)
      StoppedOut(t) == Ended(Sold(t, candle.closes, t.stop, 100), StopStatus(t))
  IN IF stopped /\ (reached = <<>> \/ ~Optimistic) THEN StoppedOut(trade)
     ELSE IF taken.remaining = 0 THEN Ended(taken, TargetStatus(taken))
     ELSE IF stopped THEN StoppedOut(taken)
     ELSE taken

\* The candles that have not been read yet.
Unread(candles, read) == SelectSeq(candles, LAMBDA c : read < c.closes)

\* The unread candles that do not close after "until", in turn.
Through(trade, candles, read, until) ==
  FoldLeft(LAMBDA t, c :
             IF IsOpen(t) /\ c.closes <= until /\ c.opens >= t.since
             THEN AfterCandle(t, c) ELSE t,
           trade, Unread(candles, read))

-----------------------------------------------------------------------------
(* Events. *)

NextOpen(trade, time, candles) ==
  LET k == SelectInSeq(candles, LAMBDA c : c.opens >= time)
  IN IF k = 0 THEN trade.entry ELSE candles[k].first

SoldByHand(trade, event, candles, percent) ==
  Sold(trade, event.time, NextOpen(trade, event.time, candles), percent)

ByHand(trade) ==
  Ended(trade, IF trade.hits = 0 THEN "closed" ELSE "partial_tp_then_close")

ClosedWithAll(trade, event, candles) ==
  ByHand(SoldByHand(trade, event, candles, 100))

ClosedByHand(trade, event, candles) ==
  LET percent == IF event.fraction = 0 THEN 100 ELSE event.fraction
      sold == SoldByHand(trade, event, candles, percent)
  IN IF sold.remaining = 0 THEN ByHand(sold)
     ELSE [sold EXCEPT !.manual = @ \/ percent < 100]

SoldOut(trade, time, price, status) ==
  Ended(Sold(trade, time, price, 100), status)

Cancelled(trade, event) ==
  SoldOut(trade, event.time, trade.entry,
          IF trade.hits = 0 THEN "cancelled" ELSE "partial_tp_then_cancel")

\* An update of an open trade, within the risk budget.
Updated(trade, event) ==
  LET parsed == event.parsed
      asked == IF parsed.action \in {"sl", "tp", "entry"} THEN parsed.stop ELSE 0
      refused == ~event.toEntry /\ asked # 0 /\ ~StopAllowed(trade, asked)
      stopped == WithStop(trade, asked, event.toEntry)
      targeted == IF parsed.action \in {"tp", "entry"}
                  THEN WithTargets(stopped, parsed.targets) ELSE stopped
  IN IF refused /\ parsed.action = "tp" THEN trade
     ELSE IF parsed.action \in {"leverage", "entry"}
     THEN WithLeverage(targeted, parsed.leverage) ELSE targeted

AfterEvent(trade, event, candles) ==
  LET action == event.parsed.action
  IN CASE action = "open" -> Entered(event, candles)
       [] action # "open" /\ ~IsOpen(trade) -> trade
       [] action = "cancel" /\ IsOpen(trade) -> Cancelled(trade, event)
       [] action = "close" /\ IsOpen(trade) ->
            IF event.closeAll THEN ClosedWithAll(trade, event, candles)
            ELSE ClosedByHand(trade, event, candles)
       [] action \in Updates /\ IsOpen(trade) -> Updated(trade, event)
       [] OTHER -> IF event.toEntry THEN Updated(trade, event) ELSE trade

-----------------------------------------------------------------------------
(* Replays. *)

InTime(events) ==
  LET order == ByTime(events, DOMAIN events)
  IN [n \in DOMAIN order |-> events[order[n]]]

Forever == 1000

\* What is still open may be closed after the last candle, at the price of its
\* latest exit if it had one.
AtEnd(trade, candles) ==
  LET candle == candles[Len(candles)]
      price == IF trade.exit # 0 THEN trade.exit ELSE candle.last
  IN IF ~CloseAtEnd \/ ~IsOpen(trade) THEN trade
     ELSE SoldOut(trade, candle.closes, price,
                  IF trade.hits = 0 THEN "open_until_end"
                                    ELSE "partial_tp_open_until_end")

\* The state before the first segment: the trade, the number of events handled
\* and the time the candles were read to.
Fresh == [trade |-> Unopened, handled |-> 0, read |-> -1]

\* An event is applied after the candles before it.
InTurn(state, event, candles) ==
  [state EXCEPT
     !.trade = AfterEvent(Through(@, candles, state.read, event.time), event,
                          candles),
     !.read = Larger(@, event.time), !.handled = @ + 1]

\* All the events over all the candles in one call.
WholeReplay(events, candles) ==
  LET done == FoldLeft(LAMBDA state, event : InTurn(state, event, candles),
                       Fresh, InTime(events))
  IN AtEnd(Through(done.trade, candles, done.read, Forever), candles)

\* Mutant: no event waits for the segment of its candle.
DeferredNever(state, event, latest) == FALSE

\* An event after the opening of the last candle waits for the next segment,
\* unless the candles were read that far before this segment.
Deferred(state, event, latest) ==
  latest.opens > state.read /\ event.time > latest.opens

\* One segment: the events that need not wait, each after the candles before
\* it, then the rest of the candles.
AfterSegment(before, events, candles, isLast) ==
  LET latest == candles[Len(candles)]
      Step(s, event) ==
        IF s.waits \/ Deferred(before, event, latest) THEN [s EXCEPT !.waits = TRUE]
        ELSE InTurn(s, event, candles)
      begun == before @@ [waits |-> FALSE]
      done == FoldLeft(Step, begun, SubSeq(InTime(events), before.handled + 1,
                                           Len(events)))
      rest == Through(done.trade, candles, done.read, Forever)
  IN [trade |-> IF isLast THEN AtEnd(rest, candles) ELSE rest,
      handled |-> done.handled, read |-> latest.closes]

\* The candles cut into segments.
Segments(candles) ==
  LET count == (Len(candles) + SegmentSize - 1) \div SegmentSize
  IN [n \in 1..count |-> SubSeq(candles, (n - 1) * SegmentSize + 1,
                                Smaller(n * SegmentSize, Len(candles)))]
=============================================================================
