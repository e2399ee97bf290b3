--------------------------- MODULE SignalReport ---------------------------
(* What the backtest reports of a simulated signal: the state of the      *)
(* signal in the snapshot after a segment, and the row of the result that *)
(* is made of it.  Times of day, links, charts and notes are left out.    *)
EXTENDS TradeSimulator

MarkPrice(candles) == candles[Len(candles)].last

\* What the whole position would lose at the stop it has now.
RiskAtStop(trade) ==
  Larger(LossPerUnit(trade.side, trade.entry, trade.stop), 0) * trade.original

Margin(trade) == (trade.entry * trade.original) \div trade.leverage

Percent(part, whole) == IF whole > 0 THEN (part * 100) \div whole ELSE 0

\* The average price of all the exits of a closed position.
AverageExit(trade) ==
  LET closed == trade.original - trade.remaining
      gain == IF closed > 0 THEN trade.pnl \div closed ELSE 0
  IN IF closed <= 0 THEN trade.exit
     ELSE IF trade.side = "long" THEN trade.entry + gain ELSE trade.entry - gain

\* What is kept of the position behind a closed trade, and shown of an open one.
Kept(trade) ==
  [stop |-> trade.stop, targets |-> trade.targets, hits |-> trade.hits,
   risk |-> RiskAtStop(trade), margin |-> Margin(trade),
   leverage |-> trade.leverage]

\* The state of a signal: an open position is valued at the mark, a closed or
\* unfilled one has only its realised profit.
StateOf(trade, candles) ==
  LET open == IsOpen(trade)
      mark == MarkPrice(candles)
      unrealized == IF open THEN -trade.remaining *
                                  LossPerUnit(trade.side, trade.entry, mark)
                    ELSE 0
  IN Kept(trade) @@
     [status |-> trade.status, side |-> trade.side, entry |-> trade.entry,
      exit |-> IF open THEN 0 ELSE AverageExit(trade),
      ended |-> IF open THEN 0 ELSE trade.ended,
      original |-> trade.original,
      left |-> IF open THEN trade.remaining ELSE 0,
      realized |-> trade.pnl, unrealized |-> unrealized,
      percent |-> Percent(trade.pnl + unrealized, Balance),
      onMargin |-> Percent(trade.pnl + unrealized, Margin(trade))]

\* The snapshot after a segment; a signal not reached yet has no state.  The
\* balance counts the profit of a position only once it is closed, and what an
\* open one would bring.
Preview(trade, candles) ==
  LET states == IF trade.status = "none" THEN {} ELSE {StateOf(trade, candles)}
      realized == IF IsOpen(trade) THEN 0 ELSE trade.pnl
  IN [states |-> states, realizedBalance |-> Balance + realized,
      balance |-> Balance + realized +
                    (IF IsOpen(trade) THEN StateOf(trade, candles).unrealized
                     ELSE 0)]

\* A signal without a state is shown as not filled.
UnseenRow ==
  [status |-> "not_filled", entry |-> 0, exit |-> 0, stop |-> 0,
   targets |-> <<>>, left |-> 0, original |-> 0, realized |-> 0,
   unrealized |-> 0, percent |-> 0, margin |-> 0, hits |-> 0]

\* The row of the result; its final balance is that of the closed trades.
Row(trade, candles) ==
  LET preview == Preview(trade, candles)
      shown == IF preview.states = {} THEN UnseenRow
               ELSE CHOOSE state \in preview.states : TRUE
  IN shown @@
     [total |-> shown.realized + shown.unrealized,
      group |-> IF shown.status = "open" THEN "active" ELSE "inactive",
      finalBalance |-> preview.realizedBalance,
      checkpoint |-> preview.balance]
=============================================================================
