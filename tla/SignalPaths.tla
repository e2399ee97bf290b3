-------------------------- MODULE SignalPaths ---------------------------
(* The two paths of the same messages: live, with LiveSignals step by     *)
(* step, or replayed, as the records of the backtest and the trades its   *)
(* simulator makes of them segment by segment.  A behaviour takes one of  *)
(* the paths; what the backtest makes of the messages is known to both.   *)
EXTENDS LiveSignals, SignalReport

CONSTANTS
  Streams,   \* the channels: records of messages and faults
  Shapes,    \* what a candle may look like: first, low, high and last price
  Candles,   \* how many candles there are
  CandleTime \* from the opening of one candle to the next

VARIABLES
  records,   \* the events of each signal, as the backtest records them
  replay     \* the replay of one record, None on the live path

vars == <<liveVars, records, replay>>

ASSUME PathsAssumption ==
  Candles \in Nat \ {0} /\ CandleTime \in Nat \ {0}

\* A price a signal may enter at: the synthetic stop below it is above zero.
EntryPrices == {price \in Nat : price > Synthetic}

\* What the classifier reads from a message.
Readings ==
  [action : STRING, symbol : STRING, side : STRING, type : STRING,
   entry : {0} \union EntryPrices, stop : Nat, targets : Seq(Nat),
   leverage : Nat, sure : BOOLEAN]

Messages ==
  [id : Nat, date : Nat, reply : Nat, ai : Nat, text : Texts, visual : BOOLEAN,
   parsed : Readings]

ASSUME StreamsAssumption ==
  \A channel \in Streams :
    /\ channel.messages \in Seq(Messages)
    /\ \A m \in DOMAIN channel.messages : channel.messages[m].id = m

ASSUME PricesAssumption ==
  Mark \in EntryPrices /\ SlippedPrices \subseteq EntryPrices

\* The records that are simulated: those whose opening is valid.
Simulated == {id \in DOMAIN records :
                /\ OpenIndexes(records[id]) # {}
                /\ Consolidated(records[id], Delay).valid}

\* The candles of the given shapes, one after the other.
Market(shapes) ==
  [k \in DOMAIN shapes |->
     shapes[k] @@ [opens |-> StartTime + (k - 1) * CandleTime,
                   closes |-> StartTime + k * CandleTime - 1]]

Init ==
  /\ LiveInit
  /\ \E c \in Streams : stream = c.messages /\ faults = c.faults
  /\ records = Records(stream)
  /\ \/ replay = None
     \/ \E id \in Simulated, shapes \in [1..Candles -> Shapes] :
          replay = [events |-> Consolidated(records[id], Delay).events,
                    market |-> Market(shapes), segment |-> 0, state |-> Fresh]

\* The simulator is called for the next segment.
ReplaySegment ==
  /\ replay # None /\ replay.segment < Len(Segments(replay.market))
  /\ LET n == replay.segment + 1
         cut == Segments(replay.market)
     IN replay' = [replay EXCEPT
          !.segment = n,
          !.state = AfterSegment(@, replay.events, cut[n], n = Len(cut))]
  /\ UNCHANGED <<liveVars, records>>

Live == replay = None /\ UNCHANGED <<records, replay>>

Next ==
  \/ Live /\ Clock
  \/ Live /\ Start
  \/ Live /\ Poll
  \/ Live /\ Receive
  \/ Live /\ Classify
  \/ Live /\ CheckedAlive
  \/ Live /\ CheckedClosed
  \/ Live /\ CheckedUnclear
  \/ Live /\ Follow
  \/ Live /\ CloseNext
  \/ Live /\ Trace
  \/ Live /\ Drop
  \/ Live /\ Wake
  \/ Live /\ Choose
  \/ Live /\ Untradable
  \/ Live /\ Quoted
  \/ Live /\ Blocked
  \/ Live /\ NotSubmitted
  \/ Live /\ Submitted
  \/ Live /\ Register
  \/ Live /\ Save
  \/ Live /\ TickDies
  \/ Live /\ EntryFills
  \/ Live /\ TradeEnds
  \/ Live /\ Crash
  \/ ReplaySegment

\* Time and the tasks do not all stop for ever: the tasks run on one event loop
\* and every await of theirs ends (the exchange calls have timeouts).  Nothing
\* they do recurs for ever, so this is enough for each of them.
Spec ==
  /\ Init /\ [][Next]_vars
  /\ WF_vars(Live /\ (Clock \/ PollStep \/ TickStep))

-----------------------------------------------------------------------------
(* Properties. *)

\* Every part of the state is of its type, and the memory and the store only
\* know trades of known signals.
TypeOK ==
  /\ now \in StartTime..MaxTime /\ seen \in 0..Len(stream)
  /\ DOMAIN context.signals \subseteq Ids
  /\ context.pending \subseteq DOMAIN context.signals
  /\ \A id \in DOMAIN context.signals :
       context.signals[id].status \in
         {"pending", "open", "closed", "cancelled", "invalid"}
  /\ \A table \in {trades, disk.open} : \A id \in DOMAIN table :
       /\ id \in DOMAIN disk.signals
       /\ table[id].status \in {"waiting", "open", "bare"}
       /\ table[id].remaining \in Nat
  /\ disk.traced \subseteq Ids
  /\ torn \subseteq Ids
  /\ replay # None => replay.segment \in 0..Candles

Waits(id) == /\ id \in context.pending
             /\ context.signals[id].current # None

\* Nothing remembers that the signal waits, or what it said.
Forgotten(id) == \/ id \notin DOMAIN context.signals
                 \/ context.signals[id].current = None

Decided(id) == id \in DOMAIN context.signals
               /\ context.signals[id].status # "pending"

\* Signals that wait for their consolidation are decided sooner or later, until
\* none is left: each opens, or is refused with a terminal status, whatever is
\* merged into it or happens to other signals meanwhile, and after a crash too.
\* Only a restart that finds nothing to restore in its snapshot, and an
\* exception that ends the consolidation task, leave one undecided.
EverySignalDecided ==
  (\E id \in context.pending : Waits(id))
    ~> \/ \A id \in DOMAIN context.signals : Decided(id) \/ Forgotten(id)
       \/ tick.at = "dead"

\* A signal is entered once: neither the tasks, nor the messages read again
\* after a crash submit a second entry for it, unless the crash or a failing
\* store cut the storing of the signal in two.
OneEntryPerSignal ==
  \A i, j \in DOMAIN entries :
    i < j /\ entries[i].signal = entries[j].signal => entries[i].signal \in torn

\* The stop of an open trade never risks more than the budget: not after the
\* sizing, a moved stop, a partial close, an entry replaced at another price or
\* any sequence of them.  And no entry order asks for more than the
\* position manager sized, whatever the account, the tiers and the refused
\* leverages made of it and although a resized order is raised to what the
\* exchange asks for at least.
RiskBudgetHolds ==
  /\ \A id \in DOMAIN trades :
       LET trade == trades[id]
       IN trade.status = "open" =>
            LossPerUnit(trade.side, trade.entry, trade.stop) * trade.remaining
              <= RiskBudget
  /\ \A k \in DOMAIN entries : entries[k].asked <= entries[k].sized

\* What an entry is about; the price of a market entry is the market's.
Details(parsed) ==
  [symbol |-> parsed.symbol, side |-> parsed.side, type |-> parsed.type,
   stop |-> parsed.stop, targets |-> parsed.targets,
   leverage |-> parsed.leverage,
   entry |-> IF parsed.type = "market" THEN 0 ELSE parsed.entry]

\* The first message of the signal is an opening that could stand alone.
Complete(parsed) ==
  Normalize(parsed) = parsed /\ SoundGeometry(parsed) /\ Openable(parsed)

\* The entry the live engine submits is the opening the backtest simulates:
\* for a signal whose first message is complete, into which both merged the
\* same follow-ups, they agree on every detail.
ConsolidationAgrees ==
  \A k \in DOMAIN entries :
    LET entry == entries[k]
        id == entry.signal
    IN /\ Complete(stream[id].parsed)
       /\ id \in DOMAIN records /\ OpenIndexes(records[id]) # {}
       => LET c == Consolidated(records[id], Delay)
          IN c.sources = entry.merged =>
               c.valid /\ Details(entry.parsed) = Details(c.opening.parsed)

\* No event falls inside the last candle of a segment, or after the opening of
\* the last candle of all.
Aligned(events, segments) ==
  \A n \in DOMAIN segments, e \in DOMAIN events :
    LET last == segments[n][Len(segments[n])]
    IN /\ ~(last.opens < events[e].time /\ events[e].time < last.closes)
       /\ n = Len(segments) => events[e].time <= last.opens

\* The candle that executes the opening is one of the segment that handles it.
EntersAtOnce(events, segments, market) ==
  \A e \in DOMAIN events : events[e].parsed.action = "open" =>
    LET k == EntryCandle(events[e].parsed, events[e].time, market)
        Handles(n) == segments[n][Len(segments[n])].opens >= events[e].time
    IN \/ k = 0
       \/ \E n \in DOMAIN segments :
            /\ Handles(n) /\ \A m \in 1..(n - 1) : ~Handles(m)
            /\ \E c \in DOMAIN segments[n] : segments[n][c] = market[k]

\* Cutting the candles into segments does not change the result: the row made
\* after the last segment is the row of the replay in one piece, wherever the
\* events and the hits fall, except as Aligned and EntersAtOnce say.
SegmentsAgree ==
  (replay # None /\ replay.segment = Len(Segments(replay.market))) =>
    LET cut == Segments(replay.market)
    IN /\ Aligned(replay.events, cut)
       /\ EntersAtOnce(replay.events, cut, replay.market)
       => Row(replay.state.trade, cut[Len(cut)]) =
            Row(WholeReplay(replay.events, replay.market), replay.market)
=============================================================================
