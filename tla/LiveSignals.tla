-------------------------- MODULE LiveSignals ---------------------------
(* The way of a message through the live engine: polling, classification, *)
(* correlation and routing; the signals that wait for their consolidation *)
(* and the task that opens them; the follow-ups applied to a trade; and   *)
(* what a crash leaves and a restart restores.                            *)
(*                                                                         *)
(* Two tasks of one event loop interleave at their awaits: poll handles    *)
(* one message after the other, tick opens the signals that are due.  The *)
(* awaits of an exchange call end in any outcome the engine handles; what *)
(* happens to a trade between its orders is the subject of TradeLifecycle *)
(* and is reduced here to EntryFills and TradeEnds.                        *)
EXTENDS ChannelContext, EntrySizing, FiniteSetsExt

CONSTANTS
  Delay,          \* SIGNAL_CONSOLIDATION_SECONDS
  MaxTime,        \* bound: the clock stops there
  LastRead,       \* bound: no message is read later
  MaxOpen,        \* LIVE_TRADING_MAX_CONCURRENT_POSITIONS
  Mark,           \* the mark price
  CooldownBase, CooldownMax,  \* LIVE_TRADING_STOP_COOLDOWN_*_SECONDS
  StartTime,      \* when the session starts
  ReplayWindow,   \* LIVE_TRADING_STARTUP_REPLAY_SECONDS
  HistoryLimit,   \* LIVE_TRADING_STARTUP_HISTORY_LIMIT
  SlippedPrices,  \* the other prices an entry may fill at
  PercentsStop    \* the stop a "percents" text names, 0 for none

ASSUME LiveAssumption ==
  /\ {Delay, MaxTime, LastRead, Mark, StartTime, ReplayWindow} \subseteq Nat
  /\ LastRead + Delay <= MaxTime /\ StartTime <= MaxTime
  /\ {MaxOpen, HistoryLimit} \subseteq Nat \ {0}
  /\ CooldownBase \in Nat /\ CooldownMax \in Nat
  /\ SlippedPrices \subseteq Nat /\ PercentsStop \in Nat

VARIABLES
  stream,   \* the messages of the channel, in order; an id is a position
  faults,   \* the faults that may still happen
  now,      \* the clock
  context,  \* the channel's context, in memory
  trades,   \* the open trades by signal, in memory
  seen,     \* the highest message id handled, in memory
  poll,     \* the message task
  tick,     \* the consolidation task
  disk,     \* the store: traces, signal snapshots, open and closed trades
  entries,  \* every entry that reached the exchange, in order
  torn      \* the signals whose storing was cut in two

liveVars == <<stream, faults, now, context, trades, seen, poll, tick, disk,
              entries, torn>>

Idle == [at |-> "idle", queue |-> {}]
Asleep == [at |-> "asleep"]
Off == [at |-> "off"]
Ids == DOMAIN stream

LiveInit ==
  /\ now = StartTime /\ context = EmptyContext /\ trades = <<>> /\ seen = 0
  /\ poll = [at |-> "starting"] /\ tick = Off /\ entries = <<>>
  /\ torn = {}
  /\ disk = [traced |-> {}, signals |-> <<>>, open |-> <<>>, closed |-> <<>>]

\* No await lies between the steps of a task that is busy.
Busy == poll.at = "tracing" \/ tick.at \in {"registering", "saving"}

Published == {m \in Ids : stream[m].date <= now}

Clock ==
  /\ now < MaxTime /\ ~Busy
  /\ now >= LastRead => poll = Idle
  /\ now' = now + 1
  /\ UNCHANGED <<stream, faults, context, trades, seen, poll, tick, disk,
                 entries, torn>>

-----------------------------------------------------------------------------
(* The store. *)

\* A snapshot keeps the signal; its stop, targets and leverage are the
\* trade's once there is one.
Snapshot(signal, trade) ==
  IF trade = None \/ signal.current = None THEN signal
  ELSE [signal EXCEPT !.current.stop = trade.stop,
                      !.current.targets = trade.targets,
                      !.current.leverage = trade.leverage]

Without(function, key) == [k \in DOMAIN function \ {key} |-> function[k]]

WithStatus(id, status, time) ==
  IF id \notin DOMAIN context.signals THEN context
  ELSE [context EXCEPT !.signals[id].status = status,
                       !.signals[id].updated = time,
                       !.pending = @ \ {id}]

\* A trade ends: it leaves the open ones and its signal becomes terminal.
EndTrade(id, status, byStop) ==
  LET trade == trades[id]
      after == WithStatus(id, status, now)
  IN /\ trades' = Without(trades, id)
     /\ context' = after
     /\ disk' = [disk EXCEPT
          !.open = Without(@, id),
          !.signals = IF id \in DOMAIN after.signals
                      THEN Put(@, id, Snapshot(after.signals[id], trade)) ELSE @,
          !.closed = Append(@, [symbol |-> trade.symbol, side |-> trade.side,
                                time |-> now, byStop |-> byStop])]

\* A trade goes on as another value, and is saved with its signal.
KeepTrade(id, trade) ==
  /\ trades' = [trades EXCEPT ![id] = trade]
  /\ disk' = [disk EXCEPT
       !.open = Put(@, id, trade),
       !.signals = IF id \in DOMAIN context.signals
                   THEN Put(@, id, Snapshot(context.signals[id], trade)) ELSE @]
  /\ UNCHANGED context

-----------------------------------------------------------------------------
(* The message task. *)

\* The newest messages of the channel when a session without a cursor starts:
\* the old ones are only recorded, those of the replay window are handled.
Start ==
  /\ poll.at = "starting"
  /\ LET history == {m \in Published :
                       Cardinality({n \in Published : n > m}) < HistoryLimit}
         replayed == {m \in history : stream[m].date + ReplayWindow >= StartTime}
         first == seen = 0
     IN /\ seen' = IF first /\ history # {} THEN Max(history) ELSE seen
        /\ disk' = [disk EXCEPT
             !.traced = IF first THEN @ \union (history \ replayed) ELSE @]
        /\ poll' = [Idle EXCEPT
             !.queue = IF first THEN replayed ELSE {}]
        /\ tick' = IF first /\ replayed # {} THEN Off ELSE Asleep
  /\ UNCHANGED <<stream, faults, now, context, trades, entries, torn>>

\* One round of polling: what the channel published after the cursor.
Poll ==
  /\ poll = Idle /\ ~Busy /\ now <= LastRead
  /\ \E m \in Published : m > seen
  /\ poll' = [Idle EXCEPT !.queue = {m \in Published : m > seen}]
  /\ UNCHANGED <<stream, faults, now, context, trades, seen, tick, disk,
                 entries, torn>>

\* The next message of the round; preparing its media may take time.
Receive ==
  /\ poll.at = "idle" /\ poll.queue # {} /\ ~Busy
  /\ LET next == Min(poll.queue)
     IN poll' = [at |-> "reading", queue |-> poll.queue \ {next},
                 message |-> stream[next]]
  /\ UNCHANGED <<stream, faults, now, context, trades, seen, tick, disk,
                 entries, torn>>

\* What the message asks for: its words may turn an action nobody read into a
\* directive, unless the classifier called the message unrelated or the words
\* are targets in percent, which depend on the trade they are for.
Interpreted(message) ==
  LET parsed == message.parsed
      silent == parsed.action \in {"ignore", "unknown"}
      worded == IF message.text = "percents" THEN parsed.action
                ELSE TextAction(parsed.action, message.text)
      listed == ListedTargets(message.text)
  IN IF parsed.action = "unrelated" THEN parsed
     ELSE IF ClosesAll(message.text) THEN [parsed EXCEPT !.action = "close"]
     ELSE IF silent /\ worded # parsed.action
          THEN [parsed EXCEPT !.action = worded]
     ELSE IF silent /\ listed # <<>>
          THEN [parsed EXCEPT !.action = "tp", !.targets = listed]
     ELSE parsed

\* The signal the message is about; an opening is not about a signal that is
\* neither pending nor open any more.
RelatedSignal(known, message, parsed) ==
  LET found == Resolve(known, message, parsed, parsed.action, message.ai,
                       AnyEligible(known))
      stale == /\ parsed.action = "open" /\ found # 0
               /\ known.signals[found].status # "pending"
               /\ found \notin DOMAIN trades
  IN IF stale THEN 0 ELSE found

\* Where a message goes once it is known what it is about.
At(place, message, parsed, id) ==
  poll' = [at |-> place, queue |-> poll.queue, message |-> message,
           parsed |-> parsed, signal |-> id]

TracedAs(message) == At("tracing", message, None, 0)

\* The trades that are still to be closed, the message after them.
ClosingAll(message, rest) ==
  IF rest = {} THEN TracedAs(message)
  ELSE poll' = [at |-> "closing", queue |-> poll.queue, message |-> message,
                rest |-> rest]

RouteNew(known, message, parsed) ==
  LET signal == NewSignal(message, parsed, now)
  IN /\ context' = WithSignal(known, message.id, signal, TRUE)
     /\ disk' = [disk EXCEPT !.signals = Put(@, message.id, signal)]
     /\ TracedAs(message)

\* A message about a signal that has not opened: what it says is merged.
RouteMerged(known, message, parsed, id) ==
  LET after == WithMerged(WithAttached(known, id, message), id, parsed,
                          message.date)
  IN /\ context' = after
     /\ disk' = [disk EXCEPT !.signals = Put(@, id, after.signals[id])]
     /\ TracedAs(message)

\* A message about a signal that opened or ended: a directive to its trade.
RouteDirective(known, message, parsed, id) ==
  LET attached == WithAttached(known, id, message)
  IN /\ context' = IF parsed.action \in Updates
                   THEN WithMerged(attached, id, parsed, message.date)
                   ELSE attached
     /\ IF id \in DOMAIN trades THEN At("following", message, parsed, id)
                                ELSE TracedAs(message)
     /\ UNCHANGED disk

\* The price targets that percentages of profit on the margin mean for a trade;
\* one that is not above zero is none.
PercentTargets(trade) ==
  LET Move(k) == (trade.entry * Percents[k]) \div (100 * Larger(trade.leverage, 1))
  IN [k \in DOMAIN Percents |->
        IF trade.side = "long" THEN trade.entry + Move(k)
                               ELSE Larger(trade.entry - Move(k), 0)]

\* An update with a picture, about nothing that is known, that could stand
\* alone: it is taken for an opening.
Promotable(message, parsed) ==
  /\ message.visual /\ parsed.action \in Updates
  /\ parsed.symbol # "none" /\ parsed.side # "unknown"
  /\ parsed.stop # 0 \/ parsed.targets # <<>> \/ parsed.entry # 0
       \/ parsed.leverage # 0

\* What the message asks for once it is known what it is about.
Directed(message, parsed, id) ==
  IF Promotable(message, parsed) /\ id = 0 THEN [parsed EXCEPT !.action = "open"]
  ELSE IF /\ message.text = "percents" /\ parsed.action = "unknown"
          /\ id \in DOMAIN trades
  THEN [parsed EXCEPT !.action = "tp", !.targets = PercentTargets(trades[id]),
                      !.stop = PercentsStop]
  ELSE parsed

Routed(known, message, read, id) ==
  LET parsed == Directed(message, read, id)
      pending == known.signals[id].status = "pending" /\ id \notin DOMAIN trades
      waiting == IF known.signals[id].current # None
                 THEN known.signals[id].current.action ELSE "open"
      related == TextAction(RelatedAction(parsed), message.text)
      ignored == parsed.action \in {"ignore", "unknown", "unrelated"}
      closes == parsed.action = "close" /\ ClosesAll(message.text)
      opens == parsed.action = "open"
      directs == ~ignored /\ ~closes /\ ~opens
      updates == directs /\ parsed.action \in Updates /\ pending
  IN \/ /\ ignored \/ (directs /\ id = 0)
        /\ context' = known /\ TracedAs(message) /\ UNCHANGED disk
     \/ /\ closes /\ context' = known /\ UNCHANGED disk
        /\ ClosingAll(message, DOMAIN trades)
     \/ opens /\ id = 0 /\ RouteNew(known, message, parsed)
     \/ /\ opens /\ id # 0 /\ id \in DOMAIN trades
        /\ RouteDirective(known, message, [parsed EXCEPT !.action = related], id)
     \/ /\ opens /\ id # 0 /\ id \notin DOMAIN trades
        /\ RouteMerged(known, message, parsed, id)
     \/ /\ id # 0 /\ updates
        /\ RouteMerged(known, message, [parsed EXCEPT !.action = waiting], id)
     \/ /\ id # 0 /\ directs /\ ~updates
        /\ RouteDirective(known, message, parsed, id)

\* The message is classified and correlated; a trade it is about is looked up
\* on the exchange first.
Classify ==
  /\ poll.at = "reading" /\ ~Busy
  /\ LET message == poll.message
         known == WithMessage(context, message)
         parsed == Interpreted(message)
         id == RelatedSignal(known, message, parsed)
     IN IF id \in DOMAIN trades
        THEN /\ At("checking", message, parsed, id)
             /\ context' = known /\ UNCHANGED disk
        ELSE Routed(known, message, parsed, id)
  /\ UNCHANGED <<stream, faults, now, trades, seen, tick, entries, torn>>

\* The trade is there: the message is routed.
CheckedAlive ==
  /\ poll.at = "checking" /\ ~Busy
  /\ Routed(context, poll.message, poll.parsed, poll.signal)
  /\ UNCHANGED <<stream, faults, now, trades, seen, tick, entries, torn>>

\* The trade turned out to be closed: the message stands for itself.
CheckedClosed ==
  /\ poll.at = "checking" /\ ~Busy /\ poll.signal \notin DOMAIN trades
  /\ Routed(context, poll.message, poll.parsed, 0)
  /\ UNCHANGED <<stream, faults, now, trades, seen, tick, entries, torn>>

\* The exchange and the engine disagree, when the trade is looked up or looked
\* up again before the directive is applied: the message is not applied.
CheckedUnclear ==
  /\ poll.at \in {"checking", "following"} /\ ~Busy /\ "unclear" \in faults
  /\ faults' = faults \ {"unclear"} /\ TracedAs(poll.message)
  /\ UNCHANGED <<stream, now, context, trades, seen, tick, disk, entries, torn>>

-----------------------------------------------------------------------------
(* Follow-ups applied to a trade. *)

Open(trade) == trade.status \in {"open", "bare"}

\* An entry order that fills is a position of what the order asked for, with
\* the protection computed again for its price; when that fails, the trade is
\* open and bare: its protection is not that of any price it got.
FilledAt(trade, price) ==
  LET filled == [trade EXCEPT !.status = "open", !.entry = price,
                              !.remaining = trade.quantity]
      rebased == Rebased(filled)
  IN IF rebased.sound THEN rebased.trade
     ELSE [rebased.trade EXCEPT !.status = "bare"]

\* An entry fills at the price it asks for, or at another one.
Filled(trade) ==
  {FilledAt(trade, price) :
     price \in {trade.entry} \union
                (IF "slips" \in faults THEN SlippedPrices ELSE {})}

\* The entry order of a trade fills at once or rests.
OnExchange(trade, rests) ==
  LET sent == [trade EXCEPT !.ordered = TRUE]
  IN Filled(sent) \union (IF rests THEN {sent} ELSE {})

\* A waiting entry is replaced by an order at another price: its quantity is
\* what the same margin buys there, its protection is computed again.
Replaced(trade, parsed) ==
  LET leverage == IF parsed.leverage = 0 THEN trade.leverage
                  ELSE Smaller(Larger(parsed.leverage, 1), MaxLeverage)
      quantity == (trade.margin * leverage) \div parsed.entry
      moved == [trade EXCEPT
        !.entry = parsed.entry, !.leverage = leverage,
        !.askedStop = IF parsed.stop # 0 THEN parsed.stop ELSE @,
        !.askedTargets = IF parsed.targets # <<>> THEN parsed.targets ELSE @,
        !.quantity = IF trade.margin > 0 THEN quantity ELSE @,
        !.remaining = IF trade.margin > 0 THEN quantity ELSE @,
        !.ordered = FALSE]
      rebased == Rebased(moved)
  IN {rebased.trade} \union
       (IF rebased.sound
        THEN UNION {OnExchange(sized, TRUE) :
               sized \in {t \in ForExchange(rebased.trade, FALSE) :
                            Executable(t)}}
        ELSE {})

\* A change of the protection of an open trade holds, which a stop within the
\* budget may, is undone because the exchange refused it, or ends in a
\* flattened position.
Protected(before, after) ==
  IF Open(after)
  THEN {before, None} \union
         (IF StopAllowed(after, after.stop)
          THEN {[after EXCEPT !.status = "open"]} ELSE {})
  ELSE {after}

\* The trades a follow-up may leave, None for one that ended.
FollowedClose(trade, percent) ==
  LET left == trade.remaining - (trade.remaining * percent) \div 100
  IN {trade, IF Open(trade) /\ left > 0 THEN [trade EXCEPT !.remaining = left]
             ELSE None}

FollowedStop(trade, parsed, toEntry) ==
  LET asked == [WithStop(trade, parsed.stop, toEntry) EXCEPT
                  !.askedStop = IF ~Open(trade) /\ parsed.stop # 0
                                THEN parsed.stop ELSE @]
  IN IF \/ toEntry /\ ~Open(trade) /\ parsed.stop = 0
        \/ ~toEntry /\ parsed.stop # 0 /\ ~StopAllowed(trade, parsed.stop)
     THEN {trade}
     ELSE Protected(trade, asked)

FollowedTargets(trade, parsed, text) ==
  LET given == IF parsed.targets # <<>> THEN parsed.targets
               ELSE ListedTargets(text)
      stopped == [WithStop(trade, parsed.stop, FALSE) EXCEPT
                    !.askedStop = IF ~Open(trade) /\ parsed.stop # 0
                                  THEN parsed.stop ELSE @]
      taken == Sanitized(given, trade.side, trade.entry, stopped.stop) # <<>>
      asked == [WithTargets(stopped, given) EXCEPT
                  !.askedTargets = IF ~Open(trade) /\ taken THEN given ELSE @]
  IN IF IF parsed.stop = 0 THEN ~taken ELSE ~StopAllowed(trade, parsed.stop)
     THEN {trade}
     ELSE Protected(trade, asked)

\* The leverage changes for the record; the exchange is told, and may refuse.
FollowedLeverage(trade, parsed) == {WithLeverage(trade, parsed.leverage)}

FollowedEntry(trade, parsed) ==
  LET updated == WithTargets(WithStop(trade, parsed.stop, FALSE),
                             parsed.targets)
      after == WithLeverage(updated, parsed.leverage)
  IN IF parsed.stop = 0 /\ parsed.targets = <<>> THEN {after}
     ELSE Protected([trade EXCEPT !.leverage = after.leverage], after)

Followed(trade, parsed, text) ==
  LET action == TextAction(parsed.action, text)
      fraction == CloseFraction(text)
  IN IF ~Open(trade) /\ action = "entry"
     THEN IF parsed.entry = 0 THEN {trade}
          ELSE Replaced(trade, parsed) \union
                 (IF trade.ordered THEN {trade} \union Filled(trade) ELSE {})
     ELSE IF action = "close"
     THEN FollowedClose(trade, IF fraction = 0 THEN 100 ELSE fraction)
     ELSE IF action = "cancel" THEN FollowedClose(trade, 100)
     ELSE IF action = "sl" \/ MovesStop(text)
     THEN FollowedStop(trade, parsed, MovesStop(text))
     ELSE IF action = "tp" THEN FollowedTargets(trade, parsed, text)
     ELSE IF action = "leverage" THEN FollowedLeverage(trade, parsed)
     ELSE FollowedEntry(trade, parsed)

EndedAs(trade, parsed) ==
  IF Open(trade) /\ parsed.action # "cancel" THEN "closed" ELSE "cancelled"

\* The directive is applied to the trade as it is now, if it is still there.
Follow ==
  /\ poll.at = "following" /\ ~Busy
  /\ LET id == poll.signal
     IN IF id \notin DOMAIN trades THEN UNCHANGED <<context, trades, disk>>
        ELSE \E after \in Followed(trades[id], poll.parsed, poll.message.text) :
               IF after = None
               THEN EndTrade(id, EndedAs(trades[id], poll.parsed), FALSE)
               ELSE KeepTrade(id, after)
  /\ TracedAs(poll.message)
  /\ UNCHANGED <<stream, faults, now, seen, tick, entries, torn>>

\* One trade after the other is closed; a close that fails is skipped.
CloseNext ==
  /\ poll.at = "closing" /\ ~Busy
  /\ \E id \in poll.rest :
       /\ \/ id \notin DOMAIN trades /\ UNCHANGED <<context, trades, disk, faults>>
          \/ /\ id \in DOMAIN trades /\ UNCHANGED faults
             /\ EndTrade(id, EndedAs(trades[id], poll.message.parsed), FALSE)
          \/ /\ "refuse" \in faults /\ faults' = faults \ {"refuse"}
             /\ UNCHANGED <<context, trades, disk>>
       /\ ClosingAll(poll.message, poll.rest \ {id})
  /\ UNCHANGED <<stream, now, seen, tick, entries, torn>>

\* The other tasks start once the messages of the start are handled.
StartOthers == tick' = IF tick = Off /\ poll.queue = {} THEN Asleep ELSE tick

\* Mutant: the cursor moves past the message.
TraceAhead ==
  /\ poll.at = "tracing"
  /\ disk' = [disk EXCEPT !.traced = @ \union {poll.message.id}]
  /\ seen' = Larger(seen, poll.message.id + 1)
  /\ poll' = [Idle EXCEPT !.queue = poll.queue] /\ StartOthers
  /\ UNCHANGED <<stream, faults, now, context, trades, entries, torn>>

\* The trace of the message is stored and the cursor moves on.
Trace ==
  /\ poll.at = "tracing"
  /\ disk' = [disk EXCEPT !.traced = @ \union {poll.message.id}]
  /\ seen' = Larger(seen, poll.message.id)
  /\ poll' = [Idle EXCEPT !.queue = poll.queue] /\ StartOthers
  /\ UNCHANGED <<stream, faults, now, context, trades, entries, torn>>

\* Handling a message raised: the message is dropped and the cursor moves on.
Drop ==
  /\ poll.at \in {"reading", "checking", "following"} /\ ~Busy
  /\ "drop" \in faults /\ faults' = faults \ {"drop"}
  /\ seen' = Larger(seen, poll.message.id)
  /\ poll' = [Idle EXCEPT !.queue = poll.queue] /\ StartOthers
  /\ UNCHANGED <<stream, now, context, trades, disk, entries, torn>>

PollStep ==
  \/ Start \/ Poll \/ Receive \/ Classify \/ CheckedAlive \/ CheckedClosed
  \/ CheckedUnclear \/ Follow \/ CloseNext \/ Trace \/ Drop

-----------------------------------------------------------------------------
(* The consolidation task. *)

Due == {id \in context.pending : now - context.signals[id].created >= Delay}

\* The task wakes and goes through the signals that are due by then.
Wake ==
  /\ tick = Asleep /\ ~Busy /\ Due # {}
  /\ tick' = [at |-> "choosing", todo |-> Due]
  /\ UNCHANGED <<stream, faults, now, context, trades, seen, poll, disk,
                 entries, torn>>

Choosing(todo) == IF todo = {} THEN Asleep ELSE [at |-> "choosing", todo |-> todo]

\* The signal is decided without an entry.
Refuse(id, status, current, todo) ==
  LET after == [WithStatus(id, status, context.signals[id].updated)
                  EXCEPT !.signals[id].current = current]
  IN /\ context' = after
     /\ disk' = [disk EXCEPT !.signals = Put(@, id, after.signals[id])]
     /\ tick' = Choosing(todo)

\* The stops in a row that ended the latest trades of a symbol and side keep
\* new entries away for a while, doubled by each.
CoolingDown(parsed) ==
  LET same == SelectSeq(disk.closed, LAMBDA c :
                 c.symbol = parsed.symbol /\ c.side = parsed.side)
      row == {k \in DOMAIN same : \A j \in k..Len(same) : same[j].byStop}
      pause == Smaller(CooldownBase * 2 ^ (Cardinality(row) - 1),
                       Larger(CooldownMax, CooldownBase))
  IN /\ CooldownBase > 0 /\ parsed.side # "unknown" /\ row # {}
     /\ now - same[Len(same)].time < pause

\* A signal that is due leaves the pending ones; what it says now is what opens.
Choose ==
  /\ tick.at = "choosing" /\ ~Busy
  /\ \E id \in tick.todo :
     LET rest == tick.todo \ {id}
         current == context.signals[id].current
         parsed == Normalize(current)
     IN CASE current = None ->
               /\ context' = [context EXCEPT !.pending = @ \ {id}]
               /\ tick' = Choosing(rest) /\ UNCHANGED disk
          [] current # None /\ parsed.symbol = "none" ->
               Refuse(id, "invalid", current, rest)
          [] current # None /\ parsed.symbol # "none" /\ CoolingDown(parsed) ->
               Refuse(id, "cancelled", current, rest)
          [] OTHER ->
               /\ context' = [context EXCEPT !.pending = @ \ {id}]
               /\ tick' = [at |-> "quoting", todo |-> rest, signal |-> id,
                           parsed |-> parsed,
                           merged |-> context.signals[id].messages \ {id}]
               /\ UNCHANGED disk
  /\ UNCHANGED <<stream, faults, now, trades, seen, poll, entries, torn>>

\* The symbol cannot be traded.
Untradable ==
  /\ tick.at = "quoting" /\ ~Busy /\ "untradable" \in faults
  /\ faults' = faults \ {"untradable"}
  /\ Refuse(tick.signal, "invalid", context.signals[tick.signal].current,
            tick.todo)
  /\ UNCHANGED <<stream, now, trades, seen, poll, entries, torn>>

\* A market entry takes the mark price, when there is one.
Priced(parsed, mark) ==
  IF mark # 0 /\ (parsed.type = "market" \/ parsed.entry = 0)
  THEN [parsed EXCEPT !.entry = mark] ELSE parsed

\* The signal is validated and sized, and its entry is about to be submitted.
Quoted ==
  /\ tick.at = "quoting" /\ ~Busy
  /\ \E mark \in {Mark} \union (IF "unpriced" \in faults THEN {0} ELSE {}) :
       LET parsed == Priced(tick.parsed, mark)
           trade == Sized(parsed)
       IN /\ faults' = IF mark = 0 THEN faults \ {"unpriced"} ELSE faults
          /\ IF \/ ~SoundGeometry(tick.parsed) \/ ~Openable(parsed)
             THEN Refuse(tick.signal, "invalid", parsed, tick.todo)
             ELSE IF \/ Cardinality(DOMAIN trades) >= MaxOpen
                     \/ trade.remaining = 0
             THEN Refuse(tick.signal, "invalid",
                         context.signals[tick.signal].current, tick.todo)
             ELSE /\ tick' = [at |-> "submitting", todo |-> tick.todo,
                              signal |-> tick.signal, merged |-> tick.merged,
                              parsed |-> parsed, trade |-> trade]
                  /\ UNCHANGED <<context, disk>>
  /\ UNCHANGED <<stream, now, trades, seen, poll, entries, torn>>

\* New entries are blocked: the kill switch, or the health of the session.
Blocked ==
  /\ tick.at = "quoting" /\ ~Busy /\ "blocked" \in faults
  /\ faults' = faults \ {"blocked"}
  /\ Refuse(tick.signal, "invalid", context.signals[tick.signal].current,
            tick.todo)
  /\ UNCHANGED <<stream, now, trades, seen, poll, entries, torn>>

\* The account may leave a part of the size, and the exchange may refuse the
\* leverage; the margin stays what the position manager computed.
Coordinated(trade) ==
  {trade} \union
    (IF "reduced" \in faults
     THEN {[trade EXCEPT !.quantity = q, !.remaining = q] :
             q \in 1..(trade.quantity - 1)}
     ELSE {})

\* The trades the entry order may be sent for, each once.
Offered(trade) ==
  UNION {ForExchange(approved, "leverage" \in faults) :
           approved \in Coordinated(trade)}

\* The signal is decided without a position; its trade is saved as a closed one,
\* which counts as the latest of its symbol and side from then on.
SaveUnopened(status, trade) ==
  LET id == tick.signal
      after == WithStatus(id, status, context.signals[id].updated)
  IN /\ context' = after
     /\ disk' = [disk EXCEPT
          !.signals = Put(@, id, Snapshot(after.signals[id], trade)),
          !.closed = Append(@, [symbol |-> trade.symbol, side |-> trade.side,
                                time |-> now, byStop |-> FALSE])]
     /\ tick' = Choosing(tick.todo)

\* The entry failed, or the account did not need one.
NotSubmitted ==
  /\ tick.at = "submitting" /\ ~Busy
  /\ \/ "rejected" \in faults /\ faults' = faults \ {"rejected"}
        /\ SaveUnopened("invalid", tick.trade)
     \/ "netted" \in faults /\ faults' = faults \ {"netted"}
        /\ SaveUnopened("closed", tick.trade)
     \/ \E trade \in {t \in Offered(tick.trade) : ~Executable(t)} :
          SaveUnopened("invalid", trade) /\ UNCHANGED faults
  /\ UNCHANGED <<stream, now, trades, seen, poll, entries, torn>>

\* The entry is on the exchange, filled or resting; a position without
\* protection is taken for an entry that failed.
Submitted ==
  /\ tick.at = "submitting" /\ ~Busy
  /\ \E offered \in {t \in Offered(tick.trade) : Executable(t)} :
       /\ \E sent \in OnExchange(offered, tick.parsed.type = "limit") :
            IF sent.status = "bare" THEN SaveUnopened("invalid", sent)
            ELSE /\ tick' = [tick EXCEPT !.at = "registering", !.trade = sent]
                 /\ UNCHANGED <<context, disk>>
       /\ entries' = Append(entries,
            [signal |-> tick.signal, merged |-> tick.merged,
             parsed |-> tick.parsed, sized |-> tick.trade.quantity,
             asked |-> offered.quantity])
  /\ UNCHANGED <<stream, faults, now, trades, seen, poll, torn>>

\* Mutant: the snapshot is left as it was while the signal waited.
RegisterUnsaved ==
  /\ tick.at = "registering"
  /\ trades' = Put(trades, tick.signal, tick.trade)
  /\ context' = WithStatus(tick.signal, "open",
                           context.signals[tick.signal].updated)
  /\ tick' = [tick EXCEPT !.at = "saving"]
  /\ UNCHANGED <<stream, faults, now, seen, poll, disk, entries, torn>>

\* The trade is known to the engine, the signal is open and its snapshot saved.
Register ==
  /\ tick.at = "registering"
  /\ LET id == tick.signal
         after == WithStatus(id, "open", context.signals[id].updated)
     IN /\ trades' = Put(trades, id, tick.trade)
        /\ context' = after
        /\ disk' = [disk EXCEPT
             !.signals = Put(@, id, Snapshot(after.signals[id], tick.trade))]
  /\ tick' = [tick EXCEPT !.at = "saving"]
  /\ UNCHANGED <<stream, faults, now, seen, poll, entries, torn>>

Save ==
  /\ tick.at = "saving"
  /\ disk' = [disk EXCEPT !.open = Put(@, tick.signal, tick.trade)]
  /\ tick' = Choosing(tick.todo)
  /\ UNCHANGED <<stream, faults, now, context, trades, seen, poll, entries, torn>>

\* Nothing in the loop catches an exception: the task ends with it.  One that
\* the store raises after the entry leaves a trade that is known in memory and
\* not stored, first its signal or only the trade itself.
TickDies ==
  /\ tick.at \in {"choosing", "quoting", "registering", "saving"}
  /\ poll.at # "tracing"
  /\ "die" \in faults /\ faults' = faults \ {"die"}
  /\ tick' = [at |-> "dead"]
  /\ IF tick.at = "registering"
     THEN /\ trades' = Put(trades, tick.signal, tick.trade)
          /\ context' = WithStatus(tick.signal, "open",
                                   context.signals[tick.signal].updated)
          /\ torn' = torn \union {tick.signal}
     ELSE UNCHANGED <<trades, context, torn>>
  /\ UNCHANGED <<stream, now, seen, poll, disk, entries>>

TickStep ==
  \/ Wake \/ Choose \/ Untradable \/ Quoted \/ Blocked \/ NotSubmitted
  \/ Submitted \/ Register \/ Save \/ TickDies

-----------------------------------------------------------------------------
(* The other tasks, reduced to what they do to a trade. *)

\* A resting entry fills.
EntryFills ==
  /\ ~Busy /\ tick # Off /\ \E id \in DOMAIN trades :
       /\ ~Open(trades[id]) /\ trades[id].ordered
       /\ \E filled \in Filled(trades[id]) : KeepTrade(id, filled)
  /\ UNCHANGED <<stream, faults, now, seen, poll, tick, entries, torn>>

\* The stop or the last target of a position fills.
TradeEnds ==
  /\ ~Busy /\ tick # Off /\ \E id \in DOMAIN trades, byStop \in BOOLEAN :
       Open(trades[id]) /\ EndTrade(id, "closed", byStop)
  /\ UNCHANGED <<stream, faults, now, seen, poll, tick, entries, torn>>

-----------------------------------------------------------------------------
(* A crash and the restart that follows it. *)

\* The signal a snapshot is restored as: an opening that is trusted, or none
\* when the snapshot has neither a symbol nor prices.
Restored(id) ==
  LET kept == disk.signals[id]
      empty == kept.current = None \/ (/\ kept.current.symbol = "none"
                 /\ kept.current.stop = 0 /\ kept.current.targets = <<>>)
      orphan == kept.status = "open" /\ id \notin DOMAIN disk.open
  IN [kept EXCEPT
        !.status = IF orphan THEN "closed" ELSE @,
        !.current = IF empty THEN None
                    ELSE [kept.current EXCEPT !.action = "open", !.sure = TRUE],
        !.created = kept.updated]

\* The context of the stored messages and signals: the latest messages are the
\* recent ones, a message belongs to the latest signal that owns it.
RestoredWith(pending) ==
  LET read == SetToSortSeq(disk.traced, <)
      Owners(m) == {id \in DOMAIN disk.signals : m \in disk.signals[id].messages}
  IN [recent |-> SubSeq(read, Larger(Len(read) - Recent + 1, 1), Len(read)),
      known |-> [m \in disk.traced |-> stream[m]],
      signals |-> [id \in DOMAIN disk.signals |-> Restored(id)],
      owner |-> [m \in {m \in Ids : Owners(m) # {}} |-> Max(Owners(m))],
      pending |-> pending]

\* Mutant: the signals that waited are restored, but wait no more.
RestoredIdle == RestoredWith({})

RestoredContext ==
  RestoredWith({id \in DOMAIN disk.signals : Restored(id).status = "pending"})

Crash ==
  /\ "crash" \in faults /\ poll.at # "starting"
  /\ faults' = faults \ {"crash"}
  /\ context' = RestoredContext /\ trades' = disk.open
  /\ seen' = IF disk.traced = {} THEN 0 ELSE Max(disk.traced)
  /\ poll' = [at |-> "starting"] /\ tick' = Off
  /\ disk' = [disk EXCEPT !.signals = [id \in DOMAIN @ |->
                [@[id] EXCEPT !.status = Restored(id).status]]]
  /\ torn' = torn \union (DOMAIN disk.signals \ disk.traced)
                   \union (IF tick.at = "registering" THEN {tick.signal} ELSE {})
  /\ UNCHANGED <<stream, now, entries>>

LiveStep ==
  Clock \/ PollStep \/ TickStep \/ EntryFills \/ TradeEnds \/ Crash
=============================================================================
