------------------------- MODULE SignalPathsProofs -------------------------
(***************************************************************************)
(* The live path of SignalPaths: every part of its state is of its type,   *)
(* no trade risks more than the budget and no signal is entered twice.     *)
(***************************************************************************)
EXTENDS SignalPaths, SequenceTheorems, FiniteSetTheorems, WellFoundedInduction, TLAPS

-----------------------------------------------------------------------------
(* The inductive invariant.                                                *)

\* The numbers of a reading are of their types.
IsReading(parsed) ==
  /\ {"entry", "stop", "leverage"} \subseteq DOMAIN parsed
  /\ parsed.entry \in {0} \union EntryPrices
  /\ parsed.stop \in Nat /\ parsed.leverage \in Nat

Statuses == {"pending", "open", "closed", "cancelled", "invalid"}

IsSignal(signal) ==
  /\ {"status", "messages", "current", "created", "updated"} \subseteq DOMAIN signal
  /\ signal.status \in Statuses
  /\ signal.current # None => IsReading(signal.current)
  /\ signal.updated \in Nat

AreSignals(signals) ==
  DOMAIN signals \subseteq Ids /\ \A id \in DOMAIN signals : IsSignal(signals[id])

\* The loss of the trade at its stop.
LossAtStop(trade) ==
  LossPerUnit(trade.side, trade.entry, trade.stop) * trade.remaining

TradeFields ==
  {"status", "symbol", "side", "entry", "leverage", "stop", "targets", "hits",
   "ordered", "margin", "quantity", "remaining", "askedStop", "askedTargets"}

\* The numbers of a trade are of their types.
HasNumbers(trade) ==
  /\ DOMAIN trade = TradeFields
  /\ trade.entry \in EntryPrices
  /\ trade.leverage \in Nat \ {0} /\ trade.stop \in Nat \ {0}
  /\ trade.margin \in Nat /\ trade.quantity \in Nat /\ trade.remaining \in Nat
  /\ trade.askedStop \in Nat /\ trade.hits \in Nat

\* An open trade whose protection was computed risks no more than the budget.
IsTrade(trade) ==
  /\ HasNumbers(trade)
  /\ trade.status \in {"waiting", "open", "bare"}
  /\ trade.status = "open" => LossAtStop(trade) <= RiskBudget

AreTrades(table) == \A id \in DOMAIN table : IsTrade(table[id])

StreamInv ==
  /\ stream \in Seq(Messages) /\ \A m \in Ids : stream[m].id = m
  /\ now \in StartTime..MaxTime /\ seen \in 0..Len(stream)

ContextFields == {"recent", "known", "signals", "owner", "pending"}
DiskFields == {"traced", "signals", "open", "closed"}

\* The memory knows the signals the store has, and their trades.
KnownInv ==
  /\ DOMAIN context = ContextFields /\ DOMAIN disk = DiskFields
  /\ AreSignals(context.signals) /\ AreSignals(disk.signals)
  /\ DOMAIN disk.signals = DOMAIN context.signals
  /\ context.pending \subseteq DOMAIN context.signals
  /\ disk.traced \subseteq Ids /\ torn \subseteq Ids

TradesInv ==
  /\ AreTrades(trades) /\ AreTrades(disk.open)
  /\ DOMAIN trades \subseteq DOMAIN context.signals
  /\ DOMAIN disk.open \subseteq DOMAIN trades

\* The message that is handled is one of the channel.
Handled == /\ poll.message.id \in Ids /\ poll.message = stream[poll.message.id]
           /\ poll.queue \subseteq Ids

PollInv ==
  \/ poll = [at |-> "starting"]
  \/ /\ poll.at = "idle" /\ poll = [Idle EXCEPT !.queue = poll.queue]
     /\ poll.queue \subseteq Ids
  \/ poll.at \in {"reading", "tracing", "closing"} /\ Handled
  \/ /\ poll.at \in {"checking", "following"} /\ Handled
     /\ IsReading(poll.parsed) /\ poll.signal \in DOMAIN context.signals

\* The signal that is opened is one of the context, and so are those to come.
Chosen == /\ tick.signal \in DOMAIN context.signals
          /\ tick.todo \subseteq DOMAIN context.signals

TickInv ==
  \/ tick \in {Off, Asleep, [at |-> "dead"]}
  \/ tick.at = "choosing" /\ tick.todo \subseteq DOMAIN context.signals
  \/ /\ tick.at = "quoting" /\ Chosen /\ IsReading(tick.parsed)
     /\ DOMAIN tick = {"at", "todo", "signal", "parsed", "merged"}
  \/ /\ tick.at = "submitting" /\ Chosen /\ IsReading(tick.parsed)
     /\ DOMAIN tick = {"at", "todo", "signal", "parsed", "merged", "trade"}
     /\ tick.trade = Sized(tick.parsed) /\ tick.trade.remaining # 0
  \/ /\ tick.at \in {"registering", "saving"} /\ Chosen /\ IsTrade(tick.trade)
     /\ DOMAIN tick = {"at", "todo", "signal", "parsed", "merged", "trade"}
     /\ tick.at = "saving" => tick.signal \in DOMAIN trades

EntriesInv ==
  /\ entries \in Seq({entries[k] : k \in DOMAIN entries})
  /\ \A k \in DOMAIN entries : entries[k].asked <= entries[k].sized

ReplayInv ==
  replay # None => /\ {"segment", "market"} \subseteq DOMAIN replay
                   /\ replay.segment \in 0..Candles
                   /\ Len(replay.market) = Candles

\* Whether a signal waits, in memory and in the store.
Pending(id) == context.signals[id].status = "pending"
PendingThere(id) == disk.signals[id].status = "pending"

Whole(ids) == ids \ torn

\* The signals the task is to open, the one it is opening among them.
Opening ==
  IF tick.at \in {"choosing", "saving"} THEN tick.todo
  ELSE IF tick.at \in {"quoting", "submitting", "registering"}
       THEN tick.todo \union {tick.signal} ELSE {}

\* A signal that waits to be opened, or is being opened, is pending; one that
\* has a trade is not.
PhaseInv ==
  /\ \A id \in context.pending : Pending(id)
  /\ \A id \in Whole(Opening) : Pending(id)
  /\ tick.at \in {"quoting", "submitting", "registering"} =>
       tick.signal \notin tick.todo
  /\ tick.at = "saving" /\ tick.signal \notin torn => ~PendingThere(tick.signal)
  /\ \A id \in Whole(DOMAIN trades) : ~Pending(id)
  /\ \A id \in Whole(DOMAIN disk.open) : ~PendingThere(id)

\* A message that is still to be handled has no signal.
MessageInv ==
  /\ poll.at # "starting" =>
       \A id \in Whole(DOMAIN context.signals) : id \notin poll.queue
  /\ poll.at \in {"reading", "checking"} =>
       poll.message.id \notin Whole(DOMAIN context.signals)
  /\ \A id \in Whole(DOMAIN context.signals) :
       \/ id <= seen /\ id \in disk.traced
       \/ poll.at = "tracing" /\ poll.message.id = id
  /\ poll.at \in {"reading", "checking", "following", "closing", "tracing"} =>
       poll.message.id \notin poll.queue

\* The other tasks start after the messages of the start.
StartInv == poll.at = "starting" => tick = Off

\* A signal that was entered is decided, in memory and in the store.
EnteredInv ==
  \A k \in DOMAIN entries :
    LET id == entries[k].signal
    IN \/ id \in torn
       \/ /\ id \in DOMAIN context.signals
          /\ ~Pending(id) /\ ~PendingThere(id)
       \/ tick.at = "registering" /\ tick.signal = id

PathsInv ==
  /\ StreamInv /\ KnownInv /\ TradesInv /\ PollInv /\ TickInv /\ EntriesInv
  /\ ReplayInv /\ PhaseInv /\ MessageInv /\ StartInv /\ EnteredInv
  /\ OneEntryPerSignal

-----------------------------------------------------------------------------
(* Arithmetic.                                                             *)

\* Every set of naturals that is not empty has a smallest element.
LEMMA Smallest ==
  ASSUME NEW S \in SUBSET Nat, S # {}
  PROVE  \E n \in S : \A m \in S : n <= m
<1>1. PICK n \in S : \A m \in S : <<m, n>> \notin OpToRel(<, Nat)
  BY NatLessThanWellFounded, WFMin
<1>2. ASSUME NEW m \in S PROVE n <= m
  <2>1. ~(m < n)
    BY <1>1 DEF OpToRel
  <2>2. QED BY <2>1
<1>3. QED BY <1>2

\* Every set of naturals up to a bound that is not empty has a largest element.
LEMMA Largest ==
  ASSUME NEW M \in Nat, NEW S \in SUBSET (0..M), S # {}
  PROVE  \E n \in S : \A m \in S : m <= n
<1> DEFINE T == {k \in Nat : M - k \in S}
<1>1. PICK x \in S : TRUE
  OBVIOUS
<1>2. M - x \in T
  BY <1>1
<1>3. PICK k \in T : \A j \in T : k <= j
  BY <1>2, Smallest
<1>4. ASSUME NEW m \in S PROVE m <= M - k
  <2>1. M - m \in T
    OBVIOUS
  <2>2. k <= M - m
    BY <1>3, <2>1
  <2>3. QED BY <2>2
<1>5. QED BY <1>3, <1>4

\* A set that has 0 and with every number the next has all up to the bound.
LEMMA UpTo ==
  ASSUME NEW M \in Nat, NEW G, 0 \in G,
         \A n \in 0..M : n \in G /\ n < M => n + 1 \in G
  PROVE  \A n \in 0..M : n \in G
<1> DEFINE bad == {n \in 0..M : n \notin G}
<1>1. SUFFICES ASSUME bad # {} PROVE FALSE
  OBVIOUS
<1>2. PICK n \in bad : \A m \in bad : n <= m
  <2>1. bad \in SUBSET Nat
    OBVIOUS
  <2> HIDE DEF bad
  <2>2. QED BY <1>1, <2>1, Smallest
<1>3. n # 0
  OBVIOUS
<1>4. n - 1 \in 0..M /\ n - 1 < M /\ n - 1 \notin bad
  BY <1>2, <1>3
<1>5. QED BY <1>4

\* Products grow with their factors.
LEMMA Products ==
  ASSUME NEW a \in Nat, NEW b \in Int, NEW c \in Int, b <= c
  PROVE  a * b <= a * c /\ b * a <= c * a
<1>1. PICK d \in Nat : c = b + d
  <2>1. c - b \in Nat /\ c = b + (c - b)
    OBVIOUS
  <2>2. QED BY <2>1
<1>2. a * d \in Nat /\ a * c = a * b + a * d /\ c * a = b * a + a * d
  BY <1>1
<1>3. QED BY <1>2

\* What a quotient is at most and at least.
LEMMA Quotient ==
  ASSUME NEW a \in Nat, NEW d \in Nat \ {0}
  PROVE  /\ a \div d \in Nat /\ d * (a \div d) <= a
         /\ \A b \in Nat : a <= d * b => a \div d <= b
<1>1. a \div d \in Nat /\ d * (a \div d) <= a
  BY Z3
<1>2. ASSUME NEW b \in Nat, a <= d * b, ~(a \div d <= b) PROVE FALSE
  <2>1. b + 1 <= a \div d
    BY <1>1, <1>2
  <2>2. d * (b + 1) <= d * (a \div d)
    BY <1>1, <2>1, Products
  <2>3. d * (b + 1) = d * b + d
    OBVIOUS
  <2>4. d * b \in Int /\ d * (a \div d) \in Int
    BY <1>1
  <2>5. QED BY <1>1, <1>2, <2>2, <2>3, <2>4
<1>3. QED BY <1>1, <1>2

\* The numbers of the sizing.
LEMMA SizingNumbers ==
  /\ Balance \in Nat /\ Factor \in Nat /\ MinAllocation \in Nat
  /\ MaxAllocation \in Nat /\ MaxLoss \in Nat /\ RiskBudget \in Nat
  /\ DefaultLeverage \in Nat \ {0} /\ MaxLeverage \in Nat \ {0}
  /\ Synthetic \in Nat \ {0} /\ MinQuantity \in Nat \ {0}
<1>1. Balance * MaxLoss \in Nat
  BY SizingAssumption
<1>2. RiskBudget \in Nat
  BY <1>1, Quotient DEF RiskBudget
<1>3. QED BY <1>2, SizingAssumption, EntryAssumption

-----------------------------------------------------------------------------
(* The protection and the size of a trade.                                 *)

\* A clamped stop is a price, and what it loses fits the budget.
LEMMA ClampedFits ==
  ASSUME NEW side, NEW entry \in Nat \ {0}, NEW stop \in Nat \ {0},
         NEW quantity \in Nat
  PROVE  LET safe == Clamped(side, entry, stop, quantity)
         IN /\ safe \in Nat \ {0}
            /\ LossPerUnit(side, entry, safe) * quantity <= RiskBudget
<1> DEFINE safe == Clamped(side, entry, stop, quantity)
           most == RiskBudget \div quantity
           loss == LossPerUnit(side, entry, safe)
<1>1. CASE quantity = 0
  <2>1. safe = stop
    BY <1>1 DEF Clamped
  <2>2. loss \in Int
    BY <2>1 DEF LossPerUnit
  <2>3. loss * quantity = 0
    BY <1>1, <2>2
  <2>4. QED BY <2>1, <2>3, SizingNumbers
<1>2. CASE quantity # 0
  <2>1. most \in Nat /\ quantity * most <= RiskBudget
    BY <1>2, SizingNumbers, Quotient
  <2>2. safe = IF side = "long" THEN Larger(stop, entry - most)
               ELSE Smaller(stop, entry + most)
    BY <1>2 DEF Clamped
  <2> HIDE DEF most
  <2>3. safe \in Nat \ {0} /\ loss \in Int /\ loss <= most
    BY <2>1, <2>2 DEF Larger, Smaller, LossPerUnit
  <2> HIDE DEF safe, loss
  <2>4. quantity * loss <= quantity * most
    BY <2>1, <2>3, Products
  <2>5. loss * quantity = quantity * loss
    BY <2>3
  <2>6. quantity * loss \in Int /\ quantity * most \in Int /\ RiskBudget \in Int
    BY <2>1, <2>3, SizingNumbers
  <2>7. loss * quantity <= RiskBudget
    BY <2>1, <2>4, <2>5, <2>6
  <2>8. QED BY <2>3, <2>7 DEF safe, loss
<1>3. QED BY <1>1, <1>2

\* A stop that is allowed fits the budget.
LEMMA AllowedFits ==
  ASSUME NEW trade, HasNumbers(trade), StopAllowed(trade, trade.stop)
  PROVE  LossAtStop(trade) <= RiskBudget
<1>1. trade.entry \in Nat \ {0}
  BY SizingNumbers DEF HasNumbers, EntryPrices
<1>2. QED BY <1>1, ClampedFits DEF HasNumbers, LossAtStop, StopAllowed

\* A smaller part of a position loses no more than the budget.
LEMMA PartFits ==
  ASSUME NEW loss \in Int, NEW whole \in Nat, NEW part \in Nat, part <= whole,
         loss * whole <= RiskBudget
  PROVE  loss * part <= RiskBudget
<1>1. CASE loss \in Nat
  BY <1>1, Products, SizingNumbers
<1>2. CASE loss <= 0
  <2>1. part * loss <= part * 0
    BY <1>2, Products
  <2>2. QED BY <2>1, SizingNumbers
<1>3. QED BY <1>1, <1>2

\* A protection that was computed again fits the budget; when that failed, the
\* trade is still one of numbers.
LEMMA RebasedFits ==
  ASSUME NEW trade, HasNumbers(trade),
         NEW rebased, rebased = Rebased(trade).trade
  PROVE  /\ HasNumbers(rebased) /\ rebased.status = trade.status
         /\ rebased.quantity = trade.quantity
         /\ Rebased(trade).sound => LossAtStop(rebased) <= RiskBudget
<1> DEFINE asked == IF trade.askedStop # 0 THEN trade.askedStop ELSE trade.stop
           sound == asked > 0 /\ LossPerUnit(trade.side, trade.entry, asked) > 0
           stop == IF sound THEN asked ELSE SyntheticStop(trade.side, trade.entry)
           safe == Clamped(trade.side, trade.entry, stop, trade.remaining)
<1>1. trade.entry \in Nat \ {0} /\ trade.entry > Synthetic
  BY SizingNumbers DEF HasNumbers, EntryPrices
<1>2. stop \in Nat \ {0}
  BY <1>1, SizingNumbers DEF HasNumbers, SyntheticStop
<1>3. \/ rebased = trade /\ ~Rebased(trade).sound
      \/ rebased = [trade EXCEPT !.stop = safe] /\ ~Rebased(trade).sound
      \/ \E targets : rebased = [trade EXCEPT !.stop = safe, !.targets = targets,
                                              !.hits = 0]
  BY DEF Rebased
<1> HIDE DEF stop
<1>4. /\ safe \in Nat \ {0}
      /\ LossPerUnit(trade.side, trade.entry, safe) * trade.remaining <= RiskBudget
  BY <1>1, <1>2, ClampedFits DEF HasNumbers
<1> HIDE DEF safe
<1>5. CASE rebased = trade /\ ~Rebased(trade).sound
  BY <1>5
<1>6. CASE rebased = [trade EXCEPT !.stop = safe] /\ ~Rebased(trade).sound
  BY <1>4, <1>6 DEF HasNumbers, TradeFields
<1>7. ASSUME NEW targets, rebased = [trade EXCEPT !.stop = safe,
                                       !.targets = targets, !.hits = 0]
      PROVE  /\ HasNumbers(rebased) /\ rebased.status = trade.status
             /\ rebased.quantity = trade.quantity
             /\ LossAtStop(rebased) <= RiskBudget
  <2>1. /\ rebased.side = trade.side /\ rebased.entry = trade.entry
        /\ rebased.stop = safe /\ rebased.remaining = trade.remaining
        /\ rebased.status = trade.status /\ rebased.quantity = trade.quantity
    BY <1>7 DEF HasNumbers, TradeFields
  <2>2. HasNumbers(rebased)
    BY <1>4, <1>7 DEF HasNumbers, TradeFields
  <2>3. LossAtStop(rebased) <= RiskBudget
    BY <1>4, <2>1 DEF LossAtStop
  <2>4. QED BY <2>1, <2>2, <2>3
<1>8. QED BY <1>3, <1>5, <1>6, <1>7

\* An entry that fills leaves a trade.
LEMMA FilledIsTrade ==
  ASSUME NEW trade, HasNumbers(trade), NEW price \in EntryPrices
  PROVE  /\ IsTrade(FilledAt(trade, price))
         /\ FilledAt(trade, price).status \in {"open", "bare"}
<1> DEFINE filled == [trade EXCEPT !.status = "open", !.entry = price,
                                   !.remaining = trade.quantity]
           rebased == Rebased(filled).trade
<1>1. HasNumbers(filled) /\ filled.status = "open"
  BY DEF HasNumbers, TradeFields
<1>2. FilledAt(trade, price) = IF Rebased(filled).sound THEN rebased
                               ELSE [rebased EXCEPT !.status = "bare"]
  BY DEF FilledAt
<1> HIDE DEF filled
<1>3. /\ HasNumbers(rebased) /\ rebased.status = "open"
      /\ Rebased(filled).sound => LossAtStop(rebased) <= RiskBudget
  BY <1>1, RebasedFits
<1> HIDE DEF rebased
<1>4. CASE Rebased(filled).sound
  BY <1>2, <1>3, <1>4 DEF IsTrade
<1>5. CASE ~Rebased(filled).sound
  BY <1>2, <1>3, <1>5 DEF HasNumbers, TradeFields, IsTrade
<1>6. QED BY <1>4, <1>5

\* Wherever the entry of a trade fills, it leaves a trade.
LEMMA FilledAreTrades ==
  ASSUME NEW trade, HasNumbers(trade), NEW filled \in Filled(trade)
  PROVE  IsTrade(filled) /\ filled.status \in {"open", "bare"}
<1>1. PICK price \in EntryPrices : filled = FilledAt(trade, price)
  BY PricesAssumption DEF Filled, HasNumbers
<1>2. QED BY <1>1, FilledIsTrade

\* The order that is sent fills as a trade, or rests as one.
LEMMA SentAreTrades ==
  ASSUME NEW trade, HasNumbers(trade), trade.status = "waiting",
         NEW rests \in BOOLEAN, NEW sent \in OnExchange(trade, rests)
  PROVE  IsTrade(sent)
<1> DEFINE ordered == [trade EXCEPT !.ordered = TRUE]
<1>1. HasNumbers(ordered) /\ ordered.status = "waiting"
  BY DEF HasNumbers, TradeFields
<1>2. sent \in Filled(ordered) \/ sent = ordered
  BY DEF OnExchange
<1>3. CASE sent \in Filled(ordered)
  BY <1>1, <1>3, FilledAreTrades
<1>4. CASE sent = ordered
  BY <1>1, <1>4 DEF IsTrade
<1>5. QED BY <1>2, <1>3, <1>4

-----------------------------------------------------------------------------
(* The size of an entry.                                                   *)

\* The leverages of the tiers.
LEMMA TierLeverages ==
  /\ Len(Tiers) \in Nat /\ DOMAIN Tiers = 1..Len(Tiers)
  /\ Tiers # <<>> => Len(Tiers) # 0
  /\ \A k \in DOMAIN Tiers : Tiers[k].leverage \in Nat \ {0}
<1> DEFINE Tier == [upTo : Nat, leverage : Nat \ {0}]
<1>1. Tiers \in Seq(Tier)
  BY EntryAssumption
<1>2. \A tier \in Tier : tier.leverage \in Nat \ {0}
  OBVIOUS
<1> HIDE DEF Tier
<1>3. Len(Tiers) \in Nat /\ (Tiers # <<>> => Len(Tiers) # 0)
  BY <1>1, EmptySeq, LenProperties
<1>4. Tiers \in [1..Len(Tiers) -> Tier]
  BY <1>1, LenProperties
<1>5. QED BY <1>2, <1>3, <1>4

\* The leverage a tier allows is one of the tiers' or the trade's.
LEMMA MaxAllowedType ==
  ASSUME NEW trade, trade.leverage \in Nat \ {0}
  PROVE  MaxAllowed(trade) \in Nat \ {0}
<1> DEFINE fits == {k \in DOMAIN Tiers : trade.quantity <= Tiers[k].upTo}
           k == IF fits = {} THEN Len(Tiers) ELSE Min(fits)
<1>1. CASE Tiers = <<>>
  BY <1>1 DEF MaxAllowed
<1>2. CASE Tiers # <<>>
  <2>1. fits # {} => Min(fits) \in fits
    <3>1. fits \in SUBSET Nat
      BY TierLeverages
    <3> HIDE DEF fits
    <3>2. QED BY <3>1, Smallest DEF Min
  <2>2. MaxAllowed(trade) = Tiers[k].leverage
    BY <1>2 DEF MaxAllowed
  <2>3. k \in DOMAIN Tiers
    BY <1>2, <2>1, TierLeverages
  <2>4. QED BY <2>2, <2>3, TierLeverages
<1>3. QED BY <1>1, <1>2

\* At another leverage a trade still has numbers.
LEMMA ResizedNumbers ==
  ASSUME NEW trade, HasNumbers(trade), trade.status = "waiting",
         NEW leverage \in Nat \ {0}
  PROVE  HasNumbers(Resized(trade, leverage)) /\ Resized(trade, leverage).status = "waiting"
<1> DEFINE bought == Larger((trade.margin * leverage) \div trade.entry, MinQuantity)
           margin == (trade.entry * bought) \div leverage
           left == Smaller(trade.remaining, bought)
<1>1. CASE trade.margin <= 0
  <2>1. Resized(trade, leverage) = [trade EXCEPT !.leverage = leverage]
    BY <1>1 DEF Resized
  <2>2. QED BY <2>1 DEF HasNumbers, TradeFields
<1>2. CASE ~(trade.margin <= 0)
  <2>1. /\ trade.entry \in Nat \ {0} /\ trade.margin * leverage \in Nat
        /\ trade.remaining \in Nat
    BY SizingNumbers DEF HasNumbers, EntryPrices
  <2>2. bought \in Nat
    BY <2>1, Quotient, SizingNumbers DEF Larger
  <2>3. Resized(trade, leverage)
          = [trade EXCEPT !.leverage = leverage, !.quantity = bought,
                          !.remaining = left, !.margin = margin]
    BY <1>2 DEF Resized
  <2> HIDE DEF bought
  <2>4. trade.entry * bought \in Nat
    BY <2>1, <2>2
  <2>5. margin \in Nat /\ left \in Nat
    BY <2>1, <2>2, <2>4, Quotient DEF Smaller
  <2> HIDE DEF margin, left
  <2>6. QED BY <2>2, <2>3, <2>5 DEF HasNumbers, TradeFields
<1>3. QED BY <1>1, <1>2

\* A waiting trade whose order asks for at most the size, as far as its margin
\* goes too.
FitsSize(trade, size) ==
  /\ HasNumbers(trade) /\ trade.status = "waiting"
  /\ trade.remaining <= size
  /\ trade.quantity <= Larger(size, MinQuantity)
  /\ trade.margin * trade.leverage <= trade.entry * Larger(size, MinQuantity)

\* A lower leverage asks for no more than the size, unless for the least.
LEMMA ResizedFits ==
  ASSUME NEW trade, NEW size \in Nat, FitsSize(trade, size),
         NEW leverage \in Nat \ {0}, leverage <= trade.leverage
  PROVE  FitsSize(Resized(trade, leverage), size)
<1> DEFINE least == Larger(size, MinQuantity)
           fits == (trade.margin * leverage) \div trade.entry
           bought == Larger(fits, MinQuantity)
           margin == (trade.entry * bought) \div leverage
           left == Smaller(trade.remaining, bought)
<1>1. least \in Nat /\ MinQuantity <= least /\ size <= least
  BY SizingNumbers DEF Larger
<1>2. /\ trade.entry \in Nat \ {0} /\ trade.margin \in Nat
      /\ trade.leverage \in Nat \ {0} /\ trade.remaining \in Nat
  BY SizingNumbers DEF FitsSize, HasNumbers, EntryPrices
<1>3. /\ trade.margin * leverage \in Nat /\ trade.entry * least \in Nat
      /\ trade.margin * leverage <= trade.entry * least
  <2>1. trade.margin * leverage <= trade.margin * trade.leverage
    BY <1>2, Products
  <2>2. /\ trade.margin * leverage \in Nat /\ trade.margin * trade.leverage \in Int
        /\ trade.entry * least \in Nat
    BY <1>1, <1>2
  <2>3. trade.margin * trade.leverage <= trade.entry * least
    BY DEF FitsSize
  <2>4. QED BY <2>1, <2>2, <2>3
<1>4. CASE trade.margin <= 0
  <2>1. Resized(trade, leverage) = [trade EXCEPT !.leverage = leverage]
    BY <1>4 DEF Resized
  <2>2. QED BY <1>3, <2>1 DEF FitsSize, HasNumbers, TradeFields
<1>5. CASE ~(trade.margin <= 0)
  <2>1. fits \in Nat /\ fits <= least
    BY <1>1, <1>2, <1>3, Quotient
  <2>2. bought \in Nat /\ bought <= least
    BY <1>1, <2>1, SizingNumbers DEF Larger
  <2> HIDE DEF fits, bought, least
  <2>3. trade.entry * bought \in Nat /\ trade.entry * bought <= trade.entry * least
    BY <1>1, <1>2, <2>2, Products
  <2>4. margin \in Nat /\ leverage * margin <= trade.entry * bought
    BY <2>3, Quotient
  <2>5. left \in Nat /\ left <= trade.remaining
    BY <1>2, <2>2 DEF Smaller
  <2>6. Resized(trade, leverage)
          = [trade EXCEPT !.leverage = leverage, !.quantity = bought,
                          !.remaining = left, !.margin = margin]
    BY <1>5 DEF Resized, fits, bought
  <2> HIDE DEF margin, left
  <2>7. margin * leverage <= trade.entry * least
    <3>1. margin * leverage = leverage * margin /\ leverage * margin \in Int
      BY <2>4
    <3>2. QED BY <1>3, <2>3, <2>4, <3>1
  <2>8. left <= size
    BY <1>2, <2>5 DEF FitsSize
  <2>9. QED BY <2>2, <2>4, <2>5, <2>6, <2>7, <2>8
           DEF FitsSize, HasNumbers, TradeFields, least
<1>6. QED BY <1>4, <1>5

\* A signal that is sized fits the size it got.
LEMMA SizedFits ==
  ASSUME NEW parsed, IsReading(parsed), Sized(parsed).remaining # 0
  PROVE  FitsSize(Sized(parsed), Sized(parsed).quantity)
<1> DEFINE leverage == Effective(parsed.leverage)
           side == parsed.side
           entry == parsed.entry
           wanted == Wanted(leverage, entry)
           safe == SafeQuantity(side, entry, parsed.stop)
           quantity == IF parsed.stop = 0 THEN wanted ELSE Smaller(wanted, safe)
           stop == IF parsed.stop # 0 THEN parsed.stop
                   ELSE Clamped(side, entry, SyntheticStop(side, entry), quantity)
           margin == (entry * quantity) \div leverage
           targets == TargetsOrDefault(parsed.targets, side, entry, stop)
           sized == Sized(parsed)
<1>1. sized =
        [status |-> "waiting", symbol |-> parsed.symbol, side |-> side,
         entry |-> entry, leverage |-> leverage, stop |-> stop,
         targets |-> targets, hits |-> 0, ordered |-> FALSE,
         margin |-> margin,
         quantity |-> IF targets = <<>> THEN 0 ELSE quantity,
         remaining |-> IF targets = <<>> THEN 0 ELSE quantity,
         askedStop |-> parsed.stop, askedTargets |-> parsed.targets]
  BY DEF Sized
<1> HIDE DEF sized, targets
<1>2. sized.quantity = quantity /\ sized.remaining = quantity /\ quantity # 0
  BY <1>1 DEF sized
<1>3. leverage \in Nat \ {0}
  BY SizingNumbers DEF Effective, Smaller, Larger, IsReading
<1> HIDE DEF leverage
<1>4. entry \in {0} \union EntryPrices /\ entry \in Nat /\ parsed.stop \in Nat
  BY DEF IsReading, EntryPrices
<1>5. wanted \in Nat /\ (entry = 0 => wanted = 0)
  <2>1. Allocation(leverage) \in Nat
    <3>1. Larger(leverage, 1) \in Nat \ {0}
      BY <1>3 DEF Larger
    <3>2. Factor \div Larger(leverage, 1) \in Nat
      BY <3>1, SizingNumbers, Quotient
    <3>3. QED BY <3>2, SizingNumbers DEF Allocation, Smaller, Larger
  <2>2. Balance * Allocation(leverage) * leverage \in Nat
    BY <1>3, <2>1, SizingNumbers
  <2>3. CASE entry = 0
    BY <2>3 DEF Wanted
  <2>4. CASE entry # 0
    <3>1. 100 * entry \in Nat \ {0}
      BY <1>4, <2>4
    <3>2. wanted = (Balance * Allocation(leverage) * leverage) \div (100 * entry)
      BY <1>4, <2>4 DEF Wanted
    <3>3. QED BY <2>2, <2>4, <3>1, <3>2, Quotient
  <2>5. QED BY <2>3, <2>4
<1>6. safe \in Nat /\ (entry = 0 => safe = 0)
  <2>1. LossPerUnit(side, entry, parsed.stop) \in Int
    BY <1>4 DEF LossPerUnit
  <2>2. CASE entry <= 0 \/ parsed.stop <= 0 \/ LossPerUnit(side, entry, parsed.stop) <= 0
    BY <2>2 DEF SafeQuantity
  <2>3. CASE ~(entry <= 0 \/ parsed.stop <= 0 \/ LossPerUnit(side, entry, parsed.stop) <= 0)
    <3>1. safe = RiskBudget \div LossPerUnit(side, entry, parsed.stop)
      BY <2>3 DEF SafeQuantity
    <3>2. LossPerUnit(side, entry, parsed.stop) \in Nat \ {0} /\ entry # 0
      BY <2>1, <2>3
    <3>3. QED BY <3>1, <3>2, Quotient, SizingNumbers
  <2>4. QED BY <2>2, <2>3
<1> HIDE DEF wanted, safe
<1>7. quantity \in Nat \ {0} /\ entry \in EntryPrices /\ entry # 0
  BY <1>2, <1>4, <1>5, <1>6 DEF Smaller
<1> HIDE DEF quantity
<1>8. stop \in Nat \ {0}
  <2>1. entry \in Nat \ {0} /\ entry > Synthetic
    BY <1>7, SizingNumbers DEF EntryPrices
  <2>2. SyntheticStop(side, entry) \in Nat \ {0}
    BY <2>1, SizingNumbers DEF SyntheticStop
  <2>3. QED BY <1>4, <1>7, <2>1, <2>2, ClampedFits
<1>9. margin \in Nat /\ leverage * margin <= entry * quantity
  <2>1. entry * quantity \in Nat
    BY <1>4, <1>7
  <2>2. QED BY <1>3, <2>1, Quotient
<1> HIDE DEF stop, margin
<1>10. HasNumbers(sized)
  BY <1>1, <1>2, <1>3, <1>4, <1>7, <1>8, <1>9 DEF HasNumbers, TradeFields
<1> DEFINE least == Larger(quantity, MinQuantity)
<1>11. least \in Nat /\ quantity <= least
  BY <1>7, SizingNumbers DEF Larger
<1> HIDE DEF least
<1>12. margin * leverage <= entry * least
  <2>1. entry * quantity <= entry * least
    BY <1>4, <1>7, <1>11, Products
  <2>2. margin * leverage = leverage * margin /\ leverage * margin \in Int
        /\ entry * quantity \in Int /\ entry * least \in Int
    BY <1>3, <1>4, <1>7, <1>9, <1>11
  <2>3. QED BY <1>9, <2>1, <2>2
<1>13. QED BY <1>1, <1>2, <1>7, <1>10, <1>11, <1>12 DEF FitsSize, sized, least

\* What goes to the exchange has the numbers of a waiting trade.
LEMMA ForExchangeNumbers ==
  ASSUME NEW trade, HasNumbers(trade), trade.status = "waiting",
         NEW sent \in ForExchange(trade, FALSE)
  PROVE  HasNumbers(sent) /\ sent.status = "waiting"
<1> DEFINE leverage == MaxAllowed(trade)
           tiered == WithinTier(trade)
           margin == (tiered.entry * tiered.quantity) \div tiered.leverage
<1>1. leverage \in Nat \ {0}
  BY MaxAllowedType DEF HasNumbers
<1>2. sent = [tiered EXCEPT !.margin = margin]
  BY DEF ForExchange, Negotiated
<1>3. tiered \in {trade, Resized(trade, leverage)}
  BY DEF WithinTier
<1> HIDE DEF leverage
<1>4. HasNumbers(tiered) /\ tiered.status = "waiting"
  BY <1>1, <1>3, ResizedNumbers
<1> HIDE DEF tiered
<1>5. margin \in Nat
  <2>1. /\ tiered.entry \in Nat /\ tiered.quantity \in Nat
        /\ tiered.leverage \in Nat \ {0}
    BY <1>4 DEF HasNumbers, EntryPrices
  <2>2. tiered.entry * tiered.quantity \in Nat
    BY <2>1
  <2>3. QED BY <2>1, <2>2, Quotient
<1> HIDE DEF margin
<1>6. QED BY <1>2, <1>4, <1>5 DEF HasNumbers, TradeFields

\* A trade is sent with a size that fits, and with no more than was sized.
LEMMA OfferedFits ==
  ASSUME NEW trade, FitsSize(trade, trade.quantity), NEW offered \in Offered(trade)
  PROVE  /\ HasNumbers(offered) /\ offered.status = "waiting"
         /\ Executable(offered) => offered.quantity <= trade.quantity
<1> DEFINE size == trade.quantity
<1>1. size \in Nat
  BY DEF FitsSize, HasNumbers
<1>2. PICK approved \in Coordinated(trade) :
        offered \in ForExchange(approved, "leverage" \in faults)
  BY DEF Offered
<1>3. FitsSize(approved, size)
  <2>1. CASE approved = trade
    BY <2>1
  <2>2. ASSUME NEW q \in 1..(trade.quantity - 1),
               approved = [trade EXCEPT !.quantity = q, !.remaining = q]
        PROVE  FitsSize(approved, size)
    <3>1. q \in Nat /\ q <= size
      BY <1>1
    <3>2. size <= Larger(size, MinQuantity) /\ Larger(size, MinQuantity) \in Nat
      BY <1>1, SizingNumbers DEF Larger
    <3>3. FitsSize(trade, size)
      OBVIOUS
    <3> HIDE DEF size
    <3> DEFINE least == Larger(size, MinQuantity)
    <3>4. q <= least
      BY <1>1, <3>1, <3>2
    <3> HIDE DEF least
    <3>5. /\ HasNumbers(approved) /\ approved.status = "waiting"
          /\ approved.remaining = q /\ approved.quantity = q
          /\ approved.margin = trade.margin /\ approved.entry = trade.entry
          /\ approved.leverage = trade.leverage
      BY <2>2, <3>1, <3>3 DEF FitsSize, HasNumbers, TradeFields
    <3>6. trade.margin * trade.leverage <= trade.entry * least
      BY <3>3 DEF FitsSize, least
    <3>7. QED BY <3>1, <3>4, <3>5, <3>6 DEF FitsSize, least
  <2>3. QED BY <2>1, <2>2 DEF Coordinated
<1>4. PICK sized \in Negotiated(WithinTier(approved), "leverage" \in faults) :
        offered = [sized EXCEPT !.margin =
                     (sized.entry * sized.quantity) \div sized.leverage]
  BY <1>2 DEF ForExchange
<1> HIDE DEF size
<1>5. FitsSize(WithinTier(approved), size)
  <2>1. approved.leverage \in Nat \ {0}
    BY <1>3 DEF FitsSize, HasNumbers
  <2>2. MaxAllowed(approved) \in Nat \ {0}
    BY <2>1, MaxAllowedType
  <2>3. QED BY <1>1, <1>3, <2>1, <2>2, ResizedFits DEF WithinTier
<1>6. FitsSize(sized, size)
  <2> DEFINE tiered == WithinTier(approved)
  <2>1. ASSUME NEW l \in Candidates(tiered.leverage)
        PROVE  FitsSize(Resized(tiered, l), size)
    <3>1. \A k \in DOMAIN Tiers : Tiers[k].leverage \in Nat \ {0}
      BY TierLeverages
    <3>2. l \in Nat \ {0} /\ l < tiered.leverage
      BY <3>1, EntryAssumption DEF Candidates
    <3>3. l <= tiered.leverage
      BY <1>5, <3>2 DEF FitsSize, HasNumbers
    <3>4. QED BY <1>1, <1>5, <3>2, <3>3, ResizedFits
  <2> HIDE DEF tiered
  <2>2. QED BY <1>4, <1>5, <2>1 DEF Negotiated, tiered
<1> DEFINE margin == (sized.entry * sized.quantity) \div sized.leverage
<1>7. margin \in Nat
  <2>1. /\ sized.entry \in Nat /\ sized.quantity \in Nat
        /\ sized.leverage \in Nat \ {0}
    BY <1>6 DEF FitsSize, HasNumbers, EntryPrices
  <2>2. sized.entry * sized.quantity \in Nat
    BY <2>1
  <2>3. QED BY <2>1, <2>2, Quotient
<1> HIDE DEF margin
<1>8. offered = [sized EXCEPT !.margin = margin]
  BY <1>4 DEF margin
<1>9. /\ HasNumbers(offered) /\ offered.status = "waiting"
      /\ offered.remaining = sized.remaining /\ offered.quantity = sized.quantity
  BY <1>6, <1>7, <1>8 DEF FitsSize, HasNumbers, TradeFields
<1>10. ASSUME Executable(offered) PROVE offered.quantity <= size
  <2>1. PICK k \in Int : /\ k > offered.hits
                         /\ (k - offered.hits) * MinQuantity <= offered.remaining
    BY <1>10 DEF Executable, TargetsSupported, SupportedTargets
  <2> DEFINE d == k - offered.hits
  <2>2. d \in Nat /\ 1 <= d /\ d * MinQuantity <= offered.remaining
    BY <1>9, <2>1 DEF HasNumbers
  <2> HIDE DEF d
  <2>3. 1 * MinQuantity <= d * MinQuantity
    BY <2>2, SizingNumbers, Products
  <2>4. MinQuantity <= size
    <3>1. sized.remaining \in Nat /\ sized.remaining <= size
      BY <1>6 DEF FitsSize, HasNumbers
    <3>2. d * MinQuantity \in Int
      BY <2>2, SizingNumbers
    <3>3. QED BY <1>1, <1>9, <2>2, <2>3, <3>1, <3>2, SizingNumbers
  <2>5. QED BY <1>1, <1>6, <1>9, <2>4, SizingNumbers DEF FitsSize, Larger
<1>11. QED BY <1>9, <1>10 DEF size

-----------------------------------------------------------------------------
(* Follow-ups.                                                             *)

\* The trade with another protection or leverage.
SameSize(trade, other) ==
  /\ HasNumbers(other) /\ other.status = trade.status /\ other.side = trade.side
  /\ other.entry = trade.entry /\ other.remaining = trade.remaining

\* A changed stop, changed targets and a changed leverage leave the numbers.
LEMMA UpdatedNumbers ==
  ASSUME NEW trade, HasNumbers(trade), NEW number \in Nat, NEW toEntry, NEW targets
  PROVE  /\ SameSize(trade, WithStop(trade, number, toEntry))
         /\ SameSize(trade, WithTargets(trade, targets))
         /\ WithTargets(trade, targets).stop = trade.stop
         /\ SameSize(trade, WithLeverage(trade, number))
         /\ WithLeverage(trade, number).stop = trade.stop
<1>1. trade.entry \in Nat \ {0}
  BY SizingNumbers DEF HasNumbers, EntryPrices
<1>2. SameSize(trade, WithStop(trade, number, toEntry))
  BY <1>1 DEF WithStop, HasNumbers, TradeFields, SameSize
<1>3. /\ SameSize(trade, WithTargets(trade, targets))
      /\ WithTargets(trade, targets).stop = trade.stop
  <2> DEFINE changed(value) == [trade EXCEPT !.targets = value]
  <2>1. PICK value : WithTargets(trade, targets) \in {trade, changed(value)}
    BY DEF WithTargets
  <2>2. QED BY <2>1 DEF HasNumbers, TradeFields, SameSize
<1>4. /\ SameSize(trade, WithLeverage(trade, number))
      /\ WithLeverage(trade, number).stop = trade.stop
  BY SizingNumbers DEF WithLeverage, Smaller, HasNumbers, TradeFields, SameSize
<1>5. QED BY <1>2, <1>3, <1>4

\* The same stop for the same size loses the same.
LEMMA SameLoss ==
  ASSUME NEW trade, IsTrade(trade), NEW other, SameSize(trade, other),
         other.stop = trade.stop
  PROVE  IsTrade(other)
BY DEF SameSize, IsTrade, LossAtStop

\* A change of the protection leaves a trade, if any.
LEMMA ProtectedIsTrade ==
  ASSUME NEW before, IsTrade(before), NEW after, HasNumbers(after),
         after.status = before.status,
         NEW left \in Protected(before, after), left # None
  PROVE  IsTrade(left)
<1> DEFINE held == [after EXCEPT !.status = "open"]
<1>1. CASE Open(after)
  <2>1. left = before \/ (left = held /\ StopAllowed(after, after.stop))
    BY <1>1 DEF Protected
  <2>2. ASSUME StopAllowed(after, after.stop) PROVE IsTrade(held)
    <3>1. LossAtStop(after) <= RiskBudget
      BY <2>2, AllowedFits
    <3>2. QED BY <3>1 DEF IsTrade, HasNumbers, TradeFields, LossAtStop
  <2>3. QED BY <2>1, <2>2
<1>2. CASE ~Open(after)
  <2>1. left = after /\ after.status = "waiting"
    BY <1>2 DEF Protected, IsTrade, Open
  <2>2. QED BY <2>1 DEF IsTrade
<1>3. QED BY <1>1, <1>2

\* A waiting entry that is replaced is a trade.
LEMMA ReplacedIsTrade ==
  ASSUME NEW trade, IsTrade(trade), trade.status = "waiting",
         NEW parsed, IsReading(parsed), parsed.entry # 0,
         NEW after \in Replaced(trade, parsed)
  PROVE  IsTrade(after)
<1> DEFINE leverage == IF parsed.leverage = 0 THEN trade.leverage
                       ELSE Smaller(Larger(parsed.leverage, 1), MaxLeverage)
           quantity == (trade.margin * leverage) \div parsed.entry
           stop == IF parsed.stop # 0 THEN parsed.stop ELSE trade.askedStop
           targets == IF parsed.targets # <<>> THEN parsed.targets
                      ELSE trade.askedTargets
           size == IF trade.margin > 0 THEN quantity ELSE trade.quantity
           left == IF trade.margin > 0 THEN quantity ELSE trade.remaining
           moved == [trade EXCEPT !.entry = parsed.entry, !.leverage = leverage,
                       !.askedStop = stop, !.askedTargets = targets,
                       !.quantity = size, !.remaining = left, !.ordered = FALSE]
           rebased == Rebased(moved).trade
<1>1. \/ after = rebased
      \/ \E sized \in ForExchange(rebased, FALSE) : after \in OnExchange(sized, TRUE)
  <2>1. Replaced(trade, parsed) =
          {rebased} \union
            (IF Rebased(moved).sound
             THEN UNION {OnExchange(sized, TRUE) :
                    sized \in {t \in ForExchange(rebased, FALSE) : Executable(t)}}
             ELSE {})
    BY DEF Replaced
  <2> HIDE DEF rebased, moved
  <2>2. QED BY <2>1
<1>2. leverage \in Nat \ {0}
  BY SizingNumbers DEF IsReading, IsTrade, HasNumbers, Smaller, Larger
<1> HIDE DEF leverage
<1>3. quantity \in Nat
  <2>1. trade.margin * leverage \in Nat /\ parsed.entry \in Nat \ {0}
    BY <1>2 DEF IsReading, IsTrade, HasNumbers, EntryPrices
  <2>2. QED BY <2>1, Quotient
<1> HIDE DEF quantity
<1>4. /\ size \in Nat /\ left \in Nat /\ stop \in Nat
      /\ parsed.entry \in EntryPrices
  BY <1>3 DEF IsReading, IsTrade, HasNumbers
<1> HIDE DEF size, left, stop, targets
<1>5. HasNumbers(moved) /\ moved.status = "waiting"
  BY <1>2, <1>4 DEF IsTrade, HasNumbers, TradeFields
<1> HIDE DEF moved
<1>6. HasNumbers(rebased) /\ rebased.status = "waiting"
  BY <1>5, RebasedFits
<1> HIDE DEF rebased
<1>7. CASE after = rebased
  BY <1>6, <1>7 DEF IsTrade
<1>8. ASSUME NEW sized \in ForExchange(rebased, FALSE), after \in OnExchange(sized, TRUE)
      PROVE  IsTrade(after)
  <2>1. HasNumbers(sized) /\ sized.status = "waiting"
    BY <1>6, ForExchangeNumbers
  <2>2. QED BY <1>8, <2>1, SentAreTrades
<1>9. QED BY <1>1, <1>7, <1>8

\* What a close leaves of a trade is a trade.
LEMMA FollowedCloseIsTrade ==
  ASSUME NEW trade, IsTrade(trade), NEW percent \in 0..100,
         NEW after \in FollowedClose(trade, percent), after # None
  PROVE  IsTrade(after)
<1> DEFINE sold == (trade.remaining * percent) \div 100
           left == trade.remaining - sold
<1>1. /\ after = trade \/ (left > 0 /\ after = [trade EXCEPT !.remaining = left])
  BY DEF FollowedClose
<1>2. sold \in Nat /\ trade.remaining \in Nat
  <2>1. trade.remaining \in Nat /\ trade.remaining * percent \in Nat
    BY DEF IsTrade, HasNumbers
  <2>2. QED BY <2>1, Quotient
<1> HIDE DEF sold
<1>3. CASE left > 0 /\ after = [trade EXCEPT !.remaining = left]
  <2> DEFINE loss == LossPerUnit(trade.side, trade.entry, trade.stop)
  <2>1. left \in Nat /\ left <= trade.remaining
    BY <1>2, <1>3
  <2> HIDE DEF left
  <2>2. loss \in Int
    BY DEF IsTrade, HasNumbers, EntryPrices, LossPerUnit
  <2>3. /\ HasNumbers(after) /\ after.status = trade.status
        /\ LossAtStop(after) = loss * left /\ LossAtStop(trade) = loss * trade.remaining
    BY <1>3, <2>1 DEF IsTrade, HasNumbers, TradeFields, LossAtStop
  <2> HIDE DEF loss
  <2>4. QED BY <1>2, <2>1, <2>2, <2>3, PartFits DEF IsTrade
<1>4. QED BY <1>1, <1>3

\* The trade with its stop moved, and what was asked for remembered.
LEMMA AskedNumbers ==
  ASSUME NEW trade, HasNumbers(trade), NEW stop \in Nat, NEW toEntry,
         NEW asked \in Nat
  PROVE  SameSize(trade, [WithStop(trade, stop, toEntry) EXCEPT !.askedStop = asked])
<1> DEFINE moved == WithStop(trade, stop, toEntry)
<1>1. SameSize(trade, moved)
  BY UpdatedNumbers
<1> HIDE DEF moved
<1>2. SameSize(trade, [moved EXCEPT !.askedStop = asked])
  BY <1>1 DEF SameSize, HasNumbers, TradeFields
<1>3. QED BY <1>2 DEF moved

\* What a moved stop leaves of a trade is a trade.
LEMMA FollowedStopIsTrade ==
  ASSUME NEW trade, IsTrade(trade), NEW parsed, IsReading(parsed), NEW toEntry,
         NEW after \in FollowedStop(trade, parsed, toEntry), after # None
  PROVE  IsTrade(after)
<1> DEFINE moved == WithStop(trade, parsed.stop, toEntry)
           kept == IF ~Open(trade) /\ parsed.stop # 0 THEN parsed.stop
                   ELSE moved.askedStop
           asked == [moved EXCEPT !.askedStop = kept]
<1>1. after = trade \/ after \in Protected(trade, asked)
  BY DEF FollowedStop
<1>2. parsed.stop \in Nat /\ HasNumbers(trade)
  BY DEF IsReading, IsTrade
<1>3. SameSize(trade, moved)
  BY <1>2, UpdatedNumbers
<1>4. kept \in Nat
  BY <1>2, <1>3 DEF SameSize, HasNumbers
<1>5. SameSize(trade, asked)
  BY <1>2, <1>4, AskedNumbers
<1> HIDE DEF asked
<1>6. QED BY <1>1, <1>5, ProtectedIsTrade DEF SameSize

\* What new targets leave of a trade is a trade.
LEMMA FollowedTargetsIsTrade ==
  ASSUME NEW trade, IsTrade(trade), NEW parsed, IsReading(parsed), NEW text,
         NEW after \in FollowedTargets(trade, parsed, text), after # None
  PROVE  IsTrade(after)
<1> DEFINE given == IF parsed.targets # <<>> THEN parsed.targets
                    ELSE ListedTargets(text)
           moved == WithStop(trade, parsed.stop, FALSE)
           kept == IF ~Open(trade) /\ parsed.stop # 0 THEN parsed.stop
                   ELSE moved.askedStop
           stopped == [moved EXCEPT !.askedStop = kept]
           taken == Sanitized(given, trade.side, trade.entry, stopped.stop) # <<>>
           aimed == WithTargets(stopped, given)
           wanted == IF ~Open(trade) /\ taken THEN given ELSE aimed.askedTargets
           asked == [aimed EXCEPT !.askedTargets = wanted]
<1>1. after = trade \/ after \in Protected(trade, asked)
  BY DEF FollowedTargets
<1>2. parsed.stop \in Nat /\ HasNumbers(trade)
  BY DEF IsReading, IsTrade
<1>3. SameSize(trade, moved)
  BY <1>2, UpdatedNumbers
<1>4. kept \in Nat
  BY <1>2, <1>3 DEF SameSize, HasNumbers
<1>5. SameSize(trade, stopped)
  BY <1>2, <1>4, AskedNumbers
<1> HIDE DEF stopped, given
<1>6. SameSize(stopped, aimed)
  BY <1>5, UpdatedNumbers DEF SameSize
<1> HIDE DEF aimed, wanted
<1>7. SameSize(trade, asked)
  BY <1>5, <1>6 DEF SameSize, HasNumbers, TradeFields
<1> HIDE DEF asked
<1>8. QED BY <1>1, <1>7, ProtectedIsTrade DEF SameSize

\* What a new entry, stop or target leaves of a trade is a trade.
LEMMA FollowedEntryIsTrade ==
  ASSUME NEW trade, IsTrade(trade), NEW parsed, IsReading(parsed),
         NEW after \in FollowedEntry(trade, parsed), after # None
  PROVE  IsTrade(after)
<1> DEFINE stopped == WithStop(trade, parsed.stop, FALSE)
           updated == WithTargets(stopped, parsed.targets)
           levered == WithLeverage(updated, parsed.leverage)
           before == [trade EXCEPT !.leverage = levered.leverage]
<1>1. /\ parsed.stop = 0 /\ parsed.targets = <<>> => after = levered
      /\ ~(parsed.stop = 0 /\ parsed.targets = <<>>) =>
           after \in Protected(before, levered)
  BY DEF FollowedEntry
<1>2. parsed.stop \in Nat /\ parsed.leverage \in Nat /\ HasNumbers(trade)
  BY DEF IsReading, IsTrade
<1>3. SameSize(trade, stopped)
  BY <1>2, UpdatedNumbers
<1>4. parsed.stop = 0 => stopped = trade
  BY DEF WithStop
<1> HIDE DEF stopped
<1>5. SameSize(stopped, updated) /\ updated.stop = stopped.stop
  BY <1>2, <1>3, UpdatedNumbers DEF SameSize
<1> HIDE DEF updated
<1>6. SameSize(updated, levered) /\ levered.stop = updated.stop
  BY <1>2, <1>5, UpdatedNumbers DEF SameSize
<1> HIDE DEF levered
<1>7. SameSize(trade, levered) /\ (parsed.stop = 0 => levered.stop = trade.stop)
  BY <1>3, <1>4, <1>5, <1>6 DEF SameSize
<1>8. SameSize(trade, before) /\ before.stop = trade.stop
  BY <1>2, <1>7 DEF SameSize, HasNumbers, TradeFields
<1> HIDE DEF before
<1>9. CASE parsed.stop = 0 /\ parsed.targets = <<>>
  BY <1>1, <1>7, <1>9, SameLoss
<1>10. CASE ~(parsed.stop = 0 /\ parsed.targets = <<>>)
  <2>1. IsTrade(before) /\ before.status = levered.status /\ HasNumbers(levered)
    BY <1>7, <1>8, SameLoss DEF SameSize
  <2>2. QED BY <1>1, <1>10, <2>1, ProtectedIsTrade
<1>11. QED BY <1>9, <1>10

\* A follow-up leaves a trade, if any.
LEMMA FollowedIsTrade ==
  ASSUME NEW trade, IsTrade(trade), NEW parsed, IsReading(parsed), NEW text,
         NEW after \in Followed(trade, parsed, text), after # None
  PROVE  IsTrade(after)
<1> DEFINE fraction == IF CloseFraction(text) = 0 THEN 100 ELSE CloseFraction(text)
<1>1. fraction \in 0..100 /\ 100 \in 0..100
  <2>1. Percents[1] \in Nat \ {0}
    BY ContextAssumption
  <2>2. QED BY <2>1 DEF CloseFraction
<1> HIDE DEF fraction
<1>2. \/ after = trade
      \/ ~Open(trade) /\ parsed.entry # 0 /\ after \in Replaced(trade, parsed)
      \/ ~Open(trade) /\ after \in Filled(trade)
      \/ after \in FollowedClose(trade, fraction)
      \/ after \in FollowedClose(trade, 100)
      \/ after \in FollowedStop(trade, parsed, MovesStop(text))
      \/ after \in FollowedTargets(trade, parsed, text)
      \/ after \in FollowedLeverage(trade, parsed)
      \/ after \in FollowedEntry(trade, parsed)
  BY DEF Followed, fraction
<1>3. ASSUME ~Open(trade), parsed.entry # 0, after \in Replaced(trade, parsed)
      PROVE  IsTrade(after)
  <2>1. trade.status = "waiting"
    BY <1>3 DEF Open, IsTrade
  <2>2. QED BY <1>3, <2>1, ReplacedIsTrade
<1>4. ASSUME after \in Filled(trade) PROVE IsTrade(after)
  BY <1>4, FilledAreTrades DEF IsTrade
<1>5. ASSUME NEW percent \in 0..100, after \in FollowedClose(trade, percent)
      PROVE  IsTrade(after)
  BY <1>5, FollowedCloseIsTrade
<1>6. ASSUME after \in FollowedStop(trade, parsed, MovesStop(text)) PROVE IsTrade(after)
  BY <1>6, FollowedStopIsTrade
<1>7. ASSUME after \in FollowedTargets(trade, parsed, text) PROVE IsTrade(after)
  BY <1>7, FollowedTargetsIsTrade
<1>8. ASSUME after \in FollowedLeverage(trade, parsed) PROVE IsTrade(after)
  <2>1. parsed.leverage \in Nat /\ HasNumbers(trade)
    BY DEF IsReading, IsTrade
  <2>2. after = WithLeverage(trade, parsed.leverage)
    BY <1>8 DEF FollowedLeverage
  <2>3. QED BY <2>1, <2>2, UpdatedNumbers, SameLoss
<1>9. ASSUME after \in FollowedEntry(trade, parsed) PROVE IsTrade(after)
  BY <1>9, FollowedEntryIsTrade
<1>10. QED BY <1>1, <1>2, <1>3, <1>4, <1>5, <1>6, <1>7, <1>8, <1>9

-----------------------------------------------------------------------------
(* The context of the channel and the store.                               *)

\* What a table holds after an entry was put into it.
LEMMA PutFields ==
  ASSUME NEW table, NEW key, NEW value
  PROVE  /\ DOMAIN Put(table, key, value) = DOMAIN table \union {key}
         /\ Put(table, key, value)[key] = value
         /\ \A k \in DOMAIN table \ {key} : Put(table, key, value)[k] = table[k]
BY DEF Put

\* Of signals with times, one is the latest.
LEMMA MostRecentIsOne ==
  ASSUME NEW n \in Nat, NEW known, NEW ids \in SUBSET (1..n), ids # {},
         \A id \in ids : known.signals[id].updated \in Nat
  PROVE  MostRecent(known, ids) \in ids
<1> DEFINE time == [id \in ids |-> known.signals[id].updated]
           Latest(a, k) == /\ a \in ids /\ a <= k
                           /\ \A b \in ids : b <= k =>
                                \/ time[b] < time[a]
                                \/ time[b] = time[a] /\ a <= b
           has == {k \in 0..n : (\A b \in ids : k < b) \/ \E a \in ids : Latest(a, k)}
<1>0. ids \subseteq Int /\ time \in [ids -> Nat] /\ \A b \in ids : 1 <= b /\ b <= n
  OBVIOUS
<1> HIDE DEF time
<1>1. 0 \in has
  BY <1>0
<1>2. ASSUME NEW k \in 0..n, k \in has, k + 1 \in 0..n PROVE k + 1 \in has
  <2>1. CASE k + 1 \notin ids
    <3>1. CASE \A b \in ids : k < b
      <4>1. \A b \in ids : k + 1 < b
        BY <1>0, <2>1, <3>1
      <4>2. QED BY <1>2, <4>1
    <3>2. ASSUME NEW a \in ids, Latest(a, k) PROVE k + 1 \in has
      <4>1. Latest(a, k + 1)
        BY <1>0, <2>1, <3>2
      <4>2. QED BY <1>2, <4>1
    <3>3. QED BY <1>2, <3>1, <3>2
  <2>2. CASE k + 1 \in ids
    <3>1. CASE \A b \in ids : k < b
      <4>1. Latest(k + 1, k + 1)
        BY <1>0, <2>2, <3>1
      <4>2. QED BY <1>2, <2>2, <4>1
    <3>2. ASSUME NEW a \in ids, Latest(a, k) PROVE k + 1 \in has
      <4>1. CASE time[k + 1] > time[a]
        <5>1. Latest(k + 1, k + 1)
          BY <1>0, <2>2, <3>2, <4>1
        <5>2. QED BY <1>2, <2>2, <5>1
      <4>2. CASE ~(time[k + 1] > time[a])
        <5>1. Latest(a, k + 1)
          BY <1>0, <2>2, <3>2, <4>2
        <5>2. QED BY <1>2, <5>1
      <4>3. QED BY <4>1, <4>2
    <3>3. QED BY <1>2, <3>1, <3>2
  <2>3. QED BY <2>1, <2>2
<1> HIDE DEF has
<1>3. n \in has
  BY <1>1, <1>2, UpTo
<1>4. \E a \in ids : Latest(a, n)
  <2>1. (\A b \in ids : n < b) \/ \E a \in ids : Latest(a, n)
    BY <1>3 DEF has
  <2>2. ~\A b \in ids : n < b
    <3>1. PICK b \in ids : TRUE
      OBVIOUS
    <3>2. b \in Int /\ b <= n
      BY <1>0
    <3>3. ~(n < b)
      BY <3>2
    <3>4. QED BY <3>3
  <2> HIDE DEF Latest
  <2>3. QED BY <2>1, <2>2
<1>5. PICK a \in ids : Latest(a, n)
  BY <1>4
<1>6. \A b \in ids : time[b] < time[a] \/ (time[b] = time[a] /\ a <= b)
  BY <1>0, <1>5
<1>7. \A b \in ids : \/ known.signals[b].updated < known.signals[a].updated
                     \/ /\ known.signals[b].updated = known.signals[a].updated
                        /\ a <= b
  BY <1>6 DEF time
<1>8. QED BY <1>7 DEF MostRecent

\* A message is about one of the signals, or about none.
LEMMA ResolveIsKnown ==
  ASSUME NEW n \in Nat, NEW known, DOMAIN known.signals \subseteq 1..n,
         \A id \in DOMAIN known.signals : known.signals[id].updated \in Nat,
         NEW message, NEW parsed, NEW action, NEW named
  PROVE  Resolve(known, message, parsed, action, named, AnyEligible(known))
           \in DOMAIN known.signals \union {0}
<1> DEFINE eligible == AnyEligible(known)
           Fits(id, method) == /\ <<id, method>> \in eligible
                               /\ Matches(known.signals[id], parsed)
           chain == Chain(known, message)
           replied == {k \in 1..3 : /\ Counts(known, chain, k)
                                    /\ Fits(known.owner[chain[k]], "reply")}
           sameSymbol == {id \in DOMAIN known.signals :
                            /\ Fits(id, "symbol") /\ Trackable(known.signals[id])
                            /\ known.signals[id].current # None
                            /\ known.signals[id].current.symbol = parsed.symbol}
           active == {id \in DOMAIN known.signals :
                        Trackable(known.signals[id])
                        /\ <<id, "single">> \in eligible}
           found == Resolve(known, message, parsed, action, named, eligible)
<1>1. ASSUME NEW id, NEW method, Fits(id, method) PROVE id \in DOMAIN known.signals
  BY <1>1 DEF AnyEligible
<1>2. replied # {} => known.owner[chain[Min(replied)]] \in DOMAIN known.signals
  <2>1. ASSUME replied # {} PROVE Min(replied) \in replied
    <3>1. replied \in SUBSET Nat
      OBVIOUS
    <3> HIDE DEF replied
    <3>2. QED BY <2>1, <3>1, Smallest DEF Min
  <2>2. \A k \in replied : known.owner[chain[k]] \in DOMAIN known.signals
    <3> HIDE DEF eligible, chain
    <3>1. \A k \in replied : Fits(known.owner[chain[k]], "reply")
      OBVIOUS
    <3>2. QED BY <1>1, <3>1
  <2>3. QED BY <2>1, <2>2
<1>3. sameSymbol # {} => MostRecent(known, sameSymbol) \in DOMAIN known.signals
  <2>1. sameSymbol \subseteq DOMAIN known.signals
    OBVIOUS
  <2> HIDE DEF sameSymbol
  <2>2. QED BY <2>1, MostRecentIsOne
<1>4. active # {} => MostRecent(known, active) \in DOMAIN known.signals
  <2>1. active \subseteq DOMAIN known.signals
    OBVIOUS
  <2> HIDE DEF active
  <2>2. QED BY <2>1, MostRecentIsOne
<1>5. found =
        IF Fits(named, "ai") THEN named
        ELSE IF replied # {} THEN known.owner[chain[Min(replied)]]
        ELSE IF parsed.symbol # "none"
             THEN IF sameSymbol = {} THEN 0 ELSE MostRecent(known, sameSymbol)
        ELSE IF action \in Directives /\ active # {}
                /\ (Cardinality(active) = 1 \/ LastResort)
             THEN MostRecent(known, active)
        ELSE 0
  BY DEF Resolve
<1>6. Fits(named, "ai") => named \in DOMAIN known.signals
  BY <1>1
<1> HIDE DEF replied, sameSymbol, active, Fits, found, eligible, chain
<1>7. found \in DOMAIN known.signals \union {0}
  BY <1>2, <1>3, <1>4, <1>5, <1>6
<1>8. QED BY <1>7 DEF found, eligible

\* The signal a message is about is one of the context, or none.
LEMMA RelatedIsKnown ==
  ASSUME NEW n \in Nat, NEW known, DOMAIN known.signals \subseteq 1..n,
         \A id \in DOMAIN known.signals : known.signals[id].updated \in Nat,
         NEW message, NEW parsed
  PROVE  RelatedSignal(known, message, parsed) \in DOMAIN known.signals \union {0}
<1> DEFINE found == Resolve(known, message, parsed, parsed.action, message.ai,
                            AnyEligible(known))
<1>1. found \in DOMAIN known.signals \union {0}
  BY ResolveIsKnown
<1>2. RelatedSignal(known, message, parsed) \in {0, found}
  BY DEF RelatedSignal
<1>3. QED BY <1>1, <1>2

\* What a message asks for, and what two readings make together, is a reading.
LEMMA InterpretedIsReading ==
  ASSUME NEW message \in Messages
  PROVE  IsReading(Interpreted(message))
<1> DEFINE parsed == message.parsed
           acts(action) == [parsed EXCEPT !.action = action]
           aims(targets) == [parsed EXCEPT !.action = "tp", !.targets = targets]
<1>1. IsReading(parsed) /\ DOMAIN parsed = {"action", "symbol", "side", "type",
        "entry", "stop", "targets", "leverage", "sure"}
  BY DEF Messages, Readings, IsReading
<1>2. \/ Interpreted(message) = parsed
      \/ \E action : Interpreted(message) = acts(action)
      \/ \E targets : Interpreted(message) = aims(targets)
  BY DEF Interpreted
<1> HIDE DEF parsed
<1>3. QED BY <1>1, <1>2 DEF IsReading

\* A reading with another action is a reading.
LEMMA ActingIsReading ==
  ASSUME NEW parsed, IsReading(parsed), NEW action
  PROVE  IsReading([parsed EXCEPT !.action = action])
BY DEF IsReading

\* What a message asks for once it is known what it is about is a reading.
LEMMA DirectedIsReading ==
  ASSUME NEW message, NEW parsed, IsReading(parsed), NEW id
  PROVE  IsReading(Directed(message, parsed, id))
<1> DEFINE acts(action) == [parsed EXCEPT !.action = action]
           aims(targets) == [parsed EXCEPT !.action = "tp", !.targets = targets,
                                           !.stop = PercentsStop]
<1>1. \/ Directed(message, parsed, id) = parsed
      \/ \E action : Directed(message, parsed, id) = acts(action)
      \/ \E targets : Directed(message, parsed, id) = aims(targets)
  BY DEF Directed
<1>2. PercentsStop \in Nat
  BY LiveAssumption
<1>3. QED BY <1>1, <1>2 DEF IsReading

\* A reading into which another is merged is a reading.
LEMMA MergedIsReading ==
  ASSUME NEW current, IsReading(current), NEW update, IsReading(update)
  PROVE  IsReading(Merge(current, update))
BY DEF IsReading, Merge, Or

\* A message that is read leaves the signals as they are.
SameSignals(before, after) ==
  /\ DOMAIN after = ContextFields
  /\ after.signals = before.signals /\ after.pending = before.pending

\* The context that has read a message has the same signals.
LEMMA ReadMessage ==
  ASSUME NEW known, DOMAIN known = ContextFields, NEW message
  PROVE  SameSignals(known, WithMessage(known, message))
<1> DEFINE changed(recent, seenOnes) ==
             [known EXCEPT !.recent = recent, !.known = seenOnes]
<1>1. \E recent, seenOnes : WithMessage(known, message) = changed(recent, seenOnes)
  BY DEF WithMessage
<1>2. QED BY <1>1 DEF SameSignals, ContextFields

\* One of the signals says something else, and keeps its status.
SaysMore(before, after, id) ==
  /\ DOMAIN after = ContextFields /\ DOMAIN after.signals = DOMAIN before.signals
  /\ \A i \in DOMAIN before.signals \ {id} : after.signals[i] = before.signals[i]
  /\ IsSignal(after.signals[id])
  /\ after.signals[id].status = before.signals[id].status
  /\ after.pending = before.pending

\* A signal to which a message is attached only says more.
LEMMA AttachedSignal ==
  ASSUME NEW known, DOMAIN known = ContextFields, NEW id \in DOMAIN known.signals,
         IsSignal(known.signals[id]), NEW message, message.date \in Nat
  PROVE  SaysMore(known, WithAttached(known, id, message), id)
<1> DEFINE signal == known.signals[id]
           messages == signal.messages \union {message.id}
           later == IF message.date > signal.updated THEN message.date
                    ELSE signal.updated
           owner == Put(known.owner, message.id, id)
<1>1. WithAttached(known, id, message) =
        [known EXCEPT !.signals[id].messages = messages,
                      !.signals[id].updated = later, !.owner = owner]
  BY DEF WithAttached, ContextFields, IsSignal
<1>2. later \in Nat
  BY DEF IsSignal
<1> HIDE DEF messages, later, owner
<1>3. QED BY <1>1, <1>2 DEF SaysMore, ContextFields, IsSignal

\* A signal into which a reading is merged only says more.
LEMMA MergedSignal ==
  ASSUME NEW known, DOMAIN known = ContextFields, NEW id \in DOMAIN known.signals,
         IsSignal(known.signals[id]), NEW parsed, IsReading(parsed), NEW time \in Nat
  PROVE  SaysMore(known, WithMerged(known, id, parsed, time), id)
<1> DEFINE signal == known.signals[id]
           current == IF signal.current = None THEN parsed
                      ELSE Merge(signal.current, parsed)
           later == IF time > signal.updated THEN time ELSE signal.updated
<1>1. WithMerged(known, id, parsed, time) =
        [known EXCEPT !.signals[id].current = current, !.signals[id].updated = later]
  BY DEF WithMerged, ContextFields, IsSignal
<1>2. later \in Nat
  BY DEF IsSignal
<1>3. IsReading(current)
  BY MergedIsReading DEF IsSignal
<1> HIDE DEF current, later
<1>4. QED BY <1>1, <1>2, <1>3 DEF SaysMore, ContextFields, IsSignal

\* The snapshot of a signal with its trade is a signal of the same status.
LEMMA SnapshotSignal ==
  ASSUME NEW signal, IsSignal(signal), NEW trade, HasNumbers(trade)
  PROVE  /\ IsSignal(Snapshot(signal, trade))
         /\ Snapshot(signal, trade).status = signal.status
<1> DEFINE current == [signal.current EXCEPT !.stop = trade.stop,
                         !.targets = trade.targets, !.leverage = trade.leverage]
<1>1. CASE trade = None \/ signal.current = None
  BY <1>1 DEF Snapshot
<1>2. CASE ~(trade = None \/ signal.current = None)
  <2>1. Snapshot(signal, trade) = [signal EXCEPT !.current = current]
    BY <1>2 DEF Snapshot, IsSignal
  <2>2. IsReading(current)
    BY <1>2 DEF IsSignal, IsReading, HasNumbers
  <2> HIDE DEF current
  <2>3. QED BY <2>1, <2>2 DEF IsSignal
<1>3. QED BY <1>1, <1>2

\* The signal gets a status and waits no more.
LEMMA StatusSignal ==
  ASSUME KnownInv, NEW id \in DOMAIN context.signals, NEW status \in Statuses,
         NEW time \in Nat, NEW after, after = WithStatus(id, status, time)
  PROVE  /\ DOMAIN after = ContextFields
         /\ DOMAIN after.signals = DOMAIN context.signals
         /\ \A i \in DOMAIN context.signals \ {id} :
              after.signals[i] = context.signals[i]
         /\ IsSignal(after.signals[id]) /\ after.signals[id].status = status
         /\ after.pending = context.pending \ {id}
<1>1. IsSignal(context.signals[id]) /\ DOMAIN context = ContextFields
  BY DEF KnownInv, AreSignals
<1>2. after = [context EXCEPT !.signals[id].status = status,
                 !.signals[id].updated = time,
                 !.pending = context.pending \ {id}]
  BY <1>1 DEF WithStatus, ContextFields
<1>3. QED BY <1>1, <1>2 DEF ContextFields, IsSignal

-----------------------------------------------------------------------------
(* What the steps do to one signal and its trade.                          *)

\* Of the signals only this one changes, in memory and in the store.
Touched(id) ==
  /\ DOMAIN context' = ContextFields /\ DOMAIN disk' = DiskFields
  /\ DOMAIN context'.signals = DOMAIN context.signals \union {id}
  /\ DOMAIN disk'.signals = DOMAIN context.signals \union {id}
  /\ \A i \in DOMAIN context.signals \ {id} :
       context'.signals[i] = context.signals[i] /\ disk'.signals[i] = disk.signals[i]
  /\ IsSignal(context'.signals[id]) /\ IsSignal(disk'.signals[id])
  /\ disk'.traced = disk.traced

\* The signal is decided, in memory and in the store.
Settles(id) ==
  /\ id \in DOMAIN context.signals /\ Touched(id)
  /\ context'.pending = context.pending \ {id}
  /\ context'.signals[id].status # "pending"
  /\ disk'.signals[id].status # "pending"

\* The signal keeps its status; the store has it afterwards, or stays as it is.
Stays(id) ==
  /\ id \in DOMAIN context.signals /\ Touched(id)
  /\ context'.pending = context.pending
  /\ context'.signals[id].status = context.signals[id].status
  /\ \/ disk'.signals[id].status = context.signals[id].status
     \/ disk'.signals[id] = disk.signals[id] /\ disk'.open = disk.open

\* A new signal waits, in memory and in the store.
Appears(id) ==
  /\ id \in Ids /\ Touched(id)
  /\ context'.pending = context.pending \union {id}
  /\ context'.signals[id].status = "pending"
  /\ disk'.signals[id].status = "pending"
  /\ disk'.open = disk.open

\* A trade that ends settles its signal and leaves the open ones.
LEMMA EndTradeEffect ==
  ASSUME StreamInv, KnownInv, TradesInv, NEW id \in DOMAIN trades,
         NEW status \in Statuses \ {"pending"}, NEW byStop,
         EndTrade(id, status, byStop)
  PROVE  /\ Settles(id) /\ trades' = Without(trades, id)
         /\ disk'.open = Without(disk.open, id)
<1> DEFINE trade == trades[id]
           after == WithStatus(id, status, now)
           kept == Snapshot(after.signals[id], trade)
           closed == Append(disk.closed, [symbol |-> trade.symbol,
                       side |-> trade.side, time |-> now, byStop |-> byStop])
<1>1. id \in DOMAIN context.signals /\ HasNumbers(trade) /\ now \in Nat
  BY LiveAssumption DEF TradesInv, AreTrades, IsTrade, StreamInv
<1>2. /\ DOMAIN after = ContextFields
      /\ DOMAIN after.signals = DOMAIN context.signals
      /\ \A i \in DOMAIN context.signals \ {id} :
           after.signals[i] = context.signals[i]
      /\ IsSignal(after.signals[id]) /\ after.signals[id].status = status
      /\ after.pending = context.pending \ {id}
  BY <1>1, StatusSignal
<1>3. IsSignal(kept) /\ kept.status = status
  BY <1>1, <1>2, SnapshotSignal
<1>4. /\ trades' = Without(trades, id) /\ context' = after
      /\ disk' = [disk EXCEPT !.open = Without(disk.open, id),
                              !.signals = Put(disk.signals, id, kept),
                              !.closed = closed]
  BY <1>1, <1>2 DEF EndTrade, KnownInv, DiskFields
<1> HIDE DEF after, kept, closed
<1>5. /\ DOMAIN disk' = DiskFields /\ disk'.open = Without(disk.open, id)
      /\ disk'.signals = Put(disk.signals, id, kept) /\ disk'.traced = disk.traced
  BY <1>4 DEF KnownInv, DiskFields
<1>6. /\ DOMAIN disk'.signals = DOMAIN context.signals \union {id}
      /\ disk'.signals[id] = kept
      /\ \A i \in DOMAIN context.signals \ {id} : disk'.signals[i] = disk.signals[i]
  BY <1>5 DEF KnownInv, Put
<1>7. QED BY <1>1, <1>2, <1>3, <1>4, <1>5, <1>6 DEF Settles, Touched

\* A trade that goes on leaves its signal as it is, and is stored.
LEMMA KeepTradeEffect ==
  ASSUME KnownInv, TradesInv, NEW id \in DOMAIN trades, NEW trade, IsTrade(trade),
         KeepTrade(id, trade)
  PROVE  /\ Stays(id) /\ DOMAIN trades' = DOMAIN trades
         /\ DOMAIN disk'.open = DOMAIN disk.open \union {id}
         /\ AreTrades(trades') /\ AreTrades(disk'.open)
<1> DEFINE kept == Snapshot(context.signals[id], trade)
           open == Put(disk.open, id, trade)
<1>1. id \in DOMAIN context.signals /\ HasNumbers(trade)
  BY DEF TradesInv, IsTrade
<1>2. IsSignal(context.signals[id])
  BY <1>1 DEF KnownInv, AreSignals
<1>3. IsSignal(kept) /\ kept.status = context.signals[id].status
  BY <1>1, <1>2, SnapshotSignal
<1>4. /\ trades' = [trades EXCEPT ![id] = trade] /\ context' = context
      /\ disk' = [disk EXCEPT !.open = open, !.signals = Put(disk.signals, id, kept)]
  BY <1>1 DEF KeepTrade, KnownInv, DiskFields
<1> HIDE DEF kept, open
<1>5. /\ DOMAIN disk' = DiskFields /\ disk'.open = open
      /\ disk'.signals = Put(disk.signals, id, kept) /\ disk'.traced = disk.traced
  BY <1>4 DEF KnownInv, DiskFields
<1>6. /\ DOMAIN disk'.signals = DOMAIN context.signals \union {id}
      /\ disk'.signals[id] = kept
      /\ \A i \in DOMAIN context.signals \ {id} : disk'.signals[i] = disk.signals[i]
  BY <1>5 DEF KnownInv, Put
<1>7. /\ DOMAIN open = DOMAIN disk.open \union {id} /\ AreTrades(open)
  BY DEF TradesInv, AreTrades, open, Put
<1>8. DOMAIN trades' = DOMAIN trades /\ AreTrades(trades')
  BY <1>4 DEF TradesInv, AreTrades
<1>9. Stays(id)
  BY <1>1, <1>2, <1>3, <1>4, <1>5, <1>6 DEF Stays, Touched, KnownInv
<1>10. QED BY <1>5, <1>7, <1>8, <1>9

\* A signal that is refused is settled, and the task goes on.
LEMMA RefuseEffect ==
  ASSUME KnownInv, NEW id \in DOMAIN context.signals,
         NEW status \in Statuses \ {"pending"},
         NEW current, current = None \/ IsReading(current), NEW todo,
         Refuse(id, status, current, todo)
  PROVE  Settles(id) /\ disk'.open = disk.open /\ tick' = Choosing(todo)
<1> DEFINE time == context.signals[id].updated
           decided == WithStatus(id, status, time)
           after == [decided EXCEPT !.signals[id].current = current]
<1>1. time \in Nat
  BY DEF KnownInv, AreSignals, IsSignal
<1>2. /\ DOMAIN decided = ContextFields
      /\ DOMAIN decided.signals = DOMAIN context.signals
      /\ \A i \in DOMAIN context.signals \ {id} :
           decided.signals[i] = context.signals[i]
      /\ IsSignal(decided.signals[id]) /\ decided.signals[id].status = status
      /\ decided.pending = context.pending \ {id}
  BY <1>1, StatusSignal
<1>3. /\ context' = after /\ tick' = Choosing(todo)
      /\ disk' = [disk EXCEPT !.signals = Put(disk.signals, id, after.signals[id])]
  BY DEF Refuse, KnownInv, DiskFields
<1> HIDE DEF decided
<1>4. /\ DOMAIN after = ContextFields
      /\ DOMAIN after.signals = DOMAIN context.signals
      /\ \A i \in DOMAIN context.signals \ {id} :
           after.signals[i] = context.signals[i]
      /\ IsSignal(after.signals[id]) /\ after.signals[id].status = status
      /\ after.pending = context.pending \ {id}
  BY <1>2 DEF ContextFields, IsSignal
<1> HIDE DEF after
<1>5. /\ DOMAIN disk' = DiskFields /\ disk'.open = disk.open
      /\ disk'.signals = Put(disk.signals, id, after.signals[id])
      /\ disk'.traced = disk.traced
  BY <1>3 DEF KnownInv, DiskFields
<1>6. /\ DOMAIN disk'.signals = DOMAIN context.signals \union {id}
      /\ disk'.signals[id] = after.signals[id]
      /\ \A i \in DOMAIN context.signals \ {id} : disk'.signals[i] = disk.signals[i]
  BY <1>5 DEF KnownInv, Put
<1>7. QED BY <1>3, <1>4, <1>5, <1>6 DEF Settles, Touched

\* So is one whose entry did not open, and its trade is stored as a closed one.
LEMMA SaveUnopenedEffect ==
  ASSUME KnownInv, tick.signal \in DOMAIN context.signals,
         NEW status \in Statuses \ {"pending"}, NEW trade, HasNumbers(trade),
         SaveUnopened(status, trade)
  PROVE  /\ Settles(tick.signal) /\ disk'.open = disk.open
         /\ tick' = Choosing(tick.todo)
<1> DEFINE id == tick.signal
           time == context.signals[id].updated
           after == WithStatus(id, status, time)
           kept == Snapshot(after.signals[id], trade)
           closed == Append(disk.closed, [symbol |-> trade.symbol,
                       side |-> trade.side, time |-> now, byStop |-> FALSE])
<1>1. time \in Nat
  BY DEF KnownInv, AreSignals, IsSignal
<1>2. /\ DOMAIN after = ContextFields
      /\ DOMAIN after.signals = DOMAIN context.signals
      /\ \A i \in DOMAIN context.signals \ {id} :
           after.signals[i] = context.signals[i]
      /\ IsSignal(after.signals[id]) /\ after.signals[id].status = status
      /\ after.pending = context.pending \ {id}
  BY <1>1, StatusSignal
<1>3. IsSignal(kept) /\ kept.status = status
  BY <1>2, SnapshotSignal
<1>4. /\ context' = after /\ tick' = Choosing(tick.todo)
      /\ disk' = [disk EXCEPT !.signals = Put(disk.signals, id, kept),
                              !.closed = closed]
  BY DEF SaveUnopened, KnownInv, DiskFields
<1> HIDE DEF after, kept, closed
<1>5. /\ DOMAIN disk' = DiskFields /\ disk'.open = disk.open
      /\ disk'.signals = Put(disk.signals, id, kept)
      /\ disk'.traced = disk.traced
  BY <1>4 DEF KnownInv, DiskFields
<1>6. /\ DOMAIN disk'.signals = DOMAIN context.signals \union {id}
      /\ disk'.signals[id] = kept
      /\ \A i \in DOMAIN context.signals \ {id} : disk'.signals[i] = disk.signals[i]
  BY <1>5 DEF KnownInv, Put
<1>7. QED BY <1>2, <1>3, <1>4, <1>5, <1>6 DEF Settles, Touched

-----------------------------------------------------------------------------
(* Where a message goes.                                                   *)

\* The message is on its way to its trace, to the trades that are closed or to
\* the trade it is about.
GoesOn(message) ==
  /\ poll'.message = message /\ poll'.queue = poll.queue
  /\ \/ poll'.at \in {"tracing", "closing"}
     \/ /\ poll'.at = "following" /\ IsReading(poll'.parsed)
        /\ poll'.signal \in DOMAIN context.signals

\* Routing says more about one signal, makes a new one, or changes none.
RouteOutcome(message) ==
  /\ GoesOn(message) /\ disk'.open = disk.open
  /\ \/ SameSignals(context, context') /\ disk' = disk
     \/ \E id \in DOMAIN context.signals : Stays(id)
     \/ Appears(message.id) /\ poll'.at = "tracing"

\* A message that is to be traced goes on.
LEMMA TracedGoesOn ==
  ASSUME NEW message, TracedAs(message)
  PROVE  GoesOn(message) /\ poll'.at = "tracing"
BY DEF TracedAs, At, GoesOn

\* A message that opens a signal lets a new one appear.
LEMMA RouteNewEffect ==
  ASSUME StreamInv, KnownInv, NEW known, DOMAIN known = ContextFields,
         SameSignals(context, known), NEW message, message.id \in Ids,
         NEW parsed, IsReading(parsed), RouteNew(known, message, parsed)
  PROVE  RouteOutcome(message)
<1> DEFINE id == message.id
           signal == NewSignal(message, parsed, now)
           owner == [m \in signal.messages \union DOMAIN known.owner |->
                       IF m \in signal.messages THEN id ELSE known.owner[m]]
<1>1. IsSignal(signal) /\ signal.status = "pending"
  BY LiveAssumption DEF NewSignal, IsSignal, Statuses, StreamInv
<1>2. /\ context' = [known EXCEPT !.signals = Put(known.signals, id, signal),
                        !.owner = owner, !.pending = known.pending \union {id}]
      /\ disk' = [disk EXCEPT !.signals = Put(disk.signals, id, signal)]
      /\ TracedAs(message)
  BY DEF RouteNew, WithSignal, KnownInv, ContextFields, DiskFields
<1> HIDE DEF signal, owner
<1>3. /\ DOMAIN context' = ContextFields
      /\ context'.signals = Put(context.signals, id, signal)
      /\ context'.pending = context.pending \union {id}
  BY <1>2 DEF SameSignals, ContextFields
<1>4. /\ DOMAIN disk' = DiskFields /\ disk'.open = disk.open
      /\ disk'.signals = Put(disk.signals, id, signal)
      /\ disk'.traced = disk.traced
  BY <1>2 DEF KnownInv, DiskFields
<1>5. Touched(id)
  BY <1>1, <1>3, <1>4 DEF Touched, Put, KnownInv
<1>6. Appears(id)
  BY <1>1, <1>3, <1>4, <1>5 DEF Appears, Put
<1>7. QED BY <1>2, <1>4, <1>6, TracedGoesOn DEF RouteOutcome

\* A signal that says more twice says more.
LEMMA SaysMoreTwice ==
  ASSUME NEW one, NEW two, NEW three, NEW id,
         SaysMore(one, two, id), SaysMore(two, three, id)
  PROVE  SaysMore(one, three, id)
BY DEF SaysMore

\* The signal, with a message attached to it and perhaps merged into it.
LEMMA ToldSignal ==
  ASSUME KnownInv, NEW known, DOMAIN known = ContextFields,
         SameSignals(context, known), NEW id \in DOMAIN context.signals,
         NEW message, message.date \in Nat, NEW parsed, IsReading(parsed)
  PROVE  LET attached == WithAttached(known, id, message)
         IN /\ SaysMore(known, attached, id)
            /\ SaysMore(known, WithMerged(attached, id, parsed, message.date), id)
<1> DEFINE attached == WithAttached(known, id, message)
           merged == WithMerged(attached, id, parsed, message.date)
<1>1. id \in DOMAIN known.signals /\ IsSignal(known.signals[id])
  BY DEF SameSignals, KnownInv, AreSignals
<1>2. SaysMore(known, attached, id)
  BY <1>1, AttachedSignal
<1>3. SaysMore(attached, merged, id)
  <2>1. /\ DOMAIN attached = ContextFields /\ id \in DOMAIN attached.signals
        /\ IsSignal(attached.signals[id])
    BY <1>1, <1>2 DEF SaysMore
  <2> HIDE DEF attached
  <2>2. QED BY <2>1, MergedSignal
<1>4. SaysMore(known, merged, id)
  BY <1>2, <1>3, SaysMoreTwice
<1>5. QED BY <1>2, <1>4

\* A message that is merged into a signal leaves its status.
LEMMA RouteMergedEffect ==
  ASSUME KnownInv, NEW known, DOMAIN known = ContextFields,
         SameSignals(context, known), NEW message, message.date \in Nat,
         NEW id \in DOMAIN context.signals, NEW parsed, IsReading(parsed),
         RouteMerged(known, message, parsed, id)
  PROVE  RouteOutcome(message)
<1> DEFINE after == WithMerged(WithAttached(known, id, message), id, parsed,
                               message.date)
<1>1. SaysMore(known, after, id)
  BY ToldSignal
<1>2. /\ context' = after /\ TracedAs(message)
      /\ disk' = [disk EXCEPT !.signals = Put(disk.signals, id, after.signals[id])]
  BY DEF RouteMerged, KnownInv, DiskFields
<1> HIDE DEF after
<1>3. /\ DOMAIN disk' = DiskFields /\ disk'.open = disk.open
      /\ disk'.signals = Put(disk.signals, id, after.signals[id])
      /\ disk'.traced = disk.traced
  BY <1>2 DEF KnownInv, DiskFields
<1>4. Touched(id)
  BY <1>1, <1>2, <1>3 DEF Touched, Put, KnownInv, SaysMore, SameSignals
<1>5. Stays(id)
  BY <1>1, <1>2, <1>3, <1>4 DEF Stays, Put, SaysMore, SameSignals
<1>6. QED BY <1>2, <1>3, <1>5, TracedGoesOn DEF RouteOutcome

\* A message that directs a trade leaves the status of its signal.
LEMMA RouteDirectiveEffect ==
  ASSUME KnownInv, NEW known, DOMAIN known = ContextFields,
         SameSignals(context, known), NEW message, message.date \in Nat,
         NEW id \in DOMAIN context.signals, NEW parsed, IsReading(parsed),
         RouteDirective(known, message, parsed, id)
  PROVE  RouteOutcome(message)
<1> DEFINE attached == WithAttached(known, id, message)
           merged == WithMerged(attached, id, parsed, message.date)
<1>1. SaysMore(known, attached, id) /\ SaysMore(known, merged, id)
  BY ToldSignal
<1>2. /\ context' \in {merged, attached} /\ disk' = disk
      /\ At("following", message, parsed, id) \/ TracedAs(message)
  BY DEF RouteDirective
<1> HIDE DEF attached, merged
<1>3. SaysMore(known, context', id)
  BY <1>1, <1>2
<1>4. Stays(id)
  BY <1>2, <1>3 DEF Stays, Touched, KnownInv, AreSignals, SaysMore, SameSignals
<1>5. GoesOn(message)
  <2>1. CASE TracedAs(message)
    BY <2>1, TracedGoesOn
  <2>2. CASE At("following", message, parsed, id)
    BY <2>2 DEF At, GoesOn
  <2>3. QED BY <1>2, <2>1, <2>2
<1>6. QED BY <1>2, <1>4, <1>5 DEF RouteOutcome

\* Wherever a message is routed, one signal changes at most.
LEMMA RoutedEffect ==
  ASSUME StreamInv, KnownInv, NEW known, DOMAIN known = ContextFields,
         SameSignals(context, known), NEW message, message.id \in Ids,
         message.date \in Nat, NEW read, IsReading(read),
         NEW id \in DOMAIN context.signals \union {0},
         Routed(known, message, read, id)
  PROVE  RouteOutcome(message)
<1> DEFINE parsed == Directed(message, read, id)
           as(action) == [parsed EXCEPT !.action = action]
<1>0. IsReading(parsed)
  BY DirectedIsReading
<1>1. \/ /\ context' = known /\ disk' = disk
         /\ TracedAs(message) \/ ClosingAll(message, DOMAIN trades)
      \/ RouteNew(known, message, parsed)
      \/ /\ id # 0
         /\ \/ RouteMerged(known, message, parsed, id)
            \/ RouteDirective(known, message, parsed, id)
            \/ \E action : RouteMerged(known, message, as(action), id)
            \/ \E action : RouteDirective(known, message, as(action), id)
  BY DEF Routed
<1> HIDE DEF parsed
<1>2. ASSUME NEW action PROVE IsReading(as(action))
  BY <1>0, ActingIsReading
<1> HIDE DEF as
<1>3. CASE /\ context' = known /\ disk' = disk
           /\ TracedAs(message) \/ ClosingAll(message, DOMAIN trades)
  <2>1. GoesOn(message)
    <3>1. CASE TracedAs(message)
      BY <3>1, TracedGoesOn
    <3>2. CASE ClosingAll(message, DOMAIN trades)
      BY <3>2, TracedGoesOn DEF ClosingAll, GoesOn
    <3>3. QED BY <1>3, <3>1, <3>2
  <2>2. QED BY <1>3, <2>1 DEF RouteOutcome
<1>4. CASE RouteNew(known, message, parsed)
  BY <1>0, <1>4, RouteNewEffect
<1>5. ASSUME id # 0, NEW said, IsReading(said), RouteMerged(known, message, said, id)
      PROVE  RouteOutcome(message)
  BY <1>5, RouteMergedEffect
<1>6. ASSUME id # 0, NEW said, IsReading(said), RouteDirective(known, message, said, id)
      PROVE  RouteOutcome(message)
  BY <1>6, RouteDirectiveEffect
<1>7. QED BY <1>0, <1>1, <1>2, <1>3, <1>4, <1>5, <1>6

-----------------------------------------------------------------------------
(* What keeps the parts of the invariant.                                  *)

\* One signal that is changed to a signal leaves the memory and the store known.
LEMMA KnownTouched ==
  ASSUME KnownInv, NEW id \in Ids, Touched(id), stream' = stream, torn' = torn,
         context'.pending \subseteq context.pending \union {id}
  PROVE  KnownInv'
<1>1. /\ DOMAIN context' = ContextFields /\ DOMAIN disk' = DiskFields
      /\ DOMAIN context'.signals = DOMAIN context.signals \union {id}
      /\ DOMAIN disk'.signals = DOMAIN context'.signals
      /\ disk'.traced = disk.traced
  BY DEF Touched
<1>2. /\ \A i \in DOMAIN context'.signals : IsSignal(context'.signals[i])
      /\ \A i \in DOMAIN disk'.signals : IsSignal(disk'.signals[i])
  <2>1. ASSUME NEW i \in DOMAIN context.signals \union {id}
        PROVE  IsSignal(context'.signals[i]) /\ IsSignal(disk'.signals[i])
    <3>1. CASE i = id
      BY <3>1 DEF Touched
    <3>2. CASE i # id
      BY <3>2 DEF Touched, KnownInv, AreSignals
    <3>3. QED BY <3>1, <3>2
  <2>2. QED BY <1>1, <2>1
<1>3. /\ DOMAIN context'.signals \subseteq Ids
      /\ context'.pending \subseteq DOMAIN context'.signals
  BY <1>1 DEF KnownInv, AreSignals
<1>4. AreSignals(context.signals)' /\ AreSignals(disk.signals)'
  BY <1>1, <1>2, <1>3 DEF AreSignals, Ids
<1>5. QED BY <1>1, <1>3, <1>4 DEF KnownInv, Ids

\* What the task opens is known.
LEMMA OpeningKnown ==
  ASSUME TickInv
  PROVE  Opening \subseteq DOMAIN context.signals
BY DEF TickInv, Opening, Chosen, Off, Asleep

\* A decided signal waits no more, the others as before.
LEMMA SettledStatus ==
  ASSUME KnownInv, NEW id, Settles(id)
  PROVE  /\ DOMAIN context'.signals = DOMAIN context.signals
         /\ ~Pending(id)' /\ ~PendingThere(id)'
         /\ \A i \in DOMAIN context.signals \ {id} :
              /\ Pending(i)' <=> Pending(i)
              /\ PendingThere(i)' <=> PendingThere(i)
BY DEF Settles, Touched, Pending, PendingThere

\* Signals that stay wait as before; in the store one may have been decided.
LEMMA StayingStatus ==
  ASSUME KnownInv, NEW id, Stays(id)
  PROVE  /\ DOMAIN context'.signals = DOMAIN context.signals
         /\ \A i \in DOMAIN context.signals :
              /\ Pending(i)' <=> Pending(i)
              /\ PendingThere(i)' => Pending(i) \/ PendingThere(i)
BY DEF Stays, Touched, Pending, PendingThere

\* A decided signal is entered no more than before.
LEMMA EnteredSettles ==
  ASSUME KnownInv, EnteredInv, NEW id, Settles(id), torn' = torn,
         entries' = entries, tick.at = "registering" => tick.signal = id
  PROVE  EnteredInv'
<1>1. id \in DOMAIN context.signals
  BY DEF Settles
<1>2. ASSUME NEW k \in DOMAIN entries, entries[k].signal \notin torn
      PROVE  /\ entries[k].signal \in DOMAIN context'.signals
             /\ ~Pending(entries[k].signal)' /\ ~PendingThere(entries[k].signal)'
  BY <1>1, <1>2, SettledStatus DEF EnteredInv
<1>3. QED BY <1>2 DEF EnteredInv

\* A signal that stays is entered no more than before.
LEMMA EnteredStays ==
  ASSUME KnownInv, EnteredInv, NEW id, Stays(id), torn' = torn,
         entries' = entries, tick' = tick
  PROVE  EnteredInv'
<1>1. ASSUME NEW k \in DOMAIN entries, entries[k].signal \notin torn
      PROVE  \/ /\ entries[k].signal \in DOMAIN context'.signals
                /\ ~Pending(entries[k].signal)' /\ ~PendingThere(entries[k].signal)'
             \/ tick'.at = "registering" /\ tick'.signal = entries[k].signal
  BY <1>1, StayingStatus DEF EnteredInv
<1>2. QED BY <1>1 DEF EnteredInv

\* The phases stay where no signal changes its status in memory.
LEMMA PhaseStays ==
  ASSUME KnownInv, TradesInv, TickInv, PhaseInv, NEW id, Stays(id), tick' = tick,
         torn' = torn, tick.at # "saving", DOMAIN trades' = DOMAIN trades,
         DOMAIN disk'.open \subseteq DOMAIN trades,
         DOMAIN disk'.open \subseteq DOMAIN disk.open \union {id}
  PROVE  PhaseInv'
<1>1. /\ DOMAIN context'.signals = DOMAIN context.signals
      /\ context'.pending = context.pending
      /\ \A i \in DOMAIN context.signals : Pending(i)' <=> Pending(i)
  BY StayingStatus DEF Stays
<1>2. \A i \in context'.pending : Pending(i)'
  BY <1>1 DEF PhaseInv, KnownInv
<1>3. Opening' = Opening
  BY DEF Opening
<1>4. \A i \in Whole(Opening) : Pending(i)'
  BY <1>1, OpeningKnown DEF PhaseInv, Whole
<1>5. \A i \in Whole(DOMAIN trades) : ~Pending(i) /\ ~Pending(i)'
  BY <1>1 DEF PhaseInv, TradesInv, Whole
<1>6. ASSUME NEW i \in Whole(DOMAIN disk'.open) PROVE ~PendingThere(i)'
  <2>1. i \in DOMAIN context.signals /\ i \notin torn /\ ~Pending(i)
    BY <1>5 DEF Whole, TradesInv
  <2>2. CASE i \in DOMAIN disk.open
    <3>1. ~PendingThere(i)
      BY <2>1, <2>2 DEF PhaseInv, Whole
    <3>2. QED BY <2>1, <3>1, StayingStatus
  <2>3. CASE i \notin DOMAIN disk.open
    <3>1. i = id /\ disk'.signals[i].status = context.signals[i].status
      BY <2>3 DEF Stays, Whole
    <3>2. QED BY <2>1, <3>1 DEF Pending, PendingThere
  <2>4. QED BY <2>2, <2>3
<1>7. QED BY <1>2, <1>3, <1>4, <1>5, <1>6 DEF PhaseInv, Whole

\* The phases stay where a signal is decided that the task does not open.
LEMMA PhaseSettles ==
  ASSUME KnownInv, TradesInv, TickInv, PhaseInv, NEW id, Settles(id), torn' = torn,
         Whole(Opening)' \subseteq Whole(Opening) \ {id},
         tick'.at \in {"quoting", "submitting", "registering"} =>
           tick'.signal \notin tick'.todo,
         tick'.at = "saving" => tick'.signal = id,
         DOMAIN trades' \subseteq DOMAIN trades \union {id},
         DOMAIN disk'.open \subseteq DOMAIN disk.open \union {id}
  PROVE  PhaseInv'
<1>1. /\ context'.pending = context.pending \ {id}
      /\ ~Pending(id)' /\ ~PendingThere(id)'
      /\ \A i \in DOMAIN context.signals \ {id} :
           /\ Pending(i)' <=> Pending(i)
           /\ PendingThere(i)' <=> PendingThere(i)
  BY SettledStatus DEF Settles
<1>2. \A i \in context'.pending : Pending(i)'
  BY <1>1 DEF PhaseInv, KnownInv
<1>3. \A i \in Whole(Opening)' : Pending(i)'
  BY <1>1, OpeningKnown DEF PhaseInv, Whole
<1>4. \A i \in Whole(DOMAIN trades)' : ~Pending(i)'
  BY <1>1 DEF PhaseInv, TradesInv, Whole
<1>5. \A i \in Whole(DOMAIN disk.open)' : ~PendingThere(i)'
  BY <1>1 DEF PhaseInv, TradesInv, Whole
<1>6. QED BY <1>1, <1>2, <1>3, <1>4, <1>5 DEF PhaseInv, Whole

\* The trades stay trades where the store loses none and the memory no signal.
LEMMA TradesStay ==
  ASSUME TradesInv, trades' = trades, disk'.open = disk.open,
         DOMAIN context.signals \subseteq DOMAIN context'.signals
  PROVE  TradesInv'
BY DEF TradesInv, AreTrades

\* The task stays of its type where nothing it opens is lost.
LEMMA TickStays ==
  ASSUME TickInv, tick' = tick, tick.at # "saving",
         DOMAIN context.signals \subseteq DOMAIN context'.signals
  PROVE  TickInv'
<1>1. CASE tick \in {Off, Asleep, [at |-> "dead"]}
  BY <1>1 DEF TickInv, Off, Asleep
<1>2. CASE tick \notin {Off, Asleep, [at |-> "dead"]}
  BY <1>2 DEF TickInv, Chosen, Off, Asleep
<1>3. QED BY <1>1, <1>2

\* The message task stays of its type where no signal is lost.
LEMMA PollStays ==
  ASSUME PollInv, poll' = poll, stream' = stream,
         DOMAIN context.signals \subseteq DOMAIN context'.signals
  PROVE  PollInv'
BY DEF PollInv, Handled, Ids

\* A message that is traced, or that closes trades, is the one handled before.
LEMMA PollGoesOn ==
  ASSUME Handled, GoesOn(poll.message), stream' = stream,
         DOMAIN context.signals \subseteq DOMAIN context'.signals
  PROVE  PollInv'
<1>1. Handled'
  BY DEF Handled, GoesOn, Ids
<1>2. QED BY <1>1 DEF PollInv, GoesOn

\* The messages stay ahead of the signals while the message task rests.
LEMMA MessageStays ==
  ASSUME MessageInv, poll' = poll, seen' = seen, torn' = torn,
         DOMAIN context'.signals = DOMAIN context.signals,
         disk'.traced = disk.traced
  PROVE  MessageInv'
BY DEF MessageInv, Whole

\* Nothing but the memory and the store of one signal changes, and the task.
LEMMA RestStays ==
  ASSUME StreamInv, EntriesInv, ReplayInv, OneEntryPerSignal, stream' = stream,
         now' = now, seen' = seen, entries' = entries, torn' = torn,
         replay' = replay
  PROVE  StreamInv' /\ EntriesInv' /\ ReplayInv' /\ OneEntryPerSignal'
BY DEF StreamInv, EntriesInv, ReplayInv, OneEntryPerSignal, Ids

\* Where a message is routed to, the invariant holds.
LEMMA RoutingKeeps ==
  ASSUME PathsInv, poll.at \in {"reading", "checking"}, ~Busy,
         RouteOutcome(poll.message),
         UNCHANGED <<stream, now, trades, seen, tick, entries, torn, replay>>
  PROVE  PathsInv'
<1> USE DEF PathsInv
<1>1. PICK id \in Ids : Handled /\ id = poll.message.id
  BY DEF PollInv, Handled, Idle
<1>2. /\ GoesOn(poll.message) /\ disk'.open = disk.open
      /\ tick.at \notin {"saving", "registering"}
  BY DEF RouteOutcome, Busy
<1>3. /\ poll'.message = poll.message /\ poll'.queue = poll.queue
      /\ poll'.at \in {"tracing", "closing", "following"}
  BY <1>2 DEF GoesOn
<1>4. StreamInv' /\ EntriesInv' /\ ReplayInv' /\ OneEntryPerSignal'
  BY RestStays
<1>5. \A i \in Whole(DOMAIN context.signals) : i # id /\ i <= seen /\ i \in disk.traced
  BY <1>1 DEF MessageInv
<1>6. ASSUME KnownInv', PhaseInv', EnteredInv', disk'.traced = disk.traced,
             DOMAIN context.signals \subseteq DOMAIN context'.signals,
             \/ DOMAIN context'.signals = DOMAIN context.signals
             \/ /\ DOMAIN context'.signals = DOMAIN context.signals \union {id}
                /\ poll'.at = "tracing"
      PROVE  PathsInv'
  <2>1. TradesInv' /\ TickInv' /\ PollInv'
    BY <1>1, <1>2, <1>6, TradesStay, TickStays, PollGoesOn
  <2>2. MessageInv'
    <3>1. \A i \in Whole(DOMAIN context.signals)' :
            i \in Whole(DOMAIN context.signals) \/ (i = id /\ poll'.at = "tracing")
      BY <1>6 DEF Whole
    <3>2. \A i \in Whole(DOMAIN context.signals) : i \notin poll.queue
      BY DEF MessageInv
    <3>3. id \notin poll.queue
      BY <1>1 DEF MessageInv
    <3>4. QED BY <1>1, <1>3, <1>5, <1>6, <3>1, <3>2, <3>3 DEF MessageInv
  <2>3. StartInv'
    BY <1>3 DEF StartInv
  <2>4. QED BY <1>4, <1>6, <2>1, <2>2, <2>3
<1>7. CASE SameSignals(context, context') /\ disk' = disk
  <2>1. KnownInv'
    BY <1>7 DEF SameSignals, KnownInv, AreSignals, Ids
  <2>2. Opening' = Opening
    BY DEF Opening
  <2>3. PhaseInv'
    BY <1>7, <2>2 DEF SameSignals, PhaseInv, Whole, Pending, PendingThere
  <2>4. EnteredInv'
    BY <1>7 DEF SameSignals, EnteredInv, Pending, PendingThere
  <2>5. QED BY <1>6, <1>7, <2>1, <2>3, <2>4 DEF SameSignals
<1>8. CASE \E i \in DOMAIN context.signals : Stays(i)
  <2>1. PICK i \in DOMAIN context.signals : Stays(i)
    BY <1>8
  <2>2. /\ i \in Ids /\ Touched(i) /\ context'.pending = context.pending
        /\ DOMAIN context'.signals = DOMAIN context.signals
        /\ disk'.traced = disk.traced
    BY <2>1 DEF Stays, Touched, KnownInv, AreSignals
  <2>3. KnownInv'
    BY <2>2, KnownTouched
  <2>4. PhaseInv'
    BY <1>2, <2>1, PhaseStays DEF TradesInv
  <2>5. EnteredInv'
    BY <2>1, EnteredStays
  <2>6. QED BY <1>6, <2>2, <2>3, <2>4, <2>5
<1>9. CASE Appears(id) /\ poll'.at = "tracing"
  <2>1. /\ Touched(id) /\ context'.pending = context.pending \union {id}
        /\ Pending(id)' /\ PendingThere(id)'
        /\ DOMAIN context'.signals = DOMAIN context.signals \union {id}
        /\ disk'.traced = disk.traced
    BY <1>9 DEF Appears, Touched, Pending, PendingThere
  <2>2. KnownInv'
    BY <1>1, <2>1, KnownTouched
  <2>3. \A i \in DOMAIN context.signals \ {id} :
          /\ Pending(i)' <=> Pending(i)
          /\ PendingThere(i)' <=> PendingThere(i)
    BY <2>1 DEF Touched, Pending, PendingThere
  <2>4. PhaseInv'
    <3>1. Opening' = Opening
      BY DEF Opening
    <3>2. \A i \in context'.pending : Pending(i)'
      BY <2>1, <2>3 DEF PhaseInv, KnownInv
    <3>3. \A i \in Whole(Opening) : Pending(i)'
      BY <1>5, <2>3, OpeningKnown DEF PhaseInv, Whole
    <3>4. \A i \in Whole(DOMAIN trades) : ~Pending(i)'
      BY <1>5, <2>3 DEF PhaseInv, TradesInv, Whole
    <3>5. \A i \in Whole(DOMAIN disk.open) : ~PendingThere(i)'
      BY <1>5, <2>3 DEF PhaseInv, TradesInv, Whole
    <3>6. QED BY <1>2, <3>1, <3>2, <3>3, <3>4, <3>5 DEF PhaseInv, Whole
  <2>5. EnteredInv'
    <3>1. ASSUME NEW k \in DOMAIN entries, entries[k].signal \notin torn
          PROVE  /\ entries[k].signal \in DOMAIN context'.signals
                 /\ ~Pending(entries[k].signal)' /\ ~PendingThere(entries[k].signal)'
      BY <1>2, <1>5, <2>1, <2>3, <3>1 DEF EnteredInv, Whole
    <3>2. QED BY <3>1 DEF EnteredInv
  <2>6. QED BY <1>6, <1>9, <2>1, <2>2, <2>4, <2>5
<1>10. QED BY <1>1, <1>7, <1>8, <1>9 DEF RouteOutcome

-----------------------------------------------------------------------------
(* The steps that change no signal and no trade.                           *)

\* The memory is as it was; the task goes on, rests, or chooses among signals
\* that wait.
LEMMA QuietKeeps ==
  ASSUME PathsInv, UNCHANGED <<stream, context, trades, entries, torn, replay>>,
         DOMAIN disk' = DiskFields, disk'.signals = disk.signals,
         disk'.open = disk.open, disk'.traced \subseteq Ids,
         now' \in StartTime..MaxTime, seen' \in 0..Len(stream),
         \/ tick' = tick
         \/ /\ tick.at # "registering"
            /\ \/ tick' \in {Off, Asleep, [at |-> "dead"]}
               \/ /\ tick'.at = "choosing"
                  /\ tick'.todo \subseteq DOMAIN context.signals
                  /\ \A i \in Whole(tick'.todo) : Pending(i),
         PollInv', MessageInv', StartInv'
  PROVE  PathsInv'
<1> USE DEF PathsInv
<1>1. StreamInv' /\ EntriesInv' /\ ReplayInv' /\ OneEntryPerSignal'
  BY DEF StreamInv, EntriesInv, ReplayInv, OneEntryPerSignal, Ids
<1>2. KnownInv' /\ TradesInv'
  BY DEF KnownInv, AreSignals, TradesInv, AreTrades, Ids
<1>3. /\ \A i \in DOMAIN context.signals :
           (Pending(i)' <=> Pending(i)) /\ (PendingThere(i)' <=> PendingThere(i))
      /\ \A i : PendingThere(i)' <=> PendingThere(i)
  BY DEF Pending, PendingThere
<1>4. CASE tick' = tick
  <2>1. TickInv'
    BY <1>4 DEF TickInv, Chosen
  <2>2. Opening' = Opening
    BY <1>4 DEF Opening
  <2>3. PhaseInv'
    BY <1>3, <1>4, <2>2 DEF PhaseInv, Whole, Pending
  <2>4. EnteredInv'
    BY <1>3, <1>4 DEF EnteredInv
  <2>5. QED BY <1>1, <1>2, <2>1, <2>3, <2>4
<1>5. CASE /\ tick.at # "registering"
           /\ tick' \in {Off, Asleep, [at |-> "dead"]}
  <2>1. TickInv' /\ Opening' = {}
    BY <1>5 DEF TickInv, Opening, Off, Asleep
  <2>2. tick'.at \notin {"quoting", "submitting", "registering", "saving"}
    BY <1>5 DEF Off, Asleep
  <2>3. PhaseInv'
    BY <1>3, <2>1, <2>2 DEF PhaseInv, Whole, Pending
  <2>4. EnteredInv'
    BY <1>3, <1>5 DEF EnteredInv
  <2>5. QED BY <1>1, <1>2, <2>1, <2>3, <2>4
<1>6. CASE /\ tick.at # "registering" /\ tick'.at = "choosing"
           /\ tick'.todo \subseteq DOMAIN context.signals
           /\ \A i \in Whole(tick'.todo) : Pending(i)
  <2>1. TickInv' /\ Opening' = tick'.todo
    BY <1>6 DEF TickInv, Opening
  <2>2. PhaseInv'
    BY <1>3, <1>6, <2>1 DEF PhaseInv, Whole, Pending
  <2>3. EnteredInv'
    BY <1>3, <1>6 DEF EnteredInv
  <2>4. QED BY <1>1, <1>2, <2>1, <2>2, <2>3
<1>7. QED BY <1>4, <1>5, <1>6

\* The clock moves.
LEMMA ClockKeeps ==
  ASSUME PathsInv, Clock, replay' = replay
  PROVE  PathsInv'
<1> USE DEF PathsInv, Clock
<1>1. now' \in StartTime..MaxTime
  BY LiveAssumption DEF StreamInv
<1>2. PollInv' /\ MessageInv' /\ StartInv'
  BY PollStays, MessageStays DEF StartInv
<1>3. QED BY <1>1, <1>2, QuietKeeps DEF StreamInv, KnownInv

\* What the cursor is after a message is at least what it was.
LEMMA LargerId ==
  ASSUME NEW n \in Nat, NEW m \in 0..n, NEW k \in 1..n
  PROVE  /\ Larger(m, k) \in 0..n /\ k <= Larger(m, k)
         /\ \A i \in Nat : i <= m => i <= Larger(m, k)
BY DEF Larger

\* The session starts.
LEMMA StartKeeps ==
  ASSUME PathsInv, Start, replay' = replay
  PROVE  PathsInv'
<1> DEFINE first == seen = 0
           history == {m \in Published :
                         Cardinality({n \in Published : n > m}) < HistoryLimit}
           replayed == {m \in history : stream[m].date + ReplayWindow >= StartTime}
           queue == IF first THEN replayed ELSE {}
           traced == IF first THEN disk.traced \union (history \ replayed)
                     ELSE disk.traced
<1> USE DEF PathsInv
<1>1. /\ Ids = 1..Len(stream) /\ Len(stream) \in Nat
      /\ history \subseteq Ids /\ replayed \subseteq Ids
  BY DEF StreamInv, Ids, Published
<1> HIDE DEF history, replayed
<1>2. /\ poll.at = "starting" /\ poll' = [at |-> "idle", queue |-> queue]
      /\ seen' = (IF first /\ history # {} THEN Max(history) ELSE seen)
      /\ disk' = [disk EXCEPT !.traced = traced] /\ tick' \in {Off, Asleep}
      /\ UNCHANGED <<stream, now, context, trades, entries, torn>>
  BY DEF Start, Idle, history, replayed, KnownInv, DiskFields
<1>3. seen' \in 0..Len(stream) /\ seen <= seen'
  <2>1. CASE first /\ history # {}
    <3>1. history \in SUBSET (0..Len(stream))
      BY <1>1
    <3>2. PICK n \in history : \A m \in history : m <= n
      BY <1>1, <2>1, <3>1, Largest
    <3>3. \E x \in history : \A y \in history : x >= y
      BY <3>1, <3>2
    <3>4. Max(history) \in history
      BY <3>3 DEF Max
    <3>5. QED BY <1>1, <1>2, <2>1, <3>4
  <2>2. CASE ~(first /\ history # {})
    BY <1>2, <2>2 DEF StreamInv
  <2>3. QED BY <2>1, <2>2
<1>4. /\ DOMAIN disk' = DiskFields /\ disk'.signals = disk.signals
      /\ disk'.open = disk.open /\ disk'.traced = traced
  BY <1>2 DEF KnownInv, DiskFields
<1>5. traced \subseteq Ids /\ disk.traced \subseteq traced /\ queue \subseteq Ids
  BY <1>1 DEF KnownInv
<1> HIDE DEF traced
<1>6. PollInv'
  BY <1>2, <1>5 DEF PollInv, Idle, Ids
<1>7. \A i \in Whole(DOMAIN context.signals) :
        i \in Ids /\ i <= seen /\ i \in disk.traced
  BY <1>2 DEF MessageInv, KnownInv, AreSignals, Whole
<1>8. \A i \in Whole(DOMAIN context.signals) : i \notin queue
  BY <1>1, <1>7
<1> HIDE DEF queue
<1>9. MessageInv'
  <2>1. seen \in Nat /\ seen' \in Nat
    BY <1>3 DEF StreamInv
  <2>2. \A i \in Whole(DOMAIN context.signals) : i <= seen' /\ i \in disk'.traced
    BY <1>1, <1>3, <1>4, <1>5, <1>7, <2>1
  <2>3. poll'.at = "idle" /\ poll'.queue = queue
    BY <1>2
  <2>4. QED BY <1>2, <1>8, <2>2, <2>3 DEF MessageInv, Whole
<1>10. StartInv'
  BY <1>2 DEF StartInv
<1>11. tick.at # "registering"
  BY <1>2 DEF StartInv, Off
<1>12. now' \in StartTime..MaxTime
  BY <1>2 DEF StreamInv
<1>13. QED BY <1>2, <1>3, <1>4, <1>5, <1>6, <1>9, <1>10, <1>11, <1>12, QuietKeeps

\* The channel is polled.
LEMMA PollKeeps ==
  ASSUME PathsInv, Poll, replay' = replay
  PROVE  PathsInv'
<1> DEFINE queue == {m \in Published : m > seen}
<1> USE DEF PathsInv
<1>1. /\ poll = Idle /\ poll' = [at |-> "idle", queue |-> queue]
      /\ UNCHANGED <<stream, now, context, trades, seen, tick, disk, entries, torn>>
  BY DEF Poll, Idle
<1>2. queue \subseteq Ids /\ Ids = 1..Len(stream) /\ Len(stream) \in Nat
  BY DEF StreamInv, Ids, Published
<1>3. \A i \in Whole(DOMAIN context.signals) :
        i \in Ids /\ i <= seen /\ i \in disk.traced
  BY <1>1 DEF MessageInv, KnownInv, AreSignals, Whole, Idle
<1>4. \A i \in Whole(DOMAIN context.signals) : i \notin queue
  BY <1>2, <1>3 DEF StreamInv
<1> HIDE DEF queue
<1>5. PollInv' /\ StartInv'
  BY <1>1, <1>2 DEF PollInv, Idle, Ids, StartInv
<1>6. MessageInv'
  BY <1>1, <1>3, <1>4 DEF MessageInv, Whole
<1>7. QED BY <1>1, <1>5, <1>6, QuietKeeps DEF StreamInv, KnownInv

\* The next message is taken.
LEMMA ReceiveKeeps ==
  ASSUME PathsInv, Receive, replay' = replay
  PROVE  PathsInv'
<1> DEFINE next == Min(poll.queue)
<1> USE DEF PathsInv
<1>1. /\ poll.at = "idle" /\ poll.queue # {} /\ poll.queue \subseteq Ids
      /\ poll' = [at |-> "reading", queue |-> poll.queue \ {next},
                  message |-> stream[next]]
      /\ UNCHANGED <<stream, now, context, trades, seen, tick, disk, entries, torn>>
  BY DEF Receive, PollInv
<1>2. next \in poll.queue
  <2>1. poll.queue \in SUBSET Nat
    BY <1>1 DEF StreamInv, Ids
  <2>2. \E n \in poll.queue : \A m \in poll.queue : n <= m
    BY <1>1, <2>1, Smallest
  <2>3. QED BY <2>2 DEF Min
<1> HIDE DEF next
<1>3. /\ next \in Ids /\ stream[next].id = next
      /\ poll'.message = stream[next] /\ poll'.queue = poll.queue \ {next}
      /\ poll'.at = "reading"
  BY <1>1, <1>2 DEF StreamInv
<1>4. PollInv' /\ StartInv'
  BY <1>1, <1>3 DEF PollInv, Handled, Ids, StartInv
<1>5. MessageInv'
  BY <1>1, <1>2, <1>3 DEF MessageInv, Whole
<1>6. QED BY <1>1, <1>4, <1>5, QuietKeeps DEF StreamInv, KnownInv

\* The message is not applied.
LEMMA CheckedUnclearKeeps ==
  ASSUME PathsInv, CheckedUnclear, replay' = replay
  PROVE  PathsInv'
<1> USE DEF PathsInv
<1>1. /\ poll.at \in {"checking", "following"}
      /\ GoesOn(poll.message) /\ poll'.at = "tracing"
      /\ UNCHANGED <<stream, now, context, trades, seen, tick, disk, entries, torn>>
  BY TracedGoesOn DEF CheckedUnclear
<1>2. Handled
  BY <1>1 DEF PollInv, Idle
<1>3. PollInv' /\ StartInv'
  BY <1>1, <1>2, PollGoesOn DEF StartInv
<1>4. MessageInv'
  BY <1>1 DEF MessageInv, Whole, GoesOn
<1>5. QED BY <1>1, <1>3, <1>4, QuietKeeps DEF StreamInv, KnownInv

\* The message is traced.
LEMMA TraceKeeps ==
  ASSUME PathsInv, Trace, replay' = replay
  PROVE  PathsInv'
<1> USE DEF PathsInv
<1>1. PICK id \in Ids : Handled /\ id = poll.message.id
  BY DEF Trace, PollInv, Handled, Idle
<1> DEFINE traced == disk.traced \union {id}
<1>2. /\ poll.at = "tracing" /\ poll' = [at |-> "idle", queue |-> poll.queue]
      /\ disk' = [disk EXCEPT !.traced = traced] /\ seen' = Larger(seen, id)
      /\ tick' \in {Asleep, tick} /\ (tick' # tick => tick = Off)
      /\ UNCHANGED <<stream, now, context, trades, entries, torn>>
  BY <1>1 DEF Trace, StartOthers, Idle, KnownInv, DiskFields
<1>3. /\ DOMAIN disk' = DiskFields /\ disk'.signals = disk.signals
      /\ disk'.open = disk.open /\ disk'.traced = traced
  BY <1>2 DEF KnownInv, DiskFields
<1>4. traced \subseteq Ids
  BY DEF KnownInv
<1>5. Ids = 1..Len(stream) /\ Len(stream) \in Nat /\ seen \in 0..Len(stream)
  BY DEF StreamInv, Ids
<1>6. /\ seen' \in 0..Len(stream) /\ id <= seen'
      /\ \A i \in Nat : i <= seen => i <= seen'
  BY <1>2, <1>5, LargerId
<1>7. PollInv' /\ StartInv'
  BY <1>1, <1>2 DEF PollInv, Idle, Handled, Ids, StartInv
<1>8. MessageInv'
  <2>1. \A i \in Whole(DOMAIN context.signals) :
          /\ i \in Nat /\ i \notin poll.queue
          /\ (i <= seen /\ i \in disk.traced) \/ i = id
    BY <1>1, <1>2, <1>5 DEF MessageInv, KnownInv, AreSignals, Whole
  <2>2. \A i \in Whole(DOMAIN context.signals) :
          i \notin poll.queue /\ i <= seen' /\ i \in disk'.traced
    BY <1>3, <1>6, <2>1
  <2>3. QED BY <1>2, <2>2 DEF MessageInv, Whole
<1>9. tick' = tick \/ (tick.at # "registering" /\ tick' = Asleep)
  BY <1>2 DEF Off
<1>10. QED BY <1>2, <1>3, <1>4, <1>6, <1>7, <1>8, <1>9, QuietKeeps DEF StreamInv

\* The message is dropped.
LEMMA DropKeeps ==
  ASSUME PathsInv, Drop, replay' = replay
  PROVE  PathsInv'
<1> USE DEF PathsInv
<1>1. PICK id \in Ids : Handled /\ id = poll.message.id
  BY DEF Drop, PollInv, Handled, Idle
<1>2. /\ poll.at \in {"reading", "checking", "following"}
      /\ poll' = [at |-> "idle", queue |-> poll.queue] /\ seen' = Larger(seen, id)
      /\ tick' \in {Asleep, tick} /\ (tick' # tick => tick = Off)
      /\ UNCHANGED <<stream, now, context, trades, disk, entries, torn>>
  BY <1>1 DEF Drop, StartOthers, Idle
<1>3. Ids = 1..Len(stream) /\ Len(stream) \in Nat /\ seen \in 0..Len(stream)
  BY DEF StreamInv, Ids
<1>4. seen' \in 0..Len(stream) /\ \A i \in Nat : i <= seen => i <= seen'
  BY <1>2, <1>3, LargerId
<1>5. PollInv' /\ StartInv'
  BY <1>1, <1>2 DEF PollInv, Idle, Handled, Ids, StartInv
<1>6. MessageInv'
  <2>1. \A i \in Whole(DOMAIN context.signals) :
          i \in Nat /\ i \notin poll.queue /\ i <= seen /\ i \in disk.traced
    BY <1>2, <1>3 DEF MessageInv, KnownInv, AreSignals, Whole
  <2>2. \A i \in Whole(DOMAIN context.signals) :
          i \notin poll.queue /\ i <= seen' /\ i \in disk.traced
    BY <1>4, <2>1
  <2>3. QED BY <1>2, <2>2 DEF MessageInv, Whole
<1>7. tick' = tick \/ (tick.at # "registering" /\ tick' = Asleep)
  BY <1>2 DEF Off
<1>8. QED BY <1>2, <1>4, <1>5, <1>6, <1>7, QuietKeeps DEF StreamInv, KnownInv

\* The task wakes.
LEMMA WakeKeeps ==
  ASSUME PathsInv, Wake, replay' = replay
  PROVE  PathsInv'
<1> USE DEF PathsInv
<1>1. /\ tick = Asleep /\ tick' = [at |-> "choosing", todo |-> Due]
      /\ UNCHANGED <<stream, now, context, trades, seen, poll, disk, entries, torn>>
  BY DEF Wake
<1>2. Due \subseteq context.pending
  BY DEF Due
<1> DEFINE due == Due
<1>3. due \subseteq DOMAIN context.signals /\ \A i \in Whole(due) : Pending(i)
  BY <1>2 DEF KnownInv, PhaseInv, Whole
<1>4. tick'.at = "choosing" /\ tick'.todo = due /\ tick.at # "registering"
  BY <1>1 DEF Asleep
<1> HIDE DEF due
<1>5. PollInv' /\ MessageInv' /\ StartInv'
  BY <1>1, PollStays, MessageStays DEF StartInv, Asleep, Off
<1>6. QED BY <1>1, <1>3, <1>4, <1>5, QuietKeeps DEF StreamInv, KnownInv

\* The task ends with an exception that no storing is cut by.
LEMMA TickDiesWholeKeeps ==
  ASSUME PathsInv, TickDies, tick.at # "registering", replay' = replay
  PROVE  PathsInv'
<1> USE DEF PathsInv
<1>1. /\ tick' = [at |-> "dead"]
      /\ UNCHANGED <<stream, now, context, trades, seen, poll, disk, entries, torn>>
  BY DEF TickDies
<1>2. PollInv' /\ MessageInv' /\ StartInv'
  BY <1>1, PollStays, MessageStays DEF StartInv, Off, TickDies
<1>3. QED BY <1>1, <1>2, QuietKeeps DEF StreamInv, KnownInv

\* The store fails between the entry and the signal: the signal is torn.
LEMMA TickDiesTornKeeps ==
  ASSUME PathsInv, TickDies, tick.at = "registering", replay' = replay
  PROVE  PathsInv'
<1> USE DEF PathsInv
<1>1. /\ Chosen /\ IsTrade(tick.trade) /\ tick' = [at |-> "dead"]
      /\ UNCHANGED <<stream, now, seen, poll, disk, entries>>
  BY DEF TickDies, TickInv, Off, Asleep
<1>2. PICK id \in DOMAIN context.signals : id = tick.signal
  BY <1>1 DEF Chosen
<1> DEFINE after == WithStatus(id, "open", context.signals[id].updated)
<1>3. context.signals[id].updated \in Nat /\ "open" \in Statuses
  BY DEF KnownInv, AreSignals, IsSignal, Statuses
<1>4. /\ DOMAIN after = ContextFields
      /\ DOMAIN after.signals = DOMAIN context.signals
      /\ \A i \in DOMAIN context.signals \ {id} :
           after.signals[i] = context.signals[i]
      /\ IsSignal(after.signals[id]) /\ after.pending = context.pending \ {id}
  BY <1>3, StatusSignal
<1>5. /\ trades' = Put(trades, id, tick.trade) /\ context' = after
      /\ torn' = torn \union {id}
  BY <1>2 DEF TickDies
<1> HIDE DEF after
<1>6. \A i \in DOMAIN after.signals : IsSignal(after.signals[i])
  <2>1. \A i \in DOMAIN context.signals \ {id} : IsSignal(after.signals[i])
    BY <1>4 DEF KnownInv, AreSignals
  <2>2. QED BY <1>4, <2>1
<1>7. KnownInv'
  <2>1. AreSignals(context.signals)' /\ AreSignals(disk.signals)'
    BY <1>1, <1>4, <1>5, <1>6 DEF KnownInv, AreSignals, Ids
  <2>2. id \in Ids /\ torn' \subseteq Ids
    BY <1>5 DEF KnownInv, AreSignals
  <2>3. QED BY <1>1, <1>4, <1>5, <2>1, <2>2 DEF KnownInv, Ids
<1>8. TradesInv'
  <2>1. DOMAIN trades' = DOMAIN trades \union {id} /\ AreTrades(trades')
    BY <1>1, <1>5 DEF Put, TradesInv, AreTrades
  <2>2. QED BY <1>1, <1>4, <1>5, <2>1 DEF TradesInv, AreTrades
<1>9. TickInv' /\ Opening' = {}
  BY <1>1 DEF TickInv, Opening
<1>10. \A i \in DOMAIN context.signals \ {id} :
         (Pending(i)' <=> Pending(i)) /\ (PendingThere(i)' <=> PendingThere(i))
  BY <1>1, <1>4, <1>5 DEF Pending, PendingThere
<1>11. PhaseInv'
  <2>1. \A i \in context'.pending : Pending(i)'
    BY <1>4, <1>5, <1>10 DEF PhaseInv, KnownInv
  <2>2. /\ Whole(DOMAIN trades)' \subseteq Whole(DOMAIN trades) \ {id}
        /\ Whole(DOMAIN disk.open)' \subseteq Whole(DOMAIN disk.open) \ {id}
    BY <1>1, <1>5 DEF Whole, Put
  <2>3. /\ Whole(DOMAIN trades) \subseteq DOMAIN context.signals
        /\ Whole(DOMAIN disk.open) \subseteq DOMAIN context.signals
    BY DEF TradesInv, Whole
  <2>4. \A i \in Whole(DOMAIN trades)' : ~Pending(i)'
    BY <1>10, <2>2, <2>3 DEF PhaseInv
  <2>5. \A i \in Whole(DOMAIN disk.open)' : ~PendingThere(i)'
    BY <1>10, <2>2, <2>3 DEF PhaseInv
  <2>6. Whole(Opening)' = {}
    BY <1>9 DEF Whole
  <2>7. QED BY <1>1, <2>1, <2>4, <2>5, <2>6 DEF PhaseInv
<1>12. EnteredInv'
  <2>1. ASSUME NEW k \in DOMAIN entries, entries[k].signal \notin torn'
        PROVE  /\ entries[k].signal \in DOMAIN context'.signals
               /\ ~Pending(entries[k].signal)' /\ ~PendingThere(entries[k].signal)'
    <3>0. PICK i : i = entries[k].signal
      OBVIOUS
    <3>1. i \notin torn /\ i # id
      BY <1>5, <2>1, <3>0
    <3>2. i \in DOMAIN context.signals /\ ~Pending(i) /\ ~PendingThere(i)
      BY <1>2, <3>0, <3>1 DEF EnteredInv
    <3>3. i \in DOMAIN context'.signals /\ ~Pending(i)' /\ ~PendingThere(i)'
      BY <1>4, <1>5, <1>10, <3>1, <3>2
    <3>4. QED BY <1>1, <3>0, <3>3 DEF Pending, PendingThere
  <2>2. QED BY <1>1, <2>1 DEF EnteredInv
<1>13. PollInv' /\ StartInv'
  BY <1>1, <1>4, <1>5, PollStays DEF StartInv, Off
<1>14. MessageInv'
  BY <1>1, <1>4, <1>5 DEF MessageInv, Whole
<1>15. StreamInv' /\ EntriesInv' /\ ReplayInv' /\ OneEntryPerSignal'
  BY <1>1, <1>5 DEF StreamInv, EntriesInv, ReplayInv, OneEntryPerSignal, Ids
<1>16. QED BY <1>7, <1>8, <1>9, <1>11, <1>12, <1>13, <1>14, <1>15

\* The task ends with an exception.
LEMMA TickDiesKeeps ==
  ASSUME PathsInv, TickDies, replay' = replay
  PROVE  PathsInv'
BY TickDiesWholeKeeps, TickDiesTornKeeps

-----------------------------------------------------------------------------
(* The steps of the message task that change a signal or a trade.          *)

\* The message task goes on with its message.
LEMMA MessageGoesOn ==
  ASSUME Handled, MessageInv, poll.at \in {"reading", "checking", "following", "closing"},
         GoesOn(poll.message), stream' = stream, seen' = seen, torn' = torn,
         DOMAIN context'.signals = DOMAIN context.signals,
         disk'.traced = disk.traced
  PROVE  PollInv' /\ MessageInv' /\ StartInv'
<1>1. /\ poll'.message = poll.message /\ poll'.queue = poll.queue
      /\ poll'.at \in {"tracing", "closing", "following"}
  BY DEF GoesOn
<1>2. PollInv' /\ StartInv'
  BY <1>1, PollGoesOn DEF StartInv
<1>3. MessageInv'
  BY <1>1 DEF MessageInv, Whole
<1>4. QED BY <1>2, <1>3

\* A trade ends while the task rests.
LEMMA EndTradeKeeps ==
  ASSUME PathsInv, ~Busy, NEW id \in DOMAIN trades,
         NEW status \in Statuses \ {"pending"}, NEW byStop \in BOOLEAN,
         EndTrade(id, status, byStop),
         UNCHANGED <<stream, now, seen, tick, entries, torn, replay>>,
         (PollInv /\ MessageInv /\ StartInv /\ Settles(id)) =>
           (PollInv' /\ MessageInv' /\ StartInv')
  PROVE  PathsInv'
<1> USE DEF PathsInv
<1>1. /\ Settles(id) /\ trades' = Without(trades, id)
      /\ disk'.open = Without(disk.open, id)
  BY EndTradeEffect
<1>2. /\ id \in DOMAIN context.signals /\ Touched(id) /\ id \in Ids
      /\ DOMAIN context'.signals = DOMAIN context.signals
      /\ context'.pending = context.pending \ {id}
  BY <1>1 DEF Settles, Touched, KnownInv, AreSignals
<1>3. KnownInv'
  BY <1>2, KnownTouched
<1>4. TradesInv'
  BY <1>1, <1>2 DEF TradesInv, AreTrades, Without
<1>5. tick.at \notin {"saving", "registering"}
  BY DEF Busy
<1>6. TickInv'
  BY <1>2, <1>5, TickStays
<1>7. PhaseInv'
  <2>1. Opening' = Opening
    BY DEF Opening
  <2>2. id \notin Whole(Opening)
    BY DEF PhaseInv, Whole
  <2>3. Whole(Opening)' \subseteq Whole(Opening) \ {id}
    BY <2>1, <2>2 DEF Whole
  <2>4. /\ DOMAIN trades' \subseteq DOMAIN trades \union {id}
        /\ DOMAIN disk'.open \subseteq DOMAIN disk.open \union {id}
    BY <1>1 DEF Without
  <2>5. tick'.at \in {"quoting", "submitting", "registering"} =>
          tick'.signal \notin tick'.todo
    BY DEF PhaseInv
  <2>6. QED BY <1>1, <1>5, <2>3, <2>4, <2>5, PhaseSettles
<1>8. EnteredInv'
  BY <1>1, <1>5, EnteredSettles
<1>9. QED BY <1>1, <1>3, <1>4, <1>6, <1>7, <1>8, RestStays

\* A trade goes on while the task rests.
LEMMA KeepTradeKeeps ==
  ASSUME PathsInv, ~Busy, NEW id \in DOMAIN trades, NEW trade, IsTrade(trade),
         KeepTrade(id, trade),
         UNCHANGED <<stream, now, seen, tick, entries, torn, replay>>,
         (PollInv /\ MessageInv /\ StartInv /\ Stays(id)) =>
           (PollInv' /\ MessageInv' /\ StartInv')
  PROVE  PathsInv'
<1> USE DEF PathsInv
<1>1. /\ Stays(id) /\ DOMAIN trades' = DOMAIN trades
      /\ DOMAIN disk'.open = DOMAIN disk.open \union {id}
      /\ AreTrades(trades') /\ AreTrades(disk'.open)
  BY KeepTradeEffect
<1>2. /\ id \in DOMAIN context.signals /\ Touched(id) /\ id \in Ids
      /\ DOMAIN context'.signals = DOMAIN context.signals
      /\ context'.pending = context.pending
  BY <1>1 DEF Stays, Touched, KnownInv, AreSignals
<1>3. KnownInv'
  BY <1>2, KnownTouched
<1>4. TradesInv'
  BY <1>1, <1>2 DEF TradesInv, AreTrades
<1>5. tick.at \notin {"saving", "registering"}
  BY DEF Busy
<1>6. TickInv'
  BY <1>2, <1>5, TickStays
<1>7. PhaseInv'
  <2>1. DOMAIN disk'.open \subseteq DOMAIN trades
    BY <1>1 DEF TradesInv
  <2>2. QED BY <1>1, <1>5, <2>1, PhaseStays
<1>8. EnteredInv'
  BY <1>1, EnteredStays
<1>9. QED BY <1>1, <1>3, <1>4, <1>6, <1>7, <1>8, RestStays

\* A directive is applied to its trade.
LEMMA FollowKeeps ==
  ASSUME PathsInv, Follow, replay' = replay
  PROVE  PathsInv'
<1> DEFINE id == poll.signal
<1> USE DEF PathsInv
<1>1. /\ poll.at = "following" /\ ~Busy /\ Handled /\ IsReading(poll.parsed)
      /\ UNCHANGED <<stream, now, seen, tick, entries, torn>>
  BY DEF Follow, PollInv, Idle
<1>2. GoesOn(poll.message)
  BY TracedGoesOn DEF Follow
<1>3. CASE id \notin DOMAIN trades
  <2>1. UNCHANGED <<context, trades, disk>>
    BY <1>3 DEF Follow
  <2>2. PollInv' /\ MessageInv' /\ StartInv'
    BY <1>1, <1>2, <2>1, MessageGoesOn
  <2>3. QED BY <1>1, <2>1, <2>2, QuietKeeps DEF StreamInv, KnownInv
<1>4. CASE id \in DOMAIN trades
  <2>1. PICK after \in Followed(trades[id], poll.parsed, poll.message.text) :
          IF after = None
          THEN EndTrade(id, EndedAs(trades[id], poll.parsed), FALSE)
          ELSE KeepTrade(id, after)
    BY <1>4 DEF Follow
  <2>2. IsTrade(trades[id])
    BY <1>4 DEF TradesInv, AreTrades
  <2>3. Settles(id) \/ Stays(id) => PollInv' /\ MessageInv' /\ StartInv'
    <3>1. Settles(id) \/ Stays(id) =>
            /\ DOMAIN context'.signals = DOMAIN context.signals
            /\ disk'.traced = disk.traced
      BY DEF Settles, Stays, Touched
    <3>2. QED BY <1>1, <1>2, <3>1, MessageGoesOn
  <2>4. CASE after = None
    <3> DEFINE status == EndedAs(trades[id], poll.parsed)
    <3>1. status \in Statuses \ {"pending"} /\ EndTrade(id, status, FALSE)
      BY <2>1, <2>4 DEF EndedAs, Statuses
    <3> HIDE DEF status
    <3>2. QED BY <1>1, <1>4, <2>3, <3>1, EndTradeKeeps
  <2>5. CASE after # None
    <3>1. IsTrade(after) /\ KeepTrade(id, after)
      BY <1>1, <2>1, <2>2, <2>5, FollowedIsTrade
    <3>2. QED BY <1>1, <1>4, <2>3, <3>1, KeepTradeKeeps
  <2>6. QED BY <2>4, <2>5
<1>5. QED BY <1>3, <1>4

\* One of the trades that are to be closed is.
LEMMA CloseNextKeeps ==
  ASSUME PathsInv, CloseNext, replay' = replay
  PROVE  PathsInv'
<1> USE DEF PathsInv
<1>1. /\ poll.at = "closing" /\ ~Busy /\ Handled
      /\ UNCHANGED <<stream, now, seen, tick, entries, torn>>
  BY DEF CloseNext, PollInv, Idle
<1>2. PICK id \in poll.rest :
        /\ \/ UNCHANGED <<context, trades, disk>>
           \/ /\ id \in DOMAIN trades
              /\ EndTrade(id, EndedAs(trades[id], poll.message.parsed), FALSE)
        /\ ClosingAll(poll.message, poll.rest \ {id})
  BY DEF CloseNext
<1>3. GoesOn(poll.message)
  <2>1. CASE poll.rest \ {id} = {}
    BY <1>2, <2>1, TracedGoesOn DEF ClosingAll
  <2>2. CASE poll.rest \ {id} # {}
    BY <1>2, <2>2 DEF ClosingAll, GoesOn
  <2>3. QED BY <2>1, <2>2
<1>4. CASE UNCHANGED <<context, trades, disk>>
  <2>1. PollInv' /\ MessageInv' /\ StartInv'
    BY <1>1, <1>3, <1>4, MessageGoesOn
  <2>2. QED BY <1>1, <1>4, <2>1, QuietKeeps DEF StreamInv, KnownInv
<1>5. CASE /\ id \in DOMAIN trades
           /\ EndTrade(id, EndedAs(trades[id], poll.message.parsed), FALSE)
  <2> DEFINE status == EndedAs(trades[id], poll.message.parsed)
  <2>1. status \in Statuses \ {"pending"} /\ EndTrade(id, status, FALSE)
    BY <1>5 DEF EndedAs, Statuses
  <2>2. Settles(id) => PollInv' /\ MessageInv' /\ StartInv'
    BY <1>1, <1>3, MessageGoesOn DEF Settles, Touched
  <2> HIDE DEF status
  <2>3. QED BY <1>1, <1>5, <2>1, <2>2, EndTradeKeeps
<1>6. QED BY <1>2, <1>4, <1>5

\* A resting entry fills.
LEMMA EntryFillsKeeps ==
  ASSUME PathsInv, EntryFills, replay' = replay
  PROVE  PathsInv'
<1> USE DEF PathsInv
<1>1. /\ ~Busy /\ tick # Off
      /\ UNCHANGED <<stream, now, seen, poll, tick, entries, torn>>
  BY DEF EntryFills
<1>2. PICK id \in DOMAIN trades :
        \E filled \in Filled(trades[id]) : KeepTrade(id, filled)
  BY DEF EntryFills
<1>3. PICK filled \in Filled(trades[id]) : KeepTrade(id, filled)
  BY <1>2
<1>4. IsTrade(filled)
  BY FilledAreTrades DEF TradesInv, AreTrades, IsTrade
<1>5. Stays(id) => PollInv' /\ MessageInv' /\ StartInv'
  BY <1>1, PollStays, MessageStays DEF Stays, Touched, StartInv
<1>6. QED BY <1>1, <1>3, <1>4, <1>5, KeepTradeKeeps

\* A position ends.
LEMMA TradeEndsKeeps ==
  ASSUME PathsInv, TradeEnds, replay' = replay
  PROVE  PathsInv'
<1> USE DEF PathsInv
<1>1. /\ ~Busy /\ tick # Off
      /\ UNCHANGED <<stream, now, seen, poll, tick, entries, torn>>
  BY DEF TradeEnds
<1>2. PICK id \in DOMAIN trades, byStop \in BOOLEAN : EndTrade(id, "closed", byStop)
  BY DEF TradeEnds
<1>3. Settles(id) => PollInv' /\ MessageInv' /\ StartInv'
  BY <1>1, PollStays, MessageStays DEF Settles, Touched, StartInv
<1>4. "closed" \in Statuses \ {"pending"}
  BY DEF Statuses
<1>5. QED BY <1>1, <1>2, <1>3, <1>4, EndTradeKeeps

\* The message that is handled is one of the messages.
LEMMA HandledIsMessage ==
  ASSUME StreamInv, Handled
  PROVE  /\ poll.message \in Messages
         /\ poll.message.id \in Ids /\ poll.message.date \in Nat
<1>1. poll.message = stream[poll.message.id] /\ poll.message.id \in Ids
  BY DEF Handled
<1>2. \A m \in DOMAIN stream : stream[m] \in Messages
  BY DEF StreamInv
<1>3. poll.message \in Messages
  BY <1>1, <1>2 DEF Ids
<1>4. \A m \in Messages : m.date \in Nat
  BY DEF Messages
<1>5. QED BY <1>1, <1>3, <1>4

\* The message is classified, and routed or checked.
LEMMA ClassifyKeeps ==
  ASSUME PathsInv, Classify, replay' = replay
  PROVE  PathsInv'
<1> DEFINE message == poll.message
           known == WithMessage(context, message)
           parsed == Interpreted(message)
           id == RelatedSignal(known, message, parsed)
<1> USE DEF PathsInv
<1>1. /\ poll.at = "reading" /\ ~Busy /\ Handled
      /\ UNCHANGED <<stream, now, trades, seen, tick, entries, torn>>
  BY DEF Classify, PollInv, Idle
<1>2. message \in Messages /\ message.id \in Ids /\ message.date \in Nat
  BY <1>1, HandledIsMessage
<1>3. IsReading(parsed)
  BY <1>2, InterpretedIsReading
<1>4. DOMAIN known = ContextFields /\ SameSignals(context, known)
  <2>1. DOMAIN context = ContextFields
    BY DEF KnownInv
  <2>2. SameSignals(context, known)
    BY <2>1, ReadMessage
  <2>3. QED BY <2>2 DEF SameSignals
<1> HIDE DEF known, parsed
<1>5. id \in DOMAIN context.signals \union {0}
  <2>1. Len(stream) \in Nat /\ DOMAIN known.signals \subseteq 1..Len(stream)
    BY <1>4 DEF StreamInv, KnownInv, AreSignals, Ids, SameSignals
  <2>2. \A i \in DOMAIN known.signals : known.signals[i].updated \in Nat
    BY <1>4 DEF KnownInv, AreSignals, SameSignals, IsSignal
  <2>3. id \in DOMAIN known.signals \union {0}
    BY <2>1, <2>2, RelatedIsKnown
  <2>4. QED BY <1>4, <2>3 DEF SameSignals
<1> DEFINE checked == /\ id \in DOMAIN trades /\ At("checking", message, parsed, id)
                      /\ context' = known /\ disk' = disk
<1>6. checked \/ Routed(known, message, parsed, id)
  BY DEF Classify, known, parsed
<1> HIDE DEF id
<1>7. CASE Routed(known, message, parsed, id)
  <2>1. RouteOutcome(message)
    BY <1>2, <1>3, <1>4, <1>5, <1>7, RoutedEffect
  <2>2. QED BY <1>1, <2>1, RoutingKeeps
<1>8. CASE checked
  <2>1. /\ context'.signals = context.signals /\ context'.pending = context.pending
        /\ DOMAIN context' = ContextFields /\ disk' = disk
    BY <1>4, <1>8 DEF SameSignals
  <2>2. poll' = [at |-> "checking", queue |-> poll.queue, message |-> message,
                 parsed |-> parsed, signal |-> id]
    BY <1>8 DEF At
  <2>3. id \in DOMAIN context.signals
    BY <1>8 DEF TradesInv
  <2>4. PollInv' /\ StartInv'
    <3>1. Handled'
      BY <1>1, <2>2 DEF Handled, Ids
    <3>2. QED BY <1>3, <2>1, <2>2, <2>3, <3>1 DEF PollInv, StartInv
  <2>5. MessageInv'
    BY <1>1, <2>1, <2>2 DEF MessageInv, Whole
  <2>6. KnownInv'
    BY <1>1, <2>1 DEF KnownInv, AreSignals, Ids
  <2>7. TradesInv'
    BY <1>1, <2>1 DEF TradesInv, AreTrades
  <2>8. Opening' = Opening
    BY <1>1 DEF Opening
  <2>9. PhaseInv' /\ EnteredInv'
    BY <1>1, <2>1, <2>8 DEF PhaseInv, EnteredInv, Whole, Pending, PendingThere
  <2>10. TickInv'
    BY <1>1, <2>1, TickStays DEF Busy
  <2>11. QED BY <1>1, <2>4, <2>5, <2>6, <2>7, <2>9, <2>10, RestStays
<1>9. QED BY <1>6, <1>7, <1>8

\* The checked message is routed, about its trade or for itself.
LEMMA CheckedKeeps ==
  ASSUME PathsInv, CheckedAlive \/ CheckedClosed, replay' = replay
  PROVE  PathsInv'
<1> USE DEF PathsInv
<1>1. /\ poll.at = "checking" /\ ~Busy /\ Handled /\ IsReading(poll.parsed)
      /\ poll.signal \in DOMAIN context.signals
      /\ UNCHANGED <<stream, now, trades, seen, tick, entries, torn>>
  BY DEF CheckedAlive, CheckedClosed, PollInv, Idle
<1>2. PICK id \in DOMAIN context.signals \union {0} :
        Routed(context, poll.message, poll.parsed, id)
  BY <1>1 DEF CheckedAlive, CheckedClosed
<1>3. poll.message \in Messages /\ poll.message.id \in Ids /\ poll.message.date \in Nat
  BY <1>1, HandledIsMessage
<1>4. DOMAIN context = ContextFields /\ SameSignals(context, context)
  BY DEF KnownInv, SameSignals
<1>5. RouteOutcome(poll.message)
  BY <1>1, <1>2, <1>3, <1>4, RoutedEffect
<1>6. QED BY <1>1, <1>5, RoutingKeeps

-----------------------------------------------------------------------------
(* The steps of the task that opens the signals.                           *)

\* A signal the task decides without an entry: all but the entries stays.
LEMMA DecidedLeaves ==
  ASSUME PathsInv, tick.at \in {"choosing", "quoting", "submitting"},
         NEW id \in DOMAIN context.signals, NEW todo, todo \subseteq Opening \ {id},
         Settles(id), disk'.open = disk.open, tick' = Choosing(todo),
         UNCHANGED <<stream, now, trades, seen, poll, torn, replay>>
  PROVE  /\ StreamInv' /\ KnownInv' /\ TradesInv' /\ PollInv' /\ TickInv'
         /\ ReplayInv' /\ PhaseInv' /\ MessageInv' /\ StartInv'
         /\ tick'.at \notin {"registering", "saving"}
<1> USE DEF PathsInv
<1>2. /\ Touched(id) /\ id \in Ids /\ DOMAIN context'.signals = DOMAIN context.signals
      /\ context'.pending = context.pending \ {id} /\ disk'.traced = disk.traced
  BY DEF Settles, Touched, KnownInv, AreSignals
<1>3. KnownInv'
  BY <1>2, KnownTouched
<1>4. TradesInv' /\ PollInv' /\ MessageInv'
  BY <1>2, TradesStay, PollStays, MessageStays
<1>5. StreamInv' /\ ReplayInv'
  BY DEF StreamInv, ReplayInv, Ids
<1>6. StartInv'
  BY DEF StartInv, Off
<1>7. /\ tick' = Asleep \/ tick' = [at |-> "choosing", todo |-> todo]
      /\ tick'.at \in {"asleep", "choosing"}
  BY DEF Choosing, Asleep
<1>8. TickInv'
  BY <1>2, <1>7, OpeningKnown DEF TickInv
<1>9. PhaseInv'
  <2>1. Opening' \subseteq todo
    BY <1>7 DEF Opening, Asleep
  <2>2. Whole(Opening)' \subseteq Whole(Opening) \ {id}
    BY <2>1 DEF Whole
  <2>3. QED BY <1>7, <2>2, PhaseSettles
<1>10. QED BY <1>3, <1>4, <1>5, <1>6, <1>7, <1>8, <1>9

\* A signal the task decides without an entry.
LEMMA DecidedKeeps ==
  ASSUME PathsInv, tick.at \in {"choosing", "quoting", "submitting"},
         NEW id \in DOMAIN context.signals, NEW todo, todo \subseteq Opening \ {id},
         Settles(id), disk'.open = disk.open, tick' = Choosing(todo),
         UNCHANGED <<stream, now, trades, seen, poll, entries, torn, replay>>
  PROVE  PathsInv'
<1>1. /\ StreamInv' /\ KnownInv' /\ TradesInv' /\ PollInv' /\ TickInv'
      /\ ReplayInv' /\ PhaseInv' /\ MessageInv' /\ StartInv'
  BY DecidedLeaves
<1>2. EnteredInv'
  BY EnteredSettles DEF PathsInv
<1>3. EntriesInv' /\ OneEntryPerSignal'
  BY DEF PathsInv, EntriesInv, OneEntryPerSignal
<1>4. QED BY <1>1, <1>2, <1>3 DEF PathsInv

\* A signal the task refuses.
LEMMA RefuseKeeps ==
  ASSUME PathsInv, tick.at \in {"choosing", "quoting"},
         NEW id \in DOMAIN context.signals, NEW status \in Statuses \ {"pending"},
         NEW current, current = None \/ IsReading(current),
         NEW todo, todo \subseteq Opening \ {id},
         Refuse(id, status, current, todo),
         UNCHANGED <<stream, now, trades, seen, poll, entries, torn, replay>>
  PROVE  PathsInv'
<1>1. Settles(id) /\ disk'.open = disk.open /\ tick' = Choosing(todo)
  BY RefuseEffect DEF PathsInv
<1>2. QED BY <1>1, DecidedKeeps

\* The signal that is opened is refused as it is.
LEMMA RefuseChosenKeeps ==
  ASSUME PathsInv, tick.at = "quoting",
         NEW status \in Statuses \ {"pending"},
         Refuse(tick.signal, status, context.signals[tick.signal].current, tick.todo),
         UNCHANGED <<stream, now, trades, seen, poll, entries, torn, replay>>
  PROVE  PathsInv'
<1>1. tick.signal \in DOMAIN context.signals
  BY DEF PathsInv, TickInv, Chosen, Off, Asleep
<1>2. tick.todo \subseteq Opening \ {tick.signal}
  BY DEF PathsInv, PhaseInv, Opening
<1> DEFINE current == context.signals[tick.signal].current
<1>3. current = None \/ IsReading(current)
  BY <1>1 DEF PathsInv, KnownInv, AreSignals, IsSignal
<1> HIDE DEF current
<1>4. Refuse(tick.signal, status, current, tick.todo)
  BY DEF current
<1>5. QED BY <1>1, <1>2, <1>3, <1>4, RefuseKeeps

\* A reading is normalized to a reading, and priced to one.
LEMMA NormalizedIsReading ==
  ASSUME NEW parsed, IsReading(parsed)
  PROVE  IsReading(Normalize(parsed))
<1> DEFINE said(type, side) == [parsed EXCEPT !.type = type, !.side = side]
<1>1. Normalize(parsed) = parsed \/ \E type, side : Normalize(parsed) = said(type, side)
  BY DEF Normalize
<1>2. QED BY <1>1 DEF IsReading

\* A reading that takes the mark price is a reading.
LEMMA PricedIsReading ==
  ASSUME NEW parsed, IsReading(parsed), NEW mark \in {0, Mark}
  PROVE  IsReading(Priced(parsed, mark))
<1> DEFINE marked == [parsed EXCEPT !.entry = mark]
<1>1. mark # 0 => mark \in EntryPrices
  BY PricesAssumption
<1>2. Priced(parsed, mark) = parsed \/ (mark # 0 /\ Priced(parsed, mark) = marked)
  BY DEF Priced
<1>3. QED BY <1>1, <1>2 DEF IsReading

\* The symbol cannot be traded, or entries are blocked.
LEMMA UntradableKeeps ==
  ASSUME PathsInv, Untradable \/ Blocked, replay' = replay
  PROVE  PathsInv'
<1>1. /\ tick.at = "quoting"
      /\ Refuse(tick.signal, "invalid", context.signals[tick.signal].current, tick.todo)
      /\ UNCHANGED <<stream, now, trades, seen, poll, entries, torn>>
  BY DEF Untradable, Blocked
<1>2. "invalid" \in Statuses \ {"pending"}
  BY DEF Statuses
<1>3. QED BY <1>1, <1>2, RefuseChosenKeeps

\* The entry failed, or was not needed: its trade is one that was sized.
LEMMA NotSubmittedKeeps ==
  ASSUME PathsInv, NotSubmitted, replay' = replay
  PROVE  PathsInv'
<1> USE DEF PathsInv
<1>1. /\ tick.at = "submitting" /\ Chosen /\ IsReading(tick.parsed)
      /\ tick.trade = Sized(tick.parsed) /\ tick.trade.remaining # 0
      /\ UNCHANGED <<stream, now, trades, seen, poll, entries, torn>>
  BY DEF NotSubmitted, TickInv, Off, Asleep
<1>2. FitsSize(tick.trade, tick.trade.quantity)
  BY <1>1, SizedFits
<1>3. PICK status \in {"invalid", "closed"},
           trade \in Offered(tick.trade) \union {tick.trade} :
        SaveUnopened(status, trade)
  BY DEF NotSubmitted
<1>4. HasNumbers(trade)
  BY <1>2, <1>3, OfferedFits DEF FitsSize
<1>5. status \in Statuses \ {"pending"} /\ tick.signal \in DOMAIN context.signals
  BY <1>1 DEF Statuses, Chosen
<1>6. /\ Settles(tick.signal) /\ disk'.open = disk.open
      /\ tick' = Choosing(tick.todo)
  BY <1>3, <1>4, <1>5, SaveUnopenedEffect
<1>7. tick.todo \subseteq Opening \ {tick.signal}
  BY <1>1 DEF PhaseInv, Opening
<1>8. QED BY <1>1, <1>5, <1>6, <1>7, DecidedKeeps

\* The signal that is opened goes on to the next place; what waits stays.
LEMMA TickGoesOn ==
  ASSUME PathsInv, TickInv', Opening' \subseteq Opening,
         tick.at # "registering",
         tick'.at \in {"asleep", "choosing", "quoting", "submitting", "registering"},
         tick'.at \in {"quoting", "submitting", "registering"} =>
           tick'.signal \notin tick'.todo,
         DOMAIN context' = ContextFields, context'.signals = context.signals,
         context'.pending \subseteq context.pending,
         UNCHANGED <<stream, now, trades, seen, poll, disk, torn, replay>>
  PROVE  /\ StreamInv' /\ KnownInv' /\ TradesInv' /\ PollInv' /\ ReplayInv'
         /\ PhaseInv' /\ MessageInv' /\ (entries' = entries => EnteredInv')
<1> USE DEF PathsInv
<1>1. KnownInv'
  BY DEF KnownInv, AreSignals, Ids
<1>2. TradesInv' /\ PollInv' /\ MessageInv'
  BY TradesStay, PollStays, MessageStays
<1>3. StreamInv' /\ ReplayInv'
  BY DEF StreamInv, ReplayInv, Ids
<1>4. /\ \A i : (Pending(i)' <=> Pending(i)) /\ (PendingThere(i)' <=> PendingThere(i))
  BY DEF Pending, PendingThere
<1>5. PhaseInv'
  BY <1>4 DEF PhaseInv, Whole
<1>6. entries' = entries => EnteredInv'
  BY <1>4 DEF EnteredInv
<1>7. QED BY <1>1, <1>2, <1>3, <1>5, <1>6

\* A signal that is due is opened, or decided.
LEMMA ChooseKeeps ==
  ASSUME PathsInv, Choose, replay' = replay
  PROVE  PathsInv'
<1> USE DEF PathsInv
<1>1. /\ tick.at = "choosing" /\ tick.todo \subseteq DOMAIN context.signals
      /\ Opening = tick.todo
      /\ UNCHANGED <<stream, now, trades, seen, poll, entries, torn>>
  BY DEF Choose, TickInv, Opening, Off, Asleep
<1>2. PICK id \in tick.todo :
        LET rest == tick.todo \ {id}
            current == context.signals[id].current
            parsed == Normalize(current)
            leaves == [context EXCEPT !.pending = @ \ {id}]
        IN \/ /\ current = None /\ context' = leaves /\ disk' = disk
              /\ tick' = Choosing(rest)
           \/ \E status \in {"invalid", "cancelled"} : Refuse(id, status, current, rest)
           \/ /\ current # None /\ context' = leaves /\ disk' = disk
              /\ tick' = [at |-> "quoting", todo |-> rest, signal |-> id,
                          parsed |-> parsed,
                          merged |-> context.signals[id].messages \ {id}]
  BY DEF Choose
<1> DEFINE rest == tick.todo \ {id}
           current == context.signals[id].current
           parsed == Normalize(current)
           merged == context.signals[id].messages \ {id}
<1>3. id \in DOMAIN context.signals /\ rest \subseteq Opening \ {id}
  BY <1>1
<1>4. current = None \/ IsReading(current)
  BY <1>3 DEF KnownInv, AreSignals, IsSignal
<1>5. current # None => IsReading(parsed)
  BY <1>4, NormalizedIsReading
<1> HIDE DEF current, parsed, rest, merged
<1>6. CASE \E status \in {"invalid", "cancelled"} : Refuse(id, status, current, rest)
  <2>1. PICK status \in {"invalid", "cancelled"} : Refuse(id, status, current, rest)
    BY <1>6
  <2>2. status \in Statuses \ {"pending"}
    BY DEF Statuses
  <2>3. QED BY <1>1, <1>3, <1>4, <2>1, <2>2, RefuseKeeps
<1> DEFINE leaves == [context EXCEPT !.pending = @ \ {id}]
           quoting == [at |-> "quoting", todo |-> rest, signal |-> id,
                       parsed |-> parsed, merged |-> merged]
<1>7. CASE /\ context' = leaves /\ disk' = disk
           /\ tick' = Choosing(rest) \/ (current # None /\ tick' = quoting)
  <2>1. /\ DOMAIN context' = ContextFields /\ context'.signals = context.signals
        /\ context'.pending \subseteq context.pending
    BY <1>7 DEF KnownInv, ContextFields
  <2>2. /\ TickInv' /\ Opening' \subseteq Opening
        /\ tick'.at \in {"asleep", "choosing", "quoting"} /\ tick' # Off
        /\ tick'.at = "quoting" => tick'.signal \notin tick'.todo
    <3>1. CASE tick' = Choosing(rest)
      <4>1. tick' = Asleep \/ (tick'.at = "choosing" /\ tick'.todo = rest)
        BY <3>1 DEF Choosing
      <4>2. QED BY <1>1, <1>3, <2>1, <4>1 DEF TickInv, Opening, Asleep, Off
    <3>2. CASE current # None /\ tick' = quoting
      <4>1. /\ tick'.at = "quoting" /\ tick'.todo = rest /\ tick'.signal = id
            /\ tick'.parsed = parsed
            /\ DOMAIN tick' = {"at", "todo", "signal", "parsed", "merged"}
        BY <3>2
      <4>2. id \notin rest
        BY DEF rest
      <4>3. IsReading(tick'.parsed)
        BY <1>5, <3>2, <4>1
      <4>4. TickInv'
        BY <1>1, <1>3, <2>1, <4>1, <4>3 DEF TickInv, Chosen
      <4>5. Opening' \subseteq Opening
        BY <1>1, <1>3, <4>1 DEF Opening
      <4>6. QED BY <4>1, <4>2, <4>4, <4>5 DEF Off
    <3>3. QED BY <1>7, <3>1, <3>2
  <2>3. /\ StreamInv' /\ KnownInv' /\ TradesInv' /\ PollInv' /\ ReplayInv'
        /\ PhaseInv' /\ MessageInv' /\ EnteredInv'
    BY <1>1, <1>7, <2>1, <2>2, TickGoesOn
  <2>4. EntriesInv' /\ OneEntryPerSignal' /\ StartInv'
    BY <1>1 DEF EntriesInv, OneEntryPerSignal, StartInv, Off
  <2>5. QED BY <2>2, <2>3, <2>4
<1>8. QED BY <1>2, <1>6, <1>7 DEF rest, current, parsed, merged

\* The signal is sized, or refused.
LEMMA QuotedKeeps ==
  ASSUME PathsInv, Quoted, replay' = replay
  PROVE  PathsInv'
<1> USE DEF PathsInv
<1>1. /\ tick.at = "quoting" /\ Chosen /\ IsReading(tick.parsed)
      /\ UNCHANGED <<stream, now, trades, seen, poll, entries, torn>>
  BY DEF Quoted, TickInv, Off, Asleep
<1> DEFINE asks(mark) == Priced(tick.parsed, mark)
           submitting(mark) ==
             [at |-> "submitting", todo |-> tick.todo, signal |-> tick.signal,
              merged |-> tick.merged, parsed |-> asks(mark),
              trade |-> Sized(asks(mark))]
<1>2. PICK mark \in {0, Mark} :
        \/ Refuse(tick.signal, "invalid", asks(mark), tick.todo)
        \/ Refuse(tick.signal, "invalid", context.signals[tick.signal].current,
                  tick.todo)
        \/ /\ Sized(asks(mark)).remaining # 0 /\ tick' = submitting(mark)
           /\ UNCHANGED <<context, disk>>
  BY DEF Quoted
<1> DEFINE parsed == asks(mark)
<1>3. IsReading(parsed)
  BY <1>1, PricedIsReading
<1>4. /\ Opening = tick.todo \union {tick.signal} /\ tick.signal \notin tick.todo
  BY <1>1 DEF Opening, PhaseInv
<1>5. "invalid" \in Statuses \ {"pending"}
  BY DEF Statuses
<1>6. CASE Refuse(tick.signal, "invalid", parsed, tick.todo)
  <2>1. /\ tick.signal \in DOMAIN context.signals
        /\ tick.todo \subseteq Opening \ {tick.signal}
    BY <1>1, <1>4 DEF Chosen
  <2> HIDE DEF parsed
  <2>2. QED BY <1>1, <1>3, <1>5, <1>6, <2>1, RefuseKeeps
<1>7. CASE Refuse(tick.signal, "invalid", context.signals[tick.signal].current,
                  tick.todo)
  BY <1>1, <1>5, <1>7, RefuseChosenKeeps
<1>8. CASE /\ Sized(parsed).remaining # 0 /\ tick' = submitting(mark)
           /\ UNCHANGED <<context, disk>>
  <2> HIDE DEF parsed
  <2>1. tick' = [at |-> "submitting", todo |-> tick.todo, signal |-> tick.signal,
                 merged |-> tick.merged, parsed |-> parsed, trade |-> Sized(parsed)]
    BY <1>8 DEF parsed
  <2>2. /\ tick'.at = "submitting" /\ tick'.todo = tick.todo
        /\ tick'.signal = tick.signal /\ tick'.parsed = parsed
        /\ tick'.trade = Sized(parsed)
        /\ DOMAIN tick' = {"at", "todo", "signal", "parsed", "merged", "trade"}
    BY <2>1
  <2>3. TickInv'
    <3>1. Chosen' /\ IsReading(tick'.parsed) /\ tick'.trade = Sized(tick'.parsed)
      BY <1>1, <1>3, <1>8, <2>2 DEF Chosen
    <3>2. tick'.trade.remaining # 0
      BY <1>8, <2>2
    <3>3. QED BY <2>2, <3>1, <3>2 DEF TickInv
  <2>4. Opening' = Opening
    BY <1>4, <2>2 DEF Opening
  <2>5. DOMAIN context = ContextFields
    BY DEF KnownInv
  <2>6. /\ StreamInv' /\ KnownInv' /\ TradesInv' /\ PollInv' /\ ReplayInv'
        /\ PhaseInv' /\ MessageInv' /\ EnteredInv'
    BY <1>1, <1>4, <1>8, <2>2, <2>3, <2>4, <2>5, TickGoesOn
  <2>7. EntriesInv' /\ OneEntryPerSignal' /\ StartInv'
    BY <1>1 DEF EntriesInv, OneEntryPerSignal, StartInv, Off
  <2>8. QED BY <2>3, <2>6, <2>7
<1>9. QED BY <1>2, <1>6, <1>7, <1>8

\* One more entry, of a signal none of the others is of unless it is torn.
LEMMA EntryAppended ==
  ASSUME EntriesInv, OneEntryPerSignal, torn' = torn,
         NEW entry, entries' = Append(entries, entry), entry.asked <= entry.sized,
         \A k \in DOMAIN entries :
           entries[k].signal = entry.signal => entry.signal \in torn
  PROVE  /\ EntriesInv' /\ OneEntryPerSignal'
         /\ \A k \in DOMAIN entries' :
              \/ k \in DOMAIN entries /\ entries'[k] = entries[k]
              \/ entries'[k] = entry
<1> DEFINE S == {entries[k] : k \in DOMAIN entries}
           T == S \union {entry}
<1>1. entries \in Seq(T)
  <2>1. entries \in Seq(S)
    BY DEF EntriesInv
  <2> HIDE DEF S
  <2>2. QED BY <2>1, SeqMonotonic
<1> HIDE DEF T
<1>2. entry \in T
  BY DEF T
<1>3. /\ Len(entries) \in Nat /\ DOMAIN entries = 1..Len(entries)
      /\ entries' \in Seq(T) /\ DOMAIN entries' = 1..(Len(entries) + 1)
      /\ \A k \in 1..Len(entries) : entries'[k] = entries[k]
      /\ entries'[Len(entries) + 1] = entry
  BY <1>1, <1>2
<1>4. \A k \in DOMAIN entries' :
        \/ k \in DOMAIN entries /\ entries'[k] = entries[k]
        \/ k = Len(entries) + 1 /\ entries'[k] = entry
  BY <1>3
<1>5. entries' \in Seq({entries'[k] : k \in DOMAIN entries'})
  <2> DEFINE U == {entries'[k] : k \in DOMAIN entries'}
             n == Len(entries) + 1
  <2>1. entries' \in [1..n -> T]
    BY <1>3, LenProperties
  <2>2. \A k \in 1..n : entries'[k] \in U
    BY <1>3
  <2> HIDE DEF U
  <2>3. entries' \in [1..n -> U]
    BY <2>1, <2>2
  <2>4. n \in Nat
    BY <1>3
  <2> HIDE DEF n
  <2>5. entries' \in Seq(U)
    BY <2>3, <2>4, SeqDef
  <2>6. QED BY <2>5 DEF U
<1>6. \A k \in DOMAIN entries' : entries'[k].asked <= entries'[k].sized
  BY <1>4 DEF EntriesInv
<1>7. OneEntryPerSignal'
  <2>1. SUFFICES ASSUME NEW i \in DOMAIN entries', NEW j \in DOMAIN entries', i < j,
                        entries'[i].signal = entries'[j].signal
                 PROVE  entries'[i].signal \in torn
    BY DEF OneEntryPerSignal
  <2>2. i \in DOMAIN entries /\ entries'[i] = entries[i]
    BY <1>3, <1>4, <2>1
  <2>3. CASE j \in DOMAIN entries /\ entries'[j] = entries[j]
    BY <2>1, <2>2, <2>3 DEF OneEntryPerSignal
  <2>4. CASE entries'[j] = entry
    BY <2>1, <2>2, <2>4
  <2>5. QED BY <1>4, <2>3, <2>4
<1>8. QED BY <1>4, <1>5, <1>6, <1>7 DEF EntriesInv

\* The entry is on the exchange.
LEMMA SubmittedKeeps ==
  ASSUME PathsInv, Submitted, replay' = replay
  PROVE  PathsInv'
<1> USE DEF PathsInv
<1>1. /\ tick.at = "submitting" /\ Chosen /\ IsReading(tick.parsed)
      /\ tick.trade = Sized(tick.parsed) /\ tick.trade.remaining # 0
      /\ DOMAIN tick = {"at", "todo", "signal", "parsed", "merged", "trade"}
      /\ UNCHANGED <<stream, now, trades, seen, poll, torn>>
  BY DEF Submitted, TickInv, Off, Asleep
<1>2. PICK id \in DOMAIN context.signals : id = tick.signal
  BY <1>1 DEF Chosen
<1> DEFINE registering(sent) == [tick EXCEPT !.at = "registering", !.trade = sent]
           entry(offered) == [signal |-> tick.signal, merged |-> tick.merged,
             parsed |-> tick.parsed, sized |-> tick.trade.quantity,
             asked |-> offered.quantity]
<1>3. PICK offered \in Offered(tick.trade) :
        /\ Executable(offered) /\ entries' = Append(entries, entry(offered))
        /\ \E sent \in OnExchange(offered, tick.parsed.type = "limit") :
             \/ SaveUnopened("invalid", sent)
             \/ tick' = registering(sent) /\ UNCHANGED <<context, disk>>
  BY DEF Submitted
<1>4. /\ HasNumbers(offered) /\ offered.status = "waiting"
      /\ offered.quantity <= tick.trade.quantity
  BY <1>1, <1>3, SizedFits, OfferedFits
<1>5. /\ Opening = tick.todo \union {id} /\ id \notin tick.todo
      /\ id \notin torn => Pending(id)
  BY <1>1, <1>2 DEF Opening, PhaseInv, Whole
<1>6. \A k \in DOMAIN entries : entries[k].signal \notin torn =>
        /\ entries[k].signal \in DOMAIN context.signals /\ entries[k].signal # id
        /\ ~Pending(entries[k].signal) /\ ~PendingThere(entries[k].signal)
  BY <1>1, <1>5 DEF EnteredInv
<1> DEFINE made == entry(offered)
<1>7. made.signal = id /\ made.asked <= made.sized
  BY <1>2, <1>4
<1>8. entries' = Append(entries, made)
  BY <1>3
<1> HIDE DEF made
<1>9. /\ EntriesInv' /\ OneEntryPerSignal'
      /\ \A k \in DOMAIN entries' :
           \/ k \in DOMAIN entries /\ entries'[k] = entries[k]
           \/ entries'[k] = made
  <2>1. \A k \in DOMAIN entries : entries[k].signal = made.signal => made.signal \in torn
    BY <1>6, <1>7
  <2>2. QED BY <1>1, <1>7, <1>8, <2>1, EntryAppended
<1>10. CASE \E sent \in OnExchange(offered, tick.parsed.type = "limit") :
              SaveUnopened("invalid", sent)
  <2>1. PICK sent \in OnExchange(offered, tick.parsed.type = "limit") :
          SaveUnopened("invalid", sent)
    BY <1>10
  <2>2. HasNumbers(sent)
    <3>1. (tick.parsed.type = "limit") \in BOOLEAN
      OBVIOUS
    <3>2. QED BY <1>4, <2>1, <3>1, SentAreTrades DEF IsTrade
  <2>3. "invalid" \in Statuses \ {"pending"} /\ tick.todo \subseteq Opening \ {id}
    BY <1>5 DEF Statuses
  <2>4. /\ StreamInv' /\ KnownInv' /\ TradesInv' /\ PollInv' /\ TickInv'
        /\ ReplayInv' /\ PhaseInv' /\ MessageInv' /\ StartInv' /\ Settles(id)
    <3>1. Settles(id) /\ disk'.open = disk.open /\ tick' = Choosing(tick.todo)
      BY <1>2, <2>1, <2>2, <2>3, SaveUnopenedEffect
    <3>2. QED BY <1>1, <2>3, <3>1, DecidedLeaves
  <2>5. EnteredInv'
    <3>1. ASSUME NEW k \in DOMAIN entries', NEW i, i = entries'[k].signal, i \notin torn
          PROVE  i \in DOMAIN context'.signals /\ ~Pending(i)' /\ ~PendingThere(i)'
      <4>1. i \in DOMAIN context.signals /\ (i = id \/ (~Pending(i) /\ ~PendingThere(i)))
        BY <1>6, <1>7, <1>9, <3>1
      <4>2. QED BY <2>4, <4>1, SettledStatus
    <3>2. ASSUME NEW k \in DOMAIN entries', entries'[k].signal \notin torn
          PROVE  /\ entries'[k].signal \in DOMAIN context'.signals
                 /\ context'.signals[entries'[k].signal].status # "pending"
                 /\ disk'.signals[entries'[k].signal].status # "pending"
      BY <3>1, <3>2 DEF Pending, PendingThere
    <3>3. QED BY <1>1, <3>2 DEF EnteredInv, Pending, PendingThere
  <2>6. QED BY <1>9, <2>4, <2>5
<1>11. CASE \E sent \in OnExchange(offered, tick.parsed.type = "limit") :
              tick' = registering(sent) /\ UNCHANGED <<context, disk>>
  <2>1. PICK sent \in OnExchange(offered, tick.parsed.type = "limit") :
          tick' = registering(sent) /\ UNCHANGED <<context, disk>>
    BY <1>11
  <2>2. (tick.parsed.type = "limit") \in BOOLEAN
    OBVIOUS
  <2>3. IsTrade(sent)
    BY <1>4, <2>2, SentAreTrades
  <2>4. /\ tick'.at = "registering" /\ tick'.todo = tick.todo /\ tick'.signal = id
        /\ tick'.trade = sent
        /\ DOMAIN tick' = {"at", "todo", "signal", "parsed", "merged", "trade"}
    BY <1>1, <1>2, <2>1
  <2>5. TickInv'
    BY <1>1, <1>2, <2>1, <2>3, <2>4 DEF TickInv, Chosen
  <2>6. Opening' = Opening
    BY <1>5, <2>4 DEF Opening
  <2>7. DOMAIN context = ContextFields
    BY DEF KnownInv
  <2>8. /\ StreamInv' /\ KnownInv' /\ TradesInv' /\ PollInv' /\ ReplayInv'
        /\ PhaseInv' /\ MessageInv'
    BY <1>1, <1>5, <2>1, <2>4, <2>5, <2>6, <2>7, TickGoesOn
  <2>9. EnteredInv'
    <3>1. ASSUME NEW k \in DOMAIN entries', entries'[k].signal \notin torn
          PROVE  LET i == entries'[k].signal
                 IN \/ i \in DOMAIN context.signals /\ ~Pending(i) /\ ~PendingThere(i)
                    \/ i = id
      BY <1>6, <1>7, <1>9, <3>1
    <3>2. QED BY <1>1, <2>1, <2>4, <3>1 DEF EnteredInv, Pending, PendingThere
  <2>10. StartInv'
    BY <1>1 DEF StartInv, Off
  <2>11. QED BY <1>9, <2>5, <2>8, <2>9, <2>10
<1>12. QED BY <1>3, <1>10, <1>11

\* The trade is known, and its signal open.
LEMMA RegisterKeeps ==
  ASSUME PathsInv, Register, replay' = replay
  PROVE  PathsInv'
<1> USE DEF PathsInv
<1>1. /\ tick.at = "registering" /\ Chosen /\ IsTrade(tick.trade)
      /\ DOMAIN tick = {"at", "todo", "signal", "parsed", "merged", "trade"}
      /\ UNCHANGED <<stream, now, seen, poll, entries, torn>>
  BY DEF Register, TickInv, Off, Asleep
<1>2. PICK id \in DOMAIN context.signals : id = tick.signal
  BY <1>1 DEF Chosen
<1> DEFINE time == context.signals[id].updated
           after == WithStatus(id, "open", time)
           kept == Snapshot(after.signals[id], tick.trade)
<1>3. time \in Nat /\ "open" \in Statuses
  BY DEF KnownInv, AreSignals, IsSignal, Statuses
<1>4. /\ DOMAIN after = ContextFields
      /\ DOMAIN after.signals = DOMAIN context.signals
      /\ \A i \in DOMAIN context.signals \ {id} :
           after.signals[i] = context.signals[i]
      /\ IsSignal(after.signals[id]) /\ after.signals[id].status = "open"
      /\ after.pending = context.pending \ {id}
  BY <1>3, StatusSignal
<1>5. IsSignal(kept) /\ kept.status = "open"
  BY <1>1, <1>4, SnapshotSignal DEF IsTrade
<1>6. /\ trades' = Put(trades, id, tick.trade) /\ context' = after
      /\ disk' = [disk EXCEPT !.signals = Put(disk.signals, id, kept)]
      /\ tick' = [tick EXCEPT !.at = "saving"]
  BY <1>2 DEF Register, KnownInv, DiskFields
<1> HIDE DEF after, kept
<1>7. /\ DOMAIN disk' = DiskFields /\ disk'.open = disk.open
      /\ disk'.signals = Put(disk.signals, id, kept) /\ disk'.traced = disk.traced
  BY <1>6 DEF KnownInv, DiskFields
<1>8. /\ DOMAIN disk'.signals = DOMAIN context.signals \union {id}
      /\ disk'.signals[id] = kept
      /\ \A i \in DOMAIN context.signals \ {id} : disk'.signals[i] = disk.signals[i]
  BY <1>7 DEF KnownInv, Put
<1>9. Touched(id) /\ Settles(id)
  BY <1>4, <1>5, <1>6, <1>7, <1>8 DEF Settles, Touched
<1>10. /\ id \in Ids /\ DOMAIN context'.signals = DOMAIN context.signals
       /\ context'.pending = context.pending \ {id}
  BY <1>4, <1>6 DEF KnownInv, AreSignals
<1>11. KnownInv'
  BY <1>1, <1>9, <1>10, KnownTouched
<1>12. DOMAIN trades' = DOMAIN trades \union {id} /\ AreTrades(trades')
  BY <1>1, <1>6 DEF Put, TradesInv, AreTrades
<1>13. TradesInv'
  BY <1>7, <1>10, <1>12 DEF TradesInv, AreTrades
<1>14. /\ tick'.at = "saving" /\ tick'.signal = id /\ tick'.todo = tick.todo
       /\ tick'.trade = tick.trade
       /\ DOMAIN tick' = {"at", "todo", "signal", "parsed", "merged", "trade"}
  BY <1>1, <1>2, <1>6
<1>15. TickInv'
  BY <1>1, <1>2, <1>10, <1>12, <1>14 DEF TickInv, Chosen
<1>16. PhaseInv'
  <2>1. id \notin tick.todo /\ Opening = tick.todo \union {id} /\ Opening' = tick.todo
    BY <1>1, <1>2, <1>14 DEF Opening, PhaseInv
  <2>2. Whole(Opening)' \subseteq Whole(Opening) \ {id}
    BY <1>1, <2>1 DEF Whole
  <2>3. QED BY <1>1, <1>7, <1>9, <1>12, <1>14, <2>2, PhaseSettles
<1>17. EnteredInv'
  BY <1>1, <1>2, <1>9, EnteredSettles
<1>18. PollInv' /\ MessageInv' /\ StartInv'
  BY <1>1, <1>7, <1>10, PollStays, MessageStays DEF StartInv, Off
<1>19. QED BY <1>1, <1>11, <1>13, <1>15, <1>16, <1>17, <1>18, RestStays

\* The trade is stored, and the task goes on.
LEMMA SaveKeeps ==
  ASSUME PathsInv, Save, replay' = replay
  PROVE  PathsInv'
<1> USE DEF PathsInv
<1>1. /\ tick.at = "saving" /\ Chosen /\ IsTrade(tick.trade)
      /\ tick.signal \in DOMAIN trades /\ tick' = Choosing(tick.todo)
      /\ UNCHANGED <<stream, now, context, trades, seen, poll, entries, torn>>
  BY DEF Save, TickInv, Off, Asleep
<1> DEFINE open == Put(disk.open, tick.signal, tick.trade)
<1>2. disk' = [disk EXCEPT !.open = open]
  BY DEF Save, KnownInv, DiskFields
<1>3. DOMAIN open = DOMAIN disk.open \union {tick.signal} /\ AreTrades(open)
  BY <1>1 DEF Put, TradesInv, AreTrades
<1> HIDE DEF open
<1>4. /\ DOMAIN disk' = DiskFields /\ disk'.open = open
      /\ disk'.signals = disk.signals /\ disk'.traced = disk.traced
  BY <1>2 DEF KnownInv, DiskFields
<1>5. KnownInv'
  BY <1>1, <1>4 DEF KnownInv, AreSignals, Ids
<1>6. TradesInv'
  BY <1>1, <1>3, <1>4 DEF TradesInv, AreTrades
<1>7. tick' = Asleep \/ (tick'.at = "choosing" /\ tick'.todo = tick.todo)
  BY <1>1 DEF Choosing
<1>8. TickInv' /\ Opening' \subseteq tick.todo
  BY <1>1, <1>7 DEF TickInv, Opening, Chosen, Asleep
<1>9. \A i : (Pending(i)' <=> Pending(i)) /\ (PendingThere(i)' <=> PendingThere(i))
  BY <1>1, <1>4 DEF Pending, PendingThere
<1>10. PhaseInv'
  <2>1. /\ \A i \in Whole(tick.todo) : Pending(i)
        /\ tick.signal \notin torn => ~PendingThere(tick.signal)
    BY <1>1 DEF PhaseInv, Opening
  <2>2. tick'.at \in {"asleep", "choosing"}
    BY <1>7 DEF Asleep
  <2>3. \A i \in Whole(DOMAIN open) : ~PendingThere(i)
    BY <1>3, <2>1 DEF PhaseInv, Whole
  <2>4. QED BY <1>1, <1>4, <1>8, <1>9, <2>1, <2>2, <2>3 DEF PhaseInv, Whole
<1>11. EnteredInv'
  BY <1>1, <1>9 DEF EnteredInv
<1>12. PollInv' /\ MessageInv' /\ StartInv'
  BY <1>1, <1>4, PollStays, MessageStays DEF StartInv, Off
<1>13. QED BY <1>1, <1>5, <1>6, <1>8, <1>10, <1>11, <1>12, RestStays

-----------------------------------------------------------------------------
(* The crash, the replay and the beginning.                                *)

\* A snapshot is restored as a signal that waits only if it waited.
LEMMA RestoredIsSignal ==
  ASSUME KnownInv, NEW id \in DOMAIN disk.signals
  PROVE  /\ IsSignal(Restored(id))
         /\ Restored(id).status = "pending" => PendingThere(id)
<1> DEFINE kept == disk.signals[id]
           opening == [kept.current EXCEPT !.action = "open", !.sure = TRUE]
           as(status, current) == [kept EXCEPT !.status = status,
                                     !.current = current, !.created = kept.updated]
<1>1. IsSignal(kept)
  BY DEF KnownInv, AreSignals
<1>2. kept.current # None => IsReading(opening)
  BY <1>1 DEF IsSignal, IsReading
<1> HIDE DEF opening
<1>3. PICK status \in {"closed", kept.status}, current \in {None, opening} :
        /\ Restored(id) = as(status, current)
        /\ kept.current = None => current = None
  BY DEF Restored, opening
<1>4. current # None => IsReading(current)
  BY <1>2, <1>3
<1> HIDE DEF kept
<1>5. as(status, current).status = status /\ IsSignal(as(status, current))
  BY <1>1, <1>3, <1>4 DEF IsSignal, Statuses
<1>6. QED BY <1>3, <1>5 DEF PendingThere, kept

\* The engine crashes, and restarts from the store.
LEMMA CrashKeeps ==
  ASSUME PathsInv, Crash, replay' = replay
  PROVE  PathsInv'
<1> USE DEF PathsInv
<1> DEFINE ids == DOMAIN context.signals
           snapshots == [id \in DOMAIN disk.signals |->
                           [disk.signals[id] EXCEPT !.status = Restored(id).status]]
           cut == (DOMAIN disk.signals \ disk.traced)
                    \union (IF tick.at = "registering" THEN {tick.signal} ELSE {})
<1>1. /\ context' = RestoredContext /\ trades' = disk.open
      /\ seen' = (IF disk.traced = {} THEN 0 ELSE Max(disk.traced))
      /\ poll' = [at |-> "starting"] /\ tick' = Off
      /\ disk' = [disk EXCEPT !.signals = snapshots] /\ torn' = torn \union cut
      /\ UNCHANGED <<stream, now, entries>>
  BY DEF Crash, KnownInv, DiskFields
<1>2. /\ DOMAIN context' = ContextFields
      /\ context'.signals = [id \in DOMAIN disk.signals |-> Restored(id)]
      /\ context'.pending = {id \in DOMAIN disk.signals : Restored(id).status = "pending"}
  BY <1>1 DEF RestoredContext, RestoredWith, ContextFields
<1>3. \A id \in ids : /\ id \in DOMAIN disk.signals /\ id \in Ids
                      /\ IsSignal(Restored(id))
                      /\ Restored(id).status = "pending" => PendingThere(id)
  BY RestoredIsSignal DEF KnownInv, AreSignals
<1>4. /\ DOMAIN snapshots = ids
      /\ \A id \in ids : /\ IsSignal(snapshots[id])
                         /\ snapshots[id].status = Restored(id).status
  <2>1. DOMAIN snapshots = ids
    BY DEF KnownInv
  <2>2. ASSUME NEW id \in ids
        PROVE  IsSignal(snapshots[id]) /\ snapshots[id].status = Restored(id).status
    <3> DEFINE status == Restored(id).status
    <3>1. status \in Statuses /\ IsSignal(disk.signals[id])
      BY <1>3 DEF IsSignal, KnownInv, AreSignals
    <3>2. snapshots[id] = [disk.signals[id] EXCEPT !.status = status]
      BY <2>1
    <3> HIDE DEF status, snapshots
    <3>3. snapshots[id].status = status /\ IsSignal(snapshots[id])
      BY <3>1, <3>2 DEF IsSignal
    <3>4. QED BY <3>3 DEF status
  <2>3. QED BY <2>1, <2>2
<1> HIDE DEF snapshots
<1>5. /\ DOMAIN disk' = DiskFields /\ disk'.signals = snapshots
      /\ disk'.open = disk.open /\ disk'.traced = disk.traced
  BY <1>1 DEF KnownInv, DiskFields
<1>6. DOMAIN context'.signals = ids /\ DOMAIN disk.signals = ids
  BY <1>2 DEF KnownInv
<1>7. /\ \A id \in ids : IsSignal(context'.signals[id])
      /\ \A id \in ids : (Pending(id)' => PendingThere(id))
      /\ \A id \in ids : (PendingThere(id)' => PendingThere(id))
      /\ \A id \in context'.pending : id \in ids /\ Pending(id)'
  BY <1>2, <1>3, <1>4, <1>5, <1>6 DEF Pending, PendingThere
<1>8. cut \subseteq Ids /\ torn \subseteq torn'
  BY <1>1 DEF KnownInv, AreSignals, TickInv, Chosen, Off, Asleep
<1>9. tick.at = "registering" => tick.signal \in torn'
  BY <1>1
<1>10. \A id \in ids : id \notin torn' => id \in disk.traced
  BY <1>1, <1>6
<1> HIDE DEF cut
<1>11. KnownInv'
  BY <1>1, <1>2, <1>4, <1>5, <1>6, <1>7, <1>8 DEF KnownInv, AreSignals, Ids
<1>12. seen' \in 0..Len(stream) /\ \A m \in disk.traced : m <= seen'
  <2>1. CASE disk.traced = {}
    BY <1>1, <2>1 DEF StreamInv
  <2>2. CASE disk.traced # {}
    <3>1. disk.traced \in SUBSET (0..Len(stream)) /\ Len(stream) \in Nat
      BY DEF KnownInv, StreamInv, Ids
    <3>2. PICK n \in disk.traced : \A m \in disk.traced : m <= n
      BY <2>2, <3>1, Largest
    <3>3. \E x \in disk.traced : \A y \in disk.traced : x >= y
      BY <3>1, <3>2
    <3>4. Max(disk.traced) \in disk.traced /\ \A y \in disk.traced : Max(disk.traced) >= y
      BY <3>3 DEF Max
    <3>5. QED BY <1>1, <2>2, <3>1, <3>4
  <2>3. QED BY <2>1, <2>2
<1>13. StreamInv' /\ EntriesInv' /\ ReplayInv'
  BY <1>1, <1>12 DEF StreamInv, EntriesInv, ReplayInv, Ids
<1>14. TradesInv'
  BY <1>1, <1>5, <1>6 DEF TradesInv, AreTrades
<1>15. PollInv' /\ TickInv' /\ StartInv'
  BY <1>1 DEF PollInv, TickInv, StartInv
<1>16. PhaseInv'
  <2>1. Opening' = {} /\ tick'.at = "off"
    BY <1>1 DEF Opening, Off
  <2>2. \A id \in DOMAIN disk.open : id \notin torn' =>
          id \in ids /\ ~Pending(id)' /\ ~PendingThere(id)'
    BY <1>7, <1>8 DEF PhaseInv, TradesInv, Whole
  <2>3. QED BY <1>1, <1>5, <1>7, <2>1, <2>2 DEF PhaseInv, Whole
<1>17. MessageInv'
  BY <1>1, <1>5, <1>6, <1>10, <1>12 DEF MessageInv, Whole
<1>18. EnteredInv'
  <2>1. ASSUME NEW k \in DOMAIN entries, entries[k].signal \notin torn'
        PROVE  /\ entries[k].signal \in ids
               /\ ~Pending(entries[k].signal)' /\ ~PendingThere(entries[k].signal)'
    <3>1. entries[k].signal \in ids /\ ~PendingThere(entries[k].signal)
      BY <1>8, <1>9, <2>1 DEF EnteredInv
    <3>2. ASSUME NEW i \in ids, ~PendingThere(i) PROVE ~Pending(i)' /\ ~PendingThere(i)'
      BY <1>7, <3>2
    <3>3. entries' = entries
      BY <1>1
    <3>4. QED BY <3>1, <3>2, <3>3
  <2>2. QED BY <1>1, <1>6, <2>1 DEF EnteredInv
<1>19. OneEntryPerSignal'
  BY <1>1, <1>8 DEF OneEntryPerSignal
<1>20. QED BY <1>11, <1>13, <1>14, <1>15, <1>16, <1>17, <1>18, <1>19

\* The candles are cut into no more segments than there are candles.
LEMMA SegmentCount ==
  ASSUME NEW candles, Len(candles) = Candles
  PROVE  Len(Segments(candles)) \in 0..Candles
<1> DEFINE all == Candles + SegmentSize - 1
           count == all \div SegmentSize
           piece(n) == SubSeq(candles, (n - 1) * SegmentSize + 1,
                              Smaller(n * SegmentSize, Len(candles)))
<1>1. Candles \in Nat \ {0} /\ SegmentSize \in Nat \ {0} /\ all \in Nat
  BY PathsAssumption, SimulatorAssumption
<1>2. all <= SegmentSize * Candles
  <2>1. SegmentSize * (Candles - 1) >= 1 * (Candles - 1)
    BY <1>1, Products
  <2>2. SegmentSize * Candles = SegmentSize * (Candles - 1) + SegmentSize
    BY <1>1
  <2>3. SegmentSize * (Candles - 1) \in Int
    BY <1>1
  <2>4. QED BY <1>1, <2>1, <2>2, <2>3
<1>3. count \in Nat /\ count <= Candles
  BY <1>1, <1>2, Quotient
<1>4. Segments(candles) = [n \in 1..count |-> piece(n)]
  BY DEF Segments
<1> HIDE DEF count, piece
<1>5. Len(Segments(candles)) = count
  BY <1>3, <1>4
<1>6. QED BY <1>1, <1>3, <1>5

\* Nothing of the live path changes.
LEMMA LiveUnchanged ==
  ASSUME PathsInv, UNCHANGED liveVars, ReplayInv'
  PROVE  PathsInv'
<1> USE DEF PathsInv
<1>1. /\ stream' = stream /\ now' = now /\ context' = context /\ trades' = trades
      /\ seen' = seen /\ poll' = poll /\ tick' = tick /\ disk' = disk
      /\ entries' = entries /\ torn' = torn
  BY DEF liveVars
<1>2. StreamInv' /\ EntriesInv' /\ OneEntryPerSignal'
  BY <1>1 DEF StreamInv, EntriesInv, OneEntryPerSignal, Ids
<1>3. KnownInv' /\ TradesInv'
  BY <1>1 DEF KnownInv, AreSignals, TradesInv, AreTrades, Ids
<1>4. PollInv' /\ MessageInv' /\ StartInv'
  BY <1>1, PollStays, MessageStays DEF StartInv
<1>5. TickInv'
  BY <1>1 DEF TickInv, Chosen
<1>6. Opening' = Opening
  BY <1>1 DEF Opening
<1>7. PhaseInv' /\ EnteredInv'
  BY <1>1, <1>6 DEF PhaseInv, EnteredInv, Whole, Pending, PendingThere
<1>8. QED BY <1>2, <1>3, <1>4, <1>5, <1>7

\* The next segment is replayed.
LEMMA ReplaySegmentKeeps ==
  ASSUME PathsInv, ReplaySegment
  PROVE  PathsInv'
<1> USE DEF PathsInv
<1>1. /\ replay # None /\ replay.segment < Len(Segments(replay.market))
      /\ UNCHANGED liveVars
  BY DEF ReplaySegment
<1>2. /\ DOMAIN replay' = DOMAIN replay /\ replay'.market = replay.market
      /\ replay'.segment = replay.segment + 1
  BY <1>1 DEF ReplaySegment, ReplayInv
<1>3. Len(Segments(replay.market)) \in 0..Candles /\ replay.segment \in 0..Candles
  BY <1>1, SegmentCount DEF ReplayInv
<1>4. ReplayInv'
  BY <1>1, <1>2, <1>3, PathsAssumption DEF ReplayInv
<1>5. QED BY <1>1, <1>4, LiveUnchanged

\* The market has as many candles as it has shapes.
LEMMA MarketLength ==
  ASSUME NEW shapes, DOMAIN shapes = 1..Candles
  PROVE  Len(Market(shapes)) = Candles
<1> DEFINE market == Market(shapes)
           U == {market[k] : k \in 1..Candles}
<1>1. DOMAIN market = 1..Candles /\ market = [k \in 1..Candles |-> market[k]]
  BY Zenon DEF Market
<1> HIDE DEF market
<1>2. \A k \in 1..Candles : market[k] \in U
  OBVIOUS
<1> HIDE DEF U
<1>3. market \in [1..Candles -> U]
  BY <1>1, <1>2
<1>4. Candles \in Nat
  BY PathsAssumption
<1>5. market \in Seq(U)
  BY <1>3, <1>4, SeqDef
<1>6. Len(market) \in Nat /\ 1..Len(market) = 1..Candles
  BY <1>1, <1>5, LenProperties
<1>7. Len(market) = Candles
  BY <1>4, <1>6
<1>8. QED BY <1>7 DEF market

\* The invariant holds at the beginning.
LEMMA InitPaths ==
  ASSUME Init
  PROVE  PathsInv
<1>1. /\ now = StartTime /\ context = EmptyContext /\ trades = <<>> /\ seen = 0
      /\ poll = [at |-> "starting"] /\ tick = Off /\ entries = <<>> /\ torn = {}
      /\ disk = [traced |-> {}, signals |-> <<>>, open |-> <<>>, closed |-> <<>>]
  BY DEF Init, LiveInit
<1>2. PICK channel \in Streams : stream = channel.messages
  BY DEF Init
<1>3. StreamInv
  <2>1. stream \in Seq(Messages) /\ \A m \in Ids : stream[m].id = m
    BY <1>2, StreamsAssumption DEF Ids
  <2>2. now \in StartTime..MaxTime
    BY <1>1, LiveAssumption
  <2>3. seen \in 0..Len(stream)
    BY <1>1, <2>1
  <2>4. QED BY <2>1, <2>2, <2>3 DEF StreamInv
<1>4. /\ DOMAIN context = ContextFields /\ context.signals = <<>>
      /\ context.pending = {} /\ DOMAIN disk = DiskFields
      /\ disk.traced = {} /\ disk.signals = <<>> /\ disk.open = <<>>
  BY <1>1 DEF EmptyContext, ContextFields, DiskFields
<1>5. KnownInv
  BY <1>1, <1>4 DEF KnownInv, AreSignals
<1>6. TradesInv
  BY <1>1, <1>4 DEF TradesInv, AreTrades
<1>7. PollInv /\ TickInv /\ StartInv
  BY <1>1 DEF PollInv, TickInv, StartInv
<1>8. EntriesInv /\ EnteredInv /\ OneEntryPerSignal
  BY <1>1 DEF EntriesInv, EnteredInv, OneEntryPerSignal
<1>9. PhaseInv
  BY <1>1, <1>4 DEF PhaseInv, Opening, Whole, Off
<1>10. MessageInv
  BY <1>1, <1>4 DEF MessageInv, Whole
<1>11. ReplayInv
  <2>1. CASE replay = None
    BY <2>1 DEF ReplayInv
  <2>2. CASE replay # None
    <3>1. PICK id \in Simulated, shapes \in [1..Candles -> Shapes] :
            replay = [events |-> Consolidated(records[id], Delay).events,
                      market |-> Market(shapes), segment |-> 0, state |-> Fresh]
      BY <2>2 DEF Init
    <3>2. DOMAIN shapes = 1..Candles
      OBVIOUS
    <3>3. Len(Market(shapes)) = Candles
      BY <3>2, MarketLength
    <3>4. /\ DOMAIN replay = {"events", "market", "segment", "state"}
          /\ replay.market = Market(shapes) /\ replay.segment = 0
      BY <3>1
    <3>5. QED BY <3>3, <3>4, PathsAssumption DEF ReplayInv
  <2>3. QED BY <2>1, <2>2
<1>12. QED BY <1>3, <1>5, <1>6, <1>7, <1>8, <1>9, <1>10, <1>11 DEF PathsInv

\* Every step keeps the invariant.
LEMMA StepPaths ==
  ASSUME PathsInv, [Next]_vars
  PROVE  PathsInv'
<1>1. CASE UNCHANGED vars
  <2>1. UNCHANGED liveVars /\ replay' = replay
    BY <1>1 DEF vars
  <2>2. ReplayInv'
    BY <2>1 DEF PathsInv, ReplayInv
  <2>3. QED BY <2>1, <2>2, LiveUnchanged
<1>2. CASE Live /\ Clock
  BY <1>2, ClockKeeps DEF Live
<1>3. CASE Live /\ Start
  BY <1>3, StartKeeps DEF Live
<1>4. CASE Live /\ Poll
  BY <1>4, PollKeeps DEF Live
<1>5. CASE Live /\ Receive
  BY <1>5, ReceiveKeeps DEF Live
<1>6. CASE Live /\ Classify
  BY <1>6, ClassifyKeeps DEF Live
<1>7. CASE Live /\ (CheckedAlive \/ CheckedClosed)
  BY <1>7, CheckedKeeps DEF Live
<1>8. CASE Live /\ CheckedUnclear
  BY <1>8, CheckedUnclearKeeps DEF Live
<1>9. CASE Live /\ Follow
  BY <1>9, FollowKeeps DEF Live
<1>10. CASE Live /\ CloseNext
  BY <1>10, CloseNextKeeps DEF Live
<1>11. CASE Live /\ Trace
  BY <1>11, TraceKeeps DEF Live
<1>12. CASE Live /\ Drop
  BY <1>12, DropKeeps DEF Live
<1>13. CASE Live /\ Wake
  BY <1>13, WakeKeeps DEF Live
<1>14. CASE Live /\ Choose
  BY <1>14, ChooseKeeps DEF Live
<1>15. CASE Live /\ (Untradable \/ Blocked)
  BY <1>15, UntradableKeeps DEF Live
<1>16. CASE Live /\ Quoted
  BY <1>16, QuotedKeeps DEF Live
<1>17. CASE Live /\ NotSubmitted
  BY <1>17, NotSubmittedKeeps DEF Live
<1>18. CASE Live /\ Submitted
  BY <1>18, SubmittedKeeps DEF Live
<1>19. CASE Live /\ Register
  BY <1>19, RegisterKeeps DEF Live
<1>20. CASE Live /\ Save
  BY <1>20, SaveKeeps DEF Live
<1>21. CASE Live /\ TickDies
  BY <1>21, TickDiesKeeps DEF Live
<1>22. CASE Live /\ EntryFills
  BY <1>22, EntryFillsKeeps DEF Live
<1>23. CASE Live /\ TradeEnds
  BY <1>23, TradeEndsKeeps DEF Live
<1>24. CASE Live /\ Crash
  BY <1>24, CrashKeeps DEF Live
<1>25. CASE ReplaySegment
  BY <1>25, ReplaySegmentKeeps
<1>26. QED BY <1>1, <1>2, <1>3, <1>4, <1>5, <1>6, <1>7, <1>8, <1>9, <1>10,
              <1>11, <1>12, <1>13, <1>14, <1>15, <1>16, <1>17, <1>18, <1>19,
              <1>20, <1>21, <1>22, <1>23, <1>24, <1>25 DEF Next

-----------------------------------------------------------------------------
(* The properties.                                                         *)

\* The inductive invariant holds in every state of every behaviour: whatever
\* the channel says, however the tasks interleave and wherever a crash falls.
THEOREM Invariant == Spec => []PathsInv
<1>1. Init => PathsInv
  BY InitPaths
<1>2. PathsInv /\ [Next]_vars => PathsInv'
  BY StepPaths
<1>3. QED BY <1>1, <1>2, PTL DEF Spec

\* Every part of the state is of its type, in memory and in the store.
THEOREM TypeCorrect == Spec => []TypeOK
<1>1. PathsInv => TypeOK
  <2> SUFFICES ASSUME PathsInv PROVE TypeOK
    OBVIOUS
  <2> USE DEF PathsInv
  <2>1. now \in StartTime..MaxTime /\ seen \in 0..Len(stream)
    BY DEF StreamInv
  <2>2. /\ DOMAIN context.signals \subseteq Ids
        /\ context.pending \subseteq DOMAIN context.signals
        /\ disk.traced \subseteq Ids /\ torn \subseteq Ids
    BY DEF KnownInv, AreSignals
  <2>3. \A id \in DOMAIN context.signals :
          context.signals[id].status \in
            {"pending", "open", "closed", "cancelled", "invalid"}
    BY DEF KnownInv, AreSignals, IsSignal, Statuses
  <2>4. \A table \in {trades, disk.open} : \A id \in DOMAIN table :
          /\ id \in DOMAIN disk.signals
          /\ table[id].status \in {"waiting", "open", "bare"}
          /\ table[id].remaining \in Nat
    BY DEF TradesInv, AreTrades, IsTrade, HasNumbers, KnownInv
  <2>5. replay # None => replay.segment \in 0..Candles
    BY DEF ReplayInv
  <2>6. QED BY <2>1, <2>2, <2>3, <2>4, <2>5 DEF TypeOK
<1>2. QED BY <1>1, Invariant, PTL

\* No open trade whose protection stands risks more than the budget, whatever
\* the entry filled at and however often its stop, its size or its entry was
\* changed; and no entry order asks for more than was sized.
THEOREM RiskStaysInBudget == Spec => []RiskBudgetHolds
<1>1. PathsInv => RiskBudgetHolds
  BY DEF PathsInv, TradesInv, AreTrades, IsTrade, LossAtStop, EntriesInv,
         RiskBudgetHolds
<1>2. QED BY <1>1, Invariant, PTL

\* No signal is entered a second time, by the tasks or after a crash, unless
\* the crash cut its storing in two.
THEOREM SignalsAreEnteredOnce == Spec => []OneEntryPerSignal
<1>1. PathsInv => OneEntryPerSignal
  BY DEF PathsInv
<1>2. QED BY <1>1, Invariant, PTL
=============================================================================
