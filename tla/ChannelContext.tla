------------------------- MODULE ChannelContext -------------------------
(* What the live engine and the backtest share about one channel: the     *)
(* context (recent messages, signals, and which message belongs to which  *)
(* signal), the resolution of the signal a message is about, the          *)
(* directives read from a text, the merge of an update into a signal and  *)
(* the normalisation and validation of a signal before it opens.  Pure    *)
(* operators; the state is a record passed in and returned.               *)
(*                                                                         *)
(* A message is [id, date, reply, ai, text, visual, parsed]: reply and ai *)
(* (the signal the classifier names) are ids or 0, text the directive its *)
(* words carry, visual whether it has a picture or one belongs to it, and *)
(* parsed what the classifier read.  A signal's id is the id of the       *)
(* message that opened it.  A price or a leverage of 0 is absent.         *)
EXTENDS Integers, Sequences, FiniteSets, FiniteSetsExt

CONSTANTS
  None,           \* no value
  Recent,         \* CHANNEL_AGENT_CONTEXT_MESSAGE_LIMIT
  LastResort,     \* REAL_BACKTEST_FOLLOWUP_LAST_RESORT_ATTACH
  Listed,         \* the prices a "tplist" text lists
  Percents        \* the percentages a "percents" text lists

ASSUME ContextAssumption ==
  /\ Recent \in Nat \ {0} /\ LastResort \in BOOLEAN
  /\ Percents \in Seq(Nat \ {0}) /\ Percents # <<>>

Updates == {"sl", "tp", "leverage", "entry"}
Directives == Updates \union {"close", "cancel"}
\* A "percents" text has a word for closing beside its percentages.
Texts == {"plain", "close", "half", "closeall", "riskfree", "tplist", "percents"}

\* The table with the value under the key.
Put(table, key, value) ==
  [k \in DOMAIN table \union {key} |-> IF k = key THEN value ELSE table[k]]

\* The context of a channel nothing was read from yet.
EmptyContext ==
  [recent |-> <<>>, known |-> <<>>, signals |-> <<>>, owner |-> <<>>,
   pending |-> {}]

\* The message joins the recent ones; the oldest is forgotten at the limit.
WithMessage(context, message) ==
  LET full == Len(context.recent) = Recent
      kept == IF full THEN DOMAIN context.known \ {context.recent[1]}
                      ELSE DOMAIN context.known
  IN [context EXCEPT
        !.recent = Append(IF full THEN Tail(@) ELSE @, message.id),
        !.known = Put([m \in kept |-> @[m]], message.id, message)]

WithSignal(context, id, signal, pending) ==
  [context EXCEPT
     !.signals = Put(@, id, signal),
     !.owner = [m \in signal.messages \union DOMAIN @ |->
                  IF m \in signal.messages THEN id ELSE @[m]],
     !.pending = IF pending THEN @ \union {id} ELSE @ \ {id}]

NewSignal(message, parsed, time) ==
  [status |-> "pending", messages |-> {message.id}, current |-> parsed,
   created |-> time, updated |-> time]

WithAttached(context, id, message) ==
  IF id \notin DOMAIN context.signals THEN context
  ELSE [context EXCEPT
          !.signals[id].messages = @ \union {message.id},
          !.signals[id].updated = IF message.date > @ THEN message.date ELSE @,
          !.owner = Put(@, message.id, id)]

-----------------------------------------------------------------------------
(* Merging an update. *)

Or(value, otherwise, missing) == IF value # missing THEN value ELSE otherwise

\* The update wins, except for the symbol and the side of the signal.
Merge(current, update) ==
  [action   |-> Or(update.action, current.action, "unknown"),
   symbol   |-> Or(current.symbol, update.symbol, "none"),
   side     |-> Or(current.side, update.side, "unknown"),
   type     |-> Or(update.type, current.type, "unknown"),
   entry    |-> Or(update.entry, current.entry, 0),
   stop     |-> Or(update.stop, current.stop, 0),
   targets  |-> Or(update.targets, current.targets, <<>>),
   leverage |-> Or(update.leverage, current.leverage, 0),
   sure     |-> update.sure \/ current.sure]

\* Mutant: what the signal said first wins.
WithMergedUnder(context, id, parsed, time) ==
  IF id \notin DOMAIN context.signals THEN context
  ELSE [context EXCEPT
          !.signals[id].current = IF @ = None THEN parsed ELSE Merge(parsed, @),
          !.signals[id].updated = IF time > @ THEN time ELSE @]

WithMerged(context, id, parsed, time) ==
  IF id \notin DOMAIN context.signals THEN context
  ELSE [context EXCEPT
          !.signals[id].current = IF @ = None THEN parsed ELSE Merge(@, parsed),
          !.signals[id].updated = IF time > @ THEN time ELSE @]

-----------------------------------------------------------------------------
(* Which signal a message is about. *)

Matches(signal, parsed) ==
  \/ signal.current = None
  \/ /\ "none" \in {parsed.symbol, signal.current.symbol}
        \/ parsed.symbol = signal.current.symbol
     /\ "unknown" \in {parsed.side, signal.current.side}
        \/ parsed.side = signal.current.side

Trackable(signal) == signal.status \notin {"closed", "cancelled", "invalid"}

\* The ways of resolving, each with the signals it may pick.
Methods == {"ai", "reply", "symbol", "single"}

\* What they may pick when the caller has no filter.
AnyEligible(context) ==
  {way \in (DOMAIN context.signals) \X Methods :
     way[2] \in {"ai", "reply"} \/ Trackable(context.signals[way[1]])}

\* The message answered and its parents, nearest first; a parent that is no
\* longer known ends the chain.
Parent(context, id) ==
  IF id \in DOMAIN context.known THEN context.known[id].reply ELSE 0

Chain(context, message) ==
  LET first == message.reply
      second == Parent(context, first)
  IN <<first, second, Parent(context, second)>>

\* The message answered counts even when it is no longer known.
Counts(context, chain, k) ==
  /\ k = 1 \/ chain[k] \in DOMAIN context.known
  /\ chain[k] \in DOMAIN context.owner

MostRecent(context, ids) ==
  CHOOSE a \in ids : \A b \in ids :
    \/ context.signals[b].updated < context.signals[a].updated
    \/ context.signals[b].updated = context.signals[a].updated /\ a <= b

\* The signal a message is about, or 0: the one the classifier names, then the
\* owner of the reply chain, then the latest of the same symbol, then - for a
\* directive without a symbol - the only one there is.
Resolve(context, message, parsed, action, named, eligible) ==
  LET Fits(id, method) ==
        /\ <<id, method>> \in eligible
        /\ Matches(context.signals[id], parsed)
      chain == Chain(context, message)
      replied == {k \in 1..3 : /\ Counts(context, chain, k)
                               /\ Fits(context.owner[chain[k]], "reply")}
      sameSymbol == {id \in DOMAIN context.signals :
                       /\ Fits(id, "symbol") /\ Trackable(context.signals[id])
                       /\ context.signals[id].current # None
                       /\ context.signals[id].current.symbol = parsed.symbol}
      active == {id \in DOMAIN context.signals :
                   Trackable(context.signals[id])
                   /\ <<id, "single">> \in eligible}
  IN IF Fits(named, "ai") THEN named
     ELSE IF replied # {} THEN context.owner[chain[Min(replied)]]
     ELSE IF parsed.symbol # "none"
          THEN IF sameSymbol = {} THEN 0 ELSE MostRecent(context, sameSymbol)
     ELSE IF action \in Directives /\ active # {}
             /\ (Cardinality(active) = 1 \/ LastResort)
          THEN MostRecent(context, active)
     ELSE 0

-----------------------------------------------------------------------------
(* Directives of a text. *)

MovesStop(text) == text = "riskfree"
ClosesAll(text) == text = "closeall"
CloseFraction(text) ==
  IF text = "half" THEN 50
  ELSE IF text # "percents" THEN 0
  ELSE IF Percents[1] > 100 THEN 100 ELSE Percents[1]

\* The action a follow-up takes once its words are read.
TextAction(action, text) ==
  IF action \in {"tp", "leverage", "cancel"} THEN action
  ELSE IF MovesStop(text) THEN "sl"
  ELSE IF text \in {"close", "half", "percents"} THEN "close"
  ELSE action

\* The action of a message about a signal that exists: never an opening.
RelatedAction(parsed) ==
  LET given == (IF parsed.stop # 0 THEN {"sl"} ELSE {})
               \union (IF parsed.targets # <<>> THEN {"tp"} ELSE {})
               \union (IF parsed.leverage # 0 THEN {"leverage"} ELSE {})
      hasEntry == parsed.entry # 0 \/ parsed.type # "unknown"
  IN IF parsed.action # "open" THEN parsed.action
     ELSE IF Cardinality(given) = 1 /\ ~hasEntry THEN CHOOSE a \in given : TRUE
     ELSE "entry"

\* The prices of a target list, when the text is one.
ListedTargets(text) == IF text = "tplist" THEN Listed ELSE <<>>

-----------------------------------------------------------------------------
(* Normalising and validating a signal that opens. *)

\* The side the prices speak for, "unknown" when they contradict each other.
SideOfPrices(parsed) ==
  LET Some(side) == \E k \in DOMAIN parsed.targets :
        IF side = "long" THEN parsed.targets[k] > parsed.entry
                         ELSE parsed.targets[k] < parsed.entry
      stopSide == IF parsed.stop \in {0, parsed.entry} THEN "unknown"
                  ELSE IF parsed.stop < parsed.entry THEN "long" ELSE "short"
      sides == {side \in {"long", "short"} : Some(side) \/ stopSide = side}
  IN IF Cardinality(sides) = 1 THEN CHOOSE side \in sides : TRUE ELSE "unknown"

Normalize(parsed) ==
  LET side == IF parsed.entry = 0 THEN "unknown" ELSE SideOfPrices(parsed)
  IN IF parsed.action # "open" THEN parsed
     ELSE [parsed EXCEPT
             !.type = IF @ = "unknown" /\ parsed.entry = 0 THEN "market" ELSE @,
             !.side = Or(side, @, "unknown")]

\* The stop is on the losing side of the entry, as far as both are known.
SoundGeometry(parsed) ==
  parsed.action = "open" /\ parsed.entry # 0 /\ parsed.stop # 0 =>
    CASE parsed.side = "long" -> parsed.stop < parsed.entry
      [] parsed.side = "short" -> parsed.stop > parsed.entry
      [] OTHER -> TRUE

Openable(parsed) ==
  /\ parsed.action = "open" /\ parsed.sure
  /\ parsed.symbol # "none" /\ parsed.side # "unknown"
=============================================================================
