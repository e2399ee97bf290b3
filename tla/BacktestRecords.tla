------------------------ MODULE BacktestRecords -------------------------
(* How the backtest turns the messages of a channel into records, one per *)
(* signal with the events that concern it, and then delays and merges      *)
(* them the way the live consolidation does.                               *)
(*                                                                         *)
(* An event is [time, action, parsed, source, opens, closeAll, fraction,  *)
(* toEntry]; the state of the fold is the channel's context, the parsed    *)
(* messages, the tracked and the closed signals and the events of each     *)
(* record.                                                                 *)
EXTENDS ChannelContext, SequencesExt

NoRecords ==
  [context |-> EmptyContext, read |-> <<>>, tracked |-> {}, closed |-> {},
   records |-> <<>>]

EventOf(message, parsed, closeAll) ==
  [time |-> message.date, action |-> parsed.action, parsed |-> parsed,
   source |-> message.id, opens |-> FALSE, closeAll |-> closeAll,
   fraction |-> CloseFraction(message.text),
   toEntry |-> MovesStop(message.text)]

WithEvent(state, id, event) ==
  IF id \notin DOMAIN state.records THEN state
  ELSE [state EXCEPT !.records[id] = Append(@, event)]

\* A message may be about a signal that is tracked and that no message closed;
\* a reply also about one that is not tracked yet.
EligibleSignal(state, id, method) ==
  /\ id \notin state.closed
  /\ \/ id \in state.tracked
     \/ method = "reply" /\ state.context.signals[id].current # None

\* The tracked signal of the symbol an opening names again, or 0.
ReusedSignal(state, message, parsed) ==
  LET same == {id \in state.tracked \ state.closed :
                 /\ id # message.id
                 /\ state.context.signals[id].current # None
                 /\ state.context.signals[id].current.symbol = parsed.symbol}
  IN IF parsed.action # "open" \/ parsed.symbol = "none" \/ same = {} THEN 0
     ELSE MostRecent(state.context, same)

\* The classifier takes an opening that names no signal for a new one.
LooksNew(message) == message.parsed.action = "open" /\ message.ai = 0

\* The signal an opening is taken to be about after all, or 0 when it is new.
ReroutedTo(state, message) ==
  LET replied == IF message.reply \in DOMAIN state.context.owner
                 THEN state.context.owner[message.reply] ELSE 0
      parsed == IF ClosesAll(message.text)
                THEN [message.parsed EXCEPT !.action = "close"]
                ELSE message.parsed
  IN IF /\ replied # 0
        /\ Matches(state.context.signals[replied], parsed)
        /\ EligibleSignal(state, replied, "reply")
     THEN replied ELSE ReusedSignal(state, message, parsed)

\* The parent of a reply becomes a signal when it was a valid opening that no
\* signal owns.
PromotedParent(state, message) ==
  LET id == message.reply
  IN IF \/ id \notin DOMAIN state.read \/ id \in DOMAIN state.context.owner
        \/ id \in DOMAIN state.context.signals
     THEN state
     ELSE LET parent == state.read[id]
          IN IF ~Openable(parent.parsed) THEN state
             ELSE [state EXCEPT
                     !.context = WithSignal(@, id,
                        NewSignal(parent, parent.parsed, parent.date), TRUE),
                     !.tracked = @ \union {id},
                     !.records = Put(@, id,
                        <<[EventOf(parent, parent.parsed, FALSE)
                             EXCEPT !.opens = TRUE]>>)]

\* The signal is normalised in place; once it can be simulated it is tracked
\* and has a record.
Activated(state, id) ==
  LET current == state.context.signals[id].current
      normalized == Normalize([current EXCEPT !.action = "open"])
      kept == [state EXCEPT !.context.signals[id].current = normalized]
  IN IF ~SoundGeometry(normalized) \/ ~Openable(normalized) THEN kept
     ELSE [kept EXCEPT !.tracked = @ \union {id},
                       !.records = @ @@ (id :> <<>>)]

\* An opening that starts a signal of its own.
Opened(state, message) ==
  LET id == message.id
      begun == [state EXCEPT !.context =
                  WithSignal(@, id, NewSignal(message, message.parsed,
                                              message.date), TRUE)]
      active == Activated(begun, id)
      closing == ClosesAll(message.text)
      said == IF closing THEN [message.parsed EXCEPT !.action = "close"]
              ELSE active.context.signals[id].current
      event == [EventOf(message, said, closing) EXCEPT !.opens = TRUE]
  IN WithEvent(active, id, event)

\* The action of every other message, with the targets its text may list.
FollowUp(message) ==
  LET worded == TextAction(RelatedAction(message.parsed), message.text)
      listed == ListedTargets(message.text)
  IN IF worded \in {"ignore", "unknown", "unrelated"} /\ listed # <<>>
     THEN [message.parsed EXCEPT !.action = "tp", !.targets = listed]
     ELSE [message.parsed EXCEPT !.action =
             IF worded = message.parsed.action /\ ClosesAll(message.text)
             THEN "close" ELSE worded]

\* Every other message, about the signal it resolves to.
FollowedUp(before, message, named) ==
  LET state == PromotedParent(before, message)
      parsed == FollowUp(message)
      effective == IF parsed.action = "close" /\ ClosesAll(message.text)
                   THEN TextAction(RelatedAction(message.parsed), message.text)
                   ELSE parsed.action
      eligible == {way \in (DOMAIN state.context.signals) \X Methods :
                     EligibleSignal(state, way[1], way[2])}
      id == Resolve(state.context, message, message.parsed, effective, named,
                    eligible)
      merged == [state EXCEPT !.context =
                   WithMerged(WithAttached(@, id, message), id, message.parsed,
                              message.date)]
      active == Activated(merged, id)
      event == EventOf(message, parsed, ClosesAll(message.text))
      recorded == WithEvent(active, id, event)
  IN IF id = 0 THEN state
     ELSE IF parsed.action \in {"close", "cancel"} /\ id \in DOMAIN recorded.records
          THEN [recorded EXCEPT !.closed = @ \union {id}]
     ELSE recorded

\* A text that closes everything is an event of every record before it.
ClosedAll(state, message, parsed) ==
  LET before == {id \in DOMAIN state.records : id <= message.id}
      event == EventOf(message, parsed, TRUE)
  IN IF ~ClosesAll(message.text) THEN state
     ELSE [state EXCEPT
             !.records = [id \in DOMAIN @ |->
                            IF id \in before THEN Append(@[id], event)
                                             ELSE @[id]],
             !.closed = @ \union before]

Recorded(state, message) ==
  LET known == [state EXCEPT !.context = WithMessage(@, message),
                             !.read = Put(@, message.id, message)]
      rerouted == IF LooksNew(message) THEN ReroutedTo(known, message) ELSE 0
      named == IF message.ai # 0 THEN message.ai ELSE rerouted
  IN IF LooksNew(message) /\ rerouted = 0
     THEN ClosedAll(Opened(known, message), message,
                    [message.parsed EXCEPT !.action = "close"])
     ELSE ClosedAll(FollowedUp(known, message, named), message,
                    FollowUp(message))

Records(messages) == FoldLeft(Recorded, NoRecords, messages).records

-----------------------------------------------------------------------------
(* The consolidation, applied to the records once they are built. *)

Mergeable == {"open"} \union Updates

OpenIndexes(record) == {k \in DOMAIN record : record[k].action = "open"}

\* The indexes in the order of the times; what has the same time stays in order.
ByTime(events, indexes) ==
  SetToSortSeq(indexes, LAMBDA a, b :
    \/ events[a].time < events[b].time
    \/ events[a].time = events[b].time /\ a < b)

\* The follow-ups that arrive before the opening is due.
Consolidated(record, delay) ==
  LET open == CHOOSE k \in OpenIndexes(record) :
                \A j \in OpenIndexes(record) : k <= j
      due == record[open].time + delay
      joins == {k \in DOMAIN record \ {open} :
                  record[k].time <= due /\ record[k].action \in Mergeable}
      merged == FoldLeft(
        LAMBDA parsed, k : [Merge(parsed, record[k].parsed)
                              EXCEPT !.action = "open"],
        record[open].parsed, ByTime(record, joins))
      opening == [record[open] EXCEPT !.time = due,
                                      !.parsed = Normalize(merged)]
      sources == {record[k].source : k \in joins}
      kept == SelectSeq([k \in DOMAIN record |-> k],
                        LAMBDA k : k = open \/ record[k].source \notin sources)
  IN [opening |-> opening, sources |-> sources,
      valid |-> SoundGeometry(Normalize(merged)) /\ Openable(Normalize(merged)),
      events |-> [n \in DOMAIN kept |-> IF kept[n] = open THEN opening
                                        ELSE record[kept[n]]]]
=============================================================================
