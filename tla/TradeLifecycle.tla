--------------------------- MODULE TradeLifecycle ---------------------------
(* The life of one trade in live_trading/engine.py: the poll task submits   *)
(* its entry and carries out a close or a cancellation, the account task    *)
(* reconciles it with the exchange under the execution guard, and the       *)
(* pending monitor reconciles its entry without the guard.                  *)
EXTENDS ProtectionSync

vars == <<leg, target, stop, loose, position, meets, trade, task, guard>>

Init ==
  /\ ExchangeInit
  /\ \E c \in Cases : meets = c.meets /\ trade = NewTrade(c.ladder, c.aims)
  /\ task = [k \in Tasks |-> IF k = "poll" THEN [Idle EXCEPT !.stack = <<"legs">>]
                             ELSE Idle]
  /\ guard = None

Ready(k) == Awaiting /\ task[k].stack = <<>>

(* Submission of the entry: _submit_range_entry_order_plan and the single   *)
(* order of _real_open_position_unlocked.                                   *)

Plan == IF trade.ladder THEN Legs ELSE {2}
NextLeg(i) == /\ trade.known[i] = "planned"
              /\ \A j \in Plan : trade.known[j] = "planned" => i <= j

\* What a submission leaves: a market order executes at once, a limit or a
\* trigger order may rest.
EntryOrder(got) == [got |-> got, state |-> IF got = 0 THEN "rests" ELSE "filled"]

\* An entry order is sent; it may execute at once, unless a nearer one rests.
SendLeg(i) ==
  /\ UNCHANGED <<target, stop, loose>>
  /\ \/ \E got \in {0} \union (IF Resting(leg) = {} THEN {LegQty[i]} ELSE {}) :
          LET t == [trade EXCEPT !.known[i] = IF got = 0 THEN "working" ELSE "filled"]
              v == [j \in {i} |-> [state |-> "filled", got |-> got]]
              more == \E j \in Plan \ {i} : t.known[j] = "planned"
              next == IF more THEN <<"legs">> ELSE <<"opened">>
          IN  /\ leg' = [leg EXCEPT ![i] = EntryOrder(got)]
              /\ position' = position + got
              /\ IF got = 0 THEN trade' = t /\ Goto("poll", next)
                 ELSE IF trade.ladder
                      THEN trade' = WithRangeFills(t, v) /\ Goto("poll", Enforce \o next)
                      ELSE trade' = WithEntry(t, got)
                           /\ Goto("poll", <<"plan", "activated", "opened">>)
     \/ /\ Meets("die")
        /\ leg' = [leg EXCEPT ![i].state = "gone"]
        /\ trade' = [trade EXCEPT !.known[i] = "gone"]
        /\ Goto("poll", <<"cleanup">>) /\ UNCHANGED position
     \/ /\ Meets("send")
        /\ leg' \in {leg, [leg EXCEPT ![i].state = "rests"]}
        /\ trade' = [trade EXCEPT !.known[i] = "sent"]
        /\ Goto("poll", <<"cleanup">>) /\ UNCHANGED position

SubmitLeg == Runs("poll", "legs") /\ \E i \in Plan : NextLeg(i) /\ SendLeg(i)

\* All legs are confirmed cancelled and none had executed.
EndsUnfilled(t, I, F, why) ==
  /\ CancelConfirmed(t, I, F)
  /\ leg' = [i \in Legs |-> Stopped(leg[i])]
  /\ WithRangeFills(t, leg').entered = 0
  /\ trade' = [Unfilled(t) EXCEPT !.reason = why]

\* A failed submission: what was sent of the ladder is cancelled; without a
\* fill the trade is over.
CleanUp ==
  /\ Runs("poll", "cleanup")
  /\ UNCHANGED <<target, stop, loose, position>>
  /\ \/ /\ ~trade.ladder
        /\ trade' = [Unfilled(trade) EXCEPT !.reason = "failed"]
        /\ UNCHANGED leg /\ Abort("poll")
     \/ /\ trade.ladder
        /\ \E F \in Unanswered :
             LET t == [trade EXCEPT !.known = [i \in Legs |->
                         IF @[i] = "planned" THEN "unsent" ELSE @[i]]]
                 sent == {i \in Legs : t.known[i] # "unsent"}
             IN  \/ EndsUnfilled(t, sent, F, "failed") /\ Abort("poll")
                 \/ /\ CancelLegs(t, sent, F)
                    /\ ~CancelConfirmed(t, sent, F) \/ trade'.entered > 0
                    /\ Goto("poll", (IF trade'.entered > 0 THEN Enforce ELSE <<>>)
                                    \o <<"opened">>)

\* The trade becomes one of the engine's open trades.
Opened ==
  /\ Runs("poll", "opened")
  /\ UNCHANGED exchange
  /\ trade' = IF trade.status = "closed" THEN trade ELSE [trade EXCEPT !.owned = TRUE]
  /\ Goto("poll", <<>>)

(* Entries that wait. *)

\* The protection of an activated entry failed: flattened, and the failure is
\* the caller's.  An entry that was being opened is then closed locally.
Activated(k) ==
  /\ Runs(k, "activated")
  /\ UNCHANGED <<exchange, trade>>
  /\ Taken(k, IF task[k].ok THEN <<>> ELSE <<"close", "undone">>)

Undone(k) ==
  /\ Runs(k, "undone")
  /\ UNCHANGED exchange
  /\ trade' = IF \E i \in DOMAIN task[k].stack : task[k].stack[i] = "opened"
              THEN [trade EXCEPT !.status = "closed", !.reason = "failed"]
              ELSE trade
  /\ Abort(k)

\* What happens to the rest of a partly filled single order that is activated.
StopFilling == leg' = [leg EXCEPT ![2] = Stopped(@)]

\* The ladder is cancelled because its time is over.
Expire(k) ==
  /\ Runs(k, "expire")
  /\ UNCHANGED <<target, stop, loose, position>>
  /\ \E F \in Unanswered :
       \/ EndsUnfilled(trade, Legs, F, "unfilled") /\ Abort(k)
       \/ /\ CancelLegs(trade, Legs, F)
          /\ IF ~CancelConfirmed(trade, Legs, F) THEN Abort(k)
             ELSE /\ trade'.entered > 0
                  /\ Goto(k, (IF Added(trade, trade') > 0 THEN Enforce ELSE <<>>)
                             \o <<"expired">>)

Expired(k) ==
  /\ Runs(k, "expired")
  /\ UNCHANGED exchange
  /\ trade' = [trade EXCEPT !.late = FALSE]
  /\ Goto(k, <<>>)

\* A waiting entry is cancelled; what filled in the race is flattened.
CancelWaiting(k) ==
  /\ Runs(k, "cancel")
  /\ UNCHANGED <<target, stop, loose, position>>
  /\ \/ /\ trade.ladder
        /\ \E F \in Unanswered :
             \/ EndsUnfilled(trade, Legs, F, "unfilled") /\ Abort(k)
             \/ /\ CancelLegs(trade, Legs, F)
                /\ IF ~CancelConfirmed(trade, Legs, F) THEN Abort(k)
                   ELSE trade'.entered > 0 /\ Goto(k, <<"close", "closed">>)
     \/ /\ ~trade.ladder /\ CancelFails
        /\ UNCHANGED <<leg, trade>> /\ Abort(k)
     \/ /\ ~trade.ladder /\ StopFilling
        /\ IF leg[2].got = 0 THEN trade' = Unfilled(trade) /\ Abort(k)
           ELSE /\ trade' = WithEntry(trade, leg[2].got)
                /\ Goto(k, <<"plan", "activated", "close", "closed">>)

\* After the close of the whole trade: finalized whatever the close left.  Its
\* failure is the caller's, and ends the account sync around it.
Closed(k) ==
  /\ Runs(k, "closed")
  /\ UNCHANGED exchange
  /\ IF task[k].ok THEN trade' = Finalized(trade) /\ Taken(k, <<>>)
     ELSE UNCHANGED trade /\ Abort(k)

\* Target progress retires legs; a fill that raced the cancellation is
\* protected and the policy applied again.
ApplyPolicy(k) ==
  /\ Runs(k, "policy")
  /\ UNCHANGED <<target, stop, loose, position>>
  /\ LET I == RetiredLegs(trade, trade.hits) \cap Pending(trade) IN
     IF I = {} \/ ~IsOpen(trade)
     THEN UNCHANGED <<leg, trade>> /\ Goto(k, <<>>)
     ELSE \E F \in Unanswered :
            /\ CancelLegs(trade, I, F)
            /\ IF ~CancelConfirmed(trade, I, F) THEN Abort(k)
               ELSE Goto(k, IF Added(trade, trade') > 0
                            THEN Enforce \o <<"policy">> ELSE <<>>)

\* What a query of the single order leads to.  The fills of a partly filled
\* order are queried after it, and its cancellation may come too late.
EntryShown(k, v, rest) ==
  \/ /\ v.got = 0 /\ v.state = "gone"
     /\ trade' = Unfilled(trade) /\ UNCHANGED leg /\ Abort(k)
  \/ /\ v.got = 0 /\ v.state = "rests" /\ UNCHANGED <<leg, trade>>
     /\ IF trade.late THEN Goto(k, <<"cancel">>) ELSE Abort(k)
  \/ /\ v.got > 0 /\ v.state = "rests"
     /\ CancelFails \/ leg[2].state # "rests"
     /\ UNCHANGED <<leg, trade>> /\ Abort(k)
  \/ /\ v.got > 0
     /\ IF v.state = "rests" THEN StopFilling ELSE UNCHANGED leg
     /\ \E n \in 1..leg[2].got : v.got <= n /\ trade' = WithEntry(trade, n)
     /\ Goto(k, <<"plan", "activated">> \o rest)

(* The pending monitor, without the guard. *)

Sent == {i \in Plan : leg[i].state # "none"}

\* Neither the state of the trade nor its owner is looked at again.
LadderShown(v) ==
  LET t == WithRangeFills(trade, v)
      over == LadderOver(v) /\ t.entered = 0 /\ t.owned
  IN trade' = IF over THEN Unfilled(t) ELSE t

\* What more of an entry asks for.
AfterLadder(v) ==
  IF Added(trade, WithRangeFills(trade, v)) > 0
  THEN Enforce \o <<"policy">> ELSE <<>>

\* What has been read of the exchange: the position first, then the orders.
NoView == [pos |-> 0, lag |-> FALSE, own |-> TRUE, leg |-> <<>>, tps |-> {},
           stops |-> {}, target |-> NoQty, stop |-> [s \in Slots |-> 0], loose |-> 0]
SingleShown == [NoView EXCEPT !.leg = [i \in {2} |-> leg[2]]]
PositionsRead == [NoView EXCEPT !.pos = position]

\* The snapshot of the innermost sync of a task.
View(k) == IF task[k].views = <<>> THEN NoView ELSE Head(task[k].views)
Viewing(k, v) == [task[k] EXCEPT !.views[1] = v]

\* The legs of a ladder only ever grow, and are recorded as they are read.
MonitorLooks ==
  /\ Meets("monitor") /\ Ready("monitor") /\ trade.owned
  /\ IF trade.ladder THEN Pending(trade) # {} ELSE IsWaiting(trade)
  /\ UNCHANGED <<exchange, meets, guard>>
  /\ LET becomes(t) == task' = [task EXCEPT !["monitor"] = t]
         next(labels) == becomes([Idle EXCEPT !.stack = labels])
     IN  IF ~trade.ladder
         THEN /\ UNCHANGED trade
              /\ becomes([Idle EXCEPT !.stack = <<"entry">>, !.views = <<SingleShown>>])
         ELSE IF trade.late THEN UNCHANGED trade /\ next(<<"expire">>)
         ELSE LET v == [i \in Sent |-> leg[i]]
              IN LadderShown(v) /\ next(AfterLadder(v))

\* A single order has been read; meanwhile the trade may have changed.
MonitorApplies ==
  /\ Runs("monitor", "entry")
  /\ UNCHANGED <<target, stop, loose, position>>
  /\ \/ EntryShown("monitor", View("monitor").leg[2], <<>>)
     \/ QueryFails /\ UNCHANGED <<leg, trade>> /\ Abort("monitor")

(* The account sync, _sync_exchange_state_unlocked. *)

SyncBegins ==
  /\ Ready("sync") /\ trade.owned /\ guard = None
  /\ task' = [task EXCEPT !["sync"].stack = <<"orders", "synced">>,
                          !["sync"].views = <<PositionsRead>>]
  /\ guard' = "sync"
  /\ UNCHANGED <<exchange, meets, trade>>

\* The account refresh of a close syncs in its own task; a trade that is not
\* among the open trades yet is passed over.
SyncAgain(k) ==
  /\ Runs(k, "refresh") /\ UNCHANGED <<exchange, trade>>
  /\ \/ trade.owned /\ Becomes(k, [task[k] EXCEPT !.views = <<PositionsRead>> \o @],
                                <<"orders", "synced">>)
     \/ (~trade.owned \/ QueryFails) /\ Goto(k, <<>>)

\* The orders and fills, read after the positions.  Failed queries show
\* nothing; fills may show late.
OrdersShown(k, lag, own) ==
  [pos |-> View(k).pos, lag |-> lag, own |-> own,
   leg |-> [i \in Sent |-> leg[i]],
   tps |-> Resting(target), stops |-> Resting(stop),
   target |-> [g \in Goals |-> IF lag THEN 0 ELSE target[g].executed],
   stop |-> [s \in Slots |-> IF lag THEN 0 ELSE stop[s].executed],
   loose |-> IF lag THEN 0 ELSE loose.executed]

SyncReads(k) ==
  /\ Runs(k, "orders") /\ UNCHANGED exchange
  /\ \E lag \in IF Meets("lag") THEN BOOLEAN ELSE {FALSE}, own \in BOOLEAN :
       LET v == OrdersShown(k, lag, own)
           next(labels) == Becomes(k, Viewing(k, v), labels)
       IN  /\ (lag \/ \A s \in Slots : Unclaimed(stop[s]) = 0) => own
           /\ IF ~trade.ladder THEN UNCHANGED trade /\ next(<<"book">>)
              ELSE IF trade.late THEN UNCHANGED trade /\ next(<<"expire", "book">>)
              ELSE LadderShown(v.leg) /\ next(AfterLadder(v.leg) \o <<"book">>)

\* The position of the snapshot read first.
PositionShown(k, t) ==
  IF View(k).pos = 0 THEN t
  ELSE WithoutMiss(WithPosition(t, View(k).pos))

\* Owned fills are booked; then the position is looked at.
SyncBooks(k) ==
  LET v == Unprocessed(View(k))
      t == WithMissingFills(trade, v, TRUE)
  IN
  /\ Runs(k, "book") /\ UNCHANGED position
  /\ \/ /\ ~trade.owned \/ ~IsOpen(trade)
        /\ UNCHANGED <<leg, target, stop, loose, trade>> /\ Abort(k)
     \/ /\ trade.owned /\ IsWaiting(trade) /\ UNCHANGED <<target, stop, loose>>
        /\ IF trade.ladder THEN UNCHANGED <<leg, trade>> /\ Abort(k)
           ELSE EntryShown(k, v.leg[2], <<"holds">>)
     \/ /\ trade.owned /\ trade.status = "open"
        /\ ClaimFills(v, TRUE) /\ UNCHANGED leg
        /\ IF IsOpen(t)
           THEN /\ trade' = PositionShown(k, t)
                /\ Goto(k, <<"protect">>)
           ELSE trade' = Finalized(Untracked(t)) /\ Abort(k)

\* The position of an entry the sync has activated.
SyncHolds(k) ==
  /\ Runs(k, "holds") /\ UNCHANGED exchange
  /\ trade' = PositionShown(k, trade)
  /\ Goto(k, <<"protect">>)

(* _reconcile_exchange_trade_protection. *)

Repairs(k) == View(k).pos > 0
Onwards(k) == IF Repairs(k) THEN <<>> ELSE <<"absent">>
Repair(k) == Becomes(k, Viewing(k, NoView), Enforce)

\* Tracked orders that were not open in the snapshot are queried.
Asked(k, seen) == IF seen THEN trade.tps \ View(k).tps ELSE {}
HitTargets(k, seen) == {g \in Asked(k, seen) : target[g].state = "filled"}
StopAsked(k, seen) == seen /\ trade.sl # 0 /\ trade.sl \notin View(k).stops
StopHit(k, seen) == StopAsked(k, seen) /\ stop[trade.sl].state = "filled"
Detached(k, t, seen) ==
  [t EXCEPT !.tps = @ \ {g \in Asked(k, seen) : target[g].state # "rests"},
            !.sl = IF StopAsked(k, seen) /\ stop[@].state = "gone" THEN 0 ELSE @]

\* Legs an executed target or stop retires are cancelled first.
RetireFirst(k, I) ==
  /\ UNCHANGED <<target, stop, loose, position>>
  /\ \E F \in Unanswered :
       /\ CancelLegs(trade, I, F)
       /\ IF ~CancelConfirmed(trade, I, F) THEN Abort(k)
          ELSE Goto(k, <<"protect">>)

\* An executed target: its fills were booked, or its turn comes later.
TargetsDone(k, seen) ==
  LET hit == HitTargets(k, seen)
      most == CHOOSE g \in hit : \A h \in hit : h <= g
      legs == IF trade.ladder THEN RetiredLegs(trade, most) \cap Pending(trade)
              ELSE {}
      early == View(k).lag \/ \E g \in hit : Unclaimed(target[g]) > 0
  IN
  /\ hit # {}
  /\ IF legs # {} THEN RetireFirst(k, legs)
     ELSE /\ UNCHANGED exchange
          /\ IF early THEN UNCHANGED trade /\ Abort(k)
             ELSE /\ trade' = Detached(k, trade, seen)
                  /\ IF Repairs(k) THEN Repair(k) ELSE Goto(k, Onwards(k))

\* An executed stop retires the whole ladder and is booked.
StopDone(k, seen) ==
  LET s == trade.sl
      n == Unprocessed(View(k)).stop[s]
      b == [Booked(trade, n, "stop") EXCEPT !.sl = 0]
      t == IF b.audit = 0 THEN [b EXCEPT !.issues = @ \ {"drift"}] ELSE b
      legs == IF trade.ladder THEN Pending(trade) ELSE {}
  IN
  /\ HitTargets(k, seen) = {} /\ StopHit(k, seen)
  /\ IF legs # {} THEN RetireFirst(k, legs)
     ELSE /\ UNCHANGED <<leg, target, loose, position>>
          /\ IF n > 0
             THEN /\ stop' = [stop EXCEPT ![s] = Claimed(@, n)]
                  /\ IF IsOpen(t)
                     THEN trade' = t /\ Repair(k)
                     ELSE trade' = Finalized(Untracked(t)) /\ Abort(k)
             ELSE /\ UNCHANGED stop
                  /\ IF Unclaimed(stop[s]) > 0 \/ View(k).lag
                     THEN UNCHANGED trade /\ Abort(k)
                     ELSE /\ trade' = [trade EXCEPT !.sl = 0]
                          /\ Goto(k, Onwards(k))

\* No execution: a protection gap is repaired unless a retry is set.
GapLooked(k, seen) ==
  LET t == Detached(k, trade, seen) IN
  /\ HitTargets(k, seen) = {} /\ ~StopHit(k, seen) /\ UNCHANGED exchange
  /\ \/ /\ ~Repairs(k) \/ t.deferred
        /\ trade' = t /\ Goto(k, Onwards(k))
     \/ /\ Repairs(k) /\ ~t.deferred
        /\ \/ QueryFails /\ trade' = t /\ Repair(k)
           \/ \E sl \in StopsShown(stop, t.sl) :
                /\ trade' = Refreshed(t, sl)
                /\ IF Protected(trade') THEN Goto(k, <<>>) ELSE Repair(k)

SyncProtects(k) ==
  /\ Runs(k, "protect")
  /\ IF Repairs(k) /\ trade.hits >= trade.aims
     THEN UNCHANGED <<exchange, trade>> /\ Repair(k)
     ELSE \E seen \in IF QueryFails THEN BOOLEAN ELSE {TRUE} :
            TargetsDone(k, seen) \/ StopDone(k, seen) \/ GapLooked(k, seen)

\* The position is not there: any close of the symbol is taken for the
\* trade's, and a second miss after the grace time ends it.
SyncAbsent(k) ==
  LET v == Unprocessed(View(k))
      b == WithMissingFills(trade, v, FALSE)
      t == WithMiss(b)
  IN
  /\ Runs(k, "absent") /\ UNCHANGED <<leg, position>>
  /\ \/ ~trade.owned /\ UNCHANGED <<target, stop, loose, trade>>
     \/ /\ trade.owned /\ ClaimFills(v, FALSE)
        /\ IF ~IsOpen(b) THEN trade' = Finalized(Untracked(b))
           ELSE trade' \in {t} \union IF t.miss = Confirmations THEN {ClosedMissing(t)}
                                      ELSE {}
  /\ Abort(k)

\* The rest of the sync looks at nothing it has read.
SyncEnds(k) ==
  /\ Runs(k, "synced") /\ UNCHANGED <<exchange, trade>>
  /\ Becomes(k, [task[k] EXCEPT !.views = EarlierViews(k)], <<>>)

(* The clock and the channel's messages. *)

Expires ==
  /\ Meets("expiry") /\ Awaiting
  /\ trade.owned /\ ~trade.late
  /\ IsWaiting(trade) \/ (trade.ladder /\ Pending(trade) # {})
  /\ trade' = [trade EXCEPT !.late = TRUE]
  /\ UNCHANGED <<exchange, meets, task, guard>>

RetryDue ==
  /\ Awaiting
  /\ trade.deferred
  /\ trade' = [trade EXCEPT !.deferred = FALSE]
  /\ UNCHANGED <<exchange, meets, task, guard>>

\* A message asks for the close of the trade, of a part of it, or of all trades.
CloseAsked ==
  /\ Ready("poll") /\ trade.owned
  /\ IsWaiting(trade) \/ guard = None
  /\ UNCHANGED <<exchange, meets, guard>>
  /\ LET next(labels) == task' = [task EXCEPT !["poll"].stack = labels]
         asks(labels) == \/ position > 0 /\ trade' = WithoutMiss(trade) /\ next(labels)
                         \/ position = 0 /\ trade' = WithMiss(trade) /\ next(labels)
     IN  \/ /\ IsWaiting(trade) /\ Meets("message")
            /\ UNCHANGED trade /\ next(<<"cancel">>)
         \/ /\ ~IsWaiting(trade) /\ Meets("message")
            /\ \/ asks(<<"close", "answered">>)
               \/ UNCHANGED trade /\ next(<<"close", "closed">>)
         \/ /\ ~IsWaiting(trade) /\ Meets("half")
            /\ asks(<<"halve", "answered">>)

\* After the close one message asked for: a trade that is left is kept.
Answered ==
  /\ Runs("poll", "answered")
  /\ UNCHANGED exchange
  /\ trade' = IF task["poll"].ok /\ ~IsOpen(trade) THEN Finalized(trade) ELSE trade
  /\ Taken("poll", <<>>)

(* The price refresh, which looks after a trade without protection. *)

HasProtection(t) == t.sl # 0 /\ t.tps # {}

\* What the mark price may be beyond: the next target, or the stop (0).
Reached(t) == {0} \union {g \in {t.hits + 1} : g <= t.aims}

\* The strategy closes everything at the last target, else a part.
ClosesAt(t, aim) == IF aim = t.aims THEN "free" ELSE "shave"

\* What is decided here waits for the guard and is not looked at again.
PriceMeets ==
  /\ Meets("price") /\ Ready("price")
  /\ trade.owned /\ trade.status = "open" /\ ~HasProtection(trade)
  /\ UNCHANGED <<exchange, meets, trade, guard>>
  /\ \E aim \in Reached(trade) :
       LET legs == IF trade.ladder THEN <<"retire">> ELSE <<>>
       IN  task' = [task EXCEPT
                      !["price"].aim = aim,
                      !["price"].stack = IF aim = 0 THEN <<"close", "closed">>
                                         ELSE legs \o <<ClosesAt(trade, aim), "counted">>]

\* Legs the target retires are cancelled before its close.
RetireForHit(k) ==
  LET I == RetiredLegs(trade, trade.hits + 1) \cap Pending(trade) IN
  /\ Runs(k, "retire")
  /\ UNCHANGED <<target, stop, loose, position>>
  /\ \E F \in Unanswered :
       /\ CancelLegs(trade, I, F)
       /\ IF ~CancelConfirmed(trade, I, F) THEN Abort(k)
          ELSE Goto(k, IF Added(trade, trade') > 0 THEN Enforce ELSE <<>>)

\* The target is counted and the stop moved where the target puts it.
Counted(k) ==
  /\ Runs(k, "counted")
  /\ UNCHANGED exchange
  /\ LET t == [trade EXCEPT !.hits = Lesser(MaxTargets, @ + 1),
                            !.level = task[k].aim]
     IN  trade' = IF ~task[k].ok THEN trade
                  ELSE IF IsOpen(t) THEN t ELSE Finalized(t)
  /\ Taken(k, <<>>)

Exchanges == Awaiting /\ ExchangeStep /\ UNCHANGED <<meets, trade, task, guard>>

Polls ==
  \/ SubmitLeg \/ CleanUp \/ Opened \/ CloseAsked \/ Answered

Monitors == MonitorLooks \/ MonitorApplies

Prices == PriceMeets \/ RetireForHit("price") \/ Counted("price")

Syncs(k) ==
  \/ SyncAgain(k) \/ SyncReads(k) \/ SyncBooks(k) \/ SyncHolds(k)
  \/ SyncProtects(k) \/ SyncAbsent(k) \/ SyncEnds(k)

Handles(k) ==
  \/ Activated(k) \/ Undone(k) \/ CancelWaiting(k) \/ Closed(k)
  \/ Expire(k) \/ Expired(k) \/ ApplyPolicy(k)

Engine ==
  \/ Expires \/ RetryDue \/ Polls \/ Monitors \/ Prices \/ SyncBegins
  \/ \E k \in Tasks : Syncs(k) \/ Handles(k) \/ RoutineStep(k)
Next == Exchanges \/ Engine

Spec == Init /\ [][Next]_vars

\* A snapshot shows what some of the legs, of the targets and of the stops are.
LegsShownRecord == UNION {[S -> LegRecord] : S \in SUBSET Legs}
ViewRecord ==
  [pos : Nat, lag : BOOLEAN, own : BOOLEAN, leg : LegsShownRecord,
   tps : SUBSET Goals, stops : SUBSET Slots,
   target : [Goals -> Nat], stop : [Slots -> Nat], loose : Nat]
TaskRecord ==
  [stack : Seq(Labels), views : Seq(ViewRecord), todo : [Goals -> 0..MaxQty],
   prev : {0} \union Slots, tries : 0..(Attempts - 1), aim : 0..MaxTargets,
   ok : BOOLEAN]

TaskTypeOK == task \in [Tasks -> TaskRecord] /\ guard \in Tasks \union {None}

\* Every variable has its type.
TypeOK == ExchangeTypeOK /\ TradeTypeOK /\ TaskTypeOK

\* What the legs of a ladder have brought in is what remains, what waits for
\* its fills and what was booked: no fill counts twice or is lost, whoever of
\* the account sync, the monitor and the poll task records it
\* (_reconcile_range_entry_orders, _consume_pending_fill_audit).
LedgerBalances ==
  trade.ladder /\ trade.entered > 0 =>
    trade.entered = trade.remaining + trade.audit + trade.booked

\* The engine never books more closed quantity than was sold, up to and with
\* the booking that closes the trade, whichever of the account sync, a close and
\* the search after a missing position claims a fill
\* (_unprocessed_exchange_fills, _consume_pending_fill_audit).  Two exceptions
\* are in the README: a single entry that the monitor or a cancellation by
\* message applies late, and a close that leaves a residual.
BookedIsSold ==
  [][ trade.reason = None /\ ~Meets("residual")
      /\ (trade.ladder \/ ~(Meets("monitor") \/ Meets("message")))
        => trade'.booked <= Entered' - position' ]_vars

\* While the stop that is tracked rests, no routine of the engine leaves a trade
\* with a position without a resting stop: the new stop is there before the old
\* one goes (_sync_trade_protection_unlocked).
StopKept ==
  [][ trade.status = "open" /\ trade'.status = "open" /\ position' > 0
      /\ task' # task /\ trade.sl \in Resting(stop)
        => Resting(stop') # {} ]_vars

\* An account sync that gets to its end leaves no open position it knows of
\* without its required protection, a retry or an issue raised; the sync after
\* the one that books a stop for a part of it makes up for that part
\* (_reconcile_exchange_trade_protection).
SyncLeavesProtected ==
  (\E k \in Tasks : At(k) = "synced") /\ trade.owned /\ trade.status = "open" =>
    \/ Protected(trade) \/ trade.deferred \/ trade.issues # {}
    \/ \E s \in Slots : stop[s].state = "filled"

\* A stop that ends the trade leaves no entry leg that could open a position
\* nobody owns.
StopExitRetiresLegs ==
  trade.status = "closed" /\ trade.reason = "stop" => Resting(leg) = {}
=============================================================================
