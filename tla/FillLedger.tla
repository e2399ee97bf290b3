----------------------------- MODULE FillLedger -----------------------------
(* What one LiveTrade of live_trading/engine.py records of its entry legs,  *)
(* of its executed close orders and of the physical position, as operators  *)
(* from a trade record to the next.  Prices are left out: the stop is its   *)
(* level, the number of targets whose hit it stands for.                    *)
EXTENDS TradeExchange, Functions

VARIABLE trade

NewTrade(ladder, aims) ==
  [ladder |-> ladder,
   status |-> "waiting",            \* waiting, open (or partly closed), closed
   owned |-> FALSE,                 \* in the engine's _open_trades
   remaining |-> IF ladder THEN MaxQty ELSE LegQty[2],
   entered |-> 0,                   \* entry_filled_quantity
   got |-> [i \in Legs |-> 0],      \* executed_quantity of each leg
   known |-> [i \in Legs |-> "planned"],    \* status of each leg
   late |-> FALSE,                  \* entry_order_expires_at is over
   tps |-> {}, sl |-> 0, need |-> 0,        \* tracked protection
   hits |-> 0, aims |-> aims, level |-> 0,
   audit |-> 0,                     \* pending_fill_audit_quantity
   booked |-> 0,                    \* quantity closed with a known fill
   miss |-> 0, deferred |-> FALSE, issues |-> {}, reason |-> None]

IsOpen(t) == t.status # "closed"       \* a waiting trade is open
IsWaiting(t) == t.status = "waiting"

\* Leg states after which an entry order cannot fill any more.
Settled == {"filled", "gone", "unsent"}
Pending(t) == {i \in Legs : t.known[i] \notin Settled}

(* Take-profit quantities: half of what is left for every target but the    *)
(* last, at least one step each, for as many targets as the steps allow.    *)
LastTarget(t) == t.hits + Lesser(t.aims - t.hits, t.remaining)

\* What the strategy would close at each target.
Shares(t) ==
  LET share[g \in 0..MaxTargets] ==
        IF g <= t.hits THEN t.remaining ELSE share[g - 1] \div 2
  IN  share

\* The steps that are left after each target.
Lefts(t) ==
  LET share == Shares(t)
      left[g \in 0..MaxTargets] ==
        IF g <= t.hits THEN t.remaining
        ELSE IF g >= LastTarget(t) THEN 0
        ELSE left[g - 1] - Lesser(left[g - 1] - (LastTarget(t) - g),
                                  Greater(1, share[g]))
  IN  left

PlanTargets(t) ==
  LET left == Lefts(t)
  IN  [g \in Goals |-> IF g \in (t.hits + 1)..LastTarget(t)
                       THEN left[g - 1] - left[g] ELSE 0]

PlannedTargets(t) == {g \in Goals : PlanTargets(t)[g] > 0}

(* Booking executed close orders. *)

\* [mutant] A fill is not limited to what the trade accounts for.
BookedUnlimited(t, n, why) ==
  LET already == Lesser(t.audit, n)
      left == t.remaining + already - n
  IN  [t EXCEPT !.audit = @ - already, !.remaining = left,
                !.booked = @ + n,
                !.status = IF left = 0 THEN "closed" ELSE "open",
                !.reason = IF left = 0 THEN why ELSE @]

\* An executed quantity is first charged to what a snapshot already took off
\* and then to the remainder; a trade without remainder is closed.
Booked(t, n, why) ==
  LET applied == Lesser(t.remaining + t.audit, n)
      already == Lesser(t.audit, applied)
      left == t.remaining - Lesser(t.remaining, applied - already)
  IN  [t EXCEPT !.audit = @ - already, !.remaining = left,
                !.booked = @ + applied,
                !.status = IF left = 0 THEN "closed" ELSE "open",
                !.reason = IF left = 0 THEN why ELSE @]

TargetsHit(t, hit) ==
  [t EXCEPT !.hits = IF hit = {} THEN @
                     ELSE Greater(@, CHOOSE g \in hit : \A h \in hit : h <= g)]

UnclaimedTargets(v) == SumFunction(v.target)
UnclaimedStops(v) == SumFunction(v.stop)

\* The fills of a snapshot v: those of orders the trade owns, and every close
\* of the symbol when no owned order is asked for.  The fill of a stop may
\* carry an order id the trade does not know (~v.own).
StopsSeen(v, ownedOnly) == IF v.own \/ ~ownedOnly THEN UnclaimedStops(v) ELSE 0
FillsSeen(v, ownedOnly) ==
  UnclaimedTargets(v) + StopsSeen(v, ownedOnly)
    + (IF ownedOnly THEN 0 ELSE v.loose)

\* The targets whose fills a snapshot shows.
MatchingTargets(v) == {g \in Goals : v.target[g] > 0}

WithMissingFills(t, v, ownedOnly) ==
  LET why == IF StopsSeen(v, ownedOnly) > 0 THEN "stop"
             ELSE IF v.loose > 0 /\ ~ownedOnly THEN "close" ELSE "target"
      b == TargetsHit(Booked(t, FillsSeen(v, ownedOnly), why), MatchingTargets(v))
  IN  IF FillsSeen(v, ownedOnly) = 0 THEN t
      ELSE [b EXCEPT !.issues =
              @ \ ({"reconcile"} \union IF b.audit = 0 THEN {"drift"} ELSE {})]

\* The fills of a snapshot whose ids have not been recorded since: a sync of the
\* same task that was called in between may have booked some.
Unprocessed(v) ==
  [v EXCEPT !.target = [g \in Goals |-> Greater(0, v.target[g] - target[g].claimed)],
            !.stop = [s \in Slots |-> Greater(0, v.stop[s] - stop[s].claimed)],
            !.loose = Greater(0, v.loose - loose.claimed)]

\* The bookings above claim the fills they used.
Claimed(order, n) == [order EXCEPT !.claimed = @ + n]
\* [mutant] The fill of a stop is not recorded as processed.
ClaimFillsOfTargets(v, ownedOnly) ==
  /\ target' = [g \in Goals |-> Claimed(target[g], v.target[g])]
  /\ UNCHANGED stop
  /\ loose' = IF ownedOnly THEN loose ELSE Claimed(loose, v.loose)

ClaimFills(v, ownedOnly) ==
  /\ target' = [g \in Goals |-> Claimed(target[g], v.target[g])]
  /\ stop' = [s \in Slots |-> IF v.own \/ ~ownedOnly
                               THEN Claimed(stop[s], v.stop[s]) ELSE stop[s]]
  /\ loose' = IF ownedOnly THEN loose ELSE Claimed(loose, v.loose)

(* Entry fills. *)

\* The legs of the ladder as an order query v shows them; a leg whose query
\* fails, or that was never sent, keeps what is known of it.
LadderOver(v) == DOMAIN v = Legs /\ \A i \in Legs : v[i].state # "rests"
\* [mutant] A later fill sets the remainder to everything that has come in.
WithRangeFillsAfresh(t, v) ==
  LET got == [i \in Legs |-> IF i \in DOMAIN v THEN Greater(t.got[i], v[i].got)
                             ELSE t.got[i]]
      known == [i \in Legs |->
                  IF i \notin DOMAIN v THEN t.known[i]
                  ELSE IF v[i].state = "rests" THEN "working" ELSE v[i].state]
      entered == got[1] + got[2] + got[3]
      u == [t EXCEPT !.got = got, !.known = known, !.late = @ /\ ~LadderOver(v)]
  IN  IF entered = t.entered THEN u
      ELSE [u EXCEPT !.entered = entered, !.status = "open",
                     !.remaining = entered]

WithRangeFills(t, v) ==
  LET got == [i \in Legs |-> IF i \in DOMAIN v THEN Greater(t.got[i], v[i].got)
                             ELSE t.got[i]]
      known == [i \in Legs |->
                  IF i \notin DOMAIN v THEN t.known[i]
                  ELSE IF v[i].state = "rests" THEN "working" ELSE v[i].state]
      entered == got[1] + got[2] + got[3]
      added == entered - t.entered
      u == [t EXCEPT !.got = got, !.known = known, !.late = @ /\ ~LadderOver(v)]
  IN  IF added = 0 THEN u
      ELSE [u EXCEPT !.entered = entered, !.status = "open",
                     !.remaining = IF t.entered = 0 THEN entered
                                   ELSE @ + added]

Added(t, u) == u.entered - t.entered

\* Pending legs that target progress retires.
RetiredLegs(t, hits) ==
  IF hits >= 2 /\ t.got[1] > 0 THEN {2, 3}
  ELSE IF hits >= 1 /\ t.got[2] > 0 THEN {3} ELSE {}

\* A single entry order becomes a position of the n steps its fills show.
WithEntry(t, n) ==
  [t EXCEPT !.status = "open", !.remaining = n, !.entered = n,
            !.got[2] = n, !.known[2] = "filled", !.late = FALSE]

(* Position snapshots. *)

\* A smaller physical position is authoritative; the difference waits for
\* its fills and blocks the bucket.
WithPosition(t, q) ==
  IF q = 0 \/ q >= t.remaining THEN t
  ELSE [t EXCEPT !.remaining = q, !.audit = @ + t.remaining - q,
                 !.issues = @ \union {"drift"}]

Confirmations == 2
WithMiss(t) == [t EXCEPT !.miss = Lesser(Confirmations, @ + 1)]
WithoutMiss(t) == [t EXCEPT !.miss = 0, !.issues = @ \ {"reconcile"}]

(* The end of a trade. *)

Finalized(t) == [t EXCEPT !.owned = FALSE, !.issues = {}, !.miss = 0]
Untracked(t) == [t EXCEPT !.sl = 0, !.tps = {}, !.need = 0]
Unfilled(t) ==
  [Finalized(t) EXCEPT !.status = "closed", !.remaining = 0,
                       !.reason = "unfilled"]
ClosedMissing(t) ==
  [Untracked(Finalized(t)) EXCEPT !.status = "closed", !.remaining = 0,
                                  !.audit = @ + t.remaining,
                                  !.reason = "missing"]

Knowns == {"planned", "sent", "working"} \union Settled
Issues == {"protection", "drift", "reconcile"}
Reasons == {"target", "stop", "close", "missing", "unfilled", "failed"}
TradeRecord ==
  [ladder : BOOLEAN, status : {"waiting", "open", "closed"}, owned : BOOLEAN,
   remaining : 0..MaxQty, entered : 0..MaxQty, got : [Legs -> 0..2],
   known : [Legs -> Knowns], late : BOOLEAN, tps : SUBSET Goals,
   sl : {0} \union Slots, need : 0..MaxTargets, hits : 0..MaxTargets,
   aims : 1..MaxTargets, level : 0..MaxTargets, audit : Nat, booked : Nat,
   miss : 0..Confirmations, deferred : BOOLEAN, issues : SUBSET Issues,
   reason : {None} \union Reasons]

TradeTypeOK == trade \in TradeRecord
=============================================================================
