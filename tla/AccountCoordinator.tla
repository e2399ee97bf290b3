------------------------- MODULE AccountCoordinator -------------------------
(***************************************************************************)
(* One symbol of the exchange account that all live sessions share.  The   *)
(* exchange keeps one physical position per side; every session keeps the  *)
(* logical trades of its channel; the coordinator's registry maps logical  *)
(* legs to the physical bucket of their side, refuses or resizes entries   *)
(* and nets an entry against the opposite legs of other sessions.          *)
(*                                                                         *)
(* An entry runs under the account guard from Admit to its last step, so   *)
(* the other guarded operations (a close, a sync) fall between entries.    *)
(* The exchange, the pending-entry monitor, an operator's stop and a       *)
(* restart of the process do not take the guard and fall anywhere.         *)
(***************************************************************************)
EXTENDS Integers, Sequences, FiniteSets, FiniteSetsExt

CONSTANTS
  Trade,          \* one signal, and the logical trade it may become
  Session,
  SessionOf,      \* SessionOf[t]: the session whose channel posted t
  Side,           \* Side[t]: "long" or "short", the bucket of t
  Want,           \* Want[t]: quantity given by position sizing
  StopRisk,       \* StopRisk[t]: loss per unit at the stop t is sized with
  Risks,          \* Risks[t]: losses per unit a moved stop or a fill may give t
  Alike,          \* pairs with matching entry and stop in the duplicate window
  Pending,        \* trades whose entry order may rest on the book
  PositionPolicy, \* "net", "hedge" or "block"
  SameDirection,  \* "aggregate" or "block"
  RiskCap,        \* stop-risk budget of one side; 0 switches the cap off
  Events,         \* what else may happen, see EventNames
  Nobody

SideNames == {"long", "short"}
EventNames == {"exchange", "partial", "unconfirmed", "flatten", "issue",
               "closeall", "tiers", "moves", "unlisted", "stop", "force",
               "restart"}

ASSUME TradeAssumption == IsFiniteSet(Trade)
ASSUME SessionOfAssumption == SessionOf \in [Trade -> Session]
ASSUME SideAssumption == Side \in [Trade -> SideNames]
ASSUME WantAssumption == Want \in [Trade -> Nat \ {0}]
ASSUME StopRiskAssumption == StopRisk \in [Trade -> Nat \ {0}]
ASSUME RisksAssumption == Risks \in [Trade -> SUBSET Nat]
ASSUME AlikeAssumption == Alike \subseteq Trade \X Trade
ASSUME PendingAssumption == Pending \subseteq Trade
ASSUME PolicyAssumption == /\ PositionPolicy \in {"net", "hedge", "block"}
                           /\ SameDirection \in {"aggregate", "block"}
ASSUME RiskCapAssumption == RiskCap \in Nat
ASSUME EventsAssumption == Events \subseteq EventNames
ASSUME NobodyAssumption == Nobody \notin Trade

VARIABLES
  active,   \* sessions whose stored status is starting or running
  up,       \* sessions whose engine runs
  trade,    \* trade[t]: the logical trade, as its engine and the store know it
  managed,  \* trades in _open_trades of a running engine
  leg,      \* _legs: the coordinator's registry
  blocked,  \* _blocked_buckets: <<reason, t>> blocks the bucket of t
  sick,     \* trades with an issue in their session's health_issues
  older,    \* pairs of trades, the first opened_at before the second
  op,       \* the entry that holds the account guard
  held,     \* held[side]: the physical position on the exchange
  entry,    \* entry[t]: the entry order of t on the exchange and its quantity
  due       \* due[t]: executed by the stop of t, not booked yet

registry == <<leg, blocked>>
exchange == <<held, entry, due>>
sessions == <<active, up>>
vars == <<active, up, trade, managed, leg, blocked, sick, older, op,
          held, entry, due>>

Opposite(s) == CHOOSE o \in SideNames : o # s
MinOf(a, b) == IF a < b THEN a ELSE b
Less(a, b) == IF a > b THEN a - b ELSE 0

\* risk: the loss per unit at the stop of now; missed: its position was not
\* found once.
Logical == [status : {"new", "opening", "waiting", "open", "closed", "lost"},
            qty : Nat, risk : Nat, missed : BOOLEAN]
Over(end) == [status |-> end, qty |-> 0, risk |-> 0, missed |-> FALSE]
\* A leg keeps the stop its trade had when it was registered.
NoLeg == [status |-> "none", qty |-> 0, risk |-> 0, handler |-> FALSE]
Leg == [status : {"none", "waiting", "open"}, qty : Nat, risk : Nat,
        handler : BOOLEAN]
Order == [status : {"none", "resting", "filled"}, qty : Nat]
NoOrder == [status |-> "none", qty |-> 0]
Blocks == {"stopped", "issue"} \X Trade
Phases == {"idle", "netting", "entering", "submitted", "protecting"}
\* raised: the blocks set since the entry took the guard, which no step reads.
Entry == [by : Trade \cup {Nobody}, phase : Phases,
          todo : Seq([of : Trade, leg : Leg]), offset : Nat,
          raised : SUBSET Blocks]
Idle == [by |-> Nobody, phase |-> "idle", todo |-> <<>>, offset |-> 0,
         raised |-> {}]

TypeOK ==
  /\ active \subseteq Session /\ up \subseteq Session
  /\ trade \in [Trade -> Logical]
  /\ managed \subseteq Trade
  /\ leg \in [Trade -> Leg]
  /\ blocked \subseteq Blocks
  /\ sick \subseteq Trade
  /\ older \subseteq Trade \X Trade
  /\ op \in Entry
  /\ held \in [SideNames -> Nat]
  /\ entry \in [Trade -> Order]
  /\ due \in [Trade -> Nat]

Init ==
  /\ active = Session /\ up = Session
  /\ trade = [t \in Trade |-> Over("new")]
  /\ managed = {}
  /\ leg = [t \in Trade |-> NoLeg]
  /\ blocked = {} /\ sick = {} /\ older = {}
  /\ op = Idle
  /\ held = [s \in SideNames |-> 0]
  /\ entry = [t \in Trade |-> NoOrder]
  /\ due = [t \in Trade |-> 0]

-----------------------------------------------------------------------------
(* Readings of the state.                                                  *)

IsUp(t) == SessionOf[t] \in up
Registered(t) == leg[t] # NoLeg
SameSideLegs(t) ==
  {u \in Trade \ {t} : Registered(u) /\ Side[u] = Side[t] /\ leg[u].qty > 0}
OppositeLegs(t) ==
  {u \in Trade : Registered(u) /\ Side[u] = Opposite(Side[t]) /\ leg[u].qty > 0}
BlockReasons(s) == {b \in blocked : Side[b[2]] = s}

\* The trades the store holds as open: an entry in flight is saved at its end.
StoredOpen(t) == trade[t].status \in {"waiting", "open"} /\ op.by # t

Resting(t) == entry[t].status = "resting"
Filled(t) == entry[t].status = "filled"

\* What the exchange holds for t according to its trade.
OwnedQty(t) ==
  CASE trade[t].status = "open" -> Less(trade[t].qty, due[t])
    [] trade[t].status \in {"opening", "waiting"} /\ Filled(t) -> entry[t].qty
    [] OTHER -> 0
Owned(s) == MapThenSumSet(OwnedQty, {t \in Trade : Side[t] = s})

Opened == {t \in Trade : trade[t].status # "new"}

\* opened_at of t is now: t becomes the youngest trade.  Only netting asks.
OpenedNow(t) ==
  older' = IF PositionPolicy = "net"
             THEN {p \in older : t \notin {p[1], p[2]}} \cup ((Opened \ {t}) \X {t})
             ELSE older

-----------------------------------------------------------------------------
(* The end of a trade.                                                     *)

Closed == Over("closed")

\* The except branch of _open_position: whatever the exchange did, the trade
\* is stored as closed, its leg is dropped and no bucket is blocked.
Abort(t) ==
  /\ trade' = [trade EXCEPT ![t] = Closed]
  /\ leg' = [leg EXCEPT ![t] = NoLeg]
  /\ op' = Idle

\* _finalize_closed_trade: out of _open_trades, leg dropped, issues cleared.
Forget(t) ==
  /\ managed' = managed \ {t}
  /\ sick' = sick \ {t}
  /\ blocked' = blocked \ {<<"issue", t>>}

\* register_trade takes the stop of now; moving it later registers nothing.
LegOf(t, status, q) ==
  [status |-> status, qty |-> q, risk |-> trade[t].risk, handler |-> TRUE]
OpenLeg(t, q) == LegOf(t, "open", q)
WaitingLeg(t, q) == LegOf(t, "waiting", q)

-----------------------------------------------------------------------------
(* Reducing a leg on the exchange: _execute_exchange_close_unlocked.       *)

\* [mutant] The residual loop runs although other legs share the bucket.
FlattensShared(t, q) == q = trade[t].qty
\* A full close of the only leg of a bucket reads the position afterwards and
\* keeps closing the residual; any other close sends just its quantity.
Flattens(t, q) == q = trade[t].qty /\ SameSideLegs(t) = {}

\* [mutant] Close orders are not reduce-only.
ExecutionsUnbounded(t, q) == {q}
\* Reduce-only orders execute at most what the bucket holds.
Executions(t, q) ==
  LET most == IF Flattens(t, q) THEN held[Side[t]] ELSE MinOf(q, held[Side[t]])
  IN  IF "partial" \in Events THEN 1 .. most ELSE {most} \ {0}

\* The quantity reported as executed: read off the remaining position when the
\* bucket was to be flattened, the fills of the order otherwise.
Reported(t, q, e) ==
  IF Flattens(t, q) THEN Less(trade[t].qty, held[Side[t]] - e)
                    ELSE MinOf(e, trade[t].qty)

\* _apply_exchange_close_result.
Reduce(t, q, e) ==
  LET left == trade[t].qty - Reported(t, q, e) IN
  /\ held' = [held EXCEPT ![Side[t]] = @ - e]
  /\ trade' = [trade EXCEPT ![t] = IF left = 0 THEN Closed
                                   ELSE [@ EXCEPT !.qty = left]]
  /\ leg' = [leg EXCEPT ![t] = IF left = 0 THEN NoLeg ELSE OpenLeg(t, left)]
  /\ due' = [due EXCEPT ![t] = IF left = 0 /\ Flattens(t, q) THEN 0 ELSE @]
  /\ UNCHANGED entry

\* What follows in the caller: a trade that was closed leaves its engine.
ForgetIfClosed(t) ==
  IF trade'[t].status = "closed" THEN Forget(t)
                                 ELSE UNCHANGED <<managed, sick, blocked>>

-----------------------------------------------------------------------------
(* An entry: from the signal to the guard.                                 *)

\* _open_position: the session's health is looked at, then the trade is sized
\* and created; it is in no store and no registry while it waits for the guard.
Signal(t) ==
  /\ trade[t].status = "new" /\ IsUp(t)
  /\ ~\E u \in sick : SessionOf[u] = SessionOf[t]
  /\ trade' = [trade EXCEPT ![t] = [status |-> "opening", qty |-> Want[t],
                                    risk |-> StopRisk[t], missed |-> FALSE]]
  /\ OpenedNow(t)
  /\ UNCHANGED <<sessions, managed, registry, sick, op, exchange>>

\* Trades of stopped sessions in the bucket of t none of whose orders is seen
\* on the exchange.
Stale(t, unseen) ==
  {u \in Trade : /\ Side[u] = Side[t] /\ StoredOpen(u)
                 /\ SessionOf[u] \notin active
                 /\ Resting(u) => u \in unseen}
\* The query of the trigger orders may fail, and the failure is passed over:
\* any of the resting entries may be one and is not seen.
Unseen == IF "unlisted" \in Events THEN SUBSET {u \in Trade : Resting(u)} ELSE {{}}
\* _reconcile_stopped_session_bucket_if_flat: the trades it gives up, once the
\* exchange shows no position in the bucket.
Releasable(t, unseen) ==
  IF /\ held[Side[t]] = 0
     /\ \E b \in BlockReasons(Side[t]) : b[1] = "stopped"
    THEN Stale(t, unseen) ELSE {}

\* The legs L as coordinate_open lists them, first in first out by opened_at.
Listed(L) ==
  {[i \in DOMAIN f |-> [of |-> f[i], leg |-> leg[f[i]]]] :
     f \in {g \in [1 .. Cardinality(L) -> L] :
             \A i, j \in DOMAIN g : i < j => <<g[i], g[j]>> \in older}}

\* [mutant] Pending opposite entries are passed over.
SnapshotOpenOnly(t) == Listed({u \in OppositeLegs(t) : leg[u].status = "open"})
\* _opposite_legs: a snapshot of the registry.
Snapshot(t) == Listed(OppositeLegs(t))

\* [mutant] Releasing stale ownership opens the bucket whatever else shuts it.
RefusedUnlessStopped(t, freed) ==
  \/ freed = {} /\ BlockReasons(Side[t]) # {}
  \/ PositionPolicy = "block" /\ OppositeLegs(t) # {}
\* coordinate_open up to its first await: blocks, then the block policy.
Refused(t, freed) ==
  \/ BlockReasons(Side[t]) \ ({"stopped"} \X freed) # {}
  \/ PositionPolicy = "block" /\ OppositeLegs(t) # {}

\* The guard is taken and stale ownership of the bucket released; the entry is
\* refused, or the legs to net against are listed.
Admit(t, unseen) ==
  /\ op = Idle /\ trade[t].status = "opening" /\ IsUp(t)
  /\ LET freed == Releasable(t, unseen)
         end == IF Refused(t, freed) THEN freed \cup {t} ELSE freed
     IN  /\ trade' = [u \in Trade |-> IF u \in end THEN Closed ELSE trade[u]]
         /\ blocked' = blocked \ ({"stopped"} \X freed)
         /\ \E todo \in IF PositionPolicy = "net" THEN Snapshot(t) ELSE {<<>>} :
              op' = IF Refused(t, freed) THEN Idle
                    ELSE [Idle EXCEPT !.by = t, !.phase = "netting",
                                      !.todo = todo]
  /\ UNCHANGED <<sessions, managed, leg, sick, older, exchange>>

-----------------------------------------------------------------------------
(* Netting: _net_opposite_legs and _dispatch_account_net_close.            *)

Netting(t) == op.by = t /\ op.phase = "netting"
NettingDone(t) == op.todo = <<>> \/ op.offset >= Want[t]
NetQty(t) == MinOf(Head(op.todo).leg.qty, Want[t] - op.offset)

\* The leg, as it was listed, has no owner to ask or an entry still pending.
Unnettable(l) ==
  l.leg.status = "waiting" \/ ~l.leg.handler \/ ~IsUp(l.of)

\* The owner closes its part; what it returns counts as offset.
NetClose(t, e) ==
  /\ Netting(t) /\ ~NettingDone(t) /\ ~Unnettable(Head(op.todo))
  /\ LET u == Head(op.todo).of
         q == MinOf(NetQty(t), trade[u].qty)
     IN  /\ u \in managed /\ trade[u].status = "open" /\ q > 0
         /\ e \in Executions(u, q) /\ Reported(u, q, e) > 0
         /\ Reduce(u, q, e)
         /\ ForgetIfClosed(u)
         /\ op' = [op EXCEPT !.todo = Tail(@),
                             !.offset = @ + MinOf(Reported(u, q, e), NetQty(t))]
  /\ UNCHANGED <<sessions, older>>

\* A leg that cannot be netted, or a close that raises before it executes.
NetConflict(t) ==
  /\ Netting(t) /\ ~NettingDone(t)
  /\ Abort(t)
  /\ UNCHANGED <<sessions, managed, blocked, sick, older, exchange>>

\* The protection of what is left of the leg cannot be rebuilt: the close is
\* done, the error ends the entry and the offset is forgotten.
NetRaises(t, e) ==
  /\ Netting(t) /\ ~NettingDone(t) /\ ~Unnettable(Head(op.todo))
  /\ LET u == Head(op.todo).of
         q == MinOf(NetQty(t), trade[u].qty)
         left == trade[u].qty - Reported(u, q, e)
     IN  /\ u \in managed /\ trade[u].status = "open" /\ q > 0
         /\ e \in Executions(u, q) /\ left > 0
         /\ held' = [held EXCEPT ![Side[u]] = @ - e]
         /\ trade' = [trade EXCEPT ![u].qty = left, ![t] = Closed]
         /\ leg' = [leg EXCEPT ![u] = OpenLeg(u, left), ![t] = NoLeg]
         /\ op' = Idle
  /\ UNCHANGED <<sessions, managed, blocked, sick, older, entry, due>>

-----------------------------------------------------------------------------
(* The decision of coordinate_open.                                        *)

\* [mutant] What was netted is opened again.
ResidualWhole(t) == Want[t]
Residual(t) == Less(Want[t], op.offset)
\* [mutant] Pending entries are no duplicates.
IsDuplicateOpen(t) ==
  \E u \in SameSideLegs(t) : /\ leg[u].status = "open"
                             /\ <<u, t>> \in Alike \/ <<t, u>> \in Alike
IsDuplicate(t) ==
  \E u \in SameSideLegs(t) : <<u, t>> \in Alike \/ <<t, u>> \in Alike

LegRisk(u) == leg[u].risk * leg[u].qty
\* [mutant] Reserved quantity of pending entries is not counted.
FitsOpenOnly(t, x) ==
  RiskCap = 0 \/ x * trade[t].risk + MapThenSumSet(LegRisk,
      {u \in SameSideLegs(t) : leg[u].status = "open"}) <= RiskCap
\* _apply_symbol_risk_cap: the side's legs and x more stay within the budget.
Fits(t, x) ==
  RiskCap = 0
    \/ x * trade[t].risk + MapThenSumSet(LegRisk, SameSideLegs(t)) <= RiskCap

\* The approved quantity: all that is left to open, or the most that fits.
Approves(t, x) ==
  /\ x \in 1 .. Residual(t) /\ Fits(t, x)
  /\ x = Residual(t) \/ ~Fits(t, x + 1)

\* Wholly netted, a duplicate, refused by policy or by the cap: the trade ends
\* without exposure.
DecideAgainst(t) ==
  /\ Netting(t) /\ NettingDone(t)
  /\ \/ Residual(t) = 0
     \/ IsDuplicate(t)
     \/ SameDirection = "block" /\ SameSideLegs(t) # {}
     \/ ~Fits(t, 1)
  /\ Abort(t)
  /\ UNCHANGED <<sessions, managed, blocked, sick, older, exchange>>

\* The approved quantity is what the trade has left.
Decide(t, x) ==
  /\ Netting(t) /\ NettingDone(t)
  /\ ~IsDuplicate(t)
  /\ SameDirection = "block" => SameSideLegs(t) = {}
  /\ Approves(t, x)
  /\ trade' = [trade EXCEPT ![t].qty = x]
  /\ op' = [op EXCEPT !.phase = "entering"]
  /\ UNCHANGED <<sessions, managed, registry, sick, older, exchange>>

-----------------------------------------------------------------------------
(* The entry order.                                                        *)

InPhase(t, p) == op.by = t /\ op.phase = p

\* [mutant] The error path keeps the guard.
EntryRejectedKeepingGuard(t) ==
  /\ InPhase(t, "entering") /\ trade[t].status = "opening"
  /\ trade' = [trade EXCEPT ![t] = Closed]
  /\ UNCHANGED <<sessions, managed, registry, sick, older, op, exchange>>

\* Contract, leverage or the order itself is rejected.
EntryRejected(t) ==
  /\ InPhase(t, "entering")
  /\ Abort(t)
  /\ UNCHANGED <<sessions, managed, blocked, sick, older, exchange>>

\* _apply_exchange_risk_limit_to_open_trade and _resize_trade_for_target_leverage
\* come after the account's approval.  A refused leverage is lowered and the
\* order sized again from the margin, which neither netting nor the cap reduced.
Orderable(t) ==
  {trade[t].qty} \cup (IF "tiers" \in Events THEN 1 .. Want[t] - 1 ELSE {})

\* The exchange takes an order of n: it rests, or x of it executes and the rest
\* is cancelled.  What a resting order reserves is never raised with it.
Submit(t, n, x) ==
  /\ InPhase(t, "entering") /\ n \in Orderable(t) /\ x \in 0 .. n
  /\ x = 0 => t \in Pending
  /\ entry' = [entry EXCEPT ![t] =
                 IF x = 0 THEN [status |-> "resting", qty |-> n]
                          ELSE [status |-> "filled", qty |-> x]]
  /\ held' = [held EXCEPT ![Side[t]] = @ + x]
  /\ trade' = [trade EXCEPT ![t].qty = IF x = 0 THEN MinOf(@, n) ELSE x]
  /\ op' = [op EXCEPT !.phase = "submitted"]
  /\ UNCHANGED <<sessions, managed, registry, sick, older, due>>

\* The answer reports no fill: the trade waits, registered and stored, and the
\* guard is released.
EntryWaits(t) ==
  /\ InPhase(t, "submitted") /\ t \in Pending
  /\ trade' = [trade EXCEPT ![t].status = "waiting"]
  /\ leg' = [leg EXCEPT ![t] = WaitingLeg(t, trade[t].qty)]
  /\ managed' = managed \cup {t}
  /\ op' = Idle
  /\ UNCHANGED <<sessions, blocked, sick, older, exchange>>

\* _activate_filled_entry up to the protection calls: opened_at is reset and
\* the leg registered; the engine does not list the trade yet.
EntryFilled(t) ==
  /\ InPhase(t, "submitted") /\ Filled(t)
  /\ trade' = [trade EXCEPT ![t].status = "open", ![t].qty = entry[t].qty]
  /\ leg' = [leg EXCEPT ![t] = OpenLeg(t, entry[t].qty)]
  /\ entry' = [entry EXCEPT ![t] = NoOrder]
  /\ OpenedNow(t)
  /\ op' = [op EXCEPT !.phase = "protecting"]
  /\ UNCHANGED <<sessions, managed, blocked, sick, held, due>>

\* The order history does not show the market entry in time.
EntryUnconfirmed(t) ==
  /\ "unconfirmed" \in Events
  /\ InPhase(t, "submitted") /\ t \notin Pending
  /\ Abort(t)
  /\ UNCHANGED <<sessions, managed, blocked, sick, older, exchange>>

Protected(t) ==
  /\ InPhase(t, "protecting")
  /\ managed' = managed \cup {t}
  /\ op' = Idle
  /\ UNCHANGED <<sessions, trade, registry, sick, older, exchange>>

\* No protection: the position is flattened, then the entry fails anyway.
Flattened(t, e) ==
  /\ InPhase(t, "protecting") /\ e \in Executions(t, trade[t].qty)
  /\ held' = [held EXCEPT ![Side[t]] = @ - e]
  /\ due' = [due EXCEPT ![t] = 0]
  /\ Abort(t)
  /\ UNCHANGED <<sessions, managed, blocked, sick, older, entry>>

\* Neither protected nor flattened.
FlattenFails(t) ==
  /\ "flatten" \in Events /\ InPhase(t, "protecting")
  /\ Abort(t)
  /\ UNCHANGED <<sessions, managed, blocked, sick, older, exchange>>

-----------------------------------------------------------------------------
(* Guarded work between entries.                                           *)

GuardFree == op = Idle
Holds(t, status) == t \in managed /\ IsUp(t) /\ trade[t].status = status

\* A follow-up closes q of an open trade.
CloseTrade(t, q, e) ==
  /\ GuardFree /\ Holds(t, "open")
  /\ q \in 1 .. trade[t].qty /\ e \in Executions(t, q)
  /\ Reduce(t, q, e)
  /\ ForgetIfClosed(t)
  /\ UNCHANGED <<sessions, older, op>>

\* "Close all" and the local stop-loss check finalize the trade whatever the
\* close executed.
CloseAll(t, e) ==
  /\ "closeall" \in Events /\ GuardFree /\ Holds(t, "open")
  /\ e \in Executions(t, trade[t].qty)
  /\ LET left == trade[t].qty - Reported(t, trade[t].qty, e)
     IN  trade' = [trade EXCEPT ![t] = IF left = 0 THEN Closed
                                       ELSE [@ EXCEPT !.qty = left]]
  /\ held' = [held EXCEPT ![Side[t]] = @ - e]
  /\ due' = [due EXCEPT ![t] = IF trade'[t] = Closed THEN 0 ELSE @]
  /\ leg' = [leg EXCEPT ![t] = NoLeg]
  /\ Forget(t)
  /\ UNCHANGED <<sessions, older, op, entry>>

\* A waiting entry is cancelled, or it expired, and the exchange confirms that
\* nothing was filled.
CancelEntry(t) ==
  /\ GuardFree /\ Holds(t, "waiting") /\ Resting(t)
  /\ entry' = [entry EXCEPT ![t] = NoOrder]
  /\ trade' = [trade EXCEPT ![t] = Closed]
  /\ leg' = [leg EXCEPT ![t] = NoLeg]
  /\ managed' = managed \ {t}
  /\ UNCHANGED <<sessions, blocked, sick, older, op, held, due>>

\* _sync_exchange_state books what the stop of t executed.
Sync(t) ==
  /\ GuardFree /\ Holds(t, "open") /\ due[t] > 0
  /\ LET left == Less(trade[t].qty, due[t])
     IN  /\ trade' = [trade EXCEPT ![t] = IF left = 0 THEN Closed
                                          ELSE [@ EXCEPT !.qty = left]]
         /\ leg' = [leg EXCEPT ![t] = IF left = 0 THEN NoLeg ELSE OpenLeg(t, left)]
         /\ managed' = IF left = 0 THEN managed \ {t} ELSE managed
  /\ sick' = sick \ {t} /\ blocked' = blocked \ {<<"issue", t>>}
  /\ due' = [due EXCEPT ![t] = 0]
  /\ UNCHANGED <<sessions, older, op, held, entry>>

-----------------------------------------------------------------------------
(* Work without the guard: the exchange and the pending-entry monitor.     *)

EntryExecutes(t) ==
  /\ Resting(t)
  /\ entry' = [entry EXCEPT ![t].status = "filled"]
  /\ held' = [held EXCEPT ![Side[t]] = @ + entry[t].qty]
  /\ UNCHANGED <<sessions, trade, managed, registry, sick, older, op, due>>

\* The stop of t executes: all that is left of t, as far as the bucket goes.
StopExecutes(t) ==
  /\ "exchange" \in Events /\ trade[t].status = "open" /\ due[t] = 0
  /\ LET x == MinOf(trade[t].qty, held[Side[t]])
     IN  /\ x > 0
         /\ due' = [due EXCEPT ![t] = x]
         /\ held' = [held EXCEPT ![Side[t]] = @ - x]
  /\ UNCHANGED <<sessions, trade, managed, registry, sick, older, op, entry>>

\* [mutant] The entry is activated in the engine but not registered again.
ActivateUnregistered(t) ==
  /\ Holds(t, "waiting") /\ Filled(t)
  /\ trade' = [trade EXCEPT ![t].status = "open", ![t].qty = entry[t].qty]
  /\ entry' = [entry EXCEPT ![t] = NoOrder]
  /\ OpenedNow(t)
  /\ UNCHANGED <<sessions, managed, registry, sick, op, held, due>>

\* The monitor, or the guarded sync, sees the entry filled.
Activate(t) ==
  /\ Holds(t, "waiting") /\ Filled(t)
  /\ trade' = [trade EXCEPT ![t].status = "open", ![t].qty = entry[t].qty]
  /\ leg' = [leg EXCEPT ![t] = OpenLeg(t, entry[t].qty)]
  /\ entry' = [entry EXCEPT ![t] = NoOrder]
  /\ OpenedNow(t)
  /\ UNCHANGED <<sessions, managed, blocked, sick, op, held, due>>

\* No protection for the activated entry: the close takes the guard, and its
\* error leaves the closed trade in _open_trades.
ActivateFlattened(t, e) ==
  /\ GuardFree /\ Holds(t, "waiting") /\ Filled(t)
  /\ LET n == entry[t].qty
         most == IF SameSideLegs(t) = {} THEN held[Side[t]]
                                         ELSE MinOf(n, held[Side[t]])
         left == IF SameSideLegs(t) = {} THEN MinOf(n, held[Side[t]] - e)
                                         ELSE Less(n, e)
     IN  /\ e \in IF "partial" \in Events THEN 1 .. most ELSE {most} \ {0}
         /\ trade' = [trade EXCEPT ![t] =
              IF left = 0 THEN Closed
                          ELSE [@ EXCEPT !.status = "open", !.qty = left]]
         /\ leg' = [leg EXCEPT ![t] = IF left = 0 THEN NoLeg
                                                  ELSE OpenLeg(t, left)]
  /\ held' = [held EXCEPT ![Side[t]] = @ - e]
  /\ entry' = [entry EXCEPT ![t] = NoOrder]
  /\ OpenedNow(t)
  /\ UNCHANGED <<sessions, managed, blocked, sick, op, due>>

\* The position of t is there: what was missed or in doubt is settled.
PositionFound(t) ==
  /\ Holds(t, "open") /\ held[Side[t]] > 0
  /\ trade[t].missed \/ t \in sick
  /\ trade' = [trade EXCEPT ![t].missed = FALSE]
  /\ sick' = sick \ {t} /\ blocked' = blocked \ {<<"issue", t>>}
  /\ UNCHANGED <<sessions, managed, leg, older, op, exchange>>

\* The first time the position of t is missing is only noted; the second time
\* the trade is closed, with what its stop is known to have executed.  A sync
\* looks under the guard, a follow-up without it.
PositionMissing(t) ==
  /\ Holds(t, "open") /\ held[Side[t]] = 0
  /\ IF trade[t].missed
       THEN /\ trade' = [trade EXCEPT ![t] = Closed]
            /\ leg' = [leg EXCEPT ![t] = NoLeg]
            /\ due' = [due EXCEPT ![t] = 0]
            /\ Forget(t)
       ELSE /\ trade' = [trade EXCEPT ![t].missed = TRUE]
            /\ UNCHANGED <<leg, due, managed, sick, blocked>>
  /\ UNCHANGED <<sessions, older, op, held, entry>>

\* The monitor finds a fill without details, or an open trade cannot be
\* protected: an issue, whatever has the guard.
Issue(t) ==
  /\ "issue" \in Events /\ t \notin sick
  /\ Holds(t, "open") \/ (Holds(t, "waiting") /\ Filled(t))
  /\ sick' = sick \cup {t} /\ blocked' = blocked \cup {<<"issue", t>>}
  /\ op' = IF op.by \in Trade /\ Side[op.by] = Side[t]
             THEN [op EXCEPT !.raised = @ \cup {<<"issue", t>>}] ELSE op
  /\ UNCHANGED <<sessions, trade, managed, leg, older, exchange>>

\* A follow-up or a target moves the stop of t, or the protection is rebased on
\* its fill price, without registering the trade again.
MoveStop(t, r) ==
  /\ "moves" \in Events /\ r # trade[t].risk
  /\ t \in managed /\ IsUp(t) /\ trade[t].status \in {"waiting", "open"}
  /\ trade' = [trade EXCEPT ![t].risk = r]
  /\ UNCHANGED <<sessions, managed, registry, sick, older, op, exchange>>

-----------------------------------------------------------------------------
(* Stops and restarts.                                                     *)

\* The engine of s ends: its tasks are cancelled, an entry of s among them.
\* Cancellation is no Exception: _open_position stores and drops nothing.
Halt(s) ==
  /\ s \in active /\ s \in up
  /\ active' = active \ {s} /\ up' = up \ {s}
  /\ trade' = [t \in Trade |->
       IF SessionOf[t] = s /\ (trade[t].status = "opening" \/ op.by = t)
         THEN Over("lost") ELSE trade[t]]
  /\ managed' = {t \in managed : SessionOf[t] # s}
  /\ op' = IF op.by \in Trade /\ SessionOf[op.by] = s THEN Idle ELSE op
  /\ UNCHANGED <<registry, sick, older, exchange>>

\* stop_session refuses while the store has open trades of s.
Stop(s) ==
  /\ "stop" \in Events
  /\ ~\E t \in Trade : SessionOf[t] = s /\ StoredOpen(t)
  /\ Halt(s)

ForceStop(s) == "force" \in Events /\ Halt(s)

\* restore_from_store.
RestoredBlocks ==
  {"stopped"} \X {t \in Trade : StoredOpen(t) /\ SessionOf[t] \notin active}
RestoredLeg(t) ==
  IF StoredOpen(t) /\ SessionOf[t] \in active
    THEN [LegOf(t, trade[t].status, trade[t].qty) EXCEPT !.handler = FALSE]
    ELSE NoLeg

\* The process ends and starts again: a new coordinator is filled from the
\* store before any engine runs.
Restart ==
  /\ "restart" \in Events /\ up # {}
  /\ up' = {} /\ managed' = {} /\ op' = Idle
  /\ trade' = [t \in Trade |->
       IF trade[t].status = "opening" \/ op.by = t
         THEN Over("lost") ELSE trade[t]]
  /\ leg' = [t \in Trade |-> RestoredLeg(t)]
  /\ blocked' = RestoredBlocks
  /\ UNCHANGED <<active, sick, older, exchange>>

\* [mutant] The engine starts without its stored trades.
EngineUpEmpty(s) ==
  /\ s \in active \ up
  /\ up' = up \cup {s}
  /\ UNCHANGED <<active, managed, leg, trade, blocked, sick, older, op, exchange>>

\* _restore_runtime_state: the engine lists and registers its stored trades.
EngineUp(s) ==
  /\ s \in active \ up
  /\ up' = up \cup {s}
  /\ LET mine == {t \in Trade : SessionOf[t] = s /\ StoredOpen(t)}
     IN  /\ managed' = managed \cup mine
         /\ leg' = [t \in Trade |->
              IF t \in mine THEN LegOf(t, trade[t].status, trade[t].qty)
                            ELSE leg[t]]
  /\ UNCHANGED <<active, trade, blocked, sick, older, op, exchange>>

-----------------------------------------------------------------------------
(* The specification.                                                      *)

Quantities == 0 .. (MapThenSumSet(LAMBDA t : Want[t], Trade))

\* The steps of the entry of t once it has the guard.
EntryStep(t) ==
  \/ \E e \in Quantities : NetClose(t, e) \/ NetRaises(t, e) \/ Flattened(t, e)
  \/ NetConflict(t) \/ DecideAgainst(t) \/ EntryRejected(t)
  \/ \E x \in 1 .. Want[t] : Decide(t, x)
  \/ \E n \in Orderable(t) : \E x \in 0 .. n : Submit(t, n, x)
  \/ EntryWaits(t) \/ EntryFilled(t) \/ EntryUnconfirmed(t)
  \/ Protected(t) \/ FlattenFails(t)

Next ==
  \/ \E t \in Trade :
       \/ Signal(t) \/ (\E unseen \in Unseen : Admit(t, unseen)) \/ EntryStep(t)
       \/ \E q \in 1 .. trade[t].qty, e \in Quantities : CloseTrade(t, q, e)
       \/ \E e \in Quantities : CloseAll(t, e) \/ ActivateFlattened(t, e)
       \/ CancelEntry(t) \/ Sync(t)
       \/ EntryExecutes(t) \/ StopExecutes(t) \/ Activate(t) \/ Issue(t)
       \/ PositionFound(t) \/ PositionMissing(t)
       \/ \E r \in Risks[t] : MoveStop(t, r)
  \/ \E s \in Session : Stop(s) \/ ForceStop(s) \/ EngineUp(s)
  \/ Restart

Spec == Init /\ [][Next]_vars

\* An entry task that has the guard, or finds it free, goes on: every await of
\* an entry is bounded by a timeout.
EntryFairness ==
  \A t \in Trade : /\ WF_vars(\E unseen \in Unseen : Admit(t, unseen))
                   /\ WF_vars(EntryStep(t))

EntrySpec == Spec /\ EntryFairness

\* The dashboard restarts the engines of active sessions.
RestartFairness == \A s \in Session : WF_vars(EngineUp(s))

RestartSpec == Spec /\ RestartFairness

-----------------------------------------------------------------------------
(* Properties.                                                             *)

\* The registry mirrors the engines: a trade an engine lists is registered
\* with its own status and quantity and the engine as its owner, and a leg
\* belongs to a listed trade, to the entry in progress, or to an engine that
\* is down.
RegistryMirrorsTrades ==
  /\ \A t \in managed : trade[t].status \in {"waiting", "open"} =>
       /\ leg[t].status = trade[t].status /\ leg[t].qty = trade[t].qty
       /\ leg[t].handler
  /\ \A t \in Trade : Registered(t) =>
       \/ t \in managed \/ InPhase(t, "protecting") \/ ~IsUp(t)

\* Under the "net" and "block" policies the account never holds both sides of
\* the symbol.
NoHedge == \A s \in SideNames : held[s] = 0 \/ held[Opposite(s)] = 0

\* What the exchange holds on a side is what the trades of that side own: no
\* exposure is left without an owner and no close takes another trade's part.
ExposureIsOwned == \A s \in SideNames : held[s] = Owned(s)

\* What the stop of t executed is still on t when it is booked: no close of t
\* was taken from what other trades hold in the bucket.
ExecutionsAreOwned ==
  \A t \in Trade : due[t] > 0 => trade[t].status = "open" /\ due[t] <= trade[t].qty

\* What an entry is approved for fits the budget of its side together with all
\* that is stored as open there, trades of stopped sessions and of engines that
\* are down included: each with the quantity it has now, at the stop it was
\* registered with.  (A stop that was moved since, and an order that the tiers
\* made larger than its approval, are not seen by the account.)
Approved(t) == op.by = t /\ op.phase = "netting" /\ op'.phase = "entering"
RegisteredRisk(u) ==
  (IF Registered(u) THEN leg[u].risk ELSE trade[u].risk) * trade[u].qty
Reserving(s) == {u \in Trade : Side[u] = s /\ StoredOpen(u)}
ApprovalsFitBudget ==
  [][\A t \in Trade : RiskCap > 0 /\ Approved(t) =>
       trade'[t].qty * trade[t].risk
         + MapThenSumSet(RegisteredRisk, Reserving(Side[t])) <= RiskCap]_vars

\* A repeated signal never adds exposure to the trade it repeats.
NoDuplicateExposure ==
  \A t, u \in Trade :
    /\ t # u /\ Side[t] = Side[u] /\ <<t, u>> \in Alike
    /\ StoredOpen(t)
    => ~StoredOpen(u)

\* The step that sends the entry order of t.
Submitted(t) == op.phase = "entering" /\ op'.phase = "submitted" /\ op.by = t
\* Under the net policy an entry order is sent only after every stored trade of
\* the other side was closed.
EntryFollowsNetting ==
  [][\A t, u \in Trade :
       /\ PositionPolicy = "net" /\ Submitted(t)
       /\ Side[u] # Side[t]
       => ~StoredOpen(u)]_vars

\* What blocks the bucket of an entry before it has the guard keeps its order
\* from being sent, whatever ownership is released on the way.  Only an issue
\* that is raised while the entry already has the guard does not.
EntryRespectsBlocks ==
  [][\A t \in Trade : Submitted(t) => BlockReasons(Side[t]) \subseteq op.raised]_vars

\* Exposure that no trade owns keeps its bucket shut.
UnownedExposureBlocks ==
  [][\A t \in Trade :
       Submitted(t) => held[Side[t]] <= Owned(Side[t])]_vars

\* Every entry comes to an end.
EntriesEnd == \A t \in Trade : trade[t].status = "opening" ~>
                                 trade[t].status # "opening"

\* After a restart every stored trade of an active session gets its engine back.
OwnershipRecovers ==
  \A t \in Trade :
    StoredOpen(t) /\ SessionOf[t] \in active
      ~> t \in managed \/ ~StoredOpen(t) \/ SessionOf[t] \notin active
=============================================================================
