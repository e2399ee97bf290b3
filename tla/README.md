# Triak Trade: a TLA+ development

Triak Trade reads trading signals from Telegram channels, turns them into
trades on a futures exchange, keeps those trades protected, and replays
channel histories in a backtester.  This directory specifies the parts whose
correctness depends on the order of events: several live sessions, each with
an engine in a thread of its own, share one exchange account; orders execute,
operators stop sessions and processes restart while those engines work.

Source paths below are relative to `src/src/triak_trade/`; `docs/` is
`src/docs/`.

## 1. Inventory

| Component | State it keeps | Operations | Talks to |
|---|---|---|---|
| Dashboard live coordinator (`dashboard/live_runtime.py`) | engines and threads per session, force-stopped ids, stored sessions | start, stop, force stop, supervise and restart an engine, recover sessions after a restart, delete history | engine (thread, calls), store |
| Live engine (`live_trading/engine.py`) | open trades, channel contexts, session record, health issues, task set of its event loop | message loop, consolidation tick, open, follow-up, close, price refresh, pending-entry monitor, account sync, protection sync | coordinator, exchange, store, Telegram, AI |
| Account coordinator (`live_trading/account_coordinator.py`) | execution guard, registry of logical legs, owners of orders and fills, blocked buckets | guard, register, restore, coordinate an entry, net, claim orders and fills | engines (callbacks across event loops), store |
| Live store (`live_trading/store.py`) | one JSON file per session, trade, message | save, load, list | everything in live trading |
| Position manager, planner (`live_trading/position_manager.py`, `take_profit_planner.py`, `risk/`) | none | sizing, stop and target arithmetic, feasible target ladder | engine, backtests |
| Signal consolidation (`agents/`, message loop of the engine, `backtesting/correlation.py`, `directives.py`) | per channel: messages, signals, which message belongs to which signal, pending signals | correlate, merge, route, decide what is due | engine, parser, AI, backtest |
| Telegram access (`telegram/`) | one client, one worker loop, operation lock; cursors in the engine | fetch, poll, listen, forward | engine, dashboard |
| Exchange adapter (`exchange/toobit/`) | none | signed requests, contract rounding, polling for fills | engine, dashboard |
| Backtest jobs (`dashboard/backtest_runtime.py`) | run records on disk and in memory, cancel requests, threads | start, stop, resume, progress, recover | runner, store |
| Backtest runner and simulator (`backtesting/`) | checkpoints; records of signals; the state of a replay between two segments of candles | build records, consolidate, simulate candles, report | AI, market data |
| Market data (`market_data/`, `db/`) | cached candles | fetch with gap filling | providers, database |
| AI gateway, parsing, web layer, observability, configuration, verification, CLI | | | |

What is hard:

* *Concurrency.*  Engines run in different threads and event loops; one
  engine's netting runs a close on another engine's loop while the account
  guard is held; the pending-entry monitor works without the guard; an
  operator's stop cancels tasks at their awaits.
* *The exchange.*  Orders execute on their own, answers may not show them in
  time, orders execute partly, protection may be refused, and one physical
  position per side mixes the quantity of many logical trades.
* *Failure.*  A process may end between an exchange call and the store; the
  registry is rebuilt from stored trades, before the engines are.
* *Ordering.*  Fills, position snapshots and local closes may be booked in
  any order; signals repeat, contradict each other and are corrected while
  they are being opened.
* *Two implementations.*  The backtest merges, delays and sizes signals with
  code of its own that has to mean what the live engine does, and cuts a
  replay into segments that have to add up.

What makes the components correct: one writer of the account; a registry
that mirrors the engines; exposure that always has an owner; no hedge under
the net policy; caps and duplicate rules that hold across pending entries and
restarts; blocked buckets that stay shut; entries and stops that end; a ledger
that counts every fill once; a position that keeps its stop; a signal that is
entered once, within its risk, and decided sooner or later.  The
hazards behind them are listed in `PROJECT.json` at the line where they bite.

## 2. Plan

Modules, in order of importance.  What is planned comes last.

| Module | Code | Composition | State |
|---|---|---|---|
| `ExecutionGuard`, `SingleWriter` | the guard and cross-loop netting | `ExecutionGuard` implements `SingleWriter` | modelled, checked, proved |
| `AccountCoordinator` | registry, entries, netting, closes, sync, stops, restarts for one symbol | works above the guard: between `Admit` and its last step an entry holds it | modelled, checked, proved |
| `TradeExchange`, `FillLedger`, `ProtectionSync`, `TradeLifecycle` | one trade with its orders: ladder entries, fills, protection, sync, monitor, price refresh, closes | each extends the one before; together they are the inside of what `AccountCoordinator` does to one trade in one step | modelled, checked, proved |
| `ChannelContext`, `PositionSizing`, `EntrySizing`, `LiveSignals` | messages, consolidation, follow-ups, sizing, snapshots and restart of one channel | operators, then the two tasks that use them; what happens to a trade between its orders is `TradeLifecycle` | modelled, checked, proved |
| `BacktestRecords`, `TradeSimulator`, `SignalReport` | records, consolidation and simulation of the backtest | operators over the same `ChannelContext` and `PositionSizing` | modelled, checked |
| `SignalPaths` | both paths of the same messages | composes `LiveSignals` with the backtest's three | modelled, checked, proved but for the comparisons |
| `SessionSupervisor` | start, stop, force stop, supervision, recovery after a restart | the stop and restart that `AccountCoordinator` takes as events | modelled, checked, proved |
| `BacktestRuns` | run records, cancellation, progress, checkpoint, recovery | independent | modelled, checked, proved |
| several trades of one side | allocation of a position to legs, ledgers of orders and fills | would join `AccountCoordinator` and `FillLedger` | planned |
| `CandleCache` | gap filling of cached candles | pure | planned |

Two references are stated as definitions of their own: the single writer,
which the guard implements, and the replay in one piece (`WholeReplay`), which
the incremental simulator is compared with.  A third comparison has no
reference but two implementations: what the live path enters against what the
backtest consolidates.

Every safety invariant and action property of the runs is proved but the two
comparisons of `SignalPaths`; what is left and why is at the end of section 5.

## 3. Modules and code

### ExecutionGuard and SingleWriter

`ExecutionGuard` is `execution_guard` of the coordinator, the engines' use
of it, and what asyncio does around it.

| TLA+ | Code |
|---|---|
| `locked` | `_execution_lock`, a `threading.Lock` polled with `acquire(blocking=False)` |
| `held[t]` | the `guard_held` ContextVar in the context of task `t` |
| `depth[t]`, `pc[t]` | how deep `t` is in nested guards, and where |
| `job[t]` | the coroutine `t` handed to another loop by `run_coroutine_threadsafe`; `job.held` is its copied context |
| `loop[e]` | the event loop of engine `e`: running, stopping, closing (`asyncio.run` cancels what is left), closed |
| `Enter`, `Retry`, `Acquire`, `LeaveNested`, `Leave` | `execution_guard` |
| `BareStart`, `BareEnd` | the pending monitor's reconciliation, which takes no guard |
| `Dispatch`, `Job...`, `Resume...` | `_dispatch_account_net_close` and `close_owned_trade` |
| `Stop`, `CancelTask`, `Shutdown`, `Close` | `stop`, `_async_stop`, the end of `start`, `asyncio.run` |

`SingleWriter` is what the engines rely on: the account is granted to one
requester at a time and only the requester it is granted to has it mutated.
The refinement maps `grant` to the task whose context holds the guard, and
`writing` to the tasks on whose behalf a mutation is under way, on whatever
loop.

### AccountCoordinator

One symbol of the account.  A trade is also the signal it comes from and is
used once, so a run bounds the signals and nothing else needs a bound.

| TLA+ | Code |
|---|---|
| `trade[t]` | the `LiveTrade`: `opening` is one that waits for or holds the guard and is stored nowhere, `lost` one whose engine was cancelled or killed in that time; `risk` is the loss per unit at its stop of now, `missed` that its position was not found once |
| `managed` | `_open_trades` of the engines that run |
| `leg[t]` | `_legs`: `AccountTradeLeg` with its reserved quantity and the stop it was registered with; `handler` is FALSE for a leg restored without an engine |
| `blocked` | `_blocked_buckets`, with the kind of reason and the trade it is about |
| `sick` | trades with an entry in their session's `health_issues` (and so `new_entries_blocked`) |
| `older` | the order of `opened_at`, by which netting is first in first out |
| `op` | the entry under the guard, with the snapshot of legs it nets and the offset so far; `raised` is a history, the blocks of its bucket set since it has the guard |
| `held`, `entry`, `due` | the exchange: positions, entry orders with their quantity, and executed stops that no sync has booked |

`Signal` is `_open_position` up to the guard, `Admit` the start of
`_real_open_position_unlocked` with the release of stale ownership and the
checks of `coordinate_open`; `NetClose`, `NetConflict` and `NetRaises` are one
step of `_net_opposite_legs`, through the owner's callback; `Decide` and
`DecideAgainst` the rest of `coordinate_open`; `Submit` to `FlattenFails` the
order, its confirmation and `_activate_filled_entry`.  What an order asks for
is decided after the approval (`Orderable`): the tiers and the leverage
fallback size it again from a margin that neither netting nor the cap reduced,
while a resting order still reserves no more than was approved.  `CloseTrade`,
`CloseAll`, `CancelEntry` and `Sync` take the guard as one step, since they
mutate one trade under it.  `PositionFound` and `PositionMissing` are the two
looks after which a trade whose position is gone is closed; a follow-up takes
them without the guard.  `Activate` and `ActivateFlattened` are the
pending-entry monitor; `Issue` is its issue and that of an open trade that
cannot be protected, at any moment of an entry.  `MoveStop` is every change of a stop, none of
which registers the trade again.  `Halt`, `Restart` and `EngineUp` are the end of
an engine, of the process, and recovery.

Left out: take-profit fills, ladder entries (so also that `Releasable` looks at
single entry orders only), the clamp of a logical quantity to the physical
position, margins (an order that is sized again may be any up to what was
wanted), and the limit on concurrent trades.  A
take-profit that executed makes the cancellation in a close raise; its id is
then forgotten, so that the repeated close goes ahead, which is the
`CloseTrade` the model has.

`Events` switches on what else may happen: `exchange` (stops execute),
`partial` and `unconfirmed` (orders execute partly; a market entry does not
appear in the history in time), `flatten` (flattening fails), `issue` (a fill
without details, a failed protection), `tiers` (an order is sized again),
`moves` (a stop moves, `Risks` are the losses it may give), `unlisted` (the
query of the trigger orders fails and is passed over, so that resting entries
are not seen: `Unseen`), `closeall`, `stop`, `force` and `restart`.

### SessionSupervisor

A session of the dashboard: the worker thread in `_run_engine`, the engine it
runs, and the stop requests that reach it from the web server's thread.

| TLA+ | Code |
|---|---|
| `store[s]`, `memory[s]` | the stored `LiveSession` and the object of the engine in `_engines`: status, origin of its `health_issues`, `new_entries_blocked` |
| `open` | sessions for which `list_open_trades` is not empty |
| `thread[s]` | the worker: `begin` to `drain` are `start()` between its awaits, `exited` to `wait` the loop around it |
| `engine[s]` | `_stop_requested`, whether `_loop` is known, whether `_async_stop` is scheduled |
| `forced` | `_force_stopped_session_ids` |
| `request` | `stop_session` between its check of open trades and `engine.stop()` |
| `EnterStart` to `Drain` | `start`; `AsyncStop` and `ShutdownRunsAsyncStop` are `_async_stop`, which may also be cancelled with its loop |
| `BeginEntry`, `FinishEntry` | `_open_position`: blocked entries are refused before its awaits only |
| `Judge`, `GiveUp`, `Recover`, `Resume` | `_run_engine` after the engine |
| `StopChecks`, `ForceMarks`, `EngineStop`, `StoreStop` | `stop_session` |
| `Restart` | `_flag_unresolved_inactive_sessions` and `_recover_incomplete_sessions` |

The history `arrived` records in which stage stop requests met a session.
Two stages are real gaps, and the properties say so: a stop that meets the
startup may leave the status `starting` without a worker, and a forced stop
that meets a waiting recovery is lost when the next engine starts.

`recovery_only` is left out: nothing in the repository sets it.

### BacktestRuns

| TLA+ | Code |
|---|---|
| `full[r]`, `summary[r]` | `<run_id>.json` and `<run_id>.summary.json`, replaced one after the other; `Stored` is `DashboardBacktestStore.read` |
| `active`, `cancel` | `_active_runs`, `_cancel_requested` |
| `worker[r]` | the thread in `_execute_run`, with the record it read and has not written yet |
| `stop` | `stop_run` between its reads and writes |
| `Begin`, `CheckBeforeStart` | `_execute_run` up to `run_sync` |
| `Breaks`, `WriteFails` | an exception outside the `try` of `_execute_run`, or of a write inside it |
| `NextEvent`, `Emit`, `Progress` | the runner's events and `_handle_progress` |
| `Checkpoint` | `_store_backtest_checkpoint` |
| `WriteFile`, `WriteSummary`, `WriteTick`, `SetActive` | `store.write`, `store.write_summary`, and what follows them |
| `Return`, `ClearRequest`, `LoadForEnd`, `Pop` | the three ends of `_execute_run` |
| `order`, `Newest` | `created_at`, and the newest summaries that `list_run_summaries` returns |
| `Interrupted`, `Recovered`, `Restart` | `_recover_incomplete_runs`; `alive` is what `_pid_is_alive` finds: the new process, and any earlier id that is in use again |

A record is its status, worker pid, phase and whether it has a checkpoint.
Three phases stand for the pipeline's: before, during and after the
classification, which is where the checkpoint is published.  `asked`, `late`,
`reused` and `passed` are histories.

The `try` of `_execute_run` begins after its runner, the checkpoint, the
strategy and the first write, and its handlers write outside of it.  An
exception there ends the thread (`broken`) and leaves the run listed as queued
or running without a worker, until the next start of the process marks it as
failed.  That recovery misses a run whose pid is in use again, and one that is
not among the newest 200.  `RunningIsLive` names these three and no more.

Nothing makes a read of the record and the write that follows it atomic.  A
stop request that read a run before it ended therefore takes the verdict back
and leaves it `cancelling` for good, or drops a checkpoint published in the
meantime.  `VerdictStands` and `CheckpointIsKept` say that nothing but such a
request does.

### TradeExchange, FillLedger, ProtectionSync, TradeLifecycle

One trade.  `TradeExchange` is what the exchange does to its orders,
`FillLedger` what a `LiveTrade` records, `ProtectionSync` the routines between
two awaited calls, `TradeLifecycle` the tasks that call them.

| TLA+ | Code |
|---|---|
| `leg`, `target`, `stop`, `position` | the orders of the trade and the position, on the exchange; a single entry order is leg 2 alone |
| `executed`, `claimed` | of a close order: what it executed so far, and how much of it is in `processed_exchange_fill_ids`; of close orders without an answer together in `loose` |
| `trade` | the `LiveTrade`: remaining and booked quantity, `pending_fill_audit_quantity`, status of each leg, tracked protection ids, targets hit |
| `task[k]` | the message task, the account sync, the pending monitor and the price refresh: a stack of labels, each the code between two awaits, and the snapshots of the syncs on it |
| `guard` | the task in `execution_guard` |
| `SubmitLeg`, `CleanUp`, `Opened` | `_submit_range_entry_order_plan`, `_open_position` |
| `MonitorLooks`, `MonitorApplies` | `_reconcile_pending_entry`, without the guard |
| `SyncReads` to `SyncEnds` | `_sync_exchange_state_unlocked` and `_reconcile_exchange_trade_protection` |
| `PlanProtection` to `ProtectionFailed` | `_sync_trade_protection_unlocked` |
| `StartClose` to `Rearmed` | `_execute_exchange_close_unlocked` |
| `PriceMeets`, `RetireForHit`, `Counted` | `_refresh_all_prices` |

The trade is a short one, whose nearest leg fills first; a long one reverses
the order of the legs.  Prices are left out: a stop is the number of targets
it stands for.  The default strategy's fractions are a half, and all at the
last target.

### ChannelContext, PositionSizing, EntrySizing

Operators, used by both paths.  `ChannelContext` is `agents/context.py`,
`resolve_related_signal_id`, the directives of a text, the merge of an update
into a signal, the inference of its side and its validation.
`PositionSizing` is the position manager: `Sized` a new position, `Rebased`
its protection for the price it got, `WithStop`, `WithTargets` and
`WithLeverage` an update.  `EntrySizing` is what the engine does to a sized
trade before its order: the risk tiers, the leverages tried after a refusal,
and what an order and a target need at least.  A text is one of seven
directives, not a string; prices, quantities and the balance are small
integers without fees, with division rounded down.

### LiveSignals

| TLA+ | Code |
|---|---|
| `context` | the `ChannelContext` in memory |
| `trades` | `_open_trades` |
| `seen` | the cursor of the channel |
| `poll` | `_poll_messages_loop` with the message it handles |
| `tick` | `_consolidation_tick_loop` with the signal it opens |
| `disk` | message traces, signal snapshots, open and closed trades in the store |
| `Start`, `Poll`, `Receive` | `_bootstrap_channel_cursors`, `_poll_messages_once` |
| `Classify`, `Checked...`, `Directed` | `_process_message` up to its routing: what it is about, a look at the exchange (a second one in `_handle_followup`), and what it then asks for: targets in percent of the trade's margin (`PercentTargets`), or an opening, when an update with a picture is about nothing known (`Promotable`) |
| `Follow`, `CloseNext` | `_handle_followup`, `_handle_close_all_trades` |
| `Wake`, `Choose`, `Untradable`, `Quoted` | `_try_open_signal` |
| `Blocked`, `NotSubmitted`, `Submitted`, `Register`, `Save` | `_open_position`; a refused or netted entry is saved as a closed trade (`SaveUnopened`), which the stop cooldown counts |
| `TickDies` | an exception ends the consolidation task, one of the store after the entry among them |
| `Crash` | the end of the process and `_restore_runtime_state` |

`entries` and `torn` are histories: every entry order that was sent, with the
size the position manager gave it and the size it asked for, and the signals
whose storing a crash or a failing store cut in two.  What a task still has to do is a set it
takes from in any order, where the code follows that of a dictionary.  An entry
fills at the price it asks for or, with the fault `slips`, at another one
(`SlippedPrices`), where its protection is computed again (`FilledAt`); when
that fails the position is open without it (`bare`, though with the new stop
when it is the targets that fail): an opening gives its
signal up and leaves the position to the account, a waiting entry stays open.

### BacktestRecords, TradeSimulator, SignalReport, SignalPaths

`Records` is `_build_backtest_records`, `Consolidated` the delayed
consolidation of a record.  `AfterSegment` is
`simulate_live_preview_incremental`; `WholeReplay` is `simulate`, which holds
a copy of the same event handling.  `Row` is the line of the result, made of
the signal's state in the last snapshot.  `SignalPaths` starts every channel on
one of the paths: live, step by step, or replayed, one segment a step.

## 4. Runs

| Run | Shows |
|---|---|
| `GuardRunning` | with two engines and three tasks, two on one loop, nesting of two, no stop: types, one writer, the guard always returns, refinement of `SingleWriter` |
| `GuardStops` | with stops at any step and one task that works without the guard: lock discipline, and every stop completes |
| `GuardStopWriter` | violated: a stop releases the guard while the close it dispatched still runs |
| `AccountNet` | four signals, two per side and per session, net policy, orders sized again after their approval: no hedge, exposure owned, entries follow netting and end |
| `AccountStops` | three long signals of two sessions, cap of two, one duplicate pair, everything that may happen but `closeall`: types, registry, what is approved fits the cap, duplicates, blocks, recovery |
| `SessionSupervisor` | one session, three failing engines, two restarts under either setting of auto-resume: exposure is watched, an active session has a worker, blocked entries stay blocked, a forced stop holds, supervision resumes, a stop converges |
| `BacktestRuns` | two runs, one at a time, two events per phase, one stop request, one restart with the same or another pid, broken workers, a recovery that looks at one run: a listed run is live, a stop is seen at the next event, verdicts and checkpoints stand, a stop ends its run |
| `TradeLifecycle` | one trade in thirteen cases: the ledger balances, nothing is booked that was not sold, a stop is kept through replacements, a sync never leaves a bare position unnoticed |
| `SignalPaths` | nineteen channels, live or over every sequence of four candles: a signal is entered once and decided, risk stays in its budget, live and backtest merge alike, segments add up |
| `AccountFlattenFails` | violated: exposure left by a failed flatten does not block its bucket |
| `AccountStaleClose` | violated: a close overlaps a stop that was not booked |
| `TradeStopExit` | violated: the stop of a partly filled ladder ends the trade and its outer legs rest on |

Bounds.  Two engines are needed for cross-loop netting, two tasks on one loop
for competition within it, a third for a competitor during the await; nesting
of two covers a guard inside a guard inside a guard, the deepest the code has.
Two sessions with two trades each let a bucket be shared within a session and
between sessions, and let the entry of three units net legs of two owners.
One trade wants 3 and the others 1: that separates partial from full closes,
lets a residual remain after netting, and lets an order be approved for less
than was wanted and sized again above its approval.  Every stop loses 1 per
unit; that of one trade may move to 2 and back, which a cap of 2 tells apart.

Sessions share the route of stop requests and the process, and nothing else,
so one session stands for each; three failures let an engine fail before, in
and after a recovery, two restarts let a resumed session be interrupted again.
Backtest workers meet only through a stop request and the end of the process;
one runs at a time (`MaxWorkers`), and the second run resumes the first or is
unrelated.  `MaxListed`, 200 in the code, is 1, so that the older of two runs is
passed over; two pids let an earlier one be free, the new process's own or a
stranger's.  One stop request and one restart each fall at every step; two
events per phase separate one that changes the phase from one that does not.

A ladder has three legs of 1, 2 and 1 steps: a first fill, a middle one that
may be partial, and one that is retired by a target.  `MaxTargets` is 2, so a
hit target leaves another; `Slots` allows the old and the new stop and one that
was never cleaned up; `Attempts` is 1, since another attempt repeats the plan
from the same state.  Each case names the faults it may meet, one to four of
them, because all together are far too many; a ladder, which has most
interleavings, meets one of three: a failed submission, an expiry or a hit
while its protection is missing.  A ladder with the pending monitor, some
900,000 states together with the rest, is left to the theorems, which hold for
it too.

A channel has up to four messages, enough for an opening, a reply to it,
a reply to that and one more, with `Recent` messages in the context so that one is forgotten,
and `Delay` 2, so that messages fall before, on and after the time a signal is
due; the clock ends at `MaxTime`, after the last reading (`LastRead`) and the
delay of what it brings.  `StartTime` is 2 and a message of time 0 is older
than the replay window.  `MaxOpen` 2 is exceeded by three signals.  Prices lie
around 10, the balance is 100 with a loss budget of 8, so that stops cap
quantities, and `SlippedPrices` are 8 and 11, below and above the price that
was asked for; two tiers with `MinQuantity` 2 make a resize grow, shrink and
fail.  Four candles of five shapes (`Candles`, `Shapes`) cover stop, first and
last target and both in one candle; `SegmentSize` 2 puts a border between
every two events at some time.  `Percents` are 40 and 80 of the margin, which
with a leverage of 2 are targets 2 and 4 above the entry.

Distinct states: `AccountNet` 68,850, `AccountStops` 386,553, `BacktestRuns`
620,017, `SignalPaths` 148,352.

Deadlock is not checked where the system stops: all signals are used up, or
all loops are closed; a trade is over, or the clock has ended.

Fairness.  Event loops keep turning, so a task that can go on does, and the
awaits of an entry are bounded by timeouts (`wait_for_order_fill`, HTTP
timeouts): weak fairness on the steps of an entry, of a job and of a
cancellation.  `Leave` is strongly fair because an operation makes finitely
many nested entries, which the model does not count.  Nothing makes the
polling of the lock fair to one task, and no property assumes it: `EntriesEnd`
holds because the other operations between two entries are finite in number.
A backtest worker and a session's worker are threads and keep running, and a
request the server has accepted goes on; each writes finitely often, so weak
fairness also gives a worker the store's lock.  `AsyncStop` is fair
on its own because the loop runs what is scheduled on it whatever the worker
does next.
The dashboard restarts the engines of active sessions, hence weak fairness of
`EngineUp`; executions, stops and faults are never fair.  A run of
`AccountCoordinator` assumes the half its property needs (`EntrySpec`,
`RestartSpec`).
In `SignalPaths` time passes and the message task and the consolidation task go
on, in that one of the three always does; since nothing they do recurs for
ever, that is enough.  They run on one loop and each of their awaits ends: the
calls to the exchange, to Telegram and to the classifier have timeouts.  A task that
died does not go on, and `EverySignalDecided` excepts it.

## 5. Proofs

`ExecutionGuardProofs`, for any engines, tasks and nesting bound:

* `TypeCorrect` and `GuardDiscipline`: `LockDiscipline` is inductive with the
  types and the fact that only a task in the guard has a job under way.
* `SingleWriterBetweenStops`, assuming `Calm` (no engine is stoppable and no
  task works without the guard): the invariant adds that a job exists exactly
  while its task awaits it and that its context holds the guard.
* `Refinement`, under `Calm`: each action is a `Grant`, `Pause`, `Resume`,
  `Release` or a stutter of `SingleWriter`.  `Calm` is needed: `GuardStopWriter`
  shows what a stop does.

`AccountCoordinatorProofs`, for any finite set of trades, any sessions,
policies and events unless said otherwise:

* `TypeCorrect`: no position falls below zero; the snapshot lists trades.
* `RegistryIsExact`: `RegistryMirrorsTrades`.  It is inductive only together
  with (`OwnershipInv`): engines that run belong to active sessions; the entry
  in progress has an opening trade that nobody manages and that has no leg
  until its order fills; a managed trade belongs to a running engine and is
  waiting, open or closed; and the legs of an active session whose engine is
  down are those of its stored open trades.
* `NoSignalIsRepeated`, assuming `"closeall" \notin Events`: the duplicate
  rule holds because every stored trade is visible in the registry or blocks
  its bucket (`StoredIsVisible`), and the entry in progress has no duplicate
  there (`EntryIsFresh`).
* `BlocksAreRespected`, for all events: what blocks the bucket of an entry past
  its admission was set since it has the guard (`op.raised`).  A restart blocks
  buckets too but ends every entry.

Its second part adds the properties that add up quantities over trades.  No
prover at hand does induction over sets, so `SumTheorems` derives what it needs
of `SumFunctionOnSet` (one element more, a changed element, monotony, a sum of
sums, a sum that is zero) from the smallest set of a family of counterexamples,
with the library's theorem that a well-founded relation has minimal elements.

* `ApprovalsFit`: `ApprovalsFitBudget`, assuming `"closeall" \notin Events`.
  The cap adds up the registry, the property the stored trades.  At the decision
  the one covers the other (`DuplicateInv`): a stored trade is registered with
  what it has, or its session was stopped and blocks the bucket, which would have
  kept the entry out.  Without the assumption a close of all
  trades takes a trade out of the registry whatever the close left, and an entry
  is approved beside it.  It bounds the approval, at the stops of the registry:
  section 6 says what may exceed it later.
* `NothingIsUnowned`: `ExposureIsOwned`, assuming `Undisturbed` (only `issue`,
  `closeall`, `tiers`, `moves` and `unlisted` may occur: nothing executes beside
  the engine's calls, no order fails, nothing stops).  `ExposureInv` says of both sides that what is held is
  the sum of what the trades own, which needs that an entry order belongs to a
  waiting or submitted trade and that a stored trade has an engine or is being
  opened.  `AccountFlattenFails` and `AccountStaleClose` show what a failure or
  an execution leaves without an owner.
* `OneSideIsHeld`: `NoHedge`, assuming `Undisturbed` and a policy of `net` or
  `block` (`NotHedging`; a hedge is what the third policy is for).  Its
  strengthening (`OneSidedInv`): all trades that are stored or approved are of
  one side; while an entry nets, every trade of the other side that is left is
  still on its list, with at least its quantity, unless the entry is offset
  already; and no trade is older than itself.
* `NettingComesFirst`: `EntryFollowsNetting` under the same assumption, from
  the same invariant.

`SessionSupervisorProofs`, for any sessions, without assumptions beyond those
on the constants:

* `TypeCorrect`.
* `NoSessionIsAbandoned` (`ExposureIsWatched`) and `ActiveIsTrue`
  (`ActiveHasWorker`).  Neither is inductive: what the store says follows what
  the engine last saved, and that depends on how far the worker and a stop
  request have come.  `SupervisorInv` says for every session that a record with
  issues blocks entries, that nothing has happened before the first start and
  no worker is left after the process ended, that store and memory agree while
  the worker runs, that a forced stop stays marked, that a status names where
  its worker is, and, as its last two parts, that open trades are watched and
  an active status has its worker.
* `BlockedSessionsDoNotEnter` and `ForcedStopsHold`: action properties, from
  the types and from the same invariant.

`BacktestRunsProofs`, for any runs, pids, and bounds:

* `TypeCorrect` and `ListedRunsAreLive` (`RunningIsLive`), `StopIsPrompt`
  (`StopsAtNextEvent`).  `RunsInv` says of every run that its files exist once
  it is known, that a live worker holds its record, that the worker's last
  write is its verdict, that its copy has every checkpoint the file has unless a
  stop was asked for, that at most one event was accepted after a request that
  is still pending, and that a dead worker's run was marked at the restart
  unless its pid was in use or it was passed over; and of the stop request that it
  carries a copy marked as cancelling.
* `VerdictsStand` and `CheckpointsAreKept`: action properties from `RunsInv`;
  the one step that takes a verdict back is a stop request's second write.

`TradeLifecycleProofs`, for any number of targets, any attempts and any cases
(any combination of faults, not the thirteen the run covers); the three legs of
a ladder and the three places for stops are fixed in the modules:

* `LedgerAlwaysBalances`: `LedgerBalances`.  By itself it is not inductive: it
  says nothing before the first fill, and a close of a ladder without a fill
  would break it.  `LifeInv` therefore says where a task may be.  Labels at
  which something is closed or enforced (`Sells`) are on a ladder's stacks only
  after its first fill, those of single orders (`Singles`) never; and before
  the first fill nothing is in the audit or booked, and the trade is waiting, or
  over and not the engine's (`Balanced`).  A ladder's fills are its legs', none
  is negative, and no operator on the record takes any away (`Keeps`, one lemma
  for each operator of `FillLedger`).
* `StopIsKept`: `StopKept`.  The one step that cancels a stop of an open trade
  is the end of a protection sync.  `LifeInv` says that the task that is there
  holds the guard and is at no other such place, and that the stop it has
  remembered is not the one the trade tracks, which no task may change without
  the guard.
* `PlanIsComplete`: a take-profit plan allocates all of what remains, to each
  selected target at least a step, for any quantity and number of targets: the
  assertions at the end of `plan_maximum_take_profit_orders`.  The plan is a
  recursive function; `ChainExists` shows by the smallest counterexample that a
  function that satisfies its equation exists, which the definition takes for
  granted, and `LeftsStep` what one step of it leaves.
* `Invariant`: `[]LifeInv`.

`TradeLedgerProofs` sets the record of the trade against the orders on the
exchange:

* `AlwaysBacked`: `[]Backed`, which is `LifeInv` and what the exchange has to
  show for the record.  A leg that is planned was not sent and has no fill, and
  no fill is recorded that the exchange does not have (`LegsBacked`).  No more
  is claimed of an order than was executed, and no snapshot a task carries shows
  more (`OrdersBacked`, `ViewsBacked`): a snapshot is read before an await and
  used after it, so that it is this, not the order, which bounds what is booked.
  The position is no more than was entered, and while no close leaves a
  residual, what a trade of which `BookedIsSold` speaks has booked and what is
  executed and not yet claimed together are no more than was sold
  (`SoldCovers`).  Every fill moves a quantity from the position to what is owed,
  every booking from there to what is booked.
* `TypeCorrect`: `TypeOK`.  That the position stays within what the legs can
  bring in is not a matter of types; it follows from `SoldCovers`.
* `NeverOverbooks`: `BookedIsSold`, for any number of targets and attempts and
  every combination of faults.  A close at the market books what remains, so what
  remains must not be more than what came in and is not booked.  For a ladder
  its ledger says so (`LedgerBalances`).  A single order has no ledger of its
  legs: activation sets what remains to what came in, whatever was booked before
  (`WithEntry`).  So `Cleared` says that what remains, waits and was booked are
  together no more than came in, and `NextClears` that no order is activated
  after a fill.  Four steps could do it (`Enters`).  Two look at the trade first.
  The pending monitor does not, and is one of the faults excepted.  Nor does a
  cancellation; without a message it only comes from an account sync that has
  just found the entry waiting and keeps the guard until it has cancelled it
  (`Cancels`).
* `SyncsProtect`: `SyncLeavesProtected`.  What makes a sync's end safe was done
  earlier by the routines it awaited, while other tasks moved, so the invariant
  (`SyncInv`) follows the calls.  It says which labels may stand above a sync or
  a protection sync on a task's stack (`Nested`), that at most one task is
  between two awaits (`OneAtOnce`), so that what it has just found is not
  changed by another before its next await, and, for each label a task may
  return to, what the routine that returns leaves behind (`Arrives`): a
  protection sync that went well leaves a protected or closed trade, one that
  failed leaves a retry or an issue.  It also carries `Cancels`, which needs that
  the end of a sync is still below the label that books (`Ends`), since that is
  what keeps the guard.  A sync that an exception cuts short does
  not get to its end and is not promised anything.

`SignalPathsProofs`, for any channels of messages of any length, delays,
prices, risk tiers, budgets and combinations of faults:

* `TypeCorrect`: what is in memory and in the store is of its type, and what
  waits to be opened is a signal of the context.
* `RiskStaysInBudget`: `RiskBudgetHolds`.  Every place that makes or changes a
  trade, whether it sizes, resizes for a tier or a refusal, fills, replaces,
  moves a stop or restores, keeps `IsTrade`: an open trade whose protection was
  computed loses no more at its stop than the budget.  That an entry asks for no
  more than was sized needs the arithmetic of the resize (`FitsSize`: margin
  times leverage is worth no more than the sized quantity or the minimum).
* `SignalsAreEnteredOnce`: `OneEntryPerSignal`.  By itself it is not inductive.
  `PathsInv` adds that memory and store know the same signals; that a signal
  that waits or is being opened is pending, and one with a trade is not, in
  memory and in the store; that a message still to be handled has no whole
  signal, and every whole signal comes from a message that was traced or is
  about to be; that the tasks begin after the start; and that an entered signal
  is decided in both places unless its opening is at the step in between.  A
  signal whose storing a crash cut in two (`torn`) is excepted throughout.
* `Invariant`: `[]PathsInv`.

What is assumed of the constants is in the `ASSUME`s of the modules: bounds are
natural numbers, trades are finite in number, `None` is no session, run, pid or
label (`NoneAssumption`), the ids of a channel are its positions
(`StreamsAssumption`) and market prices are above the distance of a synthetic
stop (`PricesAssumption`), so that every stop is a price; the runs evaluate all
of them.

Only model-checked:

* Liveness under fairness (`GuardReleased`, `StopCompletes`, `EntriesEnd`,
  `OwnershipRecovers`, `SupervisionResumes`, `StopConverges`, `StopEndsTheRun`,
  `EverySignalDecided`), which is out of the prover's reach.
* `ConsolidationAgrees` and `SegmentsAgree` of `SignalPaths`: they compare two
  folds over messages and over candles, and what a fold computes for every
  input is induction over data.

## 6. Findings

* *A failed flatten leaves its bucket open* (`AccountFlattenFails`).
* *A close may execute against another leg's quantity* (`AccountStaleClose`).
* *A stop can leave two writers* (`GuardStopWriter`).
* *The stop of a ladder leaves its outer legs on the exchange*
  (`TradeStopExit`).

Each is described with its source line in `PROJECT.json`.  Gaps that a
property excepts instead of a run showing them (stop requests of backtests, stops
in an engine's startup or in the wait of its recovery) are described in
section 3 and noted at their hazards.  So are these, met while modelling
(lines of `live_trading/engine.py` unless another file is named).

One trade:

* A close that leaves a residual books the remainder less the residual (4664);
  a fill of a target or stop that is not claimed yet is then booked a second
  time.  `BookedIsSold` excepts it.
* The pending monitor applies a query it made before an await without looking
  at the trade again (6850), and so does `_cancel_waiting_entry` (7511): a
  trade activated or closed meanwhile is activated anew.  `BookedIsSold`
  excepts single orders that meet either; the fills of a ladder are counted
  against what was recorded before and are not affected.
* A ladder goes on being submitted after the flattening of its first fill
  (3544); a later fill opens the closed trade again.
* A stop that executes in part leaves the rest unprotected until the next sync.
* The price refresh waits for the guard and does not look again (2740, 2820):
  a target may be counted twice, the stop set back to an earlier level (2851),
  and a part closed again when re-arming failed before it was counted.
* A filled entry is registered before its protection is computed (3862).  When
  that raises, because the fill price puts the requested stop over the budget,
  `_open_position` marks the trade closed and unregisters it, while the filled
  position remains.  `LiveSignals` has such fills (`bare`); `RiskBudgetHolds`
  is about trades whose protection was computed.
* `_replace_pending_entry_order` (7628) cancels the old order first; when what
  follows raises, the trade waits without an order and keeps its place among
  the concurrent positions.

The account:

* A bucket is looked at once, when an entry has the guard
  (`account_coordinator.py` 481): an issue that
  the unguarded monitor or a failing protection raises after that does not keep
  its order back.  `EntryRespectsBlocks` is about all other blocks.

Signals:

* The account reduces a trade's quantity but not its margin
  (`account_coordinator.py` 523, 552); the risk tiers and the leverage fallback
  (4161, 4401) size the order again from that margin, so that it may exceed
  what the account approved, up to what was sized, and its side the budget.
  `docs/09-account-execution-coordination.md:35-36` has the cap applied after
  those checks.  So `ApprovalsFitBudget` is about what is approved, and the
  orders of `AccountCoordinator` may be larger (`Orderable`).  While such an
  order rests, it reserves only what was approved.  Nor does a stop that is moved
  later register its trade again, so that the next approval counts it at the old
  stop.  A resized order is also raised to the exchange's minimum; only
  the check of the target ladder (4194) stops one that grew, which is what
  `RiskBudgetHolds` shows.  A reduced trade that is sized again may fill with
  more than the quantity its stop was checked for; the fill's check then fails
  as above.
* A crash between a signal's snapshot and its trade, or between a follow-up's
  effect and its trace, makes the message count twice; `OneEntryPerSignal`
  excepts the first.  An exception while a message is handled drops it; one in
  the consolidation loop ends the task (2206).
* A pending signal that is restored without symbol, stop and targets leaves the
  pending ones undecided (2224).
* A restored signal has full confidence, the action OPEN, and the time of its
  last update as its creation.

Live and backtest differ where no property compares them:

* Live, a close of a signal that still waits finds no trade and the signal
  opens; the backtest drops it.  What is merged during the awaits of an opening
  never reaches a live entry.
* The backtest normalises before it merges, the live path after; an opening
  without a symbol that a reply completes opens live and has no record.  A
  cancellation closes at the market price live, at the entry price in the
  simulator; live sizing rejects a signal without a valid target.
* Segments: a limit entry touched only in a later segment is never filled; an
  event inside the last candle of a segment waits for the next, and one after
  the last candle is not applied.  `SegmentsAgree` excepts these two
  (`EntersAtOnce`, `Aligned`).
* The final balance of a row leaves out the profit that a still open trade has
  taken in part, while the total of the run counts it.

## 7. Not modelled

Formatting, logging, routes, parsing of texts, HTTP and SQL are not modelled:
they are either pure I/O or string processing.  Fees, decimal steps and the
rounding of prices are not modelled: quantities are whole units.  Paper mode is
not: without a futures client the paper balance is zero until an account is
synchronised, so that practically no trade opens.  The older backtest entry
point (`RealBacktestRunner.run` and its event builder), which the subclass in
use overrides, is not.  The allocation of one position to several trades and
a ladder in a session that is stopped need two modelled parts at once and are
planned.  A store that fails while a refused signal is saved is not modelled, nor
a text that can be read both as percentages and as a list of prices.
`PROJECT.json` gives the reason per component.
