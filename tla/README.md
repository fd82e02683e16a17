# Verification of QuantBot

TLA+ models of QuantBot, an automated trading system for Bybit linear
perpetuals, with TLC runs that check them on small instances and theorems that
TLAPS proves for every value of the constants. `PROJECT.json` is the machine-readable
index: components, runs, mutants, the source lines each definition stands for,
hazards, findings and theorems.

All paths below are relative to the repository's root. "Engine document" is
`docs/quantbot_bot_engine_implementation_v1_3_1.md`, "backend document" is
`docs/quantbot_backend_api_implementation_v1_1.md`.

## 1. The system

Three processes share PostgreSQL and Redis: the **bot engine** (`apps/bot`, one
asyncio event loop), the **API** (`apps/api`, FastAPI) and the **dashboard**
(`apps/frontend`). The engine is the only one that talks to Bybit. The API sends
it commands through a Redis list and reads the status that it publishes.

The engine is single-threaded: a task runs until its next `await`. Every problem
below that involves concurrency is therefore a value that was read before an
`await` and used after it, or a handler that expects nobody to have moved while
it was suspended. In all the models **one action is what one task does between
two awaits**.

### 1.1 Inventory

| Component | State it keeps | Operations | Talks to | Hard behaviour | What makes it correct |
|---|---|---|---|---|---|
| Bot state machine `apps/bot/runtime/bot_state_machine.py` | `_state` (11 states) | `transition`, `force`, `can_enter`, `can_manage` | every task of the runtime | written by six tasks around their awaits | trades only after START; locks are left only by stopping; shutdown is final |
| Bot runtime `apps/bot/runtime/bot_runtime.py` | `_shutdown`, loop tasks, trading modules, last snapshots | startup, shutdown, command dispatch, loops (trading, reconciliation, PnL, heartbeat, universe, clock), WebSocket callbacks | everything | disconnect handlers overlap with each other, with commands and with shutdown | recovery always ends; a trip always ends trading; STOP always stops |
| Command queue and bot routes `packages/messaging/command_queue.py`, `apps/api/routers/bot.py`, `apps/api/services/command_service.py` | Redis list, published status | route guards, LPUSH, BRPOP | API to engine | guards read a stale status; a popped command dies with the process | what was accepted is honoured |
| Runtime lock and heartbeat `packages/messaging/runtime_lock.py`, `apps/bot/runtime/heartbeat.py` | Redis key with TTL, `_held` | acquire, refresh, release, beat | Redis | expiry while the engine lives; a late release | one engine at a time; only the owner touches the key; a dead owner's key expires |
| Order manager `packages/execution/order_manager.py` | order registry, reservations | `place_entry` (aggressive IOC, LIMIT with TTL and reorder), `place_exit`, `place_partial_exit`, timeout recovery | gateway, runtime state | fills between poll and cancel; lost answers; retry of what was executed | never report more than was filled; never leave an order that reconciliation cannot recognise |
| Trading service `apps/bot/workers/trading_pipeline.py` | per-position bookkeeping | `evaluate_entry`, `manage`, `close_position`, `_close` | risk manager, order manager, protection, runtime state | entry, exit, command and stop race for one position | record and exchange agree; a result is booked once |
| Position protection manager `packages/position/protection_manager.py` | the position it protects | `protect`, `resync`, confirm, verify, set, emergency close, `sync_stop_loss` | gateway, order manager | five awaits while the position may change | an ACTIVE position has its stop on the exchange |
| Runtime state `apps/bot/runtime/runtime_state.py` | positions, orders, update counters, reservations, entry pause | register, begin/end update, settling | all of the above | counters paired across exceptions | updates are balanced |
| Reconciliation manager `packages/reconciliation/reconciliation_manager.py` | none of its own | `reconcile_once` | gateway, manual intervention handler | snapshot used after an await | never mistakes the bot's own doing for a user's |
| Manual intervention handler `packages/reconciliation/manual_intervention_handler.py` | entry pause, adopted positions | external position, mismatch, external close, bot exchange close | runtime state, protection | may run while the position is being changed | adopts only what is foreign |
| Kill switch `packages/guards/global_kill_switch.py` | rolling counts, latched triggers | `record_*`, `update_pnl`, `evaluate`, `tripped`, `reset` | runtime | recorded in one place, applied in another | a breach stops trading |
| Cooldowns `packages/position/cooldown.py` | losses per symbol, per entry mode and of all, with their times | `record_result`, `in_symbol_cooldown`, `in_global_cooldown`, `in_entry_mode_cooldown` | trading service | expiry; which results reach it | no entry inside a cooldown |
| Risk, sizing, leverage, levels `packages/risk/*` | none | `approve`, size, levels | trading service | boundaries | caps hold over all symbols |
| Position manager `packages/position/position_manager.py` | bars since the entry, scout state, partial and runner flags; highest R, recovery and weakness counters per symbol | `evaluate` and its rules, `activate_runner_after_partial_tp` | trading service | rules that follow one another; counters that outlive a position | a stop is never loosened; a reduction is not repeated |
| Retests, entry timing `packages/entry/*` | pending breakout and pending retest per symbol | `evaluate`, `register`, `on_new_bar`, `is_confirmed` | trading service | many evaluations on one candle, or none on several | one entry per candle; a breakout is held by another candle |
| Strategy, indicators, scanner, universe | none or caches | pure functions over candles | market data | none | numeric |
| Market data `packages/market_data/*` | closed candles, the current one, gap counters, times of the last data | `seed`, `update`, `refresh_klines`, `ingest_candle` | gateway, WebSocket | REST answers and the WebSocket's thread overlap | the history is in order, its holes are counted, it never goes back |
| Exchange gateway `packages/exchange/bybit_gateway.py`, `packages/guards/rate_limit.py` | clients, limiter | requests with retry | Bybit | lost answers | an order id is executed at most once |
| Storage `packages/storage/*` | PostgreSQL rows | write trade, order and position rows; restore at startup | engine, API | crash between fill and row | restart recovers the bot's positions |
| API configuration, queries, maintenance `apps/api/*` | versioned configuration | update, retention jobs | PostgreSQL | check, then await, then write | versions are not lost |
| Dashboard `apps/frontend` | event-stream store | render | API | reconnects | shows the published state |

The components that are not modelled, and the parts left out of those that are,
appear in section 8.

### 1.2 How the modelled parts meet

```
 API routes --LPUSH--> commands:bot --BRPOP--> command loop -+
     ^                                                       v
     +---- bot:status <--- heartbeat, PnL loop --- BotStateMachine <-- WS recovery,
                              |                       ^  ^             reconciliation,
                              v                       |  |             PnL loop, shutdown
                     lock:quantbot:live               |  +-- ORDER_LOCKED / EMERGENCY_STOP
                                                      |            |
                          trading loop -- evaluate_entry -- protect -- manage / _close
                                              |              |            |
                                        OrderManager      Bybit        OrderManager
                                              |              |            |
                          reconciliation -----+--- snapshot -+------------+
```

* `BotLifecycle` is the state machine with everything that writes it.
* `RuntimeLock` is `lock:quantbot:live` with everything that touches it.
* `OrderManager` is one call of it against the exchange.
* `PositionSync` is one symbol: the exchange's position, the bot's record, and
  the tasks that change both. `BotLifecycle` contains its effect on the state
  machine (`EntryResolved`); `PositionSync` takes an order's outcome (a fill,
  nothing, an exception), which `OrderManager` says how it comes about.
* `EntryGate` is several symbols whose entries pass one after another through
  the guards (`EntryGuards`), the approval (`RiskManager`), the order and its
  protection, while everything the guards look at changes. What
  `BotLifecycle` has as the flag `breach` is a full kill switch here.
* `EntryTiming` decides what `EntryGate` gets as a request, on candles that
  `CandleFeed` says are in order and nearly whole.
* `ManagedPosition` drives the exit rules (`PositionManager`) of a position from
  its entry to its end; in `PositionSync` their decisions are free choices.

## 2. Plan

In order; the first four were written first because a fault there costs money
and none of it can be reached by the repository's unit tests, which run one
coroutine at a time.

| | Module | Composes | Abstract specification | State |
|---|---|---|---|---|
| 1 | `BotStateMachine`, `BotLifecycle` | extends `BotStateMachine` | | written, safety proved |
| 2 | `RuntimeLock` | | `SingleEngine` | written, refinement checked and proved |
| 3 | `OrderManager`: `place_entry`, `place_exit`, `place_partial_exit` | | what is claimed was executed, what is open is known | written, safety proved |
| 4 | `PositionSync` | | record and exchange agree | written, safety proved |
| 5 | `EntryGuards`, `RiskManager`, `EntryGate` | `EntryGate` extends both | limits, at most one late order | written, safety proved |
| 6 | `PositionManager`, `ManagedPosition` | `ManagedPosition` extends `PositionManager` | the stop only tightens | written, safety proved |
| 7 | `EntryRules`, `EntryTiming` | `EntryTiming` extends `EntryRules` | one entry per candle | written, safety proved |
| 8 | `CandleFeed` | | a history without silent holes | written, safety proved |
| 9 | `Recovery`: log rows, crash, restore, adoption, `_reconcile_orders` | `PositionSync` with restarts | | open |
| 10 | `ConfigVersions`, `Maintenance` on the API side | | a linear history of versions | open |

Every safety and every action property of a run that passes is stated by a theorem.
Open: the modules 9 and 10 with theirs, and the type invariants of `PositionSync`,
`EntryGate`, `EntryTiming` and `CandleFeed`.

## 3. The modules

### 3.1 `BotStateMachine`, `BotLifecycle`: the control plane

`BotStateMachine` is the transition table with the two guards, as data.
`BotLifecycle` holds every task that reads or writes the state:

| Variable | Code |
|---|---|
| `state` | `BotStateMachine._state` |
| `main`, `shutdown` | where `BotRuntime.run` is; `_shutdown` |
| `published` | Redis `bot:status`, what the route guards read |
| `queue`, `sent` | Redis list `commands:bot`; the count bounds the instance |
| `cmd` | the command loop: idle, or suspended in START's reconciliation, in SYNC_NOW, in STOP (with or without the closing of the positions), or dead |
| `rec` | the reconciliation loop and a task of a private event |
| `pnl` | the PnL loop |
| `ws` | disconnect handlers with their local `was_running` |
| `trader` | one entry: approved, or its order sent |
| `breach` | a threshold of the current kill switch is reached or latched |
| `told` | `_last_kill_switch_trip_reason`: the reason of the trip is remembered |
| `started`, `late`, `runs` | history: START executed; entries sent since RUNNING was left; process starts |

Actions: `ApiSend` (route guards), `Boot` and `Restart`, `ConsumeCommand` with
one `Dispatch*` operator per command and `Finish*` for what follows their
awaits, `ReconcileBegin`/`End`, `PnlTick`, `Beat`, `WsDisconnect`/`WsRecovered`,
`EntryApproved`/`Sent`/`Dropped`/`Resolved`, `Signal`, `ShutdownBegin`/`End`. A trip of
the kill switch that was not announced before awaits its announcement between the look
at the switch and the look at the state (`ReconcileAnnounced`, `PnlAnnounced`,
`WsAnnounced`), and if the announcement raises, the state stays as it is.
`Faults` says what else may raise: `reconcile_once`, the events and the beat of a
command, and the closing of the positions by a STOP that asks for it, after which
`_stop_bot` never gets to `request_shutdown`.
A shutdown cancels the loops in `_tasks` and nothing else: WebSocket and
private-event tasks run on until the process is gone, and the model lets them.

Abstracted: kill-switch thresholds and windows (one flag, set whenever a call
could reach a threshold), heartbeat age (a stale status may still count as
alive), payloads, positions. `BybitExchangeGateway` stores its `on_disconnect`
callback (`packages/exchange/bybit_gateway.py:301`, `:345`) but has no call of
it; the handler is registered by `startup` and exercised by
`tests/integration/test_runtime_extras.py:40`, and it is modelled as the
gateway interface describes it.

### 3.2 `SingleEngine`, `RuntimeLock`

`SingleEngine` says what the lock promises: an engine comes up only when no
other is up. `RuntimeLock` has the Redis key (`owner`, `ttl`), and per process
incarnation its life cycle (`pc`), `_held` and the ticks since its last beat
(`gap`). `Acquire`/`Refused` are `SET NX PX`, `Beat` is `Heartbeat.beat_once`
with `Refresh`, `Stop`/`Release` are shutdown, `Crash` any death, `Tick` one unit
of time for Redis and the engines together. `MaxGap` bounds how long an engine
may go without a beat; the interesting instances let it exceed `TTL`.

Redis cannot stop a process that has stalled, so what the lock achieves is said
of the engines that beat in time: `Fresh(e)` holds while the last successful
beat of `e` is less than a TTL old. The mapping to `SingleEngine` is
`up <- {e \in Engines : Fresh(e)}`. That every live engine is fresh needs
`MaxGap < TTL`, which nothing in the engine enforces (`MutualExclusion`, section 5).

### 3.3 `OrderManager`

One call of `place_entry`, `place_exit` or `place_partial_exit`: `Submit` and
`Request` (`_reserve_order`, then the request leaves), `Acknowledged`,
`PlaceRaises`, `PlaceTimesOut`, `Recover` (timeout recovery and the retry), `Poll`
(`_resolve`), `Resolved` (`_record_order`), `Cancel` (`_safe_cancel` and what
follows: nothing, the same LIMIT order again, the exit of a small aggressive
fill, the market order for what a partial exit lacks). `Land`, `Fill`, `Expire`
are the exchange; a reduce-only order reduces no more than there is. `kind` is
the call with the configured policy, chosen once. The reservation of an order,
its record and the order itself (`ord`) are three variables so that every await
in between is visible to the invariant `KnownWhileOpen`. `lost` is history: the
ids whose answer or cancel did not get through, which is what the properties
except.

`Faults` selects what the client may do: `error` (another exception, also after
the order was accepted), `timeout` (`OrderTimeoutError`), `cancel`
(`cancel_order` raises and `_safe_cancel` swallows it), `lookup` (`get_order`
finds nothing), `recover` (the look-up of a timed-out order raises, `RecoverRaises`, and
the handler it stands in does not clear the reservation), `log` (the row of an order
cannot be written). The Bybit gateway of this repository raises no
`OrderTimeoutError`; the paths for it are modelled because the order manager
has them.

### 3.4 `PositionSync`

One symbol. `ex` and `sl` are Bybit's: the size of the position and whether it
carries the bot's stop loss. `reg`, `obj`, `upd`, `paused` are the bot's
`RuntimeState`: the registered `Position`, the objects, the update counter and
the entry pause. `lock` is what `_transition_after_protection_failure` made of
the state machine. `task` says where each task is suspended and what it holds:
the trading loop (`loop`), the command loop (`cmd`), and reconciliations
(`Recs`).

Python objects outlive their place in a dictionary: an exit that was sent for
one position writes to that object although another has been registered in the
meantime. Objects therefore have identities (`Objs`); `Register` takes an
identity nobody refers to and `Kept` resets those that nobody refers to any
more, which keeps the state space finite and loses nothing (no task can read
them).

| Actions | Code |
|---|---|
| `Approve`, `SendEntry`, `EntryUnfilled`, `EntryRaises`, `EntryFilled` | `evaluate_entry` |
| `Confirm`, `Confirmed`, `Verify`, `Activate`, `Unverified`, `SetStop`, `SetStopRaises`, `ProtectRaises`, `Flatten`, `Flattened`, `FlattenRaises` | `protect`, by the entry path and by a resync |
| `Exit`, `SendExit`, `ExitUnsent`, `Reduce`, `Command`, `CloseIgnored`, `CloseReturns`, `Book`, `CloseRaises` | `manage`, `close_position`, `_close` |
| `Snapshot`, `Adopt`, `SyncAdopted`, `Mismatch`, `Gone`, `Leave` | `_reconcile_positions` and the handlers |
| `FillEntry`, `Execute`, `StopFires`, `UserTrades`, `PauseExpires` | Bybit, a user, the clock |

A request that reads (a snapshot, a confirmation, a query of the stop) is two
actions: the answer is taken, and it is used as it came, whatever has happened in
between. Events and logs that are awaited between two steps are steps of their own
where another task can see the difference: an exit is CLOSING before its events are
published (`exiting`), and a close has its answer in the record while its rows are
written (`logging`), after which `Book` looks at the record again and counts the
result.

The code checks records against an exchange that moves on, and there are events after
which it no longer can tell its own doing from a user's. `amiss` is history: it
remembers that one of them has happened, and no action reads it. They are

* a user trades the symbol by hand;
* `executor.open` raises after the exchange has executed the order;
* an entry is executed while a record of the symbol is still open, one stuck in
  CLOSING or an adopted one, which it replaces;
* the confirmation takes a size that is not the record's, because an exit has been
  executed and not yet subtracted;
* `_activate` makes a closed record ACTIVE;
* an order is executed for a record that has been closed meanwhile, or an exit or an
  emergency order of all there is leaves a part;
* a close raises after its reduction was executed, so that it is never subtracted;
* a close ends a position while another task is logging its own part of it, so that
  both book a result (`trading_pipeline.py:1163`);
* a reconciliation adopts, corrects or closes a record because of a snapshot that the
  exchange has overtaken.

`InStep`, `BookedOnce`, `AdoptsOnlyForeign` and `ActiveIsProtected` say what holds until
the first of these. Without any one item of the list TLC finds a property violated, so
it is as short as it can be; what such an event leads to is in section 5 where a
document says otherwise. `UpdatesBalanced` has no such condition.

`PositionManager` may decide an exit or a reduction at any time; cooldown and
kill switch appear as the number of results they were given (`booked`). Not in
the model: prices, profit and loss, `manual_added_qty`,
`adopt_external_positions = false`; `sync_stop_loss` is in
`ManagedPosition`, several symbols are in `EntryGate`.

### 3.5 `EntryGuards`, `RiskManager`, `EntryGate`

`EntryGuards` has `GlobalKillSwitch` and `CooldownTracker` as operators on
records. The code keeps times and compares them with the clock; here an event
is its age in ticks, and ages beyond the last window that looks at them are
dropped (`SwitchAged`, `LossesAged`). Recording, evaluating and latching are
separate operators because different tasks do them.

`RiskManager` is `approve` as pure operators on small integers: the stop
(`Stop`: ATR, structure and minimum distance, rounded to the tick), its
refusals (`HasDistance` is the one of `compute_size`, a stop that rounds to the entry
price), size by risk and by notional (`Quantity`), leverage with its caps, the
liquidation guard and the limits that depend on the other positions. Units are
in its header.

`EntryGate` is `evaluate_entry` for one entry at a time: `Gate` (`_pre_gate` and
`approve`), the await of the order book, `PostGate` or `GateLatches` (the last
look at the kill switch), `OrderFills` or `OrderFails`, `Protected` or
`ProtectionFails`. Between any two of them run the ends of positions
(`Closed`, `Booked`, `NeverBooked`, `ExitFails`, `StopFired`), trades by hand
(`ExternalOpened`, `ExternalClosed`, `ManualAdd`), commands (`Pause`, `Resume`, `Reload`),
disconnects and results (`Dropped`, `UpdatePnl` of `_publish_and_persist_pnl`), and
`Apply`, a call of `_apply_kill_switch_trip` by the PnL loop, the reconciliation loop or
the task of a private event. `late` is history.

A close is two steps. `_close` sets CLOSED, awaits the rows of the fill, the position and
the trade, and only then records the result in cooldown and kill switch; in between the
symbol is free, out of its cooldown and settling. A row that cannot be written leaves the
result unrecorded (`NeverBooked`). The trading loop is busy during its own close; during
that of a command it may approve the symbol anew. A call that finds a trip it has not
announced remembers the reason and awaits the announcement (`calls`) before it looks at
the state; one that finds the reason remembered goes on at once.
`RELOAD_CONFIG` builds new guards while an entry and a close still hold the old ones
(`entry.orphan`, `booking`).

### 3.6 `PositionManager`, `ManagedPosition`

`PositionManager` is `evaluate` as a chain of rules, each from a step record to
the next: the scout's life (confirmation, warnings, recovery, defensive and
catastrophic reductions), invalidation of the scenario, partial take profit,
runner, trailing, weak structure, stagnation and slow start. A snapshot of
indicators is the set of facts that rules test in it, so any combination of
indicator values that can decide differently is one of the inputs.

`ManagedPosition` adds `TradingService.manage`, which executes the decided actions one
await at a time: the events that come before the action they announce (`announcing`,
`Announced`, `AnnounceRaises`: a runner's, a scout's), by when an exit has set CLOSING
already; exits and reductions that fill, fill nothing, raise or cannot be logged
(`ExitFills`, `ReductionFills`, `CloseFillsNothing`, `CloseRaises`,
`ReductionUnlogged`), stop updates (`Sync`, `SyncSkipped`, `SyncRaises`), the log row
(`LogStop`), the exchange's stop (`StopFires`, then `Gone` when reconciliation notices),
and `Restart` from the last row. The stop is a variable in each of its three places;
`trk` is what the manager keeps per symbol and does not clear at a position's end.

### 3.7 `EntryRules`, `EntryTiming`

`EntryRules` has the candle rules: healthy breakout, hold, anti-chase, retest,
scout conditions and score, structure stops. It states them for a LONG; a SHORT
sees the candles in a mirror (`Facing`), with its own thresholds.

`EntryTiming` is `EntryTimingEngine.evaluate` with `RetestManager` over a stream
of candles: an evaluation in either direction (`dir`) with any 15 minute trend,
any number of times on one candle; a new candle; a reload, which builds a new
engine. `made` and `breaks` are history: what a candle has yielded, and which directions
an earlier candle has broken out to without an evaluation facing the other one since.

### 3.8 `CandleFeed`

One series of candles, numbered by their opening times. The WebSocket's thread
takes hold of the history and of its last candle (`ConfirmationArrives`) and puts
the candle in later (`ThreadWrites`), maybe into a history that an answer has
replaced in the meantime (`orphan`). The loop asks for an answer, the exchange
takes it at one moment (`SnapshotTaken`), and `Seed` replaces everything at a later
one, when `get_kline` also judges which rows are confirmed, by the engine's own clock.
That clock is `clock`, the number of candles that have ended by it; confirmations come by
the exchange's, `closed`. With `Drifts` the engine's lags behind or leads by less than a
tick (`ClockTurns`): `ClockSyncGuard` lets entries through up to a difference of one
second, and a tick is many. A clock that is stepped back within a candle is not modelled.
An entry is judged on a copy (`Copies`, `Judges`) made before the data guard reads the
counter. Confirmations may be lost (`ConfirmationLost`) and requests may fail.

### 3.9 Other modules

`MC*` modules give the constants of the TLC instances; `*_proofs` modules extend
a component's module and TLAPS. Definitions whose names begin with `Bug_` are
the mutants: each is a plausible mistake in one definition, and for each
property of a passing run one of them violates it.

## 4. The runs

Twelve runs, eleven of which must pass; the passing ones explore between 73 000
and 982 000 distinct states each.

| Run | Shows |
|---|---|
| `lifecycle_safety` | 3 commands of START, PAUSE, RESUME and STOP with close_positions, 2 overlapping recoveries, 2 reconcilers, an entry, every fault, one restart: `TradingOnlyAfterStart`, `AtMostOneLateEntry`, `LockLeadsOnlyToStop`, `ShutdownIsFinal`, and the types. |
| `lifecycle_liveness` | Two overlapping recoveries that succeed, all commands, other reconciliations, announcements and the closing of positions may raise: RECONCILING is always left, a breach ends trading for good, an accepted STOP that closes no positions ends the process, also behind one that failed to close them. |
| `lock_late` | Three incarnations that may stall beyond the TTL: one at a time is fresh and the lock implements `SingleEngine`; late releases and refreshes touch only the owner's key; a dead owner's key becomes free. |
| `order_faults` | Entries under both policies, exits and partial exits, every fault, fills at any moment: an outcome never claims more than was executed; except for what was lost, every order of the bot on its way or open is reserved or recorded and nothing is left resting; no reservation outlives the call but that of the request in hand when the handler of a timeout raises. |
| `sync_undisturbed` | Every fault, partial executions, partial commands and old answers, up to the first event of section 3.4: record and exchange agree whenever nothing is settling (`InStep`), results are booked once, nothing of the bot's is adopted, no held position is ACTIVE without its stop. |
| `sync_all` | The same, and on after these events: updates stay balanced. |
| `gate` | Two symbols, three requests: position and direction limits hold when the order fills, though they were looked at before it left; so does the symbol's cooldown, unless a close of the symbol was not booked yet at that time; so does the risk budget, up to slippage; a tripped switch lets one order more through and ends RUNNING. |
| `gate_duplicate` | A counterexample; section 5. |
| `managed_trail` | Breakout and retest positions, one after another: the stop of the record and of the exchange only tighten, each kind of reduction is bounded, a CLOSING position has an exit still to be done, or one that failed, or an event before it did. |
| `managed_scout` | Scouts with restarts and rows that cannot be written: reductions are bounded within one process. |
| `timing` | Eight kinds of candles in any order, evaluated any number of times, with reloads and orders that do not fill: a candle yields at most one breakout and one retest, a breakout is entered only while the earlier candle that announced it stands, a structure stop is on the losing side. |
| `feed` | Five candles of a 1 or 15 minute series, the engine's clock behind or ahead: order, counted holes, no step back but by the candle whose close the clock has not seen, no entry on a copy with too many holes, and a gap that blocks entries is repaired. |

### 4.1 Bounds, and why they are enough

* `BotLifecycle`. `MaxCommands = 3`: every property concerns a state that is at
  most two commands away (START, then PAUSE, RESUME or STOP) and one command to
  disturb it. Two WebSocket tasks are the smallest number that overlap; a third
  finds the states that a second finds, since a handler keeps one Boolean.
  `MaxRuns = 2`: one restart, so that the command list outlives a process.
  `lifecycle_safety` leaves out RELOAD, SYNC and the plain STOP, which differ from the
  others in what they await; `lifecycle_liveness` has all seven commands. The safety
  properties are also proved without these bounds, for all commands.
* `RuntimeLock`. Three incarnations allow a successor of a successor while the
  first still lives. `TTL = 3` with `MaxGap = 5` lets an engine be on time, miss
  the end of its key by one tick, or by enough for a successor to acquire it and
  beat. Proved for all values.
* `OrderManager`. A fill can be nothing, too small to keep, kept and full. Two
  tries are the configured `limit_reorder_attempts` of 1; two polls distinguish a
  poll that waits from the one that ends the TTL; the position of six lots is
  larger than what an exit is asked to sell, so that too much can be sold. Proved for
  all values.
* `PositionSync`. An entry of two lots is the least that has a partial exit and
  a residue; three lots find nothing else. One reconciliation at a time: the loop, a
  command and a reconciliation are already three tasks on one record. Both runs have
  all seven faults. `sync_undisturbed` stops at the first event of `amiss`
  (`CONSTRAINT Undisturbed`), after which its properties claim nothing. `sync_all` goes
  on, with one lot, and follows a resync then only while at most one record is in use
  (`CONSTRAINT FewRecords`). All five properties are proved for any number of lots and
  of reconciliations.
* `EntryGate`. Two symbols with `MaxPositions = 2` and one position per side: two
  entries compete for the limit per side. The count of all positions cannot exceed two
  with two symbols; that part of `WithinLimits` is for the theorem, which has any number
  of symbols. Windows end with the tick of the event, so that every event is inside and
  outside of its window; thresholds are reached by one or two events. `MaxRisk` stops
  additions by hand, `MaxCallers = 1` a second announcement at the same time. The
  amounts are such that a total budget of 4.2 % admits one full position and cuts the
  second. Its four safety properties are proved for any number of symbols and all
  amounts, windows and limits.
* `ManagedPosition`. Prices in halves of the risk between the initial stop and
  beyond the last threshold; thresholds are next to one another, so that rules
  meet. Counters are capped (`BarCap`, `CutCap`) where rules stop telling them
  apart. Two instances share the rules because all at once are too many, and the faults:
  events and stop updates that raise where there are runners, rows and restarts where
  there are scouts. Proved for all thresholds, prices, candles and faults.
* `EntryTiming`. Each kind of candle satisfies or fails another set of rules; a
  history of three with a box of two is the least in which a candle that broke
  out becomes part of the box. Proved for all candles.
* `CandleFeed`. A history of four and answers of three, so that both replace and
  drop; one missing candle is tolerated; an await may span the end of a candle, and so may
  the difference of the clocks. The 1 and the 15 minute series: what the 5 minute one does
  the latter may do, too. Five candles are enough for a gap, an answer and another gap.
  The safety is proved for all values.

Only `lifecycle_safety` uses symmetry, over WebSocket tasks that no property
names. `CHECK_DEADLOCK FALSE` stands where the system stops by design: a process
that is down for good (`BotLifecycle`), engines that are all down with no key
(`RuntimeLock`), a call that has returned (`OrderManager`). The others are
checked for deadlock in every run.

### 4.2 Fairness

Each fairness conjunct concerns steps of code that is runnable.

* `BotLifecycle`, weak fairness of the continuation of an await (`FinishStart`,
  `FinishSync`, `FinishStop`, `ReconcileEnd`, `WsRecovered`, `ShutdownEnd`, and what follows
  an announcement: `ReconcileAnnounced`, `PnlAnnounced`, `WsAnnounced`): every
  request of the gateway has a timeout and a bounded number of retries, so the
  await returns or raises, and the event loop then resumes the task; which of
  the two happens is a free choice where the instance has the fault. And of the
  loops (`ConsumeCommand`, `PnlTick`, `ShutdownBegin`, `Boot`): the event loop is
  first-in first-out and no task spins without an await. `PnlTick` is a round of the
  PnL loop that gets to the switch; it is owed only where a breach stands, and it
  assumes that not every round for ever raises before (`log_daily_pnl`, `:540`).
* `RuntimeLock`, weak fairness of `Tick`, `Beat`, `Release`: time passes, and the
  heartbeat task is such a loop. The safety of the lock does not rest on it.
* `EntryGate`, weak fairness of `Apply` and `Announced`. The heartbeat only beats and
  publishes (`bot_runtime.py:404`). `_apply_kill_switch_trip` is called after a
  reconciliation of the loop (`:400`) or of a private event (`:692`), behind the PnL of a
  round (`:565`) and by a disconnect (`:596`); each is left out when what comes before it
  raises. The loops swallow the exception and come round again, so what is assumed is
  that the exchange, Redis and the database answer again some day: not every round
  raises for ever.
* `CandleFeed`, weak fairness of `LoopSteps` and `ThreadWrites`: the loop goes on
  and a thread is scheduled. Strong fairness of `Answered`: a request fails any
  number of times, but not for ever. Without it no code could repair a gap.

Users, signals, disconnects, fills and `Restart` owe nothing.

## 5. Where documents and code disagree

One of them is a run, with one property that states what is written and a
counterexample of the code as it is: `gate_duplicate`, `OnePositionPerSymbol`.
The strategy flow document (`docs/quantbot_strategy_flow_current.md:467`) forbids
two positions on one symbol. A position whose exit executed nothing is CLOSING;
`active_bot_positions` (`runtime_state.py:33`) counts PENDING and ACTIVE only, so
the next signal of the symbol is approved, its record replaces the old one, and
both sizes are on the exchange under one record.

More came up while modelling. Their properties stand at the end of the modules,
under "What the documentation says and the code does not do"; they are not
among the runs. TLC refutes each within a minute on the instance given, the
other constants as in the run named, without its `CONSTRAINT`; "full commands" stands for
`PartialCommands = FALSE`.

| Property | Instance | Written | What the code does |
|---|---|---|---|
| `RecoveryEnds` | `lifecycle_safety`, START, one `WsTasks`, `MaxCommands = 1`, `MaxRuns = 1`, `Faults = {"recover"}`, `FairSpec` | "Pause entries, REST-refresh, reconcile, then return to RUNNING" (`bot_runtime.py:589`) | If `reconcile_once` raises, nothing leaves RECONCILING any more but STOP or a lock (`:606`). |
| `EntriesOnlyInRunning` | `lifecycle_safety`, `Faults = {}` | "New entries are only allowed in RUNNING" (`bot_state_machine.py:8`) | The state is checked in `_pre_gate`; the order is sent after further awaits. `AtMostOneLateEntry` bounds it. |
| `RunningOnlyWhenRecovered` | `lifecycle_safety`, `Faults = {}` | "reconciliation 완료 후 RUNNING 복귀" (engine document, 1243) | A disconnect in RECONCILING or SYNCING remembers `was_running = False`; another task returns to RUNNING while its reconciliation is under way. |
| `StopClosesAndEnds` | `lifecycle_safety`, START and STOP_CLOSE, one `WsTasks`, `MaxCommands = 2`, `MaxRuns = 1`, `Faults = {"close"}`, `FairSpec` | "Apply STOP options before graceful shutdown" (`bot_runtime.py:1169`) | `_close_all_positions` may raise (`:1201`, `:1207`); the command loop swallows it, and the shutdown is never requested. |
| `PauseIsHonoured` | `lifecycle_safety`, START and PAUSE, one `WsTasks`, `MaxCommands = 2`, `MaxRuns = 1`, `Faults = {}`, `FairSpec` | POST /bot/pause: "신규 진입 중지" (backend document, 523) | PAUSE acts in RUNNING only and is dropped while a recovery is in RECONCILING. |
| `MutualExclusion` | `lock_late`, two engines, `MaxGap = 3` | "The Bot Engine must not run twice" (`runtime_lock.py:3`) | The heartbeat ignores what `refresh` returns (`bot_runtime.py:404`); an engine whose key expired runs on. |
| `ReorderOnlyUnfilled` | `order_faults`, `Faults = {}` | "0% 체결 → 취소", then at most one reorder (engine document, 986; `order_manager.py:208`) | The fill is not read again after the cancel; an order that fills in between is repeated in full (`:201`). |
| `PartialWithinRequest` | `order_faults`, `Faults = {}` | "+2R 도달 시 50% 부분익절" (engine document, 1105) | What the LIMIT order executes between its last poll and its cancel is sold once more (`order_manager.py:250`). |
| `RetryOnlyMissing` | `order_faults`, `Faults = {"timeout"}` | "주문 존재하면 해당 주문 상태 사용" (engine document, 1227) | A timed-out order is looked for among the open orders; an executed one is repeated. |
| `RaisedMeansNoOrder` | `order_faults`, `Faults = {"error"}` | "client_order_id로 주문 조회" (engine document, 1226) | The Bybit gateway's lost answers are not `OrderTimeoutError`; nobody looks. |
| `AdoptsNoneOfItsOwn` | `sync_undisturbed`, `Faults = {}` | "Bybit has a position the bot did not open" (`manual_intervention_handler.py:60`) | A record closed by an old snapshot leaves a position that the next one adopts; so does a partial close during the confirmation, which is subtracted twice (`protection_manager.py:79`). |
| `SetFailureStopsEntries` | `sync_undisturbed`, full commands, `Faults = {"unattached", "setstop"}` | a failed TP/SL setting gives "신규 진입 전체 중지" (engine document, 416) | `set_trading_stop` that raises leaves the position PENDING and the state machine as it was (`trading_pipeline.py:822`). |
| `GoneMeansFlat` | `sync_undisturbed`, full commands, `Faults = {}` | "Bot-managed position is already flat on Bybit" (`manual_intervention_handler.py:197`) | A snapshot from before the fill, used after the entry has settled, closes the record of a position that exists. |
| `AdoptedStaysAdopted` | `sync_undisturbed`, full commands, `MaxSize = 3`, `Faults = {"user"}` | adopted positions are "NOT auto-managed" (`packages/core/enums/enums.py:111`) | An entry replaces the adopted record and protects all of the exchange's size as its own. |
| `EmergencyCloseLocks` | `sync_undisturbed`, full commands, `MaxSize = 3`, `Faults = {"user", "mismatch"}` | "close ok   => ORDER_LOCKED" (`protection_manager.py:13`) | A resync reports only whether the position is protected. |
| `LockedMeansFlat` | `sync_undisturbed`, full commands, `Faults = {"unattached", "mismatch", "partial"}` | "position flattened -> ORDER_LOCKED" (`protection_manager.py:218`) | Any fill counts as flattened. |
| `TripIsLatched` | `gate` | latched until a manual reset (strategy flow document, 793) | RELOAD_CONFIG builds a new switch and new cooldowns; `reset` has no caller. |
| `StopLossesCount` | `gate` | a loss updates the counters of cooldown and kill switch (strategy flow document, 771) | A position closed by its stop on the exchange ends in `handle_bot_exchange_close`, which records no result. |
| `NoEntryInCooldown` | `gate` | a symbol in its cooldown is not entered (strategy flow document, 6) | The result is recorded three awaits after CLOSED (`trading_pipeline.py:1126`, `:1166`); an entry approved in between is not checked for it again (`:601`). |
| `TwoLossesBlock` | `gate`, `SymbolWindow2 = 1` | two losses of a symbol within 60 minutes: 60 minutes (strategy flow document, 785) | The cooldown ends when the first loss is 60 minutes old. |
| `TrailingIsEarned` | `managed_trail`, `Faults = {}` | trailing starts at +2R (engine document, 14.3) | `_max_r` is kept per symbol and outlives its position; the next one trails from its first bar. |
| `ExitIsTried` | `managed_trail`, `Faults = {"event"}` | "일반 축소/전체 청산은 reduce-only MARKET을 사용한다" (strategy flow document, 774) | An event that precedes the exit and raises leaves the position CLOSING without an order (`trading_pipeline.py:1008`). |
| `PartialOnce` | `managed_trail`, `Faults = {"restart"}` | one partial take profit (engine document, 14.2) | A restored position has forgotten that it had one. |
| `RetestWaitsForCandles` | `timing` | a retest expires after 12 candles or two adverse closes (strategy flow document, 310) | Evaluations are counted, several of which fall on one candle. |
| `NextCandleHolds` | `timing` | the next candle holds (strategy flow document, 6) | It may be any later candle on which the symbol is evaluated. |
| `ConfirmedIsFinal` | `feed` | keeps confirmed candles and the one in progress apart (`candle_store.py:3`) | A row served before a close and read after it is confirmed with the values it had before. |
| `JudgedOnRecent` | `feed` | "Blocks new entries when market data is stale" (`data_quality.py:3`) | Any message makes a series fresh, also one that follows lost confirmations. |
| `EverySeriesPolled` | `feed`, `FairSpec` | "market WebSocket unavailable; using REST polling" (`bot_runtime.py:647`) | A 5 minute series that is not empty is not polled. |

Noticed without a property: `partial_tp_done` is set before its order is placed;
a restored position computes its initial risk from the trailed stop; the "3 bar"
windows of the recovery rules count evaluations.

## 6. What is proved

`TLAPS`, for all values of the constants that satisfy the modules' assumptions.
No theorem bounds the number of tasks, commands, restarts, engines, lots,
orders, symbols or candles.

* **`BotLifecycle_proofs`**. Type correctness, then three invariants. `Phase` ties the
  state of the machine to where the process is: BOOTING, STOPPING and STOPPED belong to
  a process that boots, stops or is down. It is what `ShutdownHolds` and `LocksHold`
  need: without it a task that survives the cancellation could find a state that it
  may still leave. `StartedInv` adds to `TradingOnlyAfterStart` that an entry in flight
  belongs to a started process (a failing entry forces a lock from any state).
  `LateInv` adds to `AtMostOneLateEntry` that nothing is late while an entry is
  approved and not yet sent. Each is shown to be preserved action by action.
* **`RuntimeLock_proofs`**. `OwnerInv` says that a fresh engine owns the key and that
  `ttl + gap[e] = TTL`, so the key outlives the engine's freshness exactly; and that an
  engine that is no longer fresh does not own it, so no late beat makes it fresh again.
  `KeyInv` says that the key is present exactly while it has life left. From these
  `OneEngineIsFresh`, and every step maps to a step or a stutter of `SingleEngine`
  (`LockImplementsSingleEngine`), without a condition on `MaxGap`. Under `MaxGap < TTL`
  every live engine also still holds its lock (`HeldInv`), so two are never live at once
  (`RunsOnce`); the counterexample of `MutualExclusion` in section 5 shows that the
  condition is needed. `OnlyOwnersRelease` and `OnlyOwnersRefresh` are the action
  properties of a late process: its token is not in the key.
* **`OrderManager_proofs`**. The inductive invariant is the conjunction of `TypeOK` and six
  parts. `Reserving`: exactly the request in flight is reserved, and `cid` runs ahead of
  `tries` once a request has been repeated. `Unanswered`: a request that is looked up
  has had no answer. `Counting`: a client id is left for every order that may follow.
  `Sizing`: no order is larger than what its call may still ask for, and what was
  seen of it is no more than was executed. `Resting`: what may still be in the book
  besides lost orders is the current one, which a call leaves there only if it is an
  aggressive order of which nothing was seen. With `KnownWhileOpen` itself these give
  type correctness (`TypeCorrect`, which bounds what is claimed by the request),
  `NoReservationLeaks`, `OpenOrdersAreKnown` and `NothingRests`, for all four kinds of
  call and any set of faults. What `NoReservationLeaks` leaves to the handler of the
  timeout is exactly `cid`, the request in hand, when its look-up or its repetition raises.
  `OutcomesAreBacked` needs one more, `Backed`. `NeverOverReports` compares the outcome
  with totals over all orders, which no single step decides; `Backed` names the order, or
  the two of a partial exit, whose executions the outcome repeats. An entry that was
  flattened claims nothing, and that is no more than what is left only because a
  reduce-only order leaves no position below zero, so this is part of it.
* **`PositionSync_proofs`**. `UpdatesStayBalanced`: with `Shape` (every task has its record),
  each action that changes `upd` moves exactly one of the two updating tasks into or out
  of an update. It holds for every set of faults and any number of reconciliations,
  since every `begin_position_update` is paired with the `finally` that ends it.
  `StaysInStep`, `BooksOnce`, `AdoptsForeignOnly` and `ActiveStaysProtected` hold for every
  set of faults, partial executions and answers used however old, up to the first of the
  events of section 3.4. `SyncInv` is `Balanced` and, while nothing is `amiss`, `Parts`:
  `Records` (every object is the bot's own and booked once at most), `Watching`
  (reconciliations find nothing to adopt or to resync, so that they never get that far),
  `Trading` and `Commanded` (what the loop and a command hold: the loop the registered
  position, a command maybe one that has been replaced), `Closing` (of either of them: an
  answer that will close the record has left nothing on the exchange, and what is being
  logged closed is not booked yet), `Apart` (they never log the end of one position
  together) and `Agree`. `Agree` is `InStep` made
  inductive: record and exchange differ by `CutOf`, the lots of reductions that have been
  executed and are not in the record yet. Since no action reads `amiss`, the theorems
  restrict no behaviour; they say what the code keeps until one of these events, action by
  action.
* **`EntryGate_proofs`**. `LateInv`: once an order was late, the switch is latched and no entry
  stands before its last look at it, so no second one can be late (`OneOrderIsLate`).
  `LimitInv`: from the approval to the fill there is room for the entry (`Room`), because
  whatever runs in between only removes positions of the bot, and a position that awaits
  its protection counts (`Filled`); with `Shape`, by which positions are told apart by
  their symbols, `LimitsHold`. `CoolInv`: the symbol of an entry is out of its cooldown
  from the approval on, although losses are recorded meanwhile: unless a close of this
  symbol was still to be booked at the approval (`entry.unbooked`), what is booked
  belongs to another symbol, since an open position of this one would have been refused,
  and events that age leave a cooldown and do not enter it (`CooldownsHold`, an action
  property at the fill). `BudgetInv`: the approved entry and the positions that count are
  within the total budget together, and none of these is of the entry's symbol, so
  that the fill adds its risk and replaces none (`OpenRiskHolds`). The sums are the
  recursive functions of the community modules; what is needed of them (a sum over
  fewer is no more, one member more adds its own) is proved from the least finite set
  on which it would fail, which asks for no induction theorem with an operator for a
  parameter.
* **`ManagedPosition_proofs`**. For all settings, prices and candles. A rule maps a step record
  to a step record; a lemma per rule says what it makes of a step on which nothing has
  been decided (`Outcome`): nothing, or one action together with its entry in the books
  (the flag or counter that keeps the rule from deciding it again), and the lemmas compose
  as `evaluate` composes the rules. The invariant `IInv` then has `Typed`, with at most one
  action under way; `ClosingAwaits` and `EndedIsClean`, from which `ClosingIsOrdered`
  (the exit is still to be done, has failed, or was dropped with an event before it);
  `ReasonKnown` and `CutsBooked`, by which what was cut, and what is about to be, is in the
  books (`CutsAreBounded`; it needs that books are written before the order is sent);
  `Tracked` and `StopsAgree` for `StopsOnlyTighten` and `ExchangeStopsOnlyTighten`: the stop
  of the exchange lags behind that of the record, and this behind the one about to be
  written. The rule that needs most is the slow start of a retest, which halves the
  distance between stop and entry without a look at the side the stop is on: a stop
  beyond the entry has been earned by an excursion of one R (`Earned`), after which no
  start is slow. A restart within the position excepts it, as in the runs.
* **`EntryTiming_proofs`**. `OnceInv`: after a breakout on a candle nothing that is
  pending can be confirmed by this candle again, and after a retest no retest is pending
  but one that this candle broke. It needs that a breakout is not a matter of the 15
  minute trend, which may change between two evaluations. `StaleInv`: what is pending
  was announced by a candle that stands in `breaks`, so an evaluation in the other
  direction has dropped both (`BreakoutsAreFresh`). `OneEntryPerCandle` and
  `BreakoutsAreFresh` are stated for `RequireHold`, the configured value; without it a
  breakout is entered on the candle that breaks out. `StructureStopsLose` does not
  depend on that: a stop below the least low of a structure and below the candle that
  decided leaves something to lose under `Sound`, which asks of candles that low, open,
  close and high are in order, of the ATR that it is positive, and of the configuration
  either a buffer or the chase filter (without both a scout may close at the low that
  its stop is put at).
* **`CandleFeed_proofs`**. Lemmas on sequences first: the order of candles (`Spaced`,
  any two are at least as far apart in time as in place) and their holes under dropping
  the oldest, appending a newer one, replacing the last one, and for an answer.
  `FeedInv` then has `Clock` (the two clocks are at most one candle apart, and the
  engine's is ahead only in the last tick of one), `Stored` (no candle is in the history
  before it closes at the exchange or by the clock), `Held` (the thread knows the last
  candle of the history it holds, unless an answer replaced that), `Copied` (the counter
  only grows while a cycle works on its copy) and `Prompt` (at most one candle closes
  while an answer is on its way, from `Flight < TicksPerCandle`). `Clock` and `Prompt`
  are what `LastCandleNeverGoesBack` rests on: the rows that are left out of an answer
  are those the clock takes for unfinished, and of the closed ones that is one at most.

Only model-checked: the liveness properties (`TripLocks`, `GapsRepaired`, `RecoveryEnds`,
`BreachEndsTrading`, `StopEndsProcess`, `DeadOwnerExpires`), which rest on fairness and
so on `ENABLED`. The type invariants of `BotLifecycle`, `RuntimeLock`, `OrderManager` and
`ManagedPosition` are proved; the others document the variables and were
checked on the instances of the runs. What the recursive functions of the community
modules compute is proved only as far as the proofs above need it. The counterexamples
of section 5 are TLC's.

The proofs changed the models once: without the refusal of a stop at the entry price
(`position_sizing.py:44`) the model approved positions without any risk, and the
division by the distance that sizes them has no value.

## 7. Running

```
tlc -workers 2 -config MCPositionSync_undisturbed.cfg MCPositionSync.tla
tlapm PositionSync_proofs.tla
```

Every run ends within about two minutes with two workers, and every proof module is
checked from nothing within a few minutes.

## 8. Not modelled, and why

* **Open** (section 2): `_reconcile_orders`, adoption and restore of all positions
  after a crash, versions of the configuration, maintenance jobs.
* **Pure computation**: indicators, strategy scores, scanner, universe, PnL sums.
  What they decide is a free choice in the models, so the properties hold
  whatever they compute.
* **Clock and rate limiting**: they can only delay or drop a request, and any
  request may be late or fail. Where the engine's clock decides (which candles are
  closed), `CandleFeed` lets it differ from the exchange's; that it is never stepped back is
  assumed.
* **Paper execution**: fills at once and in full; there is no second party.
* **Storage**: rows written after the fact. What a restart restores of a managed
  position is in `ManagedPosition`; the statements are not modelled.
* **Formatting and display**: notifications, logging, query routes, dashboard
  components.
* **Deployment and settings**: static values; those that matter are CONSTANTS.
