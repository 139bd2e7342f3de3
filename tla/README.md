# SkyTrade: a verification development

SkyTrade evaluates a swing-trading strategy on NSE equities and, where it is
switched on, trades real money through Zerodha Kite: delivery ("cash") shares,
and hedged futures baskets for the Daily Swing strategy. This directory holds
TLA+ models of that code, TLC configurations that check them on small
instances, and theorems that TLAPS checks for every instance.

Paths below are relative to `src/src/trading_scanner/`.

## The system and its parts

| Part | State it keeps | Operations | Interacts with |
|---|---|---|---|
| Live cash execution (`application/live_cash_execution.py`, `manual_exit.py`) | none of its own; local variables of asyncio call chains | `execute_cash_entry`, `execute_cash_exit`, `record_broker_side_exit`, `exit_position` | broker, order ledger, GTT brackets |
| Order ledger (`infrastructure/db/live_orders.py`, `domain/order_lifecycle.py`) | `live_order_legs`, append-only | `record_leg`, the unclosed/open queries (netting), `derive_position_lifecycle` | read by every entry, exit, dashboard |
| Broker reconciliation (`application/broker_reconciliation.py`) | none | `get_unclosed_entry_leg`, `occupied_cash_symbols`, `position_lifecycle`, `find_hidden_positions` | ledger and broker |
| GTT brackets (`application/gtt_bracket.py`, `infrastructure/db/gtt.py`) | `gtt_brackets`, rows updated in place | `place_bracket`, `check_and_extend`, `reconcile_before_exit` | broker |
| Signal pipeline (`application/pipeline/*`) | in-memory notes of a cycle, locks, pending delayed retries | evaluate all symbols, rank, allocate entries one at a time, process exits | everything above |
| Live ticker pipeline (`live_pipeline.py`, `infrastructure/kite_ticker.py`) | open candles, caches of open positions, a supervised set of tasks | tick drain, boundary, token refresh, heartbeat, watchdog, stop-loss check | signal pipeline, paper account |
| Evaluation catch-up (`application/pipeline/evaluation.py`, `db/engine_state.py`) | last evaluated bar and engine state per symbol | replay of missed bars up to a cap | candles, engine |
| Strategy engine (`alpha_engine.py`, `application/fast_predict.py`, `application/backtest.py`) | the neighbour queue and counters carried from bar to bar | classify a history, classify one more bar, replay a backtest | engine state, trades table |
| Daily Swing (`daily_swing_live.py`, `db/daily_swing.py`) | one active position (entering, open, closed), setups, bucket | setup, startup reconciliation, enter, trail, exit with retries, session restart | futures basket execution |
| Futures basket execution (`application/live_execution.py`) | none | hedge first, then futures; unwinding the other way round | ledger, broker |
| Paper account (`application/paper_trading.py`, `db/paper_account.py`) | cash balance, positions | open, close, stop-loss, peak price | live pipeline |
| Futures paper account, shadow trades | balance, combos, shadow legs | open, close | pipeline |
| Web application (`webapp.py`) | sessions in memory | manual exit, trigger a run, toggle, Kite login | all tables |
| Ranking scores, portfolio and derivatives replays, notifications, market data | files and analytics tables | numerics and I/O | - |

What is hard here: asyncio tasks interleave at every await; three processes
(live pipeline, web application, triggered run) share one remote database
without transactions or cross-process locks; the broker accepts, fills,
rejects and cancels on its own schedule and its replies may be lost; a
process may die between placing an order and writing its row; an access token
dies every morning; the same signal is computed by two engines that must
agree. The comments of the code record the incidents that came of it
(PERSISTENT.NS bought twice, UNIONBANK.NS sold without a trace, COCHINSHIP.NS
stuck open). The components and the hazards, each at its line, are listed in
`PROJECT.json`.

What makes each part correct:
- cash execution: a signal is bought at most once, a position is never stacked,
  `max_positions` bounds the real exposure, no placed order is forgotten, every
  chain ends;
- ledger: netting loses nothing, its readers agree, real positions stay visible;
- brackets: at most one live GTT per position, none survives an exit;
- Daily Swing: one position at most, ledger, row and memory agree with the
  account, a future is never opened bare, a stop never loosens, an exit once
  begun goes on until the future is closed;
- paper accounts: money is conserved, never overspent, stops are honoured;
- trades table: it scores what the Pine backtest scores on the same bars;
- catch-up: every stored bar is counted once and in order, or skipped loudly;
  only the freshest is acted on;
- supervision: ticks come back whatever the ticker did; a dead login is announced;
- engine: bar by bar and batch give the same events, however the state was kept.

## Modules

| Module | Models |
|---|---|
| `CashLedger` | the pure derivations over the rows of one symbol: netting, entry leg, lifecycle |
| `CashBroker` | Kite as seen through `infrastructure/kite.py`: order book, holdings, GTTs, and what happens to them without us |
| `CashTrading` | extends both: entries, exits, brackets, crashes, failing database calls, cutoff, new day; all properties of cash trading |
| `PositionBook` | the abstract promise: a set of symbols at risk that is entered one by one, below a limit |
| `BasketExecution` | extends `CashLedger`: a real hedged-futures basket, order by order, with its ledger rows and its unwinding |
| `DailySwing` | extends `BasketExecution`: the service that owns the position, its two concurrent call chains, sessions and restarts |
| `TickAggregator` | trading hours, candle buckets and the aggregator of one instrument |
| `BarReplay` | `evaluation.py`: which bars are replayed, what is carried and saved |
| `LivePipeline` | extends both: supervisor, ticker, watchdog, logins, bucket loop, evaluation, and a downloaded run in another process |
| `Strategy` | what the books see of the strategy: direction flips and kernel turns, and Pine's scoring of the same bars |
| `TradeTable` | extends `Strategy`: the `trades` table's operations |
| `TradeBooks` | extends `TradeTable`: paper account, futures paper account, shadow legs, the track record |
| `SignalCycle` | extends `TradeBooks`: ranked entries and `_process_symbol`'s branches against the tick task that closes on a stop |
| `DelayedRetry` | extends `Strategy`: the delayed re-entry of a real cash position |
| `AlphaEngine` | extends `Strategy`: the batch engine, a history at a time |
| `FastPredict` | extends `AlphaEngine`: the incremental engine, a bar at a time, and the bootstrap of its state |
| `EngineRuns` | extends `FastPredict` and `TradeTable`: runs that may come late, resume, catch up, and backfill |
| `MC*` | instances for TLC; `MCCashLedger` also builds every small ledger and states the reference definitions |
| `SumFacts`, `LedgerFacts` | lemmas: induction over finite sets and numbers, sums over finite sets, and the netting of a ledger in closed form |
| `CashTradingProofs` | theorems about `CashTrading` |
| `CashLedgerProofs` | theorems about the ledgers of `MCCashLedger`, of any length |
| `DailySwingProofs`, `LivePipelineProofs`, `SignalCycleProofs`, `EngineRunsProofs` | theorems about the module each is named after |

Operators commented `Mutant:` are plausible mistakes in the definition that
follows them; nothing uses them, they document what each property would notice
(`PROJECT.json`, "mutants").

### How `CashTrading` corresponds to the code

A task is a pair of a process and a symbol. Processes are `Pipelines` (which
evaluate signals) and `Dashboards` (concurrent manual-exit requests). A task's
`pc` is the await it stands before, its `job` the local variables that survive
it. One action is the code from one await to the next.

| Code | Actions (in order) |
|---|---|
| `execute_cash_entry` | `StartEntry`, `CheckOpen` (gate, cutoff, already open), `CheckCapacity` (`occupied_cash_symbols`), `CheckIntent` |
| `_broker_ground_truth_preflight` | `NoTaggedOrder` or `TaggedOrderFound`; `NoHiddenPosition` or `HiddenPositionFound` |
| `_place_and_wait`, `_record` | `PlaceAccepted`, `PlaceRefused`, `PlaceReplyLost`; `WaitReturns`, `WaitRaises`; `Record`; `Recheck` before a retry |
| `_finalize_cash_entry`, `place_bracket` | `Finalize`, `GttAccepted` or `GttRefused`, `RecordBracket` |
| `exit_position`, SELL branch | `StartExit`, `Lookup`, then `Verify`, `GetBracket`, `GttStatus`, `CancelGtt`, `UpdateBracket` (`reconcile_before_exit`), then `Reconcile` (`record_broker_side_exit`) or `Square` (`execute_cash_exit`) followed by place, wait and record |
| process death, database exception | `Crash`, `DatabaseFails`: an exception of the remote database ends the chain of one symbol and is logged by its callers |
| Kite by itself | `Fill`, `Reject`, `Cancel`, `GttFires`, `BookRollsOver` |

Abstractions. Prices, wording and notifications are left out. An intent and its
order tag are the signal's bar. `None` is the tag of an exit. A row's `seen` is
how many orders the broker had accepted when it was written; it stands for the
comparison of `placed_at` with `exchange_timestamp`. The three reads inside
`occupied_cash_symbols` are one step. The closing side is `SELL` because the first
row of a symbol is always a buy, which `TypeOK` states and `TypeCorrect` proves.
Entries of one pipeline are serialised until the order is recorded
(`EntryUnderway`): the ranked path is sequential, the unranked path holds
`live_cash_lock`; finalisation may overlap with the next entry. Exits of
different symbols run concurrently. `gated` is the toggle and allowlist as one
input per entry.

Environment switches are constants, so that each run says what it assumes:
`LostReplies` (place_order may raise after acceptance), `BestEffortFailures`
(reads that the code lets fail open do fail), `LateSettlement` (orders may still
be pending when the next cycle starts), `PartialCancels`, `PendingStatuses`
(what Kite may call a non-terminal order), `HasCutoff`.

### How `BasketExecution` and `DailySwing` correspond to the code

Two actors work on the one position: `roll` is the chain that closes a 30-minute
bucket (under `bucket_lock`), `tick` the chain a price starts. Each has a `pc`
(the await it stands before) and a `job` (its local variables).

| Code | Actions |
|---|---|
| `_place_and_wait`, `_record` (`live_execution.py`) | `PlaceAccepted`, `PlaceRaises`; `Filled`, `TimesOut` (cancel and ask once more); `Record`, which goes on as `FollowUp` says |
| `execute_basket_entry` | `EnterBasket`, `RefuseBasket`; hedge, future, and on failure `unwindHedge`, `unwindFuture`, `dropHedge` |
| `execute_basket_exit` | `CloseFuture`, `NothingToClose`, `CloseHedge` |
| `process_bucket`, `update_position_on_close`, `try_enter` | `CloseBucket` (rebuilds the context on a new day), `Trail`, `Choose`, `BrokerCheck`, `Attempt`, `CreateEntering`, `Settle`, `Activate`, `Finish` |
| `exit_active` under `exit_lock` | `TickExit`, `TakeExitLock`, `ExitIncomplete` (the retry, `RetryDue`), `CloseRow`, `ClearActive` |
| `setup`, `run` | `Setup` (reads the active row, reconciles an entering one), `Begin` (a session; builds the context), `SessionCut`, `Crash`, `NewDay` |
| Kite by itself | `Trade` (in full, or in part where `PartialStages` allows), `Reject` |

Abstractions. A setup is what the strategy saw on a day: symbol, day, side and
the contract an entry would trade; how a sweep is recognised in the candles is
input. Prices are closes relative to the entry (`Levels`); the trailing stop is
`max` of the initial one and the best close minus `TrailGap`. `lost` remembers
the orders whose actor ended before their row was written or before their
unwinding was placed; properties that compare ledger and account say what they
say of the contracts that have none. `Lot` is the quantity of a basket; two is
the smallest that fills in part.

### How `TickAggregator`, `BarReplay` and `LivePipeline` correspond to the code

Time is counted in bucket hours, a day being `BarsPerDay` open ones and a shut
one. A candle is the set of hours its ticks came from, a bar its hour, the
neighbour queue the sequence of bars that went into it.

| Code | Actions |
|---|---|
| `run_forever` | `Restart`, `TokenRejected`, `StartSession`, `ExecutorExhausted`; `EndSession` inside `MarketClosed`, `Watchdog`, `SessionCrashes` |
| the ticker and its loops | `Connects`, `TickerDies`, `Silence` (the staleness the watchdog sees), `HotSwap` (`_watch_token_refresh`), `Tick` |
| `_boundary_loop` | `StartBucket`, `QuietBucket`, `CloseBucket` |
| `evaluate`, `_replay`, `_process_symbol`'s start | `Store`, `Plan`, `Replay` (one bar, saved), `SymbolFails`, `Act`, `EndLiveRun`; with `BarReplay`'s operators |
| the triggered run (`main.py`, `pipeline/orchestrator.py`) | `StartManualRun`, `ManualRunRefused`, `EndManualRun`, `ManualRunDies` |
| `kite_callback`, the token's expiry | `Login`, `TokenReset` |
| the process and what watches it | `ProcessDies`, `KillHungProcess` |

Each ended session leaves a drain thread of the default executor waiting for a
tick that will not come (`leaked`); with none of `Workers` left, the next
`asyncio.to_thread` never starts and the phase is "hung".

### How the books and `SignalCycle` correspond to the code

| Code | Actions and operators |
|---|---|
| `open_trade`, `close_open_trade`, `abandon_open_trade` (`db/trades.py`) | `OpenTrade`, `CloseOpenTrade`, `AbandonOpenTrade` |
| `paper_trading.py`, `db/paper_account.py` | `Affordable`, `OpenPosition`, `ClosePosition`, `UpdatePeakPrice`, `StopBreached` and the trailing stop |
| futures paper account, shadow legs | `ComboAllowed`, `OpenLeg` and the close operators |
| ranked entries (`capital_allocation.py`) | `RankPaper`, `RankFutures` |
| `_process_symbol` (`orchestrator.py`) | `RecordBuy`, `EndLong`, `PaperExit`, `PaperWrite`, `CloseLong`, `RecordSell`, `EndShort`; `CycleFails` |
| `_check_stop_loss`, `_force_close`, `_refresh_positions` (`live_pipeline.py`) | `Tick`, `TickExit`, `TickWrite`; `RefreshRead`, `RefreshAssign`; `SessionRestarts` |
| the delayed retry (`capital_allocation.py`) | `DelayedRetry`: `RankCash`, `CashExit`, `BracketFills` |

`EvaluateBar` takes any direction and any kernel slope: what the books must
survive is every sequence of events the strategy can give, and `Strategy` says
which those are. `lock` is `paper_account_lock`, held from the read of the
position to the write. The other symbols appear only as what they take from the
account and give back; the futures combo is priced at the bar's price on both
legs. A failing best-effort call is a choice that counts as a fault.

### How the engine modules correspond to the code

A bar carries what the indicators make of it: its place in feature space,
whether the volatility and regime filters pass, the kernel's slope. On that,
`AlphaEngine` computes labels, the neighbour scan with its stride and its
eviction at the three-quarter distance, the signal that holds until it is
overruled, entries, strict and dynamic exits (`HistoricalEvents`), as
`_predict`, `_calculate_entries` and `compute_historical_events` do.
`FastPredict` computes one bar from the kept state (`EvaluateLatestBar`) or
rebuilds the state (`Bootstrap`); `EngineRuns` closes candles, evaluates them in
runs that may be late (`Evaluate`), writes the events to `trades` and may rebuild
that table (`Backfill`). The settings are production's: `include_full_history`,
`use_dynamic_exits`, no EMA, SMA or ADX filter, no kernel smoothing. The
validation runner's default settings use the strict exits. The second
disjunct of the strict exits asks for a signal that changes on a bar that it has
been held for: no bar is both, so it never holds; it is modelled as written.

## Runs

| Run | Asks | Result |
|---|---|---|
| `cash_core` | one symbol, two signals, rejections and retries, bracket, one crash or failed database call anywhere, one new day | holds, 2.6 million states |
| `cash_storm` | lost replies, failing reads, unlisted states, partial fills cancelled, late settlement, cutoff, new day; under fairness | holds, 294 thousand states |
| `cash_capacity` | two symbols, one slot, exits and triggers that free it | holds, 535 thousand states |
| `ledger` | all ledgers of up to four rows with quantities 1 and 2 | holds, 84 thousand states |
| `daily_swing` | three setups on two days, two stocks, partial fills, one rejection, timeout, cut session or crash anywhere; under fairness | holds, 560 thousand states |
| `live_pipeline` | seven hours, two logins, one fault anywhere, a downloaded run beside the live one; under fairness | holds |
| `signal_cycle` | three bars of any strategy outcome, ticks and cache refreshes in between, one failing call or restart; under fairness | holds, 519 thousand states |
| `engine` | every history of six bars over the given shapes, each evaluated in time or late, and the backfill | holds, 239 thousand states |
| `cash_lost_reply` | may a retry double an order whose reply was lost? | violated: two accepted orders |
| `cash_second_bracket` | is there only one live bracket? | violated: a refused repeat signal places another |
| `cash_unfilled_exit` | does a real position always stay on record? | violated: exit before the fill |
| `retry_after_exit` | is a delayed retry made only while the strategy has not left since? | violated: an exit on a bar in between is not remembered |

The last four are disagreements between the code and its own comments and
documents; they are quoted under "findings" in `PROJECT.json`. The remaining
hazards without a property carry a note there. `DelayedRetry` is checked by its
violation alone: what else could be said of it repeats its guards.

### Properties

Each module has one type invariant, `TypeOK`. In `CashTrading` it includes that
the first row of a symbol is a buy, in `SignalCycle` that the paper account is
never overspent.

- `NoStacking`: shares held plus shares still on order never exceed one entry.
- `RealPositionsOnRecord`: shares are never held without an unclosed row, once
  nobody is at work on the symbol and no order of it was lost to a failure.
- `NoOrderForgotten`: every order we placed is on the ledger with its side and
  quantity, or about to be, or its task died or never learned of it.
- `CapacityRespected`, `FollowsBook`: the position limit, as an invariant and as
  a refinement of `PositionBook`. `FollowsBook` sees positions as a set, so a
  second buy of an exposed symbol is a stutter; `NoStacking` covers that one.
- `TasksEnd`: every entry and exit ends.
- `NothingLostInNetting`, `FirstInFirstOut`, `NewBuyVisible`, `LifecycleAgrees`:
  the netting loop against its meaning, and the two readings of the same rows.
- `OneLiveBracket`: what the bracket table's comment promises.
- `FuturesOnLedger`, `FuturesWatched`: the ledger's net future is the account's,
  and in a session the position in memory is the one the account has.
- `OneActiveRow`: `setup`'s own assertion.
- `EntersOnTodaysSetup`: no entry on a setup of an earlier day.
- `ProtectedBeforeOpened`: no future without the whole option first.
- `StopNeverLoosens`, `ExitsCloseFuture`: the trailing stop; an exit once begun.
- `EachBarCountedOnce`, `NoStoredBarJumped`, `ActsOnFreshest`, `BarsStartAfresh`:
  the bars that reach the engine, the table and the market.
- `TickerRecovers`, `DeadTokenAnnounced`: what the watchdog and the supervisor
  are there for.
- `MoneyConserved`, `ScoredAsPine`, `CombosFollowStrategy`, `LegsBalance`: the
  books against each other and against Pine's backtest of the same bars.
- `StopsHonoured`, `CycleEnds`: the tick task and the scan cycle get on although
  they share a lock and one works from a cache.
- `RetryWhileThesisLives`: what ADR 011 promises of the delayed retry.
- `LiveAsBacktest`, `NeverRepaints`, `SavedIsBootstrap`: incremental and batch
  engine, live and validation history, saved and rebuilt state agree.
- `TradesRegenerated`: once the backfill has rebuilt the trades table, the live runs
  close the trades that Pine's replay of the longer history scores, and the trade it
  has open is the newest open row, with no other side open. It does not say that the
  rows are the ones a backfill would write: an entry abandons the other side's open
  trade only, so after two entries on one side with no exit in between (TLC finds
  that with eight bars, two more than the run has) the older row stays open until
  an entry on the other side abandons it, whereas the backfill stores one open trade
  and leaves it out. `backtest.py:6` ("open trades from live hourly runs are
  naturally regenerated") does not mention it; the track record counts closed
  trades, which do agree.
- `ImplementsStrategy`: every step of the incremental engine is a step of
  `Strategy`, so what `signal_cycle` shows for any sequence of its events holds
  for the engine's. It starts once there is a signal and the kernel has turned
  each way: before that, the counters are `None` and comparisons with them false.

### Bounds

`CashTrading`: `MaxOrders` and `MaxLegs` stop new tasks, `MaxGtts` new entries,
never a task underway; `MaxFailures` counts crashes and failed database calls,
`MaxDays` the days that end. Three orders allow buy, sell and a stacked or
retried buy; four rows allow a rejected attempt, its retry, an exit and another
entry; two attempts stand for ten, since attempts differ only in their number.
In `cash_core`, `MaxPositions` is two with one symbol, so that the capacity
check does not hide what the preflight has to catch. The quantities 1 and 2 in
`ledger` are enough for partial, exact and surplus cover. Bars are symmetric.

`DailySwing`: one fault (`MaxFaults`), which may strike any step of any of up to
three baskets; a lot of two, so that hedge and future can fill in part; a rising
close that moves the stop (9 - 3 > -4) and one that does not; two days, so
that a context can be stale and a contract left from the day before. Nothing
is bounded but days and faults: a setup is attempted once.

`LivePipeline`: hours 0 to 6 are two days of two bars and an open hour of a
third, in which the clock stops (`MCLivePipeline` asserts that it is open), so
that what must still happen there has to; warm-up and catch-up cap are two, so
that a gap can be inside and beyond the cap; the default executor has three
threads. One symbol: symbols are evaluated independently of each other.

`SignalCycle`: three bars are an entry, its opposite and a return; the seed
of the track record lets a side become eligible and cease to be; with a capital of
seven and two prices, a slot may be affordable or not and a stop may be hit from
either. One fault.

`Engine`: six bars with a label span and a hold span of two (four in the code), a
queue of two votes (eight), every fourth bar left out (as in the code) and a
warm-up, so that a queue fills, evicts at its threshold and is resumed from the
table with up to two bars of backlog.

Switches, each set for a reason:

| Constant | Value | Why |
|---|---|---|
| `CutEntries` | FALSE | a session that ends while an entry is underway leaves a row and an account no later step repairs: set TRUE, TLC finds two active rows (the hazard at `daily_swing_live.py:682`) |
| `PartialStages` | hedge and future | closes that fill in part let the retry oversell (`live_orders.py:248`): with `"closeFuture"` among them TLC finds `FuturesOnLedger`, `FuturesWatched` and `ProtectedBeforeOpened` violated |
| `Setups` | a contract each | a contract traded long, then short, is misread by the netting: with SBIN bought on day 1 and sold on day 2 in one contract the same three are violated, the first two without any fault |
| `FormingBars` | FALSE | a download that ends in a forming bar stores a candle a later one overwrites: then a bar is counted before it is final |
| `ExternalWatchdog` | TRUE | the cron job that `live_pipeline.py:731` describes; without it a process without executor threads never comes back |
| `DelayedRetryEnabled` | TRUE | the dashboard's toggle |
| `BackfillAlongside` | FALSE | a backfill while a candle waits for its run writes the candle's trade, and the run writes it again |

`CHECK_DEADLOCK FALSE`: within the bounds every system stops when no signal,
fill, bar or failure is left.

### Fairness

`CashTrading` asks of every task that it continues when it can (`Resumes`): the
event loop runs ready chains, and Kite calls run in threads that return.
Nothing relies on a failure: exceptions, refusals, and the broker's own steps
are not fair, so `TasksEnd` rests on the timeout of `wait_for_fill` and the
limit on attempts alone.

`DailySwing`: the service loop starts and starts again (the service manager
restarts it), ticks keep coming, the event loop resumes both actors, and a
market order trades in the end. A price need not ever breach a stop, so a tick
must lead to an exit only when one is pending; faults are not fair.

`LivePipeline`: the supervisor's loops, the bucket loop and the evaluation go on
(weak fairness), the service manager and the cron job restart a process, and of
the connections Kite accepts one comes up in the end (strong fairness of
`Connects`, since each session starts a new attempt). Neither ticks nor logins
nor the clock are fair: a login is a person's act.

`SignalCycle`: a task that can go on does, ticks keep coming at the price the
symbol trades at, the cache is refreshed. Both tasks want
`paper_account_lock`, an `asyncio.Lock`, which serves waiters in their order:
strong fairness of taking it.

## What is proved

TLAPS checks every theorem for all values of the constants that satisfy the
modules' assumptions: any number of symbols, orders, rows, bars, faults. Where a
theorem needs more, its hypotheses say so and the table repeats them.

| Module | Theorem | States | Needs |
|---|---|---|---|
| `CashTradingProofs` | `TypeCorrect` | `TypeOK` | - |
| | `NothingForgotten` | `NoOrderForgotten` | - |
| | `CapacityHolds` | `CapacityRespected` | `OnePipeline`, `~BestEffortFailures` |
| | `ImplementsPositionBook` | `FollowsBook` | the same |
| | `NothingStacked` | `NoStacking` | the same, and `~PartialCancels`, `~LostReplies`, `~LateSettlement` |
| | `RealPositionsRecorded` | `RealPositionsOnRecord` | all of these, and no dashboard, and `PendingStatuses` within `UnclosedStatuses` |
| `CashLedgerProofs` | `FifoHolds`, `NettingConserves`, `LifecycleHolds`, `NewBuyIsVisible` | `FirstInFirstOut`, `NothingLostInNetting`, `LifecycleAgrees`, `NewBuyVisible` | - |
| `DailySwingProofs` | `OneActiveRowHolds`, `StopsHold` | `OneActiveRow`, `StopNeverLoosens` | `~CutEntries` |
| | `TypesHold`, `TodaysSetupEntered` | `TypeOK`, `EntersOnTodaysSetup` | - |
| | `ProtectionFirst` | `ProtectedBeforeOpened` | `OneDirection`, and closes that fill whole or not at all (`"closeFuture" \notin PartialStages`) |
| | `LedgerKnowsFutures` | `FuturesOnLedger` | the same, and `Exact` |
| | `FuturesAreWatched` | `FuturesWatched` | all of these, and `~CutEntries` |
| `LivePipelineProofs` | `TypesHold`, `BarsCountedOnce`, `CandlesStartAfresh`, `FreshestActedOn`, `NoBarJumped` | `TypeOK`, `EachBarCountedOnce`, `BarsStartAfresh`, `ActsOnFreshest`, `NoStoredBarJumped` | - |
| `SignalCycleProofs` | `TypesHold`, `MoneyHolds`, `ScoresMatchPine`, `CombosFollow`, `LegsPair` | `TypeOK`, `MoneyConserved`, `ScoredAsPine`, `CombosFollowStrategy`, `LegsBalance` | - |
| `EngineRunsProofs` | `TypesHold`, `SavedStateIsBootstrap`, `LiveIsBacktest`, `NothingRepaints`, `EngineIsStrategy` | `TypeOK`, `SavedIsBootstrap`, `LiveAsBacktest`, `NeverRepaints`, `ImplementsStrategy` | - |
| | `BacktestRebuilds` | `TradesRegenerated` | `~BackfillAlongside` |

### The arguments

Each proof has an inductive invariant, which TLC checked on the module's run
before it was proved, and one lemma per action or group of actions that changes
the same variables.

*Cash trading.* `TypeOK` is not inductive: that the row written by `Record` is
well-formed, or that the order being waited for exists, depends on how the task
got there. `JobsOK` adds, for each task, what its `pc` implies about its `job`
and about the ledger of its symbol (`Consistent`); in particular a task about to
write a SELL knows that its symbol already has a row. `RecordInv` ties each
unrecorded order to the one task that waits for it (`OwnOrder`), which gives
`NothingForgotten` with every switch on. `CapacityInv` says that from the capacity
check until its order is recorded at most one task per pipeline is "cleared", and
that the exposure together with what cleared tasks may add stays within the
limit; otherwise the exposure only shrinks, because only placing adds a symbol.
Lost replies, late fills, crashes and dashboard exits are allowed. `StackInv` says
that at most one buy of a symbol is pending, that it buys one entry's quantity,
and that an entry which goes on to buy has nothing held and nothing pending
(`EntryFits`). `PositionInv` relates that to the netted ledger: what is held, less
what an exit underway is known to have sold, is covered by unclosed rows, unless
an order of the symbol was lost (`Covered`, `ExitFits`).

The hypotheses are not for convenience. Two pipelines can both pass the capacity
check; a failing read lets an exposed symbol through. A lost reply makes a retry
stack (`cash_lost_reply`), and so does a buy that was cancelled after part of it
filled. With late settlement a buy may fill after its cycle. An exit from the
dashboard can see no holding while the buy is on its way and close the ledger
(`cash_unfilled_exit`), and a row in a state that is not listed as unclosed is on
no query's result.

*Ledger.* `OpenQuantity` is a recursive function over the rows. `NettingIs` brings
it into closed form: an opener is open when more was opened up to and including
it than was closed, and in the quantity beyond. The three readings of the rows
follow from that, for any rows with positive quantities.

*Daily Swing.* `SwingType` ties each actor's `pc` to its `job`. `DayInv`: outside a
session both actors are idle, and what `roll` is about to enter is of today.
`RowInv`: there is at most one active row, and it is the one in memory or the one
`roll` is entering (`RowInMind`); exits and trails underway are about the active
position (`ExitsActive`, `TrailsActive`); memory's status and stop agree with the
row (`MemoryAgrees`). A session cut in the middle of an entry breaks
`RowInMind`: hence `~CutEntries`.

The theorems about the account need more than the rows. `SwingInv` says without
any hypothesis that at most one actor is in an entry or an exit at a time (`Solo`),
what an order is and how the job that placed it, waits for it or records it
compares with it (`BasketType`). From there `BooksInv` follows a future from the
broker to the ledger. `Position` is what the account holds of it, in the direction
it is traded in, `Balance` what its COMPLETE rows leave open. While an actor is at
an order of the contract, `Ordered` says what is held once that order has filled as
much as it has: no future without the whole hedge, for instance, or no more
than the balance while a close is underway. When nobody is, the contract is
`Settled`: what is held covers the balance. Before an entry and during it
nothing is open and nothing held (`Flat`). Each step of the broker moves
`Position` and the fill awaited together (`BrokerBooks`); a recorded order moves the
balance to where the position already is (`RecordMeans`). `Awaits` makes that
work: an order that can still trade is one an actor waits for, unless it was lost.
`Covers` has an equation in it where the hypotheses allow one (`Exact`), and for it
`Sure` keeps track of the faults: after the one that left a future half filled,
none is left to make its unwinding fail. On top of that, `Watched` says that a
future open on the ledger has an active row (`FutureHasRow`; no step gives up such
a row, `RowStaysActive`), and that memory never takes it for an entry once a session
runs (`NothingFilled`); `RowInMind` then makes it the position in memory.

Each hypothesis marks a weakness of the code, and without it TLC finds the
property violated, with one fault or none unless two are named. `OneDirection`:
all setups on a contract trade it the same way. If one was bought and is later
sold short, the netting reads the short as closing the old long; the row is
rejected and the position stays, unwatched. It also reads the unwinding of a
short that filled in part as a new long, whose exit then opens a position without
protection. A close that fills in part nets nothing, and the retry sells the whole
lot again, past zero. `Exact`: either a future fills whole or not at all, or there
is one fault at most and every setup has its own contract (`OwnContracts`). What a
future filled before it was cancelled is on no COMPLETE row, but its unwinding is:
the next entry in that contract counts for less than it holds. And with two faults
the unwinding can be refused: what filled is held, on no row that counts, and only
an alert tells. `ProtectedBeforeOpened` survives both. `~CutEntries`: a future
whose session is cut once it is recorded is in nobody's memory. The run `daily_swing`
satisfies all four.

*Live pipeline.* `PipelineInv` says of each symbol that the saved queue is sorted
and ends in the last evaluated bar, that the bars still to be replayed are the
stored ones after it, in order, and that nothing later was acted on.
`BarReplay.InOrder` puts the stored bars in order by their rank.

*Scan cycle.* `AccountInv` has the tables' types, who holds the account's lock
and what its holder read (`LockOK`: the row a holder is about to close is still
open), and both balances as sums over the rows (`Balanced`). `CycleInv` adds what
the phase implies: `StrategyOK` (which sides are live before and after each
branch), `PineOK` (where Pine's replay stands between two bars), `TradesOK` (the
table's open trade and closed trades against it), `CombosOK` and `LegsOK` (which
side's combos and legs are open, or due to be closed or opened by the branches
still to come). The money theorem holds with faults; the other three say what
they say while nothing has failed.

*Engine.* Both engines are recursive functions over the bars, with the scan of the
neighbours inside. `ScannedSame` and `StepSame` say that a bar is evaluated alike
on two histories that agree up to it. `StateAt(h, b)`, the state a bootstrap ends
in at bar `b`, is then the one at `b - 1` with one bar evaluated (`StateSteps`), in
any history that continues `h`: that is what makes `RunsInv` inductive. It says
that each result is the `Outcome` of its bar from there, and that the saved state is
`StateAt` its bar, as long as `MaxBarsBack` covers the bar. For the batch engine,
`ClassifiedAt` shows that its pass has the same queue and signal at every bar.
What is left are the counters: the batch engine looks back for the newest
entry, the incremental one counts (`SinceSteps`, `StateRemembers`), and the window
of the last three flips is the batch engine's look at three bars (`EarlyIs`), where
it matters that no signal changes before there are labels (`FlipsLate`).
`NothingRepaints` compares two passes of the batch engine, over a history and over
its prefix, in the same terms (`PrefixKnows`, `StrictSame`). `EngineIsStrategy`
holds beyond `MaxBarsBack` too: `EngineInv` needs only the types of signal and
counters and that the kernel has a rate after the first bar; `LiveSteps` is the
arithmetic of a live entry.

For `BacktestRebuilds`, `Agrees` relates the trades table to a state of Pine's
replay: the closed rows are the trades scored, and if Pine is in the market its
trade is the newest open row of its side and no row of the other side is open. The
backfill's table agrees with the end of the replay it was made from (`StoredAgree`).
One bar keeps it so (`BarAgrees`) provided that an exit only comes when Pine is on
its side (`ExitsFit`): if not, the table would close a trade Pine has dropped. That
is a fact about the engine: an exit needs an entry since the kernel last turned
against it (`ExitHeld`), and from that entry on the kernel has moved its way, so
that no entry or exit of the other side came in between (`SidesHeld`). Later
candles change no event (`PrefixEvents`), so the replay of a longer history is that
of the shorter one and one more bar (`ReplayGrows`). A run with more than one new
bar acts on the newest only and loses the others' events; `drifted` marks that, and
so does a run that dies before it writes. If the backfill runs while a candle waits
for its run, that bar's event is counted twice: hence `~BackfillAlongside`.

*Induction.* The library's induction rules take an operator as parameter and cannot
be used here. `SumFacts` states induction with a set as parameter instead
(`SubsetInduction`, `NumberInduction`): the proof names the set of cases that are
good and shows that it contains all. With it the existence and the uniqueness of
each recursive function are proved, for sums (`SumsUpExists`, `SumsUpUnique`), for
the netting (`LeftIs`) and for Pine's replay (`ReplayExists`, `ReplayUnique`), and
from then on it is known by its equation.

Four assumptions on constants exist for the proofs and say what the code has:
`CycleAssumption` (the marker of a tick that is not reading, and "no position", are
neither numbers nor a cached position), `NoneAssumption`, that "no state" is not a
state (`RunsAssumption`), and that a label spans at
least two bars (`EngineAssumption`; four in the code): with one, the signal could
change on bar 1 and again on bar 2, which the incremental engine's window calls an
early flip and the batch engine, which looks for none before bar 3, does not.

### Only model-checked

- Liveness, which TLAPS does not reach: `TasksEnd`, `ExitsCloseFuture`,
  `TickerRecovers`, `DeadTokenAnnounced`, `StopsHonoured`, `CycleEnds`.

## What the agreement of the engines does not say

The incremental engine forgets nothing, while the batch engine sees
`max_bars_back` bars before the newest and starts its neighbour scan there. The
properties compare them for histories up to `MaxBarsBack + 1` bars, where both
see the same; beyond that they may differ, and the comment in
`fast_predict.py:33` makes no such reservation. The smallest history an
evaluation and a backtest accept is the same number in the code (200 bars);
the run sets them apart (4 and 5) so that neither is taken for the other.

## Not modelled

- Moving a live bracket (`check_and_extend`) and the hazards that go with it.
- The score by which several candidates are ranked: it is numerics over six
  factors; one candidate at a time is modelled.
- Indicators, kernel and filters (RSI, WaveTrend, CCI, ADX, rational quadratic
  kernel, EMA and SMA filters, kernel smoothing): floating-point numerics; their
  results are inputs.
- How a Daily Swing sweep is recognised, and the backfill of its history.
- Gate status rows, fingerprints, entry audit rows other than those the delayed
  retry reads, Greeks, costs and benchmarks: written for display, decided by
  nowhere.
- The heartbeat message and the sweep for hidden positions: they report.
- Portfolio, derivatives and stop-loss replays, tools: offline, one thread, no
  state kept.
- The web application's pages and authentication; Telegram, Yahoo, instrument
  files: I/O.
- Two pipelines at once on the same account: the hypotheses of `CapacityHolds`
  name it, and its hazard (`webapp.py:1467`) is not covered.

## Plan

1. `GttBrackets`: `check_and_extend`, the orphaned, failed and doubled bracket;
   no sell exceeds the holding; exits racing exits.
2. Ranked candidates of several symbols, and two pipelines.
3. Daily Swing's backfill; the exit that finds no open leg.
