# tick-liq: TLA+ models, model checking and proofs

tick-liq watches one concentrated-liquidity position on Solana, computes its P&L
tick by tick, stops rebalancing when risk limits are broken, asks an operator on
Telegram before it acts, and keeps what must outlive the process in PostgreSQL.
Beside the watch command, a backfill stores historical candles in the same tables,
and a backtest and a research sweep replay them. This directory holds its
specifications. Paths below are relative to the repository (`src/src/main.rs` is
written `main.rs`).

## 1. The system

### Components, their state and their operations

| component | state it keeps | operations | modelled |
|---|---|---|---|
| risk monitor (`strategy/risk_monitor.rs`) | `RiskState`: peak P&L, drawdown, `pause_flag` (IL), `halt_flag`, `operator_pause` | `evaluate`, `load_or_init`, `reset_session`, `persist_state`, Drift margin fetch | `RiskMonitor`, `DriftMargin`, `RiskSession`, `WatchLoop` |
| watch loop (`main.rs` 820-1750) | the processor's place in a tick, the risk mutex, debounce, CEX fallback, fee baseline, last known position | startup, refresh, fees, rows, risk gate, persist, pause gate, approval gate, submit, shutdown | `WatchLoop` (from the risk gate on), `WatchLedger` (what a tick computes and writes), `StatusView` (the P&L row), `PriceFeeds` (its price and gauges) |
| approval gate (`bot/proposal.rs`, `bot/mod.rs`) | one slot with a pending proposal, one oneshot channel per proposal, id counter | `send_proposal`, `await_approval`, `clear_pending` | `Approval`, `ApprovalGate` |
| bot commands (`bot/commands.rs`, `bot/queries.rs`) | none of its own: shares slot, risk mutex and row | `/approve`, `/pause`, `/resume`, `/status`, `/report` | `/approve`, `/pause`, `/resume` where they change state, `/status` with `check_auth` in `StatusView` |
| shadow guard (`execution/shadow_guard.rs`) | the live/shadow mode | `submit` | `WatchLoop!Submit` |
| signal and plan (`strategy/signal.rs`, `execution/rebalance.rs`) | none (pure) | `should_rebalance`, `build_rebalance_plan` | `RangePlan`, used by `WatchLedger` and `Replay` |
| account WebSocket (`data/ws.rs`) | session, pong deadline, backoff | connect, subscribe, notify, ping/pong, reconnect | `WsSession` |
| tick queue and shutdown (`main.rs` 1040-1058, 1676-1722) | bounded channel, tick in hand | `try_send`, `recv`, bounded wait at the end | `TickQueue` |
| CEX feeds (`data/cex_ws.rs`, `coinbase_ws.rs`, `mod.rs`) | the shared price with its time, backoff | connect, accept messages, staleness watchdog, reconnect, shutdown | `PriceFeeds` |
| storage (`storage/`) | `pool_ticks`, `pnl_history`, `shadow_rebalances` | single and batch inserts, `check_shadow_gate`, tick reader | `WatchLedger`, `CandleHistory`, `StatusView` |
| fees (`math/fees.rs`) | none (pure) | `compute_accrued_fees` | `FeeMath` |
| RPC (`rpc.rs`) | retry attempt | `fetch` with retries, owner check | the retries in `WatchLedger` |
| candles (`data/geckoterminal.rs`) | page cursor | `fetch_range`, `fetch_ohlcv` | `CandleHistory` |
| backtest and replay (`backtest/`), research (`research.rs`) | the simulated position, fees, locked-in loss, the rows of the report | synthesis, replay row by row, simulation day by day | `CandleHistory`, `Replay`, `BacktestHistory` |
| session cache, parsers, analytics, display | files, bytes, formulas | I/O, decoding, floating point, output | no, see section 6 |

### How they interact

* The WebSocket task hands notifications to the tick processor through a bounded
  queue; the processor handles one tick to its end before it takes the next
  (`main.rs` 1661-1690).
* Processor and bot share two mutexes: the risk monitor and the slot of the
  pending proposal. Neither lock is held across an await, so every await and every
  lock section is a place where the other task may run.
* Processor and bot write the same `risk_state` row, the processor with a full-row
  upsert of a copy of the memory, the bot with an `UPDATE` of one column. The
  operator's SQL is a third writer.
* A proposal's oneshot channel goes from the handler of `/approve` to the tick that
  waits. The Telegram chat outlives the process, so a command may answer a message
  of an earlier run.
* Two feed tasks write a shared price each, never clear it, and the processor reads
  it by its age, falling back to the pool's own price.
* A tick reads the position by RPC and the pool from the notification: two
  moments of one chain. What it writes is read by `/status`, by the gate of `--live`
  at a later start, and by a replay; writes may fail and are only logged.
* The backfill and research commands fetch candles page by page while new ones
  appear, and store rows beside those of watch; a backtest reads the table once.

### What is hard, and what makes each component correct

* **Halt as a kill-switch.** Detected in memory, stored by a write that may fail,
  reloaded by a start that also resets the session's peak. Correct when no tick of
  a halted monitor proposes or submits, and only the operator clears a stored halt.
* **Two pauses.** The IL pause belongs to `evaluate`, the operator pause to the bot.
  Correct when neither lets a tick through and neither loses the other's write.
* **The debounce.** A row is written only when four fields changed between two lock
  sections of a tick. Correct when, between ticks, the row is never silently behind.
* **Approval.** Timeout against answer, failed send against shown message, late
  commands against newer proposals, restarts against old messages. Correct when an
  approval authorises the proposal it was typed for and no other, once; when the
  reply tells the truth; and when the processor always gets back to its ticks.
* **The tick pipeline.** Pong watchdog, ping interval, frames and Ctrl+C race in one
  loop; a full queue refuses updates; the processor may wait minutes for an operator
  when the process is told to end. Correct when a silent connection is found in
  bounded time and an answered one is never dropped, when updates are processed in
  the order of the chain and none is lost without a trace, and when Ctrl+C ends the
  process.
* **The price feeds.** Connections that refuse, drop, go dead, or keep talking
  without a price. Correct when silence is bounded, attempts are paced, a good line
  is used again, and nothing shown as up stands beside an old price.
* **The ledger.** Fee growth that wraps, a position refreshed late or not at all, an
  owner who collects and resizes, writes that fail, `--live` at a later start.
  Correct when the fees of a session are the earned ones, never fall by themselves,
  and what is stored reads back in order.
* **Stored history.** Correct when a window of candles has no hole, every candle is
  paid once, and the day rows of a report add up to it.

`PROJECT.json` lists each hazard at its line with the properties that cover it, or
why none does.

## 2. Modules and the code

| module | models | how state and actions correspond |
|---|---|---|
| `RiskMonitor` | `risk_monitor.rs` as operators | `Evaluate` and its stages follow the numbered comments of `evaluate`; `LoadOrInit`, `ResetSession` are the start; `Durable` is the tuple of the debounce |
| `DriftMargin` | the margin fetch | three attempts, the owner and length checks, the sums over the positions with their saturation |
| `RiskSession` | one session of ticks | `history` keeps every input and verdict, so verdicts are compared with definitions over it |
| `StatusView` | P&L row, verdict, stored row, and `/status` | extends `RiskSession`: `pnlRow` and `riskRow` are the two tables, `reading` a `/status` between its two queries |
| `ApprovalGate` | what the gate promises | abstract: `Open`, `Ask`, `Grant`, `Refuse`; no slot, channel, timer or ids |
| `Approval` | `proposal.rs`, `handle_approve`, `main.rs` 1556-1607 | `slot` is the `PendingApprovalSlot`, `rx`/`sent` the oneshot channel, `taken` the sender in the handler's hands, `phase` the processor's place; each lock section and channel operation is a step |
| `WatchLoop` | the watch command with a database | composes `RiskMonitor` and `Approval`: `pc` is the place in the tick, `mem` the shared `RiskState`, `db` the row, `clone` the copy `persist_state` writes, `before` the debounce's first reading, `cmd` the command between its `UPDATE` and its memory write |
| `Backoff` | what the reconnect loops of `ws.rs`, `cex_ws.rs` and `coinbase_ws.rs` owe | the doubled and capped wait after n failures in a row, a definition the waits of the loops are compared with |
| `WsSession` | `ws.rs` | `ws` is the place in `watch_account`; each select arm is an action whose guard excludes the arms before it (`biased`); timers count down in `WsElapse` |
| `TickQueue` | the pipeline in `main.rs` around it | extends `WsSession`: `queue` is the channel, `tick` the update in hand, `stage` the place of main, `graceIn` its timeout |
| `PriceFeeds` | both feed tasks, `TickPrice` of the processor and the gauges | `feed` is the place in each task, `price` the age of the shared price, `timer` the watchdog's or the frame timeout's clock, `fallback` is `cex_was_stale`; `line` and `link` are the exchange |
| `FeeMath` | `math/fees.rs` | u64 and u128 as numbers below `Word` and its square; the half products with their wraps |
| `RangePlan` | `signal.rs`, `rebalance.rs` | two operators |
| `WatchLedger` | what a tick computes and writes | `pool`, `pos` and `watched`, the range, are the chain, `known` is `current_pos`, `baseline` is `fee_growth_baseline`, `note` the notification at the processor, `rows` is `pool_ticks`, `earliest` what `check_shadow_gate` selects |
| `CandleHistory` | `geckoterminal.rs`, `backfill.rs`, the batch insert | one action per page, answer, retry and transaction; the API's history grows between pages |
| `Replay` | `db_replay.rs`, `backtest/mod.rs` | `ReplayRow` is one turn of the loop over rows, `SimulatedDay` one of the loop over days, `FlushLast` what follows them |
| `BacktestHistory` | the three commands over one table | composes `CandleHistory` and `Replay` |
| `MCRiskSession`, `MCWatchLoop`, `MCWatchLedger`, `MCBacktestHistory` | small instances | sets of inputs |
| `SharedLemmas` | no code | induction, recursion, sums over finite sets, orders, remainders and the waits of a backoff: what the proofs of several modules rest on |
| `RiskMonitorProofs`, `RiskSessionProofs`, `WatchLoopProofs` (with the approval protocol), `TickQueueProofs`, `PriceFeedsProofs`, `WatchLedgerProofs`, `BacktestHistoryProofs` | theorems | see section 5 |

### Conventions and abstractions

* Money is an integer in one unit and percentages are compared by
  cross-multiplication, so comparisons are exact where the code has `Decimal`
  division. `updated_at` and the pool address are left out (one process, one pool).
* `WatchLoop`: `pc` takes a value for every await and lock section of the tick from
  the risk gate on; what lies before is a snapshot, any member of `Snapshots`. A tick
  that returns early before the risk gate is a tick that does not happen there.
* `StatusView`: the bot reads no memory, so evaluate and the upsert of one tick are
  one step; `WatchLoop` takes them apart. A P&L row is the number of its tick.
* `DriftMargin`: i64 is scaled to 20, and `i64::MIN` is excluded, whose `abs()` wraps
  in a release build and panics in a debug build. The f64 ratio is compared with a
  whole threshold, so its floor decides as it does.
* `PriceFeeds`: a price is its age; a unit is 15 s. Accepting a message means that it
  parses to a positive price.
* `WatchLedger`: the two tokens are computed alike, so one stands for both, at price
  1; impermanent loss is an input. The chain's exact fees are kept as history
  (`pool.earned`, `unmoved`), to compare what the code reports with.
* `CandleHistory`, `Replay`: prices are numbered so that the tick of a price is the
  price; fees are counted in units of 1/`Word`, where the f64 of the code is exact;
  `compute_il` is a constant operator, of which only what the code itself uses is
  assumed; the random path of the simulation is any path.
* Variables called *history* in their comments are read by no guard (except that
  `Restart`, `ApproveCommand` and `SendSucceeded` read `shown`, the chat itself).
* A crash is `Stop` at any step: memory, slot, channel and counter are gone, tables,
  clock, chain and chat stay. `StartAborted` is a start that fails after its insert
  or after its reset. A failed database call is a disjunct: it either writes or
  is only warned about; a command whose `UPDATE` took effect may still return an
  error (`CommandFailed`).

## 3. The runs

| run | question | result |
|---|---|---|
| `risk_session` | over any session of ticks, does `evaluate` agree with definitions over the whole history, for every answer of the Drift RPC, and is `/status` in time? | passes: halted exactly from the first breach of the session's own peak, the pause follows the last live tick, a resume ends exactly one pause, a low margin is warned of exactly when nothing came first, the row `/status` reads last is no older than the P&L it read first, less one tick |
| `approval` | does the approval protocol implement the abstract gate, with timeouts, failed sends, late commands and restarts? | passes: an approval binds its proposal, the awaited sender is never lost, no sender lingers, a proposal answered "NOT executed" is never granted, every proposal ends |
| `watch_loop` | do risk gate, pauses, persistence, approvals and restarts compose? | passes: no tick of a halted or paused monitor gets through, submissions were asked for and no approval is spent twice, the row follows memory, only SQL clears a stored halt |
| `tick_queue` | do session, queue and shutdown hold together under time, silent links and a processor that may never finish? | passes: silence is found in time and answered pings never end a session, waits double, every update is accounted for and processed in order, Ctrl+C ends the process |
| `price_feeds` | does each feed find a useless session, pace its attempts, come back, and end? | passes: Binance is silent for at most its timeout and one watchdog interval, Coinbase for at most its timeout unless other frames keep coming, each attempt after n failures has slept exactly its doubled wait, a line that stays good ends the fallback and sets the gauges, Ctrl+C ends both tasks |
| `watch_ledger` | are fees, stored rows, planned ranges and the live gate right over a chain that moves, reads and writes that fail, and a restart? | passes: fees are exact while nobody touches the position and fall only after a withdrawal or a pool read by RPC, stored growth is ordered by slot, a planned range lies and is as wide as `PlannedRangeSound` says exactly, `--live` starts only after a decision that old |
| `backtest_history` | from the pages of the API to the total of the report, is every candle there and paid once? | passes: a fetched window has no hole although candles appear between pages, replays pay each candle's share of the volume once over overlapping backfills, and the day rows add up to date |
| `halt_lost` | does a detected halt survive a restart? | violated: the upsert failed and is never retried |
| `pause_lost` | does an answered `/pause` survive a restart? | violated: the full-row upsert of an older copy overwrites it |
| `pause_without_limit` | does a stored `pause_flag` gate ticks without `--max-il`? | violated: nothing reads the flag then |
| `failed_send_approved` | may nobody approve a proposal whose send failed? | violated: the operator saw it and approved it before the failure came back |
| `newest_dropped` | is the oldest update the one a full queue skips? | violated: the newest is |

The five violations disagree with comments of the code or a planning document;
`PROJECT.json` quotes each line under `findings`. With two workers the passing runs
take from seconds to about two and a half minutes.

### Bounds

* `risk_session`: `MaxTicks = 3`, five snapshots on both sides of each limit and on
  the drawdown limit, six answers of the fetch (failures, a foreign owner, a short
  account, margins on both sides, saturating sums). Three ticks raise a peak, fall
  below it, pause and resume; a loaded row adds an earlier session. Any number of
  ticks is covered by the proofs of section 5. One of the answers is an account whose
  positions offset each other, which tells the code's sums from the comment's.
* `MaxClock`, `MaxRuns`: seconds and process runs. `approval` has four seconds and
  three runs: proposals in two runs, and a third that meets both sets of messages.
  `watch_loop` has two of each: a restart after a tick that stored or failed to
  store something. The number of ticks and commands is not bounded there.
* `MaxBurst = 1`: at most one proposal in a second. Ids are seeded from the clock
  and count proposals, so with more than one a second a restarted process could
  give an id again that an earlier message carries, and a late `/approve` under the
  earlier message would meet the newer proposal. A proposal takes two HTTP calls and
  an operator or a timeout of minutes, so the bound holds in practice except where
  several sends fail within one second just before a restart; that exception is
  listed as a hazard.
* `watch_loop`: three snapshots (rising, drawdown, IL breach), three initial rows
  (none, IL-paused, halted), three modes. A low Drift margin changes no state, so
  only `risk_session` varies it. Limits are present; `pause_without_limit`
  checks the absent one.
* `tick_queue`: the intervals keep the order of the code's (base 1 s, pong 10 s, ping
  and longest wait 30 s, healthy 60 s: here 1, 2, 4, 4 and 5 units); a queue of two
  and four updates fill it with one in hand and one refused; `MaxStreak` bounds a
  history variable past the longest wait; two units of grace.
* `price_feeds`: the feeds share nothing but the shutdown, so `Configurations`
  explores each on its own; watchdog 1 unit, price limit 2, stale timeouts 4, waits
  1 to 4; ages stop at `OldestAge`, beyond every limit; `MaxFails = 3` bounds a history
  variable past the longest wait, which is assumed of every instance
  (`CappedWait(RetryBase, RetryMax, MaxFails) = RetryMax`), since a count that stopped
  earlier could not tell the waits apart.
* `watch_ledger`: `MaxSwaps = 2`, `MaxTouches = 1`, `MaxDay = 1`, `MaxRuns = 2`, words
  of 6 bits. The first fee growth lies 6 below the wrap, so the first swap wraps; two
  swaps in one slot or in two, a position that leaves its range, ticks near an edge and
  off the grid, liquidity that shrinks, or stays when only its fees are moved. The
  position is `watched` for good from the first state: 0..8 on a grid of 2, or 0..3 on
  a grid of 3, the narrowest there is and of odd width, whose plans at 0 and -3 need
  their upper bound mended and at 7 do not. The second is there for its plans alone:
  the constraint `NarrowIsBrief` leaves it one process run in which nobody touches it.
  The proofs cover all other values.
* `backtest_history`: candles of two prices over two UTC days, `PageLimit` and
  `MaxPages` 2, `MaxRetries` 1, `MaxBackfills` 2, `MaxWatchRows` 1. A replay starts only
  while no fetch is under way (it reads the table once); one replay per behaviour;
  the simulation, which reads no table, starts only from an empty one. Of every
  instance it is assumed that first and last time lie on the grid of candles and
  that slots of the chain lie below the times of candles (`MaxWatchRows < FirstTime - 1`),
  as the code's slots, hundreds of millions, lie below its Unix times.

Deadlock is not checked where an instance stops at its bounds, and in the tick
pipeline, which ends at Ctrl+C; `price_feeds` is checked for it.

### Fairness

* `ApprovalSpec`: `WF(Settle)`. The HTTP call of `send_message` returns, the tokio
  timer fires, the receiver is dropped and the slot cleared: steps of one task that
  the runtime polls. Nobody is obliged to approve, to propose, or to deliver a
  message; the process may die. `WatchLoop`, `WatchLedger`, `StatusView` and
  `BacktestHistory` have safety properties only.
* `TickQueue`: connection attempts return, a due arm of a select is taken, time
  passes, main's steps at shutdown are taken. A tick need not end. That attempts
  return is an assumption about the network: `connect_async` has no timeout in the
  code (listed as a hazard). `WsElapse` waits for a due arm, since the select loop is
  polled and its callback only enqueues; `SilenceBounded` rests on it.
* `PriceFeeds`: the steps of each task (top of the loop, end of a sleep, a due
  watchdog or frame timeout, the shutdown arm), a connection over a good line, a
  price in a live session over a good line, and time. A bad line promises nothing.
  `WF(TickPrice(TRUE))` says that ticks keep coming and keep passing the gates before
  the gauges; for a process that is halted for good the gauges stay as they are, and
  `FeedsRecover` does not speak of it.

## 4. Findings

Five runs end in a violation of what a comment or a document says:

* A halt whose upsert fails is never stored by a later tick, because a halted tick
  changes no durable field (`main.rs` 1378).
* A `/pause` between the copy of the risk state and its upsert is lost from the row
  (`main.rs` 1373), so a restart resumes rebalancing that the operator stopped.
* `pause_flag` is set, cleared and obeyed only under `--max-il`
  (`risk_monitor.rs` 471), though the start logs "rebalancing paused".
* A proposal whose send is reported as failed may have been seen and approved
  (`proposal.rs` 89 says that nobody may): its receiver lives until `send_proposal`
  returns, so the approval is confirmed and the rebalance skipped.
* A full tick queue refuses the newest update, not the oldest (`main.rs` 1683).

In four more places the code and its comments disagree, and a passing property states
what the code does. In the first three the property's mutant is the rule as documented,
so the property and the document cannot both hold; a definition beside the property
states the document's claim, and TLC refutes it when it takes the property's place in
the run's configuration.

* The Drift margin is a ratio of sums of absolute amounts (`risk_monitor.rs` 414), its
  documented formula one of absolute sums (264-266): they differ where positions
  offset each other. `MarginWarnedIffLow`, in `SessionInv`, states what the code does,
  `MarginWarnedAsDocumented` the formula.
* `ws.rs` 79-81 and 98 and a test (377-430, on a copy of the logic) say that every
  session that connected resets the backoff; the loop also asks that it lasted
  `MIN_HEALTHY_SESSION` (51), as its own comment there says. `BackoffGrows` states the loop's
  rule, `ConnectedResetsBackoff` the other.
* `coinbase_ws.rs` 79-83 says that a connect resets the backoff and silence leaves it
  alone; the code resets it by a price delivered and doubles it when a session goes
  silent before its first price (127-147). `AttemptsPaced` states what the code does,
  `SilenceKeepsBackoff` the comment.
* A planned range does not always keep the old width with both bounds on the grid
  (`rebalance.rs` 18-20): a range of one spacing, where the centred one would end at or
  below the tick, becomes two spacings wide (39-41), and a width that is not whole
  spacings leaves the upper bound off the grid. `PlannedRangeSound` states exactly what
  the code gives, `PlannedRangeAsDocumented` the comment.

One more is stated and refuted in the same way, `TimedOutNeverConfirmed` (in the place
of the invariants of `approval`): a timeout and the drop of the receiver are two steps,
and an `/approve` between them is answered "Executing rebalance." while the rebalance is
skipped as timed out (`commands.rs` 263, `proposal.rs` 112).

Met while modelling, below the level of a run: backfills of one pool that start at
different candles leave rows of two fee accumulators side by side, so a replay across
them pays wrong fees (`backfill.rs` 60), which is why `ReplayPaysVolumeShare` speaks of
backfills with one first candle; the sum of `fee_owed` and accrued fees (`main.rs`
1188) is a u64 that the model lets grow; the lower bound of a plan is mended too
(`rebalance.rs` 42-44), which nothing but a saturated i32 can make necessary.

## 5. The proofs

Theorems are about every value of the constants (limits, snapshots, rows, modes,
timeouts, word sizes, ranges, runs) under the named `ASSUME`s of the modules.

* `SharedLemmas`. The library's induction theorems take an operator, which the
  installed provers do not instantiate. They are stated here for sets and functions
  instead, from the one fact that the order of the natural numbers is well founded:
  `LeastNumber`, induction over numbers and over the subsets of a finite set,
  recursive functions over them, hence that `MapThenSumSet` adds up whatever the order
  (`SumOfRemove`, `SumOfSplit`), that a strict order puts one member at every place
  (`EveryPlaceTaken`), quotient and remainder, and `CappedWait`.
* `RiskMonitorProofs`: what `Evaluate` returns, preserves and bounds (its type, that
  a halt is kept, when a tick neither halts nor pauses, that the peak only rises).
* `RiskSessionProofs`: sessions of any length. `SessionAgrees` is the invariant:
  state and history agree at the last tick, the verdict of every earlier tick was
  right when it was given, and what `/status` has read is at most one tick ahead of
  the row. It is inductive because a new tick changes nothing that the definitions
  say of the past (`PastStands`) and extends each of them by one case (`NewTick`); the
  peak, a maximum over the history, is handled through what characterises a maximum.
  From it follow `HaltFromFirstBreach`, `PeakOfSession`, `PauseOfLastLiveTick`,
  `OneResumePerPause` and `StatusNeverStale`. `MarginVerdicts` proves the rest of
  `SessionInv`: the saturating fold over the positions of an account is the exact sum
  cut at `i64::MAX`, also for accounts whose totals saturate, so a low margin is
  warned of exactly when it should be.
* `WatchLoopProofs`, the approval protocol. `SenderInvariant` (types and
  `SenderAndReceiver`) is inductive as it stands and gives `SenderStaysAlive` and `NoSenderLingers` at any rate of
  proposals; with `AnswerInv`, that ids grow within a run and a sender is taken once,
  it gives `DenialIsFinal`. `ApprovalInvariant` adds `IdsFollowClock`, that ids of
  one run lie below the clock plus the burst, so a later run starts above every earlier
  message, and `ConsentInv`, that a sender in somebody's hands belongs to a proposal
  the operator asked for. It assumes `MaxBurst = 1`, for the reason above, and gives
  `ApprovalBinds` and `IdsAreUnique`. With `EndedInv`, that a shown message is open or
  has ended and that ids of a run grow, every step is a step or a stutter of the abstract
  gate (`GateStep`), which is the refinement `GateIsImplemented`.
* `WatchLoopProofs`, the watch loop. Every step of the loop is a step or a stutter of
  the approval protocol (`StepIsApprovalStep`), so its invariants carry over. `CoreInvariant` is
  the conjunction of
  - `RiskInv`: a halt in the row is a halt in memory, and what `haltTick` promises
    while the tick is between `evaluate` and its return;
  - `RowInv`: what the row is known to agree with at each place of the tick; needed
    because the debounce compares readings of two lock sections;
  - `PauseInv`: an answered pause is in memory until a `/resume`;
  - `PlaceInv`: the processor is in the gate exactly while a proposal is out.

  From it follow `HaltStopsRebalancing`, `PauseStopsRebalancing` (which assumes an IL
  limit is given), `AnsweredPauseHolds`, `RowFollowsMemory` and `StoredHaltStands`, an
  action property; none of them depends on the rate of proposals. `WatchInvariant`
  adds `ApprovalInv` and `SubmissionInv` at one proposal a second and gives
  `SubmissionsWereAsked`.
* `TickQueueProofs`. `WatchdogInv` is the argument for the watchdog: the silence so far
  plus the time to the verdict (the deadline, or the next ping and a whole timeout)
  never exceeds one interval and one timeout; it holds for all lengths, also where the
  timeout exceeds the interval, because a ping does not move an outstanding deadline.
  `PipelineInvariant` joins it with the order and the accounting of updates, which
  need each other: an update is new because everything received is accounted for.
  From it follow `DeadLinkIsFound`, `AnsweredSessionsStay`, `NothingLostSilently`,
  `TicksInChainOrder` and `CutOffIsLate`. `ReconnectsArePaced` rests on `BackoffInv`:
  in a sleep the wait is that of the unhealthy sessions in a row so far, elsewhere it is
  already the next one, because doubling a capped wait gives the cap of the doubled one.
* `PriceFeedsProofs`. `FeedsAreWatched`: `SessionsWatched` bounds the age of the price
  by the watchdog's clock, which bounds the silence; `DeviationTrusted` rests on a
  tick moving both gauges together. `FeedsArePaced`: what a task has slept and the wait
  it will sleep next follow the number of failures in a row (`Paced`).
* `WatchLedgerProofs`.
  - `HalfProductExact`: leaving out the highest of the four half products does not
    change what a u64 shows of the product, for every word size.
  - `FeesAreEarned`, `FeesNeverFallByThemselves`, `LedgerOrdered`. They assume
    `Fits(G, L)`: with swaps of at most `G` and a liquidity of at most `L`, neither the
    growth of all swaps nor the fees of the position go all the way around their
    counters; beyond that the code cannot tell, and the instance of the run fits
    with 18 and 66 against 4096. `GrowthInv` orders notification, pool and counter,
    also across the wrap of `fee_growth_global`; `RowsInv` keeps stored rows behind the
    pool; `ExactInv` ties what the position earned to liquidity times growth;
    `FallInv` keeps the last report below what any later pool state would give.
  - `PlannedRangeHolds` and `LiveNeedsDecision` (a row is on record only since a
    decision) need no such bound. The first, from `PlanHolds`, is arithmetic of the
    floor to the grid: where the centred range ends at or below the tick, it is
    less than two spacings wide and starts one step of the grid below the tick's
    (`NextOnGrid`), so the mended range is two spacings wide. It covers narrow ranges
    and widths off the grid, of which the run checks the narrow ones.

* `BacktestHistoryProofs`.
  - `HistoryWhole`: `HistoryInv` joins four invariants. `WindowWhole` holds because no
    page leaves a hole and the next one begins right before the earliest candle so far
    (`NoHole`, `PagesMeet`), and because a candle appears only at the time the clock
    has just reached.
    `StoredWhole` says of a stored candle that its growth is that of all candles since
    some backfill's first, all of them stored too; it is kept by an insert that skips
    what is there. The accumulators of a replay are sums over its rows so far
    (`WorthToDate`), each day that ended has its row at the place its order gives it
    (`RowsInPlace`), and a replay of one backfill's rows goes over every candle of its
    window with a growth that never falls, which its fees follow (`StreamWhole`,
    `GrowthPaid`).
  - `ReportAddsUp` follows: the CHOOSE of the n-th day finds the day whose row is there,
    with the price, fees and losses at its last tick.
  - `VolumeShare` says that every candle's volume is paid once by the position's share.
    It speaks of pools whose liquidity divides the word, because the model's growth of
    one unit of volume is a whole number where the code has an f64, and of states where
    the growth of all candles fits the accumulator (`VolumeFits`); where it wraps the
    code pays less, as `FeesAreEarned` has it for the live session.

Attempts at proofs that showed something missing, now corrected: `MarginWarnedIffLow`
let a loaded IL pause come before the margin also without `--max-il`, where nothing
obeys it; `CandleHistory` did not say that its times lie on the
grid, without which a candle could lie on the baseline row of another; `Replay` did not
tell the ranges of a simulation, which keep their width, from those of a replay.

Only model-checked: liveness under fairness, which is out of this prover's reach
(`ProposalSettles`, `ShutdownEnds`, `FeedsRecover`, `ShutdownEndsFeeds`). Every
invariant and every action property of the passing runs is proved.

## 6. What is not modelled

* The session cache (`cache.rs`), one JSON file with the entry price, read at start
  and written once by truncation: a crash in between loses the entry price, and the
  next start measures IL from that day's price (listed as a hazard). It multiplies
  the states of every run it is composed with, and IL is an input of the runs.
* Impermanent loss, token amounts, greeks, impact, depth, hedges and statistics:
  floating-point formulas without state. (`depth.rs` 21-23 speaks of a mid-bucket and
  uses the unaligned current tick.)
* Byte layouts of accounts and messages, random price paths, tables, exporters and
  flags: no control to check. The `research` sweep is modelled in one cell.
* The candle that is still open: the API also serves it, with the close and volume so
  far, a window that reaches past now ends in it, and a later backfill keeps that row
  (`ON CONFLICT DO NOTHING`, `writer.rs` 34). `CandleHistory` takes a candle as final once
  it is served (listed as a hazard).
* In the modelled part: a panic of the processor task; a poisoned mutex (the code
  takes the inner value and goes on); a message that reaches the chat after
  `send_message` has already failed; a wall clock that steps back across a restart;
  `/report`, one read-only query; mint decimals and token symbols;
  the fire-and-forget writers nothing calls; connecting to and migrating the database.
* Allowed by the model and not claimed otherwise: a `/pause` answered while a tick
  waits for its approval does not stop that tick; SQL that clears `halt_flag` while
  the process runs leaves memory halted, and the next durable change would store the
  halt again.

## 7. What could follow

* A composition of `WatchLoop` with `TickQueue`, so that the wait for an approval
  fills the queue: each is checked with the other as an arbitrary environment now.
* The session cache as a file with crash points, beside `WatchLedger` with a loss
  that depends on the entry price.
