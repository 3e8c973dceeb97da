# TLA+ models of the exchange bots

This directory holds TLA+ specifications of the trading programs in this
repository, the TLC configurations that check them on small instances, and
proofs, checked by TLAPS, that hold for every instance. The definitions are
translated from the Python source; `PROJECT.json` names, for every definition,
the lines it stands for.

## 1. The system

Three programs share one code base.

* `app/main.py` and `app/ob_main.py` run one **symbol bot** per symbol
  (`TradingService` for the EMA-trend strategy, `OBTradingService` for order
  blocks) in one asyncio loop. A symbol bot keeps at most one *conditional*
  (stop-entry) order on Bybit, with stop loss and take profit attached, and
  re-synchronises it with its newest signal once per closed candle.
* `app/run_multi_scalper_bybit.py` is the **multi-scalper**: one process that
  visits all symbols in turn after each M5 candle and sends *market* orders.
* `notebooks*/`, `research/` and `scripts/` are offline.

### Components

| component | source | state it keeps | operations | interacts with |
|---|---|---|---|---|
| TradingService / OBTradingService | `services/trading_service.py`, `services/ob_trading_service.py` | `_running`, shutdown event | run, stop, `_initialize`, `_loop`, `_run_cycle`, sleep | every component below, by await |
| OrderManager | `execution/order_manager.py` | none of its own (writes BotState) | create, modify, cancel, `sync_pending_orders` | BybitClient, BotState |
| OrderReconciler | `execution/reconciler.py` | none of its own | `reconcile_on_startup`, `reconcile_cycle` | BybitClient, BotState |
| BotState | `state/bot_state.py` | last processed candle, pending order, fill counters; memory only | setters, link ids | shared by the three above |
| BybitClient | `exchange/bybit_client.py` | session, last call time | one coroutine per REST call, `_call` retry wrapper | Bybit |
| DataFetcher | `market/data_fetcher.py` | none | peek, closed frames | BybitClient |
| precision, sizing | `exchange/precision.py`, `risk/sizing.py` | none | rounding, quantities, fee and ATR adjustments | OrderManager |
| MultiSymbolRunner | `services/multi_symbol_runner.py` | services, tasks | run (gather), stop | services, notifier |
| WS bridge, notifier, PnL tracker | `exchange/bybit_ws.py`, `services/ws_order_notifier.py`, `services/account_pnl_tracker.py` | bounded queue, running PnL | socket thread -> queue -> dispatch | Telegram |
| multi-scalper | `app/run_multi_scalper_bybit.py` | seen signals and open position per symbol, both in files | symbol cycle, close detection, portfolio loop | BybitClient, DailyLossGuard |
| DailyLossGuard | `services/daily_loss_guard.py` | cached PnL of the day | `should_block` | BybitClient |
| strategies | `strategy/` | none (functions of a frame) | signals, filters, walk-forward | services |
| Telegram, storage, telemetry, settings | `telegram_bot/`, `storage/`, `telemetry/`, `config/` | output files | notify, append | - |

### What is hard about it

* **Interleaving.** Each exchange call is an await. Between two of them the
  market moves: a conditional order triggers, fills or is cancelled, a position
  opens or closes, an operator stops the bot, the process dies.
* **Unreliable calls.** `_call` retries on network errors. A request may have
  been executed although its answer was lost; the retry is then refused (a
  duplicate link id), or the retries run out.
* **No persistence.** BotState is rebuilt from the exchange at startup. What a
  restart adopts, cancels or forgets decides whether an order is left behind.
* **Late data.** `_drop_forming_candle` always drops the last row, so when the
  exchange has not yet published the new candle a frame ends one bar earlier.
* **Stale checks.** The position check is several awaits before the placement.
* **Tasks and signals.** Services, Telegram and the notifier are tasks of one
  loop; a signal may meet each of them anywhere, and one failure reaches all.
* **Two threads.** pybit delivers events on its own thread; the loop they are
  handed to is blocked for minutes by `time.sleep`, its queue is bounded.
* **Sliding frames.** Strategies are recomputed from scratch on a frame that has
  moved by a candle; what they said a candle ago may be said differently now.
* **Rounding.** Prices are snapped after quantities were computed from them.
* **Files.** The multi-scalper's memory of what it traded and what it follows
  is written in place after the fact; it may die before or while it is written.

### What makes each component correct

* Symbol bot: one conditional order at a time; a running loop knows it; no
  order on an old signal or on top of a position it could have seen; a candle
  that a peek has seen and a cycle has marked is not processed again; a dead
  order is noticed; a stop is obeyed.
* Reconciler: after startup exactly the newest order is left, and tracked.
* BybitClient: a call is effective at most once, and a failure of an effective
  call has a lost answer behind it.
* MultiSymbolRunner: a stop ends the process, from anywhere, and an orderly end
  cuts no cycle in two.
* Multi-scalper: one market order per signal; a position closed once is
  reported once; no entry while a position is open or after the loss limit.
* Notifier: every event is journaled, in order and once, or known to be lost.
* Precision and sizing: rounding never turns an order around; stop and
  quantity stay within limits and risk.
* Strategies: the row a bot acts on was there when its candle closed; what
  withdraws it is known; a block or setup is walked to exactly one outcome.

## 2. Modules

| module | what it is |
|---|---|
| `PerpExchange` | the exchange seen by one symbol bot: life cycle and price of each link id, net position (external) |
| `OrderBot` | the symbol bot: loop, cycle, OrderManager, OrderReconciler, BotState, and their properties |
| `PendingSlot` | the abstract promise of `OrderBot`: one slot, link ids never reused |
| `OrderBotProofs` | types; the single-order invariants; `OrderBot` implements `PendingSlot`; position guard, freshness, tracked order, when a candle is processed again |
| `ClientCall` | `BybitClient._call`: retries, errors, cancellation, worker threads |
| `RemoteCall` | the abstract promise of `ClientCall`: at most one effect, none after an end |
| `BotProcess` | the tasks of one run of `main.py` or `ob_main.py`, signals and failures |
| `OrderSizing` | rounding, risk sizing, fee and ATR adjustments, validations |
| `DailyLossGuard` | the loss guard and its cache |
| `Scalper` | the multi-scalper on top of it: portfolio cycle, close detection, entry, the two files |
| `EventStream` | private websocket: socket thread, loop, bounded queue, dispatch, journal, PnL tracker |
| `LossyLog` | the abstract promise of the journal |
| `TradeReport` | `scripts/reconstruct_pnl.py` on that journal |
| `OrderBlocks` | order-block strategy: displacements, blocks, scan, over a sliding frame |
| `TrendSetups` | EMA strategy: merge of the hourly trend, setups, backtest walk |
| `MCOrderBot`, `MCScalper`, `MCEventStream`, `MCOrderSizing`, `MCOrderBlocks`, `MCTrendSetups` | instances for TLC; the statements of documents that the code does not keep |
| `ClientCallProofs`, `BotProcessProofs`, `OrderSizingProofs`, `ScalperProofs`, `EventStreamProofs`, `OrderBlocksProofs`, `TrendSetupsProofs` | theorems about the module named before "Proofs"; `EventStreamProofs` also has the one about `TradeReport` |

`OrderBot` composes `PerpExchange` with the bot, `Scalper` composes
`DailyLossGuard`, and `TradeReport` reads what `EventStream` writes.
`ClientCall` is the ground on which `OrderBot` and `Scalper` assume of one call
what they assume: that it is effective at most once, fails after having been
effective only if an answer was lost, and may take effect after its task was
cancelled. `BotProcess` has a service of which only the life cycle is left, the
one of `OrderBot`. `OrderBlocks` and `TrendSetups` are two of the strategies
that `OrderBot` leaves open.

### How `OrderBot` corresponds to the code

One action is the code from the return of one exchange call to the next call.
`pc` names the call that is made next:

| `pc` | code waiting at |
|---|---|
| `startup`, `cleanup` | `reconcile_on_startup`: listing the orphans; cancelling the stale ones and adopting the newest |
| `peek` | `peek_latest_candle_time` at the top of the loop |
| `fetch` | `fetch_closed_frames` / `fetch_m5_frame`; the strategy runs on its result |
| `reconcile` | `get_order_by_link_id` in `reconcile_cycle` |
| `position` | `get_balance`, `has_open_position` |
| `invalidate` | OBTradingService's cancel when the strategy gave nothing |
| `sync` | not a call: the decision of `sync_pending_orders` |
| `expire`, `flip`, `recreate` | its three `cancel_pending_order` calls |
| `create`, `amend` | `place_order`, `amend_order` |
| `sleep` | `_sleep_until_next_candle` |
| `stopped`, `down` | `run()` returned; no process |

State: `pending`, `lastCandle`, `fills` are BotState's fields; `cycle` holds the
locals of a cycle (peeked candle, last candle of the frame, last signal, result
of the position check); `adopt` and `stale` those of the startup
reconciliation; `lost`, `amendLost`, `raced` and `handled` (the last candle of
the frame on which the last cycle completed) are history variables that only
properties read. The two services differ in one branch, the constant
`CancelOnNoSignal`.

A link id is a record (side, bar, attempt): `make_order_link_id` formats just
that, since prefix and magic are fixed for a bot. What the code *parses back*
from the text, the number after the last dash, is the operator `Suffix`.

A signal is any setup on any bar of the fetched frame: the strategy is left
open, so the properties hold whatever it answers. Prices, stop and target are one
opaque value: all that the control depends on is whether they match those of
the tracked order.

Failures of a call. Reads raise (`ReadFails`) and the loop swallows the error.
Placement: accepted, refused, or accepted with the answer lost. Amend: accepted,
failed without effect, failed although applied. Cancel: done, not found and
ignored, or raised, with or without effect. `cancel_order` means to ignore an
order that is not found; whether pybit reports that by return code (ignored) or
by an exception of its own (raised as `ExchangeError`) is left open, the
module allows both.

Time is the number of the last closed candle. At the horizon `MaxBar` the
candles are numbered anew (`Tick` shifts the stored candle numbers by one), so
that runs of any length are explored; `ClockAssumption` makes every signal too
old before this can matter.

### The exchange

`PerpExchange` is external. Its rules are those the client's callers rely on:
a link id is accepted once (ErrCode 110072 otherwise; three refusals are
recorded in `logs_ob/events_BTCUSDT.jsonl`, lines 839, 847 and 855); a triggered
conditional order leaves the stop-order list; a finished order may or may not
still be listed; a fill against an open position reduces, closes or reverses it.

### How `Scalper` and `DailyLossGuard` correspond to the code

The scalper is one coroutine; a step is again the code from one await to the
next, and `pc` names the await of `run_symbol_cycle` it is at:

| `pc` | code waiting at |
|---|---|
| `pick` | `run_portfolio_cycle`, between two symbols, or the sleep between two cycles |
| `positions` | `get_positions` (line 705) |
| `closing`, `notify` | `get_closed_pnl` with its retries; `tg.position_closed` (907, 941) |
| `guard`, `enter` | `should_block` (725); `tg.signal` (771) |
| `place`, `answer` | the market order, before and after the exchange executes it (804) |
| `verify` | the second `get_positions` (837) |
| `down` | no process |

`seenFile` and `stateFile` are the files, `seen` and `tracked` the fields of
the `SymbolContext`s; of the tracked position only its presence matters for the
control. A signal is a (bar, direction) pair, any of which the strategy may
give or repeat in any cycle. The order in which a cycle visits the symbols is
left open, which only adds behaviours. Telegram calls swallow their errors and
end in the same step they are awaited in, except `tg.position_closed`, which
stands between the report of a close and the change of the file. Cancellation
by SIGINT or SIGTERM raises at the await the task is at and reaches no handler
in the symbol cycle, so it is `Crash` like a kill; a cancelled order that its
worker thread still sends is a `Crash` after `OrderExecuted`. A file is torn
(`CrashInWrite`) when the process dies inside `write_text`; `load_seen` and
`load_state` take a file they cannot parse for an empty one.

`DailyLossGuard` keeps the cached sum, whether it is of today and whether it is
younger than `refresh_s`. `day_pnl` takes the day, the time and the end of its
window before it awaits the records: `RequestPnl` puts what it took into
`request`, `PnlArrives` or `PnlFails` goes on with it. Retries may make the wait
longer than `refresh_s`, so anything may happen in between: positions close
(`Realise`), midnight passes (`Midnight`), the cached value grows old
(`CacheExpires`) and the one being awaited too (`RequestExpires`). The sum is that
of the asking, since `end_ms` is. `breach` (`none`, `new`, `old`: reached before
every value that may still be used was read), `hit` and `guessed` are history
variables, as are `traded`, `excused` and `blind` in `Scalper`; a request keeps
what the first two were when it was made.

### How `BotProcess` corresponds to the code

The command line is chosen in `Init` and kept in `mode`: which symbols, whether
`--symbols` was given (runner) or a single symbol runs on its own, whether
Telegram and the notifier are there. `main` is the main coroutine (`login`,
`gather`, the disconnect after a failure, `ended`); `svc[s]` is where `run()` of
a service is (`none`: its task exists but has not run). `running` and
`shutdown` are the two flags of a service. `Signal` is the handler of SIGINT or
SIGTERM up to its first await; `StopReturns` is the rest of `runner.stop()`.
When `main` is `ended`, `asyncio.run` cancels what is left. `late` counts the
cycles a service begins after its `stop()`.

### How `ClientCall` corresponds to the code

A call is a coroutine (`pc`: waiting for the gap between calls, with a request
on a worker thread, sleeping before a retry, ended) and its latest `request`.
The link id is that of the call, so a retry repeats it. All error classes of
`_check_response` and of the `except` clauses are told apart by what they lead
to. A sleep only takes time, so its length and `_last_call_ts` are left out. A
request that failed on the network is effective before the failure or never:
Bybit refuses a request that arrives later than its `recv_window`. A cancelled
task leaves its thread behind, whose request is still served.

### How `OrderSizing` corresponds to the code

One behaviour is one signal on its way through `sync_pending_orders` and
`create_pending_order` (or `modify_pending_order`: the same steps), or through the
scalper's entry. Prices are integers counted in grains, of which a tick has
`Tick`; Decimal arithmetic is exact, and so is this. A side is 1 or -1. `mode`
holds what is configured (plain sizing, stop tightened for fees, fee-adjusted
sizing, scalper), the ATR floor and the free balance. Each early return is a
`Skip`. A symbol bot's order is a stop-*limit* order at its entry
(`order_manager.py:201`), so it fills no worse. The scalper's is a market order,
sized from the close of the signal's bar: `Slips` is what its fill may differ by,
to its loss or its gain.

### How `EventStream` and `TradeReport` correspond to the code

An event is its number in `sent`. `Emit` is `_on_message` on pybit's thread:
`call_soon_threadsafe` puts a callback in `ready`. `RunCallbacks` is one
iteration of the loop: `put_nowait` for each, up to `Capacity`. `Receive` with one of
the two dispatches is `events()` and `_dispatch` up to the await of Telegram
(`sending`). `Sleep`..`Wake` is `sleep_until_next_m5`, in which nothing of the
loop runs while the other thread goes on. `log_event` opens, appends and
closes; when the write breaks off, the line stays open (`torn`) until the UTC
day gives a new file. `journal` holds the readable records over all restarts.
`excused` collects, at the step at which it happens, every event that the
journal will miss.

The position stream is external and follows the repository's own journals
(`logs/bybit_bot/_ws_events-*.jsonl`): a symbol's `cumRealisedPnl` moves when a
position opens (its fee), when it closes, and while it is open, by funding and by
partial closes (`PositionMoves`); records that repeat the last figure come at any
time, in particular right before a close; any record may be missing. Sizes are 0
or not 0, which is all the report tells apart, so a partial close is a move at
size 1. One record has one position: messages that carry several (ten of the
journaled ones do) are as many records that are lost or kept together, which adds
no order and no loss that single records do not have. Positions may be open
before the first event.

`Report` is `load_ws_closes`: `Extract` for one record of the journal after the
other; `last` is the dict `last_cum`, a function on the symbols that have a
baseline.

### How `OrderBlocks` and `TrendSetups` correspond to the code

Both are functions of a frame; the only action is that a candle closes. In
`OrderBlocks` the frame slides once it has `Size` candles. `sl_buffer` is 0. The
ATR is computed over the frame, as `add_candle_features` does at every fetch: the
first candle has no previous close and no ATR, the range of the second one seeds
the average (`ewm(adjust=False)`), so a candle's ATR changes when the frame
slides. It is kept in integers, in units of `Part` = (`Span` + 1)^(`Size` - 2) to a price
step, in which no division leaves a remainder; floats, whose rounding may tip a
move that equals the threshold, are left out. The nested loops of the scan are the
recursive function of `Scan`. In `TrendSetups` an hour is the trend that its EMAs and its
close give; `hours[1]` is the last one before the frame. A fetch that lacks the
newest M5 or H1 candle is outside this module (`OrderBot` has frames that end
early). `run_backtest` and `_simulate_walk_forward` are one loop, `Bar`; money is
left out of it.

## 3. Runs

Sides, prices, symbols, calls and scalper signals are model values; symmetry is
used with invariants and action properties, never with a temporal property.

| run | specification | checks | distinct states |
|---|---|---|---|
| `order_guards` | `OrderBot!Spec` | `TypeOK`, `SinglePending`, `NoStrayOrder`, `TrackedIsReal`, `PositionGuard`, `FreshSignal` | 1.51 M |
| `loop_goes_on` | `OrderBot!RunSpec` | `ImplementsSlot` (refinement), `ShutdownEnds`, `GoneIsNoticed`, `CandleOnce` | 122 k |
| `traded_once` | `Scalper!Spec` | `TypeOK`, `Durable`, `TradedOnce`, `FlatEntry`, `ReportIsReal`, `GuardCloses`, `GuardReopens` | 956 k |
| `position_followed` | `Scalper!FairSpec` | `CloseNoticed`, `PositionFollowed` | 7 k |
| `bot_process` | `BotProcess!FairSpec` | `TypeOK`, `OneLateCycle`, `NoCycleCut`, `StopEnds` | 19 k |
| `event_stream` | `EventStream!FairSpec` | `TypeOK`, `Accounted`, `ClosesRecovered`, `ImplementsLog` (refinement), `EventJournaled` | 112 k |
| `client_call` | `ClientCall!FairSpec` | `OneOrder`, `FailureExplained`, `ImplementsRemote` (refinement), `CallEnds` | 145 k |
| `order_sizing` | `OrderSizing!Spec` | `SoundOrder`, `RiskKept`, `StopSnapped` | 24.5 k |
| `order_blocks` | `OrderBlocks!Spec` | `SignalsAreRetests`, `SignalsStay` | 22 k |
| `ema_setups` | `TrendSetups!Spec` | `TradesAreDue`, `NewestStood` | 565 k |

The type invariants of `ClientCall` and `OrderSizing` are proved and not run.

**Bounds.**

* `order_guards`: two sides on one signal bar, one re-entry, two prices, lost
  answers, two process runs, the EMA service. Two sides give flips; two prices
  give amendments (accepted, failed, failed though applied); a re-entry gives
  link ids that differ in the attempt only; two runs give a restart with orders
  left behind. Two signal bars at once, an old order met by a newer signal, are
  beyond this instance; the theorems of section 4 cover them, and any other
  constants, for each of these properties.
* `loop_goes_on`: the order-block service, whose invalidation step cancels more,
  without lost answers; two sides, one price, one process run, klines up to one
  bar late: the lag separates the peeked candle from the frame's. `SlotRefined`
  covers restarts.
* `CandleOnce` is about klines that are at most one bar late (`Lag <= 1`): a
  kline that falls two bars behind could end before the last processed candle,
  and the guard compares for equality only.
* `traded_once`: two symbols, one signal on each, two process runs, lost answers,
  results of -1 and 1, limit 1, profit within -1..1. A second symbol lets
  a visit end and another begin with what the first left behind; a second run
  reads the files; the limit is reached, recovered from and reached again,
  before, during and after a request. Larger profits are for the theorems.
* `position_followed`: two symbols, so that one may be visited for ever.
* `bot_process`: two symbols and two signals, all command lines: one service can
  be anywhere while the other fails or is stopped, and a second signal meets
  every state the first leaves.
* `event_stream`: two symbols that may have a position at the start, a queue of
  two, three events, one process run; a fee, a profit and a move whose sums tell
  which were counted. Three events fill the queue and lose one, and are a journaled
  record, a lost move (or close, or opening) and a close that is charged with it.
  Records that repeat a figure (a move of 0), more events and restarts are
  covered by `ClosesRecoveredCorrect`, `AccountedCorrect` and `LogRefined`.
* `client_call`: a placement and a cancel with the code's five attempts; calls
  meet only in the exchange, each with its own order.
* `order_sizing`: a tick of 4 grains, entry prices over three ticks, stops of
  0 to 9 grains, fees below and above a stop: every remainder and every order
  of fee, ATR and stop occurs; balances that are zero, too small, enough; fills a
  grain better than the close, at it, and three grains worse.
* `order_blocks`: seven candles of four shapes, the code's ATR span of 14, lifetime
  of a block 5: a block is formed, left, retested, rejected or broken, expires,
  and slides out; and sliding frames do make displacements strong and weak that
  were not, withdrawing and back-dating signals, so the exceptions of
  `SignalsStay` are met.
* `ema_setups`: seven bars, three to the hour, so that two hours close and a
  third is open; four shapes; lifetime 2: an order expires, triggers,
  is stopped out, reaches its target, or both on one bar.

**Fairness.** `OrderBot`: `WF(BotStep)`, asyncio keeps running the loop's coroutine, and
every await of it ends (each call has a bounded number of retries, the sleep a
timeout). `ShutdownEnds` needs nothing else: it holds if no candle ever closes
again. `GoneIsNoticed` assumes `CallsAnswer` besides: `WF(Tick)`, candles close,
and `SF(Fetch)`, `SF(Reconcile)`, these two calls do not fail in every cycle for
ever; without it a broken connection hides a dead order for ever, as it does in
the code. `Scalper`: `WF(Step)`, its loop goes on, and its awaits end;
`SF(FetchGives(s))` and `SF(PositionsAnswer)` for each symbol, its klines and
its positions are not refused for ever, since both failures skip to the next
symbol and cycle without a trace. `BotProcess`: weak fairness of each task, of
the main coroutine and of the handler's rest: the loop is fair, and what they
await returns. `EventStream`: `WF(Wake)`, the sleep ends; `SF(RunCallbacks)`, `SF(Consume)`,
`SF(Sent)`, strong because the blocking sleep disables them again and again,
and the cycle has many awaits between two sleeps, at each of which the loop runs
them. `ClientCall`: `WF(Client(c))` and `WF(Serve(c))`, a request is answered or
its HTTP timeout passes.

### What the passing runs say

* `SinglePending`, `NoStrayOrder`: through crashes at any step, restarts, side
  flips, cancels that raise with or without effect, and failed amendments, at
  most one conditional order works and a running loop tracks it - unless an
  answer to a placement was lost and no startup has run since.
* `TrackedIsReal`: the tracked order is one the exchange accepted, at the
  tracked prices while it waits, unless an amendment was applied unheard.
* `PositionGuard`: the only way to send an order with a position open is that
  an entry filled after the cycle's own check.
* `FreshSignal`: no path creates an order for a signal `expiry_bars` old.
* `CandleOnce`: a cycle gets no older candle than an earlier one of its process,
  and the same one only if its own peek failed, or the earlier cycle did not mark
  it: its peek had failed, or had seen an older candle than the fetch behind it.
  That case is real: a candle that closes between peek and fetch is processed
  twice.
* `ImplementsSlot`: without lost placement answers, bot and exchange are one
  `PendingSlot` (`SlotRefined`: across restarts): also an abstract account of why link ids need
  the fill counter.
* `ShutdownEnds`, `GoneIsNoticed`: see the fairness above.
* `Durable`, `TradedOnce`: memory and files never part, and a signal is traded
  again only if the answer to its order was lost, or the process died between
  the execution and the end of `save_seen`, or while a later `save_seen` had
  the file open.
* `FlatEntry`, `ReportIsReal`: although `has_open` is read several awaits before
  the order, an order on top of a position and a report of a close that did not
  happen have one cause only, a failed `get_positions` of the same visit.
* `GuardCloses`, `GuardReopens`: the guard decides by what was so when it was
  asked, a failed read apart. It lets nothing through once a limit was reached
  before the oldest value that it could use then; it blocks only if the limit
  had been reached on the day on which it was asked. So what is realised during its request
  escapes one answer, and a request over midnight may block one entry of the new
  day by the loss of the old one; neither lasts to the next question.
* `CloseNoticed`, `PositionFollowed`: a wrong report is repaired later.
* `OneLateCycle`: a stop that arrives before `run()`, during a peek or a cycle
  lets at most one more cycle of each service begin. `NoCycleCut`: the process
  ends between the cancel and the new order of a flip only if another
  service failed. `StopEnds`: a stop ends the process, if the services existed when
  it came, and unless a single symbol runs with a notifier.
* `Accounted`: what the journal misses was sent while the link was down, found
  the queue full, was waiting when the process ended, or shares a line with a
  broken write. `ImplementsLog`: what it has is in order and there once (`LogRefined`: over all
  restarts). `EventJournaled`: the blocked loop and a slow Telegram only delay.
  `ClosesRecovered`: a journaled close is reported with all that its symbol
  realised since the newest earlier record of it in the journal. So the profit is
  that of the close when the record sent just before it is there; otherwise it
  includes the funding, partial closes, fees and whole trades whose records are missing.
* `OneOrder`, `FailureExplained`, `ImplementsRemote`, `CallEnds`: retries never
  place twice, an answer that arrived is not turned into its opposite, nothing
  takes effect after its end but a cancelled call, and every call ends,
  during maintenance and under the rate limit too.
* `SoundOrder`, `RiskKept`, `StopSnapped`: an order that is sent is on its grids
  with stop and target on their sides; the stop the quantity was sized for costs no
  more than the risk; and snapping moves the stop away from the entry, by
  less than two ticks, never towards it. For the scalper the bounds are
  weaker: the stop is off by half a tick either way, and a position risks, from its
  fill to its stop, the risk or what the smallest quantity risks, and on top the
  quantity times the slippage of its fill and half a tick. The excess occurs:
  the trade of `logs/bybit_bot/AVAXUSDT-2026-06-03.jsonl:283` (116.9 at 7.972, stop
  8.146), far from the smallest quantity, risked 20.34 of a risk of 20.
* `SignalsAreRetests`: the scan with its early exits finds exactly the first
  rejected retests. `SignalsStay`: one more candle neither back-dates nor
  withdraws a signal, except where the displacement itself grows, the block
  slides out of the frame, or the frame slides and its ATRs, seeded by another
  candle, make the displacement strong or weak that was not. In particular a
  close through the block does not withdraw it.
* `TradesAreDue`: the bar-by-bar walk of the backtest makes the trades that
  follow from the setups alone. `NewestStood`: although an hour's trend is put
  on its bars in hindsight, the newest row, the only one the bot acts on, was
  there when its bar closed.

Each property has a mutant, an operator named `Fault...` beside the definition
it replaces: a plausible slip in the mapped code (a dropped guard, a missing
`set_pending`, an off-by-one in the expiry) under which the run reports that
property violated.

### Where documents and code disagree

Two runs refute a statement of the repository about its own results.

| run | statement | what happens |
|---|---|---|
| `claim_tracker` | `account_pnl_tracker.py:5`: callers add each new close's PnL | the field that is read is absent from the position stream, so 0 is added |
| `claim_lookahead` | `trading_service.py:592`, `README.md:37`, `tests/test_strategy_parity.py:131`: no lookahead | candles are matched by the time they open, so a closed hour's trend stands on bars that closed before it; the backtest trades on it |

Other disagreements met while modelling, on which no run is spent:

*Symbol bots.*
- Without signals TradingService leaves the pending order (`README.md:43` and
  `order_manager.py:367`: it is removed).
- The candle guard is in memory (`README.md:391`, `trading_service.py:352`: restart-safe).
- It compares the peeked candle, not the one the cycle fetches: a candle that
  closes between the two (`trading_service.py:360`, `397`) is processed twice
  (`README.md:771`, `trading_service.py:21`: the guard prevents it). `CandleOnce`
  says that this, and failed peeks, are the only ways.
- `_teardown` only logs (`README.md:778`, `trading_service.py:553`: no orphan).
- `reconcile_cycle` looks at the tracked order only (`README.md:762`: it cancels
  all but the most recent).
- Only the newest signal is aged (`README.md:255`, `568`: the order has a lifetime).
- The most recent orphan is not always the one kept (`reconciler.py:107`): for
  re-entries the sort key is the attempt.
- Re-entries do not always avoid ErrCode 110072 (`bot_state.py:56`): a fill seen as
  "not on exchange" (`reconciler.py:154`) is not counted, and the next entry on the
  bar reuses the link id; `logs_ob/events_BTCUSDT.jsonl:839` records one.
- A block that breaks keeps its signal: the scan stops at the signal
  (`ob_signals.py:343`). `ob_trading_service.py:524` says "if the OB zone is broken,
  that signal no longer appears in the output" and hangs the cancel of the order
  on it. `SignalsStay` shows what the code does: such a row stays.
- One symbol's failing startup stops the others (`multi_symbol_runner.py:41`:
  errors in one symbol do not abort others; line 104 says gather raises). No
  property takes a side: `NoCycleCut` exempts the end after a failure.
- A signal does not end a single symbol that runs with a notifier (`main.py:246`).
- The rate limit holds per client and not across concurrent calls
  (`bybit_client.py:114`: 5 calls per second globally).

*Multi-scalper.*
- A signal may be traded twice after a restart, since the file is written after
  the answer (`app/README_BYBIT_BOT.md:26`), and beside an open position, since a
  failed query counts as none (line 30), which also reports a close that did
  not happen (line 28).
- A later profit reopens the entries (`daily_loss_guard.py:4`: for the rest of the day).
- The guard does not always "reset at UTC midnight" (`daily_loss_guard.py:7`): a
  request made before it and answered after it blocks by the old day's loss.
- The scalper sizes from the close and fills at the market, so it may risk more
  than its risk (`run_multi_scalper_bybit.py:804`; `RiskKept` says by how much).
- `normalize_price` has no modes `floor` and `ceil` (`run_multi_scalper_bybit.py:792`).

*Events, sizing, strategies.*
- `QueueFull` is raised in the loop's callback, not where `bybit_ws.py:63` catches it.
- After a first failed connect the notifier waits for its stop and never tries again.
- A broken line takes the next record with it (`ws_event_log.py:28`: at most one).
- The journal misses events after an overflow, a disconnect or a stop
  (`run_multi_scalper_bybit.py:888` takes it for complete).
- The deltas of the report telescope (`reconstruct_pnl.py:124`) to the symbol's total,
  but not trade by trade: a delta holds what missing records realised, and the
  fee of an opening and the funding fall between the trades if their records
  are there.
- `normalize_qty` clamps a quantity up to the minimum (`precision.py:80`: rounds down
  "to avoid exceeding intended risk"; line 88: "never round up"), and
  the stop that is sent is up to two ticks wider than the one the risk was
  divided by (`sizing.py:9`: exactly the risk).
- A doji between two runs gives one block twice (`ob_core.py:167`: one signal per
  block); rows are ordered by displacement, so the last one need not be the
  newest (`ob_core.py:168`); the "last opposite candle immediately before" may lie up to 20
  bars back.
- What a frame says of a block depends on where the frame begins, since the ATR
  is seeded there (`ob_core.py:66`): the backtest's one long frame and the bot's
  sliding ones may judge a displacement differently.
- The backtest fills at the entry price although the bar opened beyond it, and
  does not test the stop on the bar of the entry.
- M5 and H1 are two fetches; at the turn of the hour one may lack its newest candle.

## 4. Proofs

TLAPS proves, for every value of the constants that satisfies the named
assumptions:

| module | theorem | says |
|---|---|---|
| `OrderBotProofs` | `TypeCorrect` | `Spec => []TypeOK` |
| | `SlotCorrect`, `StrayCorrect` | `Spec => []SinglePending`, `Spec => []NoStrayOrder` |
| | `SlotRefined` | `AnswerLoss = FALSE` implies `Spec => ImplementsSlot` |
| | `PositionGuardCorrect`, `FreshSignalCorrect` | `Spec => PositionGuard`, `Spec => FreshSignal` |
| | `TrackedIsRealCorrect` | `Spec => []TrackedIsReal` |
| | `CandleOnceCorrect` | `Lag <= 1` implies `Spec => CandleOnce`: a candle is processed again only for the named reasons |
| `ScalperProofs` | `TypeCorrect`, `DurableCorrect` | `Spec => []TypeOK`, `Spec => []Durable` |
| | `TradedOnceCorrect`, `FlatEntryCorrect`, `ReportIsRealCorrect` | `Spec =>` the property |
| | `GuardClosesCorrect`, `GuardReopensCorrect` | `Spec =>` the property: the answer is as of the asking, however long the request |
| `BotProcessProofs` | `TypeCorrect`, `OneLateCycleCorrect`, `NoCycleCutCorrect` | `Spec =>` the property, for any set of symbols and number of signals |
| `EventStreamProofs` | `TypeCorrect`, `AccountedCorrect` | `Spec => []TypeOK`, `Spec => []Accounted` |
| | `LogRefined` | `Spec => ImplementsLog` |
| | `ClosesRecoveredCorrect` | `Spec => []ClosesRecovered`, for any symbols, profits, moves, fee and losses of records |
| `ClientCallProofs` | `TypeCorrect`, `OneOrderCorrect`, `FailureExplainedCorrect` | `Spec =>` the invariant, for any number of calls and retries |
| | `RemoteRefined` | `Spec => ImplementsRemote` |
| `OrderSizingProofs` | `TypeCorrect`, `StopSnappedCorrect`, `RiskKeptCorrect`, `SoundOrderCorrect` | `Spec =>` the invariant, for any grid, risk, fee, signal and slippage, with the exceptions that `RiskKept` names |
| `OrderBlocksProofs` | `SignalsAreRetestsCorrect` | `Spec => []SignalsAreRetests`, for frames and candles of any size |
| | `SignalsStayCorrect` | `Spec => SignalsStay`, for any span of the ATR |
| `TrendSetupsProofs` | `NewestStoodCorrect` | `Spec => []NewestStood`, for hours and frames of any length |
| | `TradesAreDueCorrect` | `Spec => []TradesAreDue` |

Assumptions are the named `ASSUME`s of each module: ranges of the constants,
`None` and sentinels that are nothing else, and two with a content of their own,
`BarAssumption` (an attempt number is never as large as a bar: epoch seconds
against a small counter) and `ClockAssumption`, for `OrderBot`. TLC evaluates all
of them in the runs.

The argument. `TypeOK` is not inductive alone: an amendment or a re-creation
writes `Signal.price` and `Signal.bar`, so one must know that at those call sites there
is a signal and a pending order (`SitesHold`), and that a live order has prices
(`PricesKnown`). Their conjunction is `TypeInv`; `TypeStep` preserves it with
one lemma per part of the state. `SinglePending` is strengthened to `SlotInv`:
with no placement answer lost, every live order is tracked while the loop runs;
during startup it is among `stale` and `adopt`; at `create` nothing is tracked,
hence nothing lives. The lemmas `LiveMoves` and `LostMoves` say which actions can make
an order live and which can reset `lost`; only a placement does the former and
only the end of the startup the latter. For the guards, `GuardInv` says that past the checks the
locals of the cycle still witness them. `SlotRefined` maps an accepted placement
to `Place`, the end of a live order to `Release`, all else to a stutter. `CandleInv`, under
`Lag <= 1`, is that past a successful peek a cycle has seen a later candle than the last
one marked, and that a loop which is not asleep has a newer candle before it than
the last one marked and the last one handled, because it only wakes up for one:
the guard itself compares for equality, and rests on the clock. A fetch is no
older than the candle before the newest, hence not older than `handled`; when it
is `handled` again, either nothing was peeked or the mark is older than it.

For the scalper, three invariants beside `TypeOK`. `RecordInv`: files and
memory agree; every traded signal is in the seen file, excused, or at `answer`;
a signal on its way to an order is not in `seen`. The last is what `Decide`
establishes and the reason why no second visit can slip in between: there is
one coroutine. `SawTheTruth`: from the position query to the order only this
visit could open a position, so a successful answer "flat" is still true
(`OpenMoves`). `CacheInv`: a value in use was asked for after an `old` breach, and
one of today over the limit is proof of a hit. `RequestInv` says the same of the
value that is awaited, as long as no midnight and no `refresh_s` has passed
(`today`, `fresh`), and, whatever has passed, that what the guard will answer
agrees with what was so when it was asked (`wasOld`, `wasHit`): the first part
makes the second kind of fact true of the cache when the value arrives.
`GuardMoves` reduces the steps to those that touch the guard.

For the process, `Inv` adds to the types that a symbol that is not served, or
whose services are not built yet, is idle; that a service that has begun a cycle
after its `stop()` is in that cycle, in the sleep behind it, or done
(`LastCycle`: a sleep that finds `shutdown` set leads out of the loop); and that
the runner disconnects only after a failure.

For the event stream, `OrderInv` says that the numbers in journal, queue and
callbacks, in this order, increase and do not exceed the count of events. That
makes each journaled record a `Write` of `LossyLog`; every other step stutters
there or is its `Send`. The lemmas about sequences come first.

For a call, `OutInv`: a request is on a thread only while its coroutine waits
for it or was cancelled; `LinkInv`: a placement has opened one order or none,
according to its link id being used; `SuccessInv`, `AnswerInv`: what ended well
was effective, and an effective call with a bad answer has lost one. For
`RemoteRefined` the effect of a request maps to `TakesEffect`, the end of the
coroutine to `Ends`.

For sizing, lemmas say what division and the two roundings do (`Down` and `Up` stay
within a tick, on the grid, and keep the order); `StageInv` and `QtyInv` carry, from
stage to stage, how far the stop is from the entry and what the quantity
times the divisor is at most; `OrderInv` holds once the order is sent. The
scalper's bound adds, to the risk of the distance it was sized for, what the
fill and the rounding of the stop put on top of it.

For the newest setup, `FramesInv` counts the hours that have closed. A bar whose
hour is still open shows the same last closed hour then and now. A bar whose
hour has closed since has later bars of that hour, with that hour's trend: if
it is flat they and the bar itself show nothing, else the bar is not the
newest; so only the last bar of an hour is left, which closes with it.

**What goes along the bars.** The scan of a block, the ATRs of a frame,
the backtest's walk, the order in which setups become orders, and the trade
report are recursive functions on an interval of numbers. Their values follow by
induction, and each module that needs it proves the two facts it takes: `Induction`,
for a *set* of numbers, from the least element that a well-founded order gives
(`WFMin`), and `Recursion`, that a function with a given first value and a given step
*function* exists, so that the CHOOSE behind a recursive definition has something
to choose. (The library's theorems state both with an operator as a parameter,
which the provers cannot instantiate.)

* Scan: `StageMeans` says what each of the four stages of the scan means at a bar
  in terms of the candles since the block, hence `ScanCorrect`: a signal is found at
  the first rejected retest and nowhere else. `SignalsAreRetests` is about every
  frame; the state only adds that it is a sequence of candles (`FrameOK`).
* Sliding frame: a candle more shifts each index by one once the frame is full
  (`FrameSlides`). The runs, the blocks and the retests of the bars that stay are
  those of the old frame, shifted (`RunMoves`, `BlockMoves`, `RetestMoves`). Not so
  the ATRs: a frame that still grows keeps them, and with them the strength of its
  displacements (`StrongStays`), one that slides has others, and nothing is claimed
  of displacements that they judge otherwise. `SignalKept` is the one direction of
  `SignalsStay`, `SignalFound` the other.
* Walk: `WalkInv` couples, bar by bar, the state of the walk with the list of due
  orders: the pending order and the open position are those of the setup that keeps
  the list busy beyond this bar (`PendsIsBusy`, `HoldsIsBusy`), and the trades made
  are the due ones that have ended. `PlaceStep`, `PendingStep`, `PositionStep` are
  the three parts of a bar.
* Report: after any number of records, the baselines are the figures of the last record of
  each symbol (`BaselinesMean`), every trade is a close with a record before it
  (`TradesMean`), and every such close is a trade, with the difference to the latest
  record before it (`ClosesMean`). `CumInv`, an invariant of the state, says that from
  one record of a symbol to the next the figure moves by what the later one
  realised, be it an opening, a close or a move in between; summed up, the figures
  of any two records differ by what was realised between them (`RealisedIs`, by
  induction along the events). The journal is ascending (`OrderInv`), so the latest
  record the report has seen is the newest journaled one before the close.

Every safety and action property that a run checks is a theorem. Only
model-checked is liveness (`ShutdownEnds`, `GoneIsNoticed`, `CloseNoticed`,
`PositionFollowed`, `StopEnds`, `EventJournaled`, `CallEnds`): fairness
is out of the prover's reach.

## 5. Not modelled, and why

* Notebooks, `research/` and most of `scripts/`: offline analysis. They are nine
  tenths of the lines of the repository (stored outputs above all), so the
  share of all lines that the modules stand for is small whatever is modelled of
  the bots. Only the reconstruction of trades from the event journal reads what
  a bot wrote, and it is modelled.
* Strategy filters and fair-value gaps: predicates over the rows of one frame,
  off by default, which only remove signals; `OrderBot` and `Scalper` hold for
  any subset of signals.
* `dry_run`: it skips every call that changes the exchange. `--once`, `--backtest`.
* Telegram's texts, CSV, telemetry: output that nothing reads back.
* `cleanup_orphan_orders`, `cancel_all_pending`, `pending_is_expired`,
  `commands.register_handlers`: no caller outside the tests.
* The rate limiter's clock: the gap between calls only delays them.
* `DailyLossGuard`'s page of at most 100 records: the module has their sum.
* What becomes of the other services after one has failed, an order that is triggered
  when the bot forgets it, a stop during the login: each is a step of a
  module that no property judges, since code and documents want different things
  or the code has no answer (see the notes of these hazards in `PROJECT.json`).
* The rounding of floats in ATRs and sums.
* In the scalper: the profit figure that a close report carries, and disks that
  refuse a write without the process dying.
* The row `OrderManager` takes for the newest signal: `OrderBot` lets the
  strategy answer any, so its properties hold whichever is taken.

## 6. What could follow

1. The filters as predicates on `TrendSetups` and `OrderBlocks` frames: which of them keep
   `NewestStood` and `SignalsStay` true.
2. H1 frames that lack their newest hour, to relate `TrendSetups` to the two fetches.
3. The daily guard's paging, with the day's records as a sequence.
4. `OrderBot` with the interface of `RemoteCall` in place of its own list of
   outcomes, so that the two are composed and not only compared.
