# Kythera in TLA+

Kythera is a fleet of Python processes that trade crypto futures through
Telegram: data collectors fill PostgreSQL with candles, detectors and models
post signals, a dispatcher hands them to Telegram channels that the order
executor Cornix reads, monitors score the open trades, an orchestrator re-posts
the signals of bots that do well in the current market regime, and a watchdog
keeps all of it running. The processes share no memory. They meet in database
tables, above all in `telegram_outbox`, `ai_signals` / `closed_ai_signals`,
`orchestrator_open_trades`, the mirror table of the trailing bots and the candle
tables, and in a few state and marker files.

What goes wrong in such a system goes wrong between processes: a commit that is
lost after the message was delivered, two processes that move the same row, a
regime that flips while its predecessor's trades are being closed, a restart in
the middle of a gap. This project models those parts.

    module              models
    Outbox              4_telegram_bot.py, the dispatcher
    SignalChannel       what the dispatcher promises (abstract)
    OutboxProofs        theorems about Outbox with any number of dispatchers
    OutboxOrderProofs   theorems about Outbox with one, and its refinement
    Orchestrator        28_signal_orchestrator.py, with the processes around it
    OrchestratorProofs  theorems about Orchestrator
    Monitor             8_ai_trade_monitor.py and core/monitor_catchup.py
    MonitorProofs       theorems about Monitor
    Trailing            40_trailing_close_bot.py and 44_, with outbox and Cornix
    TrailingProofs      theorems about Trailing
    Watchdog            main_watchdog.py and core/process_control.py
    WatchdogProofs      theorems about Watchdog
    Candles             1_data_ingestion.py, the gap filler of 6_housekeeping.py,
                        2_indicator_engine.py, joined by core/candles.py
    CandlesProofs       theorems about Candles
    Snapshot            candle_snapshot_service.py, core/candle_snapshot.py
    SnapshotProofs      theorems about Snapshot
    MC*                 small instances of the above, one .cfg per run
                        or recorded disagreement (section 9)

Modules named `X` are checked by `tlc -config MCX....cfg MCX`, proofs by `tlapm
XProofs.tla`. `PROJECT.json` lists the runs, the source lines each definition
stands for, the hazards the properties are aimed at, and for every property a
mutant: a definition headed "Faulty:" in the module, which put in the place of
the next definition breaks the property. Faulty definitions are no part of any
model.


## 1. Inventory

| component | state | operations | hard behaviour | correct when | here |
|---|---|---|---|---|---|
| outbox dispatcher `4_telegram_bot.py` | `telegram_outbox`, chart files, batch in memory | expire, recover, fetch, claim, send, mark | crash or lost commit around a send, unknown outcomes, flood control, second dispatcher | a trade message is accepted at most once, in order per channel, and settled in the end | modelled |
| signal orchestrator `28_signal_orchestrator.py` | `orchestrator_open_trades`, its twins in `ai_signals`, `trade_cooldowns`, remembered regime, cursor | gate and forward, re-judge after a flip, trail, close, sync, reap | flips at any time, symbol-wide Close, other movers of the twin, crashes between commands and rows | one trade per coin, every trade accounted for, no winner flattened, nothing forgotten | modelled |
| AI trade monitor `8_ai_trade_monitor.py`, `core/monitor_catchup.py` | `ai_signals`, `closed_ai_signals`, watermarks, state file | poll, read candles, score, close, catch up | forming candles, stale coins, restarts, roll-backs | no hit is passed over, none counted twice, none from before the trade | modelled |
| trailing close bots `40_`, `44_`, `core/trailing_state.py` | mirror table, peaks, `telegram_outbox` | read, judge, close, admit, place, post | restarts and exceptions between commits, Closes that act on a symbol, full channels, a second process | no trade is left alone, no foreign one closed, limits hold | modelled |
| watchdog `main_watchdog.py`, `core/process_control.py` | child processes, back-off deadlines, marker files, a mutex | reap, start, supervise, restart, park, shut down | crash loops, orders racing restarts, several watchdogs, kills and signals | one fleet; a wanted process runs, a parked one is stopped | modelled |
| ingestion `1_data_ingestion.py`, `core/candles.py` | candle tables, stream buffer | stream and flush, REST catch-up, freshness job | lost flushes, late writes, disconnects, crashes, refused requests | every candle ends up with its final values | modelled |
| indicator engine `2_indicator_engine.py` | indicator tables | probe, check for holes, compute, save | holes and corrections arriving meanwhile | no row over a hole, rows follow corrections | modelled but for the arithmetic |
| housekeeping `6_housekeeping.py` | gap watermark, all trade tables | fill gaps; move delisted trades, delete old rows and charts | downtime, refused requests, races with monitors | no hole outlives the next night; each trade recorded once | gap filler modelled, clean-up as a mover of Monitor |
| candle snapshot `candle_snapshot_service.py`, `core/candle_snapshot.py` | frames in memory, back-offs | sweep, read, answer, refuse | frames replaced within a request, crashes, clocks, failed reads | an answer is what the database would say, and never stale | modelled |
| classic trade monitor `5_trade_monitor.py` | `active_trades_master` | as the AI monitor | as there | as there | planned |
| signal posting `core/signal_post.py`, `core/shadow_gate.py` | `ai_signals`, outbox | post or shadow a leg | partial writes | row and message appear together | planned |
| regime detector `26_`, `core/regime_logic.py` | `regime_current`, pending regime | debounce, confirm | flapping, restarts | no confirmation without persistence | planned |
| runners `45_`, `46_`; DB pool and state files `core/database.py`, `core/state_utils.py` | schedules; connections; files | run due jobs; borrow and return; atomic replace | overruns; exhaustion; crash in a write | no slot skipped or doubled; no leak; old or new file | planned |
| regime analyzer `27_` | `bot_regime_whitelist` | statistics | none | numeric | constant `Cell` of Orchestrator |
| detectors, strategies, model bots (`3_`, `7_`, `9_`...`47_`, `strategies/`) | own tables | one INSERT into the outbox | none beyond the outbox | numeric | environment (`Enqueue`, `PostSignal`, `Forward`) |
| market tracker, collectors, dashboard, chat bot, backtests, trainers | | charts, logging, UI, numbers | | | not modelled |

How they interact:

    bots ──INSERT──> telegram_outbox ──claim/send──> Telegram ──> Cornix
                       │      ^                         ^
              scan     │      │ forward / SL / Close    │ (dispatcher)
                       v      │
                    orchestrator ──row+twin──> orchestrator_open_trades, ai_signals
                       ^      │                                      │
    regime detector ───┘      └── forced close ──> closed_ai_signals <── AI monitor
                                                                     <── housekeeping
    ingestion ──candles──> AI monitor, classic monitor ──state file──> catch-up
        │  ^                                            ai_signals
        │  └── gap filler (housekeeping)                    │ read
        ├──candles──> indicator engine                      v
        └──candles, indicators──> snapshot ──> bots    trailing bots ──INSERT──> outbox
    watchdog ──starts, stops──> all of these <──marker files── dashboard, health monitor


## 2. The outbox dispatcher: Outbox, SignalChannel

**State and code.** `status`, `sent`, `failed` and `attempts` are the columns of
the row of each message; `accepted`, `latest` and `refused` are Telegram's side,
which the code cannot see. Each dispatcher process has a `pc` with the place in
`process_outbox` where it is, the rest of its `batch`, the channels `blocked` in
it, the row in hand (`cur`), the exception or result of its send (`reply`) and
the orphans it has read but not yet updated (`stuck`).

A poll is the sequence of transactions of the code: `ExpireStaleSignals`,
`RecoverStaleSending` and `ResolveStuck` (one transaction whose SELECT and
UPDATEs are apart, because the UPDATEs check nothing again), `Fetch`; then per
row `ClaimForSending` (committed before the send) or `SkipClaimed`, `Send`, and
one of `MarkSent`, `FloodControl`, `OutcomeUnknown`, `MarkFailedPermanently`,
`MarkFailure`, one per group of `except` clauses. A crash may come between any
two steps and, with the chart already deleted, inside a mark; so may a failing
commit (`LoopError`), which leaves the batch for a new poll.

**Abstractions.** Clocks only matter through two comparisons: a row is `aged`
past its time to live, and `lapsed` past the recovery grace. The rate limits
decide which channel may send now, so any channel with rows in the batch may.
Telegram decides at the send: "ok" was accepted, "unknown" (time-out, transport
error) may have been, any other exception was not. Rows become visible in the
order of their ids here (the orchestrator's model has the other order). The
`TelegramError` branch for "chat not found" is covered by "nochat". What
housekeeping deletes is left out.

**Runs.**

- `outbox`: one dispatcher; two trading rows that share a chart, the first with
  malformed HTML, and an info row; one fault. `OneInDoubt`: of a channel one row at
  most is unsettled. `SettledForGood`: the verdict on a row is one (the two booleans
  that housekeeping reads agree with status, also at the last attempt: `OneVerdict`)
  and final. `ImplementsSignalChannel`: table, dispatcher and Telegram together are
  SignalChannel, a queue that may lose but never doubles or swaps; it includes
  `FifoPerChannel`. `ChartKept` is stated in the module too and holds of this
  instance (checked by hand, in no run).
- `outbox_two`: two dispatchers, one of which may recover rows the other is just
  sending. `AtMostOnce`: a trading row is never accepted twice; `LedgerTruth`: what
  the table says of it is true. Order and the single row in doubt depend on there
  being one dispatcher, which the fleet ensures (module Watchdog). Of the liveness
  properties `TradingSettled` and `DoubtResolved`; trading rows only, as an info row
  may be flooded for ever. No crash here: what it leaves behind, a row 'sending' that
  nobody holds, is also what an unknown outcome leaves.

**Bounds.** Two rows of a channel are what order, locking and a shared chart
need, the third makes a second channel; `MaxAttempts = 2` has a first and a last
attempt; one fault is a lost commit or a crash anywhere, and a row survives at
most one before it is recovered. `accepted` stops counting at `Copies = 2`, twice
being what the property forbids. Two dispatchers have two rows of one channel and
batches of one; more dispatchers are a matter of the proof.

**Fairness.** `FairSpec` lets each process run (weak fairness on its loop: it
never blocks, a send has a time-out, the watchdog restarts it) and time pass
(`Age`, `Lapse`). Nothing is assumed of Telegram's replies: it may answer with
flood control for ever, and the row then expires.


## 3. The orchestrator: Orchestrator

**State and code.** A trade is a row of `orchestrator_open_trades`
(`status`, `action`, `origin`) and, joined by channel and a ±60 s anchor in the
code, by the same number here, its `twin` in `ai_signals`; `booked` counts its
rows in `closed_ai_signals`. `regime` is the pair (regime, alt_context) of
`regime_current`, `unstable` the reliability flag that switches the decision to the
fallback. The loop of `main_loop` is the sequence of phases in `pc`: the regime
stage (`NoFlip`, or `Flip` and the re-judging pass), the gating pass (`Scan`,
`Forward`, `Suppress`), the lifecycle sync (`Reap`, `Match`). The re-judging pass
(`Judge`, `SendTrail`, `MarkTrailed`, `DeferClose`, `SendClose`, `MarkClosed`,
`ForceRead`, `ForceMove`) is one step per transaction, because the command to the
outbox, the row and the move of the twin are committed on different connections.
`Start` runs the same pass as startup reconciliation. Around it the bots
(`PostSignal`), the monitor (`MonitorCloses`), an operator (`TwinDeleted`), the
detector and time take steps of their own.

**Abstractions.** A candidate not whitelisted is trailed or closed by free choice
(profit at the moment). Prices, S/R levels and texts are left out: `Suppress` may
refuse any row. The cells of the whitelist are constant; that a cell older than 48 hours
falls back (28_signal_orchestrator.py:341-352) is the same step as an unreliable detector,
since `unstable` may change between any two decisions. Statuses
`CLOSED_BY_OUTCOME` and `CLOSED_BY_REAPER` stand for the CLOSED_TP / CLOSED_SL /
CLOSED_NEUTRAL that the sync writes and the CLOSED_NEUTRAL of the reaper.
Auto-close is on, as configured; `TRAIL_WINNERS_ON_REGIME_CHANGE` is a constant.
The detector confirms a regime after ten minutes while the orchestrator looks
twice a second, so a running orchestrator has seen a regime before the next, and a pass is
overtaken by one change at most; one that is down may miss any number. `LIMIT 100` of the scan and
operator commands in the trading channel are left out.

**Runs.**

- `orchestrator`: crash, exception and every interleaving with the monitor, with
  trailing on. `OneOpenPerCoin`, `OpenIsAccounted` (row, twin and booked outcome
  are never lost together), `ClosedMeansTold` (no close on paper only),
  `ForwardedOnce` (across restarts that lose the cursor), `Rejudged` (a flip during
  downtime or within a pass leaves no unjudged trade; before an exception, which
  ends a pass for good), and before any fault `TwinIsTracked` and `TrailedNotClosed`
  (no symbol-wide Close hits a coin with a trailed winner). After a crash or an exception between
  the row's commit and the forced close a twin does stay behind, and one between
  a Close and its row makes the next pass trail a trade already told to close; that
  is why these two end with the first fault.
- `orchestrator_legacy`: two rows that share a coin, as before the one-per-coin
  rule, an unreliable detector, faults, and twins deleted by hand. Under fair scheduling
  `CoinFreed`: a row whose twin is gone does not block its coin for ever.

**Bounds.** One coin, both directions, two bots and two regimes with a whitelist
in which each combination of kept and dropped occurs; the properties are about one
coin, and coins meet only in the order of a pass. Three signals and two trades
give a trade, its close, and a successor. One crash and one exception hit every
gap between two transactions.

**Fairness.** The loop runs; the lifecycle sync, due every few seconds, happens
again and again (strong fairness of `Reap`, since `SkipSync` models the ticks in
which it is not due); a trade gets old.


## 4. The AI trade monitor: Monitor

**State and code.** Time is the index of the forming 5-minute candle, which
`Tick` moves and `NextCandle` completes. `row` is the committed table, `work` the
table inside the monitor's transaction; they are made equal by the commit after
`BATCH_SIZE` changes, by the one at the end of a pass, and by the roll-back. `Poll`
reads the trades, `Read` the candles of all coins from `First`, `Take` and
`ScoreCandle` score one trade candle by candle (`Verdict`), `EndPass` commits,
disarms the catch-up and may write the state file. `Start` is `resolve_catchup`.

**The inputs are as their writers deliver them.** `candle` is the market, `stored` and
`db` are what the database has of it. The stream of 1_data_ingestion.py brings the
forming candle; it may be lost (`Loses`), and when it is back (`StreamBack`) it brings the
newest candle first, not those it missed. REST makes them good: `Freshness` the last two
while no stream delivers anything, `CatchUp` a day back, at a start of ingestion and every
twelve hours, before or after the stream is back, and all of it or a first part. So the
newest stored candle of a coin may lag, up to the stale cutoff, behind a trade that was
just posted, and the monitor, which begins an unseen trade with that candle, does so here
(`First`). The orchestrator's forced close and housekeeping's clean-up of delisted coins
read a row and later insert its outcome and delete it without asking whether it was
still there (`MoverReads`, `MoverWrites`).

**Abstractions.** Prices are a small ordered set. The monitor scores the candles
read at the start of the scoring, so prices and candles that arrive meanwhile count as
arriving afterwards. Three seconds of flushing are not apart from the price. `fillAt`
keeps the candle that filled an entry; the table has a boolean, and no guard reads more
than that. The leverage stamp, the close time, the schema safeguard and rows with
an invalid entry are left out. A state file that is older than `MaxGap`, and a
catch-up that ended by its pass limit with trades unscored, are gaps the code
gives up with a warning; `abandoned` records that and the properties except it.

**What the monitor does lose.** Three things make candles come too late for it, and
`late` has the coins they happened to: an older candle is stored, or completed, after a newer
one, over which the watermark has gone by then; the first candles of a trade it has never
scored are stored after its coin had been stale; or candles are stored after the state
file has gone past them by the overlap, for it is renewed with every completed pass,
whether a coin is stale or the catch-up still armed (the overlap is 15 minutes, the
stale cutoff 30). `NoHitLost` and `EventuallyBooked` except these coins and nothing
else; `StaleMadeGood` does not except them and is false (section 9).

**Runs.**

- `monitor`: either a trade with two targets and a trailing stop, or a limit order
  that may be filled, end or expire, or a row without targets; a crash and a lost stream
  in any order, and every way of its candles to come back.
  `NoHitLost`: a trade that is still open and was scored up to its watermark is no
  less far than under the reference `Ideal`, which scores every completed candle
  of the market once, whatever the database had of it. `NeverBackdated`: no catch-up scores a
  candle from before the trade. (Without a catch-up, the newest candle of a lagging coin may be
  one; 8_ai_trade_monitor.py:319.)
- `monitor_live`: one trade, another mover, and one of: an exception, a lost reply to a
  commit, a crash, a lost stream. `BookedOnce`: whatever others move, the monitor records a
  trade only with taking its row away, at most once and never after another process; no
  row goes unrecorded, none comes back. That a mover records a trade a second time is a
  disagreement of section 9. `EventuallyBooked`: a trade that ends in the reference ends in the table.
- `monitor_rollback`: see the findings.

`MCMonitorCoins.cfg` (by hand, 4.4 million states): two trades on two coins, each stale at
different times; the catch-up waits for the slower one, and not for ever (`NoHitLost`,
`TypeOK`, which bounds the passes).

**Bounds.** Three candles are one before the downtime, one during it and one after; a coin is stale
after two; a crash at every place; the overlap of one candle and a gap limit above the number of
candles (so that the limit is not the reason a run passes; a missing state file is). `MaxPosts` = 1
lets a run choose among kinds of trades without paying for their product: trades of one coin do not
influence each other but through the batch commit. Exceptions are left out of the run of
`NoHitLost`, which they violate: that is `monitor_rollback`. Several coins and restarts together are
a matter of the proof, which needs neither bound.

**Fairness.** The process runs and is restarted; the twelve-hourly catch-up comes again and
again and brings what a coin lacks (strong fairness of the complete `CatchUp`, which cannot
be written while a pass is scoring). Nothing is assumed of streams.


## 5. The trailing close bots: Trailing

**State and code.** A source is a row of `ai_signals` (`ai`); it is mirrored at most once,
so `table` has one row per source, open or closed, with the columns the code reads
back: `posted`, `channel`, `filled`, `entry`, `mirror`, `peak`. `outbox` is what the bot has
written for each of its channels and the dispatcher has not sent, `cornix` the trades,
or resting orders, at the exchange bot. A cycle of `main` is `ReadSources`, `ReadMirrors`
(rows and one batch of prices), a poll that judges one mirror after the other, and
`open_mirrors`: `Survey` (stale sources, occupancy), then `Refuse`, `PassOver` or `Mirror` for
each candidate in the order of density. A poll has one action per outcome, in the order
of the code's conditions: `FollowSource`, `SkipUnpriced`, `BookStop`, `AwaitFill`, `TrailClose`,
`TimeStop`, `Hold`. Each ends at the code's COMMIT, and an exception (`Fail`) or a death (`Die`)
may come between any two. What a cycle read (`seen`, `mine`, `price`, `adm`) is kept per
process: it is stale by the time it is used.

**The environment.** The dispatcher settles the rows of a channel in order, each by delivering it
(`Deliver`) or by losing it (`Lose`: it expired after 15 minutes, its outcome was unknown and it
became a dead letter, or its attempts are used up; 4_telegram_bot.py:139-213). That is
SignalChannel, which Outbox implements. An entry that is delivered opens a trade, a Close ends all
of its symbol in that channel; a trade whose Close is lost is `stranded`, and nothing in the code
looks for it: the row is closed when the Close is posted. Cornix ends trades at any time by itself.
Prices are arbitrary from one cycle to the next, except that a batch shows no stop reached of a
trade that Cornix still holds: both see the same market. With `PromptEntries` an entry is not on its
way any more when the market has reached its stop. Ages are classes (fresh, cooling, locked).

**Runs.**

- `trailing`: one process; two sources of one symbol, or a long one with a legacy row, or
  two long ones; shadow or live; one fault. `NoTradeForgotten`: a trade at Cornix, or an
  entry on its way, has an open row in that channel or a Close behind it, unless its Close
  was lost by the dispatcher. `CloseHitsOwn`: a Close, which acts on a symbol, ends no trade but
  the one it was posted for, although the symbol may be mirrored again meanwhile, and any whose
  own Close was lost. `PeakKept`: the stored peak is the best mark
  the mirror was ever judged by, over cycles and restarts. `ExitsJustified`: the trail
  closes only what has been above the activation, the time stop never such a one.
  `ExposureBounded`, as admission counts.
- `trailing_live`: live, with a fault, or with a second process as a failed stop would leave.
  `MirroredOnce`: a source is posted once. `SlotsRespected`: one channel with one seat, a row
  from before channels were recorded, and candidates that find it full. `SourceFollowed`: when
  the fleet closes a source, its mirror is closed and the account flat in the end, for good, with
  or without a price, but for a trade whose Close was lost.

**Bounds.** Prices 0 to 3 have a stop, an entry, and marks below and above the activation;
half the peak fires the trail. `Casts` says which sources and processes take part, because
only sources of one symbol, on two sides or for one seat influence each other. Slots and
exposure are capped at one, so that the cap is always near: with one channel a second
mirror is refused for want of a seat, with two (run `trailing`) the emptiest is chosen and
exposure is what refuses.

**Fairness.** Each process goes on with its cycle, a source gets old, and a row of the outbox is
settled in the end, delivered or lost as the dispatcher likes: that is `TradingSettled` of Outbox,
which holds under endless flood control too, because a row that is not sent expires.
Nothing is assumed of prices: they may be missing for ever.


## 6. The watchdog: Watchdog

**State and code.** Each watchdog has a `pc` (mutex, reaping, sweep, staggered start, loop, shut
down), the bot at hand (`at`) and the step with it (`op`). `child` says what it has of each
bot: nothing, a running or a dead entry of `running_processes`, or a process that
`Popen` has returned and that is not entered yet. Processes whose watchdog is gone are
counted in `strays`. `parked` and `asked` are the marker files of `core/process_control.py`;
parks left from before the start are among the initial states.
`supervise_process` has one action per return (`StopParked`, `ObeyRestart`, `AwaitDeadline`,
`StartMissing`, `NoticeCrash`, `Recycle`, `LeaveRunning`), `check_heartbeat` is `Beat` or
`RestartHung`. A signal or a hard kill may come between any two steps.

**Abstractions.** Stopping a process ends it: `kill_process` escalates to a kill, and a
process that survives even that is not modelled. Crashes of the last hour are counted
up to two, as only none and some differ in kind. The dashboard process, which no rule here
depends on, and the alerts of the health checks are left out; the latter may hold up the
loop while the database does not answer.

**Run.** `watchdog`: two watchdogs, two bots, one kill or signal, two crashes or hangs, one
order. `NoDouble`: no bot runs twice, whoever starts and dies. `OneWatchdog`. `ParkHonoured`: a
park wins over deadlines, crashes and requests. `RestartServed`: a request leads to a process
started after it; one order comes, in any phase of a start, a deadline wait or a restart
for a hang (a second one while the first is served is beyond `MaxOrders` = 1). `Recovered`: a bot that
is not parked comes back, at once or after its deadline. Two watchdogs are enough to reap, be reaped
and race; two bots give a staggered start with one ahead.
A second start ends a healthy first watchdog too (`ReapWatchdogs` does not ask); that is
as coded, and `NoDouble` holds. Without the mutex (`HasMutex = FALSE`, a failing call) two
fleets are possible; the code only logs that.

**Fairness.** The thread of a watchdog runs on, and a deadline passes. When no watchdog is in its
loop nothing is promised (`Unwatched`).


## 7. Candles and indicators: Candles

**State and code.** One coin, one timeframe. `now` is the forming period; a stored candle is "part"
or "final", an indicator row "good" if all candles in its lookback were final when it was computed.
The stream fills `buffer`, `Swap` and `Flush` are the flusher, whose failed write is not repeated;
`Catch` / `CatchInsert` are `process_coin` (fetch and insert apart), `Freshen` / `FreshInsert` the
freshness job; `Scan`, `FillRange`, `RangeShort`, `ReadFails`, `PairFails`, `Invalidate`, `Record`,
`NotCredible` and `HkStart` the gap filler with its watermark file; `Probe`, `Compute`, `Save` a
cycle of the engine for this coin. Crashes lose what is in memory. `Probe` reads the watermark and
the newest candle in one step, where the code has two queries (2_indicator_engine.py:780, 801), and
the engine makes one cycle per period; a cycle that runs over the end of a period (799-800) is not
represented.

**The gap filler's errors.** A range may come short: a refused fetch, single rows rolled back to
their savepoint, a transaction that has broken. The read of a pair may fail, which is passed over
and not counted; any other exception of the pair is. `should_record_gap_success` then takes one pair
without an error, this or another, as a credible run: `Record` moves the watermark, and the holes
this pair was left with are `skipped`. Or no pair was without one, `coins.json` could not be read or
the filler itself raised: `NotCredible`, the watermark stays and the next run looks again.

**Time.** `OnSchedule` says which work is done before a period ends: the flusher runs every
three seconds, the engine every cycle, catch-ups and nights when due, and a row fetched before a
close is not inserted a whole period later. `MaxDark` and `MaxSilent` bound downtime. These are
assumptions on speed, not consequences of the code; the safety property `NoRowOverHole`
does not need them (its proof does not use the guard).

**Run.** `candles`: eight periods, a catch-up in each that looks three back, a night every second
one, a disconnect, lost flush or crash, a catch-up cut short, an error of any kind in the gap
filler, a crash of housekeeping, three of these at most together. `NoRowOverHole`: no indicator row
over a missing candle. `Healed`: a candle is final after the catch-up that follows its damage, or
the next one if it was just closing; the periods the ingestion is down do not count. `HolesFilled`:
no hole is older than the margin before the last recorded run of the gap filler, whatever
housekeeping went through, but one that an error of a recorded run left open. `IndicatorsHealed`: a
closed candle has its row, and one computed from a candle that was not final is computed again with
the cycle that follows the catch-up. The legacy tables are the primary store (`DeletesRows`); under
the hypertable `delete_indicators_from` does not reach the rows read.

**Bounds.** What matters is how the time C between two catch-ups and the longest outage D fit
into the overlap and into the engine's save window: `Healed` is false with C + D = Overlap,
`IndicatorsHealed` with C + D > SaveBack. In code C is 12 h, the overlap 24 h and the save window
five rows, so

| candles | C, overlap | `Healed` up to an outage of | `IndicatorsHealed` |
|---|---|---|---|
| 4 h | 3, 6 | 2 candles | outages of 2 candles |
| 2 h | 6, 12 | 5 candles | not: C exceeds 5 |
| 1 h | 12, 24 | 11 candles | not |
| 30 m and less | 24, 48 and more | less than 12 h | not |

The instance has the shape of the first line (1, 3, 2 for 3, 6, 5). Candles of a day or a week
are longer than the schedules and not represented. Where the last column says "not", an
hourly row computed before a correction is written again only if the correction comes within
five candles: the comment at 2_indicator_engine.py:793-795, that a correction "is recomputed
at the next candle close", holds for those only. Eight periods hold an outage, its repair and
a second night.

**History.** `blind` notes that a run of the gap filler began when its window did not join the last
one's, because `MAX_SCAN` cut it, or when the newest candle was older than the margin, so that
a hole behind it had no right neighbour yet (`Sighted`). `since` counts the catch-ups after a
start until the engine has followed one.

**What the excepted cases stand for.** `Healed` and `IndicatorsHealed` ask that no REST answer was
refused; `HolesFilled` that no run began blind, and it excepts the holes `skipped` has. Otherwise
the code does leave damage, all of it in the model: a catch-up cut short leaves a hole its
successor, which starts at the newest candle, does not see (the gap filler does); a range that came
short, a failed read, or a failed pair beside a sound one leaves its hole behind the watermark; a
gap whose right neighbour is not there yet is no gap to a run at start-up, which records its
success; a hole in the lookback that nothing fills keeps the coin without indicators for good.


## 8. The snapshot service: Snapshot

**State and code.** `table` has the rows of the candle and indicator tables, `store` the frames of
`SnapshotStore`, each with the rows it holds and, for the property, the rows that were there to be
read (`seen`). A sweep is `Sweep` (`due_keys`), `ReadFrame` or `ReadFails`, `Put`. A request is
followed through both processes: `Ask`, `Take` (the service's clock), `Look`, `Slice`, `Stamp` (the
watermark, read from the store again), `Receive` (the client's check). Any refusal,
timeout or crash is `GoToDatabase`; the properties are about answers.

**Run.** `snapshot`: up to three periods, two candles and one indicator row kept, five reads (with
limit, with a start, joined, of an earlier end), a failed read, a crash. `SameAsDatabase`: an answer
has the rows the query would have had when the frames were read. `NeverBehind`: it comes from no
frame behind the close before the question, although the watermark checked may be that of a later
frame. `CatchesUp`: the store gets the newest closed row, or the next close comes first. Fairness:
the refresh loop and its threads run, a back-off ends, the watchdog restarts the service.

**Abstractions.** Rows are known by their period, values are not modelled: a correction of a
closed candle is not seen by a frame before the next close, as coded. The lower bound
`history_start` of a frame's query, which only saves work, is left out, as are encoding and columns.


## 9. Findings and recorded disagreements

The run `monitor_rollback` is violated: it states what a comment of the code says. Watermarks
survive the roll-back of what was scored; 8_ai_trade_monitor.py:115-117 says of them that "SL/TP hits
between polls/after stale phases don't get lost".

Further configurations, no runs of the project but kept to be run by hand, each violated
by what the code does against what is written in it:

| configuration, property | the code | the comment |
|---|---|---|
| `MCOutboxRefused`, `RefusedIsRetried` | In python-telegram-bot `BadRequest` is a `NetworkError`; an HTML rejection leaves a trading row 'sending', then dead_letter, with one attempt | 4_telegram_bot.py:27-30, "genuinely retryable" |
| `MCOrchestratorFailClosed`, `FailClosed` | the flip is remembered before the closes; after a failed stage the next tick gates | 28_signal_orchestrator.py:1797-1798 |
| `MCOrchestratorBooked`, `BookedOnce` | the forced close inserts whether or not its DELETE found the row | 8_ai_trade_monitor.py:471-474 |
| `MCMonitorRescore`, `RescoringIsNoop` | the candle that reached a target is compared with the moved stop ten seconds later | core/monitor_catchup.py:44-45, "a no-op" |
| `MCMonitorLate`, `StaleMadeGood` | when its stream is back, a coin's newest candle moves the watermark past those the catch-up has not stored yet | 8_ai_trade_monitor.py:115-117, "SL/TP hits between polls/after stale phases don't get lost" |
| `MCCandlesSkipped`, `NoneSkipped` | a pair whose read failed, or that failed beside a sound one, does not keep a run from being recorded, and its holes fall behind the watermark | 6_housekeeping.py:118-127, advances only if at least one pair "was actually inspected" |
| `MCTrailingLate`, `AlreadyClosed` | a stop reached while the entry is still in the outbox closes the row without a Close; the entry is traded afterwards | 40_trailing_close_bot.py:1094, "Cornix has already closed here" |
| `MCTrailingExposure`, `CapNotOverrun` | a candidate admitted and then passed over counts for its side, and makes room for the other | 40_trailing_close_bot.py:685-686, "a single cycle cannot overrun the cap" |
| `MCWatchdogSignal`, `ChildrenStopped` | a signal between `Popen` and the entry in `running_processes` leaves the process | main_watchdog.py:724 |
| `MCSnapshotEnd`, `ReachesEnd` | a read that ends in an earlier period asks only for the candle before that period's | core/candle_snapshot.py:410, "the newest candle the request could see" |

Also met while modelling, and allowed by the models: a row may pass its time to live
between fetch and claim (the claim does not read the age again); a signal that commits
after one with a greater id is behind the orchestrator's cursor; the pass after one
that deferred a Close no longer knows the trailed winner; a limit order's filling
candle counts targets from its second look on; switching POSTING_ENABLED off with posted mirrors
open leaves their trades (`MayGoDark`); a request to restart a parked bot is served when it is
unparked. The clean-up of delisted trades (6_housekeeping.py:206-371) inserts and
deletes as the orchestrator's forced close does.


## 10. Proofs

**OutboxProofs.** `TypeCorrect`, `TradedOnce` (`Spec => []AtMostOnce`) and `LedgerHolds`
(`Spec => []LedgerTruth`) hold for any set of rows, channels, charts and
dispatchers and any bounds, from the assumptions named in Outbox: the constants
have their types, `Copies` is at least 2.

`AtMostOnce` is not inductive: nothing in it keeps a row that was accepted from
being claimed again. The strengthening is `IInv`, TypeOK and for each trading row
`SafeRow`: a row that some dispatcher holds between claim and mark is 'sending' or
was given up as 'dead_letter', so no claim can succeed; it has one holder; before
the send Telegram has not accepted it, and after the send the reply tells
whether it did, except for "unknown", after which the row stays 'sending'; no
recovery has noted it for sending again; and the table tells the truth about it.
The step lemma has one case per action. Two cases carry the argument:
the recovery puts trading rows into `giveUp` only, and a dispatcher whose row was
given up meanwhile can still mark it sent, which is true.

**OutboxOrderProofs.** What one dispatcher (`OneDispatcher`, which the watchdog's `NoDouble`
provides) gives in addition, for any rows, channels, charts and bounds: `OneAtATime`
(`OneInDoubt`), `VerdictIsFinal` (`SettledForGood`), `ChannelsInOrder` (`FifoPerChannel`),
`ChartStays` (`ChartKept`), and `Refinement` (`ImplementsSignalChannel`). With two dispatchers
each of them is false. Two invariants carry them:

- `TableInv`, about rows: the columns of a row agree and leave it an attempt while it may be
  sent (`Verdict`); the row in hand is 'sending' (`Held`), what a recovery has read of the rows
  in doubt still holds when it writes (`Noted`), and rows of a batch are still pending
  (`Batched`). The last three are what a second dispatcher breaks. Nothing settled can then be
  claimed, marked or recovered.
- `OrderInv`, about channels: a row of the batch whose channel is not blocked has no other
  row of its channel in doubt, and every older one that may still be sent comes before it
  (`Fetched`); so the row in hand is the oldest (`Oldest`), and nothing newer than a row that
  waits was accepted (`Behind`). A row past its TTL that no batch holds does not wait any more
  (`Overdue`), since it will be expired: without that exception the invariant is false,
  because the fetch passes such rows over.

`Refinement` maps a row to queued once it is posted, taken once accepted, closed once its
verdict is final. A send that is accepted takes the oldest row of its channel that is not
closed, by `Oldest`; a mark or an expiry closes one; every other step stutters.

**OrchestratorProofs.** Every invariant of the run `orchestrator` holds for any
trades, signals, coins, bots, regimes, whitelists and bounds, from the assumptions named in
Orchestrator. `TypeCorrect`, `NotClosedOnPaper` (`ClosedMeansTold`) and `TwinFollowed`
(`TwinIsTracked`) hold whatever the table contains at the start; so does `NothingLost`
(`OpenIsAccounted`) with `MaxDeletions = 0`, since a twin deleted by hand leaves just
the corpse it excludes. `ForwardedAtMostOnce` assumes `LegacyOnce`: the trades open from
before P2.26 were made of different signals. Trades from before it may share a coin, and
then `OneOpenPerCoin` is false from the start; `OneTradePerCoin`, `WinnersSpared`
(`TrailedNotClosed`) and `EveryFlipJudged` (`Rejudged`) assume `LegacyApart`, that none do.
The latter two need it: the Close of the one is put off while the other is trailed, so the
pass ends with a trade no regime whitelists, and in a later pass a Close for it reaches the winner.
`EveryFlipJudged` also assumes a reliable detector. The inductive invariant `Base` carries
the theorems about any table, `IInv` (`Base` with `OneOpenPerCoin`, `Reached` and `Judged`)
the others:

- `TypeOK`, and `Bounded`: finitely many ids are visible at any time, so that
  `MaxId`, a CHOOSE, is the greatest. The lemma `MaxIdIsGreatest` finds it as a
  least upper bound, and `FiniteIsBounded` bounds the ids of the legacy trades by a least
  counterexample, since induction over the set is not available.
- `OneOpenPerCoin`, inductive by itself: `Forward` asks the committed table, row by row,
  in the transaction that opens the trade.
- `Accounted`: an outcome ends the twin, so a trade has one or the other.
- `Consumed`, for `ForwardedOnce`: a signal that became a trade is stale or at or below the
  cursor, and no longer in the scan. A restart forgets the cursor; it then starts at
  the greatest visible id, which is no less than that of any trade.
- `Planned`: the lists of the re-judging pass are disjoint and hold open trades not
  trailed before, and a coin in `trailed` has an open winner. With `OneOpenPerCoin`
  it follows that `DeferClose` never happens where no two legacy trades share a coin.
- `Posted`: `ClosedMeansTold`, and the trade about to be marked was told to close.
- `Reached`: before any fault an open trade that was told to close is the one about to be
  marked. With `Planned` it is `TrailedNotClosed`.
- `Tracked`: while the twins of a closed row are being moved, its own is among those
  left to move, or gone.
- `Judged`: each candidate is on a list of the running pass or whitelisted by the
  remembered or the current regime. The guard of `RegimeChanges` is used here.

**MonitorProofs.** `TypeCorrect`, `RecordedOnce` (`Spec => BookedOnce`) and
`NotBackdated` (`Spec => []NeverBackdated`) hold for any trades, coins, prices, movers,
bounds and any number of crashes, roll-backs and lost streams, from the assumptions named in
Monitor. The invariant `IInv` has four parts, proved together:

- `TypeOK`; that the counted targets stay within the list of targets rests on the
  lemma `HitsType` about `HitsBy`, that passes and the batch counter stay within
  their limits on the guards of `EndPass` and `ScoreCandle`.
- `Books`: a trade that was posted is open or somebody has recorded it, in the committed
  table and in the transaction, and what the transaction has not committed is a record together
  with its row's removal or neither. It has to hold of both, because a commit makes the second the
  first and a roll-back the first the second. `RecordedOnce` also has a step for every
  action: a record appears with the row that goes, and no row comes back.
- `Idle`: outside a scoring pass no trade is in hand, so `Poll` cannot lose one.
- `Dated`: active trades were posted, a process that is down knows nothing, and in a catch-up a
  watermark lies after its trade's opening. `NeverBackdated` is not inductive without it.

`HitsKept` (`NoHitLost`) is about the reference `Ideal`, for any coins, restarts and lost streams.
It assumes that there are no exceptions, with which the code violates it (`monitor_rollback`), and
that a trade has no targets or that its stop, entry and targets lie in this order (`Laddered`), as
core/trade_utils.py:416-464 arranges them: a trade that has counted more targets must not have the
worse stop. Coins in `late` are excepted by the property. The argument has three layers:

- *The reference.* `Ideal` is a recursive function; `StepByStep` gives its equation for one candle,
  from which the rest goes candle by candle. Each such induction is over a claim about one number,
  and is done by the least candle where the claim fails, as the library's induction theorems are
  out of reach. A completed candle does not change, so neither does the reference up to it.
- *Scoring.* A row is `Ahead` of the reference if that has not ended and has no more targets and
  no fill the row lacks. Scoring the next candle keeps a row ahead; scoring any
  candle again only adds to it (`Grown`), which is why an overlap or a repeated candle does
  no harm here; and a row ahead at one candle is ahead at all before, which is
  why a catch-up may start early.
- *Who vouches.* `Vouched(t, k)`: the watermark of a trade, the candle in hand, the state file or the
  start of an armed catch-up says that the candles up to k count. `Kept` is that every such promise
  is kept, by the table in the transaction and, for the file, by the committed one. It needs to
  know what is stored: of a coin that is not late everything up to its newest candle (`Streams`);
  and which trades nobody vouches for: outside a catch-up only those posted since the last
  candle a pass has looked at (`NewOnes`), in a pass those it has not read (`Passing`), and that a
  complete pass has scored the rest up to the newest candle of each coin that is not stale
  (`Done`), so that the state file may say so of every coin that is not `Behind`.

**TrailingProofs.** For any number of processes: `TypeCorrect`, `PostedOnce` (`MirroredOnce`) and
`OneMirrorPerSymbol` (`OnePerSymbol`). The invariant `OInv` adds `Once`: a source without a row was
not posted. The unique indexes carry it: row and entry are one transaction.

The other theorems assume one process (`OneBot`), which the watchdog keeps: with two,
one may write a peak or a row the other has judged by an older copy.

- `PeakSurvives` (`PeakKept`) and `ExitsHaveReason` (`ExitsJustified`) from `JInv`: `Judging`, the
  copies of a poll are open rows and still what was read, which ties the judgement to the table; and
  `Peaks`, the history variable by state of the row.
- `SeatsHold` (`SlotsRespected`) and `ExposureHolds` (`ExposureBounded`) from `SInv`: what admission
  counts is never less than what the book holds (`Counts`), since rows only close while candidates
  wait, and no channel is above its cap (`Fits`). They assume `Cardinality(Legacy) <= SlotCap`, all
  legacy rows being in the first channel.
- `NoneLeft` (`NoTradeForgotten`) from `Trades`; a lost Close is one of the two ways a row is
  settled, in the lemma `Delivered`: with it, posting is on while a posted row is open (`LiveRows`)
  and a poll that sees a stop finds neither trade nor entry (`StoppedAway`). The lemma
  `NoneForgotten` has the argument once for all steps that do not deliver: what ceases to be watched
  has a Close of its symbol appended, or is nowhere.
- `CloseEndsOwn` (`CloseHitsOwn`) adds `Ordered`: between a Close and any other trade or entry of
  its symbol there is another Close, stranded trades excepted. It is kept because a Close is
  appended only while its row is open, and then the symbol has no second open row.

The last two assume `~MayGoDark` and `PromptEntries`; without them the properties are false.

**WatchdogProofs.** `TypeCorrect` for any watchdogs and any fleet; with the mutex (`HasMutex`)
`OneHolds` (`OneWatchdog`) and `NeverTwice` (`NoDouble`). `IInv`: who is past the mutex is its only
holder; only such a watchdog has children; while one tends the fleet there is no stray, otherwise a
bot has one at most (`FewStrays`); what is about to be launched does not run, and bots ahead of the
staggered start have no process (`Hand`). The sweep before the first start re-establishes it.

**CandlesProofs.** For any number of periods, schedules, windows and faults: `TypeCorrect`,
`NoRowIsOverHole` (`NoRowOverHole`) and `GapsClosed` (`HolesFilled`). `IInv` extends the second to the
rows computed and not yet saved, and says that the first candle exists: candles are never
deleted, and the check for holes looks at the same read as the computation.

`GapsClosed` rests on `Reached`: up to some candle within the margin before the last recorded run
nothing is missing but what errors of recorded runs left open, and up to one within the margin
before a run under way nothing but that, what it has still to fetch and what its own errors left
open. The candle is the right neighbour the run could see, so the next window, which starts a margin
before this run, begins at or below it. `blind` is what breaks that.

`CandlesHeal` (`Healed`) assumes `WideOverlap`, CatchEvery + MaxDark < Overlap, and `RowsHeal`
(`IndicatorsHealed`) `LongSave`, CatchEvery + MaxDark <= SaveBack, in addition: the constants of
section 7, which TLC shows to be necessary.

- `Timing` is what the schedule fixes: how long a period has had its stream, catch-up and
  cycle, and when the next catch-up is due. It comes from `OnSchedule`, the assumption on speed.
- `Recent`: what is on its way (buffer, fetched rows) is half written only for the forming period or
  the one before. `Fetched`: an uncut catch-up holds its overlap, with final values for closed candles.
- `Damage`: what is not final was stored after the last catch-up but one, or while the ingestion
  was down; `JustCaught`: in the period of a catch-up nothing is missing. With the overlap as
  assumed a catch-up reaches all damage older than itself.
- `Dense`: rows of the indicator table have no hole among or under them, the engine's reads agree with
  the table until its save, and the gap filler deletes no row once the catch-up has run.
- `Repaired`: a row that is not good is as young as the damage under it (`Lasting`), or the cycle
  that is due before the period ends writes it again (`HealNow`), which needs the save window.

**SnapshotProofs.** `TypeCorrect`, `AnswersEqual` (`SameAsDatabase`), `AnswersFresh` (`NeverBehind`)
for any lookback, requests, failures and crashes. `Frames`: what a frame left out is older than what
it holds, so a covered window lacks nothing. `Checked`: what each stage of a request has
established. `NeverEmpty`: a frame that replaces another is not empty, so `Stamp` reads a watermark.

Minima and maxima of finite sets, CHOOSE in the models, exist by well-founded
induction on the naturals (`LeastExists`), which needs no operator parameter.

**Only model-checked.** Liveness: `TradingSettled`, `DoubtResolved`, `CoinFreed`, `EventuallyBooked`
and the other properties under fairness, which, like ENABLED, are out of the prover's reach. Every
invariant and every action property of a passing run is a theorem.


## 11. Not modelled, and plan

Not modelled: pure arithmetic (indicators, detectors, model inference, statistics), charts,
reports and user interface, offline research and trainers, which have no interleavings and
meet the rest through one INSERT each. The values of prices and texts are abstracted
wherever they decide nothing.

Next, in this order; what a new question is worth decides which run it joins or
replaces:

1. SignalPost: the pair of row and message, shadow legs, cooldowns; the producer's
   side of Outbox and of `Toggle` in Trailing.
2. ClassicMonitor: what differs from Monitor, with housekeeping's clean-up against it.
3. A second coin in Candles: which runs of the gap filler are credible for whom.
4. RegimeDetector: debounce; replaces the assumption in `RegimeChanges`.
5. Pool, StateFile, Runners: limits, atomic replacement, due slots.
6. Trailing composed with Outbox itself in the place of its queue.
