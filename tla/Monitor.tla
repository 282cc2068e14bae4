------------------------------- MODULE Monitor -------------------------------
(***************************************************************************)
(* The AI trade monitor, 8_ai_trade_monitor.py, with the cold-start        *)
(* catch-up it shares with the classic monitor, core/monitor_catchup.py.   *)
(* Every ten seconds it scores the open trades of ai_signals against the   *)
(* 5-minute candles: fills limit entries, counts targets, moves the stop   *)
(* and closes trades into closed_ai_signals.                               *)
(*                                                                         *)
(* Around it are its inputs as their writers deliver them: the candles of  *)
(* 1_data_ingestion.py, whose stream may be lost, bring the newest candle  *)
(* first when it returns, and be made good by REST before or after that;   *)
(* the trades bots post; and the processes that move trades to the closed  *)
(* ones on their own.                                                      *)
(*                                                                         *)
(* Time is the number of the forming candle; an instant within candle k    *)
(* lies between k and k + 1.  Prices are members of a small ordered set.   *)
(* What a pass does to the tables is one transaction, committed every      *)
(* BATCH_SIZE changes and at the end: row is the committed table, work the *)
(* table as the transaction sees it.  Scoring reads the candles fetched at *)
(* its start, so prices that move meanwhile count as moving afterwards.    *)
(* The stream's flush, three seconds at most, is not apart from the price. *)
(* The leverage stamp and the close time are left out.                     *)
(*                                                                         *)
(* A definition headed "Faulty:" is no part of the model.  It is the next  *)
(* definition with a slip a programmer might make, put in its place to see *)
(* that a property notices.                                                *)
(***************************************************************************)
EXTENDS Integers, Sequences, FiniteSets

CONSTANTS
    Trades,         \* ids of ai_signals
    Coins, Levels,  \* symbols, prices
    Setup,          \* Setup[t] is a record
                    \*   [coin, long, entry, stop, targets, limit, legacy, horizon]
                    \* limit: entry_filled starts FALSE; legacy: the row has no
                    \* targets; horizon: expiry_hours in candles, 0 for none
    MaxCandle,      \* bound: candles of a behaviour
    Moving,         \* bound: coins whose price moves
    StaleAfter,     \* stale_cutoff_seconds in candles
    Movers,         \* other processes that close trades
    MaxPosts,       \* bound: trades posted in a behaviour
    Overlap,        \* CATCHUP_OVERLAP_MIN in candles
    MaxGap,         \* MAX_CATCHUP_HOURS in candles
    MaxPasses,      \* CATCHUP_MAX_PASSES
    BatchSize,      \* BATCH_SIZE
    MaxCrashes,     \* bound: deaths of the process
    MaxErrors,      \* bound: passes ended by an exception
    MaxLosses,      \* bound: streams lost
    MaxFaults       \* bound: all three together

NoTrade == 0
None == 0
Max2(a, b) == IF a < b THEN b ELSE a
Min2(a, b) == IF a < b THEN a ELSE b

ASSUME TradesAssumption == Trades \subseteq Nat \ {0} /\ Levels \subseteq Int
ASSUME SetupAssumption ==
    Setup \in [Trades -> [coin : Coins, long : BOOLEAN, entry : Levels, stop : Int,
                          targets : Seq(Int), limit : BOOLEAN, legacy : BOOLEAN, horizon : Nat]]
ASSUME BoundAssumption ==
    /\ MaxCandle \in Nat \ {0} /\ Moving \subseteq Coins /\ Overlap \in Nat \ {0} /\ MaxGap \in Nat
    /\ MaxPasses \in Nat \ {0} /\ BatchSize \in Nat \ {0} /\ MaxPosts \in Nat
    /\ MaxCrashes \in Nat /\ MaxErrors \in Nat /\ MaxLosses \in Nat /\ MaxFaults \in Nat
    /\ StaleAfter \in Nat \ {0}

VARIABLES
    \* the market: the forming candle, all candles
    now, candle,
    \* ingestion: coins whose stream is down; the candles in the database
    lost, stored, db,
    \* the tables: committed, and inside the monitor's transaction; opened
    \* is open_time, a constant of the row; who has read a row to move it
    row, work, opened, moving,
    \* the state file: last_pass_utc
    file,
    \* the memory of the process
    pc, lastChecked, catchupFrom, passes, began, active, todo, cur, at, pending,
    \* history: the monitor has looked at the forming candle; it has given a
    \* gap up, which it announces; coins whose candles came too late (below)
    polled, abandoned, late,
    crashes, errors, losses

market == <<now, candle, lost, stored, db>>
tables == <<row, work, opened, moving>>
scoring == <<active, todo, cur, at, pending, began>>
memory == <<lastChecked, catchupFrom, passes>>
history == <<polled, abandoned, late>>
faults == <<crashes, errors, losses>>
vars == <<market, tables, file, pc, memory, scoring, history, faults>>

MayFail == crashes + errors + losses < MaxFaults

CoinOf(t) == Setup[t].coin
Targets(t) == Setup[t].targets
Flat(p) == [low |-> p, high |-> p, close |-> p]
Here(t) == row[t].here

Init ==
    /\ now = 1
    /\ candle \in [Coins -> {[k \in 1..MaxCandle |-> Flat(p)] : p \in Levels}]
    /\ lost = {} /\ stored = [c \in Coins |-> {now}] /\ db = candle
    /\ row = [t \in Trades |->
                 [here |-> FALSE, hits |-> 0, fillAt |-> None, booked |-> 0, moved |-> 0]]
    /\ work = row /\ moving = {}
    /\ opened = [t \in Trades |-> None]
    /\ file \in {None, now}
    /\ pc = "down"
    /\ lastChecked = [t \in Trades |-> None]
    /\ catchupFrom = None /\ passes = 0 /\ began = None
    /\ active = {} /\ todo = {} /\ cur = NoTrade /\ at = None /\ pending = 0
    /\ polled = FALSE /\ abandoned = FALSE /\ late = {}
    /\ crashes = 0 /\ errors = 0 /\ losses = 0
-----------------------------------------------------------------------------
(* The market and the ingestion of its candles.                             *)

MarketMoves == pc \in {"down", "idle", "read"}

(* The newest stored candle of a coin, and whether it is over half an hour  *)
(* old.                                                                     *)
Newest(c) == CHOOSE k \in stored[c] : \A j \in stored[c] : j <= k
Stale(c) == now - Newest(c) >= StaleAfter

(* An older candle is missing or was not stored to its end, although there  *)
(* is a newer one.                                                          *)
Ragged(c) == \E k \in 1 .. Newest(c) - 1 : k \notin stored[c] \/ db[c][k] # candle[c][k]

(* The price of a coin moves within the forming candle; the stream delivers *)
(* all of that candle each time.                                            *)
Tick(c) ==
    /\ MarketMoves /\ c \in Moving
    /\ \E p \in Levels \ {candle[c][now].close} :
         candle' = [candle EXCEPT ![c][now] =
                       [low |-> Min2(@.low, p), high |-> Max2(@.high, p), close |-> p]]
    /\ db' = IF c \in lost THEN db ELSE [db EXCEPT ![c][now] = candle'[c][now]]
    /\ UNCHANGED <<now, lost, stored, tables, file, pc, memory, scoring, history, faults>>

(* A running monitor will not look again at what it waits for: it has never *)
(* scored the trade and no catch-up goes back for it.                       *)
Unwatched(t) == pc # "down" /\ catchupFrom = None /\ lastChecked[t] = None

(* A candle lasts thirty polls, so a running monitor has looked at it, also *)
(* if a query or a pass failed before.  A coin without its stream may turn  *)
(* stale with it.                                                           *)
NextCandle ==
    /\ MarketMoves /\ now < MaxCandle
    /\ pc = "down" \/ polled
    /\ now' = now + 1
    /\ candle' = [c \in Coins |-> [k \in 1..MaxCandle |->
                     IF k > now THEN Flat(candle[c][now].close) ELSE candle[c][k]]]
    /\ stored' = [c \in Coins |-> IF c \in lost THEN stored[c] ELSE stored[c] \cup {now'}]
    /\ db' = [c \in Coins |-> [k \in 1..MaxCandle |->
                 IF c \notin lost /\ k = now' THEN candle'[c][k] ELSE db[c][k]]]
    /\ polled' = FALSE
    /\ late' = late \cup {CoinOf(t) : t \in {u \in Trades :
                             Here(u) /\ Unwatched(u) /\ Stale(CoinOf(u))'}}
    /\ UNCHANGED <<lost, tables, file, pc, memory, scoring, abandoned, faults>>

(* The stream of a coin dies, or ingestion with it.                         *)
Loses(c) ==
    /\ MarketMoves /\ c \notin lost /\ losses < MaxLosses /\ MayFail
    /\ losses' = losses + 1
    /\ lost' = lost \cup {c}
    /\ UNCHANGED <<now, candle, stored, db, tables, file, pc, memory, scoring, history, crashes, errors>>

(* Candles are written as the market has them.                              *)
Stores(c, candles) ==
    /\ MarketMoves
    /\ stored' = [stored EXCEPT ![c] = @ \cup candles]
    /\ db' = [db EXCEPT ![c] = [k \in 1..MaxCandle |-> IF k \in candles THEN candle[c][k] ELSE @[k]]]
    /\ UNCHANGED <<now, candle, tables, file, pc, memory, scoring, polled, abandoned, faults>>
    /\ late' = late \cup {d \in {c} : Ragged(d)'}

(* The stream is back and brings the forming candle, not what it missed.    *)
StreamBack(c) ==
    /\ c \in lost
    /\ lost' = lost \ {c}
    /\ Stores(c, {now})

(* While no stream delivers anything, REST brings the last two candles.     *)
Freshness(c) ==
    /\ lost = Coins /\ c \in Coins
    /\ Stores(c, {now - 1, now} \ {0})
    /\ UNCHANGED lost

(* The catch-up of every start and of every twelve hours goes back a day    *)
(* and inserts what it got, all or a first part, at once.                   *)
CatchUp(c, upTo) ==
    /\ Stores(c, 1..upTo)
    /\ UNCHANGED lost
-----------------------------------------------------------------------------
(* The bots, and the other processes that move trades.                      *)

(* A bot posts a trade at the market price, or a limit order away from it.  *)
Post(t) ==
    /\ opened[t] = None
    /\ Cardinality({u \in Trades : opened[u] # None}) < MaxPosts
    /\ LET price == candle[CoinOf(t)][now].close
           entry == Setup[t].entry
       IN  IF Setup[t].limit
           THEN IF Setup[t].long THEN price > entry ELSE price < entry
           ELSE price = entry
    /\ opened' = [opened EXCEPT ![t] = now]
    /\ row' = [row EXCEPT ![t] = [here |-> TRUE, hits |-> 0, booked |-> 0, moved |-> 0,
                                  fillAt |-> IF Setup[t].limit THEN None ELSE now]]
    /\ work' = [work EXCEPT ![t] = row'[t]]
    /\ UNCHANGED <<market, moving, file, pc, memory, scoring, history, faults>>

(* The orchestrator, for its forced close, or housekeeping, for a coin that *)
(* is delisted, reads the open trades, and later, one transaction per trade,*)
(* inserts its outcome and deletes the row.                                 *)
MoverReads(m, t) ==
    /\ Here(t) /\ <<m, t>> \notin moving
    /\ moving' = moving \cup {<<m, t>>}
    /\ UNCHANGED <<market, row, work, opened, file, pc, memory, scoring, history, faults>>

(* The monitor's transaction has changed the row and holds its lock.        *)
Locked(t) == row[t].here /\ work[t] # row[t]

(* DELETE and INSERT by another process.  It does not ask whether there was *)
(* a row to delete.                                                         *)
Moved(r) == [r EXCEPT !.here = FALSE, !.moved = @ + 1]

MoverWrites(m, t) ==
    /\ <<m, t>> \in moving /\ ~Locked(t)
    /\ moving' = moving \ {<<m, t>>}
    /\ row' = [row EXCEPT ![t] = Moved(@)]
    /\ work' = [work EXCEPT ![t] = Moved(@)]
    /\ UNCHANGED <<market, opened, file, pc, memory, scoring, history, faults>>
-----------------------------------------------------------------------------
(* Scoring one candle.                                                      *)

(* The stop moves to the entry with the first target and then follows one   *)
(* target behind.                                                           *)
Stop(t, hits) == IF hits = 0 THEN Setup[t].stop
                 ELSE IF hits = 1 THEN Setup[t].entry ELSE Targets(t)[hits - 1]

Below(t, c, level) == IF Setup[t].long THEN c.low <= level ELSE c.high >= level
Above(t, c, level) == IF Setup[t].long THEN c.high >= level ELSE c.low <= level

(* Targets are counted in order, up to the first one not reached.           *)
HitsBy(t, hits, c) ==
    hits + Cardinality({n \in hits + 1 .. Len(Targets(t)) :
                          \A i \in hits + 1 .. n : Above(t, c, Targets(t)[i])})

(* A row without targets is judged by the close alone.                      *)
LegacyEnds(t, c) ==
    \/ Above(t, Flat(c.close), Targets(t)[1])
    \/ Below(t, Flat(c.close), Setup[t].stop)

PastExpiry(t, k) == Setup[t].horizon # 0 /\ k > opened[t] + Setup[t].horizon

(* What candle k, read as c, does to trade t in state s: the reason it ends *)
(* for, its targets and the candle that filled it.  (The table only knows   *)
(* whether it is filled.)  In the filling candle only the stop counts.      *)
Verdict(t, s, k, c) ==
    LET filled == s.fillAt # None
        fillAt == IF filled THEN s.fillAt ELSE k
        hits == HitsBy(t, s.hits, c)
        Result(end, n, f) == [end |-> end, hits |-> n, fillAt |-> f]
    IN  CASE PastExpiry(t, k) /\ ~filled -> Result("ENTRY_NOT_FILLED", s.hits, None)
          [] PastExpiry(t, k) /\ filled -> Result("HORIZON_TIMEOUT", s.hits, s.fillAt)
          [] ~PastExpiry(t, k) /\ ~filled /\ ~Below(t, c, Setup[t].entry) ->
                Result("none", s.hits, None)
          [] OTHER ->
                IF Setup[t].legacy
                THEN Result(IF LegacyEnds(t, c) THEN "LEGACY" ELSE "none", s.hits, fillAt)
                ELSE IF Below(t, c, Stop(t, s.hits)) THEN Result("SL hit", s.hits, fillAt)
                ELSE IF ~filled THEN Result("none", s.hits, fillAt)
                ELSE Result(IF hits = Len(Targets(t)) THEN "ALL TARGETS HIT" ELSE "none", hits, fillAt)
-----------------------------------------------------------------------------
(* The process.                                                             *)

(* Faulty: no overlap, the last pass is believed to have seen its candle.   *)
NoOverlap == IF file = None \/ now - file > MaxGap THEN None ELSE file + 1

(* resolve_catchup: 15 minutes before the last pass, unless there is none   *)
(* or it is too long ago.                                                   *)
CatchupStart == IF file = None \/ now - file > MaxGap THEN None
                ELSE Max2(1, file - Overlap + 1)

Start ==
    /\ pc = "down"
    /\ pc' = "idle"
    /\ catchupFrom' = CatchupStart
    /\ abandoned' = (abandoned \/ (catchupFrom' = None /\ \E t \in Trades : Here(t)))
    /\ UNCHANGED <<market, tables, file, lastChecked, passes, scoring, polled, late, faults>>

(* Faulty: the catch-up goes back before the trade was posted.              *)
FloorOfGap(t) == catchupFrom

(* catchup_floor: a trade posted within candle k is scored from candle      *)
(* k + 1 on.                                                                *)
Floor(t) == Max2(catchupFrom, opened[t] + 1)

(* Faulty: always the newest candle, as before P2.7.                        *)
NewestOnly(t) == Newest(CoinOf(t))

(* The first candle to score: from the watermark, on a cold start from the  *)
(* floor, else just the newest stored one.  That may be from before the     *)
(* trade was posted, if the coin lags.                                      *)
First(t) == IF lastChecked[t] # None THEN lastChecked[t]
            ELSE IF catchupFrom # None THEN Floor(t) ELSE Newest(CoinOf(t))

(* The trades are read; watermarks of trades that are gone are dropped.     *)
Poll ==
    /\ pc = "idle"
    /\ active' = {t \in Trades : Here(t)}
    /\ lastChecked' = [t \in Trades |-> IF Here(t) THEN lastChecked[t] ELSE None]
    /\ began' = now
    /\ pc' = IF active' = {} THEN "idle" ELSE "read"
    /\ polled' = (polled \/ active' = {})
    /\ UNCHANGED <<market, tables, file, catchupFrom, passes, todo, cur, at, pending, abandoned, late, faults>>

(* The pass has looked at all there is for every trade it can.              *)
LookedAt ==
    /\ began = now
    /\ \A t \in active :
          work[t].here /\ ~Stale(CoinOf(t)) =>
              lastChecked[t] = Newest(CoinOf(t)) \/ First(t) > Newest(CoinOf(t))

(* The candles of every coin are read; stale coins are left alone, and so   *)
(* are coins without a candle at or after their trades' first one.          *)
WithCandles == {c \in Coins : ~Stale(c) /\ \E t \in active : CoinOf(t) = c /\ First(t) <= Newest(c)}

ReadCoins(coins) ==
    /\ pc = "read"
    /\ todo' = {t \in active : CoinOf(t) \in coins}
    /\ pc' = IF coins = {} THEN "idle" ELSE "score"
    /\ polled' = (polled \/ (coins = {} /\ LookedAt))
    /\ UNCHANGED <<market, tables, file, memory, active, cur, at, pending, began, abandoned, late, crashes, losses>>

Read == ReadCoins(WithCandles) /\ UNCHANGED errors

(* The query for one coin fails; the pass goes on without it.               *)
ReadError(c) ==
    /\ errors < MaxErrors /\ MayFail
    /\ errors' = errors + 1
    /\ ReadCoins(WithCandles \ {c})

(* The first stored candle of coin c from k on.                             *)
StoredFrom(c, k) == CHOOSE j \in stored[c] : j >= k /\ \A i \in stored[c] : i >= k => j <= i

Take(t) ==
    /\ pc = "score" /\ cur = NoTrade /\ t \in todo
    /\ todo' = todo \ {t}
    /\ IF First(t) <= Newest(CoinOf(t)) THEN cur' = t /\ at' = StoredFrom(CoinOf(t), First(t))
       ELSE UNCHANGED <<cur, at>>
    /\ UNCHANGED <<market, tables, file, pc, memory, active, pending, began, history, faults>>

(* Faulty: the closed trade is recorded whoever deleted the row.            *)
Recorded(s, ended) == IF ended THEN 1 ELSE 0

(* DELETE .. RETURNING: the closed trade is recorded if the row was there.  *)
Returned(s, ended) == IF ended /\ s.here THEN 1 ELSE 0

ScoreCandle ==
    /\ pc = "score" /\ cur # NoTrade
    /\ LET s == work[cur]
           v == Verdict(cur, s, at, db[CoinOf(cur)][at])
           ended == v.end # "none"
           changed == (ended /\ s.here) \/ v.hits # s.hits \/ v.fillAt # s.fillAt
           full == changed /\ pending + 1 >= BatchSize
       IN  /\ work' = [work EXCEPT ![cur] =
                 [here |-> s.here /\ ~ended, hits |-> v.hits, fillAt |-> v.fillAt,
                  booked |-> s.booked + Returned(s, ended), moved |-> s.moved]]
           /\ row' = IF full THEN work' ELSE row
           /\ pending' = IF full THEN 0 ELSE IF changed THEN pending + 1 ELSE pending
           /\ lastChecked' = [lastChecked EXCEPT ![cur] = IF ended THEN None ELSE at]
           /\ IF ended \/ at = Newest(CoinOf(cur)) THEN cur' = NoTrade /\ at' = None
              ELSE at' = StoredFrom(CoinOf(cur), at + 1) /\ UNCHANGED cur
    /\ UNCHANGED <<market, opened, moving, file, pc, catchupFrom, passes, active, todo, began, history, faults>>

ScoringDone == pc = "score" /\ cur = NoTrade /\ todo = {}

(* Faulty: the catch-up ends with the first pass.                           *)
OnePass == TRUE

(* Faulty: it waits for every trade, for ever.                              *)
WaitForAll == {t \in active : lastChecked[t] = None} = {}

(* should_disarm_catchup: every active trade has its watermark, or it has   *)
(* taken too long.                                                          *)
Unscored == {t \in active : lastChecked[t] = None}
Disarm == Unscored = {} \/ passes + 1 >= MaxPasses

(* Open trades whose coin has brought nothing yet for the time a restart    *)
(* would go back to, if it went by this pass.                               *)
Behind == {t \in active : work[t].here /\ (Stale(CoinOf(t)) \/ Newest(CoinOf(t)) + Overlap <= began)}

(* Open trades it has never scored and no catch-up goes back for.           *)
Unseen == {t \in Trades : row[t].here /\ lastChecked[t] = None /\ catchupFrom = None /\ Stale(CoinOf(t))}

(* The final commit, the catch-up, and the state file, which is written at  *)
(* most once a minute.                                                      *)
EndPass ==
    /\ ScoringDone
    /\ row' = work
    /\ IF catchupFrom = None THEN UNCHANGED <<catchupFrom, passes, abandoned>>
       ELSE /\ catchupFrom' = IF Disarm THEN None ELSE catchupFrom
            /\ passes' = IF Disarm THEN 0 ELSE passes + 1
            /\ abandoned' = (abandoned \/ (Disarm /\ passes + 1 >= MaxPasses /\ Unscored # {}))
    /\ file' \in {file, began}
    /\ polled' = (polled \/ LookedAt)
    /\ active' = {} /\ pending' = 0 /\ began' = None
    /\ pc' = "idle"
    /\ UNCHANGED <<market, work, opened, moving, lastChecked, todo, cur, at, faults>>
    /\ late' = late \cup {CoinOf(t) : t \in (IF file' = began THEN Behind ELSE {}) \cup Unseen'}
-----------------------------------------------------------------------------
(* Exceptions and death.                                                    *)

ForgetPass ==
    /\ active' = {} /\ todo' = {} /\ cur' = NoTrade /\ at' = None /\ pending' = 0 /\ began' = None
    /\ work' = row'

(* The transaction is rolled back, or its last commit arrived but the reply *)
(* did not; the watermarks stay.                                            *)
PassError ==
    /\ pc \in {"read", "score"} /\ errors < MaxErrors /\ MayFail
    /\ errors' = errors + 1
    /\ row' \in {row} \cup {w \in {work} : ScoringDone}
    /\ ForgetPass
    /\ pc' = "idle"
    /\ UNCHANGED <<market, opened, moving, file, memory, history, crashes, losses>>

Crash ==
    /\ pc # "down" /\ crashes < MaxCrashes /\ MayFail
    /\ crashes' = crashes + 1
    /\ row' \in {row} \cup {w \in {work} : ScoringDone}
    /\ ForgetPass
    /\ lastChecked' = [t \in Trades |-> None]
    /\ catchupFrom' = None /\ passes' = 0
    /\ pc' = "down"
    /\ UNCHANGED <<market, opened, moving, file, history, errors, losses>>
-----------------------------------------------------------------------------
Pass == Poll \/ Read \/ (\E t \in Trades : Take(t)) \/ ScoreCandle \/ EndPass
Fault == PassError \/ Crash \/ \E c \in Coins : ReadError(c)
Environment ==
    \/ \E c \in Coins : Tick(c) \/ Loses(c) \/ StreamBack(c) \/ Freshness(c) \/ \E k \in 1..now : CatchUp(c, k)
    \/ \E t \in Trades : Post(t) \/ \E m \in Movers : MoverReads(m, t) \/ MoverWrites(m, t)
    \/ NextCandle

Next == Start \/ Pass \/ Fault \/ Environment

Spec == Init /\ [][Next]_vars

(* The process runs and is restarted when it dies, and every twelve hours   *)
(* ingestion makes good what a coin lacks.  Nothing is assumed of streams.  *)
FairSpec == /\ Spec
            /\ WF_vars(Start) /\ WF_vars(Pass)
            /\ \A c \in Coins : SF_vars(CatchUp(c, now))
-----------------------------------------------------------------------------
(* Properties.                                                              *)

Reasons == {"none", "ENTRY_NOT_FILLED", "HORIZON_TIMEOUT", "LEGACY", "SL hit", "ALL TARGETS HIT"}
Rows == [here : BOOLEAN, hits : Nat, fillAt : 0..MaxCandle, booked : 0..1, moved : Nat]
Series == [1..MaxCandle -> [low : Levels, high : Levels, close : Levels]]

TypeOK ==
    /\ now \in 1..MaxCandle
    /\ candle \in [Coins -> Series] /\ db \in [Coins -> Series]
    /\ lost \subseteq Coins /\ stored \in [Coins -> (SUBSET (1..now)) \ {{}}]
    /\ row \in [Trades -> Rows] /\ work \in [Trades -> Rows]
    /\ \A t \in Trades : row[t].hits <= Len(Targets(t)) /\ work[t].hits <= Len(Targets(t))
    /\ opened \in [Trades -> 0..MaxCandle]
    /\ moving \subseteq Movers \X Trades
    /\ file \in 0..MaxCandle
    /\ pc \in {"down", "idle", "read", "score"}
    /\ lastChecked \in [Trades -> 0..MaxCandle]
    /\ catchupFrom \in 0..MaxCandle /\ passes \in 0..MaxPasses
    /\ began \in 0..MaxCandle /\ at \in 0..MaxCandle
    /\ active \subseteq Trades /\ todo \subseteq active
    /\ cur \in active \cup {NoTrade}
    /\ pending \in 0..BatchSize
    /\ polled \in BOOLEAN /\ abandoned \in BOOLEAN /\ late \subseteq Coins
    /\ crashes \in 0..MaxCrashes /\ errors \in 0..MaxErrors /\ losses \in 0..MaxLosses

(* P2.8: whatever other processes move, and whatever is rolled back or lost *)
(* in a crash, the monitor records a trade only together with taking its    *)
(* row away: once at most, and never one that another process has taken.    *)
(* No row is gone unrecorded, and none comes back.  (A mover that read the  *)
(* row before may still record the trade a second time.)                    *)
BookedOnce ==
    /\ [](\A t \in Trades : opened[t] # None => (Here(t) <=> row[t].booked + row[t].moved = 0))
    /\ [][\A t \in Trades :
              /\ row'[t].booked # row[t].booked => Here(t) /\ ~Here(t)' /\ row'[t].booked = 1
              /\ Here(t)' => Here(t) \/ opened[t] = None]_vars

(* The reference: every candle after the one a trade was posted in, once,   *)
(* in order, and complete.                                                  *)
Ideal(t, last) ==
    LET state[k \in 0..MaxCandle] ==
            IF k <= opened[t]
            THEN [end |-> "none", hits |-> 0, fillAt |-> IF Setup[t].limit THEN None ELSE opened[t]]
            ELSE IF state[k - 1].end # "none" THEN state[k - 1]
                 ELSE Verdict(t, state[k - 1], k, candle[CoinOf(t)][k])
    IN  state[last]

(* The row of t has all that the candles before its watermark gave it.      *)
NoneMissed(t) ==
    LET ideal == Ideal(t, lastChecked[t] - 1)
    IN  /\ ideal.end = "none"
        /\ ideal.hits <= row[t].hits
        /\ ideal.fillAt # None => row[t].fillAt # None

Watched(t) == pc = "idle" /\ Here(t) /\ lastChecked[t] > opened[t] /\ ~abandoned

(* P2.7, T-150: once a trade has been scored up to its watermark, it is no  *)
(* less far than if every candle before had been scored to its end.  Gaps   *)
(* the monitor gave up with a warning are excepted, and coins whose candles *)
(* were too late for it: older ones stored after newer ones, the first ones *)
(* of a trade stored after its coin had been stale, or stored after the     *)
(* state file had passed them by the overlap.  (Violated by an exception in *)
(* a pass: it rolls the tables back, but not the watermarks.)               *)
NoHitLost == \A t \in Trades : Watched(t) /\ CoinOf(t) \notin late => NoneMissed(t)

(* P2.7 as it is worded: "SL/TP hits between polls/after stale phases don't *)
(* get lost".  (Violated when the stream returns before the catch-up.)      *)
StaleMadeGood == \A t \in Trades : Watched(t) => NoneMissed(t)

(* catchup_floor: a trade "must not be scored against candles from before   *)
(* it existed", nor against the one it was posted in.  (Without a catch-up  *)
(* the newest candle of a coin that lags may be from before.)               *)
NeverBackdated == cur # NoTrade /\ catchupFrom # None => at > opened[cur]

(* A trade that ends in the reference ends in the table, through crashes,   *)
(* restarts and stale coins.  (Not through an exception in a pass, and not  *)
(* if the candles were too late.)                                           *)
EventuallyBooked ==
    \A t \in Trades :
        (Here(t) /\ Ideal(t, now - 1).end # "none")
            ~> (~Here(t) \/ abandoned \/ errors > 0 \/ CoinOf(t) \in late)

(* core/monitor_catchup: "Re-scoring an already scored candle is a no-op".  *)
(* (Violated: the stop that a target has moved is compared with the low     *)
(* from before the move.)                                                   *)
RescoringIsNoop ==
    \A t \in Trades :
        ScoringDone /\ work[t].here /\ lastChecked[t] # None =>
            LET v == Verdict(t, work[t], lastChecked[t], db[CoinOf(t)][lastChecked[t]])
            IN  v.end = "none" /\ v.hits = work[t].hits
=============================================================================
