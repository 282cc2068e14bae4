------------------------------ MODULE Candles ------------------------------
(***************************************************************************)
(* The candle pipeline of one coin and one timeframe: the ingestion        *)
(* (1_data_ingestion.py) writes candles from a WebSocket stream and from   *)
(* two REST jobs, the nightly gap filler of housekeeping                   *)
(* (6_housekeeping.py) fetches missing ones, and the indicator engine      *)
(* (2_indicator_engine.py) computes indicator rows over closed candles.    *)
(* They share tables through core/candles.py.                              *)
(*                                                                         *)
(* Time is the number of the candle that is forming, now: candles below it *)
(* are closed.  A stored candle is "part" when it carries the values of    *)
(* the middle of its period and "final" when it carries the last ones.  An *)
(* indicator row is "good" when every candle it was computed from was      *)
(* final, and "bad" when one was not.                                      *)
(*                                                                         *)
(* The schedules of the code bound the time: a candle closes only when the *)
(* jobs that are due have run.                                             *)
(***************************************************************************)
EXTENDS Integers, FiniteSets

CONSTANTS
    Last,           \* bound: the last period of a behaviour
    History,        \* periods whose candles and indicators exist at the start
    CatchEvery,     \* periods between two REST catch-ups (12 h)
    Overlap,        \* periods a catch-up looks back (24 h)
    Night,          \* periods between two runs of the gap filler (24 h)
    MinScan,        \* GAP_SCAN_MIN_HOURS, in periods
    MaxScan,        \* GAP_SCAN_MAX_HOURS
    Margin,         \* GAP_SCAN_MARGIN_HOURS
    SaveBack,       \* candles before the watermark the engine writes again (5)
    Lookback,       \* MAX_INDICATOR_LOOKBACK
    HotTf,          \* whether the timeframe is in FRESHNESS_HOT_TFS
    DeletesRows,    \* whether delete_indicators_from reaches the rows read:
                    \* only with the legacy tables as the primary store
    MaxDark,        \* bound: periods a process may be down
    MaxSilent,      \* bound: periods without a stream while the ingestion is up
    MaxFaults,      \* bound: disconnects, lost flushes and crashes of the ingestion
    MaxHkCrashes,   \* bound: crashes of housekeeping
    MaxRefused,     \* bound: catch-ups cut short by REST errors
    MaxGapErrors,   \* bound: fetches, rows and pairs that fail in the gap filler
    MaxTogether     \* bound: all these faults, crashes and errors

Periods == 1 .. Last
Stored == {"part", "final"}

ASSUME PeriodAssumption == Last \in Nat /\ History \in 1 .. Last - 1
ASSUME ScheduleAssumption ==
    /\ CatchEvery \in Nat \ {0} /\ Overlap \in Nat /\ Night \in Nat \ {0}
    /\ MinScan \in Nat /\ MaxScan \in Nat /\ Margin \in Nat
    /\ SaveBack \in Nat /\ Lookback \in Nat
    /\ HotTf \in BOOLEAN /\ DeletesRows \in BOOLEAN
ASSUME LimitAssumption ==
    /\ MaxDark \in Nat /\ MaxSilent \in Nat /\ MaxFaults \in Nat
    /\ MaxHkCrashes \in Nat /\ MaxRefused \in Nat /\ MaxGapErrors \in Nat
    /\ MaxTogether \in Nat

VARIABLES
    now,            \* the forming period
    candle,         \* the candle table: "none", "part" or "final"
    ind,            \* the indicator table: "none", "bad" or "good"
    \* ingestion: whether it runs and its stream is connected, the period
    \* whose last message is under way (0: none), WS_KLINE_BUFFER and the
    \* copy being flushed
    up, stream, closing, buffer, batch,
    \* the rows two REST jobs have fetched and not inserted, and when the
    \* next catch-up is due
    caught, fresh, catchDue,
    \* housekeeping: where the gap filler stands, the missing periods it has
    \* still to fetch, the oldest it found (0: none) and whether it filled one,
    \* the time its run began, the watermark file, whether the minute of the
    \* night is past
    filler, missing, oldest, filled, begun, watermark, night,
    \* history: whether a run ever began blind (see Sighted); the holes that
    \* errors of this run left open, and those of the recorded runs
    blind, left, skipped,
    \* indicator engine: idle, probed (with the watermark it read) or holding
    \* computed rows; the last period in which a cycle ended
    engine, mark, rows, cycled,
    \* bookkeeping of the model: periods the ingestion has been up, down, and
    \* without a stream, periods housekeeping has been down, faults so far
    since, dark, silent, hkDark, faults, hkCrashes, refused, gapErrors

tables == <<candle, ind>>
wsvars == <<stream, closing, buffer, batch>>
restvars == <<caught, fresh, catchDue>>
history == <<blind, left, skipped>>
hkvars == <<filler, missing, oldest, filled, begun, watermark, night, history>>
engvars == <<engine, mark, rows, cycled>>
clocks == <<since, dark, silent, hkDark>>
counters == <<faults, hkCrashes, refused, gapErrors>>
vars == <<now, tables, up, wsvars, restvars, hkvars, engvars, clocks, counters>>

MayFail == faults + hkCrashes + refused + gapErrors < MaxTogether

NoRows == [p \in {} |-> "part"]
Empty(r) == DOMAIN r = {}
Newest(S) == CHOOSE p \in S : \A q \in S : q <= p
First(S) == CHOOSE p \in S : \A q \in S : p <= q
AtMost(a, b) == IF a <= b THEN a ELSE b
AtLeast(a, b) == IF a >= b THEN a ELSE b
Has(table) == {p \in Periods : table[p] # "none"}
Closed == {p \in Has(candle) : p < now}

(* ON CONFLICT DO UPDATE: the rows replace what the table holds. *)
Upsert(table, r) ==
    [p \in Periods |-> IF p \in DOMAIN r THEN r[p] ELSE table[p]]

(* What the exchange answers for the periods of S. *)
Klines(S) == [p \in S |-> IF p < now THEN "final" ELSE "part"]

Init ==
    /\ now = History + 1
    /\ candle = [p \in Periods |-> IF p <= History THEN "final"
                                  ELSE IF p = now THEN "part" ELSE "none"]
    /\ ind = [p \in Periods |-> IF p <= History THEN "good" ELSE "none"]
    /\ up = TRUE /\ stream = TRUE /\ closing = 0
    /\ buffer = NoRows /\ batch = NoRows
    /\ caught = NoRows /\ fresh = NoRows
    /\ catchDue = now + CatchEvery
    /\ filler = "idle" /\ missing = {} /\ oldest = 0 /\ filled = FALSE
    /\ begun = 0 /\ watermark = now /\ night = FALSE
    /\ blind = FALSE /\ left = {} /\ skipped = {}
    /\ engine = "idle" /\ mark = 0 /\ rows = NoRows /\ cycled = now
    /\ since = 0 /\ dark = 0 /\ silent = 0 /\ hkDark = 0
    /\ faults = 0 /\ hkCrashes = 0 /\ refused = 0 /\ gapErrors = 0

-----------------------------------------------------------------------------
(* The passing of time *)

(* A row fetched or buffered before a close may be written after it, but   *)
(* not a whole period later.                                               *)
Settled(r) == \A p \in DOMAIN r : p >= now
Straddles(r) == \E p \in DOMAIN r : p = now - 1 /\ r[p] = "part"

(* Bound of since: a cycle has followed the first catch-up. *)
Ripe == 2

NightDue == now % Night = 0 /\ ~night

OnSchedule ==
    /\ closing = 0 /\ cycled = now
    /\ Settled(buffer) /\ Settled(batch)
    /\ ~Straddles(caught) /\ ~Straddles(fresh)
    /\ IF up THEN now < catchDue ELSE dark < MaxDark
    /\ up /\ ~stream => silent < MaxSilent
    /\ CASE filler = "idle" -> ~NightDue
         [] filler = "down" -> hkDark < MaxDark
         [] OTHER -> FALSE

Tick ==
    /\ now < Last
    /\ OnSchedule
    /\ now' = now + 1
    /\ closing' = IF up /\ stream THEN now ELSE 0
    /\ night' = FALSE
    /\ since' = IF up THEN AtMost(since + 1, Ripe) ELSE 0
    /\ dark' = IF up THEN 0 ELSE dark + 1
    /\ silent' = IF up /\ ~stream THEN silent + 1 ELSE 0
    /\ hkDark' = IF filler = "down" THEN hkDark + 1 ELSE 0
    /\ UNCHANGED <<tables, up, stream, buffer, batch, restvars, filler, missing, oldest,
                   filled, begun, watermark, history, engvars, counters>>

-----------------------------------------------------------------------------
(* Ingestion: the WebSocket stream and its buffer *)

(* One entry of WS_KLINE_BUFFER per symbol, timeframe and open time. *)
Buffered(p, value) == [q \in DOMAIN buffer \cup {p} |-> IF q = p THEN value ELSE buffer[q]]

(* A kline message of the forming candle, and the last one of a candle, *)
(* which comes once, shortly after its close.                           *)
WsForming ==
    /\ up /\ stream /\ closing = 0
    /\ now \notin DOMAIN buffer
    /\ buffer' = Buffered(now, "part")
    /\ UNCHANGED <<now, tables, up, stream, closing, batch, restvars, hkvars, engvars,
                   clocks, counters>>

WsFinal ==
    /\ up /\ stream /\ closing # 0
    /\ buffer' = Buffered(closing, "final")
    /\ closing' = 0
    /\ UNCHANGED <<now, tables, up, stream, batch, restvars, hkvars, engvars,
                   clocks, counters>>

WsDrop ==
    /\ up /\ stream /\ faults < MaxFaults /\ MayFail
    /\ stream' = FALSE /\ closing' = 0
    /\ faults' = faults + 1
    /\ UNCHANGED <<now, tables, up, buffer, batch, restvars, hkvars, engvars, clocks,
                   hkCrashes, refused, gapErrors>>

WsConnect ==
    /\ up /\ ~stream
    /\ stream' = TRUE
    /\ UNCHANGED <<now, tables, up, closing, buffer, batch, restvars, hkvars, engvars,
                   clocks, counters>>

(* db_buffer_flusher swaps the buffer for an empty one and awaits the write; *)
(* a write that fails is not tried again.                                    *)
Swap ==
    /\ up /\ Empty(batch) /\ ~Empty(buffer)
    /\ batch' = buffer
    /\ buffer' = NoRows
    /\ UNCHANGED <<now, tables, up, stream, closing, restvars, hkvars, engvars, clocks,
                   counters>>

Flush ==
    /\ up /\ ~Empty(batch)
    /\ \/ candle' = Upsert(candle, batch) /\ UNCHANGED faults
       \/ /\ faults < MaxFaults /\ MayFail
          /\ faults' = faults + 1
          /\ UNCHANGED candle
    /\ batch' = NoRows
    /\ UNCHANGED <<now, ind, up, stream, closing, buffer, restvars, hkvars, engvars,
                   clocks,
                   hkCrashes, refused, gapErrors>>

-----------------------------------------------------------------------------
(* Ingestion: the REST jobs *)

(* Faulty: no overlap. *)
CatchUpFromNewest == Newest(Has(candle))

(* process_coin: from the newest stored candle, less the overlap, to now. *)
CatchUpFrom == AtLeast(1, Newest(Has(candle)) - Overlap)

(* fetch_ohlcv_batch: when its retry budget is spent it returns the oldest *)
(* pages it has.                                                           *)
Catch ==
    /\ up /\ now >= catchDue /\ Empty(caught)
    /\ \/ caught' = Klines(CatchUpFrom .. now) /\ UNCHANGED refused
       \/ /\ refused < MaxRefused /\ MayFail
          /\ refused' = refused + 1
          /\ \E end \in CatchUpFrom - 1 .. now - 1 : caught' = Klines(CatchUpFrom .. end)
    /\ catchDue' = IF Empty(caught') THEN now + CatchEvery ELSE catchDue
    /\ UNCHANGED <<now, tables, up, wsvars, fresh, hkvars, engvars, clocks, faults, hkCrashes,
                   gapErrors>>

CatchInsert ==
    /\ up /\ ~Empty(caught)
    /\ candle' = Upsert(candle, caught)
    /\ caught' = NoRows
    /\ catchDue' = now + CatchEvery
    /\ UNCHANGED <<now, ind, up, wsvars, fresh, hkvars, engvars, clocks, counters>>

(* run_freshness_job, while no stream delivers: the newest two candles. *)
Freshen ==
    /\ HotTf /\ up /\ ~stream /\ Empty(fresh)
    /\ fresh' = Klines(AtLeast(1, now - 1) .. now)
    /\ UNCHANGED <<now, tables, up, wsvars, caught, catchDue, hkvars, engvars, clocks,
                   counters>>

FreshInsert ==
    /\ up /\ ~Empty(fresh)
    /\ candle' = Upsert(candle, fresh)
    /\ fresh' = NoRows
    /\ UNCHANGED <<now, ind, up, wsvars, caught, catchDue, hkvars, engvars, clocks,
                   counters>>

(* The ingestion dies with its buffer, its jobs and its transactions; when *)
(* it is started again the stream connects and a catch-up is due.          *)
IngestCrash ==
    /\ up /\ faults < MaxFaults /\ MayFail
    /\ up' = FALSE /\ stream' = FALSE /\ closing' = 0
    /\ buffer' = NoRows /\ batch' = NoRows
    /\ caught' = NoRows /\ fresh' = NoRows /\ catchDue' = 0
    /\ since' = 0
    /\ faults' = faults + 1
    /\ UNCHANGED <<now, tables, hkvars, engvars, dark, silent, hkDark, hkCrashes, refused,
                   gapErrors>>

IngestStart ==
    /\ ~up
    /\ up' = TRUE /\ stream' = TRUE
    /\ catchDue' = now
    /\ UNCHANGED <<now, tables, closing, buffer, batch, caught, fresh, hkvars, engvars,
                   clocks, counters>>

-----------------------------------------------------------------------------
(* Housekeeping: the gap filler *)

(* Faulty: a fixed window, as before T-2026-KYT-9050-155; no margin. *)
ScanFixed == MinScan
ScanBare == AtMost(AtLeast(now - watermark, MinScan), MaxScan)

(* resolve_gap_scan_hours *)
ScanPeriods ==
    AtMost(AtLeast(now - watermark + Margin, MinScan), MaxScan)

InWindow == {p \in Closed : p >= now - ScanPeriods}

(* Candles missing between two closed ones of the window. *)
Gaps == {p \in Periods \ Closed :
            \E a, b \in InWindow : a < p /\ p < b}

(* A run finds a hole between two candles of its window.  Its window joins *)
(* the last one's if it is not cut at its cap, and the next will see what  *)
(* this one cannot if the newest candle is not older than the margin.      *)
Sighted ==
    /\ now - watermark + Margin <= MaxScan
    /\ \E p \in Closed : p >= now - Margin

Begin ==
    /\ filler' = "filling"
    /\ begun' = now
    /\ missing' = Gaps
    /\ oldest' = IF Gaps = {} THEN 0 ELSE First(Gaps)
    /\ filled' = FALSE
    /\ blind' = (blind \/ ~Sighted)
    /\ UNCHANGED <<left, skipped>>

Scan ==
    /\ filler = "idle" /\ NightDue
    /\ Begin
    /\ night' = TRUE
    /\ UNCHANGED <<now, tables, up, wsvars, restvars, watermark, engvars, clocks, counters>>

(* The oldest run of missing candles. *)
Range == {p \in missing : First(missing) .. p \subseteq missing}

FillRange ==
    /\ filler = "filling" /\ missing # {}
    /\ candle' = Upsert(candle, Klines(Range))
    /\ missing' = missing \ Range
    /\ filled' = TRUE
    /\ UNCHANGED <<now, ind, up, wsvars, restvars, filler, oldest, begun, watermark,
                   night, history, engvars, clocks, counters>>

GapError == gapErrors < MaxGapErrors /\ MayFail /\ gapErrors' = gapErrors + 1

(* _fetch_klines_from_binance returns None (banned, or out of retries), or *)
(* rows of the answer do not go in: one is rolled back to its savepoint,   *)
(* all of them if the transaction has broken, with some counted by then.   *)
RangeShort ==
    /\ filler = "filling" /\ missing # {}
    /\ GapError
    /\ \E lost \in SUBSET Range :
          /\ lost # {}
          /\ candle' = Upsert(candle, Klines(Range \ lost))
          /\ filled' \in {filled \/ lost # Range, TRUE}
          /\ left' = left \cup lost
    /\ missing' = missing \ Range
    /\ UNCHANGED <<now, ind, up, wsvars, restvars, filler, oldest, begun, watermark,
                   night, blind, skipped, engvars, clocks, faults, hkCrashes, refused>>

(* The read of the pair fails: it is passed over, and not counted. *)
ReadFails ==
    /\ filler = "filling" /\ ~filled /\ left = {}
    /\ GapError
    /\ filler' = "filled"
    /\ left' = missing /\ missing' = {}
    /\ UNCHANGED <<now, tables, up, wsvars, restvars, oldest, filled, begun, watermark,
                   night, blind, skipped, engvars, clocks, faults, hkCrashes, refused>>

(* Any other exception of the pair is counted; what it committed stays. *)
PairFails ==
    /\ filler = "filling"
    /\ GapError
    /\ filler' = "failed"
    /\ left' = left \cup missing /\ missing' = {}
    /\ UNCHANGED <<now, tables, up, wsvars, restvars, oldest, filled, begun, watermark,
                   night, blind, skipped, engvars, clocks, faults, hkCrashes, refused>>

(* delete_indicators_from the oldest gap of the pair, if one was filled; a *)
(* delete that fails is passed over.                                       *)
Invalidate ==
    /\ filler = "filling" /\ missing = {}
    /\ \/ /\ ind' = [p \in Periods |->
                       IF DeletesRows /\ filled /\ p >= oldest THEN "none" ELSE ind[p]]
          /\ UNCHANGED counters
       \/ /\ filled /\ GapError
          /\ UNCHANGED <<ind, faults, hkCrashes, refused>>
    /\ filler' = "filled"
    /\ UNCHANGED <<now, candle, up, wsvars, restvars, missing, oldest, filled, begun,
                   watermark, night, history, engvars, clocks>>

EndRun == filler' = "idle" /\ oldest' = 0 /\ filled' = FALSE /\ begun' = 0 /\ left' = {}

(* should_record_gap_success: one pair without an error is enough, this one *)
(* or another; the holes this one left open fall behind the watermark.      *)
Record ==
    /\ filler \in {"filled", "failed"}
    /\ watermark' = begun
    /\ skipped' = skipped \cup left
    /\ EndRun
    /\ UNCHANGED <<now, tables, up, wsvars, restvars, missing, night, blind, engvars,
                   clocks, counters>>

(* The run is not credible, every pair failed: the watermark is kept.  So  *)
(* it is when coins.json cannot be read or the filler itself raises.       *)
NotCredible ==
    /\ filler = "failed"
    /\ EndRun
    /\ UNCHANGED <<now, tables, up, wsvars, restvars, missing, watermark, night, blind,
                   skipped, engvars, clocks, counters>>

HkCrash ==
    /\ filler # "down" /\ hkCrashes < MaxHkCrashes /\ MayFail
    /\ filler' = "down" /\ missing' = {} /\ oldest' = 0 /\ filled' = FALSE /\ begun' = 0
    /\ left' = {}
    /\ hkCrashes' = hkCrashes + 1
    /\ UNCHANGED <<now, tables, up, wsvars, restvars, watermark, night, blind, skipped,
                   engvars, clocks, faults, refused, gapErrors>>

(* The pass at the start: should_gap_fill_on_start.  The minute of the *)
(* nightly run may be past or still ahead.                             *)
HkStart ==
    /\ filler = "down"
    /\ IF now - watermark > MinScan
       THEN Begin
       ELSE filler' = "idle" /\ UNCHANGED <<begun, missing, oldest, filled, history>>
    /\ night' \in {night, TRUE}
    /\ UNCHANGED <<now, tables, up, wsvars, restvars, watermark, engvars, clocks, counters>>

-----------------------------------------------------------------------------
(* The indicator engine *)

IndMark == IF Has(ind) = {} THEN 0 ELSE Newest(Has(ind))

(* process_coin_task skips a coin without a closed candle above its watermark. *)
NewsAbove(m) == \E p \in Closed : p > m

Probe ==
    /\ engine = "idle" /\ cycled # now
    /\ IF NewsAbove(IndMark)
       THEN engine' = "probed" /\ mark' = IndMark /\ UNCHANGED cycled
       ELSE cycled' = now /\ UNCHANGED <<engine, mark>>
    /\ UNCHANGED <<now, tables, up, wsvars, restvars, hkvars, rows, clocks, counters>>

(* Faulty: only the rows above the watermark are written. *)
SaveFromMark == mark + 1

SaveFrom == AtLeast(1, mark - SaveBack)

(* Faulty: a single missing candle is tolerated. *)
ContaminatedTwice ==
    \E p \in AtLeast(1, SaveFrom - Lookback) .. Newest(Closed) - 1 : {p, p + 1} \cap Closed = {}

(* find_contaminating_gap: a candle is missing in the lookback of a row *)
(* that would be written.                                               *)
Contaminated ==
    \E p \in AtLeast(1, SaveFrom - Lookback) .. Newest(Closed) : p \notin Closed

Window(p) == AtLeast(1, p - Lookback) .. p

Computed(p) == IF \A q \in Window(p) : candle[q] = "final" THEN "good" ELSE "bad"

(* read_candles, then either a skip or the rows of the save window. *)
Compute ==
    /\ engine = "probed"
    /\ IF Contaminated
       THEN engine' = "idle" /\ mark' = 0 /\ cycled' = now /\ UNCHANGED rows
       ELSE /\ rows' = [p \in {q \in Closed : q >= SaveFrom} |-> Computed(p)]
            /\ engine' = "computed"
            /\ UNCHANGED <<mark, cycled>>
    /\ UNCHANGED <<now, tables, up, wsvars, restvars, hkvars, clocks, counters>>

Save ==
    /\ engine = "computed"
    /\ ind' = Upsert(ind, rows)
    /\ rows' = NoRows
    /\ engine' = "idle" /\ mark' = 0 /\ cycled' = now
    /\ UNCHANGED <<now, candle, up, wsvars, restvars, hkvars, clocks, counters>>

-----------------------------------------------------------------------------
Next ==
    \/ Tick
    \/ WsForming \/ WsFinal \/ WsDrop \/ WsConnect \/ Swap \/ Flush
    \/ Catch \/ CatchInsert \/ Freshen \/ FreshInsert \/ IngestCrash \/ IngestStart
    \/ Scan \/ FillRange \/ RangeShort \/ ReadFails \/ PairFails \/ Invalidate
    \/ Record \/ NotCredible \/ HkCrash \/ HkStart
    \/ Probe \/ Compute \/ Save

Spec == Init /\ [][Next]_vars

-----------------------------------------------------------------------------
(* Properties *)

PartialRows == UNION {[S -> Stored] : S \in SUBSET Periods}

(* The values every variable takes. *)
TypeOK ==
    /\ now \in Periods
    /\ candle \in [Periods -> Stored \cup {"none"}]
    /\ ind \in [Periods -> {"none", "bad", "good"}]
    /\ up \in BOOLEAN /\ stream \in BOOLEAN /\ closing \in Periods \cup {0}
    /\ buffer \in PartialRows /\ batch \in PartialRows
    /\ caught \in PartialRows /\ fresh \in PartialRows
    /\ catchDue \in Nat
    /\ filler \in {"idle", "filling", "filled", "failed", "down"}
    /\ missing \subseteq Periods /\ oldest \in Periods \cup {0} /\ filled \in BOOLEAN
    /\ begun \in Nat /\ watermark \in Nat /\ night \in BOOLEAN
    /\ blind \in BOOLEAN /\ left \subseteq Periods /\ skipped \subseteq Periods
    /\ engine \in {"idle", "probed", "computed"}
    /\ mark \in Periods \cup {0} /\ cycled \in Nat
    /\ rows \in UNION {[S -> {"bad", "good"}] : S \in SUBSET Periods}
    /\ since \in Nat /\ dark \in Nat /\ silent \in Nat /\ hkDark \in Nat
    /\ faults \in 0 .. MaxFaults /\ refused \in 0 .. MaxRefused
    /\ hkCrashes \in 0 .. MaxHkCrashes
    /\ gapErrors \in 0 .. MaxGapErrors

(* No indicator row stands over a candle that is missing from its lookback *)
(* (process_coin_task and find_contaminating_gap), although candles arrive *)
(* out of order, the gap filler writes between the read and the save, and  *)
(* a failed cycle is taken up again from the watermark.                    *)
NoRowOverHole ==
    \A p \in Has(ind) : \A q \in Window(p) : candle[q] # "none"

(* A candle lost or left half written by a disconnect, a failed flush, a   *)
(* crash or a late write of the buffer has its final values after the next *)
(* catch-up (periodic_rest_catchup), or the one after it if it was just    *)
(* closing, unless one was cut short.  Downtime does not count; the        *)
(* longest must not reach out of the overlap.                              *)
Healed ==
    refused = 0
        => \A p \in Periods : p < now - dark - CatchEvery - 1 => candle[p] = "final"

(* Even where catch-ups were cut short, no hole is older than the margin   *)
(* before the last recorded run, but those that an error of a recorded run *)
(* left open, if no run began blind: whatever crash of housekeeping, run   *)
(* that was not credible or pass at its start came in between, the windows *)
(* of the gap filler join (resolve_gap_scan_hours) and the watermark moves *)
(* only over what was looked at (should_record_gap_success).               *)
HolesFilled ==
    ~blind => \A p \in Periods :
                 p < watermark - Margin => candle[p] # "none" \/ p \in skipped

(* The same of every hole: the watermark advances only if the holes were   *)
(* inspected (should_record_gap_success).  False of the code for a pair    *)
(* whose read failed, or that failed while another one did not.            *)
NoneSkipped ==
    ~blind => \A p \in Periods : p < watermark - Margin => candle[p] # "none"

(* An indicator row computed from a candle that was not final is computed  *)
(* again once the candle is (the save window of process_coin_task, the     *)
(* overlap of the catch-up), and no closed candle stays without its row.   *)
(* The save window has to reach back over the time between two catch-ups,  *)
(* as it does for candles of four hours (five rows, three candles).        *)
IndicatorsHealed ==
    since = Ripe /\ refused = 0
        => \A p \in Periods : p < now - CatchEvery - 2 => ind[p] = "good"

=============================================================================
