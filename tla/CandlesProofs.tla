---------------------------- MODULE CandlesProofs ----------------------------
(***************************************************************************)
(* Proofs about Candles for any number of periods, schedules, windows and  *)
(* faults: the type invariant; no indicator row stands over a missing      *)
(* candle; the windows of the gap filler join; and, where the schedule     *)
(* fits the overlap and the save window, the catch-ups heal the candles    *)
(* and the engine the indicator rows.                                      *)
(***************************************************************************)
EXTENDS Candles, WellFoundedInduction, TLAPS

(* Every candle in the lookback of p is stored.                            *)
Whole(p) == \A q \in Window(p) : candle[q] # "none"

(* What the engine has computed rests on stored candles, saved or not.     *)
RowsWhole == \A p \in Has(ind) \cup DOMAIN rows : Whole(p)

(* The first candle of the history is never lost, so the newest exists.    *)
IInv == TypeOK /\ candle[1] # "none" /\ RowsWhole
-----------------------------------------------------------------------------
LEMMA PeriodFacts ==
    /\ Last \in Nat /\ Last >= 2 /\ History \in Periods /\ 1 \in Periods
    /\ \A p \in Periods : p \in Nat /\ p >= 1 /\ p <= Last
    /\ \A p \in Int : p >= 1 /\ p <= Last => p \in Periods
BY PeriodAssumption DEF Periods

(* A set of natural numbers has a least element, a bounded one a greatest. *)
LEMMA LeastExists ==
    ASSUME NEW S \in SUBSET Nat, S # {}
    PROVE  \E p \in S : \A q \in S : p <= q
<1> DEFINE R == OpToRel(<, Nat)
<1>1. IsWellFoundedOn(R, Nat)
  BY NatLessThanWellFounded
<1>2. \A a, b \in Nat : <<a, b>> \in R <=> a < b
  BY DEF OpToRel
<1> HIDE DEF R
<1>3. PICK p \in S : \A q \in S : <<q, p>> \notin R
  BY <1>1, WFMin
<1>4. \A q \in S : ~(q < p)
  BY <1>2, <1>3
<1>5. QED
  BY <1>3, <1>4

LEMMA FirstIsLeast ==
    ASSUME NEW S \in SUBSET Periods, S # {}
    PROVE  First(S) \in S /\ \A q \in S : First(S) <= q
<1>1. S \in SUBSET Nat
  BY PeriodFacts
<1>2. \E p \in S : \A q \in S : p <= q
  BY <1>1, LeastExists
<1>3. QED
  BY <1>2 DEF First

LEMMA NewestIsGreatest ==
    ASSUME NEW S \in SUBSET Periods, S # {}
    PROVE  Newest(S) \in S /\ \A q \in S : q <= Newest(S)
<1> DEFINE T == {Last - p : p \in S}
<1>1. \A p \in S : p \in Nat /\ Last - p \in Nat /\ Last - p \in T
  BY PeriodFacts
<1>2. T \in SUBSET Nat /\ T # {}
  <2>1. \A x \in T : x \in Nat
    BY <1>1
  <2>2. QED
    BY <1>1, <2>1
<1> HIDE DEF T
<1>3. PICK m \in T : \A k \in T : m <= k
  BY <1>2, LeastExists
<1>4. PICK p \in S : m = Last - p
  BY DEF T
<1>5. \A q \in S : q <= p
  BY <1>1, <1>3, <1>4, PeriodFacts
<1>6. QED
  BY <1>5 DEF Newest

LEMMA KlinesType ==
    ASSUME NEW S \in SUBSET Periods
    PROVE  Klines(S) \in [S -> Stored] /\ Klines(S) \in PartialRows
BY DEF Klines, Stored, PartialRows

LEMMA PartialRow ==
    ASSUME NEW r \in PartialRows
    PROVE  DOMAIN r \in SUBSET Periods /\ r \in [DOMAIN r -> Stored]
BY DEF PartialRows

LEMMA NoRowsType ==
    NoRows \in PartialRows /\ NoRows \in UNION {[S -> {"bad", "good"}] : S \in SUBSET Periods}
    /\ DOMAIN NoRows = {}
BY DEF NoRows, PartialRows

(* A batch of candles leaves a table of candles, and no hole where there   *)
(* was none.                                                               *)
LEMMA CandlesAdd ==
    ASSUME candle \in [Periods -> Stored \cup {"none"}], NEW r \in PartialRows
    PROVE  /\ Upsert(candle, r) \in [Periods -> Stored \cup {"none"}]
           /\ \A p \in Periods : candle[p] # "none" => Upsert(candle, r)[p] # "none"
<1>1. DOMAIN r \in SUBSET Periods /\ r \in [DOMAIN r -> Stored]
  BY PartialRow
<1>2. \A p \in Periods : Upsert(candle, r)[p] = IF p \in DOMAIN r THEN r[p] ELSE candle[p]
  BY DEF Upsert
<1>3. Upsert(candle, r) = [p \in Periods |-> Upsert(candle, r)[p]]
  BY DEF Upsert
<1>4. QED
  BY <1>1, <1>2, <1>3 DEF Stored

LEMMA InitHolds == Init => IInv
<1> SUFFICES ASSUME Init PROVE IInv
  OBVIOUS
<1> USE PeriodFacts, PeriodAssumption, ScheduleAssumption, LimitAssumption, NoRowsType DEF Init
<1>1. now \in Periods /\ now \in Nat /\ catchDue \in Nat
  OBVIOUS
<1>2. TypeOK
  <2>1. candle \in [Periods -> Stored \cup {"none"}] /\ ind \in [Periods -> {"none", "bad", "good"}]
    BY DEF Stored
  <2>2. /\ buffer \in PartialRows /\ batch \in PartialRows
        /\ caught \in PartialRows /\ fresh \in PartialRows
        /\ rows \in UNION {[S -> {"bad", "good"}] : S \in SUBSET Periods}
    OBVIOUS
  <2>3. /\ faults \in 0 .. MaxFaults /\ hkCrashes \in 0 .. MaxHkCrashes
        /\ refused \in 0 .. MaxRefused /\ gapErrors \in 0 .. MaxGapErrors
    OBVIOUS
  <2>4. QED
    BY <1>1, <2>1, <2>2, <2>3 DEF TypeOK
<1>3. candle[1] # "none"
  OBVIOUS
<1>4. RowsWhole
  <2>1. ASSUME NEW p \in Has(ind), NEW q \in Window(p) PROVE candle[q] # "none"
    BY <2>1 DEF Has, Window, AtLeast
  <2>2. QED
    BY <2>1 DEF RowsWhole, Whole
<1>5. QED
  BY <1>2, <1>3, <1>4 DEF IInv
-----------------------------------------------------------------------------
(* The newest stored candle exists.                                        *)
LEMMA NewestStored ==
    ASSUME IInv
    PROVE  Newest(Has(candle)) \in Periods /\ CatchUpFrom \in Periods
<1>1. Has(candle) \in SUBSET Periods /\ Has(candle) # {}
  BY PeriodFacts DEF IInv, Has
<1>2. Newest(Has(candle)) \in Periods
  BY <1>1, NewestIsGreatest
<1>3. QED
  BY <1>2, PeriodFacts, ScheduleAssumption DEF CatchUpFrom, AtLeast

(* The stream and its buffer.                                              *)
LEMMA StreamTypes ==
    ASSUME IInv, WsForming \/ WsFinal \/ WsDrop \/ WsConnect \/ Swap \/ Flush
    PROVE  TypeOK'
<1> USE DEF IInv, TypeOK
<1>1. ASSUME NEW p \in Periods, NEW v \in Stored PROVE Buffered(p, v) \in PartialRows
  <2>1. DOMAIN buffer \in SUBSET Periods /\ buffer \in [DOMAIN buffer -> Stored]
    BY PartialRow
  <2>2. Buffered(p, v) \in [DOMAIN buffer \cup {p} -> Stored]
    BY <2>1 DEF Buffered
  <2>3. QED
    BY <2>1, <2>2 DEF PartialRows
<1>2. "part" \in Stored /\ "final" \in Stored
  BY DEF Stored
<1>3. CASE WsForming
  BY <1>1, <1>2, <1>3 DEF WsForming, tables, restvars, hkvars, history, engvars, clocks, counters
<1>4. CASE WsFinal
  BY <1>1, <1>2, <1>4 DEF WsFinal, tables, restvars, hkvars, history, engvars, clocks, counters
<1>5. CASE WsDrop
  <2>1. faults' \in 0 .. MaxFaults
    BY <1>5, LimitAssumption DEF WsDrop
  <2>2. QED
    BY <1>5, <2>1 DEF WsDrop, tables, restvars, hkvars, history, engvars, clocks, counters
<1>6. CASE WsConnect
  BY <1>6 DEF WsConnect, tables, restvars, hkvars, history, engvars, clocks, counters
<1>7. CASE Swap
  BY <1>7, NoRowsType DEF Swap, tables, restvars, hkvars, history, engvars, clocks, counters
<1>8. CASE Flush
  <2>1. candle' \in [Periods -> Stored \cup {"none"}]
    BY <1>8, CandlesAdd DEF Flush
  <2>2. faults' \in 0 .. MaxFaults
    BY <1>8, LimitAssumption DEF Flush
  <2>3. QED
    BY <1>8, <2>1, <2>2, NoRowsType DEF Flush, restvars, hkvars, history, engvars, clocks, counters
<1>9. QED
  BY <1>3, <1>4, <1>5, <1>6, <1>7, <1>8

(* The REST jobs, crashes and time.                                        *)
LEMMA RestTypes ==
    ASSUME IInv,
           Tick \/ Catch \/ CatchInsert \/ Freshen \/ FreshInsert \/ IngestCrash \/ IngestStart
    PROVE  TypeOK'
<1> USE DEF IInv, TypeOK
<1>1. CASE Tick
  <2>1. now' \in Periods /\ now \in Nat
    BY <1>1, PeriodFacts DEF Tick
  <2>2. since' \in Nat /\ dark' \in Nat /\ silent' \in Nat /\ hkDark' \in Nat
    BY <1>1 DEF Tick, AtMost, Ripe
  <2>3. closing' \in Periods \cup {0}
    BY <1>1 DEF Tick
  <2>4. QED
    BY <1>1, <2>1, <2>2, <2>3 DEF Tick, tables, restvars, history, engvars, counters
<1>2. CASE Catch
  <2>1. \A end \in Int : end <= now => CatchUpFrom .. end \in SUBSET Periods
    BY NewestStored, PeriodFacts
  <2>2. caught' \in PartialRows
    <3>1. now \in Int /\ now <= now
      BY PeriodFacts
    <3>2. CASE caught' = Klines(CatchUpFrom .. now)
      BY <2>1, <3>1, <3>2, KlinesType
    <3>3. CASE \E end \in CatchUpFrom - 1 .. now - 1 : caught' = Klines(CatchUpFrom .. end)
      <4>1. PICK end \in CatchUpFrom - 1 .. now - 1 : caught' = Klines(CatchUpFrom .. end)
        BY <3>3
      <4>2. end \in Int /\ end <= now
        BY <3>1, NewestStored, PeriodFacts
      <4>3. QED
        BY <2>1, <4>1, <4>2, KlinesType
    <3>4. QED
      BY <1>2, <3>2, <3>3 DEF Catch
  <2>3. catchDue' \in Nat /\ refused' \in 0 .. MaxRefused
    BY <1>2, PeriodFacts, ScheduleAssumption, LimitAssumption DEF Catch
  <2>4. QED
    BY <1>2, <2>2, <2>3 DEF Catch, tables, wsvars, hkvars, history, engvars, clocks
<1>3. CASE CatchInsert
  <2>1. candle' \in [Periods -> Stored \cup {"none"}]
    BY <1>3, CandlesAdd DEF CatchInsert
  <2>2. catchDue' \in Nat
    BY <1>3, PeriodFacts, ScheduleAssumption DEF CatchInsert
  <2>3. QED
    BY <1>3, <2>1, <2>2, NoRowsType
         DEF CatchInsert, wsvars, hkvars, history, engvars, clocks, counters
<1>4. CASE Freshen
  <2>1. AtLeast(1, now - 1) .. now \in SUBSET Periods
    BY PeriodFacts DEF AtLeast
  <2>2. fresh' \in PartialRows
    BY <1>4, <2>1, KlinesType DEF Freshen
  <2>3. QED
    BY <1>4, <2>2 DEF Freshen, tables, wsvars, hkvars, history, engvars, clocks, counters
<1>5. CASE FreshInsert
  <2>1. candle' \in [Periods -> Stored \cup {"none"}]
    BY <1>5, CandlesAdd DEF FreshInsert
  <2>2. QED
    BY <1>5, <2>1, NoRowsType DEF FreshInsert, wsvars, hkvars, history, engvars, clocks, counters
<1>6. CASE IngestCrash
  <2>1. faults' \in 0 .. MaxFaults
    BY <1>6, LimitAssumption DEF IngestCrash
  <2>2. QED
    BY <1>6, <2>1, NoRowsType DEF IngestCrash, tables, hkvars, history, engvars
<1>7. CASE IngestStart
  BY <1>7, PeriodFacts DEF IngestStart, tables, hkvars, history, engvars, clocks, counters
<1>8. QED
  BY <1>1, <1>2, <1>3, <1>4, <1>5, <1>6, <1>7

(* The gap filler.                                                         *)
LEMMA FillerTypes ==
    ASSUME IInv, Scan \/ FillRange \/ RangeShort \/ ReadFails \/ PairFails \/ Invalidate \/ Record
                 \/ NotCredible \/ HkCrash \/ HkStart
    PROVE  TypeOK'
<1> USE DEF IInv, TypeOK
<1>1. Gaps \in SUBSET Periods /\ now \in Nat
  BY PeriodFacts DEF Gaps
<1>2. (IF Gaps = {} THEN 0 ELSE First(Gaps)) \in Periods \cup {0}
  BY <1>1, FirstIsLeast
<1>3. Range \in SUBSET Periods /\ missing \ Range \in SUBSET Periods
  BY DEF Range
<1>4. CASE Scan
  BY <1>1, <1>2, <1>4 DEF Scan, Begin, tables, wsvars, restvars, engvars, clocks, counters
<1>5. CASE FillRange
  <2>1. candle' \in [Periods -> Stored \cup {"none"}]
    BY <1>3, <1>5, KlinesType, CandlesAdd DEF FillRange
  <2>2. QED
    BY <1>3, <1>5, <2>1 DEF FillRange, wsvars, restvars, history, engvars, clocks, counters
<1>6. CASE RangeShort
  <2>1. PICK lost \in SUBSET Range : candle' = Upsert(candle, Klines(Range \ lost)) /\ left' = left \cup lost
                                    /\ filled' \in {filled \/ lost # Range, TRUE}
    BY <1>6 DEF RangeShort
  <2>2. candle' \in [Periods -> Stored \cup {"none"}]
    <3>1. Range \ lost \in SUBSET Periods
      BY <1>3
    <3>2. QED
      BY <2>1, <3>1, KlinesType, CandlesAdd
  <2>3. left' \in SUBSET Periods /\ filled' \in BOOLEAN
    BY <1>3, <2>1
  <2>4. gapErrors' \in 0 .. MaxGapErrors
    BY <1>6, LimitAssumption DEF RangeShort, GapError
  <2>5. QED
    BY <1>3, <1>6, <2>2, <2>3, <2>4 DEF RangeShort, wsvars, restvars, engvars, clocks
<1>7. CASE Invalidate
  <2>1. ind' \in [Periods -> {"none", "bad", "good"}]
    BY <1>7 DEF Invalidate
  <2>2. /\ gapErrors' \in 0 .. MaxGapErrors /\ UNCHANGED <<faults, hkCrashes, refused>>
    BY <1>7, LimitAssumption DEF Invalidate, GapError, counters
  <2>3. /\ filler' = "filled"
        /\ UNCHANGED <<now, candle, up, wsvars, restvars, missing, oldest, filled, begun,
                       watermark, night, history, engvars, clocks>>
    BY <1>7 DEF Invalidate
  <2>4. QED
    BY <2>1, <2>2, <2>3 DEF wsvars, restvars, history, engvars, clocks
<1>8. CASE Record
  BY <1>8 DEF Record, EndRun, tables, wsvars, restvars, engvars, clocks, counters
<1>13. CASE NotCredible
  BY <1>13 DEF NotCredible, EndRun, tables, wsvars, restvars, engvars, clocks, counters
<1>12. CASE ReadFails \/ PairFails
  <2>1. gapErrors' \in 0 .. MaxGapErrors
    BY <1>12, LimitAssumption DEF ReadFails, PairFails, GapError
  <2>2. QED
    BY <1>12, <2>1 DEF ReadFails, PairFails, tables, wsvars, restvars, engvars, clocks
<1>9. CASE HkCrash
  <2>1. hkCrashes' \in 0 .. MaxHkCrashes
    BY <1>9, LimitAssumption DEF HkCrash
  <2>2. QED
    BY <1>9, <2>1 DEF HkCrash, tables, wsvars, restvars, engvars, clocks
<1>10. CASE HkStart
  BY <1>1, <1>2, <1>10 DEF HkStart, Begin, tables, wsvars, restvars, history, engvars, clocks,
                           counters
<1>11. QED
  BY <1>4, <1>5, <1>6, <1>7, <1>8, <1>9, <1>10, <1>12, <1>13

(* The indicator engine.                                                   *)
LEMMA EngineTypes ==
    ASSUME IInv, Probe \/ Compute \/ Save
    PROVE  TypeOK'
<1> USE DEF IInv, TypeOK
<1>1. now \in Nat
  BY PeriodFacts
<1>2. IndMark \in Periods \cup {0}
  <2>1. Has(ind) \in SUBSET Periods
    BY DEF Has
  <2>2. QED
    BY <2>1, NewestIsGreatest DEF IndMark
<1>3. CASE Probe
  BY <1>1, <1>2, <1>3 DEF Probe, tables, wsvars, restvars, hkvars, history, clocks, counters
<1>4. CASE Compute
  <2>1. rows' \in UNION {[S -> {"bad", "good"}] : S \in SUBSET Periods}
    <3> DEFINE S == {q \in Closed : q >= SaveFrom}
    <3>1. S \in SUBSET Periods
      BY DEF Closed, Has
    <3>2. [p \in S |-> Computed(p)] \in [S -> {"bad", "good"}]
      BY DEF Computed
    <3>3. rows' = rows \/ rows' = [p \in S |-> Computed(p)]
      BY <1>4 DEF Compute
    <3> HIDE DEF S
    <3>4. QED
      BY <3>1, <3>2, <3>3
  <2>2. QED
    BY <1>1, <1>4, <2>1 DEF Compute, tables, wsvars, restvars, hkvars, history, clocks, counters
<1>5. CASE Save
  <2>1. PICK S \in SUBSET Periods : rows \in [S -> {"bad", "good"}]
    OBVIOUS
  <2>2. ind' \in [Periods -> {"none", "bad", "good"}]
    BY <1>5, <2>1 DEF Save, Upsert
  <2>3. QED
    BY <1>1, <1>5, <2>2, NoRowsType DEF Save, wsvars, restvars, hkvars, history, clocks, counters
<1>6. QED
  BY <1>3, <1>4, <1>5

LEMMA TypesKept ==
    ASSUME IInv, [Next]_vars
    PROVE  TypeOK'
<1>1. CASE UNCHANGED vars
  BY <1>1
       DEF IInv, TypeOK, vars, tables, wsvars, restvars, hkvars, history, engvars, clocks,
           counters
<1>2. CASE Next
  BY <1>2, StreamTypes, RestTypes, FillerTypes, EngineTypes DEF Next
<1>3. QED
  BY <1>1, <1>2
-----------------------------------------------------------------------------
(* No step leaves a hole where a candle was.                               *)
LEMMA CandlesStay ==
    ASSUME IInv, [Next]_vars
    PROVE  \A p \in Periods : candle[p] # "none" => candle'[p] # "none"
<1>1. candle \in [Periods -> Stored \cup {"none"}]
  BY DEF IInv, TypeOK
<1>2. ASSUME NEW r \in PartialRows, candle' = Upsert(candle, r)
      PROVE  \A p \in Periods : candle[p] # "none" => candle'[p] # "none"
  BY <1>1, <1>2, CandlesAdd
<1>3. CASE Flush
  BY <1>2, <1>3 DEF Flush, IInv, TypeOK
<1>4. CASE CatchInsert
  BY <1>2, <1>4 DEF CatchInsert, IInv, TypeOK
<1>5. CASE FreshInsert
  BY <1>2, <1>5 DEF FreshInsert, IInv, TypeOK
<1>6. CASE FillRange
  <2>1. Range \in SUBSET Periods
    BY DEF Range, IInv, TypeOK
  <2>2. Klines(Range) \in PartialRows
    BY <2>1, KlinesType
  <2>3. QED
    BY <1>2, <1>6, <2>2 DEF FillRange
<1>9. CASE RangeShort
  <2>1. PICK lost \in SUBSET Range : candle' = Upsert(candle, Klines(Range \ lost))
    BY <1>9 DEF RangeShort
  <2>2. Range \ lost \in SUBSET Periods
    BY DEF Range, IInv, TypeOK
  <2>3. Klines(Range \ lost) \in PartialRows
    BY <2>2, KlinesType
  <2>4. QED
    BY <1>2, <2>1, <2>3
<1>7. CASE UNCHANGED candle
  BY <1>7
<1>8. QED
  BY <1>3, <1>4, <1>5, <1>6, <1>7, <1>9
     DEF Next, vars, tables, Tick, WsForming, WsFinal, WsDrop, WsConnect, Swap, Catch, Freshen,
         IngestCrash, IngestStart, Scan, RangeShort, ReadFails, PairFails, Invalidate, Record,
         NotCredible, EndRun, HkCrash, HkStart, Probe, Compute, Save

(* What the engine computes has its whole lookback stored: a cycle that    *)
(* found a hole in the range it would write from computes nothing.         *)
LEMMA ComputedWhole ==
    ASSUME IInv, ~Contaminated, NEW p \in Closed, p >= SaveFrom
    PROVE  Whole(p)
<1>1. Closed \in SUBSET Periods /\ Closed # {}
  BY DEF Closed, Has
<1>2. Newest(Closed) \in Periods /\ p <= Newest(Closed)
  BY <1>1, NewestIsGreatest
<1>3. SaveFrom \in Int
  BY PeriodFacts, ScheduleAssumption DEF IInv, TypeOK, SaveFrom, AtLeast
<1>4. ASSUME NEW q \in Window(p) PROVE candle[q] # "none"
  <2>1. p \in Nat /\ Newest(Closed) \in Nat /\ Lookback \in Nat
    BY <1>1, <1>2, PeriodFacts, ScheduleAssumption
  <2>2. q \in AtLeast(1, SaveFrom - Lookback) .. Newest(Closed)
    BY <1>2, <1>3, <1>4, <2>1 DEF Window, AtLeast
  <2>3. q \in Closed
    BY <2>2 DEF Contaminated
  <2>4. QED
    BY <2>3 DEF Closed, Has
<1>5. QED
  BY <1>4 DEF Whole

LEMMA RowsKept ==
    ASSUME IInv, [Next]_vars
    PROVE  RowsWhole'
<1>1. \A p \in Periods : Window(p) \in SUBSET Periods
  BY PeriodFacts, ScheduleAssumption DEF Window, AtLeast
<1>2. ASSUME NEW p \in Periods, Whole(p) PROVE Whole(p)'
  <2>1. \A q \in Window(p) : candle'[q] # "none"
    BY <1>1, <1>2, CandlesStay DEF Whole
  <2>2. QED
    BY <2>1 DEF Whole, Window
<1>3. Has(ind) \in SUBSET Periods /\ Has(ind') \in SUBSET Periods
  BY DEF Has
<1>4. PICK S \in SUBSET Periods : rows \in [S -> {"bad", "good"}]
  BY DEF IInv, TypeOK
<1>5. SUFFICES ASSUME NEW p \in Has(ind') \cup DOMAIN rows', p \in Periods
               PROVE  Whole(p)
  <2>1. (rows' \in UNION {[T -> {"bad", "good"}] : T \in SUBSET Periods})
    BY TypesKept DEF TypeOK
  <2>2. DOMAIN rows' \in SUBSET Periods
    BY <2>1
  <2>3. QED
    BY <1>2, <1>3, <1>5, <2>2 DEF RowsWhole, Has
<1>6. CASE Compute
  <2>1. CASE Contaminated
    BY <1>6, <2>1 DEF Compute, tables, IInv, RowsWhole
  <2>2. CASE ~Contaminated
    <3>1. p \in Has(ind) \/ (p \in Closed /\ p >= SaveFrom)
      BY <1>6, <2>2 DEF Compute, tables
    <3>2. QED
      BY <2>2, <3>1, ComputedWhole DEF IInv, RowsWhole
  <2>3. QED
    BY <2>1, <2>2
<1>7. CASE Save
  <2>1. rows' = NoRows /\ ind' = Upsert(ind, rows)
    BY <1>7 DEF Save
  <2>2. p \in Has(ind')
    BY <2>1, NoRowsType
  <2>3. p \in DOMAIN rows \/ ind[p] # "none"
    BY <2>1, <2>2 DEF Has, Upsert
  <2>4. QED
    BY <1>5, <2>3 DEF Has, IInv, RowsWhole
<1>8. CASE Invalidate
  <2>1. rows' = rows
    BY <1>8 DEF Invalidate, engvars
  <2>2. ind'[p] = "none" \/ ind'[p] = ind[p]
    BY <1>5, <1>8 DEF Invalidate
  <2>3. p \in Has(ind') => p \in Has(ind)
    BY <2>2 DEF Has
  <2>4. QED
    BY <1>5, <2>1, <2>3 DEF IInv, RowsWhole
<1>9. CASE UNCHANGED <<ind, rows>>
  BY <1>9 DEF IInv, RowsWhole
<1>10. QED
  BY <1>6, <1>7, <1>8, <1>9
     DEF Next, vars, tables, engvars, Tick, WsForming, WsFinal, WsDrop, WsConnect, Swap, Flush,
         Catch, CatchInsert, Freshen, FreshInsert, IngestCrash, IngestStart, Scan, FillRange,
         RangeShort, ReadFails, PairFails, Record, NotCredible, EndRun, HkCrash, HkStart, Probe

LEMMA StepKeeps == IInv /\ [Next]_vars => IInv'
<1> SUFFICES ASSUME IInv, [Next]_vars PROVE IInv'
  OBVIOUS
<1>1. (candle[1] # "none")'
  BY CandlesStay, PeriodFacts DEF IInv
<1>2. QED
  BY <1>1, TypesKept, RowsKept DEF IInv

LEMMA Inductive == Spec => []IInv
BY InitHolds, StepKeeps, PTL DEF Spec

(* Every variable of the pipeline keeps to its type.                       *)
THEOREM TypeCorrect == Spec => []TypeOK
<1>1. IInv => TypeOK
  BY DEF IInv
<1>2. QED
  BY <1>1, Inductive, PTL

(* No indicator row is ever written over a missing candle, for any         *)
(* schedule, lookback, save window and number of faults: whatever the      *)
(* stream, the catch-ups and the gap filler write between the engine's     *)
(* read and its save (find_contaminating_gap).                             *)
THEOREM NoRowIsOverHole == Spec => []NoRowOverHole
<1>1. IInv => NoRowOverHole
  BY DEF IInv, RowsWhole, Whole, NoRowOverHole
<1>2. QED
  BY <1>1, Inductive, PTL

-----------------------------------------------------------------------------
Filling == filler \in {"filling", "filled", "failed"}

(* What the schedule fixes: the jobs that run within one period, and when  *)
(* the next catch-up is due.                                               *)
Timing ==
    /\ now > 1
    /\ dark <= MaxDark
    /\ up => now <= catchDue /\ catchDue <= now + CatchEvery
    /\ since > 0 => up /\ dark = 0
    /\ Filling => begun = now
    /\ filler \in {"filled", "failed"} => missing = {}
    /\ watermark <= now
    /\ engine # "idle" => cycled # now

LEMMA Numbers ==
    ASSUME TypeOK
    PROVE  /\ now \in Nat /\ now >= 1 /\ now <= Last /\ now - 1 \in Nat
           /\ catchDue \in Nat /\ dark \in Nat /\ since \in Nat /\ watermark \in Nat /\ cycled \in Nat
           /\ CatchEvery \in Nat /\ CatchEvery >= 1 /\ Overlap \in Nat /\ MaxDark \in Nat
           /\ Margin \in Nat /\ MinScan \in Nat /\ MaxScan \in Nat /\ SaveBack \in Nat /\ Lookback \in Nat
           /\ refused \in Nat /\ gapErrors \in Nat /\ mark \in Nat /\ mark <= Last
           /\ (oldest # 0 => oldest \in Periods)
BY PeriodFacts, ScheduleAssumption, LimitAssumption DEF TypeOK

LEMMA TimingInit == Init => Timing
<1> SUFFICES ASSUME Init PROVE Timing
  OBVIOUS
<1>1. now \in Nat /\ now > 1
  BY PeriodFacts DEF Init
<1>2. QED
  BY <1>1, ScheduleAssumption, LimitAssumption DEF Init, Timing, Filling

LEMMA TimingStep == ASSUME IInv, Timing, [Next]_vars PROVE Timing'
<1> USE Numbers, TypesKept DEF IInv
<1>1. CASE Tick
  <2>1. /\ now' = now + 1 /\ cycled' = now /\ watermark' = watermark /\ catchDue' = catchDue
        /\ ~Filling /\ filler' = filler /\ engine' = engine /\ up' = up
    BY <1>1 DEF Tick, OnSchedule, engvars, restvars, Filling
  <2>2. dark' <= MaxDark /\ (since' > 0 => up /\ dark' = 0)
    BY <1>1 DEF Tick, OnSchedule, Timing
  <2>3. up => now < catchDue
    BY <1>1 DEF Tick, OnSchedule
  <2>4. engine = "idle"
    BY <1>1, <2>1 DEF Tick, OnSchedule, Timing
  <2>5. QED
    BY <2>1, <2>2, <2>3, <2>4 DEF Timing, Filling
<1>2. CASE Catch \/ CatchInsert
  <2>1. /\ now' = now /\ up /\ up' = up
        /\ UNCHANGED <<dark, since, filler, begun, missing, watermark, engine, cycled>>
    BY <1>2 DEF Catch, CatchInsert, hkvars, history, engvars, clocks
  <2>2. catchDue' = catchDue \/ catchDue' = now + CatchEvery
    BY <1>2 DEF Catch, CatchInsert
  <2>3. QED
    BY <2>1, <2>2 DEF Timing, Filling
<1>3. CASE IngestCrash \/ IngestStart
  <2>1. /\ now' = now /\ (up' => catchDue' = now)
        /\ (since' = 0 \/ (since' = since /\ ~up))
        /\ UNCHANGED <<dark, filler, begun, missing, watermark, engine, cycled>>
    BY <1>3 DEF IngestCrash, IngestStart, hkvars, history, engvars, clocks
  <2>2. QED
    BY <2>1 DEF Timing, Filling
<1>4. CASE \/ Scan \/ FillRange \/ RangeShort \/ ReadFails \/ PairFails \/ Invalidate \/ Record
           \/ NotCredible \/ HkCrash \/ HkStart
  <2>1. UNCHANGED <<now, up, catchDue, dark, since, engine, cycled>>
    BY <1>4
         DEF Scan, FillRange, RangeShort, ReadFails, PairFails, Invalidate, Record, NotCredible,
             EndRun, HkCrash, HkStart, restvars, engvars, clocks
  <2>2. watermark' = watermark \/ (Filling /\ watermark' = begun)
    BY <1>4
         DEF Scan, FillRange, RangeShort, ReadFails, PairFails, Invalidate, Record, NotCredible,
             EndRun, HkCrash, HkStart, Filling
  <2>3. Filling' => begun' = now
    BY <1>4
         DEF Scan, FillRange, RangeShort, ReadFails, PairFails, Invalidate, Record, NotCredible,
             EndRun, HkCrash, HkStart, Begin, Timing, Filling
  <2>4. filler' \in {"filled", "failed"} => missing' = {}
    BY <1>4
         DEF Scan, FillRange, RangeShort, ReadFails, PairFails, Invalidate, Record, NotCredible,
             EndRun, HkCrash, HkStart, Begin, Timing
  <2>5. QED
    BY <2>1, <2>2, <2>3, <2>4 DEF Timing, Filling
<1>5. CASE Probe \/ Compute \/ Save
  <2>1. UNCHANGED <<now, up, catchDue, dark, since, filler, begun, missing, watermark>>
    BY <1>5 DEF Probe, Compute, Save, restvars, hkvars, history, clocks
  <2>2. engine' # "idle" => cycled' # now
    BY <1>5 DEF Probe, Compute, Save, Timing
  <2>3. QED
    BY <2>1, <2>2 DEF Timing, Filling
<1>6. CASE UNCHANGED <<now, up, catchDue, dark, since, filler, begun, missing, watermark, engine, cycled>>
  BY <1>6 DEF Timing, Filling
<1>7. QED
  BY <1>1, <1>2, <1>3, <1>4, <1>5, <1>6
     DEF Next, vars, restvars, hkvars, history, engvars, clocks, WsForming, WsFinal, WsDrop,
         WsConnect, Swap, Flush, Freshen, FreshInsert
-----------------------------------------------------------------------------
(* Nothing is stored of a period to come, and rows on their way are half   *)
(* written only of the forming period or the one before.                   *)
Young(r) == \A p \in DOMAIN r : p <= now /\ (r[p] = "part" => p >= now - 1)

Recent ==
    /\ \A p \in Periods : candle[p] # "none" => p <= now
    /\ Young(buffer) /\ Young(batch) /\ Young(caught) /\ Young(fresh)
    /\ closing <= now /\ \A p \in missing : p < now

(* A catch-up is inserted in the period in which it was fetched; if it was *)
(* not cut short, it holds the overlap, closed candles with final values.  *)
Fetched ==
    ~Empty(caught) =>
        /\ up /\ now = catchDue
        /\ refused = 0 => \A p \in Periods : now - Overlap <= p /\ p <= now
                             => p \in DOMAIN caught /\ (p < now => caught[p] = "final")

LEMMA UpsertValue ==
    ASSUME NEW r, NEW table, NEW p \in Periods
    PROVE  Upsert(table, r)[p] = IF p \in DOMAIN r THEN r[p] ELSE table[p]
BY DEF Upsert

LEMMA KlinesYoung ==
    ASSUME now \in Nat, NEW S \in SUBSET Periods, \A p \in S : p <= now
    PROVE  Young(Klines(S))
<1>1. \A p \in S : p \in Nat /\ (p < now => Klines(S)[p] = "final") /\ "final" # "part"
  BY PeriodFacts DEF Klines
<1>2. DOMAIN Klines(S) = S
  BY DEF Klines
<1>3. \A p \in S : Klines(S)[p] = "part" => p = now
  BY <1>1
<1>4. QED
  BY <1>2, <1>3 DEF Young

(* The candle table is written by a flush, two inserts and the gap filler. *)
LEMMA CandleWritten ==
    ASSUME [Next]_vars
    PROVE  \/ candle' = candle
           \/ now' = now /\ candle' = Upsert(candle, batch) /\ Flush
           \/ now' = now /\ candle' = Upsert(candle, caught) /\ CatchInsert
           \/ now' = now /\ candle' = Upsert(candle, fresh) /\ FreshInsert
           \/ now' = now /\ candle' = Upsert(candle, Klines(Range)) /\ FillRange
           \/ \E S \in SUBSET Range : now' = now /\ candle' = Upsert(candle, Klines(S)) /\ RangeShort
<1>1. CASE Flush
  BY <1>1 DEF Flush
<1>2. CASE CatchInsert
  BY <1>2 DEF CatchInsert
<1>3. CASE FreshInsert
  BY <1>3 DEF FreshInsert
<1>4. CASE FillRange
  BY <1>4 DEF FillRange
<1>7. CASE RangeShort
  <2>1. PICK lost \in SUBSET Range : candle' = Upsert(candle, Klines(Range \ lost))
    BY <1>7 DEF RangeShort
  <2>2. Range \ lost \in SUBSET Range /\ now' = now
    BY <1>7 DEF RangeShort
  <2>3. QED
    BY <1>7, <2>1, <2>2
<1>5. CASE candle' = candle
  BY <1>5
<1>6. QED
  BY <1>1, <1>2, <1>3, <1>4, <1>5, <1>7
     DEF Next, vars, tables, Tick, WsForming, WsFinal, WsDrop, WsConnect, Swap, Catch, Freshen,
         IngestCrash, IngestStart, Scan, RangeShort, ReadFails, PairFails, Invalidate, Record,
         NotCredible, EndRun, HkCrash, HkStart, Probe, Compute, Save

LEMMA RangeYoung ==
    ASSUME TypeOK, Recent
    PROVE  \A S \in SUBSET Range :
               /\ S \in SUBSET Periods /\ Klines(S) \in PartialRows /\ Young(Klines(S))
               /\ \A p \in S : p < now /\ Klines(S)[p] = "final"
<1> SUFFICES ASSUME NEW S \in SUBSET Range
             PROVE  /\ S \in SUBSET Periods /\ Klines(S) \in PartialRows /\ Young(Klines(S))
                    /\ \A p \in S : p < now /\ Klines(S)[p] = "final"
  OBVIOUS
<1>1. S \in SUBSET Periods /\ \A p \in S : p < now
  BY DEF Range, TypeOK, Recent
<1>2. now \in Nat /\ \A p \in S : p <= now
  BY <1>1, Numbers, PeriodFacts
<1>3. \A p \in S : Klines(S)[p] = "final"
  BY <1>1 DEF Klines
<1>4. QED
  BY <1>1, <1>2, <1>3, KlinesYoung, KlinesType

(* What is written to the candle table is of no period to come, and half   *)
(* written only near the forming one.                                      *)
LEMMA YoungWritten ==
    ASSUME TypeOK, Recent, [Next]_vars, NEW p \in Periods
    PROVE  candle'[p] = candle[p] \/ (p <= now /\ (candle'[p] = "final" \/ p >= now - 1))
<1>1. ASSUME NEW r \in PartialRows, Young(r), candle' = Upsert(candle, r)
      PROVE  candle'[p] = candle[p] \/ (p <= now /\ (candle'[p] = "final" \/ p >= now - 1))
  <2>1. CASE p \notin DOMAIN r
    BY <1>1, <2>1, UpsertValue
  <2>2. CASE p \in DOMAIN r
    <3>1. candle'[p] = r[p] /\ r[p] \in Stored
      BY <1>1, <2>2, UpsertValue, PartialRow
    <3>2. p <= now /\ (r[p] = "part" => p >= now - 1)
      BY <1>1, <2>2 DEF Young
    <3>3. QED
      BY <3>1, <3>2 DEF Stored
  <2>3. QED
    BY <2>1, <2>2
<1>2. QED
  BY <1>1, CandleWritten, RangeYoung DEF Recent, TypeOK

LEMMA RecentInit == Init => Recent /\ Fetched
<1> SUFFICES ASSUME Init PROVE Recent /\ Fetched
  OBVIOUS
<1>1. DOMAIN buffer = {} /\ DOMAIN batch = {} /\ DOMAIN caught = {} /\ DOMAIN fresh = {} /\ missing = {}
  BY NoRowsType DEF Init
<1>2. \A p \in Periods : candle[p] # "none" => p <= now
  BY PeriodFacts DEF Init
<1>3. QED
  BY <1>1, <1>2, PeriodFacts DEF Init, Recent, Fetched, Young, Empty

(* The buffer and its copy.                                                *)
LEMMA YoungBuffer ==
    ASSUME IInv, Recent, [Next]_vars, now' = now
    PROVE  Young(buffer)' /\ Young(batch)'
<1>1. /\ buffer \in PartialRows /\ DOMAIN NoRows = {} /\ now \in Nat
  BY NoRowsType, Numbers DEF IInv, TypeOK
<1>2. ASSUME NEW p, NEW v, p <= now, v = "part" => p >= now - 1
      PROVE  Young(Buffered(p, v))
  <2>1. DOMAIN Buffered(p, v) = DOMAIN buffer \cup {p}
    BY DEF Buffered
  <2>2. \A q \in DOMAIN buffer \cup {p} : Buffered(p, v)[q] = IF q = p THEN v ELSE buffer[q]
    BY DEF Buffered
  <2>3. QED
    BY <1>2, <2>1, <2>2 DEF Young, Recent
<1>3. Young(NoRows)
  BY <1>1 DEF Young
<1>4. Young(buffer')
  <2>1. CASE WsForming
    BY <1>1, <1>2, <2>1 DEF WsForming
  <2>2. CASE WsFinal
    BY <1>1, <1>2, <2>2 DEF WsFinal, Recent
  <2>3. CASE buffer' = NoRows
    BY <1>3, <2>3
  <2>4. CASE buffer' = buffer
    BY <2>4 DEF Recent
  <2>5. QED
    BY <2>1, <2>2, <2>3, <2>4
       DEF Next, vars, wsvars, Tick, WsDrop, WsConnect, Swap, Flush, Catch, CatchInsert, Freshen,
           FreshInsert, IngestCrash, IngestStart, Scan, FillRange, RangeShort, ReadFails,
           PairFails, Invalidate, Record, NotCredible, EndRun, HkCrash, HkStart, Probe, Compute,
           Save
<1>5. Young(batch')
  <2>1. batch' = NoRows \/ batch' = buffer \/ batch' = batch
    BY DEF Next, vars, wsvars, Tick, WsForming, WsFinal, WsDrop, WsConnect, Swap, Flush, Catch,
           CatchInsert, Freshen, FreshInsert, IngestCrash, IngestStart, Scan, FillRange,
           RangeShort, ReadFails, PairFails, Invalidate, Record, NotCredible, EndRun, HkCrash,
           HkStart, Probe, Compute, Save
  <2>2. QED
    BY <1>3, <2>1 DEF Recent
<1>6. QED
  BY <1>4, <1>5 DEF Young

(* The rows of the REST jobs.                                              *)
LEMMA YoungFetched ==
    ASSUME IInv, Recent, [Next]_vars, now' = now
    PROVE  Young(caught)' /\ Young(fresh)'
<1>1. now \in Periods /\ now \in Nat /\ CatchUpFrom \in Periods /\ Young(NoRows)
  BY NoRowsType, NewestStored, Numbers DEF IInv, TypeOK, Young
<1>2. ASSUME NEW a \in Periods, NEW b \in Int, b <= now
      PROVE  Young(Klines(a .. b))
  <2>1. a .. b \in SUBSET Periods /\ \A p \in a .. b : p <= now
    BY <1>1, <1>2, PeriodFacts
  <2>2. QED
    BY <1>1, <2>1, KlinesYoung
<1>3. Young(caught')
  <2>1. CASE Catch
    <3>1. CASE caught' = Klines(CatchUpFrom .. now)
      BY <1>1, <1>2, <3>1
    <3>2. CASE \E end \in CatchUpFrom - 1 .. now - 1 : caught' = Klines(CatchUpFrom .. end)
      <4>1. PICK end \in CatchUpFrom - 1 .. now - 1 : caught' = Klines(CatchUpFrom .. end)
        BY <3>2
      <4>2. end \in Int /\ end <= now
        BY <1>1, PeriodFacts
      <4>3. QED
        BY <1>1, <1>2, <4>1, <4>2
    <3>3. QED
      BY <2>1, <3>1, <3>2 DEF Catch
  <2>2. CASE caught' = NoRows \/ caught' = caught
    BY <1>1, <2>2 DEF Recent
  <2>3. QED
    BY <2>1, <2>2
       DEF Next, vars, restvars, Tick, WsForming, WsFinal, WsDrop, WsConnect, Swap, Flush,
           CatchInsert, Freshen, FreshInsert, IngestCrash, IngestStart, Scan, FillRange,
           RangeShort, ReadFails, PairFails, Invalidate, Record, NotCredible, EndRun, HkCrash,
           HkStart, Probe, Compute, Save
<1>4. Young(fresh')
  <2>1. CASE Freshen
    <3>1. AtLeast(1, now - 1) \in Periods
      BY <1>1, PeriodFacts DEF AtLeast
    <3>2. fresh' = Klines(AtLeast(1, now - 1) .. now)
      BY <2>1 DEF Freshen
    <3>3. now \in Int /\ now <= now
      BY <1>1
    <3>4. Young(Klines(AtLeast(1, now - 1) .. now))
      BY ONLY <1>2, <3>1, <3>3
    <3>5. QED
      BY <3>2, <3>4
  <2>2. CASE fresh' = NoRows \/ fresh' = fresh
    BY <1>1, <2>2 DEF Recent
  <2>3. QED
    BY <2>1, <2>2
       DEF Next, vars, restvars, Tick, WsForming, WsFinal, WsDrop, WsConnect, Swap, Flush, Catch,
           CatchInsert, FreshInsert, IngestCrash, IngestStart, Scan, FillRange, RangeShort,
           ReadFails, PairFails, Invalidate, Record, NotCredible, EndRun, HkCrash, HkStart, Probe,
           Compute, Save
<1>5. QED
  BY <1>3, <1>4 DEF Young

LEMMA TickOrStay ==
    ASSUME [Next]_vars
    PROVE  Tick \/ now' = now
BY DEF Next, vars, WsForming, WsFinal, WsDrop, WsConnect, Swap, Flush, Catch, CatchInsert,
       Freshen, FreshInsert, IngestCrash, IngestStart, Scan, FillRange, RangeShort, ReadFails,
       PairFails, Invalidate, Record, NotCredible, EndRun, HkCrash, HkStart, Probe, Compute, Save

LEMMA RecentStep == ASSUME IInv, Recent, [Next]_vars PROVE Recent'
<1>1. TypeOK /\ now \in Nat
  BY Numbers DEF IInv
<1>2. CASE Tick
  <2>1. /\ now' = now + 1 /\ Settled(buffer) /\ Settled(batch) /\ ~Straddles(caught) /\ ~Straddles(fresh)
        /\ UNCHANGED <<candle, buffer, batch, caught, fresh, missing>>
        /\ closing' <= now'
    BY <1>1, <1>2 DEF Tick, OnSchedule, tables, restvars
  <2>2. ASSUME NEW r \in PartialRows, Young(r), Settled(r) \/ ~Straddles(r)
        PROVE  \A p \in DOMAIN r : p <= now + 1 /\ (r[p] = "part" => p >= now)
    <3>1. \A p \in DOMAIN r : p \in Nat
      BY PartialRow, PeriodFacts
    <3>2. QED
      BY <1>1, <2>2, <3>1 DEF Young, Settled, Straddles
  <2>3. Young(buffer)' /\ Young(batch)' /\ Young(caught)' /\ Young(fresh)'
    BY <1>1, <2>1, <2>2 DEF Young, Recent, TypeOK
  <2>4. /\ \A p \in Periods : candle'[p] # "none" => p <= now'
        /\ \A p \in missing' : p < now'
    BY <1>1, <2>1, PeriodFacts DEF Recent, TypeOK
  <2>5. QED
    BY <2>1, <2>3, <2>4 DEF Recent
<1>3. CASE now' = now
  <2>1. \A p \in Periods : candle'[p] # "none" => p <= now'
    BY <1>1, <1>3, YoungWritten DEF Recent
  <2>2. closing' = 0 \/ closing' = closing
    <3>1. CASE WsFinal \/ WsDrop \/ IngestCrash
      BY <3>1 DEF WsFinal, WsDrop, IngestCrash
    <3>2. CASE Tick
      BY <1>1, <1>3, <3>2 DEF Tick
    <3>3. CASE UNCHANGED closing
      BY <3>3
    <3>4. QED
      BY <3>1, <3>2, <3>3
         DEF Next, vars, wsvars, WsForming, WsConnect, Swap, Flush, Catch, CatchInsert, Freshen,
             FreshInsert, IngestStart, Scan, FillRange, RangeShort, ReadFails, PairFails,
             Invalidate, Record, NotCredible, EndRun, HkCrash, HkStart, Probe, Compute, Save
  <2>3. \A p \in Gaps : p < now
    <3>1. ASSUME NEW p \in Gaps PROVE p < now
      <4>1. PICK b \in InWindow : p < b
        BY <3>1 DEF Gaps
      <4>2. b < now /\ b \in Nat /\ p \in Nat
        BY <3>1, <4>1, PeriodFacts DEF InWindow, Closed, Has, Gaps
      <4>3. QED
        BY <1>1, <4>1, <4>2
    <3>2. QED
      BY <3>1
  <2>4. missing' \subseteq missing \cup Gaps
    BY DEF Next, vars, hkvars, history, Begin, Tick, WsForming, WsFinal, WsDrop, WsConnect, Swap,
           Flush, Catch, CatchInsert, Freshen, FreshInsert, IngestCrash, IngestStart, Scan,
           FillRange, RangeShort, ReadFails, PairFails, Invalidate, Record, NotCredible, EndRun,
           HkCrash, HkStart, Probe, Compute, Save
  <2>5. QED
    BY <1>1, <1>3, <2>1, <2>2, <2>3, <2>4, YoungBuffer, YoungFetched DEF Recent
<1>4. QED
  BY <1>2, <1>3, TickOrStay
-----------------------------------------------------------------------------
(* The gap filler.  Up to a candle within the margin before the last run   *)
(* nothing is missing but what errors of recorded runs left open; up to    *)
(* one within the margin before a run under way nothing but that, what it  *)
(* will fetch and what its own errors left open.                           *)
Sound(p) == candle[p] # "none" \/ p \in skipped

Reached ==
    ~blind =>
        /\ \/ \E b \in Periods : /\ b < watermark /\ watermark <= b + Margin /\ candle[b] # "none"
                                 /\ \A p \in Periods : p <= b => Sound(p)
           \/ Margin = 0 /\ \A p \in Periods : p < watermark => candle[p] # "none"
        /\ Filling => \E b \in Periods :
                          /\ b < begun /\ begun <= b + Margin /\ candle[b] # "none"
                          /\ \A p \in Periods : p <= b => Sound(p) \/ p \in missing \cup left

LEMMA ReachedInit == Init => Reached
<1> SUFFICES ASSUME Init PROVE Reached
  OBVIOUS
<1>1. /\ History \in Periods /\ watermark = History + 1 /\ ~Filling /\ Margin \in Nat
      /\ \A p \in Periods : p \in Nat /\ (p <= History => candle[p] # "none")
  BY PeriodFacts, ScheduleAssumption DEF Init, Filling
<1>2. CASE Margin = 0
  BY <1>1, <1>2, PeriodFacts DEF Reached, Sound
<1>3. CASE Margin # 0
  <2>1. History < watermark /\ watermark <= History + Margin
    BY <1>1, <1>3, PeriodFacts
  <2>2. QED
    BY <1>1, <2>1 DEF Reached, Sound
<1>4. QED
  BY <1>2, <1>3

(* The window of a run joins the last one's: what is missing below a       *)
(* candle within the margin lies between two candles of the window.        *)
LEMMA WindowJoins ==
    ASSUME TypeOK, Timing, Sighted,
           NEW b0 \in Periods, b0 < watermark, watermark <= b0 + Margin, candle[b0] # "none",
           \A p \in Periods : p <= b0 => Sound(p)
    PROVE  \E b \in Periods : /\ b < now /\ now <= b + Margin /\ candle[b] # "none"
                              /\ \A p \in Periods : p <= b => Sound(p) \/ p \in Gaps
<1>1. /\ now \in Nat /\ watermark \in Nat /\ Margin \in Nat /\ MinScan \in Nat /\ MaxScan \in Nat
      /\ b0 \in Nat /\ watermark <= now
  BY Numbers, PeriodFacts DEF Timing
<1>2. ScanPeriods \in Int /\ ScanPeriods >= now - watermark + Margin
  BY <1>1 DEF ScanPeriods, AtMost, AtLeast, Sighted
<1>3. PICK b \in Closed : b >= now - Margin
  BY DEF Sighted
<1>4. b \in Periods /\ b \in Nat /\ b < now /\ candle[b] # "none"
  BY PeriodFacts DEF Closed, Has
<1>5. b0 \in InWindow
  BY <1>1, <1>2 DEF InWindow, Closed, Has
<1>6. b \in InWindow
  BY <1>1, <1>2, <1>3, <1>4 DEF InWindow
<1>7. ASSUME NEW p \in Periods, p <= b, ~Sound(p) PROVE p \in Gaps
  <2>1. p \in Nat /\ b0 < p /\ p < b /\ p \notin Closed
    BY <1>1, <1>4, <1>7, PeriodFacts DEF Closed, Has, Sound
  <2>2. QED
    BY <1>5, <1>6, <2>1 DEF Gaps
<1>8. now <= b + Margin
  BY <1>1, <1>3, <1>4
<1>9. QED
  BY <1>4, <1>7, <1>8

(* Holes are only ever added to the ones left open.                        *)
LEMMA StaysSound ==
    ASSUME IInv, [Next]_vars
    PROVE  skipped \subseteq skipped' /\ \A p \in Periods : Sound(p) => Sound(p)'
<1>1. skipped \subseteq skipped'
  BY DEF Next, vars, hkvars, history, Begin, Tick, WsForming, WsFinal, WsDrop, WsConnect, Swap, Flush,
         Catch, CatchInsert, Freshen, FreshInsert, IngestCrash, IngestStart, Scan, FillRange,
         RangeShort, ReadFails, PairFails, Invalidate, Record, NotCredible, EndRun, HkCrash, HkStart,
         Probe, Compute, Save
<1>2. QED
  BY <1>1, CandlesStay DEF Sound

(* What a fetch asks for is stored after it or left open.                  *)
LEMMA RangeFetched ==
    ASSUME TypeOK, FillRange \/ RangeShort
    PROVE  /\ missing' = missing \ Range
           /\ left \subseteq left' /\ \A p \in Range : p \in Periods /\ (candle'[p] # "none" \/ p \in left')
<1>1. Range \in SUBSET Periods
  BY DEF Range, TypeOK
<1>2. ASSUME NEW S \in SUBSET Range, candle' = Upsert(candle, Klines(S)), NEW p \in S
      PROVE  candle'[p] # "none"
  <2>1. candle'[p] = Klines(S)[p]
    BY <1>1, <1>2, UpsertValue DEF Klines
  <2>2. QED
    BY <2>1 DEF Klines
<1>3. CASE FillRange
  <2>1. candle' = Upsert(candle, Klines(Range)) /\ missing' = missing \ Range /\ left' = left
    BY <1>3 DEF FillRange, history
  <2>2. QED
    BY <1>1, <1>2, <2>1
<1>4. CASE RangeShort
  <2>1. missing' = missing \ Range
    BY <1>4 DEF RangeShort
  <2>2. PICK lost \in SUBSET Range : candle' = Upsert(candle, Klines(Range \ lost)) /\ left' = left \cup lost
    BY <1>4 DEF RangeShort
  <2>3. Range \ lost \in SUBSET Range
    OBVIOUS
  <2>4. ASSUME NEW p \in Range PROVE p \in Periods /\ (candle'[p] # "none" \/ p \in left')
    BY <1>1, <1>2, <2>2, <2>3, <2>4
  <2>5. QED
    BY <2>1, <2>2, <2>4
<1>5. QED
  BY <1>3, <1>4

LEMMA ReachedStep == ASSUME IInv, Timing, Reached, [Next]_vars PROVE Reached'
<1>0. TypeOK
  BY DEF IInv
<1> SUFFICES ASSUME ~blind' PROVE Reached'
  BY DEF Reached
<1>2. ~blind
  BY DEF Next, vars, hkvars, history, Begin, Tick, WsForming, WsFinal, WsDrop, WsConnect, Swap, Flush,
         Catch, CatchInsert, Freshen, FreshInsert, IngestCrash, IngestStart, Scan, FillRange,
         RangeShort, ReadFails, PairFails, Invalidate, Record, NotCredible, EndRun, HkCrash, HkStart,
         Probe, Compute, Save
<1>3. /\ \A p \in Periods : candle[p] # "none" => candle'[p] # "none"
      /\ \A p \in Periods : Sound(p) => Sound(p)'
  BY CandlesStay, StaysSound
<1>4. CASE Record
  <2>1. Filling /\ missing = {} /\ watermark' = begun /\ candle' = candle /\ ~Filling'
        /\ skipped' = skipped \cup left
    BY <1>4 DEF Record, EndRun, Filling, Timing, tables
  <2>2. PICK b \in Periods : /\ b < begun /\ begun <= b + Margin /\ candle[b] # "none"
                             /\ \A p \in Periods : p <= b => Sound(p) \/ p \in missing \cup left
    BY <1>2, <2>1 DEF Reached
  <2>3. \A p \in Periods : p <= b => Sound(p)'
    BY <2>1, <2>2 DEF Sound
  <2>4. QED
    BY <2>1, <2>2, <2>3 DEF Reached
<1>5. CASE Begin /\ watermark' = watermark /\ candle' = candle
  <2>1. Sighted /\ begun' = now /\ missing' = Gaps
    BY <1>5 DEF Begin
  <2>2. Margin # 0
    <3>1. PICK b \in Closed : b >= now - Margin
      BY <2>1 DEF Sighted
    <3>2. b < now /\ b \in Nat /\ now \in Nat
      BY <1>0, Numbers, PeriodFacts DEF Closed, Has
    <3>3. QED
      BY <3>1, <3>2
  <2>3. PICK b0 \in Periods : /\ b0 < watermark /\ watermark <= b0 + Margin /\ candle[b0] # "none"
                              /\ \A p \in Periods : p <= b0 => Sound(p)
    BY <1>2, <2>2 DEF Reached
  <2>4. PICK b \in Periods : /\ b < now /\ now <= b + Margin /\ candle[b] # "none"
                             /\ \A p \in Periods : p <= b => Sound(p) \/ p \in Gaps
    BY <1>0, <2>1, <2>3, WindowJoins
  <2>5. \A p \in Periods : p <= b => Sound(p)' \/ p \in missing' \cup left'
    BY <1>3, <2>1, <2>4
  <2>6. \A p \in Periods : p <= b0 => Sound(p)'
    BY <1>3, <2>3
  <2>7. QED
    BY <1>5, <2>1, <2>3, <2>4, <2>5, <2>6 DEF Reached
<1>6. CASE Filling /\ begun' = begun /\ watermark' = watermark
           /\ \A p \in missing \cup left : p \in Periods => p \in missing' \cup left' \/ Sound(p)'
  <2>1. PICK b \in Periods : /\ b < begun /\ begun <= b + Margin /\ candle[b] # "none"
                             /\ \A p \in Periods : p <= b => Sound(p) \/ p \in missing \cup left
    BY <1>2, <1>6 DEF Reached
  <2>2. \A p \in Periods : p <= b => Sound(p)' \/ p \in missing' \cup left'
    BY <1>3, <1>6, <2>1
  <2>3. candle'[b] # "none"
    BY <1>3, <2>1
  <2>4. QED
    BY <1>2, <1>3, <1>6, <2>1, <2>2, <2>3 DEF Reached
<1>7. CASE watermark' = watermark
           /\ (Filling' => Filling /\ begun' = begun /\ missing' = missing /\ left' = left)
  <2>1. CASE Filling
    BY <1>2, <1>3, <1>7, <2>1 DEF Reached
  <2>2. CASE ~Filling
    BY <1>2, <1>3, <1>7, <2>2 DEF Reached
  <2>3. QED
    BY <2>1, <2>2
<1>8. QED
  <2>1. CASE Scan \/ HkStart
    BY <1>5, <1>7, <2>1 DEF Scan, HkStart, tables, Filling, history
  <2>2. CASE FillRange \/ RangeShort
    <3>1. Filling /\ begun' = begun /\ watermark' = watermark
      BY <2>2 DEF FillRange, RangeShort, Filling
    <3>2. \A p \in missing \cup left : p \in Periods => p \in missing' \cup left' \/ Sound(p)'
      BY <1>0, <2>2, RangeFetched DEF Sound
    <3>3. QED
      BY <1>6, <3>1, <3>2
  <2>3. CASE ReadFails \/ PairFails
    <3>1. Filling /\ begun' = begun /\ watermark' = watermark
          /\ (left' = left \cup missing)
      BY <2>3 DEF ReadFails, PairFails, Filling
    <3>2. QED
      BY <1>6, <3>1
  <2>4. CASE Invalidate
    BY <1>6, <2>4 DEF Invalidate, Filling, history
  <2>5. CASE NotCredible \/ HkCrash
    BY <1>7, <2>5 DEF NotCredible, EndRun, HkCrash, Filling
  <2>6. QED
    BY <1>4, <1>7, <2>1, <2>2, <2>3, <2>4, <2>5
       DEF Next, vars, hkvars, history, Filling, Tick, WsForming, WsFinal, WsDrop, WsConnect, Swap,
           Flush, Catch, CatchInsert, Freshen, FreshInsert, IngestCrash, IngestStart, Probe, Compute,
           Save

LEMMA FillerInductive == Spec => [](IInv /\ Timing /\ Reached)
<1>1. Init => IInv /\ Timing /\ Reached
  BY InitHolds, TimingInit, ReachedInit
<1>2. IInv /\ Timing /\ Reached /\ [Next]_vars => (IInv /\ Timing /\ Reached)'
  BY StepKeeps, TimingStep, ReachedStep
<1>3. QED
  BY <1>1, <1>2, PTL DEF Spec

(* Whatever catch-ups, crashes, errors, runs that are not credible and     *)
(* passes at a start come in between, no hole is older than the margin     *)
(* before the last recorded run, but those an error of a recorded run left *)
(* open, for any window, floor, cap and margin (resolve_gap_scan_hours,    *)
(* should_record_gap_success).                                             *)
THEOREM GapsClosed == Spec => []HolesFilled
<1>1. IInv /\ Reached => HolesFilled
  <2> SUFFICES ASSUME IInv, Reached, ~blind, NEW p \in Periods, p < watermark - Margin
               PROVE  Sound(p)
    BY DEF HolesFilled, Sound
  <2>1. p \in Nat /\ Margin \in Nat /\ watermark \in Nat
    BY Numbers, PeriodFacts DEF IInv
  <2>2. CASE Margin = 0 /\ \A q \in Periods : q < watermark => candle[q] # "none"
    BY <2>1, <2>2 DEF Sound
  <2>3. CASE \E b \in Periods : /\ watermark <= b + Margin
                                /\ \A q \in Periods : q <= b => Sound(q)
    <3>1. PICK b \in Periods : /\ watermark <= b + Margin
                               /\ \A q \in Periods : q <= b => Sound(q)
      BY <2>3
    <3>2. p <= b
      BY <2>1, <3>1, PeriodFacts
    <3>3. QED
      BY <3>1, <3>2
  <2>4. QED
    BY <2>2, <2>3 DEF Reached
<1>2. QED
  BY <1>1, FillerInductive, PTL
-----------------------------------------------------------------------------
(* The catch-ups.  Unless one was cut short, what is not final yet was     *)
(* stored after the one before the last, or while the ingestion was down.  *)
Damage ==
    refused = 0 => \A p \in Periods : p < now /\ candle[p] # "final" =>
        /\ p >= now - dark - CatchEvery - 1
        /\ up /\ now < catchDue => p >= catchDue - CatchEvery - 1

(* In the period of a catch-up nothing is missing.                         *)
JustCaught ==
    refused = 0 /\ up /\ now = catchDue - CatchEvery
        => \A p \in Periods : p <= now => candle[p] # "none"

HealInv == IInv /\ Timing /\ Recent /\ Fetched /\ Damage /\ JustCaught

WideOverlap == CatchEvery + MaxDark < Overlap

LEMMA RefusedGrows == ASSUME TypeOK, [Next]_vars, refused' = 0 PROVE refused = 0
<1>1. CASE Catch
  BY <1>1, Numbers DEF Catch
<1>2. CASE UNCHANGED refused
  BY <1>2
<1>3. QED
  BY <1>1, <1>2
     DEF Next, vars, counters, Tick, WsForming, WsFinal, WsDrop, WsConnect, Swap, Flush,
         CatchInsert, Freshen, FreshInsert, IngestCrash, IngestStart, Scan, FillRange, RangeShort,
         ReadFails, PairFails, Invalidate, Record, NotCredible, EndRun, HkCrash, HkStart, Probe,
         Compute, Save

(* A catch-up begins no later than the overlap before the forming candle.  *)
LEMMA CatchUpReach ==
    ASSUME IInv, Recent
    PROVE  /\ CatchUpFrom \in Periods /\ CatchUpFrom <= now
           /\ CatchUpFrom = 1 \/ CatchUpFrom <= now - Overlap
<1>1. Newest(Has(candle)) \in Has(candle)
  <2>1. Has(candle) \in SUBSET Periods /\ Has(candle) # {}
    BY PeriodFacts DEF IInv, Has
  <2>2. QED
    BY <2>1, NewestIsGreatest
<1>2. Newest(Has(candle)) \in Nat /\ Newest(Has(candle)) <= now
  BY <1>1, PeriodFacts DEF Recent, Has
<1>3. now \in Nat /\ now >= 1 /\ Overlap \in Nat
  BY Numbers DEF IInv
<1>4. QED
  BY <1>2, <1>3, NewestStored DEF CatchUpFrom, AtLeast

(* A catch-up that is not cut short.                                       *)
LEMMA CaughtAll ==
    ASSUME IInv, Recent, Catch, refused' = refused
    PROVE  /\ caught' = Klines(CatchUpFrom .. now) /\ ~Empty(caught') /\ catchDue' = catchDue
           /\ \A p \in Periods : now - Overlap <= p /\ p <= now
                 => p \in DOMAIN caught' /\ (p < now => caught'[p] = "final")
<1>1. now \in Nat /\ refused \in Nat /\ Overlap \in Nat /\ CatchUpFrom \in Nat /\ CatchUpFrom <= now
  BY CatchUpReach, Numbers, PeriodFacts DEF IInv
<1>2. caught' = Klines(CatchUpFrom .. now)
  BY <1>1 DEF Catch
<1>3. DOMAIN caught' = CatchUpFrom .. now /\ CatchUpFrom \in CatchUpFrom .. now
  BY <1>1, <1>2 DEF Klines
<1>4. ~Empty(caught') /\ catchDue' = catchDue
  BY <1>3 DEF Catch, Empty
<1>5. ASSUME NEW p \in Periods, now - Overlap <= p, p <= now
      PROVE  p \in DOMAIN caught' /\ (p < now => caught'[p] = "final")
  <2>1. p \in CatchUpFrom .. now
    BY <1>1, <1>5, CatchUpReach, PeriodFacts
  <2>2. QED
    BY <1>2, <1>3, <2>1 DEF Klines
<1>6. QED
  BY <1>2, <1>4, <1>5

LEMMA FetchedStep == ASSUME IInv, Timing, Recent, Fetched, [Next]_vars PROVE Fetched'
<1>0. TypeOK /\ now \in Nat /\ catchDue \in Nat /\ refused \in Nat
  BY Numbers DEF IInv
<1>1. CASE Tick
  <2>1. caught' = caught /\ (up => now < catchDue)
    BY <1>1 DEF Tick, OnSchedule, restvars
  <2>2. Empty(caught)
    BY <1>0, <2>1 DEF Fetched
  <2>3. QED
    BY <2>1, <2>2 DEF Fetched, Empty
<1>2. CASE Catch
  <2>1. now' = now /\ up' = up /\ up /\ now = catchDue
    BY <1>0, <1>2 DEF Catch, Timing
  <2>2. CASE refused' = refused
    BY <1>2, <2>1, <2>2, CaughtAll DEF Fetched, Empty
  <2>3. CASE refused' # refused
    <3>1. refused' # 0 /\ (~Empty(caught') => catchDue' = catchDue)
      BY <1>0, <1>2, <2>3 DEF Catch
    <3>2. QED
      BY <2>1, <3>1 DEF Fetched, Empty
  <2>4. QED
    BY <2>2, <2>3
<1>3. CASE CatchInsert \/ IngestCrash
  <2>1. caught' = NoRows
    BY <1>3 DEF CatchInsert, IngestCrash
  <2>2. QED
    BY <2>1, NoRowsType DEF Fetched, Empty
<1>4. CASE IngestStart
  <2>1. caught' = caught /\ Empty(caught)
    BY <1>4 DEF IngestStart, Fetched
  <2>2. QED
    BY <2>1 DEF Fetched, Empty
<1>5. CASE UNCHANGED <<caught, up, now, catchDue>>
  BY <1>0, <1>5, RefusedGrows DEF Fetched, Empty
<1>6. QED
  BY <1>1, <1>2, <1>3, <1>4, <1>5
     DEF Next, vars, restvars, WsForming, WsFinal, WsDrop, WsConnect, Swap, Flush, Freshen,
         FreshInsert, Scan, FillRange, RangeShort, ReadFails, PairFails, Invalidate, Record,
         NotCredible, EndRun, HkCrash, HkStart, Probe, Compute, Save

(* The insert of a catch-up that was not cut short leaves every closed     *)
(* candle final: what it does not hold already was.                        *)
LEMMA InsertHeals ==
    ASSUME HealInv, WideOverlap, CatchInsert, refused = 0, NEW p \in Periods, p <= now
    PROVE  candle'[p] # "none" /\ (p < now => candle'[p] = "final")
<1>1. /\ now \in Nat /\ dark \in Nat /\ p \in Nat /\ Overlap \in Nat /\ CatchEvery \in Nat /\ CatchEvery >= 1
      /\ MaxDark \in Nat /\ dark <= MaxDark
  BY Numbers, PeriodFacts DEF HealInv, IInv, Timing
<1>2. candle' = Upsert(candle, caught) /\ ~Empty(caught) /\ caught \in PartialRows
  BY DEF CatchInsert, HealInv, IInv, TypeOK
<1>3. p \in DOMAIN caught => caught[p] \in Stored /\ (p < now - 1 => caught[p] = "final")
  BY <1>1, <1>2, PartialRow DEF HealInv, Recent, Young, Stored
<1>4. CASE now - Overlap <= p
  <2>1. p \in DOMAIN caught /\ (p < now => caught[p] = "final")
    BY <1>2, <1>4 DEF HealInv, Fetched
  <2>2. QED
    BY <1>2, <1>3, <2>1, UpsertValue DEF Stored
<1>5. CASE p < now - Overlap
  <2>1. p < now - 1 /\ p < now - dark - CatchEvery - 1 /\ p < now
    BY <1>1, <1>5 DEF WideOverlap
  <2>2. ~(p >= now - dark - CatchEvery - 1)
    BY <1>1, <2>1
  <2>3. candle[p] = "final"
    BY <2>1, <2>2 DEF HealInv, Damage
  <2>4. QED
    BY <1>2, <1>3, <2>1, <2>3, UpsertValue
<1>6. QED
  BY <1>1, <1>4, <1>5

LEMMA DamageStep == ASSUME HealInv, WideOverlap, [Next]_vars PROVE Damage'
<1>0. TypeOK /\ IInv /\ Timing /\ Recent
  BY DEF HealInv, IInv
<1> SUFFICES ASSUME refused' = 0, NEW p \in Periods, p < now', candle'[p] # "final"
             PROVE  /\ p >= now' - dark' - CatchEvery - 1
                    /\ up' /\ now' < catchDue' => p >= catchDue' - CatchEvery - 1
  BY DEF Damage
<1>1. refused = 0
  BY <1>0, RefusedGrows
<1>2. /\ now \in Nat /\ dark \in Nat /\ p \in Nat /\ CatchEvery \in Nat /\ CatchEvery >= 1 /\ catchDue \in Nat
      /\ up => now <= catchDue /\ catchDue <= now + CatchEvery
  BY <1>0, Numbers, PeriodFacts DEF Timing
<1>3. CASE Tick
  <2>1. /\ now' = now + 1 /\ candle' = candle /\ up' = up /\ catchDue' = catchDue
        /\ up => dark' = 0 /\ now < catchDue
        /\ ~up => dark' = dark + 1
    BY <1>3 DEF Tick, OnSchedule, tables, restvars
  <2>2. p < now => p >= now - dark - CatchEvery - 1 /\ (up /\ now < catchDue => p >= catchDue - CatchEvery - 1)
    BY <1>1, <2>1 DEF HealInv, Damage
  <2>3. QED
    BY <1>2, <2>1, <2>2
<1>4. CASE now' = now
  <2>1. CASE CatchInsert
    BY <1>0, <1>1, <1>2, <1>4, <2>1, InsertHeals
  <2>2. CASE ~CatchInsert
    <3>1. p >= now - dark - CatchEvery - 1 /\ (up /\ now < catchDue => p >= catchDue - CatchEvery - 1)
      <4>1. candle'[p] = candle[p] \/ p >= now - 1
        BY <1>0, YoungWritten
      <4>2. CASE candle'[p] = candle[p]
        BY <1>1, <1>4, <4>2 DEF HealInv, Damage
      <4>3. CASE p >= now - 1
        BY <1>2, <4>3
      <4>4. QED
        BY <4>1, <4>2, <4>3
    <3>2. dark' = dark /\ ((up' = up /\ catchDue' = catchDue) \/ ~up' \/ catchDue' = now)
      <4>1. CASE Catch
        <5>1. refused' = refused
          BY <1>1
        <5>2. QED
          BY <1>0, <4>1, <5>1, CaughtAll DEF Catch, clocks
      <4>2. CASE IngestCrash \/ IngestStart
        BY <4>2 DEF IngestCrash, IngestStart, clocks
      <4>3. CASE Tick
        BY <1>2, <1>4, <4>3 DEF Tick
      <4>4. CASE UNCHANGED <<dark, up, catchDue>>
        BY <4>4
      <4>5. QED
        BY <2>2, <4>1, <4>2, <4>3, <4>4
           DEF Next, vars, restvars, clocks, WsForming, WsFinal, WsDrop, WsConnect, Swap, Flush,
               Freshen, FreshInsert, Scan, FillRange, RangeShort, ReadFails, PairFails,
               Invalidate, Record, NotCredible, EndRun, HkCrash, HkStart, Probe, Compute, Save
    <3>3. QED
      BY <1>2, <1>4, <3>1, <3>2
  <2>3. QED
    BY <2>1, <2>2
<1>5. QED
  BY <1>3, <1>4, TickOrStay

LEMMA JustCaughtStep == ASSUME HealInv, WideOverlap, [Next]_vars PROVE JustCaught'
<1>0. TypeOK /\ IInv /\ Timing /\ Recent
  BY DEF HealInv, IInv
<1> SUFFICES ASSUME refused' = 0, up', now' = catchDue' - CatchEvery, NEW p \in Periods, p <= now'
             PROVE  candle'[p] # "none"
  BY DEF JustCaught
<1>1. refused = 0 /\ refused' = refused
  BY <1>0, RefusedGrows
<1>2. /\ now \in Nat /\ CatchEvery \in Nat /\ CatchEvery >= 1 /\ catchDue \in Nat
      /\ up => now <= catchDue /\ catchDue <= now + CatchEvery
  BY <1>0, Numbers DEF Timing
<1>3. CASE CatchInsert
  BY <1>1, <1>3, InsertHeals DEF CatchInsert
<1>4. CASE Tick
  BY <1>2, <1>4 DEF Tick, restvars
<1>5. CASE IngestCrash \/ IngestStart
  BY <1>2, <1>5 DEF IngestCrash, IngestStart
<1>6. CASE UNCHANGED <<now, up, catchDue>>
  BY <1>0, <1>1, <1>6, CandlesStay DEF HealInv, JustCaught
<1>7. CASE Catch
  BY <1>0, <1>1, <1>6, <1>7, CaughtAll DEF Catch
<1>8. QED
  BY <1>3, <1>4, <1>5, <1>6, <1>7
     DEF Next, vars, restvars, WsForming, WsFinal, WsDrop, WsConnect, Swap, Flush, Freshen,
         FreshInsert, Scan, FillRange, RangeShort, ReadFails, PairFails, Invalidate, Record,
         NotCredible, EndRun, HkCrash, HkStart, Probe, Compute, Save

LEMMA HealInit == Init => HealInv
<1> SUFFICES ASSUME Init PROVE HealInv
  OBVIOUS
<1>1. \A p \in Periods : (p <= now => candle[p] # "none") /\ (p < now => candle[p] = "final")
  BY PeriodFacts, PeriodAssumption DEF Init
<1>2. Damage
  BY <1>1 DEF Damage
<1>3. JustCaught
  <2>1. now \in Nat /\ catchDue = now + CatchEvery
    BY PeriodFacts DEF Init
  <2>2. QED
    BY <1>1, <2>1 DEF JustCaught
<1>4. QED
  BY <1>2, <1>3, InitHolds, TimingInit, RecentInit DEF HealInv

LEMMA HealStep == ASSUME WideOverlap PROVE HealInv /\ [Next]_vars => HealInv'
BY StepKeeps, TimingStep, RecentStep, FetchedStep, DamageStep, JustCaughtStep DEF HealInv

LEMMA HealInductive == ASSUME WideOverlap PROVE Spec => []HealInv
BY HealInit, HealStep, PTL DEF Spec

(* Every candle has its final values one catch-up, and the period it was   *)
(* closing in, after the stream lost it, for any number of disconnects,    *)
(* lost flushes, late writes and crashes, if the time between two          *)
(* catch-ups and the longest outage together are shorter than the overlap. *)
THEOREM CandlesHeal == ASSUME CatchEvery + MaxDark < Overlap PROVE Spec => []Healed
<1>1. HealInv => Healed
  <2> SUFFICES ASSUME HealInv, refused = 0, NEW p \in Periods, p < now - dark - CatchEvery - 1
               PROVE  candle[p] = "final"
    BY DEF Healed
  <2>1. now \in Nat /\ dark \in Nat /\ p \in Nat /\ CatchEvery \in Nat
    BY Numbers, PeriodFacts DEF HealInv, IInv
  <2>2. QED
    BY <2>1 DEF HealInv, Damage
<1>2. WideOverlap
  BY DEF WideOverlap
<1>3. QED
  BY <1>1, <1>2, HealInductive, PTL
-----------------------------------------------------------------------------
(* The indicator table.  Its rows have no hole among them or under them,   *)
(* and stay below the newest closed candle until the cycle has run.        *)
Stacked ==
    \A p \in Periods : ind[p] # "none" =>
        /\ p < now
        /\ \A q \in Periods : q <= p => candle[q] # "none" /\ ind[q] # "none"

Behind == cycled # now => \A p \in Periods : ind[p] # "none" => p < now - 1

(* From its read to its save the engine finds the table as it read it, and *)
(* holds the rows from the start of its save window to the newest candle   *)
(* it read.                                                                *)
Reading == engine # "idle" => \A p \in Periods : ind[p] # "none" <=> p <= mark

Holding ==
    /\ engine # "computed" => DOMAIN rows = {}
    /\ engine = "computed" =>
           \E top \in Periods :
               /\ top < now /\ \A q \in Periods : q <= top => candle[q] # "none"
               /\ \A q \in Periods : q \in DOMAIN rows <=> SaveFrom <= q /\ q <= top

(* Until the cycle has run, no row stands above a hole the gap filler      *)
(* found, so it deletes none.                                              *)
Cutting ==
    Filling =>
        /\ oldest = 0 => ~filled /\ missing = {}
        /\ oldest # 0 /\ cycled # now => \A p \in Periods : ind[p] # "none" => p < oldest

Dense == Stacked /\ Behind /\ Reading /\ Holding /\ Cutting

LEMMA RowValues ==
    ASSUME TypeOK
    PROVE  DOMAIN rows \in SUBSET Periods /\ \A p \in DOMAIN rows : rows[p] \in {"bad", "good"}
<1>1. PICK S \in SUBSET Periods : rows \in [S -> {"bad", "good"}]
  BY DEF TypeOK
<1>2. QED
  BY <1>1

LEMMA SaveReach ==
    ASSUME TypeOK
    PROVE  /\ SaveFrom \in Nat /\ SaveFrom >= 1 /\ SaveFrom <= mark + 1
           /\ SaveFrom = 1 \/ SaveFrom = mark - SaveBack
BY Numbers DEF SaveFrom, AtLeast

LEMMA GapsAreHoles ==
    ASSUME TypeOK
    PROVE  \A p \in Gaps : p \in Periods /\ p < now /\ candle[p] = "none"
<1> SUFFICES ASSUME NEW p \in Gaps PROVE p \in Periods /\ p < now /\ candle[p] = "none"
  OBVIOUS
<1>1. p \in Periods /\ p \notin Closed /\ \E b \in InWindow : p < b
  BY DEF Gaps
<1>2. PICK b \in InWindow : p < b
  BY <1>1
<1>3. b < now /\ b \in Nat /\ p \in Nat /\ now \in Nat
  BY <1>1, Numbers, PeriodFacts DEF InWindow, Closed, Has
<1>4. QED
  BY <1>1, <1>2, <1>3 DEF Closed, Has

LEMMA FirstGap == ASSUME TypeOK, Gaps # {} PROVE First(Gaps) \in Gaps
BY FirstIsLeast DEF Gaps

LEMMA DeletesNothing ==
    ASSUME TypeOK, Dense, Invalidate, cycled # now
    PROVE  ind' = ind
<1>1. CASE ind' = ind
  BY <1>1
<1>2. CASE ind' # ind
  <2>1. /\ Filling /\ ind' = [p \in Periods |->
                                 IF DeletesRows /\ filled /\ p >= oldest THEN "none" ELSE ind[p]]
    BY <1>2 DEF Invalidate, Filling
  <2>2. ASSUME NEW p \in Periods PROVE ind'[p] = ind[p]
    <3>1. CASE filled /\ p >= oldest
      <4>1. oldest # 0 /\ oldest \in Nat /\ p \in Nat
        BY <2>1, <3>1, Numbers, PeriodFacts DEF Dense, Cutting
      <4>2. ind[p] = "none"
        BY <2>1, <3>1, <4>1 DEF Dense, Cutting
      <4>3. QED
        BY <2>1, <4>2
    <3>2. CASE ~(filled /\ p >= oldest)
      BY <2>1, <3>2
    <3>3. QED
      BY <3>1, <3>2
  <2>3. ind \in [Periods -> {"none", "bad", "good"}] /\ ind' = [p \in Periods |-> ind'[p]]
    BY <2>1 DEF TypeOK
  <2>4. QED
    BY <2>2, <2>3
<1>3. QED
  BY <1>1, <1>2

(* The table is written by the engine's save and cut by the gap filler.    *)
LEMMA RowsWritten ==
    ASSUME [Next]_vars
    PROVE  Save \/ Invalidate \/ ind' = ind
BY DEF Next, vars, tables, Tick, WsForming, WsFinal, WsDrop, WsConnect, Swap, Flush, Catch,
       CatchInsert, Freshen, FreshInsert, IngestCrash, IngestStart, Scan, FillRange, RangeShort,
       ReadFails, PairFails, Record, NotCredible, EndRun, HkCrash, HkStart, Probe, Compute

LEMMA EngineMoves ==
    ASSUME [Next]_vars
    PROVE  Probe \/ Compute \/ Save \/ UNCHANGED engvars
BY DEF Next, vars, engvars, Tick, WsForming, WsFinal, WsDrop, WsConnect, Swap, Flush, Catch,
       CatchInsert, Freshen, FreshInsert, IngestCrash, IngestStart, Scan, FillRange, RangeShort,
       ReadFails, PairFails, Invalidate, Record, NotCredible, EndRun, HkCrash, HkStart

LEMMA Saved ==
    ASSUME TypeOK, Save, NEW p \in Periods
    PROVE  /\ ind'[p] = IF p \in DOMAIN rows THEN rows[p] ELSE ind[p]
           /\ ind'[p] # "none" <=> p \in DOMAIN rows \/ ind[p] # "none"
           /\ now' = now /\ candle' = candle /\ cycled' = now /\ engine' = "idle" /\ rows' = NoRows
           /\ engine = "computed" /\ UNCHANGED <<filler, oldest, filled, missing>>
<1>1. ind'[p] = IF p \in DOMAIN rows THEN rows[p] ELSE ind[p]
  BY UpsertValue DEF Save
<1>2. p \in DOMAIN rows => rows[p] # "none"
  BY RowValues
<1>3. QED
  BY <1>1, <1>2 DEF Save, hkvars, history

LEMMA StackedStep == ASSUME IInv, Timing, Dense, [Next]_vars PROVE Stacked'
<1>0. TypeOK /\ now \in Nat /\ mark \in Nat /\ \A p \in Periods : candle[p] # "none" => candle'[p] # "none"
  BY Numbers, CandlesStay DEF IInv
<1>1. now' \in Nat /\ now' >= now
  <2>1. CASE Tick
    BY <1>0, <2>1 DEF Tick
  <2>2. CASE now' = now
    BY <1>0, <2>2
  <2>3. QED
    BY <2>1, <2>2, TickOrStay
<1>2. CASE Save
  <2> SUFFICES ASSUME NEW p \in Periods, ind'[p] # "none"
               PROVE  p < now /\ \A q \in Periods : q <= p => candle[q] # "none" /\ ind'[q] # "none"
    BY <1>0, <1>2, Saved DEF Stacked
  <2>1. PICK top \in Periods :
            /\ top < now /\ \A q \in Periods : q <= top => candle[q] # "none"
            /\ \A q \in Periods : q \in DOMAIN rows <=> SaveFrom <= q /\ q <= top
    BY <1>2 DEF Save, Dense, Holding
  <2>2. \A q \in Periods : ind[q] # "none" <=> q <= mark
    BY <1>2 DEF Save, Dense, Reading
  <2>3. p \in DOMAIN rows \/ ind[p] # "none"
    BY <1>0, <1>2, Saved
  <2>4. p \in Nat /\ top \in Nat /\ SaveFrom \in Nat /\ SaveFrom <= mark + 1
    BY <1>0, PeriodFacts, SaveReach
  <2>5. p < now
    BY <1>0, <2>1, <2>3, <2>4 DEF Dense, Stacked
  <2>6. ASSUME NEW q \in Periods, q <= p PROVE candle[q] # "none" /\ ind'[q] # "none"
    <3>1. q \in Nat
      BY PeriodFacts
    <3>2. candle[q] # "none"
      <4>1. CASE p \in DOMAIN rows
        <5>1. q <= top
          BY <2>1, <2>4, <2>6, <3>1, <4>1
        <5>2. QED
          BY <2>1, <5>1
      <4>2. CASE ind[p] # "none"
        BY <2>6, <4>2 DEF Dense, Stacked
      <4>3. QED
        BY <2>3, <4>1, <4>2
    <3>3. q \in DOMAIN rows \/ ind[q] # "none"
      <4>1. CASE q <= mark
        BY <2>2, <4>1
      <4>2. CASE q > mark
        <5>1. p \in DOMAIN rows
          BY <1>0, <2>2, <2>3, <2>4, <2>6, <3>1, <4>2
        <5>2. SaveFrom <= q /\ q <= top
          BY <1>0, <2>1, <2>4, <2>6, <3>1, <4>2, <5>1
        <5>3. QED
          BY <2>1, <5>2
      <4>3. QED
        BY <1>0, <3>1, <4>1, <4>2
    <3>4. QED
      BY <1>0, <1>2, <3>2, <3>3, Saved
  <2>7. QED
    BY <2>5, <2>6
<1>3. CASE Invalidate /\ ind' # ind
  <2> SUFFICES ASSUME NEW p \in Periods, ind'[p] # "none", NEW q \in Periods, q <= p
               PROVE  p < now /\ candle[q] # "none" /\ ind'[q] # "none"
    BY <1>3, PeriodFacts DEF Stacked, Invalidate
  <2>1. ind[p] # "none" /\ ~(DeletesRows /\ filled /\ p >= oldest)
    BY <1>3 DEF Invalidate
  <2>2. p \in Nat /\ q \in Nat /\ oldest \in Nat
    BY <1>0, Numbers, PeriodFacts DEF TypeOK
  <2>3. ~(DeletesRows /\ filled /\ q >= oldest)
    BY <2>1, <2>2
  <2>4. ind'[q] = ind[q]
    BY <1>3, <2>3 DEF Invalidate
  <2>5. QED
    BY <2>1, <2>4 DEF Dense, Stacked
<1>4. CASE ind' = ind
  BY <1>0, <1>1, <1>4, PeriodFacts DEF Dense, Stacked
<1>5. QED
  BY <1>2, <1>3, <1>4, RowsWritten

LEMMA BehindStep == ASSUME IInv, Timing, Dense, [Next]_vars PROVE Behind'
<1>0. TypeOK /\ now \in Nat
  BY Numbers DEF IInv
<1>1. CASE Tick
  <2>1. now' = now + 1 /\ ind' = ind
    BY <1>1 DEF Tick, tables
  <2>2. QED
    BY <1>0, <2>1, PeriodFacts DEF Dense, Stacked, Behind
<1>2. CASE now' = now /\ (cycled' = now \/ cycled' = cycled) /\ (Save => cycled' = now)
  <2>1. CASE Invalidate
    <3>1. cycled' = cycled /\ (cycled # now => ind' = ind)
      BY <1>0, <2>1, DeletesNothing DEF Invalidate, engvars
    <3>2. QED
      BY <1>2, <3>1 DEF Dense, Behind
  <2>2. CASE Save
    BY <1>2, <2>2 DEF Behind
  <2>3. CASE ind' = ind
    BY <1>2, <2>3 DEF Dense, Behind
  <2>4. QED
    BY <2>1, <2>2, <2>3, RowsWritten
<1>3. cycled' = now \/ cycled' = cycled
  BY EngineMoves DEF Probe, Compute, Save, engvars
<1>4. QED
  BY <1>1, <1>2, <1>3, TickOrStay DEF Save

(* The newest row is the engine's watermark.                               *)
LEMMA MarkReads ==
    ASSUME TypeOK, Stacked
    PROVE  IndMark \in Nat /\ \A p \in Periods : ind[p] # "none" <=> p <= IndMark
<1>1. Has(ind) \in SUBSET Periods
  BY DEF Has
<1>2. CASE Has(ind) = {}
  BY <1>2, PeriodFacts DEF IndMark, Has
<1>3. CASE Has(ind) # {}
  <2>1. IndMark \in Has(ind) /\ \A q \in Has(ind) : q <= IndMark
    BY <1>1, <1>3, NewestIsGreatest DEF IndMark
  <2>2. QED
    BY <2>1, PeriodFacts DEF Stacked, Has
<1>4. QED
  BY <1>2, <1>3

LEMMA ReadingStep == ASSUME IInv, Timing, Dense, [Next]_vars PROVE Reading'
<1>0. TypeOK
  BY DEF IInv
<1>1. CASE Probe
  <2>1. engine' # "idle" => mark' = IndMark
    BY <1>1 DEF Probe
  <2>2. ind' = ind
    BY <1>1 DEF Probe, tables
  <2>3. QED
    BY <1>0, <2>1, <2>2, MarkReads DEF Reading, Dense
<1>2. CASE Compute
  <2>1. ind' = ind /\ engine = "probed" /\ (engine' # "idle" => mark' = mark)
    BY <1>2 DEF Compute, tables
  <2>2. QED
    BY <2>1 DEF Reading, Dense
<1>3. CASE Save
  BY <1>3 DEF Save, Reading
<1>4. CASE UNCHANGED engvars /\ ind' = ind
  BY <1>4 DEF engvars, Reading, Dense
<1>5. CASE UNCHANGED engvars /\ Invalidate
  <2>1. engine # "idle" => ind' = ind
    BY <1>0, <1>5, DeletesNothing DEF Timing
  <2>2. QED
    BY <1>5, <2>1 DEF engvars, Reading, Dense
<1>6. QED
  BY <1>1, <1>2, <1>3, <1>4, <1>5, EngineMoves, RowsWritten

(* What the engine holds after a cycle that found no hole.                 *)
LEMMA ComputedRows ==
    ASSUME IInv, Timing, Stacked, Reading, engine = "probed", ~Contaminated
    PROVE  \E top \in Periods :
               /\ top = Newest(Closed) /\ top < now /\ \A q \in Periods : q <= top => candle[q] # "none"
               /\ \A q \in Periods : (q \in Closed /\ q >= SaveFrom) <=> (SaveFrom <= q /\ q <= top)
<1>0. TypeOK /\ now \in Nat /\ mark \in Nat /\ Lookback \in Nat
  BY Numbers DEF IInv
<1>1. Closed \in SUBSET Periods /\ \A q \in Periods : q \in Closed <=> candle[q] # "none" /\ q < now
  BY DEF Closed, Has
<1>2. 1 \in Closed
  BY <1>0, <1>1, PeriodFacts DEF IInv, Timing
<1>3. Newest(Closed) \in Closed /\ \A q \in Closed : q <= Newest(Closed)
  BY <1>1, <1>2, NewestIsGreatest
<1> DEFINE top == Newest(Closed)
<1>4. top \in Periods /\ top \in Nat /\ top < now
  BY <1>1, <1>3, PeriodFacts
<1>5. ASSUME NEW q \in Periods, q <= top PROVE candle[q] # "none"
  <2>1. q \in Nat /\ q >= 1
    BY PeriodFacts
  <2>2. CASE q <= mark
    <3>1. ind[q] # "none"
      BY <2>2 DEF Reading
    <3>2. QED
      BY <2>1, <3>1 DEF Stacked
  <2>3. CASE q > mark
    <3>1. AtLeast(1, SaveFrom - Lookback) <= q
      BY <1>0, <2>1, <2>3, SaveReach DEF AtLeast
    <3>2. AtLeast(1, SaveFrom - Lookback) \in Int
      BY <1>0, SaveReach DEF AtLeast
    <3>3. q \in AtLeast(1, SaveFrom - Lookback) .. top
      BY <1>4, <1>5, <2>1, <3>1, <3>2
    <3>4. QED
      BY <1>1, <3>3 DEF Contaminated
  <2>4. QED
    BY <1>0, <2>1, <2>2, <2>3
<1>6. ASSUME NEW q \in Periods PROVE (q \in Closed /\ q >= SaveFrom) <=> (SaveFrom <= q /\ q <= top)
  <2>1. q \in Nat /\ SaveFrom \in Nat
    BY <1>0, PeriodFacts, SaveReach
  <2>2. q <= top => q < now
    BY <1>0, <1>4, <2>1
  <2>3. QED
    BY <1>1, <1>3, <1>5, <2>1, <2>2
<1>7. QED
  BY <1>4, <1>5, <1>6

LEMMA HoldingStep == ASSUME IInv, Timing, Dense, [Next]_vars PROVE Holding'
<1>0. TypeOK
  BY DEF IInv
<1>1. CASE Probe
  <2>1. engine = "idle" /\ engine' # "computed" /\ rows' = rows
    BY <1>1 DEF Probe
  <2>2. QED
    BY <2>1 DEF Dense, Holding
<1>2. CASE Compute
  <2>1. engine = "probed" /\ now' = now /\ candle' = candle
    BY <1>2 DEF Compute, tables
  <2>2. CASE Contaminated
    <3>1. engine' = "idle" /\ rows' = rows
      BY <1>2, <2>2 DEF Compute
    <3>2. QED
      BY <2>1, <3>1 DEF Dense, Holding
  <2>3. CASE ~Contaminated
    <3>1. engine' = "computed" /\ mark' = mark /\ DOMAIN rows' = {q \in Closed : q >= SaveFrom}
      BY <1>2, <2>3 DEF Compute
    <3>2. PICK top \in Periods :
               /\ top < now /\ \A q \in Periods : q <= top => candle[q] # "none"
               /\ \A q \in Periods : (q \in Closed /\ q >= SaveFrom) <=> (SaveFrom <= q /\ q <= top)
      BY <2>1, <2>3, ComputedRows DEF Dense
    <3>3. SaveFrom' = SaveFrom
      BY <3>1 DEF SaveFrom
    <3>4. \A q \in Periods : q \in DOMAIN rows' <=> SaveFrom <= q /\ q <= top
      BY <3>1, <3>2
    <3>5. QED
      BY <2>1, <3>1, <3>2, <3>3, <3>4 DEF Holding
  <2>4. QED
    BY <2>2, <2>3
<1>3. CASE Save
  BY <1>3, NoRowsType DEF Save, Holding
<1>4. CASE UNCHANGED engvars
  <2>1. engine' = engine /\ rows' = rows /\ SaveFrom' = SaveFrom
    BY <1>4 DEF engvars, SaveFrom
  <2>2. CASE engine = "computed"
    <3>1. PICK top \in Periods :
               /\ top < now /\ \A q \in Periods : q <= top => candle[q] # "none"
               /\ \A q \in Periods : q \in DOMAIN rows <=> SaveFrom <= q /\ q <= top
      BY <2>2 DEF Dense, Holding
    <3>2. top < now'
      <4>1. CASE Tick
        <5>1. now' = now + 1 /\ now \in Nat /\ top \in Nat
          BY <1>0, <4>1, Numbers, PeriodFacts DEF Tick
        <5>2. QED
          BY <3>1, <5>1
      <4>2. QED
        BY <3>1, <4>1, TickOrStay
    <3>3. \A q \in Periods : q <= top => candle'[q] # "none"
      BY <3>1, CandlesStay
    <3>4. QED
      BY <2>1, <2>2, <3>1, <3>2, <3>3 DEF Holding
  <2>3. CASE engine # "computed"
    BY <2>1, <2>3 DEF Dense, Holding
  <2>4. QED
    BY <2>2, <2>3
<1>5. QED
  BY <1>1, <1>2, <1>3, <1>4, EngineMoves

LEMMA CuttingStep == ASSUME IInv, Timing, Dense, [Next]_vars PROVE Cutting'
<1>0. TypeOK /\ now \in Nat
  BY Numbers DEF IInv
<1>1. CASE Begin /\ UNCHANGED <<now, ind, cycled>>
  <2>1. CASE Gaps = {}
    BY <1>1, <2>1 DEF Begin, Cutting
  <2>2. CASE Gaps # {}
    <3>1. First(Gaps) \in Periods /\ candle[First(Gaps)] = "none" /\ oldest' = First(Gaps)
      BY <1>0, <1>1, <2>2, FirstGap, GapsAreHoles DEF Begin
    <3>2. \A p \in Periods : ind[p] # "none" => p < First(Gaps)
      BY <3>1, PeriodFacts DEF Dense, Stacked
    <3>3. oldest' # 0
      BY <3>1, PeriodFacts
    <3>4. QED
      BY <1>1, <3>1, <3>2, <3>3 DEF Cutting
  <2>3. QED
    BY <2>1, <2>2
<1>2. CASE FillRange \/ RangeShort
  <2>1. Filling /\ missing # {} /\ UNCHANGED <<oldest, ind, cycled, now>>
    BY <1>2 DEF FillRange, RangeShort, ReadFails, PairFails, Filling, engvars, tables
  <2>2. QED
    BY <2>1 DEF Dense, Cutting
<1>3. CASE Invalidate
  <2>1. Filling /\ UNCHANGED <<oldest, filled, missing, cycled, now>> /\ (cycled # now => ind' = ind)
    BY <1>0, <1>3, DeletesNothing DEF Invalidate, Filling, engvars
  <2>2. QED
    BY <2>1 DEF Dense, Cutting
<1>7. CASE ReadFails \/ PairFails
  <2>1. Filling /\ missing' = {} /\ UNCHANGED <<oldest, filled, ind, cycled, now>>
    BY <1>7 DEF ReadFails, PairFails, Filling, engvars, tables
  <2>2. QED
    BY <2>1 DEF Dense, Cutting
<1>4. CASE Record \/ NotCredible \/ HkCrash
  BY <1>4 DEF Record, NotCredible, EndRun, HkCrash, Cutting, Filling
<1>5. CASE UNCHANGED <<filler, oldest, filled, missing>>
  <2>1. CASE Tick
    <3>1. ~Filling'
      BY <1>5, <2>1 DEF Tick, OnSchedule, Filling
    <3>2. QED
      BY <3>1 DEF Cutting
  <2>2. CASE Save
    <3>1. cycled' = now'
      BY <2>2 DEF Save
    <3>2. QED
      BY <1>5, <3>1 DEF Dense, Cutting, Filling
  <2>3. CASE now' = now /\ ind' = ind
    <3>1. cycled' # now' => cycled # now
      BY <2>3, EngineMoves DEF Probe, Compute, Save, engvars
    <3>2. QED
      BY <1>5, <2>3, <3>1 DEF Dense, Cutting, Filling
  <2>4. CASE Invalidate
    BY <1>3, <2>4
  <2>5. QED
    BY <2>1, <2>2, <2>3, <2>4, RowsWritten, TickOrStay
<1>6. QED
  <2>1. CASE HkStart \/ Scan
    <3>1. UNCHANGED <<now, ind, cycled>>
      BY <2>1 DEF HkStart, Scan, tables, engvars
    <3>2. Begin \/ (~Filling' /\ UNCHANGED <<oldest, filled, missing>>)
      BY <2>1 DEF HkStart, Scan, Filling
    <3>3. QED
      BY <1>1, <3>1, <3>2 DEF Cutting
  <2>2. QED
    BY <1>2, <1>3, <1>4, <1>5, <1>7, <2>1
       DEF Next, vars, hkvars, history, Tick, WsForming, WsFinal, WsDrop, WsConnect, Swap, Flush,
           Catch, CatchInsert, Freshen, FreshInsert, IngestCrash, IngestStart, Probe, Compute,
           Save

LEMMA DenseInit == Init => Dense
<1> SUFFICES ASSUME Init PROVE Dense
  OBVIOUS
<1>1. /\ now \in Nat /\ cycled = now /\ engine = "idle" /\ DOMAIN rows = {} /\ ~Filling
      /\ \A p \in Periods : (ind[p] # "none" => p <= History) /\ (p <= History => ind[p] # "none" /\ candle[p] # "none")
  BY PeriodFacts, NoRowsType DEF Init, Filling
<1>2. now = History + 1 /\ History \in Nat
  BY PeriodFacts DEF Init
<1>3. Stacked
  BY <1>1, <1>2, PeriodFacts DEF Stacked
<1>4. QED
  BY <1>1, <1>3 DEF Dense, Behind, Reading, Holding, Cutting

LEMMA DenseStep == ASSUME IInv, Timing, Dense, [Next]_vars PROVE Dense'
BY StackedStep, BehindStep, ReadingStep, HoldingStep, CuttingStep DEF Dense
-----------------------------------------------------------------------------
(* Repair.  What is not good in the indicator table may last, if what it   *)
(* was computed from was stored after the catch-up before the last; else   *)
(* the cycle that is due writes it.                                        *)
Mended == up /\ catchDue - CatchEvery < now /\ now < catchDue

Lasting(p) ==
    /\ p >= now - dark - CatchEvery - 1
    /\ Mended => p >= catchDue - CatchEvery - 1

HealNow(p) ==
    /\ cycled # now
    /\ since = Ripe => p >= now - CatchEvery - 2
    /\ engine = "computed" => p \in DOMAIN rows /\ rows[p] = "good"
    /\ engine # "computed" =>
           /\ \A q \in Periods : q < now => candle[q] # "none"
           /\ \A m \in Periods : ind[m] # "none" => p >= m - SaveBack

Repaired ==
    refused = 0 =>
        /\ \A p \in Periods : p < now /\ ind[p] # "good" => Lasting(p) \/ HealNow(p)
        /\ \A p \in Periods : p \in DOMAIN rows /\ rows[p] = "bad" => Lasting(p)
        /\ Filling /\ oldest # 0 => Lasting(oldest)

RowInv == HealInv /\ Dense /\ Repaired

LongSave == CatchEvery + MaxDark <= SaveBack

(* A candle that is not final, and every later row, may last.              *)
LEMMA DamageLasts ==
    ASSUME TypeOK, Damage, refused = 0, NEW q \in Periods, q < now, candle[q] # "final",
           NEW p \in Periods, q <= p
    PROVE  Lasting(p)
<1>1. /\ now \in Nat /\ dark \in Nat /\ catchDue \in Nat /\ CatchEvery \in Nat
      /\ p \in Nat /\ q \in Nat
  BY Numbers, PeriodFacts
<1>2. q >= now - dark - CatchEvery - 1 /\ (up /\ now < catchDue => q >= catchDue - CatchEvery - 1)
  BY DEF Damage
<1>3. QED
  BY <1>1, <1>2 DEF Lasting, Mended

(* Within a period nothing stops lasting.                                  *)
LEMMA LastingStays ==
    ASSUME IInv, Timing, Recent, [Next]_vars, refused' = 0, now' = now, NEW p \in Int, Lasting(p)
    PROVE  Lasting(p)'
<1>1. /\ now \in Nat /\ dark \in Nat /\ catchDue \in Nat /\ CatchEvery \in Nat
      /\ refused' = refused
  BY RefusedGrows, Numbers DEF IInv
<1>2. dark' = dark /\ (Mended' => Mended /\ catchDue' = catchDue)
  <2>1. CASE Catch
    BY <1>1, <2>1, CaughtAll DEF Catch, clocks, Mended
  <2>2. CASE CatchInsert
    BY <1>1, <2>2 DEF CatchInsert, clocks, Mended
  <2>3. CASE IngestCrash \/ IngestStart
    BY <1>1, <2>3 DEF IngestCrash, IngestStart, clocks, Mended
  <2>4. CASE Tick
    BY <1>1, <2>4 DEF Tick
  <2>5. CASE UNCHANGED <<now, dark, up, catchDue>>
    BY <2>5 DEF Mended
  <2>6. QED
    BY <2>1, <2>2, <2>3, <2>4, <2>5
       DEF Next, vars, restvars, clocks, WsForming, WsFinal, WsDrop, WsConnect, Swap, Flush,
           Freshen, FreshInsert, Scan, FillRange, RangeShort, ReadFails, PairFails, Invalidate,
           Record, NotCredible, EndRun, HkCrash, HkStart, Probe, Compute, Save
<1>3. QED
  BY <1>1, <1>2 DEF Lasting

LEMMA SinceFalls == ASSUME [Next]_vars, now' = now, now \in Nat, since' = Ripe PROVE since = Ripe
<1>1. CASE Tick
  BY <1>1 DEF Tick
<1>2. CASE IngestCrash
  BY <1>2 DEF IngestCrash, Ripe
<1>3. CASE since' = since
  BY <1>3
<1>4. QED
  BY <1>1, <1>2, <1>3
     DEF Next, vars, clocks, WsForming, WsFinal, WsDrop, WsConnect, Swap, Flush, Catch,
         CatchInsert, Freshen, FreshInsert, IngestStart, Scan, FillRange, RangeShort, ReadFails,
         PairFails, Invalidate, Record, NotCredible, EndRun, HkCrash, HkStart, Probe, Compute,
         Save

LEMMA HealNowStays ==
    ASSUME IInv, [Next]_vars, now' = now, UNCHANGED engvars, ind' = ind, NEW p, HealNow(p)
    PROVE  HealNow(p)'
<1>1. now \in Nat /\ (since' = Ripe => since = Ripe)
  BY Numbers, SinceFalls DEF IInv
<1>2. \A q \in Periods : candle[q] # "none" => candle'[q] # "none"
  BY CandlesStay
<1>3. QED
  BY <1>1, <1>2 DEF HealNow, engvars

(* A new period: in the one that follows a catch-up the cycle that is due  *)
(* repairs what the catch-up before could not, else everything lasts.      *)
LEMMA RepairTick == ASSUME RowInv, LongSave, Tick PROVE Repaired'
<1>0. /\ TypeOK /\ IInv /\ Timing /\ Recent /\ Dense /\ JustCaught
      /\ now \in Nat /\ now >= 1 /\ dark \in Nat /\ catchDue \in Nat /\ since \in Nat
      /\ CatchEvery \in Nat /\ CatchEvery >= 1 /\ SaveBack \in Nat /\ MaxDark \in Nat /\ dark <= MaxDark
      /\ up => now <= catchDue /\ catchDue <= now + CatchEvery
      /\ since > 0 => up /\ dark = 0
  BY Numbers DEF RowInv, HealInv, IInv, Timing
<1>1. /\ now' = now + 1 /\ up' = up /\ catchDue' = catchDue /\ refused' = refused /\ UNCHANGED engvars
      /\ candle' = candle /\ ind' = ind /\ cycled = now /\ ~Filling'
      /\ up => now < catchDue /\ dark' = 0 /\ since' = AtMost(since + 1, Ripe)
      /\ ~up => dark' = dark + 1 /\ since' = 0
  BY DEF Tick, OnSchedule, tables, restvars, counters, Filling
<1>2. engine = "idle" /\ DOMAIN rows = {} /\ rows' = rows /\ engine' = engine /\ cycled' = cycled
  BY <1>0, <1>1 DEF Timing, Dense, Holding, engvars
<1> SUFFICES ASSUME refused = 0, NEW p \in Periods, p < now + 1, ind[p] # "good"
             PROVE  Lasting(p)' \/ HealNow(p)'
  BY <1>1, <1>2 DEF Repaired
<1>3. p \in Nat
  BY PeriodFacts
<1>4. p < now => Lasting(p)
  <2>1. ~HealNow(p)
    BY <1>1 DEF HealNow
  <2>2. QED
    BY <2>1 DEF RowInv, Repaired
<1>5. CASE ~(up /\ now = catchDue - CatchEvery)
  <2>1. CASE p < now
    <3>1. p >= now - dark - CatchEvery - 1 /\ (Mended => p >= catchDue - CatchEvery - 1)
      BY <1>4, <2>1 DEF Lasting
    <3>2. CASE up
      <4>1. Mended
        BY <1>0, <1>1, <1>5, <3>2 DEF Mended
      <4>2. p >= catchDue - CatchEvery - 1
        BY <3>1, <4>1
      <4>3. p >= now' - dark' - CatchEvery - 1
        BY <1>0, <1>1, <1>3, <3>2, <4>2
      <4>4. QED
        BY <1>1, <4>2, <4>3 DEF Lasting
    <3>3. CASE ~up
      BY <1>0, <1>1, <1>3, <3>1, <3>3 DEF Lasting, Mended
    <3>4. QED
      BY <3>2, <3>3
  <2>2. CASE p = now
    <3>1. p >= now' - dark' - CatchEvery - 1 /\ (up => p >= catchDue - CatchEvery - 1)
      BY <1>0, <1>1, <2>2
    <3>2. QED
      BY <1>1, <3>1 DEF Lasting, Mended
  <2>3. QED
    BY <1>0, <1>3, <2>1, <2>2
<1>6. CASE up /\ now = catchDue - CatchEvery
  <2>1. \A q \in Periods : q < now' => candle'[q] # "none"
    <3>1. \A q \in Periods : q <= now => candle[q] # "none"
      BY <1>0, <1>6 DEF JustCaught
    <3>2. QED
      BY <1>0, <1>1, <3>1, PeriodFacts
  <2>2. p >= now - dark - CatchEvery - 1
    <3>1. CASE p < now
      BY <1>4, <3>1 DEF Lasting
    <3>2. CASE p = now
      BY <1>0, <3>2
    <3>3. QED
      BY <1>0, <1>3, <3>1, <3>2
  <2>3. \A m \in Periods : ind'[m] # "none" => p >= m - SaveBack
    <3>1. ASSUME NEW m \in Periods, ind[m] # "none" PROVE p >= m - SaveBack
      <4>1. m < now /\ m \in Nat
        BY <1>0, <3>1, PeriodFacts DEF Dense, Stacked
      <4>2. QED
        BY <1>0, <1>3, <2>2, <4>1 DEF LongSave
    <3>2. QED
      BY <1>1, <3>1
  <2>4. since' = Ripe => p >= now' - CatchEvery - 2
    <3>1. ASSUME since' = Ripe PROVE since > 0
      BY <1>0, <1>1, <1>6, <3>1 DEF AtMost, Ripe
    <3>2. QED
      BY <1>0, <1>1, <1>3, <2>2, <3>1
  <2>5. cycled' # now'
    BY <1>0, <1>1, <1>2
  <2>6. QED
    BY <1>2, <2>1, <2>3, <2>4, <2>5 DEF HealNow
<1>7. QED
  BY <1>5, <1>6

(* A cycle that is to repair a row finds work and no hole, and writes it.  *)
LEMMA ProbeGoes ==
    ASSUME IInv, Dense, engine = "idle", NEW p \in Periods, p < now, HealNow(p)
    PROVE  NewsAbove(IndMark)
<1>1. TypeOK /\ now \in Nat /\ now <= Last /\ p \in Nat /\ p >= 1
  BY Numbers, PeriodFacts DEF IInv
<1>2. now - 1 \in Periods /\ now - 1 < now
  BY <1>1, PeriodFacts
<1>3. now - 1 \in Closed
  BY <1>2 DEF HealNow, Closed, Has
<1>4. CASE Has(ind) = {}
  BY <1>1, <1>2, <1>3, <1>4 DEF NewsAbove, IndMark
<1>5. CASE Has(ind) # {}
  <2>1. IndMark \in Has(ind)
    BY <1>5, NewestIsGreatest DEF IndMark, Has
  <2>2. IndMark \in Nat /\ IndMark < now - 1
    BY <2>1, PeriodFacts DEF HealNow, Dense, Behind, Has
  <2>3. QED
    BY <1>1, <1>3, <2>2 DEF NewsAbove
<1>6. QED
  BY <1>4, <1>5

LEMMA ComputeGoes ==
    ASSUME IInv, Timing, Dense, engine = "probed", NEW p \in Periods, p < now, HealNow(p)
    PROVE  ~Contaminated /\ p \in Closed /\ p >= SaveFrom
<1>1. TypeOK /\ now \in Nat /\ now <= Last /\ p \in Nat /\ p >= 1 /\ mark \in Nat /\ mark <= Last
  BY Numbers, PeriodFacts DEF IInv
<1>2. \A q \in Periods : q \in Closed <=> q < now
  BY DEF HealNow, Closed, Has
<1>3. Newest(Closed) \in Closed /\ Newest(Closed) \in Periods /\ Newest(Closed) < now
  <2>1. Closed \in SUBSET Periods /\ Closed # {}
    BY <1>2 DEF Closed, Has
  <2>2. QED
    BY <1>2, <2>1, NewestIsGreatest
<1>4. ~Contaminated
  <2>1. ASSUME NEW q \in AtLeast(1, SaveFrom - Lookback) .. Newest(Closed) PROVE q \in Closed
    <3>1. Newest(Closed) \in Nat /\ SaveFrom - Lookback \in Int /\ Newest(Closed) <= Last
      <4>1. SaveFrom \in Nat /\ Lookback \in Nat
        BY <1>1, SaveReach, Numbers
      <4>2. QED
        BY <1>3, <4>1, PeriodFacts
    <3>2. q \in Int /\ q >= 1 /\ q <= Newest(Closed)
      BY <2>1, <3>1 DEF AtLeast
    <3>3. q \in Periods /\ q < now
      BY <1>1, <1>3, <3>1, <3>2, PeriodFacts
    <3>4. QED
      BY <1>2, <3>3
  <2>2. QED
    BY <2>1 DEF Contaminated
<1>5. p >= SaveFrom
  <2>1. /\ SaveFrom \in Nat /\ SaveFrom >= 1 /\ SaveFrom <= mark + 1 /\ SaveBack \in Nat
        /\ SaveFrom = 1 \/ SaveFrom = mark - SaveBack
    BY <1>1, SaveReach, Numbers
  <2>2. CASE SaveFrom = 1
    BY <1>1, <2>2
  <2>3. CASE SaveFrom # 1
    <3>1. SaveFrom = mark - SaveBack /\ mark \in Periods
      BY <1>1, <2>1, <2>3, PeriodFacts
    <3>2. ind[mark] # "none"
      BY <1>1, <3>1 DEF Dense, Reading
    <3>3. QED
      BY <3>1, <3>2 DEF HealNow
  <2>4. QED
    BY <2>2, <2>3
<1>6. QED
  BY <1>2, <1>4, <1>5

(* Rows written in a cycle are good, or may last.                          *)
LEMMA BadRowLasts ==
    ASSUME TypeOK, Damage, refused = 0, NEW p \in Periods, p < now, Computed(p) # "good"
    PROVE  Lasting(p)
<1>1. PICK q \in Window(p) : candle[q] # "final"
  BY DEF Computed
<1>2. q \in Periods /\ q <= p
  BY <1>1, Numbers, PeriodFacts DEF Window, AtLeast
<1>3. q < now /\ q \in Nat
  BY <1>2, Numbers, PeriodFacts
<1>4. QED
  BY <1>1, <1>2, <1>3, DamageLasts

LEMMA RowsRepaired ==
    ASSUME RowInv, [Next]_vars, now' = now, refused = 0, refused' = 0,
           NEW p \in Periods, p < now, ind'[p] # "good"
    PROVE  Lasting(p)' \/ HealNow(p)'
<1>0. /\ TypeOK /\ IInv /\ Timing /\ Recent /\ Dense /\ Damage /\ p \in Int
      /\ Lasting(p) => Lasting(p)'
  BY LastingStays, PeriodFacts DEF RowInv, HealInv, IInv
<1>1. ind[p] # "good" => Lasting(p) \/ HealNow(p)
  BY DEF RowInv, Repaired
<1>2. CASE Probe
  <2>1. /\ ind' = ind /\ engine = "idle" /\ rows' = rows /\ candle' = candle /\ since' = since
        /\ NewsAbove(IndMark) => engine' = "probed" /\ cycled' = cycled
    BY <1>2 DEF Probe, tables, clocks
  <2>2. CASE HealNow(p)
    <3>1. engine' = "probed" /\ cycled' = cycled
      BY <1>0, <2>1, <2>2, ProbeGoes
    <3>2. QED
      BY <2>1, <2>2, <3>1 DEF HealNow
  <2>3. QED
    BY <1>0, <1>1, <2>1, <2>2
<1>3. CASE Compute
  <2>1. ind' = ind /\ engine = "probed" /\ since' = since
    BY <1>3 DEF Compute, tables, clocks
  <2>2. CASE HealNow(p) /\ ~Lasting(p)
    <3>1. ~Contaminated /\ p \in Closed /\ p >= SaveFrom
      BY <1>0, <2>1, <2>2, ComputeGoes
    <3>2. /\ engine' = "computed" /\ cycled' = cycled
          /\ rows' = [q \in {r \in Closed : r >= SaveFrom} |-> Computed(q)]
      BY <1>3, <3>1 DEF Compute
    <3>3. p \in DOMAIN rows' /\ rows'[p] = "good"
      BY <1>0, <2>2, <3>1, <3>2, BadRowLasts
    <3>4. QED
      BY <2>1, <2>2, <3>2, <3>3 DEF HealNow
  <2>3. QED
    BY <1>0, <1>1, <2>1, <2>2
<1>4. CASE Save
  <2>1. engine = "computed" /\ ind'[p] = IF p \in DOMAIN rows THEN rows[p] ELSE ind[p]
    BY <1>0, <1>4, Saved
  <2>2. CASE p \in DOMAIN rows
    <3>1. rows[p] = "bad"
      BY <1>0, <2>1, <2>2, RowValues
    <3>2. QED
      BY <1>0, <2>2, <3>1 DEF RowInv, Repaired
  <2>3. CASE p \notin DOMAIN rows
    <3>1. ~HealNow(p)
      BY <2>1, <2>3 DEF HealNow
    <3>2. QED
      BY <1>0, <1>1, <2>1, <2>3, <3>1
  <2>4. QED
    BY <2>2, <2>3
<1>5. CASE UNCHANGED engvars /\ ind' = ind
  BY <1>0, <1>1, <1>5, HealNowStays
<1>6. CASE UNCHANGED engvars /\ Invalidate
  <2>1. CASE cycled # now
    BY <1>0, <1>5, <1>6, <2>1, DeletesNothing
  <2>2. CASE cycled = now
    <3>1. ~HealNow(p)
      BY <2>2 DEF HealNow
    <3>2. CASE ind'[p] = ind[p]
      BY <1>0, <1>1, <3>1, <3>2
    <3>3. CASE ind'[p] # ind[p]
      <4>1. filled /\ p >= oldest /\ Filling
        BY <1>6, <3>3 DEF Invalidate, Filling
      <4>2. oldest # 0
        BY <1>0, <4>1 DEF Dense, Cutting
      <4>3. Lasting(oldest) /\ oldest \in Nat /\ oldest <= p
        BY <1>0, <4>1, <4>2, Numbers, PeriodFacts DEF RowInv, Repaired
      <4>4. /\ now \in Nat /\ dark \in Nat /\ catchDue \in Nat /\ CatchEvery \in Nat /\ p \in Nat
        BY <1>0, Numbers, PeriodFacts
      <4>5. Lasting(p)
        BY <4>3, <4>4 DEF Lasting
      <4>6. QED
        BY <1>0, <4>5
    <3>4. QED
      BY <3>2, <3>3
  <2>3. QED
    BY <2>1, <2>2
<1>7. QED
  BY <1>2, <1>3, <1>4, <1>5, <1>6, EngineMoves, RowsWritten

LEMMA HeldRepaired ==
    ASSUME RowInv, [Next]_vars, now' = now, refused = 0, refused' = 0,
           NEW p \in Periods, p \in DOMAIN rows', rows'[p] = "bad"
    PROVE  Lasting(p)'
<1>0. /\ TypeOK /\ IInv /\ Timing /\ Recent /\ Damage /\ p \in Int
      /\ Lasting(p) => Lasting(p)'
  BY LastingStays, PeriodFacts DEF RowInv, HealInv, IInv
<1>1. CASE rows' = rows
  BY <1>0, <1>1 DEF RowInv, Repaired
<1>2. CASE rows' = [q \in {r \in Closed : r >= SaveFrom} |-> Computed(q)]
  <2>1. p \in Closed /\ Computed(p) = "bad"
    BY <1>2
  <2>2. p < now /\ Computed(p) # "good"
    BY <2>1 DEF Closed
  <2>3. QED
    BY <1>0, <2>2, BadRowLasts
<1>3. CASE rows' = NoRows
  BY <1>3, NoRowsType
<1>4. QED
  BY <1>1, <1>2, <1>3, EngineMoves DEF Probe, Compute, Save, engvars

LEMMA GapLasts ==
    ASSUME RowInv, [Next]_vars, now' = now, refused = 0, refused' = 0, Filling', oldest' # 0
    PROVE  Lasting(oldest)'
<1>0. /\ TypeOK /\ IInv /\ Timing /\ Recent /\ Damage
      /\ \A p \in Periods : Lasting(p) => Lasting(p)'
  BY LastingStays, PeriodFacts DEF RowInv, HealInv, IInv
<1>1. CASE Begin
  <2>1. Gaps # {} /\ oldest' = First(Gaps)
    BY <1>1 DEF Begin
  <2>2. First(Gaps) \in Periods /\ First(Gaps) < now /\ candle[First(Gaps)] # "final"
    BY <1>0, <2>1, FirstGap, GapsAreHoles
  <2>3. First(Gaps) <= First(Gaps)
    BY <2>2, PeriodFacts
  <2>4. Lasting(First(Gaps))
    BY <1>0, <2>2, <2>3, DamageLasts
  <2>5. QED
    BY <1>0, <2>1, <2>2, <2>4 DEF Lasting
<1>2. CASE Filling /\ oldest' = oldest
  <2>1. oldest \in Periods /\ Lasting(oldest)
    BY <1>0, <1>2, Numbers DEF RowInv, Repaired
  <2>2. QED
    BY <1>0, <1>2, <2>1 DEF Lasting
<1>3. QED
  BY <1>1, <1>2
     DEF Next, vars, hkvars, history, Filling, Tick, WsForming, WsFinal, WsDrop, WsConnect, Swap,
         Flush, Catch, CatchInsert, Freshen, FreshInsert, IngestCrash, IngestStart, Scan,
         FillRange, RangeShort, ReadFails, PairFails, Invalidate, Record, NotCredible, EndRun,
         HkCrash, HkStart, Probe, Compute, Save

LEMMA RepairedStep == ASSUME RowInv, LongSave, [Next]_vars PROVE Repaired'
<1>1. CASE Tick
  BY <1>1, RepairTick
<1>2. CASE now' = now
  <2> SUFFICES ASSUME refused' = 0 PROVE Repaired'
    BY DEF Repaired
  <2>1. refused = 0
    BY RefusedGrows DEF RowInv, HealInv, IInv
  <2>2. \A p \in Periods : p < now' /\ ind'[p] # "good" => Lasting(p)' \/ HealNow(p)'
    BY <1>2, <2>1, RowsRepaired
  <2>3. \A p \in Periods : p \in DOMAIN rows' /\ rows'[p] = "bad" => Lasting(p)'
    BY <1>2, <2>1, HeldRepaired
  <2>4. Filling' /\ oldest' # 0 => Lasting(oldest)'
    BY <1>2, <2>1, GapLasts
  <2>5. QED
    BY <2>2, <2>3, <2>4 DEF Repaired
<1>3. QED
  BY <1>1, <1>2, TickOrStay

LEMMA RowsInductive ==
    ASSUME WideOverlap, LongSave
    PROVE  Spec => []RowInv
<1>1. Init => RowInv
  <2> SUFFICES ASSUME Init PROVE Repaired
    BY HealInit, DenseInit DEF RowInv
  <2>1. /\ \A p \in Periods : p < now => ind[p] = "good"
        /\ DOMAIN rows = {} /\ ~Filling
    BY PeriodFacts, NoRowsType DEF Init, Filling
  <2>2. QED
    BY <2>1 DEF Repaired
<1>2. RowInv /\ [Next]_vars => RowInv'
  <2> SUFFICES ASSUME RowInv, [Next]_vars PROVE RowInv'
    OBVIOUS
  <2>1. HealInv'
    BY HealStep DEF RowInv
  <2>2. Dense'
    BY DenseStep DEF RowInv, HealInv
  <2>3. QED
    BY <2>1, <2>2, RepairedStep DEF RowInv
<1>3. QED
  BY <1>1, <1>2, PTL DEF Spec

(* Every indicator row computed from a candle that was not final is good   *)
(* within a cycle of the catch-up that healed the candle, however the      *)
(* saves, the gap filler's deletions and the crashes interleave, if the    *)
(* time between two catch-ups and the longest outage together are shorter  *)
(* than the overlap and no longer than the save window.                    *)
THEOREM RowsHeal ==
    ASSUME CatchEvery + MaxDark < Overlap, CatchEvery + MaxDark <= SaveBack
    PROVE  Spec => []IndicatorsHealed
<1>1. RowInv => IndicatorsHealed
  <2> SUFFICES ASSUME RowInv, since = Ripe, refused = 0,
                      NEW p \in Periods, p < now - CatchEvery - 2
               PROVE  ind[p] = "good"
    BY DEF IndicatorsHealed
  <2>1. /\ now \in Nat /\ p \in Nat /\ CatchEvery \in Nat /\ dark \in Nat
        /\ since > 0 => dark = 0
    BY Numbers, PeriodFacts DEF RowInv, HealInv, IInv, Timing
  <2>2. dark = 0 /\ p < now
    BY <2>1 DEF Ripe
  <2>3. ~Lasting(p) /\ ~HealNow(p)
    BY <2>1, <2>2 DEF Lasting, HealNow
  <2>4. QED
    BY <2>2, <2>3 DEF RowInv, Repaired
<1>2. WideOverlap /\ LongSave
  BY DEF WideOverlap, LongSave
<1>3. QED
  BY <1>1, <1>2, RowsInductive, PTL
=============================================================================
