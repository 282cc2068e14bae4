---------------------------- MODULE MonitorProofs ----------------------------
(***************************************************************************)
(* Proofs about Monitor for any trades, coins, prices, movers and bounds:  *)
(* the type invariant, that the monitor records a trade once and only with *)
(* its row, that no catch-up scores a trade against a candle from before   *)
(* it, and that no candle a trade has lived through is passed over, as     *)
(* long as its coin's candles come in order.                               *)
(***************************************************************************)
EXTENDS Monitor, FiniteSetTheorems, WellFoundedInduction, TLAPS

(* What the books say of trade t, in the table r: nothing before it is      *)
(* posted; then it is open, or somebody has recorded it.                    *)
Settled(t, r) == IF opened[t] = None THEN ~r.here /\ r.booked = 0 /\ r.moved = 0
                 ELSE r.here <=> (r.booked + r.moved = 0)

(* What the transaction has done to it and not yet committed: taken the row *)
(* away, with its record, or neither.                                       *)
Uncommitted(t, r, w) ==
    /\ w.here => r.here
    /\ w.moved = r.moved
    /\ w.booked # r.booked => r.here /\ ~w.here

Books ==
    /\ \A t \in Trades : Settled(t, row[t]) /\ Settled(t, work[t]) /\ Uncommitted(t, row[t], work[t])
    /\ \A p \in moving : opened[p[2]] # None

(* Only a scoring pass has a trade in hand.                                 *)
Idle == pc # "score" => todo = {} /\ cur = NoTrade

(* Trades are read after they were posted, a process that is down knows     *)
(* nothing, and the watermarks of a catch-up only lie in candles a trade    *)
(* has lived through.                                                       *)
Dated ==
    /\ \A t \in active : opened[t] # None
    /\ \A t \in Trades :
          /\ opened[t] <= now
          /\ opened[t] = None => lastChecked[t] = None
          /\ catchupFrom # None /\ lastChecked[t] # None => lastChecked[t] > opened[t]
          /\ pc = "down" => lastChecked[t] = None
    /\ pc = "down" => catchupFrom = None
    /\ cur # NoTrade => at \in stored[CoinOf(cur)]
    /\ NeverBackdated

IInv == TypeOK /\ Books /\ Idle /\ Dated
-----------------------------------------------------------------------------
(* A set of natural numbers has a least element.                            *)
LEMMA LeastExists ==
    ASSUME NEW S \in SUBSET Nat, S # {}
    PROVE  \E p \in S : \A q \in S : p <= q
<1> DEFINE R == OpToRel(<, Nat)
<1>1. IsWellFoundedOn(R, Nat)
  BY NatLessThanWellFounded
<1>2. \A a, b \in Nat : <<a, b>> \in R <=> a < b
  BY DEF OpToRel
<1> HIDE DEF R
<1>3. PICK p \in S : \A q \in S : <<q, p>> \notin R
  BY <1>1, WFMin
<1>4. \A q \in S : ~(q < p)
  BY <1>2, <1>3
<1>5. QED
  BY <1>3, <1>4

(* The number of targets is a number.                                       *)
LEMMA TargetsType == \A t \in Trades : Len(Targets(t)) \in Nat
BY SetupAssumption DEF Targets

(* The size of what is left of a list after its first a elements.           *)
LEMMA IntervalSize ==
    ASSUME NEW a \in Nat, NEW b \in Nat, a <= b
    PROVE  IsFiniteSet(a + 1 .. b) /\ Cardinality(a + 1 .. b) = b - a
<1> DEFINE first == a + 1
<1>1. first \in Int /\ b \in Int /\ (first > b => b - a = 0)
  OBVIOUS
<1> HIDE DEF first
<1>2. IsFiniteSet(first .. b) /\ Cardinality(first .. b) = IF first > b THEN 0 ELSE b - first + 1
  BY <1>1, FS_Interval
<1>3. b - first + 1 = b - a
  BY DEF first
<1>4. QED
  BY <1>1, <1>2, <1>3 DEF first

(* Targets are counted up and never beyond the last one.                    *)
LEMMA HitsType ==
    ASSUME NEW t \in Trades, NEW c, NEW hits \in Nat, hits <= Len(Targets(t))
    PROVE  HitsBy(t, hits, c) \in Nat /\ HitsBy(t, hits, c) <= Len(Targets(t))
<1> DEFINE last == Len(Targets(t))
           reached == {n \in hits + 1 .. last : \A i \in hits + 1 .. n : Above(t, c, Targets(t)[i])}
<1>1. last \in Nat /\ hits <= last
  BY TargetsType
<1>2. IsFiniteSet(hits + 1 .. last) /\ Cardinality(hits + 1 .. last) = last - hits
  <2> HIDE DEF last
  <2>1. QED
    BY <1>1, IntervalSize
<1>3. Cardinality(reached) \in Nat /\ Cardinality(reached) <= last - hits
  <2>1. reached \in SUBSET (hits + 1 .. last)
    OBVIOUS
  <2> HIDE DEF reached, last
  <2>2. QED
    BY <1>2, <2>1, FS_Subset, FS_CardinalityType
<1>4. HitsBy(t, hits, c) = hits + Cardinality(reached)
  BY DEF HitsBy
<1> HIDE DEF reached, last
<1>5. HitsBy(t, hits, c) <= last
  BY <1>1, <1>3, <1>4
<1>6. QED
  BY <1>3, <1>4, <1>5 DEF last

(* What a candle does to a row leaves a row.                                *)
LEMMA VerdictType ==
    ASSUME NEW t \in Trades, NEW s \in Rows, s.hits <= Len(Targets(t)), NEW k \in 0..MaxCandle, NEW c
    PROVE  /\ Verdict(t, s, k, c).hits \in Nat
           /\ Verdict(t, s, k, c).hits <= Len(Targets(t))
           /\ Verdict(t, s, k, c).fillAt \in 0..MaxCandle
<1> DEFINE hits == HitsBy(t, s.hits, c)
<1>1. hits \in Nat /\ hits <= Len(Targets(t))
  BY HitsType DEF Rows
<1>2. \E end, n, f : /\ Verdict(t, s, k, c) = [end |-> end, hits |-> n, fillAt |-> f]
                     /\ n \in {s.hits, hits}
                     /\ f \in {s.fillAt, k, None}
  BY DEF Verdict
<1> HIDE DEF hits
<1>3. QED
  BY <1>1, <1>2, BoundAssumption DEF Rows, None

(* Writing one row of a table.                                              *)
LEMMA PutRow ==
    ASSUME NEW f \in [Trades -> Rows], NEW t \in Trades, NEW r \in Rows
    PROVE  LET g == [f EXCEPT ![t] = r]
           IN  g \in [Trades -> Rows] /\ g[t] = r /\ \A u \in Trades \ {t} : g[u] = f[u]
OBVIOUS

(* Every trade has a coin.                                                  *)
LEMMA CoinType == \A t \in Trades : CoinOf(t) \in Coins
BY SetupAssumption DEF CoinOf

(* Every coin has a newest candle,                                          *)
Maxima == \A c \in Coins : /\ Newest(c) \in stored[c] /\ Newest(c) \in 1..now
                           /\ \A j \in stored[c] : j \in 1..now /\ j <= Newest(c)

(* for the set of its candles is finite and not empty.                      *)
LEMMA NewestIs == TypeOK => Maxima
<1> SUFFICES ASSUME TypeOK, NEW c \in Coins
             PROVE  /\ Newest(c) \in stored[c] /\ Newest(c) \in 1..now
                    /\ \A j \in stored[c] : j \in 1..now /\ j <= Newest(c)
  BY DEF Maxima
<1>1. stored[c] \in SUBSET (1..now) /\ stored[c] # {} /\ now \in Nat
  BY BoundAssumption DEF TypeOK
<1> DEFINE Age == {now - j : j \in stored[c]}
<1>2. Age \in SUBSET Nat /\ Age # {}
  BY <1>1
<1>3. \A j \in stored[c] : now - j \in Age
  OBVIOUS
<1>4. \A p \in Age : \E j \in stored[c] : p = now - j
  OBVIOUS
<1> HIDE DEF Age
<1>5. PICK p \in Age : \A q \in Age : p <= q
  BY <1>2, LeastExists
<1>6. PICK m \in stored[c] : p = now - m
  BY <1>4
<1>7. \A j \in stored[c] : j <= m
  <2> SUFFICES ASSUME NEW j \in stored[c] PROVE j <= m
    OBVIOUS
  <2>1. p <= now - j
    BY <1>3, <1>5
  <2>2. j \in Nat /\ m \in Nat
    BY <1>1
  <2>3. QED
    BY <1>1, <1>6, <2>1, <2>2
<1>8. Newest(c) \in stored[c] /\ \A j \in stored[c] : j <= Newest(c)
  BY <1>7 DEF Newest
<1>9. QED
  BY <1>1, <1>8

(* and, up to that one, a first candle from any time on.                    *)
LEMMA StoredFromIs ==
    ASSUME TypeOK, NEW c \in Coins, NEW k \in Nat, k <= Newest(c)
    PROVE  /\ StoredFrom(c, k) \in stored[c] /\ StoredFrom(c, k) >= k
           /\ \A i \in stored[c] : i >= k => StoredFrom(c, k) <= i
<1>1. stored[c] \in SUBSET Nat /\ Newest(c) \in stored[c]
  BY NewestIs DEF Maxima
<1> DEFINE Later == {j \in stored[c] : j >= k}
<1>2. Later \in SUBSET Nat /\ Later # {}
  BY <1>1
<1>3. \A i \in stored[c] : i >= k <=> i \in Later
  OBVIOUS
<1>4. Later \subseteq stored[c]
  OBVIOUS
<1> HIDE DEF Later
<1>5. PICK m \in Later : \A q \in Later : m <= q
  BY <1>2, LeastExists
<1>6. \E j \in stored[c] : j >= k /\ \A i \in stored[c] : i >= k => j <= i
  BY <1>3, <1>4, <1>5
<1>7. QED
  BY <1>6 DEF StoredFrom

(* At first nothing is posted.                                              *)
LEMMA InitHolds == Init => IInv
<1> SUFFICES ASSUME Init PROVE IInv
  OBVIOUS
<1> USE BoundAssumption, TradesAssumption, SetupAssumption DEF Init, None, NoTrade
<1>1. candle \in [Coins -> Series] /\ db \in [Coins -> Series]
  BY DEF Flat, Series
<1>2. row \in [Trades -> Rows] /\ work = row
  BY DEF Rows
<1>3. \A t \in Trades : Len(Targets(t)) \in Nat
  BY TargetsType
<1>4. \A t \in Trades : row[t].hits = 0 /\ work[t].hits = 0
  OBVIOUS
<1>5. file \in 0..MaxCandle /\ now \in 1..MaxCandle
  OBVIOUS
<1>6. row \in [Trades -> Rows] /\ work \in [Trades -> Rows]
  BY <1>2
<1>7. \A t \in Trades : row[t].hits <= Len(Targets(t)) /\ work[t].hits <= Len(Targets(t))
  BY <1>3, <1>4
<1>8. /\ opened \in [Trades -> 0..MaxCandle] /\ lastChecked \in [Trades -> 0..MaxCandle]
      /\ catchupFrom \in 0..MaxCandle /\ passes \in 0..MaxPasses /\ began \in 0..MaxCandle
      /\ at \in 0..MaxCandle /\ pending \in 0..BatchSize
      /\ crashes \in 0..MaxCrashes /\ errors \in 0..MaxErrors /\ losses \in 0..MaxLosses
      /\ stored \in [Coins -> (SUBSET (1..now)) \ {{}}] /\ lost \subseteq Coins
      /\ moving \subseteq Movers \X Trades /\ late \subseteq Coins
  OBVIOUS
<1>9. TypeOK
  BY <1>1, <1>5, <1>6, <1>7, <1>8 DEF TypeOK
<1>10. QED
  BY <1>9 DEF IInv, Books, Settled, Uncommitted, Idle, Dated, NeverBackdated
-----------------------------------------------------------------------------
(* The market and the writers of its candles.                               *)
MarketActs ==
    \/ NextCandle
    \/ \E c \in Coins : Tick(c) \/ Loses(c) \/ StreamBack(c) \/ Freshness(c) \/ \E k \in 1..now : CatchUp(c, k)

(* They touch neither tables nor memory, and nothing moves under a scoring  *)
(* pass.                                                                    *)
LEMMA MarketFrame ==
    ASSUME MarketActs
    PROVE  /\ UNCHANGED <<tables, file, pc, memory, scoring, abandoned, crashes, errors>>
           /\ MarketMoves
<1> USE DEF history, faults
<1>1. ASSUME NEW c, NEW candles, Stores(c, candles)
      PROVE UNCHANGED <<tables, file, pc, memory, scoring, abandoned, crashes, errors>> /\ MarketMoves
  BY <1>1 DEF Stores
<1>2. ASSUME NEW c, StreamBack(c) \/ Freshness(c) \/ \E k \in 1..now : CatchUp(c, k)
      PROVE \E candles : Stores(c, candles)
  BY <1>2 DEF StreamBack, Freshness, CatchUp
<1>3. QED
  BY <1>1, <1>2 DEF MarketActs, NextCandle, Tick, Loses

(* What is stored are candles that were, of the coin in question.           *)
LEMMA StoresFrame ==
    ASSUME TypeOK, NEW c \in Coins, NEW candles \in SUBSET (1..now), Stores(c, candles)
    PROVE  /\ stored' \in [Coins -> (SUBSET (1..now)) \ {{}}] /\ db' \in [Coins -> Series]
           /\ \A d \in Coins : stored[d] \subseteq stored'[d]
           /\ late \subseteq late' /\ late' \subseteq late \cup {c} /\ UNCHANGED <<now, candle, polled, losses>>
<1>1. /\ stored' = [stored EXCEPT ![c] = @ \cup candles]
      /\ db' = [db EXCEPT ![c] = [k \in 1..MaxCandle |-> IF k \in candles THEN candle[c][k] ELSE @[k]]]
      /\ late' = late \cup {d \in {c} : Ragged(d)'} /\ UNCHANGED <<now, candle, polled, losses>>
  BY DEF Stores, faults
<1>2. stored \in [Coins -> (SUBSET (1..now)) \ {{}}] /\ db \in [Coins -> Series] /\ candle \in [Coins -> Series]
  BY DEF TypeOK
<1>3. stored' \in [Coins -> (SUBSET (1..now)) \ {{}}] /\ \A d \in Coins : stored[d] \subseteq stored'[d]
  BY <1>1, <1>2
<1>4. db' \in [Coins -> Series]
  BY <1>1, <1>2 DEF Series
<1>5. late \subseteq late' /\ late' \subseteq late \cup {c}
  BY <1>1
<1>6. QED
  BY <1>1, <1>3, <1>4, <1>5

(* Three of the writers are a case of it.                                   *)
LEMMA StoresWhen ==
    ASSUME TypeOK, NEW c \in Coins, StreamBack(c) \/ Freshness(c) \/ \E k \in 1..now : CatchUp(c, k)
    PROVE  /\ \E candles \in SUBSET (1..now) : Stores(c, candles)
           /\ lost' \subseteq lost
<1>1. now \in Nat /\ now >= 1
  BY BoundAssumption DEF TypeOK
<1>2. CASE StreamBack(c)
  <2>1. {now} \in SUBSET (1..now)
    BY <1>1
  <2>2. QED
    BY <1>2, <2>1 DEF StreamBack
<1>3. CASE Freshness(c)
  <2>1. {now - 1, now} \ {0} \in SUBSET (1..now)
    BY <1>1
  <2>2. QED
    BY <1>3, <2>1 DEF Freshness
<1>4. ASSUME NEW k \in 1..now, CatchUp(c, k) PROVE /\ \E candles \in SUBSET (1..now) : Stores(c, candles)
                                                   /\ lost' \subseteq lost
  <2>1. 1..k \in SUBSET (1..now)
    BY <1>1
  <2>2. QED
    BY <1>4, <2>1 DEF CatchUp
<1>5. QED
  BY <1>2, <1>3, <1>4

(* Time does not go back, and candles are not deleted.                      *)
LEMMA MarketType ==
    ASSUME TypeOK, MarketActs
    PROVE  /\ now' \in 1..MaxCandle /\ now' \in {now, now + 1}
           /\ candle' \in [Coins -> Series] /\ db' \in [Coins -> Series] /\ lost' \subseteq Coins
           /\ stored' \in [Coins -> (SUBSET (1..now')) \ {{}}]
           /\ \A d \in Coins : stored[d] \subseteq stored'[d]
           /\ polled' \in BOOLEAN /\ late' \subseteq Coins /\ late \subseteq late'
           /\ losses' \in 0..MaxLosses
<1> USE BoundAssumption, TradesAssumption DEF history, faults
<1> DEFINE Goal == /\ now' \in 1..MaxCandle /\ now' \in {now, now + 1}
                   /\ candle' \in [Coins -> Series] /\ db' \in [Coins -> Series] /\ lost' \subseteq Coins
                   /\ stored' \in [Coins -> (SUBSET (1..now')) \ {{}}]
                   /\ \A d \in Coins : stored[d] \subseteq stored'[d]
                   /\ polled' \in BOOLEAN /\ late' \subseteq Coins /\ late \subseteq late'
                   /\ losses' \in 0..MaxLosses
<1>1. /\ now \in 1..MaxCandle /\ candle \in [Coins -> Series] /\ db \in [Coins -> Series]
      /\ lost \subseteq Coins /\ stored \in [Coins -> (SUBSET (1..now)) \ {{}}] /\ polled \in BOOLEAN
      /\ late \subseteq Coins /\ losses \in 0..MaxLosses
  BY DEF TypeOK
<1>2. ASSUME NEW c \in Coins, Tick(c) PROVE Goal
  <2>1. PICK p \in Levels :
            candle' = [candle EXCEPT ![c][now] = [low |-> Min2(@.low, p), high |-> Max2(@.high, p), close |-> p]]
    BY <1>2 DEF Tick
  <2>2. candle[c] \in Series /\ candle[c][now] \in [low : Levels, high : Levels, close : Levels]
    BY <1>1 DEF Series
  <2>3. candle' \in [Coins -> Series]
    BY <1>1, <2>1, <2>2 DEF Series, Min2, Max2
  <2>4. db' = db \/ db' = [db EXCEPT ![c][now] = candle'[c][now]]
    BY <1>2 DEF Tick
  <2>5. db' \in [Coins -> Series]
    <3>1. db[c] \in Series /\ candle'[c][now] \in [low : Levels, high : Levels, close : Levels]
      BY <1>1, <2>3 DEF Series
    <3>2. [db[c] EXCEPT ![now] = candle'[c][now]] \in Series
      BY <3>1 DEF Series
    <3>3. QED
      BY <1>1, <2>4, <3>2
  <2>6. UNCHANGED <<now, lost, stored, polled, late, losses>>
    BY <1>2 DEF Tick
  <2>7. QED
    BY <1>1, <2>3, <2>5, <2>6
<1>3. CASE NextCandle
  <2>1. /\ now < MaxCandle /\ now' = now + 1 /\ polled' = FALSE /\ UNCHANGED <<lost, losses>>
        /\ candle' = [c \in Coins |-> [k \in 1..MaxCandle |->
                         IF k > now THEN Flat(candle[c][now].close) ELSE candle[c][k]]]
        /\ stored' = [c \in Coins |-> IF c \in lost THEN stored[c] ELSE stored[c] \cup {now'}]
        /\ db' = [c \in Coins |-> [k \in 1..MaxCandle |->
                     IF c \notin lost /\ k = now' THEN candle'[c][k] ELSE db[c][k]]]
    BY <1>3 DEF NextCandle
  <2>2. PICK T \in SUBSET Trades : late' = late \cup {CoinOf(t) : t \in T}
    BY <1>3 DEF NextCandle
  <2>3. candle' \in [Coins -> Series]
    BY <1>1, <2>1 DEF Flat, Series
  <2>4. db' \in [Coins -> Series]
    BY <1>1, <2>1, <2>3 DEF Series
  <2>5. now' \in 1..MaxCandle /\ 1..now \subseteq 1..now' /\ now' \in 1..now'
    BY <1>1, <2>1
  <2>6. stored' \in [Coins -> (SUBSET (1..now')) \ {{}}] /\ \A d \in Coins : stored[d] \subseteq stored'[d]
    BY <1>1, <2>1, <2>5
  <2>7. late' \subseteq Coins /\ late \subseteq late'
    BY <1>1, <2>2, CoinType
  <2>8. QED
    BY <1>1, <2>1, <2>3, <2>4, <2>5, <2>6, <2>7
<1>4. ASSUME NEW c \in Coins, Loses(c) PROVE Goal
  <2>1. losses < MaxLosses /\ losses' = losses + 1 /\ lost' = lost \cup {c}
        /\ UNCHANGED <<now, candle, stored, db, polled, late>>
    BY <1>4 DEF Loses
  <2>2. losses' \in 0..MaxLosses
    BY <1>1, <2>1
  <2>3. QED
    BY <1>1, <2>1, <2>2
<1>5. ASSUME NEW c \in Coins, StreamBack(c) \/ Freshness(c) \/ \E k \in 1..now : CatchUp(c, k) PROVE Goal
  <2>1. PICK candles \in SUBSET (1..now) : Stores(c, candles)
    BY <1>5, StoresWhen
  <2>2. lost' \subseteq lost
    BY <1>5, StoresWhen
  <2>3. QED
    BY <1>1, <2>1, <2>2, StoresFrame
<1>6. QED
  BY <1>2, <1>3, <1>4, <1>5 DEF MarketActs

(* So the invariant does not notice.                                        *)
LEMMA MarketStep == ASSUME IInv, MarketActs PROVE IInv'
<1> USE BoundAssumption, TradesAssumption DEF tables, memory, scoring
<1>1. UNCHANGED <<tables, file, pc, memory, scoring, abandoned, crashes, errors>>
  BY MarketFrame
<1>2. /\ now' \in 1..MaxCandle /\ now <= now'
      /\ candle' \in [Coins -> Series] /\ db' \in [Coins -> Series] /\ lost' \subseteq Coins
      /\ stored' \in [Coins -> (SUBSET (1..now')) \ {{}}]
      /\ \A d \in Coins : stored[d] \subseteq stored'[d]
      /\ polled' \in BOOLEAN /\ late' \subseteq Coins /\ losses' \in 0..MaxLosses
  BY MarketType DEF IInv, TypeOK
<1>3. TypeOK'
  BY <1>1, <1>2 DEF IInv, TypeOK
<1>4. Books' /\ Idle'
  BY <1>1 DEF IInv, Books, Settled, Uncommitted, Idle
<1>5. cur' # NoTrade => at' \in stored'[CoinOf(cur')]
  <2>1. cur # NoTrade => cur \in Trades
    BY DEF IInv, TypeOK
  <2>2. QED
    BY <1>1, <1>2, <2>1, CoinType DEF IInv, Dated
<1>6. \A t \in Trades : opened[t] <= now'
  BY <1>2 DEF IInv, TypeOK, Dated
<1>7. Dated'
  BY <1>1, <1>5, <1>6 DEF IInv, Dated, NeverBackdated
<1>8. QED
  BY <1>3, <1>4, <1>7 DEF IInv

(* A new row is open, not recorded, and as old as the forming candle.       *)
LEMMA PostStep == ASSUME IInv, NEW t \in Trades, Post(t) PROVE IInv'
<1> USE BoundAssumption, TradesAssumption, SetupAssumption DEF market, memory, scoring, history, faults, None
<1>1. /\ opened[t] = None /\ opened' = [opened EXCEPT ![t] = now]
      /\ UNCHANGED <<market, moving, file, pc, memory, scoring, history, faults>>
  BY DEF Post
<1> DEFINE r == [here |-> TRUE, hits |-> 0, booked |-> 0, moved |-> 0,
                 fillAt |-> IF Setup[t].limit THEN None ELSE now]
<1>2. row' = [row EXCEPT ![t] = r] /\ work' = [work EXCEPT ![t] = row'[t]]
  BY DEF Post
<1>3. r \in Rows /\ r.here /\ r.booked = 0 /\ r.hits = 0 /\ r.moved = 0
  BY DEF IInv, TypeOK, Rows
<1> HIDE DEF r
<1>4. row \in [Trades -> Rows] /\ work \in [Trades -> Rows]
  BY DEF IInv, TypeOK
<1>5. /\ row' \in [Trades -> Rows] /\ work' \in [Trades -> Rows]
      /\ row'[t] = r /\ work'[t] = r
      /\ \A u \in Trades \ {t} : row'[u] = row[u] /\ work'[u] = work[u]
  BY <1>2, <1>3, <1>4, PutRow
<1>6. \A u \in Trades : row'[u].hits <= Len(Targets(u)) /\ work'[u].hits <= Len(Targets(u))
  <2>1. \A u \in Trades : row[u].hits <= Len(Targets(u)) /\ work[u].hits <= Len(Targets(u))
    BY DEF IInv, TypeOK
  <2>2. Len(Targets(t)) \in Nat
    BY TargetsType
  <2>3. QED
    BY <1>3, <1>5, <2>1, <2>2
<1>7. opened' \in [Trades -> 0..MaxCandle] /\ opened'[t] = now /\ now # None
  BY <1>1 DEF IInv, TypeOK
<1>8. \A u \in Trades \ {t} : opened'[u] = opened[u]
  BY <1>1 DEF IInv, TypeOK
<1>9. TypeOK'
  BY <1>1, <1>5, <1>6, <1>7 DEF IInv, TypeOK
<1>10. Books'
  <2>1. Settled(t, row[t])' /\ Settled(t, work[t])' /\ Uncommitted(t, row[t], work[t])'
    BY <1>3, <1>5, <1>7 DEF Settled, Uncommitted
  <2>2. ASSUME NEW u \in Trades \ {t}
        PROVE  Settled(u, row[u])' /\ Settled(u, work[u])' /\ Uncommitted(u, row[u], work[u])'
    BY <1>5, <1>8 DEF IInv, Books, Settled, Uncommitted
  <2>3. \A p \in moving : opened'[p[2]] # None
    <3>1. ASSUME NEW p \in moving PROVE opened'[p[2]] # None
      <4>1. p[2] \in Trades /\ opened[p[2]] # None
        BY DEF IInv, TypeOK, Books
      <4>2. QED
        BY <1>7, <1>8, <4>1
    <3>2. QED
      BY <3>1
  <2>4. QED
    BY <1>1, <2>1, <2>2, <2>3 DEF Books
<1>11. Idle'
  BY <1>1 DEF IInv, Idle
<1>12. Dated'
  <2>1. cur # t /\ lastChecked[t] = None
    BY <1>1 DEF IInv, TypeOK, Dated, NoTrade
  <2>2. \A u \in active : opened'[u] # None
    BY <1>7, <1>8 DEF IInv, TypeOK, Dated
  <2>3. \A u \in Trades :
          /\ opened'[u] <= now
          /\ opened'[u] = None => lastChecked[u] = None
          /\ catchupFrom # None /\ lastChecked[u] # None => lastChecked[u] > opened'[u]
          /\ pc = "down" => lastChecked[u] = None
    <3>1. now \in Nat /\ now <= now
      BY DEF IInv, TypeOK
    <3>2. CASE pc = "down"
      BY <1>7, <1>8, <2>1, <3>1, <3>2 DEF IInv, Dated
    <3>3. CASE pc # "down"
      BY <1>7, <1>8, <2>1, <3>1, <3>3 DEF IInv, Dated
    <3>4. QED
      BY <3>2, <3>3
  <2>4. cur # NoTrade => cur \in Trades \ {t}
    BY <2>1 DEF IInv, TypeOK
  <2>5. NeverBackdated'
    BY <1>1, <1>8, <2>4 DEF IInv, Dated, NeverBackdated
  <2>6. QED
    BY <1>1, <2>2, <2>3, <2>5 DEF IInv, Dated
<1>13. QED
  BY <1>9, <1>10, <1>11, <1>12 DEF IInv

(* Whoever reads a row finds it posted.                                     *)
LEMMA MoverReadsStep == ASSUME IInv, NEW m \in Movers, NEW t \in Trades, MoverReads(m, t) PROVE IInv'
<1> USE DEF market, memory, scoring, history, faults
<1>1. /\ UNCHANGED <<market, row, work, opened, file, pc, memory, scoring, history, faults>>
      /\ moving' = moving \cup {<<m, t>>} /\ Here(t)
  BY DEF MoverReads
<1>2. TypeOK'
  <2>1. moving' \subseteq Movers \X Trades
    BY <1>1 DEF IInv, TypeOK
  <2>2. QED
    BY <1>1, <2>1 DEF IInv, TypeOK
<1>3. opened[t] # None
  BY <1>1 DEF IInv, Books, Settled, Here
<1>4. \A p \in moving' : opened[p[2]] # None
  BY <1>1, <1>3 DEF IInv, Books
<1>5. Books'
  BY <1>1, <1>4 DEF IInv, Books, Settled, Uncommitted
<1>6. Idle' /\ Dated'
  BY <1>1 DEF IInv, Idle, Dated, NeverBackdated
<1>7. QED
  BY <1>2, <1>5, <1>6 DEF IInv

(* What a mover does to a row leaves a row.                                 *)
LEMMA MovedRow ==
    ASSUME NEW s \in Rows
    PROVE  /\ Moved(s) \in Rows /\ Moved(s).here = FALSE /\ Moved(s).moved = s.moved + 1
           /\ Moved(s).booked = s.booked /\ Moved(s).hits = s.hits /\ Moved(s).fillAt = s.fillAt
<1>1. s.moved \in Nat /\ s.moved + 1 \in Nat
  BY DEF Rows
<1> DEFINE n == s.moved + 1
<1>2. Moved(s) = [[s EXCEPT !.here = FALSE] EXCEPT !.moved = n]
  BY DEF Moved, Rows
<1> HIDE DEF n
<1>3. /\ Moved(s) \in Rows /\ Moved(s).here = FALSE /\ Moved(s).moved = n
      /\ Moved(s).booked = s.booked /\ Moved(s).hits = s.hits /\ Moved(s).fillAt = s.fillAt
  <2>1. n \in Nat
    BY <1>1 DEF n
  <2>2. QED
    BY <1>2, <2>1 DEF Rows
<1>4. QED
  BY <1>3 DEF n

(* A row moved by another process is gone and recorded by it, in both views *)
(* of the table; what the monitor has recorded stays.                       *)
LEMMA MoverWritesStep == ASSUME IInv, NEW m \in Movers, NEW t \in Trades, MoverWrites(m, t) PROVE IInv'
<1> USE DEF market, memory, scoring, history, faults
<1>1. /\ UNCHANGED <<market, opened, file, pc, memory, scoring, history, faults>>
      /\ <<m, t>> \in moving /\ moving' = moving \ {<<m, t>>} /\ (row[t].here => work[t] = row[t])
  BY DEF MoverWrites, Locked
<1>2. opened[t] # None
  BY <1>1 DEF IInv, Books
<1> DEFINE r == Moved(row[t])
           w == Moved(work[t])
<1>3. row' = [row EXCEPT ![t] = r] /\ work' = [work EXCEPT ![t] = w]
  BY DEF MoverWrites
<1>4. row[t] \in Rows /\ work[t] \in Rows
  BY DEF IInv, TypeOK
<1>5. /\ r \in Rows /\ ~r.here /\ r.booked = row[t].booked /\ r.moved = row[t].moved + 1 /\ r.hits = row[t].hits
      /\ w \in Rows /\ ~w.here /\ w.booked = work[t].booked /\ w.moved = work[t].moved + 1 /\ w.hits = work[t].hits
  BY <1>4, MovedRow
<1>6. row[t].booked \in Nat /\ row[t].moved \in Nat /\ work[t].booked \in Nat /\ work[t].moved \in Nat
  BY <1>4 DEF Rows
<1> HIDE DEF r, w
<1>7. row \in [Trades -> Rows] /\ work \in [Trades -> Rows]
  BY DEF IInv, TypeOK
<1>8. /\ row' \in [Trades -> Rows] /\ work' \in [Trades -> Rows]
      /\ row'[t] = r /\ work'[t] = w
      /\ \A u \in Trades \ {t} : row'[u] = row[u] /\ work'[u] = work[u]
  BY <1>3, <1>5, <1>7, PutRow
<1>9. TypeOK'
  BY <1>1, <1>5, <1>8 DEF IInv, TypeOK
<1>10. Settled(t, row[t])' /\ Settled(t, work[t])'
  BY <1>1, <1>2, <1>5, <1>6, <1>8 DEF Settled
<1>11. Uncommitted(t, row[t], work[t])'
  <2>1. Uncommitted(t, row[t], work[t])
    BY DEF IInv, Books
  <2>2. r.booked = w.booked
    BY <1>1, <1>5, <2>1 DEF Uncommitted
  <2>3. QED
    BY <1>5, <1>8, <2>1, <2>2 DEF Uncommitted
<1>12. Books'
  BY <1>1, <1>8, <1>10, <1>11 DEF IInv, Books, Settled, Uncommitted
<1>13. Idle' /\ Dated'
  BY <1>1 DEF IInv, Idle, Dated, NeverBackdated
<1>14. QED
  BY <1>9, <1>12, <1>13 DEF IInv

(* The catch-up begins at a candle that exists, with no watermark.          *)
LEMMA StartStep == ASSUME IInv, Start PROVE IInv'
<1> USE BoundAssumption, TradesAssumption DEF market, tables, scoring, faults, None
<1>1. UNCHANGED <<market, tables, file, lastChecked, passes, scoring, polled, late, faults>>
  BY DEF Start
<1>2. pc = "down" /\ pc' = "idle" /\ catchupFrom' = CatchupStart /\ abandoned' \in BOOLEAN
  BY DEF Start, IInv, TypeOK
<1>3. CatchupStart \in 0..MaxCandle
  BY DEF CatchupStart, Max2, IInv, TypeOK
<1>4. TypeOK'
  BY <1>1, <1>2, <1>3 DEF IInv, TypeOK
<1>5. cur = NoTrade /\ \A t \in Trades : lastChecked[t] = None
  BY <1>2 DEF IInv, Idle, Dated
<1>6. Books' /\ Idle' /\ Dated'
  BY <1>1, <1>2, <1>5 DEF IInv, Books, Settled, Uncommitted, Idle, Dated, NeverBackdated
<1>7. QED
  BY <1>4, <1>6 DEF IInv

(* Only rows that were posted are active.                                   *)
LEMMA PollStep == ASSUME IInv, Poll PROVE IInv'
<1> USE BoundAssumption, TradesAssumption DEF market, tables, faults, None
<1>1. /\ UNCHANGED <<market, tables, file, catchupFrom, passes, todo, cur, at, pending, abandoned, late, faults>>
      /\ active' = {t \in Trades : Here(t)} /\ began' = now
      /\ lastChecked' = [t \in Trades |-> IF Here(t) THEN lastChecked[t] ELSE None]
      /\ pc = "idle" /\ pc' \in {"idle", "read"} /\ polled' \in BOOLEAN
  BY DEF Poll, IInv, TypeOK
<1>2. todo = {} /\ cur = NoTrade
  BY <1>1 DEF IInv, Idle
<1>3. lastChecked' \in [Trades -> 0..MaxCandle] /\ \A t \in Trades : lastChecked'[t] \in {lastChecked[t], None}
  BY <1>1 DEF IInv, TypeOK
<1>4. TypeOK'
  BY <1>1, <1>2, <1>3 DEF IInv, TypeOK
<1>5. Books' /\ Idle'
  BY <1>1, <1>2 DEF IInv, Books, Settled, Uncommitted, Idle
<1>6. \A t \in active' : opened[t] # None
  BY <1>1 DEF IInv, Books, Settled, Here
<1>7. \A t \in Trades :
          /\ opened[t] = None => lastChecked'[t] = None
          /\ catchupFrom # None /\ lastChecked'[t] # None => lastChecked'[t] > opened[t]
  BY <1>3 DEF IInv, Dated
<1>8. Dated'
  BY <1>1, <1>2, <1>6, <1>7 DEF IInv, Dated, NeverBackdated
<1>9. QED
  BY <1>4, <1>5, <1>8 DEF IInv

(* Nothing is scored without candles.                                       *)
LEMMA ReadStep ==
    ASSUME IInv, Read \/ \E c \in Coins : ReadError(c) PROVE IInv'
<1> USE BoundAssumption, TradesAssumption DEF market, tables, memory
<1>1. PICK coins \in SUBSET Coins : ReadCoins(coins)
  BY DEF Read, ReadError, WithCandles
<1>2. errors' \in 0..MaxErrors
  <2>1. errors' = errors \/ (errors < MaxErrors /\ errors' = errors + 1)
    BY DEF Read, ReadError
  <2>2. errors \in 0..MaxErrors
    BY DEF IInv, TypeOK
  <2>3. QED
    BY <2>1, <2>2
<1>3. /\ UNCHANGED <<market, tables, file, memory, active, cur, at, pending, began, abandoned, late, crashes, losses>>
      /\ todo' = {t \in active : CoinOf(t) \in coins}
      /\ pc = "read" /\ pc' = IF coins = {} THEN "idle" ELSE "score"
      /\ polled' \in BOOLEAN
  BY <1>1 DEF ReadCoins, IInv, TypeOK
<1>4. cur = NoTrade /\ (coins = {} => todo' = {})
  BY <1>3 DEF IInv, Idle
<1>5. TypeOK'
  BY <1>2, <1>3 DEF IInv, TypeOK
<1>6. Books' /\ Idle' /\ Dated'
  BY <1>3, <1>4 DEF IInv, Books, Settled, Uncommitted, Idle, Dated, NeverBackdated
<1>7. QED
  BY <1>5, <1>6 DEF IInv

(* The first candle of a trade is a number,                                 *)
LEMMA FirstType == ASSUME IInv, NEW t \in Trades PROVE First(t) \in Nat /\ First(t) >= 1
<1> USE BoundAssumption DEF None
<1>1. /\ lastChecked[t] \in Nat /\ catchupFrom \in Nat /\ opened[t] \in Nat
      /\ Newest(CoinOf(t)) \in Nat /\ Newest(CoinOf(t)) >= 1
  BY NewestIs, CoinType DEF IInv, TypeOK, Maxima
<1>2. QED
  BY <1>1 DEF First, Floor, Max2

(* and in a catch-up, by its watermark or its floor, not from before it.    *)
LEMMA TakeStep == ASSUME IInv, NEW t \in Trades, Take(t) PROVE IInv'
<1> USE BoundAssumption, TradesAssumption DEF market, tables, memory, history, faults
<1>1. /\ UNCHANGED <<market, tables, file, pc, memory, active, pending, began, history, faults>>
      /\ pc = "score" /\ t \in todo /\ todo' = todo \ {t}
      /\ \/ First(t) <= Newest(CoinOf(t)) /\ cur' = t /\ at' = StoredFrom(CoinOf(t), First(t))
         \/ UNCHANGED <<cur, at>>
  BY DEF Take
<1>2. t \in active /\ opened[t] # None /\ CoinOf(t) \in Coins
  BY <1>1, CoinType DEF IInv, TypeOK, Dated
<1>3. First(t) \in Nat /\ (catchupFrom # None => First(t) > opened[t])
  <2>1. opened[t] \in Nat /\ catchupFrom \in Nat /\ lastChecked[t] \in Nat
    BY DEF IInv, TypeOK
  <2>2. QED
    BY <2>1, FirstType DEF First, Floor, Max2, IInv, Dated, None
<1>4. ASSUME First(t) <= Newest(CoinOf(t)), cur' = t, at' = StoredFrom(CoinOf(t), First(t))
      PROVE  at' \in stored[CoinOf(t)] /\ at' \in 1..now /\ (catchupFrom # None => at' > opened[t])
  <2>1. at' \in stored[CoinOf(t)] /\ at' >= First(t)
    BY <1>2, <1>3, <1>4, StoredFromIs DEF IInv
  <2>2. at' \in 1..now
    BY <1>2, <2>1, NewestIs DEF IInv, Maxima
  <2>3. opened[t] \in Nat
    BY DEF IInv, TypeOK
  <2>4. QED
    BY <1>3, <2>1, <2>2, <2>3
<1>5. TypeOK'
  <2>1. active' = active /\ todo' \in SUBSET active /\ cur' \in active \cup {NoTrade}
    BY <1>1, <1>2 DEF IInv, TypeOK
  <2>2. at' \in 0..MaxCandle
    <3>1. at \in 0..MaxCandle /\ now \in 1..MaxCandle
      BY DEF IInv, TypeOK
    <3>2. QED
      BY <1>1, <1>4, <3>1
  <2>3. QED
    BY <1>1, <2>1, <2>2 DEF IInv, TypeOK
<1>6. Books' /\ Idle'
  BY <1>1 DEF IInv, Books, Settled, Uncommitted, Idle
<1>7. NeverBackdated' /\ (cur' # NoTrade => at' \in stored'[CoinOf(cur')])
  BY <1>1, <1>4 DEF IInv, Dated, NeverBackdated
<1>8. Dated'
  BY <1>1, <1>7 DEF IInv, Dated
<1>9. QED
  BY <1>5, <1>6, <1>8 DEF IInv

(* Scoring one candle: the trade in hand is active; its row in the          *)
(* transaction changes as the verdict says and counts once when it goes.    *)
LEMMA ScoreStep ==
    ASSUME IInv, ScoreCandle
    PROVE  IInv' /\ \A u \in Trades : Uncommitted(u, row[u], work'[u])
<1> USE BoundAssumption, TradesAssumption DEF market, history, faults, None, NoTrade
<1> DEFINE s == work[cur]
           v == Verdict(cur, s, at, db[CoinOf(cur)][at])
           ended == v.end # "none"
           r == [here |-> s.here /\ ~ended, hits |-> v.hits, fillAt |-> v.fillAt,
                 booked |-> s.booked + Returned(s, ended), moved |-> s.moved]
<1>1. /\ cur \in active /\ cur \in Trades /\ cur # NoTrade /\ at \in 0..MaxCandle /\ opened[cur] # None
      /\ CoinOf(cur) \in Coins /\ at \in stored[CoinOf(cur)] /\ at \in 1..now
  <2>1. cur \in active /\ cur \in Trades /\ cur # NoTrade /\ at \in 0..MaxCandle /\ opened[cur] # None
    BY DEF ScoreCandle, IInv, TypeOK, Dated
  <2>2. CoinOf(cur) \in Coins /\ at \in stored[CoinOf(cur)]
    BY <2>1, CoinType DEF IInv, Dated
  <2>3. at \in 1..now
    BY <2>2, NewestIs DEF IInv, Maxima
  <2>4. QED
    BY <2>1, <2>2, <2>3
<1>2. s \in Rows /\ s.hits <= Len(Targets(cur)) /\ Settled(cur, s) /\ Uncommitted(cur, row[cur], s)
  BY <1>1 DEF IInv, TypeOK, Books
<1>3. v.hits \in Nat /\ v.hits <= Len(Targets(cur)) /\ v.fillAt \in 0..MaxCandle
  BY <1>1, <1>2, VerdictType
<1>4. work' = [work EXCEPT ![cur] = r]
  BY DEF ScoreCandle
<1>5. row' = work' \/ row' = row
  BY DEF ScoreCandle
<1>6. pending' \in 0..BatchSize
  <2>1. \/ pending' = 0 \/ pending' = pending
        \/ pending' = pending + 1 /\ ~(pending + 1 >= BatchSize)
    BY DEF ScoreCandle
  <2>2. pending \in 0..BatchSize
    BY DEF IInv, TypeOK
  <2>3. QED
    BY <2>1, <2>2
<1>7. lastChecked' = [lastChecked EXCEPT ![cur] = IF ended THEN None ELSE at]
  BY DEF ScoreCandle
<1>8. UNCHANGED <<market, opened, moving, file, pc, catchupFrom, passes, active, todo, began, history, faults>>
  BY DEF ScoreCandle
<1>9. \/ cur' = NoTrade /\ at' = None
      \/ at # Newest(CoinOf(cur)) /\ at' = StoredFrom(CoinOf(cur), at + 1) /\ cur' = cur
  BY DEF ScoreCandle
<1> HIDE DEF v
<1>10. /\ r.booked = s.booked + (IF ended /\ s.here THEN 1 ELSE 0) /\ r.here = (s.here /\ ~ended)
       /\ r.hits = v.hits /\ r.moved = s.moved /\ s.booked \in 0..1 /\ s.moved \in Nat
  BY <1>2 DEF Returned, Rows
<1>11. s.here => s.booked = 0 /\ s.moved = 0
  <2>1. s.here <=> s.booked + s.moved = 0
    BY <1>1, <1>2 DEF Settled
  <2> HIDE DEF s
  <2>2. QED
    BY <1>10, <2>1
<1>12. r \in Rows
  <2>1. r.booked \in 0..1
    <3> HIDE DEF r, s, ended
    <3>1. QED
      BY <1>10, <1>11
  <2>2. QED
    BY <1>2, <1>3, <2>1 DEF Rows
<1>13. Settled(cur, r) /\ Uncommitted(cur, row[cur], r)
  <2> HIDE DEF s, ended, r
  <2>1. s.here <=> s.booked + s.moved = 0
    BY <1>1, <1>2 DEF Settled
  <2>2. r.here <=> (r.booked + r.moved = 0)
    <3>1. CASE s.here /\ ~ended
      <4>1. r.here
        BY <1>10, <3>1
      <4>2. r.booked = s.booked + 0 /\ r.moved = s.moved
        BY <1>10, <3>1
      <4>3. r.booked + r.moved = 0
        BY <1>11, <3>1, <4>2
      <4>4. QED
        BY <4>1, <4>3
    <3>2. CASE s.here /\ ended
      <4>1. r.booked = 1 /\ r.moved = 0
        BY <1>10, <1>11, <3>2
      <4>2. r.booked + r.moved # 0
        BY <4>1
      <4>3. ~r.here
        BY <1>10, <3>2
      <4>4. QED
        BY <4>2, <4>3
    <3>3. CASE ~s.here
      <4>1. r.booked = s.booked /\ r.moved = s.moved /\ s.booked + s.moved # 0
        BY <1>10, <2>1, <3>3
      <4>2. r.booked + r.moved # 0
        BY <4>1
      <4>3. ~r.here
        BY <1>10, <3>3
      <4>4. QED
        BY <4>2, <4>3
    <3>4. QED
      BY <3>1, <3>2, <3>3
  <2>3. Settled(cur, r)
    BY <1>1, <2>2 DEF Settled
  <2>4. ended /\ s.here => Uncommitted(cur, row[cur], r)
    BY <1>2, <1>10 DEF Uncommitted
  <2>5. ~(ended /\ s.here) => Uncommitted(cur, row[cur], r)
    <3> SUFFICES ASSUME ~(ended /\ s.here) PROVE Uncommitted(cur, row[cur], r)
      OBVIOUS
    <3>1. r.booked = s.booked
      BY <1>10
    <3>2. r.here => s.here
      BY <1>10
    <3>3. QED
      BY <1>2, <1>10, <3>1, <3>2 DEF Uncommitted
  <2>6. Uncommitted(cur, row[cur], r)
    BY <2>4, <2>5
  <2>7. QED
    BY <2>3, <2>6
<1> HIDE DEF s, ended, r
<1>14. /\ work' \in [Trades -> Rows] /\ work'[cur] = r
       /\ \A u \in Trades \ {cur} : work'[u] = work[u]
  BY <1>1, <1>4, <1>12, PutRow DEF IInv, TypeOK
<1>15. \A u \in Trades : work'[u].hits <= Len(Targets(u)) /\ Settled(u, work'[u]) /\ Uncommitted(u, row[u], work'[u])
  BY <1>3, <1>10, <1>13, <1>14 DEF IInv, TypeOK, Books
<1>16. \A u \in Trades : Uncommitted(u, work'[u], work'[u])
  BY DEF Uncommitted
<1>17. /\ row' \in [Trades -> Rows]
       /\ \A u \in Trades : row'[u].hits <= Len(Targets(u)) /\ Settled(u, row'[u]) /\ Uncommitted(u, row'[u], work'[u])
  BY <1>5, <1>14, <1>15, <1>16 DEF IInv, TypeOK, Books
<1>18. lastChecked' \in [Trades -> 0..MaxCandle]
  BY <1>1, <1>7 DEF IInv, TypeOK
<1>19. /\ at' \in 0..MaxCandle /\ cur' \in active \cup {NoTrade}
       /\ cur' # NoTrade => at' \in stored[CoinOf(cur')] /\ (catchupFrom # None => at' > opened[cur'])
  <2>1. now \in 1..MaxCandle /\ opened[cur] \in Nat
    BY <1>1 DEF IInv, TypeOK
  <2>2. CASE cur' = NoTrade /\ at' = None
    BY <2>2
  <2>3. CASE at # Newest(CoinOf(cur)) /\ at' = StoredFrom(CoinOf(cur), at + 1) /\ cur' = cur
    <3>1. at + 1 \in Nat /\ at + 1 <= Newest(CoinOf(cur))
      BY <1>1, <2>3, NewestIs DEF IInv, Maxima
    <3>2. at' \in stored[CoinOf(cur)] /\ at' >= at + 1
      BY <1>1, <2>3, <3>1, StoredFromIs DEF IInv
    <3>3. at' \in 1..now
      BY <1>1, <3>2, NewestIs DEF IInv, Maxima
    <3>4. catchupFrom # None => at > opened[cur]
      BY <1>1 DEF IInv, Dated, NeverBackdated
    <3>5. QED
      BY <1>1, <2>1, <2>3, <3>2, <3>3, <3>4
  <2>4. QED
    BY <1>9, <2>2, <2>3
<1>20. TypeOK'
  BY <1>6, <1>8, <1>14, <1>15, <1>17, <1>18, <1>19 DEF IInv, TypeOK
<1>21. Books'
  BY <1>8, <1>15, <1>17 DEF IInv, Books, Settled
<1>22. Idle'
  <2>1. pc' = "score"
    BY <1>8 DEF ScoreCandle
  <2>2. QED
    BY <2>1 DEF Idle
<1>23. Dated'
  <2>1. \A t \in Trades : lastChecked'[t] \in {lastChecked[t], None} \/ (t = cur /\ lastChecked'[t] = at)
    BY <1>1, <1>7 DEF IInv, TypeOK
  <2>2. catchupFrom # None => at > opened[cur]
    BY <1>1 DEF IInv, Dated, NeverBackdated
  <2>3. \A t \in Trades : /\ opened[t] = None => lastChecked'[t] = None
                          /\ catchupFrom # None /\ lastChecked'[t] # None => lastChecked'[t] > opened[t]
    BY <1>1, <2>1, <2>2 DEF IInv, Dated
  <2>4. pc' = "score"
    BY <1>8 DEF ScoreCandle
  <2>5. QED
    BY <1>8, <1>19, <2>3, <2>4 DEF IInv, Dated, NeverBackdated
<1>24. QED
  BY <1>15, <1>20, <1>21, <1>22, <1>23 DEF IInv

(* The commit of a pass; the catch-up that is not over has passes left.     *)
LEMMA EndPassStep == ASSUME IInv, EndPass PROVE IInv'
<1> USE BoundAssumption, TradesAssumption DEF market, faults, None, NoTrade
<1>1. /\ UNCHANGED <<market, work, opened, moving, lastChecked, todo, cur, at, faults>>
      /\ row' = work /\ active' = {} /\ pending' = 0 /\ began' = None /\ pc' = "idle"
      /\ cur = NoTrade /\ todo = {}
  BY DEF EndPass, ScoringDone
<1>2. file' \in 0..MaxCandle /\ catchupFrom' \in {None, catchupFrom} /\ catchupFrom' \in 0..MaxCandle
  BY DEF EndPass, IInv, TypeOK
<1>3. passes' \in 0..MaxPasses
  <2>1. passes' = passes \/ passes' = 0 \/ (passes' = passes + 1 /\ ~(passes + 1 >= MaxPasses))
    BY DEF EndPass, Disarm
  <2>2. passes \in 0..MaxPasses
    BY DEF IInv, TypeOK
  <2>3. QED
    BY <2>1, <2>2
<1>4. polled' \in BOOLEAN /\ abandoned' \in BOOLEAN
  BY DEF EndPass, IInv, TypeOK
<1>5. late' \subseteq Coins
  <2>1. PICK T \in SUBSET Trades : late' = late \cup {CoinOf(t) : t \in T}
    <3>1. Behind \subseteq Trades /\ Unseen' \subseteq Trades
      BY DEF Behind, Unseen, IInv, TypeOK
    <3>2. late' = late \cup {CoinOf(t) : t \in (IF file' = began THEN Behind ELSE {}) \cup Unseen'}
      BY DEF EndPass
    <3>3. QED
      BY <3>1, <3>2
  <2>2. QED
    BY <2>1, CoinType DEF IInv, TypeOK
<1>6. TypeOK'
  BY <1>1, <1>2, <1>3, <1>4, <1>5 DEF IInv, TypeOK
<1>7. \A t \in Trades : Uncommitted(t, work[t], work[t])
  BY DEF Uncommitted
<1>8. Books' /\ Idle'
  BY <1>1, <1>7 DEF IInv, Books, Settled, Uncommitted, Idle
<1>9. Dated'
  BY <1>1, <1>2 DEF IInv, Dated, NeverBackdated
<1>10. QED
  BY <1>6, <1>8, <1>9 DEF IInv

(* A roll-back, or a commit whose reply was lost, and what the process      *)
(* forgets.                                                                 *)
LEMMA FaultStep == ASSUME IInv, PassError \/ Crash PROVE IInv'
<1> USE BoundAssumption, TradesAssumption DEF market, memory, history, None, NoTrade
<1>1. /\ UNCHANGED <<market, opened, moving, file, history, losses>>
      /\ row' \in {row, work} /\ work' = row'
      /\ active' = {} /\ todo' = {} /\ cur' = NoTrade /\ at' = None /\ pending' = 0 /\ began' = None
      /\ pc' \in {"idle", "down"}
  BY DEF PassError, Crash, ForgetPass
<1>2. \/ UNCHANGED memory /\ pc' = "idle"
      \/ lastChecked' = [t \in Trades |-> None] /\ catchupFrom' = None /\ passes' = 0
  BY DEF PassError, Crash
<1>3. crashes' \in 0..MaxCrashes /\ errors' \in 0..MaxErrors
  <2>1. \/ errors < MaxErrors /\ errors' = errors + 1 /\ crashes' = crashes
        \/ crashes < MaxCrashes /\ crashes' = crashes + 1 /\ errors' = errors
    BY DEF PassError, Crash
  <2>2. crashes \in 0..MaxCrashes /\ errors \in 0..MaxErrors
    BY DEF IInv, TypeOK
  <2>3. QED
    BY <2>1, <2>2
<1>4. TypeOK'
  BY <1>1, <1>2, <1>3 DEF IInv, TypeOK
<1>5. \A t \in Trades : Uncommitted(t, row'[t], row'[t])
  BY DEF Uncommitted
<1>6. Books' /\ Idle'
  BY <1>1, <1>5 DEF IInv, Books, Settled, Uncommitted, Idle
<1>7. Dated'
  BY <1>1, <1>2 DEF IInv, TypeOK, Dated, NeverBackdated
<1>8. QED
  BY <1>4, <1>6, <1>7 DEF IInv

(* The induction step, one lemma per group of actions.                      *)
LEMMA StepHolds == IInv /\ [Next]_vars => IInv'
<1> SUFFICES ASSUME IInv, [Next]_vars PROVE IInv'
  OBVIOUS
<1>1. CASE Pass
  BY <1>1, PollStep, ReadStep, TakeStep, ScoreStep, EndPassStep DEF Pass
<1>2. CASE Start \/ Fault
  BY <1>2, StartStep, ReadStep, FaultStep DEF Fault
<1>3. CASE Environment
  BY <1>3, MarketStep, PostStep, MoverReadsStep, MoverWritesStep DEF Environment, MarketActs
<1>4. CASE UNCHANGED vars
  BY <1>4 DEF vars, market, tables, memory, scoring, history, faults, IInv, TypeOK, Books, Settled,
              Uncommitted, Idle, Dated, NeverBackdated
<1>5. QED
  BY <1>1, <1>2, <1>3, <1>4 DEF Next

(* The inductive invariant.                                                 *)
LEMMA Invariant == Spec => []IInv
<1>1. Init => IInv
  BY InitHolds
<1>2. IInv /\ [Next]_vars => IInv'
  BY StepHolds
<1>3. QED
  BY <1>1, <1>2, PTL DEF Spec

(* Type correctness of the monitor, its tables, the market and ingestion,   *)
(* among it that the monitor records no trade twice and the catch-up ends   *)
(* within its limit.                                                        *)
THEOREM TypeCorrect == Spec => []TypeOK
<1>1. IInv => TypeOK
  BY DEF IInv
<1>2. QED
  BY <1>1, Invariant, PTL

(* What a step does to the committed table: it records a trade together     *)
(* with taking its row away, and brings no row back.                        *)
LEMMA TakenAway ==
    ASSUME IInv, [Next]_vars, NEW t \in Trades
    PROVE  /\ row'[t].booked # row[t].booked => Here(t) /\ ~Here(t)' /\ row'[t].booked = 1
           /\ Here(t)' => Here(t) \/ opened[t] = None
<1> USE BoundAssumption, TradesAssumption DEF None, Here
<1> DEFINE Goal == /\ row'[t].booked # row[t].booked => row[t].here /\ ~row'[t].here /\ row'[t].booked = 1
                   /\ row'[t].here => row[t].here \/ opened[t] = None
<1>1. /\ row \in [Trades -> Rows] /\ work \in [Trades -> Rows] /\ row'[t] \in Rows
      /\ Settled(t, row[t]) /\ \A u \in Trades : Uncommitted(u, row[u], work[u])
  BY StepHolds DEF IInv, TypeOK, Books
<1>2. ASSUME Uncommitted(t, row[t], row'[t]) PROVE Goal
  <2>1. row[t].booked \in 0..1 /\ row'[t].booked \in 0..1 /\ row[t].moved \in Nat
    BY <1>1 DEF Rows
  <2>2. row[t].here => row[t].booked = 0
    BY <1>1, <2>1 DEF Settled
  <2>3. row[t].here /\ row'[t].booked # row[t].booked => row'[t].booked = 1
    BY <2>1, <2>2
  <2>4. QED
    BY <1>2, <2>3 DEF Uncommitted
<1>3. CASE row'[t] = row[t]
  BY <1>3
<1>4. CASE ScoreCandle
  <2>1. Uncommitted(t, row[t], work'[t]) /\ (row' = work' \/ row' = row)
    BY <1>4, ScoreStep DEF ScoreCandle
  <2>2. QED
    BY <1>2, <1>3, <2>1
<1>5. CASE EndPass \/ PassError \/ Crash
  <2>1. row' \in {row, work}
    BY <1>5 DEF EndPass, PassError, Crash
  <2>2. QED
    BY <1>1, <1>2, <1>3, <2>1
<1>6. ASSUME NEW u \in Trades, Post(u) PROVE Goal
  <2> DEFINE r == [here |-> TRUE, hits |-> 0, booked |-> 0, moved |-> 0,
                   fillAt |-> IF Setup[u].limit THEN None ELSE now]
  <2>1. opened[u] = None /\ row' = [row EXCEPT ![u] = r] /\ r.booked = 0
    BY <1>6 DEF Post
  <2> HIDE DEF r
  <2>2. CASE u = t
    BY <1>1, <2>1, <2>2 DEF Settled
  <2>3. CASE u # t
    BY <1>1, <1>3, <2>1, <2>3
  <2>4. QED
    BY <2>2, <2>3
<1>7. ASSUME NEW m \in Movers, NEW u \in Trades, MoverWrites(m, u) PROVE Goal
  <2>1. row' = [row EXCEPT ![u] = Moved(row[u])]
    BY <1>7 DEF MoverWrites
  <2>2. CASE u = t
    <3>1. row'[t].booked = row[t].booked /\ row'[t].here = FALSE
      BY <1>1, <2>1, <2>2, MovedRow
    <3>2. QED
      BY <3>1
  <2>3. CASE u # t
    BY <1>1, <1>3, <2>1, <2>3
  <2>4. QED
    BY <2>2, <2>3
<1>8. CASE row' = row
  BY <1>3, <1>8
<1>9. CASE MarketActs
  BY <1>8, <1>9, MarketFrame DEF tables
<1>10. QED
  BY <1>4, <1>5, <1>6, <1>7, <1>8, <1>9
     DEF Next, Pass, Fault, Environment, MarketActs, vars, tables, Start, Poll, Read, ReadCoins, ReadError, Take,
         MoverReads

(* P2.8: whatever the movers do, the monitor records a trade once at most,  *)
(* and only in the transaction that takes its row away.                     *)
THEOREM RecordedOnce == Spec => BookedOnce
<1> DEFINE Open == \A t \in Trades : opened[t] # None => (Here(t) <=> row[t].booked + row[t].moved = 0)
           Step == \A t \in Trades :
                      /\ row'[t].booked # row[t].booked => Here(t) /\ ~Here(t)' /\ row'[t].booked = 1
                      /\ Here(t)' => Here(t) \/ opened[t] = None
<1>1. IInv => Open
  BY DEF IInv, Books, Settled, Here
<1>2. IInv /\ [Next]_vars => [Step]_vars
  BY TakenAway
<1>3. Spec => []Open /\ [][Step]_vars
  <2> HIDE DEF Open, Step
  <2>1. QED
    BY <1>1, <1>2, Invariant, PTL DEF Spec
<1>4. QED
  BY <1>3 DEF BookedOnce

(* No catch-up scores a trade against a candle from before it was posted.   *)
THEOREM NotBackdated == Spec => []NeverBackdated
<1>1. IInv => NeverBackdated
  BY DEF IInv, Dated
<1>2. QED
  BY <1>1, Invariant, PTL
-----------------------------------------------------------------------------
(* The reference.  It begins with the row as it was posted and goes on     *)
(* from one candle to the next.                                            *)
Fresh(t) == [end |-> "none", hits |-> 0, fillAt |-> IF Setup[t].limit THEN None ELSE opened[t]]
After(t, s, k) ==
    IF k <= opened[t] THEN Fresh(t) ELSE IF s.end # "none" THEN s ELSE Verdict(t, s, k, candle[CoinOf(t)][k])

(* The first n steps of the recursion have a solution, for every n.        *)
LEMMA Prefixes ==
    ASSUME TypeOK, NEW t \in Trades
    PROVE  \A n \in Nat : \E g : g = [k \in 0..n |-> After(t, g[k - 1], k)]
<1> DEFINE Bad == {n \in Nat : ~ \E g : g = [k \in 0..n |-> After(t, g[k - 1], k)]}
<1>1. opened[t] \in Nat
  BY BoundAssumption DEF TypeOK
<1>2. 0 \notin Bad
  <2> DEFINE g == [k \in 0..0 |-> Fresh(t)]
  <2>1. \A k \in 0..0 : g[k] = After(t, g[k - 1], k)
    BY <1>1 DEF After
  <2>2. g = [k \in 0..0 |-> After(t, g[k - 1], k)]
    BY <2>1
  <2>3. QED
    BY <2>2
<1>3. ASSUME NEW n \in Nat, n \notin Bad PROVE n + 1 \notin Bad
  <2>1. PICK g : g = [k \in 0..n |-> After(t, g[k - 1], k)]
    BY <1>3
  <2> DEFINE h == [k \in 0..n + 1 |-> IF k <= n THEN g[k] ELSE After(t, g[n], n + 1)]
  <2>2. \A k \in 0..n : h[k] = g[k] /\ g[k] = After(t, g[k - 1], k)
    BY <2>1
  <2>3. ASSUME NEW k \in 0..n + 1 PROVE h[k] = After(t, h[k - 1], k)
    <3>1. CASE k = 0
      <4>0. k \in 0..n
        BY <3>1
      <4>1. h[k] = After(t, g[k - 1], k)
        BY <2>2, <4>0, Zenon
      <4>2. QED
        BY <1>1, <3>1, <4>1 DEF After
    <3>2. CASE k \in 1..n
      <4>1. k - 1 \in 0..n /\ k \in 0..n
        BY <3>2
      <4>2. h[k] = After(t, g[k - 1], k) /\ h[k - 1] = g[k - 1]
        BY <2>2, <4>1
      <4>3. QED
        BY <4>2
    <3>3. CASE k = n + 1
      <4>1. h[k] = After(t, g[n], n + 1)
        BY <3>3
      <4>2. k - 1 = n /\ h[n] = g[n]
        BY <2>2, <3>3
      <4>3. QED
        BY <3>3, <4>1, <4>2
    <3>4. QED
      BY <3>1, <3>2, <3>3
  <2>4. h = [k \in 0..n + 1 |-> After(t, h[k - 1], k)]
    BY <2>3
  <2>5. QED
    BY <2>4
<1>4. Bad = {}
  <2> SUFFICES ASSUME Bad # {} PROVE FALSE
    OBVIOUS
  <2> HIDE DEF Bad
  <2>0. Bad \in SUBSET Nat
    BY DEF Bad
  <2>1. PICK n \in Bad : \A m \in Bad : n <= m
    BY <2>0, LeastExists
  <2>2. n \in Nat /\ n # 0
    BY <1>2, <2>0, <2>1
  <2>3. n - 1 \in Nat /\ n - 1 \notin Bad /\ (n - 1) + 1 = n
    BY <2>1, <2>2
  <2>4. QED
    BY <1>3, <2>1, <2>3
<1>5. QED
  BY <1>4

(* So the reference is what scoring one candle after the other gives.  The *)
(* library's induction takes an operator; the least candle where a claim   *)
(* fails does as well.                                                     *)
StepByStep == \A t \in Trades : \A k \in 0..MaxCandle : Ideal(t, k) = After(t, Ideal(t, k - 1), k)

(* Its recursion, one step unfolded.                                       *)
LEMMA IdealUnfold == TypeOK => StepByStep
<1> SUFFICES ASSUME TypeOK, NEW t \in Trades, NEW k \in 0..MaxCandle
             PROVE  Ideal(t, k) = After(t, Ideal(t, k - 1), k)
  BY DEF StepByStep
<1> DEFINE f == CHOOSE f : f = [j \in 0..MaxCandle |-> After(t, f[j - 1], j)]
<1>1. f = [j \in 0..MaxCandle |-> After(t, f[j - 1], j)]
  <2>1. MaxCandle \in Nat
    BY BoundAssumption
  <2>2. \E g : g = [j \in 0..MaxCandle |-> After(t, g[j - 1], j)]
    BY <2>1, Prefixes
  <2>3. QED
    BY <2>2
<1>2. \A j : Ideal(t, j) = f[j]
  BY DEF Ideal, After, Fresh
<1> HIDE DEF f
<1>3. f[k] = After(t, f[k - 1], k)
  BY <1>1
<1>4. QED
  BY <1>2, <1>3

(* The part of a row that scoring looks at.                                *)
IdealType(s, t) ==
    /\ s.hits \in Nat /\ s.hits <= Len(Targets(t))
    /\ s.fillAt \in 0..MaxCandle

(* Scoring a candle gives such a part again.                               *)
LEMMA VerdictShape ==
    ASSUME TypeOK, NEW t \in Trades, NEW s, IdealType(s, t), NEW k \in 0..MaxCandle, NEW c
    PROVE  IdealType(Verdict(t, s, k, c), t)
<1> DEFINE hits == HitsBy(t, s.hits, c)
<1>1. hits \in Nat /\ hits <= Len(Targets(t))
  BY HitsType DEF IdealType
<1>2. \E end, n, f : /\ Verdict(t, s, k, c) = [end |-> end, hits |-> n, fillAt |-> f]
                     /\ n \in {s.hits, hits}
                     /\ f \in {s.fillAt, k, None}
  BY DEF Verdict
<1> HIDE DEF hits
<1>3. QED
  BY <1>1, <1>2, BoundAssumption DEF IdealType, None

(* So does a step of the reference,                                        *)
LEMMA AfterType ==
    ASSUME TypeOK, NEW t \in Trades, NEW s, NEW k \in 0..MaxCandle, k > opened[t] => IdealType(s, t)
    PROVE  IdealType(After(t, s, k), t)
<1>1. CASE k <= opened[t]
  <2>1. opened[t] \in 0..MaxCandle /\ Len(Targets(t)) \in Nat
    BY TargetsType DEF TypeOK
  <2>2. After(t, s, k) = Fresh(t)
    BY <1>1 DEF After
  <2>3. QED
    BY <2>1, <2>2, BoundAssumption DEF Fresh, IdealType, None
<1>2. CASE k > opened[t]
  <2>1. After(t, s, k) = s \/ After(t, s, k) = Verdict(t, s, k, candle[CoinOf(t)][k])
    <3>1. ~(k <= opened[t])
      BY <1>2, BoundAssumption DEF TypeOK
    <3>2. QED
      BY <3>1 DEF After
  <2>2. QED
    BY <1>2, <2>1, VerdictShape
<1>3. QED
  <2>1. k \in Nat /\ opened[t] \in Nat
    BY BoundAssumption DEF TypeOK
  <2>2. QED
    BY <1>1, <1>2, <2>1

(* and the reference has the type of a row.                                *)
LEMMA IdealRow ==
    TypeOK => \A t \in Trades : \A k \in 0..MaxCandle : IdealType(Ideal(t, k), t)
<1> SUFFICES ASSUME TypeOK, NEW t \in Trades PROVE \A k \in 0..MaxCandle : IdealType(Ideal(t, k), t)
  OBVIOUS
<1> DEFINE Bad == {k \in 0..MaxCandle : ~IdealType(Ideal(t, k), t)}
<1>1. opened[t] \in Nat /\ MaxCandle \in Nat
  BY BoundAssumption DEF TypeOK
<1>2. ASSUME NEW k \in 0..MaxCandle, k > 0 => k - 1 \notin Bad PROVE k \notin Bad
  <2>1. k > opened[t] => IdealType(Ideal(t, k - 1), t)
    BY <1>1, <1>2
  <2>2. Ideal(t, k) = After(t, Ideal(t, k - 1), k)
    BY IdealUnfold DEF StepByStep
  <2>3. QED
    BY <2>1, <2>2, AfterType
<1>3. Bad = {}
  <2> SUFFICES ASSUME Bad # {} PROVE FALSE
    OBVIOUS
  <2>1. Bad \in SUBSET Nat /\ Bad \in SUBSET (0..MaxCandle)
    BY <1>1
  <2> HIDE DEF Bad
  <2>2. PICK k \in Bad : \A m \in Bad : k <= m
    BY <2>1, LeastExists
  <2>3. k \in 0..MaxCandle /\ (k > 0 => k - 1 \notin Bad)
    BY <2>1, <2>2
  <2>4. QED
    BY <1>2, <2>2, <2>3
<1>4. QED
  BY <1>3

(* It depends on the candles up to its own and on when the trade was       *)
(* posted, and on nothing else.                                            *)
LEMMA IdealFrozen ==
    ASSUME TypeOK, TypeOK', NEW t \in Trades, opened'[t] = opened[t], NEW n \in 0..MaxCandle,
           \A k \in 1..n : candle'[CoinOf(t)][k] = candle[CoinOf(t)][k]
    PROVE  Ideal(t, n)' = Ideal(t, n)
<1> DEFINE Bad == {k \in 0..n : ~(Ideal(t, k)' = Ideal(t, k))}
<1>1. opened[t] \in Nat /\ MaxCandle \in Nat /\ n \in Nat /\ n <= MaxCandle
  BY BoundAssumption DEF TypeOK
<1>2. \A k \in 0..MaxCandle : /\ Ideal(t, k) = After(t, Ideal(t, k - 1), k)
                              /\ Ideal(t, k)' = After(t, Ideal(t, k - 1), k)'
  <2>1. StepByStep /\ StepByStep'
    BY IdealUnfold, PTL
  <2>2. QED
    BY <2>1 DEF StepByStep
<1>3. ASSUME NEW s, NEW k \in 1..n
      PROVE  Verdict(t, s, k, candle[CoinOf(t)][k])' = Verdict(t, s, k, candle[CoinOf(t)][k])
  <2>1. PastExpiry(t, k)' = PastExpiry(t, k)
    BY DEF PastExpiry
  <2>2. QED
    BY <1>3, <2>1 DEF Verdict, CoinOf
<1>4. ASSUME NEW k \in 0..n, k > 0 => k - 1 \notin Bad PROVE k \notin Bad
  <2>1. CASE k <= opened[t]
    <3>1. Ideal(t, k) = Fresh(t) /\ Ideal(t, k)' = Fresh(t)'
      BY <1>1, <1>2, <2>1 DEF After
    <3>2. QED
      BY <3>1 DEF Fresh
  <2>2. CASE ~(k <= opened[t])
    <3>1. k \in 1..n /\ k - 1 \in 0..n /\ k \in 0..MaxCandle
      BY <1>1, <2>2
    <3>2. Ideal(t, k - 1)' = Ideal(t, k - 1)
      BY <1>4, <3>1
    <3>3. QED
      BY <1>2, <1>3, <2>2, <3>1, <3>2 DEF After
  <2>3. QED
    BY <2>1, <2>2
<1>5. Bad = {}
  <2> SUFFICES ASSUME Bad # {} PROVE FALSE
    OBVIOUS
  <2>1. Bad \in SUBSET Nat /\ Bad \in SUBSET (0..n)
    BY <1>1
  <2> HIDE DEF Bad
  <2>2. PICK k \in Bad : \A m \in Bad : k <= m
    BY <2>1, LeastExists
  <2>3. k \in 0..n /\ (k > 0 => k - 1 \notin Bad)
    BY <1>1, <2>1, <2>2
  <2>4. QED
    BY <1>4, <2>2, <2>3
<1>6. n \in 0..n
  BY <1>1
<1>7. QED
  BY <1>5, <1>6
-----------------------------------------------------------------------------
(* A trade that is ahead of another stays ahead.                           *)

(* The stop only moves in the trade's favour: the stop, the entry and the  *)
(* targets lie in this order, as calculate_smart_targets and               *)
(* select_zone_targets arrange them.                                       *)
Laddered(t) ==
    \A m, n \in 0..Len(Targets(t)) :
        m <= n => IF Setup[t].long THEN Stop(t, m) <= Stop(t, n) ELSE Stop(t, n) <= Stop(t, m)

(* What NoHitLost asks of a row s and the reference i.                     *)
Ahead(s, i) == i.end = "none" /\ i.hits <= s.hits /\ (i.fillAt # None => s.fillAt # None)

(* A stop is a price.                                                      *)
LEMMA StopType ==
    ASSUME NEW t \in Trades, NEW n \in 0..Len(Targets(t))
    PROVE  Stop(t, n) \in Int
<1>1. /\ Setup[t].stop \in Int /\ Setup[t].entry \in Int /\ Targets(t) \in Seq(Int)
      /\ Len(Targets(t)) \in Nat
  BY SetupAssumption, TradesAssumption, TargetsType DEF Targets
<1>2. n >= 2 => n - 1 \in 1..Len(Targets(t))
  BY <1>1
<1>3. n >= 2 => Targets(t)[n - 1] \in Int
  BY <1>1, <1>2
<1>4. QED
  BY <1>1, <1>3 DEF Stop

(* Whoever has counted more targets before a candle has so after it.       *)
LEMMA HitsMonotone ==
    ASSUME NEW t \in Trades, NEW c, NEW a \in Nat, NEW b \in Nat, a <= b, b <= Len(Targets(t))
    PROVE  a <= HitsBy(t, a, c) /\ HitsBy(t, a, c) <= HitsBy(t, b, c)
<1> DEFINE last == Len(Targets(t))
           RunOf(n) == {m \in n + 1 .. last : \A i \in n + 1 .. m : Above(t, c, Targets(t)[i])}
<1>1. last \in Nat /\ a <= last
  BY TargetsType
<1>2. HitsBy(t, a, c) = a + Cardinality(RunOf(a)) /\ HitsBy(t, b, c) = b + Cardinality(RunOf(b))
  BY DEF HitsBy
<1>3. ASSUME NEW m \in RunOf(a), m > b PROVE m \in RunOf(b)
  <2>1. m \in a + 1 .. last /\ \A i \in a + 1 .. m : Above(t, c, Targets(t)[i])
    BY <1>3
  <2>2. m \in b + 1 .. last /\ \A i \in b + 1 .. m : i \in a + 1 .. m
    BY <1>1, <1>3, <2>1
  <2>3. QED
    BY <2>1, <2>2
<1>4. RunOf(a) \in SUBSET (a + 1 .. last) /\ RunOf(b) \in SUBSET (b + 1 .. last)
  OBVIOUS
<1> HIDE DEF last, RunOf
<1>5. RunOf(a) \in SUBSET ((a + 1 .. b) \cup RunOf(b))
  BY <1>1, <1>3, <1>4
<1>6. /\ IsFiniteSet(a + 1 .. b) /\ Cardinality(a + 1 .. b) = b - a
      /\ IsFiniteSet(a + 1 .. last) /\ IsFiniteSet(b + 1 .. last)
  BY <1>1, IntervalSize DEF last
<1>7. IsFiniteSet(RunOf(a)) /\ IsFiniteSet(RunOf(b))
  BY <1>4, <1>6, FS_Subset
<1>8. Cardinality(RunOf(a)) \in Nat /\ Cardinality(RunOf(b)) \in Nat
  BY <1>7, FS_CardinalityType
<1>9. Cardinality(RunOf(a)) <= (b - a) + Cardinality(RunOf(b))
  <2> DEFINE U == (a + 1 .. b) \cup RunOf(b)
             I == (a + 1 .. b) \cap RunOf(b)
  <2>1. IsFiniteSet(U) /\ Cardinality(U) = Cardinality(a + 1 .. b) + Cardinality(RunOf(b)) - Cardinality(I)
    BY <1>6, <1>7, FS_Union
  <2>2. Cardinality(I) \in Nat
    <3>1. IsFiniteSet(I)
      BY <1>7, FS_Intersection
    <3>2. QED
      BY <3>1, FS_CardinalityType
  <2>3. Cardinality(RunOf(a)) <= Cardinality(U)
    BY <1>5, <2>1, FS_Subset
  <2> HIDE DEF U, I
  <2>4. Cardinality(U) \in Int /\ Cardinality(U) <= (b - a) + Cardinality(RunOf(b))
    BY <1>6, <1>8, <2>1, <2>2
  <2>5. QED
    BY <1>8, <2>3, <2>4
<1>10. QED
  BY <1>2, <1>8, <1>9

(* A filled trade that is not stopped ends with its last target.           *)
Scored(n, last, f) == [end |-> IF n = last THEN "ALL TARGETS HIT" ELSE "none", hits |-> n, fillAt |-> f]

(* More targets and no last one: ahead, and neither has ended.             *)
LEMMA ScoredAhead ==
    ASSUME NEW m \in Nat, NEW n \in Nat, NEW last \in Nat, m <= n, n <= last, NEW f, NEW g,
           g # None => f # None, Scored(n, last, f).end = "none"
    PROVE  Ahead(Scored(n, last, f), Scored(m, last, g))
<1>1. n # last
  BY DEF Scored
<1>2. m # last
  BY <1>1
<1>3. QED
  BY <1>2 DEF Scored, Ahead

(* Who is ahead before a candle and does not end in it is ahead after it.  *)
LEMMA StaysAhead ==
    ASSUME TypeOK, NEW t \in Trades, Setup[t].legacy \/ Laddered(t), NEW k \in 1..MaxCandle,
           NEW c \in [low : Levels, high : Levels, close : Levels],
           NEW s, IdealType(s, t), NEW i, IdealType(i, t), Ahead(s, i), Verdict(t, s, k, c).end = "none"
    PROVE  Ahead(Verdict(t, s, k, c), Verdict(t, i, k, c))
<1> DEFINE touched == Below(t, c, Setup[t].entry)
<1>1. /\ k # None /\ s.hits \in Nat /\ i.hits \in Nat /\ i.hits <= s.hits
      /\ s.hits \in 0..Len(Targets(t)) /\ i.hits \in 0..Len(Targets(t)) /\ Len(Targets(t)) \in Nat
      /\ i.fillAt # None => s.fillAt # None
  BY TargetsType, BoundAssumption DEF None, Ahead, IdealType
<1>2. /\ HitsBy(t, i.hits, c) \in Nat /\ HitsBy(t, s.hits, c) \in Nat
      /\ HitsBy(t, i.hits, c) <= HitsBy(t, s.hits, c) /\ s.hits <= HitsBy(t, s.hits, c)
      /\ HitsBy(t, i.hits, c) <= Len(Targets(t)) /\ HitsBy(t, s.hits, c) <= Len(Targets(t))
  BY <1>1, HitsType, HitsMonotone DEF IdealType
<1>3. ~PastExpiry(t, k)
  <2> SUFFICES ASSUME PastExpiry(t, k) PROVE FALSE
    OBVIOUS
  <2>1. Verdict(t, s, k, c).end = IF s.fillAt # None THEN "HORIZON_TIMEOUT" ELSE "ENTRY_NOT_FILLED"
    BY DEF Verdict
  <2>2. QED
    BY <2>1
<1>4. CASE i.fillAt = None /\ ~touched
  <2>1. Verdict(t, i, k, c) = [end |-> "none", hits |-> i.hits, fillAt |-> None]
    BY <1>3, <1>4 DEF Verdict
  <2>2. Verdict(t, s, k, c).hits \in {s.hits, HitsBy(t, s.hits, c)}
    BY DEF Verdict
  <2>3. i.hits <= Verdict(t, s, k, c).hits
    BY <1>1, <1>2, <2>2
  <2>4. QED
    BY <2>1, <2>3 DEF Ahead
<1>5. CASE ~(i.fillAt = None /\ ~touched)
  <2>1. s.fillAt # None \/ touched
    BY <1>1, <1>5
  <2>2. CASE Setup[t].legacy
    <3>1. Verdict(t, s, k, c) = [end |-> IF LegacyEnds(t, c) THEN "LEGACY" ELSE "none", hits |-> s.hits,
                              fillAt |-> IF s.fillAt # None THEN s.fillAt ELSE k]
      BY <1>3, <2>1, <2>2 DEF Verdict
    <3>2. Verdict(t, i, k, c) = [end |-> IF LegacyEnds(t, c) THEN "LEGACY" ELSE "none", hits |-> i.hits,
                              fillAt |-> IF i.fillAt # None THEN i.fillAt ELSE k]
      BY <1>3, <1>5, <2>2 DEF Verdict
    <3>3. QED
      BY <1>1, <3>1, <3>2 DEF Ahead
  <2>3. CASE ~Setup[t].legacy
    <3>1. ~Below(t, c, Stop(t, s.hits))
      <4>1. Below(t, c, Stop(t, s.hits)) => Verdict(t, s, k, c).end = "SL hit"
        BY <1>3, <2>1, <2>3 DEF Verdict
      <4>2. QED
        BY <4>1
    <3>2. ~Below(t, c, Stop(t, i.hits))
      <4>1. Stop(t, i.hits) \in Int /\ Stop(t, s.hits) \in Int
        BY <1>1, StopType
      <4>2. c.low \in Int /\ c.high \in Int
        BY TradesAssumption
      <4>3. IF Setup[t].long THEN Stop(t, i.hits) <= Stop(t, s.hits) ELSE Stop(t, s.hits) <= Stop(t, i.hits)
        BY <1>1, <2>3 DEF Laddered
      <4>4. QED
        BY <3>1, <4>1, <4>2, <4>3 DEF Below
    <3>3. CASE i.fillAt = None
      <4>1. Verdict(t, i, k, c) = [end |-> "none", hits |-> i.hits, fillAt |-> k]
        BY <1>3, <1>5, <2>3, <3>2, <3>3 DEF Verdict
      <4>2. Verdict(t, s, k, c).hits \in {s.hits, HitsBy(t, s.hits, c)}
        BY DEF Verdict
      <4>3. Verdict(t, s, k, c).fillAt = IF s.fillAt # None THEN s.fillAt ELSE k
        BY <1>3, <2>1, <2>3, <3>1 DEF Verdict
      <4>4. i.hits <= Verdict(t, s, k, c).hits
        BY <1>1, <1>2, <4>2
      <4>5. QED
        BY <1>1, <4>1, <4>3, <4>4 DEF Ahead
    <3>4. CASE i.fillAt # None
      <4>1. Verdict(t, s, k, c) = Scored(HitsBy(t, s.hits, c), Len(Targets(t)), s.fillAt)
        BY <1>1, <1>3, <2>3, <3>1, <3>4 DEF Verdict, Scored
      <4>2. Verdict(t, i, k, c) = Scored(HitsBy(t, i.hits, c), Len(Targets(t)), i.fillAt)
        BY <1>3, <2>3, <3>2, <3>4 DEF Verdict, Scored
      <4>3. Scored(HitsBy(t, s.hits, c), Len(Targets(t)), s.fillAt).end = "none"
        BY <4>1
      <4>4. QED
        BY <1>1, <1>2, <4>1, <4>2, <4>3, ScoredAhead
    <3>5. QED
      BY <3>3, <3>4
  <2>4. QED
    BY <2>2, <2>3
<1>6. QED
  BY <1>4, <1>5
-----------------------------------------------------------------------------
(* What the monitor vouches for.                                           *)

(* u is what more candles may have made of s.                              *)
Grown(s, u) == s.hits <= u.hits /\ (s.fillAt # None => u.fillAt # None)

(* Being ahead is not lost by growing,                                     *)
LEMMA AheadGrown ==
    ASSUME NEW s, NEW u, NEW i, s.hits \in Nat, u.hits \in Nat, i.hits \in Nat, Grown(s, u), Ahead(s, i)
    PROVE  Ahead(u, i)
BY DEF Grown, Ahead

(* and scoring only lets a row grow.                                       *)
LEMMA VerdictGrows ==
    ASSUME TypeOK, NEW t \in Trades, NEW s, IdealType(s, t), NEW k \in 1..MaxCandle, NEW c
    PROVE  Grown(s, Verdict(t, s, k, c))
<1> DEFINE hits == HitsBy(t, s.hits, c)
<1>1. k # None /\ s.hits \in Nat /\ hits \in Nat /\ s.hits <= hits
  BY HitsType, HitsMonotone, BoundAssumption DEF IdealType, None
<1>2. \E end, n, f : /\ Verdict(t, s, k, c) = [end |-> end, hits |-> n, fillAt |-> f]
                     /\ n \in {s.hits, hits}
                     /\ f \in {s.fillAt, k, None} /\ (s.fillAt # None => f # None)
  BY <1>1 DEF Verdict
<1> HIDE DEF hits
<1>3. QED
  BY <1>1, <1>2 DEF Grown

(* Who is ahead of the reference was ahead of it before.                   *)
LEMMA IdealGrows ==
    ASSUME TypeOK, NEW t \in Trades, NEW k \in 1..MaxCandle, Ideal(t, k).end = "none"
    PROVE  Ideal(t, k - 1).end = "none" /\ Grown(Ideal(t, k - 1), Ideal(t, k))
<1>1. k \in 0..MaxCandle /\ k - 1 \in 0..MaxCandle /\ opened[t] \in Nat /\ k \in Nat
  BY BoundAssumption DEF TypeOK
<1>2. /\ Ideal(t, k) = After(t, Ideal(t, k - 1), k)
      /\ Ideal(t, k - 1) = After(t, Ideal(t, (k - 1) - 1), k - 1)
  BY <1>1, IdealUnfold DEF StepByStep
<1>3. CASE k <= opened[t]
  <2>1. Ideal(t, k) = Fresh(t) /\ Ideal(t, k - 1) = Fresh(t)
    BY <1>1, <1>2, <1>3 DEF After
  <2>2. QED
    BY <2>1 DEF Fresh, Grown
<1>4. CASE ~(k <= opened[t])
  <2>1. Ideal(t, k - 1).end = "none"
    BY <1>2, <1>4 DEF After
  <2>2. Ideal(t, k) = Verdict(t, Ideal(t, k - 1), k, candle[CoinOf(t)][k])
    BY <1>2, <1>4, <2>1 DEF After
  <2>3. IdealType(Ideal(t, k - 1), t)
    BY <1>1, IdealRow
  <2>4. QED
    BY <2>1, <2>2, <2>3, VerdictGrows
<1>5. QED
  BY <1>3, <1>4

(* And so for every earlier candle.                                        *)
LEMMA AheadBefore ==
    ASSUME TypeOK, NEW t \in Trades, NEW s, s.hits \in Nat, NEW k \in 0..MaxCandle, Ahead(s, Ideal(t, k)),
           NEW j \in 0..k
    PROVE  Ahead(s, Ideal(t, j))
<1> DEFINE Bad == {d \in 0..k : ~Ahead(s, Ideal(t, k - d))}
<1>1. k \in Nat /\ MaxCandle \in Nat /\ k <= MaxCandle
  BY BoundAssumption
<1>2. ASSUME NEW d \in 0..k, d > 0 => d - 1 \notin Bad PROVE d \notin Bad
  <2>1. CASE d = 0
    BY <1>1, <2>1
  <2>2. CASE d > 0
    <3>1. Ahead(s, Ideal(t, k - (d - 1))) /\ k - (d - 1) \in 1..MaxCandle
      BY <1>1, <1>2, <2>2
    <3> DEFINE m == k - (d - 1)
    <3>2. m - 1 = k - d /\ m \in 1..MaxCandle /\ m \in 0..MaxCandle /\ m - 1 \in 0..MaxCandle
      BY <1>1, <3>1
    <3>3. Ideal(t, m).end = "none"
      BY <3>1 DEF Ahead
    <3> HIDE DEF m
    <3>4. Ideal(t, m - 1).end = "none" /\ Grown(Ideal(t, m - 1), Ideal(t, m))
      BY <3>2, <3>3, IdealGrows
    <3>5. Ideal(t, m).hits \in Nat /\ Ideal(t, m - 1).hits \in Nat
      BY <3>2, IdealRow DEF IdealType
    <3>6. Ahead(s, Ideal(t, m))
      BY <3>1 DEF m
    <3>7. Ahead(s, Ideal(t, m - 1))
      BY <3>4, <3>5, <3>6 DEF Ahead, Grown
    <3>8. QED
      BY <3>2, <3>7
  <2>3. QED
    BY <1>1, <2>1, <2>2
<1>3. Bad = {}
  <2> SUFFICES ASSUME Bad # {} PROVE FALSE
    OBVIOUS
  <2>1. Bad \in SUBSET Nat /\ Bad \in SUBSET (0..k)
    BY <1>1
  <2> HIDE DEF Bad
  <2>2. PICK d \in Bad : \A m \in Bad : d <= m
    BY <2>1, LeastExists
  <2>3. d \in 0..k /\ (d > 0 => d - 1 \notin Bad)
    BY <1>1, <2>1, <2>2
  <2>4. QED
    BY <1>2, <2>2, <2>3
<1>4. k - j \in 0..k /\ k - (k - j) = j
  BY <1>1
<1>5. QED
  BY <1>3, <1>4

(* A row is ahead of the reference up to the candle it was posted in, and  *)
(* stays ahead when it is scored on the next candle.                       *)
LEMMA FreshAhead ==
    ASSUME TypeOK, NEW t \in Trades, NEW s, s.hits \in Nat, ~Setup[t].limit => s.fillAt # None,
           NEW k \in 0..MaxCandle, k <= opened[t]
    PROVE  Ahead(s, Ideal(t, k))
<1>1. Ideal(t, k) = Fresh(t)
  BY IdealUnfold DEF StepByStep, After
<1>2. QED
  BY <1>1 DEF Fresh, Ahead

(* The step of one candle.                                                 *)
LEMMA NextAhead ==
    ASSUME TypeOK, NEW t \in Trades, Setup[t].legacy \/ Laddered(t), NEW k \in 1..MaxCandle,
           NEW s, IdealType(s, t), ~Setup[t].limit => s.fillAt # None,
           Ahead(s, Ideal(t, k - 1)), NEW c, c = candle[CoinOf(t)][k], Verdict(t, s, k, c).end = "none"
    PROVE  Ahead(Verdict(t, s, k, c), Ideal(t, k))
<1>1. k \in 0..MaxCandle /\ k - 1 \in 0..MaxCandle
  BY BoundAssumption
<1>2. IdealType(Ideal(t, k - 1), t) /\ Ideal(t, k) = After(t, Ideal(t, k - 1), k)
  BY <1>1, IdealRow, IdealUnfold DEF StepByStep
<1>3. CASE k <= opened[t]
  <2>1. Grown(s, Verdict(t, s, k, c)) /\ IdealType(Verdict(t, s, k, c), t)
    BY <1>1, VerdictGrows, VerdictShape
  <2>2. QED
    BY <1>1, <1>3, <2>1, FreshAhead DEF Grown, IdealType
<1>4. CASE ~(k <= opened[t])
  <2>1. Ideal(t, k) = Verdict(t, Ideal(t, k - 1), k, c)
    BY <1>2, <1>4 DEF After, Ahead
  <2>2. QED
    <3>1. CoinOf(t) \in Coins /\ c \in [low : Levels, high : Levels, close : Levels]
      BY CoinType DEF TypeOK, Series
    <3>2. QED
      BY <1>2, <2>1, <3>1, StaysAhead
<1>5. QED
  BY <1>3, <1>4

(* Candles before the forming one do not change any more.                  *)
LEMMA PastFrozen ==
    ASSUME IInv, [Next]_vars, NEW t \in Trades, opened'[t] = opened[t], NEW k \in 0..MaxCandle, k < now
    PROVE  Ideal(t, k)' = Ideal(t, k)
<1>1. TypeOK /\ TypeOK'
  BY StepHolds DEF IInv
<1>2. CoinOf(t) \in Coins /\ now \in 1..MaxCandle /\ MaxCandle \in Nat
  BY <1>1, SetupAssumption, BoundAssumption DEF CoinOf, TypeOK
<1>3. \A j \in 1..k : candle'[CoinOf(t)][j] = candle[CoinOf(t)][j]
  <2>1. ASSUME NEW c \in Coins, Tick(c) PROVE <1>3
    <3>1. PICK p \in Levels :
              candle' = [candle EXCEPT ![c][now] = [low |-> Min2(@.low, p), high |-> Max2(@.high, p), close |-> p]]
      BY <2>1 DEF Tick
    <3>2. \A j \in 1..k : j \in 1..MaxCandle /\ j # now
      BY <1>2
    <3>3. QED
      BY <1>1, <1>2, <3>1, <3>2 DEF TypeOK, Series
  <2>2. CASE NextCandle
    <3>1. \A j \in 1..k : j \in 1..MaxCandle /\ ~(j > now)
      BY <1>2
    <3>2. QED
      BY <1>2, <2>2, <3>1 DEF NextCandle
  <2>3. CASE candle' = candle
    BY <2>3
  <2>4. QED
    BY <2>1, <2>2, <2>3
       DEF Next, Pass, Fault, Environment, vars, market, Start, Poll, Read, ReadCoins, ReadError, Take, ScoreCandle,
           EndPass, PassError, Crash, Loses, Stores, StreamBack, Freshness, CatchUp, Post, MoverReads, MoverWrites
<1>4. QED
  BY <1>1, <1>3, IdealFrozen
-----------------------------------------------------------------------------
(* What is known of the tables, and how far back the memory reaches.        *)

(* Outside a pass the transaction is empty, and a market order is filled    *)
(* from the start.                                                          *)
Tables ==
    /\ pc # "score" => work = row
    /\ \A t \in Trades : opened[t] # None /\ ~Setup[t].limit => row[t].fillAt # None /\ work[t].fillAt # None

(* A stream that is up has delivered the forming candle; what is stored of  *)
(* a coin that is not late is whole up to its newest candle.                *)
Streams ==
    \A c \in Coins : /\ c \notin lost => now \in stored[c] /\ db[c][now] = candle[c][now]
                     /\ c \notin late => ~Ragged(c)

Dates ==
    /\ file <= now /\ catchupFrom <= now /\ began <= now
    /\ \A t \in Trades : lastChecked[t] <= Newest(CoinOf(t))

(* A pass reads its candles at most one candle after its trades; a trade    *)
(* it does not know was posted since.                                       *)
Passing ==
    pc \in {"read", "score"} =>
        /\ began >= now - 1 /\ (polled => began = now)
        /\ \A t \in Trades : Here(t) /\ t \notin active => opened[t] >= began /\ lastChecked[t] = None

(* A pass scores all that is to score of a coin that is not stale.          *)
Done ==
    pc = "score" =>
        \A t \in active \ todo :
            work[t].here /\ t # cur /\ ~Stale(CoinOf(t)) =>
                lastChecked[t] = Newest(CoinOf(t)) \/ First(t) > Newest(CoinOf(t))

(* Without a catch-up, a trade without a watermark is new, or late.         *)
NewOnes ==
    ~abandoned /\ pc # "down" /\ catchupFrom = None =>
        \A t \in Trades :
            work[t].here /\ lastChecked[t] = None /\ t # cur /\ CoinOf(t) \notin late =>
                opened[t] = now \/ (opened[t] = now - 1 /\ ~polled /\ ~Stale(CoinOf(t)))

(* What promises that the candles up to k count for trade t: its watermark, *)
(* the candle in hand, the state file, the start of the catch-up.           *)
Filed(k) == file = k + Overlap
Vouched(t, k) ==
    \/ t # cur /\ lastChecked[t] = k + 1
    \/ t = cur /\ at = k + 1
    \/ Filed(k)
    \/ pc # "down" /\ catchupFrom = k + 1 /\ lastChecked[t] = None /\ t # cur

(* And every promise is kept, in the transaction and, for what a restart    *)
(* goes by, in the committed table.                                         *)
Kept ==
    ~abandoned =>
        \A t \in Trades : CoinOf(t) \notin late => \A k \in 0..MaxCandle :
            /\ Vouched(t, k) /\ work[t].here => Ahead(work[t], Ideal(t, k))
            /\ Filed(k) /\ row[t].here => Ahead(row[t], Ideal(t, k))

HitInv == Tables /\ Streams /\ Dates /\ Passing /\ Done /\ NewOnes /\ Kept
-----------------------------------------------------------------------------
(* At first nothing is promised.                                            *)
LEMMA HitInit == Init => HitInv
<1> SUFFICES ASSUME Init PROVE HitInv
  OBVIOUS
<1>0. IInv /\ Maxima
  BY InitHolds, NewestIs DEF IInv
<1> USE BoundAssumption, TradesAssumption DEF None, NoTrade
<1>1. /\ work = row /\ pc = "down" /\ now = 1 /\ file \in {0, 1} /\ catchupFrom = None /\ began = None
      /\ \A c \in Coins : stored[c] = {now} /\ db = candle
      /\ \A t \in Trades : ~row[t].here /\ ~work[t].here /\ opened[t] = None /\ lastChecked[t] = None
  BY DEF Init
<1>2. \A c \in Coins : Newest(c) = now
  BY <1>0, <1>1 DEF Maxima
<1>3. Streams
  BY <1>1, <1>2 DEF Streams, Ragged
<1>4. Tables /\ Dates /\ Passing /\ Done /\ NewOnes /\ Kept
  BY <1>1, <1>2, CoinType DEF Tables, Dates, Passing, Done, NewOnes, Kept
<1>5. QED
  BY <1>3, <1>4 DEF HitInv

(* Coins do not stop being late, and only writers and new candles bring     *)
(* newer ones.                                                              *)
LEMMA Ageing ==
    ASSUME IInv, [Next]_vars
    PROVE  /\ late \subseteq late' /\ now' \in {now, now + 1}
           /\ MarketActs \/ UNCHANGED market
           /\ \A c \in Coins : Newest(c) <= Newest(c)'
           /\ \A c \in Coins : now' = now /\ ~Stale(c) => ~Stale(c)'
<1> USE BoundAssumption
<1>1. MarketActs \/ (UNCHANGED market /\ late \subseteq late')
  BY DEF MarketActs, Next, Pass, Fault, Environment, vars, market, history, Start, Poll, Read, ReadCoins, ReadError,
         Take, ScoreCandle, EndPass, PassError, Crash, Post, MoverReads, MoverWrites
<1>2. now \in Nat /\ now' \in {now, now + 1} /\ late \subseteq late' /\ \A d \in Coins : stored[d] \subseteq stored'[d]
  BY <1>1, MarketType DEF market, IInv, TypeOK
<1>3. Maxima /\ Maxima'
  <2>1. TypeOK /\ TypeOK'
    BY StepHolds DEF IInv
  <2>2. QED
    BY <2>1, NewestIs, PTL
<1>4. ASSUME NEW c \in Coins
      PROVE  Newest(c) <= Newest(c)' /\ (now' = now /\ ~Stale(c) => ~Stale(c)')
  <2>1. Newest(c) \in stored'[c] /\ Newest(c) \in Nat /\ Newest(c)' \in Nat
    BY <1>2, <1>3 DEF Maxima
  <2>2. Newest(c) <= Newest(c)'
    BY <1>3, <2>1 DEF Maxima
  <2>3. QED
    BY <1>2, <2>1, <2>2 DEF Stale
<1>5. QED
  BY <1>1, <1>2, <1>4

(* A coin whose stream is up is not stale.                                  *)
LEMMA UpToDate ==
    ASSUME TypeOK, Streams, NEW c \in Coins, c \notin lost
    PROVE  Newest(c) = now /\ ~Stale(c)
<1>1. Newest(c) = now /\ now \in Nat
  BY NewestIs, BoundAssumption DEF Streams, Maxima, TypeOK
<1>2. QED
  BY <1>1, BoundAssumption DEF Stale

(* The candles of a coin that is not late.                                  *)
LEMMA InOrder ==
    ASSUME TypeOK, Streams, NEW c \in Coins, c \notin late
    PROVE  /\ \A k \in 1..Newest(c) : k \in stored[c]
           /\ \A k \in 1..Newest(c) - 1 : db[c][k] = candle[c][k]
           /\ \A k \in 1..Newest(c) : StoredFrom(c, k) = k
<1>1. Newest(c) \in stored[c] /\ Newest(c) \in Nat /\ stored[c] \in SUBSET Nat /\ ~Ragged(c)
  BY NewestIs, BoundAssumption DEF Streams, Maxima, TypeOK
<1>2. /\ \A k \in 1..Newest(c) : k \in stored[c]
      /\ \A k \in 1..Newest(c) - 1 : db[c][k] = candle[c][k]
  BY <1>1 DEF Ragged
<1>3. ASSUME NEW k \in 1..Newest(c) PROVE StoredFrom(c, k) = k
  <2>1. k \in stored[c] /\ k \in Nat /\ k <= Newest(c)
    BY <1>1, <1>2
  <2>2. /\ StoredFrom(c, k) \in stored[c] /\ StoredFrom(c, k) >= k
        /\ \A i \in stored[c] : i >= k => StoredFrom(c, k) <= i
    BY <2>1, StoredFromIs
  <2>3. StoredFrom(c, k) \in Nat
    BY <1>1, <2>2
  <2>4. QED
    BY <2>1, <2>2, <2>3
<1>4. QED
  BY <1>2, <1>3
-----------------------------------------------------------------------------
(* What scoring a candle changes.                                           *)
LEMMA ScoreFrame ==
    ASSUME IInv, ScoreCandle
    PROVE  LET s == work[cur]
               c == CoinOf(cur)
               v == Verdict(cur, s, at, db[c][at])
           IN  /\ cur \in active /\ cur \in Trades /\ cur # NoTrade /\ opened[cur] # None
               /\ c \in Coins /\ at \in stored[c] /\ at \in 1..now /\ at <= Newest(c) /\ at # None
               /\ IdealType(s, cur) /\ IdealType(v, cur) /\ Grown(s, v)
               /\ work'[cur].here = (s.here /\ v.end = "none")
               /\ work'[cur].hits = v.hits /\ work'[cur].fillAt = v.fillAt
               /\ lastChecked'[cur] = IF v.end = "none" THEN at ELSE None
               /\ \/ cur' = NoTrade /\ at' = None /\ (v.end # "none" \/ at = Newest(c))
                  \/ cur' = cur /\ at' = StoredFrom(c, at + 1) /\ v.end = "none" /\ at # Newest(c)
               /\ row' \in {row, work'}
               /\ \A u \in Trades \ {cur} : work'[u] = work[u] /\ lastChecked'[u] = lastChecked[u]
               /\ UNCHANGED <<market, opened, moving, file, pc, catchupFrom, passes, active, todo, began, history, faults>>
<1> USE BoundAssumption, TradesAssumption DEF None, NoTrade
<1> DEFINE s == work[cur]
           c == CoinOf(cur)
           v == Verdict(cur, s, at, db[c][at])
           ended == v.end # "none"
           r == [here |-> s.here /\ ~ended, hits |-> v.hits, fillAt |-> v.fillAt,
                 booked |-> s.booked + Returned(s, ended), moved |-> s.moved]
<1>1. cur \in active /\ cur \in Trades /\ cur # NoTrade /\ opened[cur] # None /\ c \in Coins /\ at \in stored[c]
  BY CoinType DEF ScoreCandle, IInv, TypeOK, Dated
<1>2. at \in 1..now /\ at <= Newest(c) /\ at # None /\ at \in 1..MaxCandle /\ at \in 0..MaxCandle
  BY <1>1, NewestIs DEF IInv, Maxima, TypeOK
<1>3. IdealType(s, cur)
  BY <1>1 DEF IInv, TypeOK, Rows, IdealType
<1>4. IdealType(v, cur) /\ Grown(s, v)
  BY <1>1, <1>2, <1>3, VerdictShape, VerdictGrows DEF IInv
<1>5. /\ work' = [work EXCEPT ![cur] = r] /\ (row' = work' \/ row' = row)
      /\ lastChecked' = [lastChecked EXCEPT ![cur] = IF ended THEN None ELSE at]
      /\ \/ (ended \/ at = Newest(c)) /\ cur' = NoTrade /\ at' = None
         \/ ~ended /\ at # Newest(c) /\ at' = StoredFrom(c, at + 1) /\ cur' = cur
      /\ UNCHANGED <<market, opened, moving, file, pc, catchupFrom, passes, active, todo, began, history, faults>>
  BY DEF ScoreCandle
<1> HIDE DEF v
<1>6. r.here = (s.here /\ v.end = "none") /\ r.hits = v.hits /\ r.fillAt = v.fillAt
  OBVIOUS
<1> HIDE DEF r
<1>7. /\ work'[cur] = r /\ lastChecked'[cur] = IF ended THEN None ELSE at
      /\ \A u \in Trades \ {cur} : work'[u] = work[u] /\ lastChecked'[u] = lastChecked[u]
  BY <1>1, <1>5 DEF IInv, TypeOK
<1>8. /\ work'[cur].here = (s.here /\ v.end = "none")
      /\ work'[cur].hits = v.hits /\ work'[cur].fillAt = v.fillAt
      /\ lastChecked'[cur] = IF v.end = "none" THEN at ELSE None
      /\ \/ cur' = NoTrade /\ at' = None /\ (v.end # "none" \/ at = Newest(c))
         \/ cur' = cur /\ at' = StoredFrom(c, at + 1) /\ v.end = "none" /\ at # Newest(c)
      /\ row' \in {row, work'}
  BY <1>5, <1>6, <1>7
<1>9. QED
  BY <1>1, <1>2, <1>3, <1>4, <1>5, <1>7, <1>8 DEF v

(* What posting a trade changes.                                            *)
LEMMA PostFrame ==
    ASSUME IInv, NEW t \in Trades, Post(t)
    PROVE  /\ opened[t] = None /\ opened'[t] = now /\ lastChecked[t] = None /\ t \notin active /\ t # cur
           /\ row'[t].here /\ row'[t].hits = 0 /\ work'[t] = row'[t] /\ (~Setup[t].limit => row'[t].fillAt # None)
           /\ \A u \in Trades \ {t} : opened'[u] = opened[u] /\ work'[u] = work[u] /\ row'[u] = row[u]
           /\ (work = row => work' = row')
           /\ UNCHANGED <<market, moving, file, pc, memory, scoring, history, faults>>
<1> USE BoundAssumption, TradesAssumption DEF None, NoTrade
<1> DEFINE r == [here |-> TRUE, hits |-> 0, booked |-> 0, moved |-> 0,
                 fillAt |-> IF Setup[t].limit THEN None ELSE now]
<1>1. /\ opened[t] = None /\ opened' = [opened EXCEPT ![t] = now] /\ now # None
      /\ row' = [row EXCEPT ![t] = r] /\ work' = [work EXCEPT ![t] = row'[t]]
      /\ UNCHANGED <<market, moving, file, pc, memory, scoring, history, faults>>
  BY DEF Post, IInv, TypeOK
<1>2. r.here /\ r.hits = 0 /\ (~Setup[t].limit => r.fillAt # None)
  BY <1>1
<1> HIDE DEF r
<1>3. /\ row'[t] = r /\ work'[t] = r /\ opened'[t] = now
      /\ \A u \in Trades \ {t} : opened'[u] = opened[u] /\ work'[u] = work[u] /\ row'[u] = row[u]
  BY <1>1 DEF IInv, TypeOK
<1>4. lastChecked[t] = None /\ t \notin active /\ t # cur
  BY <1>1 DEF IInv, TypeOK, Dated
<1>5. work = row => work' = row'
  BY <1>1, <1>3 DEF IInv, TypeOK
<1>6. QED
  BY <1>1, <1>2, <1>3, <1>4, <1>5

(* What a mover changes.                                                    *)
LEMMA MoverFrame ==
    ASSUME IInv, NEW m \in Movers, NEW t \in Trades, MoverWrites(m, t)
    PROVE  /\ ~row'[t].here /\ ~work'[t].here /\ row'[t].fillAt = row[t].fillAt /\ work'[t].fillAt = work[t].fillAt
           /\ \A u \in Trades \ {t} : work'[u] = work[u] /\ row'[u] = row[u]
           /\ (work = row => work' = row')
           /\ UNCHANGED <<market, opened, file, pc, memory, scoring, history, faults>>
<1>1. /\ row' = [row EXCEPT ![t] = Moved(row[t])] /\ work' = [work EXCEPT ![t] = Moved(work[t])]
      /\ UNCHANGED <<market, opened, file, pc, memory, scoring, history, faults>>
  BY DEF MoverWrites
<1>2. row \in [Trades -> Rows] /\ work \in [Trades -> Rows]
  BY DEF IInv, TypeOK
<1>3. /\ Moved(row[t]).here = FALSE /\ Moved(row[t]).fillAt = row[t].fillAt
      /\ Moved(work[t]).here = FALSE /\ Moved(work[t]).fillAt = work[t].fillAt
  BY <1>2, MovedRow
<1>4. /\ row'[t] = Moved(row[t]) /\ work'[t] = Moved(work[t])
      /\ \A u \in Trades \ {t} : work'[u] = work[u] /\ row'[u] = row[u]
  BY <1>1, <1>2
<1>5. work = row => work' = row'
  BY <1>1
<1>6. QED
  BY <1>1, <1>3, <1>4, <1>5

(* The tables.                                                              *)
LEMMA TablesStep == ASSUME IInv, Tables, [Next]_vars PROVE Tables'
<1> USE BoundAssumption, TradesAssumption DEF None, NoTrade
<1>1. CASE ScoreCandle
  <2>1. /\ cur \in Trades /\ pc' = pc /\ pc = "score" /\ opened' = opened /\ row' \in {row, work'}
        /\ work[cur].fillAt # None => work'[cur].fillAt # None
        /\ \A u \in Trades \ {cur} : work'[u] = work[u]
    BY <1>1, ScoreFrame DEF ScoreCandle, Grown
  <2>2. QED
    BY <2>1 DEF Tables
<1>2. ASSUME NEW t \in Trades, Post(t) PROVE Tables'
  BY <1>2, PostFrame DEF Tables
<1>3. ASSUME NEW m \in Movers, NEW t \in Trades, MoverWrites(m, t) PROVE Tables'
  <2>1. /\ row'[t].fillAt = row[t].fillAt /\ work'[t].fillAt = work[t].fillAt /\ opened' = opened /\ pc' = pc
        /\ \A u \in Trades \ {t} : work'[u] = work[u] /\ row'[u] = row[u]
        /\ (work = row => work' = row')
    BY <1>3, MoverFrame
  <2>2. QED
    BY <2>1 DEF Tables
<1>4. CASE EndPass
  BY <1>4 DEF EndPass, Tables
<1>5. CASE PassError \/ Crash
  <2>1. row' \in {row, work} /\ work' = row' /\ opened' = opened
    BY <1>5 DEF PassError, Crash, ForgetPass
  <2>2. QED
    BY <2>1 DEF Tables
<1>6. CASE UNCHANGED <<row, work, opened>> /\ (pc = "score" => pc' = "score")
  BY <1>6 DEF Tables
<1>7. CASE Poll \/ Read \/ (\E c \in Coins : ReadError(c)) \/ Start \/ \E t \in Trades : Take(t)
  BY <1>6, <1>7 DEF Start, Poll, Read, ReadCoins, ReadError, Take, tables
<1>8. CASE MarketActs
  BY <1>6, <1>8, MarketFrame DEF tables
<1>9. CASE UNCHANGED vars \/ \E m \in Movers, t \in Trades : MoverReads(m, t)
  BY <1>6, <1>9 DEF vars, tables, MoverReads
<1>10. QED
  BY <1>1, <1>2, <1>3, <1>4, <1>5, <1>7, <1>8, <1>9 DEF Next, Pass, Fault, Environment, MarketActs

(* A writer leaves no gap behind in a coin it does not make late.           *)
LEMMA StreamsStores ==
    ASSUME IInv, Streams, NEW c \in Coins, NEW candles \in SUBSET (1..now), Stores(c, candles),
           lost' \subseteq lost, \A d \in Coins : d \in lost /\ d \notin lost' => d = c /\ now \in candles
    PROVE  Streams'
<1>1. /\ stored' = [stored EXCEPT ![c] = @ \cup candles] /\ UNCHANGED <<now, candle>>
      /\ db' = [db EXCEPT ![c] = [k \in 1..MaxCandle |-> IF k \in candles THEN candle[c][k] ELSE @[k]]]
      /\ late' = late \cup {d \in {c} : Ragged(d)'}
  BY DEF Stores
<1>2. /\ stored \in [Coins -> SUBSET (1..now)] /\ db \in [Coins -> Series] /\ now \in 1..MaxCandle
  BY BoundAssumption DEF IInv, TypeOK
<1>3. /\ stored'[c] = stored[c] \cup candles
      /\ \A k \in 1..MaxCandle : db'[c][k] = IF k \in candles THEN candle[c][k] ELSE db[c][k]
      /\ \A d \in Coins \ {c} : stored'[d] = stored[d] /\ db'[d] = db[d]
  BY <1>1, <1>2
<1>4. ASSUME NEW d \in Coins, d \notin lost' PROVE now' \in stored'[d] /\ db'[d][now'] = candle'[d][now']
  <2>1. CASE d \in lost
    BY <1>1, <1>2, <1>3, <1>4, <2>1
  <2>2. CASE d \notin lost
    <3>1. now \in stored[d] /\ db[d][now] = candle[d][now]
      BY <2>2 DEF Streams
    <3>2. QED
      BY <1>1, <1>2, <1>3, <3>1
  <2>3. QED
    BY <2>1, <2>2
<1>5. ASSUME NEW d \in Coins, d \notin late' PROVE ~Ragged(d)'
  <2>1. CASE d = c
    BY <1>1, <1>5, <2>1
  <2>2. CASE d # c
    <3>1. ~Ragged(d)
      BY <1>1, <1>5 DEF Streams
    <3>2. stored'[d] = stored[d] /\ db'[d] = db[d] /\ candle' = candle
      BY <1>1, <1>3, <2>2
    <3>3. Newest(d)' = Newest(d)
      BY <3>2 DEF Newest
    <3>4. QED
      BY <3>1, <3>2, <3>3 DEF Ragged
  <2>3. QED
    BY <2>1, <2>2
<1>6. QED
  BY <1>4, <1>5 DEF Streams

(* The market's steps: candles before the forming one are final, and the    *)
(* stream goes on where it is up.                                           *)
LEMMA StreamsStep == ASSUME IInv, Streams, [Next]_vars PROVE Streams'
<1> USE BoundAssumption
<1>1. /\ now \in 1..MaxCandle /\ now \in Nat /\ stored \in [Coins -> SUBSET (1..now)]
      /\ db \in [Coins -> Series] /\ candle \in [Coins -> Series]
      /\ \A d \in Coins : Newest(d) \in Nat /\ Newest(d) <= now /\ Newest(d) \in stored[d]
  BY NewestIs DEF IInv, TypeOK, Maxima
<1>2. CASE UNCHANGED market
  <2>1. late \subseteq late'
    BY Ageing
  <2>2. UNCHANGED <<now, candle, lost, stored, db>>
    BY <1>2 DEF market
  <2>3. \A c \in Coins : Ragged(c)' = Ragged(c)
    BY <2>2 DEF Ragged, Newest
  <2>4. QED
    BY <2>1, <2>2, <2>3 DEF Streams
<1>3. ASSUME NEW c \in Coins, Tick(c) PROVE Streams'
  <2>1. PICK p \in Levels :
            candle' = [candle EXCEPT ![c][now] = [low |-> Min2(@.low, p), high |-> Max2(@.high, p), close |-> p]]
    BY <1>3 DEF Tick
  <2>2. /\ UNCHANGED <<now, lost, stored, late>>
        /\ db' = IF c \in lost THEN db ELSE [db EXCEPT ![c][now] = candle'[c][now]]
    BY <1>3 DEF Tick, history
  <2>3. \A d \in Coins : \A k \in 1..MaxCandle :
            d # c \/ k # now => db'[d][k] = db[d][k] /\ candle'[d][k] = candle[d][k]
    BY <1>1, <2>1, <2>2 DEF Series
  <2>4. c \notin lost => db'[c][now] = candle'[c][now]
    BY <1>1, <2>2 DEF Series
  <2>5. ASSUME NEW d \in Coins, d \notin late PROVE ~Ragged(d)'
    <3>1. Newest(d)' = Newest(d) /\ stored' = stored
      BY <2>2 DEF Newest
    <3>2. \A k \in 1..Newest(d) - 1 : db'[d][k] = db[d][k] /\ candle'[d][k] = candle[d][k]
      BY <1>1, <2>3
    <3>3. QED
      BY <2>5, <3>1, <3>2 DEF Streams, Ragged
  <2>6. \A d \in Coins : d \notin lost => now \in stored[d] /\ db'[d][now] = candle'[d][now]
    BY <1>1, <2>3, <2>4 DEF Streams
  <2>7. QED
    BY <2>2, <2>5, <2>6 DEF Streams
<1>4. CASE NextCandle
  <2>1. /\ now < MaxCandle /\ now' = now + 1 /\ lost' = lost /\ late \subseteq late'
        /\ candle' = [c \in Coins |-> [k \in 1..MaxCandle |->
                         IF k > now THEN Flat(candle[c][now].close) ELSE candle[c][k]]]
        /\ stored' = [c \in Coins |-> IF c \in lost THEN stored[c] ELSE stored[c] \cup {now'}]
        /\ db' = [c \in Coins |-> [k \in 1..MaxCandle |->
                     IF c \notin lost /\ k = now' THEN candle'[c][k] ELSE db[c][k]]]
    BY <1>4 DEF NextCandle
  <2>2. ASSUME NEW d \in Coins PROVE \A k \in 1..now : db'[d][k] = db[d][k] /\ candle'[d][k] = candle[d][k]
    BY <1>1, <2>1
  <2>3. ASSUME NEW d \in Coins, d \notin lost
        PROVE  /\ now' \in stored'[d] /\ db'[d][now'] = candle'[d][now']
               /\ Newest(d)' = now' /\ Newest(d) = now
    <3>1. now' \in stored'[d] /\ now' \in 1..MaxCandle
      BY <1>1, <2>1, <2>3
    <3>2. db'[d][now'] = candle'[d][now']
      BY <2>1, <2>3, <3>1
    <3>3. Newest(d) = now
      BY <2>3, UpToDate DEF IInv
    <3>4. \A j \in stored'[d] : j <= now'
      BY <1>1, <2>1, <2>3
    <3>5. Newest(d)' = now'
      <4>1. TypeOK /\ TypeOK'
        BY StepHolds DEF IInv
      <4>2. Maxima'
        BY <4>1, NewestIs, PTL
      <4>3. QED
        BY <1>1, <2>1, <3>1, <3>4, <4>2 DEF Maxima
    <3>6. QED
      BY <3>1, <3>2, <3>3, <3>5
  <2>4. ASSUME NEW d \in Coins, d \notin late' PROVE ~Ragged(d)'
    <3>1. ~Ragged(d)
      BY <2>1, <2>4 DEF Streams
    <3>2. CASE d \in lost
      <4>1. stored'[d] = stored[d]
        BY <2>1, <3>2
      <4>2. Newest(d)' = Newest(d)
        BY <4>1 DEF Newest
      <4>3. \A k \in 1..Newest(d) - 1 : k \in 1..now
        BY <1>1
      <4>4. QED
        BY <2>2, <3>1, <4>1, <4>2, <4>3 DEF Ragged
    <3>3. CASE d \notin lost
      <4>1. Newest(d)' - 1 = now /\ Newest(d) = now /\ now \in stored[d] /\ db[d][now] = candle[d][now]
        <5>1. Newest(d)' = now + 1 /\ Newest(d) = now
          BY <2>1, <2>3, <3>3
        <5>2. now \in stored[d] /\ db[d][now] = candle[d][now]
          BY <3>3 DEF Streams
        <5>3. QED
          BY <1>1, <5>1, <5>2
      <4>2. \A k \in 1..now : k \in stored[d] /\ db[d][k] = candle[d][k]
        <5> SUFFICES ASSUME NEW k \in 1..now PROVE k \in stored[d] /\ db[d][k] = candle[d][k]
          OBVIOUS
        <5>1. CASE k = now
          BY <4>1, <5>1
        <5>2. CASE k # now
          <6>1. k \in 1..Newest(d) - 1
            BY <1>1, <4>1, <5>2
          <6>2. QED
            BY <3>1, <6>1 DEF Ragged
        <5>3. QED
          BY <5>1, <5>2
      <4>3. stored[d] \subseteq stored'[d]
        BY <2>1
      <4>4. QED
        BY <2>2, <4>1, <4>2, <4>3 DEF Ragged
    <3>4. QED
      BY <3>2, <3>3
  <2>5. QED
    BY <2>1, <2>3, <2>4 DEF Streams
<1>5. ASSUME NEW c \in Coins, Loses(c) PROVE Streams'
  <2>1. UNCHANGED <<now, candle, stored, db, late>> /\ lost' = lost \cup {c}
    BY <1>5 DEF Loses, history
  <2>2. \A d \in Coins : Ragged(d)' = Ragged(d)
    BY <2>1 DEF Ragged, Newest
  <2>3. QED
    BY <2>1, <2>2 DEF Streams
<1>6. ASSUME NEW c \in Coins, StreamBack(c) PROVE Streams'
  <2>1. {now} \in SUBSET (1..now) /\ Stores(c, {now}) /\ lost' = lost \ {c}
    BY <1>1, <1>6 DEF StreamBack
  <2>2. QED
    BY <2>1, StreamsStores
<1>7. ASSUME NEW c \in Coins, Freshness(c) \/ \E k \in 1..now : CatchUp(c, k) PROVE Streams'
  <2>1. PICK candles \in SUBSET (1..now) : Stores(c, candles)
    BY <1>7, StoresWhen DEF IInv
  <2>2. lost' = lost
    BY <1>7 DEF Freshness, CatchUp
  <2>3. QED
    BY <2>1, <2>2, StreamsStores
<1>8. CASE MarketActs
  BY <1>3, <1>4, <1>5, <1>6, <1>7, <1>8 DEF MarketActs
<1>9. QED
  BY <1>2, <1>8, Ageing

(* Nothing is dated in the future.                                          *)
LEMMA DatesStep == ASSUME IInv, Dates, [Next]_vars PROVE Dates'
<1> USE BoundAssumption, TradesAssumption DEF None, NoTrade
<1>1. /\ now \in Nat /\ file \in Nat /\ catchupFrom \in Nat /\ began \in Nat /\ now >= 1
      /\ lastChecked \in [Trades -> 0..MaxCandle]
      /\ \A t \in Trades : Newest(CoinOf(t)) \in Nat /\ Newest(CoinOf(t)) <= Newest(CoinOf(t))'
                           /\ Newest(CoinOf(t))' \in Nat
  <2>1. TypeOK /\ TypeOK'
    BY StepHolds DEF IInv
  <2>2. Maxima /\ Maxima'
    BY <2>1, NewestIs, PTL
  <2>3. /\ now \in Nat /\ now' \in Nat /\ file \in Nat /\ catchupFrom \in Nat /\ began \in Nat /\ now >= 1
        /\ lastChecked \in [Trades -> 0..MaxCandle]
    BY <2>1 DEF TypeOK
  <2>4. ASSUME NEW t \in Trades PROVE Newest(CoinOf(t)) \in Nat /\ Newest(CoinOf(t)) <= Newest(CoinOf(t))'
                                      /\ Newest(CoinOf(t))' \in Nat
    <3>1. CoinOf(t) \in Coins /\ CoinOf(t)' = CoinOf(t)
      BY CoinType DEF CoinOf
    <3>2. QED
      BY <2>2, <2>3, <3>1, Ageing DEF Maxima
  <2>5. QED
    BY <2>3, <2>4
<1>2. now' \in Nat /\ now <= now'
  BY <1>1, Ageing
<1>3. ASSUME \A t \in Trades : lastChecked'[t] \in {lastChecked[t], None}
             \/ (t = cur /\ lastChecked'[t] = at /\ at <= Newest(CoinOf(t)) /\ at \in Nat)
      PROVE  \A t \in Trades : lastChecked'[t] <= Newest(CoinOf(t))'
  BY <1>1, <1>3 DEF Dates
<1>4. ASSUME UNCHANGED lastChecked PROVE \A t \in Trades : lastChecked'[t] <= Newest(CoinOf(t))'
  BY <1>3, <1>4
<1>5. CASE Start
  <2>1. CatchupStart <= now
    BY <1>1 DEF Dates, CatchupStart, Max2
  <2>2. catchupFrom' = CatchupStart /\ UNCHANGED <<now, file, began, lastChecked>>
    BY <1>5 DEF Start, market, memory, scoring
  <2>3. QED
    BY <1>4, <2>1, <2>2 DEF Dates
<1>6. CASE Poll
  <2>1. \A t \in Trades : lastChecked'[t] \in {lastChecked[t], None}
    BY <1>6 DEF Poll
  <2>2. began' = now /\ UNCHANGED <<now, file, catchupFrom>>
    BY <1>6 DEF Poll, market
  <2>3. QED
    BY <1>1, <1>3, <2>1, <2>2 DEF Dates
<1>7. CASE ScoreCandle
  <2>1. /\ cur \in Trades /\ at \in 1..now /\ at <= Newest(CoinOf(cur))
        /\ lastChecked'[cur] \in {None, at} /\ \A u \in Trades \ {cur} : lastChecked'[u] = lastChecked[u]
        /\ UNCHANGED <<market, file, catchupFrom, began>>
    BY <1>7, ScoreFrame
  <2>2. UNCHANGED <<now, file, catchupFrom, began>>
    BY <2>1 DEF market
  <2>3. \A t \in Trades : lastChecked'[t] <= Newest(CoinOf(t))'
    BY <1>1, <1>3, <2>1
  <2>4. QED
    BY <2>2, <2>3 DEF Dates
<1>8. CASE EndPass
  <2>1. file' \in {file, began} /\ catchupFrom' \in {None, catchupFrom} /\ began' = None /\ UNCHANGED <<now, lastChecked>>
    BY <1>8 DEF EndPass, market
  <2>2. QED
    BY <1>1, <1>4, <2>1 DEF Dates
<1>9. CASE PassError \/ Crash
  <2>1. /\ began' = None /\ catchupFrom' \in {None, catchupFrom} /\ UNCHANGED <<now, file>>
        /\ \A t \in Trades : lastChecked'[t] \in {lastChecked[t], None}
    BY <1>9 DEF PassError, Crash, ForgetPass, market, memory
  <2>2. QED
    BY <1>1, <1>3, <2>1 DEF Dates
<1>10. CASE UNCHANGED <<file, catchupFrom, began, lastChecked>>
  BY <1>1, <1>2, <1>4, <1>10 DEF Dates
<1>11. CASE MarketActs
  BY <1>10, <1>11, MarketFrame DEF memory, scoring
<1>12. QED
  BY <1>5, <1>6, <1>7, <1>8, <1>9, <1>10, <1>11
     DEF Next, Pass, Fault, Environment, MarketActs, vars, memory, scoring, Read, ReadCoins, ReadError, Take,
         Post, MoverReads, MoverWrites
-----------------------------------------------------------------------------
(* A pass and what it does not know.                                        *)
LEMMA PassingStep == ASSUME MaxErrors = 0, IInv, Tables, Dates, Passing, [Next]_vars PROVE Passing'
<1> USE BoundAssumption, TradesAssumption DEF None, NoTrade
<1>1. /\ now \in Nat /\ began \in Nat /\ now >= 1 /\ opened \in [Trades -> 0..MaxCandle]
      /\ lastChecked \in [Trades -> 0..MaxCandle] /\ cur \in active \cup {NoTrade}
      /\ row \in [Trades -> Rows] /\ work \in [Trades -> Rows] /\ now <= MaxCandle
  BY DEF IInv, TypeOK
<1>2. CASE Poll
  BY <1>1, <1>2 DEF Poll, Passing, Here, market, tables
<1>3. CASE Read \/ \E c \in Coins : ReadError(c)
  <2>1. /\ pc = "read" /\ (pc' = "score" => (polled' => polled)) /\ pc' \in {"idle", "score"}
        /\ UNCHANGED <<began, active, row, opened, lastChecked, now>>
    BY <1>3 DEF Read, ReadError, ReadCoins, market, tables, memory
  <2>2. QED
    BY <2>1 DEF Passing, Here
<1>4. CASE ScoreCandle
  <2>1. /\ cur \in active /\ cur \in Trades /\ row' \in {row, work'}
        /\ \A u \in Trades \ {cur} : work'[u] = work[u] /\ lastChecked'[u] = lastChecked[u]
        /\ UNCHANGED <<market, opened, pc, active, began, history>>
    BY <1>4, ScoreFrame
  <2>2. UNCHANGED <<now, opened, pc, active, began, polled>>
    BY <2>1 DEF market, history
  <2>3. \A u \in Trades \ {cur} : Here(u)' => Here(u)
    BY <2>1 DEF IInv, Books, Uncommitted, Here
  <2>4. QED
    BY <2>1, <2>2, <2>3 DEF Passing
<1>5. ASSUME NEW t \in Trades, Post(t) PROVE Passing'
  <2>1. /\ opened'[t] = now /\ lastChecked[t] = None
        /\ \A u \in Trades \ {t} : opened'[u] = opened[u] /\ row'[u] = row[u]
        /\ UNCHANGED <<market, pc, memory, scoring, history>>
    BY <1>5, PostFrame
  <2>2. UNCHANGED <<pc, began, active, lastChecked, now, polled>> /\ began <= now
    BY <2>1 DEF market, memory, scoring, history, Dates
  <2>3. QED
    BY <1>1, <2>1, <2>2 DEF Passing, Here
<1>6. ASSUME NEW m \in Movers, NEW t \in Trades, MoverWrites(m, t) PROVE Passing'
  <2>1. /\ ~row'[t].here /\ \A u \in Trades \ {t} : row'[u] = row[u]
        /\ UNCHANGED <<market, opened, pc, memory, scoring, history>>
    BY <1>6, MoverFrame
  <2>2. UNCHANGED <<pc, began, active, lastChecked, now, polled, opened>>
    BY <2>1 DEF market, memory, scoring, history
  <2>3. \A u \in Trades : Here(u)' => Here(u)
    BY <2>1 DEF Here
  <2>4. QED
    BY <2>2, <2>3 DEF Passing
<1>7. CASE NextCandle
  <2>1. /\ pc # "score" /\ (pc = "down" \/ polled) /\ now' = now + 1 /\ polled' = FALSE
        /\ UNCHANGED <<pc, began, active, lastChecked, row, opened>>
    BY <1>7 DEF NextCandle, MarketMoves, memory, scoring, tables
  <2>2. QED
    BY <1>1, <2>1 DEF Passing, Here
<1>8. CASE UNCHANGED <<pc, now, polled, began, active, lastChecked, row, opened>>
  BY <1>8 DEF Passing, Here
<1>9. ASSUME NEW c \in Coins, StreamBack(c) \/ Freshness(c) \/ \E k \in 1..now : CatchUp(c, k)
      PROVE  UNCHANGED <<pc, now, polled, began, active, lastChecked, row, opened>>
  <2>1. PICK candles : Stores(c, candles)
    BY <1>9 DEF StreamBack, Freshness, CatchUp
  <2>2. QED
    BY <2>1 DEF Stores, tables, memory, scoring
<1>10. CASE pc' \in {"idle", "down"}
  BY <1>10 DEF Passing
<1>11. CASE Start \/ EndPass \/ PassError \/ Crash
  BY <1>10, <1>11 DEF Start, EndPass, PassError, Crash
<1>12. CASE \/ UNCHANGED vars \/ \E t \in Trades : Take(t) \/ \E m \in Movers : MoverReads(m, t)
            \/ \E c \in Coins : Tick(c) \/ Loses(c)
  BY <1>8, <1>12 DEF Take, Tick, Loses, MoverReads, vars, market, tables, memory, scoring, history
<1>13. QED
  BY <1>2, <1>3, <1>4, <1>5, <1>6, <1>7, <1>8, <1>9, <1>11, <1>12 DEF Next, Pass, Fault, Environment

(* A trade taken from the list is in hand, or there is nothing to score.    *)
LEMMA DoneStep == ASSUME MaxErrors = 0, IInv, Done, [Next]_vars PROVE Done'
<1> USE BoundAssumption, TradesAssumption DEF None, NoTrade
<1>1. /\ cur \in active \cup {NoTrade} /\ active \subseteq Trades /\ todo \subseteq active /\ NoTrade \notin Trades
      /\ \A t \in Trades : /\ First(t) \in Nat /\ Newest(CoinOf(t)) \in Nat /\ CoinOf(t) \in Coins
                           /\ ~(First(t) <= Newest(CoinOf(t))) => First(t) > Newest(CoinOf(t))
  <2>1. Maxima /\ now \in Nat
    BY NewestIs DEF IInv, TypeOK
  <2>2. ASSUME NEW t \in Trades PROVE First(t) \in Nat /\ Newest(CoinOf(t)) \in Nat /\ CoinOf(t) \in Coins
    <3>1. CoinOf(t) \in Coins
      BY CoinType
    <3>2. First(t) \in Nat
      BY FirstType
    <3>3. QED
      BY <2>1, <3>1, <3>2 DEF Maxima
  <2>3. QED
    BY <2>2 DEF IInv, TypeOK
<1>2. ASSUME UNCHANGED market PROVE \A c : Newest(c)' = Newest(c) /\ (Stale(c)' <=> Stale(c))
  BY <1>2 DEF market, Newest, Stale
<1>3. ASSUME UNCHANGED <<market, catchupFrom>>, NEW t, lastChecked'[t] = lastChecked[t], opened'[t] = opened[t]
      PROVE  First(t)' = First(t)
  BY <1>2, <1>3 DEF First, Floor, CoinOf
<1>4. CASE Read
  <2>1. /\ pc = "read" /\ todo' = {t \in active : CoinOf(t) \in WithCandles}
        /\ UNCHANGED <<market, opened, work, lastChecked, catchupFrom, active>>
    BY <1>4 DEF Read, ReadCoins, tables, memory
  <2>2. \A t \in active \ todo' : ~Stale(CoinOf(t)) => First(t) > Newest(CoinOf(t))
    BY <1>1, <2>1 DEF WithCandles
  <2>3. \A t \in active : /\ First(t)' = First(t) /\ Newest(CoinOf(t))' = Newest(CoinOf(t))
                          /\ (Stale(CoinOf(t))' <=> Stale(CoinOf(t)))
    <3>1. \A t \in active : CoinOf(t)' = CoinOf(t)
      BY DEF CoinOf
    <3>2. QED
      BY <1>2, <1>3, <2>1, <3>1
  <2>4. QED
    BY <2>1, <2>2, <2>3 DEF Done
<1>5. ASSUME NEW t \in Trades, Take(t) PROVE Done'
  <2>1. /\ pc = "score" /\ cur = NoTrade /\ todo' = todo \ {t}
        /\ \/ First(t) <= Newest(CoinOf(t)) /\ cur' = t
           \/ ~(First(t) <= Newest(CoinOf(t))) /\ cur' = cur
        /\ UNCHANGED <<market, opened, work, active, lastChecked, catchupFrom>>
    BY <1>5 DEF Take, tables, memory
  <2>2. \A u \in active : /\ First(u)' = First(u) /\ Newest(CoinOf(u))' = Newest(CoinOf(u))
                          /\ (Stale(CoinOf(u))' <=> Stale(CoinOf(u)))
    <3>1. \A u \in active : CoinOf(u)' = CoinOf(u)
      BY DEF CoinOf
    <3>2. QED
      BY <1>2, <1>3, <2>1, <3>1
  <2>3. ASSUME NEW u \in active \ todo', work[u].here, u # cur', ~Stale(CoinOf(u))
        PROVE  lastChecked[u] = Newest(CoinOf(u)) \/ First(u) > Newest(CoinOf(u))
    <3>1. CASE u = t
      BY <1>1, <2>1, <2>3, <3>1
    <3>2. CASE u # t
      BY <1>1, <2>1, <2>3, <3>2 DEF Done
    <3>3. QED
      BY <3>1, <3>2
  <2>4. QED
    BY <2>1, <2>2, <2>3 DEF Done
<1>6. CASE ScoreCandle
  <2>1. /\ cur \in active /\ cur \in Trades /\ pc = "score"
        /\ \/ ~work'[cur].here
           \/ lastChecked'[cur] = at /\ at = Newest(CoinOf(cur)) /\ cur' = NoTrade
           \/ cur' = cur
        /\ cur' \in {cur, NoTrade}
        /\ \A u \in Trades \ {cur} : work'[u] = work[u] /\ lastChecked'[u] = lastChecked[u]
        /\ UNCHANGED <<market, opened, active, todo, catchupFrom>>
    BY <1>6, ScoreFrame DEF ScoreCandle
  <2>2. \A u \in active : /\ (u # cur => First(u)' = First(u)) /\ Newest(CoinOf(u))' = Newest(CoinOf(u))
                          /\ (Stale(CoinOf(u))' <=> Stale(CoinOf(u)))
    <3>1. \A u \in active : CoinOf(u)' = CoinOf(u)
      BY DEF CoinOf
    <3>2. QED
      BY <1>1, <1>2, <1>3, <2>1, <3>1
  <2>3. QED
    BY <1>1, <2>1, <2>2 DEF Done
<1>7. ASSUME NEW t \in Trades, Post(t) PROVE Done'
  <2>1. /\ t \notin active
        /\ \A u \in Trades \ {t} : opened'[u] = opened[u] /\ work'[u] = work[u]
        /\ UNCHANGED <<market, pc, memory, scoring>>
    BY <1>7, PostFrame
  <2>2. UNCHANGED <<pc, active, todo, cur, lastChecked, catchupFrom>>
    BY <2>1 DEF memory, scoring
  <2>3. \A u \in active : /\ First(u)' = First(u) /\ Newest(CoinOf(u))' = Newest(CoinOf(u))
                          /\ (Stale(CoinOf(u))' <=> Stale(CoinOf(u)))
    <3>1. \A u \in active : CoinOf(u)' = CoinOf(u)
      BY DEF CoinOf
    <3>2. QED
      BY <1>1, <1>2, <1>3, <2>1, <2>2, <3>1
  <2>4. QED
    BY <1>1, <2>1, <2>2, <2>3 DEF Done
<1>8. ASSUME UNCHANGED <<market, opened, pc, memory, scoring>>,
             \A u \in Trades : work'[u].here => work[u].here
      PROVE  Done'
  <2>1. UNCHANGED <<pc, active, todo, cur, lastChecked, catchupFrom>>
    BY <1>8 DEF memory, scoring
  <2>2. \A u \in active : /\ First(u)' = First(u) /\ Newest(CoinOf(u))' = Newest(CoinOf(u))
                          /\ (Stale(CoinOf(u))' <=> Stale(CoinOf(u)))
    <3>1. \A u \in active : CoinOf(u)' = CoinOf(u)
      BY DEF CoinOf
    <3>2. QED
      BY <1>2, <1>3, <1>8, <2>1, <3>1
  <2>3. QED
    BY <1>1, <1>8, <2>1, <2>2 DEF Done
<1>9. ASSUME NEW m \in Movers, NEW t \in Trades, MoverWrites(m, t) PROVE Done'
  <2>1. /\ ~work'[t].here /\ \A u \in Trades \ {t} : work'[u] = work[u]
        /\ UNCHANGED <<market, opened, pc, memory, scoring>>
    BY <1>9, MoverFrame
  <2>2. \A u \in Trades : work'[u].here => work[u].here
    BY <2>1
  <2>3. QED
    BY <1>8, <2>1, <2>2
<1>10. ASSUME NEW m \in Movers, NEW t \in Trades, MoverReads(m, t) PROVE Done'
  BY <1>8, <1>10 DEF MoverReads
<1>11. CASE pc' # "score"
  BY <1>11 DEF Done
<1>12. CASE MarketActs
  BY <1>11, <1>12, MarketFrame DEF MarketMoves
<1>13. CASE Start \/ Poll \/ EndPass \/ PassError \/ Crash
  BY <1>11, <1>13 DEF Start, Poll, EndPass, PassError, Crash
<1>14. CASE UNCHANGED vars
  BY <1>8, <1>14 DEF vars, tables
<1>15. ~ \E c \in Coins : ReadError(c)
  BY DEF ReadError, IInv, TypeOK
<1>16. QED
  BY <1>4, <1>5, <1>6, <1>7, <1>9, <1>10, <1>12, <1>13, <1>14, <1>15 DEF Next, Pass, Fault, Environment, MarketActs

(* A pass that has looked at all there is leaves no older trade without a   *)
(* watermark, unless it waits for the catch-up.                             *)
LEMMA NewAfterLook ==
    ASSUME IInv, Tables, Passing, NewOnes, pc \in {"read", "score"}, cur = NoTrade, ~abandoned, LookedAt,
           NEW t \in Trades, work[t].here, lastChecked[t] = None, CoinOf(t) \notin late,
           catchupFrom = None \/ t \notin active
    PROVE  opened[t] = now
<1> USE BoundAssumption, TradesAssumption DEF None, NoTrade
<1>1. /\ now \in Nat /\ now >= 1 /\ opened[t] \in Nat /\ opened[t] <= now /\ t # cur /\ Here(t) /\ began = now
      /\ Newest(CoinOf(t)) \in Nat /\ Newest(CoinOf(t)) >= 1
  <2>1. Newest(CoinOf(t)) \in 1..now
    BY NewestIs, CoinType DEF IInv, Maxima
  <2>2. Here(t)
    BY DEF IInv, Books, Uncommitted, Here
  <2>3. QED
    BY <2>1, <2>2 DEF IInv, TypeOK, Dated, LookedAt
<1>2. CASE t \notin active
  BY <1>1, <1>2 DEF Passing
<1>3. CASE t \in active /\ catchupFrom = None
  <2>1. opened[t] = now \/ ~Stale(CoinOf(t))
    BY <1>1, <1>3 DEF NewOnes
  <2>2. First(t) = Newest(CoinOf(t))
    BY <1>3 DEF First
  <2>3. ~Stale(CoinOf(t)) => FALSE
    BY <1>1, <1>3, <2>2 DEF LookedAt
  <2>4. QED
    BY <2>1, <2>3
<1>4. QED
  BY <1>2, <1>3

(* A trade without a watermark is new, whatever happens.                    *)
LEMMA NewOnesStep ==
    ASSUME MaxErrors = 0, IInv, Tables, Passing, NewOnes, [Next]_vars PROVE NewOnes'
<1> USE BoundAssumption, TradesAssumption DEF None, NoTrade
<1>1. /\ now \in Nat /\ now >= 1 /\ opened \in [Trades -> 0..MaxCandle]
      /\ lastChecked \in [Trades -> 0..MaxCandle] /\ cur \in active \cup {NoTrade}
      /\ row \in [Trades -> Rows] /\ work \in [Trades -> Rows] /\ active \subseteq Trades
      /\ \A t \in Trades : t # NoTrade /\ opened[t] <= now
  BY DEF IInv, TypeOK, Dated
<1>2. /\ \A t \in Trades : CoinOf(t) \in Coins /\ (CoinOf(t) \notin late' => CoinOf(t) \notin late)
      /\ \A c \in Coins : now' = now /\ ~Stale(c) => ~Stale(c)'
  BY CoinType, Ageing
<1>3. CASE Start
  <2>1. /\ catchupFrom' = None /\ ~abandoned' => \A t \in Trades : ~Here(t)
        /\ UNCHANGED work
    BY <1>3 DEF Start, tables
  <2>2. QED
    BY <2>1 DEF NewOnes, IInv, Books, Uncommitted, Here
<1>4. CASE Poll
  <2>1. /\ UNCHANGED <<work, catchupFrom, abandoned, opened, now, cur>>
        /\ pc = "idle" /\ pc' # "down"
        /\ lastChecked' = [t \in Trades |-> IF Here(t) THEN lastChecked[t] ELSE None]
        /\ polled' => polled \/ \A t \in Trades : ~Here(t)
    BY <1>4 DEF Poll, tables, market
  <2>2. \A t \in Trades : work[t].here => Here(t) /\ lastChecked'[t] = lastChecked[t]
    BY <2>1 DEF IInv, Books, Uncommitted, Here
  <2>3. \A t \in Trades : Stale(CoinOf(t))' <=> Stale(CoinOf(t))
    BY <1>4 DEF Poll, market, Stale, Newest, CoinOf
  <2>4. ASSUME NEW t \in Trades, ~abandoned', catchupFrom' = None, work'[t].here, lastChecked'[t] = None, t # cur',
               CoinOf(t) \notin late'
        PROVE  opened'[t] = now' \/ (opened'[t] = now' - 1 /\ ~polled' /\ ~Stale(CoinOf(t))')
    BY <1>2, <2>1, <2>2, <2>3, <2>4 DEF NewOnes
  <2>5. QED
    BY <2>4 DEF NewOnes, CoinOf
<1>5. CASE Read
  <2>1. /\ UNCHANGED <<work, catchupFrom, abandoned, opened, now, cur, lastChecked, late>>
        /\ pc = "read" /\ pc' # "down" /\ (polled' => polled \/ LookedAt)
    BY <1>5 DEF Read, ReadCoins, tables, market, memory
  <2>2. cur = NoTrade
    BY <2>1 DEF IInv, Idle
  <2>3. ~abandoned /\ LookedAt /\ catchupFrom = None =>
            \A t \in Trades : work[t].here /\ lastChecked[t] = None /\ CoinOf(t) \notin late => opened[t] = now
    BY <2>1, <2>2, NewAfterLook
  <2>4. ASSUME NEW t \in Trades, ~abandoned', catchupFrom' = None, work'[t].here, lastChecked'[t] = None, t # cur',
               CoinOf(t) \notin late'
        PROVE  opened'[t] = now' \/ (opened'[t] = now' - 1 /\ ~polled' /\ ~Stale(CoinOf(t))')
    BY <1>2, <2>1, <2>3, <2>4 DEF NewOnes
  <2>5. QED
    BY <2>4 DEF NewOnes, CoinOf
<1>6. ASSUME UNCHANGED <<catchupFrom, abandoned, now>>, (pc' # "down" => pc # "down"), (polled' => polled),
             \A t \in Trades : work'[t].here /\ lastChecked'[t] = None /\ t # cur' =>
                 \/ opened'[t] = now
                 \/ work[t].here /\ lastChecked[t] = None /\ t # cur /\ opened'[t] = opened[t]
      PROVE  NewOnes'
  <2>1. ASSUME NEW t \in Trades, ~abandoned', pc' # "down", catchupFrom' = None, work'[t].here,
               lastChecked'[t] = None, t # cur', CoinOf(t) \notin late'
        PROVE  opened'[t] = now' \/ (opened'[t] = now' - 1 /\ ~polled' /\ ~Stale(CoinOf(t))')
    <3>1. CASE opened'[t] = now
      BY <1>6, <3>1
    <3>2. CASE work[t].here /\ lastChecked[t] = None /\ t # cur /\ opened'[t] = opened[t]
      <4>1. opened[t] = now \/ (opened[t] = now - 1 /\ ~polled /\ ~Stale(CoinOf(t)))
        BY <1>2, <1>6, <2>1, <3>2 DEF NewOnes
      <4>2. ~Stale(CoinOf(t)) => ~Stale(CoinOf(t))'
        BY <1>2, <1>6 DEF CoinOf
      <4>3. QED
        BY <1>6, <3>2, <4>1, <4>2
    <3>3. QED
      BY <1>6, <2>1, <3>1, <3>2
  <2>2. QED
    BY <2>1 DEF NewOnes, CoinOf
<1>7. ASSUME NEW t \in Trades, Take(t) PROVE NewOnes'
  <2>1. /\ UNCHANGED <<pc, work, catchupFrom, abandoned, opened, now, lastChecked, polled>>
        /\ cur = NoTrade
    BY <1>7 DEF Take, tables, market, memory, history
  <2>2. QED
    BY <1>1, <1>6, <2>1
<1>8. CASE ScoreCandle
  <2>1. /\ cur \in Trades /\ at # None
        /\ work'[cur].here => lastChecked'[cur] = at
        /\ cur' \in {cur, NoTrade}
        /\ \A u \in Trades \ {cur} : work'[u] = work[u] /\ lastChecked'[u] = lastChecked[u]
        /\ UNCHANGED <<market, opened, pc, catchupFrom, history>>
    BY <1>8, ScoreFrame
  <2>2. UNCHANGED <<pc, catchupFrom, abandoned, now, polled, opened>>
    BY <2>1 DEF market, history
  <2>3. QED
    BY <1>6, <2>1, <2>2
<1>9. CASE EndPass
  <2>1. /\ UNCHANGED <<work, opened, now, cur, lastChecked, market>> /\ row' = work
        /\ pc = "score" /\ cur = NoTrade
        /\ polled' = (polled \/ LookedAt)
        /\ \/ catchupFrom = None /\ abandoned' = abandoned
           \/ catchupFrom' = catchupFrom /\ catchupFrom # None
           \/ Disarm /\ abandoned' = (abandoned \/ (Disarm /\ passes + 1 >= MaxPasses /\ Unscored # {}))
        /\ late' = late \cup {CoinOf(t) : t \in (IF file' = began THEN Behind ELSE {}) \cup Unseen'}
    BY <1>9 DEF EndPass, ScoringDone, tables, market
  <2>2. polled' => polled \/ LookedAt
    BY <2>1
  <2>3. \A t \in Trades : Stale(CoinOf(t))' <=> Stale(CoinOf(t))
    BY <2>1 DEF market, Stale, Newest, CoinOf
  <2>4. CASE catchupFrom' = catchupFrom /\ catchupFrom # None
    BY <2>4 DEF NewOnes
  <2>5. ASSUME catchupFrom = None \/ Disarm,
               abandoned' = IF catchupFrom = None THEN abandoned
                            ELSE abandoned \/ (Disarm /\ passes + 1 >= MaxPasses /\ Unscored # {})
        PROVE  NewOnes'
    <3> SUFFICES ASSUME ~abandoned', catchupFrom' = None, NEW t \in Trades, work[t].here, lastChecked[t] = None,
                        CoinOf(t) \notin late'
                 PROVE  opened[t] = now \/ (opened[t] = now - 1 /\ ~polled' /\ ~Stale(CoinOf(t))')
      BY <2>1 DEF NewOnes, CoinOf
    <3>1. ~abandoned /\ CoinOf(t) \notin late /\ (catchupFrom = None \/ Unscored = {})
      BY <1>2, <2>5 DEF Disarm
    <3>2. catchupFrom = None \/ t \notin active
      BY <3>1 DEF Unscored
    <3>3. LookedAt => opened[t] = now
      BY <2>1, <3>1, <3>2, NewAfterLook
    <3>4. ~Stale(CoinOf(t))'
      <4> SUFFICES ASSUME Stale(CoinOf(t))' PROVE FALSE
        OBVIOUS
      <4>1. t \in Unseen'
        BY <2>1 DEF Unseen, CoinOf
      <4>2. QED
        BY <2>1, <4>1
    <3>5. CASE catchupFrom = None
      BY <2>1, <2>2, <3>1, <3>3, <3>4, <3>5 DEF NewOnes
    <3>6. CASE t \notin active
      <4>1. opened[t] >= began /\ began >= now - 1 /\ (polled => began = now)
        BY <2>1, <3>6 DEF Passing, IInv, Books, Uncommitted, Here
      <4>2. began \in Nat /\ opened[t] \in Nat /\ opened[t] <= now
        BY <1>1 DEF IInv, TypeOK
      <4>3. opened[t] = now \/ (opened[t] = now - 1 /\ began # now)
        BY <1>1, <4>1, <4>2
      <4>4. QED
        BY <2>2, <3>3, <3>4, <4>1, <4>3
    <3>7. QED
      BY <3>2, <3>5, <3>6
  <2>6. QED
    BY <1>9, <2>4, <2>5 DEF EndPass
<1>10. ASSUME NEW t \in Trades, Post(t) PROVE NewOnes'
  <2>1. /\ opened'[t] = now
        /\ \A u \in Trades \ {t} : opened'[u] = opened[u] /\ work'[u] = work[u]
        /\ UNCHANGED <<market, pc, memory, scoring, history>>
    BY <1>10, PostFrame
  <2>2. UNCHANGED <<pc, catchupFrom, abandoned, now, cur, lastChecked, polled>>
    BY <2>1 DEF market, memory, scoring, history
  <2>3. QED
    BY <1>6, <2>1, <2>2
<1>11. ASSUME NEW m \in Movers, NEW t \in Trades, MoverWrites(m, t) PROVE NewOnes'
  <2>1. /\ ~work'[t].here /\ \A u \in Trades \ {t} : work'[u] = work[u]
        /\ UNCHANGED <<market, opened, pc, memory, scoring, history>>
    BY <1>11, MoverFrame
  <2>2. UNCHANGED <<pc, catchupFrom, abandoned, now, cur, lastChecked, polled, opened>>
    BY <2>1 DEF market, memory, scoring, history
  <2>3. QED
    BY <1>6, <2>1, <2>2
<1>12. CASE NextCandle
  <2>1. /\ (pc = "down" \/ polled) /\ now' = now + 1 /\ polled' = FALSE /\ pc # "score"
        /\ UNCHANGED <<pc, catchupFrom, abandoned, cur, lastChecked, work, row, opened>>
        /\ late' = late \cup {CoinOf(t) : t \in {u \in Trades : Here(u) /\ Unwatched(u) /\ Stale(CoinOf(u))'}}
    BY <1>12 DEF NextCandle, MarketMoves, memory, scoring, tables
  <2>2. ASSUME NEW t \in Trades, ~abandoned', pc' # "down", catchupFrom' = None, work'[t].here,
               lastChecked'[t] = None, t # cur', CoinOf(t) \notin late'
        PROVE  opened'[t] = now' \/ (opened'[t] = now' - 1 /\ ~polled' /\ ~Stale(CoinOf(t))')
    <3>1. opened[t] = now
      BY <1>2, <2>1, <2>2 DEF NewOnes
    <3>2. Here(t) /\ Unwatched(t)
      BY <2>1, <2>2 DEF Unwatched, IInv, Books, Uncommitted, Here
    <3>3. ~Stale(CoinOf(t))'
      <4>1. t \notin {u \in Trades : Here(u) /\ Unwatched(u) /\ Stale(CoinOf(u))'}
        BY <2>1, <2>2
      <4>2. QED
        BY <3>2, <4>1 DEF CoinOf
    <3>4. QED
      BY <1>1, <2>1, <3>1, <3>3
  <2>3. QED
    BY <2>2 DEF NewOnes, CoinOf
<1>13. CASE Crash
  BY <1>13 DEF Crash, NewOnes
<1>14. CASE UNCHANGED <<now, polled, pc, catchupFrom, abandoned, cur, lastChecked, work, opened>>
  BY <1>6, <1>14
<1>15. ASSUME NEW c \in Coins, StreamBack(c) \/ Freshness(c) \/ \E k \in 1..now : CatchUp(c, k)
       PROVE  UNCHANGED <<now, polled, pc, catchupFrom, abandoned, cur, lastChecked, work, opened>>
  <2>1. PICK candles : Stores(c, candles)
    BY <1>15 DEF StreamBack, Freshness, CatchUp
  <2>2. QED
    BY <2>1 DEF Stores, tables, memory, scoring
<1>16. CASE \/ UNCHANGED vars \/ \E m \in Movers, t \in Trades : MoverReads(m, t)
            \/ \E c \in Coins : Tick(c) \/ Loses(c)
  BY <1>14, <1>16 DEF Tick, Loses, MoverReads, vars, market, tables, memory, scoring, history
<1>17. ~PassError /\ ~ \E c \in Coins : ReadError(c)
  BY DEF PassError, ReadError, IInv, TypeOK
<1>18. QED
  BY <1>3, <1>4, <1>5, <1>7, <1>8, <1>9, <1>10, <1>11, <1>12, <1>13, <1>14, <1>15, <1>16, <1>17
     DEF Next, Pass, Fault, Environment
-----------------------------------------------------------------------------
(* The promises.                                                            *)

(* What a promise says of a row does not depend on the candles to come.     *)
LEMMA StillAhead ==
    ASSUME IInv, Dates, Kept, ~abandoned, [Next]_vars,
           NEW t \in Trades, opened'[t] = opened[t], CoinOf(t) \notin late', NEW k \in 0..MaxCandle
    PROVE  /\ Vouched(t, k) => k < now
           /\ Vouched(t, k) /\ work[t].here => Ahead(work[t], Ideal(t, k)')
           /\ Filed(k) /\ row[t].here => Ahead(row[t], Ideal(t, k)')
<1> USE BoundAssumption, TradesAssumption DEF None, NoTrade
<1>1. /\ k \in Nat /\ now \in Nat /\ file \in Nat /\ catchupFrom \in Nat /\ lastChecked[t] \in Nat
      /\ lastChecked[t] <= now /\ (t = cur => at \in Nat /\ at <= now)
  <2>1. Maxima /\ CoinOf(t) \in Coins
    BY NewestIs, CoinType DEF IInv
  <2>2. t = cur => at \in stored[CoinOf(t)]
    BY DEF IInv, Dated
  <2>3. lastChecked[t] <= Newest(CoinOf(t)) /\ Newest(CoinOf(t)) \in 1..now
    BY <2>1 DEF Dates, Maxima
  <2>4. now \in Nat /\ lastChecked[t] \in Nat /\ k \in Nat /\ file \in Nat /\ catchupFrom \in Nat
    BY DEF IInv, TypeOK
  <2>5. t = cur => at \in Nat /\ at <= now
    BY <2>1, <2>2, <2>4 DEF Maxima
  <2>6. QED
    BY <2>3, <2>4, <2>5
<1>2. (Vouched(t, k) => k < now) /\ (Filed(k) => k < now)
  BY <1>1 DEF Vouched, Filed, Dates
<1>3. k < now => Ideal(t, k)' = Ideal(t, k)
  BY PastFrozen
<1>4. CoinOf(t) \notin late
  BY Ageing
<1>5. /\ Vouched(t, k) /\ work[t].here => Ahead(work[t], Ideal(t, k))
      /\ Filed(k) /\ row[t].here => Ahead(row[t], Ideal(t, k))
  BY <1>4 DEF Kept
<1>6. QED
  BY <1>2, <1>3, <1>5

(* What is left to show of a step, of one trade and one candle.             *)
KeptFor(t, k) ==
    /\ Vouched(t, k)' /\ work'[t].here => Ahead(work'[t], Ideal(t, k)')
    /\ Filed(k)' /\ row'[t].here => Ahead(row'[t], Ideal(t, k)')

(* It is enough.                                                            *)
LEMMA KeptByTrade ==
    ASSUME ~abandoned' => \A t \in Trades : CoinOf(t) \notin late' => \A k \in 0..MaxCandle : KeptFor(t, k)
    PROVE  Kept'
BY DEF Kept, KeptFor, CoinOf

(* Actions that leave the tables and the promises alone.                    *)
LEMMA KeptSame ==
    ASSUME IInv, Dates, Kept, [Next]_vars, UNCHANGED opened, abandoned' = abandoned,
           \A t \in Trades : /\ work'[t].here => work'[t] = work[t]
                             /\ row'[t].here => row'[t] = row[t],
           \A t \in Trades : \A k \in 0..MaxCandle : Vouched(t, k)' /\ work'[t].here => Vouched(t, k),
           \A k \in 0..MaxCandle : Filed(k)' => Filed(k)
    PROVE  Kept'
<1> SUFFICES ASSUME ~abandoned', NEW t \in Trades, CoinOf(t) \notin late', NEW k \in 0..MaxCandle
             PROVE  KeptFor(t, k)
  BY KeptByTrade
<1>1. /\ Vouched(t, k) /\ work[t].here => Ahead(work[t], Ideal(t, k)')
      /\ Filed(k) /\ row[t].here => Ahead(row[t], Ideal(t, k)')
  BY StillAhead
<1>2. QED
  BY <1>1 DEF KeptFor

(* The market makes no promise and keeps no trade from being scored, and    *)
(* neither does a mover that reads.                                         *)
LEMMA KeptMarket ==
    ASSUME IInv, Dates, Kept, [Next]_vars,
           UNCHANGED vars \/ MarketActs \/ \E m \in Movers, t \in Trades : MoverReads(m, t)
    PROVE  Kept'
<1>1. UNCHANGED <<row, work, opened, file, pc, memory, scoring, abandoned>>
  BY MarketFrame DEF vars, tables, history, MoverReads
<1>2. /\ UNCHANGED <<opened, abandoned, work, row>>
      /\ \A t \in Trades : \A k \in 0..MaxCandle : Vouched(t, k)' => Vouched(t, k)
      /\ \A k \in 0..MaxCandle : Filed(k)' => Filed(k)
  BY <1>1 DEF memory, scoring, Vouched, Filed
<1>3. QED
  BY <1>2, KeptSame

(* A trade that is moved is promised nothing.                               *)
LEMMA KeptMoved ==
    ASSUME IInv, Dates, Kept, [Next]_vars, NEW m \in Movers, NEW t \in Trades, MoverWrites(m, t)
    PROVE  Kept'
<1>1. /\ ~work'[t].here /\ ~row'[t].here
      /\ \A u \in Trades \ {t} : work'[u] = work[u] /\ row'[u] = row[u]
      /\ UNCHANGED <<opened, file, pc, memory, scoring, history>>
  BY MoverFrame
<1>2. /\ \A u \in Trades : \A k \in 0..MaxCandle : Vouched(u, k)' => Vouched(u, k)
      /\ \A k \in 0..MaxCandle : Filed(k)' => Filed(k)
  BY <1>1 DEF memory, scoring, Vouched, Filed
<1>3. /\ \A u \in Trades : /\ work'[u].here => work'[u] = work[u]
                           /\ row'[u].here => row'[u] = row[u]
      /\ UNCHANGED opened /\ abandoned' = abandoned
  BY <1>1 DEF history
<1>4. QED
  BY <1>2, <1>3, KeptSame

(* A new trade cannot have missed anything.                                 *)
LEMMA KeptPost ==
    ASSUME IInv, Tables, Dates, Kept, [Next]_vars, NEW t \in Trades, Post(t)
    PROVE  Kept'
<1> USE BoundAssumption, TradesAssumption DEF None, NoTrade
<1>1. /\ opened'[t] = now /\ row'[t].hits = 0 /\ work'[t] = row'[t] /\ (~Setup[t].limit => row'[t].fillAt # None)
      /\ lastChecked[t] = None /\ t # cur
      /\ \A u \in Trades \ {t} : opened'[u] = opened[u] /\ work'[u] = work[u] /\ row'[u] = row[u]
      /\ UNCHANGED <<file, pc, memory, scoring, abandoned>>
  BY PostFrame DEF history
<1>2. StepByStep'
  <2>1. TypeOK'
    BY StepHolds DEF IInv
  <2>2. QED
    BY <2>1, IdealUnfold, PTL
<1>3. \A u \in Trades : \A k \in 0..MaxCandle : (Vouched(u, k)' => Vouched(u, k)) /\ (Filed(k)' => Filed(k))
  BY <1>1 DEF memory, scoring, Vouched, Filed
<1> SUFFICES ASSUME ~abandoned', NEW u \in Trades, CoinOf(u) \notin late', NEW k \in 0..MaxCandle
             PROVE  KeptFor(u, k)
  BY KeptByTrade
<1>4. CASE u # t
  <2>1. /\ Vouched(u, k) /\ work[u].here => Ahead(work[u], Ideal(u, k)')
        /\ Filed(k) /\ row[u].here => Ahead(row[u], Ideal(u, k)')
    BY <1>1, <1>4, StillAhead
  <2>2. QED
    BY <1>1, <1>3, <1>4, <2>1 DEF KeptFor
<1>5. CASE u = t
  <2>1. Vouched(t, k)' \/ Filed(k)' => k < now
    <3>1. k \in Nat /\ now \in Nat /\ file \in Nat /\ catchupFrom \in Nat
      BY DEF IInv, TypeOK
    <3>2. QED
      BY <1>1, <1>3, <3>1 DEF Vouched, Filed, Dates
  <2>2. k < now => Ideal(t, k)' = Fresh(t)'
    <3>1. now \in Nat /\ k \in Nat
      BY DEF IInv, TypeOK
    <3>2. Ideal(t, k)' = After(t, Ideal(t, k - 1), k)'
      BY <1>2 DEF StepByStep
    <3>3. QED
      BY <1>1, <3>1, <3>2 DEF After
  <2>3. Ahead(row'[t], Fresh(t)')
    BY <1>1 DEF Ahead, Fresh
  <2>4. QED
    BY <1>1, <1>5, <2>1, <2>2, <2>3 DEF KeptFor
<1>6. QED
  BY <1>4, <1>5

(* Reading the trades keeps the watermarks of open ones.                    *)
LEMMA KeptPoll == ASSUME IInv, Dates, Kept, [Next]_vars, Poll PROVE Kept'
<1>1. /\ UNCHANGED <<opened, work, row, file, catchupFrom, cur, at, abandoned>>
      /\ pc = "idle" /\ pc' \in {"idle", "read"}
      /\ lastChecked' = [t \in Trades |-> IF Here(t) THEN lastChecked[t] ELSE None]
  BY DEF Poll, tables
<1>2. \A t \in Trades : work[t].here => lastChecked'[t] = lastChecked[t]
  BY <1>1 DEF IInv, Books, Uncommitted, Here
<1>3. /\ \A t \in Trades : \A k \in 0..MaxCandle : Vouched(t, k)' /\ work'[t].here => Vouched(t, k)
      /\ \A k \in 0..MaxCandle : Filed(k)' => Filed(k)
  BY <1>1, <1>2 DEF Vouched, Filed
<1>4. QED
  BY <1>1, <1>3, KeptSame

(* Reading candles promises nothing.                                        *)
LEMMA KeptRead == ASSUME IInv, Dates, Kept, [Next]_vars, Read PROVE Kept'
<1>1. /\ UNCHANGED <<opened, work, row, file, catchupFrom, cur, at, abandoned, lastChecked>>
      /\ pc = "read" /\ pc' \in {"idle", "score"}
  BY DEF Read, ReadCoins, tables, memory
<1>2. /\ \A t \in Trades : \A k \in 0..MaxCandle : Vouched(t, k)' => Vouched(t, k)
      /\ \A k \in 0..MaxCandle : Filed(k)' => Filed(k)
  BY <1>1 DEF Vouched, Filed
<1>3. QED
  BY <1>1, <1>2, KeptSame

(* The catch-up starts where the state file vouches for everything before,  *)
(* or at the first candle.                                                  *)
LEMMA KeptStart == ASSUME IInv, Tables, Dates, Kept, [Next]_vars, Start PROVE Kept'
<1> USE BoundAssumption DEF None
<1>1. /\ UNCHANGED <<opened, work, row, file, cur, at, lastChecked>> /\ pc = "down" /\ pc' = "idle"
      /\ catchupFrom' = CatchupStart /\ (~abandoned' => ~abandoned)
  BY DEF Start, tables, scoring
<1> SUFFICES ASSUME ~abandoned', NEW t \in Trades, CoinOf(t) \notin late', NEW k \in 0..MaxCandle
             PROVE  KeptFor(t, k)
  BY KeptByTrade
<1>2. /\ Vouched(t, k) /\ work[t].here => Ahead(work[t], Ideal(t, k)')
      /\ Filed(k) /\ row[t].here => Ahead(row[t], Ideal(t, k)')
  BY <1>1, StillAhead
<1>3. ASSUME catchupFrom' = k + 1, work[t].here PROVE Ahead(work[t], Ideal(t, k)')
  <2>1. k \in Nat /\ now \in Nat /\ file \in Nat /\ Overlap \in Nat
    BY DEF IInv, TypeOK
  <2>2. k = 0 \/ Filed(k)
    BY <1>1, <1>3, <2>1 DEF CatchupStart, Max2, Filed
  <2>3. CASE Filed(k)
    BY <1>2, <1>3, <2>3 DEF Vouched
  <2>4. CASE k = 0
    <3>1. opened[t] \in Nat /\ opened[t] # None /\ now >= 1 /\ work[t].hits \in Nat
      BY <1>3 DEF IInv, TypeOK, Rows, Books, Settled
    <3>2. ~Setup[t].limit => work[t].fillAt # None
      BY <3>1 DEF Tables
    <3>3. Ahead(work[t], Ideal(t, k))
      BY <2>1, <2>4, <3>1, <3>2, FreshAhead DEF IInv
    <3>4. Ideal(t, k)' = Ideal(t, k)
      BY <1>1, <2>1, <2>4, <3>1, PastFrozen
    <3>5. QED
      BY <3>3, <3>4
  <2>5. QED
    BY <2>2, <2>3, <2>4
<1>4. /\ Filed(k)' => Filed(k)
      /\ Vouched(t, k)' => Vouched(t, k) \/ catchupFrom' = k + 1
  BY <1>1 DEF Vouched, Filed
<1>5. QED
  BY <1>1, <1>2, <1>3, <1>4 DEF KeptFor

(* Only the state file vouches for anything after a restart.                *)
LEMMA KeptCrash == ASSUME IInv, Dates, Kept, [Next]_vars, Crash PROVE Kept'
<1> USE BoundAssumption, TradesAssumption DEF None, NoTrade
<1>1. /\ row' \in {row, work} /\ work' = row' /\ UNCHANGED <<opened, file, abandoned>> /\ pc' = "down"
      /\ cur' = NoTrade /\ lastChecked' = [t \in Trades |-> None]
  BY DEF Crash, ForgetPass, history
<1> SUFFICES ASSUME ~abandoned', NEW t \in Trades, CoinOf(t) \notin late', NEW k \in 0..MaxCandle
             PROVE  KeptFor(t, k)
  BY KeptByTrade
<1>2. /\ Vouched(t, k) /\ work[t].here => Ahead(work[t], Ideal(t, k)')
      /\ Filed(k) /\ row[t].here => Ahead(row[t], Ideal(t, k)')
  BY <1>1, StillAhead
<1>3. Filed(k)' => Filed(k)
  BY <1>1 DEF Filed
<1>4. Vouched(t, k)' => Filed(k)'
  BY <1>1 DEF Vouched
<1>5. Filed(k) => Vouched(t, k)
  BY DEF Vouched
<1>6. QED
  BY <1>1, <1>2, <1>3, <1>4, <1>5 DEF KeptFor

(* A trade is taken where its watermark, the catch-up or its age allow.     *)
LEMMA KeptTake ==
    ASSUME IInv, Tables, Streams, Dates, NewOnes, Kept, [Next]_vars, NEW t \in Trades, Take(t) PROVE Kept'
<1> USE BoundAssumption, TradesAssumption DEF None, NoTrade
<1>1. /\ UNCHANGED <<opened, work, row, file, abandoned, late, lastChecked, catchupFrom, pc, now>>
      /\ pc = "score" /\ cur = NoTrade /\ t \in todo
      /\ \/ cur' = t /\ at' = StoredFrom(CoinOf(t), First(t)) /\ First(t) <= Newest(CoinOf(t))
         \/ UNCHANGED <<cur, at>>
  BY DEF Take, tables, history, memory, market
<1>2. /\ t # NoTrade /\ opened[t] # None /\ opened[t] \in Nat /\ CoinOf(t) \in Coins
      /\ Newest(CoinOf(t)) \in Nat /\ Newest(CoinOf(t)) <= now /\ now \in Nat
  BY <1>1, NewestIs, CoinType DEF IInv, TypeOK, Dated, Maxima
<1> SUFFICES ASSUME ~abandoned', NEW u \in Trades, CoinOf(u) \notin late', NEW k \in 0..MaxCandle
             PROVE  KeptFor(u, k)
  BY KeptByTrade
<1>3. /\ Vouched(u, k) /\ work[u].here => Ahead(work[u], Ideal(u, k)')
      /\ Filed(k) /\ row[u].here => Ahead(row[u], Ideal(u, k)')
  BY <1>1, StillAhead
<1>4. Filed(k)' => Filed(k)
  BY <1>1 DEF Filed
<1>5. u # NoTrade /\ ~abandoned
  BY <1>1
<1>6. CASE u # t \/ UNCHANGED <<cur, at>>
  <2>1. Vouched(u, k)' => Vouched(u, k)
    BY <1>1, <1>5, <1>6 DEF Vouched, Filed
  <2>2. QED
    BY <1>1, <1>3, <1>4, <2>1 DEF KeptFor
<1>7. CASE u = t /\ cur' = t /\ at' = StoredFrom(CoinOf(t), First(t)) /\ First(t) <= Newest(CoinOf(t))
  <2>1. at' = First(t) /\ First(t) \in Nat
    <3>1. First(t) \in 1..Newest(CoinOf(t))
      BY <1>2, <1>7, FirstType
    <3>2. CoinOf(t) \notin late
      BY <1>1, <1>7
    <3>3. QED
      BY <1>2, <1>7, <3>1, <3>2, InOrder DEF IInv
  <2>2. Vouched(t, k)' => Filed(k) \/ First(t) = k + 1
    BY <1>1, <1>4, <1>7, <2>1 DEF Vouched
  <2>3. ASSUME First(t) = k + 1, work[t].here PROVE Vouched(t, k) \/ k <= opened[t]
    <3>1. k \in Nat /\ now \in Nat /\ catchupFrom \in Nat /\ lastChecked[t] \in Nat
      BY DEF IInv, TypeOK
    <3>2. CASE lastChecked[t] # None
      BY <1>1, <1>2, <2>3, <3>2 DEF First, Vouched
    <3>3. CASE lastChecked[t] = None /\ catchupFrom # None
      <4>1. k + 1 = catchupFrom \/ k + 1 = opened[t] + 1
        BY <2>3, <3>3 DEF First, Floor, Max2
      <4>2. QED
        BY <1>1, <1>2, <3>1, <3>3, <4>1 DEF Vouched
    <3>4. CASE lastChecked[t] = None /\ catchupFrom = None
      <4>1. k + 1 = Newest(CoinOf(t))
        BY <2>3, <3>4 DEF First
      <4>2. opened[t] >= now - 1
        BY <1>1, <1>2, <1>5, <1>7, <2>3, <3>4 DEF NewOnes
      <4>3. QED
        BY <1>2, <3>1, <4>1, <4>2
    <3>5. QED
      BY <3>2, <3>3, <3>4
  <2>4. ASSUME k <= opened[t], First(t) = k + 1 PROVE Ahead(work[t], Ideal(t, k)')
    <3>1. work[t].hits \in Nat /\ (~Setup[t].limit => work[t].fillAt # None)
      BY <1>2 DEF IInv, TypeOK, Rows, Tables
    <3>2. Ahead(work[t], Ideal(t, k))
      BY <2>4, <3>1, FreshAhead DEF IInv
    <3>3. k < now
      BY <1>2, <1>7, <2>4
    <3>4. Ideal(t, k)' = Ideal(t, k)
      BY <1>1, <3>3, PastFrozen
    <3>5. QED
      BY <3>2, <3>4
  <2>5. Filed(k) => Vouched(t, k)
    BY DEF Vouched
  <2>6. QED
    BY <1>1, <1>3, <1>4, <1>7, <2>2, <2>3, <2>4, <2>5 DEF KeptFor
<1>8. QED
  BY <1>1, <1>6, <1>7

(* What a pass has left behind it, for a trade of a coin that has brought   *)
(* enough: all its candles up to k count.                                   *)
LEMMA PassedOver ==
    ASSUME IInv, Tables, Dates, Passing, Done, Kept, ScoringDone, ~abandoned,
           NEW t \in Trades, CoinOf(t) \notin late, work[t].here, NEW k \in 0..MaxCandle, began = k + Overlap,
           t \in active => ~Stale(CoinOf(t)) /\ Newest(CoinOf(t)) > k
    PROVE  Ahead(work[t], Ideal(t, k))
<1> USE BoundAssumption, TradesAssumption DEF None, NoTrade
<1> DEFINE last == Newest(CoinOf(t))
<1>1. /\ now \in Nat /\ now <= MaxCandle /\ opened[t] \in Nat /\ work[t].hits \in Nat /\ MaxCandle \in Nat
      /\ k \in Nat /\ catchupFrom \in Nat /\ catchupFrom <= now /\ began <= now
      /\ lastChecked[t] \in Nat /\ lastChecked[t] <= last
      /\ pc = "score" /\ cur = NoTrade /\ todo = {} /\ t # cur
  BY DEF ScoringDone, IInv, TypeOK, Dates, Rows
<1>2. last \in Nat /\ last >= 1 /\ last <= now
  BY <1>1, NewestIs, CoinType DEF IInv, Maxima
<1> HIDE DEF last
<1>3. opened[t] # None /\ (~Setup[t].limit => work[t].fillAt # None)
  BY <1>1 DEF IInv, Books, Settled, Tables
<1>4. ASSUME opened[t] >= k PROVE Ahead(work[t], Ideal(t, k))
  BY <1>1, <1>3, <1>4, FreshAhead DEF IInv
<1>5. ASSUME NEW j \in 0..MaxCandle, Vouched(t, j), k <= j PROVE Ahead(work[t], Ideal(t, k))
  <2>1. Ahead(work[t], Ideal(t, j))
    BY <1>5 DEF Kept
  <2>2. k \in 0..j
    BY <1>1, <1>5
  <2>3. QED
    BY <1>1, <2>1, <2>2, AheadBefore DEF IInv
<1>6. CASE t \notin active
  <2>1. opened[t] >= began
    BY <1>1, <1>6 DEF Passing, IInv, Books, Uncommitted, Here
  <2>2. QED
    BY <1>1, <1>4, <2>1
<1>7. CASE t \in active
  <2>1. last > k
    BY <1>7 DEF last
  <2>2. lastChecked[t] = last \/ First(t) > last
    BY <1>1, <1>7 DEF Done, last
  <2>3. CASE lastChecked[t] = last
    <3> DEFINE j == last - 1
    <3>1. j \in 0..MaxCandle /\ last = j + 1 /\ k <= j
      BY <1>1, <1>2, <2>1
    <3> HIDE DEF j
    <3>2. Vouched(t, j)
      BY <1>1, <2>3, <3>1 DEF Vouched
    <3>3. QED
      BY <1>5, <3>1, <3>2
  <2>4. CASE First(t) > last
    <3>1. lastChecked[t] = None
      BY <1>1, <1>2, <2>4 DEF First
    <3>2. catchupFrom # None
      BY <1>2, <2>4, <3>1 DEF First, last
    <3>3. catchupFrom > last \/ opened[t] >= last
      BY <1>1, <1>2, <2>4, <3>1, <3>2 DEF First, Floor, Max2
    <3>4. CASE catchupFrom > last
      <4> DEFINE j == catchupFrom - 1
      <4>1. j \in 0..MaxCandle /\ catchupFrom = j + 1 /\ k <= j
        BY <1>1, <1>2, <2>1, <3>4
      <4> HIDE DEF j
      <4>2. Vouched(t, j)
        BY <1>1, <3>1, <4>1 DEF Vouched
      <4>3. QED
        BY <1>5, <4>1, <4>2
    <3>5. CASE opened[t] >= last
      BY <1>1, <1>2, <1>4, <2>1, <3>5
    <3>6. QED
      BY <3>3, <3>4, <3>5
  <2>5. QED
    BY <2>2, <2>3, <2>4
<1>8. QED
  BY <1>6, <1>7

(* So the state file vouches for what its overlap leaves.                   *)
LEMMA KeptEndPass ==
    ASSUME IInv, Tables, Dates, Passing, Done, Kept, [Next]_vars, EndPass PROVE Kept'
<1> USE BoundAssumption, TradesAssumption DEF None, NoTrade
<1>1. /\ UNCHANGED <<opened, work, cur, at, lastChecked, now>> /\ row' = work
      /\ pc = "score" /\ cur = NoTrade /\ todo = {} /\ pc' = "idle" /\ ScoringDone
      /\ file' \in {file, began} /\ catchupFrom' \in {None, catchupFrom} /\ (~abandoned' => ~abandoned)
      /\ late' = late \cup {CoinOf(t) : t \in (IF file' = began THEN Behind ELSE {}) \cup Unseen'}
  BY DEF EndPass, ScoringDone, tables, market
<1> SUFFICES ASSUME ~abandoned', NEW t \in Trades, CoinOf(t) \notin late', NEW k \in 0..MaxCandle
             PROVE  KeptFor(t, k)
  BY KeptByTrade
<1>2. Vouched(t, k) /\ work[t].here => Ahead(work[t], Ideal(t, k)')
  BY <1>1, StillAhead
<1>3. k \in Nat /\ t # NoTrade /\ ~abandoned /\ CoinOf(t) \notin late
  BY <1>1, Ageing
<1>4. Vouched(t, k)' => Vouched(t, k) \/ Filed(k)'
  BY <1>1, <1>3 DEF Vouched
<1>5. Filed(k)' => Filed(k) \/ (file' = began /\ began = k + Overlap)
  BY <1>1 DEF Filed
<1>6. ASSUME file' = began, began = k + Overlap, work[t].here PROVE Ahead(work[t], Ideal(t, k)')
  <2>1. began \in Nat /\ now \in Nat /\ began <= now /\ k < now
    BY <1>3, <1>6 DEF IInv, TypeOK, Dates
  <2>2. ASSUME t \in active PROVE ~Stale(CoinOf(t)) /\ Newest(CoinOf(t)) > k
    <3>1. t \notin Behind
      BY <1>1, <1>6
    <3>2. ~Stale(CoinOf(t)) /\ ~(Newest(CoinOf(t)) + Overlap <= began)
      BY <1>6, <2>2, <3>1 DEF Behind
    <3>3. Newest(CoinOf(t)) \in Nat
      <4>1. CoinOf(t) \in Coins
        BY CoinType
      <4>2. Newest(CoinOf(t)) \in 1..now
        BY <4>1, NewestIs DEF IInv, Maxima
      <4>3. QED
        BY <2>1, <4>2
    <3>4. QED
      BY <1>3, <1>6, <3>2, <3>3
  <2>3. Ahead(work[t], Ideal(t, k))
    BY <1>1, <1>3, <1>6, <2>2, PassedOver
  <2>4. Ideal(t, k)' = Ideal(t, k)
    BY <1>1, <2>1, PastFrozen
  <2>5. QED
    BY <2>3, <2>4
<1>7. Filed(k) => Vouched(t, k)
  BY DEF Vouched
<1>8. QED
  BY <1>1, <1>2, <1>4, <1>5, <1>6, <1>7 DEF KeptFor

(* A scored candle is vouched for; scoring takes nothing back.              *)
LEMMA KeptScore ==
    ASSUME \A t \in Trades : Setup[t].legacy \/ Laddered(t),
           IInv, Tables, Streams, Dates, Kept, [Next]_vars, ScoreCandle
    PROVE  Kept'
<1> USE BoundAssumption, TradesAssumption DEF None, NoTrade
<1> DEFINE s == work[cur]
           c == CoinOf(cur)
           v == Verdict(cur, s, at, db[c][at])
<1>1. /\ cur \in Trades /\ cur # NoTrade /\ opened[cur] # None
      /\ c \in Coins /\ at \in 1..now /\ at <= Newest(c) /\ at # None
      /\ IdealType(s, cur) /\ IdealType(v, cur) /\ Grown(s, v)
      /\ work'[cur].here = (s.here /\ v.end = "none")
      /\ work'[cur].hits = v.hits /\ work'[cur].fillAt = v.fillAt
      /\ lastChecked'[cur] = IF v.end = "none" THEN at ELSE None
      /\ \/ cur' = NoTrade /\ at' = None /\ (v.end # "none" \/ at = Newest(c))
         \/ cur' = cur /\ at' = StoredFrom(c, at + 1) /\ v.end = "none" /\ at # Newest(c)
      /\ row' \in {row, work'}
      /\ \A u \in Trades \ {cur} : work'[u] = work[u] /\ lastChecked'[u] = lastChecked[u]
      /\ UNCHANGED <<market, opened, file, pc, catchupFrom, history>>
  BY ScoreFrame
<1>2. /\ s.hits \in Nat /\ (~Setup[cur].limit => s.fillAt # None) /\ now \in Nat /\ now <= MaxCandle
      /\ MaxCandle \in Nat /\ Newest(c) \in Nat /\ Newest(c) <= now
  <2>1. s.hits \in Nat /\ (~Setup[cur].limit => s.fillAt # None)
    BY <1>1 DEF IdealType, Tables
  <2>2. now \in Nat /\ now <= MaxCandle /\ MaxCandle \in Nat
    BY DEF IInv, TypeOK
  <2>3. Newest(c) \in 1..now
    BY <1>1, NewestIs DEF IInv, Maxima
  <2>4. QED
    BY <2>1, <2>2, <2>3
<1>3. UNCHANGED <<opened, file, pc, catchupFrom, abandoned, late>>
  BY <1>1 DEF history
<1> HIDE DEF v, s, c
<1> SUFFICES ASSUME ~abandoned', NEW t \in Trades, CoinOf(t) \notin late', NEW k \in 0..MaxCandle
             PROVE  KeptFor(t, k)
  BY KeptByTrade
<1>4. /\ Vouched(t, k) => k < now
      /\ Vouched(t, k) /\ work[t].here => Ahead(work[t], Ideal(t, k)')
      /\ Filed(k) /\ row[t].here => Ahead(row[t], Ideal(t, k)')
  BY <1>3, StillAhead
<1>5. (Filed(k)' => Filed(k)) /\ t # NoTrade /\ (Filed(k)' => Vouched(t, k)') /\ (Filed(k) => Vouched(t, k))
  BY <1>3 DEF Filed, Vouched
<1>6. Vouched(t, k)' /\ work'[t].here => Ahead(work'[t], Ideal(t, k)')
  <2>1. CASE t # cur
    <3>1. Vouched(t, k)' => Vouched(t, k)
      BY <1>1, <1>3, <1>5, <2>1 DEF Vouched
    <3>2. QED
      BY <1>1, <1>4, <2>1, <3>1
  <2>2. CASE t = cur
    <3> SUFFICES ASSUME Vouched(t, k)', work'[t].here PROVE Ahead(v, Ideal(t, k)')
      <4>1. work'[t].hits = v.hits /\ work'[t].fillAt = v.fillAt
        BY <1>1, <2>2
      <4>2. QED
        BY <4>1 DEF Ahead
    <3>1. s.here /\ v.end = "none" /\ lastChecked'[cur] = at /\ k \in Nat
      <4>1. work'[cur].here /\ k \in Nat
        BY <2>2
      <4>2. s.here /\ v.end = "none"
        BY <1>1, <4>1
      <4>3. QED
        BY <1>1, <4>1, <4>2
    <3>2. c \notin late
      BY <1>3, <2>2 DEF c
    <3>3. at # Newest(c) => at + 1 \in 1..Newest(c) /\ StoredFrom(c, at + 1) = at + 1 /\ db[c][at] = candle[c][at]
      <4> SUFFICES ASSUME at # Newest(c)
                   PROVE  at + 1 \in 1..Newest(c) /\ StoredFrom(c, at + 1) = at + 1 /\ db[c][at] = candle[c][at]
        OBVIOUS
      <4>1. at + 1 \in 1..Newest(c) /\ at \in 1..Newest(c) - 1
        BY <1>1, <1>2
      <4>2. QED
        BY <1>1, <3>2, <4>1, InOrder DEF IInv
    <3>4. Filed(k) \/ k + 1 = at \/ (at # Newest(c) /\ k = at)
      <4>1. CASE cur' = NoTrade
        BY <1>1, <1>3, <1>5, <2>2, <3>1, <4>1 DEF Vouched
      <4>2. CASE cur' = cur /\ at' = StoredFrom(c, at + 1) /\ at # Newest(c)
        BY <1>1, <1>2, <1>3, <1>5, <2>2, <3>1, <3>3, <4>2 DEF Vouched
      <4>3. QED
        BY <1>1, <4>1, <4>2
    <3>5. CASE Filed(k) \/ k + 1 = at
      <4>1. Vouched(t, k)
        BY <1>5, <2>2, <3>5 DEF Vouched
      <4>2. Ahead(s, Ideal(t, k)') /\ k < now
        BY <1>4, <2>2, <3>1, <4>1 DEF s
      <4>3. Ideal(t, k)' = Ideal(t, k)
        BY <1>3, <4>2, PastFrozen
      <4>4. Ideal(t, k).hits \in Nat
        BY IdealRow DEF IdealType, IInv
      <4>5. QED
        BY <1>1, <1>2, <3>1, <4>2, <4>3, <4>4 DEF Ahead, Grown, IdealType
    <3>6. CASE at # Newest(c) /\ k = at
      <4> DEFINE j == at - 1
      <4>1. j \in 0..MaxCandle /\ at = j + 1 /\ at \in 1..MaxCandle /\ k < now
        BY <1>1, <1>2, <3>6
      <4> HIDE DEF j
      <4>2. Vouched(t, j)
        BY <2>2, <4>1 DEF Vouched
      <4>3. ~abandoned /\ CoinOf(t) \notin late
        BY <1>3, <2>2, <3>2 DEF c
      <4>4. Ahead(s, Ideal(t, j))
        BY <2>2, <3>1, <4>1, <4>2, <4>3 DEF Kept, s
      <4>5. Ahead(v, Ideal(t, at))
        <5>1. Ahead(s, Ideal(t, at - 1))
          BY <4>4 DEF j
        <5>2. db[c][at] = candle[CoinOf(t)][at]
          BY <2>2, <3>3, <3>6 DEF c
        <5>3. v = Verdict(t, s, at, db[c][at])
          BY <2>2 DEF v
        <5>4. QED
          BY <1>1, <1>2, <2>2, <3>1, <4>1, <5>1, <5>2, <5>3, NextAhead DEF IInv
      <4>6. Ideal(t, k)' = Ideal(t, k)
        BY <1>3, <4>1, PastFrozen
      <4>7. QED
        BY <3>6, <4>5, <4>6
    <3>7. QED
      BY <3>4, <3>5, <3>6
  <2>3. QED
    BY <2>1, <2>2
<1>7. QED
  BY <1>1, <1>4, <1>5, <1>6 DEF KeptFor

(* Every step keeps what was promised.                                      *)
LEMMA KeptStep ==
    ASSUME MaxErrors = 0, \A t \in Trades : Setup[t].legacy \/ Laddered(t), IInv, HitInv, [Next]_vars
    PROVE  Kept'
<1> USE DEF HitInv
<1>1. CASE Pass
  <2>1. ASSUME NEW t \in Trades, Take(t) PROVE Kept'
    BY <2>1, KeptTake
  <2>2. QED
    BY <1>1, <2>1, KeptPoll, KeptRead, KeptScore, KeptEndPass DEF Pass
<1>2. CASE Start \/ Fault
  <2>1. ~PassError /\ ~ \E c \in Coins : ReadError(c)
    BY DEF PassError, ReadError, IInv, TypeOK
  <2>2. QED
    BY <1>2, <2>1, KeptStart, KeptCrash DEF Fault
<1>3. CASE Environment
  <2>1. ASSUME NEW t \in Trades, Post(t) \/ \E m \in Movers : MoverWrites(m, t) PROVE Kept'
    BY <2>1, KeptPost, KeptMoved
  <2>2. QED
    BY <1>3, <2>1, KeptMarket DEF Environment, MarketActs
<1>4. CASE UNCHANGED vars
  BY <1>4, KeptMarket
<1>5. QED
  BY <1>1, <1>2, <1>3, <1>4 DEF Next

(* P2.7, T-150, for any number of trades, coins and candles, any restarts   *)
(* and losses of streams: what a trade has missed between polls, while its  *)
(* coin was stale or the monitor was down has been made up for once it is   *)
(* scored up to its watermark, unless its coin's candles came too late, in  *)
(* one of the ways NoHitLost names.  Exceptions are excluded because they   *)
(* break it.  Targets and stop go one way, unless the row has none.         *)
THEOREM HitsKept ==
    ASSUME MaxErrors = 0, \A t \in Trades : Setup[t].legacy \/ Laddered(t)
    PROVE  Spec => []NoHitLost
<1>1. Init => HitInv
  BY HitInit
<1>2. IInv /\ HitInv /\ [Next]_vars => HitInv'
  BY TablesStep, StreamsStep, DatesStep, PassingStep, DoneStep, NewOnesStep, KeptStep DEF HitInv
<1>3. IInv /\ HitInv => NoHitLost
  <2> USE BoundAssumption, TradesAssumption DEF None, NoTrade
  <2> SUFFICES ASSUME IInv, HitInv, NEW t \in Trades, CoinOf(t) \notin late,
                      pc = "idle", Here(t), lastChecked[t] > opened[t], ~abandoned
               PROVE  Ahead(row[t], Ideal(t, lastChecked[t] - 1))
    BY DEF NoHitLost, Watched, NoneMissed, Ahead
  <2> DEFINE k == lastChecked[t] - 1
  <2>1. k \in 0..MaxCandle /\ lastChecked[t] = k + 1
    BY DEF IInv, TypeOK
  <2> HIDE DEF k
  <2>2. cur = NoTrade /\ work = row /\ t # NoTrade /\ work[t].here
    BY DEF IInv, Idle, HitInv, Tables, Here
  <2>3. Vouched(t, k)
    BY <2>1, <2>2 DEF Vouched
  <2>4. Ahead(row[t], Ideal(t, k))
    BY <2>1, <2>2, <2>3 DEF HitInv, Kept
  <2>5. QED
    BY <2>4 DEF k
<1>4. QED
  BY <1>1, <1>2, <1>3, Invariant, PTL DEF Spec
=============================================================================
