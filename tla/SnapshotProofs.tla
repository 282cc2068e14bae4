--------------------------- MODULE SnapshotProofs ---------------------------
(***************************************************************************)
(* Proofs about Snapshot for any number of periods, lookbacks, requests    *)
(* and faults: the type invariant, that an answer equals the database's,   *)
(* and that none is behind the candle that had closed when it was asked.   *)
(***************************************************************************)
EXTENDS Snapshot, FiniteSetTheorems, WellFoundedInduction, TLAPS

(* A frame holds the newest of the rows that were there to be read: what   *)
(* it left out is older than all it holds.                                 *)
GoodFrame(f) ==
    /\ f.rows \subseteq f.seen
    /\ \A p \in f.rows, q \in f.seen : q > p => q \in f.rows

Frames ==
    /\ \A t \in Tables : GoodFrame(store[t]) /\ GoodFrame(read[t])
    /\ GoodFrame(got) /\ GoodFrame(side)

(* Every table has a closed row to read, so a frame that is stored in the  *)
(* place of another is not empty.                                          *)
NeverEmpty ==
    /\ now >= 2 /\ \A t \in Tables : 1 \in table[t]
    /\ \A t \in Tables :
        /\ store[t].rows # {} => Lookback[t] > 0
        /\ read[t].known => (read[t].rows # {} <=> Lookback[t] > 0)
    /\ stage \in {"looked", "sliced"} => store[MainTable(req)].rows # {}

(* What the stages of a request have checked.                              *)
Checked ==
    /\ asked <= now
    /\ stage \notin {"idle", "asked"} => asked <= servedAt
    /\ stage \in {"looked", "sliced", "stamped", "answered"} => got.rows # {}
    /\ stage \in {"sliced", "stamped", "answered"} =>
        /\ FrameIsFresh(Newest(got.rows), req.end, servedAt)
        /\ Covers(got.rows, req)
        /\ Joins(side)

IInv == TypeOK /\ Frames /\ NeverEmpty /\ Checked
-----------------------------------------------------------------------------
(* A set of natural numbers has a least element, a bounded one a greatest. *)
LEMMA LeastExists ==
    ASSUME NEW S \in SUBSET Nat, S # {}
    PROVE  \E p \in S : \A q \in S : p <= q
<1> DEFINE R == OpToRel(<, Nat)
<1>1. IsWellFoundedOn(R, Nat)
  BY NatLessThanWellFounded
<1>2. \A a, b \in Nat : <<a, b>> \in R <=> a < b
  BY DEF OpToRel
<1> HIDE DEF R
<1>3. PICK p \in S : \A q \in S : <<q, p>> \notin R
  BY <1>1, WFMin
<1>4. \A q \in S : ~(q < p)
  BY <1>2, <1>3
<1>5. QED
  BY <1>3, <1>4

LEMMA GreatestExists ==
    ASSUME NEW n \in Nat, NEW S \in SUBSET (1 .. n), S # {}
    PROVE  \E p \in S : \A q \in S : q <= p
<1> DEFINE T == {n - p : p \in S}
<1>1. \A p \in S : p \in 1 .. n /\ n - p \in Nat /\ n - p \in T
  OBVIOUS
<1>2. T \in SUBSET Nat /\ T # {}
  <2>1. \A x \in T : x \in Nat
    BY <1>1
  <2>2. QED
    BY <1>1, <2>1
<1> HIDE DEF T
<1>3. PICK m \in T : \A k \in T : m <= k
  BY <1>2, LeastExists
<1>4. PICK p \in S : m = n - p
  BY DEF T
<1>5. QED
  BY <1>1, <1>3, <1>4

LEMMA PeriodsAreNumbers == \A S \in SUBSET Periods : S \in SUBSET Nat
<1>1. Last \in Nat
  BY BoundAssumption
<1>2. \A p \in 1 .. Last : p \in Nat
  BY <1>1
<1>3. QED
  BY <1>2 DEF Periods

LEMMA NewestIsGreatest ==
    ASSUME NEW S \in SUBSET Periods, S # {}
    PROVE  Newest(S) \in S /\ Newest(S) \in Nat /\ \A q \in S : q <= Newest(S)
<1>1. Last \in Nat /\ S \in SUBSET (1 .. Last)
  BY BoundAssumption DEF Periods
<1>2. \E p \in S : \A q \in S : q <= p
  BY <1>1, GreatestExists
<1>3. Newest(S) \in S /\ \A q \in S : q <= Newest(S)
  BY <1>2 DEF Newest
<1>4. S \in SUBSET Nat
  BY PeriodsAreNumbers
<1>5. QED
  BY <1>3, <1>4

LEMMA OldestIsLeast ==
    ASSUME NEW S \in SUBSET Periods, S # {}
    PROVE  Oldest(S) \in S /\ \A q \in S : Oldest(S) <= q
<1>1. S \in SUBSET Nat
  BY PeriodsAreNumbers
<1>2. \E p \in S : \A q \in S : p <= q
  BY <1>1, LeastExists
<1>3. QED
  BY <1>2 DEF Oldest

(* Sets of periods are finite, and smaller ones have fewer elements.       *)
LEMMA PeriodSets ==
    ASSUME NEW S \in SUBSET Periods
    PROVE  /\ IsFiniteSet(S) /\ Cardinality(S) \in Nat
           /\ \A T \in SUBSET S : Cardinality(T) \in Nat /\ Cardinality(T) <= Cardinality(S)
<1>1. IsFiniteSet(Periods)
  BY BoundAssumption, FS_Interval DEF Periods
<1>2. IsFiniteSet(S)
  BY <1>1, FS_Subset
<1>3. \A T \in SUBSET S : IsFiniteSet(T) /\ Cardinality(T) <= Cardinality(S)
  BY <1>2, FS_Subset
<1>4. QED
  BY <1>2, <1>3, FS_CardinalityType

(* ORDER BY ... DESC LIMIT n leaves out old rows only.                     *)
LEMMA NewestOfIsUpper ==
    ASSUME NEW S \in SUBSET Periods, NEW n \in Nat
    PROVE  /\ NewestOf(S, n) \subseteq S
           /\ \A p \in NewestOf(S, n), q \in S : q > p => q \in NewestOf(S, n)
           /\ S # {} => (NewestOf(S, n) # {} <=> n > 0)
<1> DEFINE above(p) == {q \in S : q > p}
<1>1. NewestOf(S, n) = {p \in S : Cardinality(above(p)) < n}
  BY DEF NewestOf
<1>2. \A p \in S : Cardinality(above(p)) \in Nat
  BY PeriodSets
<1>3. ASSUME NEW p \in NewestOf(S, n), NEW q \in S, q > p
      PROVE  q \in NewestOf(S, n)
  <2>0. p \in Nat /\ q \in Nat /\ \A x \in S : x \in Nat
    BY <1>1, PeriodsAreNumbers
  <2>1. above(p) \in SUBSET Periods /\ above(q) \in SUBSET above(p)
    <3>1. \A x \in S : x > q => x > p
      BY <2>0, <1>3
    <3>2. QED
      BY <3>1
  <2>2. Cardinality(above(q)) <= Cardinality(above(p)) /\ Cardinality(above(p)) < n
    BY <2>1, <1>1, PeriodSets
  <2>3. p \in S
    BY <1>1
  <2> HIDE DEF above
  <2>4. Cardinality(above(q)) < n
    BY <2>2, <2>3, <1>2
  <2>5. QED
    BY <2>4, <1>1
<1>4. ASSUME S # {} PROVE NewestOf(S, n) # {} <=> n > 0
  <2>1. above(Newest(S)) = {} /\ Newest(S) \in S
    <3>1. Newest(S) \in S /\ Newest(S) \in Nat /\ \A q \in S : q \in Nat /\ q <= Newest(S)
      BY <1>4, NewestIsGreatest, PeriodsAreNumbers
    <3>2. QED
      BY <3>1
  <2>2. Cardinality(above(Newest(S))) = 0
    BY <2>1, FS_EmptySet
  <2> HIDE DEF above
  <2>3. n > 0 => Newest(S) \in NewestOf(S, n)
    BY <2>1, <2>2, <1>1
  <2>4. n = 0 => NewestOf(S, n) = {}
    BY <1>1, <1>2
  <2>5. QED
    BY <2>3, <2>4
<1>5. QED
  BY <1>1, <1>3, <1>4

(* A frame that covers a request gives the answer of the database.         *)
LEMMA FrameAnswers ==
    ASSUME NEW f \in Frame, NEW r \in Request, GoodFrame(f), f.rows # {}, Covers(f.rows, r)
    PROVE  Rows(r, f) = Query(f.seen, r)
<1> DEFINE A == InWindow(f.rows, r)
           D == InWindow(f.seen, r)
           above(S, p) == {q \in S : q > p}
<1>1. /\ f.rows \in SUBSET Periods /\ f.seen \in SUBSET Periods
      /\ \A p \in f.rows : p \in Nat
      /\ \A p \in f.seen : p \in Nat
  BY PeriodsAreNumbers DEF Frame
<1>2. A \in SUBSET D /\ D \in SUBSET f.seen /\ D \in SUBSET Periods /\ A \in SUBSET f.rows
  BY <1>1 DEF InWindow, GoodFrame
<1>3. \A p \in D \ A : p \in f.seen \ f.rows
  BY DEF InWindow
<1>4. r.limit \in Nat /\ r.start \in Nat
  BY DEF Request
<1>5. Rows(r, f) = NewestOf(A, r.limit) /\ Query(f.seen, r) = NewestOf(D, r.limit)
  BY DEF Rows, Query
<1>6. CASE r.start >= Oldest(f.rows)
  <2>1. Oldest(f.rows) \in f.rows
    BY <1>1, OldestIsLeast
  <2>2. ASSUME NEW p \in D \ A PROVE FALSE
    <3>1. p \in f.seen /\ p \notin f.rows /\ p >= r.start
      BY <1>3 DEF InWindow
    <3>2. p >= Oldest(f.rows) /\ p # Oldest(f.rows)
      BY <3>1, <2>1, <1>1, <1>4, <1>6
    <3>3. p > Oldest(f.rows)
      BY <3>1, <3>2, <2>1, <1>1
    <3>4. QED
      BY <3>1, <3>3, <2>1 DEF GoodFrame
  <2>3. A = D
    BY <1>2, <2>2
  <2>4. QED
    BY <1>5, <2>3
<1>7. CASE Cardinality(A) >= r.limit
  <2>1. \A p \in A : above(D, p) = above(A, p)
    BY <1>1, <1>2, <1>3 DEF GoodFrame
  <2>2. ASSUME NEW p \in D \ A PROVE ~(Cardinality(above(D, p)) < r.limit)
    <3>1. A \in SUBSET above(D, p)
      <4>1. ASSUME NEW q \in A PROVE q > p
        <5>1. q \in f.rows /\ p \in f.seen /\ p \notin f.rows /\ p \in Nat /\ q \in Nat
          BY <1>1, <1>2, <1>3
        <5>2. ~(p > q) /\ p # q
          BY <5>1 DEF GoodFrame
        <5>3. QED
          BY <5>1, <5>2
      <4>2. QED
        BY <1>2, <4>1
    <3>2. above(D, p) \in SUBSET Periods
      BY <1>2
    <3> HIDE DEF A, D, above
    <3>3. Cardinality(A) <= Cardinality(above(D, p)) /\ Cardinality(A) \in Nat
          /\ Cardinality(above(D, p)) \in Nat
      BY <3>1, <3>2, PeriodSets
    <3>4. QED
      BY <3>3, <1>7, <1>4
  <2>3. NewestOf(A, r.limit) = {p \in A : Cardinality(above(A, p)) < r.limit}
        /\ NewestOf(D, r.limit) = {p \in D : Cardinality(above(D, p)) < r.limit}
    BY DEF NewestOf
  <2> HIDE DEF A, D, above
  <2>4. NewestOf(A, r.limit) = NewestOf(D, r.limit)
    BY <1>2, <2>1, <2>2, <2>3
  <2>5. QED
    BY <1>5, <2>4
<1>8. QED
  BY <1>6, <1>7 DEF Covers
-----------------------------------------------------------------------------
LEMMA Basics ==
    /\ NoFrame \in Frame /\ GoodFrame(NoFrame)
    /\ NoRequest \in Request
    /\ \A r : MainTable(r) \in Tables
    /\ 1 \in Periods /\ Last \in Nat /\ Last >= 1
BY BoundAssumption
   DEF NoFrame, Frame, GoodFrame, NoRequest, Request, Kinds, Tables, MainTable, Periods

(* Nothing is in the store at first.                                       *)
LEMMA InitHolds == Init => IInv
<1> SUFFICES ASSUME Init PROVE IInv
  OBVIOUS
<1> USE Basics DEF Init
<1>1. TypeOK
  BY BoundAssumption DEF TypeOK
<1>2. Frames
  BY DEF Frames
<1>3. NeverEmpty
  BY DEF NeverEmpty, NoFrame
<1>4. Checked
  BY DEF Checked
<1>5. QED
  BY <1>1, <1>2, <1>3, <1>4 DEF IInv

(* A frame that is read holds the newest closed rows of its table.         *)
LEMMA ReadIsGood ==
    ASSUME IInv, NEW t \in Tables, ReadFrame(t)
    PROVE  /\ read'[t] \in Frame /\ GoodFrame(read'[t]) /\ read'[t].known
           /\ read'[t].rows # {} <=> Lookback[t] > 0
<1> DEFINE seen == Closed(table[t], now)
           rows == NewestOf(seen, Lookback[t])
<1>1. Lookback[t] \in Nat
  BY LookbackAssumption
<1>2. seen \in SUBSET Periods /\ 1 \in seen
  BY DEF IInv, TypeOK, NeverEmpty, Closed
<1>3. /\ rows \subseteq seen
      /\ \A p \in rows, q \in seen : q > p => q \in rows
      /\ rows # {} <=> Lookback[t] > 0
  <2> HIDE DEF seen
  <2>1. QED
    BY <1>1, <1>2, NewestOfIsUpper
<1>4. read'[t] = [known |-> TRUE, rows |-> rows, seen |-> seen]
  BY DEF ReadFrame, IInv, TypeOK
<1> HIDE DEF rows, seen
<1>5. QED
  BY <1>2, <1>3, <1>4 DEF Frame, GoodFrame

(* The surroundings and the service keep the types.                        *)
LEMMA TypesKept == IInv /\ [Next]_vars => TypeOK'
<1> SUFFICES ASSUME IInv, [Next]_vars PROVE TypeOK'
  OBVIOUS
<1> USE Basics, BoundAssumption DEF IInv, TypeOK
<1>1. CASE UNCHANGED vars
  BY <1>1 DEF vars, sweeping, asking, counters
<1>2. CASE Tick
  BY <1>2 DEF Tick, sweeping, asking, counters
<1>3. ASSUME NEW p \in Periods, Ingest(p) PROVE TypeOK'
  BY <1>3 DEF Ingest, sweeping, asking, counters
<1>4. ASSUME NEW p \in Periods, Compute(p) PROVE TypeOK'
  BY <1>4 DEF Compute, sweeping, asking, counters
<1>5. CASE Sweep
  BY <1>5 DEF Sweep, DueKeys, asking, counters
<1>6. ASSUME NEW t \in Tables, ReadFrame(t) PROVE TypeOK'
  <2>1. read'[t] \in Frame
    BY <1>6, ReadIsGood
  <2>2. read' = [read EXCEPT ![t] = read'[t]]
    BY <1>6 DEF ReadFrame
  <2>3. QED
    BY <1>6, <2>1, <2>2 DEF ReadFrame, asking, counters
<1>7. ASSUME NEW t \in Tables, ReadFails(t) PROVE TypeOK'
  BY <1>7 DEF ReadFails, asking
<1>8. ASSUME NEW t \in Tables, Put(t) PROVE TypeOK'
  BY <1>8 DEF Put, asking, counters
<1>9. ASSUME NEW t \in Tables, BackoffEnds(t) PROVE TypeOK'
  BY <1>9 DEF BackoffEnds, sweeping, asking, counters
<1>10. CASE Crash
  <2>1. crashes' \in 0 .. MaxCrashes
    BY <1>10 DEF Crash
  <2>2. /\ stage' \in {"idle", "asked", "taken", "looked", "sliced", "stamped", "answered"}
        /\ req' \in Request /\ asked' \in Nat /\ servedAt' \in Nat
        /\ got' \in Frame /\ side' \in Frame /\ stamp' \in Nat
    BY <1>10 DEF Crash, asking, NoneAsking
  <2>3. store' \in [Tables -> Frame] /\ read' \in [Tables -> Frame]
    BY <1>10 DEF Crash
  <2>4. QED
    BY <1>10, <2>1, <2>2, <2>3 DEF Crash
<1>11. CASE Start
  BY <1>11 DEF Start, sweeping, asking, counters
<1>12. ASSUME NEW r \in Requests, Ask(r) PROVE TypeOK'
  BY <1>12, RequestAssumption DEF Ask, sweeping, counters
<1>13. CASE Take
  BY <1>13 DEF Take, sweeping, counters
<1>14. CASE Look
  BY <1>14 DEF Look, sweeping, counters
<1>15. CASE Slice
  BY <1>15 DEF Slice, sweeping, counters, Tables
<1>16. CASE Stamp
  <2>1. store[MainTable(req)].rows \in SUBSET Periods /\ store[MainTable(req)].rows # {}
    BY <1>16 DEF Stamp, NeverEmpty, Frame
  <2>2. stamp' \in Nat
    BY <1>16, <2>1, NewestIsGreatest DEF Stamp
  <2>3. QED
    BY <1>16, <2>2 DEF Stamp, sweeping, counters
<1>17. CASE Receive
  BY <1>17 DEF Receive, sweeping, counters
<1>18. CASE GoToDatabase
  BY <1>18 DEF GoToDatabase, NoneAsking, sweeping, counters
<1>19. CASE Use
  BY <1>19 DEF Use, NoneAsking, sweeping, counters
<1>20. QED
  BY <1>1, <1>2, <1>3, <1>4, <1>5, <1>6, <1>7, <1>8, <1>9, <1>10, <1>11, <1>12, <1>13,
     <1>14, <1>15, <1>16, <1>17, <1>18, <1>19 DEF Next

(* The surroundings leave the service and the request alone.               *)
LEMMA SurroundingsKeep ==
    ASSUME IInv, Tick \/ \E p \in Periods : Ingest(p) \/ Compute(p)
    PROVE  Frames' /\ NeverEmpty' /\ Checked'
<1>1. /\ UNCHANGED <<store, read, stage, req, asked, servedAt, got, side>>
      /\ now' >= now /\ \A t \in Tables : table[t] \subseteq table'[t]
  BY DEF Tick, Ingest, Compute, IInv, TypeOK, sweeping, asking, counters
<1>2. now \in Nat /\ now' \in Nat /\ asked \in Nat
  BY BoundAssumption DEF IInv, TypeOK, Tick, Ingest, Compute
<1>3. Frames'
  BY <1>1 DEF Frames, IInv, GoodFrame
<1>4. NeverEmpty'
  BY <1>1, <1>2 DEF NeverEmpty, IInv, MainTable
<1>5. Checked'
  <2>1. asked' <= now'
    BY <1>1, <1>2 DEF Checked, IInv
  <2>2. /\ Covers(got.rows, req)' <=> Covers(got.rows, req)
        /\ Joins(side)' <=> Joins(side)
        /\ FrameIsFresh(Newest(got.rows), req.end, servedAt)'
             <=> FrameIsFresh(Newest(got.rows), req.end, servedAt)
    BY <1>1 DEF Covers, Joins, Rows, Query, InWindow, NewestOf, FrameIsFresh, Required,
       AtMost, Newest, Oldest
  <2>3. QED
    BY <1>1, <2>1, <2>2 DEF Checked, IInv
<1>6. QED
  BY <1>3, <1>4, <1>5

(* A sweep puts good frames in place of good frames.                       *)
LEMMA ServiceKeeps ==
    ASSUME IInv,
           \/ Sweep \/ Start
           \/ \E t \in Tables : ReadFrame(t) \/ ReadFails(t) \/ Put(t) \/ BackoffEnds(t)
    PROVE  Frames' /\ NeverEmpty' /\ Checked'
<1>1. UNCHANGED <<now, table, stage, req, asked, servedAt, got, side>>
  BY DEF Sweep, Start, ReadFrame, ReadFails, Put, BackoffEnds, asking
<1>2. \A t \in Tables :
        /\ read'[t] = read[t] \/ ReadFrame(t) \/ read'[t] = NoFrame
        /\ store'[t] = store[t] \/ (read[t].known /\ store'[t] = read[t])
  BY DEF Sweep, Start, ReadFrame, ReadFails, Put, BackoffEnds, sweeping, IInv, TypeOK
<1>3. \A t \in Tables :
        /\ GoodFrame(read'[t])
        /\ read'[t].known => (read'[t].rows # {} <=> Lookback[t] > 0)
  BY <1>2, ReadIsGood, Basics DEF IInv, Frames, NeverEmpty, NoFrame
<1>4. \A t \in Tables :
        /\ GoodFrame(store'[t])
        /\ store'[t].rows # {} => Lookback[t] > 0
        /\ store[t].rows # {} => store'[t].rows # {}
  BY <1>2 DEF IInv, Frames, NeverEmpty
<1>5. Frames'
  BY <1>1, <1>3, <1>4 DEF Frames, IInv, GoodFrame
<1>6. NeverEmpty'
  <2>1. MainTable(req) \in Tables /\ MainTable(req)' = MainTable(req)
    BY <1>1, Basics DEF MainTable
  <2>2. QED
    BY <1>1, <1>3, <1>4, <2>1 DEF NeverEmpty, IInv
<1>7. Checked'
  BY <1>1 DEF Checked, IInv, Covers, Joins, Rows, Query, InWindow, NewestOf,
     FrameIsFresh, Required, AtMost, Newest, Oldest
<1>8. QED
  BY <1>5, <1>6, <1>7

(* A crash breaks a request off, unless its answer has left.               *)
LEMMA CrashKeeps ==
    ASSUME IInv, Crash
    PROVE  Frames' /\ NeverEmpty' /\ Checked'
<1>1. /\ UNCHANGED <<now, table>>
      /\ \A t \in Tables : store'[t] = NoFrame /\ read'[t] = NoFrame
  BY DEF Crash
<1>2. CASE stage = "answered"
  <2>1. UNCHANGED <<stage, req, asked, servedAt, got, side>>
    BY <1>2 DEF Crash, asking
  <2>2. Frames'
    BY <1>1, <2>1, Basics DEF Frames, IInv, GoodFrame
  <2>3. NeverEmpty'
    BY <1>1, <1>2, <2>1 DEF NeverEmpty, IInv, NoFrame
  <2>4. Checked'
    BY <1>1, <2>1 DEF Checked, IInv, Covers, Joins, Rows, Query, InWindow, NewestOf,
       FrameIsFresh, Required, AtMost, Newest, Oldest
  <2>5. QED
    BY <2>2, <2>3, <2>4
<1>3. CASE stage # "answered"
  <2>1. stage' = "idle" /\ asked' = 0 /\ got' = NoFrame /\ side' = NoFrame
    BY <1>3 DEF Crash, NoneAsking
  <2>2. Frames'
    BY <1>1, <2>1, Basics DEF Frames
  <2>3. NeverEmpty'
    BY <1>1, <2>1 DEF NeverEmpty, IInv, NoFrame
  <2>4. Checked'
    BY <1>1, <2>1 DEF Checked, IInv, NeverEmpty, TypeOK
  <2>5. QED
    BY <2>2, <2>3, <2>4
<1>4. QED
  BY <1>2, <1>3

(* Ends of a request.                                                      *)
LEMMA EndKeeps ==
    ASSUME IInv, GoToDatabase \/ Use
    PROVE  Frames' /\ NeverEmpty' /\ Checked'
<1>1. /\ UNCHANGED <<now, table, store, read>>
      /\ stage' = "idle" /\ asked' = 0 /\ got' = NoFrame /\ side' = NoFrame
  BY DEF GoToDatabase, Use, NoneAsking, sweeping
<1>2. Frames'
  BY <1>1, Basics DEF Frames, IInv, GoodFrame
<1>3. NeverEmpty'
  BY <1>1 DEF NeverEmpty, IInv
<1>4. Checked'
  BY <1>1 DEF Checked, IInv, NeverEmpty, TypeOK
<1>5. QED
  BY <1>2, <1>3, <1>4

(* Every stage of a request adds what it has checked.                      *)
LEMMA StagesKeep ==
    ASSUME IInv,
           (\E r \in Requests : Ask(r)) \/ Take \/ Look \/ Slice \/ Stamp \/ Receive
    PROVE  Frames' /\ NeverEmpty' /\ Checked'
<1>1. UNCHANGED <<now, table, store, read>>
  BY DEF Ask, Take, Look, Slice, Stamp, Receive, sweeping
<1>2. MainTable(req) \in Tables /\ asked \in Nat /\ now \in Nat
  BY Basics DEF IInv, TypeOK
<1>3. Frames'
  BY <1>1, <1>2, Basics DEF Ask, Take, Look, Slice, Stamp, Receive, Frames, IInv, GoodFrame, Tables
<1>4. NeverEmpty'
  <2>1. CASE Look \/ Slice
    <3>1. store[MainTable(req)].rows # {} /\ req' = req
      BY <2>1 DEF Look, Slice, IInv, NeverEmpty
    <3>2. QED
      BY <1>1, <3>1 DEF NeverEmpty, IInv, MainTable
  <2>2. CASE stage' \notin {"looked", "sliced"}
    BY <1>1, <2>2 DEF NeverEmpty, IInv
  <2>3. QED
    BY <2>1, <2>2 DEF Ask, Take, Look, Slice, Stamp, Receive
<1>5. Checked'
  <2>1. ASSUME NEW r \in Requests, Ask(r) PROVE Checked'
    BY <1>2, <2>1 DEF Ask, Checked
  <2>2. CASE Take
    BY <1>2, <2>2 DEF Take, Checked, IInv
  <2>3. CASE Look
    BY <2>3 DEF Look, Checked, IInv
  <2>4. CASE Slice
    <3>1. UNCHANGED <<now, asked, servedAt, got, req>> /\ stage = "looked" /\ stage' = "sliced"
      BY <2>4 DEF Slice
    <3>2. /\ FrameIsFresh(Newest(got.rows), req.end, servedAt)' /\ Covers(got.rows, req)'
          /\ Joins(side)'
      BY <2>4, <3>1 DEF Slice, Covers, Joins, Rows, Query, InWindow, NewestOf, FrameIsFresh,
         Required, AtMost, Newest, Oldest
    <3>3. QED
      BY <3>1, <3>2 DEF Checked, IInv
  <2>5. CASE Stamp \/ Receive
    <3>1. UNCHANGED <<now, asked, servedAt, got, side, req>> /\ stage \in {"sliced", "stamped"}
      BY <2>5 DEF Stamp, Receive
    <3>2. QED
      BY <3>1 DEF Checked, IInv, Covers, Joins, Rows, Query, InWindow, NewestOf,
         FrameIsFresh, Required, AtMost, Newest, Oldest
  <2>6. QED
    BY <2>1, <2>2, <2>3, <2>4, <2>5
<1>6. QED
  BY <1>3, <1>4, <1>5

LEMMA StepKeeps == IInv /\ [Next]_vars => IInv'
<1> SUFFICES ASSUME IInv, [Next]_vars PROVE IInv'
  OBVIOUS
<1>1. TypeOK'
  BY TypesKept
<1>2. CASE UNCHANGED vars
  BY <1>2 DEF vars, sweeping, asking, counters, IInv, TypeOK, Frames, GoodFrame, NeverEmpty,
     MainTable, Checked, Covers, Joins, Rows, Query, InWindow, NewestOf, FrameIsFresh,
     Required, AtMost, Newest, Oldest
<1>3. ASSUME Next PROVE IInv'
  BY <1>1, <1>3, SurroundingsKeep, ServiceKeeps, CrashKeeps, EndKeeps, StagesKeep DEF Next, IInv
<1>4. QED
  BY <1>2, <1>3

LEMMA Inductive == Spec => []IInv
<1>1. Init => IInv
  BY InitHolds
<1>2. IInv /\ [Next]_vars => IInv'
  BY StepKeeps
<1>3. QED
  BY <1>1, <1>2, PTL DEF Spec
-----------------------------------------------------------------------------
(* The variables keep their types; the watermark of a response is that of  *)
(* a frame, whatever frame has taken its place.                            *)
THEOREM TypeCorrect == Spec => []TypeOK
<1>1. IInv => TypeOK
  BY DEF IInv
<1>2. QED
  BY <1>1, Inductive, PTL

(* An answer is the one the database would have given when the frames were *)
(* read.                                                                   *)
THEOREM AnswersEqual == Spec => []SameAsDatabase
<1>1. IInv => SameAsDatabase
  <2>1. SUFFICES ASSUME IInv, stage = "answered"
                 PROVE  /\ Rows(req, got) = Query(got.seen, req)
                        /\ req.kind = "joined" => Rows(req, got) \subseteq side.seen
    BY DEF SameAsDatabase
  <2>2. got \in Frame /\ req \in Request /\ GoodFrame(got) /\ got.rows # {}
        /\ Covers(got.rows, req) /\ Joins(side) /\ GoodFrame(side)
    BY <2>1 DEF IInv, TypeOK, Frames, Checked
  <2>3. Rows(req, got) = Query(got.seen, req)
    BY <2>2, FrameAnswers
  <2>4. QED
    BY <2>2, <2>3 DEF Joins, GoodFrame
<1>2. QED
  BY <1>1, Inductive, PTL

(* An answer reaches the last candle that had closed when it was asked.    *)
THEOREM AnswersFresh == Spec => []NeverBehind
<1>1. IInv => NeverBehind
  <2>1. SUFFICES ASSUME IInv, stage = "answered", req.end >= asked
                 PROVE  Newest(got.rows) >= asked - 1
    BY DEF NeverBehind
  <2>2. got.rows \in SUBSET Periods /\ got.rows # {} /\ asked <= servedAt
        /\ FrameIsFresh(Newest(got.rows), req.end, servedAt)
        /\ asked \in Nat /\ servedAt \in Nat /\ req.end \in Nat
    BY <2>1 DEF IInv, TypeOK, Frame, Request, Checked
  <2>3. Newest(got.rows) \in Nat
    BY <2>2, NewestIsGreatest
  <2>4. AtMost(servedAt, req.end) >= asked /\ AtMost(servedAt, req.end) \in Nat
    BY <2>1, <2>2 DEF AtMost
  <2>5. Newest(got.rows) >= AtMost(servedAt, req.end) - 1
    BY <2>2 DEF FrameIsFresh, Required
  <2>6. QED
    BY <2>2, <2>3, <2>4, <2>5
<1>2. QED
  BY <1>1, Inductive, PTL
=============================================================================
