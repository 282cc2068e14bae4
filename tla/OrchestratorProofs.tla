------------------------- MODULE OrchestratorProofs -------------------------
(***************************************************************************)
(* Proofs about Orchestrator for any trades, signals, coins, bots, regimes *)
(* and bounds.  Base is kept whatever the table holds at the start; the    *)
(* rest of the invariant if no two of the trades open then share a coin,   *)
(* which those from before P2.26 may do.                                   *)
(***************************************************************************)
EXTENDS Orchestrator, FiniteSetTheorems, WellFoundedInduction, TLAPS

Traded(t) == status[t] # "none"

(* There are not infinitely many signals, so there is a greatest id.        *)
Bounded == \E b \in Nat : \A s \in Visible : s <= b

(* A trade that was never opened has no twin and no outcome; an outcome     *)
(* ends the twin; an open trade has one of them.                            *)
Accounted ==
    /\ \A t \in Trades : ~Traded(t) => ~twin[t] /\ booked[t] = 0
    /\ \A t \in Trades : booked[t] > 0 => ~twin[t]
    /\ \A t \in Trades : Open(t) => twin[t] \/ booked[t] > 0 \/ deletions > 0
    /\ \A t \in rows : Traded(t)

(* No row or only later rows are read of a signal that became a trade.      *)
Consumed ==
    /\ scan \subseteq Visible
    /\ pc = "gate" => ready
    /\ \A t \in Trades : Traded(t) => origin[t] \in Visible \ scan
    /\ \A t \in Trades : Traded(t) /\ ready => signal[origin[t]] = "stale" \/ origin[t] <= cursor

PassPhases == {"pass", "markTrailed", "markClosed", "forceRead", "force"}
Undecided == todo \cup toTrail \cup toClose

(* The work list of a re-judging pass: disjoint, of open trades not trailed *)
(* before, save the one that is just closed; the coins trailed have a       *)
(* winner.                                                                  *)
Planned ==
    /\ pc \notin PassPhases => toTrail = {} /\ toClose = {}
    /\ pc \in PassPhases \ {"pass"} => cur \in Trades
    /\ pc \in {"markTrailed", "markClosed", "forceRead", "force"} => todo = {}
    /\ pc = "markTrailed" => cur \in toTrail
    /\ pc \in {"markClosed", "forceRead", "force"} => toTrail = {} /\ cur \in toClose
    /\ pc \in {"forceRead", "force"} => Traded(cur) /\ ~Open(cur)
    /\ toTrail \cap toClose = {} /\ todo \cap (toTrail \cup toClose) = {}
    /\ pc \in PassPhases =>
         /\ \A t \in Undecided : t \in Candidates \/ (pc \in {"forceRead", "force"} /\ t = cur)
         /\ \A c \in trailed : \E x \in Trades : Open(x) /\ action[x] = "TRAILED" /\ CoinOf(x) = c

(* A Close reaches trades only, among them the one closed next.             *)
Posted ==
    /\ \A t \in told : Traded(t)
    /\ ClosedMeansTold
    /\ pc = "markClosed" => cur \in told

(* Before any fault the one open trade a Close reached is closed next.      *)
Reached == crashes + errors = 0 => \A t \in told : Open(t) => pc = "markClosed" /\ cur = t

(* TwinIsTracked, and no twin of the trade that is being closed is missed.  *)
Tracked ==
    /\ TwinIsTracked
    /\ crashes + errors = 0 /\ pc = "force" /\ twin[cur] => cur \in rows

(* Before any exception: a candidate is still to be judged, or the regime   *)
(* it was judged by is known or current.                                    *)
Allows(bot, direction, r) == Cell[bot, direction, r]
Allowed(t) == \E r \in {known, regime} : Allows(BotOf(t), DirectionOf(t), r)
Judged ==
    /\ ~MayBeUnstable => ~unstable
    /\ errors = 0 /\ pc # "down" =>
         /\ known \in Regimes
         /\ MayBeUnstable \/ \A t \in Candidates : (pc \in PassPhases /\ t \in Undecided) \/ Allowed(t)

Base == TypeOK /\ Bounded /\ Accounted /\ Consumed /\ Planned /\ Posted /\ Tracked
IInv == Base /\ OneOpenPerCoin /\ Reached /\ Judged

(* What the table must hold at the start for more than Base.                *)
LegacyApart ==
    \A t, x \in Legacy : SignalOf[LegacyOrigin[t]].coin = SignalOf[LegacyOrigin[x]].coin => t = x
LegacyOnce == \A t, x \in Legacy : LegacyOrigin[t] = LegacyOrigin[x] => t = x
-----------------------------------------------------------------------------
(* MaxId is the greatest of a bounded set of ids.                           *)
LEMMA MaxIdIsGreatest ==
    ASSUME NEW S \in SUBSET Nat, NEW b \in Nat, \A s \in S : s <= b
    PROVE  MaxId(S) \in Nat /\ \A s \in S : s <= MaxId(S)
<1>1. CASE S = {}
  BY <1>1 DEF MaxId
<1>2. CASE S # {}
  <2> DEFINE U == {u \in Nat : \A s \in S : s <= u}
  <2>1. b \in U /\ U \in SUBSET Nat
    OBVIOUS
  <2>2. PICK u \in U : \A w \in U : u <= w
    <3> HIDE DEF U
    <3> DEFINE R == OpToRel(<, Nat)
    <3>1. \A x, y \in Nat : x < y => <<x, y>> \in R
      BY DEF OpToRel
    <3> HIDE DEF R
    <3>2. IsWellFoundedOn(R, Nat)
      BY NatLessThanWellFounded DEF R
    <3>3. PICK u \in U : \A w \in U : <<w, u>> \notin R
      BY <2>1, <3>2, WFMin
    <3>4. ASSUME NEW w \in U PROVE u <= w
      <4>1. w \in Nat /\ u \in Nat
        BY <2>1
      <4>2. ~(w < u)
        BY <3>1, <3>3, <4>1, Zenon
      <4>3. QED
        BY <4>1, <4>2
    <3>5. QED
      BY <3>4
  <2>3. u \in Nat /\ \A s \in S : s \in Nat /\ s <= u
    OBVIOUS
  <2>4. u \in S
    <3>1. SUFFICES ASSUME u \notin S PROVE FALSE
      OBVIOUS
    <3>2. \A s \in S : s <= u - 1
      BY <2>3, <3>1
    <3>3. u - 1 \in Nat
      <4>1. PICK s \in S : TRUE
        BY <1>2
      <4>2. s \in Nat /\ s <= u - 1
        BY <2>3, <3>2
      <4>3. QED
        BY <2>3, <4>2
    <3>4. u - 1 \in U
      BY <3>2, <3>3
    <3>5. QED
      BY <2>2, <2>3, <3>4
  <2>5. \E m \in S : \A n \in S : n <= m
    BY <2>3, <2>4
  <2>6. QED
    BY <1>2, <2>5 DEF MaxId
<1>3. QED
  BY <1>1, <1>2

(* Type correctness is kept.                                                *)
LEMMA TypeStep == Base /\ [Next]_vars => TypeOK'
<1> SUFFICES ASSUME TypeOK, Bounded, Accounted, Planned, [Next]_vars PROVE TypeOK'
  BY DEF Base
<1> USE TradesAssumption, SignalAssumption, GateAssumption, BoundAssumption
        DEF TypeOK, Phases, Statuses, NoTrade
<1>1. ASSUME NEW s \in Signals, PostSignal(s) \/ SignalAges(s) PROVE TypeOK'
  <2>1. UNCHANGED <<status, action, origin, twin, booked, cooling, regime,
                    unstable, old, pc, known, ready, cursor, scan, todo, toTrail, toClose,
                    trailed, cur, rows, boot, told, unjudged, crashes, errors, deletions>>
    BY <1>1 DEF PostSignal, SignalAges, table, twins, market, memory, gating, pass, history, faults
  <2>2. signal' \in [Signals -> {"none", "fresh", "stale"}]
    BY <1>1 DEF PostSignal, SignalAges
  <2>3. QED
    BY <2>1, <2>2
<1>2. ASSUME CooldownEnds \/ RegimeChanges \/ StabilityChanges PROVE TypeOK'
  <2>1. UNCHANGED <<status, action, origin, twin, booked, signal, old, pc, known,
                    ready, cursor, scan, todo, toTrail, toClose, trailed, cur, rows, boot,
                    told, unjudged, crashes, errors, deletions>>
    BY <1>2 DEF CooldownEnds, RegimeChanges, StabilityChanges, table, twins, market, memory, gating, pass, history, faults
  <2>2. cooling' \subseteq cooling
    BY <1>2 DEF CooldownEnds, RegimeChanges, StabilityChanges
  <2>3. regime' \in Regimes
    BY <1>2 DEF CooldownEnds, RegimeChanges, StabilityChanges
  <2>4. unstable' \in BOOLEAN
    BY <1>2 DEF CooldownEnds, RegimeChanges, StabilityChanges
  <2>5. QED
    BY <2>1, <2>2, <2>3, <2>4
<1>3. ASSUME NEW t \in Trades, TradeGetsOld(t) PROVE TypeOK'
  BY <1>3 DEF TradeGetsOld, table, twins, memory, gating, pass, history, faults
<1>4. ASSUME NEW t \in Trades, MonitorCloses(t) PROVE TypeOK'
  BY <1>4 DEF MonitorCloses, Book, table, market, memory, gating, pass, history, faults
<1>5. ASSUME NEW t \in Trades, TwinDeleted(t) PROVE TypeOK'
  BY <1>5 DEF TwinDeleted, table, market, memory, gating, pass, history
<1>6. ASSUME Start \/ Flip PROVE TypeOK'
  <2>1. CASE Start
    BY <2>1 DEF Start, BeginPass, Candidates, table, twins, market, gating, history, faults
  <2>2. CASE Flip
    BY <2>2 DEF Flip, BeginPass, Candidates, table, twins, market, gating, faults
  <2>3. QED
    BY <1>6, <2>1, <2>2
<1>7. ASSUME NoFlip PROVE TypeOK'
  BY <1>7 DEF NoFlip, table, twins, market, gating, pass, history, faults
<1>8. ASSUME NEW t \in Trades, Judge(t) PROVE TypeOK'
  <2>1. UNCHANGED <<status, action, origin, twin, booked, signal, cooling, regime,
                    unstable, old, pc, known, ready, cursor, scan, trailed, cur, rows, boot,
                    told, unjudged, crashes, errors, deletions>>
    BY <1>8 DEF Judge, table, twins, market, memory, gating, pass, history, faults
  <2>2. todo' \subseteq Trades /\ toTrail' \subseteq Trades /\ toClose' \subseteq Trades
    <3>1. todo' = todo \ {t} /\ toTrail' \in {toTrail, toTrail \cup {t}} /\ toClose' \in {toClose, toClose \cup {t}}
      BY <1>8 DEF Judge
    <3>2. QED
      BY <3>1
  <2>3. QED
    BY <2>1, <2>2
<1>9. ASSUME NEW t \in Trades, SendTrail(t) \/ DeferClose(t) PROVE TypeOK'
  <2>1. UNCHANGED <<status, action, origin, twin, booked, signal, cooling, regime,
                    unstable, old, known, ready, cursor, scan, todo, toTrail, trailed, rows,
                    boot, told, unjudged, crashes, errors, deletions>>
    BY <1>9 DEF SendTrail, DeferClose, table, twins, market, memory, gating, pass, history, faults
  <2>2. pc' \in Phases /\ cur' \in Trades \cup {NoTrade} /\ toClose' \subseteq Trades
    BY <1>9 DEF SendTrail, DeferClose
  <2>3. QED
    BY <2>1, <2>2
<1>10. ASSUME MarkTrailed PROVE TypeOK'
  <2>1. UNCHANGED <<status, origin, twin, booked, signal, cooling, regime,
                    unstable, old, known, ready, cursor, scan, todo, toClose, rows, boot, told,
                    unjudged, crashes, errors, deletions>>
    BY <1>10 DEF MarkTrailed, table, twins, market, memory, gating, pass, history, faults
  <2>2. cur \in Trades /\ Open(cur)
    BY <1>10 DEF MarkTrailed, Planned, PassPhases, Undecided, Candidates
  <2>3. CoinOf(cur) \in Coins
    BY <2>2 DEF Open, CoinOf
  <2>4. trailed' \subseteq Coins
    BY <1>10, <2>3 DEF MarkTrailed
  <2>5. action' \in [Trades -> {"none", "TRAILED", "CLOSED"}]
    BY <1>10 DEF MarkTrailed
  <2>6. toTrail' \subseteq Trades /\ pc' \in Phases /\ cur' = NoTrade
    BY <1>10 DEF MarkTrailed
  <2>7. QED
    BY <2>1, <2>2, <2>3, <2>4, <2>5, <2>6
<1>11. ASSUME NEW t \in Trades, SendClose(t) PROVE TypeOK'
  BY <1>11 DEF SendClose, PostClose, table, twins, market, gating, faults
<1>12. ASSUME MarkClosed PROVE TypeOK'
  <2>1. UNCHANGED <<origin, twin, booked, signal, cooling, regime, unstable, old,
                    known, ready, cursor, scan, todo, toTrail, toClose, trailed, cur, rows,
                    boot, told, unjudged, crashes, errors, deletions>>
    BY <1>12 DEF MarkClosed, table, twins, market, memory, gating, pass, history, faults
  <2>2. status' \in [Trades -> Statuses] /\ action' \in [Trades -> {"none", "TRAILED", "CLOSED"}]
    BY <1>12 DEF MarkClosed
  <2>3. \A t \in Trades : status'[t] # "none" => origin[t] \in Signals
    <3>1. cur \in Trades /\ Open(cur)
      BY <1>12 DEF MarkClosed, Planned, PassPhases, Undecided, Candidates
    <3>2. \A t \in Trades : status'[t] # "none" => status[t] # "none"
      BY <1>12, <3>1 DEF MarkClosed, Open
    <3>3. QED
      BY <3>2
  <2>4. pc' \in Phases
    BY <1>12 DEF MarkClosed
  <2>5. QED
    BY <2>1, <2>2, <2>3, <2>4
<1>13. ASSUME ForceRead \/ ForceDone PROVE TypeOK'
  <2>1. CASE ForceRead
    BY <2>1 DEF ForceRead, TwinsLike, table, twins, market, gating, history, faults
  <2>2. CASE ForceDone
    BY <2>2 DEF ForceDone, table, twins, market, gating, history, faults
  <2>3. QED
    BY <1>13, <2>1, <2>2
<1>14. ASSUME NEW t \in Trades, ForceMove(t) PROVE TypeOK'
  BY <1>14 DEF ForceMove, Book, table, market, gating, history, faults
<1>15. ASSUME EndPass PROVE TypeOK'
  BY <1>15 DEF EndPass, NoPass, table, twins, market, gating, faults
<1>16. ASSUME InitCursor PROVE TypeOK'
  <2>1. UNCHANGED <<status, action, origin, twin, booked, signal, cooling, regime,
                    unstable, old, known, scan, todo, toTrail, toClose, trailed, cur, rows,
                    boot, told, unjudged, crashes, errors, deletions>>
    BY <1>16 DEF InitCursor, table, twins, market, memory, gating, pass, history, faults
  <2>2. cursor' = MaxId(Visible) /\ ready' \in BOOLEAN /\ pc' \in Phases
    BY <1>16 DEF InitCursor
  <2>3. MaxId(Visible) \in Nat
    BY MaxIdIsGreatest DEF Visible, Bounded
  <2>4. QED
    BY <2>1, <2>2, <2>3
<1>17. ASSUME Scan PROVE TypeOK'
  BY <1>17 DEF Scan, Visible, table, twins, market, pass, history, faults
<1>18. ASSUME NEW s \in Signals, Forward(s) PROVE TypeOK'
  BY <1>18 DEF Forward, PassRow, pass, history, faults
<1>19. ASSUME NEW s \in Signals, Suppress(s) PROVE TypeOK'
  BY <1>19 DEF Suppress, NextRow, PassRow, table, twins, market, pass, history, faults
<1>20. ASSUME EndGating \/ SkipSync \/ EndSync PROVE TypeOK'
  <2>1. UNCHANGED <<table, twins, market, memory, history, faults>> /\ pc' \in {"lifecycle", "regime"}
    BY <1>20 DEF EndGating, SkipSync, EndSync
  <2>2. QED
    BY <2>1 DEF table, twins, market, memory, gating, pass, history, faults
<1>21. ASSUME Reap PROVE TypeOK'
  <2>1. UNCHANGED <<action, origin, twin, booked, signal, cooling, regime,
                    unstable, old, known, ready, cursor, scan, toTrail, toClose, trailed, cur,
                    rows, boot, told, unjudged, crashes, errors, deletions>>
    BY <1>21 DEF Reap, table, twins, market, memory, gating, pass, history, faults
  <2>2. status' \in [Trades -> Statuses] /\ \A t \in Trades : status'[t] # "none" => origin[t] \in Signals
    BY <1>21 DEF Reap, Corpses, Open
  <2>3. todo' \subseteq Trades /\ pc' \in Phases
    BY <1>21 DEF Reap
  <2>4. QED
    BY <2>1, <2>2, <2>3
<1>22. ASSUME NEW t \in Trades, Match(t) PROVE TypeOK'
  <2>1. UNCHANGED <<action, origin, twin, booked, signal, cooling, regime,
                    unstable, old, pc, known, ready, cursor, scan, toTrail, toClose, trailed,
                    cur, rows, boot, told, unjudged, crashes, errors, deletions>>
    BY <1>22 DEF Match, table, twins, market, memory, gating, pass, history, faults
  <2>2. status' \in [Trades -> Statuses]
    BY <1>22 DEF Match
  <2>3. \A x \in Trades : status'[x] # "none" => status[x] # "none"
    BY <1>22 DEF Match, Accounted, Traded
  <2>4. todo' \subseteq Trades
    BY <1>22 DEF Match
  <2>5. QED
    BY <2>1, <2>2, <2>3, <2>4
<1>23. ASSUME StageError PROVE TypeOK'
  <2>1. UNCHANGED <<status, action, origin, twin, booked, signal, cooling, regime,
                    unstable, old, known, ready, cursor, scan, told, unjudged, crashes,
                    deletions>>
    BY <1>23 DEF StageError, NoPass, table, twins, market, memory, gating, pass, history, faults
  <2>2. todo' = {} /\ toTrail' = {} /\ toClose' = {} /\ trailed' = {} /\ rows' = {} /\ cur' = NoTrade /\ boot' = FALSE
    BY <1>23 DEF StageError, NoPass
  <2>3. pc' \in Phases
    BY <1>23 DEF StageError
  <2>4. errors' \in 0..MaxErrors
    BY <1>23 DEF StageError
  <2>5. QED
    BY <2>1, <2>2, <2>3, <2>4
<1>24. ASSUME NEW s \in Signals, RowError(s) PROVE TypeOK'
  BY <1>24 DEF RowError, table, twins, market, pass, history
<1>25. ASSUME StartError \/ ForceError PROVE TypeOK'
  <2>1. UNCHANGED <<status, action, origin, twin, booked, signal, cooling, regime,
                    unstable, old, known, ready, cursor, scan, todo, toTrail, toClose, trailed,
                    cur, boot, told, unjudged, crashes, deletions>>
    BY <1>25 DEF StartError, ForceError, table, twins, market, memory, gating, pass, history, faults
  <2>2. pc' \in Phases
    BY <1>25 DEF StartError, ForceError
  <2>3. rows' \subseteq Trades
    <3>1. rows' \subseteq rows
      BY <1>25 DEF StartError, ForceError, memory, pass
    <3>2. QED
      BY <3>1
  <2>4. errors' \in 0..MaxErrors
    BY <1>25 DEF StartError, ForceError
  <2>5. QED
    BY <2>1, <2>2, <2>3, <2>4
<1>26. ASSUME Crash PROVE TypeOK'
  <2>1. UNCHANGED <<status, action, origin, twin, booked, signal, cooling, regime,
                    unstable, old, told, unjudged, errors, deletions>>
    BY <1>26 DEF Crash, NoPass, table, twins, market, memory, gating, pass, history, faults
  <2>2. todo' = {} /\ toTrail' = {} /\ toClose' = {} /\ trailed' = {} /\ rows' = {} /\ cur' = NoTrade /\ boot' = FALSE
    BY <1>26 DEF Crash, NoPass
  <2>3. pc' = "down" /\ known' = NoRegime /\ ready' = FALSE /\ cursor' = 0 /\ scan' = {}
    BY <1>26 DEF Crash
  <2>4. crashes' \in 0..MaxCrashes
    BY <1>26 DEF Crash
  <2>5. QED
    BY <2>1, <2>2, <2>3, <2>4
<1>27. CASE UNCHANGED vars
  BY <1>27 DEF vars, table, twins, market, memory, gating, pass, history, faults
<1>28. QED
  BY <1>1, <1>2, <1>3, <1>4, <1>5, <1>6, <1>7, <1>8, <1>9, <1>10, <1>11, <1>12, <1>13, <1>14, <1>15, <1>16, <1>17, <1>18, <1>19, <1>20, <1>21, <1>22, <1>23, <1>24, <1>25, <1>26, <1>27
     DEF Next, Orchestrate, RejudgingPass, GatingPass, LifecycleSync, Fault, Environment
-----------------------------------------------------------------------------
(* What writes the orchestrator's table.                                    *)
LEMMA TableFrame ==
    ASSUME [Next]_vars
    PROVE  \/ UNCHANGED table
           \/ \E s \in Signals : Forward(s)
           \/ MarkTrailed \/ MarkClosed \/ Reap
           \/ \E t \in Trades : Match(t)
<1> USE DEF table
<1>1. CASE Environment
  BY <1>1 DEF Environment, PostSignal, SignalAges, TradeGetsOld, MonitorCloses, TwinDeleted, CooldownEnds,
              RegimeChanges, StabilityChanges
<1>2. CASE Fault
  BY <1>2 DEF Fault, StageError, StartError, ForceError, Crash, RowError
<1>3. CASE RejudgingPass
  BY <1>3 DEF RejudgingPass, Judge, SendTrail, DeferClose, SendClose, ForceMove, ForceRead, ForceDone, EndPass
<1>4. CASE GatingPass
  BY <1>4 DEF GatingPass, InitCursor, Scan, EndGating, Suppress
<1>5. CASE LifecycleSync
  BY <1>5 DEF LifecycleSync, SkipSync, EndSync
<1>6. CASE Start \/ NoFlip \/ Flip
  BY <1>6 DEF Start, NoFlip, Flip
<1>7. CASE UNCHANGED vars
  BY <1>7 DEF vars
<1>8. QED
  BY <1>1, <1>2, <1>3, <1>4, <1>5, <1>6, <1>7 DEF Next, Orchestrate

(* Trades keep their signal and are never forgotten; a trade opens by       *)
(* Forward only.                                                            *)
LEMMA TableStep ==
    ASSUME Base, [Next]_vars
    PROVE  /\ \A t \in Trades : Traded(t) => Traded(t)' /\ origin'[t] = origin[t]
           /\ \/ \A t \in Trades : /\ Open(t)' => Open(t)
                                   /\ Traded(t)' => Traded(t)
              \/ \E s \in Signals, t \in Trades :
                    /\ Forward(s) /\ ~Traded(t) /\ Open(t)' /\ origin'[t] = s
                    /\ \A x \in Trades \ {t} : status'[x] = status[x] /\ origin'[x] = origin[x]
<1> USE DEF table, Open, Traded
<1>0. TypeOK
  BY DEF Base
<1>1. CASE UNCHANGED table \/ MarkTrailed
  BY <1>1 DEF MarkTrailed
<1>2. ASSUME NEW s \in Signals, Forward(s)
      PROVE  \E t \in Trades : /\ ~Traded(t) /\ Open(t)' /\ origin'[t] = s
                              /\ \A x \in Trades \ {t} : status'[x] = status[x] /\ origin'[x] = origin[x]
  <2>1. PICK t \in Trades : /\ status[t] = "none" /\ status' = [status EXCEPT ![t] = "OPEN"]
                            /\ origin' = [origin EXCEPT ![t] = s]
    BY <1>2 DEF Forward
  <2>2. QED
    BY <1>0, <2>1 DEF TypeOK
<1>3. CASE MarkClosed
  <2>1. cur \in Trades /\ Open(cur)
    BY <1>3 DEF Base, MarkClosed, Planned, PassPhases, Undecided, Candidates
  <2>2. origin' = origin /\ status' = [status EXCEPT ![cur] = "CLOSED_REGIME_CHANGE"]
    BY <1>3 DEF MarkClosed
  <2>3. QED
    BY <1>0, <2>1, <2>2 DEF TypeOK
<1>4. CASE Reap
  BY <1>4 DEF Reap, Corpses
<1>5. ASSUME NEW t \in Trades, Match(t)
      PROVE  /\ origin' = origin
             /\ \A x \in Trades : /\ Open(x)' => Open(x)
                                  /\ Traded(x)' <=> Traded(x)
  <2>1. origin' = origin /\ status' = [status EXCEPT ![t] = IF booked[t] > 0 THEN "CLOSED_BY_OUTCOME" ELSE @]
    BY <1>5 DEF Match
  <2>2. booked[t] > 0 => Traded(t)
    BY <1>0 DEF Base, Accounted, TypeOK
  <2>3. QED
    BY <1>0, <2>1, <2>2 DEF TypeOK
<1>6. QED
  BY <1>1, <1>2, <1>3, <1>4, <1>5, TableFrame

(* Forward opens a trade on a coin that has none.                           *)
LEMMA CoinsStep == ASSUME Base, OneOpenPerCoin, [Next]_vars PROVE OneOpenPerCoin'
<1>0. TypeOK /\ OneOpenPerCoin
  BY DEF Base
<1>1. \A t \in Trades : Open(t) => CoinOf(t)' = CoinOf(t)
  BY TableStep DEF CoinOf, Traded, Open
<1>2. CASE \A t \in Trades : Open(t)' => Open(t)
  BY <1>0, <1>1, <1>2 DEF OneOpenPerCoin
<1>3. ASSUME NEW s \in Signals, NEW t \in Trades, Forward(s), ~Traded(t), origin'[t] = s,
             \A x \in Trades \ {t} : status'[x] = status[x] /\ origin'[x] = origin[x]
      PROVE  OneOpenPerCoin'
  <2>1. \A x \in Trades : Open(x) => CoinOf(x) # SignalOf[s].coin
    <3>1. ~OppositeOpen(SignalOf[s]) /\ ~SameOpen(SignalOf[s])
      BY <1>3 DEF Forward
    <3>2. QED
      BY <3>1 DEF OppositeOpen, SameOpen
  <2>2. \A x \in Trades \ {t} : Open(x)' => Open(x)
    BY <1>3 DEF Open
  <2>3. CoinOf(t)' = SignalOf[s].coin
    BY <1>3 DEF CoinOf
  <2>4. \A x \in Trades \ {t} : Open(x)' => CoinOf(x)' # CoinOf(t)'
    BY <1>1, <2>1, <2>2, <2>3
  <2>5. QED
    BY <1>0, <1>1, <2>2, <2>4 DEF OneOpenPerCoin
<1>4. QED
  BY <1>2, <1>3, TableStep

(* Signals only become visible and stale.                                   *)
LEMMA SignalFrame ==
    ASSUME [Next]_vars
    PROVE  UNCHANGED signal \/ \E s \in Signals : PostSignal(s) \/ SignalAges(s)
<1>1. CASE Environment
  BY <1>1 DEF Environment, TradeGetsOld, MonitorCloses, TwinDeleted, CooldownEnds,
              RegimeChanges, StabilityChanges, market
<1>2. CASE Fault
  BY <1>2 DEF Fault, StageError, StartError, ForceError, Crash, RowError, market
<1>3. CASE RejudgingPass
  BY <1>3 DEF RejudgingPass, Judge, SendTrail, DeferClose, SendClose, ForceMove, ForceRead, ForceDone,
              EndPass, MarkTrailed, MarkClosed, market
<1>4. CASE GatingPass
  BY <1>4 DEF GatingPass, InitCursor, Scan, EndGating, Suppress, Forward, market
<1>5. CASE LifecycleSync
  BY <1>5 DEF LifecycleSync, SkipSync, EndSync, Reap, Match, market
<1>6. CASE Start \/ NoFlip \/ Flip
  BY <1>6 DEF Start, NoFlip, Flip, market
<1>7. CASE UNCHANGED vars
  BY <1>7 DEF vars, market
<1>8. QED
  BY <1>1, <1>2, <1>3, <1>4, <1>5, <1>6, <1>7 DEF Next, Orchestrate

(* Rows are committed one at a time and never withdrawn.                    *)
LEMMA SignalStep ==
    ASSUME TypeOK, [Next]_vars
    PROVE  /\ Visible' = Visible \/ \E p \in Signals : Visible' \subseteq Visible \cup {p}
           /\ Visible \subseteq Visible'
           /\ \A s \in Signals : signal[s] = "stale" => signal'[s] = "stale"
<1>1. CASE UNCHANGED signal
  BY <1>1 DEF Visible
<1>2. ASSUME NEW s \in Signals, PostSignal(s) \/ SignalAges(s)
      PROVE  /\ Visible' \subseteq Visible \cup {s} /\ Visible \subseteq Visible'
             /\ \A n \in Signals : signal[n] = "stale" => signal'[n] = "stale"
  BY <1>2 DEF TypeOK, PostSignal, SignalAges, Visible
<1>3. QED
  BY <1>1, <1>2, SignalFrame

(* One more row has an id, too.                                             *)
LEMMA BoundedStep == ASSUME Base, [Next]_vars PROVE Bounded'
<1>0. TypeOK /\ Bounded
  BY DEF Base
<1>1. PICK b \in Nat : \A s \in Visible : s <= b
  BY <1>0 DEF Bounded
<1>2. CASE Visible' = Visible
  BY <1>1, <1>2 DEF Bounded
<1>3. ASSUME NEW p \in Signals, Visible' \subseteq Visible \cup {p} PROVE Bounded'
  <2>1. p \in Nat /\ b + p \in Nat /\ b <= b + p /\ p <= b + p
    BY TradesAssumption
  <2>2. Visible \subseteq Nat
    BY TradesAssumption DEF Visible
  <2>3. \A s \in Visible' : s <= b + p
    BY <1>1, <1>3, <2>1, <2>2
  <2>4. QED
    BY <2>1, <2>3 DEF Bounded
<1>4. QED
  BY <1>0, <1>2, <1>3, SignalStep

(* What moves the cursor and the rows read.                                 *)
LEMMA GatingFrame ==
    ASSUME [Next]_vars
    PROVE  \/ UNCHANGED gating /\ (pc' = "gate" => pc = "gate")
           \/ InitCursor \/ Scan \/ Crash
           \/ \E s \in Signals : Forward(s) \/ Suppress(s) \/ RowError(s)
<1>1. CASE Environment
  BY <1>1 DEF Environment, PostSignal, SignalAges, TradeGetsOld, MonitorCloses, TwinDeleted, CooldownEnds,
              RegimeChanges, StabilityChanges, memory
<1>2. CASE Fault
  BY <1>2 DEF Fault, StageError, StartError, ForceError, memory
<1>3. CASE RejudgingPass
  BY <1>3 DEF RejudgingPass, Judge, SendTrail, DeferClose, SendClose, ForceMove, ForceRead, ForceDone,
              EndPass, MarkTrailed, MarkClosed, memory
<1>4. CASE GatingPass
  BY <1>4 DEF GatingPass, EndGating, memory
<1>5. CASE LifecycleSync
  BY <1>5 DEF LifecycleSync, SkipSync, EndSync, Reap, Match, memory
<1>6. CASE Start \/ NoFlip \/ Flip
  BY <1>6 DEF Start, NoFlip, Flip, BeginPass
<1>7. CASE UNCHANGED vars
  BY <1>7 DEF vars, memory
<1>8. QED
  BY <1>1, <1>2, <1>3, <1>4, <1>5, <1>6, <1>7 DEF Next, Orchestrate

(* A signal is consumed before the cursor is lost with the process, and a   *)
(* restart starts behind everything visible.                                *)
LEMMA ConsumedStep == ASSUME Base, [Next]_vars PROVE Consumed'
<1> USE TradesAssumption
<1>0. TypeOK /\ Bounded /\ Consumed
  BY DEF Base
<1>1. scan \subseteq Visible /\ Visible \subseteq Visible' /\ Visible \in SUBSET Nat /\ cursor \in Nat
  BY <1>0, SignalStep DEF Consumed, Visible, TypeOK
<1>2. \A t \in Trades : Traded(t) =>
         /\ origin'[t] = origin[t] /\ origin[t] \in Visible \ scan /\ origin[t] \in Signals
         /\ ready => signal[origin[t]] = "stale" \/ origin[t] <= cursor
  BY <1>0, TableStep DEF Consumed, Visible
<1>3. \A s \in Signals : signal[s] = "stale" => signal'[s] = "stale"
  BY <1>0, SignalStep
<1>4. ASSUME NEW s \in Signals, NEW t \in Trades, Forward(s), ~Traded(t), origin'[t] = s,
             \A x \in Trades \ {t} : status'[x] = status[x] /\ origin'[x] = origin[x]
      PROVE  Consumed'
  <2>1. /\ s \in scan /\ scan' = scan \ {s} /\ cursor' = (IF s > cursor THEN s ELSE cursor)
        /\ ready' = ready /\ pc = "gate"
    BY <1>4 DEF Forward, NextRow, PassRow
  <2>2. s <= cursor' /\ cursor <= cursor' /\ cursor' \in Nat
    BY <1>1, <2>1
  <2>3. scan' \subseteq Visible' /\ ready' /\ s \in Visible'
    BY <1>0, <1>1, <2>1 DEF Consumed
  <2>4. \A x \in Trades \ {t} : Traded(x)' => Traded(x)
    BY <1>4 DEF Traded
  <2>5. \A x \in Trades : Traded(x)' => origin'[x] \in Visible' \ scan'
    BY <1>1, <1>2, <1>4, <2>1, <2>3, <2>4
  <2>6. ASSUME NEW x \in Trades, Traded(x)' PROVE signal'[origin'[x]] = "stale" \/ origin'[x] <= cursor'
    <3>1. CASE x = t
      BY <1>4, <2>2, <3>1
    <3>2. CASE x # t
      <4>1. origin'[x] = origin[x] /\ origin[x] \in Signals /\ (signal[origin[x]] = "stale" \/ origin[x] <= cursor)
        BY <1>2, <2>1, <2>3, <2>4, <2>6, <3>2
      <4> DEFINE n == origin[x]
      <4>2. n \in Nat /\ n \in Signals /\ origin'[x] = n /\ (signal[n] = "stale" \/ n <= cursor)
        BY <4>1
      <4> HIDE DEF n
      <4>3. n <= cursor => n <= cursor'
        BY <1>1, <2>2, <4>2
      <4>4. QED
        BY <1>3, <4>2, <4>3 DEF n
    <3>3. QED
      BY <3>1, <3>2
  <2>7. QED
    BY <2>3, <2>5, <2>6 DEF Consumed
<1>5. ASSUME \A t \in Trades : Traded(t)' => Traded(t) PROVE Consumed'
  <2>1. CASE UNCHANGED gating /\ (pc' = "gate" => pc = "gate")
    BY <1>0, <1>1, <1>2, <1>3, <1>5, <2>1 DEF Consumed, gating
  <2>2. CASE InitCursor
    <3>1. /\ cursor' = MaxId(Visible) /\ ready' /\ pc' = "lifecycle" /\ scan' = scan
          /\ Visible' = Visible
      BY <2>2 DEF InitCursor, market, Visible
    <3>2. \A s \in Visible : s <= cursor'
      <4>1. PICK b \in Nat : \A s \in Visible : s <= b
        BY <1>0 DEF Bounded
      <4>2. \A s \in Visible : s <= MaxId(Visible)
        BY <1>1, <4>1, MaxIdIsGreatest, Zenon
      <4>3. QED
        BY <3>1, <4>2
    <3>3. QED
      BY <1>1, <1>2, <1>5, <3>1, <3>2 DEF Consumed
  <2>3. CASE Scan
    <3>1. /\ scan' = {s \in Visible : signal[s] = "fresh" /\ s > cursor}
          /\ cursor' = cursor /\ ready /\ ready' = ready /\ signal' = signal
      BY <2>3 DEF Scan, market
    <3>2. \A t \in Trades : Traded(t) => origin[t] \notin scan'
      BY <1>1, <1>2, <3>1 DEF Visible
    <3>3. QED
      BY <1>1, <1>2, <1>5, <3>1, <3>2 DEF Consumed
  <2>4. CASE Crash
    BY <1>1, <1>2, <1>5, <2>4 DEF Crash, Consumed
  <2>5. ASSUME NEW s \in Signals, Suppress(s) \/ RowError(s) PROVE Consumed'
    <3>1. /\ scan' \subseteq scan /\ cursor' = (IF s > cursor THEN s ELSE cursor)
          /\ ready' = ready /\ pc = "gate" /\ signal' = signal
      BY <2>5 DEF Suppress, RowError, NextRow, PassRow, market
    <3>2. cursor <= cursor' /\ cursor' \in Nat
      BY <1>1, <3>1
    <3>3. ASSUME NEW t \in Trades, Traded(t), ready
          PROVE  signal[origin[t]] = "stale" \/ origin[t] <= cursor'
      <4> DEFINE n == origin[t]
      <4>1. n \in Nat /\ (signal[n] = "stale" \/ n <= cursor)
        BY <1>2, <3>3
      <4> HIDE DEF n
      <4>2. n <= cursor => n <= cursor'
        BY <1>1, <3>2, <4>1
      <4>3. QED
        BY <4>1, <4>2 DEF n
    <3>4. QED
      BY <1>0, <1>1, <1>2, <1>5, <3>1, <3>3 DEF Consumed
  <2>6. ASSUME NEW s \in Signals, Forward(s) PROVE Consumed'
    <3>1. \E t \in Trades : status[t] = "none" /\ status' = [status EXCEPT ![t] = "OPEN"]
      BY <2>6 DEF Forward
    <3>2. FALSE
      BY <1>0, <1>5, <3>1 DEF TypeOK, Traded
    <3>3. QED
      BY <3>2
  <2>7. QED
    BY <2>1, <2>2, <2>3, <2>4, <2>5, <2>6, GatingFrame
<1>6. QED
  BY <1>4, <1>5, TableStep

(* The row that is forwarded was no trade's before.                         *)
LEMMA ForwardedStep == ASSUME Base, ForwardedOnce, [Next]_vars PROVE ForwardedOnce'
<1>0. TypeOK /\ Consumed /\ ForwardedOnce
  BY DEF Base
<1>1. \A t \in Trades : Traded(t) => origin'[t] = origin[t] /\ origin[t] \notin scan
  BY <1>0, TableStep DEF Consumed
<1>2. CASE \A t \in Trades : Traded(t)' => Traded(t)
  BY <1>0, <1>1, <1>2 DEF ForwardedOnce, Traded
<1>3. ASSUME NEW s \in Signals, NEW t \in Trades, Forward(s), ~Traded(t), origin'[t] = s,
             \A x \in Trades \ {t} : status'[x] = status[x] /\ origin'[x] = origin[x]
      PROVE  ForwardedOnce'
  <2>1. s \in scan
    BY <1>3 DEF Forward, NextRow
  <2>2. \A x \in Trades \ {t} : Traded(x)' => Traded(x) /\ origin'[x] # s
    BY <1>1, <1>3, <2>1 DEF Traded
  <2>3. QED
    BY <1>0, <1>3, <2>2 DEF ForwardedOnce, Traded
<1>4. QED
  BY <1>2, <1>3, TableStep

(* What moves twins and outcomes.                                           *)
LEMMA TwinsFrame ==
    ASSUME [Next]_vars
    PROVE  \/ UNCHANGED <<twins, deletions>>
           \/ \E t \in Trades : MonitorCloses(t) \/ TwinDeleted(t) \/ ForceMove(t)
           \/ \E s \in Signals : Forward(s)
<1>1. CASE Environment
  BY <1>1 DEF Environment, PostSignal, SignalAges, TradeGetsOld, CooldownEnds, RegimeChanges,
              StabilityChanges, twins, faults
<1>2. CASE Fault
  BY <1>2 DEF Fault, StageError, StartError, ForceError, Crash, RowError, twins, faults
<1>3. CASE RejudgingPass
  BY <1>3 DEF RejudgingPass, Judge, SendTrail, DeferClose, SendClose, ForceRead, ForceDone,
              EndPass, MarkTrailed, MarkClosed, twins, faults
<1>4. CASE GatingPass
  BY <1>4 DEF GatingPass, InitCursor, Scan, EndGating, Suppress, twins, faults
<1>5. CASE LifecycleSync
  BY <1>5 DEF LifecycleSync, SkipSync, EndSync, Reap, Match, twins, faults
<1>6. CASE Start \/ NoFlip \/ Flip
  BY <1>6 DEF Start, NoFlip, Flip, twins, faults
<1>7. CASE UNCHANGED vars
  BY <1>7 DEF vars, twins, faults
<1>8. QED
  BY <1>1, <1>2, <1>3, <1>4, <1>5, <1>6, <1>7 DEF Next, Orchestrate

(* Which twins a forced close has yet to move.                              *)
LEMMA RowsFrame ==
    ASSUME [Next]_vars
    PROVE  rows' \subseteq rows \/ ForceRead
<1>1. CASE Environment
  BY <1>1 DEF Environment, PostSignal, SignalAges, TradeGetsOld, MonitorCloses, TwinDeleted,
              CooldownEnds, RegimeChanges, StabilityChanges, BeginPass, NoPass, memory, pass
<1>2. CASE Fault
  BY <1>2 DEF Fault, StageError, StartError, ForceError, Crash, RowError, BeginPass, NoPass,
              memory, pass
<1>3. CASE RejudgingPass
  BY <1>3 DEF RejudgingPass, Judge, SendTrail, DeferClose, SendClose, ForceMove, ForceDone,
              EndPass, MarkTrailed, MarkClosed, BeginPass, NoPass, memory, pass
<1>4. CASE GatingPass
  BY <1>4 DEF GatingPass, InitCursor, Scan, EndGating, Suppress, Forward, BeginPass, NoPass,
              memory, pass
<1>5. CASE LifecycleSync
  BY <1>5 DEF LifecycleSync, SkipSync, EndSync, Reap, Match, BeginPass, NoPass, memory, pass
<1>6. CASE Start \/ NoFlip \/ Flip
  BY <1>6 DEF Start, NoFlip, Flip, BeginPass, NoPass, memory, pass
<1>7. CASE UNCHANGED vars
  BY <1>7 DEF vars, BeginPass, NoPass, memory, pass
<1>8. QED
  BY <1>1, <1>2, <1>3, <1>4, <1>5, <1>6, <1>7 DEF Next, Orchestrate

(* A twin ends with an outcome or by hand.                                  *)
LEMMA AccountedStep == ASSUME Base, [Next]_vars PROVE Accounted'
<1>0. TypeOK /\ Accounted
  BY DEF Base
<1>1. \A t \in rows' : Traded(t)'
  <2>1. \A t \in rows' : t \in Trades /\ Traded(t)
    BY <1>0, RowsFrame DEF TypeOK, Accounted, ForceRead, TwinsLike
  <2>2. QED
    BY <2>1, TableStep
<1>2. ASSUME NEW s \in Signals, NEW t \in Trades, Forward(s), ~Traded(t), Open(t)', origin'[t] = s,
             \A x \in Trades \ {t} : status'[x] = status[x] /\ origin'[x] = origin[x]
      PROVE  Accounted'
  <2>1. booked' = booked /\ deletions' = deletions /\ booked[t] = 0
    BY <1>0, <1>2 DEF Forward, faults, Accounted
  <2>2. twin'[t] /\ \A x \in Trades \ {t} : twin'[x] = twin[x]
    <3>1. PICK x \in Trades : status[x] = "none" /\ status' = [status EXCEPT ![x] = "OPEN"]
                              /\ twin' = [twin EXCEPT ![x] = TRUE]
      BY <1>2 DEF Forward
    <3>2. x = t
      BY <1>0, <1>2, <3>1 DEF TypeOK, Traded, Open
    <3>3. QED
      BY <1>0, <3>1, <3>2 DEF TypeOK
  <2>3. Traded(t)'
    BY <1>2 DEF Traded, Open
  <2>4. \A x \in Trades \ {t} : (Traded(x)' <=> Traded(x)) /\ (Open(x)' <=> Open(x))
    BY <1>2 DEF Traded, Open
  <2>5. QED
    BY <1>0, <1>1, <2>1, <2>2, <2>3, <2>4 DEF Accounted
<1>3. ASSUME \A t \in Trades : (Open(t)' => Open(t)) /\ (Traded(t)' => Traded(t)) PROVE Accounted'
  <2>0. \A t \in Trades : Traded(t)' <=> Traded(t)
    BY <1>3, TableStep
  <2>1. CASE UNCHANGED <<twins, deletions>>
    BY <1>0, <1>1, <1>3, <2>0, <2>1 DEF Accounted, twins
  <2>2. ASSUME NEW t \in Trades, MonitorCloses(t) \/ ForceMove(t) PROVE Accounted'
    <3>1. Traded(t) /\ deletions' = deletions /\ Book(t) /\ twin' = [twin EXCEPT ![t] = FALSE]
      BY <1>0, <2>2 DEF MonitorCloses, ForceMove, Accounted, faults
    <3>2. ~twin'[t] /\ \A x \in Trades \ {t} : twin'[x] = twin[x]
      BY <1>0, <3>1 DEF TypeOK
    <3>3. booked'[t] > 0 /\ \A x \in Trades \ {t} : booked'[x] = booked[x]
      BY <1>0, <3>1 DEF TypeOK, Book
    <3>4. \A x \in Trades : booked'[x] > 0 => ~twin'[x]
      BY <1>0, <3>2, <3>3 DEF Accounted
    <3>5. \A x \in Trades : Open(x)' => twin'[x] \/ booked'[x] > 0 \/ deletions' > 0
      BY <1>0, <1>3, <3>1, <3>2, <3>3 DEF Accounted
    <3>6. \A x \in Trades : ~Traded(x)' => ~twin'[x] /\ booked'[x] = 0
      BY <1>0, <2>0, <3>1, <3>2, <3>3 DEF Accounted
    <3>7. QED
      BY <1>1, <3>4, <3>5, <3>6 DEF Accounted
  <2>3. ASSUME NEW t \in Trades, TwinDeleted(t) PROVE Accounted'
    <3>1. twin' = [twin EXCEPT ![t] = FALSE] /\ deletions' = deletions + 1 /\ booked' = booked
      BY <2>3 DEF TwinDeleted
    <3>2. \A x \in Trades : twin'[x] => twin[x]
      BY <1>0, <3>1 DEF TypeOK
    <3>3. deletions' > 0
      BY <1>0, <3>1 DEF TypeOK
    <3>4. QED
      BY <1>0, <1>1, <2>0, <3>1, <3>2, <3>3 DEF Accounted
  <2>4. ASSUME NEW s \in Signals, Forward(s) PROVE Accounted'
    <3>1. \E t \in Trades : status[t] = "none" /\ status' = [status EXCEPT ![t] = "OPEN"]
      BY <2>4 DEF Forward
    <3>2. FALSE
      BY <1>0, <1>3, <3>1 DEF TypeOK, Traded
    <3>3. QED
      BY <3>2
  <2>5. QED
    BY <2>1, <2>2, <2>3, <2>4, TwinsFrame
<1>4. QED
  BY <1>2, <1>3, TableStep

(* The passes work through their lists.                                     *)
LEMMA PlannedStep == ASSUME Base, [Next]_vars PROVE Planned'
<1> USE DEF PassPhases
<1>0. TypeOK /\ Planned
  BY DEF Base
<1> DEFINE Plan == <<pc, todo, toTrail, toClose, trailed, cur>>
<1>1. CASE UNCHANGED table /\ UNCHANGED Plan
  BY <1>0, <1>1 DEF Planned, Undecided, Candidates, Open, Traded, CoinOf, table
<1>2. CASE Environment
  <2>1. UNCHANGED table /\ UNCHANGED Plan
    BY <1>2 DEF Environment, PostSignal, SignalAges, TradeGetsOld, MonitorCloses, TwinDeleted, CooldownEnds,
                RegimeChanges, StabilityChanges, memory, pass
  <2>2. QED
    BY <1>1, <2>1
<1>3. CASE Start \/ Flip
  <2>1. UNCHANGED table /\ BeginPass(pc = "down")
    BY <1>3 DEF Start, Flip, BeginPass
  <2>2. QED
    BY <2>1 DEF BeginPass, Planned, Undecided, Candidates, Open, table
<1>4. CASE StageError \/ Crash \/ EndPass
  <2>1. /\ pc' \notin PassPhases /\ todo' = {} /\ toTrail' = {} /\ toClose' = {}
    BY <1>4 DEF StageError, Crash, EndPass, NoPass
  <2>2. QED
    BY <2>1 DEF Planned
<1>5. CASE NoFlip \/ GatingPass \/ SkipSync \/ EndSync \/ StartError \/ \E s \in Signals : RowError(s)
  <2>1. pc \notin PassPhases /\ pc' \notin PassPhases /\ UNCHANGED <<todo, toTrail, toClose>>
    BY <1>5 DEF NoFlip, GatingPass, InitCursor, Scan, Forward, Suppress, EndGating, NextRow, SkipSync, EndSync,
                StartError, RowError, memory, pass
  <2>2. QED
    BY <1>0, <2>1 DEF Planned
<1>6. CASE Reap \/ \E t \in Trades : Match(t)
  <2>1. pc \notin PassPhases /\ pc' \notin PassPhases /\ UNCHANGED <<toTrail, toClose>>
    BY <1>6 DEF Reap, Match
  <2>2. QED
    BY <1>0, <2>1 DEF Planned
<1>7. CASE ForceRead \/ ForceError \/ \E t \in Trades : ForceMove(t)
  <2>1. /\ pc \in {"forceRead", "force"} /\ pc' = "force"
        /\ UNCHANGED <<table, todo, toTrail, toClose, trailed, cur>>
    BY <1>7 DEF ForceRead, ForceError, ForceMove
  <2>2. QED
    BY <1>0, <2>1 DEF Planned, Undecided, Candidates, Open, Traded, CoinOf, table
<1>8. ASSUME NEW t \in Trades, Judge(t) PROVE Planned'
  <2>1. /\ pc = "pass" /\ pc' = pc /\ t \in todo /\ todo' = todo \ {t} /\ cur' = cur /\ trailed' = trailed
        /\ UNCHANGED table
        /\ \/ toTrail' = toTrail /\ toClose' = toClose
           \/ toTrail' = toTrail \cup {t} /\ toClose' = toClose
           \/ toTrail' = toTrail /\ toClose' = toClose \cup {t}
    BY <1>8 DEF Judge
  <2>2. Undecided' \subseteq Undecided
    BY <2>1 DEF Undecided
  <2>3. toTrail' \cap toClose' = {} /\ todo' \cap (toTrail' \cup toClose') = {}
    BY <1>0, <2>1 DEF Planned
  <2>4. QED
    BY <1>0, <2>1, <2>2, <2>3 DEF Planned, Candidates, Open, Traded, CoinOf, table
<1>9. ASSUME NEW t \in Trades, SendTrail(t) \/ DeferClose(t) \/ SendClose(t) PROVE Planned'
  <2>1. /\ pc = "pass" /\ todo = {} /\ todo' = todo /\ toTrail' = toTrail /\ trailed' = trailed
        /\ UNCHANGED table
        /\ \/ pc' = "markTrailed" /\ cur' = t /\ t \in toTrail /\ toClose' = toClose
           \/ pc' = "markClosed" /\ cur' = t /\ t \in toClose /\ toTrail = {} /\ toClose' = toClose
           \/ pc' = "pass" /\ toClose' = toClose \ {t}
    BY <1>9 DEF SendTrail, DeferClose, SendClose, Closing
  <2>2. Undecided' \subseteq Undecided
    BY <2>1 DEF Undecided
  <2>3. QED
    BY <1>0, <2>1, <2>2 DEF Planned, Candidates, Open, Traded, CoinOf, table
<1>10. CASE MarkTrailed
  <2>1. /\ pc = "markTrailed" /\ pc' = "pass" /\ todo' = todo /\ toClose' = toClose
        /\ toTrail' = toTrail \ {cur} /\ trailed' = trailed \cup {CoinOf(cur)}
        /\ action' = [action EXCEPT ![cur] = "TRAILED"] /\ status' = status /\ origin' = origin
    BY <1>10 DEF MarkTrailed
  <2>2. cur \in Trades /\ cur \in toTrail /\ Open(cur) /\ todo = {} /\ cur \notin toClose
    BY <1>0, <2>1 DEF Planned, Undecided, Candidates
  <2>3. action'[cur] = "TRAILED" /\ \A x \in Trades \ {cur} : action'[x] = action[x]
    BY <1>0, <2>1, <2>2 DEF TypeOK
  <2>4. Undecided' \subseteq Undecided \ {cur}
    BY <2>1, <2>2 DEF Undecided
  <2>5. \A x \in Undecided' : x \in Candidates'
    BY <1>0, <2>1, <2>3, <2>4 DEF Planned, Candidates, Open
  <2>6. \A c \in trailed' : \E x \in Trades : Open(x)' /\ action'[x] = "TRAILED" /\ CoinOf(x)' = c
    BY <1>0, <2>1, <2>2, <2>3 DEF Planned, Open, CoinOf
  <2>7. toTrail' \cap toClose' = {} /\ todo' = {}
    BY <1>0, <2>1, <2>2 DEF Planned
  <2>8. QED
    BY <2>1, <2>5, <2>6, <2>7 DEF Planned
<1>11. CASE MarkClosed
  <2>1. /\ pc = "markClosed" /\ pc' = "forceRead" /\ UNCHANGED <<todo, toTrail, toClose, trailed, cur, origin>>
        /\ action' = [action EXCEPT ![cur] = "CLOSED"]
        /\ status' = [status EXCEPT ![cur] = "CLOSED_REGIME_CHANGE"]
    BY <1>11 DEF MarkClosed, memory, pass
  <2>2. cur \in Trades /\ cur \in toClose /\ cur \in Candidates /\ todo = {} /\ toTrail = {}
    BY <1>0, <2>1 DEF Planned, Undecided
  <2>3. /\ status'[cur] = "CLOSED_REGIME_CHANGE"
        /\ \A x \in Trades \ {cur} : action'[x] = action[x] /\ status'[x] = status[x]
    BY <1>0, <2>1, <2>2 DEF TypeOK
  <2>4. Undecided' = Undecided /\ Undecided \subseteq Trades
    BY <1>0, <2>1 DEF Undecided, TypeOK
  <2>5. \A x \in Undecided' : x \in Candidates' \/ x = cur'
    BY <1>0, <2>1, <2>3, <2>4 DEF Planned, Candidates, Open
  <2>6. \A c \in trailed' : \E x \in Trades : Open(x)' /\ action'[x] = "TRAILED" /\ CoinOf(x)' = c
    <3>1. \A x \in Trades : action[x] = "TRAILED" => x # cur
      BY <2>2 DEF Candidates
    <3>2. QED
      BY <1>0, <2>1, <2>3, <3>1 DEF Planned, Open, CoinOf
  <2>7. Traded(cur)' /\ ~Open(cur)'
    BY <2>1, <2>3 DEF Traded, Open
  <2>8. QED
    BY <2>1, <2>2, <2>5, <2>6, <2>7 DEF Planned
<1>12. CASE ForceDone
  <2>1. /\ pc = "force" /\ pc' = "pass" /\ UNCHANGED <<todo, toTrail, trailed, table>>
        /\ toClose' = toClose \ {cur}
    BY <1>12 DEF ForceDone
  <2>2. Undecided' \subseteq Undecided \ {cur}
    BY <1>0, <2>1 DEF Undecided, Planned
  <2>3. QED
    BY <1>0, <2>1, <2>2 DEF Planned, Candidates, Open, Traded, CoinOf, table
<1>13. CASE UNCHANGED vars
  <2>1. UNCHANGED table /\ UNCHANGED Plan
    BY <1>13 DEF vars, memory, pass
  <2>2. QED
    BY <1>1, <2>1
<1>14. QED
  BY <1>2, <1>3, <1>4, <1>5, <1>6, <1>7, <1>8, <1>9, <1>10, <1>11, <1>12, <1>13
     DEF Next, Orchestrate, RejudgingPass, LifecycleSync, Fault

(* Faults are counted and never forgotten.                                  *)
LEMMA FaultsGrow ==
    ASSUME TypeOK, [Next]_vars
    PROVE  /\ errors' = 0 => errors = 0 /\ ~StageError /\ ~StartError /\ ~ForceError
                             /\ \A s \in Signals : ~RowError(s)
           /\ crashes' + errors' = 0 => crashes + errors = 0 /\ errors' = 0 /\ ~StageError /\ ~Crash
<1>1. crashes \in Nat /\ errors \in Nat
  BY BoundAssumption DEF TypeOK
<1>2. CASE Fault
  <2>1. CASE StageError \/ StartError \/ ForceError \/ \E s \in Signals : RowError(s)
    <3>1. errors' = errors + 1 /\ crashes' = crashes
      BY <2>1 DEF StageError, StartError, ForceError, RowError
    <3>2. QED
      BY <1>1, <3>1
  <2>2. CASE Crash
    <3>1. crashes' = crashes + 1 /\ errors' = errors /\ pc # "down" /\ pc' = "down" /\ known' = NoRegime
      BY <2>2 DEF Crash
    <3>2. errors' # errors + 1
      BY <1>1, <3>1
    <3>3. ~StageError /\ ~StartError /\ ~ForceError /\ \A s \in Signals : ~RowError(s)
      BY <3>2 DEF StageError, StartError, ForceError, RowError
    <3>4. crashes' + errors' # 0
      BY <1>1, <3>1
    <3>5. QED
      BY <3>1, <3>3, <3>4
  <2>3. QED
    BY <1>2, <2>1, <2>2 DEF Fault
<1>3. CASE ~Fault
  <2>1. ~StageError /\ ~StartError /\ ~ForceError /\ ~Crash /\ \A s \in Signals : ~RowError(s)
    BY <1>3 DEF Fault
  <2>2. errors' = errors /\ crashes' = crashes
    <3>1. CASE Environment
      BY <3>1 DEF Environment, PostSignal, SignalAges, TradeGetsOld, MonitorCloses, TwinDeleted, CooldownEnds,
                  RegimeChanges, StabilityChanges, faults
    <3>2. CASE RejudgingPass
      BY <3>2 DEF RejudgingPass, Judge, SendTrail, DeferClose, SendClose, ForceMove, ForceRead, ForceDone,
                  EndPass, MarkTrailed, MarkClosed, faults
    <3>3. CASE GatingPass
      BY <3>3 DEF GatingPass, InitCursor, Scan, EndGating, Suppress, Forward, faults
    <3>4. CASE LifecycleSync
      BY <3>4 DEF LifecycleSync, SkipSync, EndSync, Reap, Match, faults
    <3>5. CASE Start \/ NoFlip \/ Flip
      BY <3>5 DEF Start, NoFlip, Flip, faults
    <3>6. CASE UNCHANGED vars
      BY <3>6 DEF vars, faults
    <3>7. QED
      BY <1>3, <3>1, <3>2, <3>3, <3>4, <3>5, <3>6 DEF Next, Orchestrate
  <2>3. /\ errors' = 0 => errors = 0
        /\ crashes' + errors' = 0 => crashes + errors = 0 /\ errors' = 0
    BY <1>1, <2>2
  <2>4. QED
    BY <2>1, <2>3
<1>4. QED
  BY <1>2, <1>3

(* When a Close is posted and when its row is marked.                       *)
LEMMA ToldFrame ==
    ASSUME [Next]_vars
    PROVE  \/ told' = told /\ pc' = pc /\ cur' = cur
           \/ told' = told /\ pc # "markClosed" /\ pc' # "markClosed"
           \/ told' = told /\ pc' # "markClosed" /\ (StageError \/ Crash)
           \/ MarkClosed
           \/ \E t \in Trades : SendClose(t)
<1>1. CASE Environment
  BY <1>1 DEF Environment, PostSignal, SignalAges, TradeGetsOld, MonitorCloses, TwinDeleted, CooldownEnds,
              RegimeChanges, StabilityChanges, memory, pass, history
<1>2. CASE Fault
  BY <1>2 DEF Fault, StageError, StartError, ForceError, Crash, RowError, NextRow, history
<1>3. CASE RejudgingPass
  BY <1>3 DEF RejudgingPass, Judge, SendTrail, DeferClose, Closing, ForceMove, ForceRead, ForceDone, EndPass,
              MarkTrailed, history
<1>4. CASE GatingPass
  BY <1>4 DEF GatingPass, InitCursor, Scan, EndGating, Suppress, Forward, NextRow, history
<1>5. CASE LifecycleSync
  BY <1>5 DEF LifecycleSync, SkipSync, EndSync, Reap, Match, history
<1>6. CASE Start \/ NoFlip \/ Flip
  BY <1>6 DEF Start, NoFlip, Flip, BeginPass, history
<1>7. CASE UNCHANGED vars
  BY <1>7 DEF vars, memory, pass, history
<1>8. QED
  BY <1>1, <1>2, <1>3, <1>4, <1>5, <1>6, <1>7 DEF Next, Orchestrate

(* A Close is posted for one trade and that trade is marked next.           *)
LEMMA PostedStep == ASSUME Base, [Next]_vars PROVE Posted'
<1>0. TypeOK /\ Posted /\ Planned
  BY DEF Base
<1>1. \A t \in Trades : status'[t] = "CLOSED_REGIME_CHANGE" =>
         status[t] = "CLOSED_REGIME_CHANGE" \/ (MarkClosed /\ t = cur)
  <2>1. CASE UNCHANGED table \/ MarkTrailed \/ Reap
    BY <2>1 DEF table, MarkTrailed, Reap
  <2>2. ASSUME NEW s \in Signals, Forward(s) PROVE <1>1!:
    BY <1>0, <2>2 DEF Forward, TypeOK
  <2>3. CASE MarkClosed
    BY <1>0, <2>3 DEF MarkClosed, TypeOK
  <2>4. ASSUME NEW t \in Trades, Match(t) PROVE <1>1!:
    BY <1>0, <2>4 DEF Match, TypeOK
  <2>5. QED
    BY <2>1, <2>2, <2>3, <2>4, TableFrame
<1>2. \A t \in told : t \in Trades /\ Traded(t) /\ Traded(t)'
  <2>1. \A t \in told : t \in Trades /\ Traded(t)
    BY <1>0 DEF Posted, TypeOK
  <2>2. QED
    BY <2>1, TableStep
<1>3. ASSUME told' = told, ~MarkClosed, pc' = "markClosed" => pc = "markClosed" /\ cur' = cur PROVE Posted'
  <2>1. ClosedMeansTold'
    BY <1>0, <1>1, <1>3 DEF Posted, ClosedMeansTold
  <2>2. QED
    BY <1>0, <1>2, <1>3, <2>1 DEF Posted
<1>4. CASE told' = told /\ pc' = pc /\ cur' = cur
  BY <1>3, <1>4 DEF MarkClosed
<1>5. CASE told' = told /\ pc # "markClosed" /\ pc' # "markClosed"
  BY <1>3, <1>5 DEF MarkClosed
<1>6. CASE told' = told /\ pc' # "markClosed" /\ (StageError \/ Crash)
  <2>1. ~MarkClosed
    BY <1>6 DEF MarkClosed, StageError, Crash
  <2>2. QED
    BY <1>3, <1>6, <2>1
<1>7. CASE MarkClosed
  <2>1. pc = "markClosed" /\ pc' = "forceRead" /\ told' = told
    BY <1>7 DEF MarkClosed, history
  <2>2. ClosedMeansTold'
    BY <1>0, <1>1, <2>1 DEF Posted, ClosedMeansTold
  <2>3. QED
    BY <1>2, <2>1, <2>2 DEF Posted
<1>8. ASSUME NEW t \in Trades, SendClose(t) PROVE Posted'
  <2>1. /\ pc = "pass" /\ t \in toClose /\ cur' = t
        /\ told' = told \cup {x \in Trades : status[x] # "none" /\ CoinOf(x) = CoinOf(t)}
        /\ UNCHANGED <<status, origin>>
    BY <1>8 DEF SendClose, Closing, PostClose, table
  <2>2. Open(t)
    BY <1>0, <2>1 DEF Planned, PassPhases, Undecided, Candidates
  <2>3. t \in told'
    BY <2>1, <2>2 DEF Open
  <2>4. \A x \in told' : Traded(x)'
    BY <1>0, <2>1 DEF Posted, Traded
  <2>5. ClosedMeansTold'
    BY <1>0, <2>1 DEF Posted, ClosedMeansTold
  <2>6. QED
    BY <2>1, <2>3, <2>4, <2>5 DEF Posted
<1>9. QED
  BY <1>4, <1>5, <1>6, <1>7, <1>8, ToldFrame

(* Where no two open trades share a coin, a Close reaches one of them.      *)
LEMMA ReachedStep == ASSUME IInv, [Next]_vars PROVE Reached'
<1>0. Base /\ TypeOK /\ Posted /\ Reached /\ Planned /\ OneOpenPerCoin
  BY DEF IInv, Base
<1>1. SUFFICES ASSUME crashes' + errors' = 0, NEW t \in told', Open(t)' PROVE pc' = "markClosed" /\ cur' = t
  BY DEF Reached
<1>2. crashes + errors = 0 /\ ~StageError /\ ~Crash
  BY FaultsGrow, <1>0, <1>1
<1>3. t \in told => t \in Trades /\ Open(t) /\ pc = "markClosed" /\ cur = t
  <2>1. SUFFICES ASSUME t \in told PROVE t \in Trades /\ Open(t) /\ pc = "markClosed" /\ cur = t
    OBVIOUS
  <2>2. t \in Trades /\ Traded(t)
    BY <1>0, <2>1 DEF Posted, TypeOK
  <2>3. Open(t)
    BY <1>0, <1>1, <2>2, TableStep DEF Open
  <2>4. QED
    BY <1>0, <1>2, <2>1, <2>2, <2>3 DEF Reached
<1>4. CASE told' = told /\ pc' = pc /\ cur' = cur
  BY <1>1, <1>3, <1>4
<1>5. CASE told' = told /\ pc # "markClosed" /\ pc' # "markClosed"
  BY <1>1, <1>3, <1>5
<1>6. CASE MarkClosed
  <2>1. told' = told /\ status' = [status EXCEPT ![cur] = "CLOSED_REGIME_CHANGE"]
    BY <1>6 DEF MarkClosed, history
  <2>2. t = cur /\ cur \in Trades
    BY <1>1, <1>3, <2>1
  <2>3. ~Open(t)'
    BY <1>0, <2>1, <2>2 DEF TypeOK, Open
  <2>4. QED
    BY <1>1, <2>3
<1>7. ASSUME NEW x \in Trades, SendClose(x) PROVE pc' = "markClosed" /\ cur' = t
  <2>1. /\ pc = "pass" /\ x \in toClose /\ pc' = "markClosed" /\ cur' = x
        /\ told' = told \cup {y \in Trades : status[y] # "none" /\ CoinOf(y) = CoinOf(x)}
        /\ UNCHANGED <<status, origin>>
    BY <1>7 DEF SendClose, Closing, PostClose, table
  <2>2. Open(x)
    BY <1>0, <2>1 DEF Planned, PassPhases, Undecided, Candidates
  <2>3. t \notin told
    BY <1>3, <2>1
  <2>4. t \in Trades /\ Open(t) /\ CoinOf(t) = CoinOf(x)
    BY <1>1, <2>1, <2>3 DEF Open
  <2>5. QED
    BY <1>0, <2>1, <2>2, <2>4 DEF OneOpenPerCoin
<1>8. QED
  BY <1>2, <1>4, <1>5, <1>6, <1>7, ToldFrame

(* A row is closed with an outcome, or its twin is moved by force.          *)
LEMMA TrackedStep == ASSUME Base, [Next]_vars PROVE Tracked'
<1> DEFINE closing == pc \in {"forceRead", "force"}
<1>0. TypeOK /\ Tracked /\ Accounted /\ Planned
  BY DEF Base
<1>1. SUFFICES ASSUME crashes' + errors' = 0 PROVE Tracked'
  BY DEF Tracked, TwinIsTracked
<1>2. /\ crashes + errors = 0
      /\ ~StageError /\ ~Crash /\ ~StartError /\ ~ForceError /\ \A s \in Signals : ~RowError(s)
  BY <1>0, <1>1, FaultsGrow
<1>3. \A t \in Trades : twin[t] => Open(t) \/ (cur = t /\ closing)
  BY <1>0, <1>2 DEF Tracked, TwinIsTracked
<1>4. pc = "force" /\ twin[cur] => cur \in rows
  BY <1>0, <1>2 DEF Tracked
<1>5. ASSUME \A t \in Trades : twin'[t] => twin[t], UNCHANGED <<status, pc, cur, rows>>,
             cur \in Trades \/ pc # "force"
      PROVE  Tracked'
  BY <1>3, <1>4, <1>5 DEF Tracked, TwinIsTracked, Open
<1>6. pc = "force" => cur \in Trades
  BY <1>0 DEF Planned, PassPhases
<1>7. CASE Environment
  <2>1. UNCHANGED <<status, pc, cur, rows>>
    BY <1>7 DEF Environment, PostSignal, SignalAges, TradeGetsOld, MonitorCloses, TwinDeleted, CooldownEnds,
                RegimeChanges, StabilityChanges, memory, pass, table
  <2>2. \A t \in Trades : twin'[t] => twin[t]
    <3>1. twin' = twin \/ \E t \in Trades : twin' = [twin EXCEPT ![t] = FALSE]
      BY <1>7 DEF Environment, PostSignal, SignalAges, TradeGetsOld, MonitorCloses, TwinDeleted, CooldownEnds,
                  RegimeChanges, StabilityChanges, twins
    <3>2. QED
      BY <1>0, <3>1 DEF TypeOK
  <2>3. QED
    BY <1>5, <1>6, <2>1, <2>2
<1>8. ASSUME ~closing, pc' \notin {"forceRead", "force"}, twin' = twin,
             \A t \in Trades : twin[t] /\ Open(t) => Open(t)'
      PROVE  Tracked'
  BY <1>3, <1>8 DEF Tracked, TwinIsTracked
<1>9. CASE Start \/ NoFlip \/ Flip \/ (RejudgingPass /\ ~MarkClosed /\ ~ForceRead /\ ~ForceDone
                                       /\ \A t \in Trades : ~ForceMove(t))
  <2>1. ~closing /\ pc' \notin {"forceRead", "force"} /\ twin' = twin /\ status' = status
    BY <1>9 DEF Start, NoFlip, Flip, BeginPass, RejudgingPass, Judge, SendTrail, DeferClose, SendClose, Closing,
                MarkTrailed, EndPass, twins, table
  <2>2. QED
    BY <1>8, <2>1 DEF Open
<1>10. CASE GatingPass
  <2>1. ASSUME NEW s \in Signals, Forward(s) PROVE Tracked'
    <3>1. PICK t \in Trades : status[t] = "none" /\ status' = [status EXCEPT ![t] = "OPEN"]
                              /\ twin' = [twin EXCEPT ![t] = TRUE]
      BY <2>1 DEF Forward
    <3>2. ~closing /\ pc' = "gate"
      BY <2>1 DEF Forward, NextRow
    <3>3. \A x \in Trades : twin'[x] => Open(x)'
      BY <1>0, <1>3, <3>1, <3>2 DEF TypeOK, Open
    <3>4. QED
      BY <3>2, <3>3 DEF Tracked, TwinIsTracked
  <2>2. CASE InitCursor \/ Scan \/ EndGating \/ \E s \in Signals : Suppress(s)
    <3>1. ~closing /\ pc' \notin {"forceRead", "force"} /\ twin' = twin /\ status' = status
      BY <2>2 DEF InitCursor, Scan, EndGating, Suppress, NextRow, twins, table
    <3>2. QED
      BY <1>8, <3>1 DEF Open
  <2>3. QED
    BY <1>10, <2>1, <2>2 DEF GatingPass
<1>11. CASE LifecycleSync
  <2>1. ~closing /\ pc' \notin {"forceRead", "force"} /\ twin' = twin
    BY <1>11 DEF LifecycleSync, SkipSync, Reap, Match, EndSync, twins
  <2>2. \A t \in Trades : twin[t] /\ Open(t) => Open(t)'
    <3>1. CASE SkipSync \/ EndSync
      BY <3>1 DEF SkipSync, EndSync, table, Open
    <3>2. CASE Reap
      BY <3>2 DEF Reap, Corpses, Open
    <3>3. ASSUME NEW t \in Trades, Match(t) PROVE <2>2!:
      <4>1. twin[t] => ~(booked[t] > 0)
        BY <1>0 DEF Accounted
      <4>2. QED
        BY <1>0, <3>3, <4>1 DEF Match, Open, TypeOK
    <3>4. QED
      BY <1>11, <3>1, <3>2, <3>3 DEF LifecycleSync
  <2>3. QED
    BY <1>8, <2>1, <2>2
<1>12. CASE MarkClosed
  <2>1. /\ ~closing /\ pc' = "forceRead" /\ cur' = cur /\ twin' = twin /\ pc = "markClosed"
        /\ status' = [status EXCEPT ![cur] = "CLOSED_REGIME_CHANGE"]
    BY <1>12 DEF MarkClosed, memory, pass, twins
  <2>2. \A t \in Trades \ {cur} : Open(t) => Open(t)'
    BY <1>0, <2>1 DEF TypeOK, Open
  <2>3. QED
    BY <1>3, <2>1, <2>2 DEF Tracked, TwinIsTracked
<1>13. CASE ForceRead
  <2>1. /\ closing /\ pc' = "force" /\ cur' = cur /\ twin' = twin /\ status' = status
        /\ rows' = TwinsLike(cur) /\ pc = "forceRead"
    BY <1>13 DEF ForceRead, twins, table
  <2>2. twin[cur] => cur \in rows'
    BY <1>0, <2>1 DEF TwinsLike, Planned, PassPhases
  <2>3. QED
    BY <1>3, <2>1, <2>2 DEF Tracked, TwinIsTracked, Open
<1>14. ASSUME NEW x \in Trades, ForceMove(x) PROVE Tracked'
  <2>1. /\ pc = "force" /\ pc' = pc /\ cur' = cur /\ status' = status
        /\ twin' = [twin EXCEPT ![x] = FALSE] /\ rows' = rows \ {x}
    BY <1>14 DEF ForceMove, table
  <2>2. ~twin'[x] /\ \A t \in Trades \ {x} : twin'[t] = twin[t]
    BY <1>0, <2>1 DEF TypeOK
  <2>3. twin'[cur] => cur \in rows'
    BY <1>4, <1>6, <2>1, <2>2
  <2>4. \A t \in Trades : twin'[t] => Open(t)' \/ cur = t
    BY <1>3, <2>1, <2>2 DEF Open
  <2>5. QED
    BY <2>1, <2>3, <2>4 DEF Tracked, TwinIsTracked
<1>15. CASE ForceDone
  <2>1. pc = "force" /\ pc' = "pass" /\ rows = {} /\ twin' = twin /\ status' = status
    BY <1>15 DEF ForceDone, twins, table
  <2>2. \A t \in Trades : twin[t] => Open(t)
    BY <1>3, <1>4, <2>1
  <2>3. QED
    BY <2>1, <2>2 DEF Tracked, TwinIsTracked, Open
<1>16. CASE UNCHANGED vars
  BY <1>5, <1>6, <1>16 DEF vars, table, twins, memory, pass
<1>17. QED
  BY <1>2, <1>7, <1>9, <1>10, <1>11, <1>12, <1>13, <1>14, <1>15, <1>16
     DEF Next, Orchestrate, Fault

(* Only the detector becomes unreliable.                                    *)
LEMMA UnstableFrame ==
    ASSUME [Next]_vars
    PROVE  unstable' = unstable \/ StabilityChanges
<1>1. CASE Environment
  BY <1>1 DEF Environment, PostSignal, SignalAges, TradeGetsOld, MonitorCloses, TwinDeleted, CooldownEnds,
              RegimeChanges, market
<1>2. CASE Fault
  BY <1>2 DEF Fault, StageError, StartError, ForceError, Crash, RowError, market
<1>3. CASE RejudgingPass
  BY <1>3 DEF RejudgingPass, Judge, SendTrail, DeferClose, SendClose, ForceMove, ForceRead, ForceDone,
              EndPass, MarkTrailed, MarkClosed, market
<1>4. CASE GatingPass
  BY <1>4 DEF GatingPass, InitCursor, Scan, EndGating, Suppress, Forward, market
<1>5. CASE LifecycleSync
  BY <1>5 DEF LifecycleSync, SkipSync, EndSync, Reap, Match, market
<1>6. CASE Start \/ NoFlip \/ Flip
  BY <1>6 DEF Start, NoFlip, Flip, market
<1>7. CASE UNCHANGED vars
  BY <1>7 DEF vars, market
<1>8. QED
  BY <1>1, <1>2, <1>3, <1>4, <1>5, <1>6, <1>7 DEF Next, Orchestrate

(* A reliable detector judges by the cell of the current regime.            *)
LEMMA WhitelistedAllows ==
    ASSUME NEW bot, NEW direction, ~unstable
    PROVE  Whitelisted(bot, direction) <=> Allows(bot, direction, regime)
  BY Zenon DEF Whitelisted, Allows

(* The pass decides on every candidate before it ends.                      *)
LEMMA JudgedStep == ASSUME IInv, [Next]_vars PROVE Judged'
<1> USE GateAssumption DEF PassPhases
<1> DEFINE Waiting(t) == pc \in PassPhases /\ t \in Undecided
           Goal == /\ known' \in Regimes
                   /\ MayBeUnstable \/ \A t \in Candidates' : Waiting(t)' \/ Allowed(t)'
<1>0. Base /\ TypeOK /\ Judged /\ Planned /\ OneOpenPerCoin /\ Consumed
  BY DEF IInv, Base
<1>1. ~MayBeUnstable => ~unstable'
  <2>1. unstable' = unstable \/ StabilityChanges
    BY UnstableFrame
  <2>2. QED
    BY <1>0, <2>1 DEF Judged, StabilityChanges
<1>2. SUFFICES ASSUME errors' = 0, pc' # "down"
      PROVE  Goal
  BY <1>1 DEF Judged
<1>3. /\ errors = 0
      /\ ~StageError /\ ~StartError /\ ~ForceError /\ \A s \in Signals : ~RowError(s)
  BY <1>0, <1>2, FaultsGrow
<1>4. pc # "down" => known \in Regimes /\ (MayBeUnstable \/ \A t \in Candidates : Waiting(t) \/ Allowed(t))
  BY <1>0, <1>3 DEF Judged
<1>5. ASSUME NEW t \in Candidates, origin'[t] = origin[t], Allowed(t), known' = known, regime' = regime
      PROVE  Allowed(t)'
  BY <1>5 DEF Allowed, BotOf, DirectionOf
<1>6. ASSUME pc # "down", known' = known, regime' = regime,
             \A t \in Candidates' : t \in Candidates /\ origin'[t] = origin[t],
             \A t \in Candidates' : Waiting(t) => Waiting(t)'
      PROVE  Goal
  BY <1>4, <1>5, <1>6
<1>7. CASE Environment
  <2>1. ASSUME RegimeChanges PROVE Goal
    <3>1. /\ pc' = pc /\ UNCHANGED <<table, todo, toTrail, toClose>> /\ known' = known
          /\ pc = "down" \/ known \in {regime, NoRegime}
      BY <2>1 DEF RegimeChanges, memory, pass
    <3>2. known = regime /\ known \in Regimes
      BY <1>2, <1>4, <3>1
    <3>3. \A t \in Candidates : Allowed(t) => Allowed(t)'
      BY <3>1, <3>2 DEF Allowed, BotOf, DirectionOf, table
    <3>4. Candidates' = Candidates /\ \A t \in Candidates : Waiting(t) => Waiting(t)'
      BY <3>1 DEF Candidates, Open, Undecided, table
    <3>5. QED
      BY <1>2, <1>4, <3>1, <3>2, <3>3, <3>4
  <2>2. CASE ~RegimeChanges
    <3>1. pc' = pc /\ UNCHANGED <<table, todo, toTrail, toClose, known, regime>>
      BY <1>7, <2>2 DEF Environment, PostSignal, SignalAges, TradeGetsOld, MonitorCloses, TwinDeleted,
                        CooldownEnds, StabilityChanges, memory, pass, market
    <3>2. QED
      BY <1>2, <1>6, <3>1 DEF Candidates, Open, Undecided, table
  <2>3. QED
    BY <2>1, <2>2
<1>8. CASE Start \/ Flip
  <2>1. known' = regime /\ BeginPass(pc = "down") /\ UNCHANGED table
    BY <1>8 DEF Start, Flip, BeginPass
  <2>2. Candidates' = todo' /\ pc' = "pass"
    BY <2>1 DEF BeginPass, Candidates, Open, table
  <2>3. QED
    BY <1>0, <2>1, <2>2 DEF TypeOK, Undecided
<1>9. CASE NoFlip
  <2>1. known \in {regime, NoRegime} /\ known' = regime /\ UNCHANGED <<table, regime>> /\ pc = "regime"
    BY <1>9 DEF NoFlip, market
  <2>2. known = regime
    BY <1>4, <2>1
  <2>3. QED
    BY <1>4, <1>5, <2>1, <2>2 DEF Candidates, Open, table
<1>10. ASSUME NEW t \in Trades, Judge(t) PROVE Goal
  <2>1. /\ pc = "pass" /\ pc' = pc /\ todo' = todo \ {t} /\ toTrail \subseteq toTrail' /\ toClose \subseteq toClose'
        /\ known' = known /\ regime' = regime /\ UNCHANGED table
        /\ t \in toTrail' \/ t \in toClose' \/ Whitelisted(BotOf(t), DirectionOf(t))
    BY <1>10 DEF Judge, market
  <2>2. ~MayBeUnstable /\ Whitelisted(BotOf(t), DirectionOf(t)) => Allowed(t)
    BY <1>0, WhitelistedAllows DEF Judged, Allowed
  <2>3. Candidates' = Candidates /\ \A x \in Candidates : origin'[x] = origin[x]
    BY <2>1 DEF Candidates, Open, table
  <2>4. \A x \in Candidates : Waiting(x) => Waiting(x)' \/ (x = t /\ Whitelisted(BotOf(t), DirectionOf(t)))
    BY <2>1 DEF Undecided
  <2>5. QED
    BY <1>4, <1>5, <2>1, <2>2, <2>3, <2>4
<1>11. ASSUME NEW t \in Trades, DeferClose(t) PROVE FALSE
  <2>1. pc = "pass" /\ t \in toClose /\ CoinOf(t) \in trailed
    BY <1>11 DEF DeferClose, Closing, SharesTrailed
  <2>2. t \in Candidates
    BY <1>0, <2>1 DEF Planned, Undecided
  <2>3. PICK x \in Trades : Open(x) /\ action[x] = "TRAILED" /\ CoinOf(x) = CoinOf(t)
    BY <1>0, <2>1 DEF Planned
  <2>4. x = t
    BY <1>0, <2>2, <2>3 DEF OneOpenPerCoin, Candidates
  <2>5. QED
    BY <2>2, <2>3, <2>4 DEF Candidates
<1>12. CASE ForceRead \/ \E t \in Trades : SendTrail(t) \/ SendClose(t) \/ ForceMove(t)
  <2>1. /\ pc \in PassPhases /\ pc' \in PassPhases
        /\ UNCHANGED <<table, todo, toTrail, toClose, known, regime>>
    BY <1>12 DEF ForceRead, SendTrail, SendClose, Closing, ForceMove, market
  <2>2. QED
    BY <1>6, <2>1 DEF Candidates, Open, Undecided, table
<1>13. CASE MarkTrailed \/ MarkClosed \/ ForceDone
  <2>1. cur \in Trades /\ pc \in PassPhases /\ pc' \in PassPhases /\ known' = known /\ regime' = regime
    BY <1>0, <1>13 DEF Planned, MarkTrailed, MarkClosed, ForceDone, market, memory
  <2>2. Undecided \ {cur} \subseteq Undecided'
    BY <1>13 DEF MarkTrailed, MarkClosed, ForceDone, Undecided, memory, pass
  <2>3. cur \notin Candidates' /\ \A t \in Candidates' : t \in Candidates /\ origin'[t] = origin[t]
    <3>1. CASE MarkTrailed
      BY <1>0, <2>1, <3>1 DEF MarkTrailed, TypeOK, Candidates, Open
    <3>2. CASE MarkClosed
      BY <1>0, <2>1, <3>2 DEF MarkClosed, TypeOK, Candidates, Open
    <3>3. CASE ForceDone
      BY <1>0, <3>3 DEF ForceDone, Planned, Candidates, Open, table
    <3>4. QED
      BY <1>13, <3>1, <3>2, <3>3
  <2>4. QED
    BY <1>6, <2>1, <2>2, <2>3
<1>14. CASE EndPass
  <2>1. pc = "pass" /\ Undecided = {} /\ UNCHANGED <<table, known, regime>>
    BY <1>14 DEF EndPass, Undecided, market
  <2>2. QED
    BY <1>6, <2>1 DEF Candidates, Open, table
<1>15. ASSUME NEW s \in Signals, Forward(s) PROVE Goal
  <2>1. /\ pc = "gate" /\ known' = known /\ regime' = regime /\ action' = action
        /\ Whitelisted(SignalOf[s].bot, SignalOf[s].direction)
    BY <1>15 DEF Forward, NextRow
  <2>2. PICK t \in Trades : /\ status[t] = "none" /\ status' = [status EXCEPT ![t] = "OPEN"]
                            /\ origin' = [origin EXCEPT ![t] = s]
    BY <1>15 DEF Forward
  <2>3. origin'[t] = s /\ \A x \in Trades \ {t} : status'[x] = status[x] /\ origin'[x] = origin[x]
    BY <1>0, <2>2 DEF TypeOK
  <2>4. MayBeUnstable \/ Allowed(t)'
    BY <1>0, <2>1, <2>3, WhitelistedAllows DEF Judged, Allowed, BotOf, DirectionOf
  <2>5. \A x \in Candidates' : x = t \/ (x \in Candidates /\ origin'[x] = origin[x])
    BY <2>1, <2>3 DEF Candidates, Open
  <2>6. QED
    BY <1>4, <1>5, <2>1, <2>4, <2>5
<1>16. CASE InitCursor \/ Scan \/ EndGating \/ SkipSync \/ EndSync \/ \E s \in Signals : Suppress(s)
  <2>1. pc \notin PassPhases \cup {"down"} /\ UNCHANGED <<table, known, regime>>
    BY <1>16 DEF InitCursor, Scan, EndGating, SkipSync, EndSync, Suppress, NextRow, market, memory
  <2>2. QED
    BY <1>6, <2>1 DEF Candidates, Open, table
<1>17. CASE Reap \/ \E t \in Trades : Match(t)
  <2>1. /\ pc \notin PassPhases \cup {"down"} /\ UNCHANGED <<action, origin, known, regime>>
        /\ ~\E s \in Signals : Forward(s)
    BY <1>17 DEF Reap, Match, Forward, NextRow, market
  <2>2. \A t \in Trades : Open(t)' => Open(t)
    BY <1>0, <2>1, TableStep
  <2>3. QED
    BY <1>6, <2>1, <2>2 DEF Candidates
<1>18. CASE UNCHANGED vars
  BY <1>2, <1>6, <1>18 DEF vars, table, market, memory, pass, Candidates, Open, Undecided
<1>19. QED
  BY <1>2, <1>3, <1>7, <1>8, <1>9, <1>10, <1>11, <1>12, <1>13, <1>14, <1>15, <1>16, <1>17, <1>18
     DEF Next, Orchestrate, RejudgingPass, GatingPass, LifecycleSync, Fault, Crash

(* Finitely many ids have a greatest one: there is no least size at which   *)
(* a set of them has no bound.                                              *)
LEMMA FiniteIsBounded ==
    ASSUME NEW S \in SUBSET Nat, IsFiniteSet(S) PROVE \E b \in Nat : \A s \in S : s <= b
<1> DEFINE HasBound(T) == \E b \in Nat : \A s \in T : s <= b
           Bad == {n \in Nat : \E T \in SUBSET Nat : IsFiniteSet(T) /\ Cardinality(T) = n /\ ~HasBound(T)}
<1>1. SUFFICES ASSUME ~HasBound(S) PROVE FALSE
  OBVIOUS
<1>2. Cardinality(S) \in Bad
  <2>1. Cardinality(S) \in Nat
    BY FS_CardinalityType
  <2>2. QED
    BY <1>1, <2>1
<1>3. PICK n \in Bad : \A m \in Bad : ~(m < n)
  <2> HIDE DEF Bad
  <2> DEFINE R == OpToRel(<, Nat)
  <2>1. \A x, y \in Nat : x < y => <<x, y>> \in R
    BY DEF OpToRel
  <2> HIDE DEF R
  <2>2. IsWellFoundedOn(R, Nat)
    BY NatLessThanWellFounded DEF R
  <2>3. Bad \subseteq Nat
    BY DEF Bad
  <2>4. PICK u \in Bad : \A w \in Bad : <<w, u>> \notin R
    BY <1>2, <2>2, <2>3, WFMin
  <2>5. ASSUME NEW w \in Bad PROVE ~(w < u)
    BY <2>1, <2>3, <2>4, <2>5, Zenon
  <2>6. QED
    BY <2>4, <2>5
<1>4. PICK T \in SUBSET Nat : IsFiniteSet(T) /\ Cardinality(T) = n /\ ~HasBound(T)
  OBVIOUS
<1>5. T # {}
  <2>1. T = {} => HasBound(T)
    OBVIOUS
  <2>2. QED
    BY <1>4, <2>1
<1>6. PICK e \in T : TRUE
  BY <1>5
<1>7. IsFiniteSet(T \ {e}) /\ Cardinality(T \ {e}) = n - 1
  BY <1>4, <1>6, FS_RemoveElement
<1>8. n \in Nat /\ n - 1 \in Nat /\ n - 1 < n
  <2>1. n \in Nat /\ Cardinality(T \ {e}) \in Nat
    BY <1>7, FS_CardinalityType
  <2>2. QED
    BY <1>7, <2>1
<1>9. HasBound(T \ {e})
  <2>1. SUFFICES ASSUME ~HasBound(T \ {e}) PROVE FALSE
    OBVIOUS
  <2>2. n - 1 \in Bad
    BY <1>7, <1>8, <2>1
  <2>3. QED
    BY <1>3, <1>8, <2>2
<1>10. PICK b \in Nat : \A s \in T \ {e} : s <= b
  BY <1>9
<1>11. e \in Nat /\ b + e \in Nat /\ b <= b + e /\ e <= b + e
  BY <1>6, <1>10
<1>12. \A s \in T : s <= b + e
  BY <1>10, <1>11
<1>13. QED
  BY <1>4, <1>11, <1>12

(* At the start the trades are the legacy ones, each with its twin, and the *)
(* signals are theirs.                                                      *)
LEMMA StartsWithLegacy ==
    ASSUME Init
    PROVE  /\ \A t \in Trades : /\ Open(t) <=> t \in Legacy
                                /\ Traded(t) <=> t \in Legacy
                                /\ twin[t] <=> t \in Legacy
                                /\ booked[t] = 0 /\ action[t] = "none"
           /\ \A t \in Legacy : t \in Trades /\ origin[t] = LegacyOrigin[t] /\ LegacyOrigin[t] \in Signals
           /\ \A s \in Signals : signal[s] = IF \E t \in Legacy : LegacyOrigin[t] = s THEN "stale" ELSE "none"
<1>1. \A t \in Trades : status[t] = IF t \in Legacy THEN "OPEN" ELSE "none"
  BY DEF Init
<1>2. \A t \in Trades : origin[t] = IF t \in Legacy THEN LegacyOrigin[t] ELSE NoTrade
  BY DEF Init
<1>3. \A t \in Trades : twin[t] = (t \in Legacy)
  BY Zenon DEF Init
<1>4. \A t \in Trades : booked[t] = 0 /\ action[t] = "none"
  BY DEF Init
<1>5. \A s \in Signals : signal[s] = IF \E t \in Legacy : LegacyOrigin[t] = s THEN "stale" ELSE "none"
  BY DEF Init
<1>6. \A t \in Legacy : t \in Trades /\ LegacyOrigin[t] \in Signals
  BY LegacyAssumption
<1>7. \A t \in Trades : (Open(t) <=> t \in Legacy) /\ (Traded(t) <=> t \in Legacy)
  BY <1>1 DEF Open, Traded
<1>8. QED
  BY <1>2, <1>3, <1>4, <1>5, <1>6, <1>7

(* Whatever rows there are at the start, Base holds.                        *)
LEMMA BaseHolds == Init => Base
<1> SUFFICES ASSUME Init PROVE Base
  OBVIOUS
<1>1. TypeOK
  <2>1. status \in [Trades -> Statuses] /\ action \in [Trades -> {"none", "TRAILED", "CLOSED"}]
    BY DEF Init, Statuses
  <2>2. origin \in [Trades -> Signals \cup {NoTrade}]
    BY LegacyAssumption DEF Init
  <2>3. \A t \in Trades : status[t] # "none" => origin[t] \in Signals
    BY StartsWithLegacy DEF Traded
  <2>4. twin \in [Trades -> BOOLEAN]
    <3>1. \A t : (t \in Legacy) \in BOOLEAN
      OBVIOUS
    <3>2. twin = [t \in Trades |-> t \in Legacy]
      BY DEF Init
    <3>3. QED
      BY <3>1, <3>2
  <2>5. booked \in [Trades -> 0..2]
    BY DEF Init
  <2>6. signal \in [Signals -> {"none", "fresh", "stale"}]
    BY DEF Init
  <2>7. /\ cooling \subseteq Coins \X Directions /\ trailed \subseteq Coins
        /\ crashes \in 0..MaxCrashes /\ errors \in 0..MaxErrors /\ deletions \in 0..MaxDeletions
    BY BoundAssumption DEF Init
  <2>8. QED
    BY <2>1, <2>2, <2>3, <2>4, <2>5, <2>6, <2>7 DEF TypeOK, Phases, Init
<1>2. Bounded
  <2> DEFINE Ids == {LegacyOrigin[t] : t \in Legacy}
  <2>1. IsFiniteSet(Ids)
    <3>1. LegacyOrigin \in Surjection(Legacy, Ids)
      BY LegacyAssumption DEF Surjection
    <3>2. QED
      BY <3>1, LegacyAssumption, FS_Surjection
  <2>2. Ids \in SUBSET Nat
    BY LegacyAssumption, TradesAssumption
  <2>3. Visible \subseteq Ids
    BY StartsWithLegacy DEF Visible
  <2>4. QED
    BY <2>1, <2>2, <2>3, FiniteIsBounded DEF Bounded
<1>3. Accounted
  <2>1. rows = {}
    BY DEF Init
  <2>2. QED
    BY <2>1, StartsWithLegacy DEF Accounted
<1>4. Consumed
  <2>1. \A t \in Trades : Traded(t) => origin[t] \in Signals /\ signal[origin[t]] = "stale"
    BY StartsWithLegacy
  <2>2. QED
    BY <2>1 DEF Consumed, Visible, Init
<1>5. Planned
  BY DEF Planned, PassPhases, Init
<1>6. Posted
  BY StartsWithLegacy DEF Posted, ClosedMeansTold, Init
<1>7. Tracked
  BY StartsWithLegacy DEF Tracked, TwinIsTracked, Init
<1>8. QED
  BY <1>1, <1>2, <1>3, <1>4, <1>5, <1>6, <1>7 DEF Base

(* The induction step, one lemma per part of Base.                          *)
LEMMA BaseStep == Base /\ [Next]_vars => Base'
<1> SUFFICES ASSUME Base, [Next]_vars PROVE Base'
  OBVIOUS
<1>1. TypeOK' /\ Bounded' /\ Accounted' /\ Consumed'
  BY TypeStep, BoundedStep, AccountedStep, ConsumedStep
<1>2. Planned' /\ Posted' /\ Tracked'
  BY PlannedStep, PostedStep, TrackedStep
<1>3. QED
  BY <1>1, <1>2 DEF Base

(* What holds of any table.                                                 *)
LEMMA BaseInvariant == Spec => []Base
<1>1. QED
  BY BaseHolds, BaseStep, PTL DEF Spec

(* The inductive invariant where no two legacy trades share a coin.         *)
LEMMA Invariant == ASSUME LegacyApart PROVE Spec => []IInv
<1>1. Init => IInv
  <2> SUFFICES ASSUME Init PROVE IInv
    OBVIOUS
  <2>1. OneOpenPerCoin
    BY StartsWithLegacy DEF OneOpenPerCoin, LegacyApart, CoinOf
  <2>2. Reached /\ Judged
    BY DEF Init, Reached, Judged
  <2>3. QED
    BY <2>1, <2>2, BaseHolds DEF IInv
<1>2. IInv /\ [Next]_vars => IInv'
  <2> SUFFICES ASSUME IInv, [Next]_vars PROVE IInv'
    OBVIOUS
  <2>1. Base /\ OneOpenPerCoin
    BY DEF IInv
  <2>2. Base' /\ OneOpenPerCoin'
    BY <2>1, BaseStep, CoinsStep
  <2>3. Reached' /\ Judged'
    BY ReachedStep, JudgedStep
  <2>4. QED
    BY <2>2, <2>3 DEF IInv
<1>3. QED
  BY <1>1, <1>2, PTL DEF Spec

(* Type correctness of the orchestrator and its tables, among it that every *)
(* row was made of a signal.                                                *)
THEOREM TypeCorrect == Spec => []TypeOK
<1>1. Base => TypeOK
  BY DEF Base
<1>2. QED
  BY <1>1, BaseInvariant, PTL

(* P2.26, P1.8 for any number of trades, coins, crashes and exceptions: at  *)
(* most one open trade per coin, in either direction, if the table starts   *)
(* that way.                                                                *)
THEOREM OneTradePerCoin == ASSUME LegacyApart PROVE Spec => []OneOpenPerCoin
<1>1. IInv => OneOpenPerCoin
  BY DEF IInv
<1>2. QED
  BY <1>1, Invariant, PTL

(* While nobody deletes twins by hand, an open trade has its twin or an     *)
(* outcome the sync will find, whatever fails between the two tables.       *)
THEOREM NothingLost == ASSUME MaxDeletions = 0 PROVE Spec => []OpenIsAccounted
<1>1. Base => OpenIsAccounted
  BY DEF Base, TypeOK, Accounted, OpenIsAccounted
<1>2. QED
  BY <1>1, BaseInvariant, PTL

(* No row is closed for a regime change without the Close of its coin.      *)
THEOREM NotClosedOnPaper == Spec => []ClosedMeansTold
<1>1. Base => ClosedMeansTold
  BY DEF Base, Posted
<1>2. QED
  BY <1>1, BaseInvariant, PTL

(* Across any number of restarts a signal becomes at most one trade, if     *)
(* that holds of the trades open at the start.                              *)
THEOREM ForwardedAtMostOnce == ASSUME LegacyOnce PROVE Spec => []ForwardedOnce
<1>1. Init => ForwardedOnce
  BY StartsWithLegacy DEF ForwardedOnce, LegacyOnce, Traded
<1>2. Base /\ ForwardedOnce /\ [Next]_vars => ForwardedOnce'
  BY ForwardedStep
<1>3. QED
  BY <1>1, <1>2, BaseInvariant, PTL DEF Spec

(* Before any fault a live twin belongs to an open row, or to the row that  *)
(* is being closed.                                                         *)
THEOREM TwinFollowed == Spec => []TwinIsTracked
<1>1. Base => TwinIsTracked
  BY DEF Base, Tracked
<1>2. QED
  BY <1>1, BaseInvariant, PTL

(* Before any fault no Close is posted for the coin of an open winner that  *)
(* was trailed, in this pass or a later one, if no two legacy trades share  *)
(* a coin.                                                                  *)
THEOREM WinnersSpared == ASSUME LegacyApart PROVE Spec => []TrailedNotClosed
<1>1. IInv => TrailedNotClosed
  <2> SUFFICES ASSUME IInv, crashes + errors = 0,
                      NEW t \in Trades, Open(t), action[t] = "TRAILED", t \in told
               PROVE  FALSE
    BY DEF TrailedNotClosed
  <2>1. pc = "markClosed" /\ cur = t
    BY DEF IInv, Reached
  <2>2. t \in Candidates
    BY <2>1 DEF IInv, Base, Planned, PassPhases, Undecided
  <2>3. QED
    BY <2>2 DEF Candidates
<1>2. QED
  BY <1>1, Invariant, PTL

(* P2.24 with a reliable detector and before any exception: every flip, of  *)
(* a downtime or of the pass itself too, is judged for every open trade, if *)
(* no two legacy trades share a coin (the Close of one is put off while the *)
(* other is trailed).                                                       *)
THEOREM EveryFlipJudged == ASSUME LegacyApart, ~MayBeUnstable PROVE Spec => []Rejudged
<1>1. IInv => Rejudged
  <2> SUFFICES ASSUME IInv, errors = 0, pc \in {"scan", "gate", "lifecycle", "match"}, NEW t \in Candidates
               PROVE  \E r \in {known, regime} : Cell[BotOf(t), DirectionOf(t), r]
    BY Zenon DEF Rejudged
  <2>1. Allowed(t)
    BY DEF IInv, Judged, PassPhases
  <2>2. QED
    BY <2>1, Zenon DEF Allowed, Allows
<1>2. QED
  BY <1>1, Invariant, PTL
=============================================================================
