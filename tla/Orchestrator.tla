---------------------------- MODULE Orchestrator ----------------------------
(***************************************************************************)
(* The signal orchestrator ROM1, 28_signal_orchestrator.py, with the       *)
(* processes it shares tables with.  Bots write signals to telegram_outbox;*)
(* the orchestrator forwards the whitelisted ones as trades of its own,    *)
(* each a row of orchestrator_open_trades with a twin in ai_signals.  The  *)
(* AI trade monitor closes twins.  When the market regime changes, trades  *)
(* of bots the new regime does not whitelist are closed or trailed by      *)
(* commands to the trading channel.                                        *)
(*                                                                         *)
(* One step is one committed transaction or one read the code acts on      *)
(* later.  A regime stands for the pair (regime, alt_context).  The row    *)
(* and its twin are written in one transaction, so the +-60 s anchor that  *)
(* joins them is modelled as their common trade number.                    *)
(*                                                                         *)
(* A definition headed "Faulty:" is no part of the model.  It is the next  *)
(* definition with a slip a programmer might make, put in its place to see *)
(* that a property notices.                                                *)
(***************************************************************************)
EXTENDS Naturals, FiniteSets

CONSTANTS
    Trades,         \* row ids of orchestrator_open_trades
    Signals,        \* ids of bot rows in telegram_outbox
    SignalOf,       \* SignalOf[s] is a record [coin, direction, bot]
    Coins, Bots, Regimes, NoRegime,
    Cell,           \* Cell[b, d, r]: bot_regime_whitelist (a missing cell allows)
    Fallback,       \* Fallback[b, d]: is_whitelisted_fallback
    MayBeUnstable,  \* TRUE iff the detector may become unreliable, or cells too old
    TrailWinners,   \* TRAIL_WINNERS_ON_REGIME_CHANGE
    Legacy,         \* trades open from the start, from before P2.26
    LegacyOrigin,   \* LegacyOrigin[t]: the signal of such a trade
    MaxCrashes,     \* bound: deaths of the process
    MaxErrors,      \* bound: exceptions in a stage
    MaxDeletions    \* bound: twins deleted by hand

Directions == {"LONG", "SHORT"}

ASSUME TradesAssumption == Trades \subseteq Nat \ {0} /\ Signals \subseteq Nat \ {0}
ASSUME SignalAssumption ==
    SignalOf \in [Signals -> [coin : Coins, direction : Directions, bot : Bots]]
ASSUME GateAssumption ==
    /\ Cell \in [Bots \X Directions \X Regimes -> BOOLEAN]
    /\ Fallback \in [Bots \X Directions -> BOOLEAN]
    /\ NoRegime \notin Regimes
    /\ MayBeUnstable \in BOOLEAN /\ TrailWinners \in BOOLEAN
ASSUME LegacyAssumption ==
    Legacy \subseteq Trades /\ IsFiniteSet(Legacy) /\ LegacyOrigin \in [Legacy -> Signals]
ASSUME BoundAssumption == MaxCrashes \in Nat /\ MaxErrors \in Nat /\ MaxDeletions \in Nat

VARIABLES
    \* orchestrator_open_trades, keyed by trade; origin is original_outbox_id
    status, action, origin,
    \* ai_signals and closed_ai_signals: the twin, how often it was booked
    twin, booked,
    \* bot rows of telegram_outbox, trade_cooldowns, regime_current
    signal, cooling, regime, unstable,
    \* trades open for more than 72 hours
    old,
    \* memory of the orchestrator process
    pc, known, ready, cursor, scan, todo, toTrail, toClose, trailed, cur, rows, boot,
    \* history: trades whose coin got a Close command, and whether a
    \* detected flip still waits for its closes
    told, unjudged,
    crashes, errors, deletions

table == <<status, action, origin>>
twins == <<twin, booked>>
market == <<signal, cooling, regime, unstable, old>>
pass == <<todo, toTrail, toClose, trailed, cur, rows, boot>>
gating == <<ready, cursor, scan>>
memory == <<known, gating, pass>>
history == <<told, unjudged>>
faults == <<crashes, errors, deletions>>
vars == <<table, twins, market, pc, memory, history, faults>>

Phases == {"down", "regime", "pass", "markTrailed", "markClosed", "forceRead", "force",
           "scan", "gate", "lifecycle", "match"}
Statuses == {"none", "OPEN", "CLOSED_REGIME_CHANGE", "CLOSED_BY_OUTCOME", "CLOSED_BY_REAPER"}

NoTrade == 0
(* Faulty: the columns of the row are unpacked in the wrong order.          *)
WrongColumn(t) == SignalOf[origin[t]].direction
CoinOf(t) == SignalOf[origin[t]].coin
DirectionOf(t) == SignalOf[origin[t]].direction
BotOf(t) == SignalOf[origin[t]].bot
Open(t) == status[t] = "OPEN"
Visible == {s \in Signals : signal[s] # "none"}
(* Faulty: the outbox is scanned from its beginning.                        *)
FromTheBeginning(S) == 0
MaxId(S) == IF S = {} THEN 0 ELSE CHOOSE m \in S : \A n \in S : n <= m

(* get_whitelist_decision: the cell of the current regime, or the overall   *)
(* fallback while the detector is unreliable or the cell is over 48 hours   *)
(* old.  Both are unstable, which may change between any two decisions.     *)
Whitelisted(bot, direction) ==
    IF unstable THEN Fallback[bot, direction] ELSE Cell[bot, direction, regime]

Init ==
    /\ status = [t \in Trades |-> IF t \in Legacy THEN "OPEN" ELSE "none"]
    /\ action = [t \in Trades |-> "none"]
    /\ origin = [t \in Trades |-> IF t \in Legacy THEN LegacyOrigin[t] ELSE NoTrade]
    /\ twin = [t \in Trades |-> t \in Legacy]
    /\ booked = [t \in Trades |-> 0]
    /\ signal = [s \in Signals |-> IF \E t \in Legacy : LegacyOrigin[t] = s THEN "stale" ELSE "none"]
    /\ cooling = {}
    /\ regime \in Regimes
    /\ unstable = FALSE
    /\ old = {}
    /\ pc = "down"
    /\ known = NoRegime
    /\ ready = FALSE /\ cursor = 0
    /\ scan = {} /\ todo = {} /\ toTrail = {} /\ toClose = {} /\ trailed = {}
    /\ cur = NoTrade /\ rows = {} /\ boot = FALSE
    /\ told = {} /\ unjudged = FALSE
    /\ crashes = 0 /\ errors = 0 /\ deletions = 0
-----------------------------------------------------------------------------
(* The other processes, and time.                                           *)

(* A bot commits a signal.  Its id was drawn when the row was inserted, so  *)
(* rows may become visible in another order than that of their ids.         *)
PostSignal(s) ==
    /\ signal[s] = "none"
    /\ signal' = [signal EXCEPT ![s] = "fresh"]
    /\ UNCHANGED <<table, twins, cooling, regime, unstable, old, pc, memory, history, faults>>

(* The row is now older than NEW_SIGNAL_DETECTION_WINDOW_SEC.               *)
SignalAges(s) ==
    /\ signal[s] = "fresh"
    /\ signal' = [signal EXCEPT ![s] = "stale"]
    /\ UNCHANGED <<table, twins, cooling, regime, unstable, old, pc, memory, history, faults>>

CooldownEnds ==
    /\ \E cd \in cooling : cooling' = cooling \ {cd}
    /\ UNCHANGED <<table, twins, signal, regime, unstable, old, pc, memory, history, faults>>

(* The detector confirms a new regime.  It needs ten minutes for that and   *)
(* the orchestrator looks every 500 ms, so a running orchestrator has seen  *)
(* the previous one.                                                        *)
RegimeChanges ==
    /\ pc = "down" \/ known \in {regime, NoRegime}
    /\ \E r \in Regimes \ {regime} : regime' = r
    /\ UNCHANGED <<table, twins, signal, cooling, unstable, old, pc, memory, history, faults>>

StabilityChanges ==
    /\ MayBeUnstable
    /\ unstable' = ~unstable
    /\ UNCHANGED <<table, twins, signal, cooling, regime, old, pc, memory, history, faults>>

TradeGetsOld(t) ==
    /\ Open(t) /\ t \notin old
    /\ old' = old \cup {t}
    /\ UNCHANGED <<table, twins, signal, cooling, regime, unstable, pc, memory, history, faults>>

(* Faulty: the twin is deleted, its outcome is not recorded.                *)
BookNothing(t) == UNCHANGED booked

(* closed_ai_signals gets a row for t; two stand for "two or more".         *)
Book(t) == booked' = [booked EXCEPT ![t] = IF @ < 2 THEN @ + 1 ELSE @]

(* 8_ai_trade_monitor: DELETE .. RETURNING and the INSERT commit together.  *)
MonitorCloses(t) ==
    /\ twin[t]
    /\ twin' = [twin EXCEPT ![t] = FALSE]
    /\ Book(t)
    /\ UNCHANGED <<table, market, pc, memory, history, faults>>

(* An operator deletes a row of ai_signals by hand.                         *)
TwinDeleted(t) ==
    /\ twin[t] /\ deletions < MaxDeletions
    /\ twin' = [twin EXCEPT ![t] = FALSE]
    /\ deletions' = deletions + 1
    /\ UNCHANGED <<table, booked, market, pc, memory, history, crashes, errors>>
-----------------------------------------------------------------------------
(* The re-judging pass, run at startup and after every observed flip.       *)

(* Faulty: trailed trades are judged again.                                 *)
EveryOpenTrade == {t \in Trades : Open(t)}
Candidates == {t \in Trades : Open(t) /\ action[t] = "none"}

BeginPass(booting) ==
    /\ todo' = Candidates
    /\ toTrail' = {} /\ toClose' = {} /\ trailed' = {} /\ rows' = {}
    /\ cur' = NoTrade
    /\ boot' = booting
    /\ pc' = "pass"

NoPass ==
    /\ todo' = {} /\ toTrail' = {} /\ toClose' = {} /\ trailed' = {} /\ rows' = {}
    /\ cur' = NoTrade
    /\ boot' = FALSE

(* Faulty: a start only takes note of the regime.                           *)
StartWithoutPass ==
    /\ pc = "down"
    /\ known' = regime
    /\ pc' = "regime"
    /\ UNCHANGED <<table, twins, market, gating, pass, history, faults>>

(* run_startup_reconciliation.                                              *)
Start ==
    /\ pc = "down"
    /\ known' = regime
    /\ BeginPass(TRUE)
    /\ UNCHANGED <<table, twins, market, gating, history, faults>>

(* check_regime_change_and_close: the new regime is remembered before the   *)
(* trades are judged.                                                       *)
NoFlip ==
    /\ pc = "regime" /\ known \in {regime, NoRegime}
    /\ known' = regime
    /\ pc' = "scan"
    /\ UNCHANGED <<table, twins, market, gating, pass, history, faults>>

Flip ==
    /\ pc = "regime" /\ known \notin {regime, NoRegime}
    /\ known' = regime
    /\ unjudged' = TRUE
    /\ BeginPass(FALSE)
    /\ UNCHANGED <<table, twins, market, gating, told, faults>>

(* Each candidate is kept, to be trailed (a winner, behind the gate) or to  *)
(* be closed.                                                               *)
Judge(t) ==
    /\ pc = "pass" /\ t \in todo
    /\ todo' = todo \ {t}
    /\ IF Whitelisted(BotOf(t), DirectionOf(t))
       THEN UNCHANGED <<toTrail, toClose>>
       ELSE \/ TrailWinners /\ toTrail' = toTrail \cup {t} /\ UNCHANGED toClose
            \/ toClose' = toClose \cup {t} /\ UNCHANGED toTrail
    /\ UNCHANGED <<table, twins, market, pc, known, gating, trailed, cur, rows, boot, history, faults>>

(* Winners first: the SL command is committed to the outbox on a connection *)
(* of its own, then the row is tagged.                                      *)
SendTrail(t) ==
    /\ pc = "pass" /\ todo = {} /\ t \in toTrail
    /\ cur' = t
    /\ pc' = "markTrailed"
    /\ UNCHANGED <<table, twins, market, known, gating, todo, toTrail, toClose, trailed, rows, boot,
                   history, faults>>

MarkTrailed ==
    /\ pc = "markTrailed"
    /\ action' = [action EXCEPT ![cur] = "TRAILED"]
    /\ toTrail' = toTrail \ {cur}
    /\ trailed' = trailed \cup {CoinOf(cur)}
    /\ cur' = NoTrade
    /\ pc' = "pass"
    /\ UNCHANGED <<status, origin, twins, market, known, gating, todo, toClose, rows, boot, history, faults>>

Closing(t) == pc = "pass" /\ todo = {} /\ toTrail = {} /\ t \in toClose

SharesTrailed(t) == CoinOf(t) \in trailed

DeferClose(t) ==
    /\ Closing(t) /\ SharesTrailed(t)
    /\ toClose' = toClose \ {t}
    /\ UNCHANGED <<table, twins, market, pc, known, gating, todo, toTrail, trailed, cur, rows, boot,
                   history, faults>>

(* Faulty: the command is lost and nobody notices.                          *)
LoseClose(t) == UNCHANGED told

(* "Close <coin>" reaches every position of the coin.                       *)
PostClose(t) ==
    told' = told \cup {x \in Trades : status[x] # "none" /\ CoinOf(x) = CoinOf(t)}

SendClose(t) ==
    /\ Closing(t) /\ ~SharesTrailed(t)
    /\ PostClose(t)
    /\ cur' = t
    /\ pc' = "markClosed"
    /\ UNCHANGED <<table, twins, market, known, gating, todo, toTrail, toClose, trailed, rows, boot,
                   unjudged, faults>>

MarkClosed ==
    /\ pc = "markClosed"
    /\ status' = [status EXCEPT ![cur] = "CLOSED_REGIME_CHANGE"]
    /\ action' = [action EXCEPT ![cur] = "CLOSED"]
    /\ pc' = "forceRead"
    /\ UNCHANGED <<origin, twins, market, memory, history, faults>>

(* Faulty: the twins of the other direction.                                *)
TwinsAgainst(t) ==
    {x \in Trades : twin[x] /\ CoinOf(x) = CoinOf(t) /\ DirectionOf(x) # DirectionOf(t)}
TwinsLike(t) ==
    {x \in Trades : twin[x] /\ CoinOf(x) = CoinOf(t) /\ DirectionOf(x) = DirectionOf(t)}

(* force_close_trades_for_regime_change reads the ROM1 twins of coin and    *)
(* direction and moves each in a transaction of its own.                    *)
ForceRead ==
    /\ pc = "forceRead"
    /\ rows' = TwinsLike(cur)
    /\ pc' = "force"
    /\ UNCHANGED <<table, twins, market, known, gating, todo, toTrail, toClose, trailed, cur, boot,
                   history, faults>>

ForceMove(x) ==
    /\ pc = "force" /\ x \in rows
    /\ Book(x)
    /\ twin' = [twin EXCEPT ![x] = FALSE]
    /\ rows' = rows \ {x}
    /\ UNCHANGED <<table, market, pc, known, gating, todo, toTrail, toClose, trailed, cur, boot,
                   history, faults>>

ForceDone ==
    /\ pc = "force" /\ rows = {}
    /\ toClose' = toClose \ {cur}
    /\ cur' = NoTrade
    /\ pc' = "pass"
    /\ UNCHANGED <<table, twins, market, known, gating, todo, toTrail, trailed, rows, boot, history, faults>>

EndPass ==
    /\ pc = "pass" /\ todo = {} /\ toTrail = {} /\ toClose = {}
    /\ pc' = IF boot THEN "regime" ELSE "scan"
    /\ unjudged' = FALSE
    /\ NoPass
    /\ UNCHANGED <<table, twins, market, known, gating, told, faults>>
-----------------------------------------------------------------------------
(* The gating pass.                                                         *)

InitCursor ==
    /\ pc = "scan" /\ ~ready
    /\ ready' = TRUE
    /\ cursor' = MaxId(Visible)
    /\ pc' = "lifecycle"
    /\ UNCHANGED <<table, twins, market, known, scan, pass, history, faults>>

Scan ==
    /\ pc = "scan" /\ ready
    /\ scan' = {s \in Visible : signal[s] = "fresh" /\ s > cursor}
    /\ pc' = "gate"
    /\ UNCHANGED <<table, twins, market, known, ready, cursor, pass, history, faults>>

NextRow(s) == pc = "gate" /\ s \in scan /\ \A n \in scan : s <= n

PassRow(s) ==
    /\ cursor' = IF s > cursor THEN s ELSE cursor
    /\ scan' = scan \ {s}

OppositeOpen(sig) ==
    \E t \in Trades : Open(t) /\ CoinOf(t) = sig.coin /\ DirectionOf(t) # sig.direction

(* Faulty: trades of one direction may be stacked, as before P2.26.         *)
StackingAllowed(sig) == FALSE
SameOpen(sig) ==
    \E t \in Trades : Open(t) /\ CoinOf(t) = sig.coin /\ DirectionOf(t) = sig.direction

(* _gate_and_forward_row: cooldown, row, twin and the post in one           *)
(* transaction.                                                             *)
Forward(s) ==
    /\ NextRow(s)
    /\ LET sig == SignalOf[s]
           slot == <<sig.coin, sig.direction>>
       IN  /\ Whitelisted(sig.bot, sig.direction)
           /\ slot \notin cooling
           /\ ~OppositeOpen(sig) /\ ~SameOpen(sig)
           /\ cooling' = cooling \cup {slot}
    /\ \E t \in Trades :
         /\ status[t] = "none" /\ \A x \in Trades : x < t => status[x] # "none"
         /\ status' = [status EXCEPT ![t] = "OPEN"]
         /\ origin' = [origin EXCEPT ![t] = s]
         /\ twin' = [twin EXCEPT ![t] = TRUE]
    /\ PassRow(s)
    /\ UNCHANGED <<action, booked, signal, regime, unstable, old, pc, known, ready, pass, history, faults>>

(* One of the checks says no, or price and S/R levels are not available.    *)
Suppress(s) ==
    /\ NextRow(s)
    /\ PassRow(s)
    /\ UNCHANGED <<table, twins, market, pc, known, ready, pass, history, faults>>

EndGating ==
    /\ pc = "gate" /\ scan = {}
    /\ pc' = "lifecycle"
    /\ UNCHANGED <<table, twins, market, memory, history, faults>>
-----------------------------------------------------------------------------
(* The lifecycle sync, every LIFECYCLE_SYNC_INTERVAL_SEC.                   *)

SkipSync ==
    /\ pc = "lifecycle"
    /\ pc' = "regime"
    /\ UNCHANGED <<table, twins, market, memory, history, faults>>

(* Faulty: there is no reaper.                                              *)
NoCorpses == {}
Corpses == {t \in old : Open(t) /\ ~twin[t] /\ booked[t] = 0}

(* reap_corpse_trades, then sync_closed_trades reads the rows still open.   *)
Reap ==
    /\ pc = "lifecycle"
    /\ status' = [t \in Trades |-> IF t \in Corpses THEN "CLOSED_BY_REAPER" ELSE status[t]]
    /\ todo' = {t \in Trades \ Corpses : Open(t)}
    /\ pc' = "match"
    /\ UNCHANGED <<action, origin, twins, market, known, gating, toTrail, toClose, trailed, cur, rows, boot,
                   history, faults>>

Match(t) ==
    /\ pc = "match" /\ t \in todo
    /\ todo' = todo \ {t}
    /\ status' = [status EXCEPT ![t] = IF booked[t] > 0 THEN "CLOSED_BY_OUTCOME" ELSE @]
    /\ UNCHANGED <<action, origin, twins, market, pc, known, gating, toTrail, toClose, trailed, cur, rows,
                   boot, history, faults>>

EndSync ==
    /\ pc = "match" /\ todo = {}
    /\ pc' = "regime"
    /\ UNCHANGED <<table, twins, market, memory, history, faults>>
-----------------------------------------------------------------------------
(* Exceptions and death.                                                    *)

(* An exception ends the stage.  A failed regime stage skips the gating of  *)
(* this tick; a failed startup reconciliation goes on with the loop; a      *)
(* failed gating pass goes on with the lifecycle sync.                      *)
StageError ==
    /\ pc \notin {"down", "force", "gate", "lifecycle"} /\ errors < MaxErrors
    /\ errors' = errors + 1
    /\ pc' = IF boot \/ pc = "match" THEN "regime" ELSE "lifecycle"
    /\ NoPass
    /\ UNCHANGED <<table, twins, market, known, gating, history, crashes, deletions>>

(* An exception while a row is gated, on a connection that cannot even be   *)
(* rolled back, ends the gating pass; the row counts as seen.  (On a usable *)
(* connection it is the same step as Suppress.)                             *)
RowError(s) ==
    /\ NextRow(s) /\ errors < MaxErrors
    /\ errors' = errors + 1
    /\ cursor' = IF s > cursor THEN s ELSE cursor
    /\ scan' = {}
    /\ pc' = "lifecycle"
    /\ UNCHANGED <<table, twins, market, known, ready, pass, history, crashes, deletions>>

(* The startup reconciliation fails before it has read the regime.          *)
StartError ==
    /\ pc = "down" /\ errors < MaxErrors
    /\ errors' = errors + 1
    /\ pc' = "regime"
    /\ UNCHANGED <<table, twins, market, memory, history, crashes, deletions>>

(* force_close_trades_for_regime_change swallows its own exceptions: the    *)
(* twin stays, the pass goes on.                                            *)
ForceError ==
    /\ \/ pc = "forceRead" /\ rows' = {}
       \/ pc = "force" /\ \E x \in rows : rows' = rows \ {x}
    /\ errors < MaxErrors
    /\ errors' = errors + 1
    /\ pc' = "force"
    /\ UNCHANGED <<table, twins, market, known, gating, todo, toTrail, toClose, trailed, cur, boot, history,
                   crashes, deletions>>

Crash ==
    /\ pc # "down" /\ crashes < MaxCrashes
    /\ crashes' = crashes + 1
    /\ pc' = "down"
    /\ known' = NoRegime
    /\ ready' = FALSE /\ cursor' = 0 /\ scan' = {}
    /\ NoPass
    /\ UNCHANGED <<table, twins, market, history, errors, deletions>>
-----------------------------------------------------------------------------
RejudgingPass ==
    \/ \E t \in Trades : Judge(t) \/ SendTrail(t) \/ DeferClose(t) \/ SendClose(t) \/ ForceMove(t)
    \/ MarkTrailed \/ MarkClosed \/ ForceRead \/ ForceDone \/ EndPass
GatingPass == \/ InitCursor \/ Scan \/ EndGating
              \/ \E s \in Signals : Forward(s) \/ Suppress(s)
LifecycleSync == SkipSync \/ Reap \/ (\E t \in Trades : Match(t)) \/ EndSync
Orchestrate == Start \/ NoFlip \/ Flip \/ RejudgingPass \/ GatingPass \/ LifecycleSync
Fault == \/ StageError \/ StartError \/ ForceError \/ Crash
         \/ \E s \in Signals : RowError(s)
Environment ==
    \/ \E s \in Signals : PostSignal(s) \/ SignalAges(s)
    \/ \E t \in Trades : TradeGetsOld(t) \/ MonitorCloses(t) \/ TwinDeleted(t)
    \/ CooldownEnds \/ RegimeChanges \/ StabilityChanges

Next == Orchestrate \/ Fault \/ Environment

Spec == Init /\ [][Next]_vars

(* The loop runs for ever, its lifecycle sync becomes due again and again,  *)
(* and time passes.                                                         *)
FairSpec == /\ Spec
            /\ WF_vars(Orchestrate)
            /\ SF_vars(Reap)
            /\ \A t \in Trades : WF_vars(TradeGetsOld(t))
-----------------------------------------------------------------------------
(* Properties.                                                              *)

TypeOK ==
    /\ status \in [Trades -> Statuses]
    /\ action \in [Trades -> {"none", "TRAILED", "CLOSED"}]
    /\ origin \in [Trades -> Signals \cup {NoTrade}]
    /\ \A t \in Trades : status[t] # "none" => origin[t] \in Signals
    /\ twin \in [Trades -> BOOLEAN] /\ booked \in [Trades -> 0..2]
    /\ signal \in [Signals -> {"none", "fresh", "stale"}]
    /\ cooling \subseteq Coins \X Directions
    /\ regime \in Regimes /\ unstable \in BOOLEAN
    /\ old \subseteq Trades
    /\ pc \in Phases
    /\ known \in Regimes \cup {NoRegime}
    /\ ready \in BOOLEAN /\ cursor \in Nat /\ scan \subseteq Signals
    /\ todo \subseteq Trades /\ toTrail \subseteq Trades /\ toClose \subseteq Trades
    /\ trailed \subseteq Coins /\ rows \subseteq Trades
    /\ cur \in Trades \cup {NoTrade}
    /\ boot \in BOOLEAN /\ unjudged \in BOOLEAN
    /\ told \subseteq Trades
    /\ crashes \in 0..MaxCrashes /\ errors \in 0..MaxErrors /\ deletions \in 0..MaxDeletions

(* P2.26, P1.8: at most one open trade per coin, in either direction,       *)
(* whatever crashes and exceptions did in between.                          *)
OneOpenPerCoin ==
    \A t, x \in Trades : Open(t) /\ Open(x) /\ CoinOf(t) = CoinOf(x) => t = x

(* The row, its twin and the booked outcome are never lost together: an     *)
(* open trade is still watched by the monitor or its outcome is waiting for *)
(* the sync, so only a twin deleted by hand leaves a corpse.                *)
OpenIsAccounted == \A t \in Trades : Open(t) => twin[t] \/ booked[t] > 0

(* A row says CLOSED_REGIME_CHANGE only after a Close command for its coin  *)
(* was posted, so no position is left behind by the bookkeeping.            *)
ClosedMeansTold == \A t \in Trades : status[t] = "CLOSED_REGIME_CHANGE" => t \in told

(* The id cursor, across restarts: a signal becomes at most one trade.      *)
ForwardedOnce ==
    \A t, x \in Trades : status[t] # "none" /\ status[x] # "none" /\ origin[t] = origin[x] => t = x

(* The converse of the reaper's "a live ROM1 trade always has its twin":    *)
(* before any fault a live twin belongs to an open row, or to the row that is *)
(* being closed right now.                                                  *)
TwinIsTracked ==
    crashes + errors = 0 => \A t \in Trades : twin[t] => Open(t) \/ (cur = t /\ pc \in {"forceRead", "force"})

(* "Close <coin>" is symbol-wide: before any fault none is posted while     *)
(* a trailed winner of that coin is open, neither in the pass that trailed  *)
(* it nor in a later one.                                                   *)
TrailedNotClosed == crashes + errors = 0 => \A t \in Trades : Open(t) /\ action[t] = "TRAILED" => t \notin told

(* P2.24: once the regime stage of a tick is over, no open trade is left    *)
(* that neither the remembered nor the current regime whitelists, unless it *)
(* was trailed: a flip during downtime or during the pass itself is caught  *)
(* up.  (Before any exception, with a reliable detector.)                   *)
Rejudged ==
    errors = 0 /\ pc \in {"scan", "gate", "lifecycle", "match"} =>
        \A t \in Candidates : \E r \in {known, regime} : Cell[BotOf(t), DirectionOf(t), r]

(* An open row whose twin is gone does not block its coin for ever: the     *)
(* sync or the reaper closes it.                                            *)
CoinFreed == \A t \in Trades : Open(t) /\ ~twin[t] ~> ~Open(t)

(* main_loop: "while regime-flip auto-closes are broken, do NOT open new    *)
(* exposure via the gating pass".  (Violated: the flip counts as seen once  *)
(* the stage has failed, and the next tick gates again.)                    *)
FailClosed ==
    [][\A t \in Trades : unjudged /\ status[t] = "none" => status'[t] = "none"]_vars

(* P2.8: "Otherwise two iterations/processes write the same trade twice to  *)
(* closed_ai_signals".  (Violated: the forced close inserts without asking  *)
(* whether its DELETE removed the row.)                                     *)
BookedOnce == \A t \in Trades : booked[t] <= 1
=============================================================================
