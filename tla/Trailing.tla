------------------------------ MODULE Trailing ------------------------------
(***************************************************************************)
(* The trailing close bot, 40_trailing_close_bot.py, and its unrestricted  *)
(* twin 44_trailing_free_bot.py, the same module under another profile.    *)
(* Every ten seconds it mirrors new trades of the fleet (ai_signals) into  *)
(* its own channels and closes them there by a trailing stop, a time stop, *)
(* or because the fleet has closed the source.                             *)
(*                                                                         *)
(* A step of a bot ends at a COMMIT or at a read: what lies between two    *)
(* commits is one transaction.  outbox[c] is the part of telegram_outbox   *)
(* bound for channel c, sent in order; cornix is the set of trades, or     *)
(* resting orders, that the exchange bot holds.  Prices are small          *)
(* integers, a mark is the signed distance from the entry, ages are        *)
(* classes that only the environment advances.                             *)
(***************************************************************************)
EXTENDS Integers, Sequences, FiniteSets

CONSTANTS
    Bots,           \* processes that run this profile: one, unless a second survives
    Sources,        \* ids of ai_signals
    SymbolOf, LongOf, StopOf, FirstTarget,  \* columns of a source
    Density,        \* of the leg of a source
    Legacy,         \* sources mirrored by an earlier version: no channel, not filled
    LegacyEntry, LegacyMirror,              \* entry and mirror_price of those rows
    Channels,       \* TARGET_CHANNELS, a sequence
    TopPrice,       \* prices are 0 .. TopPrice
    Quotes,         \* bound: prices that occur in a batch, NoPrice for none
    Activation,     \* ACTIVATION_PCT
    KeepNum, KeepDen,   \* 1 - RETRACE_FRAC as a fraction
    SlotCap,        \* SLOT_CAP, per channel
    ExposureCap,    \* EXPOSURE_CAP, 0 for none
    TimeStopMax,    \* TIME_STOP_MAX_PER_CYCLE
    Casts,          \* bound: which sources and processes take part, and how many
                    \* exceptions and deaths there are: [sources, bots, faults]
    Retirable,      \* bound: sources whose leg can leave and rejoin the live register
    Closing,        \* bound: sources that the fleet may close
    StartModes,     \* POSTING_ENABLED of the first start, one of these
    MayGoDark,      \* whether a restart can switch POSTING_ENABLED off
    PromptEntries   \* whether an entry reaches Cornix before the market reaches its stop

NoRow == [state |-> "none"]
NoChannel == 0
NoPrice == -1
NoPeak == -(TopPrice + 1)   \* less than any mark: -math.inf
Prices == 0 .. TopPrice
Marks == -TopPrice .. TopPrice
Targets == {Channels[i] : i \in DOMAIN Channels}
Symbols == {SymbolOf[s] : s \in Sources}
Choices == {"TRAIL", "TIME_STOP"}    \* REENTRY_LOCKING_REASONS
Reasons == Choices \cup {"SOURCE_CLOSED", "LEG_RETIRED", "SL_HIT", "ENTRY_NOT_FILLED",
                         "SHADOW_CARRYOVER", "PREEXISTING"}

ASSUME SourceAssumption ==
    /\ IsFiniteSet(Sources)
    /\ LongOf \in [Sources -> BOOLEAN] /\ StopOf \in [Sources -> Int]
    /\ FirstTarget \in [Sources -> Int]
    /\ Density \in [Sources -> Nat] /\ Legacy \subseteq Sources /\ Retirable \subseteq Sources
    /\ Closing \subseteq Sources /\ Casts \subseteq [sources : SUBSET Sources, bots : SUBSET Bots, faults : Nat]
    /\ LegacyEntry \in Prices /\ LegacyMirror \in Prices
    /\ \A s, t \in Legacy : SymbolOf[s] = SymbolOf[t] => s = t
ASSUME ChannelAssumption ==
    /\ Channels \in Seq(Nat \ {NoChannel}) /\ Channels # << >>
    /\ \A i, j \in DOMAIN Channels : Channels[i] = Channels[j] => i = j
ASSUME NumberAssumption ==
    /\ TopPrice \in Nat /\ Quotes \subseteq Prices \cup {NoPrice} /\ Activation \in Nat
    /\ KeepNum \in Nat /\ KeepDen \in Nat \ {0} /\ KeepNum <= KeepDen
    /\ SlotCap \in Nat /\ ExposureCap \in Nat /\ TimeStopMax \in Nat
    /\ StartModes \subseteq BOOLEAN /\ MayGoDark \in BOOLEAN /\ PromptEntries \in BOOLEAN

VARIABLES
    \* the fleet: the state of each source, sources past MAX_MIRROR_AGE_SEC
    ai, aged,
    \* the bot's table, one row per source, and telegram_outbox per channel
    table, outbox,
    \* trades and orders at the exchange bot, pairs of channel and source
    cornix,
    \* per bot: where it stands in its cycle, POSTING_ENABLED
    pc, posting,
    \* per bot, this cycle's reads: source sets, mirror rows, prices
    seen, mine, price,
    \* per bot: time stops so far, candidates left, admission counters
    stops, todo, adm,
    \* bookkeeping of the model: exceptions and deaths left, entries posted
    \* per source, the best mark an open mirror was judged by, trades that a Close
    \* was lost for
    faults, posted, best, stranded

botvars == <<pc, posting, seen, mine, price, stops, todo, adm>>
vars == <<ai, aged, table, outbox, cornix, botvars, faults, posted, best, stranded>>

----------------------------------------------------------------------------
(* Rows and what is read from them.                                        *)

MirrorRow(wasPosted, channel, isFilled, entryPrice, mirrorPrice) ==
    [state |-> "open", posted |-> wasPosted, channel |-> channel, filled |-> isFilled,
     entry |-> entryPrice, mirror |-> mirrorPrice, peak |-> NoPeak, old |-> FALSE]
\* age: 0 within SYMBOL_COOLDOWN_SEC of closed_at, 1 within REENTRY_LOCK_H, 2 beyond
ClosedRow(reason, wasPosted) ==
    [state |-> "closed", reason |-> reason, posted |-> wasPosted, age |-> 0]

OpenIn(tab) == {s \in Sources : tab[s].state = "open"}
ClosedIn(tab) == {s \in Sources : tab[s].state = "closed"}
CoolingIn(tab) == {SymbolOf[s] : s \in {t \in ClosedIn(tab) : tab[t].posted /\ tab[t].age = 0}}
LockedIn(tab) ==
    {SymbolOf[s] : s \in {t \in ClosedIn(tab) : tab[t].reason \in Choices /\ tab[t].age <= 1}}

RowChannel(row) == IF row.channel = NoChannel THEN Channels[1] ELSE row.channel

Mark(s, entryPrice, p) == IF LongOf[s] THEN p - entryPrice ELSE entryPrice - p
\* Faulty: a mark at the activation threshold arms the trail of a fresh mirror.
ArmedAtThreshold(peak) == peak >= Activation
Armed(peak) == peak > Activation
Retraced(mark, peak) == mark * KeepDen <= peak * KeepNum
Higher(mark, peak) == IF mark > peak THEN mark ELSE peak

SlReached(s, p) == IF LongOf[s] THEN p <= StopOf[s] ELSE p >= StopOf[s]
HasFilled(row, p) == IF row.mirror >= row.entry THEN p <= row.entry ELSE p >= row.entry
MirrorableAt(s, p) ==
    IF LongOf[s] THEN StopOf[s] < p /\ p < FirstTarget[s]
                 ELSE FirstTarget[s] < p /\ p < StopOf[s]

----------------------------------------------------------------------------
(* The environment: the fleet's trades, the clock, the outbox, Cornix.     *)

\* Another bot posts a trade on a rostered leg; the leg is live or not.
Forward(s) ==
    /\ ai[s] = "none"
    /\ \E st \in {"live", "retired"} :
        /\ st = "retired" => s \in Retirable
        /\ ai' = [ai EXCEPT ![s] = st]
    /\ UNCHANGED <<aged, table, outbox, cornix, botvars, faults, posted, best, stranded>>

\* The register, core/shadow_gate.py, takes the leg out or back in.
Toggle(s) ==
    /\ s \in Retirable
    /\ ai[s] \in {"live", "retired"}
    /\ ai' = [ai EXCEPT ![s] = IF @ = "live" THEN "retired" ELSE "live"]
    /\ UNCHANGED <<aged, table, outbox, cornix, botvars, faults, posted, best, stranded>>

\* The AI monitor closes the source trade and deletes its row.
SourceCloses(s) ==
    /\ s \in Closing
    /\ ai[s] \in {"live", "retired"}
    /\ ai' = [ai EXCEPT ![s] = "gone"]
    /\ UNCHANGED <<aged, table, outbox, cornix, botvars, faults, posted, best, stranded>>

\* A source still open passes MAX_MIRROR_AGE_SEC.
SourceAges(s) ==
    /\ ai[s] \in {"live", "retired"} /\ s \notin aged
    /\ aged' = aged \cup {s}
    /\ UNCHANGED <<ai, table, outbox, cornix, botvars, faults, posted, best, stranded>>

\* An open row passes TIME_STOP_H, or FILL_TIMEOUT_MIN while it is not filled;
\* a closed row passes the cooldown, then the re-entry lock.
RowAges(s) ==
    /\ \/ table[s].state = "open" /\ ~table[s].old /\ table' = [table EXCEPT ![s].old = TRUE]
       \/ table[s].state = "closed" /\ table[s].age < 2
          /\ table' = [table EXCEPT ![s].age = @ + 1]
    /\ UNCHANGED <<ai, aged, outbox, cornix, botvars, faults, posted, best, stranded>>

\* A channel's oldest row is settled, its rows in order (SignalChannel).
Settles(c) ==
    /\ outbox[c] # << >>
    /\ outbox' = [outbox EXCEPT ![c] = Tail(@)]
    /\ UNCHANGED <<ai, aged, table, botvars, faults, posted, best>>
Addressed(c, m) == {x \in cornix : x[1] = c /\ SymbolOf[x[2]] = SymbolOf[m.source]}

\* The dispatcher sends it and Cornix obeys: an entry opens a trade, "Close" ends
\* every trade of the symbol in that channel.
Deliver(c) ==
    /\ Settles(c)
    /\ LET m == Head(outbox[c]) IN
        cornix' = IF m.command = "entry" THEN cornix \cup {<<c, m.source>>}
                  ELSE cornix \ Addressed(c, m)
    /\ UNCHANGED stranded

\* It expires, is left a dead letter, or has no attempt left: a trade whose Close
\* is lost is stranded.
Lose(c) ==
    /\ Settles(c)
    /\ LET m == Head(outbox[c]) IN
        stranded' = IF m.command = "entry" THEN stranded ELSE stranded \cup Addressed(c, m)
    /\ UNCHANGED cornix

\* Cornix ends a trade by itself, at its stop or its last target.
CornixExits(x) ==
    /\ x \in cornix
    /\ cornix' = cornix \ {x}
    /\ UNCHANGED <<ai, aged, table, outbox, botvars, faults, posted, best, stranded>>

\* What the batch price call can return: where it shows a stop reached, Cornix
\* has ended the trade; under PromptEntries no entry is still on its way either.
Queued(s) == \E c \in Targets : \E i \in DOMAIN outbox[c] :
                outbox[c][i].command = "entry" /\ outbox[c][i].source = s
Stopped(s, p) == p # NoPrice /\ table[s].state = "open" /\ table[s].filled /\ SlReached(s, p)
Quotable(q) == \A s \in Sources : Stopped(s, q[SymbolOf[s]]) =>
                /\ \A x \in cornix : x[2] # s
                /\ PromptEntries => ~Queued(s)

----------------------------------------------------------------------------
(* One cycle of the bot, main: read, poll the open mirrors, open new ones. *)

NoSources == [live |-> {}, listed |-> {}, aged |-> {}]
NoMirrors == [s \in {} |-> NoRow]
NoQuotes == [y \in Symbols |-> NoPrice]
NoAdmission ==
    [held |-> {}, cooling |-> {}, locked |-> {}, long |-> 0, short |-> 0,
     load |-> [c \in Targets |-> 0]]

\* End of the cycle: its reads are local variables.
Forget(b) ==
    /\ seen' = [seen EXCEPT ![b] = NoSources]
    /\ mine' = [mine EXCEPT ![b] = NoMirrors]
    /\ price' = [price EXCEPT ![b] = NoQuotes]
    /\ stops' = [stops EXCEPT ![b] = 0]
    /\ todo' = [todo EXCEPT ![b] = {}]
    /\ adm' = [adm EXCEPT ![b] = NoAdmission]

\* Faulty: the carryover is stamped closed without a close_reason.
CarryoverUnexplained == [s \in Sources |->
    IF table[s].state = "open" /\ ~table[s].posted
      THEN [state |-> "closed", posted |-> FALSE, age |-> 0] ELSE table[s]]
\* ensure_schema, clear_unposted_carryover: on a live start, rows that were
\* never posted are closed.
CarryoverCleared == [s \in Sources |->
    IF table[s].state = "open" /\ ~table[s].posted
      THEN ClosedRow("SHADOW_CARRYOVER", FALSE) ELSE table[s]]
Start(b) ==
    /\ pc[b] = "down"
    /\ pc' = [pc EXCEPT ![b] = "idle"]
    /\ \E live \in BOOLEAN :
        /\ posting[b] /\ ~live => MayGoDark
        /\ posting' = [posting EXCEPT ![b] = live]
        /\ table' = IF live THEN CarryoverCleared ELSE table
    /\ UNCHANGED <<ai, aged, outbox, cornix, seen, mine, price, stops, todo, adm,
                   faults, posted, best, stranded>>

ReadSources(b) ==
    /\ pc[b] = "idle"
    /\ seen' = [seen EXCEPT ![b] =
        [live |-> {s \in Sources : ai[s] = "live"},
         listed |-> {s \in Sources : ai[s] \in {"live", "retired"}},
         aged |-> {s \in Sources : ai[s] = "live" /\ s \in aged}]]
    /\ pc' = [pc EXCEPT ![b] = "mirrors"]
    /\ UNCHANGED <<ai, aged, table, outbox, cornix, posting, mine, price, stops, todo, adm,
                   faults, posted, best, stranded>>

\* Prices matter for the symbols of mirrors and of candidates.
ReadMirrors(b) ==
    LET open == OpenIn(table)
        asked == {SymbolOf[s] : s \in open \cup (seen[b].live \cap {t \in Sources : table[t] = NoRow})}
    IN
    /\ pc[b] = "mirrors"
    /\ mine' = [mine EXCEPT ![b] = [s \in open |-> table[s]]]
    /\ \E q \in [asked -> Quotes] :
        LET quotes == [y \in Symbols |-> IF y \in asked THEN q[y] ELSE NoPrice] IN
        /\ Quotable(quotes)
        /\ price' = [price EXCEPT ![b] = quotes]
    /\ pc' = [pc EXCEPT ![b] = "poll"]
    /\ UNCHANGED <<ai, aged, table, outbox, cornix, posting, seen, stops, todo, adm,
                   faults, posted, best, stranded>>

\* poll_open_mirrors judges one mirror after the other, in the order of the
\* result set: mirror s is next and leaves the list.
Polling(b, s) ==
    /\ pc[b] = "poll"
    /\ s \in DOMAIN mine[b]
    /\ mine' = [mine EXCEPT ![b] = [t \in DOMAIN mine[b] \ {s} |-> mine[b][t]]]
    /\ UNCHANGED <<ai, aged, cornix, pc, posting, seen, price, todo, adm, faults, posted, stranded>>

Quote(b, s) == price[b][SymbolOf[s]]
MarkNow(b, s) == Mark(s, mine[b][s].entry, Quote(b, s))
PeakNow(b, s) == Higher(MarkNow(b, s), mine[b][s].peak)
\* Faulty: the stop counts as reached one tick early.
StopSeenEarly(b, s) ==
    mine[b][s].filled /\ (SlReached(s, Quote(b, s) - 1) \/ SlReached(s, Quote(b, s) + 1))
StopSeen(b, s) == mine[b][s].filled /\ SlReached(s, Quote(b, s))
\* The source is still there, a price is known and the stop was not reached.
Judged(b, s) == s \in seen[b].live /\ Quote(b, s) # NoPrice /\ ~StopSeen(b, s)
Trailing(b, s) == Judged(b, s) /\ mine[b][s].filled
TrailFires(b, s) == Armed(PeakNow(b, s)) /\ Retraced(MarkNow(b, s), PeakNow(b, s))
TimeUp(b, s) ==
    ~Armed(PeakNow(b, s)) /\ stops[b] < TimeStopMax /\ s \notin Legacy /\ mine[b][s].old

\* Faulty: the command goes to the first channel.
CloseMirrorFirst(b, s, reason, post) ==
    LET row == mine[b][s]
        say == post /\ posting[b] /\ row.posted
    IN
    /\ outbox' = IF say THEN [outbox EXCEPT ![Channels[1]] =
                                 Append(@, [command |-> "close", source |-> s])]
                 ELSE outbox
    /\ table' = IF table[s].state = "open"
                  THEN [table EXCEPT ![s] = ClosedRow(reason, @.posted)] ELSE table
\* close_mirror: the command goes to the row's channel, then the row is stamped
\* unless another process has done so.
CloseMirror(b, s, reason, post) ==
    LET row == mine[b][s]
        say == post /\ posting[b] /\ row.posted
    IN
    /\ outbox' = IF say THEN [outbox EXCEPT ![RowChannel(row)] =
                                 Append(@, [command |-> "close", source |-> s])]
                 ELSE outbox
    /\ table' = IF table[s].state = "open"
                  THEN [table EXCEPT ![s] = ClosedRow(reason, @.posted)] ELSE table

\* Faulty: without a price the mirror of a closed source is left alone.
FollowSourceIfPriced(b, s) ==
    /\ Polling(b, s)
    /\ s \notin seen[b].live
    /\ IF Quote(b, s) = NoPrice THEN UNCHANGED <<table, outbox>>
       ELSE CloseMirror(b, s, "SOURCE_CLOSED", TRUE)
    /\ UNCHANGED <<stops, best>>
\* The source is gone, or its leg is; a price is not needed.
FollowSource(b, s) ==
    /\ Polling(b, s)
    /\ s \notin seen[b].live
    /\ CloseMirror(b, s, IF s \in seen[b].listed THEN "LEG_RETIRED" ELSE "SOURCE_CLOSED", TRUE)
    /\ UNCHANGED <<stops, best>>

\* No price, no decision.
SkipUnpriced(b, s) ==
    /\ Polling(b, s)
    /\ s \in seen[b].live /\ Quote(b, s) = NoPrice
    /\ UNCHANGED <<table, outbox, stops, best>>

\* Cornix has ended the trade at its stop: book it, post nothing.
BookStop(b, s) ==
    /\ Polling(b, s)
    /\ s \in seen[b].live /\ Quote(b, s) # NoPrice /\ StopSeen(b, s)
    /\ CloseMirror(b, s, "SL_HIT", FALSE)
    /\ UNCHANGED <<stops, best>>

AwaitFill(b, s) ==
    /\ Polling(b, s)
    /\ Judged(b, s) /\ ~mine[b][s].filled
    /\ \/ /\ HasFilled(mine[b][s], Quote(b, s))
          /\ table' = IF table[s].state = "open" THEN [table EXCEPT ![s].filled = TRUE] ELSE table
          /\ UNCHANGED outbox
       \/ /\ ~HasFilled(mine[b][s], Quote(b, s)) /\ mine[b][s].old
          /\ CloseMirror(b, s, "ENTRY_NOT_FILLED", TRUE)
       \/ /\ ~HasFilled(mine[b][s], Quote(b, s)) /\ ~mine[b][s].old
          /\ UNCHANGED <<table, outbox>>
    /\ UNCHANGED <<stops, best>>

TrailClose(b, s) ==
    /\ Polling(b, s)
    /\ Trailing(b, s) /\ TrailFires(b, s)
    /\ CloseMirror(b, s, "TRAIL", TRUE)
    /\ best' = [best EXCEPT ![s] = Higher(MarkNow(b, s), @)]
    /\ UNCHANGED stops

TimeStop(b, s) ==
    /\ Polling(b, s)
    /\ Trailing(b, s) /\ ~TrailFires(b, s) /\ TimeUp(b, s)
    /\ CloseMirror(b, s, "TIME_STOP", TRUE)
    /\ stops' = [stops EXCEPT ![b] = @ + 1]
    /\ best' = [best EXCEPT ![s] = Higher(MarkNow(b, s), @)]

\* Faulty: the peak lives in this cycle's copy of the row only.
HoldUnsaved(b, s) ==
    /\ Polling(b, s)
    /\ Trailing(b, s) /\ ~TrailFires(b, s) /\ ~TimeUp(b, s)
    /\ best' = [best EXCEPT ![s] = Higher(MarkNow(b, s), @)]
    /\ UNCHANGED <<table, outbox, stops>>
\* The mirror stays; a new peak is written, whatever state the row is in.
Hold(b, s) ==
    /\ Polling(b, s)
    /\ Trailing(b, s) /\ ~TrailFires(b, s) /\ ~TimeUp(b, s)
    /\ table' = IF table[s].state = "open" /\ MarkNow(b, s) > mine[b][s].peak
                  THEN [table EXCEPT ![s].peak = MarkNow(b, s)] ELSE table
    /\ best' = [best EXCEPT ![s] = Higher(MarkNow(b, s), @)]
    /\ UNCHANGED <<outbox, stops>>

Poll(b, s) ==
    \/ FollowSource(b, s) \/ SkipUnpriced(b, s) \/ BookStop(b, s) \/ AwaitFill(b, s)
    \/ TrailClose(b, s) \/ TimeStop(b, s) \/ Hold(b, s)

----------------------------------------------------------------------------
(* open_mirrors: note stale sources, admit, place, insert and post.        *)

LoadOf(tab, c) == Cardinality({s \in OpenIn(tab) : RowChannel(tab[s]) = c})
\* Faulty: legacy rows are counted in no channel.
SeatsTakenNamed(c) == Cardinality({s \in OpenIn(table) : table[s].channel = c})
SeatsTaken(c) == LoadOf(table, c)
SideOf(tab, isLong) == Cardinality({s \in OpenIn(tab) : LongOf[s] = isLong})

\* Sources without a row are new, or noted as PREEXISTING when too old; the
\* admission starts from the mirrors open now.
Unseen(b) == {s \in seen[b].live : table[s] = NoRow}
\* Faulty: stale sources are passed over without a row.
StaleIgnored(b) == table
StaleNoted(b) == [s \in Sources |->
    IF s \in Unseen(b) \cap seen[b].aged THEN ClosedRow("PREEXISTING", FALSE) ELSE table[s]]
Survey(b) ==
    /\ pc[b] = "poll" /\ DOMAIN mine[b] = {}
    /\ table' = StaleNoted(b)
    /\ LET new == Unseen(b) \ seen[b].aged
       IN IF new = {}
            THEN pc' = [pc EXCEPT ![b] = "idle"] /\ Forget(b)
            ELSE /\ pc' = [pc EXCEPT ![b] = "open"]
                 /\ todo' = [todo EXCEPT ![b] = new]
                 /\ adm' = [adm EXCEPT ![b] =
                      [held |-> {SymbolOf[s] : s \in OpenIn(table)},
                       cooling |-> CoolingIn(table'), locked |-> LockedIn(table'),
                       long |-> SideOf(table, TRUE), short |-> SideOf(table, FALSE),
                       load |-> [c \in Targets |-> SeatsTaken(c)]]]
                 /\ UNCHANGED <<seen, mine, price, stops>>
    /\ UNCHANGED <<ai, aged, outbox, cornix, posting, faults, posted, best, stranded>>

Lead(a, isLong) == IF isLong THEN a.long - a.short ELSE a.short - a.long
\* SLOT_CAP counts admissions against the sum of free seats: each admission
\* takes a seat of the emptiest channel, so none is left when all are full.
Refused(a, s) ==
    \/ SymbolOf[s] \in a.held \cup a.locked \cup a.cooling
    \/ ExposureCap > 0 /\ Lead(a, LongOf[s]) >= ExposureCap
    \/ \A c \in Targets : a.load[c] >= SlotCap
\* assign_channels: the channel with the fewest mirrors, the first of equals.
Emptiest(load) ==
    Channels[CHOOSE i \in DOMAIN Channels : \A j \in DOMAIN Channels :
        \/ load[Channels[i]] < load[Channels[j]]
        \/ load[Channels[i]] = load[Channels[j]] /\ i <= j]
\* Faulty: the direction of an admitted candidate is not counted.
AdmittedUncounted(a, s) ==
    [a EXCEPT !.held = @ \cup {SymbolOf[s]}, !.load[Emptiest(a.load)] = @ + 1]
Admitted(a, s) ==
    [a EXCEPT !.held = @ \cup {SymbolOf[s]},
              !.long = IF LongOf[s] THEN @ + 1 ELSE @,
              !.short = IF LongOf[s] THEN @ ELSE @ + 1,
              !.load[Emptiest(a.load)] = @ + 1]

\* The two unique indexes: one row per source, one open row per symbol.
Conflicts(s) ==
    \/ table[s] # NoRow
    \/ \E t \in OpenIn(table) : SymbolOf[t] = SymbolOf[s]
\* Faulty: the insert is not made to depend on the indexes.
InsertableAnyway(b, s) ==
    /\ Quote(b, s) # NoPrice /\ MirrorableAt(s, Quote(b, s))
Insertable(b, s) ==
    /\ Quote(b, s) # NoPrice /\ MirrorableAt(s, Quote(b, s))
    /\ ~Conflicts(s)

\* The densest candidate left, and what its admission leaves.
Considering(b, s) ==
    /\ pc[b] = "open"
    /\ s \in todo[b] /\ \A t \in todo[b] : Density[t] <= Density[s]
    /\ UNCHANGED <<ai, aged, cornix, posting, faults, best, stranded>>
NextCandidate(b, s, counters) ==
    IF todo[b] = {s} THEN pc' = [pc EXCEPT ![b] = "idle"] /\ Forget(b)
    ELSE /\ todo' = [todo EXCEPT ![b] = @ \ {s}]
         /\ adm' = [adm EXCEPT ![b] = counters]
         /\ UNCHANGED <<pc, seen, mine, price, stops>>

Refuse(b, s) ==
    /\ Considering(b, s)
    /\ Refused(adm[b], s)
    /\ NextCandidate(b, s, adm[b])
    /\ UNCHANGED <<table, outbox, posted>>

\* Admitted, but without a price, outside stop and target, or in conflict.
PassOver(b, s) ==
    /\ Considering(b, s)
    /\ ~Refused(adm[b], s) /\ ~Insertable(b, s)
    /\ NextCandidate(b, s, Admitted(adm[b], s))
    /\ UNCHANGED <<table, outbox, posted>>

\* The row and the entry are written in one transaction.
Mirror(b, s) ==
    LET c == Emptiest(adm[b].load) IN
    /\ Considering(b, s)
    /\ ~Refused(adm[b], s) /\ Insertable(b, s)
    /\ table' = [table EXCEPT ![s] =
         MirrorRow(posting[b], c, TRUE, Quote(b, s), Quote(b, s))]
    /\ IF posting[b]
         THEN /\ outbox' = [outbox EXCEPT ![c] = Append(@, [command |-> "entry", source |-> s])]
              /\ posted' = [posted EXCEPT ![s] = @ + 1]
         ELSE UNCHANGED <<outbox, posted>>
    /\ NextCandidate(b, s, Admitted(adm[b], s))

Open(b, s) == Refuse(b, s) \/ PassOver(b, s) \/ Mirror(b, s)

\* An exception in the cycle: roll back, reconnect, start the next cycle.
Fail(b) ==
    /\ pc[b] \notin {"absent", "down", "idle"} /\ faults > 0
    /\ faults' = faults - 1
    /\ pc' = [pc EXCEPT ![b] = "idle"] /\ Forget(b)
    /\ UNCHANGED <<ai, aged, table, outbox, cornix, posting, posted, best, stranded>>
\* The process dies; the watchdog starts it again.
Die(b) ==
    /\ pc[b] \notin {"absent", "down"} /\ faults > 0
    /\ faults' = faults - 1
    /\ pc' = [pc EXCEPT ![b] = "down"] /\ Forget(b)
    /\ UNCHANGED <<ai, aged, table, outbox, cornix, posting, posted, best, stranded>>

----------------------------------------------------------------------------
LegacyRow(live) == MirrorRow(live, NoChannel, FALSE, LegacyEntry, LegacyMirror)
InitFleet(cast, live) ==
    /\ ai = [s \in Sources |->
                IF s \notin cast THEN "gone" ELSE IF s \in Legacy THEN "live" ELSE "none"]
    /\ aged = Legacy \cap cast
    /\ table = [s \in Sources |-> IF s \in Legacy \cap cast THEN LegacyRow(live) ELSE NoRow]
    /\ outbox = [c \in Targets |-> << >>]
    /\ cornix = IF live THEN {<<Channels[1], s>> : s \in Legacy \cap cast} ELSE {}
    /\ posted = [s \in Sources |-> IF live /\ s \in Legacy \cap cast THEN 1 ELSE 0]
    /\ posting = [b \in Bots |-> live]
Init ==
    /\ \E cast \in Casts, live \in StartModes :
        /\ InitFleet(cast.sources, live)
        /\ pc = [b \in Bots |-> IF b \in cast.bots THEN "down" ELSE "absent"]
        /\ faults = cast.faults
    /\ seen = [b \in Bots |-> NoSources]
    /\ mine = [b \in Bots |-> NoMirrors]
    /\ price = [b \in Bots |-> NoQuotes]
    /\ stops = [b \in Bots |-> 0]
    /\ todo = [b \in Bots |-> {}]
    /\ adm = [b \in Bots |-> NoAdmission]
    /\ best = [s \in Sources |-> NoPeak]
    /\ stranded = {}

Cycle(b) ==
    \/ Start(b) \/ ReadSources(b) \/ ReadMirrors(b) \/ Survey(b)
    \/ \E s \in Sources : Poll(b, s) \/ Open(b, s)
Fleet ==
    \/ \E s \in Sources :
        Forward(s) \/ Toggle(s) \/ SourceCloses(s) \/ SourceAges(s) \/ RowAges(s)
    \/ \E c \in Targets : Deliver(c) \/ Lose(c)
    \/ \E x \in cornix : CornixExits(x)
Next == Fleet \/ \E b \in Bots : Cycle(b) \/ Fail(b) \/ Die(b)

Spec == Init /\ [][Next]_vars

\* The bot's loop goes on, every row of the outbox is settled, time passes.
Fairness ==
    /\ \A b \in Bots : WF_vars(Cycle(b))
    /\ \A c \in Targets : WF_vars(Deliver(c) \/ Lose(c))
    /\ \A s \in Sources : WF_vars(SourceAges(s))
FairSpec == Spec /\ Fairness

----------------------------------------------------------------------------
(* What must hold.                                                         *)

OpenRows ==
    [state : {"open"}, posted : BOOLEAN, channel : Targets \cup {NoChannel},
     filled : BOOLEAN, entry : Prices, mirror : Prices,
     peak : Marks \cup {NoPeak}, old : BOOLEAN]
ClosedRows == [state : {"closed"}, reason : Reasons, posted : BOOLEAN, age : 0 .. 2]
Rows == {NoRow} \cup OpenRows \cup ClosedRows
Commands == [command : {"entry", "close"}, source : Sources]

\* Types of all variables; a mirror row of a poll is an open row.
TypeOK ==
    /\ ai \in [Sources -> {"none", "live", "retired", "gone"}]
    /\ aged \subseteq Sources
    /\ table \in [Sources -> Rows]
    /\ outbox \in [Targets -> Seq(Commands)]
    /\ cornix \subseteq Targets \X Sources
    /\ pc \in [Bots -> {"absent", "down", "idle", "mirrors", "poll", "open"}]
    /\ posting \in [Bots -> BOOLEAN]
    /\ seen \in [Bots -> [live : SUBSET Sources, listed : SUBSET Sources, aged : SUBSET Sources]]
    /\ mine \in [Bots -> UNION {[S -> OpenRows] : S \in SUBSET Sources}]
    /\ price \in [Bots -> [Symbols -> Prices \cup {NoPrice}]]
    /\ stops \in [Bots -> Nat]
    /\ todo \in [Bots -> SUBSET Sources]
    /\ adm \in [Bots -> [held : SUBSET Symbols, cooling : SUBSET Symbols,
                         locked : SUBSET Symbols, long : Nat, short : Nat,
                         load : [Targets -> Nat]]]
    /\ faults \in Nat
    /\ posted \in [Sources -> Nat]
    /\ best \in [Sources -> Marks \cup {NoPeak}]
    /\ stranded \subseteq Targets \X Sources

\* A trade in a channel, or an entry on its way there, is never forgotten: its
\* row is open in that channel, or a Close for its symbol is behind it in the
\* outbox, or was there and lost on its way ("a position no one will ever
\* close", 40_trailing_close_bot.py:890).
CloseBehind(c, s, i) == \E j \in DOMAIN outbox[c] :
    /\ j > i /\ outbox[c][j].command = "close"
    /\ SymbolOf[outbox[c][j].source] = SymbolOf[s]
Watched(c, s) == table[s].state = "open" /\ table[s].posted /\ RowChannel(table[s]) = c
NoTradeForgotten ==
    /\ \A x \in cornix : Watched(x[1], x[2]) \/ CloseBehind(x[1], x[2], 0) \/ x \in stranded
    /\ \A c \in Targets : \A i \in DOMAIN outbox[c] :
        outbox[c][i].command = "entry" =>
            Watched(c, outbox[c][i].source) \/ CloseBehind(c, outbox[c][i].source, i)

\* A source is traded once: a row that has closed, a lost insert, a crash or a
\* second process never lead to a second entry message.
MirroredOnce == \A s \in Sources : posted[s] <= 1

\* At most one open mirror per symbol, across the channels.
OnePerSymbol ==
    \A s, t \in OpenIn(table) : SymbolOf[s] = SymbolOf[t] => s = t

\* No channel holds more open mirrors than Cornix accepts, legacy rows included.
SlotsRespected == \A c \in Targets : LoadOf(table, c) <= SlotCap

\* The peak of a filled mirror is the best mark it was ever judged by, over
\* every cycle, exception and restart.
PeakKept == \A s \in OpenIn(table) : table[s].filled => table[s].peak = best[s]

\* The trail closes only mirrors that have been above the activation, and the
\* time stop never one of them.
ExitsJustified == \A s \in ClosedIn(table) :
    /\ table[s].reason = "TRAIL" => best[s] > Activation
    /\ table[s].reason = "TIME_STOP" => best[s] <= Activation

\* Close ends the trade it was posted for and no other of the symbol, although
\* Cornix applies it to the symbol, but one whose own Close was lost.
CloseHitsOwn == [][\A c \in Targets :
    outbox[c] # << >> /\ outbox'[c] = Tail(outbox[c]) /\ Head(outbox[c]).command = "close"
        => cornix \ cornix' \subseteq {<<c, Head(outbox[c]).source>>} \cup stranded]_vars

\* A mirror is opened only while its direction leads by less than the cap,
\* however many are opened in one cycle.  The other side is counted as in
\* admit: with the candidates of this cycle that were admitted and passed over.
Opens(s) == table[s].state # "open" /\ table'[s].state = "open"
Counted(b, isLong) == IF isLong THEN adm[b].long ELSE adm[b].short
ExposureBounded == [][\A s \in Sources :
    Opens(s) /\ ExposureCap > 0 => \E b \in Bots :
        pc[b] = "open" /\ SideOf(table, LongOf[s]) - Counted(b, ~LongOf[s]) < ExposureCap]_vars

\* What 40_trailing_close_bot.py:686 says, "admitted candidates count immediately
\* so a single cycle cannot overrun the cap", of the book itself: a candidate
\* that was admitted and then passed over makes room for the other side.
CapNotOverrun == [][\A s \in Sources :
    Opens(s) /\ ExposureCap > 0
        => SideOf(table, LongOf[s]) - SideOf(table, ~LongOf[s]) < ExposureCap]_vars

\* A source that closes is left: its mirror closes, its trade ends unless the
\* Close posted for it was lost on its way, and it stays so, with or without a
\* market price.
Flat(s) ==
    /\ table[s].state # "open"
    /\ \A x \in cornix : x[2] = s => x \in stranded
    /\ ~Queued(s)
SourceFollowed == \A s \in Sources : (ai[s] = "gone") ~> []Flat(s)

\* What the comment at 40_trailing_close_bot.py:1094 says of a mirror whose stop
\* was reached: "Cornix has already closed here."  It refers to a trade that
\* Cornix holds; an entry still in the outbox is opened after the row is closed.
AlreadyClosed == [][\A s \in Sources :
    table[s].state = "open" /\ table'[s].state = "closed" =>
        (table'[s].reason = "SL_HIT" => Flat(s)')]_vars
=============================================================================
