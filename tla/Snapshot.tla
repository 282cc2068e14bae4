----------------------------- MODULE Snapshot -----------------------------
(***************************************************************************)
(* The candle snapshot service: candle_snapshot_service.py reads the       *)
(* newest closed rows of the candle and the indicator table of a coin into *)
(* memory once per period, and core/candle_snapshot.py answers the reads   *)
(* of core/candles.py from there.  What it cannot answer goes to the       *)
(* database, here: the request ends without an answer.                     *)
(*                                                                         *)
(* One coin and one timeframe.  Time is the number of the candle that is   *)
(* forming; a row is known by its period.  start = 0 stands for no lower   *)
(* end of the window, end = Last + 1 for no upper one, and a limit no      *)
(* window reaches for no limit.  An end stands for any instant of its      *)
(* period.                                                                 *)
(***************************************************************************)
EXTENDS Integers, FiniteSets

CONSTANTS
    Last,           \* bound: periods of a behaviour
    Lookback,       \* rows kept per table: KYTHERA_SNAPSHOT_*_LOOKBACK
    Requests,       \* the reads of the bots
    MaxErrors,      \* bound: failed reads of the service
    MaxCrashes      \* bound: crashes of the service

Periods == 1 .. Last
Tables == {"candles", "indicators"}
Kinds == Tables \cup {"joined"}
NoFrame == [known |-> FALSE, rows |-> {}, seen |-> {}]

Request == [kind : Kinds, limit : Nat, start : Nat, end : Nat]

ASSUME BoundAssumption == Last \in Nat \ {0} /\ MaxErrors \in Nat /\ MaxCrashes \in Nat
ASSUME LookbackAssumption == Lookback \in [Tables -> Nat]
ASSUME RequestAssumption == Requests \subseteq Request

VARIABLES
    now,        \* the forming period
    table,      \* the periods of the rows each table holds
    \* the service: whether it runs, SnapshotStore, _BACKOFF_UNTIL
    alive, store, backoff,
    \* the sweep under way: the clock it started at, the tables still to
    \* read, the frames read and not stored
    sweepNow, due, read,
    \* the request under way: its stage, its text, the client's and the
    \* service's clock at its start, the frames looked up, the frame
    \* watermark of the response
    stage, req, asked, servedAt, got, side, stamp,
    errors, crashes     \* bookkeeping of the model

sweeping == <<sweepNow, due, read>>
asking == <<stage, req, asked, servedAt, got, side, stamp>>
counters == <<errors, crashes>>
vars == <<now, table, alive, store, backoff, sweeping, asking, counters>>

AtMost(a, b) == IF a <= b THEN a ELSE b
Newest(S) == CHOOSE p \in S : \A q \in S : q <= p
Oldest(S) == CHOOSE p \in S : \A q \in S : p <= q
NoRequest == [kind |-> "candles", limit |-> 0, start |-> 0, end |-> 0]

-----------------------------------------------------------------------------
(* Queries *)

(* ORDER BY open_time DESC LIMIT n *)
NewestOf(S, n) == {p \in S : Cardinality({q \in S : q > p}) < n}

InWindow(S, r) == {p \in S : r.start <= p /\ p <= r.end}

(* _windowed_select over the rows S of a table. *)
Query(S, r) == NewestOf(InWindow(S, r), r.limit)

Closed(S, clock) == {p \in S : p < clock}

(* Faulty: any row of the window is enough. *)
CoversPart(rows, r) == InWindow(rows, r) # {}

(* select_slice: the rows of a frame that answer a request, and whether the *)
(* frame can know: enough rows are in the window, or its floor is covered.  *)
Covers(rows, r) ==
    \/ r.start >= Oldest(rows)
    \/ Cardinality(InWindow(rows, r)) >= r.limit

Required(end, clock) == AtMost(clock, end) - 1

(* Faulty: one candle behind is fresh enough. *)
FrameIsRecent(newest, end, clock) == newest >= Required(end, clock) - 1

FrameIsFresh(newest, end, clock) == newest >= Required(end, clock)

-----------------------------------------------------------------------------
(* No request is under way. *)
NoneAsking ==
    /\ stage' = "idle" /\ req' = NoRequest /\ asked' = 0 /\ servedAt' = 0
    /\ got' = NoFrame /\ side' = NoFrame /\ stamp' = 0

Init ==
    /\ now = 2
    /\ table = [t \in Tables |-> {1}]
    /\ alive = TRUE
    /\ store = [t \in Tables |-> NoFrame] /\ backoff = {}
    /\ sweepNow = 0 /\ due = {} /\ read = [t \in Tables |-> NoFrame]
    /\ stage = "idle" /\ req = NoRequest /\ asked = 0 /\ servedAt = 0
    /\ got = NoFrame /\ side = NoFrame /\ stamp = 0
    /\ errors = 0 /\ crashes = 0

(* Surroundings: a candle closes; the ingestion writes a candle, in order  *)
(* or late; the engine writes an indicator row of a closed candle.  A      *)
(* request lasts less than a period, and a client gives up after two       *)
(* seconds.                                                                *)
Tick ==
    /\ now <= Last
    /\ stage = "idle" \/ asked = now
    /\ now' = now + 1
    /\ UNCHANGED <<table, alive, store, backoff, sweeping, asking, counters>>

Ingest(p) ==
    /\ p <= now /\ p \notin table["candles"]
    /\ table' = [table EXCEPT !["candles"] = @ \cup {p}]
    /\ UNCHANGED <<now, alive, store, backoff, sweeping, asking, counters>>

Compute(p) ==
    /\ p \in Closed(table["candles"], now) \ table["indicators"]
    /\ table' = [table EXCEPT !["indicators"] = @ \cup {p}]
    /\ UNCHANGED <<now, alive, store, backoff, sweeping, asking, counters>>

-----------------------------------------------------------------------------
(* The service *)

Behind(frame, clock) ==
    frame.rows = {} \/ ~FrameIsFresh(Newest(frame.rows), Last + 1, clock)

(* Faulty: only what has no frame is due. *)
MissingKeys == {t \in Tables \ backoff : store[t].rows = {}}

(* due_keys *)
DueKeys == {t \in Tables \ backoff : Behind(store[t], now)}

Sweep ==
    /\ alive /\ due = {} /\ DueKeys # {}
    /\ sweepNow' = now
    /\ due' = DueKeys
    /\ UNCHANGED <<now, table, alive, store, backoff, read, asking, counters>>

(* _refresh_one: the newest closed rows; a failed read is backed off. *)
ReadFrame(t) ==
    /\ alive /\ t \in due /\ ~read[t].known
    /\ LET seen == Closed(table[t], now) IN
       read' = [read EXCEPT ![t] =
                  [known |-> TRUE, rows |-> NewestOf(seen, Lookback[t]), seen |-> seen]]
    /\ UNCHANGED <<now, table, alive, store, backoff, sweepNow, due, asking, counters>>

ReadFails(t) ==
    /\ alive /\ t \in due /\ ~read[t].known /\ errors < MaxErrors
    /\ backoff' = backoff \cup {t}
    /\ due' = due \ {t}
    /\ errors' = errors + 1
    /\ UNCHANGED <<now, table, alive, store, sweepNow, read, asking, crashes>>

(* A frame that is still behind is stored and backed off. *)
Put(t) ==
    /\ alive /\ t \in due /\ read[t].known
    /\ store' = [store EXCEPT ![t] = read[t]]
    /\ backoff' = IF Behind(read[t], sweepNow) THEN backoff \cup {t} ELSE backoff \ {t}
    /\ read' = [read EXCEPT ![t] = NoFrame]
    /\ due' = due \ {t}
    /\ UNCHANGED <<now, table, alive, sweepNow, asking, counters>>

BackoffEnds(t) ==
    /\ alive /\ t \in backoff /\ t \notin due
    /\ backoff' = backoff \ {t}
    /\ UNCHANGED <<now, table, alive, store, sweeping, asking, counters>>

(* The store is gone; a request under way breaks off. *)
Crash ==
    /\ alive /\ crashes < MaxCrashes
    /\ alive' = FALSE
    /\ store' = [t \in Tables |-> NoFrame] /\ backoff' = {}
    /\ due' = {} /\ read' = [t \in Tables |-> NoFrame]
    /\ IF stage = "answered" THEN UNCHANGED asking ELSE NoneAsking
    /\ crashes' = crashes + 1
    /\ UNCHANGED <<now, table, sweepNow, errors>>

Start ==
    /\ ~alive
    /\ alive' = TRUE
    /\ UNCHANGED <<now, table, store, backoff, sweeping, asking, counters>>

-----------------------------------------------------------------------------
(* A request *)

Ask(r) ==
    /\ alive /\ stage = "idle"
    /\ stage' = "asked"
    /\ req' = r /\ asked' = now
    /\ UNCHANGED <<now, table, alive, store, backoff, sweeping, servedAt, got, side,
                   stamp, counters>>

(* serve_request takes its clock first. *)
Take ==
    /\ alive /\ stage = "asked"
    /\ stage' = "taken"
    /\ servedAt' = now
    /\ UNCHANGED <<now, table, alive, store, backoff, sweeping, req, asked, got, side,
                   stamp, counters>>

MainTable(r) == IF r.kind = "indicators" THEN "indicators" ELSE "candles"

(* A refusal, a timeout or a broken line: the read goes to the database. *)
GoToDatabase ==
    /\ stage \in {"asked", "taken", "looked", "sliced", "stamped"}
    /\ NoneAsking
    /\ UNCHANGED <<now, table, alive, store, backoff, sweeping, counters>>

Look ==
    /\ alive /\ stage = "taken"
    /\ store[MainTable(req)].rows # {}
    /\ got' = store[MainTable(req)]
    /\ stage' = "looked"
    /\ UNCHANGED <<now, table, alive, store, backoff, sweeping, req, asked, servedAt,
                   side, stamp, counters>>

Rows(r, frame) == Query(frame.rows, r)

(* The rows of a joined read all need their indicator row. *)
Joins(frame) == req.kind = "joined" => Rows(req, got) \subseteq frame.rows

Slice ==
    /\ alive /\ stage = "looked"
    /\ FrameIsFresh(Newest(got.rows), req.end, servedAt)
    /\ Covers(got.rows, req)
    /\ Joins(store["indicators"])
    /\ side' = store["indicators"]
    /\ stage' = "sliced"
    /\ UNCHANGED <<now, table, alive, store, backoff, sweeping, req, asked, servedAt,
                   got, stamp, counters>>

(* frame_open_time: the watermark of the frame the store holds by now. *)
Stamp ==
    /\ alive /\ stage = "sliced"
    /\ stamp' = Newest(store[MainTable(req)].rows)
    /\ stage' = "stamped"
    /\ UNCHANGED <<now, table, alive, store, backoff, sweeping, req, asked, servedAt,
                   got, side, counters>>

(* The client checks the watermark against its own clock. *)
Receive ==
    /\ stage = "stamped"
    /\ FrameIsFresh(stamp, req.end, now)
    /\ stage' = "answered"
    /\ UNCHANGED <<now, table, alive, store, backoff, sweeping, req, asked, servedAt,
                   got, side, stamp, counters>>

Use ==
    /\ stage = "answered"
    /\ NoneAsking
    /\ UNCHANGED <<now, table, alive, store, backoff, sweeping, counters>>

-----------------------------------------------------------------------------
Next ==
    \/ Tick
    \/ \E p \in Periods : Ingest(p) \/ Compute(p)
    \/ Sweep \/ Crash \/ Start
    \/ \E t \in Tables : ReadFrame(t) \/ ReadFails(t) \/ Put(t) \/ BackoffEnds(t)
    \/ \E r \in Requests : Ask(r)
    \/ Take \/ Look \/ Slice \/ Stamp \/ Receive \/ GoToDatabase \/ Use

Spec == Init /\ [][Next]_vars

(* The refresh loop polls, its threads run, a backoff lasts five minutes, and *)
(* the watchdog starts the service again.                                     *)
FairSpec ==
    /\ Spec
    /\ WF_vars(Sweep) /\ WF_vars(Start)
    /\ \A t \in Tables : WF_vars(ReadFrame(t)) /\ WF_vars(Put(t)) /\ WF_vars(BackoffEnds(t))

-----------------------------------------------------------------------------
(* Properties *)

Frame == [known : BOOLEAN, rows : SUBSET Periods, seen : SUBSET Periods]

TypeOK ==
    /\ now \in 1 .. Last + 1
    /\ table \in [Tables -> SUBSET Periods]
    /\ alive \in BOOLEAN
    /\ store \in [Tables -> Frame] /\ backoff \subseteq Tables
    /\ sweepNow \in Nat /\ due \subseteq Tables /\ read \in [Tables -> Frame]
    /\ stage \in {"idle", "asked", "taken", "looked", "sliced", "stamped", "answered"}
    /\ req \in Request /\ asked \in Nat /\ servedAt \in Nat
    /\ got \in Frame /\ side \in Frame /\ stamp \in Nat
    /\ errors \in 0 .. MaxErrors /\ crashes \in 0 .. MaxCrashes

(* What a bot is given is what the database would have answered, at the    *)
(* moments the frames were read: no row of the window is missing because   *)
(* the frame ends above it, none is too many, and every row of a joined    *)
(* read has its indicators (select_slice, _serve_joined).                  *)
SameAsDatabase ==
    stage = "answered" =>
        /\ Rows(req, got) = Query(got.seen, req)
        /\ req.kind = "joined" => Rows(req, got) \subseteq side.seen

(* No answer comes from a frame that was behind the newest closed candle   *)
(* when the bot asked, although frames are replaced, lost and read at any  *)
(* time, and the watermark is that of a later frame (frame_is_fresh).      *)
NeverBehind ==
    stage = "answered" /\ req.end >= asked => Newest(got.rows) >= asked - 1

(* A read as of an earlier instant too is answered from a frame that holds *)
(* the newest candle of its window, frame_is_fresh: "True when the frame   *)
(* reaches the newest candle the request could see."                       *)
ReachesEnd ==
    LET could == AtMost(asked - 1, req.end) IN
    stage = "answered" /\ could \in table[MainTable(req)] => Newest(got.rows) >= could

(* Once the newest closed row is in its table the service holds it too, or *)
(* the next candle closes, whatever read failed and whatever crashed       *)
(* before (due_keys, _refresh_one, refresh_loop).                          *)
CatchesUp ==
    \A t \in Tables :
        now - 1 \in table[t] ~> (~Behind(store[t], now) \/ now - 1 \notin table[t])

=============================================================================
