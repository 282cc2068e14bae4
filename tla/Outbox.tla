------------------------------- MODULE Outbox -------------------------------
(***************************************************************************)
(* The outbox dispatcher, 4_telegram_bot.py.  Bots insert rows into the    *)
(* table telegram_outbox; the dispatcher polls it and hands every row to   *)
(* Telegram, committing each status change to the database.  A trading     *)
(* channel is read by Cornix, which opens a trade per message: a row sent  *)
(* twice is a trade opened twice.  An info channel is only read by people. *)
(*                                                                         *)
(* One step is one database transaction, one Telegram call, or a choice of *)
(* the dispatcher between two of them.  Clock readings are abstracted to   *)
(* the two thresholds the code compares with: "aged" rows are older than   *)
(* SIGNAL_TTL_MINUTES, "lapsed" rows have been 'sending' for longer than   *)
(* SENDING_RECOVERY_GRACE_SEC.  The rate limits only decide which channel  *)
(* may send now, so that choice is free.                                   *)
(*                                                                         *)
(* A definition headed "Faulty:" is no part of the model.  It is the next  *)
(* definition with a slip a programmer might make, put in its place to see *)
(* that a property notices.                                                *)
(***************************************************************************)
EXTENDS Naturals, FiniteSets

CONSTANTS
    Messages,       \* ids of telegram_outbox, in the order of insertion
    Channels,
    InfoChannels,   \* INFO_CHANNEL_IDS
    ChannelOf,      \* ChannelOf[m]: the channel_id of row m
    Images,
    ImageOf,        \* ImageOf[m]: its image_path, or NoImage
    NoImage,
    Malformed,      \* rows whose HTML Telegram cannot parse
    Consumers,      \* dispatcher processes; the fleet starts one
    BatchSize,      \* FETCH_BATCH_SIZE
    MaxAttempts,    \* MAX_ATTEMPTS
    MaxFaults,      \* bound: crashes and database failures in a behaviour
    Copies          \* bound: deliveries of one row are counted up to here

ASSUME MessagesAssumption == Messages \subseteq Nat \ {0}
ASSUME ChannelAssumption == /\ ChannelOf \in [Messages -> Channels]
                            /\ InfoChannels \subseteq Channels
ASSUME ImageAssumption == /\ ImageOf \in [Messages -> Images \cup {NoImage}]
                          /\ NoImage \notin Images
ASSUME BoundAssumption == /\ BatchSize \in Nat \ {0}
                          /\ MaxAttempts \in Nat \ {0}
                          /\ MaxFaults \in Nat
                          /\ Copies \in Nat \ {0, 1}

VARIABLES
    \* the table
    status, sent, failed, attempts,
    aged, lapsed,
    \* the chart directory
    chart,
    \* Telegram: how often it accepted each row, the row each channel
    \* accepted last, the rows it refused for their HTML
    accepted, latest, refused,
    \* the memory of each dispatcher process
    pc, batch, blocked, cur, reply, stuck,
    faults

table == <<status, sent, failed, attempts>>
clock == <<aged, lapsed>>
telegram == <<accepted, latest, refused>>
memory == <<batch, blocked, cur, reply, stuck>>
vars == <<table, clock, chart, telegram, pc, memory, faults>>

Statuses == {"absent", "pending", "sending", "sent", "failed", "expired", "dead_letter"}
Phases == {"down", "startup", "expire", "recover", "resolve", "fetch",
           "select", "send", "handle"}

(* What python-telegram-bot returns or raises.  "unknown" is TimedOut or a  *)
(* transport NetworkError, "parse" a BadRequest off the permanent list,     *)
(* "permanent" and "nochat" the two kinds on it, "flood" RetryAfter or a    *)
(* "Retry in" text, "error" any other exception.                            *)
Replies == {"ok", "unknown", "parse", "permanent", "nochat", "flood", "error"}
NoMessage == 0

Trading(m) == ChannelOf[m] \notin InfoChannels
Live(m) == ~sent[m] /\ ~failed[m]
(* Faulty: every row not yet sent, as before the status column existed.     *)
Unsent(m) == status[m] # "absent" /\ ~sent[m]
Claimable(m) == status[m] = "pending" /\ Live(m)
InDoubt(m) == status[m] = "sending" /\ Live(m)
(* Faulty: a row in doubt does not hold up its channel.                     *)
NoChannel == {}
LockedChannels == {ChannelOf[m] : m \in {n \in Messages : InDoubt(n)}}

Init ==
    /\ status = [m \in Messages |-> "absent"]
    /\ sent = [m \in Messages |-> FALSE]
    /\ failed = [m \in Messages |-> FALSE]
    /\ attempts = [m \in Messages |-> 0]
    /\ aged = {} /\ lapsed = {}
    /\ chart = [i \in Images |-> FALSE]
    /\ accepted = [m \in Messages |-> 0]
    /\ latest = [c \in Channels |-> NoMessage]
    /\ refused = {}
    /\ pc = [p \in Consumers |-> "down"]
    /\ batch = [p \in Consumers |-> {}]
    /\ blocked = [p \in Consumers |-> {}]
    /\ cur = [p \in Consumers |-> NoMessage]
    /\ reply = [p \in Consumers |-> "ok"]
    /\ stuck = [p \in Consumers |-> [resend |-> {}, giveUp |-> {}]]
    /\ faults = 0
-----------------------------------------------------------------------------
(* The environment: bots and clocks.                                        *)

(* A bot inserts a row, with a chart it has just rendered or, as the        *)
(* orchestrator does when it forwards a row, with the path of an older one. *)
Enqueue(m) ==
    /\ status[m] = "absent"
    /\ \A n \in Messages : n < m => status[n] # "absent"
    /\ status' = [status EXCEPT ![m] = "pending"]
    /\ \/ UNCHANGED chart
       \/ ImageOf[m] # NoImage /\ chart' = [chart EXCEPT ![ImageOf[m]] = TRUE]
    /\ UNCHANGED <<sent, failed, attempts, clock, telegram, pc, memory, faults>>

Age(m) ==
    /\ status[m] # "absent" /\ Live(m) /\ Trading(m) /\ m \notin aged
    /\ aged' = aged \cup {m}
    /\ UNCHANGED <<table, lapsed, chart, telegram, pc, memory, faults>>

Lapse(m) ==
    /\ InDoubt(m) /\ m \notin lapsed
    /\ lapsed' = lapsed \cup {m}
    /\ UNCHANGED <<table, aged, chart, telegram, pc, memory, faults>>
-----------------------------------------------------------------------------
(* The start of a process and the three transactions that begin a poll.    *)

Goto(p, label) == pc' = [pc EXCEPT ![p] = label]

(* Faulty: trading rows are sent again too.                                 *)
ReadStuckAlike(p, rows) ==
    LET hopeless == {m \in rows : attempts[m] >= MaxAttempts}
    IN  stuck' = [stuck EXCEPT ![p] = [resend |-> rows \ hopeless, giveUp |-> hopeless]]

(* recover_stale_sending reads the orphaned rows first and decides row by   *)
(* row; the updates follow in the same transaction but re-check nothing.    *)
ReadStuck(p, rows) ==
    LET hopeless == {m \in rows : Trading(m) \/ attempts[m] >= MaxAttempts}
    IN  stuck' = [stuck EXCEPT ![p] = [resend |-> rows \ hopeless, giveUp |-> hopeless]]

Start(p) ==
    /\ pc[p] = "down"
    /\ Goto(p, "startup")
    /\ ReadStuck(p, {m \in Messages : InDoubt(m)})
    /\ UNCHANGED <<table, clock, chart, telegram, batch, blocked, cur, reply, faults>>

(* Faulty: rows being sent expire as well.                                  *)
StaleOrSending == {m \in aged : Live(m) /\ Trading(m)}
(* Faulty: nothing ever expires.                                            *)
NothingStale == {}
Stale == {m \in aged : Claimable(m) /\ Trading(m)}

ExpireStaleSignals(p) ==
    /\ pc[p] = "expire"
    /\ failed' = [m \in Messages |-> failed[m] \/ m \in Stale]
    /\ status' = [m \in Messages |-> IF m \in Stale THEN "expired" ELSE status[m]]
    /\ Goto(p, "recover")
    /\ UNCHANGED <<sent, attempts, clock, chart, telegram, memory, faults>>

(* Faulty: orphans are looked for at the start of the process only.         *)
NoOrphans == {}
Orphans == {m \in lapsed : InDoubt(m)}

RecoverStaleSending(p) ==
    /\ pc[p] = "recover"
    /\ ReadStuck(p, Orphans)
    /\ Goto(p, "resolve")
    /\ UNCHANGED <<table, clock, chart, telegram, batch, blocked, cur, reply, faults>>

ResolveStuck(p) ==
    /\ pc[p] \in {"startup", "resolve"}
    /\ LET s == stuck[p]
           Resolved(m) == CASE m \in s.giveUp /\ Trading(m) -> "dead_letter"
                            [] m \in s.giveUp /\ ~Trading(m) -> "failed"
                            [] m \in s.resend -> "pending"
                            [] OTHER -> status[m]
       IN  /\ status' = [m \in Messages |-> Resolved(m)]
           /\ failed' = [m \in Messages |-> failed[m] \/ m \in s.giveUp]
           /\ lapsed' = lapsed \ s.resend
    /\ stuck' = [stuck EXCEPT ![p] = [resend |-> {}, giveUp |-> {}]]
    /\ Goto(p, IF pc[p] = "startup" THEN "expire" ELSE "fetch")
    /\ UNCHANGED <<sent, attempts, aged, chart, telegram, batch, blocked, cur, reply, faults>>

(* The oldest BatchSize rows that may be sent: trading rows only within the *)
(* TTL, and nothing of a channel with a row in doubt.                       *)
Fetchable == {m \in Messages : /\ Claimable(m)
                               /\ Trading(m) => m \notin aged
                               /\ ChannelOf[m] \notin LockedChannels}

Fetch(p) ==
    /\ pc[p] = "fetch"
    /\ LET rows == {m \in Fetchable :
                       Cardinality({n \in Fetchable : n < m}) < BatchSize}
       IN  /\ batch' = [batch EXCEPT ![p] = rows]
           /\ Goto(p, IF rows = {} THEN "expire" ELSE "select")
    /\ blocked' = [blocked EXCEPT ![p] = {}]
    /\ UNCHANGED <<table, clock, chart, telegram, cur, reply, stuck, faults>>
-----------------------------------------------------------------------------
(* The send loop over one batch.                                            *)

(* Per channel the first row of the batch goes first; a channel with a      *)
(* failure in this batch is skipped.  Which channel the rate limits let     *)
(* through is open.                                                         *)
Selectable(p) ==
    {m \in batch[p] : /\ ChannelOf[m] \notin blocked[p]
                      /\ \A n \in batch[p] : ChannelOf[n] = ChannelOf[m] => m <= n}

EndBatch(p) ==
    /\ pc[p] = "select"
    /\ Selectable(p) = {}
    /\ batch' = [batch EXCEPT ![p] = {}]
    /\ Goto(p, "expire")
    /\ UNCHANGED <<table, clock, chart, telegram, blocked, cur, reply, stuck, faults>>

(* Faulty: a claim that never notices another dispatcher.                   *)
Granted(m) == TRUE
ClaimSucceeds(m) == Claimable(m)

(* claim_for_sending: the row goes to 'sending' and is committed before the *)
(* send; a row that is no longer pending is skipped.                        *)
ClaimForSending(p, m) ==
    /\ pc[p] = "select" /\ m \in Selectable(p)
    /\ ClaimSucceeds(m)
    /\ status' = [status EXCEPT ![m] = "sending"]
    /\ lapsed' = lapsed \ {m}
    /\ batch' = [batch EXCEPT ![p] = @ \ {m}]
    /\ cur' = [cur EXCEPT ![p] = m]
    /\ Goto(p, "send")
    /\ UNCHANGED <<sent, failed, attempts, aged, chart, telegram, blocked, reply, stuck, faults>>

SkipClaimed(p, m) ==
    /\ pc[p] = "select" /\ m \in Selectable(p)
    /\ ~ClaimSucceeds(m)
    /\ batch' = [batch EXCEPT ![p] = @ \ {m}]
    /\ UNCHANGED <<table, clock, chart, telegram, pc, blocked, cur, reply, stuck, faults>>

(* Telegram answers the call.  Only "ok" says that the message was          *)
(* accepted; after "unknown" it may have been.  Malformed HTML is refused   *)
(* unless the call is the last attempt, which has no parse_mode.            *)
Accept(m) ==
    /\ accepted' = [accepted EXCEPT ![m] = IF @ < Copies THEN @ + 1 ELSE @]
    /\ latest' = [latest EXCEPT ![ChannelOf[m]] = m]
    /\ refused' = refused \ {m}

Send(p) ==
    /\ pc[p] = "send"
    /\ LET m == cur[p]
           unreadable == m \in Malformed /\ attempts[m] < MaxAttempts - 1
       IN  \E r \in Replies :
             /\ reply' = [reply EXCEPT ![p] = r]
             /\ r = "ok" => ~unreadable
             /\ r = "parse" => unreadable
             /\ \/ r \in {"ok", "unknown"} /\ ~unreadable /\ Accept(m)
                \/ r = "parse" /\ refused' = refused \cup {m} /\ UNCHANGED <<accepted, latest>>
                \/ r \notin {"ok", "parse"} /\ UNCHANGED telegram
    /\ Goto(p, "handle")
    /\ UNCHANGED <<table, clock, chart, batch, blocked, cur, stuck, faults>>
-----------------------------------------------------------------------------
(* The outcome of the send, one action per group of except clauses.         *)

Handling(p, replies) == pc[p] = "handle" /\ reply[p] \in replies

Done(p, label) ==
    /\ cur' = [cur EXCEPT ![p] = NoMessage]
    /\ reply' = [reply EXCEPT ![p] = "ok"]
    /\ Goto(p, label)
    /\ UNCHANGED <<aged, telegram, stuck, faults>>

(* Faulty: the file goes with the first row that is done.                   *)
DropChartAlways(m) ==
    chart' = [i \in Images |-> chart[i] /\ ImageOf[m] # i]

(* try_delete_chart_if_unreferenced: the file goes unless another row with  *)
(* the same path has sent = FALSE.                                          *)
DropChart(m) ==
    chart' = [i \in Images |->
                chart[i] /\ ~ /\ ImageOf[m] = i
                              /\ \A n \in Messages \ {m} :
                                   ImageOf[n] = i /\ status[n] # "absent" => sent[n]]

(* The row leaves 'sending', so its sending_at no longer counts.            *)
StopClock(p) == lapsed' = lapsed \ {cur[p]}

(* Faulty: the id of the row is put into the set of blocked channels.       *)
BlockRow(p) == blocked' = [blocked EXCEPT ![p] = @ \cup {cur[p]}]
(* Faulty: the channel is not skipped after a failure.                      *)
KeepGoing(p) == UNCHANGED blocked
Block(p) == blocked' = [blocked EXCEPT ![p] = @ \cup {ChannelOf[cur[p]]}]

MarkSent(p) ==
    /\ Handling(p, {"ok"})
    /\ sent' = [sent EXCEPT ![cur[p]] = TRUE]
    /\ status' = [status EXCEPT ![cur[p]] = "sent"]
    /\ StopClock(p)
    /\ DropChart(cur[p])
    /\ Done(p, "select")
    /\ UNCHANGED <<failed, attempts, batch, blocked>>

(* RetryAfter: back to pending, not counted, and the batch is given up.     *)
FloodControl(p) ==
    /\ Handling(p, {"flood"})
    /\ status' = [status EXCEPT ![cur[p]] = "pending"]
    /\ StopClock(p)
    /\ batch' = [batch EXCEPT ![p] = {}]
    /\ Done(p, "expire")
    /\ UNCHANGED <<sent, failed, attempts, chart, blocked>>

(* TimedOut and every NetworkError that is not a permanent BadRequest: the  *)
(* row stays 'sending'.                                                     *)
OutcomeUnknown(p) ==
    /\ Handling(p, {"unknown", "parse"})
    /\ attempts' = [attempts EXCEPT ![cur[p]] = @ + 1]
    /\ Block(p)
    /\ Done(p, "select")
    /\ UNCHANGED <<status, sent, failed, lapsed, chart, batch>>

(* A permanent BadRequest fails at once; a missing chat blocks the channel. *)
MarkFailedPermanently(p) ==
    /\ Handling(p, {"permanent", "nochat"})
    /\ attempts' = [attempts EXCEPT ![cur[p]] = @ + 1]
    /\ failed' = [failed EXCEPT ![cur[p]] = TRUE]
    /\ status' = [status EXCEPT ![cur[p]] = "failed"]
    /\ StopClock(p)
    /\ DropChart(cur[p])
    /\ IF reply[p] = "nochat" THEN Block(p) ELSE UNCHANGED blocked
    /\ Done(p, "select")
    /\ UNCHANGED <<sent, batch>>

(* Faulty: one attempt too many.                                            *)
FinalTooLate(m) == attempts[m] >= MaxAttempts
Final(m) == attempts[m] + 1 >= MaxAttempts

(* Any other exception: retried until the attempts are used up.             *)
MarkFailure(p) ==
    /\ Handling(p, {"error"})
    /\ LET m == cur[p]
       IN  /\ attempts' = [attempts EXCEPT ![m] = @ + 1]
           /\ failed' = [failed EXCEPT ![m] = @ \/ Final(m)]
           /\ status' = [status EXCEPT ![m] = IF Final(m) THEN "failed" ELSE "pending"]
           /\ IF failed'[m] THEN DropChart(m) ELSE UNCHANGED chart
    /\ StopClock(p)
    /\ Block(p)
    /\ Done(p, "select")
    /\ UNCHANGED <<sent, batch>>
-----------------------------------------------------------------------------
(* Faults.                                                                  *)

(* The reply in hand settles the row for good, so its chart is removed      *)
(* before the commit.                                                       *)
Settles(p) ==
    \/ Handling(p, {"ok", "permanent", "nochat"})
    \/ Handling(p, {"error"}) /\ Final(cur[p])

Interrupt(p, label) ==
    /\ faults < MaxFaults
    /\ faults' = faults + 1
    /\ Goto(p, label)
    /\ batch' = [batch EXCEPT ![p] = {}]
    /\ blocked' = [blocked EXCEPT ![p] = {}]
    /\ cur' = [cur EXCEPT ![p] = NoMessage]
    /\ reply' = [reply EXCEPT ![p] = "ok"]
    /\ stuck' = [stuck EXCEPT ![p] = [resend |-> {}, giveUp |-> {}]]
    /\ \/ UNCHANGED chart
       \/ Settles(p) /\ DropChart(cur[p])
    /\ UNCHANGED <<table, clock, telegram>>

(* The process dies, at any point; the watchdog starts it again.            *)
Crash(p) == pc[p] # "down" /\ Interrupt(p, "down")

(* A statement or a commit fails (or a commit whose answer is lost did go   *)
(* through): the transaction is rolled back and the exception leaves the    *)
(* batch for a new poll.                                                    *)
LoopError(p) == pc[p] \notin {"down", "startup"} /\ Interrupt(p, "expire")
-----------------------------------------------------------------------------
Poll(p) == \/ ExpireStaleSignals(p) \/ RecoverStaleSending(p) \/ ResolveStuck(p)
           \/ Fetch(p) \/ EndBatch(p)
Deliver(p) == \/ \E m \in Messages : ClaimForSending(p, m) \/ SkipClaimed(p, m)
              \/ Send(p)
Settle(p) == \/ MarkSent(p) \/ FloodControl(p) \/ OutcomeUnknown(p)
             \/ MarkFailedPermanently(p) \/ MarkFailure(p)
Consumer(p) == Start(p) \/ Poll(p) \/ Deliver(p) \/ Settle(p)
Fault(p) == Crash(p) \/ LoopError(p)
Environment == \E m \in Messages : Enqueue(m) \/ Age(m) \/ Lapse(m)

Next == Environment \/ \E p \in Consumers : Consumer(p) \/ Fault(p)

Spec == Init /\ [][Next]_vars

(* The process loop runs while the process is up, the watchdog restarts it, *)
(* a Telegram call always returns (it has a timeout) and time passes.       *)
FairSpec == /\ Spec
            /\ \A p \in Consumers : WF_vars(Consumer(p))
            /\ \A m \in Messages : WF_vars(Age(m)) /\ WF_vars(Lapse(m))
-----------------------------------------------------------------------------
(* Properties.                                                              *)

TypeOK ==
    /\ status \in [Messages -> Statuses]
    /\ sent \in [Messages -> BOOLEAN]
    /\ failed \in [Messages -> BOOLEAN]
    /\ attempts \in [Messages -> Nat]
    /\ aged \subseteq Messages /\ lapsed \subseteq Messages
    /\ chart \in [Images -> BOOLEAN]
    /\ accepted \in [Messages -> 0..Copies]
    /\ latest \in [Channels -> Messages \cup {NoMessage}]
    /\ refused \subseteq Messages
    /\ pc \in [Consumers -> Phases]
    /\ batch \in [Consumers -> SUBSET Messages]
    /\ blocked \in [Consumers -> SUBSET Channels]
    /\ cur \in [Consumers -> Messages \cup {NoMessage}]
    /\ \A p \in Consumers : pc[p] \in {"send", "handle"} => cur[p] \in Messages
    /\ reply \in [Consumers -> Replies]
    /\ stuck \in [Consumers -> [resend : SUBSET Messages, giveUp : SUBSET Messages]]
    /\ faults \in 0..MaxFaults

(* P0.1: whatever crashes, timeouts, lost commits and other dispatchers do, *)
(* Telegram accepts a row of a trading channel at most once, so Cornix      *)
(* opens its trade at most once.                                            *)
AtMostOnce == \A m \in Messages : Trading(m) => accepted[m] <= 1

(* What the table says of a trading row is true: 'sent' was accepted, and   *)
(* 'pending', 'expired' and 'failed' were not.  Only 'sending' and          *)
(* 'dead_letter' leave it open.                                             *)
LedgerTruth ==
    \A m \in Messages : Trading(m) =>
        /\ sent[m] => accepted[m] = 1
        /\ status[m] \in {"absent", "pending", "expired", "failed"} /\ ~sent[m] => accepted[m] = 0

(* sent and failed, which housekeeping and the health monitor read, never   *)
(* contradict each other, agree with status, and no row is attempted more   *)
(* than MAX_ATTEMPTS times (one dispatcher).                                *)
OneVerdict ==
    \A m \in Messages :
        /\ ~(sent[m] /\ failed[m])
        /\ sent[m] <=> status[m] = "sent"
        /\ failed[m] <=> status[m] \in {"failed", "expired", "dead_letter"}
        /\ attempts[m] <= MaxAttempts

(* P0.1(d): of each channel at most one row is 'sending', the next one      *)
(* waits until its outcome is settled (one dispatcher).                     *)
OneInDoubt ==
    \A m, n \in Messages :
        InDoubt(m) /\ InDoubt(n) /\ ChannelOf[m] = ChannelOf[n] => m = n

(* P1.3: within a channel Telegram never accepts an older row after a newer *)
(* one, so an SL update never overtakes or precedes its entry: not after a  *)
(* failure in the batch, a retry, a crash or a recovery (one dispatcher).   *)
FifoPerChannel ==
    [][\A c \in Channels : latest'[c] >= latest[c]]_vars

(* The verdict on a row is one and final: besides OneVerdict, a row the     *)
(* table has settled (sent, failed, expired, dead_letter) is never sent and *)
(* never reopened, by no late claim, mark or recovery (one dispatcher).     *)
SettledForGood ==
    /\ []OneVerdict
    /\ [][\A m \in Messages : status[m] \in {"sent", "failed", "expired", "dead_letter"} =>
            status'[m] = status[m] /\ accepted'[m] = accepted[m]]_vars

(* #68/#87: the dispatcher never removes the chart of a row that still      *)
(* waits for its first send.                                                *)
ChartKept ==
    [][\A m \in Messages :
            ImageOf[m] # NoImage /\ Claimable(m) /\ chart[ImageOf[m]]
                => chart'[ImageOf[m]]]_vars

(* P2.11 and mark_failure: a row Telegram is known to have refused for its  *)
(* HTML goes back to 'pending', to be sent without parse_mode.  (Violated:  *)
(* a BadRequest is a NetworkError, the row stays 'sending' and on a trading *)
(* channel ends as dead_letter.)                                            *)
RefusedIsRetried == \A m \in refused : status[m] # "dead_letter"

(* Every trading row is eventually settled: it is never stuck behind a row  *)
(* in doubt, endless flood control or a skipped channel.                    *)
TradingSettled ==
    \A m \in Messages : Trading(m) => (status[m] = "pending" ~> sent[m] \/ failed[m])

(* P0.1(c): no row stays 'sending' for ever, so no channel is locked for    *)
(* ever.                                                                    *)
DoubtResolved == \A m \in Messages : InDoubt(m) ~> ~InDoubt(m)

(* For trading channels and one dispatcher the table, the dispatcher and    *)
(* Telegram together are a lossy FIFO queue without duplicates.             *)
Signal == INSTANCE SignalChannel WITH
            Signals <- {m \in Messages : Trading(m)},
            queued <- {m \in Messages : Trading(m) /\ status[m] # "absent"},
            taken <- {m \in Messages : Trading(m) /\ accepted[m] > 0},
            closed <- {m \in Messages : Trading(m) /\ ~Live(m)}

ImplementsSignalChannel == Signal!Spec
=============================================================================
