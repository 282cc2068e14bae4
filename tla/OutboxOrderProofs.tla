------------------------- MODULE OutboxOrderProofs -------------------------
(***************************************************************************)
(* Proofs about Outbox with one dispatcher, for any set of rows, channels  *)
(* and charts: each row gets one verdict, at most one row of a channel is  *)
(* in doubt, each channel is served in the order of its rows, and together *)
(* the dispatcher, its table and Telegram implement SignalChannel.         *)
(***************************************************************************)
EXTENDS OutboxProofs, FiniteSetTheorems

(* The fleet starts one dispatcher, whose process the watchdog keeps.       *)
OneDispatcher == \A p, q \in Consumers : p = q

(* A pending trading row past its TTL that no batch holds: no later fetch   *)
(* will take it, so newer rows may overtake it.                             *)
Overdue(m) ==
    /\ status[m] = "pending" /\ Trading(m) /\ m \in aged
    /\ \A p \in Consumers : m \notin batch[p]

(* Row m may yet be sent, for the first time or again.                      *)
Waits(m) == status[m] \in {"absent", "pending", "sending"} /\ ~Overdue(m)

(* status, sent, failed and attempts of a row agree, and a row that may be  *)
(* sent has an attempt left.                                                *)
Verdict(m) ==
    /\ sent[m] <=> status[m] = "sent"
    /\ failed[m] <=> status[m] \in {"failed", "expired", "dead_letter"}
    /\ attempts[m] <= MaxAttempts
    /\ status[m] \in {"absent", "pending"} => attempts[m] < MaxAttempts

(* The row in hand is 'sending': nobody else touches it.                    *)
Held(p) ==
    pc[p] \in {"send", "handle"} =>
        status[cur[p]] = "sending" /\ attempts[cur[p]] < MaxAttempts

(* What a recovery has read about the rows in doubt still holds when it     *)
(* writes.                                                                  *)
Noted(p) ==
    /\ pc[p] \notin {"startup", "resolve"} => stuck[p].resend = {} /\ stuck[p].giveUp = {}
    /\ \A m \in stuck[p].resend \cup stuck[p].giveUp : status[m] = "sending"
    /\ \A m \in stuck[p].resend : ~Trading(m) /\ attempts[m] < MaxAttempts
    /\ stuck[p].resend \cap stuck[p].giveUp = {}

(* The rows of a batch are still pending, and no batch outlives its loop.   *)
Batched(p) ==
    /\ pc[p] \notin {"select", "send", "handle"} => batch[p] = {}
    /\ \A m \in batch[p] : status[m] = "pending"

(* Unless its channel is blocked, a row of the batch has no row in doubt in *)
(* its channel but the one in hand, and every older row of the channel that *)
(* may be sent comes first.                                                 *)
Fetched(p) ==
    \A m \in batch[p], n \in Messages :
        ChannelOf[m] \notin blocked[p] /\ ChannelOf[n] = ChannelOf[m] =>
            /\ status[n] = "sending" => Holds(p, n)
            /\ n < m /\ Waits(n) => n \in batch[p] \/ Holds(p, n)

(* The row in hand is the oldest of its channel that may be sent.           *)
Oldest(p) ==
    pc[p] \in {"send", "handle"} =>
        \A m \in Messages : Waits(m) /\ ChannelOf[m] = ChannelOf[cur[p]] => cur[p] <= m

(* Rows get their ids in the order in which they are inserted.              *)
Inserted ==
    \A m, n \in Messages : status[m] # "absent" /\ status[n] = "absent" => m < n

(* Nothing newer than m was accepted while m may still be sent; nothing     *)
(* accepted is newer than the latest.                                       *)
Behind(m) ==
    /\ Waits(m) => latest[ChannelOf[m]] <= m
    /\ accepted[m] > 0 => m <= latest[ChannelOf[m]]

OneDoubt(m, n) ==
    status[m] = "sending" /\ status[n] = "sending" /\ ChannelOf[m] = ChannelOf[n] => m = n

(* The invariant, in two parts: the table and the rows in hand, which do    *)
(* not depend on the order, and the order.                                  *)
TableInv ==
    /\ TypeOK
    /\ \A m \in Messages : Verdict(m)
    /\ \A p \in Consumers : Held(p) /\ Noted(p) /\ Batched(p)

OrderInv ==
    /\ \A p \in Consumers : Fetched(p) /\ Oldest(p)
    /\ Inserted
    /\ \A m \in Messages : Behind(m)
    /\ \A m, n \in Messages : OneDoubt(m, n)
-----------------------------------------------------------------------------
(* The first part of the invariant holds at the start.                      *)
LEMMA TableInit == Init => TableInv
<1>1. ASSUME Init, NEW m \in Messages PROVE Verdict(m)
  BY <1>1, BoundAssumption DEF Init, Verdict
<1>2. ASSUME Init, NEW p \in Consumers PROVE Held(p) /\ Noted(p) /\ Batched(p)
  BY <1>2 DEF Init, Held, Noted, Batched
<1>3. QED
  BY <1>1, <1>2, TypeInit DEF TableInv

(* What a recovery notes down about rows in doubt.                          *)
LEMMA ReadStuckNotes ==
    ASSUME NEW p \in Consumers, NEW rows \in SUBSET Messages, TypeOK, ReadStuck(p, rows)
    PROVE  /\ stuck'[p].resend \cup stuck'[p].giveUp = rows
           /\ stuck'[p].resend \cap stuck'[p].giveUp = {}
           /\ \A m \in stuck'[p].resend : ~Trading(m) /\ attempts[m] < MaxAttempts
<1> DEFINE hopeless == {n \in rows : Trading(n) \/ attempts[n] >= MaxAttempts}
           entry == [resend |-> rows \ hopeless, giveUp |-> hopeless]
<1>1. stuck'[p] = entry
  BY DEF ReadStuck, TypeOK
<1>2. \A m \in rows \ hopeless : ~Trading(m) /\ attempts[m] < MaxAttempts
  BY BoundAssumption DEF TypeOK
<1>3. QED
  BY <1>1, <1>2

(* What the second half of a recovery does to a row.                        *)
LEMMA ResolveEffect ==
    ASSUME NEW p \in Consumers, NEW m \in Messages, TypeOK, ResolveStuck(p),
           stuck[p].resend \cap stuck[p].giveUp = {}
    PROVE  /\ m \notin stuck[p].resend \cup stuck[p].giveUp =>
                status'[m] = status[m] /\ failed'[m] = failed[m]
           /\ m \in stuck[p].giveUp =>
                status'[m] \in {"dead_letter", "failed"} /\ failed'[m] = TRUE
           /\ m \in stuck[p].resend =>
                status'[m] = "pending" /\ failed'[m] = failed[m]
<1>1. failed'[m] = (failed[m] \/ m \in stuck[p].giveUp)
  BY DEF ResolveStuck
<1>2. status'[m] = CASE m \in stuck[p].giveUp /\ Trading(m) -> "dead_letter"
                     [] m \in stuck[p].giveUp /\ ~Trading(m) -> "failed"
                     [] m \in stuck[p].resend -> "pending"
                     [] OTHER -> status[m]
  BY DEF ResolveStuck
<1>3. failed[m] \in BOOLEAN
  BY DEF TypeOK
<1>4. CASE m \in stuck[p].giveUp
  <2>1. failed'[m] = TRUE
    BY <1>1, <1>3, <1>4
  <2>2. status'[m] \in {"dead_letter", "failed"}
    BY <1>2, <1>4 DEF Trading
  <2>3. QED
    BY <1>4, <2>1, <2>2
<1>5. CASE m \notin stuck[p].giveUp
  BY <1>1, <1>2, <1>3, <1>5
<1>6. QED
  BY <1>4, <1>5

(* Each row gets one verdict: sent, failed and status always agree, and its *)
(* attempts are used up only by a verdict or a doubt.                       *)
LEMMA VerdictStep ==
    ASSUME OneDispatcher, TableInv, Next, NEW m \in Messages
    PROVE  Verdict(m)'
<1>1. /\ status \in [Messages -> Statuses]
      /\ sent \in [Messages -> BOOLEAN]
      /\ failed \in [Messages -> BOOLEAN]
      /\ attempts \in [Messages -> Nat]
      /\ \A p \in Consumers : pc[p] \in {"send", "handle"} => cur[p] \in Messages
      /\ MaxAttempts \in Nat \ {0}
  BY BoundAssumption DEF TableInv, TypeOK
<1>2. Verdict(m) /\ \A p \in Consumers : Held(p) /\ Noted(p)
  BY DEF TableInv
<1> USE DEF Verdict
<1>3. ASSUME NEW n \in Messages, Enqueue(n) \/ Age(n) \/ Lapse(n) PROVE Verdict(m)'
  BY <1>1, <1>2, <1>3 DEF Enqueue, Age, Lapse, table
<1>4. ASSUME NEW p \in Consumers, Start(p) \/ RecoverStaleSending(p) \/ Fetch(p) \/ EndBatch(p)
      PROVE  Verdict(m)'
  BY <1>1, <1>2, <1>4 DEF Start, RecoverStaleSending, Fetch, EndBatch, table
<1>5. ASSUME NEW p \in Consumers, ExpireStaleSignals(p) PROVE Verdict(m)'
  BY <1>1, <1>2, <1>5 DEF ExpireStaleSignals, Stale, Claimable, Live
<1>6. ASSUME NEW p \in Consumers, ResolveStuck(p) PROVE Verdict(m)'
  <2>1. sent' = sent /\ attempts' = attempts
    BY <1>6 DEF ResolveStuck
  <2>2. /\ m \in stuck[p].resend \cup stuck[p].giveUp => status[m] = "sending"
        /\ m \in stuck[p].resend => attempts[m] < MaxAttempts
        /\ stuck[p].resend \cap stuck[p].giveUp = {}
    BY <1>2 DEF Noted
  <2>3. QED
    BY <1>1, <1>2, <1>6, <2>1, <2>2, ResolveEffect DEF TableInv
<1>7. ASSUME NEW p \in Consumers, NEW n \in Messages,
             ClaimForSending(p, n) \/ SkipClaimed(p, n)
      PROVE  Verdict(m)'
  BY <1>1, <1>2, <1>7 DEF ClaimForSending, SkipClaimed, ClaimSucceeds, Claimable, Live, table
<1>8. ASSUME NEW p \in Consumers, Send(p) PROVE Verdict(m)'
  BY <1>1, <1>2, <1>8 DEF Send, table
<1>9. ASSUME NEW p \in Consumers, Settle(p) PROVE Verdict(m)'
  <2>1. cur[p] \in Messages /\ Held(p) /\ pc[p] = "handle"
    BY <1>1, <1>2, <1>9
       DEF Settle, MarkSent, FloodControl, OutcomeUnknown, MarkFailedPermanently, MarkFailure, Handling
  <2>2. CASE MarkSent(p) \/ FloodControl(p) \/ OutcomeUnknown(p)
    BY <1>1, <1>2, <2>1, <2>2 DEF MarkSent, FloodControl, OutcomeUnknown, Held
  <2>3. CASE MarkFailedPermanently(p)
    BY <1>1, <1>2, <2>1, <2>3 DEF MarkFailedPermanently, Held
  <2>4. CASE MarkFailure(p)
    <3>1. /\ attempts' = [attempts EXCEPT ![cur[p]] = @ + 1]
          /\ failed' = [failed EXCEPT ![cur[p]] = @ \/ Final(cur[p])]
          /\ status' = [status EXCEPT ![cur[p]] = IF Final(cur[p]) THEN "failed" ELSE "pending"]
          /\ sent' = sent
      BY <2>4 DEF MarkFailure
    <3>2. CASE cur[p] = m /\ Final(m)
      <4>1. failed'[m] = TRUE /\ status'[m] = "failed" /\ attempts'[m] = attempts[m] + 1
        BY <1>1, <3>1, <3>2
      <4>2. QED
        BY <1>1, <1>2, <2>1, <3>1, <3>2, <4>1 DEF Held
    <3>3. CASE cur[p] = m /\ ~Final(m)
      <4>1. failed'[m] = failed[m] /\ status'[m] = "pending" /\ attempts'[m] = attempts[m] + 1
        BY <1>1, <3>1, <3>3
      <4>2. attempts[m] + 1 < MaxAttempts
        BY <1>1, <3>3 DEF Final
      <4>3. QED
        BY <1>1, <1>2, <2>1, <3>1, <3>3, <4>1, <4>2 DEF Held
    <3>4. CASE cur[p] # m
      BY <1>1, <1>2, <2>1, <3>1, <3>4
    <3>5. QED
      BY <3>2, <3>3, <3>4
  <2>5. QED
    BY <1>9, <2>2, <2>3, <2>4 DEF Settle
<1>10. ASSUME NEW p \in Consumers, Fault(p) PROVE Verdict(m)'
  BY <1>1, <1>2, <1>10 DEF Fault, Crash, LoopError, Interrupt, table
<1>11. QED
  BY <1>3, <1>4, <1>5, <1>6, <1>7, <1>8, <1>9, <1>10
     DEF Next, Environment, Consumer, Poll, Deliver

(* What a recovery notes down it may still act on when it writes: with one  *)
(* dispatcher nothing between the two halves touches a row in doubt.        *)
LEMMA NotedStep ==
    ASSUME OneDispatcher, TableInv, Next, NEW q \in Consumers
    PROVE  Noted(q)'
<1>1. /\ status \in [Messages -> Statuses]
      /\ pc \in [Consumers -> Phases]
      /\ stuck \in [Consumers -> [resend : SUBSET Messages, giveUp : SUBSET Messages]]
      /\ Noted(q)
  BY DEF TableInv, TypeOK
<1> USE DEF Noted, Goto, Trading
<1>2. ASSUME NEW n \in Messages, Enqueue(n) \/ Age(n) \/ Lapse(n) PROVE Noted(q)'
  BY <1>1, <1>2 DEF Enqueue, Age, Lapse, table, memory
<1>3. ASSUME NEW p \in Consumers, Consumer(p) \/ Fault(p) PROVE Noted(q)'
  <2>1. p = q
    BY DEF OneDispatcher
  <2>2. CASE Start(p) \/ RecoverStaleSending(p)
    <3>1. PICK rows \in SUBSET Messages :
              ReadStuck(p, rows) /\ \A m \in rows : status[m] = "sending"
      <4>1. CASE Start(p)
        BY <4>1 DEF Start, InDoubt
      <4>2. CASE RecoverStaleSending(p)
        BY <4>2 DEF RecoverStaleSending, Orphans, InDoubt, TableInv, TypeOK
      <4>3. QED
        BY <2>2, <4>1, <4>2
    <3>2. /\ stuck'[p].resend \cup stuck'[p].giveUp = rows
          /\ stuck'[p].resend \cap stuck'[p].giveUp = {}
          /\ \A m \in stuck'[p].resend : ~Trading(m) /\ attempts[m] < MaxAttempts
      BY <3>1, ReadStuckNotes DEF TableInv
    <3>3. pc'[p] \in {"startup", "resolve"} /\ status' = status /\ attempts' = attempts
      BY <1>1, <2>2 DEF Start, RecoverStaleSending, table
    <3>4. QED
      BY <2>1, <3>1, <3>2, <3>3
  <2>3. CASE ResolveStuck(p) \/ Fault(p)
    <3>1. stuck' = [stuck EXCEPT ![p] = [resend |-> {}, giveUp |-> {}]]
      BY <2>3 DEF ResolveStuck, Fault, Crash, LoopError, Interrupt
    <3>2. stuck'[q] = [resend |-> {}, giveUp |-> {}]
      BY <1>1, <2>1, <3>1
    <3>3. QED
      BY <3>2
  <2>4. CASE Consumer(p) /\ ~(Start(p) \/ RecoverStaleSending(p) \/ ResolveStuck(p))
    <3>1. /\ stuck' = stuck
          /\ pc[p] \notin {"startup", "resolve"} /\ pc'[p] \notin {"startup", "resolve"}
      BY <1>1, <2>4
         DEF Consumer, Poll, Deliver, Settle, ExpireStaleSignals, Fetch, EndBatch, ClaimForSending,
             SkipClaimed, Send, MarkSent, FloodControl, OutcomeUnknown, MarkFailedPermanently,
             MarkFailure, Handling, Done, memory
    <3>2. QED
      BY <1>1, <2>1, <3>1
  <2>5. QED
    BY <1>3, <2>2, <2>3, <2>4
<1>4. QED
  BY <1>2, <1>3 DEF Next, Environment

(* The row in hand stays 'sending' until its outcome is handled.            *)
LEMMA HeldStep ==
    ASSUME OneDispatcher, TableInv, Next, NEW q \in Consumers
    PROVE  Held(q)'
<1>1. /\ status \in [Messages -> Statuses]
      /\ pc \in [Consumers -> Phases]
      /\ cur \in [Consumers -> Messages \cup {NoMessage}]
      /\ pc[q] \in {"send", "handle"} => cur[q] \in Messages
      /\ Held(q)
  BY DEF TableInv, TypeOK
<1> USE DEF Held, Goto
<1>2. ASSUME NEW n \in Messages, Enqueue(n) \/ Age(n) \/ Lapse(n) PROVE Held(q)'
  BY <1>1, <1>2 DEF Enqueue, Age, Lapse, table, memory
<1>3. ASSUME NEW p \in Consumers, Consumer(p) \/ Fault(p) PROVE Held(q)'
  <2>1. p = q
    BY DEF OneDispatcher
  <2>2. ASSUME NEW m \in Messages, ClaimForSending(p, m) PROVE Held(q)'
    <3>1. status[m] = "pending" /\ Verdict(m)
      BY <2>2 DEF ClaimForSending, ClaimSucceeds, Claimable, TableInv
    <3>2. QED
      BY <1>1, <2>1, <2>2, <3>1 DEF ClaimForSending, Verdict
  <2>3. CASE Send(p)
    BY <1>1, <2>1, <2>3 DEF Send, table
  <2>4. CASE Consumer(p) /\ ~Send(p) /\ ~ \E m \in Messages : ClaimForSending(p, m)
    <3>1. pc'[p] \notin {"send", "handle"}
      BY <1>1, <2>4
         DEF Consumer, Poll, Deliver, Settle, Start, ExpireStaleSignals, RecoverStaleSending,
             ResolveStuck, Fetch, EndBatch, SkipClaimed, MarkSent, FloodControl, OutcomeUnknown,
             MarkFailedPermanently, MarkFailure, Done
    <3>2. QED
      BY <2>1, <3>1
  <2>5. CASE Fault(p)
    BY <1>1, <2>1, <2>5 DEF Fault, Crash, LoopError, Interrupt
  <2>6. QED
    BY <1>3, <2>2, <2>3, <2>4, <2>5
<1>4. QED
  BY <1>2, <1>3 DEF Next, Environment

(* Handling the outcome of a send changes no row but the one in hand, and   *)
(* the row goes back to 'pending' only with its channel or the whole batch  *)
(* given up.                                                                *)
LEMMA SettleEffect ==
    ASSUME NEW p \in Consumers, TypeOK, Settle(p)
    PROVE  /\ pc[p] = "handle" /\ cur[p] \in Messages
           /\ \A m \in Messages \ {cur[p]} :
                 status'[m] = status[m] /\ sent'[m] = sent[m] /\ failed'[m] = failed[m]
           /\ status'[cur[p]] \in {"sent", "failed", "pending", status[cur[p]]}
           /\ UNCHANGED <<aged, accepted, latest>>
           /\ \/ /\ pc'[p] = "select" /\ batch' = batch /\ blocked[p] \subseteq blocked'[p]
                 /\ \/ status'[cur[p]] \in {"sent", "failed"}
                    \/ ChannelOf[cur[p]] \in blocked'[p]
              \/ pc'[p] = "expire" /\ batch'[p] = {}
<1>1. /\ status \in [Messages -> Statuses]
      /\ sent \in [Messages -> BOOLEAN]
      /\ failed \in [Messages -> BOOLEAN]
      /\ pc \in [Consumers -> Phases]
      /\ batch \in [Consumers -> SUBSET Messages]
      /\ blocked \in [Consumers -> SUBSET Channels]
      /\ pc[p] = "handle" => cur[p] \in Messages
  BY DEF TypeOK
<1>2. pc[p] = "handle" /\ cur[p] \in Messages
  BY <1>1 DEF Settle, MarkSent, FloodControl, OutcomeUnknown, MarkFailedPermanently, MarkFailure,
              Handling
<1> USE DEF Goto, Done, telegram
<1>3. CASE MarkSent(p)
  BY <1>1, <1>2, <1>3 DEF MarkSent
<1>4. CASE FloodControl(p)
  BY <1>1, <1>2, <1>4 DEF FloodControl
<1>5. CASE OutcomeUnknown(p)
  BY <1>1, <1>2, <1>5 DEF OutcomeUnknown, Block
<1>6. CASE MarkFailedPermanently(p)
  BY <1>1, <1>2, <1>6 DEF MarkFailedPermanently, Block
<1>7. CASE MarkFailure(p)
  BY <1>1, <1>2, <1>7 DEF MarkFailure, Block
<1>8. QED
  BY <1>3, <1>4, <1>5, <1>6, <1>7 DEF Settle

(* A row of a batch stays pending until it is claimed or the batch ends.    *)
LEMMA BatchedStep ==
    ASSUME OneDispatcher, TableInv, Next, NEW q \in Consumers
    PROVE  Batched(q)'
<1>1. /\ status \in [Messages -> Statuses]
      /\ pc \in [Consumers -> Phases]
      /\ batch \in [Consumers -> SUBSET Messages]
      /\ Batched(q) /\ Held(q) /\ TypeOK
  BY DEF TableInv, TypeOK
<1> USE DEF Batched, Goto
<1>2. ASSUME NEW n \in Messages, Enqueue(n) \/ Age(n) \/ Lapse(n) PROVE Batched(q)'
  BY <1>1, <1>2 DEF Enqueue, Age, Lapse, table, memory
<1>3. ASSUME NEW p \in Consumers, Consumer(p) \/ Fault(p) PROVE Batched(q)'
  <2>1. p = q
    BY DEF OneDispatcher
  <2>2. CASE Start(p) \/ RecoverStaleSending(p) \/ ExpireStaleSignals(p) \/ ResolveStuck(p)
    BY <1>1, <2>1, <2>2
       DEF Start, RecoverStaleSending, ExpireStaleSignals, ResolveStuck, memory
  <2>3. CASE Fetch(p)
    <3> DEFINE rows == {m \in Fetchable : Cardinality({n \in Fetchable : n < m}) < BatchSize}
    <3>1. \A m \in rows : status[m] = "pending"
      BY DEF Fetchable, Claimable
    <3>2. /\ batch' = [batch EXCEPT ![p] = rows]
          /\ pc' = [pc EXCEPT ![p] = IF rows = {} THEN "expire" ELSE "select"]
          /\ status' = status
      BY <2>3 DEF Fetch, table
    <3> HIDE DEF rows
    <3>3. QED
      BY <1>1, <2>1, <3>1, <3>2
  <2>4. CASE EndBatch(p) \/ Fault(p)
    BY <1>1, <2>1, <2>4 DEF EndBatch, Fault, Crash, LoopError, Interrupt
  <2>5. ASSUME NEW m \in Messages, ClaimForSending(p, m) \/ SkipClaimed(p, m)
        PROVE  Batched(q)'
    BY <1>1, <2>1, <2>5 DEF ClaimForSending, SkipClaimed, table
  <2>6. CASE Send(p)
    BY <1>1, <2>1, <2>6 DEF Send, table
  <2>7. CASE Settle(p)
    <3>1. /\ cur[p] \notin batch[p]
          /\ batch'[p] \subseteq batch[p] /\ (pc'[p] = "select" \/ batch'[p] = {})
      BY <1>1, <2>1, <2>7, SettleEffect DEF Held
    <3>2. \A m \in Messages \ {cur[p]} : status'[m] = status[m]
      BY <1>1, <2>7, SettleEffect
    <3>3. QED
      BY <1>1, <2>1, <3>1, <3>2
  <2>8. QED
    BY <1>3, <2>2, <2>3, <2>4, <2>5, <2>6, <2>7 DEF Consumer, Poll, Deliver
<1>4. QED
  BY <1>2, <1>3 DEF Next, Environment

(* The first part of the invariant is inductive by itself.                  *)
LEMMA TableStep == ASSUME OneDispatcher PROVE TableInv /\ [Next]_vars => TableInv'
<1> SUFFICES ASSUME TableInv, [Next]_vars PROVE TableInv'
  OBVIOUS
<1>1. TypeOK'
  BY TypeStep DEF TableInv
<1>2. CASE Next
  BY <1>1, <1>2, VerdictStep, HeldStep, NotedStep, BatchedStep DEF TableInv
<1>3. CASE UNCHANGED vars
  BY <1>1, <1>3 DEF TableInv, Verdict, Held, Noted, Batched, Trading, vars, table, memory
<1>4. QED
  BY <1>2, <1>3

(* The table and the rows in hand are consistent throughout.                *)
LEMMA TableHolds == ASSUME OneDispatcher PROVE Spec => []TableInv
<1>1. Init => TableInv
  BY TableInit
<1>2. TableInv /\ [Next]_vars => TableInv'
  BY TableStep
<1>3. QED
  BY <1>1, <1>2, PTL DEF Spec

SettledStatuses == {"sent", "failed", "expired", "dead_letter"}

(* No step reopens a settled row or has Telegram accept it.                 *)
LEMMA SettledStep ==
    ASSUME OneDispatcher, TableInv, Next, NEW m \in Messages, status[m] \in SettledStatuses
    PROVE  status'[m] = status[m] /\ accepted'[m] = accepted[m]
<1>1. /\ status \in [Messages -> Statuses]
      /\ accepted \in [Messages -> 0..Copies]
      /\ TypeOK /\ \A p \in Consumers : Held(p) /\ Noted(p)
  BY DEF TableInv, TypeOK
<1> USE DEF SettledStatuses
<1>2. ASSUME NEW n \in Messages, Enqueue(n) \/ Age(n) \/ Lapse(n)
      PROVE  status'[m] = status[m] /\ accepted'[m] = accepted[m]
  BY <1>1, <1>2 DEF Enqueue, Age, Lapse, table, telegram
<1>3. ASSUME NEW p \in Consumers, Consumer(p) \/ Fault(p)
      PROVE  status'[m] = status[m] /\ accepted'[m] = accepted[m]
  <2>1. CASE Start(p) \/ RecoverStaleSending(p) \/ Fetch(p) \/ EndBatch(p) \/ Fault(p)
    BY <2>1 DEF Start, RecoverStaleSending, Fetch, EndBatch, Fault, Crash, LoopError, Interrupt,
                table, telegram
  <2>2. CASE ExpireStaleSignals(p)
    BY <1>1, <2>2 DEF ExpireStaleSignals, Stale, Claimable, telegram
  <2>3. CASE ResolveStuck(p)
    <3>1. accepted' = accepted
      BY <2>3 DEF ResolveStuck, telegram
    <3>2. m \notin stuck[p].resend \cup stuck[p].giveUp
      BY <1>1 DEF Noted
    <3>3. QED
      BY <1>1, <2>3, <3>1, <3>2, ResolveEffect DEF Noted
  <2>4. ASSUME NEW n \in Messages, ClaimForSending(p, n) \/ SkipClaimed(p, n)
        PROVE  status'[m] = status[m] /\ accepted'[m] = accepted[m]
    BY <1>1, <2>4 DEF ClaimForSending, SkipClaimed, ClaimSucceeds, Claimable, table, telegram
  <2>5. CASE Send(p)
    <3>1. cur[p] # m
      BY <1>1, <2>5 DEF Send, Held
    <3>2. status' = status
      BY <2>5 DEF Send, table
    <3>3. QED
      BY <1>1, <2>5, <3>1, <3>2 DEF Send, Accept, telegram
  <2>6. CASE Settle(p)
    <3>1. cur[p] # m
      BY <1>1, <2>6, SettleEffect DEF Held
    <3>2. QED
      BY <1>1, <2>6, <3>1, SettleEffect
  <2>7. QED
    BY <1>3, <2>1, <2>2, <2>3, <2>4, <2>5, <2>6 DEF Consumer, Poll, Deliver
<1>4. QED
  BY <1>2, <1>3 DEF Next, Environment

(* With one dispatcher the verdict on a row is one and final, whatever      *)
(* crashes, lost commits, retries and recoveries do: sent, failed and       *)
(* status agree, no row has more than MAX_ATTEMPTS attempts, and a settled  *)
(* row is neither reopened nor sent.                                        *)
THEOREM VerdictIsFinal == ASSUME OneDispatcher PROVE Spec => SettledForGood
<1>1. TableInv => OneVerdict
  BY DEF TableInv, Verdict, OneVerdict
<1>2. TableInv /\ [Next]_vars =>
        [\A m \in Messages : status[m] \in {"sent", "failed", "expired", "dead_letter"} =>
            status'[m] = status[m] /\ accepted'[m] = accepted[m]]_vars
  BY SettledStep DEF SettledStatuses
<1>3. QED
  BY <1>1, <1>2, TableHolds, PTL DEF Spec, SettledForGood

(* A chart is removed only with a row that leaves 'sending'.                *)
LEMMA DropSpares ==
    ASSUME NEW k \in Messages, NEW m \in Messages \ {k}, TableInv, DropChart(k),
           ImageOf[m] # NoImage, Claimable(m), chart[ImageOf[m]]
    PROVE  chart'[ImageOf[m]]
<1>1. ImageOf[m] \in Images
  BY ImageAssumption
<1>2. status[m] # "absent" /\ ~sent[m]
  BY DEF Claimable, Live
<1>3. QED
  BY <1>1, <1>2 DEF DropChart

(* With one dispatcher the chart of a row that still waits for its send     *)
(* stays: the row whose end removes it is another one, and the check for    *)
(* other references sees the waiting row.                                   *)
THEOREM ChartStays == ASSUME OneDispatcher PROVE Spec => ChartKept
<1> DEFINE Kept(m) == ImageOf[m] # NoImage /\ Claimable(m) /\ chart[ImageOf[m]]
                        => chart'[ImageOf[m]]
<1>1. ASSUME TableInv, Next, NEW m \in Messages PROVE Kept(m)
  <2>1. SUFFICES ASSUME ImageOf[m] # NoImage, Claimable(m), chart[ImageOf[m]]
                 PROVE  chart'[ImageOf[m]]
    OBVIOUS
  <2>2. ImageOf[m] \in Images /\ chart \in [Images -> BOOLEAN] /\ status[m] = "pending"
    BY <1>1, <2>1, ImageAssumption DEF TableInv, TypeOK, Claimable
  <2>3. CASE UNCHANGED chart
    BY <2>1, <2>3
  <2>4. ASSUME NEW n \in Messages, Enqueue(n) PROVE chart'[ImageOf[m]]
    BY <2>1, <2>2, <2>4 DEF Enqueue
  <2>5. ASSUME NEW p \in Consumers, pc[p] = "handle", DropChart(cur[p])
        PROVE  chart'[ImageOf[m]]
    <3>1. cur[p] \in Messages /\ status[cur[p]] = "sending"
      BY <1>1, <2>5 DEF TableInv, TypeOK, Held
    <3>2. QED
      BY <1>1, <2>1, <2>2, <2>5, <3>1, DropSpares
  <2>6. \/ UNCHANGED chart
        \/ \E n \in Messages : Enqueue(n)
        \/ \E p \in Consumers : pc[p] = "handle" /\ DropChart(cur[p])
    <3>1. ASSUME NEW p \in Consumers, Settle(p)
          PROVE  UNCHANGED chart \/ (pc[p] = "handle" /\ DropChart(cur[p]))
      BY <3>1 DEF Settle, MarkSent, FloodControl, OutcomeUnknown, MarkFailedPermanently,
                  MarkFailure, Handling
    <3>2. ASSUME NEW p \in Consumers, Fault(p)
          PROVE  UNCHANGED chart \/ (pc[p] = "handle" /\ DropChart(cur[p]))
      BY <3>2 DEF Fault, Crash, LoopError, Interrupt, Settles, Handling
    <3>3. ASSUME NEW p \in Consumers, Start(p) \/ Poll(p) \/ Deliver(p) PROVE UNCHANGED chart
      BY <3>3 DEF Start, Poll, Deliver, ExpireStaleSignals, RecoverStaleSending, ResolveStuck,
                  Fetch, EndBatch, ClaimForSending, SkipClaimed, Send
    <3>4. ASSUME NEW n \in Messages, Age(n) \/ Lapse(n) PROVE UNCHANGED chart
      BY <3>4 DEF Age, Lapse
    <3>5. QED
      BY <1>1, <3>1, <3>2, <3>3, <3>4 DEF Next, Environment, Consumer
  <2>7. QED
    BY <2>3, <2>4, <2>5, <2>6
<1>2. TableInv /\ [Next]_vars => [\A m \in Messages : Kept(m)]_vars
  BY <1>1
<1>3. QED
  BY <1>2, TableHolds, PTL DEF Spec, ChartKept
-----------------------------------------------------------------------------
(* The second part holds at the start.                                      *)
LEMMA OrderInit == Init => OrderInv
<1>1. ASSUME Init, NEW m \in Messages PROVE Behind(m)
  <2>1. ChannelOf[m] \in Channels /\ m \in Nat
    BY ChannelAssumption, MessagesAssumption
  <2>2. QED
    BY <1>1, <2>1 DEF Init, Behind, NoMessage
<1>2. ASSUME Init, NEW p \in Consumers PROVE Fetched(p) /\ Oldest(p)
  BY <1>2 DEF Init, Fetched, Oldest
<1>3. QED
  BY <1>1, <1>2 DEF Init, OrderInv, Inserted, OneDoubt

(* The oldest rows are fetched: with a row every older one that may be      *)
(* fetched, since it has no more rows before it.                            *)
LEMMA OldestFetched ==
    ASSUME NEW m \in Messages, NEW n \in Fetchable, n < m,
           Cardinality({k \in Fetchable : k < m}) < BatchSize
    PROVE  Cardinality({k \in Fetchable : k < n}) < BatchSize
<1>1. Fetchable \subseteq Nat /\ m \in Nat /\ n \in Nat
  BY MessagesAssumption DEF Fetchable
<1>2. IsFiniteSet({k \in Fetchable : k < m})
  <2>1. IsFiniteSet(0..m)
    BY <1>1, FS_Interval
  <2>2. {k \in Fetchable : k < m} \subseteq 0..m
    <3>1. ASSUME NEW k \in Fetchable, k < m PROVE k \in 0..m
      BY <1>1, <3>1
    <3>2. QED
      BY <3>1
  <2>3. QED
    BY <2>1, <2>2, FS_Subset
<1>3. {k \in Fetchable : k < n} \subseteq {k \in Fetchable : k < m}
  <2>1. ASSUME NEW k \in Fetchable, k < n PROVE k < m
    BY <1>1, <2>1
  <2>2. QED
    BY <2>1
<1>4. /\ IsFiniteSet({k \in Fetchable : k < n})
      /\ Cardinality({k \in Fetchable : k < n}) <= Cardinality({k \in Fetchable : k < m})
  BY <1>2, <1>3, FS_Subset
<1>5. /\ Cardinality({k \in Fetchable : k < n}) \in Nat
      /\ Cardinality({k \in Fetchable : k < m}) \in Nat
  BY <1>2, <1>4, FS_CardinalityType
<1>6. QED
  BY <1>4, <1>5, BoundAssumption

(* Only a claim makes a row 'sending'.                                      *)
LEMMA DoubtFromClaim ==
    ASSUME TableInv, Next, NEW m \in Messages, status'[m] = "sending", status[m] # "sending"
    PROVE  \E p \in Consumers : ClaimForSending(p, m)
<1>1. TypeOK /\ status \in [Messages -> Statuses] /\ \A p \in Consumers : Noted(p)
  BY DEF TableInv, TypeOK
<1>2. ASSUME NEW n \in Messages, Enqueue(n) \/ Age(n) \/ Lapse(n) PROVE FALSE
  BY <1>1, <1>2 DEF Enqueue, Age, Lapse, table
<1>3. ASSUME NEW p \in Consumers,
             \/ Start(p) \/ RecoverStaleSending(p) \/ Fetch(p) \/ EndBatch(p) \/ Send(p) \/ Fault(p)
             \/ \E n \in Messages : SkipClaimed(p, n)
      PROVE  FALSE
  BY <1>3 DEF Start, RecoverStaleSending, Fetch, EndBatch, SkipClaimed, Send, Fault, Crash,
              LoopError, Interrupt, table
<1>4. ASSUME NEW p \in Consumers, ExpireStaleSignals(p) PROVE FALSE
  BY <1>1, <1>4 DEF ExpireStaleSignals
<1>5. ASSUME NEW p \in Consumers, ResolveStuck(p) PROVE FALSE
  BY <1>1, <1>5, ResolveEffect DEF Noted
<1>6. ASSUME NEW p \in Consumers, Settle(p) PROVE FALSE
  BY <1>1, <1>6, SettleEffect
<1>7. ASSUME NEW p \in Consumers, NEW n \in Messages, ClaimForSending(p, n)
      PROVE  ClaimForSending(p, m)
  <2>1. n = m
    BY <1>1, <1>7 DEF ClaimForSending
  <2>2. QED
    BY <1>7, <2>1
<1>8. QED
  BY <1>2, <1>3, <1>4, <1>5, <1>6, <1>7
     DEF Next, Environment, Consumer, Poll, Deliver

(* Once overdue a row is fetched no more: it stays as it is or expires.     *)
LEMMA OverdueStays ==
    ASSUME OneDispatcher, TableInv, Next, NEW m \in Messages, Overdue(m)
    PROVE  Overdue(m)' \/ status'[m] = "expired"
<1>1. /\ status \in [Messages -> Statuses]
      /\ batch \in [Consumers -> SUBSET Messages]
      /\ TypeOK /\ \A p \in Consumers : Held(p) /\ Noted(p)
      /\ status[m] = "pending" /\ Trading(m) /\ m \in aged
      /\ \A p \in Consumers : m \notin batch[p]
  BY DEF TableInv, TypeOK, Overdue
<1> USE DEF Overdue, Trading
<1>2. ASSUME NEW n \in Messages, Enqueue(n) \/ Age(n) \/ Lapse(n)
      PROVE  Overdue(m)' \/ status'[m] = "expired"
  <2>1. batch' = batch /\ status'[m] = "pending" /\ m \in aged'
    BY <1>1, <1>2 DEF Enqueue, Age, Lapse, table, clock, memory
  <2>2. QED
    BY <1>1, <2>1
<1>3. ASSUME NEW p \in Consumers, Consumer(p) \/ Fault(p)
      PROVE  Overdue(m)' \/ status'[m] = "expired"
  <2>1. CASE Start(p) \/ RecoverStaleSending(p) \/ EndBatch(p) \/ Send(p) \/ Fault(p)
    <3>1. UNCHANGED <<status, aged>>
      BY <2>1 DEF Start, RecoverStaleSending, EndBatch, Send, Fault, Crash, LoopError,
                  Interrupt, table, clock
    <3>2. batch' = batch \/ batch' = [batch EXCEPT ![p] = {}]
      BY <2>1 DEF Start, RecoverStaleSending, EndBatch, Send, Fault, Crash, LoopError,
                  Interrupt, memory
    <3>3. QED
      BY <1>1, <3>1, <3>2
  <2>2. CASE ExpireStaleSignals(p)
    BY <1>1, <2>2 DEF ExpireStaleSignals, clock, memory
  <2>3. CASE ResolveStuck(p)
    <3>1. m \notin stuck[p].resend \cup stuck[p].giveUp
      BY <1>1 DEF Noted
    <3>2. status'[m] = status[m]
      BY <1>1, <2>3, <3>1, ResolveEffect DEF Noted
    <3>3. QED
      BY <1>1, <2>3, <3>2 DEF ResolveStuck
  <2>4. CASE Fetch(p)
    <3> DEFINE rows == {k \in Fetchable : Cardinality({n \in Fetchable : n < k}) < BatchSize}
    <3>1. m \notin rows
      BY <1>1 DEF Fetchable
    <3>2. batch' = [batch EXCEPT ![p] = rows] /\ UNCHANGED <<status, aged>>
      BY <2>4 DEF Fetch, table, clock
    <3> HIDE DEF rows
    <3>3. QED
      BY <1>1, <3>1, <3>2
  <2>5. ASSUME NEW n \in Messages, ClaimForSending(p, n) \/ SkipClaimed(p, n)
        PROVE  Overdue(m)' \/ status'[m] = "expired"
    <3>1. n # m
      BY <1>1, <2>5 DEF ClaimForSending, SkipClaimed, Selectable
    <3>2. QED
      BY <1>1, <2>5, <3>1 DEF ClaimForSending, SkipClaimed, table, clock
  <2>6. CASE Settle(p)
    <3>1. cur[p] # m
      BY <1>1, <2>6, SettleEffect DEF Held
    <3>2. \A q \in Consumers : q = p
      BY DEF OneDispatcher
    <3>3. QED
      BY <1>1, <2>6, <3>1, <3>2, SettleEffect
  <2>7. QED
    BY <1>3, <2>1, <2>2, <2>3, <2>4, <2>5, <2>6 DEF Consumer, Poll, Deliver
<1>4. QED
  BY <1>2, <1>3 DEF Next, Environment

(* No row that was not waiting to be sent begins to.                        *)
LEMMA WaitsBack ==
    ASSUME OneDispatcher, TableInv, Next, NEW m \in Messages, Waits(m)'
    PROVE  Waits(m)
<1>1. status[m] \in Statuses
  BY DEF TableInv, TypeOK
<1>2. status[m] \notin SettledStatuses
  BY SettledStep DEF Waits, SettledStatuses
<1>3. ~Overdue(m)
  BY OverdueStays DEF Waits
<1>4. QED
  BY <1>1, <1>2, <1>3 DEF Waits, Statuses, SettledStatuses

(* Only an insertion makes a row appear, and none is deleted.               *)
LEMMA OnlyEnqueued ==
    ASSUME TableInv, Next, NEW m \in Messages
    PROVE  \/ \E k \in Messages : Enqueue(k)
           \/ status'[m] = "absent" <=> status[m] = "absent"
<1>1. status \in [Messages -> Statuses]
  BY DEF TableInv, TypeOK
<1>2. ASSUME NEW p \in Consumers, Consumer(p) \/ Fault(p)
      PROVE  status'[m] = "absent" <=> status[m] = "absent"
  <2>1. TypeOK /\ Held(p) /\ Noted(p)
    BY DEF TableInv
  <2>2. CASE Start(p) \/ RecoverStaleSending(p) \/ Fetch(p) \/ EndBatch(p) \/ Send(p) \/ Fault(p)
    BY <2>2 DEF Start, RecoverStaleSending, Fetch, EndBatch, Send, Fault, Crash, LoopError,
                Interrupt, table
  <2>3. CASE ExpireStaleSignals(p)
    BY <1>1, <2>3 DEF ExpireStaleSignals, Stale, Claimable
  <2>4. CASE ResolveStuck(p)
    BY <2>1, <2>4, ResolveEffect DEF Noted
  <2>5. ASSUME NEW n \in Messages, ClaimForSending(p, n) \/ SkipClaimed(p, n)
        PROVE  status'[m] = "absent" <=> status[m] = "absent"
    BY <1>1, <2>5 DEF ClaimForSending, SkipClaimed, ClaimSucceeds, Claimable, table
  <2>6. CASE Settle(p)
    BY <1>1, <2>1, <2>6, SettleEffect DEF Held
  <2>7. QED
    BY <1>2, <2>2, <2>3, <2>4, <2>5, <2>6 DEF Consumer, Poll, Deliver
<1>3. ASSUME NEW k \in Messages, Age(k) \/ Lapse(k) PROVE status' = status
  BY <1>3 DEF Age, Lapse, table
<1>4. QED
  BY <1>2, <1>3 DEF Next, Environment

(* Rows are inserted in the order of their ids.                             *)
LEMMA InsertedStep == TableInv /\ Next /\ Inserted => Inserted'
<1> SUFFICES ASSUME TableInv, Next, Inserted PROVE Inserted'
  OBVIOUS
<1>1. status \in [Messages -> Statuses] /\ Messages \subseteq Nat
  BY MessagesAssumption DEF TableInv, TypeOK
<1>2. ASSUME NEW k \in Messages, Enqueue(k) PROVE Inserted'
  BY <1>1, <1>2 DEF Enqueue, Inserted
<1>3. QED
  BY <1>2, OnlyEnqueued DEF Inserted

(* The row in hand was the oldest of its channel when it was claimed, and   *)
(* no older one has come since.                                             *)
LEMMA OldestStep ==
    ASSUME OneDispatcher, TableInv, OrderInv, Next, NEW q \in Consumers
    PROVE  Oldest(q)'
<1>1. /\ pc \in [Consumers -> Phases]
      /\ cur \in [Consumers -> Messages \cup {NoMessage}]
      /\ batch \in [Consumers -> SUBSET Messages]
      /\ Messages \subseteq Nat
  BY MessagesAssumption DEF TableInv, TypeOK
<1>2. Fetched(q) /\ Oldest(q)
  BY DEF OrderInv
<1>3. CASE pc'[q] \notin {"send", "handle"}
  BY <1>3 DEF Oldest
<1>4. CASE pc'[q] = pc[q] /\ cur' = cur
  BY <1>2, <1>4, WaitsBack DEF Oldest
<1>5. CASE Send(q)
  BY <1>1, <1>2, <1>5, WaitsBack DEF Oldest, Send, Goto
<1>6. ASSUME NEW k \in Messages, ClaimForSending(q, k) PROVE Oldest(q)'
  <2>1. /\ pc[q] = "select" /\ k \in Selectable(q)
        /\ cur'[q] = k
    BY <1>1, <1>6 DEF ClaimForSending
  <2>2. ASSUME NEW m \in Messages, Waits(m), ChannelOf[m] = ChannelOf[k], m < k PROVE FALSE
    <3>1. m \in batch[q]
      BY <1>2, <2>1, <2>2 DEF Fetched, Selectable, Holds
    <3>2. k <= m
      BY <2>1, <2>2, <3>1 DEF Selectable
    <3>3. QED
      BY <1>1, <2>2, <3>2
  <2>3. \A m \in Messages : Waits(m) /\ ChannelOf[m] = ChannelOf[k] => k <= m
    BY <1>1, <2>2
  <2>4. QED
    BY <2>1, <2>3, WaitsBack DEF Oldest
<1>7. QED
  <2>1. ASSUME NEW n \in Messages, Enqueue(n) \/ Age(n) \/ Lapse(n)
        PROVE  pc' = pc /\ cur' = cur
    BY <2>1 DEF Enqueue, Age, Lapse, memory
  <2>2. ASSUME Consumer(q) \/ Fault(q), ~Send(q), ~ \E k \in Messages : ClaimForSending(q, k)
        PROVE  pc'[q] \notin {"send", "handle"} \/ (pc'[q] = pc[q] /\ cur' = cur)
    BY <1>1, <2>2
       DEF Consumer, Poll, Deliver, Settle, Fault, Start, ExpireStaleSignals, RecoverStaleSending,
           ResolveStuck, Fetch, EndBatch, SkipClaimed, MarkSent, FloodControl, OutcomeUnknown,
           MarkFailedPermanently, MarkFailure, Done, Goto, Crash, LoopError, Interrupt
  <2>3. QED
    BY <1>3, <1>4, <1>5, <1>6, <2>1, <2>2 DEF Next, Environment, OneDispatcher

(* What Telegram accepts is the row in hand, and only at a send.            *)
LEMMA AcceptedBySend ==
    ASSUME Next
    PROVE  \/ UNCHANGED <<accepted, latest>>
           \/ \E p \in Consumers : Send(p) /\ Accept(cur[p])
<1>1. ASSUME NEW n \in Messages, Enqueue(n) \/ Age(n) \/ Lapse(n)
      PROVE  UNCHANGED <<accepted, latest>>
  BY <1>1 DEF Enqueue, Age, Lapse, telegram
<1>2. ASSUME NEW p \in Consumers, Consumer(p) \/ Fault(p), ~Send(p)
      PROVE  UNCHANGED <<accepted, latest>>
  BY <1>2 DEF Consumer, Poll, Deliver, Settle, Fault, Start, ExpireStaleSignals,
              RecoverStaleSending, ResolveStuck, Fetch, EndBatch, ClaimForSending, SkipClaimed,
              MarkSent, FloodControl, OutcomeUnknown, MarkFailedPermanently, MarkFailure, Done,
              Crash, LoopError, Interrupt, telegram
<1>3. ASSUME NEW p \in Consumers, Send(p)
      PROVE  UNCHANGED <<accepted, latest>> \/ Accept(cur[p])
  BY <1>3 DEF Send, telegram
<1>4. QED
  BY <1>1, <1>2, <1>3 DEF Next, Environment

(* When Telegram accepts the row in hand nothing newer was accepted before. *)
LEMMA AcceptsNewest ==
    ASSUME TableInv, OrderInv, NEW p \in Consumers, Send(p)
    PROVE  /\ cur[p] \in Messages /\ ChannelOf[cur[p]] \in Channels
           /\ status[cur[p]] = "sending"
           /\ latest[ChannelOf[cur[p]]] <= cur[p]
<1>1. cur[p] \in Messages /\ status[cur[p]] = "sending"
  BY DEF Send, TableInv, TypeOK, Held
<1>2. Waits(cur[p]) /\ Behind(cur[p])
  BY <1>1 DEF OrderInv, Waits, Overdue
<1>3. QED
  BY <1>1, <1>2, ChannelAssumption DEF Behind

(* Rows that may be sent stay behind nothing newer.                         *)
LEMMA BehindStep ==
    ASSUME OneDispatcher, TableInv, OrderInv, Next, NEW m \in Messages
    PROVE  Behind(m)'
<1>1. /\ latest \in [Channels -> Messages \cup {NoMessage}]
      /\ accepted \in [Messages -> 0..Copies]
      /\ Messages \subseteq Nat /\ ChannelOf[m] \in Channels
      /\ Behind(m)
  BY MessagesAssumption, ChannelAssumption DEF TableInv, TypeOK, OrderInv
<1>2. CASE UNCHANGED <<accepted, latest>>
  BY <1>1, <1>2, WaitsBack DEF Behind
<1>3. ASSUME NEW p \in Consumers, Send(p), Accept(cur[p]) PROVE Behind(m)'
  <2>1. /\ cur[p] \in Messages /\ ChannelOf[cur[p]] \in Channels
        /\ latest[ChannelOf[cur[p]]] <= cur[p]
    BY <1>3, AcceptsNewest
  <2>2. /\ latest' = [latest EXCEPT ![ChannelOf[cur[p]]] = cur[p]]
        /\ accepted'[m] > 0 => m = cur[p] \/ accepted[m] > 0
    BY <1>1, <1>3, <2>1 DEF Accept
  <2>3. Waits(m) /\ ChannelOf[m] = ChannelOf[cur[p]] => cur[p] <= m
    BY <1>3 DEF Send, OrderInv, Oldest
  <2>4. CASE ChannelOf[m] = ChannelOf[cur[p]]
    <3>1. latest'[ChannelOf[m]] = cur[p]
      BY <1>1, <2>2, <2>4
    <3>2. Waits(m)' => latest'[ChannelOf[m]] <= m
      BY <2>3, <2>4, <3>1, WaitsBack
    <3>3. accepted'[m] > 0 => m <= latest'[ChannelOf[m]]
      <4>1. latest[ChannelOf[m]] \in Nat /\ m \in Nat /\ cur[p] \in Nat
        <5>1. latest[ChannelOf[m]] \in Messages \cup {NoMessage} /\ NoMessage \in Nat
          BY <1>1 DEF NoMessage
        <5>2. QED
          BY <1>1, <2>1, <5>1
      <4>2. accepted[m] > 0 => m <= latest[ChannelOf[m]]
        BY <1>1 DEF Behind
      <4>3. QED
        BY <2>1, <2>2, <2>4, <3>1, <4>1, <4>2
    <3>4. QED
      BY <3>2, <3>3 DEF Behind
  <2>5. CASE ChannelOf[m] # ChannelOf[cur[p]]
    <3>1. latest'[ChannelOf[m]] = latest[ChannelOf[m]] /\ m # cur[p]
      BY <1>1, <2>1, <2>2, <2>5
    <3>2. QED
      BY <1>1, <2>2, <3>1, WaitsBack DEF Behind
  <2>6. QED
    BY <2>4, <2>5
<1>4. QED
  BY <1>2, <1>3, AcceptedBySend

(* A claim finds no other row of its channel in doubt.                      *)
LEMMA DoubtStep ==
    ASSUME OneDispatcher, TableInv, OrderInv, Next, NEW m \in Messages, NEW n \in Messages
    PROVE  OneDoubt(m, n)'
<1>1. ASSUME NEW i \in Messages, NEW j \in Messages, NEW p \in Consumers,
             ClaimForSending(p, i), ChannelOf[i] = ChannelOf[j]
      PROVE  status[j] # "sending"
  <2>1. /\ i \in batch[p] /\ ChannelOf[i] \notin blocked[p] /\ pc[p] = "select"
        /\ Fetched(p)
    BY <1>1 DEF ClaimForSending, Selectable, OrderInv
  <2>2. ~Holds(p, j)
    BY <2>1 DEF Holds
  <2>3. QED
    BY <1>1, <2>1, <2>2 DEF Fetched
<1>2. ASSUME NEW p \in Consumers, NEW q \in Consumers, ClaimForSending(p, m), ClaimForSending(q, n)
      PROVE  m = n
  <2>1. cur \in [Consumers -> Messages \cup {NoMessage}] /\ p = q
    BY DEF TableInv, TypeOK, OneDispatcher
  <2>2. QED
    BY <1>2, <2>1 DEF ClaimForSending
<1>3. QED
  BY <1>1, <1>2, DoubtFromClaim DEF OrderInv, OneDoubt

(* The batch stays in order.                                                *)
LEMMA FetchedStep ==
    ASSUME OneDispatcher, TableInv, OrderInv, Next, NEW q \in Consumers
    PROVE  Fetched(q)'
<1>1. /\ pc \in [Consumers -> Phases]
      /\ cur \in [Consumers -> Messages \cup {NoMessage}]
      /\ batch \in [Consumers -> SUBSET Messages]
      /\ blocked \in [Consumers -> SUBSET Channels]
      /\ Messages \subseteq Nat /\ TypeOK
      /\ Batched(q) /\ Held(q) /\ Fetched(q)
  BY MessagesAssumption DEF TableInv, TypeOK, OrderInv
<1>2. SUFFICES ASSUME NEW m \in batch'[q], NEW n \in Messages,
                      ChannelOf[m] \notin blocked'[q], ChannelOf[n] = ChannelOf[m]
               PROVE  /\ status'[n] = "sending" => Holds(q, n)'
                      /\ n < m /\ Waits(n)' => n \in batch'[q] \/ Holds(q, n)'
  BY DEF Fetched
<1>3. pc'[q] \in {"select", "send", "handle"}
  BY BatchedStep DEF Batched
<1>4. CASE /\ UNCHANGED <<pc, batch, blocked, cur>>
           /\ ~ \E p \in Consumers, k \in Messages : ClaimForSending(p, k)
  <2>1. status'[n] = "sending" => status[n] = "sending"
    BY <1>4, DoubtFromClaim
  <2>2. QED
    BY <1>1, <1>2, <1>4, <2>1, WaitsBack DEF Fetched, Holds
<1>5. CASE Send(q)
  <2>1. status' = status /\ UNCHANGED <<batch, blocked, cur>> /\ pc'[q] = "handle"
    BY <1>1, <1>5 DEF Send, table, Goto
  <2>2. QED
    BY <1>1, <1>2, <1>5, <2>1, WaitsBack DEF Fetched, Holds, Send
<1>6. CASE Fetch(q)
  <2> DEFINE rows == {k \in Fetchable : Cardinality({j \in Fetchable : j < k}) < BatchSize}
  <2>1. batch'[q] = rows /\ status' = status /\ pc[q] = "fetch"
    BY <1>1, <1>6 DEF Fetch, table
  <2>2. m \in Messages /\ Claimable(m) /\ ChannelOf[n] \notin LockedChannels
    BY <1>2, <2>1 DEF Fetchable
  <2>3. status[n] # "sending"
    <3>1. Verdict(n)
      BY DEF TableInv
    <3>2. QED
      BY <2>2, <3>1 DEF LockedChannels, InDoubt, Live, Verdict, TypeOK
  <2>4. ASSUME n < m, Waits(n) PROVE n \in rows
    <3>1. status[n] = "pending"
      <4>1. status[n] # "absent"
        BY <1>1, <2>2, <2>4 DEF OrderInv, Inserted, Claimable
      <4>2. QED
        BY <2>3, <2>4, <4>1 DEF Waits
    <3>2. Verdict(n) /\ \A p \in Consumers : batch[p] = {}
      BY <1>1, <2>1 DEF TableInv, Batched, OneDispatcher
    <3>3. n \in Fetchable
      BY <1>1, <2>2, <2>4, <3>1, <3>2
         DEF Fetchable, Claimable, Live, Verdict, Waits, Overdue
    <3>4. Cardinality({j \in Fetchable : j < m}) < BatchSize
      BY <2>1
    <3>5. QED
      BY <2>2, <2>4, <3>3, <3>4, OldestFetched
  <2> HIDE DEF rows
  <2>5. QED
    BY <2>1, <2>3, <2>4, WaitsBack
<1>7. ASSUME NEW k \in Messages, ClaimForSending(q, k) \/ SkipClaimed(q, k)
      PROVE  /\ status'[n] = "sending" => Holds(q, n)'
             /\ n < m /\ Waits(n)' => n \in batch'[q] \/ Holds(q, n)'
  <2>1. /\ pc[q] = "select" /\ k \in batch[q]
        /\ batch'[q] = batch[q] \ {k} /\ blocked' = blocked
    BY <1>1, <1>7 DEF ClaimForSending, SkipClaimed, Selectable
  <2>2. Claimable(k)
    <3>1. status[k] = "pending" /\ Verdict(k)
      BY <1>1, <2>1 DEF Batched, TableInv
    <3>2. QED
      BY <1>1, <3>1 DEF Claimable, Live, Verdict, TypeOK
  <2>3. /\ pc'[q] = "send" /\ cur'[q] = k
        /\ status' = [status EXCEPT ![k] = "sending"]
    BY <1>1, <1>7, <2>2 DEF ClaimForSending, SkipClaimed, ClaimSucceeds, Goto
  <2>4. /\ status[n] # "sending"
        /\ n < m /\ Waits(n) => n \in batch[q]
    BY <1>1, <1>2, <2>1 DEF Fetched, Holds
  <2>5. QED
    BY <1>1, <2>1, <2>3, <2>4, WaitsBack DEF Holds, TypeOK
<1>8. CASE Settle(q)
  <2>1. /\ pc[q] = "handle" /\ cur[q] \in Messages
        /\ \A i \in Messages \ {cur[q]} : status'[i] = status[i]
        /\ batch' = batch /\ blocked[q] \subseteq blocked'[q]
        /\ \/ status'[cur[q]] \in {"sent", "failed"}
           \/ ChannelOf[cur[q]] \in blocked'[q]
    BY <1>1, <1>3, <1>8, SettleEffect
  <2>2. /\ status[n] = "sending" => n = cur[q]
        /\ n < m /\ Waits(n) => n \in batch[q] \/ n = cur[q]
    BY <1>1, <1>2, <2>1 DEF Fetched, Holds
  <2>3. n = cur[q] => status'[n] \in {"sent", "failed"}
    BY <1>2, <2>1
  <2>4. QED
    BY <2>1, <2>2, <2>3, WaitsBack DEF Waits
<1>9. QED
  <2>1. ASSUME NEW k \in Messages, Enqueue(k) \/ Age(k) \/ Lapse(k)
        PROVE  /\ UNCHANGED <<pc, batch, blocked, cur>>
               /\ ~ \E p \in Consumers, i \in Messages : ClaimForSending(p, i)
    BY <1>1, <2>1 DEF Enqueue, Age, Lapse, memory, ClaimForSending, Goto
  <2>2. ASSUME NEW p \in Consumers, Consumer(p) \/ Fault(p) PROVE p = q
    BY DEF OneDispatcher
  <2>3. ASSUME \/ Start(q) \/ ExpireStaleSignals(q) \/ RecoverStaleSending(q) \/ ResolveStuck(q)
               \/ EndBatch(q) \/ Fault(q)
        PROVE  FALSE
    BY <1>1, <1>3, <2>3 DEF Start, ExpireStaleSignals, RecoverStaleSending, ResolveStuck, EndBatch,
                            Fault, Crash, LoopError, Interrupt, Goto
  <2>4. QED
    BY <1>4, <1>5, <1>6, <1>7, <1>8, <2>1, <2>2, <2>3
       DEF Next, Environment, Consumer, Poll, Deliver

(* The second part is inductive relative to the first.                      *)
LEMMA OrderStep == ASSUME OneDispatcher PROVE TableInv /\ OrderInv /\ [Next]_vars => OrderInv'
<1> SUFFICES ASSUME TableInv, OrderInv, [Next]_vars PROVE OrderInv'
  OBVIOUS
<1>1. CASE Next
  <2>1. Inserted'
    BY <1>1, InsertedStep DEF OrderInv
  <2>2. QED
    BY <1>1, <2>1, FetchedStep, OldestStep, BehindStep, DoubtStep DEF OrderInv
<1>2. CASE UNCHANGED vars
  BY <1>2 DEF OrderInv, Fetched, Oldest, Inserted, Behind, OneDoubt, Waits, Overdue, Trading, Holds,
              vars, table, clock, telegram, memory
<1>3. QED
  BY <1>1, <1>2

(* Both parts hold throughout.                                              *)
LEMMA OrderHolds == ASSUME OneDispatcher PROVE Spec => [](TableInv /\ OrderInv)
<1>1. Init => TableInv /\ OrderInv
  BY TableInit, OrderInit
<1>2. TableInv /\ OrderInv /\ [Next]_vars => (TableInv /\ OrderInv)'
  BY TableStep, OrderStep
<1>3. QED
  BY <1>1, <1>2, PTL DEF Spec

(* P0.1(d): with one dispatcher at most one row of a channel is 'sending'   *)
(* at a time; the next one waits until its outcome is settled.              *)
THEOREM OneAtATime == ASSUME OneDispatcher PROVE Spec => []OneInDoubt
<1>1. TableInv /\ OrderInv => OneInDoubt
  BY DEF OrderInv, OneDoubt, OneInDoubt, InDoubt
<1>2. QED
  BY <1>1, OrderHolds, PTL

(* P1.3: with one dispatcher Telegram never accepts an older row of a       *)
(* channel after a newer one, over failures, retries, floods, crashes and   *)
(* recoveries.                                                              *)
THEOREM ChannelsInOrder == ASSUME OneDispatcher PROVE Spec => FifoPerChannel
<1>1. ASSUME TableInv, OrderInv, [Next]_vars, NEW c \in Channels PROVE latest'[c] >= latest[c]
  <2>1. latest \in [Channels -> Messages \cup {NoMessage}] /\ latest[c] \in Nat
    <3>1. latest \in [Channels -> Messages \cup {NoMessage}] /\ NoMessage \in Nat
      BY <1>1 DEF TableInv, TypeOK, NoMessage
    <3>2. QED
      BY <3>1, MessagesAssumption
  <2>2. CASE UNCHANGED latest
    BY <2>1, <2>2
  <2>3. ASSUME NEW p \in Consumers, Send(p), Accept(cur[p]) PROVE latest'[c] >= latest[c]
    BY <1>1, <2>1, <2>3, AcceptsNewest, MessagesAssumption DEF Accept
  <2>4. UNCHANGED latest \/ \E p \in Consumers : Send(p) /\ Accept(cur[p])
    BY <1>1, AcceptedBySend DEF vars, telegram
  <2>5. QED
    BY <2>2, <2>3, <2>4
<1>2. TableInv /\ OrderInv /\ [Next]_vars => [\A c \in Channels : latest'[c] >= latest[c]]_vars
  BY <1>1
<1>3. QED
  BY <1>2, OrderHolds, PTL DEF Spec, FifoPerChannel
-----------------------------------------------------------------------------
(* The refinement of SignalChannel.                                         *)

(* A row is closed for good.                                                *)
LEMMA ClosedStays ==
    ASSUME OneDispatcher, TableInv, Next, NEW m \in Messages, ~Live(m)
    PROVE  ~Live(m)' /\ status[m] # "absent"
<1>1. Verdict(m) /\ Verdict(m)'
  BY TableStep DEF TableInv
<1>2. status[m] \in SettledStatuses
  BY <1>1 DEF Verdict, Live, SettledStatuses
<1>3. status'[m] = status[m]
  BY <1>2, SettledStep
<1>4. QED
  BY <1>1, <1>2, <1>3 DEF Verdict, Live, SettledStatuses

(* The insertion of a trading row posts a signal; an info row is nothing to *)
(* the channel.                                                             *)
LEMMA EnqueuePosts ==
    ASSUME TypeOK, NEW k \in Messages, Enqueue(k)
    PROVE  [Signal!Next]_(Signal!vars)
<1>1. /\ status \in [Messages -> Statuses]
      /\ status[k] = "absent" /\ status' = [status EXCEPT ![k] = "pending"]
      /\ UNCHANGED <<sent, failed, accepted>>
  BY DEF TypeOK, Enqueue, telegram
<1>2. CASE Trading(k)
  <2>1. Signal!Post(k)
    BY <1>1, <1>2 DEF Signal!Post, Trading, Live
  <2>2. QED
    BY <1>2, <2>1 DEF Signal!Next
<1>3. CASE ~Trading(k)
  BY <1>1, <1>3 DEF Signal!vars, Trading, Live
<1>4. QED
  BY <1>2, <1>3

(* An accepted trading row is a signal taken, newer than all taken before.  *)
LEMMA AcceptTakes ==
    ASSUME IInv, TableInv, OrderInv, NEW p \in Consumers, Send(p), Accept(cur[p]),
           NEW m \in Messages, m = cur[p]
    PROVE  [Signal!Next]_(Signal!vars)
<1>1. /\ accepted \in [Messages -> 0..Copies]
      /\ ChannelOf[m] \in Channels
      /\ status[m] = "sending" /\ latest[ChannelOf[m]] <= m
      /\ Messages \subseteq Nat
  BY AcceptsNewest, MessagesAssumption DEF TableInv, TypeOK
<1>2. UNCHANGED <<status, sent, failed>>
  BY DEF Send, table
<1>3. CASE Trading(m)
  <2>1. accepted[m] = 0
    BY <1>1, <1>3 DEF IInv, SafeRow, Send
  <2>2. accepted' = [accepted EXCEPT ![m] = 1]
    <3>1. accepted[m] < Copies
      BY <2>1, BoundAssumption
    <3>2. QED
      BY <1>1, <2>1, <3>1 DEF Accept
  <2>3. Live(m)
    BY <1>1 DEF TableInv, Verdict, Live
  <2>4. ASSUME NEW n \in Messages, accepted[n] > 0, ChannelOf[n] = ChannelOf[m]
        PROVE  n < m
    <3>1. n <= latest[ChannelOf[n]] /\ n # m
      BY <2>1, <2>4 DEF OrderInv, Behind
    <3>2. latest[ChannelOf[n]] \in Messages \cup {NoMessage} /\ NoMessage \in Nat
      BY <1>1, <2>4 DEF TableInv, TypeOK, NoMessage
    <3>3. n \in Nat /\ m \in Nat /\ latest[ChannelOf[n]] \in Nat
      BY <1>1, <3>2
    <3>4. QED
      BY <1>1, <2>4, <3>1, <3>3
  <2>5. Signal!Take(m)
    BY <1>1, <1>2, <1>3, <2>1, <2>2, <2>3, <2>4 DEF Signal!Take, Trading, Live
  <2>6. QED
    BY <1>3, <2>5 DEF Signal!Next
<1>4. CASE ~Trading(m)
  BY <1>1, <1>2, <1>4 DEF Accept, Signal!vars, Trading, Live
<1>5. QED
  BY <1>3, <1>4

(* Every other step closes signals or is none of the channel's business.    *)
LEMMA OthersClose ==
    ASSUME OneDispatcher, TableInv, Next, UNCHANGED accepted,
           ~ \E k \in Messages : Enqueue(k)
    PROVE  [Signal!Next]_(Signal!vars)
<1> DEFINE closed == {m \in Messages : Trading(m) /\ ~Live(m)}
           ms == {m \in Messages : Trading(m) /\ Live(m) /\ ~Live(m)'}
<1>1. \A m \in Messages : status'[m] = "absent" <=> status[m] = "absent"
  BY OnlyEnqueued
<1>2. \A m \in Messages : ~Live(m) => ~Live(m)'
  BY ClosedStays
<1>3. \A m \in Messages : ~Live(m)' => status[m] # "absent"
  BY <1>1, TableStep DEF TableInv, Verdict, Live
<1>4. closed' = closed \cup ms
  BY <1>2 DEF Trading
<1>5. CASE ms = {}
  BY <1>1, <1>4, <1>5 DEF Signal!vars, Trading
<1>6. CASE ms # {}
  <2>1. Signal!Close(ms)
    BY <1>1, <1>3, <1>4, <1>6 DEF Signal!Close, Trading
  <2>2. ms \in SUBSET {m \in Messages : Trading(m)}
    OBVIOUS
  <2>3. QED
    BY <2>1, <2>2 DEF Signal!Next
<1>7. QED
  BY <1>5, <1>6

(* With one dispatcher the table, the dispatcher and Telegram implement, of *)
(* each trading channel, a queue that may lose a signal but never doubles,  *)
(* reorders or revives one.                                                 *)
THEOREM Refinement == ASSUME OneDispatcher PROVE Spec => ImplementsSignalChannel
<1>1. Init => Signal!Init
  BY DEF Init, Signal!Init, Live
<1>2. IInv /\ TableInv /\ OrderInv /\ [Next]_vars => [Signal!Next]_(Signal!vars)
  <2>1. SUFFICES ASSUME IInv, TableInv, OrderInv, [Next]_vars
                 PROVE  [Signal!Next]_(Signal!vars)
    OBVIOUS
  <2>2. CASE Next
    <3>1. CASE \E k \in Messages : Enqueue(k)
      BY <2>1, <3>1, EnqueuePosts DEF TableInv
    <3>2. CASE \E p \in Consumers : Send(p) /\ Accept(cur[p])
      <4>1. PICK p \in Consumers : Send(p) /\ Accept(cur[p])
        BY <3>2
      <4>2. cur[p] \in Messages
        BY <2>1, <4>1, AcceptsNewest
      <4>3. QED
        BY <2>1, <4>1, <4>2, AcceptTakes
    <3>3. CASE UNCHANGED accepted /\ ~ \E k \in Messages : Enqueue(k)
      BY <2>1, <2>2, <3>3, OthersClose
    <3>4. QED
      BY <2>2, <3>1, <3>2, <3>3, AcceptedBySend
  <2>3. CASE UNCHANGED vars
    BY <2>3 DEF vars, table, telegram, Signal!vars, Trading, Live
  <2>4. QED
    BY <2>1, <2>2, <2>3
<1>3. QED
  BY <1>1, <1>2, Safe, OrderHolds, PTL DEF Spec, ImplementsSignalChannel, Signal!Spec
=============================================================================
