---------------------------- MODULE OutboxProofs ----------------------------
(***************************************************************************)
(* Proofs about Outbox for any set of rows, channels and dispatchers: the  *)
(* type invariant, and that no trading row is accepted twice by Telegram.  *)
(***************************************************************************)
EXTENDS Outbox, TLAPS

(* Dispatcher p has claimed row m and has not yet handled the outcome.      *)
Holds(p, m) == pc[p] \in {"send", "handle"} /\ cur[p] = m

NeverAccepted == {"absent", "pending", "expired", "failed"}

(* What keeps a trading row safe.  A held row is 'sending', or was given up *)
(* by another dispatcher, so nobody can claim it again and it has one       *)
(* holder; before the send it has not been accepted, after it the reply     *)
(* tells; no recovery will reopen it; the table tells the truth.            *)
SafeRow(m) ==
    /\ \A p \in Consumers : Holds(p, m) => status[m] \in {"sending", "dead_letter"}
    /\ \A p, q \in Consumers : Holds(p, m) /\ Holds(q, m) => p = q
    /\ \A p \in Consumers : pc[p] = "send" /\ cur[p] = m => accepted[m] = 0
    /\ \A p \in Consumers : pc[p] = "handle" /\ cur[p] = m =>
            /\ reply[p] = "ok" => accepted[m] = 1
            /\ reply[p] \notin {"ok", "unknown"} => accepted[m] = 0
    /\ \A p \in Consumers : m \notin stuck[p].resend
    /\ accepted[m] \in {0, 1}
    /\ sent[m] => accepted[m] = 1
    /\ status[m] \in NeverAccepted /\ ~sent[m] => accepted[m] = 0

IInv == TypeOK /\ \A m \in Messages : Trading(m) => SafeRow(m)
-----------------------------------------------------------------------------
(* Every action keeps the types, among them that a dispatcher at "send" or  *)
(* "handle" has a row in hand.                                              *)
LEMMA TypeInit == Init => TypeOK
BY BoundAssumption, ChannelAssumption, ImageAssumption, MessagesAssumption
   DEF Init, TypeOK, Statuses, Phases, Replies, NoMessage

(* The orphaned rows a recovery notes down are rows of the table.           *)
LEMMA ReadStuckType ==
    ASSUME NEW p \in Consumers, NEW rows \in SUBSET Messages, TypeOK, ReadStuck(p, rows)
    PROVE  stuck' \in [Consumers -> [resend : SUBSET Messages, giveUp : SUBSET Messages]]
<1> DEFINE hopeless == {m \in rows : Trading(m) \/ attempts[m] >= MaxAttempts}
           entry == [resend |-> rows \ hopeless, giveUp |-> hopeless]
<1>1. entry \in [resend : SUBSET Messages, giveUp : SUBSET Messages]
  OBVIOUS
<1>2. stuck' = [stuck EXCEPT ![p] = entry]
  BY DEF ReadStuck
<1> HIDE DEF entry
<1>3. QED
  BY <1>1, <1>2 DEF TypeOK

(* Removing a chart keeps the chart directory a directory.                  *)
LEMMA DropChartType ==
    ASSUME NEW m, TypeOK, DropChart(m) PROVE chart' \in [Images -> BOOLEAN]
BY DEF TypeOK, DropChart

(* A failure blocks a channel.                                              *)
LEMMA BlockType ==
    ASSUME NEW p \in Consumers, TypeOK, pc[p] = "handle", Block(p)
    PROVE  blocked' \in [Consumers -> SUBSET Channels]
<1>1. ChannelOf[cur[p]] \in Channels
  BY ChannelAssumption DEF TypeOK
<1>2. QED
  BY <1>1 DEF TypeOK, Block

(* A step that forgets the row in hand.                                     *)
LEMMA DoneType ==
    ASSUME NEW p \in Consumers, NEW label \in Phases \ {"send", "handle"}, TypeOK,
           cur' = [cur EXCEPT ![p] = NoMessage],
           reply' = [reply EXCEPT ![p] = "ok"],
           Goto(p, label)
    PROVE  /\ cur' \in [Consumers -> Messages \cup {NoMessage}]
           /\ reply' \in [Consumers -> Replies]
           /\ pc' \in [Consumers -> Phases]
           /\ \A q \in Consumers : pc'[q] \in {"send", "handle"} => cur'[q] \in Messages
BY DEF TypeOK, Replies, Goto

(* Counting one more attempt.                                               *)
LEMMA AttemptType ==
    ASSUME NEW rows, NEW f \in [rows -> Nat], NEW m \in rows
    PROVE  [f EXCEPT ![m] = @ + 1] \in [rows -> Nat]
OBVIOUS

(* Telegram's books stay well-typed when it accepts a row.                  *)
LEMMA AcceptType ==
    ASSUME NEW m \in Messages, TypeOK, Accept(m)
    PROVE  /\ accepted' \in [Messages -> 0..Copies]
           /\ latest' \in [Channels -> Messages \cup {NoMessage}]
           /\ refused' \subseteq Messages
<1>1. accepted' \in [Messages -> 0..Copies]
  BY BoundAssumption DEF TypeOK, Accept
<1>2. latest' \in [Channels -> Messages \cup {NoMessage}]
  BY DEF TypeOK, Accept
<1>3. QED
  BY <1>1, <1>2 DEF TypeOK, Accept

LEMMA TypeStep == TypeOK /\ [Next]_vars => TypeOK'
<1> SUFFICES ASSUME TypeOK, [Next]_vars PROVE TypeOK'
  OBVIOUS
<1> USE ChannelAssumption, ImageAssumption, BoundAssumption, MessagesAssumption
        DEF TypeOK, Statuses, Phases, Replies, NoMessage, Goto
<1>1. ASSUME NEW m \in Messages, Enqueue(m) PROVE TypeOK'
  BY <1>1 DEF Enqueue, clock, telegram, memory
<1>2. ASSUME NEW m \in Messages, Age(m) \/ Lapse(m) PROVE TypeOK'
  BY <1>2 DEF Age, Lapse, table, telegram, memory
<1>3. ASSUME NEW p \in Consumers, Start(p) \/ RecoverStaleSending(p) PROVE TypeOK'
  <2>1. PICK rows \in SUBSET Messages : ReadStuck(p, rows)
    BY <1>3 DEF Start, RecoverStaleSending, Orphans
  <2>2. stuck' \in [Consumers -> [resend : SUBSET Messages, giveUp : SUBSET Messages]]
    BY <2>1, ReadStuckType
  <2>3. QED
    BY <1>3, <2>2, ZenonT(40) DEF Start, RecoverStaleSending, table, clock, telegram
<1>4. ASSUME NEW p \in Consumers, ExpireStaleSignals(p) PROVE TypeOK'
  BY <1>4 DEF ExpireStaleSignals, Stale, clock, telegram, memory
<1>5. ASSUME NEW p \in Consumers, ResolveStuck(p) PROVE TypeOK'
  BY <1>5 DEF ResolveStuck, telegram
<1>6. ASSUME NEW p \in Consumers, Fetch(p) PROVE TypeOK'
  <2> DEFINE rows == {m \in Fetchable : Cardinality({n \in Fetchable : n < m}) < BatchSize}
  <2>1. rows \in SUBSET Messages
    BY DEF Fetchable
  <2>2. batch' = [batch EXCEPT ![p] = rows]
    BY <1>6 DEF Fetch
  <2>3. pc' \in {[pc EXCEPT ![p] = "expire"], [pc EXCEPT ![p] = "select"]}
    BY <1>6 DEF Fetch
  <2> HIDE DEF rows
  <2>4. QED
    BY <1>6, <2>1, <2>2, <2>3 DEF Fetch, table, clock, telegram
<1>7. ASSUME NEW p \in Consumers, EndBatch(p) PROVE TypeOK'
  BY <1>7 DEF EndBatch, table, clock, telegram
<1>8. ASSUME NEW p \in Consumers, NEW m \in Messages, ClaimForSending(p, m) PROVE TypeOK'
  BY <1>8 DEF ClaimForSending, clock, telegram
<1>9. ASSUME NEW p \in Consumers, NEW m \in Messages, SkipClaimed(p, m) PROVE TypeOK'
  BY <1>9 DEF SkipClaimed, table, clock, telegram
<1>10. ASSUME NEW p \in Consumers, Send(p) PROVE TypeOK'
  <2>1. cur[p] \in Messages
    BY <1>10 DEF Send
  <2>2. \/ Accept(cur[p])
        \/ refused' = refused \cup {cur[p]} /\ UNCHANGED <<accepted, latest>>
        \/ UNCHANGED telegram
    BY <1>10 DEF Send
  <2>3. /\ accepted' \in [Messages -> 0..Copies]
        /\ latest' \in [Channels -> Messages \cup {NoMessage}]
        /\ refused' \subseteq Messages
    BY <2>1, <2>2, AcceptType DEF telegram
  <2>4. PICK r \in Replies : reply' = [reply EXCEPT ![p] = r]
    BY <1>10 DEF Send
  <2>5. QED
    BY <1>10, <2>1, <2>3, <2>4 DEF Send, table, clock
<1>11. ASSUME NEW p \in Consumers, MarkSent(p) PROVE TypeOK'
  BY <1>11 DEF MarkSent, Handling, Done, DropChart, StopClock, telegram
<1>12. ASSUME NEW p \in Consumers, FloodControl(p) PROVE TypeOK'
  BY <1>12 DEF FloodControl, Handling, Done, StopClock, telegram
<1>13. ASSUME NEW p \in Consumers, OutcomeUnknown(p) PROVE TypeOK'
  <2>1. blocked' \in [Consumers -> SUBSET Channels]
    BY <1>13, BlockType DEF OutcomeUnknown, Handling
  <2>2. attempts' \in [Messages -> Nat]
    <3>1. cur[p] \in Messages
      BY <1>13 DEF OutcomeUnknown, Handling
    <3>2. attempts' = [attempts EXCEPT ![cur[p]] = @ + 1]
      BY <1>13 DEF OutcomeUnknown
    <3>3. QED
      BY <3>1, <3>2, AttemptType
  <2>3. /\ cur' \in [Consumers -> Messages \cup {NoMessage}]
        /\ reply' \in [Consumers -> Replies]
        /\ pc' \in [Consumers -> Phases]
        /\ \A q \in Consumers : pc'[q] \in {"send", "handle"} => cur'[q] \in Messages
    BY <1>13, DoneType DEF OutcomeUnknown, Done
  <2>4. QED
    BY <1>13, <2>1, <2>2, <2>3 DEF OutcomeUnknown, Done, telegram
<1>14. ASSUME NEW p \in Consumers, MarkFailedPermanently(p) PROVE TypeOK'
  <2>1. blocked' \in [Consumers -> SUBSET Channels]
    BY <1>14, BlockType DEF MarkFailedPermanently, Handling
  <2>2. chart' \in [Images -> BOOLEAN]
    BY <1>14, DropChartType DEF MarkFailedPermanently
  <2>3. attempts' \in [Messages -> Nat]
    <3>1. cur[p] \in Messages
      BY <1>14 DEF MarkFailedPermanently, Handling
    <3>2. attempts' = [attempts EXCEPT ![cur[p]] = @ + 1]
      BY <1>14 DEF MarkFailedPermanently
    <3>3. QED
      BY <3>1, <3>2, AttemptType
  <2>4. /\ failed' \in [Messages -> BOOLEAN]
        /\ status' \in [Messages -> Statuses]
    BY <1>14 DEF MarkFailedPermanently
  <2>5. /\ cur' \in [Consumers -> Messages \cup {NoMessage}]
        /\ reply' \in [Consumers -> Replies]
        /\ pc' \in [Consumers -> Phases]
        /\ \A q \in Consumers : pc'[q] \in {"send", "handle"} => cur'[q] \in Messages
    BY <1>14, DoneType DEF MarkFailedPermanently, Done
  <2>6. lapsed' \subseteq Messages
    BY <1>14 DEF MarkFailedPermanently, StopClock
  <2>7. QED
    BY <1>14, <2>1, <2>2, <2>3, <2>4, <2>5, <2>6 DEF MarkFailedPermanently, Done, telegram
<1>15. ASSUME NEW p \in Consumers, MarkFailure(p) PROVE TypeOK'
  <2>1. blocked' \in [Consumers -> SUBSET Channels]
    BY <1>15, BlockType DEF MarkFailure, Handling
  <2>2. chart' \in [Images -> BOOLEAN]
    BY <1>15, DropChartType DEF MarkFailure
  <2>3. /\ attempts' \in [Messages -> Nat]
        /\ failed' \in [Messages -> BOOLEAN]
        /\ status' \in [Messages -> Statuses]
    <3>1. cur[p] \in Messages
      BY <1>15 DEF MarkFailure, Handling
    <3>2. attempts' = [attempts EXCEPT ![cur[p]] = @ + 1]
      BY <1>15 DEF MarkFailure
    <3>3. PICK final \in BOOLEAN : failed' = [failed EXCEPT ![cur[p]] = @ \/ final]
      BY <1>15 DEF MarkFailure
    <3>4. failed' \in [Messages -> BOOLEAN]
      BY <3>3
    <3>5. PICK verdict \in {"failed", "pending"} : status' = [status EXCEPT ![cur[p]] = verdict]
      BY <1>15 DEF MarkFailure
    <3>6. status' \in [Messages -> Statuses]
      BY <3>5
    <3>7. attempts' \in [Messages -> Nat]
      BY <3>1, <3>2, AttemptType
    <3>8. QED
      BY <3>4, <3>6, <3>7
  <2>4. QED
    BY <1>15, <2>1, <2>2, <2>3, ZenonT(40) DEF MarkFailure, Done, StopClock, telegram
<1>16. ASSUME NEW p \in Consumers, NEW label \in {"down", "expire"}, Interrupt(p, label)
       PROVE  TypeOK'
  <2>1. chart' \in [Images -> BOOLEAN]
    BY <1>16, DropChartType DEF Interrupt
  <2>2. stuck' \in [Consumers -> [resend : SUBSET Messages, giveUp : SUBSET Messages]]
    BY <1>16 DEF Interrupt
  <2>3. faults' \in 0..MaxFaults
    BY <1>16 DEF Interrupt
  <2>4. QED
    BY <1>16, <2>1, <2>2, <2>3, DoneType DEF Interrupt, table, clock, telegram
<1>17. CASE UNCHANGED vars
  BY <1>17 DEF vars, table, clock, telegram, memory
<1>18. QED
  <2>1. ASSUME NEW p \in Consumers, Consumer(p) PROVE TypeOK'
    BY <2>1, <1>3, <1>4, <1>5, <1>6, <1>7, <1>8, <1>9, <1>10, <1>11, <1>12, <1>13, <1>14, <1>15
       DEF Consumer, Poll, Deliver, Settle
  <2>2. ASSUME NEW p \in Consumers, Fault(p) PROVE TypeOK'
    BY <2>2, <1>16 DEF Fault, Crash, LoopError
  <2>3. QED
    BY <1>1, <1>2, <1>17, <2>1, <2>2 DEF Next, Environment

(* Type correctness of the dispatcher, its table and Telegram.              *)
THEOREM TypeCorrect == Spec => []TypeOK
<1>1. Init => TypeOK
  BY TypeInit
<1>2. TypeOK /\ [Next]_vars => TypeOK'
  BY TypeStep
<1>3. QED
  BY <1>1, <1>2, PTL DEF Spec
-----------------------------------------------------------------------------
(* The strengthened invariant.                                              *)
LEMMA SafeInit == Init => IInv
<1>1. ASSUME Init, NEW m \in Messages PROVE SafeRow(m)
  BY <1>1 DEF Init, SafeRow, Holds, NeverAccepted, Claimable, Live
<1>2. QED
  BY <1>1, TypeInit DEF IInv

(* A recovery never plans to send a trading row again.                      *)
LEMMA ReadStuckSafe ==
    ASSUME NEW p \in Consumers, NEW rows \in SUBSET Messages, NEW m \in Messages,
           TypeOK, Trading(m), SafeRow(m), ReadStuck(p, rows)
    PROVE  \A q \in Consumers : m \notin stuck'[q].resend
<1> DEFINE hopeless == {n \in rows : Trading(n) \/ attempts[n] >= MaxAttempts}
           entry == [resend |-> rows \ hopeless, giveUp |-> hopeless]
<1>1. m \notin entry.resend
  OBVIOUS
<1>2. stuck' = [stuck EXCEPT ![p] = entry]
  BY DEF ReadStuck
<1> HIDE DEF entry
<1>3. QED
  BY <1>1, <1>2 DEF TypeOK, SafeRow

LEMMA SafeStep == IInv /\ [Next]_vars => IInv'
<1> SUFFICES ASSUME IInv, [Next]_vars, NEW m \in Messages, Trading(m)
             PROVE  SafeRow(m)'
  BY TypeStep DEF IInv, Trading
<1>1. /\ status \in [Messages -> Statuses]
      /\ sent \in [Messages -> BOOLEAN]
      /\ failed \in [Messages -> BOOLEAN]
      /\ accepted \in [Messages -> 0..Copies]
      /\ pc \in [Consumers -> Phases]
      /\ cur \in [Consumers -> Messages \cup {NoMessage}]
      /\ \A p \in Consumers : pc[p] \in {"send", "handle"} => cur[p] \in Messages
      /\ reply \in [Consumers -> Replies]
      /\ DOMAIN stuck = Consumers
  BY DEF IInv, TypeOK
<1>2. SafeRow(m) /\ TypeOK
  BY DEF IInv
<1> USE DEF SafeRow, Holds, NeverAccepted, Claimable, Live, Goto
<1>3. ASSUME NEW n \in Messages, Enqueue(n) \/ Age(n) \/ Lapse(n) PROVE SafeRow(m)'
  BY <1>1, <1>2, <1>3 DEF Enqueue, Age, Lapse, table, telegram, memory
<1>4. ASSUME NEW p \in Consumers, Start(p) \/ RecoverStaleSending(p) PROVE SafeRow(m)'
  <2>1. PICK rows \in SUBSET Messages : ReadStuck(p, rows)
    BY <1>2, <1>4 DEF Start, RecoverStaleSending, Orphans, TypeOK
  <2>2. \A q \in Consumers : m \notin stuck'[q].resend
    BY <1>2, <2>1, ReadStuckSafe
  <2>3. QED
    BY <1>1, <1>2, <1>4, <2>2 DEF Start, RecoverStaleSending, table, telegram
<1>5. ASSUME NEW p \in Consumers, ExpireStaleSignals(p) PROVE SafeRow(m)'
  BY <1>1, <1>2, <1>5 DEF ExpireStaleSignals, Stale, telegram, memory
<1>6. ASSUME NEW p \in Consumers, ResolveStuck(p) PROVE SafeRow(m)'
  BY <1>1, <1>2, <1>6 DEF ResolveStuck, telegram
<1>7. ASSUME NEW p \in Consumers, Fetch(p) \/ EndBatch(p) PROVE SafeRow(m)'
  BY <1>1, <1>2, <1>7 DEF Fetch, EndBatch, table, telegram
<1>8. ASSUME NEW p \in Consumers, NEW n \in Messages, ClaimForSending(p, n) PROVE SafeRow(m)'
  BY <1>1, <1>2, <1>8 DEF ClaimForSending, ClaimSucceeds, telegram
<1>9. ASSUME NEW p \in Consumers, NEW n \in Messages, SkipClaimed(p, n) PROVE SafeRow(m)'
  BY <1>1, <1>2, <1>9 DEF SkipClaimed, table, telegram
<1>10. ASSUME NEW p \in Consumers, Send(p) PROVE SafeRow(m)'
  <2>1. /\ pc[p] = "send" /\ cur[p] \in Messages
        /\ pc' = [pc EXCEPT ![p] = "handle"]
        /\ UNCHANGED <<status, sent, failed, cur, stuck>>
    BY <1>1, <1>10 DEF Send, table
  <2>2. PICK r \in Replies :
            /\ reply' = [reply EXCEPT ![p] = r]
            /\ \/ r \in {"ok", "unknown"} /\ Accept(cur[p])
               \/ r # "ok" /\ UNCHANGED accepted
    BY <1>10 DEF Send, telegram
  <2>3. CASE cur[p] = m
    <3>1. accepted[m] = 0 /\ (\A q \in Consumers : Holds(q, m) => q = p)
      BY <1>2, <2>1, <2>3
    <3>2. /\ accepted'[m] \in {0, 1}
          /\ r = "ok" => accepted'[m] = 1
          /\ r \notin {"ok", "unknown"} => accepted'[m] = 0
      BY <1>1, <2>2, <2>3, <3>1, BoundAssumption DEF Accept
    <3>3. reply'[p] = r
      BY <1>1, <2>2
    <3>4. \A q \in Consumers : Holds(q, m)' => q = p
      BY <1>1, <2>1, <3>1
    <3>5. /\ pc'[p] = "handle" /\ cur'[p] = m
          /\ status'[m] \in {"sending", "dead_letter"}
          /\ \A q \in Consumers : m \notin stuck'[q].resend
          /\ sent'[m] = FALSE
      BY <1>1, <1>2, <2>1, <2>3, <3>1
    <3>6. QED
      BY <3>2, <3>3, <3>4, <3>5
  <2>4. CASE cur[p] # m
    <3>1. accepted'[m] = accepted[m]
      BY <1>1, <2>1, <2>2, <2>4 DEF Accept
    <3>2. QED
      BY <1>1, <1>2, <2>1, <2>2, <2>4, <3>1
  <2>5. QED
    BY <2>3, <2>4
<1>11. ASSUME NEW p \in Consumers, MarkSent(p) PROVE SafeRow(m)'
  BY <1>1, <1>2, <1>11 DEF MarkSent, Handling, Done, telegram
<1>12. ASSUME NEW p \in Consumers, FloodControl(p) PROVE SafeRow(m)'
  BY <1>1, <1>2, <1>12 DEF FloodControl, Handling, Done, telegram
<1>13. ASSUME NEW p \in Consumers, OutcomeUnknown(p) PROVE SafeRow(m)'
  BY <1>1, <1>2, <1>13 DEF OutcomeUnknown, Done, telegram
<1>14. ASSUME NEW p \in Consumers, MarkFailedPermanently(p) PROVE SafeRow(m)'
  BY <1>1, <1>2, <1>14 DEF MarkFailedPermanently, Handling, Done, telegram
<1>15. ASSUME NEW p \in Consumers, MarkFailure(p) PROVE SafeRow(m)'
  BY <1>1, <1>2, <1>15 DEF MarkFailure, Handling, Done, telegram
<1>16. ASSUME NEW p \in Consumers, NEW label \in {"down", "expire"}, Interrupt(p, label)
       PROVE  SafeRow(m)'
  BY <1>1, <1>2, <1>16 DEF Interrupt, table, telegram
<1>17. CASE UNCHANGED vars
  BY <1>2, <1>17 DEF vars, table, telegram, memory
<1>18. QED
  <2>1. ASSUME NEW p \in Consumers, Consumer(p) PROVE SafeRow(m)'
    BY <2>1, <1>4, <1>5, <1>6, <1>7, <1>8, <1>9, <1>10, <1>11, <1>12, <1>13, <1>14, <1>15
       DEF Consumer, Poll, Deliver, Settle
  <2>2. ASSUME NEW p \in Consumers, Fault(p) PROVE SafeRow(m)'
    BY <2>2, <1>16 DEF Fault, Crash, LoopError
  <2>3. QED
    BY <1>3, <1>17, <2>1, <2>2 DEF Next, Environment

LEMMA Safe == Spec => []IInv
<1>1. Init => IInv
  BY SafeInit
<1>2. IInv /\ [Next]_vars => IInv'
  BY SafeStep
<1>3. QED
  BY <1>1, <1>2, PTL DEF Spec

(* P0.1 for any number of rows, channels, dispatchers and faults: Telegram  *)
(* accepts a row of a trading channel at most once.                         *)
THEOREM TradedOnce == Spec => []AtMostOnce
<1>1. IInv => AtMostOnce
  BY DEF IInv, SafeRow, AtMostOnce
<1>2. QED
  BY <1>1, Safe, PTL

(* What the table says of a trading row is true: 'sent' was accepted,       *)
(* 'pending', 'expired' and 'failed' were not.                              *)
THEOREM LedgerHolds == Spec => []LedgerTruth
<1>1. IInv => LedgerTruth
  BY DEF IInv, SafeRow, NeverAccepted, LedgerTruth
<1>2. QED
  BY <1>1, Safe, PTL
=============================================================================
