--------------------------- MODULE WatchdogProofs ---------------------------
(***************************************************************************)
(* Proofs about Watchdog for any number of watchdogs and bots, kills,      *)
(* crashes and orders: the type invariant, and, where the mutex works,     *)
(* that one watchdog holds it and that no bot ever runs twice.             *)
(***************************************************************************)
EXTENDS Watchdog, FiniteSetTheorems, TLAPS

(* The watchdogs that may have children.                                   *)
Tending == {"stagger", "loop", "stopping"}

Holder == \A k \in Dogs : pc[k] \in Working => mutex = {k}

(* Who is not past the sweep has no child; while somebody is, every        *)
(* process of the fleet is a child; otherwise a bot has one stray at most. *)
OnlyTendingHave == \A k \in Dogs : pc[k] \notin Tending => child[k] = Childless
FewStrays ==
    /\ \A b \in Bots : strays[b] \in {0, 1}
    /\ (\E k \in Dogs : pc[k] \in Tending) => \A b \in Bots : strays[b] = 0

(* A process that is not entered yet belongs to the bot at hand; what is   *)
(* about to be launched does not run; bots ahead of the staggered start    *)
(* have no process.                                                        *)
Hand(k) ==
    /\ pc[k] \in {"stagger", "loop"} =>
         /\ \A b \in Bots : child[k][b] \in {"born", "stillborn"} =>
              op[k] = "enter" /\ b = Bot(k)
         /\ op[k] = "launch" => child[k][Bot(k)] \notin Living
    /\ pc[k] = "stagger" =>
         \A i \in DOMAIN Fleet :
            i > at[k] \/ (i = at[k] /\ op[k] # "enter") => child[k][Fleet[i]] = "none"

Safe == Holder /\ OnlyTendingHave /\ FewStrays /\ \A k \in Dogs : Hand(k)
IInv == TypeOK /\ Safe
-----------------------------------------------------------------------------
LEMMA FleetFacts ==
    /\ Len(Fleet) \in Nat /\ Len(Fleet) >= 1 /\ DOMAIN Fleet = 1 .. Len(Fleet)
    /\ \A i \in DOMAIN Fleet : Fleet[i] \in Bots
    /\ \A i, j \in DOMAIN Fleet : Fleet[i] = Fleet[j] => i = j
<1>1. Fleet \in Seq(Bots) /\ Fleet # << >>
  BY FleetAssumption
<1>2. Len(Fleet) \in Nat /\ Len(Fleet) >= 1 /\ DOMAIN Fleet = 1 .. Len(Fleet)
  BY <1>1
<1>3. QED
  BY <1>2, FleetAssumption DEF Bots

(* Processes counted over watchdogs.                                       *)
LEMMA DogsCounted ==
    ASSUME NEW S \in SUBSET Dogs
    PROVE  /\ IsFiniteSet(S) /\ Cardinality(S) \in Nat
           /\ S = {} => Cardinality(S) = 0
           /\ (\A j, k \in S : j = k) => Cardinality(S) <= 1
<1>1. IsFiniteSet(S)
  BY DogAssumption, FS_Subset
<1>2. Cardinality(S) \in Nat
  BY <1>1, FS_CardinalityType
<1>3. S = {} => Cardinality(S) = 0
  BY FS_EmptySet
<1>4. ASSUME \A j, k \in S : j = k, S # {} PROVE Cardinality(S) = 1
  <2>1. PICK k \in S : TRUE
    BY <1>4
  <2>2. S = {k}
    BY <1>4, <2>1
  <2>3. QED
    BY <2>2, FS_Singleton
<1>5. QED
  BY <1>1, <1>2, <1>3, <1>4

LEMMA OrphanedType ==
    ASSUME TypeOK, NEW ks \in SUBSET Dogs
    PROVE  Orphaned(ks) \in [Bots -> Nat]
<1>1. ASSUME NEW b \in Bots
      PROVE  strays[b] + Cardinality({k \in ks : child[k][b] \in Living}) \in Nat
  <2>1. {k \in ks : child[k][b] \in Living} \in SUBSET Dogs
    OBVIOUS
  <2>2. Cardinality({k \in ks : child[k][b] \in Living}) \in Nat
    BY <2>1, DogsCounted
  <2>3. QED
    BY <2>2 DEF TypeOK
<1>2. QED
  BY <1>1 DEF Orphaned

LEMMA BotAtHand == ASSUME TypeOK, NEW k \in Dogs PROVE Bot(k) \in Bots
BY FleetFacts DEF TypeOK, Bot
-----------------------------------------------------------------------------
(* The type invariant.                                                     *)

Known == {"none", "up", "down", "born", "stillborn"}
ChildTable == [Dogs -> [Bots -> Known]]

LEMMA AdvanceTypes ==
    ASSUME TypeOK, NEW k \in Dogs, Advance(k)
    PROVE  /\ op' \in [Dogs -> {"look", "launch", "enter", "beat"}]
           /\ at' \in [Dogs -> DOMAIN Fleet]
           /\ pc' \in [Dogs -> {"off", "lock", "retry", "dead"} \cup Working]
<1>1. op' \in [Dogs -> {"look", "launch", "enter", "beat"}]
  BY DEF TypeOK, Advance
<1>2. at' \in [Dogs -> DOMAIN Fleet]
  <2>1. (IF at[k] < Len(Fleet) THEN at[k] + 1 ELSE 1) \in DOMAIN Fleet
    BY FleetFacts DEF TypeOK
  <2>2. QED
    BY <2>1 DEF TypeOK, Advance
<1>3. pc' \in [Dogs -> {"off", "lock", "retry", "dead"} \cup Working]
  BY DEF TypeOK, Advance, Working
<1>4. QED
  BY <1>1, <1>2, <1>3

LEMMA ChildSet ==
    ASSUME TypeOK, NEW k \in Dogs, NEW b \in Bots, NEW v \in Known
    PROVE  [child EXCEPT ![k][b] = v] \in ChildTable
BY DEF TypeOK, ChildTable, Known

LEMMA ChildlessSet ==
    ASSUME TypeOK, NEW ks \in SUBSET Dogs
    PROVE  [j \in Dogs |-> IF j \in ks THEN Childless ELSE child[j]] \in ChildTable
BY DEF TypeOK, ChildTable, Known, Childless

LEMMA BackoffTypes ==
    ASSUME TypeOK, NEW k \in Dogs, Backoff(k)
    PROVE  /\ crashes' \in [Dogs -> [Bots -> 0 .. 2]]
           /\ op' \in [Dogs -> {"look", "launch", "enter", "beat"}]
           /\ deadline' \in [Dogs -> [Bots -> {"none", "pending", "due"}]]
<1>1. Bot(k) \in Bots
  BY BotAtHand
<1>2. crashes' \in [Dogs -> [Bots -> 0 .. 2]]
  BY <1>1 DEF TypeOK, Backoff
<1>3. op' \in [Dogs -> {"look", "launch", "enter", "beat"}]
  BY DEF TypeOK, Backoff
<1>4. deadline' \in [Dogs -> [Bots -> {"none", "pending", "due"}]]
  <2>1. CASE UNCHANGED deadline
    BY <2>1 DEF TypeOK
  <2>2. CASE NoDeadline(k)
    BY <1>1, <2>2 DEF TypeOK, NoDeadline
  <2>3. CASE deadline' = [deadline EXCEPT ![k][Bot(k)] = "pending"]
    BY <1>1, <2>3 DEF TypeOK
  <2>4. QED
    BY <2>1, <2>2, <2>3 DEF Backoff
<1>5. QED
  BY <1>2, <1>3, <1>4

LEMMA InitTypes == Init => TypeOK
BY FleetFacts DEF Init, TypeOK, Childless

LEMMA StartTypes ==
    ASSUME TypeOK, NEW k \in Dogs,
           \/ StartDog(k) \/ TakeMutex(k) \/ ReapWatchdogs(k) \/ RetryMutex(k)
           \/ Sweep(k) \/ Stagger(k)
    PROVE  TypeOK'
<1> USE FleetFacts DEF TypeOK, markers, loopvars, counters, Working
<1>1. CASE StartDog(k)
  BY <1>1 DEF StartDog
<1>2. CASE TakeMutex(k)
  BY <1>2 DEF TakeMutex
<1>3. CASE ReapWatchdogs(k)
  <2> DEFINE others == {j \in Dogs \ {k} : Alive(j)}
  <2>1. strays' \in [Bots -> Nat]
    <3>1. Orphaned(others) \in [Bots -> Nat]
      BY OrphanedType
    <3>2. QED
      BY <1>3, <3>1 DEF ReapWatchdogs
  <2>2. child' \in ChildTable
    <3>1. child' = child \/ child' = [j \in Dogs |-> IF j \in others THEN Childless ELSE child[j]]
      BY <1>3 DEF ReapWatchdogs
    <3>2. child \in ChildTable
      BY DEF ChildTable, Known
    <3>3. others \in SUBSET Dogs
      OBVIOUS
    <3> HIDE DEF others
    <3>4. QED
      BY <3>1, <3>2, <3>3, ChildlessSet
  <2>3. pc' \in [Dogs -> {"off", "lock", "retry", "dead"} \cup Working]
    BY <1>3 DEF ReapWatchdogs
  <2>4. QED
    BY <1>3, <2>1, <2>2, <2>3 DEF ReapWatchdogs, ChildTable, Known
<1>4. CASE RetryMutex(k)
  BY <1>4 DEF RetryMutex
<1>5. CASE Sweep(k)
  <2>1. child' \in [Dogs -> [Bots -> {"none", "up", "down", "born", "stillborn"}]]
    BY <1>5 DEF Sweep
  <2>2. strays' \in [Bots -> Nat]
    BY <1>5 DEF Sweep
  <2>3. QED
    BY <1>5, <2>1, <2>2 DEF Sweep
<1>6. CASE Stagger(k)
  <2>1. CASE Advance(k)
    BY <1>6, <2>1, AdvanceTypes DEF Stagger
  <2>2. CASE ~Advance(k)
    BY <1>6, <2>2 DEF Stagger
  <2>3. QED
    BY <2>1, <2>2
<1>7. QED
  BY <1>1, <1>2, <1>3, <1>4, <1>5, <1>6

LEMMA SupervisionTypes ==
    ASSUME TypeOK, NEW k \in Dogs,
           Launch(k) \/ Enter(k) \/ Supervise(k) \/ Beat(k) \/ RestartHung(k)
    PROVE  TypeOK'
<1> USE BotAtHand DEF markers, loopvars, counters
<1>1. \A v \in Known : [child EXCEPT ![k][Bot(k)] = v] \in ChildTable
  BY ChildSet
<1>2. Forget(k) => child' \in ChildTable
  BY <1>1 DEF Forget, Known
<1>3. NoDeadline(k) => deadline' \in [Dogs -> [Bots -> {"none", "pending", "due"}]]
  BY DEF TypeOK, NoDeadline
<1>4. \A what \in {"look", "launch", "enter", "beat"} :
        Act(k, what) => op' \in [Dogs -> {"look", "launch", "enter", "beat"}]
  BY DEF TypeOK, Act
<1>5. UNCHANGED child => child' \in ChildTable
  BY DEF TypeOK, ChildTable, Known
<1>6. CASE Launch(k)
  <2>1. strays' \in [Bots -> Nat]
    BY <1>6 DEF TypeOK, Launch
  <2>2. child' \in ChildTable
    BY <1>1, <1>6 DEF Launch, Known
  <2>3. QED
    BY <1>6, <2>1, <2>2 DEF TypeOK, Launch, ChildTable, Known
<1>7. CASE Enter(k)
  <2>1. child' \in ChildTable
    <3>1. child' = [child EXCEPT ![k][Bot(k)] = "up"] \/ child' = [child EXCEPT ![k][Bot(k)] = "down"]
      BY <1>7 DEF Enter
    <3>2. QED
      BY <1>1, <3>1 DEF Known
  <2>2. CASE Advance(k)
    BY <1>7, <2>1, <2>2, AdvanceTypes DEF Enter, TypeOK, ChildTable, Known
  <2>3. CASE ~Advance(k)
    <3>1. op' \in [Dogs -> {"look", "launch", "enter", "beat"}]
      BY <1>7, <2>3 DEF Enter, TypeOK
    <3>2. QED
      BY <1>7, <2>1, <2>3, <3>1 DEF Enter, TypeOK, ChildTable, Known
  <2>4. QED
    BY <2>2, <2>3
<1>8. CASE Supervise(k)
  <2>1. child' \in ChildTable
    BY <1>2, <1>5, <1>8
       DEF Supervise, StopParked, ObeyRestart, AwaitDeadline, StartMissing, NoticeCrash, Recycle,
           LeaveRunning
  <2>2. op' \in [Dogs -> {"look", "launch", "enter", "beat"}]
    BY <1>4, <1>8, BackoffTypes
       DEF Supervise, StopParked, ObeyRestart, AwaitDeadline, StartMissing, NoticeCrash, Recycle,
           LeaveRunning
  <2>3. /\ deadline' \in [Dogs -> [Bots -> {"none", "pending", "due"}]]
        /\ crashes' \in [Dogs -> [Bots -> 0 .. 2]]
    BY <1>3, <1>8, BackoffTypes
       DEF Supervise, StopParked, ObeyRestart, AwaitDeadline, StartMissing, NoticeCrash, Recycle,
           LeaveRunning, TypeOK
  <2>4. /\ asked' \subseteq Bots
        /\ UNCHANGED <<parked, pc, mutex, at, strays, stale, counters>>
    BY <1>8
       DEF Supervise, StopParked, ObeyRestart, AwaitDeadline, StartMissing, NoticeCrash, Recycle,
           LeaveRunning, Looking, Unasked, TypeOK
  <2>5. QED
    BY <2>1, <2>2, <2>3, <2>4 DEF TypeOK, ChildTable, Known
<1>9. CASE Beat(k)
  BY <1>9, AdvanceTypes DEF Beat, TypeOK
<1>10. CASE RestartHung(k)
  <2>1. falls' \in Nat
    BY <1>10 DEF RestartHung, TypeOK
  <2>2. QED
    BY <1>2, <1>10, <2>1, BackoffTypes DEF RestartHung, TypeOK, ChildTable, Known
<1>11. QED
  BY <1>6, <1>7, <1>8, <1>9, <1>10

LEMMA EndTypes ==
    ASSUME TypeOK, NEW k \in Dogs, Signal(k) \/ ShutDown(k) \/ Die(k)
    PROVE  TypeOK'
<1> USE DEF markers, loopvars, counters
<1>1. Orphaned({k}) \in [Bots -> Nat]
  BY OrphanedType
<1>2. [child EXCEPT ![k] = Childless] \in ChildTable
  BY DEF TypeOK, ChildTable, Known, Childless
<1>3. \A p \in {"dead", "stopping"} :
        [pc EXCEPT ![k] = p] \in [Dogs -> {"off", "lock", "retry", "dead"} \cup Working]
  BY DEF TypeOK, Working
<1>4. kills' \in Nat
  BY DEF TypeOK, Signal, ShutDown, Die
<1>5. CASE Signal(k)
  BY <1>3, <1>4, <1>5 DEF Signal, TypeOK
<1>6. CASE ShutDown(k)
  <2>1. ASSUME NEW b \in Bots, child' = [child EXCEPT ![k][b] = "none"], UNCHANGED <<pc, mutex, strays>>
        PROVE  TypeOK'
    <3>1. child' \in ChildTable
      BY <2>1, ChildSet DEF Known
    <3>2. QED
      BY <1>6, <2>1, <3>1 DEF ShutDown, TypeOK, ChildTable, Known
  <2>2. CASE /\ pc' = [pc EXCEPT ![k] = "dead"]
             /\ mutex' = mutex \ {k}
             /\ strays' = Orphaned({k})
             /\ child' = [child EXCEPT ![k] = Childless]
    BY <1>1, <1>2, <1>3, <1>6, <2>2 DEF ShutDown, TypeOK, ChildTable, Known
  <2>3. QED
    BY <1>6, <2>1, <2>2 DEF ShutDown
<1>7. CASE Die(k)
  BY <1>1, <1>2, <1>3, <1>4, <1>7 DEF Die, TypeOK, ChildTable, Known
<1>8. QED
  BY <1>5, <1>6, <1>7

LEMMA OutsideTypes ==
    ASSUME TypeOK, NEW b \in Bots,
           \/ Crash(b) \/ Park(b) \/ Unpark(b) \/ RequestRestart(b)
           \/ \E k \in Dogs : Expire(k, b) \/ HourPasses(k, b)
    PROVE  TypeOK'
<1> USE DEF markers, loopvars, counters
<1>1. CASE Crash(b)
  <2>1. strays' \in [Bots -> Nat] /\ falls' \in Nat
    BY <1>1 DEF Crash, TypeOK
  <2>2. child' \in ChildTable
    <3>1. CASE UNCHANGED child
      BY <3>1 DEF TypeOK, ChildTable, Known
    <3>2. ASSUME NEW k \in Dogs,
                 child' = [child EXCEPT ![k][b] = IF @ = "up" THEN "down" ELSE "stillborn"]
          PROVE  child' \in ChildTable
      <4>1. child' = [child EXCEPT ![k][b] = "down"] \/ child' = [child EXCEPT ![k][b] = "stillborn"]
        BY <3>2
      <4>2. QED
        BY <4>1, ChildSet DEF Known
    <3>3. QED
      BY <1>1, <3>1, <3>2 DEF Crash
  <2>3. QED
    BY <1>1, <2>1, <2>2 DEF Crash, TypeOK, ChildTable, Known
<1>2. CASE Park(b) \/ Unpark(b) \/ RequestRestart(b)
  BY <1>2 DEF Park, Unpark, RequestRestart, Order, TypeOK
<1>3. ASSUME NEW k \in Dogs, Expire(k, b) PROVE TypeOK'
  <2>1. deadline' \in [Dogs -> [Bots -> {"none", "pending", "due"}]]
    BY <1>3 DEF Expire, TypeOK
  <2>2. QED
    BY <1>3, <2>1 DEF Expire, TypeOK
<1>4. ASSUME NEW k \in Dogs, HourPasses(k, b) PROVE TypeOK'
  <2>1. crashes' \in [Dogs -> [Bots -> 0 .. 2]]
    BY <1>4 DEF HourPasses, TypeOK
  <2>2. QED
    BY <1>4, <2>1 DEF HourPasses, TypeOK
<1>5. QED
  BY <1>1, <1>2, <1>3, <1>4

LEMMA TypesKept == TypeOK /\ [Next]_vars => TypeOK'
<1> SUFFICES ASSUME TypeOK, [Next]_vars PROVE TypeOK'
  OBVIOUS
<1>1. CASE UNCHANGED vars
  BY <1>1 DEF TypeOK, vars, markers, loopvars, counters
<1>2. CASE Next
  BY <1>2, StartTypes, SupervisionTypes, EndTypes, OutsideTypes DEF Next, Outside, Work
<1>3. QED
  BY <1>1, <1>2

(* Every variable of the watchdog keeps to its type.                       *)
THEOREM TypeCorrect == Spec => []TypeOK
BY InitTypes, TypesKept, PTL DEF Spec
-----------------------------------------------------------------------------
(* One watchdog past the mutex, one fleet.                                 *)

LEMMA InitSafe == Init => IInv
<1> SUFFICES ASSUME Init PROVE IInv
  OBVIOUS
<1>1. Safe
  BY DEF Init, Safe, Holder, OnlyTendingHave, FewStrays, Hand, Working, Tending, Childless
<1>2. QED
  BY <1>1, InitTypes DEF IInv

LEMMA OneTends ==
    ASSUME IInv
    PROVE  \A j, k \in Dogs : pc[j] \in Working /\ pc[k] \in Working => j = k
BY DEF IInv, Safe, Holder

(* What dead watchdogs leave behind: a stray of each bot at most, none if  *)
(* none of them had a child.                                               *)
LEMMA OrphanedFew ==
    ASSUME IInv, NEW ks \in SUBSET Dogs
    PROVE  /\ \A b \in Bots : Orphaned(ks)[b] \in {0, 1}
           /\ (\A k \in ks : pc[k] \notin Tending) => \A b \in Bots : Orphaned(ks)[b] = strays[b]
<1>1. ASSUME NEW b \in Bots
      PROVE  /\ Orphaned(ks)[b] \in {0, 1}
             /\ (\A k \in ks : pc[k] \notin Tending) => Orphaned(ks)[b] = strays[b]
  <2> DEFINE S == {k \in ks : child[k][b] \in Living}
  <2>1. Orphaned(ks)[b] = strays[b] + Cardinality(S)
    BY DEF Orphaned
  <2>2. S \in SUBSET Dogs
    OBVIOUS
  <2>3. \A k \in S : pc[k] \in Tending
    BY DEF IInv, Safe, OnlyTendingHave, Childless, Living
  <2>4. \A j, k \in S : j = k
    BY <2>2, <2>3, OneTends DEF Tending, Working
  <2>5. strays[b] \in {0, 1} /\ (S # {} => strays[b] = 0)
    BY <2>2, <2>3 DEF IInv, Safe, FewStrays
  <2>6. (\A k \in ks : pc[k] \notin Tending) => S = {}
    BY <2>3
  <2>7. Cardinality(S) \in Nat /\ Cardinality(S) <= 1 /\ (S = {} => Cardinality(S) = 0)
    BY <2>2, <2>4, DogsCounted
  <2> HIDE DEF S
  <2>8. QED
    BY <2>1, <2>5, <2>6, <2>7
<1>2. QED
  BY <1>1

(* A step that concerns none of this.                                      *)
LEMMA FrameSafe ==
    ASSUME IInv, UNCHANGED <<pc, mutex, at, op, child, strays>>
    PROVE  Safe'
BY DEF IInv, Safe, Holder, OnlyTendingHave, FewStrays, Hand, Bot

(* Before the sweep: a watchdog takes the mutex only from nobody.          *)
LEMMA StartSafe ==
    ASSUME HasMutex, IInv, NEW k \in Dogs, StartDog(k) \/ TakeMutex(k) \/ RetryMutex(k)
    PROVE  Safe'
<1> USE DEF IInv, Safe
<1>1. UNCHANGED <<at, op, child, strays>> /\ pc[k] \in {"off", "lock", "retry"}
  BY DEF StartDog, TakeMutex, RetryMutex, loopvars
<1>2. \E q \in {"lock", "sweep", "dead"} :
        /\ pc' = [pc EXCEPT ![k] = q]
        /\ IF q = "sweep" THEN mutex = {} /\ mutex' = {k} ELSE mutex' = mutex
  BY DEF StartDog, TakeMutex, RetryMutex
<1>3. PICK q \in {"lock", "sweep", "dead"} :
        /\ pc' = [pc EXCEPT ![k] = q]
        /\ IF q = "sweep" THEN mutex = {} /\ mutex' = {k} ELSE mutex' = mutex
  BY <1>2
<1>4. pc'[k] = q /\ \A j \in Dogs \ {k} : pc'[j] = pc[j]
  BY <1>3 DEF TypeOK
<1>5. Holder'
  BY <1>3, <1>4 DEF Holder, Working
<1>6. OnlyTendingHave' /\ FewStrays'
  BY <1>1, <1>4 DEF OnlyTendingHave, FewStrays, Tending
<1>7. \A j \in Dogs : Hand(j)'
  BY <1>1, <1>4 DEF Hand, Bot
<1>8. QED
  BY <1>5, <1>6, <1>7

(* Watchdogs die and leave strays.                                         *)
LEMMA DeathSafe ==
    ASSUME IInv, NEW ks \in SUBSET Dogs,
           \A j \in ks : pc'[j] = "dead",
           \A j \in Dogs \ ks : pc'[j] = pc[j] \/ (pc[j] = "lock" /\ pc'[j] = "retry"),
           mutex' = mutex \ ks, strays' = Orphaned(ks),
           child' = [j \in Dogs |-> IF j \in ks THEN Childless ELSE child[j]],
           UNCHANGED <<at, op>>
    PROVE  Safe'
<1> USE DEF IInv, Safe
<1>1. Holder'
  BY DEF Holder, Working
<1>2. OnlyTendingHave'
  BY DEF OnlyTendingHave, Tending
<1>3. FewStrays'
  <2>1. ASSUME NEW j \in Dogs, pc'[j] \in Tending PROVE \A b \in Bots : strays'[b] = 0
    <3>1. j \notin ks /\ pc[j] \in Tending
      BY <2>1 DEF Tending
    <3>2. \A i \in ks : pc[i] \notin Tending
      BY <3>1, OneTends DEF Tending, Working
    <3>3. QED
      BY <3>1, <3>2, OrphanedFew DEF FewStrays
  <2>2. QED
    BY <2>1, OrphanedFew DEF FewStrays
<1>4. ASSUME NEW j \in Dogs PROVE Hand(j)'
  BY DEF Hand, Bot
<1>5. QED
  BY <1>1, <1>2, <1>3, <1>4

LEMMA EndSafe ==
    ASSUME IInv, NEW k \in Dogs, ReapWatchdogs(k) \/ Die(k)
    PROVE  Safe'
<1>1. CASE Die(k)
  <2> DEFINE ks == {k}
  <2>1. ks \in SUBSET Dogs /\ mutex' = mutex \ ks /\ strays' = Orphaned(ks)
    BY <1>1 DEF Die
  <2>2. (\A j \in ks : pc'[j] = "dead") /\ (\A j \in Dogs \ ks : pc'[j] = pc[j])
    BY <1>1 DEF Die, IInv, TypeOK
  <2>3. child' = [j \in Dogs |-> IF j \in ks THEN Childless ELSE child[j]]
    BY <1>1 DEF Die, IInv, TypeOK
  <2>4. UNCHANGED <<at, op>>
    BY <1>1 DEF Die, loopvars
  <2> HIDE DEF ks
  <2>5. QED
    BY <2>1, <2>2, <2>3, <2>4, DeathSafe
<1>2. CASE ReapWatchdogs(k)
  <2> DEFINE others == {j \in Dogs \ {k} : Alive(j)}
  <2>1. CASE /\ pc' = [j \in Dogs |-> IF j = k THEN "retry" ELSE IF j \in others THEN "dead" ELSE pc[j]]
             /\ mutex' = mutex \ others
             /\ strays' = Orphaned(others)
             /\ child' = [j \in Dogs |-> IF j \in others THEN Childless ELSE child[j]]
    <3>1. k \notin others /\ others \in SUBSET Dogs
      OBVIOUS
    <3>2. pc[k] = "lock" /\ UNCHANGED <<at, op>>
      BY <1>2 DEF ReapWatchdogs, loopvars
    <3>3. /\ \A j \in others : pc'[j] = "dead"
          /\ \A j \in Dogs \ others : pc'[j] = pc[j] \/ (pc[j] = "lock" /\ pc'[j] = "retry")
      BY <2>1, <3>1, <3>2
    <3> HIDE DEF others
    <3>4. QED
      BY <2>1, <3>1, <3>2, <3>3, DeathSafe
  <2>2. CASE /\ pc' = [pc EXCEPT ![k] = "dead"]
             /\ UNCHANGED <<mutex, strays, child>>
    <3>1. pc[k] = "lock" /\ UNCHANGED <<at, op>>
      BY <1>2 DEF ReapWatchdogs, loopvars
    <3>2. pc'[k] = "dead" /\ \A j \in Dogs \ {k} : pc'[j] = pc[j]
      BY <2>2 DEF IInv, TypeOK
    <3>3. Holder' /\ OnlyTendingHave' /\ FewStrays'
      BY <2>2, <3>1, <3>2 DEF IInv, Safe, Holder, OnlyTendingHave, FewStrays, Working, Tending
    <3>4. \A j \in Dogs : Hand(j)'
      BY <2>2, <3>1, <3>2 DEF IInv, Safe, Hand, Bot
    <3>5. QED
      BY <3>3, <3>4 DEF Safe
  <2>3. QED
    BY <1>2, <2>1, <2>2 DEF ReapWatchdogs
<1>3. QED
  BY <1>1, <1>2

(* The sweep ends what a dead watchdog left.                               *)
LEMMA SweepSafe ==
    ASSUME IInv, NEW k \in Dogs, Sweep(k)
    PROVE  Safe'
<1> USE DEF IInv, Safe
<1>1. pc[k] = "sweep" /\ pc'[k] = "stagger" /\ (\A j \in Dogs \ {k} : pc'[j] = pc[j])
  BY DEF Sweep, TypeOK
<1>2. child'[k] = child[k] /\ child[k] = Childless
  BY <1>1 DEF Sweep, OnlyTendingHave, Tending
<1>3. \A j \in Dogs \ {k} : pc[j] \notin Working /\ child[j] = Childless /\ child'[j] = Childless
  <2>1. ASSUME NEW j \in Dogs \ {k} PROVE pc[j] \notin Working /\ child[j] = Childless
    BY <1>1, OneTends DEF OnlyTendingHave, Tending, Working
  <2>2. ASSUME NEW j \in Dogs \ {k} PROVE child'[j] = Childless
    BY <2>1, <2>2 DEF Sweep, Childless
  <2>3. QED
    BY <2>1, <2>2
<1>4. Holder'
  BY <1>1 DEF Sweep, Holder, Working
<1>5. OnlyTendingHave' /\ FewStrays'
  BY <1>1, <1>2, <1>3 DEF Sweep, OnlyTendingHave, FewStrays
<1>6. Hand(k)'
  BY <1>1, <1>2, FleetFacts, BotAtHand, TypesKept DEF Sweep, Hand, Childless, Living, Bot, TypeOK
<1>7. \A j \in Dogs \ {k} : Hand(j)'
  BY <1>1, <1>3 DEF Hand, Working
<1>8. QED
  BY <1>4, <1>5, <1>6, <1>7

(* Steps of a watchdog on the bot at hand.                                 *)
LEMMA HandSafe ==
    ASSUME IInv, NEW k \in Dogs,
           pc[k] \in {"stagger", "loop"}, pc'[k] \in Tending, Hand(k)',
           UNCHANGED mutex, \A b \in Bots : strays'[b] = strays[b],
           \A j \in Dogs \ {k} : /\ pc'[j] = pc[j] /\ child'[j] = child[j]
                                 /\ op'[j] = op[j] /\ at'[j] = at[j]
    PROVE  Safe'
<1> USE DEF IInv, Safe
<1>1. Holder' /\ OnlyTendingHave' /\ FewStrays'
  BY DEF Holder, OnlyTendingHave, FewStrays, Working, Tending
<1>2. \A j \in Dogs \ {k} : Hand(j)'
  BY DEF Hand, Bot
<1>3. QED
  BY <1>1, <1>2

(* Another bot is looked at: nothing is under way, and the staggered start *)
(* has gone one bot further.                                               *)
LEMMA AdvanceHand ==
    ASSUME IInv, NEW k \in Dogs, Advance(k), pc[k] \in {"stagger", "loop"},
           \A b \in Bots : child'[k][b] \notin {"born", "stillborn"},
           \A b \in Bots \ {Bot(k)} : child'[k][b] = child[k][b]
    PROVE  Hand(k)' /\ pc'[k] \in Tending
<1> USE DEF IInv, TypeOK
<1>1. op'[k] = "look" /\ at'[k] = IF at[k] < Len(Fleet) THEN at[k] + 1 ELSE 1
  BY DEF Advance
<1>2. pc'[k] = IF at[k] < Len(Fleet) THEN pc[k] ELSE "loop"
  BY DEF Advance
<1>3. ASSUME pc'[k] = "stagger", NEW i \in DOMAIN Fleet, i >= at'[k]
      PROVE  child'[k][Fleet[i]] = "none"
  <2>1. pc[k] = "stagger" /\ at[k] < Len(Fleet) /\ at'[k] = at[k] + 1
    BY <1>1, <1>2, <1>3
  <2>2. i > at[k] /\ Fleet[i] # Bot(k) /\ Fleet[i] \in Bots
    BY <1>3, <2>1, FleetFacts DEF Bot
  <2>3. child[k][Fleet[i]] = "none"
    BY <2>1, <2>2 DEF Safe, Hand
  <2>4. QED
    BY <2>2, <2>3
<1>4. pc'[k] = "stagger" =>
        \A i \in DOMAIN Fleet :
            i > at'[k] \/ (i = at'[k] /\ op'[k] # "enter") => child'[k][Fleet[i]] = "none"
  <2>1. at'[k] \in Int /\ \A i \in DOMAIN Fleet : i \in Int
    BY <1>1, FleetFacts
  <2>2. QED
    BY <1>3, <2>1
<1>5. QED
  BY <1>1, <1>2, <1>4 DEF Hand, Tending

LEMMA StaggerSafe ==
    ASSUME IInv, NEW k \in Dogs, Stagger(k)
    PROVE  Safe'
<1> USE DEF IInv, TypeOK
<1>1. pc[k] = "stagger" /\ op[k] = "look" /\ UNCHANGED <<mutex, child, strays>>
  BY DEF Stagger
<1>2. \A b \in Bots : child[k][b] \notin {"born", "stillborn"}
  BY <1>1 DEF Safe, Hand
<1>3. \A j \in Dogs \ {k} : pc'[j] = pc[j] /\ op'[j] = op[j] /\ at'[j] = at[j]
  BY DEF Stagger, Advance
<1>4. Hand(k)' /\ pc'[k] \in Tending
  <2>1. CASE Advance(k)
    BY <1>1, <1>2, <2>1, AdvanceHand
  <2>2. CASE op' = [op EXCEPT ![k] = "launch"] /\ UNCHANGED <<pc, at>>
    <3>1. op'[k] = "launch" /\ pc'[k] = pc[k] /\ at'[k] = at[k] /\ child'[k] = child[k]
      BY <1>1, <2>2
    <3>2. child[k][Bot(k)] = "none"
      BY <1>1 DEF Safe, Hand, Bot
    <3>3. QED
      BY <1>1, <1>2, <3>1, <3>2 DEF Safe, Hand, Bot, Living, Tending
  <2>3. QED
    BY <2>1, <2>2 DEF Stagger
<1>5. QED
  BY <1>1, <1>3, <1>4, HandSafe

LEMMA LaunchSafe ==
    ASSUME IInv, NEW k \in Dogs, Launch(k)
    PROVE  Safe'
<1> USE DEF IInv, TypeOK
<1>1. /\ pc[k] \in {"stagger", "loop"} /\ op[k] = "launch"
      /\ UNCHANGED <<pc, mutex, at>>
  BY DEF Launch
<1>2. child[k][Bot(k)] \notin Living
  BY <1>1 DEF Safe, Hand
<1>3. strays' = strays
  BY <1>2 DEF Launch
<1>4. op'[k] = "enter" /\ \A j \in Dogs \ {k} : op'[j] = op[j] /\ child'[j] = child[j]
  BY DEF Launch
<1>5. /\ child'[k][Bot(k)] = "born"
      /\ \A b \in Bots \ {Bot(k)} : child'[k][b] = child[k][b]
  BY BotAtHand DEF Launch
<1>6. Hand(k)'
  <2>1. \A b \in Bots : child'[k][b] \in {"born", "stillborn"} => b = Bot(k)
    BY <1>1, <1>5 DEF Safe, Hand
  <2>2. pc[k] = "stagger" => \A i \in DOMAIN Fleet : i > at[k] => child'[k][Fleet[i]] = "none"
    <3>1. \A i \in DOMAIN Fleet : i > at[k] => Fleet[i] # Bot(k) /\ Fleet[i] \in Bots
      BY FleetFacts DEF Bot
    <3>2. QED
      BY <1>5, <3>1 DEF Safe, Hand
  <2>3. QED
    BY <1>1, <1>4, <2>1, <2>2 DEF Hand, Bot
<1>7. QED
  BY <1>1, <1>3, <1>4, <1>6, HandSafe DEF Tending

LEMMA EnterSafe ==
    ASSUME IInv, NEW k \in Dogs, Enter(k)
    PROVE  Safe'
<1> USE DEF IInv, TypeOK
<1>1. pc[k] \in {"stagger", "loop"} /\ op[k] = "enter" /\ UNCHANGED <<mutex, strays>>
  BY DEF Enter
<1>2. /\ child'[k][Bot(k)] \in {"up", "down"}
      /\ \A b \in Bots \ {Bot(k)} : child'[k][b] = child[k][b]
      /\ \A j \in Dogs \ {k} : child'[j] = child[j]
  BY BotAtHand DEF Enter
<1>3. \A b \in Bots : child'[k][b] \notin {"born", "stillborn"}
  BY <1>1, <1>2 DEF Safe, Hand
<1>4. Hand(k)' /\ pc'[k] \in Tending
  <2>1. CASE pc[k] = "stagger"
    BY <1>2, <1>3, <2>1, AdvanceHand DEF Enter
  <2>2. CASE pc[k] = "loop"
    <3>1. pc'[k] = "loop" /\ op'[k] = "beat"
      BY <2>2 DEF Enter
    <3>2. QED
      BY <1>3, <3>1 DEF Hand, Tending
  <2>3. QED
    BY <1>1, <2>1, <2>2
<1>5. \A j \in Dogs \ {k} : pc'[j] = pc[j] /\ op'[j] = op[j] /\ at'[j] = at[j]
  BY DEF Enter, Advance
<1>6. QED
  BY <1>1, <1>2, <1>4, <1>5, HandSafe

(* Supervision: before a launch the old process was stopped or forgotten.  *)
LEMMA LoopHand ==
    ASSUME IInv, NEW k \in Dogs, pc[k] = "loop", pc'[k] = "loop", op[k] # "enter",
           \/ child'[k] = child[k]
           \/ child'[k] = [child[k] EXCEPT ![Bot(k)] = "none"],
           op'[k] = "launch" => child'[k][Bot(k)] \notin Living,
           at'[k] = at[k]
    PROVE  Hand(k)'
<1> USE DEF IInv, TypeOK
<1>1. \A b \in Bots : child[k][b] \notin {"born", "stillborn"}
  BY DEF Safe, Hand
<1>2. \A b \in Bots : child'[k][b] \notin {"born", "stillborn"}
  BY <1>1
<1>3. QED
  BY <1>2 DEF Hand, Bot

LEMMA SuperviseSafe ==
    ASSUME IInv, NEW k \in Dogs, Supervise(k) \/ RestartHung(k)
    PROVE  Safe'
<1> USE DEF IInv, TypeOK
<1>1. /\ pc[k] = "loop" /\ op[k] \in {"look", "beat"}
      /\ UNCHANGED <<pc, mutex, at, strays>>
  BY DEF Supervise, StopParked, ObeyRestart, AwaitDeadline, StartMissing, NoticeCrash, Recycle,
         LeaveRunning, RestartHung, Looking, Unasked
<1>2. child[k][Bot(k)] \notin {"born", "stillborn"}
  BY <1>1, BotAtHand DEF Safe, Hand
<1>3. UNCHANGED child \/ Forget(k)
  BY DEF Supervise, StopParked, ObeyRestart, AwaitDeadline, StartMissing, NoticeCrash, Recycle,
         LeaveRunning, RestartHung
<1>4. /\ \A j \in Dogs \ {k} : child'[j] = child[j]
      /\ child'[k] = child[k] \/ child'[k] = [child[k] EXCEPT ![Bot(k)] = "none"]
  BY <1>3 DEF Forget
<1>5. \A what \in {"beat", "launch"} :
        Act(k, what) => op'[k] = what /\ \A j \in Dogs \ {k} : op'[j] = op[j]
  BY DEF Act
<1>6. Backoff(k) => \A j \in Dogs \ {k} : op'[j] = op[j]
  BY DEF Backoff
<1>7. \A j \in Dogs \ {k} : op'[j] = op[j]
  BY <1>5, <1>6
     DEF Supervise, StopParked, ObeyRestart, AwaitDeadline, StartMissing, NoticeCrash, Recycle,
         LeaveRunning, RestartHung
<1>8. op'[k] = "launch" => Forget(k) \/ (UNCHANGED child /\ child[k][Bot(k)] # "up")
  BY <1>5
     DEF Supervise, StopParked, ObeyRestart, AwaitDeadline, StartMissing, NoticeCrash, Recycle,
         LeaveRunning, RestartHung
<1>9. op'[k] = "launch" => child'[k][Bot(k)] \notin Living
  BY <1>2, <1>8, BotAtHand DEF Forget, Living
<1>10. Hand(k)'
  BY <1>1, <1>4, <1>9, LoopHand
<1>11. QED
  BY <1>1, <1>4, <1>7, <1>10, HandSafe DEF Tending

LEMMA BeatSafe ==
    ASSUME IInv, NEW k \in Dogs, Beat(k)
    PROVE  Safe'
<1> USE DEF IInv, TypeOK
<1>1. pc[k] = "loop" /\ op[k] = "beat" /\ UNCHANGED <<mutex, child, strays>> /\ Advance(k)
  BY DEF Beat
<1>2. Hand(k)' /\ pc'[k] \in Tending
  BY <1>1, AdvanceHand DEF Safe, Hand
<1>3. \A j \in Dogs \ {k} : pc'[j] = pc[j] /\ op'[j] = op[j] /\ at'[j] = at[j]
  BY DEF Beat, Advance
<1>4. QED
  BY <1>1, <1>2, <1>3, HandSafe

LEMMA SignalSafe ==
    ASSUME IInv, NEW k \in Dogs, Signal(k)
    PROVE  Safe'
<1> USE DEF IInv, TypeOK
<1>1. /\ pc[k] \in {"stagger", "loop"} /\ pc'[k] = "stopping"
      /\ \A j \in Dogs \ {k} : pc'[j] = pc[j]
      /\ UNCHANGED <<mutex, at, op, child, strays>>
  BY DEF Signal, loopvars
<1>2. Hand(k)'
  BY <1>1 DEF Hand
<1>3. QED
  BY <1>1, <1>2, HandSafe DEF Tending

LEMMA ShutDownSafe ==
    ASSUME IInv, NEW k \in Dogs, ShutDown(k)
    PROVE  Safe'
<1> USE DEF IInv, TypeOK
<1>1. pc[k] = "stopping" /\ UNCHANGED <<at, op>>
  BY DEF ShutDown, loopvars
<1>2. ASSUME NEW b \in Bots, child' = [child EXCEPT ![k][b] = "none"],
             UNCHANGED <<pc, mutex, strays>>
      PROVE  Safe'
  <2>1. \A j \in Dogs \ {k} : child'[j] = child[j]
    BY <1>2
  <2>2. Holder' /\ OnlyTendingHave' /\ FewStrays'
    BY <1>1, <1>2, <2>1 DEF Safe, Holder, OnlyTendingHave, FewStrays, Tending
  <2>3. \A j \in Dogs : Hand(j)'
    BY <1>1, <1>2, <2>1 DEF Safe, Hand, Bot
  <2>4. QED
    BY <2>2, <2>3 DEF Safe
<1>3. CASE /\ pc' = [pc EXCEPT ![k] = "dead"]
           /\ mutex' = mutex \ {k}
           /\ strays' = Orphaned({k})
           /\ child' = [child EXCEPT ![k] = Childless]
  <2> DEFINE ks == {k}
  <2>1. ks \in SUBSET Dogs /\ mutex' = mutex \ ks /\ strays' = Orphaned(ks)
    BY <1>3
  <2>2. (\A j \in ks : pc'[j] = "dead") /\ (\A j \in Dogs \ ks : pc'[j] = pc[j])
    BY <1>3
  <2>3. child' = [j \in Dogs |-> IF j \in ks THEN Childless ELSE child[j]]
    BY <1>3
  <2> HIDE DEF ks, IInv, TypeOK
  <2>4. QED
    BY <1>1, <2>1, <2>2, <2>3, DeathSafe
<1>4. QED
  BY <1>2, <1>3 DEF ShutDown

LEMMA CrashSafe ==
    ASSUME IInv, NEW b \in Bots, Crash(b)
    PROVE  Safe'
<1> USE DEF IInv, TypeOK
<1>1. UNCHANGED <<pc, mutex, at, op>>
  BY DEF Crash, loopvars
<1>2. CASE strays[b] > 0 /\ strays' = [strays EXCEPT ![b] = @ - 1] /\ UNCHANGED child
  <2>1. FewStrays'
    BY <1>1, <1>2 DEF Safe, FewStrays
  <2>2. QED
    BY <1>1, <1>2, <2>1 DEF Safe, Holder, OnlyTendingHave, Hand, Bot
<1>3. ASSUME NEW k \in Dogs, child[k][b] \in Living,
             child' = [child EXCEPT ![k][b] = IF @ = "up" THEN "down" ELSE "stillborn"],
             UNCHANGED strays
      PROVE  Safe'
  <2>1. pc[k] \in Tending
    BY <1>3 DEF Safe, OnlyTendingHave, Childless, Living
  <2>2. \A j \in Dogs \ {k} : child'[j] = child[j]
    BY <1>3
  <2>3. /\ \A c \in Bots \ {b} : child'[k][c] = child[k][c]
        /\ \/ child[k][b] = "up" /\ child'[k][b] = "down"
           \/ child[k][b] = "born" /\ child'[k][b] = "stillborn"
    BY <1>3 DEF Living
  <2>4. Hand(k)'
    <3>1. pc[k] = "stagger" =>
            \A i \in DOMAIN Fleet :
              i > at[k] \/ (i = at[k] /\ op[k] # "enter") => child'[k][Fleet[i]] = "none"
      <4>1. \A c \in Bots : child[k][c] = "none" => child'[k][c] = "none"
        BY <2>3
      <4>2. QED
        BY <4>1, FleetFacts DEF Safe, Hand
    <3>2. \A c \in Bots : child'[k][c] \in {"born", "stillborn"} => child[k][c] \in {"born", "stillborn"}
      BY <2>3
    <3>3. child'[k][Bot(k)] \in Living => child[k][Bot(k)] \in Living
      BY <2>3, BotAtHand DEF Living
    <3>4. QED
      BY <1>1, <3>1, <3>2, <3>3 DEF Safe, Hand, Bot
  <2>5. \A j \in Dogs \ {k} : Hand(j)'
    BY <1>1, <2>2 DEF Safe, Hand, Bot
  <2>6. Holder' /\ OnlyTendingHave' /\ FewStrays'
    BY <1>1, <1>3, <2>1, <2>2 DEF Safe, Holder, OnlyTendingHave, FewStrays
  <2>7. QED
    BY <2>4, <2>5, <2>6 DEF Safe
<1>4. QED
  BY <1>2, <1>3 DEF Crash

LEMMA StepKeeps == ASSUME HasMutex, IInv, [Next]_vars PROVE IInv'
<1>1. TypeOK'
  BY TypesKept DEF IInv
<1>2. Safe'
  <2>1. CASE UNCHANGED vars
    BY <2>1, FrameSafe DEF vars, loopvars
  <2>2. ASSUME NEW k \in Dogs, Work(k) PROVE Safe'
    BY <2>2, StartSafe, EndSafe, SweepSafe, StaggerSafe, LaunchSafe, EnterSafe, SuperviseSafe,
       BeatSafe, ShutDownSafe DEF Work
  <2>3. ASSUME NEW k \in Dogs, StartDog(k) \/ Signal(k) \/ Die(k) \/ RestartHung(k) PROVE Safe'
    BY <2>3, StartSafe, EndSafe, SignalSafe, SuperviseSafe
  <2>4. ASSUME NEW b \in Bots, Crash(b) \/ Park(b) \/ Unpark(b) \/ RequestRestart(b) PROVE Safe'
    <3>1. CASE Park(b) \/ Unpark(b) \/ RequestRestart(b)
      BY <3>1, FrameSafe DEF Park, Unpark, RequestRestart, Order, loopvars
    <3>2. QED
      BY <2>4, <3>1, CrashSafe
  <2>5. ASSUME NEW k \in Dogs, NEW b \in Bots, Expire(k, b) \/ HourPasses(k, b) PROVE Safe'
    BY <2>5, FrameSafe DEF Expire, HourPasses
  <2>6. QED
    BY <2>1, <2>2, <2>3, <2>4, <2>5 DEF Next, Outside
<1>3. QED
  BY <1>1, <1>2 DEF IInv

LEMMA Inductive == ASSUME HasMutex PROVE Spec => []IInv
<1>1. IInv /\ [Next]_vars => IInv'
  BY StepKeeps
<1>2. QED
  BY <1>1, InitSafe, PTL DEF Spec

(* Where the mutex works, one watchdog is past it, whoever is started,     *)
(* killed, reaped or beaten to it (_acquire_single_instance_lock).         *)
THEOREM OneHolds == ASSUME HasMutex PROVE Spec => []OneWatchdog
<1>1. IInv => OneWatchdog
  BY OneTends DEF OneWatchdog
<1>2. QED
  BY <1>1, Inductive, PTL

(* And no bot of the fleet ever runs twice, whatever crash, kill, signal,  *)
(* park or restart falls between the steps of a start.                     *)
THEOREM NeverTwice == ASSUME HasMutex PROVE Spec => []NoDouble
<1>1. ASSUME IInv, NEW b \in Bots PROVE Running(b) <= 1
  <2> DEFINE S == {k \in Dogs : child[k][b] \in Living}
  <2>1. S \in SUBSET Dogs /\ Running(b) = strays[b] + Cardinality(S)
    BY DEF Running
  <2>2. \A k \in S : pc[k] \in Tending
    BY <1>1 DEF IInv, Safe, OnlyTendingHave, Childless, Living
  <2>3. \A j, k \in S : j = k
    BY <1>1, <2>1, <2>2, OneTends DEF Tending, Working
  <2>4. strays[b] \in {0, 1} /\ (S # {} => strays[b] = 0)
    BY <1>1, <2>1, <2>2 DEF IInv, Safe, FewStrays
  <2>5. Cardinality(S) \in Nat /\ Cardinality(S) <= 1 /\ (S = {} => Cardinality(S) = 0)
    BY <2>1, <2>3, DogsCounted
  <2> HIDE DEF S
  <2>6. QED
    BY <2>1, <2>4, <2>5
<1>2. IInv => NoDouble
  BY <1>1 DEF NoDouble
<1>3. QED
  BY <1>2, Inductive, PTL
=============================================================================
