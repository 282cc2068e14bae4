------------------------------ MODULE Watchdog ------------------------------
(***************************************************************************)
(* The watchdog, main_watchdog.py: starts the bots of core/fleet.py one    *)
(* after the other, restarts those that crash or hang, and obeys the       *)
(* marker files by which the dashboard and the health monitor ask for      *)
(* stops and restarts, core/process_control.py.  Several watchdogs may be  *)
(* started in a row or at once; a named mutex and the reaping of orphans   *)
(* are to keep one fleet alive.                                            *)
(*                                                                         *)
(* child[k][b] is what watchdog k knows of bot b: "none"; "up" and "down", *)
(* a running or dead process in running_processes; "born" and "stillborn", *)
(* a process Popen has returned but that is not entered yet.  A process    *)
(* whose watchdog is dead, or that was overwritten, is a stray.  Stopping  *)
(* a process ends it.                                                      *)
(***************************************************************************)
EXTENDS Integers, Sequences, FiniteSets

CONSTANTS
    Dogs,           \* watchdog processes of a behaviour: 1 .. n, started in order
    Fleet,          \* PROCESSES_TO_RUN, a sequence of bots
    Recycled,       \* bots with a restart_interval
    HasMutex,       \* whether CreateMutexW works
    HangAutorestart,    \* KYTHERA_WATCHDOG_HANG_AUTORESTART
    MaxKills,       \* bound: watchdogs killed or signalled
    MaxCrashes,     \* bound: crashes and hangs of bots
    MaxOrders       \* bound: parks, unparks and restart requests

Bots == {Fleet[i] : i \in DOMAIN Fleet}
Working == {"sweep", "stagger", "loop", "stopping"}

ASSUME DogAssumption == Dogs \subseteq Nat /\ IsFiniteSet(Dogs)
ASSUME FleetAssumption ==
    /\ Fleet \in Seq(Bots) /\ Fleet # << >>
    /\ \A i, j \in DOMAIN Fleet : Fleet[i] = Fleet[j] => i = j
    /\ Recycled \subseteq Bots
ASSUME LimitAssumption ==
    /\ HasMutex \in BOOLEAN /\ HangAutorestart \in BOOLEAN
    /\ MaxKills \in Nat /\ MaxCrashes \in Nat /\ MaxOrders \in Nat

VARIABLES
    \* marker files: control/parked, control/restart
    parked, asked,
    \* watchdogs: where each stands, the mutex handles they hold
    pc, mutex,
    \* per watchdog: the bot at hand and what is to be done with it, its
    \* processes, deadlines (_restart_not_before), crashes of the last hour
    at, op, child, deadline, crashes,
    \* live processes of each bot that no watchdog tracks
    strays,
    \* bookkeeping of the model: bots not started since a restart was asked
    \* for; watchdog kills, bot crashes and orders so far
    stale, kills, falls, orders

markers == <<parked, asked>>
loopvars == <<at, op, deadline, crashes>>
counters == <<kills, falls, orders>>
vars == <<markers, pc, mutex, loopvars, child, strays, stale, counters>>

Alive(k) == pc[k] \notin {"off", "dead"}
Living == {"up", "born"}
Running(b) == strays[b] + Cardinality({k \in Dogs : child[k][b] \in Living})
Bot(k) == Fleet[at[k]]

\* Processes of watchdogs ks become strays when those die.
Orphaned(ks) == [b \in Bots |->
    strays[b] + Cardinality({k \in ks : child[k][b] \in Living})]
Childless == [b \in Bots |-> "none"]

----------------------------------------------------------------------------
(* Start: mutex, reaping, staggered start.                                 *)

StartDog(k) ==
    /\ pc[k] = "off" /\ \A j \in Dogs : j < k => pc[j] # "off"
    /\ pc' = [pc EXCEPT ![k] = IF HasMutex THEN "lock" ELSE "sweep"]
    /\ UNCHANGED <<markers, mutex, loopvars, child, strays, stale, counters>>

\* _acquire_single_instance_lock without a conflict.
TakeMutex(k) ==
    /\ pc[k] = "lock" /\ mutex = {}
    /\ mutex' = {k}
    /\ pc' = [pc EXCEPT ![k] = "sweep"]
    /\ UNCHANGED <<markers, loopvars, child, strays, stale, counters>>

\* Faulty: with nothing to reap the start goes on.
ReapOrProceed(k) ==
    /\ pc[k] = "lock" /\ mutex # {}
    /\ pc' = [pc EXCEPT ![k] = "sweep"]
    /\ UNCHANGED <<markers, mutex, loopvars, child, strays, stale, counters>>
\* A conflict: every other watchdog process is terminated, whose handles and
\* the own one are closed; or none can be, and this one exits.
ReapWatchdogs(k) ==
    LET others == {j \in Dogs \ {k} : Alive(j)} IN
    /\ pc[k] = "lock" /\ mutex # {}
    /\ \/ /\ pc' = [j \in Dogs |-> IF j = k THEN "retry" ELSE IF j \in others THEN "dead" ELSE pc[j]]
          /\ mutex' = mutex \ others
          /\ strays' = Orphaned(others)
          /\ child' = [j \in Dogs |-> IF j \in others THEN Childless ELSE child[j]]
       \/ /\ pc' = [pc EXCEPT ![k] = "dead"]
          /\ UNCHANGED <<mutex, strays, child>>
    /\ UNCHANGED <<markers, loopvars, stale, counters>>

\* One second attempt, without reaping.
RetryMutex(k) ==
    /\ pc[k] = "retry"
    /\ mutex' = IF mutex = {} THEN {k} ELSE mutex
    /\ pc' = [pc EXCEPT ![k] = IF mutex = {} THEN "sweep" ELSE "dead"]
    /\ UNCHANGED <<markers, loopvars, child, strays, stale, counters>>

\* Faulty: the fleet of a crashed predecessor is left running.
SweepNothing(k) ==
    /\ pc[k] = "sweep"
    /\ pc' = [pc EXCEPT ![k] = "stagger"]
    /\ at' = [at EXCEPT ![k] = 1]
    /\ UNCHANGED <<markers, mutex, op, deadline, crashes, child, strays, stale, counters>>
\* _terminate_orphan_fleet: every fleet process but the own children ends.
Sweep(k) ==
    /\ pc[k] = "sweep"
    /\ strays' = [b \in Bots |-> 0]
    /\ child' = [j \in Dogs |-> IF j = k THEN child[j] ELSE
         [b \in Bots |-> CASE child[j][b] = "up" -> "down"
                           [] child[j][b] = "born" -> "stillborn"
                           [] OTHER -> child[j][b]]]
    /\ pc' = [pc EXCEPT ![k] = "stagger"]
    /\ at' = [at EXCEPT ![k] = 1]
    /\ UNCHANGED <<markers, mutex, op, deadline, crashes, stale, counters>>

\* On to the next bot: the staggered start ends in the loop, the loop begins
\* again.
Advance(k) ==
    /\ op' = [op EXCEPT ![k] = "look"]
    /\ at' = [at EXCEPT ![k] = IF @ < Len(Fleet) THEN @ + 1 ELSE 1]
    /\ pc' = [pc EXCEPT ![k] = IF at[k] < Len(Fleet) THEN @ ELSE "loop"]

\* The marker is looked at when the turn of the bot comes, not before.
Stagger(k) ==
    /\ pc[k] = "stagger" /\ op[k] = "look"
    /\ IF Bot(k) \in parked THEN Advance(k)
       ELSE op' = [op EXCEPT ![k] = "launch"] /\ UNCHANGED <<pc, at>>
    /\ UNCHANGED <<markers, mutex, deadline, crashes, child, strays, stale, counters>>

----------------------------------------------------------------------------
(* Starting and stopping one process.                                      *)

\* start_process: Popen returns ...
Launch(k) ==
    /\ pc[k] \in {"stagger", "loop"} /\ op[k] = "launch"
    /\ strays' = IF child[k][Bot(k)] \in Living
                   THEN [strays EXCEPT ![Bot(k)] = @ + 1] ELSE strays
    /\ child' = [child EXCEPT ![k][Bot(k)] = "born"]
    /\ stale' = stale \ {Bot(k)}
    /\ op' = [op EXCEPT ![k] = "enter"]
    /\ UNCHANGED <<markers, pc, mutex, at, deadline, crashes, counters>>

\* Faulty: a restart request is withdrawn when the start is done.
EnterAndConsume(k) ==
    /\ pc[k] \in {"stagger", "loop"} /\ op[k] = "enter"
    /\ child' = [child EXCEPT ![k][Bot(k)] = IF @ = "born" THEN "up" ELSE "down"]
    /\ asked' = asked \ {Bot(k)}
    /\ IF pc[k] = "stagger" THEN Advance(k)
       ELSE op' = [op EXCEPT ![k] = "beat"] /\ UNCHANGED <<pc, at>>
    /\ UNCHANGED <<parked, mutex, deadline, crashes, strays, stale, counters>>
\* ... and the process is entered in running_processes.
Enter(k) ==
    /\ pc[k] \in {"stagger", "loop"} /\ op[k] = "enter"
    /\ child' = [child EXCEPT ![k][Bot(k)] = IF @ = "born" THEN "up" ELSE "down"]
    /\ IF pc[k] = "stagger" THEN Advance(k)
       ELSE op' = [op EXCEPT ![k] = "beat"] /\ UNCHANGED <<pc, at>>
    /\ UNCHANGED <<markers, mutex, deadline, crashes, strays, stale, counters>>

\* kill_process, and "del running_processes[name]" alike.
Forget(k) == child' = [child EXCEPT ![k][Bot(k)] = "none"]

Act(k, what) == op' = [op EXCEPT ![k] = what]
NoDeadline(k) == deadline' = [deadline EXCEPT ![k][Bot(k)] = "none"]
\* _compute_restart_delay: the first crash of an hour restarts at once, the
\* next ones wait for a deadline.
Backoff(k) ==
    /\ crashes' = [crashes EXCEPT ![k][Bot(k)] = IF @ < 2 THEN @ + 1 ELSE @]
    /\ IF crashes[k][Bot(k)] = 0
         THEN op' = [op EXCEPT ![k] = "launch"] /\ NoDeadline(k)
         ELSE /\ op' = [op EXCEPT ![k] = "beat"]
              /\ deadline' = [deadline EXCEPT ![k][Bot(k)] = "pending"]

----------------------------------------------------------------------------
(* supervise_process, one pass over one bot, and check_heartbeat.          *)

Looking(k) ==
    /\ pc[k] = "loop" /\ op[k] = "look"
    /\ UNCHANGED <<parked, pc, mutex, at, strays, stale, counters>>

\* Faulty: the parked process is forgotten, not stopped.
ForgetParked(k) ==
    /\ pc[k] = "loop" /\ op[k] = "look"
    /\ Bot(k) \in parked
    /\ NoDeadline(k) /\ Forget(k) /\ Act(k, "beat")
    /\ strays' = IF child[k][Bot(k)] = "up" THEN [strays EXCEPT ![Bot(k)] = @ + 1] ELSE strays
    /\ UNCHANGED <<markers, pc, mutex, at, crashes, stale, counters>>
\* Parked: the deadline is dropped, the process stopped or forgotten.
StopParked(k) ==
    /\ Looking(k)
    /\ Bot(k) \in parked
    /\ NoDeadline(k) /\ Forget(k) /\ Act(k, "beat")
    /\ UNCHANGED <<asked, crashes>>

\* A restart was asked for: the marker goes first, then the process.
ObeyRestart(k) ==
    /\ Looking(k)
    /\ Bot(k) \notin parked /\ Bot(k) \in asked
    /\ asked' = asked \ {Bot(k)}
    /\ NoDeadline(k) /\ Act(k, "launch")
    /\ IF child[k][Bot(k)] = "up" THEN Forget(k) ELSE UNCHANGED child
    /\ UNCHANGED crashes

\* Neither parked nor asked for.
Unasked(k) == Looking(k) /\ Bot(k) \notin parked \cup asked /\ UNCHANGED asked

AwaitDeadline(k) ==
    /\ Unasked(k)
    /\ deadline[k][Bot(k)] = "pending"
    /\ Act(k, "beat")
    /\ UNCHANGED <<deadline, crashes, child>>

\* Faulty: only a process whose deadline has passed is missed.
StartDue(k) ==
    /\ Unasked(k)
    /\ deadline[k][Bot(k)] # "pending" /\ child[k][Bot(k)] = "none"
    /\ NoDeadline(k) /\ Act(k, IF deadline[k][Bot(k)] = "due" THEN "launch" ELSE "beat")
    /\ UNCHANGED <<crashes, child>>
StartMissing(k) ==
    /\ Unasked(k)
    /\ deadline[k][Bot(k)] # "pending" /\ child[k][Bot(k)] = "none"
    /\ NoDeadline(k) /\ Act(k, "launch")
    /\ UNCHANGED <<crashes, child>>

NoticeCrash(k) ==
    /\ Unasked(k)
    /\ deadline[k][Bot(k)] # "pending" /\ child[k][Bot(k)] = "down"
    /\ Backoff(k)
    /\ Forget(k)

\* The restart_interval is over.
Recycle(k) ==
    /\ Unasked(k)
    /\ deadline[k][Bot(k)] # "pending" /\ child[k][Bot(k)] = "up"
    /\ Bot(k) \in Recycled
    /\ NoDeadline(k) /\ Forget(k) /\ Act(k, "launch")
    /\ UNCHANGED crashes

LeaveRunning(k) ==
    /\ Unasked(k)
    /\ deadline[k][Bot(k)] # "pending" /\ child[k][Bot(k)] = "up"
    /\ NoDeadline(k) /\ Act(k, "beat")
    /\ UNCHANGED <<crashes, child>>

Supervise(k) ==
    \/ StopParked(k) \/ ObeyRestart(k) \/ AwaitDeadline(k) \/ StartMissing(k)
    \/ NoticeCrash(k) \/ Recycle(k) \/ LeaveRunning(k)

\* check_heartbeat finds nothing ...
Beat(k) ==
    /\ pc[k] = "loop" /\ op[k] = "beat"
    /\ Advance(k)
    /\ UNCHANGED <<markers, mutex, deadline, crashes, child, strays, stale, counters>>
\* ... or a log file that stands still, and restarts where that is enabled.
RestartHung(k) ==
    /\ HangAutorestart
    /\ pc[k] = "loop" /\ op[k] = "beat" /\ child[k][Bot(k)] = "up"
    /\ falls < MaxCrashes /\ falls' = falls + 1
    /\ Forget(k) /\ Backoff(k)
    /\ UNCHANGED <<markers, pc, mutex, at, strays, stale, kills, orders>>

----------------------------------------------------------------------------
(* Ends: signals, hard kills, crashes; time; orders.                       *)

\* _handle_shutdown_signal, possible once the handlers are installed; it runs
\* between two steps of the main thread.
Signal(k) ==
    /\ pc[k] \in {"stagger", "loop"}
    /\ kills < MaxKills /\ kills' = kills + 1
    /\ pc' = [pc EXCEPT ![k] = "stopping"]
    /\ UNCHANGED <<markers, mutex, loopvars, child, strays, stale, falls, orders>>

\* shutdown_all stops the tracked processes one by one, then the watchdog ends.
ShutDown(k) ==
    /\ pc[k] = "stopping"
    /\ \/ \E b \in Bots :
            /\ child[k][b] \in {"up", "down"}
            /\ child' = [child EXCEPT ![k][b] = "none"]
            /\ UNCHANGED <<pc, mutex, strays>>
       \/ /\ \A b \in Bots : child[k][b] \notin {"up", "down"}
          /\ pc' = [pc EXCEPT ![k] = "dead"]
          /\ mutex' = mutex \ {k}
          /\ strays' = Orphaned({k})
          /\ child' = [child EXCEPT ![k] = Childless]
    /\ UNCHANGED <<markers, loopvars, stale, counters>>

\* taskkill /F or a native crash: no handler runs.
Die(k) ==
    /\ Alive(k)
    /\ kills < MaxKills /\ kills' = kills + 1
    /\ pc' = [pc EXCEPT ![k] = "dead"]
    /\ mutex' = mutex \ {k}
    /\ strays' = Orphaned({k})
    /\ child' = [child EXCEPT ![k] = Childless]
    /\ UNCHANGED <<markers, loopvars, stale, falls, orders>>

Crash(b) ==
    /\ falls < MaxCrashes /\ falls' = falls + 1
    /\ \/ /\ strays[b] > 0
          /\ strays' = [strays EXCEPT ![b] = @ - 1]
          /\ UNCHANGED child
       \/ \E k \in Dogs :
            /\ child[k][b] \in Living
            /\ child' = [child EXCEPT ![k][b] = IF @ = "up" THEN "down" ELSE "stillborn"]
            /\ UNCHANGED strays
    /\ UNCHANGED <<markers, pc, mutex, loopvars, stale, kills, orders>>

\* A deadline, or the hour in which crashes count, passes.
Expire(k, b) ==
    /\ deadline[k][b] = "pending"
    /\ deadline' = [deadline EXCEPT ![k][b] = "due"]
    /\ UNCHANGED <<markers, pc, mutex, at, op, crashes, child, strays, stale, counters>>
HourPasses(k, b) ==
    /\ crashes[k][b] > 0
    /\ crashes' = [crashes EXCEPT ![k][b] = 0]
    /\ UNCHANGED <<markers, pc, mutex, at, op, deadline, child, strays, stale, counters>>

\* The dashboard's stop, start and restart, and the health monitor's restart of
\* the ingestion, write and remove marker files.
Order ==
    /\ orders < MaxOrders /\ orders' = orders + 1
    /\ UNCHANGED <<pc, mutex, loopvars, child, strays, kills, falls>>
Park(b) == Order /\ parked' = parked \cup {b} /\ UNCHANGED <<asked, stale>>
Unpark(b) == Order /\ b \in parked /\ parked' = parked \ {b} /\ UNCHANGED <<asked, stale>>
RequestRestart(b) ==
    Order /\ asked' = asked \cup {b} /\ stale' = stale \cup {b} /\ UNCHANGED parked

----------------------------------------------------------------------------
Init ==
    /\ parked \in SUBSET Bots /\ asked = {}     \* parked markers survive
    /\ pc = [k \in Dogs |-> "off"] /\ mutex = {}
    /\ at = [k \in Dogs |-> 1] /\ op = [k \in Dogs |-> "look"]
    /\ child = [k \in Dogs |-> Childless]
    /\ deadline = [k \in Dogs |-> [b \in Bots |-> "none"]]
    /\ crashes = [k \in Dogs |-> [b \in Bots |-> 0]]
    /\ strays = [b \in Bots |-> 0]
    /\ stale = {} /\ kills = 0 /\ falls = 0 /\ orders = 0

Work(k) ==
    \/ TakeMutex(k) \/ ReapWatchdogs(k) \/ RetryMutex(k) \/ Sweep(k) \/ Stagger(k)
    \/ Launch(k) \/ Enter(k) \/ Supervise(k) \/ Beat(k) \/ ShutDown(k)
Outside ==
    \/ \E k \in Dogs : StartDog(k) \/ Signal(k) \/ Die(k) \/ RestartHung(k)
    \/ \E b \in Bots : Crash(b) \/ Park(b) \/ Unpark(b) \/ RequestRestart(b)
    \/ \E k \in Dogs, b \in Bots : Expire(k, b) \/ HourPasses(k, b)
Next == Outside \/ \E k \in Dogs : Work(k)

Spec == Init /\ [][Next]_vars
\* The watchdog's thread runs on; backoff deadlines come.
Fairness == \A k \in Dogs :
    WF_vars(Work(k)) /\ \A b \in Bots : WF_vars(Expire(k, b))
FairSpec == Spec /\ Fairness

----------------------------------------------------------------------------
(* What must hold.                                                         *)

TypeOK ==
    /\ parked \subseteq Bots /\ asked \subseteq Bots
    /\ pc \in [Dogs -> {"off", "lock", "retry", "dead"} \cup Working]
    /\ mutex \subseteq Dogs
    /\ at \in [Dogs -> DOMAIN Fleet]
    /\ op \in [Dogs -> {"look", "launch", "enter", "beat"}]
    /\ child \in [Dogs -> [Bots -> {"none", "up", "down", "born", "stillborn"}]]
    /\ deadline \in [Dogs -> [Bots -> {"none", "pending", "due"}]]
    /\ crashes \in [Dogs -> [Bots -> 0 .. 2]]
    /\ strays \in [Bots -> Nat]
    /\ stale \subseteq Bots /\ kills \in Nat /\ falls \in Nat /\ orders \in Nat

\* One fleet: no bot ever runs twice, however watchdogs are started, killed,
\* signalled and reaped ("every Cornix signal doubled", main_watchdog.py:115).
NoDouble == \A b \in Bots : Running(b) <= 1

\* Past the mutex there is one watchdog, and it holds the mutex.
OneWatchdog == \A j, k \in Dogs : pc[j] \in Working /\ pc[k] \in Working => j = k

\* main_watchdog.py:724: "on every exit path (even unexpected) terminate the
\* children before the watchdog dies".
ChildrenStopped == [][\A k \in Dogs :
    pc[k] = "stopping" /\ pc'[k] = "dead" => strays' = strays]_vars

Unwatched == \A k \in Dogs : pc[k] # "loop"
\* A parked bot is stopped, whatever deadline, crash or request is pending.
ParkHonoured == \A b \in Bots :
    b \in parked ~> (b \notin parked \/ Running(b) = 0 \/ Unwatched)

\* Every restart asked for leads to a process started after it.
RestartServed == \A b \in Bots :
    b \in stale ~> (b \notin stale \/ b \in parked \/ Unwatched)

\* A bot that is not parked runs again after a crash, at once or after the
\* backoff.
Recovered == \A b \in Bots :
    Running(b) = 0 ~> (Running(b) > 0 \/ b \in parked \/ Unwatched)
=============================================================================
