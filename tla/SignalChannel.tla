--------------------------- MODULE SignalChannel ---------------------------
(***************************************************************************)
(* What the outbox promises for trading channels, 4_telegram_bot.py: a     *)
(* queue per channel that may lose a signal but never doubles one, never   *)
(* lets an older one follow a newer one, and never hands out a signal that *)
(* has been written off.                                                   *)
(***************************************************************************)
EXTENDS Naturals

CONSTANTS Signals, ChannelOf

VARIABLES
    queued,     \* signals some bot has posted
    taken,      \* signals Cornix has received
    closed      \* signals the dispatcher is done with, received or not

vars == <<queued, taken, closed>>

Init == queued = {} /\ taken = {} /\ closed = {}

Post(m) ==
    /\ m \in Signals \ queued
    /\ queued' = queued \cup {m}
    /\ UNCHANGED <<taken, closed>>

Take(m) ==
    /\ m \in queued \ (taken \cup closed)
    /\ \A n \in taken : ChannelOf[n] = ChannelOf[m] => n < m
    /\ taken' = taken \cup {m}
    /\ UNCHANGED <<queued, closed>>

Close(ms) ==
    /\ ms # {} /\ ms \subseteq queued \ closed
    /\ closed' = closed \cup ms
    /\ UNCHANGED <<queued, taken>>

Next == \/ \E m \in Signals : Post(m) \/ Take(m)
        \/ \E ms \in SUBSET Signals : Close(ms)

Spec == Init /\ [][Next]_vars
=============================================================================
