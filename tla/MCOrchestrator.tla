--------------------------- MODULE MCOrchestrator ---------------------------
(***************************************************************************)
(* Small instances of Orchestrator: one coin, two directions, two bots.    *)
(* Bot a is whitelisted in regime calm only, bot b in both for LONG and in *)
(* storm only for SHORT; the fallback lets a through.                      *)
(***************************************************************************)
EXTENDS Orchestrator

CONSTANTS coin, a, b, calm, storm, none

MCSignalOf == [s \in Signals |->
    [coin |-> coin,
     direction |-> IF s = 2 THEN "SHORT" ELSE "LONG",
     bot |-> IF s = 1 THEN a ELSE b]]
MCCell == [c \in Bots \X Directions \X Regimes |->
    \/ c[1] = a /\ c[3] = calm
    \/ c[1] = b /\ (c[2] = "LONG" \/ c[3] = storm)]
MCNoOrigin == [t \in {} |-> 0]
MCLegacyOrigin == [t \in {1, 2} |-> t]
MCFallback == [c \in Bots \X Directions |-> c[1] = a]
=============================================================================
