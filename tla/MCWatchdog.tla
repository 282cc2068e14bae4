---------------------------- MODULE MCWatchdog ----------------------------
(***************************************************************************)
(* Small instances of Watchdog: two bots, the first one recycled.          *)
(***************************************************************************)
EXTENDS Watchdog

CONSTANTS ingestion, trader
TwoBots == <<ingestion, trader>>
OneBot == <<ingestion>>
=============================================================================
