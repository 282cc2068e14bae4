----------------------------- MODULE MCCandles -----------------------------
(***************************************************************************)
(* A small instance of Candles: eight periods, a catch-up in each, which   *)
(* looks three back, a gap filler every second one, and outages of one     *)
(* period.  The cfg gives plain numbers.  They keep what the candles of    *)
(* four hours have and the properties need: the time between two           *)
(* catch-ups and the longest outage fit into the overlap and into the save *)
(* window (3, 2, 6 and 5 there).                                           *)
(***************************************************************************)
EXTENDS Candles
=============================================================================
