------------------------------ MODULE MCOutbox ------------------------------
(***************************************************************************)
(* Small instances of Outbox: rows 1 and 2 go to a trading channel and     *)
(* share a chart, row 3 goes to an info channel.                           *)
(***************************************************************************)
EXTENDS Outbox

CONSTANTS trade, info, picture, none

MCChannelOf == [m \in Messages |-> IF m <= 2 THEN trade ELSE info]
MCMixed == [m \in Messages |-> IF m = 1 THEN info ELSE trade]
MCImageOf == [m \in Messages |-> IF m <= 2 THEN picture ELSE none]
MCNoImages == [m \in Messages |-> none]
=============================================================================
