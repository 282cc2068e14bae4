----------------------------- MODULE MCMonitor -----------------------------
(***************************************************************************)
(* Small instances of Monitor.  A long trade enters at 1, with its stop at *)
(* 0 and targets from 2 up; the limit order sells at 2, with its stop at 3 *)
(* and its target at 1, and expires after one candle.                      *)
(***************************************************************************)
EXTENDS Monitor

CONSTANTS x, y, other

Market(c, targets) ==
    [coin |-> c, long |-> TRUE, entry |-> 1, stop |-> 0, targets |-> targets,
     limit |-> FALSE, legacy |-> FALSE, horizon |-> 0]
Legacy(c) == [Market(c, <<2>>) EXCEPT !.legacy = TRUE]
Limit(c) ==
    [coin |-> c, long |-> FALSE, entry |-> 2, stop |-> 3, targets |-> <<1>>,
     limit |-> TRUE, legacy |-> FALSE, horizon |-> 1]

MCKinds == [t \in Trades |-> CASE t = 1 -> Market(x, <<2, 3>>) [] t = 2 -> Limit(x) [] OTHER -> Legacy(x)]
MCTwoCoins == [t \in Trades |-> Market(IF t = 1 THEN x ELSE y, <<2>>)]
MCBooks == [t \in Trades |-> IF t = 1 THEN Market(x, <<2>>) ELSE Legacy(x)]
=============================================================================
