----------------------------- MODULE MCTrailing -----------------------------
(***************************************************************************)
(* Small instances of Trailing.  Sources 1 (long) and 2 (short) are on one *)
(* symbol, 3 (short) and 4 (long) on two others.  A long trade is entered  *)
(* at 1, with its stop at 0; a short one too, with its stop at 3.  A mark  *)
(* above 0 arms the trail, which fires at half the peak.                   *)
(***************************************************************************)
EXTENDS Trailing

CONSTANTS x, y, z, b1, b2

MCSymbolOf == [s \in Sources |-> CASE s = 3 -> y [] s = 4 -> z [] OTHER -> x]
MCLongOf == [s \in Sources |-> s \notin {2, 3}]
MCStopOf == [s \in Sources |-> IF s \in {2, 3} THEN 3 ELSE 0]
MCFirstTarget == [s \in Sources |-> IF s \in {2, 3} THEN 0 ELSE 2]
MCDensity == [s \in Sources |-> IF s = 4 THEN 4 ELSE 3 - s]
FourQuotes == {NoPrice, 0, 1, 3}
TwoQuotes == {NoPrice, 1}
Cast(ss, bs, n) == [sources |-> ss, bots |-> bs, faults |-> n]
MCCasts == {Cast({1, 2}, {b1}, 1), Cast({1, 3}, {b1}, 0), Cast({1, 4}, {b1}, 0)}
LiveCasts == {Cast({1, 3}, {b1}, 1), Cast({1, 4}, {b1}, 0), Cast({1}, {b1, b2}, 0)}
ExposureCasts == {Cast({1, 3, 4}, {b1}, 0)}
ShortFirst == [s \in Sources |-> s % 4]
OneChannel == <<1>>
TwoChannels == <<1, 2>>
=============================================================================
