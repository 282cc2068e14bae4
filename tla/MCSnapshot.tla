----------------------------- MODULE MCSnapshot -----------------------------
(***************************************************************************)
(* Small instances of Snapshot: the store keeps two candles and one        *)
(* indicator row, of up to three periods.                                  *)
(***************************************************************************)
EXTENDS Snapshot

MCLookback == [t \in Tables |-> IF t = "candles" THEN 2 ELSE 1]
Read(k, n, a, b) == [kind |-> k, limit |-> n, start |-> a, end |-> b]
NoLimit == Last + 1
NoEnd == Last + 1

MCRequests ==
    {Read("candles", 2, 0, NoEnd), Read("candles", NoLimit, 1, NoEnd),
     Read("indicators", 1, 0, NoEnd), Read("joined", 1, 0, NoEnd),
     Read("candles", 1, 0, 2)}
=============================================================================
