---------------------------- MODULE MCPriceMatch ----------------------------
(***************************************************************************)
(* Values for the constants of PriceMatch: small instances for TLC.        *)
(***************************************************************************)
EXTENDS PriceMatch

CONSTANTS w, s

\* The first two calls have a horizon at the fourth tick, for which there is no
\* candle: from then on they are never complete, and the third is, at first, of
\* that tick too.
ThreeCalls == {1, 2, 3}
Dates == [c \in Calls |-> IF c = 3 THEN 4 ELSE 1]
ThirdIsOlder == [c \in Calls |-> IF c = 3 THEN 2 ELSE 1]
CallAndTwoHorizons == {"call", "7d", "30d"}
Horizons == [q \in Quotes |-> CASE q = "call" -> 0 [] q = "7d" -> 2 [] q = "30d" -> 3]

WorkerAndScript == {w, s}
OneWorker == {w}

\* A script keeps no connection: which one has its lock makes no difference.
OneOrTwo == [p \in Procs |-> IF p \in Workers THEN {1, 2} ELSE {1}]

Option(all, fetch, set) == [all |-> all, fetch |-> fetch, set |-> set, limit |-> 2]

JobAndSchedule ==
    [p \in Procs |->
        {IF p \in Workers THEN Option(FALSE, FALSE, FALSE)
                          ELSE Option(FALSE, TRUE, FALSE)}]

AllOrSetBased == {Option(TRUE, FALSE, TRUE), Option(TRUE, FALSE, FALSE)}

FirstTwoTicks == {1, 2}
=============================================================================
