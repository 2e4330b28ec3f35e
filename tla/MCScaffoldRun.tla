--------------------------- MODULE MCScaffoldRun ----------------------------
(***************************************************************************)
(* Values for the constants of ScaffoldRun: small instances for TLC.       *)
(***************************************************************************)
EXTENDS ScaffoldRun

CONSTANTS d1, r1, r2

OneCaller == {d1}
TwoRuns == {r1, r2}

\* Every fault, but one call at a time.
InTurn == AllHazards \ {"overlap"}
=============================================================================
