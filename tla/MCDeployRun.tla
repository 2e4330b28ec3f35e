----------------------------- MODULE MCDeployRun -----------------------------
(***************************************************************************)
(* Values for the constants of DeployRun: small instances for TLC.         *)
(***************************************************************************)
EXTENDS DeployRun

CONSTANTS d1, r1, r2

OneCaller   == {d1}
TwoRuns     == {r1, r2}

\* One call at a time, which leaves the choice of the run to the manifest.
InTurn      == AllHazards \ {"overlap", "named"}
RefusedOnly == {"refused"}
=============================================================================
