--------------------------- MODULE MCPipelineJobs ---------------------------
(***************************************************************************)
(* Values for the constants of PipelineJobs: small instances for TLC.      *)
(***************************************************************************)
EXTENDS PipelineJobs

CONSTANTS j1, j2, w1, w2, lp, lq

OneJob   == {j1}
TwoJobs  == {j1, j2}
TwoHermes == {w1, w2}
TwoLaptops == {lp, lq}
HermesAndTwoLaptops == {w1, w2, lp, lq}
NoLaptop == {}
LaptopJob == {j2}

\* compute_scores: max_attempts 2.
TwoAttempts == [j \in Jobs |-> 2]
\* transcript_collect_laptop and candidate admission: max_attempts 1.
OneAttempt == [j \in Jobs |-> 1]
MixedAttempts == [j \in Jobs |-> IF j = j1 THEN 2 ELSE 1]

\* j1 goes before the others: nightly verification before scoring.
FirstPriority == [j \in Jobs |-> IF j = j1 THEN 100 ELSE 70]
SamePriority == [j \in Jobs |-> 55]

\* Every fault at once.
AnyHazard == {"crash", "slow", "error", "lost", "monitor"}
\* Workers die and replies get lost, but live workers keep their leases.
CrashAndLoss == {"crash", "lost"}
CrashOnly == {"crash"}
=============================================================================
