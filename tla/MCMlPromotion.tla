--------------------------- MODULE MCMlPromotion ----------------------------
(***************************************************************************)
(* Values for the constants of MlPromotion: small instances for TLC.       *)
(***************************************************************************)
EXTENDS MlPromotion

CONSTANTS call, m1, b1, b2, e1, e2, v1

OneCall == {call}
OneModel == {m1}
TwoBatches == {b1, b2}
\* Two batches that may overlap ask one model.
AskOne == [b \in Batches |-> m1]
TwoAttempts == {e1, e2}
TakeOne == [e \in Attempts |-> {m1}]
OneValidator == {v1}
\* A call that is a candidate for each of the reasons, or for want of each not;
\* an ambiguous one stays what it is.
FiveProfiles ==
    {{"transcript"}, {"transcript", "ready"}, {"transcript", "recent"},
     {"ready", "recent"}, {"ambiguous", "transcript", "ready"}}
=============================================================================
