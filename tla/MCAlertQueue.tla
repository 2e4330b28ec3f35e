---------------------------- MODULE MCAlertQueue ----------------------------
(***************************************************************************)
(* Values for the constants of AlertQueue: small instances for TLC.        *)
(***************************************************************************)
EXTENDS AlertQueue, TLC

CONSTANTS u1, u2, c1, a1, a2, cron, script

\* One call, watched by two users, each with an address or without.
TwoAlerts   == {a1, a2}
TwoUsers    == {u1, u2}
OneCreator  == {c1}
EachOwns    == [a \in Alerts |-> IF a = a1 THEN u1 ELSE u2]
AboutOf     == [a \in Alerts |-> c1]
\* Both rows fit into one batch: their order does not matter.
NoRank      == [a \in Alerts |-> 1]
CronAndScript == {cron, script}
OneCron     == {cron}
AnyHazard   == AllHazards

\* The users, each with an alert of his own, are interchangeable.
UserSymmetry ==
    {p \in Permutations(Users \cup Alerts) : \A a \in Alerts :
        p[a] \in Alerts /\ Owner[p[a]] = p[Owner[a]]}
=============================================================================
