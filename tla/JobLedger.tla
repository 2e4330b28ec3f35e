------------------------------ MODULE JobLedger ------------------------------
(***************************************************************************)
(* What the pipeline queue promises while the workers that have heartbeats *)
(* keep their leases and no statement fails: each job is worked on by at   *)
(* most one live worker at a time, at most Budget times in all, only the   *)
(* worker that is on it settles it, and a settled job is never touched     *)
(* again.  A job that is worked on without heartbeats may go back to the   *)
(* queue under its worker's hands; then it waits there, taken by nobody    *)
(* else, until that worker settles it or is gone.  Nothing here speaks of  *)
(* leases, heartbeats, clocks, runs or statements.                         *)
(***************************************************************************)
EXTENDS Integers

CONSTANTS
    Jobs, Workers,
    Unleased,   \* the jobs that are worked on without heartbeats
    Budget      \* how often each job may be taken

VARIABLES
    phase,      \* where each job is in its life
    active,     \* the live workers that are working on each job
    tries       \* how often each job was taken

vars == <<phase, active, tries>>

Phases == {"absent", "pending", "running", "succeeded", "failed"}

Init ==
    /\ phase  = [j \in Jobs |-> "absent"]
    /\ active = [j \in Jobs |-> {}]
    /\ tries  = [j \in Jobs |-> 0]

Submit(j) ==
    /\ phase[j] = "absent"
    /\ phase' = [phase EXCEPT ![j] = "pending"]
    /\ UNCHANGED <<active, tries>>

\* A job with budget left, on which nobody works, is taken: by a worker that
\* goes on to work on it, or by one that never learns of it.
Take(j) ==
    /\ phase[j] = "pending"
    /\ active[j] = {}
    /\ tries[j] < Budget[j]
    /\ phase' = [phase EXCEPT ![j] = "running"]
    /\ tries' = [tries EXCEPT ![j] = @ + 1]
    /\ \E team \in {{}} \cup {{w} : w \in Workers} :
          active' = [active EXCEPT ![j] = team]

\* A worker is on the job, which is running, or back in the queue without the
\* worker's knowledge.
InHand(j) ==
    /\ active[j] # {}
    /\ phase[j] = "running" \/ (j \in Unleased /\ phase[j] = "pending")

\* The worker dies and the job stays where it is.
Vanish(j) ==
    /\ InHand(j)
    /\ active' = [active EXCEPT ![j] = {}]
    /\ UNCHANGED <<phase, tries>>

\* Jobs nobody works on any more go back to the queue, several at a time, and
\* with them jobs of which, for want of heartbeats, nobody can tell.
Reclaim(S) ==
    /\ \A j \in S : phase[j] = "running" /\ (active[j] = {} \/ j \in Unleased)
    /\ phase' = [j \in Jobs |-> IF j \in S THEN "pending" ELSE phase[j]]
    /\ UNCHANGED <<active, tries>>

\* The one worker on a job gives it back or settles it; it gives up for good
\* only when the budget is spent, and gives back only while some is left.
Settle(j, outcome) ==
    /\ InHand(j)
    /\ outcome = "pending" => tries[j] < Budget[j]
    /\ outcome = "failed" => tries[j] = Budget[j]
    /\ phase'  = [phase EXCEPT ![j] = outcome]
    /\ active' = [active EXCEPT ![j] = {}]
    /\ UNCHANGED tries

Next ==
    \/ \E j \in Jobs :
          \/ Submit(j) \/ Take(j) \/ Vanish(j)
          \/ \E outcome \in {"pending", "succeeded", "failed"} : Settle(j, outcome)
    \/ \E S \in SUBSET Jobs : Reclaim(S)

Spec == Init /\ [][Next]_vars
=============================================================================
