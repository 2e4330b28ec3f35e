----------------------------- MODULE AuditTrail ------------------------------
(***************************************************************************)
(* What an audited promotion promises.  There are two ways to raise the    *)
(* level of a call.  The one goes through a row of the trail that is       *)
(* running and names the call as a candidate, in one step with what the    *)
(* row is accountable for, and the step takes those of the candidates that *)
(* are still low and approved, no more and no less.  The other is open to  *)
(* a call that has been cleared before, and leaves no row.  A row that     *)
(* ends tells what it is accountable for; a row whose attempt was struck   *)
(* by a failure may tell less of it, and only such a row may be closed as  *)
(* failed.                                                                 *)
(*                                                                         *)
(* Nothing here speaks of attempts, statements, replies or batches, nor of *)
(* the runs that clear a call and raise it.                                *)
(***************************************************************************)
EXTENDS Sequences, Integers

CONSTANTS
    Calls, Models,
    Panels      \* the sets of models whose approval one may ask for

VARIABLES
    level,      \* low, high or gone
    backed,     \* who approves of what: pairs of a call and a model
    trail,      \* the rows: candidates, what they did and what they tell
    cleared     \* the calls that are on record as to be raised

vars == <<level, backed, trail, cleared>>

Init ==
    /\ level = [c \in Calls |-> "low"]
    /\ backed = {}
    /\ trail = <<>>
    /\ cleared = {}

-----------------------------------------------------------------------------
(* Calls and approvals come and go *)

Judge(c, m) ==
    /\ level[c] # "gone"
    /\ backed' \in {backed \cup {<<c, m>>}, backed \ {<<c, m>>}}
    /\ UNCHANGED <<level, trail, cleared>>

Withdraw(c) ==
    /\ level' = [level EXCEPT ![c] = "gone"]
    /\ backed' = backed \ ({c} \X Models)
    /\ cleared' = cleared \ {c}
    /\ UNCHANGED trail

Clear(c) ==
    /\ level[c] # "gone"
    /\ cleared' = cleared \cup {c}
    /\ UNCHANGED <<level, backed, trail>>

RaiseCleared ==
    /\ \E S \in SUBSET cleared :
          level' = [c \in Calls |->
              IF c \in S /\ level[c] = "low" THEN "high" ELSE level[c]]
    /\ UNCHANGED <<backed, trail, cleared>>

-----------------------------------------------------------------------------
(* Rows *)

NewRow(r) ==
    /\ r.status \in {"barred", "running"}
    /\ r.did = {} /\ r.promoted = {}

\* A row is opened, or two when one is repeated.
Open ==
    /\ Len(trail') \in {Len(trail) + 1, Len(trail) + 2}
    /\ \A i \in DOMAIN trail : trail'[i] = trail[i]
    /\ \A i \in DOMAIN trail' \ DOMAIN trail : NewRow(trail'[i])
    /\ UNCHANGED <<level, backed, cleared>>

Due(i, P) ==
    {c \in trail[i].cands : level[c] = "low" /\ \E m \in P : <<c, m>> \in backed}

Raise(i, P) ==
    /\ trail[i].status = "running" /\ trail[i].did = {}
    /\ level' = [c \in Calls |-> IF c \in Due(i, P) THEN "high" ELSE level[c]]
    /\ \E h \in BOOLEAN :
          trail' = [trail EXCEPT ![i].did = Due(i, P), ![i].hit = @ \/ h]
    /\ UNCHANGED <<backed, cleared>>

Strike(i) ==
    /\ trail[i].status \in {"running", "succeeded"}
    /\ trail' = [trail EXCEPT ![i].hit = TRUE]
    /\ UNCHANGED <<level, backed, cleared>>

Succeed(i) ==
    /\ trail[i].status = "running"
    /\ \E S \in SUBSET trail[i].did :
          /\ trail[i].hit \/ S = trail[i].did
          /\ trail' = [trail EXCEPT ![i].status = "succeeded", ![i].promoted = S]
    /\ UNCHANGED <<level, backed, cleared>>

Fail(i) ==
    /\ trail[i].status \in {"running", "succeeded"} /\ trail[i].hit
    /\ trail' = [trail EXCEPT ![i].status = "failed", ![i].promoted = {}]
    /\ UNCHANGED <<level, backed, cleared>>

Next ==
    \/ \E c \in Calls : Withdraw(c) \/ Clear(c) \/ \E m \in Models : Judge(c, m)
    \/ RaiseCleared
    \/ Open
    \/ \E i \in DOMAIN trail :
          Strike(i) \/ Succeed(i) \/ Fail(i) \/ \E P \in Panels : Raise(i, P)

Spec == Init /\ [][Next]_vars
=============================================================================
