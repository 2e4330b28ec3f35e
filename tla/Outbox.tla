------------------------------- MODULE Outbox --------------------------------
(***************************************************************************)
(* What the outbox of alert mails promises: an alert is queued once, is in *)
(* the hand of one runner at a time, goes out to its user in a digest of   *)
(* all that runner holds for him, and is not touched after that.  A runner *)
(* takes nothing of a user who has opted out and mails nobody without an   *)
(* address.  What it cannot mail it puts back, or drops for good; and of   *)
(* what it has in hand it may lose track, which is the only way in which   *)
(* an alert gets out of this specification.                                *)
(*                                                                         *)
(* Nothing here speaks of rows, statements, batches, deadlines or faults.  *)
(***************************************************************************)
EXTENDS Integers

CONSTANTS Alerts, Users, Owner, Runners

VARIABLES
    stage,      \* where each alert is in its life
    hand,       \* the alerts each runner has taken and not dealt with
    addressed,  \* users with an address
    optout      \* users who want no more mail

vars == <<stage, hand, addressed, optout>>

Stages == {"none", "pending", "taken", "mailed", "doubtful"}

Init ==
    /\ stage = [a \in Alerts |-> "none"]
    /\ hand = [r \in Runners |-> {}]
    /\ addressed \subseteq Users /\ optout = {}

Move(S, to) == stage' = [a \in Alerts |-> IF a \in S THEN to ELSE stage[a]]
Release(r, S) == hand' = [hand EXCEPT ![r] = @ \ S]

OptOut(u) ==
    /\ optout' = optout \cup {u}
    /\ UNCHANGED <<stage, hand, addressed>>

Submit(a) ==
    /\ stage[a] = "none"
    /\ Move({a}, "pending")
    /\ UNCHANGED <<hand, addressed, optout>>

\* A runner takes alerts, or they are taken and nobody learns of it.
Take(r, S) ==
    /\ hand[r] = {}
    /\ \A a \in S : stage[a] = "pending" /\ Owner[a] \notin optout
    /\ Move(S, "taken")
    /\ hand' = [hand EXCEPT ![r] = S] \/ UNCHANGED hand
    /\ UNCHANGED <<addressed, optout>>

For(r, u) == {a \in hand[r] : Owner[a] = u}

Mail(r, u) ==
    /\ u \in addressed
    /\ Move(For(r, u), "mailed")
    /\ Release(r, For(r, u))
    /\ UNCHANGED <<addressed, optout>>

\* Put back, drop or lose track of some of what is in hand.
PutBack(r, S) ==
    /\ S \subseteq hand[r]
    /\ Move(S, "pending")
    /\ Release(r, S)
    /\ UNCHANGED <<addressed, optout>>

Drop(r, S) ==
    /\ S \subseteq hand[r]
    /\ Release(r, S)
    /\ UNCHANGED <<stage, addressed, optout>>

Lose(r, S) ==
    /\ S \subseteq hand[r]
    /\ Move(S, "doubtful")
    /\ Release(r, S)
    /\ UNCHANGED <<addressed, optout>>

Next ==
    \/ \E u \in Users : OptOut(u)
    \/ \E a \in Alerts : Submit(a)
    \/ \E r \in Runners :
          \/ \E u \in Users : Mail(r, u)
          \/ \E S \in SUBSET Alerts :
                Take(r, S) \/ PutBack(r, S) \/ Drop(r, S) \/ Lose(r, S)

Spec == Init /\ [][Next]_vars
=============================================================================
