------------------------------- MODULE Rollout -------------------------------
(***************************************************************************)
(* What deploying an app promises: the branch and the site only go forward *)
(* but for a rollback by hand; one promotion is asked for at a time, of a  *)
(* commit that is at the remote and newer than all that was ever shown;    *)
(* what is put on record is the newest commit that was shown, and the      *)
(* first time only when the app has its address.  Once the outcome of a    *)
(* change is unknown nothing more is done: what was asked for may still    *)
(* come about, and people may still step in.                               *)
(*                                                                         *)
(* Nothing here speaks of calls, runs, logs, steps, builds or faults.      *)
(***************************************************************************)
EXTENDS Integers

CONSTANT Commits

VARIABLES
    branch,     \* the newest commit at the remote, 0 if none
    site,       \* the commit behind the domain, 0 if none
    asked,      \* the promotion that is under way, if any
    shown,      \* the commits that have been behind the domain
    record,     \* the commit on record, 0 if none
    address,    \* the app has its address
    stuck       \* the outcome of some change is unknown

vars == <<branch, site, asked, shown, record, address, stuck>>

Init ==
    /\ branch = 0 /\ site = 0 /\ record = 0
    /\ asked = {} /\ shown = {}
    /\ address \in BOOLEAN /\ stuck = FALSE

Newest(c) == \A b \in shown : b <= c

-----------------------------------------------------------------------------
(* Changes, with an outcome that may remain unknown *)

Send(c) ==
    /\ ~stuck
    /\ branch <= c
    /\ branch' = c /\ stuck' \in BOOLEAN
    /\ UNCHANGED <<site, asked, shown, record, address>>

Ask(c) ==
    /\ ~stuck
    /\ asked = {}
    /\ c <= branch /\ c # site /\ Newest(c)
    /\ asked' = {c} /\ stuck' \in BOOLEAN
    /\ UNCHANGED <<branch, site, shown, record, address>>

Move ==
    /\ ~stuck
    /\ address' = TRUE /\ stuck' \in BOOLEAN
    /\ UNCHANGED <<branch, site, asked, shown, record>>

LoseTrack ==
    /\ stuck' = TRUE
    /\ UNCHANGED <<branch, site, asked, shown, record, address>>

-----------------------------------------------------------------------------
(* The site, which nobody stops *)

Show(c) ==
    /\ asked = {c}
    /\ asked' = {} /\ site' = c /\ shown' = shown \cup {c}
    /\ UNCHANGED <<branch, record, address, stuck>>

RollBack(c) ==
    /\ c \in shown /\ c < site
    /\ site' = c
    /\ UNCHANGED <<branch, asked, shown, record, address, stuck>>

-----------------------------------------------------------------------------
(* The record: of a deploy, or a correction of what is there *)

Write(c) ==
    /\ ~stuck
    /\ asked = {} /\ c \in shown /\ Newest(c)
    /\ address \/ record # 0
    /\ record' = c
    /\ UNCHANGED <<branch, site, asked, shown, address, stuck>>

Next ==
    \/ Move \/ LoseTrack
    \/ \E c \in Commits : Send(c) \/ Ask(c) \/ Show(c) \/ RollBack(c) \/ Write(c)

Spec == Init /\ [][Next]_vars
=============================================================================
