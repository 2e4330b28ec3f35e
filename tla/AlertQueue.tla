----------------------------- MODULE AlertQueue -----------------------------
(***************************************************************************)
(* The outbox of alert mails of callscore-web: watchlists, alerts_queue    *)
(* and alerts_unsubscribes (src/lib/alerts.ts), the scan that fills the    *)
(* queue and the two runners that empty it, the deadline-bound cron route  *)
(* (src/lib/alert-jobs.ts) and the script (scripts/send-queued-alerts.ts). *)
(*                                                                         *)
(* A runner claims rows by setting sent_at, before it mails them, and puts *)
(* sent_at back to NULL when a mail fails.  Every statement and every mail *)
(* is one action.  An alert is a row of alerts_queue, which is unique per  *)
(* user and call.                                                          *)
(***************************************************************************)
EXTENDS Integers, FiniteSets

CONSTANTS
    Alerts,         \* the (user, call) pairs a row may be made for
    Users,
    Creators,
    Owner,          \* the user of each alert
    About,          \* the creator of each alert's call
    Rank,           \* the place of each alert in the order of the claim
    Runners,        \* processes that send alerts
    Crons,          \* those that run runAlertSend under a deadline
    None,
    Limit,          \* the batch size of a claim
    MaxFaults,      \* bound: timeouts, deaths, lost replies and errors
    Hazards         \* which of AllHazards the environment may produce

AllHazards == {"bounce",    \* the mail service refuses a mail
               "timeout",   \* a mail is accepted but reported as failed
               "deadline",  \* a cron request runs out of time
               "crash",     \* a runner dies
               "error",     \* a statement that reverts a claim fails for good
               "lost"}      \* query() repeats a statement whose reply was lost

ASSUME AlertAssumption ==
    /\ Owner \in [Alerts -> Users]
    /\ About \in [Alerts -> Creators]
    /\ Rank \in [Alerts -> Int]
    /\ Crons \subseteq Runners
    /\ None \notin Users
    /\ Limit \in Nat \ {0}
    /\ MaxFaults \in Nat
    /\ Hazards \subseteq AllHazards

VARIABLES
    addressed,  \* the users whose row in users has an email: any set, for good
    watch,      \* watchlists: <<user, creator>>
    optout,     \* alerts_unsubscribes
    found,      \* what the scan has read and not yet queued
    row,        \* alerts_queue: no row, sent_at NULL, or sent_at set
    pc,
    batch,      \* the claimed rows a runner still has to deal with
    group,      \* the user whose digest a runner is at
    aborted,    \* the runner's deadline has passed
    sent,       \* how many mails with this alert the service accepted
    doubted,    \* alerts a timeout or a repeated statement made ambiguous
    forsaken,   \* claimed alerts given up by a death, a deadline, an error
    faults

people  == <<addressed, watch, optout, found>>
runner  == <<pc, batch, group, aborted>>
history == <<sent, doubted, forsaken, faults>>
vars == <<addressed, watch, optout, found, row, pc, batch, group, aborted,
          sent, doubted, forsaken, faults>>

RowState == {"none", "pending", "taken"}

Init ==
    /\ addressed \in SUBSET Users
    /\ watch = {} /\ optout = {} /\ found = {}
    /\ row = [a \in Alerts |-> "none"]
    /\ pc = [r \in Runners |-> "idle"]
    /\ batch = [r \in Runners |-> {}]
    /\ group = [r \in Runners |-> None]
    /\ aborted = [r \in Runners |-> FALSE]
    /\ sent = [a \in Alerts |-> 0]
    /\ doubted = {} /\ forsaken = {} /\ faults = 0

Fault(kind) == kind \in Hazards /\ faults < MaxFaults /\ faults' = faults + 1

-----------------------------------------------------------------------------
(* Users *)

Watch(u, c) ==
    /\ watch' = watch \cup {<<u, c>>}
    /\ UNCHANGED <<addressed, optout, found, row, runner, history>>

\* removeWatch deletes one row, and the second statement of
\* recordAlertUnsubscribe all rows of the user, whenever it comes.
Unwatch(u, C) ==
    /\ watch' = watch \ ({u} \X C)
    /\ UNCHANGED <<addressed, optout, found, row, runner, history>>

\* The first statement of recordAlertUnsubscribe.
OptOut(u) ==
    /\ optout' = optout \cup {u}
    /\ UNCHANGED <<addressed, watch, found, row, runner, history>>

-----------------------------------------------------------------------------
(* runAlertScan: one read of the watched new calls, one insert per pair,   *)
(* which leaves an existing row alone.                                     *)

Scan ==
    /\ found' = {a \in Alerts : <<Owner[a], About[a]>> \in watch}
    /\ UNCHANGED <<addressed, watch, optout, row, runner, history>>

\* Seeded fault: the insert overwrites a row that is there.
QueueAgain(a) ==
    /\ a \in found
    /\ found' = found \ {a}
    /\ row' = [row EXCEPT ![a] = "pending"]
    /\ UNCHANGED <<addressed, watch, optout, runner, history>>

Queue(a) ==
    /\ a \in found
    /\ found' = found \ {a}
    /\ row' = IF row[a] = "none" THEN [row EXCEPT ![a] = "pending"] ELSE row
    /\ UNCHANGED <<addressed, watch, optout, runner, history>>

-----------------------------------------------------------------------------
(* claimPendingAlerts *)

\* Seeded fault: the opt-out is not looked at.
ClaimableOptedOut == {a \in Alerts : row[a] = "pending"}

Claimable == {a \in Alerts : row[a] = "pending" /\ Owner[a] \notin optout}

\* The first Limit rows of the order by user and time.
Batches ==
    {S \in SUBSET Claimable :
        /\ Cardinality(S) = IF Cardinality(Claimable) < Limit
                              THEN Cardinality(Claimable) ELSE Limit
        /\ \A a \in S, b \in Claimable \ S : Rank[a] <= Rank[b]}

Take(S) == row' = [a \in Alerts |-> IF a \in S THEN "taken" ELSE row[a]]

Claim(r, S) ==
    /\ pc[r] = "idle"
    /\ S \in Batches /\ S # {}
    /\ Take(S)
    /\ pc' = [pc EXCEPT ![r] = "claimed"]
    /\ batch' = [batch EXCEPT ![r] = S]
    /\ UNCHANGED <<people, group, aborted, history>>

\* The claim is committed and its reply lost: query() repeats it and gets the
\* next rows, or none.
ClaimLost(r, S) ==
    /\ Fault("lost")
    /\ pc[r] = "idle"
    /\ S \in Batches /\ S # {}
    /\ Take(S)
    /\ forsaken' = forsaken \cup S
    /\ UNCHANGED <<people, runner, sent, doubted>>

-----------------------------------------------------------------------------
(* The runners *)

Goto(r, step) == pc' = [pc EXCEPT ![r] = step]

Settled(r, S) == batch' = [batch EXCEPT ![r] = @ \ S]

\* The runner ends and leaves what it still holds as it is.
GiveUp(r) ==
    /\ Goto(r, "idle")
    /\ batch' = [batch EXCEPT ![r] = {}]
    /\ group' = [group EXCEPT ![r] = None]
    /\ aborted' = [aborted EXCEPT ![r] = FALSE]
    /\ forsaken' = forsaken \cup batch[r]

Unaddressed(r) == {a \in batch[r] : Owner[a] \notin addressed}
Digest(r)      == {a \in batch[r] : Owner[a] = group[r]}

\* AbortSignal.timeout of createCronDeadlineSignal, at the steps after which
\* the code looks at it: in between it might as well pass a step later.
DeadlinePasses(r) ==
    /\ "deadline" \in Hazards
    /\ r \in Crons /\ ~aborted[r]
    /\ pc[r] \in {"claimed", "digests", "revert"}
    /\ aborted' = [aborted EXCEPT ![r] = TRUE]
    /\ UNCHANGED <<people, row, pc, batch, group, history>>

\* Back from the claim.  A deadline that passed meanwhile is noticed before
\* the try block that would revert the claim.
Sort(r) ==
    /\ pc[r] = "claimed"
    /\ ~aborted[r]
    /\ Goto(r, IF Unaddressed(r) # {} THEN "unaddressed" ELSE "digests")
    /\ UNCHANGED <<people, row, batch, group, aborted, history>>

AbortEarly(r) ==
    /\ pc[r] = "claimed"
    /\ aborted[r]
    /\ GiveUp(r)
    /\ UNCHANGED <<people, row, sent, doubted, faults>>

NextDigest(r, u) ==
    /\ pc[r] = "digests"
    /\ ~aborted[r]
    /\ \E a \in batch[r] : Owner[a] = u
    /\ group' = [group EXCEPT ![r] = u]
    /\ Goto(r, "mail")
    /\ UNCHANGED <<people, row, batch, aborted, history>>

Abort(r) ==
    /\ pc[r] = "digests"
    /\ aborted[r] /\ batch[r] # {}
    /\ Goto(r, "revert_rest")
    /\ UNCHANGED <<people, row, batch, group, aborted, history>>

\* Seeded fault: the next run gets the signal of this one.
FinishKeepsSignal(r) ==
    /\ pc[r] = "digests"
    /\ batch[r] = {}
    /\ Goto(r, "idle")
    /\ group' = [group EXCEPT ![r] = None]
    /\ UNCHANGED <<people, row, batch, aborted, history>>

Finish(r) ==
    /\ pc[r] = "digests"
    /\ batch[r] = {}
    /\ Goto(r, "idle")
    /\ group' = [group EXCEPT ![r] = None]
    /\ aborted' = [aborted EXCEPT ![r] = FALSE]
    /\ UNCHANGED <<people, row, batch, history>>

Delivered(S) == sent' = [a \in Alerts |-> IF a \in S THEN sent[a] + 1 ELSE sent[a]]

\* Seeded fault: one mailed digest counts as all of them.
AcceptProcessesAll(r) ==
    /\ pc[r] = "mail"
    /\ Delivered(Digest(r))
    /\ Settled(r, batch[r])
    /\ Goto(r, "digests")
    /\ UNCHANGED <<people, row, group, aborted, doubted, forsaken, faults>>

\* sendEmail returns; what deliverWebhookEvent does then changes nothing here.
Accept(r) ==
    /\ pc[r] = "mail"
    /\ Delivered(Digest(r))
    /\ Settled(r, Digest(r))
    /\ Goto(r, "digests")
    /\ UNCHANGED <<people, row, group, aborted, doubted, forsaken, faults>>

Bounce(r) ==
    /\ "bounce" \in Hazards
    /\ pc[r] = "mail"
    /\ Goto(r, "revert")
    /\ UNCHANGED <<people, row, batch, group, aborted, history>>

\* ResendTimeoutError, or an answer without an id, after the service took it.
Timeout(r) ==
    /\ Fault("timeout")
    /\ pc[r] = "mail"
    /\ Delivered(Digest(r))
    /\ doubted' = doubted \cup Digest(r)
    /\ Goto(r, "revert")
    /\ UNCHANGED <<people, row, batch, group, aborted, forsaken>>

-----------------------------------------------------------------------------
(* revertClaim: WHERE id = ANY($1) AND sent_at IS NOT NULL *)

Reverting == {"unaddressed", "revert", "revert_rest"}

\* The rows the statement names: those without an address, those of the
\* digest that failed, or (withoutProcessedGroups) all that are left.
Named(r) ==
    {a \in batch[r] :
        /\ pc[r] = "unaddressed" => Owner[a] \notin addressed
        /\ pc[r] = "revert" => Owner[a] = group[r]}

Release(S) ==
    row' = [a \in Alerts |-> IF a \in S /\ row[a] = "taken" THEN "pending" ELSE row[a]]

\* Seeded fault: the whole batch is reverted with the digest that failed.
RevertAll(r) ==
    /\ pc[r] \in Reverting
    /\ Release(batch[r])
    /\ Settled(r, Named(r))
    /\ Goto(r, "digests")
    /\ UNCHANGED <<people, group, aborted, history>>

Revert(r) ==
    /\ pc[r] \in Reverting
    /\ Release(Named(r))
    /\ Settled(r, Named(r))
    /\ Goto(r, "digests")
    /\ UNCHANGED <<people, group, aborted, history>>

\* The statement fails for good.  The script goes on to the next digest; the
\* cron run ends, after one more try for all that is left when its deadline
\* has passed and it is inside the try block.
RevertFails(r) ==
    /\ Fault("error")
    /\ pc[r] \in Reverting
    /\ \/ /\ r \notin Crons
          /\ Settled(r, Named(r))
          /\ forsaken' = forsaken \cup Named(r)
          /\ Goto(r, "digests")
          /\ UNCHANGED <<group, aborted>>
       \/ /\ r \in Crons
          /\ pc[r] = "revert" /\ aborted[r]
          /\ Goto(r, "revert_rest")
          /\ UNCHANGED <<batch, group, aborted, forsaken>>
       \/ /\ r \in Crons
          /\ pc[r] # "revert" \/ ~aborted[r]
          /\ GiveUp(r)
    /\ UNCHANGED <<people, row, sent, doubted>>

\* The statement lands, its reply is lost, and query() will send it again.
RevertLost(r) ==
    /\ Fault("lost")
    /\ pc[r] \in Reverting
    /\ Release(Named(r))
    /\ doubted' = doubted \cup Named(r)
    /\ UNCHANGED <<people, runner, sent, forsaken>>

Crash(r) ==
    /\ Fault("crash")
    /\ pc[r] # "idle"
    /\ GiveUp(r)
    /\ UNCHANGED <<people, row, sent, doubted>>

-----------------------------------------------------------------------------
UserStep ==
    \E u \in Users :
        \/ OptOut(u)
        \/ \E c \in Creators : Watch(u, c)
        \/ \E C \in {Creators} \cup {{c} : c \in Creators} : Unwatch(u, C)

RunnerStep(r) ==
    \/ \E S \in SUBSET Alerts : Claim(r, S)
    \/ Sort(r)
    \/ AbortEarly(r)
    \/ \E u \in Users : NextDigest(r, u)
    \/ Abort(r)
    \/ Finish(r)
    \/ Accept(r)
    \/ Revert(r)

Failure(r) ==
    \/ \E S \in SUBSET Alerts : ClaimLost(r, S)
    \/ DeadlinePasses(r)
    \/ Bounce(r)
    \/ Timeout(r)
    \/ RevertFails(r)
    \/ RevertLost(r)
    \/ Crash(r)

Next ==
    \/ UserStep
    \/ Scan
    \/ \E a \in Alerts : Queue(a)
    \/ \E r \in Runners : RunnerStep(r) \/ Failure(r)

Spec == Init /\ [][Next]_vars

-----------------------------------------------------------------------------
(* Properties *)

\* Types; a runner holds rows, a digest and a deadline only while it runs.
TypeOK ==
    /\ addressed \subseteq Users
    /\ watch \subseteq Users \X Creators
    /\ optout \subseteq Users
    /\ found \subseteq Alerts
    /\ row \in [Alerts -> RowState]
    /\ pc \in [Runners -> {"idle", "claimed", "digests", "mail"} \cup Reverting]
    /\ batch \in [Runners -> SUBSET Alerts]
    /\ group \in [Runners -> Users \cup {None}]
    /\ aborted \in [Runners -> BOOLEAN]
    /\ \A r \in Runners : pc[r] = "idle" => batch[r] = {} /\ ~aborted[r]
    /\ sent \in [Alerts -> Nat]
    /\ doubted \subseteq Alerts /\ forsaken \subseteq Alerts
    /\ faults \in 0..MaxFaults

\* Concurrent runs never process the same row (claimPendingAlerts,
\* "concurrent cron runs never process the same row twice"), although
\* revertClaim does not know whose claim it reverts: only a reply lost to a
\* revert breaks it.
OneHolder ==
    \A r, s \in Runners : r # s => batch[r] \cap batch[s] \subseteq doubted

\* An alert is mailed twice only after a mail that was accepted and reported
\* as failed, or after a revert that was sent twice: no interleaving of
\* claims, reverts, scans, deadlines and deaths repeats a mail by itself.
TwiceOnlyInDoubt == \A a \in Alerts \ doubted : sent[a] <= 1

\* A row marked as sent has been mailed, or a live runner has it in hand, or a
\* death, an early deadline or a failed statement has left it behind: the
\* bookkeeping of bounces, deadlines and missing addresses loses nothing
\* (runAlertSend, withoutProcessedGroups).
LostOnlyByFault ==
    \A a \in Alerts \ forsaken :
        row[a] = "taken" /\ sent[a] = 0 => \E r \in Runners : a \in batch[r]

\* Where an alert is, for one of whom nothing is in doubt.
Stage(a) ==
    IF a \in doubted THEN "doubtful" ELSE IF sent[a] > 0 THEN "mailed" ELSE row[a]

Box == INSTANCE Outbox WITH
    stage <- [a \in Alerts |-> Stage(a)],
    hand <- [r \in Runners |-> batch[r] \ doubted]

\* Claim first, mail then, put back on failure (claimPendingAlerts, revertClaim)
\* keeps the promise of Outbox under every hazard: each alert is in one hand,
\* goes out once and to an address, and is taken for nobody who opted out.
\* The statements compare neither owner nor run: revertClaim sets back
\* whatever row it names that is marked.
KeepsOutbox == Box!Spec
=============================================================================
