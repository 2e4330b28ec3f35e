---------------------------- MODULE MlPromotion -----------------------------
(***************************************************************************)
(* The verdicts of the ML verifier and the promotion of low-confidence     *)
(* calls in callscore-web: runMlVerifierBatch (src/lib/ml-verifier.ts) and *)
(* runMlPromotionJob (src/lib/ml-promotion.ts).  Both are handlers of the  *)
(* durable queue: a job may be tried again, and a worker that lost its job *)
(* may still be at work on it, so several attempts of a handler run beside *)
(* each other, each in steps of one SQL statement.  Beside them the stage  *)
(* low-confidence-validate of the data pipeline                            *)
(* (src/scripts/audit-recompute.ts) raises calls of the same kind by fixed *)
(* rules, without a verdict and without a row of the audit.                *)
(*                                                                         *)
(* A confidence is modelled by the side of the public threshold it lies    *)
(* on, and a verdict by whether it approves the call with the confidences  *)
(* the promotion asks for: reject, review and a weak approval withhold it. *)
(* All rows have one prompt version.                                       *)
(***************************************************************************)
EXTENDS Integers, Sequences, FiniteSets

CONSTANTS
    Calls,          \* ids of rows of calls
    Models,         \* provider and model of a verdict
    Batches,        \* attempts of the verifier that run beside each other
    ModelOf,        \* the model each of them asks
    Attempts,       \* attempts of the promotion that run beside each other
    Accepts,        \* the models whose verdicts each of them takes
    Validators,     \* runs of the rules that go on beside each other
    Profiles,       \* bound: the sets of traits a call may have
    BatchSize,      \* batch_size of the verifier's payload
    MaxAudits,      \* bound: rows of ml_promotion_audit
    MaxFaults,      \* bound: faults in one behaviour
    None

Decisions == {"approve", "withhold"}

\* What the payload and the environment make of an attempt: barred is a dry run
\* or one that the gates block (validateMlPromotionGates).
Kinds == {"barred", "running"}

\* What else the statements ask of a call: a transcript, an ambiguous ticker, the
\* prices and the age of a scored call, a date in the last 180 days.
Traits == {"transcript", "ambiguous", "ready", "recent"}

\* PROMOTE; REJECT or NEEDS_HUMAN_REVIEW.
Rulings == {"promote", "hold"}

ASSUME SetsAssumption ==
    /\ IsFiniteSet(Calls)
    /\ ModelOf \in [Batches -> Models]
    /\ Accepts \in [Attempts -> SUBSET Models]
    /\ Profiles \subseteq SUBSET Traits
    /\ None \notin Decisions

ASSUME BoundsAssumption ==
    /\ BatchSize \in Nat \ {0} /\ MaxAudits \in Nat /\ MaxFaults \in Nat

VARIABLES
    conf,           \* extraction_confidence of each call: low, high, or gone
    traits,         \* which of Traits each call has
    ruled,          \* low_confidence_validation_decision: what the rules have
                    \* put there so far, nothing while it is NULL
    val,            \* a run of the rules: decisions to record, calls to raise
    verdict,        \* ml_verification_runs: the decision, by call and model
    batch,          \* the candidates a verifier attempt still has to ask for
    att,            \* a promotion attempt: what it does next and has read
    audit,          \* the rows of ml_promotion_audit, by id
    faults,
    \* history, read by properties only
    fresh           \* the candidates of a batch without a verdict to this day

vars == <<conf, traits, ruled, val, verdict, batch, att, audit, faults, fresh>>

rules     == <<traits, ruled, val>>

verifier  == <<verdict, batch, fresh>>
promotion == <<att, audit>>

-----------------------------------------------------------------------------
(* The verifier *)

Judged(c) == \E m \in Models : verdict[c][m] # None

\* The buckets of buildMlVerifierCandidateSql: an ambiguous ticker whatever the
\* confidence, or a low confidence of a call that is ready or recent.
Doubtful(c) ==
    /\ conf[c] # "gone" /\ "transcript" \in traits[c]
    /\ \/ "ambiguous" \in traits[c]
       \/ conf[c] = "low" /\ {"ready", "recent"} \cap traits[c] # {}

\* Seeded faults: no verdict excludes a call; the confidence is compared the
\* wrong way round.
UnverifiedAny(b) == {c \in Calls : Doubtful(c)}
UnverifiedHigh(b) == {c \in Calls : conf[c] = "high" /\ Doubtful(c) /\ ~Judged(c)}

\* ... AND NOT EXISTS a verdict of the prompt version, of whatever model.
Unverified(b) == {c \in Calls : Doubtful(c) /\ ~Judged(c)}

\* An attempt of runMlVerifierBatch selects its candidates.
BatchStart(b) ==
    /\ batch[b] = {}
    /\ \E S \in SUBSET Unverified(b) :
         /\ S # {}
         /\ Cardinality(S) <= BatchSize
         /\ batch' = [batch EXCEPT ![b] = S]
         /\ fresh' = [fresh EXCEPT ![b] = S]
    /\ UNCHANGED <<conf, rules, verdict, promotion, faults>>

\* INSERT ... ON CONFLICT (call_id, prompt_version, provider, model) DO UPDATE.
WithVerdict(b, c, d) == [verdict EXCEPT ![c][ModelOf[b]] = d]

\* The model is asked for one candidate and its decision is stored.  A precheck,
\* a timeout, a malformed answer or an outage gives the decision review.
BatchJudge(b, c, d) ==
    /\ c \in batch[b]
    /\ conf[c] # "gone"
    /\ verdict' = WithVerdict(b, c, d)
    /\ batch' = [batch EXCEPT ![b] = @ \ {c}]
    /\ fresh' = [k \in Batches |-> fresh[k] \ {c}]
    /\ UNCHANGED <<conf, rules, promotion, faults>>

\* The row of calls is gone, the foreign key refuses the verdict, and the
\* attempt ends; so does it when a statement throws or the worker dies.
BatchThrows(b) ==
    /\ batch[b] # {}
    /\ \/ /\ \E c \in batch[b] : conf[c] = "gone"
          /\ UNCHANGED faults
       \/ /\ faults < MaxFaults
          /\ faults' = faults + 1
    /\ batch' = [batch EXCEPT ![b] = {}]
    /\ fresh' = [fresh EXCEPT ![b] = {}]
    /\ UNCHANGED <<conf, rules, verdict, promotion>>

-----------------------------------------------------------------------------
(* What becomes of a call elsewhere *)

\* The calls of a video are extracted anew: DELETE FROM calls, and the
\* verdicts go with them (ON DELETE CASCADE).
Replace(c) ==
    /\ conf[c] # "gone"
    /\ conf' = [conf EXCEPT ![c] = "gone"]
    /\ verdict' = [verdict EXCEPT ![c] = [m \in Models |-> None]]
    /\ ruled' = [ruled EXCEPT ![c] = {}]
    /\ UNCHANGED <<traits, val, batch, fresh, promotion, faults>>

\* Prices are recorded or cleared, a date is corrected, a transcript is stored,
\* and time passes; the ticker stays.
Turn(c, T) ==
    /\ conf[c] # "gone"
    /\ T # traits[c] /\ ("ambiguous" \in T <=> "ambiguous" \in traits[c])
    /\ traits' = [traits EXCEPT ![c] = T]
    /\ UNCHANGED <<conf, ruled, val, verifier, promotion, faults>>

-----------------------------------------------------------------------------
(* The rules: audit-recompute --score-ready-low-confidence --valid-only *)

\* buildWhereClause.
Unruled ==
    {c \in Calls : conf[c] = "low" /\ "ready" \in traits[c] /\ ruled[c] = {}}

AtRest == [todo |-> {}, due |-> {}]

\* The rows are read and analysed: the rules decide PROMOTE for those in P.
RulesSelect(v) ==
    /\ val[v] = AtRest
    /\ \E S \in SUBSET Unruled : \E P \in SUBSET S :
         /\ S # {}
         /\ val' = [val EXCEPT ![v] = [todo |-> S, due |-> P]]
    /\ UNCHANGED <<conf, traits, ruled, verifier, promotion, faults>>

Ruling(v, c) == IF c \in val[v].due THEN "promote" ELSE "hold"

\* persistValidationDecisions, a statement for each call, whatever is there.
RulesRecord(v, c) ==
    /\ c \in val[v].todo
    /\ ruled' = IF conf[c] = "gone" THEN ruled
                ELSE [ruled EXCEPT ![c] = @ \cup {Ruling(v, c)}]
    /\ val' = [val EXCEPT ![v].todo = @ \ {c}]
    /\ UNCHANGED <<conf, traits, verifier, promotion, faults>>

\* applyAuditResults raises by id, some at a time, what was read as low; it asks
\* for nothing else.
RulesApply(v) ==
    /\ val[v].todo = {}
    /\ \E S \in SUBSET val[v].due :
         /\ S # {}
         /\ conf' = [c \in Calls |->
                IF c \in S /\ conf[c] # "gone" THEN "high" ELSE conf[c]]
         /\ val' = [val EXCEPT ![v].due = @ \ S]
    /\ UNCHANGED <<traits, ruled, verifier, promotion, faults>>

\* The script dies: its last decisions may be on record and never applied, and a
\* call that has one is not selected again.
RulesDie(v) ==
    /\ val[v] # AtRest
    /\ faults < MaxFaults /\ faults' = faults + 1
    /\ val' = [val EXCEPT ![v] = AtRest]
    /\ UNCHANGED <<conf, traits, ruled, verifier, promotion>>

-----------------------------------------------------------------------------
(* The promotion *)

Idle == [pc |-> "idle", kind |-> "barred", cands |-> {}, id |-> 0, got |-> {}]

Approved(e, c) == \E m \in Accepts[e] : verdict[c][m] = "approve"

\* buildMlPromotionCandidateSql.
Promotable(e) == {c \in Calls : conf[c] = "low" /\ Approved(e, c)}

Goto(e, pc) == att' = [att EXCEPT ![e].pc = pc]

\* The rows there are and those that are still to come (bound).
Rows == Len(audit) + Cardinality({e \in Attempts : att[e].pc = "selected"})

AttemptStart(e, k) ==
    /\ att[e].pc = "idle"
    /\ Rows < MaxAudits
    /\ att' = [att EXCEPT ![e] =
            [Idle EXCEPT !.pc = "selected", !.kind = k, !.cands = Promotable(e)]]
    /\ UNCHANGED <<conf, rules, verifier, audit, faults>>

\* Seeded faults: an attempt that may not write opens its row like another; the
\* id of the next row is taken for that of the new one.
AuditRowOpen(e, hit) ==
    [status |-> "running", cands |-> att[e].cands, promoted |-> {},
     did |-> {}, hit |-> hit]
NewIdNext(rows) == Len(rows) + 1

\* A row of the audit; did and hit are history: the calls its attempt has
\* raised, and whether a fault struck the attempt.
AuditRow(e, hit) ==
    [status |-> att[e].kind, cands |-> att[e].cands, promoted |-> {},
     did |-> {}, hit |-> hit]

\* RETURNING id
NewId(rows) == Len(rows)

\* if (!args.write) return; if (!gates.passed) throw.
MayWrite(e) == att[e].kind = "running"

\* insertAuditStart, and for an attempt that may not write the end of it.
AuditStart(e) ==
    /\ att[e].pc = "selected"
    /\ audit' = Append(audit, AuditRow(e, FALSE))
    /\ att' = [att EXCEPT ![e] =
            IF MayWrite(e) THEN [@ EXCEPT !.pc = "opened", !.id = NewId(audit')]
            ELSE Idle]
    /\ UNCHANGED <<conf, rules, verifier, faults>>

\* The reply is lost and query() inserts a second row: the first one keeps the
\* status it began with.
AuditStartTwice(e) ==
    /\ att[e].pc = "selected"
    /\ Rows < MaxAudits
    /\ faults < MaxFaults /\ faults' = faults + 1
    /\ audit' = audit \o <<AuditRow(e, TRUE), AuditRow(e, FALSE)>>
    /\ att' = [att EXCEPT ![e] =
            IF MayWrite(e) THEN [@ EXCEPT !.pc = "opened", !.id = NewId(audit')]
            ELSE Idle]
    /\ UNCHANGED <<conf, rules, verifier>>

\* Seeded faults: the selected candidates are raised unseen; the confidence is
\* not looked at again.
RaisesSelected(e) == {c \in att[e].cands : conf[c] = "low"}
RaisesHigh(e) == {c \in att[e].cands : conf[c] # "gone" /\ Approved(e, c)}

\* The UPDATE of promoteCandidates reads verdict and confidence anew.
Raises(e) == {c \in att[e].cands : conf[c] = "low" /\ Approved(e, c)}

Raised(e) == [c \in Calls |-> IF c \in Raises(e) THEN "high" ELSE conf[c]]
Did(e) == [audit EXCEPT ![att[e].id].did = Raises(e)]

\* Seeded fault: the audit is given the candidates.
ReturnsCandidates(e) == att[e].cands

\* RETURNING c.id
Returns(e) == Raises(e)

Promote(e) ==
    /\ att[e].pc = "opened"
    /\ conf' = Raised(e)
    /\ audit' = Did(e)
    /\ att' = [att EXCEPT ![e].pc = "raised", ![e].got = Returns(e)]
    /\ UNCHANGED <<rules, verifier, faults>>

Hit(e, A) == [A EXCEPT ![att[e].id].hit = TRUE]

\* The reply is lost after the UPDATE has been done: query() repeats it and
\* gets no ids, or gives up and throws.
PromoteLost(e) ==
    /\ att[e].pc = "opened"
    /\ faults < MaxFaults /\ faults' = faults + 1
    /\ conf' = Raised(e)
    /\ audit' = Hit(e, Did(e))
    /\ \/ Goto(e, "raised")
       \/ Goto(e, "failing")
    /\ UNCHANGED <<rules, verifier>>

\* updateAudit with the status succeeded.
AuditSuccess(e) ==
    /\ att[e].pc = "raised"
    /\ audit' = [audit EXCEPT ![att[e].id].status = "succeeded",
                              ![att[e].id].promoted = att[e].got]
    /\ Goto(e, "recorded")
    /\ UNCHANGED <<conf, rules, verifier, faults>>

\* writePromotionEvent, and the attempt returns.
Complete(e) ==
    /\ att[e].pc = "recorded"
    /\ att' = [att EXCEPT ![e] = Idle]
    /\ UNCHANGED <<conf, rules, verifier, audit, faults>>

\* A statement of the try block throws.
Throws(e) ==
    /\ att[e].pc \in {"opened", "raised", "recorded"}
    /\ faults < MaxFaults /\ faults' = faults + 1
    /\ audit' = Hit(e, audit)
    /\ Goto(e, "failing")
    /\ UNCHANGED <<conf, rules, verifier>>

\* catch: updateAudit with the status failed and no ids, whatever the row said,
\* and throw.
AuditFailure(e) ==
    /\ att[e].pc = "failing"
    /\ audit' = [audit EXCEPT ![att[e].id].status = "failed",
                              ![att[e].id].promoted = {}]
    /\ att' = [att EXCEPT ![e] = Idle]
    /\ UNCHANGED <<conf, rules, verifier, faults>>

\* The worker dies, or a statement outside the try block throws.
Dies(e) ==
    /\ att[e].pc # "idle"
    /\ faults < MaxFaults /\ faults' = faults + 1
    /\ audit' = IF att[e].pc = "selected" THEN audit ELSE Hit(e, audit)
    /\ att' = [att EXCEPT ![e] = Idle]
    /\ UNCHANGED <<conf, rules, verifier>>

-----------------------------------------------------------------------------
Init ==
    /\ conf = [c \in Calls |-> "low"]
    /\ traits \in [Calls -> Profiles]
    /\ ruled = [c \in Calls |-> {}]
    /\ val = [v \in Validators |-> AtRest]
    /\ verdict = [c \in Calls |-> [m \in Models |-> None]]
    /\ batch = [b \in Batches |-> {}]
    /\ att = [e \in Attempts |-> Idle]
    /\ audit = <<>>
    /\ faults = 0
    /\ fresh = [b \in Batches |-> {}]

Judges(b) == \E c \in Calls, d \in Decisions : BatchJudge(b, c, d)

AttemptStep(e) ==
    \/ AuditStart(e) \/ Promote(e) \/ AuditSuccess(e) \/ Complete(e)
    \/ AuditFailure(e)

AttemptFault(e) == AuditStartTwice(e) \/ PromoteLost(e) \/ Throws(e) \/ Dies(e)

RulesStep(v) ==
    \/ RulesSelect(v) \/ RulesApply(v) \/ RulesDie(v)
    \/ \E c \in Calls : RulesRecord(v, c)

Next ==
    \/ \E b \in Batches : BatchStart(b) \/ Judges(b) \/ BatchThrows(b)
    \/ \E c \in Calls : Replace(c) \/ \E T \in Profiles : Turn(c, T)
    \/ \E v \in Validators : RulesStep(v)
    \/ \E e \in Attempts, k \in Kinds : AttemptStart(e, k)
    \/ \E e \in Attempts : AttemptStep(e) \/ AttemptFault(e)

Spec == Init /\ [][Next]_vars

\* The queue brings the verifier's next batch, and an attempt goes on; each of
\* these steps changes the batch or the attempt.
Fairness ==
    /\ \A b \in Batches : /\ WF_batch(BatchStart(b))
                          /\ WF_batch(Judges(b) \/ BatchThrows(b))
    /\ \A e \in Attempts : WF_att(AttemptStep(e))

FairSpec == Spec /\ Fairness

-----------------------------------------------------------------------------
(* Properties *)

Statuses == Kinds \cup {"succeeded", "failed"}

TypeOK ==
    /\ conf \in [Calls -> {"low", "high", "gone"}]
    /\ traits \in [Calls -> Profiles]
    /\ ruled \in [Calls -> SUBSET Rulings]
    /\ val \in [Validators -> [todo : SUBSET Calls, due : SUBSET Calls]]
    /\ verdict \in [Calls -> [Models -> Decisions \cup {None}]]
    /\ batch \in [Batches -> SUBSET Calls]
    /\ att \in [Attempts ->
            [pc : {"idle", "selected", "opened", "raised", "recorded", "failing"},
             kind : Kinds, cands : SUBSET Calls, id : Nat, got : SUBSET Calls]]
    /\ \A e \in Attempts :
            att[e].pc \notin {"idle", "selected"} => att[e].id \in DOMAIN audit
    /\ audit \in Seq([status : Statuses, cands : SUBSET Calls,
                      promoted : SUBSET Calls, did : SUBSET Calls,
                      hit : BOOLEAN])
    /\ faults \in 0..MaxFaults
    /\ fresh \in [Batches -> SUBSET Calls]

\* A call is judged again only by a batch that had selected it before it got
\* its first verdict (buildMlVerifierCandidateSql, insertVerificationRun).
JudgedAgainOnlyByOverlap ==
    [][\A c \in Calls :
        Judged(c) /\ verdict'[c] # verdict[c] /\ conf'[c] # "gone" =>
            \E b \in Batches : c \in batch[b] \ fresh[b]]_vars

\* An audit row names no call that its attempt has not raised, and no two rows
\* name the same call (RETURNING c.id under extraction_confidence < $4).  That no
\* two do needs that nobody makes a confidence low again: the rules of the
\* pipeline only raise, the modes of audit-recompute an operator calls by hand,
\* without --valid-only, may lower one.
AuditNeverOverstates ==
    \A i \in DOMAIN audit :
        /\ audit[i].promoted \subseteq audit[i].did
        /\ \A j \in DOMAIN audit \ {i} : audit[i].did \cap audit[j].did = {}

\* The row of an attempt that no fault has struck names every call it raised.
AuditTellsUnlessHit ==
    \A i \in DOMAIN audit :
        audit[i].status # "running" /\ ~audit[i].hit =>
            audit[i].promoted = audit[i].did

\* No audit row stays running for good unless a fault struck its attempt.
AuditRowsEnd ==
    <>[](\A i \in DOMAIN audit : audit[i].status = "running" => audit[i].hit)

\* A call that is a candidate is judged, unless it ceases to be one: it is
\* replaced or raised, gets old before it is ready, or loses its transcript.
EveryCallJudged == \A c \in Calls : Doubtful(c) ~> (Judged(c) \/ ~Doubtful(c))

Approvals == {p \in Calls \X Models : verdict[p[1]][p[2]] = "approve"}

Trail == INSTANCE AuditTrail WITH
    Panels <- {Accepts[e] : e \in Attempts},
    level <- conf, backed <- Approvals, trail <- audit,
    cleared <- {c \in Calls : "promote" \in ruled[c]}

\* The promotion keeps the promise of AuditTrail ("Records every ... promotion
\* attempt before any call confidence mutation can occur",
\* migrations/014-ml-promotion-audit.sql): whatever overlaps, is repeated or
\* dies, a call is raised through a running row that names it, by approvals of
\* that moment, and the row ends with what it raised or as struck; or else the
\* rules raise it, after their PROMOTE was put on record ("promotes only
\* deterministic PROMOTE decisions", docs/hermes-pipeline.md).
KeepsTrail == Trail!Spec
=============================================================================
