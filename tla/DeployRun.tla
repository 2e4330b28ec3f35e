------------------------------ MODULE DeployRun ------------------------------
(***************************************************************************)
(* Deploys of a Whop app by the whop-state MCP server: whop.deploy         *)
(* (deploy.ts) and whop.reconcile (reconcile.ts) over the skill runner     *)
(* (runner.ts, executor.ts), with the event log of a run (tools/events.ts) *)
(* and the manifest of the target repository (tools/manifest.ts), which    *)
(* names the run in progress.                                              *)
(*                                                                         *)
(* A run appends what it is about to do before it does it and what it has  *)
(* observed after; whoever continues it folds the log.  The fold looks at  *)
(* the events one by one, so the model keeps its result and not the log.   *)
(* A commit is a number, and names the deployment built from it.           *)
(***************************************************************************)
EXTENDS Integers

CONSTANTS
    Callers,        \* calls of the two tools that may be under way
    Runs,           \* run ids; one that nothing refers to stands for a new one
    None,
    MaxCommit,      \* bound: commits made in the target repository
    MaxFaults,      \* bound: failures of the kinds in Hazards
    Hazards         \* which of AllHazards the environment may produce

AllHazards == {"crash",     \* the server dies
               "append",    \* an event cannot be written
               "manifest",  \* the manifest cannot be written
               "call",      \* a provider's answer is an error or does not come
               "refused",   \* git push is refused
               "rollback",  \* somebody promotes an older deployment by hand
               "mismatch",  \* the app comes back with another address
               "overlap",   \* a tool is called while another call is under way
               "named"}     \* a caller names the run itself

ASSUME DeployAssumption ==
    /\ None \notin Runs
    /\ MaxCommit \in Nat \ {0}
    /\ MaxFaults \in Nat
    /\ Hazards \subseteq AllHazards

Mutations == {"push", "promote", "update"}
Steps == Mutations \cup {"wait", "bind", "noop"}
Phases == {"idle", "intent", "register", "dispatch", "call", "verify", "observe",
           "diverge", "mismatch", "settle", "finalize", "record", "clear"}
Commits == 1..MaxCommit

VARIABLES
    head,       \* HEAD of the target repository
    lastDeploy, \* manifest.lastDeploy, 0 if there is none
    currentRun, \* manifest.currentRunId
    digest,     \* foldEvents of each run's log: pending steps and the state
    pushed,     \* the branch at the remote
    built,      \* Vercel's deployment of each commit
    prod,       \* the deployment behind the production domain, 0 if none
    live,       \* deployments that have been in production
    inflight,   \* promotions that have been accepted and not carried out
    iframe,     \* the app's address is the desired one
    pc, skill, run, was, sha, step, need,   \* locals of each call
    doubt,      \* mutations that were made and never observed
    claimed,    \* commits the logs report as pushed
    faults

local   == <<pc, skill, run, was, sha, step, need>>
manifest == <<lastDeploy, currentRun>>
remote  == <<pushed, built, prod, live, inflight, iframe>>
history == <<doubt, claimed>>
vars == <<head, lastDeploy, currentRun, digest, pushed, built, prod, live, inflight,
          iframe, pc, skill, run, was, sha, step, need, doubt, claimed, faults>>

Digest == [pending : SUBSET Steps, state : {"open", "unknown", "changed"}]
NewDigest == [pending |-> {}, state |-> "open"]

Init ==
    /\ head = 1 /\ lastDeploy = 0 /\ currentRun = None
    /\ digest = [r \in Runs |-> NewDigest]
    /\ pushed = 0 /\ built = [c \in Commits |-> "none"]
    /\ prod = 0 /\ live = {} /\ inflight = {} /\ iframe \in BOOLEAN
    /\ pc = [d \in Callers |-> "idle"]
    /\ skill = [d \in Callers |-> "deploy"]
    /\ run = [d \in Callers |-> None]
    /\ was = [d \in Callers |-> None]
    /\ sha = [d \in Callers |-> 0]
    /\ step = [d \in Callers |-> "noop"]
    /\ need = [d \in Callers |-> FALSE]
    /\ doubt = {} /\ claimed = {} /\ faults = 0

Fault(kind) == kind \in Hazards /\ faults < MaxFaults /\ faults' = faults + 1

Goto(d, phase) == pc' = [pc EXCEPT ![d] = phase]

-----------------------------------------------------------------------------
(* Starting: collectWhopStatus, the gate and the plan *)

\* Seeded fault: a step without an outcome does not stop anyone.
StopsIfUnknown(dg) == dg.state = "unknown"

\* Status is ready unless the log has a step without an outcome or ends in an
\* unknown remote state.
Stops(dg) == dg.pending # {} \/ dg.state = "unknown"

Fresh(r) == r # currentRun /\ \A d \in Callers : pc[d] # "idle" => run[d] # r

\* Seeded fault: no new id is made when the manifest names no run.
EnterWithoutId(d, r) ==
    /\ pc[d] = "idle"
    /\ "overlap" \in Hazards \/ \A e \in Callers : pc[e] = "idle"
    /\ currentRun \in {None, r}
    /\ ~Stops(digest[r])
    /\ UNCHANGED digest
    /\ Goto(d, "intent")
    /\ run' = [run EXCEPT ![d] = currentRun]
    /\ was' = [was EXCEPT ![d] = currentRun]
    /\ UNCHANGED <<head, manifest, remote, history, faults>>

\* The run of a call is the one the caller names, or the manifest, or a new
\* one; the log of an old one must let it go on.
Enter(d, r) ==
    /\ pc[d] = "idle"
    /\ "overlap" \in Hazards \/ \A e \in Callers : pc[e] = "idle"
    /\ \/ /\ currentRun = None \/ "named" \in Hazards
          /\ Fresh(r)
          /\ digest' = [digest EXCEPT ![r] = NewDigest]
       \/ /\ currentRun = r \/ "named" \in Hazards
          /\ ~Stops(digest[r])
          /\ UNCHANGED digest
    /\ Goto(d, "intent")
    /\ run' = [run EXCEPT ![d] = r]
    /\ was' = [was EXCEPT ![d] = currentRun]
    /\ UNCHANGED <<head, manifest, remote, history, faults>>

\* runWhopDeploy: no work if the manifest says that HEAD is deployed, some
\* deployment of it is ready and the app needs no update.
StartDeploy(d, r) ==
    /\ Enter(d, r)
    /\ skill' = [skill EXCEPT ![d] = "deploy"]
    /\ sha' = [sha EXCEPT ![d] = head]
    /\ need' = [need EXCEPT ![d] = ~iframe]
    /\ step' = [step EXCEPT ![d] =
                  IF lastDeploy = head /\ built[head] = "ready" /\ iframe
                    THEN "noop" ELSE "push"]

\* The latest production deployment (selectAuthoritativeLastDeploy).
Latest(c) == c \in live /\ \A b \in live : b <= c

\* runWhopReconcile: copy it into the manifest if that names another one.
StartReconcile(d, r) ==
    /\ Enter(d, r)
    /\ skill' = [skill EXCEPT ![d] = "reconcile"]
    /\ \/ \E c \in live :
            /\ Latest(c) /\ lastDeploy \notin {0, c}
            /\ sha' = [sha EXCEPT ![d] = c]
            /\ step' = [step EXCEPT ![d] = "bind"]
       \/ /\ lastDeploy = 0 \/ live = {} \/ Latest(lastDeploy)
          /\ step' = [step EXCEPT ![d] = "noop"]
          /\ UNCHANGED sha
    /\ UNCHANGED need

-----------------------------------------------------------------------------
(* The runner: events before and after each step *)

\* The first event of a deploy is followed by setCurrentRunId.
Intent(d) ==
    /\ pc[d] = "intent"
    /\ Goto(d, IF skill[d] = "deploy" THEN "register" ELSE "dispatch")
    /\ UNCHANGED <<head, manifest, digest, remote, skill, run, was, sha, step, need,
                   history, faults>>

Register(d) ==
    /\ pc[d] = "register"
    /\ currentRun' = run[d]
    /\ Goto(d, "dispatch")
    /\ UNCHANGED <<head, lastDeploy, digest, remote, skill, run, was, sha, step, need,
                   history, faults>>

\* executeWithDispatchAudit, up to the call itself.  The consent that precedes
\* the event of a mutation changes nothing the fold passes on.
Dispatch(d) ==
    /\ pc[d] = "dispatch"
    /\ digest' = [digest EXCEPT ![run[d]].pending = @ \cup {step[d]}]
    /\ Goto(d, "call")
    /\ UNCHANGED <<head, manifest, remote, skill, run, was, sha, step, need,
                   history, faults>>

\* Seeded fault: nobody waits for the build.
AfterWithoutWait(s) == IF s = "push" THEN "promote" ELSE "update"

\* The plan of a deploy that has work to do (deriveDeployPlan).
After(s) == IF s = "push" THEN "wait" ELSE IF s = "wait" THEN "promote" ELSE "update"

IsLast(d) ==
    step[d] \in {"noop", "bind", "update"} \/ (step[d] = "promote" /\ ~need[d])

Observe(d) ==
    /\ pc[d] = "observe"
    /\ digest' = [digest EXCEPT ![run[d]].pending = @ \ {step[d]},
                                ![run[d]].state = "open"]
    /\ step' = IF IsLast(d) THEN step ELSE [step EXCEPT ![d] = After(step[d])]
    /\ Goto(d, IF IsLast(d) THEN "settle" ELSE "dispatch")
    /\ claimed' = IF step[d] = "push" THEN claimed \cup {sha[d]} ELSE claimed
    /\ UNCHANGED <<head, manifest, remote, skill, run, was, sha, need, doubt, faults>>

Diverge(d) ==
    /\ pc[d] \in {"diverge", "mismatch"}
    /\ digest' = [digest EXCEPT
                    ![run[d]].pending = @ \ {step[d]},
                    ![run[d]].state = IF pc[d] = "diverge" THEN "unknown" ELSE "changed"]
    /\ Goto(d, "idle")
    /\ UNCHANGED <<head, manifest, remote, skill, run, was, sha, step, need,
                   history, faults>>

\* computeTerminalState: every step has been observed when a call gets here,
\* so what is left to read is whether the log has anything pending.
Settle(d) ==
    /\ pc[d] = "settle"
    /\ Goto(d, IF step[d] \in Mutations /\ digest[run[d]].pending # {}
                 THEN "idle" ELSE "finalize")
    /\ UNCHANGED <<head, manifest, digest, remote, skill, run, was, sha, step, need,
                   history, faults>>

\* Seeded fault: the manifest is not told of the deployment.
FinalizeUnrecorded(d) ==
    /\ pc[d] = "finalize"
    /\ digest' = [digest EXCEPT ![run[d]].state = "open"]
    /\ Goto(d, IF skill[d] = "deploy" THEN "clear" ELSE "idle")
    /\ UNCHANGED <<head, manifest, remote, skill, run, was, sha, step, need,
                   history, faults>>

Finalize(d) ==
    /\ pc[d] = "finalize"
    /\ digest' = [digest EXCEPT ![run[d]].state = "open"]
    /\ Goto(d, IF skill[d] = "reconcile" THEN "idle"
                 ELSE IF step[d] = "noop" THEN "clear" ELSE "record")
    /\ UNCHANGED <<head, manifest, remote, skill, run, was, sha, step, need,
                   history, faults>>

\* writeManifestDeploy
Record(d) ==
    /\ pc[d] = "record"
    /\ lastDeploy' = sha[d]
    /\ Goto(d, "clear")
    /\ UNCHANGED <<head, currentRun, digest, remote, skill, run, was, sha, step, need,
                   history, faults>>

\* clearCurrentRunId
Clear(d) ==
    /\ pc[d] = "clear"
    /\ currentRun' = None
    /\ Goto(d, "idle")
    /\ UNCHANGED <<head, lastDeploy, digest, remote, skill, run, was, sha, step, need,
                   history, faults>>

-----------------------------------------------------------------------------
(* The steps: dispatchDeployAction and observeDeployAction *)

Calls(d, s) == pc[d] = "call" /\ step[d] = s

\* git push sends the branch, with whatever has been committed since.
Push(d) ==
    /\ Calls(d, "push")
    /\ pushed' = head
    /\ Goto(d, "observe")
    /\ UNCHANGED <<head, manifest, digest, built, prod, live, inflight, iframe,
                   skill, run, was, sha, step, need, history, faults>>

\* gitPush returns success: false, which nobody looks at.
PushRefused(d) ==
    /\ Fault("refused")
    /\ Calls(d, "push")
    /\ Goto(d, "observe")
    /\ UNCHANGED <<head, manifest, digest, remote, skill, run, was, sha, step, need,
                   history>>

Wait(d) ==
    /\ Calls(d, "wait")
    /\ built[sha[d]] = "ready"
    /\ Goto(d, "observe")
    /\ UNCHANGED <<head, manifest, digest, remote, skill, run, was, sha, step, need,
                   history, faults>>

\* The build has failed, or is not done in time.
WaitFails(d) ==
    /\ Calls(d, "wait")
    /\ built[sha[d]] # "ready"
    /\ Goto(d, "diverge")
    /\ UNCHANGED <<head, manifest, digest, remote, skill, run, was, sha, step, need,
                   history, faults>>

Accepted(c) == inflight' = IF prod = c THEN inflight ELSE inflight \cup {c}

Promote(d) ==
    /\ Calls(d, "promote")
    /\ Accepted(sha[d])
    /\ Goto(d, "verify")
    /\ UNCHANGED <<head, manifest, digest, pushed, built, prod, live, iframe,
                   skill, run, was, sha, step, need, history, faults>>

\* Seeded fault: the accepted promotion counts.
VerifiedIfAccepted(d) == prod = sha[d] \/ sha[d] \in inflight

\* verifyPromotion finds the production domain among the deployment's aliases.
Verified(d) == prod = sha[d]

Verify(d) ==
    /\ pc[d] = "verify"
    /\ Verified(d)
    /\ Goto(d, "observe")
    /\ UNCHANGED <<head, manifest, digest, remote, skill, run, was, sha, step, need,
                   history, faults>>

\* Seeded fault: a promotion that is not there is a changed payload.
VerifyFailsOpenly(d) ==
    /\ pc[d] = "verify"
    /\ ~Verified(d)
    /\ doubt' = doubt \cup {"promote"}
    /\ Goto(d, "mismatch")
    /\ UNCHANGED <<head, manifest, digest, remote, skill, run, was, sha, step, need,
                   claimed, faults>>

\* It does not, or not yet, or cannot be read.
VerifyFails(d) ==
    /\ pc[d] = "verify"
    /\ (~Verified(d) /\ UNCHANGED faults) \/ Fault("call")
    /\ doubt' = doubt \cup {"promote"}
    /\ Goto(d, "diverge")
    /\ UNCHANGED <<head, manifest, digest, remote, skill, run, was, sha, step, need,
                   claimed>>

Update(d) ==
    /\ Calls(d, "update")
    /\ iframe' = TRUE
    /\ Goto(d, "observe")
    /\ UNCHANGED <<head, manifest, digest, pushed, built, prod, live, inflight,
                   skill, run, was, sha, step, need, history, faults>>

UpdateMismatch(d) ==
    /\ Fault("mismatch")
    /\ Calls(d, "update")
    /\ Goto(d, "mismatch")
    /\ UNCHANGED <<head, manifest, digest, remote, skill, run, was, sha, step, need,
                   history>>

\* writeManifestBinding of a reconcile, or nothing at all.
Bind(d) ==
    /\ Calls(d, "bind") \/ Calls(d, "noop")
    /\ lastDeploy' = IF step[d] = "bind" THEN sha[d] ELSE lastDeploy
    /\ Goto(d, "observe")
    /\ UNCHANGED <<head, currentRun, digest, remote, skill, run, was, sha, step, need,
                   history, faults>>

\* A deploy with nothing to do looks at production when its caller passes the
\* domain, and does not when the domain is only in the manifest.
CurrentFails(d) ==
    /\ Calls(d, "noop") /\ skill[d] = "deploy"
    /\ (~Verified(d) /\ UNCHANGED faults) \/ Fault("call")
    /\ Goto(d, "diverge")
    /\ UNCHANGED <<head, manifest, digest, remote, skill, run, was, sha, step, need,
                   history>>

\* The call throws, with or without effect.
CallFails(d) ==
    /\ Fault(IF step[d] = "bind" THEN "manifest" ELSE "call")
    /\ pc[d] = "call" /\ step[d] # "noop"
    /\ doubt' = doubt \cup ({step[d]} \cap Mutations)
    /\ pushed' \in IF step[d] = "push" THEN {pushed, head} ELSE {pushed}
    /\ UNCHANGED inflight \/ (step[d] = "promote" /\ Accepted(sha[d]))
    /\ iframe' \in IF step[d] = "update" THEN {iframe, TRUE} ELSE {iframe}
    /\ Goto(d, "diverge")
    /\ UNCHANGED <<head, manifest, digest, built, prod, live,
                   skill, run, was, sha, step, need, claimed>>

-----------------------------------------------------------------------------
(* Failures *)

\* A mutation that was made and that its caller will not observe any more.
Unobserved(d) ==
    IF pc[d] \in {"verify", "observe"} THEN {step[d]} \cap Mutations ELSE {}

\* An event is not written: of an observation the runner makes a divergence,
\* and all others end the call.
AppendFails(d) ==
    /\ Fault("append")
    /\ pc[d] \in {"intent", "dispatch", "observe", "diverge", "mismatch", "finalize"}
    /\ doubt' = doubt \cup Unobserved(d)
    /\ Goto(d, IF pc[d] = "observe" THEN "diverge" ELSE "idle")
    /\ UNCHANGED <<head, manifest, digest, remote, skill, run, was, sha, step, need,
                   claimed>>

\* The manifest is not written.  restoreCurrentRunId puts back, if it can, the
\* run that was current when the call began.
ManifestFails(d) ==
    /\ Fault("manifest")
    /\ pc[d] \in {"register", "record", "clear"}
    /\ currentRun' \in IF pc[d] = "register" THEN {currentRun, was[d]} ELSE {currentRun}
    /\ Goto(d, "idle")
    /\ UNCHANGED <<head, lastDeploy, digest, remote, skill, run, was, sha, step, need,
                   history>>

Crash(d) ==
    /\ Fault("crash")
    /\ pc[d] # "idle"
    /\ doubt' = doubt \cup Unobserved(d)
    /\ Goto(d, "idle")
    /\ UNCHANGED <<head, manifest, digest, remote, skill, run, was, sha, step, need,
                   claimed>>

-----------------------------------------------------------------------------
(* The developer, Vercel, and people at its dashboard *)

Commit ==
    /\ head < MaxCommit
    /\ head' = head + 1
    /\ UNCHANGED <<manifest, digest, remote, local, history, faults>>

Build(c, outcome) ==
    /\ c <= pushed /\ built[c] = "none"
    /\ built' = [built EXCEPT ![c] = outcome]
    /\ UNCHANGED <<head, manifest, digest, pushed, prod, live, inflight, iframe,
                   local, history, faults>>

\* An accepted promotion is carried out.
Land(c) ==
    /\ c \in inflight
    /\ inflight' = inflight \ {c}
    /\ prod' = c
    /\ live' = live \cup {c}
    /\ UNCHANGED <<head, manifest, digest, pushed, built, iframe, local, history, faults>>

Rollback(c) ==
    /\ Fault("rollback")
    /\ c \in live /\ c < prod
    /\ prod' = c
    /\ UNCHANGED <<head, manifest, digest, pushed, built, live, inflight, iframe,
                   local, history>>

-----------------------------------------------------------------------------
Start(d) == \E r \in Runs : StartDeploy(d, r)

RunnerStep(d) ==
    Intent(d) \/ Register(d) \/ Dispatch(d) \/ Observe(d) \/ Diverge(d)
        \/ Settle(d) \/ Finalize(d) \/ Record(d) \/ Clear(d)

ToolStep(d) ==
    Push(d) \/ Wait(d) \/ WaitFails(d) \/ Promote(d) \/ Verify(d) \/ VerifyFails(d)
        \/ Update(d) \/ Bind(d) \/ CurrentFails(d)

Failure(d) ==
    PushRefused(d) \/ UpdateMismatch(d) \/ CallFails(d)
        \/ AppendFails(d) \/ ManifestFails(d) \/ Crash(d)

World ==
    \/ Commit
    \/ \E c \in Commits :
          Build(c, "ready") \/ Build(c, "error") \/ Land(c) \/ Rollback(c)

Next ==
    \/ \E d \in Callers :
          \/ Start(d)
          \/ \E r \in Runs : StartReconcile(d, r)
          \/ RunnerStep(d) \/ ToolStep(d) \/ Failure(d)
    \/ World

Spec == Init /\ [][Next]_vars

\* A call that has begun goes on, and the operator keeps asking for a deploy.
FairSpec ==
    /\ Spec
    /\ \A d \in Callers : WF_vars(RunnerStep(d) \/ ToolStep(d)) /\ SF_vars(Start(d))

-----------------------------------------------------------------------------
(* Properties *)

\* Types; a call under way has a run, and a commit if it has anything to do.
TypeOK ==
    /\ head \in Commits /\ lastDeploy \in 0..MaxCommit
    /\ currentRun \in Runs \cup {None}
    /\ digest \in [Runs -> Digest]
    /\ pushed \in 0..MaxCommit
    /\ built \in [Commits -> {"none", "ready", "error"}]
    /\ prod \in 0..MaxCommit /\ live \subseteq Commits /\ inflight \subseteq Commits
    /\ iframe \in BOOLEAN
    /\ pc \in [Callers -> Phases]
    /\ skill \in [Callers -> {"deploy", "reconcile"}]
    /\ run \in [Callers -> Runs \cup {None}]
    /\ was \in [Callers -> Runs \cup {None}]
    /\ sha \in [Callers -> 0..MaxCommit]
    /\ step \in [Callers -> Steps]
    /\ need \in [Callers -> BOOLEAN]
    /\ \A d \in Callers : pc[d] # "idle" => run[d] # None
    /\ \A d \in Callers : pc[d] # "idle" /\ step[d] # "noop" => sha[d] # 0
    /\ doubt \subseteq Mutations /\ claimed \subseteq Commits
    /\ faults \in 0..MaxFaults

\* Every deployment the manifest has ever called the last one was behind the
\* production domain ("Re-read provider state after mutation before reporting
\* success", whop_auto/README.md): no error, delay, death or overlap of calls
\* makes a deploy or a reconcile record one that was only promoted on paper.
ManifestIsTrue == lastDeploy \in live \cup {0}

\* Once a mutation has been made whose outcome was not observed, no call
\* makes another one ("Stop on ... unknown remote outcome",
\* whop_auto/README.md): whichever of the call, the log, the manifest or the
\* server failed, the manifest still leads to a log that says so.
NoCallInDoubt ==
    [][\A d \in Callers :
          pc[d] = "call" /\ step[d] \in Mutations /\ pc'[d] \notin {"call", "idle"}
              => doubt = {}]_vars

\* Production never goes back to an older commit except by hand: not even a
\* promotion that takes effect after its caller gave it up replaces a newer one.
NoDowngrade == [][(\E c \in Commits : Rollback(c)) \/ prod' >= prod]_vars

\* Every deploy that is asked for again and again succeeds in the end, or
\* comes to rest in a log that stops all later calls.
Stopped == currentRun # None /\ Stops(digest[currentRun]) /\ \A d \in Callers : pc[d] = "idle"

EndsDeployedOrStopped == <>[](lastDeploy = head) \/ <>[]Stopped

Site == INSTANCE Rollout WITH
    branch <- pushed, site <- prod, asked <- inflight, shown <- live,
    record <- lastDeploy, address <- iframe, stuck <- doubt # {}

\* In turn, deploys and reconciles keep the promise of Rollout: what is
\* promoted has been pushed and built and is newer than all that was ever in
\* production, the manifest gets the newest deployment or none, and after an
\* unknown outcome nothing is pushed, promoted, updated or recorded.
KeepsRollout == Site!Spec

\* What the log reports as pushed is at the remote.
PushedIsPushed == \A c \in claimed : c <= pushed
=============================================================================
