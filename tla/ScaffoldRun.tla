---------------------------- MODULE ScaffoldRun -----------------------------
(***************************************************************************)
(* New Whop apps by the whop-state MCP server: whop.scaffold (scaffold.ts, *)
(* deriveScaffoldPlan of skill-plans.ts) over the skill runner (runner.ts) *)
(* and the event log of a run (tools/events.ts), with the wiring of        *)
(* server.ts.  A scaffold creates an app, a project and a webhook, stores  *)
(* the webhook's secret and ends by binding the repository's manifest to   *)
(* them.  A call that is cut off is taken up by another call that names    *)
(* its run: what the log has observed is not done again, and for an app or *)
(* a webhook whose creation has no outcome the provider is searched.       *)
(*                                                                         *)
(* As in DeployRun the log is modelled by what its readers fold from it.   *)
(* The ids of apps and webhooks are their places in the sequences that     *)
(* name the runs that made them.                                           *)
(***************************************************************************)
EXTENDS Integers, Sequences, FiniteSets

CONSTANTS
    Callers,        \* calls of the tool that may be under way
    Runs,           \* run ids; one with an empty log stands for a new one
    None,
    MaxMade,        \* bound: apps, and webhooks, that can be made
    MaxFaults,      \* bound: failures of the kinds in Hazards
    Hazards         \* which of AllHazards the environment may produce

AllHazards == {"crash",     \* the server dies
               "append",    \* an event cannot be written
               "call",      \* a step throws, with or without effect
               "mismatch",  \* the app comes back with another address
               "lag",       \* a new app or webhook is not in the list yet
               "overlap"}   \* the tool is called while another call is under way

ASSUME ScaffoldAssumption ==
    /\ None \notin Runs
    /\ MaxMade \in Nat \ {0} /\ MaxFaults \in Nat
    /\ Hazards \subseteq AllHazards

\* The steps of a plan with launchProduction, in their order.
Order == <<"codegen", "app", "project", "link", "env", "hook", "secret", "push",
           "wait", "promote", "update", "bind", "register">>
Places == 1..13
Steps  == {Order[i] : i \in Places}
Launch == {"promote", "update"}

\* The steps that a later call can find out about.
Searched == {"app", "hook"}

VARIABLES
    reuse,      \* the repository has a .vercel/project.json
    log,        \* foldEvents and hydrateScaffoldResume of each run's log
    apps, hooks,    \* the run that made each app of the name, webhook of the URL
    project,    \* 1 if there is a Vercel project of the name
    keychain,   \* the webhook whose secret is stored, 0 if none is
    manifest,   \* the ids in the manifest, 0 where there are none
    registered, \* the registry names the repository
    call,       \* locals of each call
    faults,
    \* history, read by properties only
    stored,     \* webhooks whose secret has been stored
    excused     \* runs called twice at a time, or stopped as ambiguous

remote  == <<apps, hooks, project>>
machine == <<keychain, manifest, registered>>
vars == <<reuse, log, apps, hooks, project, keychain, manifest, registered, call,
          faults, stored, excused>>
history == <<stored, excused>>

Phases == {"idle", "hydrate", "intent", "dispatch", "call", "observe", "unknown",
           "stop", "finalize"}
Ids == 0..MaxMade

Log == [seen : SUBSET Steps, pending : SUBSET Steps,
        state : {"open", "unknown", "other"},
        app : Ids, project : 0..1, hook : Ids]
NewLog == [seen |-> {}, pending |-> {}, state |-> "open",
           app |-> 0, project |-> 0, hook |-> 0]

Known == [app : Ids, project : 0..1, hook : Ids, secret : Ids]
Call == [pc : Phases, run : Runs \cup {None}, todo : SUBSET Steps, know : Known,
         resumes : SUBSET Steps, ambiguous : SUBSET Searched]
Unbound == [app |-> 0, project |-> 0, hook |-> 0]
Nothing == [app |-> 0, project |-> 0, hook |-> 0, secret |-> 0]

\* A call: its run, the steps it has to do, the ids it knows, the steps that
\* were pending when it began, and those with more than one match.
Idle == [pc |-> "idle", run |-> None, todo |-> {}, know |-> Nothing,
         resumes |-> {}, ambiguous |-> {}]

Init ==
    /\ reuse \in BOOLEAN
    /\ log = [r \in Runs |-> NewLog]
    /\ apps = <<>> /\ hooks = <<>> /\ project = IF reuse THEN 1 ELSE 0
    /\ keychain = 0 /\ manifest = Unbound /\ registered = FALSE
    /\ call = [d \in Callers |-> Idle]
    /\ faults = 0 /\ stored = {} /\ excused = {}

Fault(kind) == kind \in Hazards /\ faults < MaxFaults /\ faults' = faults + 1

Goto(d, phase) == call' = [call EXCEPT ![d].pc = phase]
Leave(d) == call' = [call EXCEPT ![d] = Idle]

\* The step of a call: the first one it has left to do.
At(d, s) ==
    /\ s \in call[d].todo
    /\ \E i \in Places :
          /\ Order[i] = s
          /\ \A j \in 1..(i - 1) : Order[j] \notin call[d].todo

-----------------------------------------------------------------------------
(* Starting *)

Bound == manifest # Unbound

\* isResumableScaffoldStatus looks at the pending steps only.
Ready(lg) == lg.pending = {} /\ lg.state # "unknown"
Resumable(lg) == lg.pending \cap Searched # {}

\* runWhopScaffold, up to the call of hydrateScaffoldResume: a bound repository
\* is left alone, and a log without an outcome must be one that can be resumed.
Enter(d, r) ==
    /\ call[d].pc = "idle"
    /\ "overlap" \in Hazards \/ \A e \in Callers : call[e].pc = "idle"
    /\ ~Bound
    /\ Ready(log[r]) \/ Resumable(log[r])
    /\ call' = [call EXCEPT ![d] =
          [Idle EXCEPT !.pc = "hydrate", !.run = r, !.resumes = log[r].pending]]
    /\ excused' = IF \E e \in Callers : call[e].run = r
                    THEN excused \cup {r} ELSE excused
    /\ UNCHANGED <<reuse, log, remote, machine, faults, stored>>

\* findWhopApp and findWhopWebhook find a single match; server.ts passes on no
\* secret with it, and what is pending is not created again.
Only(made) == IF Len(made) = 1 THEN 1 ELSE 0

Or(id, found) == IF id # 0 THEN id ELSE found

Many(d) ==
    {s \in call[d].resumes \cap Searched :
        Len(IF s = "app" THEN apps ELSE hooks) > 1}

\* What a call knows when it starts, both lists read in full or not.  The id of
\* a webhook is of no use without its secret.
Recalled(d, all) ==
    LET lg == log[call[d].run] IN
    [app |-> Or(lg.app, IF all /\ "app" \in call[d].resumes THEN Only(apps) ELSE 0),
     project |-> lg.project, hook |-> lg.hook, secret |-> 0]

\* executablePlan: what has not been observed, and what is pending.
Plan(d, S) == {s \in S : s \notin log[call[d].run].seen \/ s \in call[d].resumes}

\* hydrateScaffoldResume.
Hydrate(d, launch, all) ==
    /\ call[d].pc = "hydrate"
    /\ \/ all /\ UNCHANGED faults
       \/ ~all /\ call[d].resumes \cap Searched # {} /\ Fault("lag")
    /\ call' = [call EXCEPT ![d] =
          [@ EXCEPT !.pc = "intent",
                    !.todo = Plan(d, IF launch THEN Steps ELSE Steps \ Launch),
                    !.know = Recalled(d, all),
                    !.ambiguous = IF all THEN Many(d) ELSE {}]]
    /\ UNCHANGED <<reuse, log, remote, machine, history>>

-----------------------------------------------------------------------------
(* The runner *)

Intent(d) ==
    /\ call[d].pc = "intent"
    /\ Goto(d, IF call[d].todo = {} THEN "finalize" ELSE "dispatch")
    /\ UNCHANGED <<reuse, log, remote, machine, faults, history>>

Dispatch(d, s) ==
    /\ call[d].pc = "dispatch" /\ At(d, s)
    /\ log' = [log EXCEPT ![call[d].run].pending = @ \cup {s}]
    /\ Goto(d, "call")
    /\ UNCHANGED <<reuse, remote, machine, faults, history>>

\* The observed event carries the id, and readers keep the first one.
Observed(lg, s, known) ==
    [seen |-> lg.seen \cup {s}, pending |-> lg.pending \ {s}, state |-> "open",
     app |-> Or(lg.app, IF s = "app" THEN known.app ELSE 0),
     project |-> Or(lg.project, IF s = "project" THEN known.project ELSE 0),
     hook |-> Or(lg.hook, IF s = "hook" THEN known.hook ELSE 0)]

Observe(d, s) ==
    /\ call[d].pc = "observe" /\ At(d, s)
    /\ log' = [log EXCEPT ![call[d].run] = Observed(@, s, call[d].know)]
    /\ call' = [call EXCEPT
          ![d].todo = @ \ {s},
          ![d].pc = IF call[d].todo = {s} THEN "finalize" ELSE "dispatch"]
    /\ UNCHANGED <<reuse, remote, machine, faults, history>>

\* The terminalState of the divergence; ambiguous-target and payload-changed
\* are states that do not stop the next call.
EndState(d) == IF call[d].pc = "unknown" THEN "unknown" ELSE "other"

Diverge(d, s) ==
    /\ call[d].pc \in {"unknown", "stop"} /\ At(d, s)
    /\ log' = [log EXCEPT ![call[d].run].pending = @ \ {s},
                          ![call[d].run].state = EndState(d)]
    /\ excused' = IF call[d].pc = "stop" /\ s \in Searched
                    THEN excused \cup {call[d].run} ELSE excused
    /\ Leave(d)
    /\ UNCHANGED <<reuse, remote, machine, faults, stored>>

\* computeTerminalState: every step has been observed by this call or in the
\* log, so the base is ready.
Finalize(d) ==
    /\ call[d].pc = "finalize"
    /\ log' = [log EXCEPT ![call[d].run].state = "open"]
    /\ Leave(d)
    /\ UNCHANGED <<reuse, remote, machine, faults, history>>

-----------------------------------------------------------------------------
(* The steps: dispatchScaffoldAction and observeScaffoldAction *)

Calls(d, s) == call[d].pc = "call" /\ At(d, s)

\* Seeded fault: a step that is pending and that no one has found is done again.
MakesAgain(d, s) == s \notin call[d].ambiguous

\* A step without an outcome is not done again.
Makes(d, s) == s \notin call[d].resumes

\* Seeded fault: the id of the next one is taken for that of the new one.
NewIdNext(made) == Len(made) + 1

NewId(made) == Len(made)

\* The call knows what its step has returned.
Learn(d, known) ==
    call' = [call EXCEPT ![d] = [@ EXCEPT !.know = known, !.pc = "observe"]]

MakeApp(d) ==
    /\ Calls(d, "app")
    /\ call[d].know.app = 0 /\ Makes(d, "app")
    /\ Len(apps) < MaxMade
    /\ apps' = Append(apps, call[d].run)
    /\ Learn(d, [call[d].know EXCEPT !.app = NewId(apps')])
    /\ UNCHANGED <<reuse, log, hooks, project, machine, faults, history>>

\* The app of an earlier call is taken, found in the log or at the provider.
TakeApp(d) ==
    /\ Calls(d, "app")
    /\ call[d].know.app # 0 /\ "app" \notin call[d].ambiguous
    /\ Goto(d, "observe")
    /\ UNCHANGED <<reuse, log, remote, machine, faults, history>>

\* There is no id, or no secret, or more than one match.
NoProof(d) ==
    /\ \/ Calls(d, "app") /\ call[d].know.app = 0 /\ ~Makes(d, "app")
       \/ Calls(d, "hook") /\ (call[d].know.hook # 0 \/ ~Makes(d, "hook"))
       \/ \E s \in call[d].ambiguous : Calls(d, s)
    /\ Goto(d, IF \E s \in call[d].ambiguous : At(d, s) THEN "stop" ELSE "unknown")
    /\ UNCHANGED <<reuse, log, remote, machine, faults, history>>

\* vercel.projects.create, or reuseExisting in its place.  Names of projects are
\* unique.
MakeProject(d) ==
    /\ Calls(d, "project")
    /\ reuse \/ call[d].know.project # 0 \/ project = 0
    /\ project' = 1
    /\ Learn(d, [call[d].know EXCEPT !.project = 1])
    /\ UNCHANGED <<reuse, log, apps, hooks, machine, faults, history>>

MakeHook(d) ==
    /\ Calls(d, "hook")
    /\ call[d].know.hook = 0 /\ Makes(d, "hook")
    /\ Len(hooks) < MaxMade
    /\ hooks' = Append(hooks, call[d].run)
    /\ Learn(d, [call[d].know EXCEPT !.hook = NewId(hooks'),
                                     !.secret = NewId(hooks')])
    /\ UNCHANGED <<reuse, log, apps, project, machine, faults, history>>

\* Seeded fault: a webhook is enough.
HasSecretOrHook(d) == call[d].know.hook # 0

\* requireObservedId: only the call that made the webhook has seen the secret.
HasSecret(d) == call[d].know.secret # 0

StoreSecret(d) ==
    /\ Calls(d, "secret")
    /\ HasSecret(d)
    /\ keychain' = call[d].know.secret
    /\ stored' = stored \cup {call[d].know.secret}
    /\ Goto(d, "observe")
    /\ UNCHANGED <<reuse, log, remote, manifest, registered, faults, excused>>

\* The steps that leave no trace in this module.
Plain(d) ==
    /\ \E s \in {"codegen", "link", "env", "push", "wait", "promote", "update"} :
            Calls(d, s)
    /\ Goto(d, "observe")
    /\ UNCHANGED <<reuse, log, remote, machine, faults, history>>

UpdateMismatch(d) ==
    /\ Fault("mismatch")
    /\ Calls(d, "update")
    /\ Goto(d, "stop")
    /\ UNCHANGED <<reuse, log, remote, machine, history>>

\* Seeded fault: the binding gets lost.
BindingOfNone(d) == Unbound

Binding(d) ==
    LET k == call[d].know IN [app |-> k.app, project |-> k.project, hook |-> k.hook]

Bind(d) ==
    /\ Calls(d, "bind")
    /\ manifest' = Binding(d)
    /\ Goto(d, "observe")
    /\ UNCHANGED <<reuse, log, remote, keychain, registered, faults, history>>

Register(d) ==
    /\ Calls(d, "register")
    /\ registered' = TRUE
    /\ Goto(d, "observe")
    /\ UNCHANGED <<reuse, log, remote, keychain, manifest, faults, history>>

-----------------------------------------------------------------------------
(* Failures *)

\* A step that cannot succeed: the name is taken, the secret unknown, the
\* number of apps or webhooks used up (bound).
Refused(d) ==
    \/ Calls(d, "project") /\ ~reuse /\ call[d].know.project = 0 /\ project = 1
    \/ Calls(d, "secret") /\ ~HasSecret(d)
    \/ Calls(d, "app") /\ call[d].know.app = 0 /\ Len(apps) = MaxMade
    \/ Calls(d, "hook") /\ Len(hooks) = MaxMade

StepRefused(d) ==
    /\ Refused(d)
    /\ Goto(d, "unknown")
    /\ UNCHANGED <<reuse, log, remote, machine, faults, history>>

\* The step throws, or its observation is not good enough.
StepFails(d) ==
    /\ Fault("call")
    /\ call[d].pc = "call"
    /\ Goto(d, "unknown")
    /\ UNCHANGED <<reuse, log, remote, machine, history>>

\* It throws although it has done its work: the reply was lost.
ReplyLost(d) ==
    /\ Fault("call")
    /\ call[d].pc = "observe"
    /\ Goto(d, "unknown")
    /\ UNCHANGED <<reuse, log, remote, machine, history>>

\* An event is not written: of an observation the runner makes a divergence,
\* and all others end the call.
AppendFails(d) ==
    /\ Fault("append")
    /\ call[d].pc \notin {"idle", "hydrate", "call"}
    /\ IF call[d].pc = "observe" THEN Goto(d, "unknown") ELSE Leave(d)
    /\ UNCHANGED <<reuse, log, remote, machine, history>>

Crash(d) ==
    /\ Fault("crash")
    /\ call[d].pc # "idle"
    /\ Leave(d)
    /\ UNCHANGED <<reuse, log, remote, machine, history>>

-----------------------------------------------------------------------------
ToolStep(d) ==
    MakeApp(d) \/ TakeApp(d) \/ NoProof(d) \/ MakeProject(d) \/ MakeHook(d)
        \/ StoreSecret(d) \/ Plain(d) \/ Bind(d) \/ Register(d) \/ StepRefused(d)

RunnerStep(d) ==
    \/ \E launch \in BOOLEAN : Hydrate(d, launch, TRUE)
    \/ Intent(d) \/ Finalize(d)
    \/ \E s \in Steps : Dispatch(d, s) \/ Observe(d, s) \/ Diverge(d, s)

Failure(d) ==
    \/ \E launch \in BOOLEAN : Hydrate(d, launch, FALSE)
    \/ UpdateMismatch(d) \/ StepFails(d) \/ ReplyLost(d)
    \/ AppendFails(d) \/ Crash(d)

Next ==
    \E d \in Callers :
        \/ \E r \in Runs : Enter(d, r)
        \/ ToolStep(d) \/ RunnerStep(d) \/ Failure(d)

Spec == Init /\ [][Next]_vars

\* A call that has begun goes on, and every run is asked for again and again.
FairSpec ==
    /\ Spec
    /\ \A d \in Callers :
          /\ WF_vars(ToolStep(d) \/ RunnerStep(d))
          /\ \A r \in Runs : SF_vars(Enter(d, r))

-----------------------------------------------------------------------------
(* Properties *)

TypeOK ==
    /\ reuse \in BOOLEAN
    /\ log \in [Runs -> Log]
    /\ apps \in Seq(Runs) /\ Len(apps) <= MaxMade
    /\ hooks \in Seq(Runs) /\ Len(hooks) <= MaxMade
    /\ project \in 0..1
    /\ keychain \in Ids
    /\ manifest \in [app : Ids, project : 0..1, hook : Ids]
    /\ registered \in BOOLEAN
    /\ call \in [Callers -> Call]
    /\ \A d \in Callers : call[d].pc # "idle" => call[d].run # None
    /\ faults \in 0..MaxFaults
    /\ stored \subseteq Ids /\ excused \subseteq Runs

Twice(made, r) == \E i, j \in DOMAIN made : i # j /\ made[i] = r /\ made[j] = r

\* No run creates a second app or webhook: not after a death, a lost reply, a
\* failing log or a list that lags ("Stop on ambiguous targets, ... missing
\* observed proof, or unknown remote outcome", whop_auto/README.md).
CreatesOnce == \A r \in Runs : ~Twice(apps, r) /\ ~Twice(hooks, r)

\* It does so only after two calls of the run have overlapped or one of them
\* has stopped before an ambiguous target.
CreatesTwiceOnlyIfExcused ==
    \A r \in Runs : Twice(apps, r) \/ Twice(hooks, r) => r \in excused

\* With calls made in turn, apps, webhooks, secrets and the binding come about as
\* Onboarding promises: each made once per run unless the run has been led
\* astray, stored once, and bound once and as a whole, with nothing after it.
Deal == INSTANCE Onboarding
            WITH kept <- stored, bound <- manifest, astray <- excused

KeepsOnboarding == Deal!Spec

Stopped(r) == ~Ready(log[r]) /\ ~Resumable(log[r])

\* However calls are cut off, whoever keeps calling ends with a bound
\* repository or with runs that all refuse to go on.
EndsBoundOrStopped == <>[]Bound \/ <>[](\A r \in Runs : Stopped(r))
=============================================================================
