--------------------------- MODULE ScaffoldRunProofs ---------------------------
(***************************************************************************)
(* Proofs about ScaffoldRun, for any number of calls, runs, apps, webhooks *)
(* and faults.  TypeOK and CreatesTwiceOnlyIfExcused hold under every      *)
(* hazard; BindingIsWhole and KeepsOnboarding need calls that do not       *)
(* overlap.                                                                *)
(***************************************************************************)
EXTENDS ScaffoldRun, FiniteSetTheorems, TLAPS

-----------------------------------------------------------------------------
(* Types *)

LEMMA TypeInit == Init => TypeOK
<1> SUFFICES ASSUME Init PROVE TypeOK
  OBVIOUS
<1>1. NewLog \in Log /\ Idle \in Call /\ Unbound \in [app : Ids, project : 0..1, hook : Ids]
  BY ScaffoldAssumption
     DEF NewLog, Log, Idle, Call, Known, Nothing, Unbound, Ids, Phases
<1>2. <<>> \in Seq(Runs) /\ Len(<<>>) <= MaxMade /\ 0 \in Ids /\ 0 \in 0..MaxFaults
  BY ScaffoldAssumption DEF Ids
<1>3. Idle.pc = "idle" /\ project \in 0..1
  BY DEF Idle, Init
<1>4. QED
  BY <1>1, <1>2, <1>3 DEF Init, TypeOK

\* Going on changes the phase alone.
LEMMA GotoTypes ==
  ASSUME TypeOK, NEW d \in Callers, NEW ph \in Phases \ {"idle"}, Goto(d, ph),
         call[d].pc # "idle"
  PROVE  /\ call' \in [Callers -> Call]
         /\ \A e \in Callers : call'[e].pc # "idle" => call'[e].run # None
BY DEF TypeOK, Goto, Call

LEMMA LeaveTypes ==
  ASSUME TypeOK, NEW d \in Callers, Leave(d)
  PROVE  /\ call' \in [Callers -> Call]
         /\ \A e \in Callers : call'[e].pc # "idle" => call'[e].run # None
<1>1. Idle \in Call /\ Idle.pc = "idle"
  BY ScaffoldAssumption DEF Idle, Call, Known, Nothing, Ids, Phases
<1>2. QED
  BY <1>1 DEF TypeOK, Leave

LEMMA LearnTypes ==
  ASSUME TypeOK, NEW d \in Callers, NEW known \in Known, Learn(d, known),
         call[d].pc # "idle"
  PROVE  /\ call' \in [Callers -> Call]
         /\ \A e \in Callers : call'[e].pc # "idle" => call'[e].run # None
<1> DEFINE c == [call[d] EXCEPT !.know = known, !.pc = "observe"]
<1>1. call \in [Callers -> Call] /\ call[d].run # None
  BY DEF TypeOK
<1>2. c \in Call /\ c.run # None
  BY <1>1 DEF Call, Phases
<1>3. call' = [call EXCEPT ![d] = c]
  BY <1>1 DEF Learn
<1> HIDE DEF c
<1>4. QED
  BY <1>1, <1>2, <1>3 DEF TypeOK

\* What a call may take for known when it starts.
LEMMA RecalledTypes ==
  ASSUME TypeOK, NEW d \in Callers, call[d].run \in Runs, NEW all \in BOOLEAN
  PROVE  Recalled(d, all) \in Known
<1>1. log[call[d].run] \in Log
  BY DEF TypeOK
<1>2. Only(apps) \in Ids /\ 0 \in Ids
  BY ScaffoldAssumption DEF Only, Ids
<1>3. log[call[d].run].app \in Ids /\ log[call[d].run].hook \in Ids
      /\ log[call[d].run].project \in 0..1
  BY <1>1 DEF Log
<1>4. QED
  BY <1>2, <1>3 DEF Recalled, Or, Known

LEMMA ObservedTypes ==
  ASSUME NEW lg \in Log, NEW s \in Steps, NEW known \in Known
  PROVE  Observed(lg, s, known) \in Log
<1>1. 0 \in Ids
  BY ScaffoldAssumption DEF Ids
<1>2. lg.app \in Ids /\ lg.project \in 0..1 /\ lg.hook \in Ids
      /\ lg.seen \in SUBSET Steps /\ lg.pending \in SUBSET Steps
  BY DEF Log
<1>3. known.app \in Ids /\ known.project \in 0..1 /\ known.hook \in Ids
  BY DEF Known
<1>4. QED
  BY <1>1, <1>2, <1>3 DEF Observed, Or, Log

LEMMA TypeStep == TypeOK /\ [Next]_vars => TypeOK'
<1> USE ScaffoldAssumption DEF Fault, remote, machine, history
<1> SUFFICES ASSUME TypeOK, [Next]_vars PROVE TypeOK'
  OBVIOUS
<1>a. /\ log \in [Runs -> Log] /\ call \in [Callers -> Call]
      /\ \A d \in Callers : call[d].pc # "idle" =>
            call[d].run \in Runs /\ log[call[d].run] \in Log
      /\ apps \in Seq(Runs) /\ hooks \in Seq(Runs) /\ project \in 0..1
      /\ MaxFaults \in Nat /\ faults \in 0..MaxFaults
  BY DEF TypeOK, Call
<1>b. ASSUME NEW d \in Callers
      PROVE  /\ call[d].todo \in SUBSET Steps /\ call[d].resumes \in SUBSET Steps
             /\ call[d].know \in Known /\ call[d].ambiguous \in SUBSET Searched
             /\ call[d].know.app \in Ids /\ call[d].know.hook \in Ids
             /\ call[d].know.secret \in Ids /\ call[d].know.project \in 0..1
  BY <1>a DEF Call, Known
<1>c. \A d \in Callers, r \in Runs : excused \cup {r} \subseteq Runs
  BY DEF TypeOK
<1>1. ASSUME NEW d \in Callers, NEW r \in Runs, Enter(d, r) PROVE TypeOK'
  <2> DEFINE c == [Idle EXCEPT !.pc = "hydrate", !.run = r,
                               !.resumes = log[r].pending]
  <2>0. log[r].pending \in SUBSET Steps /\ 0 \in Ids /\ r # None
    BY <1>a DEF Log, Ids
  <2>1. c \in Call /\ c.run # None
    <3>1. Idle \in Call
      BY <2>0 DEF Idle, Call, Known, Nothing, Phases
    <3>2. QED
      BY <2>0, <3>1 DEF Call, Phases
  <2>2. call' = [call EXCEPT ![d] = c]
    BY <1>1 DEF Enter
  <2> HIDE DEF c
  <2>3. /\ call' \in [Callers -> Call]
        /\ \A e \in Callers : call'[e].pc # "idle" => call'[e].run # None
    BY <1>a, <2>1, <2>2 DEF TypeOK
  <2>4. QED
    BY <1>1, <2>3 DEF Enter, TypeOK
<1>2. ASSUME NEW d \in Callers, NEW launch \in BOOLEAN, NEW all \in BOOLEAN,
             Hydrate(d, launch, all)
      PROVE  TypeOK'
  <2> DEFINE p == Plan(d, IF launch THEN Steps ELSE Steps \ Launch)
  <2> DEFINE m == IF all THEN Many(d) ELSE {}
  <2> DEFINE c == [call[d] EXCEPT !.pc = "intent", !.todo = p,
                                  !.know = Recalled(d, all), !.ambiguous = m]
  <2>1. call[d].pc = "hydrate" /\ call[d].run # None
    BY <1>2 DEF Hydrate, TypeOK
  <2>2. Recalled(d, all) \in Known /\ p \in SUBSET Steps /\ m \in SUBSET Searched
    BY <1>a, <2>1, RecalledTypes DEF Plan, Many
  <2>3. call' = [call EXCEPT ![d] = c]
    BY <1>2, <1>a DEF Hydrate
  <2> HIDE DEF p, m
  <2>4. c \in Call /\ c.run # None
    BY <1>a, <2>1, <2>2 DEF Call, Phases
  <2> HIDE DEF c
  <2>5. /\ call' \in [Callers -> Call]
        /\ \A e \in Callers : call'[e].pc # "idle" => call'[e].run # None
    BY <1>a, <2>3, <2>4 DEF TypeOK
  <2>6. faults' \in 0..MaxFaults
    BY <1>2, <1>a DEF Hydrate
  <2>7. QED
    BY <1>2, <2>5, <2>6 DEF Hydrate, TypeOK
\* What only goes on, in the log and elsewhere, keeps the types.
<1>d. ASSUME NEW d \in Callers, NEW ph \in Phases \ {"idle"}, Goto(d, ph),
             call[d].pc # "idle", log' \in [Runs -> Log], keychain' \in Ids,
             manifest' \in [app : Ids, project : 0..1, hook : Ids],
             registered' \in BOOLEAN, stored' \subseteq Ids,
             faults' \in 0..MaxFaults, UNCHANGED <<reuse, remote, excused>>
      PROVE  TypeOK'
  BY <1>d, GotoTypes DEF TypeOK
<1>e. ASSUME NEW d \in Callers, NEW ph \in Phases \ {"idle"}, Goto(d, ph),
             call[d].pc # "idle", faults' \in 0..MaxFaults,
             UNCHANGED <<reuse, log, remote, machine, history>>
      PROVE  TypeOK'
  BY <1>e, <1>d DEF TypeOK
<1>f. ASSUME NEW d \in Callers, Leave(d), log' \in [Runs -> Log],
             faults' \in 0..MaxFaults, excused' \subseteq Runs,
             UNCHANGED <<reuse, remote, machine, stored>>
      PROVE  TypeOK'
  BY <1>f, LeaveTypes DEF TypeOK
<1>3. ASSUME NEW d \in Callers, Intent(d) PROVE TypeOK'
  BY <1>3, <1>e, <1>a DEF Intent, Phases
<1>4. ASSUME NEW d \in Callers, NEW s \in Steps, Dispatch(d, s) PROVE TypeOK'
  <2>1. log' \in [Runs -> Log]
    BY <1>4, <1>a DEF Dispatch, Log
  <2>2. QED
    BY <1>4, <1>d, <1>a, <2>1 DEF Dispatch, Phases, TypeOK
<1>5. ASSUME NEW d \in Callers, NEW s \in Steps, Observe(d, s) PROVE TypeOK'
  <2> DEFINE r == call[d].run
  <2>1. r \in Runs /\ log' = [log EXCEPT ![r] = Observed(log[r], s, call[d].know)]
    BY <1>5, <1>a DEF Observe
  <2>2. log' \in [Runs -> Log]
    BY <1>a, <1>b, <2>1, ObservedTypes
  <2> DEFINE ph == IF call[d].todo = {s} THEN "finalize" ELSE "dispatch"
  <2> DEFINE c == [call[d] EXCEPT !.todo = call[d].todo \ {s}, !.pc = ph]
  <2>3. call' = [call EXCEPT ![d] = c]
    BY <1>5, <1>a DEF Observe
  <2>4. c \in Call /\ c.run # None
    BY <1>a, <1>b, <2>1 DEF Call, Phases
  <2> HIDE DEF c
  <2>5. /\ call' \in [Callers -> Call]
        /\ \A e \in Callers : call'[e].pc # "idle" => call'[e].run # None
    BY <1>a, <2>3, <2>4 DEF TypeOK
  <2>6. QED
    BY <1>5, <2>2, <2>5 DEF Observe, TypeOK
<1>6. ASSUME NEW d \in Callers, NEW s \in Steps, Diverge(d, s) PROVE TypeOK'
  <2> DEFINE r == call[d].run
  <2>1. r \in Runs /\ log' = [log EXCEPT ![r] = [log[r] EXCEPT
                                !.pending = log[r].pending \ {s},
                                !.state = EndState(d)]]
    BY <1>6, <1>a DEF Diverge
  <2>2. log' \in [Runs -> Log]
    <3> DEFINE lg == [log[r] EXCEPT !.pending = log[r].pending \ {s},
                                    !.state = EndState(d)]
    <3>1. lg \in Log
      BY <1>a, <2>1 DEF Log, EndState
    <3> HIDE DEF lg
    <3>2. QED
      BY <1>a, <2>1, <3>1 DEF lg
  <2>3. excused' \subseteq Runs
    BY <1>6, <1>c, <2>1 DEF Diverge, TypeOK
  <2>4. QED
    BY <1>6, <1>f, <1>a, <2>2, <2>3 DEF Diverge
<1>7. ASSUME NEW d \in Callers, Finalize(d) PROVE TypeOK'
  <2>1. log' \in [Runs -> Log]
    BY <1>7, <1>a DEF Finalize, Log
  <2>2. QED
    BY <1>7, <1>f, <1>a, <2>1 DEF Finalize, TypeOK
<1>8. ASSUME NEW d \in Callers, MakeApp(d) PROVE TypeOK'
  <2>1. call[d].run \in Runs /\ call[d].pc # "idle" /\ Len(apps) < MaxMade
        /\ apps' = Append(apps, call[d].run)
    BY <1>8, <1>a DEF MakeApp, Calls
  <2>2. apps' \in Seq(Runs) /\ Len(apps') = Len(apps) + 1
    BY <1>a, <2>1
  <2>3. Len(apps') \in Ids /\ Len(apps') <= MaxMade
    BY <1>a, <2>1, <2>2 DEF Ids
  <2>4. [call[d].know EXCEPT !.app = NewId(apps')] \in Known
    BY <1>b, <2>3 DEF Known, NewId
  <2>5. QED
    BY <1>8, <2>1, <2>2, <2>3, <2>4, LearnTypes DEF MakeApp, TypeOK
<1>9. ASSUME NEW d \in Callers, MakeHook(d) PROVE TypeOK'
  <2>1. call[d].run \in Runs /\ call[d].pc # "idle" /\ Len(hooks) < MaxMade
        /\ hooks' = Append(hooks, call[d].run)
    BY <1>9, <1>a DEF MakeHook, Calls
  <2>2. hooks' \in Seq(Runs) /\ Len(hooks') = Len(hooks) + 1
    BY <1>a, <2>1
  <2>3. Len(hooks') \in Ids /\ Len(hooks') <= MaxMade
    BY <1>a, <2>1, <2>2 DEF Ids
  <2>4. [call[d].know EXCEPT !.hook = NewId(hooks'), !.secret = NewId(hooks')]
            \in Known
    BY <1>b, <2>3 DEF Known, NewId
  <2>5. QED
    BY <1>9, <2>1, <2>2, <2>3, <2>4, LearnTypes DEF MakeHook, TypeOK
<1>10. ASSUME NEW d \in Callers, MakeProject(d) PROVE TypeOK'
  <2>1. [call[d].know EXCEPT !.project = 1] \in Known /\ call[d].pc # "idle"
    BY <1>10, <1>b DEF Known, MakeProject, Calls
  <2>2. QED
    BY <1>10, <2>1, LearnTypes DEF MakeProject, TypeOK
<1>11. ASSUME NEW d \in Callers, TakeApp(d) \/ Plain(d) \/ StepRefused(d)
       PROVE  TypeOK'
  BY <1>11, <1>e, <1>a DEF TakeApp, Plain, StepRefused, Refused, Calls, Phases
<1>12. ASSUME NEW d \in Callers, NoProof(d) PROVE TypeOK'
  <2>1. call[d].pc # "idle"
    BY <1>12 DEF NoProof, Calls
  <2>2. QED
    BY <1>12, <1>e, <1>a, <2>1 DEF NoProof, Phases
<1>13. ASSUME NEW d \in Callers, StoreSecret(d) PROVE TypeOK'
  BY <1>13, <1>d, <1>a, <1>b DEF StoreSecret, Calls, Phases, TypeOK
<1>14. ASSUME NEW d \in Callers, Bind(d) PROVE TypeOK'
  <2>1. Binding(d) \in [app : Ids, project : 0..1, hook : Ids]
    BY <1>b DEF Binding
  <2>2. QED
    BY <1>14, <1>d, <1>a, <2>1 DEF Bind, Calls, Phases, TypeOK
<1>15. ASSUME NEW d \in Callers, Register(d) PROVE TypeOK'
  BY <1>15, <1>d, <1>a DEF Register, Calls, Phases, TypeOK
<1>16. ASSUME NEW d \in Callers, UpdateMismatch(d) \/ StepFails(d) \/ ReplyLost(d)
       PROVE  TypeOK'
  BY <1>16, <1>e, <1>a DEF UpdateMismatch, StepFails, ReplyLost, Calls, Phases
<1>17. ASSUME NEW d \in Callers, AppendFails(d) PROVE TypeOK'
  <2>1. CASE Goto(d, "unknown")
    BY <1>17, <1>e, <1>a, <2>1 DEF AppendFails, Phases
  <2>2. CASE Leave(d)
    BY <1>17, <1>f, <1>a, <2>2 DEF AppendFails, TypeOK
  <2>3. QED
    BY <1>17, <2>1, <2>2 DEF AppendFails
<1>18. ASSUME NEW d \in Callers, Crash(d) PROVE TypeOK'
  BY <1>18, <1>f, <1>a DEF Crash, TypeOK
<1>19. CASE UNCHANGED vars
  BY <1>19 DEF vars, TypeOK
<1>20. QED
  BY <1>1, <1>2, <1>3, <1>4, <1>5, <1>6, <1>7, <1>8, <1>9, <1>10, <1>11, <1>12,
     <1>13, <1>14, <1>15, <1>16, <1>17, <1>18, <1>19
  DEF Next, ToolStep, RunnerStep, Failure

\* Every variable keeps its type, whatever fails and however calls overlap.
THEOREM ScaffoldTypeCorrect == Spec => []TypeOK
BY TypeInit, TypeStep, PTL DEF Spec

-----------------------------------------------------------------------------
(* The order of the steps *)

Planned(d) == call[d].pc \notin {"idle", "hydrate"}
On(d, r) == call[d].pc # "idle" /\ call[d].run = r
InStep(d, s) == call[d].pc \in {"call", "observe", "unknown", "stop"} /\ At(d, s)

\* The steps that every plan has.
Needed == Steps \ Launch

\* Runs whose calls come one after the other.
Orderly(r) == r \notin excused \/ "overlap" \notin Hazards

\* A run of which two calls never overlap has one call at most, which has to do
\* what the log has not seen, and whose step is pending.
OneByOne(r) ==
    Orderly(r) =>
        /\ \A d, e \in Callers : On(d, r) /\ On(e, r) => d = e
        /\ log[r].seen \cap log[r].pending = {}
        /\ \A d \in Callers : On(d, r) =>
              /\ call[d].pc = "hydrate" => call[d].resumes = log[r].pending
              /\ Planned(d) => call[d].todo \cap log[r].seen = {}
              /\ \A s \in Steps : InStep(d, s) => s \in log[r].pending

OrderInv ==
    /\ \A d \in Callers :
          /\ call[d].pc = "idle" => call[d].run = None
          /\ call[d].ambiguous \subseteq call[d].resumes
          /\ Planned(d) => Needed \subseteq call[d].todo \cup log[call[d].run].seen
    /\ \A r \in Runs : "hook" \in log[r].pending => "app" \in log[r].seen
    /\ \A r \in Runs : OneByOne(r)

LEMMA OrderIs ==
  /\ \A i, j \in Places : Order[i] = Order[j] => i = j
  /\ Order[2] = "app" /\ Order[3] = "project" /\ Order[6] = "hook"
  /\ Order[7] = "secret" /\ Order[11] = "update" /\ Order[12] = "bind"
  /\ \A i \in Places : i = 1 \/ i = 2 \/ i = 3 \/ i = 4 \/ i = 5 \/ i = 6 \/ i = 7
        \/ i = 8 \/ i = 9 \/ i = 10 \/ i = 11 \/ i = 12 \/ i = 13
BY DEF Order, Places

LEMMA StepsAre ==
  /\ \A i \in Places : Order[i] \in Steps
  /\ {"app", "project", "hook", "secret", "bind"} \subseteq Needed
  /\ Needed \subseteq Steps /\ Searched \subseteq Needed
<1>1. \A i \in Places : Order[i] \in Steps
  BY DEF Steps
<1>2. {2, 3, 6, 7, 12} \subseteq Places
  BY DEF Places
<1>3. {"app", "project", "hook", "secret", "bind"} \subseteq Steps
  BY <1>1, <1>2, OrderIs
<1>4. QED
  BY <1>1, <1>3 DEF Needed, Launch, Searched

\* A call is at one step, and has no step before it left to do.
LEMMA AtOne ==
  ASSUME NEW d, NEW s, NEW t, At(d, s), At(d, t)
  PROVE  s = t
<1>1. PICK i \in Places : Order[i] = s /\ \A j \in 1..(i - 1) : Order[j] \notin call[d].todo
  BY DEF At
<1>2. PICK k \in Places : Order[k] = t /\ \A j \in 1..(k - 1) : Order[j] \notin call[d].todo
  BY DEF At
<1>3. s \in call[d].todo /\ t \in call[d].todo
  BY DEF At
<1>4. ~(i < k) /\ ~(k < i)
  BY <1>1, <1>2, <1>3 DEF Places
<1>5. i = k
  BY <1>4 DEF Places
<1>6. QED
  BY <1>1, <1>2, <1>5

LEMMA AtAfter ==
  ASSUME NEW d, NEW i \in Places, NEW k \in Places, k < i, At(d, Order[i])
  PROVE  Order[k] \notin call[d].todo
<1>1. PICK j \in Places : /\ Order[j] = Order[i]
                         /\ \A l \in 1..(j - 1) : Order[l] \notin call[d].todo
  BY DEF At
<1>2. j = i
  BY <1>1, OrderIs
<1>3. k \in 1..(j - 1)
  BY <1>2 DEF Places
<1>4. QED
  BY <1>1, <1>3

LEMMA AtLate ==
  ASSUME NEW d
  PROVE  /\ At(d, "hook") => "app" \notin call[d].todo
         /\ At(d, "secret") => {"app", "hook"} \cap call[d].todo = {}
         /\ At(d, "update") => {"app", "hook"} \cap call[d].todo = {}
         /\ At(d, "bind") =>
                {"app", "project", "hook", "secret"} \cap call[d].todo = {}
<1>1. {2, 3, 6, 7, 11, 12} \subseteq Places /\ \A i \in Places : i \in Nat
  BY DEF Places
<1>0. \A i, k \in Places : k < i /\ At(d, Order[i]) => Order[k] \notin call[d].todo
  BY AtAfter
<1>2. At(d, Order[6]) => Order[2] \notin call[d].todo
  BY <1>0, <1>1
<1>3. At(d, Order[7]) => Order[2] \notin call[d].todo /\ Order[6] \notin call[d].todo
  BY <1>0, <1>1
<1>4. At(d, Order[11]) => Order[2] \notin call[d].todo /\ Order[6] \notin call[d].todo
  BY <1>0, <1>1
<1>5. At(d, Order[12]) => /\ Order[2] \notin call[d].todo
                          /\ Order[3] \notin call[d].todo
                          /\ Order[6] \notin call[d].todo
                          /\ Order[7] \notin call[d].todo
  BY <1>0, <1>1
<1>6. QED
  BY <1>2, <1>3, <1>4, <1>5, OrderIs

LEMMA OrderInit == Init => OrderInv
<1> SUFFICES ASSUME Init PROVE OrderInv
  OBVIOUS
<1>1. \A d \in Callers : /\ call[d].pc = "idle" /\ call[d].run = None
                         /\ call[d].ambiguous = {} /\ call[d].resumes = {}
  BY DEF Init, Idle
<1>2. \A r \in Runs : log[r].seen = {} /\ log[r].pending = {}
  BY DEF Init, NewLog
<1>3. QED
  BY <1>1, <1>2 DEF OrderInv, OneByOne, On, Planned

\* A step of d that belongs to run r leaves the other runs alone.
LEMMA OrderFrame ==
  ASSUME OrderInv, NEW d \in Callers, NEW r \in Runs,
         \A e \in Callers \ {d} : call'[e] = call[e],
         call'[d].run = r \/ call'[d].pc = "idle",
         \A q \in Runs \ {r} : log'[q] = log[q],
         log[r].seen \subseteq log'[r].seen, excused \subseteq excused',
         \A e \in Callers : call[e].pc # "idle" => call[e].run \in Runs,
         call'[d].pc = "idle" => call'[d].run = None,
         call'[d].ambiguous \subseteq call'[d].resumes,
         Planned(d)' => Needed \subseteq call'[d].todo \cup log'[r].seen,
         "hook" \in log'[r].pending => "app" \in log'[r].seen,
         OneByOne(r)'
  PROVE  OrderInv'
<1>1. ASSUME NEW e \in Callers
      PROVE  /\ call'[e].pc = "idle" => call'[e].run = None
             /\ call'[e].ambiguous \subseteq call'[e].resumes
             /\ Planned(e)' => Needed \subseteq
                                call'[e].todo \cup log'[call'[e].run].seen
  <2>1. CASE e = d
    BY <2>1 DEF Planned
  <2>2. CASE e # d
    <3>1. call'[e] = call[e] /\ (Planned(e)' <=> Planned(e))
      BY <2>2 DEF Planned
    <3>2. Planned(e) => log[call[e].run].seen \subseteq log'[call[e].run].seen
      BY DEF Planned
    <3>3. QED
      BY <3>1, <3>2 DEF OrderInv
  <2>3. QED
    BY <2>1, <2>2
<1>2. ASSUME NEW q \in Runs PROVE OneByOne(q)'
  <2>1. CASE q = r
    BY <2>1
  <2>2. CASE q # r
    <3>1. log'[q] = log[q] /\ OneByOne(q)
      BY <2>2 DEF OrderInv
    <3>2. ~On(d, q)'
      BY <2>2 DEF On
    <3>3. \A e \in Callers \ {d} :
              /\ call'[e] = call[e] /\ (On(e, q)' <=> On(e, q))
              /\ \A s \in Steps : InStep(e, s)' <=> InStep(e, s)
              /\ Planned(e)' <=> Planned(e)
      BY DEF On, InStep, At, Planned
    <3>4. Orderly(q)' => Orderly(q)
      BY DEF Orderly
    <3>5. QED
      BY <3>1, <3>2, <3>3, <3>4 DEF OneByOne
  <2>3. QED
    BY <2>1, <2>2
<1>3. QED
  BY <1>1, <1>2 DEF OrderInv

\* A step that changes no log, but the phase of a call and what it knows.
Moves(d) ==
    /\ Planned(d) /\ Planned(d)'
    /\ \A e \in Callers \ {d} : call'[e] = call[e]
    /\ call'[d].run = call[d].run /\ call'[d].todo = call[d].todo
    /\ call'[d].resumes = call[d].resumes
    /\ call'[d].ambiguous = call[d].ambiguous
    /\ \A s \in Steps : InStep(d, s)' => InStep(d, s)
    /\ UNCHANGED <<log, excused>>

\* A call that is cut off.
Drops(d) == Leave(d) /\ UNCHANGED <<log, excused>>

LEMMA GotoMoves ==
  ASSUME TypeOK, NEW d \in Callers, NEW ph \in Phases \ {"idle", "hydrate"},
         Goto(d, ph), Planned(d), UNCHANGED <<log, excused>>,
         \/ ph \in {"dispatch", "finalize"}
         \/ call[d].pc \in {"call", "observe", "unknown", "stop"}
  PROVE  Moves(d) /\ call'[d].know = call[d].know /\ call'[d].pc = ph
<1>1. call' = [call EXCEPT ![d].pc = ph] /\ call \in [Callers -> Call]
  BY DEF Goto, TypeOK
<1>2. call[d] \in Call
  BY <1>1
<1>3. call'[d] = [call[d] EXCEPT !.pc = ph]
  BY <1>1
<1>4. /\ call'[d].run = call[d].run /\ call'[d].todo = call[d].todo
      /\ call'[d].resumes = call[d].resumes /\ call'[d].know = call[d].know
      /\ call'[d].ambiguous = call[d].ambiguous /\ call'[d].pc = ph
  BY <1>2, <1>3 DEF Call
<1>5. \A e \in Callers \ {d} : call'[e] = call[e]
  BY <1>1
<1>6. QED
  BY <1>4, <1>5 DEF Moves, Planned, InStep, At

LEMMA LearnMoves ==
  ASSUME TypeOK, NEW d \in Callers, NEW known, Learn(d, known),
         call[d].pc = "call", UNCHANGED <<log, excused>>
  PROVE  Moves(d) /\ call'[d].know = known /\ call'[d].pc = "observe"
<1>1. call \in [Callers -> Call]
  BY DEF TypeOK
<1>2. /\ call'[d].run = call[d].run /\ call'[d].todo = call[d].todo
      /\ call'[d].resumes = call[d].resumes /\ call'[d].know = known
      /\ call'[d].ambiguous = call[d].ambiguous /\ call'[d].pc = "observe"
  BY <1>1 DEF Learn, Call
<1>3. \A e \in Callers \ {d} : call'[e] = call[e]
  BY <1>1 DEF Learn
<1>4. QED
  BY <1>2, <1>3 DEF Moves, Planned, InStep, At

LEMMA MovesKeepOrder ==
  ASSUME TypeOK, OrderInv, NEW d \in Callers, Moves(d)
  PROVE  OrderInv'
<1>0. PICK r \in Runs : r = call[d].run
  BY DEF TypeOK, Call, Moves, Planned
<1>1. \A e \in Callers : call[e].pc # "idle" => call[e].run \in Runs
  BY DEF TypeOK, Call
<1>2. OneByOne(r)'
  <2>1. \A e \in Callers : On(e, r)' <=> On(e, r)
    BY <1>0 DEF On, Moves, Planned
  <2>2. \A e \in Callers \ {d} : /\ \A s \in Steps : InStep(e, s)' <=> InStep(e, s)
                                 /\ Planned(e)' <=> Planned(e)
    BY DEF Moves, InStep, At, Planned
  <2>3. OneByOne(r)
    BY DEF OrderInv
  <2>4. QED
    BY <1>0, <2>1, <2>2, <2>3 DEF OneByOne, Moves, Planned, Orderly
<1>3. QED
  BY <1>0, <1>1, <1>2, OrderFrame DEF Moves, OrderInv, Planned

LEMMA DropsKeepOrder ==
  ASSUME TypeOK, OrderInv, NEW d \in Callers, Drops(d), call[d].pc # "idle"
  PROVE  OrderInv'
<1>0. PICK r \in Runs : r = call[d].run
  BY DEF TypeOK, Call
<1>1. \A e \in Callers : call[e].pc # "idle" => call[e].run \in Runs
  BY DEF TypeOK, Call
<1>2. /\ \A e \in Callers \ {d} : call'[e] = call[e]
      /\ call'[d].pc = "idle" /\ call'[d].run = None
      /\ call'[d].ambiguous = {}
  BY DEF Drops, Leave, Idle, TypeOK
<1>3. OneByOne(r)'
  <2>1. \A e \in Callers : On(e, r)' => e # d /\ On(e, r)
    BY <1>2 DEF On
  <2>2. \A e \in Callers \ {d} : /\ \A s \in Steps : InStep(e, s)' <=> InStep(e, s)
                                 /\ Planned(e)' <=> Planned(e)
    BY <1>2 DEF InStep, At, Planned
  <2>3. OneByOne(r)
    BY DEF OrderInv
  <2>4. QED
    BY <1>2, <2>1, <2>2, <2>3 DEF OneByOne, Drops, Orderly
<1>4. QED
  BY <1>0, <1>1, <1>2, <1>3, OrderFrame DEF Drops, OrderInv, Planned

LEMMA ToolMoves ==
  ASSUME TypeOK, NEW d \in Callers, ToolStep(d)
  PROVE  Moves(d) /\ call[d].pc = "call"
<1> USE DEF remote, machine, history
<1>1. call[d].pc = "call" => Planned(d)
  BY DEF Planned
<1>2. "observe" \in Phases /\ "unknown" \in Phases /\ "stop" \in Phases
  BY DEF Phases
<1>3. CASE MakeApp(d)
  BY <1>3, LearnMoves DEF MakeApp, Calls
<1>4. CASE MakeHook(d)
  BY <1>4, LearnMoves DEF MakeHook, Calls
<1>5. CASE MakeProject(d)
  BY <1>5, LearnMoves DEF MakeProject, Calls
<1>6. CASE NoProof(d)
  <2>1. call[d].pc = "call"
    BY <1>6 DEF NoProof, Calls
  <2>2. QED
    BY <1>6, <1>1, <1>2, <2>1, GotoMoves DEF NoProof
<1>7. CASE TakeApp(d) \/ StoreSecret(d) \/ Plain(d) \/ Bind(d) \/ Register(d)
  <2>1. /\ call[d].pc = "call" /\ Goto(d, "observe")
        /\ UNCHANGED <<log, excused>>
    BY <1>7 DEF TakeApp, StoreSecret, Plain, Bind, Register, Calls
  <2>2. QED
    BY <1>1, <1>2, <2>1, GotoMoves
<1>8. CASE StepRefused(d)
  <2>1. call[d].pc = "call"
    BY <1>8 DEF StepRefused, Refused, Calls
  <2>2. QED
    BY <1>8, <1>1, <1>2, <2>1, GotoMoves DEF StepRefused
<1>9. QED
  BY <1>3, <1>4, <1>5, <1>6, <1>7, <1>8 DEF ToolStep

\* Failures end a step or the call, and change nothing else.
Fails(d) ==
    UpdateMismatch(d) \/ StepFails(d) \/ ReplyLost(d) \/ AppendFails(d) \/ Crash(d)

LEMMA FailsMoves ==
  ASSUME TypeOK, NEW d \in Callers, Fails(d)
  PROVE  /\ \/ /\ Moves(d) /\ call'[d].know = call[d].know
               /\ \/ call[d].pc \in {"call", "observe"} /\ call'[d].pc = "unknown"
                  \/ Calls(d, "update") /\ call'[d].pc = "stop"
            \/ Drops(d) /\ call[d].pc # "idle"
         /\ UNCHANGED <<reuse, remote, machine, stored>>
<1> USE DEF remote, machine, history, Fault
<1>1. "unknown" \in Phases /\ "stop" \in Phases
  BY DEF Phases
<1>2. CASE UpdateMismatch(d)
  BY <1>1, <1>2, GotoMoves DEF UpdateMismatch, Calls, Planned
<1>3. CASE StepFails(d)
  BY <1>1, <1>3, GotoMoves DEF StepFails, Planned
<1>4. CASE ReplyLost(d)
  BY <1>1, <1>4, GotoMoves DEF ReplyLost, Planned
<1>5. CASE AppendFails(d) /\ call[d].pc = "observe"
  BY <1>1, <1>5, GotoMoves DEF AppendFails, Planned
<1>6. CASE AppendFails(d) /\ call[d].pc # "observe"
  BY <1>6 DEF AppendFails, Drops
<1>7. CASE Crash(d)
  BY <1>7 DEF Crash, Drops
<1>8. QED
  BY <1>2, <1>3, <1>4, <1>5, <1>6, <1>7 DEF Fails

LEMMA IntentMoves ==
  ASSUME TypeOK, NEW d \in Callers, Intent(d)
  PROVE  /\ Moves(d) /\ call'[d].know = call[d].know /\ call[d].pc = "intent"
         /\ call'[d].pc \in {"dispatch", "finalize"}
<1>1. "dispatch" \in Phases /\ "finalize" \in Phases
  BY DEF Phases
<1>2. QED
  BY <1>1, GotoMoves DEF Intent, Planned, history

\* What the steps of the runner do to the call and to its log.
LEMMA EnterIs ==
  ASSUME TypeOK, NEW d \in Callers, NEW r \in Runs, Enter(d, r)
  PROVE  /\ call[d].pc = "idle" /\ \A e \in Callers \ {d} : call'[e] = call[e]
         /\ call'[d].pc = "hydrate" /\ call'[d].run = r
         /\ call'[d].resumes = log[r].pending /\ call'[d].ambiguous = {}
         /\ log' = log /\ excused \subseteq excused'
         /\ (\E e \in Callers : call[e].run = r) => r \in excused'
BY DEF Enter, TypeOK, Idle

LEMMA HydrateIs ==
  ASSUME TypeOK, NEW d \in Callers, NEW launch \in BOOLEAN, NEW all \in BOOLEAN,
         Hydrate(d, launch, all)
  PROVE  /\ call[d].pc = "hydrate" /\ \A e \in Callers \ {d} : call'[e] = call[e]
         /\ call'[d].pc = "intent" /\ call'[d].run = call[d].run
         /\ call'[d].resumes = call[d].resumes
         /\ call'[d].ambiguous \subseteq call[d].resumes
         /\ \E S \in SUBSET Steps : Needed \subseteq S /\ call'[d].todo = Plan(d, S)
         /\ call'[d].know = Recalled(d, all)
         /\ log' = log /\ excused' = excused
<1>1. /\ call \in [Callers -> Call] /\ call[d] \in Call
  BY DEF TypeOK
<1>2. call'[d] = [call[d] EXCEPT
                    !.pc = "intent",
                    !.todo = Plan(d, IF launch THEN Steps ELSE Steps \ Launch),
                    !.know = Recalled(d, all),
                    !.ambiguous = IF all THEN Many(d) ELSE {}]
  BY <1>1 DEF Hydrate
<1>3. Many(d) \subseteq call[d].resumes
  BY DEF Many
<1>4. Needed \subseteq (IF launch THEN Steps ELSE Steps \ Launch)
      /\ (IF launch THEN Steps ELSE Steps \ Launch) \in SUBSET Steps
  BY DEF Needed
<1>5. \A e \in Callers \ {d} : call'[e] = call[e]
  BY <1>1 DEF Hydrate
<1>6. call[d].pc = "hydrate" /\ log' = log /\ excused' = excused
  BY DEF Hydrate, history
<1>7. /\ call'[d].pc = "intent" /\ call'[d].run = call[d].run
      /\ call'[d].resumes = call[d].resumes
      /\ call'[d].ambiguous = IF all THEN Many(d) ELSE {}
      /\ call'[d].know = Recalled(d, all)
      /\ call'[d].todo = Plan(d, IF launch THEN Steps ELSE Steps \ Launch)
  BY <1>1, <1>2 DEF Call
<1>8. QED
  BY <1>3, <1>4, <1>5, <1>6, <1>7

LEMMA DispatchIs ==
  ASSUME TypeOK, NEW d \in Callers, NEW s \in Steps, Dispatch(d, s)
  PROVE  LET r == call[d].run IN
         /\ call[d].pc = "dispatch" /\ At(d, s)
         /\ \A e \in Callers \ {d} : call'[e] = call[e]
         /\ call'[d].pc = "call" /\ call'[d].run = call[d].run
         /\ call'[d].todo = call[d].todo /\ call'[d].know = call[d].know
         /\ call'[d].resumes = call[d].resumes
         /\ call'[d].ambiguous = call[d].ambiguous
         /\ r \in Runs /\ \A q \in Runs \ {r} : log'[q] = log[q]
         /\ log'[r].seen = log[r].seen /\ log'[r].pending = log[r].pending \cup {s}
         /\ log'[r].state = log[r].state /\ log'[r].app = log[r].app
         /\ log'[r].project = log[r].project /\ log'[r].hook = log[r].hook
         /\ excused' = excused
<1>1. call \in [Callers -> Call] /\ log \in [Runs -> Log] /\ call[d].run \in Runs
  BY DEF TypeOK, Call, Dispatch
<1>2. log[call[d].run] \in Log /\ call[d] \in Call
  BY <1>1
<1>3. QED
  BY <1>1, <1>2 DEF Dispatch, Goto, Call, Log, history

LEMMA ObserveIs ==
  ASSUME TypeOK, NEW d \in Callers, NEW s \in Steps, Observe(d, s)
  PROVE  LET r == call[d].run IN
         /\ call[d].pc = "observe" /\ At(d, s)
         /\ \A e \in Callers \ {d} : call'[e] = call[e]
         /\ call'[d].pc \in {"dispatch", "finalize"} /\ call'[d].run = call[d].run
         /\ call'[d].todo = call[d].todo \ {s} /\ call'[d].know = call[d].know
         /\ call'[d].resumes = call[d].resumes
         /\ call'[d].ambiguous = call[d].ambiguous
         /\ r \in Runs /\ \A q \in Runs \ {r} : log'[q] = log[q]
         /\ log'[r] = Observed(log[r], s, call[d].know)
         /\ log'[r].seen = log[r].seen \cup {s}
         /\ log'[r].pending = log[r].pending \ {s}
         /\ excused' = excused
<1>1. call \in [Callers -> Call] /\ log \in [Runs -> Log] /\ call[d].run \in Runs
  BY DEF TypeOK, Call, Observe
<1>2. log[call[d].run] \in Log /\ call[d] \in Call
  BY <1>1
<1>3. /\ \A q \in Runs \ {call[d].run} : log'[q] = log[q]
      /\ log'[call[d].run] = Observed(log[call[d].run], s, call[d].know)
  BY <1>1 DEF Observe
<1>4. /\ log'[call[d].run].seen = log[call[d].run].seen \cup {s}
      /\ log'[call[d].run].pending = log[call[d].run].pending \ {s}
  BY <1>3 DEF Observed
<1>5. QED
  BY <1>1, <1>2, <1>3, <1>4 DEF Observe, Call, history

LEMMA DivergeIs ==
  ASSUME TypeOK, NEW d \in Callers, NEW s \in Steps, Diverge(d, s)
  PROVE  LET r == call[d].run IN
         /\ call[d].pc \in {"unknown", "stop"} /\ At(d, s) /\ Leave(d)
         /\ r \in Runs /\ \A q \in Runs \ {r} : log'[q] = log[q]
         /\ log'[r].seen = log[r].seen /\ log'[r].pending = log[r].pending \ {s}
         /\ log'[r].state = EndState(d) /\ log'[r].app = log[r].app
         /\ log'[r].project = log[r].project /\ log'[r].hook = log[r].hook
         /\ excused \subseteq excused'
         /\ call[d].pc = "stop" /\ s \in Searched => r \in excused'
<1>1. call \in [Callers -> Call] /\ log \in [Runs -> Log] /\ call[d].run \in Runs
  BY DEF TypeOK, Call, Diverge
<1>2. log[call[d].run] \in Log /\ call[d] \in Call
  BY <1>1
<1>3. QED
  BY <1>1, <1>2 DEF Diverge, Log

LEMMA FinalizeIs ==
  ASSUME TypeOK, NEW d \in Callers, Finalize(d)
  PROVE  LET r == call[d].run IN
         /\ call[d].pc = "finalize" /\ Leave(d)
         /\ r \in Runs /\ \A q \in Runs \ {r} : log'[q] = log[q]
         /\ log'[r].seen = log[r].seen /\ log'[r].pending = log[r].pending
         /\ log'[r].app = log[r].app
         /\ log'[r].project = log[r].project /\ log'[r].hook = log[r].hook
         /\ excused' = excused
<1>1. call \in [Callers -> Call] /\ log \in [Runs -> Log] /\ call[d].run \in Runs
  BY DEF TypeOK, Call, Finalize
<1>2. log[call[d].run] \in Log /\ call[d] \in Call
  BY <1>1
<1>3. QED
  BY <1>1, <1>2 DEF Finalize, Log, history

LEMMA LeaveIs ==
  ASSUME TypeOK, NEW d \in Callers, Leave(d)
  PROVE  /\ \A e \in Callers \ {d} : call'[e] = call[e]
         /\ call'[d].pc = "idle" /\ call'[d].run = None
         /\ call'[d].resumes = {} /\ call'[d].ambiguous = {}
BY DEF Leave, Idle, TypeOK

LEMMA OrderStep == TypeOK /\ OrderInv /\ [Next]_vars => OrderInv'
<1> SUFFICES ASSUME TypeOK, OrderInv, [Next]_vars PROVE OrderInv'
  OBVIOUS
<1>a. \A e \in Callers : call[e].pc # "idle" => call[e].run \in Runs
  BY DEF TypeOK, Call
<1>b. None \notin Runs
  BY ScaffoldAssumption
<1>1. ASSUME NEW d \in Callers, NEW r \in Runs, Enter(d, r) PROVE OrderInv'
  <2>1. OneByOne(r)'
    <3>1. SUFFICES ASSUME Orderly(r)'
                   PROVE  /\ \A e \in Callers : On(e, r)' => e = d
                          /\ log[r].seen \cap log[r].pending = {}
      BY <3>1, <1>1, EnterIs DEF OneByOne, On, Planned, InStep
    <3>2. \A e \in Callers : ~On(e, r)
      <4>1. CASE r \notin excused'
        BY <1>1, <4>1, EnterIs DEF On
      <4>2. CASE "overlap" \notin Hazards
        BY <1>1, <4>2 DEF Enter, On
      <4>3. QED
        BY <3>1, <4>1, <4>2 DEF Orderly
    <3>3. Orderly(r)
      BY <3>1, <1>1, EnterIs DEF Orderly
    <3>4. QED
      BY <1>1, <3>2, <3>3, EnterIs DEF On, OrderInv, OneByOne
  <2>2. "hook" \in log[r].pending => "app" \in log[r].seen
    BY DEF OrderInv
  <2>3. QED
    BY <1>1, <1>a, <2>1, <2>2, EnterIs, OrderFrame DEF Planned
<1>2. ASSUME NEW d \in Callers, NEW launch \in BOOLEAN, NEW all \in BOOLEAN,
             Hydrate(d, launch, all)
      PROVE  OrderInv'
  <2>1. PICK r \in Runs : r = call[d].run
    BY <1>2, <1>a DEF Hydrate
  <2>2. PICK S \in SUBSET Steps : Needed \subseteq S /\ call'[d].todo = Plan(d, S)
    BY <1>2, HydrateIs
  <2>3. /\ call[d].pc = "hydrate" /\ call'[d].pc = "intent" /\ call'[d].run = r
        /\ \A e \in Callers \ {d} : call'[e] = call[e]
        /\ call'[d].ambiguous \subseteq call'[d].resumes
        /\ log' = log /\ excused' = excused
    BY <1>2, <2>1, HydrateIs
  <2>4. Needed \subseteq call'[d].todo \cup log'[r].seen
    BY <2>1, <2>2, <2>3 DEF Plan
  <2>5. OneByOne(r)'
    <3>1. SUFFICES ASSUME Orderly(r)'
                   PROVE  /\ \A e \in Callers : On(e, r)' => e = d
                          /\ log[r].seen \cap log[r].pending = {}
                          /\ call'[d].todo \cap log[r].seen = {}
      BY <3>1, <2>3 DEF OneByOne, On, Planned, InStep
    <3>2. OneByOne(r) /\ Orderly(r) /\ On(d, r)
      BY <3>1, <2>1, <2>3 DEF OrderInv, Orderly, On
    <3>3. \A e \in Callers : On(e, r)' => On(e, r)
      BY <2>1, <2>3 DEF On
    <3>4. call[d].resumes = log[r].pending /\ log[r].seen \cap log[r].pending = {}
      BY <3>2, <2>3 DEF OneByOne
    <3>5. QED
      BY <3>2, <3>3, <3>4, <2>1, <2>2 DEF OneByOne, Plan
  <2>6. "hook" \in log[r].pending => "app" \in log[r].seen
    BY DEF OrderInv
  <2>7. QED
    BY <1>a, <2>3, <2>4, <2>5, <2>6, OrderFrame DEF Planned
<1>3. ASSUME NEW d \in Callers, NEW s \in Steps, Dispatch(d, s) PROVE OrderInv'
  <2>1. PICK r \in Runs : r = call[d].run
    BY <1>3, DispatchIs
  <2>2. s \in call[d].todo /\ Planned(d)
        /\ Needed \subseteq call[d].todo \cup log[r].seen
    BY <1>3, <2>1, DispatchIs DEF At, OrderInv, Planned
  <2>3. "hook" \in log'[r].pending => "app" \in log'[r].seen
    <3>1. s = "hook" => "app" \notin call[d].todo
      BY <1>3, DispatchIs, AtLate
    <3>2. "app" \in Needed
      BY StepsAre
    <3>3. QED
      BY <1>3, <2>1, <2>2, <3>1, <3>2, DispatchIs DEF OrderInv
  <2>4. OneByOne(r)'
    <3>1. SUFFICES ASSUME Orderly(r)'
                   PROVE  /\ \A e \in Callers : On(e, r)' => e = d
                          /\ log'[r].seen \cap log'[r].pending = {}
                          /\ call'[d].todo \cap log'[r].seen = {}
                          /\ \A t \in Steps : InStep(d, t)' => t \in log'[r].pending
      BY <3>1, <1>3, <2>1, DispatchIs DEF OneByOne, On
    <3>2. OneByOne(r) /\ Orderly(r) /\ On(d, r)
      BY <3>1, <1>3, <2>1, DispatchIs DEF OrderInv, Orderly, On
    <3>3. \A e \in Callers : On(e, r)' => On(e, r)
      BY <1>3, <2>1, DispatchIs DEF On
    <3>4. \A t \in Steps : InStep(d, t)' => t = s
      BY <1>3, DispatchIs, AtOne DEF InStep, At
    <3>5. QED
      BY <1>3, <2>1, <2>2, <3>2, <3>3, <3>4, DispatchIs DEF OneByOne
  <2>5. QED
    BY <1>3, <1>a, <2>1, <2>2, <2>3, <2>4, DispatchIs, OrderFrame
    DEF OrderInv, Planned
<1>4. ASSUME NEW d \in Callers, NEW s \in Steps, Observe(d, s) PROVE OrderInv'
  <2>1. PICK r \in Runs : r = call[d].run
    BY <1>4, ObserveIs
  <2>2. Needed \subseteq call[d].todo \cup log[r].seen /\ Planned(d)
    BY <1>4, <2>1, ObserveIs DEF OrderInv, Planned
  <2>3. "hook" \in log'[r].pending => "app" \in log'[r].seen
    BY <1>4, <2>1, ObserveIs DEF OrderInv
  <2>4. OneByOne(r)'
    <3>1. SUFFICES ASSUME Orderly(r)'
                   PROVE  /\ \A e \in Callers : On(e, r)' => e = d
                          /\ log'[r].seen \cap log'[r].pending = {}
                          /\ call'[d].todo \cap log'[r].seen = {}
      BY <3>1, <1>4, <2>1, ObserveIs DEF OneByOne, On, InStep
    <3>2. OneByOne(r) /\ Orderly(r) /\ On(d, r)
      BY <3>1, <1>4, <2>1, ObserveIs DEF OrderInv, Orderly, On
    <3>3. \A e \in Callers : On(e, r)' => On(e, r)
      BY <1>4, <2>1, ObserveIs DEF On
    <3>4. QED
      BY <1>4, <2>1, <2>2, <3>2, <3>3, ObserveIs DEF OneByOne
  <2>5. QED
    BY <1>4, <1>a, <2>1, <2>2, <2>3, <2>4, ObserveIs, OrderFrame
    DEF OrderInv, Planned
<1>5. ASSUME NEW d \in Callers, NEW r \in Runs, r = call[d].run, Leave(d),
             call[d].pc # "idle", excused \subseteq excused',
             \A q \in Runs \ {r} : log'[q] = log[q],
             log'[r].seen = log[r].seen, log'[r].pending \subseteq log[r].pending
      PROVE  OrderInv'
  <2>1. OneByOne(r)'
    <3>1. \A e \in Callers : On(e, r)' => e # d /\ On(e, r)
      BY <1>5, <1>b, LeaveIs DEF On
    <3>2. Orderly(r)' => Orderly(r) /\ OneByOne(r) /\ On(d, r)
      BY <1>5 DEF Orderly, OrderInv, On
    <3>3. QED
      BY <1>5, <3>1, <3>2 DEF OneByOne
  <2>2. "hook" \in log'[r].pending => "app" \in log'[r].seen
    BY <1>5 DEF OrderInv
  <2>3. QED
    BY <1>a, <1>5, <2>1, <2>2, LeaveIs, OrderFrame DEF Planned
<1>6. ASSUME NEW d \in Callers, NEW s \in Steps, Diverge(d, s) PROVE OrderInv'
  BY <1>5, <1>6, DivergeIs
<1>7. ASSUME NEW d \in Callers, Finalize(d) PROVE OrderInv'
  BY <1>5, <1>7, FinalizeIs
<1>8. ASSUME NEW d \in Callers, ToolStep(d) \/ Intent(d) \/ Fails(d) PROVE OrderInv'
  BY <1>8, ToolMoves, IntentMoves, FailsMoves, MovesKeepOrder, DropsKeepOrder
<1>9. CASE UNCHANGED vars
  <2>1. UNCHANGED <<call, log, excused>>
    BY <1>9 DEF vars
  <2>2. QED
    BY <2>1 DEF OrderInv, OneByOne, On, Planned, InStep, At, Orderly
<1>10. QED
  BY <1>1, <1>2, <1>3, <1>4, <1>6, <1>7, <1>8, <1>9
  DEF Next, RunnerStep, Failure, Fails

-----------------------------------------------------------------------------
(* What a run has made *)

Made(s) == IF s = "app" THEN apps ELSE hooks
Has(r, s) == \E i \in DOMAIN Made(s) : Made(s)[i] = r

\* No call of the run is under way, and none may begin.
Over(r) ==
    /\ log[r].state = "unknown" /\ log[r].pending \cap Searched = {}
    /\ \A d \in Callers : ~On(d, r)

\* What a run has made, the log has seen or has pending, or the run is over.
Accounted(r, s) ==
    Has(r, s) => s \in log[r].seen \cup log[r].pending \/ Over(r)

\* A call that might make it has made it itself and just now.
Fresh(d, r, s) ==
    On(d, r) /\ Has(r, s) /\ s \notin call[d].resumes =>
        /\ call[d].pc = "hydrate" => s \in log[r].seen
        /\ Planned(d) /\ s \in call[d].todo =>
                call[d].pc \in {"observe", "unknown"} /\ At(d, s)

MadeOnce(r) ==
    \A s \in Searched :
        /\ ~Twice(Made(s), r)
        /\ Accounted(r, s)
        /\ \A d \in Callers : Fresh(d, r, s)

MadeInv == \A r \in Runs \ excused : MadeOnce(r)

LEMMA MadeInit == Init => MadeInv
<1> SUFFICES ASSUME Init PROVE MadeInv
  OBVIOUS
<1>1. \A s : Made(s) = <<>>
  BY DEF Init, Made
<1>2. \A r, s : ~Has(r, s) /\ ~Twice(Made(s), r)
  BY <1>1 DEF Has, Twice
<1>3. QED
  BY <1>2 DEF MadeInv, MadeOnce, Accounted, Fresh

\* A sequence that gets one more of x.
LEMMA OneMore ==
  ASSUME NEW old \in Seq(Runs), NEW x \in Runs, NEW q
  PROVE  /\ q # x => /\ (\E i \in DOMAIN Append(old, x) : Append(old, x)[i] = q)
                            <=> (\E i \in DOMAIN old : old[i] = q)
                     /\ Twice(Append(old, x), q) => Twice(old, q)
         /\ ~(\E i \in DOMAIN old : old[i] = x) => ~Twice(Append(old, x), x)
<1>0. PICK new : new = Append(old, x)
  OBVIOUS
<1>1. /\ DOMAIN old = 1..Len(old) /\ Len(old) \in Nat
      /\ DOMAIN new = 1..(Len(old) + 1) /\ new[Len(old) + 1] = x
      /\ \A i \in DOMAIN old : new[i] = old[i]
  BY <1>0
<1>2. \A i \in DOMAIN new : i \in DOMAIN old \/ i = Len(old) + 1
  BY <1>1
<1>3. \A i \in DOMAIN old : i \in DOMAIN new
  BY <1>1
<1>4. /\ q # x => /\ (\E i \in DOMAIN new : new[i] = q)
                         <=> (\E i \in DOMAIN old : old[i] = q)
                  /\ Twice(new, q) => Twice(old, q)
      /\ ~(\E i \in DOMAIN old : old[i] = x) => ~Twice(new, x)
  BY <1>1, <1>2, <1>3 DEF Twice
<1>5. QED
  BY <1>0, <1>4, Zenon

OthersKeep(r) ==
    \A q \in Runs \ {r}, s \in Searched :
        /\ Has(q, s)' <=> Has(q, s)
        /\ Twice(Made(s)', q) => Twice(Made(s), q)

\* A step of d that belongs to run r leaves the other runs alone.
LEMMA MadeFrame ==
  ASSUME MadeInv, NEW d \in Callers, NEW r \in Runs,
         \A e \in Callers \ {d} : call'[e] = call[e],
         call[d].run = r \/ call[d].pc = "idle",
         call'[d].run = r \/ call'[d].pc = "idle",
         \A q \in Runs \ {r} : log'[q] = log[q],
         OthersKeep(r),
         excused \subseteq excused',
         r \notin excused' => MadeOnce(r)'
  PROVE  MadeInv'
<1>1. SUFFICES ASSUME NEW q \in Runs \ excused' PROVE MadeOnce(q)'
  BY <1>1 DEF MadeInv
<1>2. CASE q = r
  BY <1>2
<1>3. CASE q # r
  <2>1. MadeOnce(q) /\ log'[q] = log[q]
    BY <1>3 DEF MadeInv
  <2>2. ~On(d, q) /\ ~On(d, q)'
    BY <1>3 DEF On
  <2>3. \A e \in Callers \ {d} : /\ call'[e] = call[e] /\ (On(e, q)' <=> On(e, q))
                                 /\ \A s \in Searched : At(e, s)' <=> At(e, s)
                                 /\ Planned(e)' <=> Planned(e)
    BY DEF On, At, Planned
  <2>4. Over(q) => Over(q)'
    BY <2>1, <2>2, <2>3 DEF Over
  <2>5. ASSUME NEW s \in Searched
        PROVE  ~Twice(Made(s), q)' /\ Accounted(q, s)'
    BY <1>3, <2>1, <2>4 DEF MadeOnce, Accounted, Twice, OthersKeep
  <2>6. ASSUME NEW s \in Searched, NEW e \in Callers PROVE Fresh(e, q, s)'
    <3>1. CASE e = d
      BY <2>2, <3>1 DEF Fresh
    <3>2. CASE e # d
      <4>1. Fresh(e, q, s) /\ call'[e] = call[e] /\ (On(e, q)' <=> On(e, q))
            /\ (At(e, s)' <=> At(e, s)) /\ (Planned(e)' <=> Planned(e))
            /\ (Has(q, s)' <=> Has(q, s))
        BY <1>3, <2>1, <2>3, <3>2 DEF MadeOnce, OthersKeep
      <4>2. QED
        BY <2>1, <4>1 DEF Fresh
    <3>3. QED
      BY <3>1, <3>2
  <2>7. QED
    BY <2>5, <2>6 DEF MadeOnce
<1>4. QED
  BY <1>2, <1>3

\* The run of an orderly call has no other.
LEMMA SoleCall ==
  ASSUME OrderInv, NEW d \in Callers, NEW r \in Runs, On(d, r), Orderly(r)
  PROVE  /\ \A e \in Callers : On(e, r) => e = d
         /\ ~Over(r)
         /\ log[r].seen \cap log[r].pending = {}
         /\ call[d].pc = "hydrate" => call[d].resumes = log[r].pending
         /\ Planned(d) => /\ call[d].todo \cap log[r].seen = {}
                          /\ Needed \subseteq call[d].todo \cup log[r].seen
         /\ \A s \in Steps : InStep(d, s) => s \in log[r].pending
BY DEF OrderInv, OneByOne, On, Over, Planned

\* Nothing is made.
NothingMade == UNCHANGED <<apps, hooks>>

LEMMA SameMade ==
  ASSUME NothingMade
  PROVE  /\ \A s : Made(s)' = Made(s) /\ \A q : Has(q, s)' <=> Has(q, s)
         /\ \A r : OthersKeep(r)
<1>1. \A s : Made(s)' = Made(s) /\ \A q : Has(q, s)' <=> Has(q, s)
  BY DEF NothingMade, Made, Has
<1>2. QED
  BY <1>1 DEF OthersKeep

\* A call that ends has accounted for what its run has made, if the log has it
\* still seen or pending, or is not to be continued.
LEMMA LeaveKeepsMade ==
  ASSUME TypeOK, OrderInv, MadeInv, NothingMade,
         NEW d \in Callers, NEW r \in Runs, On(d, r), Leave(d),
         \A q \in Runs \ {r} : log'[q] = log[q], excused \subseteq excused',
         r \notin excused' =>
            \/ Searched \cap (log[r].seen \cup log[r].pending) \subseteq
                    log'[r].seen \cup log'[r].pending
            \/ log'[r].state = "unknown" /\ log'[r].pending \cap Searched = {}
  PROVE  MadeInv'
<1>1. /\ \A e \in Callers \ {d} : call'[e] = call[e]
      /\ call'[d].pc = "idle" /\ call[d].run = r
  BY LeaveIs DEF On
<1>2. r \notin excused' => MadeOnce(r)'
  <2>1. SUFFICES ASSUME r \notin excused' PROVE MadeOnce(r)'
    OBVIOUS
  <2>2. Orderly(r) /\ MadeOnce(r)
    BY <2>1 DEF Orderly, MadeInv
  <2>3. \A e \in Callers : ~On(e, r)'
    BY <1>1, <2>2, SoleCall DEF On
  <2>4. ~Over(r)
    BY <2>2, SoleCall
  <2>5. \A s \in Searched : Accounted(r, s)'
    BY <2>1, <2>2, <2>3, <2>4, SameMade DEF MadeOnce, Accounted, Over
  <2>6. QED
    BY <2>2, <2>3, <2>5, SameMade DEF MadeOnce, Fresh
<1>3. QED
  BY <1>1, <1>2, SameMade, MadeFrame

LEMMA MakeKeepsMade ==
  ASSUME TypeOK, OrderInv, MadeInv, NEW d \in Callers, NEW r \in Runs,
         r = call[d].run, Moves(d), call[d].pc = "call", call'[d].pc = "observe",
         NEW s \in Searched, At(d, s), s \notin call[d].resumes,
         NEW old, old \in Seq(Runs), Made(s) = old, Made(s)' = Append(old, r),
         \A t \in Searched \ {s} : Made(t)' = Made(t)
  PROVE  MadeInv'
<1>1. /\ \A q : q # r => /\ Has(q, s)' <=> Has(q, s)
                         /\ Twice(Made(s)', q) => Twice(Made(s), q)
      /\ ~Has(r, s) => ~Twice(Made(s)', r)
  BY OneMore DEF Has
<1>2. \A t \in Searched \ {s} : \A q : Has(q, t)' <=> Has(q, t)
  BY DEF Has
<1>3. /\ On(d, r) /\ On(d, r)' /\ s \in call[d].todo /\ Planned(d) /\ InStep(d, s)
      /\ call'[d].todo = call[d].todo /\ call'[d].resumes = call[d].resumes
      /\ log' = log /\ excused' = excused /\ At(d, s)'
      /\ \A e \in Callers \ {d} : call'[e] = call[e]
  BY DEF On, At, Moves, Planned, InStep
<1>4. r \notin excused' => MadeOnce(r)'
  <2>1. SUFFICES ASSUME r \notin excused' PROVE MadeOnce(r)'
    OBVIOUS
  <2>2. Orderly(r) /\ MadeOnce(r)
    BY <1>3, <2>1 DEF Orderly, MadeInv
  <2>3. s \in log[r].pending /\ \A e \in Callers : On(e, r) => e = d
    BY <1>3, <2>2, SoleCall, StepsAre
  <2>4. \A e \in Callers : On(e, r)' => e = d
    BY <1>3, <2>3 DEF On
  <2>5. \A t \in Searched : Has(r, t) /\ t \notin call[d].resumes => t \notin call[d].todo
    BY <1>3, <2>2 DEF MadeOnce, Fresh
  <2>6. ~Twice(Made(s)', r) /\ Accounted(r, s)' /\ \A e \in Callers : Fresh(e, r, s)'
    BY <1>1, <1>3, <2>3, <2>4, <2>5 DEF Accounted, Fresh
  <2>7. ASSUME NEW t \in Searched \ {s}
        PROVE  ~Twice(Made(t)', r) /\ Accounted(r, t)'
               /\ \A e \in Callers : Fresh(e, r, t)'
    <3>1. ~Over(r)
      BY <1>3, <2>2, SoleCall
    <3>2. ~Twice(Made(t)', r) /\ Accounted(r, t)'
      BY <1>2, <1>3, <2>2, <3>1 DEF MadeOnce, Accounted
    <3>3. \A e \in Callers : Fresh(e, r, t)'
      BY <1>2, <1>3, <2>4, <2>5 DEF Fresh
    <3>4. QED
      BY <3>2, <3>3
  <2>8. QED
    BY <2>6, <2>7 DEF MadeOnce
<1>5. OthersKeep(r)
  BY <1>1, <1>2 DEF OthersKeep
<1>6. /\ call[d].run = r /\ call'[d].run = r /\ \A q \in Runs \ {r} : log'[q] = log[q]
      /\ excused \subseteq excused'
  BY <1>3 DEF On
<1>7. \A e \in Callers \ {d} : call'[e] = call[e]
  BY <1>3
<1>8. QED
  BY <1>4, <1>5, <1>6, <1>7, MadeFrame

LEMMA MadeStep == TypeOK /\ OrderInv /\ MadeInv /\ [Next]_vars => MadeInv'
<1> SUFFICES ASSUME TypeOK, OrderInv, MadeInv, [Next]_vars PROVE MadeInv'
  OBVIOUS
<1> USE DEF remote, machine, history
<1>0. OrderInv'
  BY OrderStep
<1>a. \A e \in Callers : call[e].pc # "idle" => call[e].run \in Runs
  BY DEF TypeOK, Call
\* A step that makes nothing and keeps what is seen or pending.
<1>b. ASSUME NEW d \in Callers, NEW r \in Runs, NothingMade, On(d, r), On(d, r)',
             \A e \in Callers \ {d} : call'[e] = call[e],
             \A q \in Runs \ {r} : log'[q] = log[q],
             log[r].seen \cup log[r].pending \subseteq log'[r].seen \cup log'[r].pending,
             excused \subseteq excused',
             \A s \in Searched : r \notin excused' /\ Fresh(d, r, s) => Fresh(d, r, s)'
      PROVE  MadeInv'
  <2>1. r \notin excused' => MadeOnce(r)'
    <3>1. SUFFICES ASSUME r \notin excused' PROVE MadeOnce(r)'
      OBVIOUS
    <3>2. Orderly(r) /\ MadeOnce(r)
      BY <1>b, <3>1 DEF Orderly, MadeInv
    <3>3. ~Over(r) /\ \A e \in Callers : On(e, r) => e = d
      BY <1>b, <3>2, SoleCall
    <3>4. \A e \in Callers : On(e, r)' => e = d
      BY <1>b, <3>3 DEF On
    <3>5. \A s \in Searched : \A e \in Callers : Fresh(e, r, s)'
      BY <1>b, <3>1, <3>2, <3>4 DEF MadeOnce, Fresh
    <3>6. \A s \in Searched : ~Twice(Made(s), r)' /\ Accounted(r, s)'
      BY <1>b, <3>2, <3>3, SameMade DEF MadeOnce, Accounted
    <3>7. QED
      BY <3>5, <3>6 DEF MadeOnce
  <2>2. QED
    BY <1>b, <2>1, SameMade, MadeFrame DEF On
<1>1. ASSUME NEW d \in Callers, NEW r \in Runs, Enter(d, r) PROVE MadeInv'
  <2>1. NothingMade
    BY <1>1 DEF Enter, NothingMade
  <2>2. r \notin excused' => MadeOnce(r)'
    <3>1. SUFFICES ASSUME r \notin excused' PROVE MadeOnce(r)'
      OBVIOUS
    <3>2. MadeOnce(r)
      BY <1>1, <3>1, EnterIs DEF MadeInv
    <3>3. ~Over(r)
      BY <1>1 DEF Enter, Ready, Resumable, Over
    <3>4. \A e \in Callers : On(e, r)' => e = d
      BY <1>1, <3>1, EnterIs DEF On
    <3>5. \A s \in Searched : ~Twice(Made(s), r)' /\ Accounted(r, s)'
      BY <1>1, <2>1, <3>2, <3>3, EnterIs, SameMade DEF MadeOnce, Accounted
    <3>6. \A s \in Searched : Has(r, s) => s \in log[r].seen \cup log[r].pending
      BY <3>2, <3>3 DEF MadeOnce, Accounted
    <3>7. \A s \in Searched, e \in Callers : Fresh(e, r, s)'
      <4>1. \A s \in Searched : Has(r, s)' <=> Has(r, s)
        BY <2>1, SameMade
      <4>2. log' = log /\ call'[d].pc = "hydrate" /\ call'[d].resumes = log[r].pending
        BY <1>1, EnterIs
      <4>3. QED
        BY <3>4, <3>6, <4>1, <4>2 DEF Fresh, Planned
    <3>8. QED
      BY <3>5, <3>7 DEF MadeOnce
  <2>3. QED
    BY <1>1, <2>1, <2>2, EnterIs, SameMade, MadeFrame
<1>2. ASSUME NEW d \in Callers, NEW launch \in BOOLEAN, NEW all \in BOOLEAN,
             Hydrate(d, launch, all)
      PROVE  MadeInv'
  <2>1. PICK r \in Runs : r = call[d].run
    BY <1>2, <1>a DEF Hydrate
  <2>2. PICK S \in SUBSET Steps : Needed \subseteq S /\ call'[d].todo = Plan(d, S)
    BY <1>2, HydrateIs
  <2>3. NothingMade /\ On(d, r) /\ On(d, r)' /\ log' = log
        /\ call[d].pc = "hydrate" /\ call'[d].resumes = call[d].resumes
    BY <1>2, <2>1, HydrateIs DEF Hydrate, NothingMade, On
  <2>4. \A s \in Searched : Fresh(d, r, s) => Fresh(d, r, s)'
    BY <1>2, <2>1, <2>2, <2>3, HydrateIs, SameMade DEF Fresh, Plan
  <2>5. QED
    BY <1>2, <1>b, <2>3, <2>4, HydrateIs
\* A step that only goes on.
<1>c. ASSUME NEW d \in Callers, NothingMade, Moves(d),
             call[d].pc \in {"observe", "unknown"} =>
                call'[d].pc \in {"observe", "unknown"}
      PROVE  MadeInv'
  <2>1. PICK r \in Runs : r = call[d].run
    BY <1>a, <1>c DEF Moves, Planned
  <2>2. On(d, r) /\ On(d, r)' /\ Planned(d) /\ Planned(d)'
        /\ call'[d].todo = call[d].todo /\ call'[d].resumes = call[d].resumes
    BY <1>c, <2>1 DEF Moves, On, Planned
  <2>3. \A s \in Searched : Fresh(d, r, s) => Fresh(d, r, s)'
    BY <1>c, <2>2, SameMade DEF Fresh, Planned, At
  <2>4. QED
    BY <1>b, <1>c, <2>2, <2>3 DEF Moves
<1>3. ASSUME NEW d \in Callers, Intent(d) PROVE MadeInv'
  BY <1>3, <1>c, IntentMoves DEF Intent, NothingMade
<1>4. ASSUME NEW d \in Callers, NEW s \in Steps, Dispatch(d, s) PROVE MadeInv'
  <2>1. PICK r \in Runs : r = call[d].run
    BY <1>4, DispatchIs
  <2>2. NothingMade /\ On(d, r) /\ On(d, r)'
    BY <1>4, <2>1, DispatchIs DEF Dispatch, NothingMade, On
  <2>3. \A t \in Searched : Fresh(d, r, t) => Fresh(d, r, t)'
    BY <1>4, <2>1, <2>2, DispatchIs, SameMade DEF Fresh, Planned
  <2>4. QED
    BY <1>4, <1>b, <2>1, <2>2, <2>3, DispatchIs
<1>5. ASSUME NEW d \in Callers, NEW s \in Steps, Observe(d, s) PROVE MadeInv'
  <2>1. PICK r \in Runs : r = call[d].run
    BY <1>5, ObserveIs
  <2>2. NothingMade /\ On(d, r) /\ On(d, r)'
    BY <1>5, <2>1, ObserveIs DEF Observe, NothingMade, On
  <2>3. \A t \in Searched : Fresh(d, r, t) => Fresh(d, r, t)'
    <3>1. \A t \in Searched : At(d, t) => t = s
      BY <1>5, ObserveIs, AtOne
    <3>2. QED
      BY <1>5, <2>1, <2>2, <3>1, ObserveIs, SameMade DEF Fresh, Planned
  <2>4. QED
    BY <1>5, <1>b, <2>1, <2>2, <2>3, ObserveIs
<1>6. ASSUME NEW d \in Callers, NEW s \in Steps, Diverge(d, s) PROVE MadeInv'
  <2>1. PICK r \in Runs : r = call[d].run
    BY <1>6, DivergeIs
  <2>2. NothingMade /\ On(d, r) /\ Planned(d) /\ InStep(d, s) /\ s \in call[d].todo
    BY <1>6, <2>1, DivergeIs DEF Diverge, NothingMade, On, Planned, InStep, At
  <2>3. ASSUME r \notin excused', s \in Searched
        PROVE  log'[r].state = "unknown" /\ log'[r].pending \cap Searched = {}
    <3>1. call[d].pc = "unknown" /\ log'[r].state = "unknown"
      BY <1>6, <2>1, <2>3, DivergeIs DEF EndState
    <3>2. Orderly(r)
      BY <1>6, <2>3, DivergeIs DEF Orderly
    <3>3. /\ log[r].seen \cap log[r].pending = {}
          /\ call[d].todo \cap log[r].seen = {}
          /\ Needed \subseteq call[d].todo \cup log[r].seen
      BY <2>2, <3>2, SoleCall
    <3>4. CASE s = "app"
      <4>1. "hook" \notin log[r].pending
        BY <2>2, <3>3, <3>4 DEF OrderInv
      <4>2. QED
        BY <1>6, <2>1, <3>1, <3>4, <4>1, DivergeIs DEF Searched
    <3>5. CASE s = "hook"
      <4>1. "app" \in log[r].seen
        BY <1>6, <3>3, <3>5, DivergeIs, AtLate, StepsAre
      <4>2. "app" \notin log[r].pending
        BY <3>3, <4>1
      <4>3. QED
        BY <1>6, <2>1, <3>1, <3>5, <4>2, DivergeIs DEF Searched
    <3>6. QED
      BY <2>3, <3>4, <3>5 DEF Searched
  <2>4. CASE s \in Searched
    BY <1>6, <2>1, <2>2, <2>3, <2>4, DivergeIs, LeaveKeepsMade
  <2>5. CASE s \notin Searched
    BY <1>6, <2>1, <2>2, <2>5, DivergeIs, LeaveKeepsMade
  <2>6. QED
    BY <2>4, <2>5
<1>7. ASSUME NEW d \in Callers, Finalize(d) PROVE MadeInv'
  <2>1. PICK r \in Runs : r = call[d].run
    BY <1>7, FinalizeIs
  <2>2. NothingMade /\ On(d, r)
    BY <1>7, <2>1, FinalizeIs DEF Finalize, NothingMade, On
  <2>3. QED
    BY <1>7, <2>1, <2>2, FinalizeIs, LeaveKeepsMade
<1>8. ASSUME NEW d \in Callers, Fails(d) PROVE MadeInv'
  <2>1. NothingMade
    BY <1>8, FailsMoves DEF NothingMade
  <2>2. CASE Drops(d) /\ call[d].pc # "idle"
    <3>1. PICK r \in Runs : r = call[d].run
      BY <1>a, <2>2
    <3>2. QED
      BY <2>1, <2>2, <3>1, LeaveKeepsMade DEF Drops, On
  <2>3. CASE Moves(d) /\ call[d].pc \in {"call", "observe"} /\ call'[d].pc = "unknown"
    BY <1>c, <2>1, <2>3
  <2>4. CASE Moves(d) /\ Calls(d, "update")
    BY <1>c, <2>1, <2>4 DEF Calls
  <2>5. QED
    BY <1>8, <2>2, <2>3, <2>4, FailsMoves
<1>9. ASSUME NEW d \in Callers, MakeApp(d) PROVE MadeInv'
  <2>1. PICK r \in Runs : r = call[d].run
    BY <1>9, <1>a DEF MakeApp, Calls
  <2>2. /\ Calls(d, "app") /\ "app" \notin call[d].resumes
        /\ apps' = Append(apps, r) /\ hooks' = hooks
    BY <1>9, <2>1 DEF MakeApp, Makes
  <2>3. Moves(d) /\ call'[d].pc = "observe"
    BY <1>9, <2>2, LearnMoves DEF MakeApp, Calls
  <2>4. /\ Made("app") = apps /\ Made("app")' = apps' /\ "app" \in Searched
        /\ \A t \in Searched \ {"app"} : Made(t)' = Made(t)
    BY <2>2 DEF Made, Searched
  <2>5. QED
    BY <2>1, <2>2, <2>3, <2>4, MakeKeepsMade DEF Calls, TypeOK
<1>10. ASSUME NEW d \in Callers, MakeHook(d) PROVE MadeInv'
  <2>1. PICK r \in Runs : r = call[d].run
    BY <1>10, <1>a DEF MakeHook, Calls
  <2>2. /\ Calls(d, "hook") /\ "hook" \notin call[d].resumes
        /\ hooks' = Append(hooks, r) /\ apps' = apps
    BY <1>10, <2>1 DEF MakeHook, Makes
  <2>3. Moves(d) /\ call'[d].pc = "observe"
    BY <1>10, <2>2, LearnMoves DEF MakeHook, Calls
  <2>4. /\ Made("hook") = hooks /\ Made("hook")' = hooks' /\ "hook" \in Searched
        /\ \A t \in Searched \ {"hook"} : Made(t)' = Made(t)
    BY <2>2 DEF Made, Searched
  <2>5. QED
    BY <2>1, <2>2, <2>3, <2>4, MakeKeepsMade DEF Calls, TypeOK
<1>11. ASSUME NEW d \in Callers, ToolStep(d), ~MakeApp(d), ~MakeHook(d) PROVE MadeInv'
  <2>1. NothingMade
    BY <1>11 DEF ToolStep, TakeApp, NoProof, MakeProject, StoreSecret, Plain, Bind,
                 Register, StepRefused, NothingMade
  <2>2. QED
    BY <1>11, <1>c, <2>1, ToolMoves
<1>12. CASE UNCHANGED vars
  <2>1. UNCHANGED <<call, log, excused>> /\ NothingMade
    BY <1>12 DEF vars, NothingMade
  <2>2. \A r \in Runs : MadeOnce(r) => MadeOnce(r)'
    BY <2>1, SameMade DEF MadeOnce, Accounted, Over, Fresh, On, Planned, At
  <2>3. QED
    BY <2>1, <2>2 DEF MadeInv
<1>13. QED
  BY <1>1, <1>2, <1>3, <1>4, <1>5, <1>6, <1>7, <1>8, <1>9, <1>10, <1>11, <1>12
  DEF Next, RunnerStep, Failure, Fails

LEMMA MadeHolds == Spec => [](TypeOK /\ OrderInv /\ MadeInv)
BY TypeInit, TypeStep, OrderInit, OrderStep, MadeInit, MadeStep, PTL DEF Spec

\* A run makes a second app or webhook only after two of its calls have
\* overlapped or one of them has stopped before an ambiguous target.
THEOREM TwiceOnlyIfExcused == Spec => []CreatesTwiceOnlyIfExcused
<1>1. MadeInv => CreatesTwiceOnlyIfExcused
  <2>1. Made("app") = apps /\ Made("hook") = hooks /\ {"app", "hook"} \subseteq Searched
    BY DEF Made, Searched
  <2>2. QED
    BY <2>1 DEF MadeInv, MadeOnce, CreatesTwiceOnlyIfExcused
<1>2. QED
  BY <1>1, MadeHolds, PTL

-----------------------------------------------------------------------------
(* What a call knows, of calls made in turn *)

InTurnInv ==
    \A d, e \in Callers : call[d].pc # "idle" /\ call[e].pc # "idle" => d = e

LogTrue(r) ==
    /\ log[r].app # 0 => log[r].app \in DOMAIN apps
    /\ "app" \in log[r].seen => log[r].app # 0
    /\ "project" \in log[r].seen => log[r].project = 1
    /\ "hook" \notin log[r].seen => log[r].hook = 0
    /\ "secret" \in log[r].seen => log[r].hook \in stored

Knows(d, s) == s \notin call[d].todo \/ (call[d].pc = "observe" /\ At(d, s))

CallTrue(d) ==
    Planned(d) =>
        /\ call[d].know.app # 0 => call[d].know.app \in DOMAIN apps
        /\ Knows(d, "app") => call[d].know.app # 0
        /\ Knows(d, "project") => call[d].know.project = 1
        /\ "hook" \notin call[d].todo => call[d].know.hook = log[call[d].run].hook
        /\ Knows(d, "secret") => call[d].know.hook \in stored
        /\ call[d].know.secret # 0 => call[d].know.secret = call[d].know.hook

BoundTrue ==
    /\ Bound => /\ manifest.app \in DOMAIN apps /\ manifest.project = 1
                /\ manifest.hook \in stored
    /\ stored # {} => keychain \in stored
    /\ 0 \notin stored

BindInv ==
    /\ InTurnInv
    /\ \A r \in Runs : LogTrue(r)
    /\ \A d \in Callers : CallTrue(d)
    /\ BoundTrue

LEMMA BindInit == Init => BindInv
<1> SUFFICES ASSUME Init PROVE BindInv
  OBVIOUS
<1>1. \A d \in Callers : call[d].pc = "idle"
  BY DEF Init, Idle
<1>2. \A r \in Runs : log[r].seen = {} /\ log[r].app = 0 /\ log[r].hook = 0
  BY DEF Init, NewLog
<1>3. manifest = Unbound /\ stored = {}
  BY DEF Init
<1>4. BoundTrue
  BY <1>3 DEF BoundTrue, Bound
<1>5. (\A r \in Runs : LogTrue(r)) /\ \A d \in Callers : CallTrue(d)
  BY <1>1, <1>2 DEF LogTrue, CallTrue, Planned
<1>6. InTurnInv
  <2>1. SUFFICES ASSUME NEW d \in Callers, NEW e \in Callers,
                        call[d].pc # "idle", call[e].pc # "idle"
                 PROVE  d = e
    BY DEF InTurnInv
  <2>2. QED
    BY <1>1, <2>1
<1>7. QED
  BY <1>4, <1>5, <1>6 DEF BindInv

\* A step of d, while no other call is under way.
Takes(d) ==
    /\ \A e \in Callers \ {d} : call'[e] = call[e]
    /\ call[d].pc # "idle" \/ \A e \in Callers : call[e].pc = "idle"

LEMMA BindFrame ==
  ASSUME BindInv, NEW d \in Callers, Takes(d),
         \A q \in Runs : LogTrue(q)', CallTrue(d)', BoundTrue'
  PROVE  BindInv'
<1>1. \A e \in Callers \ {d} : call[e].pc = "idle" /\ call'[e].pc = "idle"
  BY DEF BindInv, InTurnInv, Takes
<1>2. InTurnInv'
  BY <1>1 DEF InTurnInv
<1>3. \A e \in Callers \ {d} : CallTrue(e)'
  BY <1>1 DEF CallTrue, Planned
<1>4. QED
  BY <1>2, <1>3 DEF BindInv

\* Nothing is taken away.
Grows ==
    DOMAIN apps \subseteq DOMAIN apps' /\ stored \subseteq stored'

\* What the log knows of the ids.
SameIds(q) ==
    /\ log'[q].seen = log[q].seen /\ log'[q].app = log[q].app
    /\ log'[q].project = log[q].project /\ log'[q].hook = log[q].hook

LEMMA LogsStayTrue ==
  ASSUME BindInv, Grows, NEW q \in Runs, SameIds(q)
  PROVE  LogTrue(q)'
BY DEF BindInv, LogTrue, Grows, SameIds

\* What binding and secrets are made of, left alone.
Settled == UNCHANGED <<apps, stored, manifest, keychain>>

LEMMA SettledIs ==
  ASSUME BindInv, Settled
  PROVE  Grows /\ BoundTrue'
BY DEF BindInv, BoundTrue, Bound, Settled, Grows

\* A call that has just begun, or has ended, knows nothing.
LEMMA BindEnds ==
  ASSUME BindInv, Settled, NEW d \in Callers, Takes(d),
         call'[d].pc \in {"idle", "hydrate"}, \A q \in Runs : SameIds(q)
  PROVE  BindInv'
BY SettledIs, LogsStayTrue, BindFrame DEF CallTrue, Planned

\* A call that goes on with what it knows.
LEMMA BindMoves ==
  ASSUME TypeOK, BindInv, Grows, BoundTrue',
         NEW d \in Callers, Takes(d), Planned(d), call[d].run \in Runs,
         \A q \in Runs : SameIds(q),
         call'[d].run = call[d].run, call'[d].todo = call[d].todo,
         call'[d].know = call[d].know,
         \A s \in {"app", "project", "secret"} : Knows(d, s)' =>
            \/ Knows(d, s)
            \/ s = "app" /\ call[d].know.app # 0
            \/ s = "secret" /\ call[d].know.hook \in stored'
  PROVE  BindInv'
<1>1. \A q \in Runs : LogTrue(q)'
  BY LogsStayTrue
<1>2. CallTrue(d)'
  BY DEF BindInv, CallTrue, Grows, SameIds
<1>3. QED
  BY <1>1, <1>2, BindFrame

LEMMA BindStep ==
  ASSUME "overlap" \notin Hazards, TypeOK, OrderInv, BindInv, [Next]_vars
  PROVE  BindInv'
<1> USE DEF remote, machine, history
<1>a. \A e \in Callers : call[e].pc # "idle" => call[e].run \in Runs
  BY DEF TypeOK, Call
<1>b. \A r \in Runs : Orderly(r)
  BY DEF Orderly
<1>1. ASSUME NEW d \in Callers, NEW r \in Runs, Enter(d, r) PROVE BindInv'
  <2>1. Takes(d) /\ Settled /\ \A q \in Runs : SameIds(q)
    BY <1>1, EnterIs DEF Enter, Takes, Settled, SameIds
  <2>2. QED
    BY <1>1, <2>1, EnterIs, BindEnds
<1>2. ASSUME NEW d \in Callers, NEW launch \in BOOLEAN, NEW all \in BOOLEAN,
             Hydrate(d, launch, all)
      PROVE  BindInv'
  <2>1. PICK r \in Runs : r = call[d].run
    BY <1>2, <1>a DEF Hydrate
  <2>2. PICK S \in SUBSET Steps : Needed \subseteq S /\ call'[d].todo = Plan(d, S)
    BY <1>2, HydrateIs
  <2>3. Takes(d) /\ Settled /\ \A q \in Runs : SameIds(q)
    BY <1>2, HydrateIs DEF Hydrate, Takes, Settled, SameIds
  <2>4. \A s \in Needed : s \notin call'[d].todo => s \in log[r].seen
    BY <2>1, <2>2 DEF Plan
  <2>5. /\ call'[d].know = Recalled(d, all) /\ call'[d].pc = "intent"
        /\ call'[d].run = r /\ log' = log
    BY <1>2, <2>1, HydrateIs
  <2>6. LogTrue(r)
    BY DEF BindInv
  <2>7. call'[d].know.app = log[r].app
        \/ (log[r].app = 0 /\ call'[d].know.app \in {0, Only(apps)})
    BY <2>1, <2>5 DEF Recalled, Or
  <2>8. /\ call'[d].know.project = log[r].project
        /\ call'[d].know.hook = log[r].hook /\ call'[d].know.secret = 0
    BY <2>1, <2>5 DEF Recalled
  <2>9. Only(apps) # 0 => Only(apps) \in DOMAIN apps
    BY DEF Only, TypeOK
  <2>10. \A s \in {"app", "project", "secret"} :
            Knows(d, s)' => s \in log[r].seen
    BY <2>4, <2>5, StepsAre DEF Knows
  <2>11. apps' = apps /\ stored' = stored
    BY <2>3 DEF Settled
  <2>12. CallTrue(d)'
    BY <2>5, <2>6, <2>7, <2>8, <2>9, <2>10, <2>11 DEF CallTrue, LogTrue
  <2>13. QED
    BY <2>3, <2>12, SettledIs, LogsStayTrue, BindFrame
\* A step that only goes on.
<1>c. ASSUME NEW d \in Callers, Settled, Moves(d), call'[d].know = call[d].know,
             \A s \in {"app", "project", "secret"} :
                call'[d].pc = "observe" /\ At(d, s) =>
                    s = "app" /\ call[d].know.app # 0
      PROVE  BindInv'
  <2>1. Takes(d) /\ call[d].run \in Runs /\ \A q \in Runs : SameIds(q)
    BY <1>a, <1>c DEF Takes, Moves, Planned, SameIds
  <2>2. \A s : At(d, s)' <=> At(d, s)
    BY <1>c DEF At, Moves
  <2>3. QED
    BY <1>c, <2>1, <2>2, SettledIs, BindMoves DEF Moves, Knows
<1>3. ASSUME NEW d \in Callers, Intent(d) PROVE BindInv'
  <2>1. Settled
    BY <1>3 DEF Intent, Settled
  <2>2. QED
    BY <1>3, <1>c, <2>1, IntentMoves
<1>4. ASSUME NEW d \in Callers, NEW s \in Steps, Dispatch(d, s) PROVE BindInv'
  <2>1. Takes(d) /\ Settled /\ Planned(d) /\ call'[d].pc = "call"
    BY <1>4, DispatchIs DEF Dispatch, Settled, Takes, Planned
  <2>2. \A q \in Runs : SameIds(q)
    BY <1>4, DispatchIs DEF SameIds
  <2>3. /\ call'[d].run = call[d].run /\ call'[d].todo = call[d].todo
        /\ call'[d].know = call[d].know /\ call[d].run \in Runs
    BY <1>4, DispatchIs
  <2>4. QED
    BY <2>1, <2>2, <2>3, SettledIs, BindMoves DEF Knows
<1>5. ASSUME NEW d \in Callers, NEW s \in Steps, Observe(d, s) PROVE BindInv'
  <2>1. PICK r \in Runs : r = call[d].run
    BY <1>5, ObserveIs
  <2>2. Takes(d) /\ Settled /\ Planned(d) /\ On(d, r)
    BY <1>5, <2>1, ObserveIs DEF Observe, Settled, Takes, Planned, On
  <2>3. /\ call[d].pc = "observe" /\ At(d, s) /\ s \in call[d].todo
        /\ call'[d].pc # "observe" /\ call'[d].run = r
        /\ call'[d].todo = call[d].todo \ {s} /\ call'[d].know = call[d].know
        /\ \A q \in Runs \ {r} : log'[q] = log[q]
        /\ log'[r] = Observed(log[r], s, call[d].know)
    BY <1>5, <2>1, ObserveIs DEF At
  <2>4. s \notin log[r].seen
    BY <1>b, <2>2, <2>3, SoleCall
  <2>5. CallTrue(d) /\ LogTrue(r)
    BY DEF BindInv
  <2>6. \A t \in {"app", "project", "secret"} : Knows(d, t)' => Knows(d, t)
    BY <2>3 DEF Knows
  <2>7. apps' = apps /\ stored' = stored
    BY <2>2 DEF Settled
  <2>8. Knows(d, s)
    BY <2>3 DEF Knows
  <2>9. s = "secret" => call[d].know.hook = log[r].hook
    BY <2>1, <2>2, <2>3, <2>5, AtLate DEF CallTrue
  <2>10. s = "hook" => log[r].hook = 0
    BY <2>4, <2>5 DEF LogTrue
  <2>11. /\ log'[r].seen = log[r].seen \cup {s}
         /\ log'[r].app = Or(log[r].app, IF s = "app" THEN call[d].know.app ELSE 0)
         /\ log'[r].project =
                Or(log[r].project, IF s = "project" THEN call[d].know.project ELSE 0)
         /\ log'[r].hook =
                Or(log[r].hook, IF s = "hook" THEN call[d].know.hook ELSE 0)
    BY <2>3 DEF Observed
  <2>12. log[r].project \in 0..1
    BY DEF TypeOK, Log
  <2>13. LogTrue(r)'
    <3>1. /\ call[d].know.app # 0 => call[d].know.app \in DOMAIN apps
          /\ s = "app" => call[d].know.app # 0
          /\ s = "project" => call[d].know.project = 1
          /\ s = "secret" => log[r].hook \in stored
      BY <2>2, <2>5, <2>8, <2>9 DEF CallTrue
    <3>2. /\ log'[r].app # 0 => log'[r].app \in DOMAIN apps'
          /\ "app" \in log'[r].seen => log'[r].app # 0
      BY <2>5, <2>7, <2>11, <3>1 DEF LogTrue, Or
    <3>3. "project" \in log'[r].seen => log'[r].project = 1
      BY <2>5, <2>11, <2>12, <3>1 DEF LogTrue, Or
    <3>4. /\ "hook" \notin log'[r].seen => log'[r].hook = 0
          /\ "secret" \in log'[r].seen => log'[r].hook \in stored'
      <4>1. CASE s = "hook"
        BY <2>5, <2>7, <2>10, <2>11, <4>1 DEF LogTrue, Or, BindInv, BoundTrue
      <4>2. CASE s # "hook"
        BY <2>5, <2>7, <2>11, <3>1, <4>2 DEF LogTrue, Or
      <4>3. QED
        BY <4>1, <4>2
    <3>5. QED
      BY <3>2, <3>3, <3>4 DEF LogTrue
  <2>14. CallTrue(d)'
    BY <2>1, <2>2, <2>3, <2>5, <2>6, <2>7, <2>10, <2>11 DEF CallTrue, Or
  <2>15. \A q \in Runs \ {r} : LogTrue(q)'
    BY <2>2, <2>3, SettledIs, LogsStayTrue DEF SameIds
  <2>16. QED
    BY <2>2, <2>13, <2>14, <2>15, SettledIs, BindFrame
<1>6. ASSUME NEW d \in Callers, NEW s \in Steps, Diverge(d, s) PROVE BindInv'
  <2>1. Takes(d) /\ Settled /\ call'[d].pc = "idle"
    BY <1>6, DivergeIs, LeaveIs DEF Diverge, Takes, Settled
  <2>2. \A q \in Runs : SameIds(q)
    BY <1>6, DivergeIs DEF SameIds
  <2>3. QED
    BY <2>1, <2>2, BindEnds
<1>7. ASSUME NEW d \in Callers, Finalize(d) PROVE BindInv'
  <2>1. Takes(d) /\ Settled /\ call'[d].pc = "idle"
    BY <1>7, FinalizeIs, LeaveIs DEF Finalize, Takes, Settled
  <2>2. \A q \in Runs : SameIds(q)
    BY <1>7, FinalizeIs DEF SameIds
  <2>3. QED
    BY <2>1, <2>2, BindEnds
<1>8. ASSUME NEW d \in Callers, Fails(d) PROVE BindInv'
  <2>1. Settled
    BY <1>8, FailsMoves DEF Settled
  <2>2. CASE Drops(d) /\ call[d].pc # "idle"
    BY <2>1, <2>2, LeaveIs, BindEnds DEF Drops, Takes, SameIds
  <2>3. CASE /\ Moves(d) /\ call'[d].know = call[d].know
             /\ call'[d].pc \in {"unknown", "stop"}
    BY <1>c, <2>1, <2>3
  <2>4. QED
    BY <1>8, <2>2, <2>3, FailsMoves
<1>9. ASSUME NEW d \in Callers, ToolStep(d) PROVE BindInv'
  <2>1. Moves(d) /\ call[d].pc = "call" /\ Planned(d) /\ Planned(d)'
    BY <1>9, ToolMoves DEF Moves
  <2>2. Takes(d) /\ call[d].run \in Runs /\ \A q \in Runs : SameIds(q)
    BY <1>a, <2>1 DEF Takes, Moves, SameIds
  <2>3. /\ \A s : At(d, s)' <=> At(d, s)
        /\ call'[d].todo = call[d].todo /\ call'[d].run = call[d].run
    BY <2>1 DEF At, Moves
  <2>4. \A s :
            Knows(d, s)' => Knows(d, s) \/ (call'[d].pc = "observe" /\ At(d, s))
    BY <2>3 DEF Knows
  <2>5. CallTrue(d) /\ BoundTrue /\ log' = log
    BY <2>1 DEF BindInv, Moves
  <2>6. CASE MakeApp(d)
    <3>1. /\ At(d, "app") /\ apps' = Append(apps, call[d].run)
          /\ UNCHANGED <<stored, manifest, keychain>>
          /\ call'[d].know = [call[d].know EXCEPT !.app = NewId(apps')]
      BY <2>6, LearnMoves DEF MakeApp, Calls
    <3>2. Grows /\ NewId(apps') \in DOMAIN apps' /\ NewId(apps') # 0
      BY <2>2, <3>1 DEF Grows, NewId, TypeOK
    <3>3. BoundTrue'
      BY <2>5, <3>1, <3>2 DEF BoundTrue, Bound, Grows
    <3>4. call[d].know \in Known
      BY DEF TypeOK, Call
    <3>5. /\ call'[d].know.app = NewId(apps')
          /\ call'[d].know.project = call[d].know.project
          /\ call'[d].know.hook = call[d].know.hook
          /\ call'[d].know.secret = call[d].know.secret
      BY <3>1, <3>4 DEF Known
    <3>6. \A s \in {"project", "secret"} : Knows(d, s)' => Knows(d, s)
      BY <2>4, <3>1, AtOne
    <3>7. CallTrue(d)'
      BY <2>1, <2>3, <2>5, <3>1, <3>2, <3>5, <3>6 DEF CallTrue, Grows
    <3>8. QED
      BY <2>2, <3>2, <3>3, <3>7, LogsStayTrue, BindFrame
  <2>7. CASE TakeApp(d)
    <3>1. At(d, "app") /\ call[d].know.app # 0 /\ call'[d].know = call[d].know
      BY <2>1, <2>7, GotoMoves DEF TakeApp, Calls, Phases
    <3>2. Settled
      BY <2>7 DEF TakeApp, Settled
    <3>3. QED
      BY <1>c, <2>1, <3>1, <3>2, AtOne
  <2>8. CASE NoProof(d) \/ StepRefused(d)
    <3>1. call'[d].know = call[d].know /\ call'[d].pc \in {"unknown", "stop"}
      BY <2>1, <2>8, GotoMoves DEF NoProof, StepRefused, Phases
    <3>2. Settled
      BY <2>8 DEF NoProof, StepRefused, Settled
    <3>3. QED
      BY <1>c, <2>1, <3>1, <3>2
  <2>9. CASE MakeProject(d)
    <3>1. /\ At(d, "project") /\ UNCHANGED <<apps, stored, manifest, keychain>>
          /\ call'[d].know = [call[d].know EXCEPT !.project = 1]
      BY <2>9, LearnMoves DEF MakeProject, Calls
    <3>2. call[d].know \in Known
      BY DEF TypeOK, Call
    <3>3. /\ call'[d].know.app = call[d].know.app
          /\ call'[d].know.project = 1
          /\ call'[d].know.hook = call[d].know.hook
          /\ call'[d].know.secret = call[d].know.secret
      BY <3>1, <3>2 DEF Known
    <3>4. \A s \in {"app", "secret"} : Knows(d, s)' => Knows(d, s)
      BY <2>4, <3>1, AtOne
    <3>5. CallTrue(d)'
      BY <2>1, <2>3, <2>5, <3>1, <3>3, <3>4 DEF CallTrue
    <3>6. QED
      BY <2>2, <3>1, <3>5, SettledIs, LogsStayTrue, BindFrame DEF Settled
  <2>10. CASE MakeHook(d)
    <3>1. /\ At(d, "hook") /\ UNCHANGED <<apps, stored, manifest, keychain>>
          /\ call[d].know.hook = 0 /\ "hook" \in call[d].todo
          /\ call'[d].know = [call[d].know EXCEPT !.hook = NewId(hooks'),
                                                  !.secret = NewId(hooks')]
      BY <2>10, LearnMoves DEF MakeHook, Calls, At
    <3>2. call[d].know \in Known
      BY DEF TypeOK, Call
    <3>3. /\ call'[d].know.app = call[d].know.app
          /\ call'[d].know.project = call[d].know.project
          /\ call'[d].know.hook = call'[d].know.secret
      BY <3>1, <3>2 DEF Known
    <3>4. \A s \in {"app", "project", "secret"} : Knows(d, s)' => Knows(d, s)
      BY <2>4, <3>1, AtOne
    <3>5. ~Knows(d, "secret")
      BY <2>1, <2>5, <3>1 DEF CallTrue, BoundTrue
    <3>6. CallTrue(d)'
      BY <2>1, <2>3, <2>5, <3>1, <3>3, <3>4, <3>5 DEF CallTrue
    <3>7. QED
      BY <2>2, <3>1, <3>6, SettledIs, LogsStayTrue, BindFrame DEF Settled
  <2>11. CASE StoreSecret(d)
    <3>1. /\ At(d, "secret") /\ call[d].know.secret # 0
          /\ keychain' = call[d].know.secret
          /\ stored' = stored \cup {call[d].know.secret}
          /\ UNCHANGED <<apps, manifest>> /\ call'[d].know = call[d].know
      BY <2>1, <2>11, GotoMoves DEF StoreSecret, HasSecret, Calls, Phases
    <3>2. Grows
      BY <3>1 DEF Grows
    <3>3. BoundTrue'
      BY <2>5, <3>1 DEF BoundTrue, Bound
    <3>4. call[d].know.hook \in stored'
      BY <2>1, <2>5, <3>1 DEF CallTrue
    <3>5. \A s \in {"app", "project"} : Knows(d, s)' => Knows(d, s)
      BY <2>4, <3>1, AtOne
    <3>6. QED
      BY <2>1, <2>2, <2>3, <3>1, <3>2, <3>3, <3>4, <3>5, BindMoves
  <2>12. CASE Plain(d)
    <3>1. Settled /\ call'[d].know = call[d].know
      BY <2>1, <2>12, GotoMoves DEF Plain, Settled, Phases
    <3>2. PICK s \in {"codegen", "link", "env", "push", "wait", "promote", "update"} :
            At(d, s)
      BY <2>12 DEF Plain, Calls
    <3>3. QED
      BY <1>c, <2>1, <3>1, <3>2, AtOne
  <2>13. CASE Bind(d)
    <3>1. At(d, "bind") /\ call'[d].know = call[d].know
          /\ manifest' = Binding(d) /\ UNCHANGED <<apps, stored, keychain>>
      BY <2>1, <2>13, GotoMoves DEF Bind, Calls, Phases
    <3>2. {"app", "project", "hook", "secret"} \cap call[d].todo = {}
      BY <3>1, AtLate
    <3>3. /\ call[d].know.app \in DOMAIN apps /\ call[d].know.project = 1
          /\ call[d].know.hook \in stored
      BY <2>1, <2>5, <3>2 DEF CallTrue, Knows
    <3>4. /\ manifest'.app = call[d].know.app
          /\ manifest'.project = call[d].know.project
          /\ manifest'.hook = call[d].know.hook
      BY <3>1 DEF Binding
    <3>5. Grows /\ BoundTrue'
      BY <2>5, <3>1, <3>3, <3>4 DEF Grows, BoundTrue
    <3>6. \A s \in {"app", "project", "secret"} : Knows(d, s)' => Knows(d, s)
      BY <2>4, <3>1, AtOne
    <3>7. QED
      BY <2>1, <2>2, <2>3, <3>1, <3>5, <3>6, BindMoves
  <2>14. CASE Register(d)
    <3>1. Settled /\ At(d, "register") /\ call'[d].know = call[d].know
      BY <2>1, <2>14, GotoMoves DEF Register, Calls, Settled, Phases
    <3>2. QED
      BY <1>c, <2>1, <3>1, AtOne
  <2>15. QED
    BY <1>9, <2>6, <2>7, <2>8, <2>9, <2>10, <2>11, <2>12, <2>13, <2>14 DEF ToolStep
<1>10. CASE UNCHANGED vars
  <2>1. UNCHANGED <<call, log, apps, stored, manifest, keychain>>
    BY <1>10 DEF vars
  <2>2. QED
    BY <2>1 DEF BindInv, InTurnInv, LogTrue, CallTrue, Planned, Knows, At,
                BoundTrue, Bound
<1>11. QED
  BY <1>1, <1>2, <1>3, <1>4, <1>5, <1>6, <1>7, <1>8, <1>9, <1>10
  DEF Next, RunnerStep, Failure, Fails

\* With calls made in turn a manifest is bound as a whole, to a webhook whose
\* secret has been stored; the secret is still there unless a second webhook's
\* has taken its place (defaultWebhookSecretPath is the same for all runs of a
\* project).
BindingIsWhole ==
    Bound =>
        /\ manifest.app \in DOMAIN apps /\ manifest.project = 1
        /\ manifest.hook \in stored
        /\ keychain = manifest.hook \/ Cardinality(stored) > 1

\* With calls made in turn a bound manifest names an app, the project and a
\* webhook whose secret has been stored, and only the secret of a second
\* webhook can have taken its place.
THEOREM BindingsAreWhole ==
  ASSUME "overlap" \notin Hazards
  PROVE  Spec => []BindingIsWhole
<1>1. TypeOK /\ OrderInv /\ BindInv /\ [Next]_vars => BindInv'
  BY BindStep
<1>2. Spec => [](TypeOK /\ OrderInv /\ BindInv)
  BY <1>1, TypeInit, TypeStep, OrderInit, OrderStep, BindInit, PTL DEF Spec
<1>3. TypeOK /\ BindInv => BindingIsWhole
  <2>1. SUFFICES ASSUME TypeOK, BindInv, Bound, keychain # manifest.hook
                 PROVE  Cardinality(stored) > 1
    BY DEF BindInv, BoundTrue, BindingIsWhole
  <2>2. IsFiniteSet(stored)
    <3>1. stored \subseteq 0..MaxMade
      BY <2>1 DEF TypeOK, Ids
    <3>2. 0 \in Int /\ MaxMade \in Int
      BY ScaffoldAssumption
    <3>3. IsFiniteSet(0..MaxMade)
      BY <3>2, FS_Interval
    <3>4. QED
      BY <3>1, <3>3, FS_Subset
  <2>3. {keychain, manifest.hook} \subseteq stored
    BY <2>1 DEF BindInv, BoundTrue
  <2>4. Cardinality({keychain, manifest.hook}) = 2
    <3>1. PICK h : h = manifest.hook
      OBVIOUS
    <3>2. Cardinality({keychain}) = 1 /\ IsFiniteSet({keychain})
      BY FS_Singleton
    <3>3. Cardinality({keychain} \cup {h}) =
            IF h \in {keychain} THEN Cardinality({keychain})
            ELSE Cardinality({keychain}) + 1
      BY <3>2, FS_AddElement
    <3>4. {keychain, manifest.hook} = {keychain} \cup {h} /\ h \notin {keychain}
      BY <2>1, <3>1
    <3>5. QED
      BY <3>2, <3>3, <3>4
  <2>5. QED
    BY <2>2, <2>3, <2>4, FS_Subset, FS_CardinalityType
<1>4. QED
  BY <1>2, <1>3, PTL

-----------------------------------------------------------------------------
(* The promise of Onboarding, kept by calls made in turn *)

\* Whose an app or a webhook is: the first app may be taken by any run.
AppOf(r, a) == a # 0 => a = 1 \/ (a \in DOMAIN apps /\ apps[a] = r)
HookOf(r, h) == h # 0 => h \in DOMAIN hooks /\ hooks[h] = r
ProjectIs(p) == p = 1 => project = 1

LogOwn(r) == AppOf(r, log[r].app) /\ HookOf(r, log[r].hook) /\ ProjectIs(log[r].project)

\* The secret that a call knows has been used.
Spent(d) ==
    \/ "secret" \notin call[d].todo
    \/ At(d, "secret") /\ call[d].pc \in {"observe", "unknown"}

CallOwn(d) ==
    Planned(d) =>
        /\ AppOf(call[d].run, call[d].know.app)
        /\ HookOf(call[d].run, call[d].know.hook)
        /\ ProjectIs(call[d].know.project)
        /\ call[d].know.secret # 0 =>
              /\ call[d].know.secret = Len(hooks)
              /\ Len(hooks) \notin stored \/ Spent(d)
        /\ \A s \in call[d].ambiguous : Len(Made(s)) > 1
        /\ \A s \in Searched :
              call[d].pc = "stop" /\ At(d, s) => s \in call[d].ambiguous

\* A call that has bound the repository has little left to do.
Last(d) ==
    /\ Planned(d) /\ call[d].todo \subseteq {"bind", "register"}
    /\ "bind" \in call[d].todo => call[d].pc \in {"observe", "unknown"}

Closed == Bound => \A d \in Callers : call[d].pc # "idle" => Last(d)

DealInv ==
    /\ \A r \in Runs : LogOwn(r)
    /\ \A d \in Callers : CallOwn(d)
    /\ stored \subseteq DOMAIN hooks
    /\ Closed

LEMMA DealInvInit == Init => DealInv
<1> SUFFICES ASSUME Init PROVE DealInv
  OBVIOUS
<1>1. \A d \in Callers : call[d].pc = "idle"
  BY DEF Init, Idle
<1>2. \A r \in Runs : log[r].app = 0 /\ log[r].hook = 0 /\ log[r].project = 0
  BY DEF Init, NewLog
<1>3. manifest = Unbound /\ stored = {}
  BY DEF Init
<1>4. QED
  BY <1>1, <1>2, <1>3
  DEF DealInv, LogOwn, AppOf, HookOf, ProjectIs, CallOwn, Planned, Closed, Bound

\* What has been made is not undone.
Lasting ==
    /\ \A i \in DOMAIN apps : i \in DOMAIN apps' /\ apps'[i] = apps[i]
    /\ \A i \in DOMAIN hooks : i \in DOMAIN hooks' /\ hooks'[i] = hooks[i]
    /\ project = 1 => project' = 1

LEMMA OwnLasts ==
  ASSUME Lasting
  PROVE  /\ \A r, a : AppOf(r, a) => AppOf(r, a)'
         /\ \A r, h : HookOf(r, h) => HookOf(r, h)'
         /\ \A p : ProjectIs(p) => ProjectIs(p)'
BY DEF Lasting, AppOf, HookOf, ProjectIs

LEMMA LogsStayOwn ==
  ASSUME Lasting, DealInv, NEW q \in Runs, SameIds(q)
  PROVE  LogOwn(q)'
<1>1. PICK a, h, p : a = log[q].app /\ h = log[q].hook /\ p = log[q].project
  OBVIOUS
<1>2. AppOf(q, a) /\ HookOf(q, h) /\ ProjectIs(p)
  BY <1>1 DEF DealInv, LogOwn
<1>3. AppOf(q, a)' /\ HookOf(q, h)' /\ ProjectIs(p)'
  BY <1>2, OwnLasts
<1>4. a = log'[q].app /\ h = log'[q].hook /\ p = log'[q].project
  BY <1>1 DEF SameIds
<1>5. QED
  BY <1>3, <1>4 DEF LogOwn, AppOf, HookOf, ProjectIs

LEMMA DealFrame ==
  ASSUME BindInv, DealInv, NEW d \in Callers, Takes(d),
         \A q \in Runs : LogOwn(q)', CallOwn(d)', stored' \subseteq DOMAIN hooks',
         Bound' /\ call'[d].pc # "idle" => Last(d)'
  PROVE  DealInv'
<1>1. \A e \in Callers \ {d} : call[e].pc = "idle" /\ call'[e].pc = "idle"
  BY DEF BindInv, InTurnInv, Takes
<1>2. \A e \in Callers \ {d} : CallOwn(e)'
  BY <1>1 DEF CallOwn, Planned
<1>3. Closed'
  BY <1>1 DEF Closed
<1>4. QED
  BY <1>2, <1>3 DEF DealInv

\* What the promise is about, but for excuses and the place of the secret.
Still == UNCHANGED <<apps, hooks, project, stored, manifest>>

LEMMA StillIs ==
  ASSUME DealInv, Still
  PROVE  Lasting /\ stored' \subseteq DOMAIN hooks' /\ (Bound' <=> Bound)
         /\ \A s : Made(s)' = Made(s)
BY DEF DealInv, Still, Lasting, Bound, Made

\* A call that has just begun on an unbound repository, or has ended.
LEMMA DealEnds ==
  ASSUME BindInv, DealInv, Still, NEW d \in Callers, Takes(d),
         call'[d].pc = "idle" \/ (call'[d].pc = "hydrate" /\ ~Bound),
         \A q \in Runs : SameIds(q)
  PROVE  DealInv'
BY StillIs, LogsStayOwn, DealFrame DEF CallOwn, Planned

\* While a call has more to do than to bind and to register, nothing is bound.
LEMMA StillOpen ==
  ASSUME DealInv, NEW d \in Callers, call[d].pc # "idle",
         \/ ~Planned(d)
         \/ \E s \in call[d].todo : s \notin {"bind", "register"}
         \/ call[d].pc = "call" /\ "bind" \in call[d].todo
  PROVE  ~Bound
BY DEF DealInv, Closed, Last

\* A call that goes on with what it knows.
LEMMA DealGoes ==
  ASSUME TypeOK, BindInv, DealInv, Still, NEW d \in Callers, Moves(d),
         call'[d].know = call[d].know,
         call[d].pc \in {"observe", "unknown"} => call'[d].pc \in {"observe", "unknown"},
         call'[d].pc = "stop" =>
            \A s \in Searched : At(d, s) => s \in call[d].ambiguous
  PROVE  DealInv'
<1>1. /\ Planned(d) /\ Planned(d)' /\ log' = log
      /\ call'[d].run = call[d].run /\ call'[d].todo = call[d].todo
      /\ call'[d].ambiguous = call[d].ambiguous
      /\ \A e \in Callers \ {d} : call'[e] = call[e]
  BY DEF Moves
<1>2. Takes(d) /\ \A q \in Runs : SameIds(q)
  BY <1>1 DEF Takes, SameIds, Planned
<1>3. \A s : At(d, s)' <=> At(d, s)
  BY <1>1 DEF At
<1>4. Spent(d) => Spent(d)'
  BY <1>1, <1>3 DEF Spent
<1>5. Last(d) => Last(d)'
  BY <1>1 DEF Last
<1>6. CallOwn(d)'
  <2>1. CallOwn(d) /\ \A s : Made(s)' = Made(s)
    BY StillIs DEF DealInv
  <2>2. apps' = apps /\ hooks' = hooks /\ project' = project /\ stored' = stored
    BY DEF Still
  <2>3. QED
    BY <1>1, <1>3, <1>4, <2>1, <2>2 DEF CallOwn, AppOf, HookOf, ProjectIs
<1>7. Bound' => Last(d)'
  BY <1>1, <1>5, StillIs DEF DealInv, Closed, Planned
<1>8. QED
  BY <1>2, <1>6, <1>7, StillIs, LogsStayOwn, DealFrame

LEMMA LastSteps ==
  ASSUME TypeOK, NEW d \in Callers
  PROVE  /\ At(d, "bind") => call[d].todo \subseteq {"bind", "register"}
         /\ At(d, "register") => "bind" \notin call[d].todo
<1>1. call[d].todo \subseteq Steps
  BY DEF TypeOK, Call
<1>2. Order[12] = "bind" /\ Order[13] = "register" /\ {12, 13} \subseteq Places
  BY DEF Order, Places
<1>3. \A k \in Places : k < 13 /\ At(d, Order[13]) => Order[k] \notin call[d].todo
  BY <1>2, AtAfter
<1>4. \A k \in Places : k < 12 /\ At(d, Order[12]) => Order[k] \notin call[d].todo
  BY <1>2, AtAfter
<1>5. \A k \in Places : k < 12 \/ k = 12 \/ k = 13
  BY DEF Places
<1>6. \A s \in Steps : \E k \in Places : s = Order[k]
  BY DEF Steps
<1>7. At(d, "register") => "bind" \notin call[d].todo
  BY <1>2, <1>3
<1>8. At(d, "bind") => call[d].todo \subseteq {"bind", "register"}
  BY <1>1, <1>2, <1>4, <1>5, <1>6
<1>9. QED
  BY <1>7, <1>8

\* What a call finds when it starts.
LEMMA HydrateKeepsDeal ==
  ASSUME TypeOK, OrderInv, BindInv, DealInv, NEW d \in Callers,
         NEW launch \in BOOLEAN, NEW all \in BOOLEAN, Hydrate(d, launch, all)
  PROVE  DealInv'
<1>1. PICK r \in Runs : r = call[d].run
  BY DEF TypeOK, Call, Hydrate
<1>2. /\ call[d].pc = "hydrate" /\ call'[d].pc = "intent" /\ call'[d].run = r
      /\ call'[d].know = Recalled(d, all) /\ log' = log
      /\ \A e \in Callers \ {d} : call'[e] = call[e]
  BY <1>1, HydrateIs
<1>3. Still /\ Takes(d) /\ \A q \in Runs : SameIds(q)
  BY <1>2 DEF Hydrate, Still, Takes, SameIds, remote, machine, history
<1>4. call'[d].ambiguous = IF all THEN Many(d) ELSE {}
  BY DEF Hydrate, TypeOK, Call
<1>5. \A s \in Many(d) : Len(Made(s)) > 1
  BY DEF Many, Made
<1>6. /\ call'[d].know.app = log[r].app
            \/ (log[r].app = 0 /\ call'[d].know.app \in {0, Only(apps)})
      /\ call'[d].know.project = log[r].project
      /\ call'[d].know.hook = log[r].hook /\ call'[d].know.secret = 0
  BY <1>1, <1>2 DEF Recalled, Or
<1>7. AppOf(r, call'[d].know.app) /\ HookOf(r, call'[d].know.hook)
      /\ ProjectIs(call'[d].know.project)
  BY <1>6 DEF DealInv, LogOwn, AppOf, Only
<1>8. CallOwn(d)'
  BY <1>2, <1>3, <1>4, <1>5, <1>6, <1>7, StillIs
  DEF CallOwn, Still, AppOf, HookOf, ProjectIs
<1>9. ~Bound
  BY <1>2, StillOpen DEF Planned
<1>10. QED
  BY <1>3, <1>8, <1>9, StillIs, LogsStayOwn, DealFrame

LEMMA DispatchKeepsDeal ==
  ASSUME TypeOK, BindInv, DealInv, NEW d \in Callers, NEW s \in Steps, Dispatch(d, s)
  PROVE  DealInv'
<1>1. /\ call[d].pc = "dispatch" /\ call'[d].pc = "call"
      /\ call'[d].run = call[d].run /\ call'[d].todo = call[d].todo
      /\ call'[d].know = call[d].know /\ call'[d].ambiguous = call[d].ambiguous
      /\ \A e \in Callers \ {d} : call'[e] = call[e]
      /\ \A q \in Runs : SameIds(q)
  BY DispatchIs DEF SameIds
<1>2. Still /\ Takes(d)
  BY <1>1 DEF Dispatch, Still, Takes, remote, machine, history
<1>3. Spent(d) => Spent(d)'
  BY <1>1 DEF Spent
<1>4. CallOwn(d)'
  <2>1. CallOwn(d) /\ (\A t : Made(t)' = Made(t)) /\ Planned(d)
    BY <1>1, <1>2, StillIs DEF DealInv, Planned
  <2>2. QED
    BY <1>1, <1>2, <1>3, <2>1 DEF CallOwn, Still, AppOf, HookOf, ProjectIs
<1>5. Bound' => Last(d)'
  BY <1>1, <1>2, StillIs DEF DealInv, Closed, Last, Planned
<1>6. QED
  BY <1>1, <1>2, <1>4, <1>5, StillIs, LogsStayOwn, DealFrame

LEMMA ObserveKeepsDeal ==
  ASSUME TypeOK, BindInv, DealInv, NEW d \in Callers, NEW s \in Steps, Observe(d, s)
  PROVE  DealInv'
<1>1. PICK r \in Runs : r = call[d].run
  BY ObserveIs
<1>2. /\ call[d].pc = "observe" /\ At(d, s) /\ call'[d].pc \in {"dispatch", "finalize"}
      /\ call'[d].run = r /\ call'[d].todo = call[d].todo \ {s}
      /\ call'[d].know = call[d].know /\ call'[d].ambiguous = call[d].ambiguous
      /\ \A e \in Callers \ {d} : call'[e] = call[e]
      /\ \A q \in Runs \ {r} : log'[q] = log[q]
      /\ log'[r] = Observed(log[r], s, call[d].know)
  BY <1>1, ObserveIs
<1>3. Still /\ Takes(d)
  BY <1>2 DEF Observe, Still, Takes, remote, machine, history
<1>4. CallOwn(d) /\ LogOwn(r) /\ Planned(d)
  BY <1>2 DEF DealInv, Planned
<1>5. LogOwn(r)'
  <2>1. /\ log'[r].app = Or(log[r].app, IF s = "app" THEN call[d].know.app ELSE 0)
        /\ log'[r].project =
                Or(log[r].project, IF s = "project" THEN call[d].know.project ELSE 0)
        /\ log'[r].hook = Or(log[r].hook, IF s = "hook" THEN call[d].know.hook ELSE 0)
    BY <1>2 DEF Observed
  <2>2. /\ AppOf(r, log'[r].app) /\ HookOf(r, log'[r].hook)
        /\ ProjectIs(log'[r].project)
    BY <1>1, <1>4, <2>1 DEF LogOwn, CallOwn, Or, AppOf, HookOf, ProjectIs
  <2>3. QED
    BY <1>3, <2>2 DEF LogOwn, Still, AppOf, HookOf, ProjectIs
<1>6. Spent(d) => Spent(d)'
  BY <1>2, AtOne DEF Spent
<1>7. CallOwn(d)'
  <2>1. \A t : Made(t)' = Made(t)
    BY <1>3, StillIs
  <2>2. QED
    BY <1>1, <1>2, <1>3, <1>4, <1>6, <2>1 DEF CallOwn, Still, AppOf, HookOf, ProjectIs
<1>8. Bound' => Last(d)'
  <2>1. SUFFICES ASSUME Bound PROVE Last(d)'
    BY <1>3, StillIs
  <2>2. call[d].todo \subseteq {"bind", "register"} /\ s \in call[d].todo
    BY <1>2, <2>1 DEF DealInv, Closed, Last, At
  <2>3. "bind" \notin call'[d].todo
    BY <1>2, <2>2, LastSteps
  <2>4. QED
    BY <1>2, <2>2, <2>3 DEF Last, Planned
<1>9. \A q \in Runs \ {r} : LogOwn(q)'
  BY <1>2, <1>3, StillIs, LogsStayOwn DEF SameIds
<1>10. QED
  BY <1>3, <1>5, <1>7, <1>8, <1>9, StillIs, DealFrame

LEMMA FailsKeepDeal ==
  ASSUME TypeOK, BindInv, DealInv, NEW d \in Callers, Fails(d)
  PROVE  DealInv'
<1>1. Still
  BY FailsMoves DEF Still, remote, machine
<1>2. CASE Drops(d) /\ call[d].pc # "idle"
  <2>1. /\ Takes(d) /\ call'[d].pc = "idle" /\ \A q \in Runs : SameIds(q)
    BY <1>2, LeaveIs DEF Drops, Takes, SameIds
  <2>2. QED
    BY <1>1, <2>1, DealEnds
<1>3. CASE Moves(d) /\ call'[d].know = call[d].know /\ call'[d].pc = "unknown"
  BY <1>1, <1>3, DealGoes
<1>4. CASE /\ Moves(d) /\ call'[d].know = call[d].know
           /\ Calls(d, "update") /\ call'[d].pc = "stop"
  <2>1. call[d].pc = "call" /\ \A s \in Searched : ~At(d, s)
    BY <1>4, AtOne DEF Calls, Searched
  <2>2. QED
    BY <1>1, <1>4, <2>1, DealGoes
<1>5. QED
  BY <1>2, <1>3, <1>4, FailsMoves

LEMMA ToolKeepsDeal ==
  ASSUME "overlap" \notin Hazards, TypeOK, OrderInv, BindInv, DealInv,
         NEW d \in Callers, ToolStep(d)
  PROVE  DealInv'
<1> USE DEF remote, machine, history
<1>1. Moves(d) /\ call[d].pc = "call" /\ Planned(d) /\ Planned(d)'
  BY ToolMoves DEF Moves
<1>2. PICK r \in Runs : r = call[d].run
  BY <1>1 DEF TypeOK, Call, Planned
<1>3. /\ \A s : At(d, s)' <=> At(d, s)
      /\ call'[d].todo = call[d].todo /\ call'[d].run = r
      /\ call'[d].ambiguous = call[d].ambiguous
      /\ Takes(d) /\ log' = log /\ \A q \in Runs : SameIds(q)
  BY <1>1, <1>2 DEF At, Moves, Takes, SameIds
<1>4. /\ AppOf(r, call[d].know.app) /\ HookOf(r, call[d].know.hook)
      /\ ProjectIs(call[d].know.project)
      /\ call[d].know.secret # 0 =>
            /\ call[d].know.secret = Len(hooks)
            /\ Len(hooks) \notin stored \/ Spent(d)
      /\ \A s \in call[d].ambiguous : Len(Made(s)) > 1
  BY <1>1, <1>2 DEF DealInv, CallOwn
<1>5. call[d].know \in Known /\ call[d].todo \subseteq Steps
      /\ call[d].ambiguous \subseteq Searched
  BY DEF TypeOK, Call
<1>6. ASSUME Still, call'[d].know = call[d].know,
             call'[d].pc \in {"observe", "unknown"}
                \/ \E s \in call[d].ambiguous : At(d, s)
      PROVE  DealInv'
  <2>1. call'[d].pc = "stop" =>
            \A s \in Searched : At(d, s) => s \in call[d].ambiguous
    BY <1>6, AtOne
  <2>2. QED
    BY <1>1, <1>6, <2>1, DealGoes
<1>7. CASE TakeApp(d) \/ Plain(d) \/ Register(d) \/ StepRefused(d) \/ NoProof(d)
  <2>1. Still
    BY <1>7 DEF TakeApp, Plain, Register, StepRefused, NoProof, Still
  <2>2. CASE TakeApp(d) \/ Plain(d) \/ Register(d)
    <3>1. call'[d].know = call[d].know /\ call'[d].pc = "observe"
      BY <1>1, <2>2, GotoMoves DEF TakeApp, Plain, Register, Phases, Moves
    <3>2. QED
      BY <1>6, <2>1, <3>1
  <2>3. CASE StepRefused(d)
    <3>1. call'[d].know = call[d].know /\ call'[d].pc = "unknown"
      BY <1>1, <2>3, GotoMoves DEF StepRefused, Phases, Moves
    <3>2. QED
      BY <1>6, <2>1, <3>1
  <2>4. CASE NoProof(d)
    <3>1. /\ call'[d].know = call[d].know
          /\ call'[d].pc = IF \E s \in call[d].ambiguous : At(d, s)
                             THEN "stop" ELSE "unknown"
      BY <1>1, <2>4, GotoMoves DEF NoProof, Phases, Moves
    <3>2. QED
      BY <1>6, <2>1, <3>1
  <2>5. QED
    BY <1>7, <2>2, <2>3, <2>4
\* A step that makes something changes what the call knows of that alone.
<1>8. ASSUME Lasting, call'[d].pc = "observe", ~Bound, manifest' = manifest,
             AppOf(r, call[d].know.app)', HookOf(r, call[d].know.hook)',
             ProjectIs(call[d].know.project)', stored' = stored,
             stored \subseteq DOMAIN hooks',
             call'[d].know.secret # 0 =>
                /\ call'[d].know.secret = Len(hooks')
                /\ Len(hooks') \notin stored \/ Spent(d)',
             \A s \in Searched : Len(Made(s)) > 1 => Len(Made(s)') > 1
      PROVE  DealInv'
  <2>1. CallOwn(d)'
    BY <1>3, <1>4, <1>5, <1>8 DEF CallOwn
  <2>2. ~Bound'
    BY <1>8 DEF Bound
  <2>3. QED
    BY <1>3, <1>8, <2>1, <2>2, LogsStayOwn, DealFrame
<1>9. Spent(d) => Spent(d)' \/ At(d, "secret")
  BY <1>1, <1>3 DEF Spent
<1>10. stored \subseteq DOMAIN hooks /\ apps \in Seq(Runs) /\ hooks \in Seq(Runs)
  BY DEF DealInv, TypeOK
<1>11. CASE MakeApp(d)
  <2>1. /\ At(d, "app") /\ apps' = Append(apps, r)
        /\ UNCHANGED <<hooks, project, stored, manifest>>
        /\ call'[d].know = [call[d].know EXCEPT !.app = Len(apps')]
        /\ call'[d].pc = "observe"
    BY <1>1, <1>2, <1>11, LearnMoves DEF MakeApp, Calls, NewId, Moves
  <2>2. /\ call'[d].know.app = Len(apps')
        /\ call'[d].know.project = call[d].know.project
        /\ call'[d].know.hook = call[d].know.hook
        /\ call'[d].know.secret = call[d].know.secret
    BY <1>5, <2>1 DEF Known
  <2>3. Lasting /\ Len(apps') \in DOMAIN apps' /\ apps'[Len(apps')] = r
        /\ Len(apps') = Len(apps) + 1
    BY <1>10, <2>1 DEF Lasting
  <2>4. ~Bound /\ ~At(d, "secret")
    BY <1>1, <2>1, StillOpen, AtOne DEF At, Planned
  <2>5. \A s \in Searched : Len(Made(s)) > 1 => Len(Made(s)') > 1
    BY <1>10, <2>1, <2>3 DEF Made
  <2>6. AppOf(r, call[d].know.app)'
    BY <2>2, <2>3 DEF AppOf
  <2>7. HookOf(r, call[d].know.hook)' /\ ProjectIs(call[d].know.project)'
    BY <1>4, <2>1, <2>2 DEF HookOf, ProjectIs
  <2>8. QED
    BY <1>4, <1>8, <1>9, <1>10, <2>1, <2>2, <2>3, <2>4, <2>5, <2>6, <2>7
<1>12. CASE MakeProject(d)
  <2>1. /\ At(d, "project") /\ project' = 1
        /\ UNCHANGED <<apps, hooks, stored, manifest>>
        /\ call'[d].know = [call[d].know EXCEPT !.project = 1]
        /\ call'[d].pc = "observe"
    BY <1>1, <1>12, LearnMoves DEF MakeProject, Calls, Moves
  <2>2. /\ call'[d].know.app = call[d].know.app
        /\ call'[d].know.hook = call[d].know.hook
        /\ call'[d].know.secret = call[d].know.secret
    BY <1>5, <2>1 DEF Known
  <2>3. ~Bound /\ ~At(d, "secret")
    BY <1>1, <2>1, StillOpen, AtOne DEF At, Planned
  <2>4. Lasting /\ \A s : Made(s)' = Made(s)
    BY <2>1 DEF Lasting, Made
  <2>5. /\ AppOf(r, call[d].know.app)' /\ HookOf(r, call[d].know.hook)'
        /\ ProjectIs(call[d].know.project)'
    BY <1>4, <2>1, <2>2 DEF AppOf, HookOf, ProjectIs
  <2>6. QED
    BY <1>4, <1>8, <1>9, <1>10, <2>1, <2>2, <2>3, <2>4, <2>5
<1>13. CASE MakeHook(d)
  <2>1. /\ At(d, "hook") /\ hooks' = Append(hooks, r)
        /\ UNCHANGED <<apps, project, stored, manifest>>
        /\ call'[d].know = [call[d].know EXCEPT !.hook = Len(hooks'),
                                                !.secret = Len(hooks')]
        /\ call'[d].pc = "observe"
    BY <1>1, <1>2, <1>13, LearnMoves DEF MakeHook, Calls, NewId, Moves
  <2>2. /\ call'[d].know.app = call[d].know.app
        /\ call'[d].know.project = call[d].know.project
        /\ call'[d].know.hook = Len(hooks') /\ call'[d].know.secret = Len(hooks')
    BY <1>5, <2>1 DEF Known
  <2>3. /\ Lasting /\ Len(hooks') \in DOMAIN hooks' /\ hooks'[Len(hooks')] = r
        /\ Len(hooks') = Len(hooks) + 1 /\ Len(hooks') \notin DOMAIN hooks
        /\ DOMAIN hooks \subseteq DOMAIN hooks'
    BY <1>10, <2>1 DEF Lasting
  <2>4. ~Bound
    BY <1>1, <2>1, StillOpen DEF At, Planned
  <2>5. \A s \in Searched : Len(Made(s)) > 1 => Len(Made(s)') > 1
    BY <1>10, <2>1, <2>3 DEF Made
  <2>6. HookOf(r, call[d].know.hook)'
    BY <2>2, <2>3 DEF HookOf
  <2>7. AppOf(r, call[d].know.app)' /\ ProjectIs(call[d].know.project)'
    BY <1>4, <2>1, <2>2 DEF AppOf, ProjectIs
  <2>8. Len(hooks') \notin stored /\ stored \subseteq DOMAIN hooks'
    BY <1>10, <2>3
  <2>9. QED
    BY <1>8, <2>1, <2>2, <2>3, <2>4, <2>5, <2>6, <2>7, <2>8
<1>14. CASE StoreSecret(d)
  <2>1. /\ At(d, "secret") /\ call[d].know.secret # 0
        /\ stored' = stored \cup {call[d].know.secret}
        /\ UNCHANGED <<apps, hooks, project, manifest>>
        /\ call'[d].know = call[d].know /\ call'[d].pc = "observe"
    BY <1>1, <1>14, GotoMoves DEF StoreSecret, HasSecret, Calls, Phases, Moves
  <2>2. Lasting /\ (\A s : Made(s)' = Made(s)) /\ stored' \subseteq DOMAIN hooks'
    BY <1>4, <1>10, <2>1 DEF Lasting, Made
  <2>3. Spent(d)'
    BY <1>3, <2>1 DEF Spent
  <2>4. CallOwn(d)'
    BY <1>3, <1>4, <2>1, <2>2, <2>3 DEF CallOwn, AppOf, HookOf, ProjectIs
  <2>5. ~Bound'
    <3>1. ~Bound
      BY <1>1, <2>1, StillOpen DEF At, Planned
    <3>2. QED
      BY <2>1, <3>1 DEF Bound
  <2>6. QED
    BY <1>3, <2>2, <2>4, <2>5, LogsStayOwn, DealFrame
<1>15. CASE Bind(d)
  <2>1. /\ At(d, "bind") /\ UNCHANGED <<apps, hooks, project, stored>>
        /\ call'[d].know = call[d].know /\ call'[d].pc = "observe"
    BY <1>1, <1>15, GotoMoves DEF Bind, Calls, Phases, Moves
  <2>2. Lasting /\ (\A s : Made(s)' = Made(s)) /\ stored' \subseteq DOMAIN hooks'
    BY <1>10, <2>1 DEF Lasting, Made
  <2>3. Spent(d) => Spent(d)'
    BY <1>9, <2>1, AtOne
  <2>4. CallOwn(d)'
    BY <1>3, <1>4, <2>1, <2>2, <2>3 DEF CallOwn, AppOf, HookOf, ProjectIs
  <2>5. Last(d)'
    BY <1>1, <1>3, <2>1, LastSteps DEF Last
  <2>6. QED
    BY <1>3, <2>2, <2>4, <2>5, LogsStayOwn, DealFrame
<1>16. QED
  BY <1>7, <1>11, <1>12, <1>13, <1>14, <1>15 DEF ToolStep

LEMMA DealInvStep ==
  ASSUME "overlap" \notin Hazards, TypeOK, OrderInv, BindInv, DealInv, [Next]_vars
  PROVE  DealInv'
<1> USE DEF remote, machine, history
<1>1. ASSUME NEW d \in Callers, NEW r \in Runs, Enter(d, r) PROVE DealInv'
  <2>1. /\ call'[d].pc = "hydrate" /\ log' = log
        /\ \A e \in Callers \ {d} : call'[e] = call[e]
    BY <1>1, EnterIs
  <2>2. Still /\ ~Bound /\ \A e \in Callers : call[e].pc = "idle"
    BY <1>1 DEF Enter, Still
  <2>3. Takes(d) /\ \A q \in Runs : SameIds(q)
    BY <2>1, <2>2 DEF Takes, SameIds
  <2>4. QED
    BY <2>1, <2>2, <2>3, DealEnds
<1>2. ASSUME NEW d \in Callers, NEW launch \in BOOLEAN, NEW all \in BOOLEAN,
             Hydrate(d, launch, all)
      PROVE  DealInv'
  BY <1>2, HydrateKeepsDeal
<1>3. ASSUME NEW d \in Callers, Intent(d) PROVE DealInv'
  <2>1. Still
    BY <1>3 DEF Intent, Still
  <2>2. QED
    BY <1>3, <2>1, IntentMoves, DealGoes
<1>4. ASSUME NEW d \in Callers, NEW s \in Steps, Dispatch(d, s) PROVE DealInv'
  BY <1>4, DispatchKeepsDeal
<1>5. ASSUME NEW d \in Callers, NEW s \in Steps, Observe(d, s) PROVE DealInv'
  BY <1>5, ObserveKeepsDeal
<1>6. ASSUME NEW d \in Callers, NEW s \in Steps, Diverge(d, s) PROVE DealInv'
  <2>1. call[d].pc # "idle" /\ Leave(d) /\ Still
    BY <1>6 DEF Diverge, Still
  <2>0. Takes(d) /\ call'[d].pc = "idle"
    BY <2>1, LeaveIs DEF Takes
  <2>2. \A q \in Runs : SameIds(q)
    BY <1>6, DivergeIs DEF SameIds
  <2>3. QED
    BY <2>0, <2>1, <2>2, DealEnds
<1>7. ASSUME NEW d \in Callers, Finalize(d) PROVE DealInv'
  <2>1. Still /\ Takes(d) /\ call'[d].pc = "idle"
    BY <1>7, FinalizeIs, LeaveIs DEF Finalize, Still, Takes
  <2>2. \A q \in Runs : SameIds(q)
    BY <1>7, FinalizeIs DEF SameIds
  <2>3. QED
    BY <2>1, <2>2, DealEnds
<1>8. ASSUME NEW d \in Callers, Fails(d) PROVE DealInv'
  BY <1>8, FailsKeepDeal
<1>9. ASSUME NEW d \in Callers, ToolStep(d) PROVE DealInv'
  BY <1>9, ToolKeepsDeal
<1>10. CASE UNCHANGED vars
  <2>1. UNCHANGED <<call, log, apps, hooks, project, stored, manifest>>
    BY <1>10 DEF vars
  <2>2. QED
    BY <2>1
    DEF DealInv, LogOwn, CallOwn, AppOf, HookOf, ProjectIs, Spent, At, Planned, Made,
        Closed, Bound, Last
<1>11. QED
  BY <1>1, <1>2, <1>3, <1>4, <1>5, <1>6, <1>7, <1>8, <1>9, <1>10
  DEF Next, RunnerStep, Failure, Fails

LEMMA DealBegins == Init => Deal!Init
BY DEF Init, Deal!Init, Deal!Open, Deal!Nothing, Unbound

\* What the promise is about, left alone.
LEMMA DealRests ==
  ASSUME UNCHANGED <<apps, hooks, project, stored, keychain, manifest, excused>>
  PROVE  UNCHANGED Deal!vars
BY DEF Deal!vars

LEMMA OpenIs == Deal!Open <=> ~Bound
BY DEF Deal!Open, Deal!Nothing, Bound, Unbound

\* A run makes a second one only if it has been led astray.
LEMMA MayMake ==
  ASSUME OrderInv, MadeInv, NEW d \in Callers, NEW r \in Runs, On(d, r),
         NEW s \in Searched, Calls(d, s), Makes(d, s), NEW made, made = Made(s)
  PROVE  Deal!May(r, made)
<1>1. Planned(d) /\ s \in call[d].todo /\ call[d].pc = "call"
  BY DEF Calls, At, Planned
<1>2. r \in excused \/ ~Has(r, s)
  BY <1>1 DEF MadeInv, MadeOnce, Fresh, Makes
<1>3. QED
  BY <1>2 DEF Has, Deal!May

LEMMA ToolDeals ==
  ASSUME "overlap" \notin Hazards, TypeOK, OrderInv, MadeInv, BindInv, DealInv,
         NEW d \in Callers, ToolStep(d)
  PROVE  [Deal!Next]_(Deal!vars)
<1> USE DEF remote, machine, history
<1>1. call[d].pc = "call" /\ Planned(d)
  BY ToolMoves DEF Moves
<1>2. PICK r \in Runs : r = call[d].run
  BY <1>1 DEF TypeOK, Call, Planned
<1>3. On(d, r) /\ CallOwn(d) /\ CallTrue(d)
  BY <1>1, <1>2 DEF On, DealInv, BindInv
<1>4. "app" \in Searched /\ "hook" \in Searched
  BY DEF Searched
<1>5. CASE MakeApp(d)
  <2>1. Deal!Open
    BY <1>1, <1>5, StillOpen, OpenIs DEF MakeApp, Calls, At
  <2>2. PICK made : made = apps
    OBVIOUS
  <2>3. Made("app") = made
    BY <2>2 DEF Made
  <2>4. Deal!May(r, made)
    BY <1>3, <1>4, <1>5, <2>3, MayMake DEF MakeApp
  <2>5. Deal!May(r, apps)
    BY <2>2, <2>4
  <2>6. Deal!MakeApp(r)
    BY <1>2, <1>5, <2>1, <2>5 DEF MakeApp, Deal!MakeApp
  <2>7. QED
    BY <2>6, Zenon DEF Deal!Next
<1>6. CASE MakeHook(d)
  <2>1. Deal!Open
    BY <1>1, <1>6, StillOpen, OpenIs DEF MakeHook, Calls, At
  <2>2. PICK made : made = hooks
    OBVIOUS
  <2>3. Made("hook") = made
    BY <2>2 DEF Made
  <2>4. Deal!May(r, made)
    BY <1>3, <1>4, <1>6, <2>3, MayMake DEF MakeHook
  <2>5. Deal!May(r, hooks)
    BY <2>2, <2>4
  <2>6. Deal!MakeHook(r)
    BY <1>2, <1>6, <2>1, <2>5 DEF MakeHook, Deal!MakeHook
  <2>7. QED
    BY <2>6, Zenon DEF Deal!Next
<1>7. CASE MakeProject(d)
  <2>1. Deal!Open
    BY <1>1, <1>7, StillOpen, OpenIs DEF MakeProject, Calls, At
  <2>2. Deal!MakeProject
    BY <1>7, <2>1 DEF MakeProject, Deal!MakeProject
  <2>3. QED
    BY <2>2, Zenon DEF Deal!Next
<1>8. CASE StoreSecret(d)
  <2>1. Deal!Open
    BY <1>1, <1>8, StillOpen, OpenIs DEF StoreSecret, Calls, At
  <2>2. /\ call[d].know.secret = Len(hooks) /\ Len(hooks) # 0
        /\ Len(hooks) \notin stored
    BY <1>1, <1>3, <1>8 DEF CallOwn, StoreSecret, HasSecret, Calls, Spent, At
  <2>3. hooks # <<>>
    BY <2>2
  <2>4. Deal!StoreSecret
    BY <1>8, <2>1, <2>2, <2>3 DEF StoreSecret, Deal!StoreSecret
  <2>5. QED
    BY <2>4, Zenon DEF Deal!Next
<1>9. CASE Bind(d)
  <2>1. Deal!Open
    BY <1>1, <1>9, StillOpen, OpenIs DEF Bind, Calls, At
  <2>2. PICK a, h : a = call[d].know.app /\ h = call[d].know.hook
    OBVIOUS
  <2>3. At(d, "bind")
    BY <1>9 DEF Bind, Calls
  <2>4. {"app", "project", "hook", "secret"} \cap call[d].todo = {}
    BY <2>3, AtLate
  <2>5. /\ a \in DOMAIN apps /\ a # 0 /\ call[d].know.project = 1 /\ h \in stored
    BY <1>1, <1>3, <2>2, <2>4 DEF CallTrue, Knows
  <2>6. h # 0
    BY <2>5 DEF BindInv, BoundTrue
  <2>7. (a = 1 \/ apps[a] = r) /\ hooks[h] = r /\ project = 1
    BY <1>1, <1>2, <1>3, <2>2, <2>5, <2>6 DEF CallOwn, AppOf, HookOf, ProjectIs
  <2>8. manifest' = [app |-> a, project |-> 1, hook |-> h]
    BY <1>9, <2>2, <2>5 DEF Bind, Binding
  <2>9. Deal!Bind(r, a, h)
    BY <1>9, <2>1, <2>7, <2>8 DEF Bind, Deal!Bind
  <2>10. QED
    BY <2>5, <2>9, Zenon DEF Deal!Next
<1>10. CASE TakeApp(d) \/ NoProof(d) \/ Plain(d) \/ Register(d) \/ StepRefused(d)
  BY <1>10, DealRests DEF TakeApp, NoProof, Plain, Register, StepRefused
<1>11. QED
  BY <1>5, <1>6, <1>7, <1>8, <1>9, <1>10 DEF ToolStep

LEMMA DivergeDeals ==
  ASSUME TypeOK, DealInv, NEW d \in Callers, NEW s \in Steps, Diverge(d, s)
  PROVE  [Deal!Next]_(Deal!vars)
<1> USE DEF remote, machine, history
<1>1. UNCHANGED <<apps, hooks, project, stored, keychain, manifest>>
  BY DEF Diverge
<1>2. CASE excused' = excused
  BY <1>1, <1>2, DealRests
<1>3. CASE excused' # excused
  <2>1. /\ call[d].pc = "stop" /\ s \in Searched /\ At(d, s)
        /\ excused' = excused \cup {call[d].run}
    BY <1>3 DEF Diverge
  <2>2. PICK r \in Runs : r = call[d].run
    BY <2>1 DEF TypeOK, Call
  <2>3. Len(apps) > 1 \/ Len(hooks) > 1
    BY <2>1 DEF DealInv, CallOwn, Planned, Made
  <2>4. Deal!Open
    BY <2>1, StillOpen, OpenIs DEF At, Searched
  <2>5. Deal!GoAstray(r)
    BY <1>1, <2>1, <2>2, <2>3, <2>4 DEF Deal!GoAstray
  <2>6. QED
    BY <2>5, Zenon DEF Deal!Next
<1>4. QED
  BY <1>2, <1>3

LEMMA DealStep ==
  ASSUME "overlap" \notin Hazards, TypeOK, OrderInv, MadeInv, BindInv, DealInv,
         [Next]_vars
  PROVE  [Deal!Next]_(Deal!vars)
<1> USE DEF remote, machine, history
<1>1. ASSUME NEW d \in Callers, NEW r \in Runs, Enter(d, r)
      PROVE  [Deal!Next]_(Deal!vars)
  <2>1. \A e \in Callers : call[e].run = None
    BY <1>1 DEF Enter, OrderInv
  <2>2. excused' = excused
    BY <1>1, <2>1, ScaffoldAssumption DEF Enter
  <2>3. QED
    BY <1>1, <2>2, DealRests DEF Enter
<1>2. ASSUME NEW d \in Callers, NEW s \in Steps, Diverge(d, s)
      PROVE  [Deal!Next]_(Deal!vars)
  BY <1>2, DivergeDeals
<1>3. ASSUME NEW d \in Callers, ToolStep(d) PROVE [Deal!Next]_(Deal!vars)
  BY <1>3, ToolDeals
<1>4. ASSUME NEW d \in Callers,
             \/ \E launch, all \in BOOLEAN : Hydrate(d, launch, all)
             \/ Intent(d) \/ Finalize(d)
             \/ \E s \in Steps : Dispatch(d, s) \/ Observe(d, s)
      PROVE  [Deal!Next]_(Deal!vars)
  <2>1. ASSUME NEW launch \in BOOLEAN, NEW all \in BOOLEAN, Hydrate(d, launch, all)
        PROVE  [Deal!Next]_(Deal!vars)
    BY <2>1, DealRests DEF Hydrate
  <2>2. CASE Intent(d) \/ Finalize(d)
    BY <2>2, DealRests DEF Intent, Finalize
  <2>3. ASSUME NEW s \in Steps, Dispatch(d, s) \/ Observe(d, s)
        PROVE  [Deal!Next]_(Deal!vars)
    BY <2>3, DealRests DEF Dispatch, Observe
  <2>4. QED
    BY <1>4, <2>1, <2>2, <2>3
<1>5. ASSUME NEW d \in Callers, Fails(d) PROVE [Deal!Next]_(Deal!vars)
  <2>1. excused' = excused
    BY <1>5, FailsMoves DEF Moves, Drops
  <2>2. QED
    BY <1>5, <2>1, FailsMoves, DealRests
<1>6. CASE UNCHANGED vars
  BY <1>6, DealRests DEF vars
<1>7. QED
  BY <1>1, <1>2, <1>3, <1>4, <1>5, <1>6 DEF Next, RunnerStep, Failure, Fails

\* With calls made in turn scaffolds implement Onboarding: apps and webhooks are
\* made once per run unless there are two to choose from, secrets are stored once
\* and in time, and the binding comes last and is made of what belongs together.
THEOREM OnboardingIsKept ==
  ASSUME "overlap" \notin Hazards
  PROVE  Spec => KeepsOnboarding
<1> DEFINE Inv == TypeOK /\ OrderInv /\ MadeInv /\ BindInv /\ DealInv
<1>1. Init => Inv
  BY TypeInit, OrderInit, MadeInit, BindInit, DealInvInit
<1>2. Inv /\ [Next]_vars => Inv'
  BY TypeStep, OrderStep, MadeStep, BindStep, DealInvStep
<1>3. Inv /\ [Next]_vars => [Deal!Next]_(Deal!vars)
  BY DealStep
<1>4. QED
  BY <1>1, <1>2, <1>3, DealBegins, PTL DEF Spec, KeepsOnboarding, Deal!Spec

=============================================================================
