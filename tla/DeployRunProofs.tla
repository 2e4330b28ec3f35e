--------------------------- MODULE DeployRunProofs ---------------------------
(***************************************************************************)
(* Proofs about DeployRun, for any number of calls, runs, commits and      *)
(* faults.  TypeOK and ManifestIsTrue hold under every hazard;             *)
(* NoCallInDoubt and NoDowngrade need calls that do not overlap and that   *)
(* leave the choice of the run to the manifest (Guarded).                  *)
(***************************************************************************)
EXTENDS DeployRun, TLAPS

\* Calls come one after the other and do not name a run themselves.
Guarded == {"overlap", "named"} \cap Hazards = {}

-----------------------------------------------------------------------------
(* Types *)

LEMMA TypeInit == Init => TypeOK
BY DeployAssumption
   DEF Init, TypeOK, Digest, NewDigest, Phases, Steps, Mutations, Commits

\* What the events do to the fold of a log.
LEMMA PendingAdded ==
  ASSUME digest \in [Runs -> Digest], NEW r \in Runs, NEW s \in Steps
  PROVE  [digest EXCEPT ![r].pending = @ \cup {s}] \in [Runs -> Digest]
BY DEF Digest

LEMMA PendingRemoved ==
  ASSUME digest \in [Runs -> Digest], NEW r \in Runs, NEW s \in Steps,
         NEW t \in {"open", "unknown", "changed"}
  PROVE  [digest EXCEPT ![r].pending = @ \ {s}, ![r].state = t] \in [Runs -> Digest]
BY DEF Digest

LEMMA StateSet ==
  ASSUME digest \in [Runs -> Digest], NEW r \in Runs
  PROVE  [digest EXCEPT ![r].state = "open"] \in [Runs -> Digest]
BY DEF Digest

\* A call begins with a run and with a log that is fit to go on.
LEMMA EnterTypes ==
  ASSUME TypeOK, NEW d \in Callers, NEW r \in Runs, Enter(d, r)
  PROVE  /\ digest' \in [Runs -> Digest]
         /\ pc' \in [Callers -> Phases]
         /\ run' \in [Callers -> Runs \cup {None}]
         /\ was' \in [Callers -> Runs \cup {None}]
         /\ \A e \in Callers : pc'[e] # "idle" => run'[e] # None
<1>1. digest \in [Runs -> Digest] /\ currentRun \in Runs \cup {None}
      /\ pc \in [Callers -> Phases] /\ run \in [Callers -> Runs \cup {None}]
      /\ was \in [Callers -> Runs \cup {None}]
      /\ \A e \in Callers : pc[e] # "idle" => run[e] # None
  BY DEF TypeOK
<1>2. NewDigest \in Digest
  BY DEF Digest, NewDigest
<1>3. digest' = [digest EXCEPT ![r] = NewDigest] \/ UNCHANGED digest
  BY DEF Enter
<1>4. digest' \in [Runs -> Digest]
  BY <1>1, <1>2, <1>3
<1>5. /\ pc' = [pc EXCEPT ![d] = "intent"]
      /\ run' = [run EXCEPT ![d] = r]
      /\ was' = [was EXCEPT ![d] = currentRun]
  BY DEF Enter, Goto
<1>6. r # None
  BY DeployAssumption
<1>7. "intent" \in Phases
  BY DEF Phases
<1>8. QED
  BY <1>1, <1>4, <1>5, <1>6, <1>7

LEMMA HasCommit ==
  ASSUME TypeOK, NEW d \in Callers, pc[d] # "idle", step[d] # "noop"
  PROVE  sha[d] \in Commits
<1>1. sha[d] \in 0..MaxCommit /\ sha[d] # 0
  BY DEF TypeOK
<1>2. QED
  BY <1>1 DEF Commits

LEMMA TypeStep == TypeOK /\ [Next]_vars => TypeOK'
<1> USE DeployAssumption
    DEF TypeOK, Fault, Goto, Phases, Steps, Mutations, Commits,
        local, manifest, remote, history
<1> SUFFICES ASSUME TypeOK, [Next]_vars PROVE TypeOK'
  OBVIOUS
<1>1. ASSUME NEW d \in Callers, NEW r \in Runs, StartDeploy(d, r) PROVE TypeOK'
  <2>1. Enter(d, r)
    BY <1>1 DEF StartDeploy
  <2>2. /\ step' \in [Callers -> Steps]
        /\ sha' \in [Callers -> 0..MaxCommit]
        /\ need' \in [Callers -> BOOLEAN]
        /\ skill' \in [Callers -> {"deploy", "reconcile"}]
    BY <1>1 DEF StartDeploy
  <2>3. UNCHANGED <<head, manifest, remote, history, faults>>
        /\ pc' = [pc EXCEPT ![d] = "intent"]
    BY <2>1 DEF Enter
  <2>4. \A e \in Callers : pc'[e] # "idle" /\ step'[e] # "noop" => sha'[e] # 0
    BY <1>1, <2>3 DEF StartDeploy
  <2>5. QED
    BY <2>1, <2>2, <2>3, <2>4, EnterTypes
<1>2. ASSUME NEW d \in Callers, NEW r \in Runs, StartReconcile(d, r) PROVE TypeOK'
  <2>1. Enter(d, r)
    BY <1>2 DEF StartReconcile
  <2>2. PICK c \in 0..MaxCommit, s \in {"bind", "noop"} :
              /\ s = "bind" => c # 0
              /\ s = "noop" => c = sha[d]
              /\ step' = [step EXCEPT ![d] = s]
              /\ sha' = [sha EXCEPT ![d] = c]
    <3>1. CASE step' = [step EXCEPT ![d] = "noop"] /\ UNCHANGED sha
      BY <3>1
    <3>2. CASE \E c \in live : /\ sha' = [sha EXCEPT ![d] = c]
                               /\ step' = [step EXCEPT ![d] = "bind"]
      <4>1. PICK c \in live : /\ sha' = [sha EXCEPT ![d] = c]
                             /\ step' = [step EXCEPT ![d] = "bind"]
        BY <3>2
      <4>2. c \in 0..MaxCommit /\ c # 0
        BY <4>1
      <4>3. QED
        BY <4>1, <4>2
    <3>3. QED
      BY <1>2, <3>1, <3>2 DEF StartReconcile
  <2>3. /\ step' \in [Callers -> Steps]
        /\ sha' \in [Callers -> 0..MaxCommit]
        /\ need' \in [Callers -> BOOLEAN]
        /\ skill' \in [Callers -> {"deploy", "reconcile"}]
    BY <1>2, <2>2 DEF StartReconcile
  <2>4. UNCHANGED <<head, manifest, remote, history, faults>>
        /\ pc' = [pc EXCEPT ![d] = "intent"]
    BY <2>1 DEF Enter
  <2>5. \A e \in Callers : pc'[e] # "idle" /\ step'[e] # "noop" => sha'[e] # 0
    BY <2>2, <2>4
  <2>6. QED
    BY <2>1, <2>3, <2>4, <2>5, EnterTypes
<1>3. ASSUME NEW d \in Callers, Intent(d) PROVE TypeOK'
  BY <1>3 DEF Intent
<1>4. ASSUME NEW d \in Callers, Register(d) PROVE TypeOK'
  BY <1>4 DEF Register
<1>5. ASSUME NEW d \in Callers, Dispatch(d) PROVE TypeOK'
  <2>1. run[d] \in Runs /\ step[d] \in Steps
    BY <1>5 DEF Dispatch
  <2>2. digest' \in [Runs -> Digest]
    BY <1>5, <2>1, PendingAdded DEF Dispatch
  <2>3. QED
    BY <1>5, <2>2 DEF Dispatch
<1>6. ASSUME NEW d \in Callers, Observe(d) PROVE TypeOK'
  <2>1. run[d] \in Runs /\ step[d] \in Steps
    BY <1>6 DEF Observe
  <2>2. digest' \in [Runs -> Digest]
    BY <1>6, <2>1, PendingRemoved DEF Observe
  <2>3. step' \in [Callers -> Steps]
    BY <1>6 DEF Observe, After
  <2>4. claimed' \subseteq Commits
    BY <1>6 DEF Observe
  <2>5. \A e \in Callers : pc'[e] # "idle" => run'[e] # None
    BY <1>6 DEF Observe
  <2>6. \A e \in Callers : pc'[e] # "idle" /\ step'[e] # "noop" => sha'[e] # 0
    BY <1>6 DEF Observe, After, IsLast
  <2>7. QED
    BY <1>6, <2>2, <2>3, <2>4, <2>5, <2>6 DEF Observe
<1>7. ASSUME NEW d \in Callers, Diverge(d) PROVE TypeOK'
  <2>1. run[d] \in Runs /\ step[d] \in Steps
    BY <1>7 DEF Diverge
  <2>2. digest' \in [Runs -> Digest]
    BY <1>7, <2>1, PendingRemoved DEF Diverge
  <2>3. QED
    BY <1>7, <2>2 DEF Diverge
<1>8. ASSUME NEW d \in Callers, Settle(d) PROVE TypeOK'
  BY <1>8 DEF Settle
<1>9. ASSUME NEW d \in Callers, Finalize(d) PROVE TypeOK'
  <2>1. run[d] \in Runs /\ step[d] \in Steps
    BY <1>9 DEF Finalize
  <2>2. digest' \in [Runs -> Digest]
    BY <1>9, <2>1, StateSet DEF Finalize
  <2>3. QED
    BY <1>9, <2>2 DEF Finalize
<1>10. ASSUME NEW d \in Callers, Record(d) PROVE TypeOK'
  BY <1>10 DEF Record
<1>11. ASSUME NEW d \in Callers, Clear(d) PROVE TypeOK'
  BY <1>11 DEF Clear
<1>12. ASSUME NEW d \in Callers, Push(d) PROVE TypeOK'
  BY <1>12 DEF Push, Calls
<1>13. ASSUME NEW d \in Callers, Wait(d) PROVE TypeOK'
  BY <1>13 DEF Wait, Calls
<1>14. ASSUME NEW d \in Callers, WaitFails(d) PROVE TypeOK'
  BY <1>14 DEF WaitFails, Calls
<1>15. ASSUME NEW d \in Callers, Promote(d) PROVE TypeOK'
  <2>1. sha[d] \in Commits
    BY <1>15, HasCommit DEF Promote, Calls
  <2>2. inflight' \subseteq Commits
    BY <1>15, <2>1 DEF Promote, Accepted
  <2>3. QED
    BY <1>15, <2>2 DEF Promote, Calls
<1>16. ASSUME NEW d \in Callers, Verify(d) PROVE TypeOK'
  BY <1>16 DEF Verify, Verified
<1>17. ASSUME NEW d \in Callers, VerifyFails(d) PROVE TypeOK'
  BY <1>17 DEF VerifyFails
<1>18. ASSUME NEW d \in Callers, Update(d) PROVE TypeOK'
  BY <1>18 DEF Update, Calls
<1>19. ASSUME NEW d \in Callers, Bind(d) PROVE TypeOK'
  BY <1>19 DEF Bind, Calls
<1>20. ASSUME NEW d \in Callers, PushRefused(d) PROVE TypeOK'
  BY <1>20 DEF PushRefused, Calls
<1>21. ASSUME NEW d \in Callers, UpdateMismatch(d) PROVE TypeOK'
  BY <1>21 DEF UpdateMismatch, Calls
<1>22. ASSUME NEW d \in Callers, CallFails(d) PROVE TypeOK'
  <2>1. sha[d] \in Commits
    BY <1>22, HasCommit DEF CallFails
  <2>2. inflight' \subseteq Commits
    BY <1>22, <2>1 DEF CallFails, Accepted
  <2>3. pushed' \in 0..MaxCommit
    BY <1>22 DEF CallFails
  <2>4. iframe' \in BOOLEAN /\ doubt' \subseteq Mutations
    BY <1>22 DEF CallFails
  <2>5. QED
    BY <1>22, <2>2, <2>3, <2>4 DEF CallFails
<1>23. ASSUME NEW d \in Callers, AppendFails(d) PROVE TypeOK'
  BY <1>23 DEF AppendFails, Unobserved
<1>24. ASSUME NEW d \in Callers, ManifestFails(d) PROVE TypeOK'
  BY <1>24 DEF ManifestFails
<1>25. ASSUME NEW d \in Callers, Crash(d) PROVE TypeOK'
  BY <1>25 DEF Crash, Unobserved
<1>26. ASSUME Commit PROVE TypeOK'
  BY <1>26 DEF Commit
<1>27. ASSUME NEW c \in Commits, NEW o \in {"ready", "error"}, Build(c, o) PROVE TypeOK'
  BY <1>27 DEF Build
<1>28. ASSUME NEW c \in Commits, Land(c) PROVE TypeOK'
  BY <1>28 DEF Land
<1>29. ASSUME NEW c \in Commits, Rollback(c) PROVE TypeOK'
  BY <1>29 DEF Rollback
<1>30. ASSUME UNCHANGED vars PROVE TypeOK'
  BY <1>30 DEF vars
<1>31. ASSUME NEW d \in Callers, CurrentFails(d) PROVE TypeOK'
  BY <1>31 DEF CurrentFails, Calls
<1>32. QED
  BY <1>1, <1>2,
     <1>3, <1>4, <1>5, <1>6, <1>7, <1>8, <1>9, <1>10, <1>11, <1>12, <1>13,
     <1>14, <1>15, <1>16, <1>17, <1>18, <1>19, <1>20, <1>21, <1>22, <1>23, <1>24,
     <1>25, <1>26, <1>27, <1>28, <1>29, <1>30, <1>31
  DEF Next, Start, RunnerStep, ToolStep, Failure, World

\* Every variable keeps its type, and a call under way has a run.
THEOREM DeployTypeCorrect == Spec => []TypeOK
BY TypeInit, TypeStep, PTL DEF Spec

-----------------------------------------------------------------------------
(* What the manifest records *)

\* The commit of a call has been in production from the moment the call has
\* seen its promotion, and a reconcile copies no other.
SeenLive(d) ==
    \/ step[d] \in {"update", "bind"}
    \/ step[d] = "promote" /\ pc[d] \in {"observe", "settle", "finalize", "record", "clear"}

\* What is behind the domain, and in the manifest, has been in production.
RecordInv ==
    /\ prod \in live \cup {0} /\ lastDeploy \in live \cup {0}
    /\ \A d \in Callers :
          /\ pc[d] # "idle" /\ SeenLive(d) => sha[d] \in live
          /\ pc[d] \in {"settle", "finalize", "record"} => step[d] \notin {"push", "wait"}
          /\ pc[d] = "record" => step[d] # "noop"
          /\ pc[d] = "verify" => step[d] = "promote"

LEMMA RecordInit == Init => RecordInv
BY DEF Init, RecordInv, SeenLive

LEMMA RecordStep ==
  ASSUME TypeOK, RecordInv, [Next]_vars
  PROVE  RecordInv'
<1> USE DEF RecordInv, SeenLive, Fault, Goto, local, manifest, remote, history
<1> /\ pc \in [Callers -> Phases] /\ step \in [Callers -> Steps]
    /\ sha \in [Callers -> 0..MaxCommit]
    /\ \A d \in Callers : pc[d] # "idle" /\ step[d] # "noop" => sha[d] # 0
  BY DEF TypeOK
<1>1. ASSUME NEW d \in Callers, NEW r \in Runs, StartDeploy(d, r) PROVE RecordInv'
  BY <1>1 DEF StartDeploy, Enter
<1>2. ASSUME NEW d \in Callers, NEW r \in Runs, StartReconcile(d, r) PROVE RecordInv'
  <2>1. CASE step' = [step EXCEPT ![d] = "noop"] /\ UNCHANGED sha
    BY <1>2, <2>1 DEF StartReconcile, Enter
  <2>2. ASSUME NEW c \in live,
               sha' = [sha EXCEPT ![d] = c], step' = [step EXCEPT ![d] = "bind"]
        PROVE  RecordInv'
    BY <1>2, <2>2 DEF StartReconcile, Enter
  <2>3. QED
    BY <1>2, <2>1, <2>2 DEF StartReconcile
<1>3. ASSUME NEW d \in Callers, Intent(d) PROVE RecordInv'
  BY <1>3 DEF Intent
<1>4. ASSUME NEW d \in Callers, Register(d) PROVE RecordInv'
  BY <1>4 DEF Register
<1>5. ASSUME NEW d \in Callers, Dispatch(d) PROVE RecordInv'
  BY <1>5 DEF Dispatch
<1>6. ASSUME NEW d \in Callers, Observe(d) PROVE RecordInv'
  BY <1>6 DEF Observe, After, IsLast, Steps, Mutations
<1>7. ASSUME NEW d \in Callers, Diverge(d) PROVE RecordInv'
  BY <1>7 DEF Diverge
<1>8. ASSUME NEW d \in Callers, Settle(d) PROVE RecordInv'
  BY <1>8 DEF Settle
<1>9. ASSUME NEW d \in Callers, Finalize(d) PROVE RecordInv'
  BY <1>9 DEF Finalize
<1>10. ASSUME NEW d \in Callers, Record(d) PROVE RecordInv'
  BY <1>10 DEF Record, Steps, Mutations
<1>11. ASSUME NEW d \in Callers, Clear(d) PROVE RecordInv'
  BY <1>11 DEF Clear
<1>12. ASSUME NEW d \in Callers, Push(d) PROVE RecordInv'
  BY <1>12 DEF Push, Calls
<1>13. ASSUME NEW d \in Callers, Wait(d) PROVE RecordInv'
  BY <1>13 DEF Wait, Calls
<1>14. ASSUME NEW d \in Callers, WaitFails(d) PROVE RecordInv'
  BY <1>14 DEF WaitFails, Calls
<1>15. ASSUME NEW d \in Callers, Promote(d) PROVE RecordInv'
  BY <1>15 DEF Promote, Calls, Accepted
<1>16. ASSUME NEW d \in Callers, Verify(d) PROVE RecordInv'
  BY <1>16 DEF Verify, Verified
<1>17. ASSUME NEW d \in Callers, VerifyFails(d) PROVE RecordInv'
  BY <1>17 DEF VerifyFails, Verified
<1>18. ASSUME NEW d \in Callers, Update(d) PROVE RecordInv'
  BY <1>18 DEF Update, Calls
<1>19. ASSUME NEW d \in Callers, Bind(d) PROVE RecordInv'
  BY <1>19 DEF Bind, Calls
<1>20. ASSUME NEW d \in Callers, CurrentFails(d) PROVE RecordInv'
  BY <1>20 DEF CurrentFails, Calls, Verified
<1>21. ASSUME NEW d \in Callers, PushRefused(d) PROVE RecordInv'
  BY <1>21 DEF PushRefused, Calls
<1>22. ASSUME NEW d \in Callers, UpdateMismatch(d) PROVE RecordInv'
  BY <1>22 DEF UpdateMismatch, Calls
<1>23. ASSUME NEW d \in Callers, CallFails(d) PROVE RecordInv'
  BY <1>23 DEF CallFails, Accepted
<1>24. ASSUME NEW d \in Callers, AppendFails(d) PROVE RecordInv'
  BY <1>24 DEF AppendFails, Unobserved
<1>25. ASSUME NEW d \in Callers, ManifestFails(d) PROVE RecordInv'
  BY <1>25 DEF ManifestFails
<1>26. ASSUME NEW d \in Callers, Crash(d) PROVE RecordInv'
  BY <1>26 DEF Crash, Unobserved
<1>27. ASSUME Commit PROVE RecordInv'
  BY <1>27 DEF Commit
<1>28. ASSUME NEW c \in Commits, NEW o \in {"ready", "error"}, Build(c, o) PROVE RecordInv'
  BY <1>28 DEF Build
<1>29. ASSUME NEW c \in Commits, Land(c) PROVE RecordInv'
  BY <1>29 DEF Land
<1>30. ASSUME NEW c \in Commits, Rollback(c) PROVE RecordInv'
  BY <1>30 DEF Rollback
<1>31. ASSUME UNCHANGED vars PROVE RecordInv'
  BY <1>31 DEF vars
<1>32. QED
  BY <1>1, <1>2, <1>3, <1>4, <1>5, <1>6, <1>7, <1>8, <1>9,
     <1>10, <1>11, <1>12, <1>13, <1>14, <1>15, <1>16, <1>17, <1>18,
     <1>19, <1>20, <1>21, <1>22, <1>23, <1>24, <1>25, <1>26, <1>27,
     <1>28, <1>29, <1>30, <1>31
  DEF Next, Start, RunnerStep, ToolStep, Failure, World

\* Under every hazard, with any number of overlapping calls, the manifest names
\* only deployments that have been in production.
THEOREM ManifestNamesWhatWasLive == Spec => []ManifestIsTrue
<1>1. RecordInv => ManifestIsTrue
  BY DEF RecordInv, ManifestIsTrue
<1>2. TypeOK /\ RecordInv /\ [Next]_vars => RecordInv'
  BY RecordStep
<1>3. QED
  BY <1>1, <1>2, RecordInit, DeployTypeCorrect, PTL DEF Spec

-----------------------------------------------------------------------------
(* Doubt *)

Alone == \A d, e \in Callers : pc[d] # "idle" /\ pc[e] # "idle" => d = e

\* A deploy past its first event works on the run the manifest names, and from
\* the moment a step is begun until it has an outcome the log has it pending.
OnRecord(d) ==
    /\ skill[d] = "deploy" /\ pc[d] \notin {"idle", "intent", "register"}
          => currentRun = run[d]
    /\ pc[d] # "idle" /\ step[d] \in Mutations \cup {"wait"} => skill[d] = "deploy"
    /\ pc[d] \in {"call", "verify", "observe", "diverge", "mismatch"}
          => step[d] \in digest[run[d]].pending

\* After a mutation in doubt the log of the run in the manifest stops all
\* calls, and the call that made it is on its way out.
DoubtInv ==
    /\ Alone
    /\ \A d \in Callers : OnRecord(d)
    /\ doubt # {} =>
          /\ currentRun # None /\ Stops(digest[currentRun])
          /\ \A d \in Callers : pc[d] \in {"idle", "diverge"}

LEMMA DoubtInit == Init => DoubtInv
BY DEF Init, DoubtInv, Alone, OnRecord

LEMMA DoubtStep ==
  ASSUME Guarded, TypeOK, RecordInv, DoubtInv, [Next]_vars
  PROVE  DoubtInv'
<1> USE DEF DoubtInv, Alone, OnRecord, Stops, Fault, Goto,
            local, manifest, remote, history
<1> /\ pc \in [Callers -> Phases] /\ step \in [Callers -> Steps]
    /\ run \in [Callers -> Runs \cup {None}] /\ was \in [Callers -> Runs \cup {None}]
    /\ skill \in [Callers -> {"deploy", "reconcile"}]
    /\ digest \in [Runs -> Digest] /\ currentRun \in Runs \cup {None}
    /\ doubt \subseteq Mutations /\ None \notin Runs
    /\ \A d \in Callers : pc[d] # "idle" => run[d] # None
  BY DeployAssumption DEF TypeOK
<1> "overlap" \notin Hazards /\ "named" \notin Hazards
  BY DEF Guarded
<1>1. ASSUME NEW d \in Callers, NEW r \in Runs, StartDeploy(d, r) PROVE DoubtInv'
  BY <1>1 DEF StartDeploy, Enter, Mutations
<1>2. ASSUME NEW d \in Callers, NEW r \in Runs, StartReconcile(d, r) PROVE DoubtInv'
  BY <1>2 DEF StartReconcile, Enter, Mutations
<1>3. ASSUME NEW d \in Callers, Intent(d) PROVE DoubtInv'
  BY <1>3 DEF Intent
<1>4. ASSUME NEW d \in Callers, Register(d) PROVE DoubtInv'
  BY <1>4 DEF Register
<1>5. ASSUME NEW d \in Callers, Dispatch(d) PROVE DoubtInv'
  BY <1>5 DEF Dispatch
<1>6. ASSUME NEW d \in Callers, Observe(d) PROVE DoubtInv'
  <2>1. step'[d] \in Mutations \cup {"wait"} => step[d] \in Mutations \cup {"wait"}
    BY <1>6 DEF Observe, After, IsLast, Steps, Mutations
  <2>2. doubt = {} /\ doubt' = {}
    BY <1>6 DEF Observe
  <2>3. pc' \in {[pc EXCEPT ![d] = "settle"], [pc EXCEPT ![d] = "dispatch"]}
    BY <1>6 DEF Observe
  <2>4. QED
    BY <1>6, <2>1, <2>2, <2>3 DEF Observe
<1>7. ASSUME NEW d \in Callers, Diverge(d) PROVE DoubtInv'
  BY <1>7 DEF Diverge
<1>8. ASSUME NEW d \in Callers, Settle(d) PROVE DoubtInv'
  BY <1>8 DEF Settle
<1>9. ASSUME NEW d \in Callers, Finalize(d) PROVE DoubtInv'
  BY <1>9 DEF Finalize
<1>10. ASSUME NEW d \in Callers, Record(d) PROVE DoubtInv'
  BY <1>10 DEF Record
<1>11. ASSUME NEW d \in Callers, Clear(d) PROVE DoubtInv'
  BY <1>11 DEF Clear
<1>12. ASSUME NEW d \in Callers, Push(d) PROVE DoubtInv'
  BY <1>12 DEF Push, Calls
<1>13. ASSUME NEW d \in Callers, Wait(d) PROVE DoubtInv'
  BY <1>13 DEF Wait, Calls
<1>14. ASSUME NEW d \in Callers, WaitFails(d) PROVE DoubtInv'
  BY <1>14 DEF WaitFails, Calls
<1>15. ASSUME NEW d \in Callers, Promote(d) PROVE DoubtInv'
  BY <1>15 DEF Promote, Calls, Accepted
<1>16. ASSUME NEW d \in Callers, Verify(d) PROVE DoubtInv'
  BY <1>16 DEF Verify, Verified
<1>17. ASSUME NEW d \in Callers, VerifyFails(d) PROVE DoubtInv'
  <2>1. step[d] = "promote"
    BY <1>17 DEF VerifyFails, RecordInv
  <2>2. QED
    BY <1>17, <2>1 DEF VerifyFails, Mutations
<1>18. ASSUME NEW d \in Callers, Update(d) PROVE DoubtInv'
  BY <1>18 DEF Update, Calls
<1>19. ASSUME NEW d \in Callers, Bind(d) PROVE DoubtInv'
  BY <1>19 DEF Bind, Calls
<1>20. ASSUME NEW d \in Callers, CurrentFails(d) PROVE DoubtInv'
  BY <1>20 DEF CurrentFails, Calls, Verified
<1>21. ASSUME NEW d \in Callers, PushRefused(d) PROVE DoubtInv'
  BY <1>21 DEF PushRefused, Calls
<1>22. ASSUME NEW d \in Callers, UpdateMismatch(d) PROVE DoubtInv'
  BY <1>22 DEF UpdateMismatch, Calls
<1>23. ASSUME NEW d \in Callers, CallFails(d) PROVE DoubtInv'
  BY <1>23 DEF CallFails, Accepted
<1>24. ASSUME NEW d \in Callers, AppendFails(d) PROVE DoubtInv'
  BY <1>24 DEF AppendFails, Unobserved
<1>25. ASSUME NEW d \in Callers, ManifestFails(d) PROVE DoubtInv'
  BY <1>25 DEF ManifestFails
<1>26. ASSUME NEW d \in Callers, Crash(d) PROVE DoubtInv'
  BY <1>26 DEF Crash, Unobserved
<1>27. ASSUME Commit PROVE DoubtInv'
  BY <1>27 DEF Commit
<1>28. ASSUME NEW c \in Commits, NEW o \in {"ready", "error"}, Build(c, o) PROVE DoubtInv'
  BY <1>28 DEF Build
<1>29. ASSUME NEW c \in Commits, Land(c) PROVE DoubtInv'
  BY <1>29 DEF Land
<1>30. ASSUME NEW c \in Commits, Rollback(c) PROVE DoubtInv'
  BY <1>30 DEF Rollback
<1>31. ASSUME UNCHANGED vars PROVE DoubtInv'
  BY <1>31 DEF vars
<1>32. QED
  BY <1>1, <1>2, <1>3, <1>4, <1>5, <1>6, <1>7, <1>8, <1>9,
     <1>10, <1>11, <1>12, <1>13, <1>14, <1>15, <1>16, <1>17, <1>18,
     <1>19, <1>20, <1>21, <1>22, <1>23, <1>24, <1>25, <1>26, <1>27,
     <1>28, <1>29, <1>30, <1>31
  DEF Next, Start, RunnerStep, ToolStep, Failure, World

\* In turn, and on the run the manifest names, no call makes a mutation while
\* another is in doubt.
THEOREM NothingIsDoneInDoubt == ASSUME Guarded PROVE Spec => NoCallInDoubt
<1>1. TypeOK /\ RecordInv /\ DoubtInv /\ [Next]_vars => DoubtInv'
  BY DoubtStep
<1>2. TypeOK /\ RecordInv /\ [Next]_vars => RecordInv'
  BY RecordStep
<1>3. DoubtInv =>
        [\A d \in Callers :
           pc[d] = "call" /\ step[d] \in Mutations /\ pc'[d] \notin {"call", "idle"}
             => doubt = {}]_vars
  BY DEF DoubtInv
<1>4. QED
  BY <1>1, <1>2, <1>3, RecordInit, DoubtInit, DeployTypeCorrect, PTL
  DEF Spec, NoCallInDoubt

-----------------------------------------------------------------------------
(* Promotions *)

\* A deploy that has not asked for its promotion yet.
Unpromoted(d) ==
    /\ pc[d] \in {"intent", "register", "dispatch", "call", "observe"}
    /\ step[d] \in {"push", "wait", "promote"}
    /\ pc[d] = "observe" => step[d] # "promote"

\* At most one promotion is under way, it leads forward, and it belongs to the
\* call that is about to look at it or is in doubt.
PromoteInv ==
    /\ prod <= head
    /\ \A c \in inflight : prod < c /\ c <= head
    /\ \A b, c \in inflight : b = c
    /\ inflight # {} => doubt # {} \/ \E d \in Callers : pc[d] = "verify"
    /\ \A d \in Callers :
          /\ pc[d] # "idle" /\ skill[d] = "deploy" => sha[d] <= head
          /\ Unpromoted(d) => prod <= sha[d]
          /\ pc[d] = "verify" => inflight \subseteq {sha[d]}

LEMMA PromoteInit == Init => PromoteInv
BY DeployAssumption DEF Init, PromoteInv, Unpromoted

LEMMA PromoteStep ==
  ASSUME Guarded, TypeOK, RecordInv, DoubtInv, PromoteInv, [Next]_vars
  PROVE  PromoteInv'
<1> USE DEF PromoteInv, Unpromoted, Fault, Goto, local, manifest, remote, history
<1> /\ pc \in [Callers -> Phases] /\ step \in [Callers -> Steps]
    /\ sha \in [Callers -> 0..MaxCommit]
    /\ skill \in [Callers -> {"deploy", "reconcile"}]
    /\ head \in Commits /\ prod \in 0..MaxCommit /\ inflight \subseteq 1..MaxCommit
    /\ doubt \subseteq Mutations /\ MaxCommit \in Nat
  BY DeployAssumption DEF TypeOK, Commits
<1> /\ \A d, e \in Callers : pc[d] # "idle" /\ pc[e] # "idle" => d = e
    /\ doubt # {} => \A d \in Callers : pc[d] \in {"idle", "diverge"}
    /\ \A d \in Callers :
          /\ pc[d] # "idle" /\ step[d] \in Mutations \cup {"wait"} => skill[d] = "deploy"
          /\ pc[d] = "verify" => step[d] = "promote"
  BY DEF DoubtInv, Alone, OnRecord, RecordInv
<1>1. ASSUME NEW d \in Callers, NEW r \in Runs, StartDeploy(d, r) PROVE PromoteInv'
  BY <1>1 DEF StartDeploy, Enter, Commits
<1>2. ASSUME NEW d \in Callers, NEW r \in Runs, StartReconcile(d, r) PROVE PromoteInv'
  BY <1>2 DEF StartReconcile, Enter, Commits
<1>3. ASSUME NEW d \in Callers, Intent(d) PROVE PromoteInv'
  BY <1>3 DEF Intent
<1>4. ASSUME NEW d \in Callers, Register(d) PROVE PromoteInv'
  BY <1>4 DEF Register
<1>5. ASSUME NEW d \in Callers, Dispatch(d) PROVE PromoteInv'
  BY <1>5 DEF Dispatch
<1>6. ASSUME NEW d \in Callers, Observe(d) PROVE PromoteInv'
  BY <1>6 DEF Observe, After, IsLast
<1>7. ASSUME NEW d \in Callers, Diverge(d) PROVE PromoteInv'
  BY <1>7 DEF Diverge
<1>8. ASSUME NEW d \in Callers, Settle(d) PROVE PromoteInv'
  BY <1>8 DEF Settle
<1>9. ASSUME NEW d \in Callers, Finalize(d) PROVE PromoteInv'
  BY <1>9 DEF Finalize
<1>10. ASSUME NEW d \in Callers, Record(d) PROVE PromoteInv'
  BY <1>10 DEF Record
<1>11. ASSUME NEW d \in Callers, Clear(d) PROVE PromoteInv'
  BY <1>11 DEF Clear
<1>12. ASSUME NEW d \in Callers, Push(d) PROVE PromoteInv'
  BY <1>12 DEF Push, Calls
<1>13. ASSUME NEW d \in Callers, Wait(d) PROVE PromoteInv'
  BY <1>13 DEF Wait, Calls
<1>14. ASSUME NEW d \in Callers, WaitFails(d) PROVE PromoteInv'
  BY <1>14 DEF WaitFails, Calls
<1>15. ASSUME NEW d \in Callers, Promote(d) PROVE PromoteInv'
  <2>1. doubt = {} /\ inflight = {}
    BY <1>15 DEF Promote, Calls
  <2>2. prod <= sha[d] /\ sha[d] <= head
    BY <1>15 DEF Promote, Calls, Mutations
  <2>3. inflight' \subseteq {sha[d]} /\ \A b \in inflight' : prod < b /\ b <= head
    BY <1>15, <2>1, <2>2 DEF Promote, Accepted, Commits
  <2>4. \A e \in Callers : e # d => pc[e] = "idle"
    BY <1>15 DEF Promote, Calls
  <2>5. QED
    BY <1>15, <2>2, <2>3, <2>4 DEF Promote, Calls
<1>16. ASSUME NEW d \in Callers, Verify(d) PROVE PromoteInv'
  <2>1. inflight = {}
    BY <1>16 DEF Verify, Verified
  <2>2. QED
    BY <1>16, <2>1 DEF Verify
<1>17. ASSUME NEW d \in Callers, VerifyFails(d) PROVE PromoteInv'
  BY <1>17 DEF VerifyFails, Verified
<1>18. ASSUME NEW d \in Callers, Update(d) PROVE PromoteInv'
  BY <1>18 DEF Update, Calls
<1>19. ASSUME NEW d \in Callers, Bind(d) PROVE PromoteInv'
  BY <1>19 DEF Bind, Calls
<1>20. ASSUME NEW d \in Callers, CurrentFails(d) PROVE PromoteInv'
  BY <1>20 DEF CurrentFails, Calls, Verified
<1>21. ASSUME NEW d \in Callers, PushRefused(d) PROVE PromoteInv'
  BY <1>21 DEF PushRefused, Calls
<1>22. ASSUME NEW d \in Callers, UpdateMismatch(d) PROVE PromoteInv'
  BY <1>22 DEF UpdateMismatch, Calls
<1>23. ASSUME NEW d \in Callers, CallFails(d) PROVE PromoteInv'
  <2>1. doubt = {} /\ inflight = {}
    BY <1>23 DEF CallFails
  <2>2. CASE UNCHANGED inflight
    BY <1>23, <2>1, <2>2 DEF CallFails
  <2>3. CASE step[d] = "promote" /\ Accepted(sha[d])
    <3>1. doubt' # {}
      BY <1>23, <2>3 DEF CallFails, Mutations
    <3>2. prod <= sha[d] /\ sha[d] <= head
      BY <1>23, <2>3 DEF CallFails, Mutations
    <3>3. inflight' \subseteq {sha[d]} /\ \A b \in inflight' : prod < b /\ b <= head
      BY <2>1, <2>3, <3>2 DEF Accepted, Commits
    <3>4. QED
      BY <1>23, <3>1, <3>3 DEF CallFails
  <2>4. QED
    BY <1>23, <2>2, <2>3 DEF CallFails
<1>24. ASSUME NEW d \in Callers, AppendFails(d) PROVE PromoteInv'
  BY <1>24 DEF AppendFails, Unobserved
<1>25. ASSUME NEW d \in Callers, ManifestFails(d) PROVE PromoteInv'
  BY <1>25 DEF ManifestFails
<1>26. ASSUME NEW d \in Callers, Crash(d) PROVE PromoteInv'
  <2>1. pc[d] = "verify" => doubt' # {}
    BY <1>26 DEF Crash, Unobserved, Mutations
  <2>2. doubt # {} => doubt' # {}
    BY <1>26 DEF Crash
  <2>3. inflight # {} => doubt' # {} \/ \E e \in Callers : pc'[e] = "verify"
    BY <1>26, <2>1, <2>2 DEF Crash
  <2>4. QED
    BY <1>26, <2>3 DEF Crash
<1>27. ASSUME Commit PROVE PromoteInv'
  <2>1. head' = head + 1 /\ head \in Nat
    BY <1>27 DEF Commit, Commits
  <2>2. \A n \in 0..MaxCommit : n <= head => n <= head'
    BY <2>1
  <2>3. QED
    BY <1>27, <2>2 DEF Commit, Commits
<1>28. ASSUME NEW c \in Commits, NEW o \in {"ready", "error"}, Build(c, o) PROVE PromoteInv'
  BY <1>28 DEF Build
<1>29. ASSUME NEW c \in Commits, Land(c) PROVE PromoteInv'
  BY <1>29 DEF Land
<1>30. ASSUME NEW c \in Commits, Rollback(c) PROVE PromoteInv'
  <2>1. prod' < prod /\ prod' \in 0..MaxCommit /\ UNCHANGED inflight
    BY <1>30 DEF Rollback, Commits
  <2>2. \A b \in inflight : prod' < b
    BY <2>1
  <2>3. \A e \in Callers : Unpromoted(e) => prod' <= sha[e]
    BY <2>1
  <2>4. QED
    BY <1>30, <2>1, <2>2, <2>3 DEF Rollback, Commits
<1>31. ASSUME UNCHANGED vars PROVE PromoteInv'
  BY <1>31 DEF vars
<1>32. QED
  BY <1>1, <1>2, <1>3, <1>4, <1>5, <1>6, <1>7, <1>8, <1>9,
     <1>10, <1>11, <1>12, <1>13, <1>14, <1>15, <1>16, <1>17, <1>18,
     <1>19, <1>20, <1>21, <1>22, <1>23, <1>24, <1>25, <1>26, <1>27,
     <1>28, <1>29, <1>30, <1>31
  DEF Next, Start, RunnerStep, ToolStep, Failure, World

LEMMA ProductionMoves ==
  [Next]_vars => UNCHANGED prod \/ \E c \in Commits : Land(c) \/ Rollback(c)
<1> USE DEF remote
<1>1. ASSUME NEW d \in Callers, NEW r \in Runs, StartDeploy(d, r) \/ StartReconcile(d, r)
      PROVE  UNCHANGED prod
  BY <1>1 DEF StartDeploy, StartReconcile, Enter
<1>2. ASSUME NEW d \in Callers, RunnerStep(d) PROVE UNCHANGED prod
  BY <1>2 DEF RunnerStep, Intent, Register, Dispatch, Observe, Diverge, Settle,
     Finalize, Record, Clear
<1>3. ASSUME NEW d \in Callers, ToolStep(d) PROVE UNCHANGED prod
  BY <1>3 DEF ToolStep, Push, Wait, WaitFails, Promote, Verify, VerifyFails, Update,
     Bind, CurrentFails
<1>4. ASSUME NEW d \in Callers, Failure(d) PROVE UNCHANGED prod
  BY <1>4 DEF Failure, PushRefused, UpdateMismatch, CallFails, AppendFails,
     ManifestFails, Crash
<1>5. ASSUME NEW c \in Commits, NEW o \in {"ready", "error"}, Build(c, o)
      PROVE  UNCHANGED prod
  BY <1>5 DEF Build
<1>6. Commit \/ UNCHANGED vars => UNCHANGED prod
  BY DEF Commit, vars
<1>7. QED
  BY <1>1, <1>2, <1>3, <1>4, <1>5, <1>6 DEF Next, Start, World

\* In turn, and on the run the manifest names, a promotion only ever replaces
\* an older deployment, however late it takes effect.
THEOREM PromotionsLeadForward == ASSUME Guarded PROVE Spec => NoDowngrade
<1>1. TypeOK /\ RecordInv /\ [Next]_vars => RecordInv'
  BY RecordStep
<1>2. TypeOK /\ RecordInv /\ DoubtInv /\ [Next]_vars => DoubtInv'
  BY DoubtStep
<1>3. TypeOK /\ RecordInv /\ DoubtInv /\ PromoteInv /\ [Next]_vars => PromoteInv'
  BY PromoteStep
<1>4. TypeOK /\ PromoteInv /\ [Next]_vars
        => [(\E c \in Commits : Rollback(c)) \/ prod' >= prod]_vars
  <2> SUFFICES ASSUME TypeOK, PromoteInv, [Next]_vars
               PROVE  (\E c \in Commits : Rollback(c)) \/ prod' >= prod
    OBVIOUS
  <2>1. prod \in Nat
    BY DEF TypeOK
  <2>2. CASE UNCHANGED prod
    BY <2>1, <2>2
  <2>3. ASSUME NEW c \in Commits, Land(c) PROVE prod' >= prod
    BY <2>1, <2>3 DEF Land, PromoteInv, Commits
  <2>4. QED
    BY <2>2, <2>3, ProductionMoves
<1>5. QED
  BY <1>1, <1>2, <1>3, <1>4, RecordInit, DoubtInit, PromoteInit, DeployTypeCorrect, PTL
  DEF Spec, NoDowngrade

-----------------------------------------------------------------------------
(* DeployRun implements Rollout, in turn and on the run the manifest names *)

\* What is built has been pushed, and a deploy past its wait has a build.
ReadyInv ==
    /\ pushed <= head
    /\ \A c \in Commits : built[c] # "none" => c <= pushed
    /\ \A d \in Callers :
          pc[d] # "idle" /\ (step[d] \in {"promote", "update"}
                               \/ (step[d] = "wait" /\ pc[d] = "observe"))
             => built[sha[d]] # "none"

\* A deploy that records has given the app its address, or found it there.
AddressInv ==
    \A d \in Callers :
        /\ pc[d] # "idle" /\ step[d] = "bind" => skill[d] = "reconcile"
        /\ pc[d] = "record" => skill[d] = "deploy"
        /\ pc[d] # "idle" /\ skill[d] = "deploy" /\ ~need[d] => iframe
        /\ pc[d] \in {"settle", "finalize", "record"} /\ step[d] = "promote" => ~need[d]
        /\ pc[d] \in {"observe", "settle", "finalize", "record"} /\ step[d] = "update"
              => iframe

\* A deploy is at the newest commit, and so is a reconcile that found one.
NewestInv ==
    /\ \A c \in live : c <= head
    /\ \A d \in Callers :
          /\ pc[d] # "idle" /\ skill[d] = "deploy" => \A b \in live \cup inflight : b <= sha[d]
          /\ pc[d] # "idle" /\ step[d] = "bind" =>
                /\ \A b \in live : b <= sha[d]
                /\ inflight = {} /\ lastDeploy # 0

RolloutInv == ReadyInv /\ AddressInv /\ NewestInv

LEMMA RolloutInit == Init => RolloutInv
BY DeployAssumption DEF Init, RolloutInv, ReadyInv, AddressInv, NewestInv

LEMMA RolloutStep ==
  ASSUME Guarded, TypeOK, RecordInv, DoubtInv, PromoteInv, RolloutInv, [Next]_vars
  PROVE  RolloutInv'
<1> USE DEF RolloutInv, ReadyInv, AddressInv, NewestInv, Fault, Goto,
            local, manifest, remote, history
<1> /\ pc \in [Callers -> Phases] /\ step \in [Callers -> Steps]
    /\ sha \in [Callers -> 0..MaxCommit] /\ need \in [Callers -> BOOLEAN]
    /\ skill \in [Callers -> {"deploy", "reconcile"}]
    /\ built \in [Commits -> {"none", "ready", "error"}]
    /\ head \in 1..MaxCommit /\ pushed \in 0..MaxCommit /\ lastDeploy \in 0..MaxCommit
    /\ live \subseteq 1..MaxCommit /\ inflight \subseteq 1..MaxCommit
    /\ iframe \in BOOLEAN /\ MaxCommit \in Nat /\ Commits = 1..MaxCommit
    /\ \A d \in Callers : pc[d] # "idle" /\ step[d] # "noop" => sha[d] # 0
  BY DeployAssumption DEF TypeOK, Commits
<1> /\ \A d, e \in Callers : pc[d] # "idle" /\ pc[e] # "idle" => d = e
    /\ doubt # {} => \A d \in Callers : pc[d] \in {"idle", "diverge"}
    /\ \A d \in Callers :
          pc[d] # "idle" /\ step[d] \in Mutations \cup {"wait"} => skill[d] = "deploy"
    /\ \A c \in inflight : prod < c /\ c <= head
    /\ \A d \in Callers : pc[d] # "idle" /\ skill[d] = "deploy" => sha[d] <= head
  BY DEF DoubtInv, Alone, OnRecord, PromoteInv
<1>a. ASSUME NEW d \in Callers, NEW r \in Runs, Enter(d, r)
      PROVE  doubt = {} /\ inflight = {} /\ \A e \in Callers : pc[e] = "idle"
  <2>1. \A e \in Callers : pc[e] = "idle"
    BY <1>a DEF Enter, Guarded
  <2>2. doubt = {}
    BY <1>a DEF Enter, Guarded, DoubtInv
  <2>3. QED
    BY <2>1, <2>2 DEF PromoteInv
\* Phases about which nothing is said.
<1>b. ASSUME NEW d \in Callers, NEW x \in Phases, pc[d] # "idle",
             x \notin {"observe", "settle", "finalize", "record"}, Goto(d, x),
             UNCHANGED <<head, lastDeploy, remote, skill, sha, step, need>>
      PROVE  RolloutInv'
  BY <1>b
<1>1. ASSUME NEW d \in Callers, NEW r \in Runs, StartDeploy(d, r) PROVE RolloutInv'
  BY <1>1, <1>a DEF StartDeploy, Enter
<1>2. ASSUME NEW d \in Callers, NEW r \in Runs, StartReconcile(d, r) PROVE RolloutInv'
  <2>1. CASE step' = [step EXCEPT ![d] = "noop"] /\ UNCHANGED sha
    BY <1>2, <1>a, <2>1 DEF StartReconcile, Enter
  <2>2. ASSUME NEW c \in live, Latest(c), lastDeploy \notin {0, c},
               sha' = [sha EXCEPT ![d] = c], step' = [step EXCEPT ![d] = "bind"]
        PROVE  RolloutInv'
    <3>1. /\ pc' = [pc EXCEPT ![d] = "intent"]
          /\ skill' = [skill EXCEPT ![d] = "reconcile"]
          /\ UNCHANGED <<head, lastDeploy, remote, need>>
      BY <1>2 DEF StartReconcile, Enter
    <3>2. inflight = {} /\ \A e \in Callers : pc[e] = "idle"
      BY <1>2, <1>a DEF StartReconcile
    <3>3. ReadyInv' /\ AddressInv'
      BY <2>2, <3>1, <3>2
    <3>4. \A b \in live : b <= c
      BY <2>2 DEF Latest
    <3>5. NewestInv'
      BY <2>2, <3>1, <3>2, <3>4
    <3>6. QED
      BY <3>3, <3>5
  <2>3. QED
    BY <1>2, <2>1, <2>2 DEF StartReconcile
<1>3. ASSUME NEW d \in Callers,
             Intent(d) \/ Register(d) \/ Dispatch(d) \/ Diverge(d) \/ Clear(d)
      PROVE  RolloutInv'
  BY <1>3, <1>b DEF Intent, Register, Dispatch, Diverge, Clear, Phases
<1>4. ASSUME NEW d \in Callers, WaitFails(d) \/ VerifyFails(d) \/ CurrentFails(d)
      PROVE  RolloutInv'
  BY <1>4, <1>b DEF WaitFails, VerifyFails, CurrentFails, Calls, Phases
<1>5. ASSUME NEW d \in Callers,
             UpdateMismatch(d) \/ AppendFails(d) \/ ManifestFails(d) \/ Crash(d)
      PROVE  RolloutInv'
  BY <1>5, <1>b DEF UpdateMismatch, AppendFails, ManifestFails, Crash, Calls, Phases
<1>6. ASSUME NEW d \in Callers, Observe(d) PROVE RolloutInv'
  BY <1>6 DEF Observe, After, IsLast, Steps, Mutations
<1>7. ASSUME NEW d \in Callers, Settle(d) PROVE RolloutInv'
  BY <1>7 DEF Settle
<1>8. ASSUME NEW d \in Callers, Finalize(d) PROVE RolloutInv'
  BY <1>8 DEF Finalize
<1>9. ASSUME NEW d \in Callers, Record(d) PROVE RolloutInv'
  BY <1>9 DEF Record
<1>10. ASSUME NEW d \in Callers, Push(d) \/ PushRefused(d) PROVE RolloutInv'
  <2>1. pc' = [pc EXCEPT ![d] = "observe"] /\ step[d] = "push" /\ pc[d] = "call"
    BY <1>10 DEF Push, PushRefused, Calls
  <2>2. /\ pushed' \in {pushed, head}
        /\ UNCHANGED <<head, lastDeploy, built, live, inflight, iframe>>
        /\ UNCHANGED <<skill, sha, step, need>>
    BY <1>10 DEF Push, PushRefused
  <2>3. ReadyInv'
    <3>1. pushed' <= head /\ \A c \in Commits : built[c] # "none" => c <= pushed'
      BY <2>2
    <3>2. QED
      BY <2>1, <2>2, <3>1
  <2>4. AddressInv' /\ NewestInv'
    BY <2>1, <2>2
  <2>5. QED
    BY <2>3, <2>4
<1>11. ASSUME NEW d \in Callers, Wait(d) \/ Verify(d) PROVE RolloutInv'
  <2>1. CASE Wait(d)
    BY <2>1 DEF Wait, Calls
  <2>2. CASE Verify(d)
    <3>1. step[d] = "promote"
      BY <2>2 DEF Verify, RecordInv
    <3>2. QED
      BY <2>2, <3>1 DEF Verify
  <2>3. QED
    BY <1>11, <2>1, <2>2
<1>12. ASSUME NEW d \in Callers, Promote(d) PROVE RolloutInv'
  BY <1>12 DEF Promote, Calls, Accepted, Mutations
<1>13. ASSUME NEW d \in Callers, Update(d) PROVE RolloutInv'
  BY <1>13 DEF Update, Calls
<1>14. ASSUME NEW d \in Callers, Bind(d) PROVE RolloutInv'
  BY <1>14 DEF Bind, Calls
<1>15. ASSUME NEW d \in Callers, CallFails(d) PROVE RolloutInv'
  <2>1. /\ pc' = [pc EXCEPT ![d] = "diverge"] /\ pc[d] = "call"
        /\ pushed' \in {pushed, head} /\ iframe' \in {iframe, TRUE}
        /\ UNCHANGED <<head, lastDeploy, built, live>>
        /\ UNCHANGED <<skill, sha, step, need>>
    BY <1>15 DEF CallFails
  <2>2. ReadyInv'
    <3>1. pushed' <= head /\ \A c \in Commits : built[c] # "none" => c <= pushed'
      BY <2>1
    <3>2. QED
      BY <2>1, <3>1
  <2>3. AddressInv'
    <3>1. iframe => iframe'
      BY <2>1
    <3>2. QED
      BY <2>1, <3>1
  <2>4. inflight' = inflight \/ (step[d] = "promote" /\ inflight' \subseteq inflight \cup {sha[d]})
    BY <1>15 DEF CallFails, Accepted
  <2>5. NewestInv'
    <3>1. CASE UNCHANGED inflight
      BY <2>1, <3>1
    <3>2. CASE step[d] = "promote" /\ inflight' \subseteq inflight \cup {sha[d]}
      <4>1. skill[d] = "deploy"
        BY <2>1, <3>2 DEF Mutations
      <4>2. \A e \in Callers : pc'[e] # "idle" => e = d
        BY <2>1
      <4>3. \A b \in live \cup inflight' : b <= sha[d]
        BY <2>1, <3>2, <4>1
      <4>4. QED
        BY <2>1, <3>2, <4>1, <4>2, <4>3
    <3>3. QED
      BY <2>4, <3>1, <3>2
  <2>6. QED
    BY <2>2, <2>3, <2>5
<1>16. ASSUME Commit PROVE RolloutInv'
  BY <1>16 DEF Commit
<1>17. ASSUME NEW c \in Commits, NEW o \in {"ready", "error"}, Build(c, o) PROVE RolloutInv'
  BY <1>17 DEF Build
<1>18. ASSUME NEW c \in Commits, Land(c) PROVE RolloutInv'
  BY <1>18 DEF Land
<1>19. ASSUME NEW c \in Commits, Rollback(c) PROVE RolloutInv'
  BY <1>19 DEF Rollback
<1>20. ASSUME UNCHANGED vars PROVE RolloutInv'
  BY <1>20 DEF vars
<1>21. QED
  BY <1>1, <1>2, <1>3, <1>4, <1>5, <1>6, <1>7, <1>8, <1>9, <1>10, <1>11, <1>12,
     <1>13, <1>14, <1>15, <1>16, <1>17, <1>18, <1>19, <1>20
  DEF Next, Start, RunnerStep, ToolStep, Failure, World

LEMMA SiteInit == Init => Site!Init
BY DEF Init, Site!Init

\* The steps that Rollout does not see leave the providers and the manifest as
\* they are, and at most lose track of a change.
LEMMA SiteStep ==
  ASSUME Guarded, TypeOK, RecordInv, DoubtInv, PromoteInv, RolloutInv, [Next]_vars
  PROVE  [Site!Next]_(Site!vars)
<1> USE DEF Fault, Goto, local, manifest, remote, history
<1> DEFINE Unseen == /\ UNCHANGED <<pushed, prod, inflight, live, lastDeploy, iframe>>
                     /\ doubt \subseteq doubt'
<1>a. Unseen => [Site!Next]_(Site!vars)
  BY Zenon DEF Site!Next, Site!LoseTrack, Site!vars
<1>t. /\ sha \in [Callers -> 0..MaxCommit] /\ step \in [Callers -> Steps]
      /\ head \in 1..MaxCommit /\ pushed \in 0..MaxCommit /\ prod \in 0..MaxCommit
      /\ live \subseteq 1..MaxCommit /\ inflight \subseteq 1..MaxCommit
      /\ iframe \in BOOLEAN /\ MaxCommit \in Nat /\ Commits = 1..MaxCommit
  BY DeployAssumption DEF TypeOK, Commits
\* What a call is in the middle of is certain, and it has nothing in flight.
<1>b. ASSUME NEW d \in Callers, pc[d] \notin {"idle", "diverge", "verify"}
      PROVE  doubt = {} /\ inflight = {}
  <2>1. doubt = {}
    BY <1>b DEF DoubtInv
  <2>2. \A e \in Callers : pc[e] # "verify"
    BY <1>b DEF DoubtInv, Alone
  <2>3. QED
    BY <2>1, <2>2 DEF PromoteInv
<1>c. ASSUME NEW c \in Commits, doubt = {}, pushed <= c, pushed' = c,
             UNCHANGED <<prod, inflight, live, lastDeploy, iframe>>
      PROVE  Site!Next
  <2>1. Site!Send(c)
    BY <1>c DEF Site!Send
  <2>2. QED
    BY <2>1, Zenon DEF Site!Next
<1>d. ASSUME NEW c \in Commits, doubt = {}, inflight = {}, Accepted(c),
             c <= pushed, \A b \in live : b <= c,
             doubt \subseteq doubt',
             UNCHANGED <<pushed, prod, live, lastDeploy, iframe>>
      PROVE  [Site!Next]_(Site!vars)
  <2>1. CASE prod = c
    BY <1>d, <1>a, <2>1 DEF Accepted
  <2>2. CASE prod # c
    <3>1. Site!Ask(c)
      BY <1>d, <2>2 DEF Accepted, Site!Ask, Site!Newest
    <3>2. QED
      BY <3>1, Zenon DEF Site!Next
  <2>3. QED
    BY <2>1, <2>2
<1>e. ASSUME doubt = {}, iframe' = TRUE,
             UNCHANGED <<pushed, prod, inflight, live, lastDeploy>>
      PROVE  Site!Next
  <2>1. Site!Move
    BY <1>e DEF Site!Move
  <2>2. QED
    BY <2>1 DEF Site!Next
<1>f. ASSUME NEW c \in Commits, doubt = {}, inflight = {}, c \in live,
             \A b \in live : b <= c, iframe \/ lastDeploy # 0, lastDeploy' = c,
             UNCHANGED <<pushed, prod, inflight, live, iframe, doubt>>
      PROVE  Site!Next
  <2>1. Site!Write(c)
    BY <1>f DEF Site!Write, Site!Newest
  <2>2. QED
    BY <2>1, Zenon DEF Site!Next
<1>1. ASSUME NEW d \in Callers, NEW r \in Runs, StartDeploy(d, r) \/ StartReconcile(d, r)
      PROVE  Unseen
  BY <1>1 DEF StartDeploy, StartReconcile, Enter
<1>2. ASSUME NEW d \in Callers,
             Intent(d) \/ Register(d) \/ Dispatch(d) \/ Observe(d) \/ Diverge(d)
                \/ Settle(d) \/ Finalize(d) \/ Clear(d)
      PROVE  Unseen
  BY <1>2 DEF Intent, Register, Dispatch, Observe, Diverge, Settle, Finalize, Clear
<1>3. ASSUME NEW d \in Callers,
             Wait(d) \/ WaitFails(d) \/ Verify(d) \/ VerifyFails(d) \/ CurrentFails(d)
                \/ PushRefused(d) \/ UpdateMismatch(d)
      PROVE  Unseen
  BY <1>3 DEF Wait, WaitFails, Verify, VerifyFails, CurrentFails, PushRefused,
              UpdateMismatch
<1>4. ASSUME NEW d \in Callers, AppendFails(d) \/ ManifestFails(d) \/ Crash(d)
      PROVE  Unseen
  BY <1>4 DEF AppendFails, ManifestFails, Crash
<1>5. ASSUME NEW d \in Callers, Record(d) PROVE Site!Next
  <2>1. doubt = {} /\ inflight = {}
    BY <1>5, <1>b DEF Record
  <2>2. step[d] \in {"promote", "update"} /\ skill[d] = "deploy"
    BY <1>5, <1>t DEF Record, RecordInv, RolloutInv, AddressInv, Steps, Mutations
  <2>3. PICK c \in Commits : c = sha[d]
    BY <1>5, <2>2, HasCommit DEF Record
  <2>4. c \in live /\ iframe
    BY <1>5, <2>2, <2>3 DEF Record, RecordInv, SeenLive, RolloutInv, AddressInv
  <2>5. \A b \in live : b <= c
    BY <1>5, <2>2, <2>3 DEF Record, RolloutInv, NewestInv
  <2>6. QED
    BY <1>5, <2>1, <2>3, <2>4, <2>5, <1>f DEF Record
<1>6. ASSUME NEW d \in Callers, Bind(d) PROVE [Site!Next]_(Site!vars)
  <2>1. CASE step[d] = "bind"
    <3>1. doubt = {} /\ inflight = {}
      BY <1>6, <1>b DEF Bind, Calls
    <3>2. PICK c \in Commits : c = sha[d]
      BY <1>6, <2>1, HasCommit DEF Bind, Calls
    <3>3. c \in live /\ lastDeploy # 0 /\ \A b \in live : b <= c
      BY <1>6, <2>1, <3>2 DEF Bind, Calls, RecordInv, SeenLive, RolloutInv, NewestInv
    <3>4. QED
      BY <1>6, <2>1, <3>1, <3>2, <3>3, <1>f DEF Bind
  <2>2. CASE step[d] # "bind"
    BY <1>6, <2>2, <1>a DEF Bind
  <2>3. QED
    BY <2>1, <2>2
<1>7. ASSUME NEW d \in Callers, Push(d) PROVE Site!Next
  <2>1. PICK c \in Commits : c = head
    BY <1>t
  <2>2. doubt = {} /\ pushed <= c
    BY <1>7, <1>b, <2>1 DEF Push, Calls, RolloutInv, ReadyInv
  <2>3. QED
    BY <1>7, <1>c, <2>1, <2>2 DEF Push
\* The commit of a promotion has been built, hence pushed.
<1>8. ASSUME NEW d \in Callers, pc[d] = "call", step[d] = "promote"
      PROVE  \E c \in Commits : c = sha[d] /\ c <= pushed /\ \A b \in live : b <= c
  <2>1. PICK c \in Commits : c = sha[d]
    BY <1>8, HasCommit
  <2>2. c <= pushed
    BY <1>8, <2>1 DEF RolloutInv, ReadyInv
  <2>3. skill[d] = "deploy"
    BY <1>8 DEF DoubtInv, OnRecord, Mutations
  <2>4. \A b \in live : b <= c
    BY <1>8, <2>1, <2>3 DEF RolloutInv, NewestInv
  <2>5. QED
    BY <2>1, <2>2, <2>4
<1>9. ASSUME NEW d \in Callers, Promote(d) PROVE [Site!Next]_(Site!vars)
  <2>1. PICK c \in Commits : c = sha[d] /\ c <= pushed /\ \A b \in live : b <= c
    BY <1>9, <1>8 DEF Promote, Calls
  <2>2. doubt = {} /\ inflight = {}
    BY <1>9, <1>b DEF Promote, Calls
  <2>3. QED
    BY <1>9, <1>d, <2>1, <2>2 DEF Promote
<1>10. ASSUME NEW d \in Callers, Update(d) PROVE Site!Next
  BY <1>10, <1>b, <1>e DEF Update, Calls
<1>11. ASSUME NEW d \in Callers, CallFails(d) PROVE [Site!Next]_(Site!vars)
  <2>1. doubt = {} /\ inflight = {} /\ pc[d] = "call" /\ doubt \subseteq doubt'
    BY <1>11, <1>b DEF CallFails
  <2>2. CASE step[d] = "push" /\ pushed' = head
    <3>1. PICK c \in Commits : c = head
      BY <1>t
    <3>2. pushed <= c /\ UNCHANGED <<prod, inflight, live, lastDeploy, iframe>>
      BY <1>11, <2>2, <3>1 DEF CallFails, RolloutInv, ReadyInv
    <3>3. QED
      BY <1>c, <2>1, <2>2, <3>1, <3>2
  <2>3. CASE step[d] = "promote" /\ Accepted(sha[d])
    <3>1. PICK c \in Commits : c = sha[d] /\ c <= pushed /\ \A b \in live : b <= c
      BY <1>8, <2>1, <2>3
    <3>2. UNCHANGED <<pushed, prod, live, lastDeploy, iframe>>
      BY <1>11, <2>3 DEF CallFails
    <3>3. QED
      BY <1>d, <2>1, <2>3, <3>1, <3>2
  <2>4. CASE step[d] = "update" /\ iframe' = TRUE
    <3>1. UNCHANGED <<pushed, prod, inflight, live, lastDeploy>>
      BY <1>11, <2>4 DEF CallFails
    <3>2. QED
      BY <1>e, <2>1, <2>4, <3>1
  <2>5. CASE UNCHANGED <<pushed, inflight, iframe>>
    BY <1>11, <1>a, <2>1, <2>5 DEF CallFails
  <2>6. QED
    BY <1>11, <2>2, <2>3, <2>4, <2>5 DEF CallFails
<1>12. ASSUME Commit PROVE Unseen
  BY <1>12 DEF Commit
<1>13. ASSUME NEW c \in Commits, NEW o \in {"ready", "error"}, Build(c, o) PROVE Unseen
  BY <1>13 DEF Build
<1>14. ASSUME NEW c \in Commits, Land(c) PROVE Site!Next
  <2>1. inflight = {c}
    BY <1>14 DEF Land, PromoteInv
  <2>2. Site!Show(c)
    BY <1>14, <2>1 DEF Land, Site!Show
  <2>3. QED
    BY <2>2, Zenon DEF Site!Next
<1>15. ASSUME NEW c \in Commits, Rollback(c) PROVE Site!Next
  <2>1. Site!RollBack(c)
    BY <1>15 DEF Rollback, Site!RollBack
  <2>2. QED
    BY <2>1, Zenon DEF Site!Next
<1>16. ASSUME UNCHANGED vars PROVE Unseen
  BY <1>16 DEF vars
<1>17. QED
  BY <1>1, <1>2, <1>3, <1>4, <1>5, <1>6, <1>7, <1>9, <1>10, <1>11, <1>12, <1>13,
     <1>14, <1>15, <1>16, <1>a
  DEF Next, Start, RunnerStep, ToolStep, Failure, World

\* In turn, and on the run the manifest names, deploys and reconciles implement
\* Rollout: only what has been pushed and is newer than all before it is
\* promoted, only the newest is recorded, and nothing is done in doubt.
THEOREM RolloutIsKept == ASSUME Guarded PROVE Spec => KeepsRollout
<1>1. TypeOK /\ RecordInv /\ [Next]_vars => RecordInv'
  BY RecordStep
<1>2. TypeOK /\ RecordInv /\ DoubtInv /\ [Next]_vars => DoubtInv'
  BY DoubtStep
<1>3. TypeOK /\ RecordInv /\ DoubtInv /\ PromoteInv /\ [Next]_vars => PromoteInv'
  BY PromoteStep
<1>4. TypeOK /\ RecordInv /\ DoubtInv /\ PromoteInv /\ RolloutInv /\ [Next]_vars
        => RolloutInv' /\ [Site!Next]_(Site!vars)
  BY RolloutStep, SiteStep
<1>5. QED
  BY <1>1, <1>2, <1>3, <1>4, RecordInit, DoubtInit, PromoteInit, RolloutInit, SiteInit,
     DeployTypeCorrect, PTL
  DEF Spec, KeepsRollout, Site!Spec
=============================================================================
