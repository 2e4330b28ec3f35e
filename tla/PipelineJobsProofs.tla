------------------------- MODULE PipelineJobsProofs -------------------------
(***************************************************************************)
(* Theorems about PipelineJobs, for every set of jobs and workers, every   *)
(* bound and every choice of hazards unless a theorem says otherwise.      *)
(***************************************************************************)
EXTENDS PipelineJobs, TLAPS

\* A retry delay is a number of ticks within the cap (backoffSeconds of
\* retryOrFailPipelineJob).
LEMMA BackoffRange ==
    ASSUME NEW j \in Jobs, NEW a \in 1..MaxAttempts[j]
    PROVE  Backoff(a) \in 1..MaxBackoff
<1>1. 2^(a - 1) \in Nat \ {0}
  BY PowerAssumption
<1>2. MaxBackoff \in Nat \ {0}
  BY BoundsAssumption
<1> DEFINE d == 2^(a - 1)
<1> HIDE DEF d
<1>3. (IF d < MaxBackoff THEN d ELSE MaxBackoff) \in 1..MaxBackoff
  BY <1>1, <1>2 DEF d
<1>4. QED
  BY <1>3 DEF Backoff, d

-----------------------------------------------------------------------------
(* The inductive invariant.  The attempts column is what fences the queue: *)
(* a worker's copy of it never passes it, two workers that execute the     *)
(* same job hold different copies, and only a spent column allows a        *)
(* failure.  Held adds what the worker's program counter says of its       *)
(* local variables.                                                        *)

Held ==
    \A w \in Workers : pc[w] \in Holding =>
        mine[w] \in Jobs /\ copy[w] \in 1..attempts[mine[w]]

WithinBudget == \A j \in Jobs : attempts[j] <= MaxAttempts[j]

QueueInv ==
    /\ TypeOK
    /\ Held
    /\ WithinBudget
    /\ UniqueAttempt
    /\ FailedOnlyWhenExhausted
    /\ RunningIsLeased

LEMMA QueueInvInit == Init => QueueInv
BY JobsAssumption, BoundsAssumption
   DEF Init, QueueInv, TypeOK, Held, WithinBudget, UniqueAttempt,
       FailedOnlyWhenExhausted, RunningIsLeased, JobStatus, RunStatus, NoLease,
       LeaseRange, DelayRange, Steps, Rest, Holding, Working, Executing

LEMMA QueueInvStep == QueueInv /\ [Next]_vars => QueueInv'
<1> USE JobsAssumption, BoundsAssumption DEF rows, procs, QueueInv, TypeOK, Held, WithinBudget, UniqueAttempt,
       FailedOnlyWhenExhausted, RunningIsLeased, JobStatus, RunStatus, NoLease,
       LeaseRange, DelayRange, Steps, Rest, Holding, Working, Executing, Goto, LetGo, Unlock, ClaimRow, ExtendLease
<1> SUFFICES ASSUME QueueInv, [Next]_vars PROVE QueueInv'
  OBVIOUS
<1>1. ASSUME NEW j \in Jobs, EnqueueRun(j) PROVE QueueInv'
  BY <1>1 DEF EnqueueRun
<1>2. ASSUME NEW j \in Jobs, EnqueueJob(j) PROVE QueueInv'
  BY <1>2 DEF EnqueueJob
<1>3. ASSUME NEW j \in Jobs, MonitorHeal(j) PROVE QueueInv'
  BY <1>3 DEF MonitorHeal
<1>4. ASSUME NEW w \in Workers, ResetStale(w) PROVE QueueInv'
  BY <1>4 DEF ResetStale, Expired
<1>5. ASSUME NEW w \in Workers, NothingToClaim(w) PROVE QueueInv'
  BY <1>5 DEF NothingToClaim, Claimable
<1>6. ASSUME NEW w \in Workers, MarkRun(w) PROVE QueueInv'
  BY <1>6 DEF MarkRun
<1>7. ASSUME NEW w \in Workers, Begin(w) PROVE QueueInv'
  BY <1>7 DEF Begin
<1>8. ASSUME NEW w \in Workers, SendBeat(w) PROVE QueueInv'
  BY <1>8 DEF SendBeat
<1>9. ASSUME NEW w \in Workers, HandlerOk(w) PROVE QueueInv'
  BY <1>9 DEF HandlerOk
<1>10. ASSUME NEW w \in Workers, HandlerFail(w) PROVE QueueInv'
  BY <1>10 DEF HandlerFail
<1>11. ASSUME NEW w \in Workers, LaptopReport(w) PROVE QueueInv'
  BY <1>11 DEF LaptopReport
<1>12. ASSUME NEW w \in Workers, CompleteJob(w) PROVE QueueInv'
  BY <1>12 DEF CompleteJob, SucceedRow
<1>13. ASSUME NEW w \in Workers, CompleteRun(w) PROVE QueueInv'
  BY <1>13 DEF CompleteRun
<1>14. ASSUME NEW w \in Workers, CompleteEvent(w) PROVE QueueInv'
  BY <1>14 DEF CompleteEvent
<1>15. ASSUME NEW w \in Workers, RetryJob(w) PROVE QueueInv'
  BY <1>15, BackoffRange DEF RetryJob, ReopenRow, MayRetry
<1>a. ASSUME NEW w \in Workers, pc[w] \in {"retry", "retry_again"},
             ~MayRetry(mine[w], copy[w])
      PROVE  mine[w] \in Jobs /\ attempts[mine[w]] = MaxAttempts[mine[w]]
  <2>1. mine[w] \in Jobs /\ copy[w] \in 1..attempts[mine[w]]
    BY <1>a
  <2>2. ~(copy[w] < MaxAttempts[mine[w]])
    BY <1>a DEF MayRetry
  <2>3. QED
    BY <2>1, <2>2
<1>16. ASSUME NEW w \in Workers, FailJob(w) PROVE QueueInv'
  BY <1>16, <1>a DEF FailJob, FailRow
<1>28. ASSUME NEW w \in Workers, CloseLost(w) PROVE QueueInv'
  <2>1. ASSUME pc[w] \in {"complete", "complete_again"}, SucceedRow(mine[w]),
               Goto(w, "complete_again")
        PROVE  QueueInv'
    BY <1>28, <2>1 DEF CloseLost, SucceedRow
  <2>2. ASSUME pc[w] \in {"retry", "retry_again"}, ReopenRow(mine[w], copy[w]),
               Goto(w, "retry_again")
        PROVE  QueueInv'
    BY <1>28, <2>2, BackoffRange DEF CloseLost, ReopenRow, MayRetry
  <2>3. ASSUME pc[w] \in {"retry", "retry_again"}, FailRow(mine[w], copy[w]),
               Goto(w, "retry_again")
        PROVE  QueueInv'
    BY <1>28, <2>3, <1>a DEF CloseLost, FailRow
  <2>4. QED
    BY <1>28, <2>1, <2>2, <2>3 DEF CloseLost
<1>17. ASSUME NEW w \in Workers, FailRun(w) PROVE QueueInv'
  BY <1>17 DEF FailRun
<1>18. ASSUME NEW w \in Workers, StepError(w) PROVE QueueInv'
  BY <1>18 DEF StepError
<1>19. ASSUME NEW w \in Workers, Crash(w) PROVE QueueInv'
  BY <1>19 DEF Crash
<1>20. ASSUME NEW w \in Workers, Restart(w) PROVE QueueInv'
  BY <1>20 DEF Restart
<1>21. ASSUME NEW w \in Workers, NEW j \in Jobs, Claim(w, j) PROVE QueueInv'
  BY <1>21 DEF Claim, NextInLine, Claimable
<1>22. ASSUME NEW w \in Workers, NEW j \in Jobs, ClaimLost(w, j) PROVE QueueInv'
  BY <1>22 DEF ClaimLost, NextInLine, Claimable
<1>23. ASSUME NEW w \in Workers, NEW j \in Jobs, LandBeat(w, j) PROVE QueueInv'
  BY <1>23 DEF LandBeat
<1>24. ASSUME MonitorScan PROVE QueueInv'
  BY <1>24 DEF MonitorScan, StuckRunning, FailedRetryable, Expired
<1>25. ASSUME Tick PROVE QueueInv'
  BY <1>25 DEF Tick
<1>26. CASE UNCHANGED vars
  BY <1>26 DEF vars
<1>27. QED
  BY <1>1, <1>2, <1>3, <1>4, <1>5, <1>6, <1>7, <1>8, <1>9, <1>10, <1>11,
     <1>12, <1>13, <1>14, <1>15, <1>16, <1>17, <1>18, <1>19, <1>20, <1>21,
     <1>22, <1>23, <1>24, <1>25, <1>26, <1>28
  DEF Next, Enqueue, WorkerStep, Beat, Fault, Monitor

THEOREM QueueInvHolds == Spec => []QueueInv
BY QueueInvInit, QueueInvStep, PTL DEF Spec

\* Every variable keeps its type, whatever the environment does.
THEOREM TypeCorrect == Spec => []TypeOK
BY QueueInvHolds, PTL DEF QueueInv

\* No two workers ever execute the same attempt of a job, although complete,
\* retry, heartbeat and heal update WHERE id = $1.
THEOREM AttemptsAreUnique == Spec => []UniqueAttempt
BY QueueInvHolds, PTL DEF QueueInv

\* A job is claimed at most max_attempts times, over all crashes, resets,
\* lost replies and stale retries.
THEOREM AttemptsStayBounded == Spec => []AttemptsBounded
<1>1. QueueInv => AttemptsBounded
  BY DEF QueueInv, TypeOK, Held, WithinBudget, AttemptsBounded, Holding
<1>2. QED
  BY <1>1, QueueInvHolds, PTL

\* A failed job has spent its attempts, also when a worker that lost its
\* lease decides.
THEOREM FailureMeansExhausted == Spec => []FailedOnlyWhenExhausted
BY QueueInvHolds, PTL DEF QueueInv

\* A running row can always be found by a stale reset.
THEOREM RunningMeansLeased == Spec => []RunningIsLeased
BY QueueInvHolds, PTL DEF QueueInv

-----------------------------------------------------------------------------
(* The disciplined queue: live Hermes workers in time, no statement fails, *)
(* no monitor.  Then the lease is a lock: the Hermes worker that works on  *)
(* a row owns it.  The laptop's lease may run out, and its row be pending  *)
(* under its work; what keeps the others off is that the claim has spent   *)
(* the job's one attempt.                                                  *)

TypesApart == \A w \in Workers : pc[w] \in Holding => mine[w] \in Handles(w)

OwnsItsRow ==
    \A w \in Workers : pc[w] \in Working =>
        /\ copy[w] = attempts[mine[w]]
        /\ status[mine[w]] \in {"running", "pending"}
        /\ w \notin Laptops =>
              /\ status[mine[w]] = "running"
              /\ locked_by[mine[w]] = w
              /\ lease[mine[w]] \in 0..LeaseTicks

OneLaptop ==
    \A v, w \in Laptops :
        v # w /\ pc[v] \in Holding /\ pc[w] \in Holding => mine[v] # mine[w]

\* A worker past its first closing statement has closed the row itself, and a
\* row it gave back is not yet due when it repeats that statement.
ClosesInOrder ==
    \A w \in Workers :
        /\ pc[w] \in {"complete_run", "complete_again"} =>
              status[mine[w]] = "succeeded"
        /\ pc[w] = "fail_run" => status[mine[w]] = "failed"
        /\ pc[w] = "retry_again" =>
              IF MayRetry(mine[w], copy[w])
                THEN status[mine[w]] = "pending" /\ run_after[mine[w]] > 0
                ELSE status[mine[w]] = "failed"

LeaseIsLock ==
    /\ healing = {}
    /\ TypesApart
    /\ OneLaptop
    /\ OwnsItsRow
    /\ ClosesInOrder
    /\ RunFollowsJob

Discipline == QueueInv /\ LeaseIsLock

Disciplined == Hazards \cap {"slow", "error", "monitor"} = {}

LEMMA DisciplineInit == Init => Discipline
BY QueueInvInit, JobsAssumption DEF Init, Discipline, LeaseIsLock, TypesApart, OneLaptop, OwnsItsRow, Holding, ClosesInOrder, RunFollowsJob, Rest, Working

LEMMA DisciplineStep ==
    ASSUME Disciplined
    PROVE  Discipline /\ [Next]_vars => Discipline'
<1> SUFFICES ASSUME Discipline, [Next]_vars PROVE Discipline'
  OBVIOUS
<1>a. QueueInv /\ QueueInv'
  BY QueueInvStep DEF Discipline
<1>b. TypeOK /\ Held /\ WithinBudget /\ LeaseIsLock
  BY <1>a DEF QueueInv, Discipline
<1>h. \A j \in Jobs : run_after[j] \in Int
  BY <1>b, BoundsAssumption DEF TypeOK, DelayRange
<1> USE JobsAssumption, BoundsAssumption DEF rows, procs, LeaseIsLock, TypesApart, OneLaptop, OwnsItsRow, ClosesInOrder, RunFollowsJob, Handles,
       TypeOK, Held, JobStatus, RunStatus, NoLease, LeaseRange, Steps, Rest,
       Holding, Working, Goto, LetGo, Unlock, ClaimRow, ExtendLease
<1>1. ASSUME NEW j \in Jobs, EnqueueRun(j) PROVE LeaseIsLock'
  BY <1>1, <1>b DEF EnqueueRun
<1>2. ASSUME NEW j \in Jobs, EnqueueJob(j) PROVE LeaseIsLock'
  BY <1>2, <1>b DEF EnqueueJob
<1>3. ASSUME NEW w \in Workers, ResetStale(w) PROVE LeaseIsLock'
  BY <1>3, <1>b DEF ResetStale, Expired
<1>4. ASSUME NEW w \in Workers, NothingToClaim(w) PROVE LeaseIsLock'
  BY <1>4, <1>b DEF NothingToClaim, Claimable
<1>5. ASSUME NEW w \in Workers, MarkRun(w) PROVE LeaseIsLock'
  BY <1>5, <1>b DEF MarkRun
<1>6. ASSUME NEW w \in Workers, Begin(w) PROVE LeaseIsLock'
  BY <1>6, <1>b DEF Begin
<1>7. ASSUME NEW w \in Workers, SendBeat(w) PROVE LeaseIsLock'
  BY <1>7, <1>b DEF SendBeat
<1>8. ASSUME NEW w \in Workers, HandlerOk(w) PROVE LeaseIsLock'
  BY <1>8, <1>b DEF HandlerOk
<1>9. ASSUME NEW w \in Workers, HandlerFail(w) PROVE LeaseIsLock'
  BY <1>9, <1>b DEF HandlerFail
<1>10. ASSUME NEW w \in Workers, LaptopReport(w) PROVE LeaseIsLock'
  BY <1>10, <1>b DEF LaptopReport
<1>11. ASSUME NEW w \in Workers, CompleteJob(w) PROVE LeaseIsLock'
  BY <1>11, <1>b DEF CompleteJob, SucceedRow
<1>12. ASSUME NEW w \in Workers, CompleteRun(w) PROVE LeaseIsLock'
  BY <1>12, <1>b DEF CompleteRun
<1>13. ASSUME NEW w \in Workers, CompleteEvent(w) PROVE LeaseIsLock'
  BY <1>13, <1>b DEF CompleteEvent
<1>14. ASSUME NEW w \in Workers, RetryJob(w) PROVE LeaseIsLock'
  <2>1. ASSUME MayRetry(mine[w], copy[w]), pc[w] \in Holding
        PROVE  Backoff(copy[w]) > 0
    BY <1>b, <2>1, BackoffRange DEF WithinBudget
  <2>2. CASE pc[w] = "retry"
    BY <1>14, <1>b, <2>1, <2>2 DEF RetryJob, ReopenRow
  <2>3. CASE pc[w] = "retry_again"
    <3>1. /\ status[mine[w]] = "pending"
          /\ \A v \in Workers : mine[v] = mine[w] => pc[v] \notin Working
      BY <1>14, <1>b, <2>3 DEF RetryJob, ReopenRow
    <3>2. QED
      BY <1>14, <1>b, <2>1, <2>3, <3>1 DEF RetryJob, ReopenRow
  <2>4. QED
    BY <1>14, <2>2, <2>3 DEF RetryJob
<1>15. ASSUME NEW w \in Workers, FailJob(w) PROVE LeaseIsLock'
  <2>1. CASE pc[w] = "retry"
    BY <1>15, <1>b, <2>1 DEF FailJob, FailRow
  <2>2. CASE pc[w] = "retry_again"
    <3>1. /\ status[mine[w]] = "failed"
          /\ \A v \in Workers : mine[v] = mine[w] => pc[v] \notin Working
      BY <1>15, <1>b, <2>2 DEF FailJob, FailRow
    <3>2. QED
      BY <1>15, <1>b, <2>2, <3>1 DEF FailJob, FailRow
  <2>3. QED
    BY <1>15, <2>1, <2>2 DEF FailJob
<1>16. ASSUME NEW w \in Workers, FailRun(w) PROVE LeaseIsLock'
  BY <1>16, <1>b DEF FailRun
<1>17. ASSUME NEW w \in Workers, Crash(w) PROVE LeaseIsLock'
  BY <1>17, <1>b DEF Crash
<1>18. ASSUME NEW w \in Workers, Restart(w) PROVE LeaseIsLock'
  BY <1>18, <1>b DEF Restart
\* Nobody holds a row that can be claimed: a Hermes worker would find it
\* running, closed or not due yet, a laptop would have spent its attempt.
<1>f. ASSUME NEW w \in Workers, NEW j \in Jobs, Claimable(w, j)
      PROVE  /\ status[j] = "pending"
             /\ \A v \in Laptops : pc[v] \in Holding => mine[v] # j
             /\ \A v \in Workers : pc[v] \in Holding \ {"complete_event"} => mine[v] # j
  <2>1. status[j] = "pending" /\ run_after[j] <= 0 /\ attempts[j] < MaxAttempts[j]
    BY <1>f DEF Claimable
  <2>2. ASSUME NEW v \in Laptops, pc[v] \in Holding, mine[v] = j PROVE FALSE
    <3>1. MaxAttempts[j] = 1
      BY <2>2, <1>b, LaptopAssumption
    <3>2. attempts[j] \in Nat /\ copy[v] \in 1..attempts[j]
      BY <2>2, <1>b
    <3>3. QED
      BY <2>1, <3>1, <3>2
  <2>3. ASSUME NEW v \in Workers \ Laptops, pc[v] \in Holding \ {"complete_event"},
               mine[v] = j
        PROVE  FALSE
    BY <2>1, <2>3, <1>b, <1>h
  <2>4. QED
    BY <2>1, <2>2, <2>3
<1>19. ASSUME NEW w \in Workers, NEW j \in Jobs, Claim(w, j) PROVE LeaseIsLock'
  <2>1. Claimable(w, j)
    BY <1>19 DEF Claim, NextInLine
  <2>2. j \in Handles(w)
    BY <2>1 DEF Claimable
  <2>3. QED
    BY <1>19, <1>b, <2>1, <2>2, <1>f DEF Claim
<1>20. ASSUME NEW w \in Workers, NEW j \in Jobs, ClaimLost(w, j) PROVE LeaseIsLock'
  <2>1. Claimable(w, j)
    BY <1>20 DEF ClaimLost, NextInLine
  <2>2. QED
    BY <1>20, <1>b, <2>1, <1>f DEF ClaimLost
<1>21. ASSUME NEW w \in Workers, NEW j \in Jobs, LandBeat(w, j) PROVE LeaseIsLock'
  BY <1>21, <1>b DEF LandBeat
<1>22. ASSUME NEW j \in Jobs, MonitorHeal(j) PROVE LeaseIsLock'
  BY <1>22, <1>b DEF MonitorHeal
<1>23. ASSUME NEW w \in Workers, StepError(w) PROVE LeaseIsLock'
  BY <1>23 DEF StepError, Disciplined
<1>24. ASSUME MonitorScan PROVE LeaseIsLock'
  BY <1>24 DEF MonitorScan, Disciplined
<1>25. ASSUME Tick PROVE LeaseIsLock'
  BY <1>25, <1>b DEF Tick, InTime, Disciplined
<1>28. ASSUME NEW w \in Workers, CloseLost(w) PROVE LeaseIsLock'
  <2>1. ASSUME pc[w] \in {"complete", "complete_again"}, SucceedRow(mine[w]),
               Goto(w, "complete_again")
        PROVE  LeaseIsLock'
    BY <1>28, <1>b, <2>1 DEF CloseLost, SucceedRow
  <2>2. ASSUME pc[w] \in {"retry", "retry_again"}, ReopenRow(mine[w], copy[w]),
               Goto(w, "retry_again")
        PROVE  LeaseIsLock'
    <3>1. Backoff(copy[w]) > 0
      BY <1>b, <2>2, BackoffRange DEF WithinBudget
    <3>2. QED
      BY <1>28, <1>b, <2>2, <3>1 DEF CloseLost, ReopenRow, MayRetry
  <2>3. ASSUME pc[w] \in {"retry", "retry_again"}, FailRow(mine[w], copy[w]),
               Goto(w, "retry_again")
        PROVE  LeaseIsLock'
    BY <1>28, <1>b, <2>3 DEF CloseLost, FailRow, MayRetry
  <2>4. QED
    BY <1>28, <2>1, <2>2, <2>3 DEF CloseLost
<1>26. ASSUME UNCHANGED vars PROVE LeaseIsLock'
  BY <1>26, <1>b DEF vars
<1>27. QED
  BY <1>a, <1>1, <1>2, <1>3, <1>4, <1>5, <1>6, <1>7, <1>8, <1>9, <1>10,
     <1>11, <1>12, <1>13, <1>14, <1>15, <1>16, <1>17, <1>18, <1>19, <1>20,
     <1>21, <1>22, <1>23, <1>24, <1>25, <1>26, <1>28
  DEF Next, Discipline, Enqueue, WorkerStep, Beat, Fault, Monitor

\* With live Hermes workers in time and statements that do not fail, a run is closed
\* only as its job is, and stays closed.
THEOREM RunsFollowJobs ==
    ASSUME Disciplined
    PROVE  Spec => []RunFollowsJob
<1>1. Discipline => RunFollowsJob
  BY DEF Discipline, LeaseIsLock
<1>2. QED
  BY <1>1, DisciplineInit, DisciplineStep, PTL DEF Spec

-----------------------------------------------------------------------------
(* The disciplined queue implements JobLedger.  A worker enters the team   *)
(* of a job by claiming it and leaves it by closing the row or by dying.   *)

TeamOf == [j \in Jobs |-> Team(j)]

LEMMA TeamStays ==
    ASSUME \A w \in Workers : /\ pc'[w] \in Working <=> pc[w] \in Working
                              /\ pc[w] \in Working => mine'[w] = mine[w]
    PROVE  TeamOf' = TeamOf
BY DEF TeamOf, Team

\* Two Hermes workers on one row would both be its owner, and the types keep
\* Hermes and the laptops apart.
LEMMA TeamIsOne ==
    ASSUME Discipline, NEW w \in Workers, pc[w] \in Working
    PROVE  Team(mine[w]) = {w}
BY JobsAssumption
   DEF Discipline, LeaseIsLock, OwnsItsRow, TypesApart, OneLaptop, Holding, Handles, Team

\* On a row that is not running only a laptop may be at work, and then the
\* job's one attempt is spent.
LEMMA TeamEmpty ==
    ASSUME Discipline, NEW j \in Jobs, status[j] # "running",
           attempts[j] < MaxAttempts[j]
    PROVE  Team(j) = {}
<1> SUFFICES ASSUME NEW w \in Workers, pc[w] \in Working, mine[w] = j
             PROVE  FALSE
  BY DEF Team
<1>1. w \in Laptops /\ j \in LaptopJobs
  BY DEF Discipline, LeaseIsLock, OwnsItsRow, TypesApart, Holding, Handles
<1>2. attempts[j] \in Nat /\ copy[w] \in 1..attempts[j] /\ MaxAttempts[j] = 1
  BY <1>1, LaptopAssumption DEF Discipline, QueueInv, TypeOK, Held, Holding
<1>3. QED
  BY <1>2

LEMMA TeamLeft ==
    ASSUME Discipline, NEW w \in Workers, pc[w] \in Working, mine[w] \in Jobs,
           pc'[w] \notin Working,
           \A v \in Workers \ {w} : pc'[v] = pc[v] /\ mine'[v] = mine[v]
    PROVE  TeamOf' = [TeamOf EXCEPT ![mine[w]] = {}]
<1>1. Team(mine[w]) = {w}
  BY TeamIsOne
<1>2. ASSUME NEW j \in Jobs
      PROVE  Team(j)' = IF j = mine[w] THEN {} ELSE Team(j)
  BY <1>1 DEF Team
<1>3. QED
  BY <1>2 DEF TeamOf

LEMMA TeamJoined ==
    ASSUME Discipline, NEW w \in Workers, NEW j \in Jobs,
           pc[w] \notin Working, Team(j) = {},
           pc'[w] \in Working, mine'[w] = j,
           \A v \in Workers \ {w} : pc'[v] = pc[v] /\ mine'[v] = mine[v]
    PROVE  TeamOf' = [TeamOf EXCEPT ![j] = {w}]
<1>2. ASSUME NEW i \in Jobs
      PROVE  Team(i)' = IF i = j THEN {w} ELSE Team(i)
  BY DEF Team
<1>3. QED
  BY <1>2 DEF TeamOf

LEMMA LedgerInit == Init => Ledger!Init
BY DEF Init, Ledger!Init, Team, Rest, Working

LEMMA LedgerStep ==
    ASSUME Disciplined, Discipline, [Next]_vars
    PROVE  [Ledger!Next]_(Ledger!vars)
<1> DEFINE Quiet == status' = status /\ attempts' = attempts /\ TeamOf' = TeamOf
<1>a. /\ TypeOK /\ Held /\ WithinBudget
      /\ TypesApart /\ OwnsItsRow /\ ClosesInOrder /\ healing = {}
  BY DEF Discipline, LeaseIsLock, QueueInv
<1>b. Quiet => [Ledger!Next]_(Ledger!vars)
  BY DEF TeamOf, Ledger!vars
<1>c. \A j \in Jobs : TeamOf[j] = Team(j)
  BY DEF TeamOf
<1> USE DEF rows, procs, TypeOK, Working, Steps, Goto
<1>1. ASSUME NEW j \in Jobs, EnqueueRun(j) PROVE Quiet
  BY <1>1, <1>a, TeamStays DEF EnqueueRun
<1>2. ASSUME NEW w \in Workers, NothingToClaim(w) PROVE Quiet
  BY <1>2, <1>a, TeamStays DEF NothingToClaim
<1>3. ASSUME NEW w \in Workers, MarkRun(w) PROVE Quiet
  BY <1>3, <1>a, TeamStays DEF MarkRun
<1>4. ASSUME NEW w \in Workers, Begin(w) PROVE Quiet
  BY <1>4, <1>a, TeamStays DEF Begin
<1>5. ASSUME NEW w \in Workers, SendBeat(w) PROVE Quiet
  BY <1>5, <1>a, TeamStays DEF SendBeat
<1>6. ASSUME NEW w \in Workers, HandlerOk(w) PROVE Quiet
  BY <1>6, <1>a, TeamStays DEF HandlerOk
<1>7. ASSUME NEW w \in Workers, HandlerFail(w) PROVE Quiet
  BY <1>7, <1>a, TeamStays DEF HandlerFail
<1>8. ASSUME NEW w \in Workers, LaptopReport(w) PROVE Quiet
  BY <1>8, <1>a, TeamStays DEF LaptopReport
<1>9. ASSUME NEW w \in Workers, CompleteRun(w) PROVE Quiet
  BY <1>9, <1>a, TeamStays DEF CompleteRun
<1>10. ASSUME NEW w \in Workers, CompleteEvent(w) PROVE Quiet
  BY <1>10, <1>a, TeamStays DEF CompleteEvent, Rest, LetGo
<1>11. ASSUME NEW w \in Workers, FailRun(w) PROVE Quiet
  BY <1>11, <1>a, TeamStays DEF FailRun, Rest, LetGo
<1>12. ASSUME NEW w \in Workers, Restart(w) PROVE Quiet
  BY <1>12, <1>a, TeamStays DEF Restart, Rest
<1>13. ASSUME NEW w \in Workers, NEW j \in Jobs, LandBeat(w, j) PROVE Quiet
  BY <1>13, <1>a, TeamStays DEF LandBeat
<1>14. ASSUME Tick PROVE Quiet
  BY <1>14, <1>a, TeamStays DEF Tick
<1>15. ASSUME UNCHANGED vars PROVE Quiet
  BY <1>15, <1>a, TeamStays DEF vars
<1>16. ASSUME NEW j \in Jobs, EnqueueJob(j) PROVE Ledger!Submit(j)
  <2>1. TeamOf' = TeamOf
    BY <1>16, <1>a, TeamStays DEF EnqueueJob
  <2>2. QED
    BY <1>16, <1>a, <2>1 DEF EnqueueJob, TeamOf, Ledger!Submit
<1>17. ASSUME NEW w \in Workers, ResetStale(w)
      PROVE  Ledger!Reclaim({j \in Jobs : Expired(j)})
  <2>1. TeamOf' = TeamOf
    BY <1>17, <1>a, TeamStays DEF ResetStale
  <2>2. \A j \in Jobs : Expired(j) => 
        status[j] = "running" /\ (Team(j) = {} \/ j \in LaptopJobs)
    BY <1>a DEF Expired, Team, OwnsItsRow, TypesApart, Holding, Handles
  <2>3. QED
    BY <1>17, <1>a, <2>1, <2>2, <1>c DEF ResetStale, TeamOf, Ledger!Reclaim
<1>18. ASSUME NEW w \in Workers, NEW j \in Jobs, Claim(w, j) PROVE Ledger!Take(j)
  <2>1. status[j] = "pending" /\ attempts[j] < MaxAttempts[j]
    BY <1>18 DEF Claim, NextInLine, Claimable
  <2>2. Team(j) = {}
    BY <2>1, TeamEmpty
  <2>3. TeamOf' = [TeamOf EXCEPT ![j] = {w}]
    BY <1>18, <1>a, <2>2, TeamJoined DEF Claim
  <2>4. QED
    BY <1>18, <1>a, <2>1, <2>2, <2>3, <1>c DEF Claim, ClaimRow, TeamOf, Ledger!Take
<1>19. ASSUME NEW w \in Workers, NEW j \in Jobs, ClaimLost(w, j) PROVE Ledger!Take(j)
  <2>1. status[j] = "pending" /\ attempts[j] < MaxAttempts[j]
    BY <1>19 DEF ClaimLost, NextInLine, Claimable
  <2>2. Team(j) = {}
    BY <2>1, TeamEmpty
  <2>3. TeamOf' = TeamOf
    BY <1>19, <1>a, TeamStays DEF ClaimLost
  <2>4. TeamOf' = [TeamOf EXCEPT ![j] = {}]
    BY <2>2, <2>3, <1>c DEF TeamOf
  <2>5. QED
    BY <1>19, <1>a, <2>1, <2>2, <2>4, <1>c DEF ClaimLost, ClaimRow, TeamOf, Ledger!Take
<1>i. ASSUME NEW w \in Workers, pc[w] \in Working
      PROVE  mine[w] \in Jobs /\ Ledger!InHand(mine[w])
  <2>1. mine[w] \in Jobs /\ mine[w] \in Handles(w)
    BY <1>i, <1>a DEF Held, TypesApart, Holding
  <2>2. Team(mine[w]) # {}
    BY <1>i, TeamIsOne
  <2>3. \/ status[mine[w]] = "running"
        \/ status[mine[w]] = "pending" /\ mine[w] \in LaptopJobs
    BY <1>i, <1>a, <2>1 DEF OwnsItsRow, Handles
  <2>4. QED
    BY <2>1, <2>2, <2>3 DEF Ledger!InHand
<1>s. ASSUME NEW w \in Workers, pc[w] \in Working, pc'[w] \notin Working,
             NEW outcome \in {"pending", "succeeded", "failed"},
             status' = [status EXCEPT ![mine[w]] = outcome],
             attempts' = attempts,
             outcome = "pending" => MayRetry(mine[w], copy[w]),
             outcome = "failed" => ~MayRetry(mine[w], copy[w]),
             \A v \in Workers \ {w} : pc'[v] = pc[v] /\ mine'[v] = mine[v]
      PROVE  mine[w] \in Jobs /\ Ledger!Settle(mine[w], outcome)
  <2>1. mine[w] \in Jobs
    BY <1>s, <1>a DEF Held, Holding
  <2>2. /\ copy[w] = attempts[mine[w]]
        /\ attempts[mine[w]] <= MaxAttempts[mine[w]]
    BY <2>1, <1>s, <1>a DEF OwnsItsRow, WithinBudget
  <2>3. Ledger!InHand(mine[w])
    BY <1>s, <1>i
  <2>4. TeamOf' = [TeamOf EXCEPT ![mine[w]] = {}]
    BY <1>s, <2>1, TeamLeft
  <2>5. QED
    BY <1>s, <1>a, <2>1, <2>2, <2>3, <2>4, <1>c, BoundsAssumption
    DEF TeamOf, Ledger!Settle, MayRetry
\* A repeated closing statement finds the row as the first one left it.
<1>r. ASSUME NEW w \in Workers, pc[w] \in {"complete_again", "retry_again"},
             pc'[w] \notin Working,
             NEW outcome \in {"pending", "succeeded", "failed"},
             status' = [status EXCEPT ![mine[w]] = outcome],
             attempts' = attempts,
             outcome = "succeeded" <=> pc[w] = "complete_again",
             outcome = "pending" => MayRetry(mine[w], copy[w]),
             outcome = "failed" => ~MayRetry(mine[w], copy[w]),
             \A v \in Workers \ {w} : pc'[v] = pc[v] /\ mine'[v] = mine[v]
      PROVE  Quiet
  <2>1. status[mine[w]] = outcome
    BY <1>r, <1>a DEF ClosesInOrder
  <2>2. TeamOf' = TeamOf
    BY <1>r, TeamStays
  <2>3. QED
    BY <1>r, <1>a, <2>1, <2>2
<1>20. ASSUME NEW w \in Workers, CompleteJob(w)
      PROVE  Quiet \/ (mine[w] \in Jobs /\ Ledger!Settle(mine[w], "succeeded"))
  BY <1>20, <1>a, <1>s, <1>r DEF CompleteJob, SucceedRow
<1>21. ASSUME NEW w \in Workers, RetryJob(w)
      PROVE  Quiet \/ (mine[w] \in Jobs /\ Ledger!Settle(mine[w], "pending"))
  BY <1>21, <1>a, <1>s, <1>r DEF RetryJob, ReopenRow, LetGo, Rest
<1>22. ASSUME NEW w \in Workers, FailJob(w)
      PROVE  Quiet \/ (mine[w] \in Jobs /\ Ledger!Settle(mine[w], "failed"))
  BY <1>22, <1>a, <1>s, <1>r DEF FailJob, FailRow
<1>26. ASSUME NEW w \in Workers, CloseLost(w)
      PROVE  Quiet \/ \E outcome \in {"pending", "succeeded", "failed"} :
                        mine[w] \in Jobs /\ Ledger!Settle(mine[w], outcome)
  <2>1. ASSUME pc[w] \in {"complete", "complete_again"}, SucceedRow(mine[w]),
               Goto(w, "complete_again")
        PROVE  Quiet \/ (mine[w] \in Jobs /\ Ledger!Settle(mine[w], "succeeded"))
    BY <1>26, <2>1, <1>a, <1>s, <1>r DEF CloseLost, SucceedRow
  <2>2. ASSUME pc[w] \in {"retry", "retry_again"}, ReopenRow(mine[w], copy[w]),
               Goto(w, "retry_again")
        PROVE  Quiet \/ (mine[w] \in Jobs /\ Ledger!Settle(mine[w], "pending"))
    BY <1>26, <2>2, <1>a, <1>s, <1>r DEF CloseLost, ReopenRow
  <2>3. ASSUME pc[w] \in {"retry", "retry_again"}, FailRow(mine[w], copy[w]),
               Goto(w, "retry_again")
        PROVE  Quiet \/ (mine[w] \in Jobs /\ Ledger!Settle(mine[w], "failed"))
    BY <1>26, <2>3, <1>a, <1>s, <1>r DEF CloseLost, FailRow
  <2>4. QED
    BY <1>26, <2>1, <2>2, <2>3 DEF CloseLost
<1>23. ASSUME NEW w \in Workers, Crash(w)
      PROVE  Quiet \/ (mine[w] \in Jobs /\ Ledger!Vanish(mine[w]))
  <2>1. CASE pc[w] \notin Working
    BY <1>23, <1>a, <2>1, TeamStays DEF Crash, LetGo
  <2>2. CASE pc[w] \in Working
    <3>1. mine[w] \in Jobs /\ Ledger!InHand(mine[w])
      BY <2>2, <1>i
    <3>3. TeamOf' = [TeamOf EXCEPT ![mine[w]] = {}]
      BY <1>23, <1>a, <2>2, <3>1, TeamLeft DEF Crash, LetGo
    <3>4. QED
      BY <1>23, <3>1, <3>3, <1>c DEF Crash, TeamOf, Ledger!Vanish
  <2>3. QED
    BY <2>1, <2>2
<1>24. ASSUME (\E j \in Jobs : MonitorHeal(j)) \/ MonitorScan \/ \E w \in Workers : StepError(w)
      PROVE  FALSE
  BY <1>24, <1>a DEF Disciplined, MonitorHeal, MonitorScan, StepError
<1>25. QED
  <2>1. Ledger!Next \/ Quiet
    BY <1>1, <1>2, <1>3, <1>4, <1>5, <1>6, <1>7, <1>8, <1>9, <1>10, <1>11, <1>12, <1>13, <1>14, <1>15,
       <1>16, <1>17, <1>18, <1>19, <1>20, <1>21, <1>22, <1>23, <1>24, <1>26
    DEF Next, Enqueue, WorkerStep, Beat, Fault, Monitor, Ledger!Next
  <2>2. QED
    BY <2>1, <1>b

\* The queue as coded implements JobLedger when live Hermes workers are in time
\* and no statement fails: exclusive work, one outcome, given by the worker
\* that did the work, however long a laptop outstays its lease.
THEOREM QueueImplementsLedger ==
    ASSUME Disciplined
    PROVE  Spec => KeepsLedger
<1>1. Discipline /\ [Next]_vars => [Ledger!Next]_(Ledger!vars)
  BY LedgerStep
<1>2. QED
  BY <1>1, DisciplineInit, DisciplineStep, LedgerInit, PTL
  DEF Spec, KeepsLedger, Ledger!Spec
=============================================================================
