---------------------------- MODULE PipelineJobs ----------------------------
(***************************************************************************)
(* The durable pipeline queue of callscore-web: the rows of pipeline_jobs  *)
(* and pipeline_runs (src/lib/pipeline.ts), the Hermes workers that claim  *)
(* and execute jobs (src/scripts/hermes-worker.ts), the laptop runner that *)
(* claims and completes through a command line                             *)
(* (src/scripts/workplane-laptop-job.ts) and the pipeline monitor that     *)
(* heals stuck rows (src/scripts/pipeline-monitor.ts).                     *)
(*                                                                         *)
(* Every SQL statement of the code is one autocommit statement, so every   *)
(* statement that changes a job or a run is one action here, and the       *)
(* statements of two processes interleave between them.  An idempotency    *)
(* key names both a job and its run (every caller of enqueuePipelineJob    *)
(* passes runKey = idempotencyKey): a job and its run share one index.     *)
(*                                                                         *)
(* Time is relative: lease_expires_at and run_after are kept as the ticks  *)
(* that remain until them, one tick standing for 60 seconds, and Tick      *)
(* lets one tick pass for every row at once.                               *)
(***************************************************************************)
EXTENDS Integers, FiniteSets

CONSTANTS
    Jobs,           \* idempotency keys, one job row and one run row each
    LaptopJobs,     \* the jobs of type transcript_collect_laptop
    Workers,        \* worker processes, Hermes workers and laptop runners
    Laptops,        \* the laptop runners
    None,           \* SQL NULL in locked_by
    MaxAttempts,    \* max_attempts of each job
    Priority,       \* priority of each job
    LeaseTicks,     \* DEFAULT_PIPELINE_JOB_LEASE_SECONDS, in ticks
    MonitorGrace,   \* ticks past the lease at which the monitor acts
    MaxBackoff,     \* the 3600 second cap of the retry delay, in ticks
    AgeCap,         \* bound: how long a due row's age is told apart, in ticks
    MaxCrashes,     \* bound: process deaths in one behaviour
    Hazards         \* which of AllHazards the environment may produce

AllHazards == {"crash",    \* a process dies (or exits on an uncaught error)
               "slow",     \* a live Hermes worker lets its lease run out
               "error",    \* a statement of a worker fails for good
               "lost",     \* query() repeats a statement whose reply was lost
               "monitor"}  \* pipeline-monitor.ts is run

ASSUME JobsAssumption ==
    /\ LaptopJobs \subseteq Jobs
    /\ Laptops \subseteq Workers
    /\ None \notin Workers /\ None \notin Jobs

\* enqueueWorkplaneJob: maxAttempts is 1 for transcript_collect_laptop.
ASSUME LaptopAssumption == \A j \in LaptopJobs : MaxAttempts[j] = 1

ASSUME BoundsAssumption ==
    /\ MaxAttempts \in [Jobs -> Nat \ {0}]
    /\ Priority \in [Jobs -> Int]
    /\ LeaseTicks \in Nat \ {0}
    /\ MonitorGrace \in Nat
    /\ MaxBackoff \in Nat \ {0}
    /\ AgeCap \in Nat
    /\ MaxCrashes \in Nat
    /\ Hazards \subseteq AllHazards

\* The doubling delays are numbers: nothing else about 2^n is needed.
ASSUME PowerAssumption ==
    \A j \in Jobs : \A a \in 1..MaxAttempts[j] : 2^(a - 1) \in Nat \ {0}

VARIABLES
    \* columns of pipeline_jobs
    status, locked_by, attempts,
    lease,          \* ticks until lease_expires_at; negative: expired
    run_after,      \* ticks until run_after; negative: due that long
    \* pipeline_runs.status
    run,
    \* the local state of the processes
    pc,             \* the statement each worker is about to execute
    mine,           \* the job each worker holds, as claimNextPipelineJob returned it
    copy,           \* the attempts column of that returned row
    beats,          \* heartbeat statements in flight: <<worker, job>>
    healing,        \* rows the monitor has read and will reset
    crashes

rows  == <<status, locked_by, attempts, lease, run_after>>
procs == <<pc, mine, copy>>
vars  == <<status, locked_by, attempts, lease, run_after, run,
           pc, mine, copy, beats, healing, crashes>>

-----------------------------------------------------------------------------
(* Rows *)

JobStatus == {"absent", "pending", "running", "succeeded", "failed"}
RunStatus == {"absent", "queued", "running", "succeeded", "failed"}

\* lease_expires_at IS NULL: a value no countdown reaches.
NoLease == LeaseTicks + 1

LeaseRange == (-MonitorGrace - 1)..NoLease
DelayRange == (-AgeCap)..MaxBackoff

\* The job types a worker asks for: claimTypes of the Hermes worker, the one
\* type of the laptop runner.
Handles(w) == IF w \in Laptops THEN LaptopJobs ELSE Jobs \ LaptopJobs

\* Seeded faults: a lease that ends a tick early; a reset that leaves out the
\* rows it could not hand out again.
ExpiredEarly(j) == status[j] = "running" /\ lease[j] # NoLease /\ lease[j] <= 0
ExpiredWithBudget(j) ==
    /\ status[j] = "running"
    /\ lease[j] # NoLease /\ lease[j] < 0
    /\ attempts[j] < MaxAttempts[j]

Expired(j) == /\ status[j] = "running"
              /\ lease[j] # NoLease
              /\ lease[j] < 0

\* Seeded fault: the claim does not look at max_attempts.
ClaimableForever(w, j) ==
    status[j] = "pending" /\ run_after[j] <= 0 /\ j \in Handles(w)

\* The WHERE clause of CLAIM_NEXT_PIPELINE_JOB_SQL.
Claimable(w, j) ==
    /\ status[j] = "pending"
    /\ run_after[j] <= 0
    /\ attempts[j] < MaxAttempts[j]
    /\ j \in Handles(w)

\* ORDER BY priority DESC, run_after ASC; the ids that break a tie follow the
\* order of insertion, which the model leaves open.
Before(i, j) ==
    \/ Priority[i] > Priority[j]
    \/ Priority[i] = Priority[j] /\ run_after[i] < run_after[j]

NextInLine(w, j) ==
    /\ Claimable(w, j)
    /\ \A i \in Jobs : Claimable(w, i) => ~Before(i, j)

\* Seeded faults: no cap and one doubling too many; one attempt too few.
BackoffUncapped(a) == 2^a
MayRetryTooLittle(j, a) == a + 1 < MaxAttempts[j]

\* backoffSeconds of retryOrFailPipelineJob: 60 seconds doubled per attempt,
\* at most an hour.
Backoff(a) == IF 2^(a - 1) < MaxBackoff THEN 2^(a - 1) ELSE MaxBackoff

MayRetry(j, a) == a < MaxAttempts[j]

-----------------------------------------------------------------------------
(* Workers *)

Steps == {"reset", "claim", "mark_run", "begin", "exec", "complete",
          "complete_again", "complete_run", "complete_event",
          "retry", "retry_again", "fail_run", "dead"}

\* A worker at one of these owes the row it claimed an outcome.
Working   == {"mark_run", "begin", "exec", "complete", "retry"}
Executing == {"mark_run", "begin", "exec"}
Holding   == Working \cup {"complete_again", "complete_run", "complete_event",
                          "retry_again", "fail_run"}

\* The top of the loop of hermes-worker; the laptop runner has no reset.
Rest(w) == IF w \in Laptops THEN "claim" ELSE "reset"

Goto(w, step) == pc' = [pc EXCEPT ![w] = step]

LetGo(w, step) ==
    /\ Goto(w, step)
    /\ mine' = [mine EXCEPT ![w] = None]
    /\ copy' = [copy EXCEPT ![w] = 0]

Init ==
    /\ status    = [j \in Jobs |-> "absent"]
    /\ locked_by = [j \in Jobs |-> None]
    /\ attempts  = [j \in Jobs |-> 0]
    /\ lease     = [j \in Jobs |-> NoLease]
    /\ run_after = [j \in Jobs |-> 0]
    /\ run       = [j \in Jobs |-> "absent"]
    /\ pc        = [w \in Workers |-> Rest(w)]
    /\ mine      = [w \in Workers |-> None]
    /\ copy      = [w \in Workers |-> 0]
    /\ beats     = {}
    /\ healing   = {}
    /\ crashes   = 0

-----------------------------------------------------------------------------
(* enqueuePipelineJob.  Both inserts leave an existing row as it is, so a  *)
(* call that finds them, or that stops at a deadline between the two and   *)
(* is made again later, adds nothing to these two steps.                   *)

EnqueueRun(j) ==
    /\ run[j] = "absent"
    /\ run' = [run EXCEPT ![j] = "queued"]
    /\ UNCHANGED <<rows, procs, beats, healing, crashes>>

EnqueueJob(j) ==
    /\ run[j] # "absent"
    /\ status[j] = "absent"
    /\ status' = [status EXCEPT ![j] = "pending"]
    /\ run_after' = [run_after EXCEPT ![j] = 0]
    /\ UNCHANGED <<locked_by, attempts, lease, run, procs, beats, healing, crashes>>

-----------------------------------------------------------------------------
(* resetStalePipelineJobs.  The null-lease branches of its WHERE clause    *)
(* serve rows claimed before the lease column existed; RunningIsLeased     *)
(* says that no other row reaches them.  A row that SKIP LOCKED passes     *)
(* over is one another statement is writing, which is that statement       *)
(* coming first.                                                           *)

ResetStale(w) ==
    LET stale == {j \in Jobs : Expired(j)} IN
    /\ pc[w] = "reset"
    /\ status'    = [j \in Jobs |-> IF j \in stale THEN "pending" ELSE status[j]]
    /\ locked_by' = [j \in Jobs |-> IF j \in stale THEN None ELSE locked_by[j]]
    /\ lease'     = [j \in Jobs |-> IF j \in stale THEN NoLease ELSE lease[j]]
    /\ run_after' = [j \in Jobs |-> IF j \in stale THEN 0 ELSE run_after[j]]
    /\ Goto(w, "claim")
    /\ UNCHANGED <<attempts, run, mine, copy, beats, healing, crashes>>

-----------------------------------------------------------------------------
(* claimNextPipelineJob *)

\* Seeded faults: no lease is taken; the attempt is not counted.
ClaimRowUnleased(w, j) ==
    /\ status'    = [status EXCEPT ![j] = "running"]
    /\ locked_by' = [locked_by EXCEPT ![j] = w]
    /\ attempts'  = [attempts EXCEPT ![j] = @ + 1]
    /\ UNCHANGED <<lease, run_after>>
ClaimRowUncounted(w, j) ==
    /\ status'    = [status EXCEPT ![j] = "running"]
    /\ locked_by' = [locked_by EXCEPT ![j] = w]
    /\ lease'     = [lease EXCEPT ![j] = LeaseTicks]
    /\ UNCHANGED <<attempts, run_after>>

\* The SET clause of CLAIM_NEXT_PIPELINE_JOB_SQL.
ClaimRow(w, j) ==
    /\ status'    = [status EXCEPT ![j] = "running"]
    /\ locked_by' = [locked_by EXCEPT ![j] = w]
    /\ lease'     = [lease EXCEPT ![j] = LeaseTicks]
    /\ attempts'  = [attempts EXCEPT ![j] = @ + 1]
    /\ UNCHANGED run_after

Claim(w, j) ==
    /\ pc[w] = "claim"
    /\ NextInLine(w, j)
    /\ ClaimRow(w, j)
    /\ mine' = [mine EXCEPT ![w] = j]
    /\ copy' = [copy EXCEPT ![w] = attempts[j] + 1]
    /\ Goto(w, "mark_run")
    /\ UNCHANGED <<run, beats, healing, crashes>>

\* The claim is committed but its reply is lost: query() sees a connection
\* error and sends the statement again.
ClaimLost(w, j) ==
    /\ "lost" \in Hazards
    /\ pc[w] = "claim"
    /\ NextInLine(w, j)
    /\ ClaimRow(w, j)
    /\ UNCHANGED <<run, procs, beats, healing, crashes>>

NothingToClaim(w) ==
    /\ pc[w] = "claim"
    /\ \A j \in Jobs : ~Claimable(w, j)
    /\ w \notin Laptops
    /\ Goto(w, "reset")
    /\ UNCHANGED <<rows, run, mine, copy, beats, healing, crashes>>

\* UPDATE pipeline_runs SET status = 'running', whatever the run's status is.
MarkRun(w) ==
    /\ pc[w] = "mark_run"
    /\ run' = [run EXCEPT ![mine[w]] = "running"]
    /\ Goto(w, IF w \in Laptops THEN "exec" ELSE "begin")
    /\ UNCHANGED <<rows, mine, copy, beats, healing, crashes>>

-----------------------------------------------------------------------------
(* executeJobWithKeepalive *)

\* updatePipelineJobHeartbeat: WHERE id = $1, with no look at status or owner.
ExtendLease(j) == lease' = [lease EXCEPT ![j] = LeaseTicks]

\* The heartbeat awaited before the handler starts.
Begin(w) ==
    /\ pc[w] = "begin"
    /\ ExtendLease(mine[w])
    /\ Goto(w, "exec")
    /\ UNCHANGED <<status, locked_by, attempts, run_after, run, mine, copy,
                   beats, healing, crashes>>

\* The interval timer fires: the statement is sent and nobody awaits it.
SendBeat(w) ==
    /\ pc[w] = "exec"
    /\ w \notin Laptops
    /\ <<w, mine[w]>> \notin beats
    /\ beats' = beats \cup {<<w, mine[w]>>}
    /\ UNCHANGED <<rows, run, procs, healing, crashes>>

\* A heartbeat reaches the table, perhaps after its worker finished or died.
LandBeat(w, j) ==
    /\ <<w, j>> \in beats
    /\ beats' = beats \ {<<w, j>>}
    /\ ExtendLease(j)
    /\ UNCHANGED <<status, locked_by, attempts, run_after, run, procs,
                   healing, crashes>>

\* The handler, with its in-process retries, returned.
HandlerOk(w) ==
    /\ pc[w] = "exec"
    /\ w \notin Laptops
    /\ Goto(w, "complete")
    /\ UNCHANGED <<rows, run, mine, copy, beats, healing, crashes>>

\* The handler gave up, or recording that it returned failed.
HandlerFail(w) ==
    /\ pc[w] = "exec"
    /\ w \notin Laptops
    /\ Goto(w, "retry")
    /\ UNCHANGED <<rows, run, mine, copy, beats, healing, crashes>>

\* The laptop reports an outcome by job id: loadJob reads the row afresh.
LaptopReport(w) ==
    /\ pc[w] = "exec"
    /\ w \in Laptops
    /\ copy' = [copy EXCEPT ![w] = attempts[mine[w]]]
    /\ \E step \in {"complete", "retry"} : Goto(w, step)
    /\ UNCHANGED <<rows, run, mine, beats, healing, crashes>>

-----------------------------------------------------------------------------
(* completePipelineJob: WHERE id = $1 on both tables *)

\* What every closing statement does to the lock columns of a row.
Unlock(j) ==
    /\ locked_by' = [locked_by EXCEPT ![j] = None]
    /\ lease'     = [lease EXCEPT ![j] = NoLease]

SucceedRow(j) ==
    /\ status' = [status EXCEPT ![j] = "succeeded"]
    /\ Unlock(j)
    /\ UNCHANGED <<attempts, run_after>>

CompleteJob(w) ==
    /\ pc[w] \in {"complete", "complete_again"}
    /\ SucceedRow(mine[w])
    /\ Goto(w, "complete_run")
    /\ UNCHANGED <<run, mine, copy, beats, healing, crashes>>

CompleteRun(w) ==
    /\ pc[w] = "complete_run"
    /\ run' = [run EXCEPT ![mine[w]] = "succeeded"]
    /\ Goto(w, "complete_event")
    /\ UNCHANGED <<rows, mine, copy, beats, healing, crashes>>

CompleteEvent(w) ==
    /\ pc[w] = "complete_event"
    /\ LetGo(w, Rest(w))
    /\ UNCHANGED <<rows, run, beats, healing, crashes>>

-----------------------------------------------------------------------------
(* retryOrFailPipelineJob: decides on the worker's copy of attempts *)

ReopenRow(j, a) ==
    /\ MayRetry(j, a)
    /\ status'    = [status EXCEPT ![j] = "pending"]
    /\ run_after' = [run_after EXCEPT ![j] = Backoff(a)]
    /\ Unlock(j)
    /\ UNCHANGED attempts

FailRow(j, a) ==
    /\ ~MayRetry(j, a)
    /\ status' = [status EXCEPT ![j] = "failed"]
    /\ Unlock(j)
    /\ UNCHANGED <<attempts, run_after>>

\* Seeded fault: the run is failed whether or not the job is retried.
RetryJobFailsRun(w) ==
    /\ pc[w] \in {"retry", "retry_again"}
    /\ ReopenRow(mine[w], copy[w])
    /\ Goto(w, "fail_run")
    /\ UNCHANGED <<run, mine, copy, beats, healing, crashes>>

RetryJob(w) ==
    /\ pc[w] \in {"retry", "retry_again"}
    /\ ReopenRow(mine[w], copy[w])
    /\ LetGo(w, Rest(w))
    /\ UNCHANGED <<run, beats, healing, crashes>>

FailJob(w) ==
    /\ pc[w] \in {"retry", "retry_again"}
    /\ FailRow(mine[w], copy[w])
    /\ Goto(w, "fail_run")
    /\ UNCHANGED <<run, mine, copy, beats, healing, crashes>>

FailRun(w) ==
    /\ pc[w] = "fail_run"
    /\ run' = [run EXCEPT ![mine[w]] = "failed"]
    /\ LetGo(w, Rest(w))
    /\ UNCHANGED <<rows, beats, healing, crashes>>

-----------------------------------------------------------------------------
(* Failures *)

\* A closing statement lands, its reply is lost, and query() sends it again:
\* by then the row may be another worker's.  (A run UPDATE or a heartbeat that
\* is sent again only lands later than it might have.)
CloseLost(w) ==
    /\ "lost" \in Hazards
    /\ \/ /\ pc[w] \in {"complete", "complete_again"}
          /\ SucceedRow(mine[w])
          /\ Goto(w, "complete_again")
       \/ /\ pc[w] \in {"retry", "retry_again"}
          /\ ReopenRow(mine[w], copy[w]) \/ FailRow(mine[w], copy[w])
          /\ Goto(w, "retry_again")
    /\ UNCHANGED <<run, mine, copy, beats, healing, crashes>>

\* A statement inside the try block of main fails for good: the catch block
\* goes to retryOrFailPipelineJob, also when the job is already succeeded.
StepError(w) ==
    /\ "error" \in Hazards
    /\ w \notin Laptops
    /\ pc[w] \in {"begin", "complete", "complete_again",
                  "complete_run", "complete_event"}
    /\ Goto(w, "retry")
    /\ UNCHANGED <<rows, run, mine, copy, beats, healing, crashes>>

\* The process dies, or exits on an error outside the try block; heartbeats
\* it has sent stay in flight.
Crash(w) ==
    /\ "crash" \in Hazards
    /\ crashes < MaxCrashes
    /\ pc[w] # "dead"
    /\ LetGo(w, "dead")
    /\ crashes' = crashes + 1
    /\ UNCHANGED <<rows, run, beats, healing>>

\* restart: unless-stopped
Restart(w) ==
    /\ pc[w] = "dead"
    /\ Goto(w, Rest(w))
    /\ UNCHANGED <<rows, run, mine, copy, beats, healing, crashes>>

-----------------------------------------------------------------------------
(* pipeline-monitor.ts: one read, then one UPDATE by id per row it read.   *)
(* A running row's heartbeat_at is LeaseTicks older than its lease, so a   *)
(* heartbeat 30 minutes old is a lease MonitorGrace ticks past its end.    *)

StuckRunning(j)    == Expired(j) /\ lease[j] < -MonitorGrace
FailedRetryable(j) == status[j] = "failed" /\ attempts[j] < MaxAttempts[j]

MonitorScan ==
    /\ "monitor" \in Hazards
    /\ healing = {}
    /\ healing' = {j \in Jobs : StuckRunning(j) \/ FailedRetryable(j)}
    /\ UNCHANGED <<rows, run, procs, beats, crashes>>

\* lease_expires_at is left as it was.
MonitorHeal(j) ==
    /\ j \in healing
    /\ healing'   = healing \ {j}
    /\ status'    = [status EXCEPT ![j] = "pending"]
    /\ locked_by' = [locked_by EXCEPT ![j] = None]
    /\ run_after' = [run_after EXCEPT ![j] = 0]
    /\ UNCHANGED <<attempts, lease, run, procs, beats, crashes>>

-----------------------------------------------------------------------------
(* Time *)

\* Without the hazard "slow" a live Hermes worker reaches its next lease-
\* changing statement in time: it sends a heartbeat every 30 seconds of a 600
\* second lease.  The laptop runner claims and completes in two commands and
\* sends none in between, so its lease may run out under its work even then.
\* Of every worker, query() repeats a statement within the 60 seconds of the
\* shortest retry delay.
InTime(w) ==
    /\ pc[w] \in Working /\ w \notin Laptops => lease[mine[w]] > 0
    /\ pc[w] # "retry_again"

Tick ==
    /\ "slow" \in Hazards \/ \A w \in Workers : InTime(w)
    /\ lease' = [j \in Jobs |->
                   IF lease[j] = NoLease \/ lease[j] < -MonitorGrace
                     THEN lease[j] ELSE lease[j] - 1]
    /\ run_after' = [j \in Jobs |->
                       IF run_after[j] > -AgeCap THEN run_after[j] - 1 ELSE run_after[j]]
    /\ UNCHANGED <<status, locked_by, attempts, run, procs, beats, healing, crashes>>

-----------------------------------------------------------------------------
Enqueue == \E j \in Jobs : EnqueueRun(j) \/ EnqueueJob(j)

\* The statements a worker's own program order leads to.
WorkerStep(w) ==
    \/ ResetStale(w)
    \/ \E j \in Jobs : Claim(w, j)
    \/ NothingToClaim(w)
    \/ MarkRun(w)
    \/ Begin(w)
    \/ HandlerOk(w)
    \/ HandlerFail(w)
    \/ LaptopReport(w)
    \/ CompleteJob(w)
    \/ CompleteRun(w)
    \/ CompleteEvent(w)
    \/ RetryJob(w)
    \/ FailJob(w)
    \/ FailRun(w)

Beat == \E w \in Workers : SendBeat(w) \/ \E j \in Jobs : LandBeat(w, j)

Fault == \E w \in Workers :
    \/ CloseLost(w) \/ StepError(w) \/ Crash(w) \/ Restart(w)
    \/ \E j \in Jobs : ClaimLost(w, j)

Monitor == MonitorScan \/ \E j \in Jobs : MonitorHeal(j)

Next ==
    \/ Enqueue
    \/ \E w \in Workers : WorkerStep(w)
    \/ Beat
    \/ Fault
    \/ Monitor
    \/ Tick

Spec == Init /\ [][Next]_vars

\* Processes that are up keep executing (handlers return, as the code sets no
\* limit on them), docker restarts them, sent statements arrive, time passes.
\* Nothing obliges anybody to enqueue, to run the monitor, or to fail.
Fairness ==
    /\ \A w \in Workers : WF_vars(WorkerStep(w)) /\ WF_vars(Restart(w))
    /\ \A w \in Workers, j \in Jobs : WF_vars(LandBeat(w, j))
    /\ WF_vars(Tick)

FairSpec == Spec /\ Fairness

-----------------------------------------------------------------------------
(* Properties *)

\* Types of every variable: the columns of pipeline_jobs and pipeline_runs, a
\* retry delay within its cap, and the local state of the processes.
TypeOK ==
    /\ status \in [Jobs -> JobStatus]
    /\ locked_by \in [Jobs -> Workers \cup {None}]
    /\ attempts \in [Jobs -> Nat]
    /\ lease \in [Jobs -> LeaseRange]
    /\ run_after \in [Jobs -> DelayRange]
    /\ run \in [Jobs -> RunStatus]
    /\ pc \in [Workers -> Steps]
    /\ mine \in [Workers -> Jobs \cup {None}]
    /\ copy \in [Workers -> Nat]
    /\ beats \subseteq Workers \X Jobs
    /\ healing \subseteq Jobs
    /\ crashes \in 0..MaxCrashes

\* However workers crash, lose leases, repeat statements or are healed, no
\* attempt of a job is ever executed by two workers: a claim is the only way
\* to a handler and each claim takes a number of its own
\* (CLAIM_NEXT_PIPELINE_JOB_SQL, which nothing else fences).
UniqueAttempt ==
    \A w, v \in Workers :
        /\ w # v
        /\ pc[w] \in Executing /\ pc[v] \in Executing
        /\ mine[w] = mine[v]
        => copy[w] # copy[v]

\* A handler is started at most max_attempts times for a job, stale resets,
\* stale retries and monitor resets included: none gives an attempt back.
AttemptsBounded ==
    /\ \A j \in Jobs : attempts[j] <= MaxAttempts[j]
    /\ \A w \in Workers : pc[w] \in Working => copy[w] <= attempts[mine[w]]

\* A job is failed only when its attempts are used up, also when a worker
\* that lost its lease decides on the copy it holds
\* (retryOrFailPipelineJob).  So the monitor's "failed jobs retryable" query
\* finds no row.
FailedOnlyWhenExhausted ==
    \A j \in Jobs : status[j] = "failed" => attempts[j] = MaxAttempts[j]

\* A running row always has an owner and a lease, so a reset finds it sooner
\* or later: no interleaving of closing statements and late heartbeats leaves
\* a row running with neither (resetStalePipelineJobs).
RunningIsLeased ==
    \A j \in Jobs :
        status[j] = "running" => locked_by[j] # None /\ lease[j] # NoLease

\* With live Hermes workers in time and statements that do not fail, a run is
\* closed only as its job is, and stays closed as its job stays, also when a
\* laptop closes a job that was reset under its work
\* (completePipelineJob, retryOrFailPipelineJob, claimNextPipelineJob).
RunFollowsJob ==
    \A j \in Jobs :
        /\ run[j] = "succeeded" => status[j] = "succeeded"
        /\ run[j] = "failed" => status[j] = "failed"

Closed(j)   == status[j] \in {"succeeded", "failed"}
Stranded(j) == status[j] = "pending" /\ attempts[j] = MaxAttempts[j]

\* Whatever goes wrong, the queue comes to rest: from some time on no row is
\* running, waiting for a claim it can get, or flipping between statuses
\* (the recovery loop of hermes-worker).
QueueQuiesces ==
    \A j \in Jobs : <>[](status[j] = "absent" \/ Closed(j) \/ Stranded(j))

\* The live workers that are working on a job.
Team(j) == {w \in Workers : pc[w] \in Working /\ mine[w] = j}

Ledger == INSTANCE JobLedger WITH
    Unleased <- LaptopJobs, Budget <- MaxAttempts, phase <- status,
    active <- [j \in Jobs |-> Team(j)], tries <- attempts

\* With live Hermes workers in time and statements that do not fail, the
\* unfenced statements keep the promise of JobLedger: exclusive work, settled
\* once, by the worker that did it, a laptop's job too, which a stale reset
\* takes from it while it works.  For Hermes the lease alone gives this, for
\* the laptop the one attempt its job has: complete, retry and heartbeat all
\* update WHERE id = $1.
KeepsLedger == Ledger!Spec

\* A reset stale job is recovered: it is claimed or closed afterwards
\* (resetStalePipelineJobs, "Recovered stale running job").
StaleJobsRecover ==
    \A j \in Jobs : Expired(j) ~> (Closed(j) \/ (status[j] = "running" /\ ~Expired(j)))
=============================================================================
