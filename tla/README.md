# A verification model of callscore-workplane

This directory holds TLA+ specifications of the parts of callscore-workplane in
which several processes share state that outlives them, TLC configurations that
check them on small instances, and proofs of their main properties for every
value of the constants, checked by TLAPS. Paths below are relative to the
repository; `web/` stands for `apps/callscore-web/src/` and `whop/` for the sources
of the whop-state server
(`sources/whop/plugin/agent_workflows/whop_auto/bin/whop-state-mcp/src/`).
`PROJECT.json` maps every definition to the lines it models.

```
tlc -config queue_disc.cfg MCPipelineJobs      # one run
tlapm PipelineJobsProofs.tla                   # one proof module
```

## 1. The system

The repository is the workplane of CallScore: a Next.js application that tracks
what crypto influencers predicted, scores the predictions against candles and
mails alerts; the workers that scrape, extract, match and score in the
background; and the tools that operate and sell the application. All processes
meet in one Postgres database, in a few files, or at a provider (Vercel, Whop,
GitHub, a mail service). `web/lib/db.ts` runs each statement in a transaction
of its own and, through `query()`, repeats a statement after a connection
error; with few exceptions nothing groups statements.

| Component | State | Operations | Meets others through |
|---|---|---|---|
| Durable pipeline queue (`web/lib/pipeline.ts`) | rows of `pipeline_jobs` and `pipeline_runs` | enqueue, reset stale, claim, heartbeat, complete, retry or fail | the rows; `FOR UPDATE SKIP LOCKED` in the claim |
| Hermes workers (`web/scripts/hermes-worker.ts`) | the job each one holds | loop of reset, claim, execute, close; a heartbeat timer | the queue |
| Laptop runner (`web/scripts/workplane-laptop-job.ts`) | a job id on a command line | claim, complete, fail | the queue |
| Pipeline monitor (`web/scripts/pipeline-monitor.ts`) | rows it has read | read stuck rows, reset each | the queue |
| Continuous loop (`web/scripts/run-continuous-data-pipeline.ts`) | `continuous.lock` | acquire, cycle, sleep, release | the lock file |
| Alert outbox (`web/lib/alerts.ts`, `alert-jobs.ts`, `scripts/send-queued-alerts.ts`) | `watchlists`, `alerts_queue`, `alerts_unsubscribes` | watch, opt out, scan, queue, claim, mail, revert | the rows; the mail service |
| Whop deploys (`whop/deploy.ts`, `reconcile.ts`, `runner.ts`) | event log of a run, manifest of the target repository | deploy, reconcile | the log, the manifest, git, Vercel, Whop |
| Whop scaffolds (`whop/scaffold.ts`) | event log of a run, manifest, keychain, registry | create app, project and webhook, store the secret, bind; resume a run that was cut off | the same runner and log |
| Other Whop skills | the same | adopt, commerce, market | the same runner and log |
| whop-state plumbing (registry, keychain, boundary, REST) | credentials, caches | read and write | the skills |
| ML verifier, promotion and validation by rules (`web/lib/ml-verifier.ts`, `ml-promotion.ts`, `web/scripts/audit-recompute.ts`) | `extraction_confidence` and `low_confidence_validation_decision` of calls, `ml_verification_runs`, `ml_promotion_audit` | select, ask a model, store a verdict; open an audit row, raise confidences, close the row; analyse by rules, record the decision, raise | two handlers of the queue and a stage of the data pipeline on the same rows |
| Market data and prices (`web/scripts/refresh-candles.ts`, `repair-price-at-call.ts`, `match-prices*.ts`, and `backfill-*.ts`, run by hand) | `candles`, dates and price columns of `calls`; an advisory lock; a cache that lives as long as the worker | refresh by windows, load a month, repair, match in batches up to a limit, fetch what is missing; correct a date, take prices back | the rows, the lock, the exchange |
| Migrations (`web/scripts/migrate.ts`) | none: no table says what has been applied | apply `schema.sql` and every numbered file again, go on past one that fails | the database |
| Webhooks of customers (`web/lib/webhooks.ts`) | endpoints, deliveries | up to three attempts in one call, then one row with the outcome; delete by `active = FALSE` | called after a mail |
| Scoring, statistics, backtests | none of their own | pure formulas over rows | the queue runs them |
| Extraction and its checks | none of their own | prompt, parse, grade | the queue runs them |
| Candidate admission, readiness, reports | none or single statements | decide, report | the database |
| API keys, sessions, public read API, pages | none or single statements | check, read, render | HTTP |
| Transcript acquisition | files and rows | scrape, hand over | jobs of the queue |
| State manager of the agent automations (`sources/agents/.../state_manager.py`) | SQLite, a graph, a sync queue | write both, queue what the graph refuses, replay | the two stores |
| Story engine (`art_of_war.py`) | an append-only ledger | scan, replay, report | files of its own |
| Library, control bridge, gateway, VM scripts | a catalogue, receipts | commands and request handlers | files, HTTP, systemd |
| `sources/product` | - | identical copies of files of the application | - |
| `control-plane/composio`, docs, receipts, ledgers | - | vendored or generated | - |

`PROJECT.json` lists the same parts with their sources, each with what is
modelled or the reason it is not.

### What is hard, and what makes each part correct

**The queue.** A worker holds a job by a lease of ten minutes; its handler may
run for hours and its heartbeats are sent without being awaited. Every closing
statement says `WHERE id = $1`, with no owner and no attempt in it, so what
keeps a worker off somebody else's row is only that it is in time. The laptop
runner is not: it sends no heartbeat, its lease runs out under work of an hour,
and only the one attempt its jobs have keeps others off them. Statements can fail, be repeated although they were committed, or land after their worker
died. Correct means: a job is worked on by one live worker at a time, started
at most `max_attempts` times, settled once by the worker that did the work, its
run agreeing with it, and no row left running for ever. What survives when
workers are *not* in time is a separate and weaker list.

**The continuous lock.** A file that is checked and written by separate system
calls, whose owner is a process id the system may hand out again. Correct
means: one loop at a time, the file names it, and whatever a dead loop leaves
behind does not stop the next one for good.

**The alert outbox.** A row is marked as sent *before* it is mailed and unmarked
when the mail fails. Two kinds of runner do so at once, one of them under a
deadline that may pass anywhere. Correct means: no two runners hold a row, a
mail is not repeated, no row stays marked without mail, and nothing goes to a
user who opted out.

**Deploys.** Every step of a skill is announced in a log, carried out at a
provider and then observed, and the manifest in the target repository names the
run in progress and the last deployment. Any of these can fail or be delayed;
Vercel answers a promotion before it carries it out. Correct means: the
manifest never names a deployment that has not been in production, nothing is
mutated after a mutation whose outcome is unknown, production does not go back
to an older commit, and a deploy that is asked for again and again succeeds or
visibly stops.

**Scaffolds.** A run creates things at providers that know nothing of runs, and
has to be continued by a call that knows only the log: what was made without
being observed must be found and not be made again, in lists that may lag, and
the secret of a webhook is shown once, to the call that made it. Correct means:
a run makes one app and one webhook, the manifest is bound to parts that belong
together and whose secret is stored, and whoever keeps calling ends with a bound
repository or a run that refuses to go on.

**Verdicts and promotions.** Both are jobs of the queue, which may run twice at
a time, and each is a series of single statements over rows that others judge,
raise, redate or delete in between. The stage `low-confidence-validate` raises
the same calls by fixed rules, by id and from a read that may be old, without a
verdict and without an audit row. Correct means: the audit tells which calls the
promotion raised, and never more than that; the promotion raises nothing without
a verdict that holds at that moment and an audit row that is open, and the rules
nothing without a `PROMOTE` on record before; every call that is a candidate is
judged, unless it ceases to be one.

**Prices.** Matchers exclude each other by an advisory lock of a *connection*,
taken and released through a pool that hands out any connection and closes idle
ones. What they read comes from a table that is filled meanwhile, from the
exchange, or from a cache that answers for five minutes at a time and remembers
gaps across jobs; what they write overwrites the whole row. A run ends at its
limit and the next one begins again with the first row. Scripts run by hand
correct the date of a call under its prices, or take all prices back. Correct
means: matchers are alone; a price is near the instant it was looked up for; a
refresh leaves gaps only before its start date; and a price that can be found is
recorded and stays, unless calls that can never be completed crowd it out.

`PROJECT.json` lists the single hazards, each with its line and the
properties that watch it. Four of them are disagreements between the code and
what it or its docs say: section 6.

## 2. The plan

Done: the seven components in which the most can go wrong, each with its
properties and theorems: the queue, the continuous lock, the outbox, deploys,
scaffolds, verdicts and promotions, prices. Five of them are shown, by TLC and
by proof, to implement an abstract specification of what they promise:
`JobLedger`, `Outbox`, `Rollout`, `Onboarding`, `AuditTrail`. Next, in this order:

1. **Abstract specifications**: a price book for `PriceMatch` (a price comes from
   the instant it is for and is lost only as `LosesPriceOnlyIfStale` allows), with
   its refinement theorem.
2. **Commerce** (`commerce.ts`) over the same runner: publication only after the
   hidden resource has been read back. A module that composes it with
   `DeployRun` over one manifest, to check the read-modify-write of `manifest.ts`
   under overlapping calls.
3. **Liveness of the outbox**: fairness for the cron, and starvation behind rows
   without an address.
4. **State manager**: two stores, of which one is written later through
   `sync_queue`: replay in order of ids, writes that overtake queued ones.
5. **Pure algorithms**: leaderboard eligibility and the cash bookkeeping of the
   portfolio backtest against reference definitions, with the rounding they use.
6. **Further theorems**: a lemma library for the fold of a run's log, used by
   both modules over the runner; a specification of the run alone that both
   implement; the lock with `torn` starts serialised;
   `UniqueAttempt` lifted to the ledger.

## 3. The modules

| Module | What it is |
|---|---|
| `PipelineJobs` | the queue, the workers, the laptop runner, the monitor |
| `JobLedger` | what the queue promises, without leases, clocks, runs or statements |
| `PipelineJobsProofs` | theorems about the queue, and that it implements `JobLedger` |
| `ContinuousLock`, `ContinuousLockProofs` | the lock file, its loops; theorems |
| `AlertQueue` | the outbox and its runners |
| `Outbox` | what the outbox promises, without rows, statements, batches, deadlines or faults |
| `AlertQueueProofs` | theorems about the outbox, and that it implements `Outbox` |
| `DeployRun` | deploys and reconciles |
| `Rollout` | what a deploy promises, without calls, runs, logs, steps, builds or faults |
| `DeployRunProofs` | theorems about deploys, and that they implement `Rollout` |
| `ScaffoldRun` | scaffolds and their resumption |
| `Onboarding` | what a scaffold promises, without calls, logs, steps, searches or faults |
| `ScaffoldRunProofs` | theorems about scaffolds, and that they implement `Onboarding` |
| `MlPromotion` | the ML verifier and the promotion |
| `AuditTrail` | what an audited promotion promises, without attempts, statements, replies or batches |
| `MlPromotionProofs` | theorems about the promotion, and that it implements `AuditTrail` |
| `PriceMatch`, `PriceMatchProofs` | candles, repair, price matching; theorems |
| `MC...`, one for each of the seven | values of the constants for TLC |

Conventions. One SQL statement, system call, log event or provider call is one
action, named after the function it is in, and those of different processes
interleave between them. The constant `Hazards` of each module says which
failures the environment may produce, so that a property can be checked under
exactly the failures it survives. A definition marked *Seeded fault* is not
part of the specification: it is a plausible mistake in the code, kept beside
the definition it would replace, that the property in question detects.

### PipelineJobs

| Model | Code |
|---|---|
| `status`, `locked_by`, `attempts`, `lease`, `run_after` | columns of `pipeline_jobs`; the two times as the ticks that remain |
| `run` | `pipeline_runs.status`; a job and its run share the idempotency key |
| `pc`, `mine`, `copy` | where a worker is, the row its claim returned, the `attempts` in that copy |
| `beats` | heartbeat statements sent and not awaited |
| `healing` | rows the monitor has read and not yet reset |
| `EnqueueRun`, `EnqueueJob` | the two inserts of `enqueuePipelineJob` |
| `ResetStale` | `resetStalePipelineJobs` |
| `Claim`, `NothingToClaim`, `MarkRun` | `claimNextPipelineJob` and its update of the run |
| `Begin`, `HandlerOk`, `HandlerFail`, `LaptopReport` | `executePipelineJob` in `hermes-worker.ts`; the laptop's command line |
| `CompleteJob`, `CompleteRun`, `CompleteEvent` | the statements of `completePipelineJob` |
| `RetryJob`, `FailJob`, `FailRun` | `retryOrFailPipelineJob` |
| `SendBeat`, `LandBeat` | the interval timer and `heartbeatPipelineJob` |
| `ClaimLost`, `CloseLost` | `query()` repeating a committed statement |
| `StepError`, `Crash`, `Restart` | the catch block of `main`; death; docker's restart |
| `MonitorScan`, `MonitorHeal` | `pipeline-monitor.ts` |

A tick stands for 60 seconds, the shortest retry delay. Without the hazard
`slow`, `Tick` does not let the lease of a working *Hermes* worker run out: it sends
a heartbeat every 30 seconds of a 600-second lease (`hermes-worker.ts`). The
laptop runner claims and completes in two commands (`workplane-laptop-job.ts:46`,
`:63-75`) and sends none in between, while its work may take an hour; its lease
may run out, and its job be reset, under its work in every run. Of every worker,
`Tick` waits for the repetition of a retry statement, which `query()` sends
within the shortest retry delay. `JobLedger` knows the jobs of the laptop as
`Unleased`: one may go back to the queue under the hands of its worker, where it
waits, since its one attempt is used up, until that worker settles it. Left out: the event table,
metrics and phase columns, which no statement reads back to decide anything,
and what handlers do.

### ContinuousLock

| Model | Code |
|---|---|
| `lock` | the file: absent, truncated, or a record of a pid and its age |
| `linked` | processes whose open file is still the one at the path |
| `strangers` | unrelated processes with a dead loop's pid |
| `Look`, `Judge`, `Remove`, `Truncate`, `WriteRecord` | `acquireLock`, `lockIsStale`, `writeLock`, one system call each |
| `NextCycle`, `EndCycle`, `Wake`, `Leave`, `Release` | the loop of `main` and its `finally` |

### AlertQueue

| Model | Code |
|---|---|
| `row` | `alerts_queue`: no row, `sent_at` NULL, `sent_at` set |
| `watch`, `optout`, `found` | `watchlists`, `alerts_unsubscribes`, what the scan has read |
| `batch`, `group`, `aborted` | claimed rows left to do, the digest at hand, the deadline signal |
| `Watch`, `Unwatch`, `OptOut` | the watch and unsubscribe routes |
| `Scan`, `Queue` | `runAlertScan`, `queueAlert` |
| `Claim` | `claimPendingAlerts` |
| `Sort` .. `Finish` | `runAlertSend` and `send-queued-alerts.ts`, including `withoutProcessedGroups` |
| `Accept`, `Bounce`, `Timeout` | `sendEmail` |
| `Revert`, `RevertFails`, `RevertLost` | `revertClaim` |
| `sent`, `doubted`, `forsaken` | histories the code does not keep: mails accepted, alerts a timeout or repeated statement made ambiguous, rows given up by a fault |

`Outbox` sees an alert at one of five stages: not there, pending, taken, mailed,
and doubtful once a timeout or a repeated statement has made it ambiguous
(`Stage`); a runner has in hand what is left of its batch and is not doubtful.
Claims, reverts, deaths and deadlines are then `Take`, `PutBack`, `Drop` and
`Lose`; scans, sorting and the choice of the next digest are stutters.

`withCronDeadline` answers the request at the deadline while the work behind it
goes on; a platform that then freezes the function is the hazard `crash`.

### DeployRun

| Model | Code |
|---|---|
| `lastDeploy`, `currentRun` | the manifest's `lastDeploy` and `currentRunId` |
| `digest` | `foldEvents` over a run's log: pending steps and the terminal state |
| `pushed`, `built`, `prod`, `live`, `inflight`, `iframe` | the remote branch, Vercel, the Whop app |
| `pc`, `step`, `run`, `was`, `sha`, `need` | locals of a call |
| `StartDeploy`, `StartReconcile` | `collectWhopStatus`, the gate and the plan of each tool |
| `Intent` .. `Clear` | `runSkill`, `executeWithDispatchAudit` and the manifest writes around them |
| `Push` .. `CurrentFails` | `dispatchDeployAction` with `observeDeployAction`, and those of a reconcile |
| `AppendFails`, `ManifestFails`, `CallFails`, `Crash` | failures and where the code goes on |
| `doubt`, `claimed` | histories: mutations made and never observed, commits a log calls pushed |

The fold looks at events one by one, so the model keeps its result and not the
log. A commit is a number and names its deployment. A Vercel deployment counts
as production only once it has been promoted (`events.ts:169` calls the build a
deploy waits for `preview-live`). The production domain is in the manifest, so
`verifyPromotion` looks at aliases; a domain passed by the caller only changes
what a deploy with nothing to do looks at, which is `CurrentFails`. Left out:
consent events (for the server the call itself is the consent), credentials,
the drift of webhooks and the registry step of a reconcile.

`Rollout` sees the remote branch (`pushed`), the domain (`prod`), the promotion
under way (`inflight`), what has been shown (`live`), the record (`lastDeploy`),
the app's address (`iframe`), and whether some outcome is unknown
(`doubt # {}`). Each mutation is one step of it, whether its outcome becomes known or not;
logs, plans, builds and observations are stutters.

### ScaffoldRun

| Model | Code |
|---|---|
| `log` | `foldEvents` and `hydrateScaffoldResume` of a run: steps observed, pending, the terminal state, the ids observed |
| `apps`, `hooks`, `project` | the Whop apps of the name, the webhooks of the URL, the Vercel project |
| `keychain`, `manifest`, `registered` | the webhook whose secret is stored, the binding, the registry entry |
| `call` | locals of a call: steps left, ids known, steps pending when it began, ambiguous targets |
| `Enter` | `runWhopScaffold` and `isResumableScaffoldStatus` |
| `Hydrate` | `hydrateScaffoldResume`: the log, then `findWhopApp` and `findWhopWebhook`; the plan |
| `Intent` .. `Finalize` | `runSkill` with the log as it is read later |
| `MakeApp` .. `Register`, `NoProof` | `dispatchScaffoldAction` with `observeScaffoldAction` |
| `StepRefused`, `StepFails`, `ReplyLost`, `AppendFails`, `Crash` | failures and where the code goes on |
| `stored`, `excused` | histories: webhooks whose secret was stored; runs called twice at a time or stopped as ambiguous |

An id is the place of the app or webhook in the order of creation. All runs of a
project share the path of the webhook's secret, so `keychain` is one variable.
Left out: consent, checks of inputs, and what the project, link, environment and
deployment steps do at Vercel beyond succeeding or failing.

`Onboarding` sees the apps, the webhooks, the project, the secrets stored
(`stored`, `keychain`), the binding (`manifest`) and the runs led astray
(`excused`). What a call knows, and how it came to know it, is left to
`ScaffoldRun`; that a binding is right although it copies what a call knows is
the point of the refinement.

### MlPromotion

| Model | Code |
|---|---|
| `conf` | `extraction_confidence`: below the public threshold, not below it, or the row is gone |
| `traits` | what else the statements ask of a call: a transcript, an ambiguous ticker, the prices and the age of a scored call (`publicScoreReadySql`), a date in the last 180 days; `Turn` lets them change |
| `ruled`, `val` | `low_confidence_validation_decision`; a run of the rules: decisions to record and calls to raise |
| `verdict` | `ml_verification_runs` of one prompt version, by call and model |
| `batch` | candidates an attempt of `runMlVerifierBatch` has still to ask for |
| `att`, `audit` | an attempt of `runMlPromotionJob`; rows of `ml_promotion_audit` |
| `Doubtful` | the buckets of `buildMlVerifierCandidateSql`, with what each asks for |
| `BatchStart`, `BatchJudge`, `BatchThrows` | `buildMlVerifierCandidateSql`; `insertVerificationRun`; the end of a batch by an error |
| `Replace` | a video extracted anew: `DELETE FROM calls` with its cascade |
| `Unruled`, `RulesSelect` | `buildWhereClause` of `--score-ready-low-confidence --valid-only`; `loadAuditRows` and `analyzeAuditRows` |
| `RulesRecord`, `RulesApply`, `RulesDie` | `persistValidationDecisions`, a statement for each call; `applyAuditResults`, a statement for each 250; death |
| `AttemptStart` | `buildMlPromotionCandidateSql`, with what payload and environment allow |
| `AuditStart`, `Promote`, `AuditSuccess`, `AuditFailure` | `insertAuditStart`, the `UPDATE` of `promoteCandidates`, `updateAudit` |
| `AuditStartTwice`, `PromoteLost`, `Throws`, `Dies` | `query()` repeating a statement, the catch block, death |
| `did`, `hit`, `fresh` | histories: calls raised under a row, rows struck by a fault, candidates without a verdict yet |

An attempt is *barred* when it is a dry run or the gates block it: its row is
opened and nothing is raised. The rules are an arbitrary choice of the calls they
read. Left out: the thresholds as numbers, prompts and parsing, the contents of
events, and the columns beside the confidence that the rules fill.

`AuditTrail` sees the levels (`conf`), who approves of what (`Approvals`, the
verdicts that approve), the rows of the audit, and the calls with a `PROMOTE` on
record (`cleared`). Between `Raise` and the end of its row an attempt may be
struck (`Strike`) anywhere; the rules are `Clear` and `RaiseCleared`; selections,
replies and batches are stutters.

### PriceMatch

| Model | Code |
|---|---|
| `candles` | rows of `candles`, by `open_time`; one symbol stands for all |
| `date`, `Instant` | `call_date`, which may be corrected; where each price column looks |
| `price` | the price columns of `calls`; a price is the tick of the candle it was read from |
| `held` | how often each pooled connection holds the advisory lock |
| `pc`, `mode`, `last`, `seen`, `open`, `cache` | a matching process: options, cursor, rows seen, the batch and its reads, `priceCache` |
| `Key`, `Answer`, `Searches` | `cacheKey` with `roundTime`: an instant is rounded down to five minutes (`Grain`); `getCandleAt` |
| `ref`, `fix` | windows a refresh has left, with its start date; the call a repair is at |
| `From`, `RefreshStart`, `RefreshWindow`, `RefreshFails` | `refreshSymbol`, `buildFetchWindows` from the later of the newest candle and the start date, `insertCandles` |
| `BulkFile` | a file of `backfill-candles-data-vision.ts` |
| `RepairFind`, `RepairWrite` | `repairCall` |
| `Redate` | `backfill-publication-dates.ts`: the date of the video is found and its calls get it |
| `Reset`, `ClearPremature` | `backfill-dates.ts`: all prices become NULL; `backfill-public-integrity.ts`: those that are too early do |
| `Begin`, `BeginByHand`, `Start`, `StartLost`, `Leave`, `Close` | `withMatchPricesAdvisoryLock` over the pool of `db.ts`; what the schedule starts, and what somebody starts with other options |
| `First`, `NextBatch`, `Batch`, `Write`, `CallFails`, `Finish` | `runMatchPrices` with its `LIMIT`, `getCandleAt`, `processCall` |
| `SetBased` | `buildSetBasedMatchSql`, one statement |
| `basis`, `misses`, `vain`, `cut` | histories: the date the recorded prices are for, gaps known at the start of a job, instants searched for in vain since, processes whose lock was dropped |

The calls of a batch are read at once, and of two of their instants that share a
cache entry the code remembers the answer that comes last: `Batch` lets it be any
of them. The workers use node-postgres (`callscore-enqueue-job.ts:147` asks for
it); the HTTP driver has no sessions, so the lock would exclude nobody. Left out:
returns, alpha and `hit_target`, which the same `UPDATE` computes from the prices.

## 4. What is checked

Each run asks one question; the passing ones together take every action of the
seven specifications.

| Run | Instance | Result | What it shows |
|---|---|---|---|
| `queue_chaos` | 1 job of 2 attempts, 2 workers, every hazard, fair | passes, 127,000 states | what survives leases that run out under live workers, repeated and failing statements, late heartbeats and the monitor; and that the queue comes to rest |
| `queue_disc` | 2 jobs of 2 and 1 attempts and different priority, 2 workers, 2 laptop runners that send no heartbeats, a death and lost replies | passes, @@QD@@ states | while live Hermes workers keep their leases the queue implements `JobLedger`, a laptop's job that is reset under its work included, and runs follow their jobs |
| `queue_stale` | 1 job of 1 attempt, deaths, fair | violates `StaleJobsRecover` | section 6 |
| `lock_spaced` | 3 pids, deaths and reuse of pids, fair | passes, 27,000 states | one loop at a time, named by the file, and the pipeline always runs again |
| `lock_race` | 2 pids, overlapping starts | violates `OneLoop` | section 6 |
| `alerts_faults` | 2 users with an alert each, the cron runner and the script, every hazard | passes, 626,000 states | mails are repeated or lost only by a named fault; the code implements `Outbox`, so an opt-out is obeyed |
| `deploy_inturn` | 3 commits, 2 run ids, two faults of any kind, fair | passes, 253,000 states | the manifest is true, nothing is done in doubt, production goes forward, the code implements `Rollout`, deploys succeed or stop |
| `deploy_push` | 2 commits, refused pushes | violates `PushedIsPushed` | section 6 |
| `scaffold_resume` | 2 run ids, calls in turn, two faults of any kind, fair | passes, 96,000 states | a resumed run does not create again, the code implements `Onboarding`, so bindings are whole, calls end bound or stopped |
| `scaffold_twin` | the same | violates `CreatesOnce` | section 6 |
| `promotion_audit` | 1 call that turns between five sets of traits, 1 model, 2 batches, 2 attempts, 1 run of the rules, one fault, fair | passes, 426,000 states | what the audit says of the calls that were raised, that the code implements `AuditTrail`, and that every candidate is judged |
| `prices_heal` | 3 calls with 3 quotes, limit 2, a worker with 2 connections and a script, two start dates, one fault or step by hand of any kind, fair | passes, 178,000 states | matchers are alone, prices near, lost and kept as stated, and recorded for good unless crowded out |

The users of `alerts_faults` are, together with their alerts, interchangeable and
declared so (SYMMETRY); the run checks safety only. No other run uses symmetry.

**What the properties say.** `UniqueAttempt`: no attempt of a job is executed
by two workers. `AttemptsBounded` and `FailedOnlyWhenExhausted`: no interleaving
of resets, retries, repeated statements and the monitor gives back an attempt
or takes one away. `RunningIsLeased`: no late heartbeat or closing statement
leaves a running row that the reset does not find. `RunFollowsJob`,
`KeepsLedger`: while the Hermes workers keep their leases, the run agrees with the
job and the queue implements `JobLedger`, in which a job of the laptop may be
pending while the laptop works on it and is settled from there. `QueueQuiesces`: it comes to rest. `OneLoop`, `HolderIsRecorded`,
`LockRecovers` are the lock. `OneHolder`, `TwiceOnlyInDoubt`,
`LostOnlyByFault` are the outbox: mails are repeated or
lost only where a named fault explains it. `KeepsOutbox` says the rest: an alert
is in one hand from its claim on, is mailed once to a user with an address, is
never taken for a user who has opted out, and once mailed stays mailed.
`ManifestIsTrue`, `NoCallInDoubt`,
`NoDowngrade`, `EndsDeployedOrStopped` are the deploys. `KeepsRollout`: whatever
is promoted is at the remote, is newer than all that was ever in production, and
nothing else is being promoted; what the manifest gets is the newest of them, and
the first time only with the address set; after an unknown outcome nothing more is pushed,
promoted, updated or recorded.
`CreatesTwiceOnlyIfExcused`: a run makes a second app or webhook only if two of
its calls overlapped or one stopped before an ambiguous target. `KeepsOnboarding`:
that, and the secret of a webhook is stored once and before there is another
webhook, and the manifest is bound once, as a whole, to the project, to a webhook
of the run that binds, whose secret has been stored, and to an app of that run or
the first one; nothing is made, stored or bound after that. `EndsBoundOrStopped`:
whoever keeps calling is not sent in circles. `AuditNeverOverstates` and
`AuditTellsUnlessHit` bound the audit from both sides; `AuditRowsEnd` says when a
row may stay open. `KeepsTrail`: calls are raised through one running row that
names them, in one step, and exactly those of its candidates that are low and
approved at that moment, so an old selection does no harm; the row ends with what
it raised, or as struck. Whatever is raised otherwise is raised by the rules, and
had their `PROMOTE` on record before. That no two rows name one call needs, and
the comment of `AuditNeverOverstates` says so, that nobody makes a confidence low
again, as an operator may by hand (section 7). `JudgedAgainOnlyByOverlap`,
`EveryCallJudged`: each call in one of the verifier's buckets gets a verdict,
unless it leaves them first, and one alone unless batches overlap.
`AloneUnlessCut` says what the matching may rely on. `PriceNearInstant`: the
prices of a call are all for one date, which is its own unless that was corrected,
and each is at most a day older than its instant, or within the tolerance after
it, plus what the cache rounds off. `RefreshLeavesNoGap`: what a refresh skips lies
before the date it was told to start at. `LosesPriceOnlyIfStale` names the ways in
which a recorded price is lost: all are taken back; a matcher is misled by a gap
it remembers, of an earlier job or of another instant of the same five minutes,
or has lost its lock; the date was corrected; the candle is not one the table's
lookup finds. `PricesGetRecorded`: none of these is for good, except for a call
that comes after a whole limit of calls which can never be completed (`Crowded`),
or shares its five minutes with one of them that has no candle (`Shadowed`).

**Bounds, and why they are enough.** Each hazard concerns two actors at one
shared object, and a fault or two between them.

- *Queue*: two Hermes workers meet at one row with two attempts, so that one
  worker can be a full attempt behind the other; a second job is there where the
  order of claims matters, and a laptop runner with a job of a single attempt for
  its separate claim, twice, so that a second collector may be started while the
  first is at work (`queue_disc`; the collector has a lock of its own, but releases
  it on every error: `run-transcript-collector.ps1:166-169`). The laptop's work
  outlasts its lease there. `LeaseTicks` is 1 because only
  *alive, running out, expired* differ; `MonitorGrace` 1 separates expired from
  stuck; `AgeCap` stops the age of a due row at the point where all further
  ages order alike. One or two deaths, restarts unbounded.
- *Lock*: three processes, since with a stale record two more can compete for
  it; `StaleTicks` 2 leaves an age before the boundary, at it and past it; two
  deaths, reuse of all pids but one.
- *Outbox*: two users with one alert each and one runner of each kind. A batch
  of 2 holds both digests, so a revert of one must not touch the other; either
  user may lack an address. Both rows fit into one batch, so the order of the
  claim, on which only starvation depends, plays no part in this run. Bounces and deadlines are
  unlimited; of the other faults one happens anywhere, which is enough to make each exception of the
  properties necessary. The proofs cover every number.
- *Deploys*: three commits give an older, a current and a newer deployment; two
  run ids the run in the manifest and a new one; two faults of any kind, so that
  a failure can be followed by the failure of its own recovery.
- *Scaffolds*: two run ids, so that a second run can start beside an unfinished
  one and take its app for its own; three apps or webhooks, so that a run can
  make a second one beside another run's; two faults. Calls in turn: with overlapping calls
  bindings need not be whole, in the code as in the model, which has no lock around a
  call. `CreatesTwiceOnlyIfExcused` holds there too, by its theorem.
- *Promotion*: two batches that ask one model give every overlap of verdicts;
  different models, attempts that accept different sets of them, and runs of the
  rules that overlap are covered by the proofs only. One call is enough since
  statements on different calls do not interact except through the batch, which
  the proofs cover too. Of the five sets of traits one makes the call a candidate
  by its ticker, one because it is ready, one because it is recent; one lacks just
  the transcript and one has nothing but it, so that each condition of the buckets
  decides alone. Two audit rows, so that one can be a second attempt's or a
  repeated insert.
- *Prices*: calls 1 and 2 are of tick 1, with horizons at ticks 3 and 4; call 3 is
  of tick 4, for which there is never a candle, until its date is corrected to 2.
  The exchange has candles for ticks 1 and 2, so that a quote is on time, or has
  to be read from an older candle, or is never found, and calls 1 and 2 can from
  tick 4 on never be completed. Three ticks share a cache entry, `Stale` and
  `Tolerance` are one tick. The limit is 2 and the batch 1, so that two such calls
  crowd out the third. One window per refresh, so that refreshes fall behind; two
  connections, so that a release can miss the lock, which one connection holds at
  most twice. The worker gets a job at tick 4 only, the script may be started at
  any time. One fault or step by hand. Without any one of them the instance
  violates its property: in `LosesPriceOnlyIfStale` taking back, `misses`, `vain`,
  `cut` and `OutOfReach`; in `PricesGetRecorded` `Crowded` and `Shadowed(c, q)`; in
  `RefreshLeavesNoGap` the start date; in `PriceNearInstant` `Redated` and the
  lower bound. The instance is too small to need `Redated` in
  `LosesPriceOnlyIfStale`, `Shadowed(c, Entry)` and all of the upper bound.

Deadlock is checked except where the system really stops. In `deploy_inturn` no
commit is left to make, nothing is being built or promoted, and the log of the
run in progress stops every call; in `scaffold_resume` and `scaffold_twin` the
repository is bound or every run refuses to go on; in `promotion_audit` the call
is judged or gone and no audit row is left to open.

**Fairness.** *Queue*: workers that are up execute their next statement
(handlers end; the code sets them no limit), docker restarts those that died
(`restart: unless-stopped`), sent statements arrive, time passes. Nothing
obliges anybody to enqueue, to run the monitor or to fail. *Lock*: a loop that
is up goes on, time passes, and some ended loop is started again, also by
docker. *Deploys*: a call that has begun goes on, and the operator asks for a
deploy again and again (strong fairness, since between two chances a reconcile
may be under way). Vercel owes nothing: a build that is never ready and a
promotion that never lands are among the behaviours, and `EndsDeployedOrStopped`
holds because the code gives up with a divergence. *Scaffolds*: a call that
has begun goes on, and every run id is asked for again and again (strong
fairness: between two chances another call may be under way).
*Promotion*: the schedule brings the verifier's next batch, a batch is continued
or throws, and an attempt that has begun goes on; nothing obliges anybody to
begin one, to run the rules or to let a call turn. *Prices*: time passes, the refresh runs whenever it is behind, a
repair that has found its candle writes it, a matching process goes on, the pool
closes idle connections and the schedule starts the script again; the worker's
own jobs and all that is done by hand are not promised. The outbox has safety properties only.

## 5. What is proved

The theorems hold for every value of the constants that meets the named
`ASSUME`s: any number of jobs, workers, attempts, alerts, runners, runs and
faults, and where nothing else is said under every hazard.

| Theorem | Property | Holds |
|---|---|---|
| `TypeCorrect` | `TypeOK` of the queue | always |
| `AttemptsAreUnique` | `UniqueAttempt` | always |
| `AttemptsStayBounded` | `AttemptsBounded` | always |
| `FailureMeansExhausted` | `FailedOnlyWhenExhausted` | always |
| `RunningMeansLeased` | `RunningIsLeased` | always |
| `RunsFollowJobs` | `RunFollowsJob` | `Disciplined` |
| `QueueImplementsLedger` | `KeepsLedger` | `Disciplined` |
| `LockTypeCorrect` | `TypeOK` of the lock | always |
| `OneLoopAtATime` | `OneLoop` | `Spaced` |
| `HolderStaysRecorded` | `HolderIsRecorded` | `Spaced` |
| `AlertTypeCorrect` | `TypeOK` of the outbox | always |
| `RunnersDoNotShare` | `OneHolder` | always |
| `MailedOnceUnlessInDoubt` | `TwiceOnlyInDoubt` | always |
| `NothingLostSilently` | `LostOnlyByFault` | always |
| `OutboxIsKept` | `KeepsOutbox` | always |
| `OptOutIsObeyed` | `StopsAtNextDispatch` * | always |
| `DeployTypeCorrect` | `TypeOK` of deploys | always |
| `ManifestNamesWhatWasLive` | `ManifestIsTrue` | always |
| `NothingIsDoneInDoubt` | `NoCallInDoubt` | `Guarded` |
| `PromotionsLeadForward` | `NoDowngrade` | `Guarded` |
| `RolloutIsKept` | `KeepsRollout` | `Guarded` |
| `ScaffoldTypeCorrect` | `TypeOK` of scaffolds | always |
| `TwiceOnlyIfExcused` | `CreatesTwiceOnlyIfExcused` | always |
| `OnboardingIsKept` | `KeepsOnboarding` | calls in turn |
| `BindingsAreWhole` | `BindingIsWhole` * | calls in turn |
| `PromotionTypeCorrect` | `TypeOK` of verdicts and promotions | always |
| `AuditIsNoOverstatement` | `AuditNeverOverstates` | always |
| `AuditIsCompleteUnlessHit` | `AuditTellsUnlessHit` | always |
| `TrailIsKept` | `KeepsTrail` | always |
| `OnlyApprovedAreRaised` | `RaisesOnlyApproved` * | always |
| `NoneRaisedUnaudited` | `AuditedBeforeRaised` * | always |
| `SecondVerdictsOverlap` | `JudgedAgainOnlyByOverlap` | always |
| `PriceTypeCorrect` | `TypeOK` of prices | always |
| `MatchersAreAlone` | `AloneUnlessCut` | always |
| `PricesAreNear` | `PriceNearInstant` | always |
| `RefreshesLeaveNoGap` | `RefreshLeavesNoGap` | always |
| `LossesAreStale` | `LosesPriceOnlyIfStale` | always |

A property with * is defined beside its theorem and is in no run. It says
plainly one thing that the abstract specification promises too: nothing of a
user who has opted out is claimed (`StopsAtNextDispatch`), a bound
manifest is complete and its secret stored (`BindingIsWhole`), a call is raised
by an approval of that moment (`RaisesOnlyApproved`) and under an open audit row
that names it (`AuditedBeforeRaised`), or by a run of the rules that has put its
`PROMOTE` on record.

`Disciplined`: live Hermes workers keep their leases, statements do not fail and
the monitor is not run; workers may die, replies be lost, and leases of the laptop
runners run out under their work. `Spaced`: starts
of loops do not overlap and cycles keep within `staleLockMs`; loops may die and
pids be reused. `Guarded`: calls come one after the other and leave the choice
of the run to the manifest; everything may fail. *Calls in turn*: `overlap` is
not among the hazards.

The inductive invariants, each conjunct of which TLC has checked as an invariant:

- `QueueInv`. `UniqueAttempt` is not inductive: a claim takes the number
  `attempts + 1`, which is new only because every copy a worker holds is at
  most `attempts` (`Held`). `AttemptsBounded` needs `WithinBudget`, which the
  claim's guard maintains.
- `Discipline` adds `TypesApart` (Hermes workers and laptops hold jobs of their
  own kinds), `OwnsItsRow` (the attempt of the row a worker works on is the
  worker's copy; that of a Hermes worker is running, locked by it, its lease not
  over; that of a laptop is running or pending), `OneLaptop` (no two laptops hold
  one job: it has one attempt, `LaptopAssumption`) and `ClosesInOrder`
  (a worker past its first closing statement finds its own outcome in the row,
  and a row given back is not yet due when the statement is repeated). For Hermes
  the lease, for the laptop the spent attempt is then a lock, `Team(j)` has at most one member, and each step of the queue
  is a step of `JobLedger` or a stutter.
- `LockInv`: `OneAcquires`, `OneLoop`, `LooperIsNamed` (a looping process has
  its record in the file or is writing it), `ReplacerIsAlone` (who has judged the
  file stale finds no loop), with the lemma `StaleMeansFree`.
- `OutboxInv`: outside `doubted`, a row a runner holds is marked and unmailed
  (`HeldIsTaken`) and an unmarked row was never mailed (`UnmarkedIsUnsent`); so
  a claim hands out only what nobody holds and nobody got. `Outbox` also needs
  `Addressable`: once a runner has sorted its batch, what is left of it has an
  address.
- `RecordInv`: what a call is about to record, it has seen in production.
- `DoubtInv`: one call at a time (`Alone`), a deploy past its first event works
  on the run of the manifest and its log has the step pending until there is an
  outcome (`OnRecord`); so after a mutation in doubt the log that the next call
  reads stops it.
- `PromoteInv`: at most one promotion is under way, it leads forward, and it
  belongs to the call that is about to verify it or is in doubt; with
  `DoubtInv` nobody promotes past it.
- `RolloutInv`, on top of these three: what is built has been pushed, and a
  deploy that no longer waits has a build (`ReadyInv`); a deploy that is about to
  record has set the app's address or found it set (`AddressInv`); a deploy is
  at the newest commit there is in production or under way, and so is a
  reconcile that binds what it found (`NewestInv`). Every guard of `Rollout`
  is about the outside world, while the code tests its own log and locals; these
  conjuncts relate the two.
- Scaffolds: `OrderInv` (what a call has left to do and what the log has seen
  make up the plan, the step at hand is pending, and a run has one call at most
  unless two have overlapped) carries `MadeInv`: whatever a run has made is seen
  or pending in its log, or the run is over (`Accounted`), and a call that might
  make it has made it itself just now (`Fresh`). `CreatesTwiceOnlyIfExcused` is
  not inductive without either: a log that forgets what was made looks like a
  new one. `BindInv` says of each id in a log or a call that it exists and that
  its secret is stored once that step is done; a binding then copies truths.
  `DealInv`: the ids in a run's log and calls are the run's own, but for the
  first app, which any run may take (`LogOwn`, `CallOwn`); the secret a call
  knows is the newest webhook's and not stored yet, unless the call is past that
  step (`Spent`); and once the repository is bound, whoever is still under way
  has at most the binding to observe and the registry to write (`Closed`).
- `IInv` of the promotion: a row says what its attempt did (`RowsTrue`), rows are
  disjoint (`RowsDisjoint`), an attempt closes a row of its own (`OwnRows`,
  `AttemptsAgree`) in which nothing stands yet when it raises (`NothingYet`).
  For `AuditTrail`, `Agree` also says that the row of an attempt that has recorded
  has succeeded and that of one that fails is struck and not closed as failed.
  `FreshUnjudged`: the calls a batch counts as fresh have no verdict. `OnRecord`:
  what a run of the rules is about to raise has its `PROMOTE` on record, so the
  lemma `RaisedByTwo` leaves two ways for a call to be raised.
- `LockInv` of the prices: the lock is on one connection (`Exclusive`) and an uncut
  matcher holds it (`MatcherHolds`). `DateInv`: a date is
  the call's first one or its video's (`DateIs`), prices that are recorded, read or
  found are for the date as it is, unless it was corrected (`DatesGood`), and
  without a price at the call there is none of a horizon (`EntryFirst`). `NearInv`:
  what is read, remembered (`Kept`, up to the rounding of the key), found by the
  repair or written is near its instant and in the table. `Covered`: what the
  exchange has before the next window of a refresh under way is in the table, is
  a gap already or precedes the start date. `ReadInv`: what an open batch has
  read as missing is excused (`Excused`: the price is not there, its candle is out of
  the table's reach, or the process is `Mistaken`), so a write that loses a price
  is too.
  That the newest and the nearest candle exist is proved from the
  well-foundedness of the natural numbers, which can be cited with a set in
  place of a predicate.

Only model-checked: `QueueQuiesces`, `LockRecovers`, `EndsDeployedOrStopped`,
`EndsBoundOrStopped`, `AuditRowsEnd`, `EveryCallJudged`, `PricesGetRecorded`.
They are liveness properties under fairness, which need ENABLED and are beyond
this prover, as are induction over data and RECURSIVE operators; the modules
have none of the latter two.

Without their assumptions the conditional theorems are false, of the code as of
the model: `RunFollowsJob` and `KeepsLedger` fail when a lease runs out under a
live Hermes worker, `OneLoop` in `lock_race`, `NoCallInDoubt` and `NoDowngrade` when
calls overlap or name their run, since nothing locks the run, `KeepsRollout` with
them, and `BindingIsWhole` and `KeepsOnboarding` when calls overlap.
`ManifestIsTrue` and `CreatesTwiceOnlyIfExcused` hold there too.

A refinement theorem shows that the code's statements, logs and faults add no
behaviour to the abstract specification. The latter is for the reader to judge:
its guards are what is promised, and nothing in it is a plan the code follows.

## 6. What the code does otherwise

Each is the trace of a run that is expected to violate its property.

| Run | Where | What |
|---|---|---|
| `queue_stale` | `web/lib/pipeline.ts:436` | A job whose worker dies in its last attempt is reset to `pending` with its attempts used up. The claim wants `attempts < max_attempts` and only `retryOrFailPipelineJob` writes `failed`: the job stays pending, and its run running, for good. Jobs of `max_attempts` 1 meet this at their first death. |
| `lock_race` | `web/scripts/run-continuous-data-pipeline.ts:234` | Two loops that start together both find no lock and both run. Exclusive creation (flag `wx`) is not used. |
| `deploy_push` | `whop/deploy.ts:473` | `gitPush` reports a refused push as `success: false`, which nobody reads: the log says `pushed`. |
| `scaffold_twin` | `whop/scaffold.ts:1084` | A resume that finds two apps of its name ends as `ambiguous-target`. The fold drops the pending step and `collectWhopStatus` does not stop for that state, so the next call of the run creates another app, where `whop_auto/README.md:293` says to stop on ambiguous targets. |

Three more were met and are not runs. The monitor resets a row it has read as stuck
although it may have been claimed again since (`web/scripts/pipeline-monitor.ts:52`),
which the hazard `monitor` of `queue_chaos` includes. A mail the service accepts
after `sendEmail` has timed out is reverted and mailed again
(`web/lib/alert-jobs.ts:183`), which `TwiceOnlyInDoubt` names. A run of the rules
that dies between its record and its `UPDATE` leaves a `PROMOTE` that is never
applied (`web/scripts/audit-recompute.ts:492-496`): a call with a decision is not
selected again.

## 7. What is not modelled

- The other Whop skills and the state manager: planned, section 2.
- Migrations: every file is applied again each time, idempotently, and nothing
  remembers it; beside the schema there is no state. Webhooks of customers: a
  few attempts within one call and one row that records the outcome.
- Scoring, statistics, backtests: floating-point formulas over query results.
  Their rounding and eligibility rules are candidates for bounded checks.
- Extraction, validation, transcript scraping: text and prompts.
- Read API, pages, reports, authentication: reads and stateless checks.
- Story engine, library, control bridge, gateway and VM scripts: commands and
  request handlers of one process each; vendored, copied and generated trees,
  among them `control-plane/composio`, which is most of the source lines.
- Within the modelled parts: the child process of a continuous cycle, which
  outlives a loop that dies; a torn last line of a run's log; the two writers of
  a manifest that overlap; starvation behind alerts without an address; the modes
  of `audit-recompute.ts` that an operator calls by hand without `--valid-only`, and
  the repair in `backfill-public-integrity.ts:121-133`, which write any confidence,
  a lower one too; `--start-after-id`, with which an operator goes past the calls
  that crowd the others out; several calls of one video, which one statement
  redates; gaps that the fallback or the bulk load leaves below the candle it
  stores, which no property forbids.
