# gênio: a verification project in TLA+

gênio turns a prompt into a cited, reviewable playlist and publishes it to the
Apple Music library of its owner. A React client talks through a signed gateway
to a Fastify API; the API and one or more worker processes share one Postgres
database. What makes the system hard is not the music but the durability: a run
takes minutes to days, its steps are jobs in a Postgres queue, and several
workers lease, lose, retry, pause and cancel them while visitors and the owner
send requests. This project models that part first, then the part where a
mistake cannot be undone, the writes to Apple, and then the services a run
depends on while it waits, pays, caches and searches.

## Inventory

| Component | State | Operations | What is hard, and what makes it correct |
| --- | --- | --- | --- |
| **Job queue and worker runner** (`server/repository.ts`, `server/worker-runner.ts`, the triggers of migrations 0013 and 0019) | `job_queue` rows, `playlist_execution_attempts`, `research_runs.status`; in each process the map `active`, the flags of each execution | `leaseNextJob`, `renewJobLease`, `beginPlaylistExecutionAttempt`, `completePlaylistExecutionAttempt`, `discardPlaylistExecutionAttempt`, `quarantineCanonicalExecution`, `completeJob`, `failJob`, `deferJob`, `cancelLeasedJob`; cancel, delete, pause, publish requests; SIGTERM | Leases expire under a working handler, another worker takes the job, one process can hold two executions of a job. An overtaken execution must be harmless, lanes and capacity exclusive, no run stranded, no job unsettled. |
| **Apple publication** (`server/publisher.ts`, `publication-completion-fence.ts`) | manifest, volumes with the Apple playlist id and the submitted count, orphans | create playlist, append batches of 25, reconcile the visible prefix, abandon and replace, commit completion | Apple can apply a mutation and lose the answer, and reads lag behind writes. The published playlist must be the exact ordered manifest, without a duplicated batch. |
| **Apple write gateway** (`apple-write-gateway.ts`, `acquireAppleWritePermit`) | token bucket row, advisory lock, run control state | acquire a permit, mutate, release | The fences (cancellation, pause, authorization, contract) must be read under the lock the mutation holds. The bucket is refilled by the clocks of the processes and spent by a transaction that can be lost: the rate must hold for all replicas together. |
| **Dependency circuit, blockers, resume** (`dependency-circuit-v1.ts`, `dependency-resume-v1.ts`, `execution-fence-v1.ts`) | blocker rows with the opening of the circuit and the retry count, the checkpoint of the stage | decide the next retry, mark the decision, resume after it | Retry slots 5 min, 30 min, 2 h, 6 h, 12 h inside a window of 24 h, restarts between them. No retry before the provider's Retry-After, a window no restart extends, a decision that can be resumed, always a next step. |
| **Provider cost ledger** (`reserveProviderCost`, `reconcileProviderCost`, `releaseProviderCost`) | reservations, ledger, per-run totals | reserve, reconcile, release, expire | Calls that outlive their reservation, two executions under one key. The columns of a run equal its rows, an answer that is used is paid for once, a ceiling is passed only by what answers cost beyond their reservation. |
| **Apple catalog cache** (`apple-catalog-cache.ts`) | entries, lease rows, in each process the call under way and the timer that renews its lease | look up, join, wait, fill, renew, release | Two owners after an expiry, followers of a call that fails, failures of the cache tables that must not fail the request. One fill at a time, no release of another's lease, no refusal without a fill. |
| **Capability tokens and sessions** (`capabilities.ts`) | tokens, sessions, access rows | create, exchange once, revoke, delete access | A token is exchanged once; no session survives its last access. |
| **Publication reconciliation, playlist resolution** (`publication-reconciliation-v1.ts`, `playlist-resolution-service-v1.ts`) | reconciliation facts, resolution projections, outbox | project the state of a run for visitor and owner | Projections must agree with the facts they are computed from. |
| **Optimizer and sequencing** (`playlist-optimizer-v1.ts`, `lib/playlist-sequencing.ts`) | none (pure) | select and order tracks under constraints | Budgets of the search, ties, infeasible inputs. |
| **Pipeline V3 retrieval and worker execution** (`pipeline-v3-*.ts`) | checkpoints; in memory the state of every strategy, the outages of the providers, the pool | waves of discovery calls, qualification, one semantic recovery, the reason to stop and the outcome | Strategies share providers: an outage must not become a shortage of tracks, a failed integrity never a playlist, and the loop must end within its allowance. |
| **Handlers and providers** (`research.ts`, `matching-service.ts`, `openai.ts`, `apple.ts`) | the resume checkpoint, a checkpoint per pass and per counted gap pass, the blocker of the research provider | run a pass, hand over to the next, repair a lost hand-over; block, retry, resolve, wake for a decision; pause for the budget | A pass is repeated by crashes, retries and pauses, and each hand-over is several writes. A gap pass is counted once, an outage is never handed on as a shortage, research never stops without work. |
| **Briefs, guidance, contracts, query plans** | immutable revisions | validate, hash, revise | A run works for one contract revision. |
| **Evidence graph** | append-only facts | append, read | Provenance. |
| **API and gateway** (`server/index.ts`, `worker/index.ts`) | none of their own | route and authenticate requests | The requests that change queue state are actions of `JobQueue`. |
| **Feedback and notifications** (`feedback.ts`, `notifications.ts`, `server/repository.ts`) | reports and their events in `settings`, the run's accesses, outbox rows | capture a failed run, suppress, delete with the access, sweep; enqueue, deliver | Captures race with deletions by visitors, owner and retention, with locks in different orders. A deleted prompt is not reported, a failure is reported once, suppression lasts, nothing outlives the run. |
| **Web interface**, **release tooling** | none durable | | Out of scope. |

How they interact. A request writes `research_runs` and enqueues a job. A worker
leases it, begins an *execution attempt* for the lease generation (V3 runs only)
and calls the handler for its kind: research, matching (which enqueue the next
job) or publication (which calls Apple through the gateway). Handlers write
through a *write fence* that re-reads lease, generation and attempt in the same
transaction. Provider failures open blockers and defer the job, paid calls go
through the ledger. Everything shared is in Postgres; an in-process
`AbortController` and the map `active` are the only other state.

The hazards of this code, each at its line and with the properties that cover
it, are listed in `PROJECT.json`.

## Modules

| Module | Contents |
| --- | --- |
| `JobQueue` | The queue, its triggers, the runner and the requests; its properties |
| `MCJobQueue` | Instances of it for TLC |
| `JobQueueProofs` | Theorems about it, for every value of the constants |
| `ApplePublication` | One publication: `publishManifest`, its reconciliation and fences, and Apple as it sees it; its properties |
| `ExactPublication` | What publication promises; `ApplePublication` implements it |
| `MCApplePublication` | Instances of `ApplePublication` for TLC, for its findings |
| `ApplePublicationProofs` | Theorems about it, for every value of the constants |
| `ExactPublicationProofs` | Theorems about it that need Apple settled at a takeover: the refinement of `ExactPublication` |
| `DependencyCircuit`, `DependencyCircuitProofs` | The outage of a provider in the life of one V3 research run: queue, handler, checkpoint, blocker, decision, resume; theorems |
| `ResearchPasses`, `ResearchPassesProofs` | The passes of one factual V2 run, their hand-over, its blocker and its budget pauses; theorems |
| `MCOutages` | One instance each of `DependencyCircuit` and `ResearchPasses` for TLC |
| `CostLedger` | Reservations and reconciliations of paid calls |
| `CatalogCache` | One key of the catalog cache, its processes and requests |
| `Retrieval` | The loop of `executeRetrievalV3` |
| `AppleWriteGateway` | The lock and the token bucket in front of every write to Apple |
| `MCServices` | One instance each of these four services for TLC |
| `ServicesProofs` | Theorems about the four, a part for each |
| `SharedRun`, `SharedRunProofs` | The accesses of a reused run, the reports of its failure, and their deletion by visitors, owner and retention; theorems |
| `FiniteSetLemmas` | Extremes of finite sets of numbers and sums over finite sets, for the proofs |
| `MCPublishedRun` | One instance each of `ApplePublication` and `SharedRun` for TLC |

How they compose. `ApplePublication` takes from `JobQueue` that executions are
numbered and only the last passes a fence, and from `AppleWriteGateway` that one
permit is open at a time; `DependencyCircuit` takes from `JobQueue` that the
executions of a job follow each other, and from `Retrieval` the ways a stage can
end. `ResearchPasses` takes the same from `JobQueue`; a run has one of the two
pipelines, so `DependencyCircuit` and `ResearchPasses` share no state and one run
checks them side by side: `pipeline` names the one a behaviour is about. The four
services share no state either, and `service` names the one. `SharedRun` takes a run
where `JobQueue` and `ApplePublication` leave it, complete or failed; `MCPublishedRun`
checks it beside publication, and `part` names the one.

### JobQueue

`job[j]` is the `job_queue` row (status, owner, `lease_epoch`, attempts; `live`
is `lease_expires_at > now()`, `due` is `available_at <= now()`); `attempt[j][g]`
the row of `playlist_execution_attempts` of lease generation `g`; `run[r]` the
status of the run. `exec[e]` is one call of `WorkerRunner.execute` with its
local flags (`leaseLost`, the aborted signal, `controlAction`) and the place it
is at; `active[w][j]` the map of the process. The map is keyed by the job:
when a process leases a job again while an older execution of it is alive, the
entry is the newer one's, and the older one reads the newer one's control action.

| Code | Actions |
| --- | --- |
| `leaseNextJob`, one transaction under the advisory lock: exhausted leases are swept first, and that commits whether or not a job is leased | `Sweep`, `LeaseNext` (both apply the sweep) |
| `fence_job_lease_epoch`, `close_reclaimed_playlist_execution_attempt` | `NextEpoch`, `CloseRunning`, applied by every action that updates a row |
| `execute`: cancellation before start, begin, handler, finish of the attempt, blockers, settlement | `Start`, `BeginAttempt`, `CommitOutcome`, `HandlerReturns`, `HandlerThrows`, `HandlerAborts`, `FenceRefuses`, `FinishAttempt`, `ResolveBlockers`, `Quarantine`, `Settle`, `Discard` |
| the `catch` block: classification of the error | `Raise` and `CaughtPlan`, part of the action that throws: the code is synchronous from the throw to the read of the cancellation |
| a repository call that throws, at each of these steps | `CallFails` |
| renewal timer, `enforceControls`, `stop`, the end of a process | `RenewalRefused`, `RenewalFails`, `EnforceControls`, `Stop`, `Exit` |
| requests | `CancelByVisitor`, `CancelByOwner`, `DeleteByVisitor`, `Pause`, `Unpause`, `RequestPublication` |
| clocks | `LeaseExpires`, `BecomesDue` |

Abstractions. Time is abstract: a lease is live until `LeaseExpires`, at any
moment, so every order of expiry, renewal and poll occurs. A renewal that
succeeds changes nothing. The candidate order (priority, age) is any order. The
sweep takes all exhausted leases; its LIMIT is not reached. A run keeps one
contract revision. The deferral of publication while the Apple authorization is
missing is the error `publication_paused`. The classes of errors stand for their
catch branches: an optimizer out of its compute budget is `transient` before the
last attempt and `rejected` on it. Two ghosts, `overtaken` and `blame`, are read
by properties only.

Not modelled: brief, notification and Apple authorization jobs; queue classes,
worker protocols and capability vectors (the worker here serves all classes);
V2 decision-only jobs; catalog recovery settlement; runs waiting for Apple
authorization; retention; the health record of a worker; errors raised before
the attempt begins because the release identity differs. `enforceControls` reads
the pause settings once and then awaits the state of each run; each entry is one
action here.

### ApplePublication

`job`, `run`, `published`, `row`, `recon`, `orphans` and `auth` are the database:
the publication job, `research_runs.status`, the state of the manifest revision,
the `publication_volumes` row, the reconciliation row, `orphan_playlists` and the
stored Apple authorization. `permit` is the transaction of
`acquireAppleWritePermit` that is open. `exec[e]` is the call of `publishManifest`
under lease generation `e`: the call it is about to make and its local variables
(`volume`, `submittedCount`, the last observation, `reconciliationBase`,
`activeAuthorization`). `lib` is the Apple library, `seen` what its reads return
now, and `late` the writes whose caller has given up and that Apple may still
apply. The queue is reduced to what `JobQueue` shows: executions are numbered by
generation and only the last one passes a fence.

| Code | Actions |
| --- | --- |
| `assertPublicationControl` before each group of writes: cancellation, pause, authorization and its key | `ControlPasses` in the action that follows it, `ControlRefuses`, `Pause` |
| catalogue preflight, `revalidateManifestForPublication`, `commitCanonicalPublicationPreflightDecision` | `Preflight`, `NoTracksLeft`, `Decide` |
| `beginPublicationReconciliation`, `updateCanonicalPublicationRun`, `getOrCreateVolumes` | `Begin`, `Pend` |
| `ensureApplePlaylist`: find by marker, create, find again after an uncertain answer, store the id | `Control`, `Find`, `AskToWrite`, `Answered`, `TimesOut`, `Store` |
| `withAppleWritePermit` | `AskToWrite`, `PermitRefused`, `Release`, `LoseSession` |
| `appendExactVolume`: its loop, `recordProgress`, `advanceSubmittedCount`, the verification of an uncertain append | `LoopPC`, `Announce`, `Look`, `LookFails`, `Note`, `Raise`, `AskToWrite`, `Answered`, `Rejected`, `WriteDenied`, `TimesOut` |
| `abandonPlaylist`, two transactions | `Orphan`, `Replace` |
| share link, `markVolumeComplete`, progress, `commitPublicationCompletion` | `Share`, `Finish`, `Confirm`, `Commit`, `CommitRefused` |
| the `catch` of `publishManifest`: authorization lost, conflict, anything else; the worker's settlement | `Block`, `Await`, `Seal`, `Fail`, `Defer`, `Settle` |
| a fence that refuses, a call that fails, a process that dies | `Refused`, `CallFails`, `ReadDenied`, `Vanish` |
| lease, cancellation, new authorization, `recoverWaitingApplePublicationJobs` | `Take`, `LeaseExpires`, `Cancel`, `Reauthorize`, `Recover` |
| Apple, and the owner in Apple Music | `Applies` (in `Answered` and `LateArrives`), `Shows`, `OwnerEdits`, `OwnerDeletes` |

A playlist of the library has `held`, the number of manifest tracks it holds in
order, and is `broken` when it holds anything else. An append adds its batch at
the end whatever the list holds, so an append that is applied twice, or after
another one, breaks the list; nothing in the model says it cannot be.

Abstractions. A batch is applied whole. `observeStablePrefix` is the read that
decides. `advance(complete)` after the commit repeats what the commit wrote.
`Confirm` writes the progress of the last volume and of the manifest, which for
one volume is one row. An append that fails with a status and is retriable is
uncertain, so the branch that counts stalled attempts is not reached and is left
out. A job is recovered when the old one is settled. One budget, `troubles`, pays
for all failures: a crash, a lost call, a pause, a cancellation, an edit.
`SettledTakeover` says that a job is leased again only when no write is in flight
or late and reads have caught up; a lease lasts five minutes and a POST is
aborted after thirty seconds, but nothing in the code enforces it (the hazard at
`repository.ts:9228`). The runs assume it, and the theorems of
`ExactPublicationProofs`; those of `ApplePublicationProofs` do not.

Not modelled: several volumes and retired ones, a preflight that replaces the
revision, decisions with partial consent, the unfenced path of legacy runs, the
two executions of finding `same_owner`.

`ExactPublication` is the abstract specification: a list that is extended by at
most a batch, in order, or restarted, and published once when it is the whole
manifest. `Exact` maps the playlist of the stored attempt to it.

### DependencyCircuit

`task` is the latest research job of the run, `research` its status, `blocker`
the latest row of `playlist_run_blockers` for the provider, `checkpoint` that of
the retrieval stage, `handling` the execution of the job and the place it is at,
`clock` the time in units of the first slot.

| Code | Actions |
| --- | --- |
| `leaseNextJob`: grant, and the sweep of an exhausted job | `Lease`, `SweepTask` |
| `execute` before the handler: cancellation, the blocker whose window has passed | `BeginTask`, `EnterStage`, `Mark`, `MarkStale` |
| `PipelineV3WorkerExecutionService.process`: what an earlier execution left in the checkpoint | `StageDone`, `StageRethrows`, `StartStage` |
| ... and what a call or the optimizer comes to; checkpoint and run are two writes | `Unavailable`, `RefuseSave`, `RefuseRun`, `BreakSave`, `BreakRun`, `Overrun`, `Fault`, `SaveQuestion`, `AskScope`, `QuestionFails`, `Persist`, `SaveComplete` |
| `execute` after the handler | `CancelReturned`, `ResolveBlocker`, `CompleteTask` |
| the `catch` block: `decideDependencyCircuitV1`, `openPlaylistRunBlocker`, `markPlaylistDependencyDecision`, the second pass of the optimizer, quarantine, `failJob` | `CancelFailing`, `Classify`, `OpenCircuit`, `DecideLate`, `DecideStale`, `RetryCompute`, `QuarantineRun`, `FailTask`, `Requeue` |
| requests, losses, time | `CancelRun`, `Resume`, `LoseExecution`, `Tick` |

`Opened`, `Decided`, `FirstFailure`, `Until`, `KnownAfter` and `RetryTimes` are the
decision and the two upserts of the blocker row: an open row keeps its first
failure, its horizon only shrinks, its count only grows. A stage that ends in a
question (a decision about its result, a legacy plan, a review of its corpus) saves
its checkpoint as `complete` or `owner_action_required`, the checkpoint `question`
of the model (`SaveQuestion`), and tells the run in a later statement (`AskScope`),
as a failed integrity does (`BreakSave`, `BreakRun`). The blocker of a question is
not the provider's and is left out.

Abstractions. Jitter is a set of times per slot. `queued`, `researching` and
`continuing_research` are one status. Statements of an execution take no time;
calls and computations do. One execution at a time: what an overtaken one may do
is `JobQueue`'s subject. One dependency, the durable lane, the choices resume and
cancel.

### ResearchPasses

`run` is the status of the run, its phase as far as `repairCheckpointedHandoff` asks
for it (`research_complete` or another one) and its `noNewGapPasses`, `resume` the checkpoint of
that name, `passes[p]` the checkpoint of a pass, `advanced[p]` that of a counted gap
pass, `coverage` what the saved candidates amount to, `jobs` the research jobs by
their dedupe keys, `matching` the matching job, `researchBlocker` the checkpoint
`research_provider_blocker_v2` with its row, `worker` the execution under way.
Passes are numbered: the ordinary ones, then the gap passes.

| Code | Actions |
| --- | --- |
| `leaseNextJob`, `completeJob`, the matching job | `LeasePass`, `SweepPass`, `FinishPass`, `RunMatching` |
| `markPipelineV2ProviderDependencyDecision`, `claimResearchProviderRetry` | `WakeForDecision`, `ClaimPass` |
| `processJob` before the pass: the resume checkpoint and `repairCheckpointedHandoff` | `Repair`, `BeginPass`, `StartRun` |
| `runPass` | `Replay`, `ReportPass`, `EndSegment`, `ExhaustBudget`, `ProviderFails`, `ProviderRejects` |
| `resolveResearchProviderBlocker`, with its watchdog job | `ResolveOutage` |
| `processJob` and `advance` after the pass, one action for each write | `SaveSegment`, `SaveNextPass`, `EnqueueNext`, `PrepareAdvance`, `SetCounter`, `Converge`, `SaveConverged`, `SaveGap` |
| `handoffBestEffortResearch` | `HandOff`, `EnqueueMatching` |
| the `catch` blocks of handler and worker | `SavePaused`, `AwaitBudget`, `PersistOutage`, `QuarantineResearch`, `FailPass` |
| the owner's approval and its job, failures, time | `ApproveBudget`, `EnqueueResume`, `DieInPass`, `WindowPasses` |

Abstractions. A segment is one turn: what a turn saves within a segment is asked
again or replayed by the provider's idempotency key. `coverage` grows by any amount.
The retry schedule is the number of slots and the horizon, which may pass at any
time; the schedule itself is `DependencyCircuit`'s. `matched` stands for every
status from matching on. The branches that refuse a pass beyond the limits before
it begins are not reached while the limits of a run are fixed, and are left out.
Not modelled: overtaken executions (the claim token and the lease fence them, as in
`JobQueue`), cancellation, the fast and curated routes, the visitor's answer to a
decision, the matching handler.

### CostLedger

`reservation[k]` is the row of `cost_reservations` of an idempotency key (one per
run and operation), `account[r]` the cost columns and the status of a run,
`ledger[k]` the ledger rows of a key, `month` what the ledger holds for the month,
`paid[e]` the metered call of an execution. `Reserve` and `Reuse` are
`reserveProviderCost`, each with the release of what has lapsed; `Answer`, `Fail`,
`Crash` are the provider; `Reconcile`, `ReconcileAgain`, `ReconcileRefused` and
`Release` are the endings of a call; `Approve`, `ApprovalExpires`, `CancelAccount`
the owner's and the visitor's. Not modelled: the ceilings of brief requests, the
cost column of the contract attempt, prices.

### CatalogCache

One key: `entry` and `fillLease` are its two rows, `inflight[p]` the call a process
lists, `request[c]` one call of `cached` and the place it is at, `renewal` the
timers that have fired. `Look`, `LookFails`, `Purge`, `Join`, `Acquire`, `Poll`,
`Retry`, `ProceedUnleased`, `AbortWait` lead to a call; `Answered`, `Store`,
`StoreFails`, `FetchFails`, `ReleaseFill`, `ReleaseFillFails` end it; `SendRenewal`,
`Renew` and `RenewFails` are the timer, whose statement may arrive after the
release. A tick is one poll; statements take none. `faults` counts failures of
the cache tables, which the code swallows; `sinceFill` is read by a property only.

### Retrieval

`strategy[s]` is the mutable state of a strategy, `outage[d]` the
`unresolvedStrategyIds` of a provider, `pending` the answers of a wave that are
still to commit, `current` the strategy whose page is qualified, `pool` the
recording families as far as the goal, `stop` and `outcome` the reason to stop and
the status. The tests at the head of the loop are `BudgetEnds`, `DeadlineEnds`,
`SatisfiedEnds`, `CostEnds`, `RoundsEnd`, `CandidatesEnd` and `ExhaustedEnds`;
`LaunchWave` starts a wave of strategies that share no provider; `LocalPage`,
`DiscoverBudget`, `DiscoverFails`, `ProofFails`, `Discovered` commit an answer;
`Qualified`, `QualifyBudget`, `QualifyFails`, `ClaimRepair`, `Repaired`,
`RepairFails` and `RepairBudget` finish its page. `Escapes` are the errors that
leave the retrieval, `OptimizerExceeds` that of the optimizer whose compute budget is
exhausted, at the head of the loop or behind it. `FinalReason` and `StatusOf` are
`finalStopReason` and the boundary of publication.

Abstractions. What a page holds is data: how many new families and cost units it
brings. The canonical contract is modelled, where the optimizer decides about the
final selection and finds at the end what it found at the head of the loop. The
bound on raw candidates may stop the loop at any time. No adapter in the
repository reports an open circuit itself (`providerCircuitOpen`), and the empty
result of an unconfirmed plan has no loop; both are left out, as are legacy
contracts, governed corpora and compute allowances.

### AppleWriteGateway

`bucket` is the row of the settings table, `uncommitted` that row in the open
transaction of the permit, `holder` the owner of the advisory lock, `writer[w]` the
call of `acquireAppleWritePermit` or the write it was given for. A reading of a
clock is the time plus any of `Offsets`, so processes disagree and clocks are set
back. `Permit` takes a token in a transaction that `ReleasePermit` commits and
`LosePermit` loses; `Short` commits the refill and waits for a token; `Wake`,
`StaysBusy` and `PermitDenied` are the bounded wait. `credit`, `gained` and `lost`
are ghosts: what a bucket with an exact clock would hold, the time that was
counted twice, the lost sessions. All processes have the same policy: it is part
of the hash of their configuration.

### SharedRun

Its processes are transactions at READ COMMITTED: visitors that join or leave the
run, captures (a hook or a heartbeat), the owner, and retention. `canonical` (the row of
the run), `access`,
`report`, `event`, `due` are rows as committed. `pc[p]` is the statement that `p`
executes next; `target`, `drop`, `unmapped` and `last` say what its open transaction
has read or deleted. `LockedBy(p)` and `Wants(p)` are its locks, rows as well as
`pg_advisory_xact_lock`, derived from the two; a statement runs when it is `Granted`, and a
commit writes and unlocks in one step. A lock of one statement and the next are one
step where nothing that holds the second waits for the first. `Abort` is the
database's deadlock detection: some member of a `Cycle` is rolled back, and nobody
retries. A deletion that was refused is not requested again, because it would start
from the same rows.

| Actions | Code |
| --- | --- |
| `FindReusable`, `InsertAccess`, `CommitAccess` | `createRunIdempotent`: the lookup takes no lock, the foreign key of the access does |
| `RequestDeletion`, `LockOwnAccess`, `DeleteReports`, `DeleteEvent`, `CountAccesses`, `LockRun`, `CommitDeletion`, `CommitPurge` | `deleteRunAccess`; when no access is counted, reports and event are searched again by run |
| `Collect`, `LockSource`, `LockSourceAccess`, `ReadEvent`, `ReadExisting`, `CommitReport` | `captureAutomaticRunFailure`, `persistAutomaticFailureFeedback` |
| `PreviewReport`, `LockReport`, `CommitSuppression` | `deleteFeedbackSubmission` |
| `LockForPurge`, `DeleteRun`, `CommitRetention`, `SweepReports`, `SweepEvent` | `runRetentionSweep`, `purgeRunToTombstone` |
| `FailRun` | `updateRun`. A run is reused only while it is complete, so a failed run has several accesses only when it was reopened, as in the finding `rerun` |

## Runs

| Run | Instance | Question |
| --- | --- | --- |
| `fencing` | 1 V3 job, 3 attempts, 2 workers with 2 executions; a request or a failing call on the last 2 attempts, both on the last | Is an execution that lost its job harmless, and do job, attempt and run stay together? `AttemptAuthority`, `StaleHarmless`, `NoStrandedRun`, `CompletionFinal`, `TypeOK` |
| `lanes` | 2 deep and 2 fast legacy jobs, 2 workers, capacity 2 | `LaneExclusive` |
| `pauses` | 1 V3 publication job on its only attempt, a pause or deferral, a request | `JobsSettle`: without the refund of `deferJob` it fails |
| `publication` | 2 batches, 1 replacement, 5 generations, 2 failures; 2 visitors, 2 captures, 3 identities of reports; 132,571 states | Is what is published exact, does the permit lock what it was given for, and does publication end? `PublishedExact`, `SubmittedIsApplied`, `PermitLocks`, `PublishedRunEnds`, `ImplementsExact` (the abstract specification is implemented). Can a deleted prompt stay reported, a failure be reported twice or never, or anything outlive the run? `DeletedNotReported`, `OneReport`, `SuppressionKept`, `FailureReported`, `NothingLeft`; `RunTypeOK` |
| `outages` | V3: 2 slots, a window of 3, 5 attempts, 1 resume, 1 lost execution. V2: 1 ordinary and 2 gap passes of 2 segments, 1 retry slot, 2 interruptions; 737,557 states together | Does an outage keep its window, heed the provider, spare the job's attempts and come to a verdict that stands and can be resumed? `OutageNotFailed`, `WindowAnchored`, `RetryAfterKept`, `ResumableDecision`, `VerdictKept`, `StageKeepsWork`, `OutageSettles`. Do the passes count right, hand nothing on in an outage, and end? `NoNewExact`, `OutageHoldsRun`, `ResearchSettles`; `OutagesTypeOK` |
| `services` | 2 paid calls of a run and 2 executions; 3 requests in 2 processes; 4 strategies, 2 providers; 2 writers, a bucket of 2 tokens; 947,259 states | `CountersMatch`, `EvidenceAccounted`, `BudgetHeld`; `SingleFill`, `BusyWhileFilled`, `LeaseKept`; `OutageNotScarcity`, `SpendBounded`, `RetrievalSettles`; `RateHeld`; `ServicesTypeOK` |
| `same_owner`, `shutdown`, `resume`, `rerun`, `orphan`, `last_deletion` | as small as the behaviour allows | Findings, below |

Bounds of `JobQueue`. One job is enough for every property about one job's generations,
because jobs meet only in the lane and capacity tests, and `lanes` has four. `fencing`
is three instances (`FencingInit`): an undisturbed job whose first execution was
overtaken in its handler, two attempts ahead of it; a job that was retried once, with
a request or a failing call on the two attempts that are left; and one that was
retried twice, with both on the last. Two
workers and two executions give the takeover; three attempts give the case that
a worker that was overtaken leases the job again (ABA), which needs two
generations after the first. `MaxEpoch` is at least the number of leases the
attempts allow; where requests or pauses give attempts back it bounds the
instance. `MaxPauses`, `MaxRequests` and `MaxFaults` are counters in the guards
of the pauses, the requests and the failing calls; one of them, at every point
of an execution, meets every interleaving with a takeover, and the theorems hold for
any number of them from the initial states of the program (`Spec`). Deadlock is not
checked: when every job is settled the queue stops. Executions and workers are symmetric in
the runs whose properties are not temporal formulas with fairness.

Bounds of `ApplePublication`. Two batches of one track have a first, a next and
a last high-water mark, and the theorems hold for every `Count` and `Batch`. One
replacement has a volume with a past and the refusal of the next one. `MaxLists`
exceeds the replacements by the playlists that lost or late creations leave.
Two failures make any pair of an uncertain write, a lost lease, a late write and a
cancellation meet; generations, playlists and keys are as many as two failures
can use up, so that no behaviour stops at a bound. Deadlock is not checked: a
publication ends.

Bounds of `DependencyCircuit`. Two slots have a first, a next and a last one, the
second with jitter; the window of three units ends after the last slot or before
a Retry-After, which is inside the window or beyond it. `MaxAttempts` is the least
number for which `OutageNotFailed` promises anything. `LastOutage` keeps the outage
and its window inside the clock, `MaxWait` says how long a job that may be leased
is left alone, so that `MaxTime` is enough for a window, a resume and the second
window. One lost execution comes at every place of an execution.

Bounds of `ResearchPasses`. One ordinary pass hands over to the first gap pass, and
two gap passes are what convergence needs and the least that
`researchGapPassLimit` allows; two segments have one that continues and one at the
limit. One retry slot gives a retry, and after it the wake at the horizon.
`MaxInterruptions` counts outages, exhausted budgets, ended segments, crashes and
failing statements together: two of them, at any two places, are an outage and
a crash of its retry, a pause during a retry, or a crash on each attempt. Deadlock
is not checked in this run: runs end.

Bounds of the services. Two operations of one run compete for its budget, and two
executions share a key; the budget has room for one call and not for two. Two
requests share a process and can join, the third competes from another one; a
lease of two ticks is outlived by a request that waits two, one failure of the
tables and one dead process come anywhere. Of the strategies one is local, one
asks a hosted search, one Apple, and a fallback both, so that waves, shared
outages and tiers occur; the allowance ends retrieval by calls, by cost or by the
goal. Two writers, a bucket of two tokens and a wait of one token's time make the
gate busy, short and lost; `MaxGained` bounds the time that clocks add. Deadlock is
not checked in this run either: runs end, budgets are used up, clocks stop.

Bounds of `SharedRun`. Two visitors are the last two, or the last one and one who joins;
two captures are a hook and a heartbeat, and each may run any number of times. A
report, the one the owner looks at and the next one need three identities. Deadlock
is checked in this part of the run: every cycle of waits must be seen by `Abort`.

Fairness of `JobQueue`. Executions go on (handlers have timeouts and are aborted; the event
loop does not stop), workers that are up poll, leases that nobody renews expire,
due times pass, and an owner lifts a pause in the end. Crashes, stops, requests,
errors and failing calls have no fairness. `Stop` and `Exit` keep one worker up:
without workers nothing is settled. A restarted process is a new identity,
because its id is random; so `Exit` is final, and the other worker stands for
its replacement.

Fairness of `ApplePublication`. Executions go on and their reads end (each call
has a timeout, and a write that Apple can only refuse is refused), workers poll,
Apple applies or drops late writes and reads catch up, the lease of a dead
execution expires, validation finds the waiting run, and the owner authorizes
again in the end. No failure has fairness.

Fairness of `DependencyCircuit`. A worker polls and finishes what it began
(`WF(Worker)`), and time passes (`WF(Tick)`). Losses, requests and the ends a call
may come to have none: `OutageSettles` holds for a provider that never recovers.
Fairness of `ResearchPasses`. Workers poll and finish what they began, an approval
enqueues its job (`WF(Research)`), and the window of an outage passes
(`WF(WindowPasses)`). The owner's approval, crashes and failing statements have
none. `ResearchSettles` exempts the states of `Stranded`, which are listed below.
Of the services only `RetrievalSettles` is a liveness property; it needs that
each call is answered, refused or aborted (`WF(CallStep)`): adapters have timeouts
and the deadline aborts them.
Fairness of `SharedRun`. The database queues those who wait for a lock, so a deletion or
a purge that is granted its lock again and again is not overtaken for ever
(`SF(DeletionStep)`, `SF(PurgeStep)`); heartbeats and sweeps recur, requests that
began go on, and cycles of waits are found (`WF`). Requests, the owner's deletion,
the failure and the age of the run have none.

## Theorems

`JobQueueProofs` proves, for any jobs, runs, workers, lanes and bounds, that
`Spec` implies the type invariant and each safety property of the passing runs, and
three that no run repeats (`LeaseOrder`, `CapacityRespected`, `ClosedAttemptsFinal`):
`TypeInvariant`, `GenerationsOrdered` (`LeaseOrder`), `LanesExclusive`,
`CapacityHolds`, `AttemptsAuthorized`, `AttemptsClosed`, `StaleIsHarmless`,
`CompletionIsFinal` and, assuming that no job is a publication,
`RunsNotStranded`. The assumptions are those beside the constants; only
`CapacityHolds` needs the set of jobs finite.

The argument. `TypeOK` and `LeaseOrder` are inductive with `ExecInv`: an entry of
`active` belongs to a running execution of that process and job (`ActiveOwn`), a
V3 handler has begun its attempt (`HandlerBegun`), and the run of an execution
that another one overtook is not reached through its fences (`OvertakenRun`).
`LeaseOrder` is the heart: generations order the executions of a job, because a
row gets a new generation whenever it becomes leased or changes owner. Every
fence compares owner and generation with the row, so an overtaken execution,
whose generation is behind, passes none: that is `StaleIsHarmless`. Only
`Discard` and the closing half of `FinishAttempt` write without a lease, and they
write the attempt of their own, older generation. `LaneExclusive` and
`CapacityRespected` follow from the tests in the only action that makes a lease
live, and from the fact that a renewal does not revive an expired lease.
`AttemptAuthority` follows from the trigger in every action that moves a row and
from `Begun`, which closes the other generations. `NoStrandedRun` holds because
every action that fails or cancels a job writes the run, or finds it decided by
the request that cancelled it; the theorem excludes publication because of the
publish request listed below, which breaks it.

`ApplePublicationProofs` proves, for every number of tracks, batch size,
replacements, generations, playlists and failures, with or without
`SettledTakeover`: `TypeInvariant`, `PermitExcludes` (`PermitLocks`),
`HighWaterApplied` (`SubmittedIsApplied`) and `CompleteIsWhole` (`PublishedHeld`,
the half of `PublishedExact` that says every track is there). The assumptions
are those beside the constants.

The argument. `IInv` adds three parts to `TypeOK` and `PermitLocks`. `LibInv`: what
Apple holds and what its reads return are *marks*, the lengths a list goes through
batch by batch, and reads are behind. `RowInv`: the stored high-water mark is a
mark not ahead of the stored playlist, and the playlist of a published manifest
is whole. `ExecsInv`: the copy of an execution, stale or not, never counts more
than its playlist holds (`ExecOK`), and the copy of the latest execution is the
stored row wherever it is about to write (`CopyOK`). Marks are why an answer may be
believed: an append is answered when Apple has applied it to a list that holds at
least what the caller counted, and as both lengths are marks, the list then
holds the next one (`NextMark`), also when another write came first and the list
is broken by now. That the row of the latest execution is its copy makes
`PermitLocks` and the commit inductive; only the latest execution passes a fence,
so the copies of the others do not matter to the row. Every action is one lemma;
those that only move an execution go through `MoveStep` and `GotoStep`.

`ExactPublicationProofs` proves, for the same constants and assuming
`SettledTakeover`: `CompleteIsExact` (`PublishedExact`: the playlist of a complete run
holds every track, and each once) and `PublicationIsExact` (`ImplementsExact`: every
step extends, restarts or publishes the abstract list as `ExactPublication` allows, or
leaves it). The assumption cannot be dropped: a write of an overtaken execution
that is applied after its successor's spoils the list. The argument
(`WriterInvariance`). `WInv` says whose writes there are: at a takeover none is left, so
that all are the latest execution's (`WriterOK`). They go to the stored playlist of the
stored attempt, which its marker tells from those that were given up
(`MarkersOK`, `StoredOK`). And at most one write to it is on its way, which continues it
where it ends (`LateOK`, `AwaitsLate`): an execution that does not know what became
of its append sends no other one before a read has shown its effect, and what it
knows then is what Apple holds (`LatestOK`).

`DependencyCircuitProofs` proves for any slots, delays, Retry-Afters, windows,
losses and resumes: `CircuitTypes` (its part of `OutagesTypeOK`), `DecisionsResumable` (`ResumableDecision`),
`OpenRunsHaveWork` (`StageKeepsWork`), `OutagesNotFailed` (`OutageNotFailed`),
`WindowsAnchored` (`WindowAnchored`), `RetryAftersKept` (`RetryAfterKept`) and
`VerdictsKept` (`VerdictKept`). The argument. None of these is inductive: each is
about what an execution knows at the place it is at. `IInv` says it for every
place: what the run may be (`VerdictInv`, `UndecidedInv`), that the provider's wish
or the horizon has passed when a job may be leased (`WaitInv`), and how many grants
the slots account for (`AttemptsInv`). The last is what bounds the attempts: a grant
is paid for by a slot, by the second pass of the optimizer, or by the horizon,
after which no provider is called. Each action has two lemmas, for the types and
for the rest with what the step promises.

`ServicesProofs` has a part for each of the four services. The gateway: `GatewayTypes`
and `WritesLimited` (`RateHeld`). What the stored bucket is worth now (`Worth`) is at
most what the exact one allows, plus the token of a permit that is open; a lost
session turns that token into one of `lost`.

The cache, for any finite set of requests: `CacheTypes`, `FollowersHaveCall`
(`FollowsCall`), `LeasesKept` (`LeaseKept`), `AskedOnce` (`SingleFill`) and `BusyForFill`
(`BusyWhileFilled`). The call a process lists is one of its requests and under way, and
a follower's leader is of its own process, so both die together. `FillInv` says when a
request asks the provider safely: under its own lease, which lasts until its next
renewal is due, or, when the renewal is on its way, one period less. While one does,
no other obtains the lease; every request that asks otherwise (`Unsafe`) was let
through by a failure of the tables or by a renewal that failed, so the failures count
them. `LapseInv` says that a lease nobody fills under has at most its duration left
from the end of the last call on, whoever released or renewed it since; a request that
gives up has waited longer than that, so the call was within its wait.

The ledger, for any finite set of keys and any runs: `LedgerTypes`, `AnswersAccounted`
(`EvidenceAccounted`), `CountersAddUp` (`CountersMatch`) and `BudgetNeverExceeded`
(`BudgetHeld`). A key has its row in the ledger when and only when its reservation is
reconciled, and is reconciled once. `Books` adds what the columns are: sums of three
weights of the reservations, what they hold (`HoldOf`), were charged (`ChargeOf`) and
exceeded (`ExcessOf`). A step that reserves, reconciles or releases changes the
weights of one key, and the column by as much; the release of lapsed reservations
changes those of a part of the keys (`TotalFilter`). The budget and the ceiling follow:
a charge within its reservation moves an amount from one column to the other, and
one beyond it adds the same to the excess.

Retrieval, for any portfolio: `RetrievalTypes`, `OutagesNotScarcity`
(`OutageNotScarcity`), `BrokenNeverPublished` (`IntegrityQuarantined`) and
`SpendingBounded` (`SpendBounded`). Every strategy that was given up is in the book of an
outage, since a strategy leaves it only by its own answer, while its own call is under
way. `DueInv` reckons every answer of a wave that is still due at the dearest page; a
wave, whose last strategy in the order of its tier had room (`LastOfWave`), is no larger
than the units, the rounds and the calls that are left (`WaveFits`).

`FiniteSetLemmas` has what these proofs and those of `SharedRun` say about finite
sets. Induction over the size of a set is out of the provers' reach, because its
theorem takes a predicate; the lemmas use instead that strict inclusion is
well-founded on the subsets of a finite set and look at a least counterexample.
`MapThenSumSet` adds up by a recursive function that picks one element after the
other; `Adds` says of a function that it is this one, `AdderExists` and `AdderUnique`
that there is exactly one, and the lemmas about `Total` what a sum comes to when an
element or a weight changes (`TotalUpdate`), when a set is split (`TotalSplit`) and when a
part of it weighs nothing (`TotalFilter`).

`SharedRunProofs` proves, for any visitors and captures and at least three identities of
reports: `SharingTypes`, `DeletedNeverReported` (`DeletedNotReported`), `ReportedOnce`
(`OneReport`) and `SuppressionLasts` (`SuppressionKept`). Three identities are what can be
in use at once, the event's, the owner's and a fresh one; the code draws them at random.
The argument is about locks, which the model derives from the place an execution is at
(`LockedBy`): who was granted a row excludes whoever needs it. `LockInv` says what
follows: while a capture that has validated its access goes on, no deletion of that
access and no purge is past its first lock (`AccessHeld`); who decides on the event is
alone with it (`EventHeld`); and no two deletions hold the same report
(`DropsApart`). With `DeletionInv`, that a deletion has found every report of its access,
and `EventInv`, that the event names the only report, each property is a conjunct
or follows from one.

`ResearchPassesProofs` proves, for any numbers of passes, segments, retries and
attempts and any interruptions: `ResearchTypes` (its part of `OutagesTypeOK`),
`PassesCountedOnce` (`NoNewExact`) and `OutagesHoldRun` (`OutageHoldsRun`). The
argument for the count. `NoNewExact` alone is not inductive: a target is computed from
the counter in the run, which another execution wrote. `LevelInv` says that no job is
ahead of the resume checkpoint and that an execution in its pass is level with it;
`OrderInv` that the counted passes are the complete gap passes up to the checkpoint,
so a report does not change once it is counted; `CounterInv` that the counter in the
run is the target of the last pass counted. A step that counts nothing is `Calm` and
goes through one lemma; those that report, count or hand over have their own. The
argument for the outage. `HoldInv` says of the places before the report that an
execution which does not retry has a closed blocker (it was claimed so, and only
itself could open it), and of the places behind it that every execution has. It also
says that a run in phase `research_complete` has no open blocker, since a repair trusts
the phase.

The three specifications that TLC checks side by side have theorems of their own,
for any values of the constants: `RunTypes` (`RunTypeOK`), `OutagesTypes`
(`OutagesTypeOK`) and `ServicesTypes` (`ServicesTypeOK`). Each rests on the lemma that a step of
it is a step of one part and leaves the others as they are, by which every
invariant above is also one of it; `ServicesImplement` says so of the ledger, the cache
and the gateway, whose specifications have no fairness.

The constants' assumptions that were added for the proofs are that the keys of the
ledger and the requests of the cache are finite sets, and the three identities: at
any moment only finitely many of either exist.

Every invariant and action property of a passing run is a theorem. Only
model-checked: `JobsSettle`, `PublishedRunEnds` (`PublicationEnds`), `OutageSettles`, `ResearchSettles`,
`RetrievalSettles`, `FailureReported` and `NothingLeft`, since liveness under fairness is
out of the prover's reach; and the findings. `RunsNotStranded` and the theorems of
`ExactPublicationProofs` have an assumption of their own, which their runs meet.

## Findings

1. **`same_owner`** — a worker that polls after its own lease has expired leases
   the job again without a new generation; both of its executions pass the write
   fence. (With a second worker in between, the generation changes, which is why
   `StaleHarmless` holds.)
2. **`shutdown`** — `stop()` aborts executions with a plain error. The catch
   block has no class for it, so a V3 run is quarantined by a deployment instead
   of being resumed by the next worker.
3. **`resume`** — an execution that finds the reconciliation where progress left it
   (`append_pending` or `reconciling`) cannot take it up: the transition to
   `create_pending` is a conflict, and the run is quarantined. A pause in the
   middle of a volume is enough.
4. **`rerun`** — a worker that dies between the commit of the completion and the
   settlement of the job leaves a published manifest to the next one, whose
   preflight takes it for a manifest that changed, hides the public playlist and
   asks the visitor for a decision.
5. **`orphan`** — a crash between the two transactions that abandon a playlist can
   end with that playlist published and listed for manual removal.
6. **`last_deletion`** — two visitors who are the last ones and delete the run at the
   same time count each other, so neither removes it. Nothing counts again: what both
   deleted stays, and stays reusable, until retention.

## What else the models show

Behaviours of the code that the modules contain and no run asks for, because the
properties that hold are stated without them, or because no document says which
outcome is meant. The line is where the behaviour begins.

Queue and publication:

- The sweep of exhausted leases overwrites a cancelled or quarantined run with
  `failed`, which `failJob` would not (`repository.ts:24462`).
- A publish request while the cancelled job is still leased makes the run
  `publishing` again (`repository.ts:22707`), although `docs/security.md:33` lists
  the run's cancellation state among what every mutation batch rechecks.
- Legacy jobs are fenced by owner name only (`repository.ts:24763`); a fenced write
  that finds an expired lease quarantines a run that could be reclaimed
  (`repository.ts:5259`).
- A clock that is set back becomes the origin of the bucket's next refill
  (`apple-write-gateway.ts:88`), so two processes whose clocks differ gain the
  difference at each alternation; the unit test calls the refill "robust to clock
  rollback" (`tests/apple-write-gateway.test.ts:29`). A permit whose session is lost
  gives its token back although the write was sent. `RateHeld` counts both.

Outages (`DependencyCircuit`):

- A resumed job's epochs begin at 1 while the waiting checkpoint keeps the epoch of
  the job before: `process` throws without a call at every slot until the next
  decision (`pipeline-v3-worker-execution.ts:1454`). `repository.ts:6663` says the
  resume is "to retry the exact active canonical plan".
- `persistPipelineV3RetrievalResult` writes the run whatever its status, also when
  its visitor has cancelled it (`repository.ts:30097`).
- Losses of an execution: between the checkpoint of a failed integrity, of a
  decision about the result or of a corpus review and the status of the run
  (`pipeline-v3-worker-execution.ts:1976`, 2247 and 1248), the next execution returns
  at once (1414), completes its job, and the run stays open without one and without
  its question (`StageStranded`); between a decision and the end of its job, the next one finds the
  decision stale and quarantines the run; between the blocker and the retry time,
  the provider is called before its Retry-After; between the closed blocker and
  the end of the job, the slots begin again; a quarantined or settled run becomes
  active again when its job is leased once more. The properties exclude losses
  where they must, and say so.
- The second pass of the optimizer is started over when its first statement, which
  overwrites `waiting_compute`, is followed by a loss
  (`pipeline-v3-worker-execution.ts:1622`).

Research passes (`ResearchPasses`, the states of `Stranded`):

- The checkpoint that ends research is written before the run is handed on, and
  `repairCheckpointedHandoff` queues matching only for a run that is already
  `ready_for_matching` or in the phase `research_complete` (`research.ts:1680`). After a crash between the two, the
  next execution returns and completes its job, and the run stays `researching`
  without one, although `research.ts:2726` says that the stale job repairs the
  hand-off "instead of leaving the run permanently stranded". Between the paused
  checkpoint and `awaiting_budget` (`research.ts:2905`) the same happens.
- A retry has one attempt, so a crash after its blocker was resolved makes the
  sweep fail the run, and the watchdog that `repository.ts:26161` queues so that
  such a crash "cannot strand the run" finds a run it may not claim.
- A budget that ends during the retry of an outage leaves the blocker open; the
  job of the owner's approval is then refused as long as it is
  (`repository.ts:25498`), and the approved run stays `queued`.
- An overrun sets `awaiting_budget` before the paused checkpoint is written: an
  approval between them queues a job under a key that is already taken and
  finishes, and the run stays `queued`. A crash of the approval between its two
  statements (`index.ts:2623`) leaves a `queued` run without a job.

Shared runs:

- A run can be reused between the count of its accesses and the lock of its row
  (`repository.ts:17396` to 17399): the deletion waits for the foreign key of the new
  access, does not count again, and deletes the run with that access, although the
  comment at 17361 says that a reused run "can outlive one visitor's access".
- What the owner suppressed is forgotten when the access the report was about is
  deleted: the same failure is then reported about another access.

Cost ledger:

- An overtaken execution that aborts releases the reservation its successor
  shares; the successor's reconciliation is refused (409) and its cost is not in
  the ledger. Its answer is not used either, which is what `EvidenceAccounted` says.
- A reservation that is used again keeps its old expiry (`repository.ts:31005`). An
  overrun sets the run to `awaiting_budget` whatever its status
  (`repository.ts:31144`); an approval then makes a cancelled run active.

Catalog cache: an aborted leader fails the requests that joined it; a store can
overwrite a newer entry, and the deletion of a malformed entry a fresh one. Each
costs a call, none an answer.

Retrieval:

- A budget that ends in the semantic recovery drops the answers of the wave that
  are still to commit (`pipeline-v3-retrieval.ts:5173`), against the comment at
  4629 to 4631, "Drain those successful responses deterministically".
- A failure in the recovery that allows no retry is overwritten by the status the
  page ends with; the candidates of a page whose qualification failed in an
  outage are not qualified later; calls that fail cost nothing.

## Not modelled

- **Publication reconciliation and playlist resolution.** The projection of a run
  for the owner's console is recomputed by some transitions (quarantine, `updateRun`,
  cancel, the final failure of a job) and not by others (opening and resolving a
  blocker, the decision, the resume, a retry, the sweep), although the comment at
  `repository.ts:15476` to 15483 says that every write is fenced in the transaction of its
  transition. It holds no state of its own that the queue or the publication
  reads, so its properties would restate that list. A row that throws rolls back a whole
  pass of the reconciler, and a row that was repaired three times is quarantined
  at each pass.
- **Capability tokens and sessions, notifications, submitted feedback, evidence
  graph, briefs and contracts.** Single transactions over locked rows and unique keys:
  nothing in them runs over several steps that another actor can come between,
  beyond the jobs that carry them, which are `JobQueue`'s.
- **Optimizer, sequencing, matching handler, provider adapters, the fast and
  curated routes of research.** Scoring, parsing and classification of data. The
  control that surrounds them is in `JobQueue`, `DependencyCircuit`,
  `ResearchPasses` and `Retrieval`.
- **Web interface, release tooling.** No durable state of the service.

## Plan

The order is by what the system stands to lose. Done: `JobQueue`,
`ApplePublication` for one volume, `DependencyCircuit`, `CostLedger`, `CatalogCache`,
`Retrieval`, `AppleWriteGateway`, `ResearchPasses`, `SharedRun`. What is left, in this order:

1. Several volumes of one publication and the order they are completed in.
2. An abstract queue of grants and releases that `JobQueue` refines.
3. The interactive lane of the dependency circuit, several providers at once, and
   the blockers of matching and publication jobs.
4. The ceilings of brief requests in `CostLedger`.
5. The matching stage with its own blocker, and the fast route of research.
6. Reports about briefs in `SharedRun`.
