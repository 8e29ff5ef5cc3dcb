--------------------------- MODULE ResearchPasses ---------------------------
(***************************************************************************)
(* The passes of one factual V2 research run: ordinary passes and then gap *)
(* passes, each a job that hands over to the next one through the resume   *)
(* checkpoint.  An outage of the provider opens a blocker and a retry of   *)
(* the same pass, an exhausted budget waits for the owner.  Research jobs  *)
(* exclude each other, so the executions of a run follow one another: what *)
(* an overtaken one or a cancellation may do is JobQueue's subject.        *)
(***************************************************************************)
EXTENDS Integers

CONSTANTS
    Phases,          \* number of ordinary passes
    GapLimit,        \* gapPasses of the run's limits
    SegmentLimit,    \* segmentsPerPass of the run's limits
    RetrySlots,      \* number of durable retries
    PassAttempts,    \* max_attempts of the job of a pass
    ResumeAttempts,  \* max_attempts of a job the owner's approval enqueues
    MaxInterruptions \* bound: outages, exhausted budgets, ended segments, crashes and
                     \* failing statements

ASSUME ResearchAssumption ==
    /\ Phases \in Nat \ {0} /\ GapLimit \in Nat \ {0} /\ SegmentLimit \in Nat \ {0}
    /\ RetrySlots \in Nat
    /\ PassAttempts \in Nat \ {0} /\ ResumeAttempts \in Nat \ {0}
    /\ MaxInterruptions \in Nat

VARIABLES
    run,              \* the run: status, phase, consecutive gap passes without news
    contract,         \* whether the run has a playlist contract
    resume,           \* the resume checkpoint
    passes,           \* the checkpoint of each pass
    advanced,         \* the advance checkpoint of each gap pass: the counter to set
    coverage,         \* what the saved candidates amount to
    jobs,             \* the research jobs of the run
    matching,         \* its matching job
    worker,           \* the execution of a research job, where it is
    researchBlocker,  \* the blocker of the research provider
    windowPassed,     \* whether the automatic window of the blocker has passed
    approving,        \* whether an approval has yet to enqueue its job
    interruptions,
    crashed           \* whether one of the interruptions was a crash or a failing statement

researchVars == <<run, contract, resume, passes, advanced, coverage, jobs, matching,
                  worker, researchBlocker, windowPassed, approving, interruptions, crashed>>

Last == Phases + GapLimit - 1
Passes == 0..Last
IsGap(p) == p >= Phases

\* "matched" stands for every status from matching on.
RunStatuses == {"queued", "researching", "failed_system", "awaiting_budget",
                "ready_for_matching", "matched", "needs_decision",
                "no_compatible_tracks", "failed", "quarantined"}
\* Of the phases only that of converged research is ever asked for.
ResearchRuns == [status : RunStatuses, phase : {"research_complete", "other"}, noNew : Nat]
Resumes == [pass : Passes, gen : Nat, seg : Nat,
            status : {"none", "active", "queued", "paused", "complete"}]
\* number: the research generation of a pass, or the outage of the others.
JobKeys == [kind : {"pass", "retry", "watchdog"}, pass : Passes, number : Nat]
ResearchJobs == [gen : Nat, seg : Nat, fails : Nat, only : BOOLEAN,
                 status : {"queued", "leased", "complete", "failed", "cancelled"},
                 attempts : Nat, max : Nat \ {0}]
\* "found": new candidates; "barren": a search that found none; "idle": none.
Reports == {"found", "barren", "idle"}
Places == {"none", "wake", "claim", "entry", "starting", "call", "reported", "continued",
           "enqueue", "counting", "advancing", "converged", "handoff", "matching",
           "pausing", "awaiting", "blocking", "failing", "rejected", "closing", "done"}
PassRows == [status : {"none", "in_progress", "complete"}, seg : Nat, report : Reports]

NotPrepared == -1
FirstKey == [kind |-> "pass", pass |-> 0, number |-> 0]
NoWork == [pc |-> "none", job |-> FirstKey]
PassJob(gen, seg, max) == [gen |-> gen, seg |-> seg, fails |-> 0, only |-> FALSE,
                           status |-> "queued", attempts |-> 0, max |-> max]

\* A run whose first pass has been queued by enqueue.
ResearchInit ==
    /\ run = [status |-> "queued", phase |-> "other", noNew |-> 0]
    /\ contract \in BOOLEAN
    /\ resume = [pass |-> 0, gen |-> 0, seg |-> 0, status |-> "none"]
    /\ passes = [p \in Passes |-> [status |-> "none", seg |-> 0, report |-> "idle"]]
    /\ advanced = [p \in Passes |-> NotPrepared]
    /\ coverage = "empty"
    /\ jobs = [k \in {FirstKey} |-> PassJob(0, 0, PassAttempts)]
    /\ matching = "none"
    /\ worker = NoWork
    /\ researchBlocker = [gen |-> 0, open |-> FALSE, fails |-> 0, only |-> FALSE]
    /\ windowPassed = FALSE /\ approving = FALSE
    /\ interruptions = 0 /\ crashed = FALSE

-----------------------------------------------------------------------------
(* Helpers *)

Job == jobs[worker.job]
Pass == worker.job.pass
IsRetry == worker.job.kind = "retry"
Step(pc) == worker' = [worker EXCEPT !.pc = pc]
\* A status is written with its phase.
SetStatus(status) == run' = [run EXCEPT !.status = status, !.phase = "other"]
Checkpoint(p, gen, seg, status) ==
    resume' = [pass |-> p, gen |-> gen, seg |-> seg, status |-> status]

Put(rows, key, row) == [k \in DOMAIN rows \cup {key} |-> IF k = key THEN row ELSE rows[k]]

\* What a change of the blocker withdraws: the queued retries and, when an
\* outage opens, the leases of the others.
QueuedRetries == {k \in DOMAIN jobs : k.kind = "retry" /\ jobs[k].status = "queued"}
OtherLeases == {k \in DOMAIN jobs : k # worker.job /\ jobs[k].status = "leased"}
Without(K) == [k \in DOMAIN jobs |-> IF k \in K THEN [jobs[k] EXCEPT !.status = "cancelled"]
                                    ELSE jobs[k]]

\* enqueueJob: only a failed or cancelled job of the same key is queued again.
Enqueued(p, gen, seg, max) ==
    LET key == [kind |-> "pass", pass |-> p, number |-> gen] IN
    IF key \in DOMAIN jobs /\ jobs[key].status \notin {"failed", "cancelled"}
    THEN jobs ELSE Put(jobs, key, PassJob(gen, seg, max))

Bound == <<interruptions, crashed>>
\* What a database statement of the job's execution leaves alone.
Unmoved == UNCHANGED <<contract, windowPassed, approving, Bound>>

-----------------------------------------------------------------------------
(* The queue *)

Spent(k) == jobs[k].status = "leased" /\ jobs[k].attempts >= jobs[k].max
\* A decision-only wake is due at the horizon of its blocker.
Grantable(k) ==
    /\ jobs[k].status \in {"queued", "leased"} /\ jobs[k].attempts < jobs[k].max
    /\ jobs[k].only => windowPassed

\* leaseNextJob: the sweep of exhausted leases precedes the grant.
Swept == \A k \in DOMAIN jobs : ~Spent(k)
LeasePass ==
    /\ worker.pc = "none" /\ Swept
    /\ \E k \in DOMAIN jobs :
         /\ Grantable(k)
         /\ jobs' = [jobs EXCEPT ![k].status = "leased", ![k].attempts = @ + 1]
         /\ worker' = [pc |-> IF jobs[k].only THEN "wake" ELSE "claim", job |-> k]
    /\ UNCHANGED <<run, resume, passes, advanced, coverage, matching, researchBlocker>>
    /\ Unmoved
SweepPass ==
    /\ worker.pc = "none"
    /\ \E k \in DOMAIN jobs :
         Spent(k) /\ jobs' = [jobs EXCEPT ![k].status = "failed"]
    /\ SetStatus("failed")
    /\ UNCHANGED <<resume, passes, advanced, coverage, matching, worker, researchBlocker>>
    /\ Unmoved

FinishPass ==
    /\ worker.pc = "done"
    /\ jobs' = [jobs EXCEPT ![worker.job].status = "complete"]
    /\ worker' = NoWork
    /\ UNCHANGED <<run, resume, passes, advanced, coverage, matching, researchBlocker>>
    /\ Unmoved

\* claimResearchProviderRetry and claimCatalogProviderRetry admit the run.
Claimable == {"queued", "researching", "ready_for_matching", "failed_system"}

\* The matching job excludes the research jobs, and an outage stops it.
RunMatching ==
    /\ worker.pc = "none" /\ Swept /\ matching = "queued"
    /\ matching' = "done"
    /\ IF run.status \in Claimable /\ ~researchBlocker.open
       THEN SetStatus("matched") ELSE UNCHANGED run
    /\ UNCHANGED <<resume, passes, advanced, coverage, jobs, worker, researchBlocker>>
    /\ Unmoved

-----------------------------------------------------------------------------
(* Before the pass *)

\* markPipelineV2ProviderDependencyDecision: the horizon was reached.
IsOfBlocker == researchBlocker.gen = worker.job.number /\ researchBlocker.fails = Job.fails
Deciding == IsOfBlocker /\ researchBlocker.only /\ windowPassed
Decidable == {"queued", "researching", "ready_for_matching", "failed_system", "needs_decision"}
WakeForDecision ==
    /\ worker.pc = "wake"
    /\ IF Deciding
       THEN /\ researchBlocker' = [researchBlocker EXCEPT !.only = FALSE]
            /\ jobs' = Without(QueuedRetries)
            /\ IF run.status \in Decidable THEN SetStatus("needs_decision") ELSE UNCHANGED run
       ELSE UNCHANGED <<researchBlocker, jobs, run>>
    /\ Step("done")
    /\ UNCHANGED <<resume, passes, advanced, coverage, matching>> /\ Unmoved

\* claimResearchProviderRetry.  Mutant: an open blocker stops retries only.
MayClaimAnyway ==
    run.status \in Claimable
    /\ (IsRetry => researchBlocker.open /\ IsOfBlocker)
MayClaim ==
    run.status \in Claimable
    /\ IF IsRetry THEN researchBlocker.open /\ IsOfBlocker
       ELSE ~researchBlocker.open
ClaimPass ==
    /\ worker.pc = "claim"
    /\ IF MayClaim THEN Step("entry") ELSE Step("done")
    /\ UNCHANGED <<run, resume, passes, advanced, coverage, jobs, matching, researchBlocker>>
    /\ Unmoved

\* The checkpoint is ahead of the job: within its pass, or beyond it.
AheadInPass == resume.status # "none" /\ resume.pass = Pass /\ resume.gen > Job.gen
Beyond == resume.status # "none"
          /\ (resume.pass > Pass \/ (resume.pass = Pass /\ resume.status = "complete"))

\* A stale job repairs the hand-over that its successor may have missed.
\* Mutant: it just returns.
RepairableNone == {}
RepairableStates == {"queued"}
Repair ==
    /\ worker.pc = "entry" /\ (AheadInPass \/ Beyond)
    /\ jobs' = IF resume.status \in RepairableStates
               THEN Enqueued(resume.pass, resume.gen, resume.seg, PassAttempts) ELSE jobs
    /\ matching' = IF ~AheadInPass /\ resume.status = "complete"
                      /\ (run.status = "ready_for_matching" \/ run.phase = "research_complete")
                      /\ matching # "done"
                   THEN "queued" ELSE matching
    /\ Step("done")
    /\ UNCHANGED <<run, resume, passes, advanced, coverage, researchBlocker>> /\ Unmoved

BeginPass ==
    /\ worker.pc = "entry" /\ ~AheadInPass /\ ~Beyond
    /\ Checkpoint(Pass, Job.gen, Job.seg, "active")
    /\ IF IsRetry THEN Step("call") ELSE Step("starting")
    /\ UNCHANGED <<run, passes, advanced, coverage, jobs, matching, researchBlocker>>
    /\ Unmoved
StartRun ==
    /\ worker.pc = "starting"
    /\ SetStatus("researching")
    /\ Step("call")
    /\ UNCHANGED <<resume, passes, advanced, coverage, jobs, matching, researchBlocker>>
    /\ Unmoved

-----------------------------------------------------------------------------
(* runPass; a segment is one turn of the model *)

\* What a predecessor saved is not asked again.
Replay ==
    /\ worker.pc = "call"
    /\ \/ passes[Pass].status = "complete" /\ Step("reported")
       \/ passes[Pass].status = "in_progress" /\ passes[Pass].seg > Job.seg /\ Step("continued")
    /\ UNCHANGED <<run, resume, passes, advanced, coverage, jobs, matching, researchBlocker>>
    /\ Unmoved
Asks == /\ worker.pc = "call" /\ passes[Pass].status # "complete"
        /\ passes[Pass].status = "in_progress" => passes[Pass].seg <= Job.seg

\* New candidates make the coverage partial or, with all of it, ready.
Covers(found) ==
    coverage' \in IF found \/ coverage # "empty" THEN {"partial", "ready"} ELSE {"empty"}

\* The turn ends the pass, or its segment.
ReportPass ==
    /\ Asks
    /\ \E report \in Reports :
         /\ passes' = [passes EXCEPT ![Pass].status = "complete",
                                     ![Pass].report = IF IsGap(Pass) THEN report ELSE "idle"]
         /\ Covers(report = "found")
    /\ Step("reported")
    /\ UNCHANGED <<run, resume, advanced, jobs, matching, researchBlocker>> /\ Unmoved
EndSegment ==
    /\ Asks /\ interruptions < MaxInterruptions
    /\ interruptions' = interruptions + 1
    /\ passes' = [passes EXCEPT ![Pass].status = "in_progress", ![Pass].seg = Job.seg + 1]
    /\ \E found \in BOOLEAN : Covers(found)
    /\ Step("continued")
    /\ UNCHANGED <<run, contract, resume, advanced, jobs, matching, researchBlocker,
                   windowPassed, approving, crashed>>

\* The reservation is refused, or the answer's cost crosses a ceiling, which
\* reconcileProviderCost writes into the run at once, but for its phase.
ExhaustBudget ==
    /\ Asks /\ interruptions < MaxInterruptions
    /\ interruptions' = interruptions + 1
    /\ UNCHANGED run \/ run' = [run EXCEPT !.status = "awaiting_budget"]
    /\ Step("pausing")
    /\ UNCHANGED <<contract, resume, passes, advanced, coverage, jobs, matching, researchBlocker,
                   windowPassed, approving, crashed>>

ProviderFails ==
    /\ Asks /\ interruptions < MaxInterruptions
    /\ interruptions' = interruptions + 1
    /\ Step("blocking")
    /\ UNCHANGED <<run, contract, resume, passes, advanced, coverage, jobs, matching,
                   researchBlocker, windowPassed, approving, crashed>>

\* The provider rejects the request or the configuration.
ProviderRejects ==
    /\ Asks
    /\ SetStatus("failed_system")
    /\ Step("rejected")
    /\ UNCHANGED <<resume, passes, advanced, coverage, jobs, matching, researchBlocker>>
    /\ Unmoved

-----------------------------------------------------------------------------
(* After the pass *)

\* resolveResearchProviderBlocker: the retry has come through.  A watchdog is
\* queued for the rest of the execution, which has no attempt left.
Unresolved == IsRetry /\ researchBlocker.open
ResolveOutage ==
    /\ worker.pc \in {"reported", "continued"} /\ Unresolved /\ run.status = "failed_system"
    /\ researchBlocker' = [researchBlocker EXCEPT !.open = FALSE]
    /\ jobs' = Put(Without(QueuedRetries), [worker.job EXCEPT !.kind = "watchdog"],
                   PassJob(Job.gen, Job.seg, PassAttempts))
    /\ SetStatus("researching")
    /\ UNCHANGED <<resume, passes, advanced, coverage, matching, worker>> /\ Unmoved

\* The next segment of the pass, or the end of research at their limit.
SaveSegment ==
    /\ worker.pc = "continued" /\ ~Unresolved
    /\ IF passes[Pass].seg >= SegmentLimit
       THEN Checkpoint(Pass, Job.gen + 1, passes[Pass].seg, "complete") /\ Step("handoff")
       ELSE Checkpoint(Pass, Job.gen + 1, passes[Pass].seg, "queued") /\ Step("enqueue")
    /\ UNCHANGED <<run, passes, advanced, coverage, jobs, matching, researchBlocker>>
    /\ Unmoved

\* advance: an ordinary pass hands over to the next one.
SaveNextPass ==
    /\ worker.pc = "reported" /\ ~Unresolved /\ ~IsGap(Pass)
    /\ Checkpoint(Pass + 1, 0, 0, "queued")
    /\ Step("enqueue")
    /\ UNCHANGED <<run, passes, advanced, coverage, jobs, matching, researchBlocker>>
    /\ Unmoved

EnqueueNext ==
    /\ worker.pc = "enqueue"
    /\ jobs' = Enqueued(resume.pass, resume.gen, resume.seg, PassAttempts)
    /\ Step("done")
    /\ UNCHANGED <<run, resume, passes, advanced, coverage, matching, researchBlocker>>
    /\ Unmoved

\* A gap pass: the counter's target is saved before the counter is set.
\* Mutant: the target of an earlier execution is computed again.
CountAgain == IF passes[Pass].report = "found" THEN 0
              ELSE IF passes[Pass].report = "barren" THEN run.noNew + 1 ELSE run.noNew
CountedOnce == IF advanced[Pass] # NotPrepared THEN advanced[Pass] ELSE
               IF passes[Pass].report = "found" THEN 0
               ELSE IF passes[Pass].report = "barren" THEN run.noNew + 1 ELSE run.noNew
PrepareAdvance ==
    /\ worker.pc = "reported" /\ ~Unresolved /\ IsGap(Pass)
    /\ advanced' = [advanced EXCEPT ![Pass] = CountedOnce]
    /\ Step("counting")
    /\ UNCHANGED <<run, resume, passes, coverage, jobs, matching, researchBlocker>>
    /\ Unmoved
SetCounter ==
    /\ worker.pc = "counting"
    /\ run' = [run EXCEPT !.noNew = advanced[Pass]]
    /\ Step("advancing")
    /\ UNCHANGED <<resume, passes, advanced, coverage, jobs, matching, researchBlocker>>
    /\ Unmoved

\* Two gap passes in a row without news and a ready coverage end research.
Converged == advanced[Pass] >= 2 /\ coverage = "ready"
Converge ==
    /\ worker.pc = "advancing" /\ Converged
    /\ run' = [run EXCEPT !.status = "ready_for_matching", !.phase = "research_complete"]
    /\ Step("converged")
    /\ UNCHANGED <<resume, passes, advanced, coverage, jobs, matching, researchBlocker>>
    /\ Unmoved
SaveConverged ==
    /\ worker.pc = "converged"
    /\ Checkpoint(Pass, 0, 0, "complete")
    /\ Step("matching")
    /\ UNCHANGED <<run, passes, advanced, coverage, jobs, matching, researchBlocker>>
    /\ Unmoved

\* The last gap pass ends it too; another one hands over to the next.
SaveGap ==
    /\ worker.pc = "advancing" /\ ~Converged
    /\ IF Pass = Last THEN Checkpoint(Pass, 0, 0, "complete") /\ Step("handoff")
       ELSE Checkpoint(Pass + 1, 0, 0, "queued") /\ Step("enqueue")
    /\ UNCHANGED <<run, passes, advanced, coverage, jobs, matching, researchBlocker>>
    /\ Unmoved

\* handoffBestEffortResearch: what has been found is matched; with nothing the
\* run ends, or asks for a decision about its unqualified candidates.
HandOff ==
    /\ worker.pc = "handoff"
    /\ IF coverage = "empty"
       THEN \E end \in {"needs_decision", "no_compatible_tracks"} : SetStatus(end) /\ Step("done")
       ELSE SetStatus("ready_for_matching") /\ Step("matching")
    /\ UNCHANGED <<resume, passes, advanced, coverage, jobs, matching, researchBlocker>>
    /\ Unmoved
EnqueueMatching ==
    /\ worker.pc = "matching"
    /\ matching' = IF matching = "done" THEN "done" ELSE "queued"
    /\ Step("done")
    /\ UNCHANGED <<run, resume, passes, advanced, coverage, jobs, researchBlocker>>
    /\ Unmoved

-----------------------------------------------------------------------------
(* The catch blocks *)

\* BudgetPause: the checkpoint of the next generation, then the run.
SavePaused ==
    /\ worker.pc = "pausing"
    /\ Checkpoint(Pass, (IF resume.gen > Job.gen THEN resume.gen ELSE Job.gen) + 1,
                  resume.seg, "paused")
    /\ Step("awaiting")
    /\ UNCHANGED <<run, passes, advanced, coverage, jobs, matching, researchBlocker>>
    /\ Unmoved
AwaitBudget ==
    /\ worker.pc = "awaiting"
    /\ SetStatus("awaiting_budget")
    /\ Step("done")
    /\ UNCHANGED <<resume, passes, advanced, coverage, jobs, matching, researchBlocker>>
    /\ Unmoved

\* persistResearchProviderBlocker: a new generation of the blocker, with its
\* retry, its wake at the horizon, or, past it, the decision.
Withdrawn == IF matching = "queued" THEN "cancelled" ELSE matching
Failures == IF IsRetry THEN Job.fails + 1 ELSE 1
Opens(only) == researchBlocker' = [gen |-> researchBlocker.gen + 1, open |-> TRUE,
                                   fails |-> Failures, only |-> only]
PersistOutage ==
    /\ worker.pc = "blocking" /\ run.status \in {"queued", "researching", "failed_system"}
    /\ windowPassed' = (IsRetry /\ windowPassed)
    /\ LET key == [kind |-> "retry", pass |-> Pass, number |-> researchBlocker.gen + 1] IN
       IF windowPassed'
       THEN /\ Opens(FALSE)
            /\ SetStatus("needs_decision")
            /\ jobs' = Without(QueuedRetries \cup OtherLeases)
       ELSE \E only \in BOOLEAN :
            /\ Failures > RetrySlots => only
            /\ Opens(only)
            /\ jobs' = Put(Without(QueuedRetries \cup OtherLeases), key,
                           [PassJob(Job.gen, Job.seg, 1) EXCEPT !.fails = Failures, !.only = only])
            /\ SetStatus("failed_system")
    /\ Checkpoint(Pass, Job.gen, Job.seg, "paused")
    /\ matching' = Withdrawn
    /\ Step("done")
    /\ UNCHANGED <<contract, passes, advanced, coverage, approving, Bound>>

\* The worker's catch block: a run with a contract is quarantined.
QuarantineResearch ==
    /\ worker.pc \in {"failing", "rejected"} /\ contract
    /\ SetStatus("quarantined")
    /\ Step("closing")
    /\ UNCHANGED <<resume, passes, advanced, coverage, jobs, matching, researchBlocker>>
    /\ Unmoved

\* failJob: a retry while attempts are left, or the end of the job and its run.
Retriable == worker.pc = "failing" /\ ~contract /\ Job.attempts < Job.max
FailPass ==
    /\ worker.pc \in {"failing", "rejected", "closing"}
    /\ contract => worker.pc = "closing"
    /\ jobs' = [jobs EXCEPT ![worker.job].status = IF Retriable THEN "queued" ELSE "failed"]
    /\ IF Retriable \/ run.status = "quarantined" THEN UNCHANGED run ELSE SetStatus("failed")
    /\ worker' = NoWork
    /\ UNCHANGED <<resume, passes, advanced, coverage, matching, researchBlocker>>
    /\ Unmoved

-----------------------------------------------------------------------------
(* The owner, failures and time *)

\* approveRunBudget, and then enqueueResearchResume.
ApproveBudget ==
    /\ run.status = "awaiting_budget" /\ ~approving
    /\ SetStatus("queued")
    /\ approving' = TRUE
    /\ UNCHANGED <<contract, resume, passes, advanced, coverage, jobs, matching, worker,
                   researchBlocker, windowPassed, Bound>>
EnqueueResume ==
    /\ approving
    /\ approving' = FALSE
    /\ jobs' = Enqueued(resume.pass, resume.gen, resume.seg, ResumeAttempts)
    /\ UNCHANGED <<run, contract, resume, passes, advanced, coverage, matching, worker,
                   researchBlocker, windowPassed, Bound>>

\* A worker dies, an approval dies, or a statement of a handler fails.
DieInPass ==
    /\ interruptions < MaxInterruptions /\ interruptions' = interruptions + 1 /\ crashed' = TRUE
    /\ \/ worker.pc # "none" /\ worker' = NoWork /\ UNCHANGED approving
       \/ approving /\ approving' = FALSE /\ UNCHANGED worker
       \/ /\ worker.pc \notin {"none", "done", "failing", "rejected", "closing"}
          /\ Step("failing") /\ UNCHANGED approving
    /\ UNCHANGED <<run, contract, resume, passes, advanced, coverage, jobs, matching,
                   researchBlocker, windowPassed>>

WindowPasses ==
    /\ researchBlocker.open /\ ~windowPassed
    /\ windowPassed' = TRUE
    /\ UNCHANGED <<run, contract, resume, passes, advanced, coverage, jobs, matching,
                   worker, researchBlocker, approving, Bound>>

Research ==
    \/ LeasePass \/ SweepPass \/ FinishPass \/ RunMatching
    \/ WakeForDecision \/ ClaimPass \/ Repair \/ BeginPass \/ StartRun
    \/ Replay \/ ReportPass \/ EndSegment \/ ExhaustBudget \/ ProviderFails \/ ProviderRejects
    \/ ResolveOutage \/ SaveSegment \/ SaveNextPass \/ EnqueueNext
    \/ PrepareAdvance \/ SetCounter \/ Converge \/ SaveConverged \/ SaveGap
    \/ HandOff \/ EnqueueMatching
    \/ SavePaused \/ AwaitBudget \/ PersistOutage \/ QuarantineResearch \/ FailPass
    \/ EnqueueResume

ResearchNext == Research \/ ApproveBudget \/ DieInPass \/ WindowPasses

\* Workers poll and finish what they began, an approval enqueues its job, and
\* the window of an outage passes.
ResearchSpec == ResearchInit /\ [][ResearchNext]_researchVars
                /\ WF_researchVars(Research) /\ WF_researchVars(WindowPasses)

-----------------------------------------------------------------------------
(* Properties *)

ResearchTypeOK ==
    /\ run \in ResearchRuns
    /\ contract \in BOOLEAN /\ windowPassed \in BOOLEAN /\ approving \in BOOLEAN
    /\ resume \in Resumes
    /\ passes \in [Passes -> PassRows]
    /\ advanced \in [Passes -> Nat \cup {NotPrepared}]
    /\ coverage \in {"empty", "partial", "ready"}
    /\ DOMAIN jobs \subseteq JobKeys /\ \A k \in DOMAIN jobs : jobs[k] \in ResearchJobs
    /\ matching \in {"none", "queued", "done", "cancelled"}
    /\ worker \in [pc : Places, job : DOMAIN jobs]
    /\ researchBlocker \in [gen : Nat, open : BOOLEAN, fails : Nat, only : BOOLEAN]
    /\ interruptions \in Nat /\ crashed \in BOOLEAN

\* A gap pass is counted once, whatever crashes, retries and pauses repeat it:
\* the target saved for it is that of the pass before it, one more when it was
\* barren, and nothing when it found something.
CountBefore(p) == IF p = Phases THEN 0 ELSE advanced[p - 1]
NoNewExact ==
    \A p \in Passes : advanced[p] # NotPrepared =>
        /\ IsGap(p) /\ CountBefore(p) # NotPrepared
        /\ advanced[p] = IF passes[p].report = "found" THEN 0
                         ELSE CountBefore(p) + (IF passes[p].report = "barren" THEN 1 ELSE 0)

\* While the provider's blocker is open nothing of the run is handed to
\* matching and no scarcity is claimed.
OutageHoldsRun ==
    researchBlocker.open =>
        /\ run.status \notin {"ready_for_matching", "matched", "no_compatible_tracks"}
        /\ matching # "queued"

HasWork ==
    \/ approving \/ worker.pc # "none" \/ matching = "queued"
    \/ \E k \in DOMAIN jobs : jobs[k].status \in {"queued", "leased"}

\* Where research is known to stop for good: a pause during the retry of an
\* outage, or one whose job a crash or an early approval has let finish, then
\* approved by the owner; a crash between the checkpoint that ends or pauses
\* research and the run, or of the approval itself.
Settled == [kind |-> "pass", pass |-> resume.pass, number |-> resume.gen]
Stranded ==
    ~HasWork /\ \/ run.status = "queued" /\ researchBlocker.open
                \/ /\ run.status = "queued" /\ Settled \in DOMAIN jobs
                   /\ jobs[Settled].status = "complete"
                \/ crashed /\ resume.status \in {"complete", "paused"}
                \/ crashed /\ run.status = "queued"

\* Everything else ends: open research is handed on, asks or waits for
\* somebody, or has failed.
OpenResearch == run.status \in {"queued", "researching", "failed_system", "ready_for_matching"}
ResearchEnds == OpenResearch ~> ~OpenResearch \/ Stranded

=============================================================================
