-------------------------- MODULE DependencyCircuit --------------------------
(***************************************************************************)
(* The dependency circuit of one V3 research run.  A provider that stays   *)
(* unavailable after the adapter's own retries opens a blocker; the job is *)
(* retried at slots anchored at the first failure, and when the automatic  *)
(* window has passed the run asks its visitor to resume, revise or cancel. *)
(* A resume inserts a new job for the same stage.  The executions of a job *)
(* follow each other: what an overtaken one may do is JobQueue's subject.  *)
(* Times are multiples of the five minutes of the first slot.              *)
(***************************************************************************)
EXTENDS Integers

CONSTANTS
    Slots,         \* number of durable retries
    Delay,         \* Delay[i]: the times of slot i after the first failure
    RetryAfters,   \* what a provider asks for: how long it wants no call
    Window,        \* the automatic window after the first failure
    ComputeDelay,  \* delay of the second pass of the optimizer
    MaxAttempts,   \* max_attempts of a research job
    LeaseTime,     \* what a lease still lasts when its execution is lost
    MaxTime,       \* bound: the clock stops
    LastOutage,    \* bound: the provider fails first, or the visitor resumes, no later
    MaxWait,       \* bound: how long a job that may be leased is left alone
    MaxResumes,    \* bound: resumes by the visitor
    MaxLosses      \* bound: crashes and lost leases

ASSUME CircuitAssumption ==
    /\ Slots \in Nat /\ Window \in Nat \ {0} /\ ComputeDelay \in Nat \ {0}
    /\ Delay \in [1..Slots -> SUBSET Nat]
    /\ RetryAfters \in SUBSET Nat
    /\ MaxAttempts \in Nat \ {0}
    /\ LeaseTime \in Nat
    /\ MaxTime \in Nat /\ LastOutage \in Nat /\ MaxWait \in Nat /\ MaxResumes \in Nat /\ MaxLosses \in Nat

VARIABLES
    clock,        \* the time
    research,     \* status of the run
    task,         \* the latest research job of the run
    handling,     \* the execution of the job, where it is
    blocker,      \* the latest provider blocker of the run
    checkpoint,   \* the checkpoint of the retrieval stage
    resumes,      \* how often the visitor resumed
    losses        \* how many executions were lost

circuitVars == <<clock, research, task, handling, blocker, checkpoint, resumes, losses>>

\* "active" stands for queued, researching and continuing_research; "settled"
\* for a persisted result; "asked" for a decision about the playlist's scope
\* and for a review of its corpus.
Active == "active"
ResearchStates == {Active, "recovering", "needs_decision", "asked", "settled",
                   "quarantined", "failed_integrity", "failed", "cancelled"}
\* due: when the job may be leased, from its retry time or the end of a lease
\* left behind; 0 while it is executed.
TaskRows == [status : {"queued", "leased", "complete", "failed", "cancelled"},
             due : Nat, attempts : Nat, epoch : Nat]
BlockerRows == [open : BOOLEAN, first : Nat, until : Nat,
                durable : Nat, after : Nat, decision : BOOLEAN]
\* "compute1", "compute2": the optimizer's budget of that pass is exhausted;
\* "question": owner_action_required, or complete with a result to decide about.
CheckpointRows == [state : {"none", "in_progress", "waiting", "refused", "broken", "question",
                            "compute1", "compute2", "complete"},
                   epoch : Nat, after : Nat]
\* after: the Retry-After an error carries; due: the retry it was answered by.
HandlingRows == [pc : {"none", "begin", "marking", "stage", "call", "compute", "persisted",
                       "breaking", "refusing", "asking", "returned", "resolved",
                       "failing", "deciding", "retry", "close"},
                 error : {"none", "unavailable", "refused", "compute1", "compute2", "unexpected"},
                 after : Nat, due : Nat]

NoBlocker == [open |-> FALSE, first |-> 0, until |-> 0,
              durable |-> 0, after |-> 0, decision |-> FALSE]
Idle == [pc |-> "none", error |-> "none", after |-> 0, due |-> 0]

\* A run whose research job has just been queued.
CircuitInit ==
    /\ clock = 0 /\ resumes = 0 /\ losses = 0
    /\ research = Active
    /\ task = [status |-> "queued", due |-> 0, attempts |-> 0, epoch |-> 0]
    /\ handling = Idle
    /\ blocker = NoBlocker
    /\ checkpoint = [state |-> "none", epoch |-> 0, after |-> 0]

-----------------------------------------------------------------------------
(* Helpers *)

Earlier(a, b) == IF a <= b THEN a ELSE b
Later(a, b) == IF a >= b THEN a ELSE b

Live == task.status \in {"queued", "leased"}
Goto(pc) == handling' = [handling EXCEPT !.pc = pc]
Throw(error, after) ==
    handling' = [handling EXCEPT !.pc = "failing", !.error = error, !.after = after]
\* The execution is gone and its job keeps the lease.
Abandon ==
    /\ handling' = Idle
    /\ task' = [task EXCEPT !.due = clock + LeaseTime]

\* updateRun leaves a run alone that its visitor cancelled.
UpdateRun(status) == research' = IF research = "cancelled" THEN research ELSE status

\* openPlaylistRunBlocker and markPlaylistDependencyDecision update the open
\* blocker of the dependency or insert one.  An open blocker keeps its first
\* failure; an outage of which the caller knows no blocker begins now.
\* Mutant: every failure opens the circuit again.
FirstFailureNow == clock
FirstFailure == IF blocker.open THEN blocker.first ELSE clock
Until == IF blocker.open THEN Earlier(blocker.until, FirstFailure + Window)
         ELSE FirstFailure + Window
\* The Retry-After that counts is the latest the provider has named.
KnownAfter == Later(handling.after, IF blocker.open THEN blocker.after ELSE 0)
Completed == IF blocker.open THEN Earlier(Slots, blocker.durable) ELSE 0

\* decideDependencyCircuitV1 in the durable lane: slots are anchored at the
\* opening of the circuit, deferred by Retry-After, never past the window.
\* Mutant: the provider's Retry-After is dropped.
NextSlotUnasked(offset) == Earlier(FirstFailure + offset, FirstFailure + Window)
NextSlot(offset) == Earlier(Later(FirstFailure + offset, KnownAfter), FirstFailure + Window)
\* Mutant: nothing wakes the run at the horizon (next_retry_at is null).
RetryTimesSlotsOnly == IF Completed >= Slots THEN {MaxTime + 1}
                       ELSE {NextSlot(offset) : offset \in Delay[Completed + 1]}
RetryTimes == IF Completed >= Slots THEN {FirstFailure + Window}
              ELSE {NextSlot(offset) : offset \in Delay[Completed + 1]}
WindowPassed == clock >= FirstFailure + Window

\* Mutant: any open blocker counts as expired.
ExpiredOnceOpen == blocker.open
Expired == blocker.open /\ blocker.until <= clock

-----------------------------------------------------------------------------
(* The queue *)

\* leaseNextJob: a queued job that is due, or a leased one whose lease has
\* expired, below the maximum of attempts.
\* Mutant: the grant does not look at the attempts.
LeaseAgain ==
    /\ handling.pc = "none" /\ Live /\ task.due <= clock
    /\ task' = [status |-> "leased", due |-> 0, attempts |-> task.attempts + 1, epoch |-> task.epoch + 1]
    /\ Goto("begin")
    /\ UNCHANGED <<clock, research, blocker, checkpoint, resumes, losses>>
Leasable == handling.pc = "none" /\ Live /\ task.due <= clock
Lease ==
    /\ Leasable /\ task.attempts < MaxAttempts
    /\ task' = [status |-> "leased", due |-> 0, attempts |-> task.attempts + 1, epoch |-> task.epoch + 1]
    /\ Goto("begin")
    /\ UNCHANGED <<clock, research, blocker, checkpoint, resumes, losses>>

\* leaseNextJob's sweep: the lease of the last attempt has expired.  The run
\* fails, also when it was cancelled, quarantined or asked for a decision.
SweepTask ==
    /\ Leasable /\ task.status = "leased" /\ task.attempts >= MaxAttempts
    /\ task' = [task EXCEPT !.status = "failed"]
    /\ research' = "failed"
    /\ UNCHANGED <<clock, handling, blocker, checkpoint, resumes, losses>>

\* cancelLeasedJob
CancelTask ==
    /\ research = "cancelled"
    /\ task' = [task EXCEPT !.status = "cancelled"]
    /\ handling' = Idle
    /\ UNCHANGED <<clock, research, blocker, checkpoint, resumes, losses>>

-----------------------------------------------------------------------------
(* execute(): before the handler *)

BeginTask == handling.pc = "begin" /\ CancelTask

\* A blocker whose window has passed is turned into a decision before any
\* provider is called.
EnterStage ==
    /\ handling.pc = "begin" /\ research # "cancelled"
    /\ IF Expired THEN Goto("marking") ELSE Goto("stage")
    /\ UNCHANGED <<clock, research, task, blocker, checkpoint, resumes, losses>>

\* The row of the decision; its other facts stay for the resume.
Decided(row) == [row EXCEPT !.open = TRUE, !.first = FirstFailure, !.until = Until,
                            !.after = KnownAfter, !.durable = Completed,
                            !.decision = TRUE]

\* markPlaylistDependencyDecision accepts an active run only.
Mark ==
    /\ handling.pc = "marking"
    /\ research = Active
    /\ blocker' = Decided(blocker)
    /\ research' = "needs_decision"
    /\ Goto("resolved")
    /\ UNCHANGED <<clock, task, checkpoint, resumes, losses>>

\* Before the handler the refusal is an unclassified error of the execution.
MarkStale ==
    /\ handling.pc = "marking" /\ research # Active
    /\ Throw("unexpected", 0)
    /\ UNCHANGED <<clock, research, task, blocker, checkpoint, resumes, losses>>

-----------------------------------------------------------------------------
(* The handler: PipelineV3WorkerExecutionService.process *)

\* A stage that was persisted, asks or has failed its integrity returns at once.
\* Mutant: a refusal of the provider is reported as a completed stage.
DoneOrRefused == {"complete", "question", "broken", "refused"}
DoneStates == {"complete", "question", "broken"}
StageDone ==
    /\ handling.pc = "stage" /\ checkpoint.state \in DoneStates
    /\ Goto("returned")
    /\ UNCHANGED <<clock, research, task, blocker, checkpoint, resumes, losses>>

\* A refusal, an exhausted second pass and a wait recorded by this lease
\* generation or a later one are thrown again without a call.
StageRethrows ==
    /\ handling.pc = "stage"
    /\ \/ checkpoint.state = "refused" /\ Throw("refused", 0)
       \/ checkpoint.state = "compute2" /\ Throw("compute2", 0)
       \/ /\ checkpoint.state = "waiting" /\ task.epoch <= checkpoint.epoch
          /\ Throw("unavailable", checkpoint.after)
    /\ UNCHANGED <<clock, research, task, blocker, checkpoint, resumes, losses>>

\* No earlier execution has left a verdict.
StageOpen ==
    /\ handling.pc = "stage"
    /\ \/ checkpoint.state \in {"none", "in_progress", "compute1"}
       \/ checkpoint.state = "waiting" /\ task.epoch > checkpoint.epoch

\* The stage starts: from its beginning with calls of the provider, or with
\* the optimizer alone when the first pass left its tracks.
StartStage ==
    /\ StageOpen
    /\ IF checkpoint.state = "compute1" THEN Goto("compute") ELSE Goto("call")
    /\ checkpoint' = [state |-> "in_progress", epoch |-> 0, after |-> 0]
    /\ UpdateRun(Active)
    /\ UNCHANGED <<clock, task, blocker, resumes, losses>>

Executing == handling.pc \in {"call", "compute"}

\* The provider is unavailable; some of its failures leave a waiting
\* checkpoint with the lease generation, others only the error.
Unavailable ==
    /\ handling.pc = "call"
    /\ blocker.open \/ clock <= LastOutage
    /\ \E delay \in RetryAfters \cup {0} :
         LET after == IF delay = 0 THEN 0 ELSE clock + delay IN
         /\ after <= MaxTime
         /\ Throw("unavailable", after)
         /\ \/ UNCHANGED <<checkpoint, research>>
            \/ /\ checkpoint' = [state |-> "waiting", epoch |-> task.epoch, after |-> after]
               /\ UpdateRun(Active)
    /\ UNCHANGED <<clock, task, blocker, resumes, losses>>

\* The provider refuses for good: the checkpoint is saved, then the run.
RefuseSave ==
    /\ handling.pc = "call"
    /\ checkpoint' = [checkpoint EXCEPT !.state = "refused"]
    /\ Goto("refusing")
    /\ UNCHANGED <<clock, research, task, blocker, resumes, losses>>
RefuseRun ==
    /\ handling.pc = "refusing"
    /\ UpdateRun("failed_integrity")
    /\ Throw("refused", 0)
    /\ UNCHANGED <<clock, task, blocker, checkpoint, resumes, losses>>

\* The stage fails its integrity, before it starts or later: the checkpoint is
\* saved, then the run, and the handler returns.
BreakSave ==
    /\ StageOpen \/ Executing
    /\ checkpoint' = [state |-> "broken", epoch |-> 0, after |-> 0]
    /\ Goto("breaking")
    /\ UNCHANGED <<clock, research, task, blocker, resumes, losses>>
BreakRun ==
    /\ handling.pc = "breaking"
    /\ UpdateRun("failed_integrity")
    /\ Goto("returned")
    /\ UNCHANGED <<clock, task, blocker, checkpoint, resumes, losses>>

\* The optimizer exhausts its compute budget, in the first or second pass.
Overrun ==
    /\ Executing /\ clock + ComputeDelay <= MaxTime
    /\ LET pass == IF handling.pc = "call" THEN "compute1" ELSE "compute2" IN
       /\ checkpoint' = [checkpoint EXCEPT !.state = pass]
       /\ Throw(pass, 0)
    /\ UpdateRun("recovering")
    /\ UNCHANGED <<clock, task, blocker, resumes, losses>>

\* Any other error.
Fault ==
    /\ Executing
    /\ Throw("unexpected", 0)
    /\ UNCHANGED <<clock, research, task, blocker, checkpoint, resumes, losses>>

\* The result or, before the stage starts, a plan of the legacy executor needs
\* a decision, or the corpus a review: the checkpoint is saved, then the run,
\* which a legacy plan without a contract fails.
SaveQuestion ==
    /\ StageOpen \/ Executing
    /\ checkpoint' = [state |-> "question", epoch |-> 0, after |-> 0]
    /\ Goto("asking")
    /\ UNCHANGED <<clock, research, task, blocker, resumes, losses>>
AskScope ==
    /\ handling.pc = "asking"
    /\ \E status \in {"asked", "failed_integrity"} : UpdateRun(status)
    /\ Goto("returned")
    /\ UNCHANGED <<clock, task, blocker, checkpoint, resumes, losses>>

\* The contract to decide about is missing or fails its integrity.
QuestionFails ==
    /\ handling.pc = "asking"
    /\ Throw("unexpected", 0)
    /\ UNCHANGED <<clock, research, task, blocker, checkpoint, resumes, losses>>

\* persistPipelineV3RetrievalResult writes the status of the run whatever it
\* is, a cancelled one included; the checkpoint and the run's phase follow.
Persist ==
    /\ Executing
    /\ research' = "settled"
    /\ Goto("persisted")
    /\ UNCHANGED <<clock, task, blocker, checkpoint, resumes, losses>>
SaveComplete ==
    /\ handling.pc = "persisted"
    /\ checkpoint' = [checkpoint EXCEPT !.state = "complete"]
    /\ UpdateRun("settled")
    /\ Goto("returned")
    /\ UNCHANGED <<clock, task, blocker, resumes, losses>>

-----------------------------------------------------------------------------
(* execute(): after the handler *)

CancelReturned == handling.pc = "returned" /\ CancelTask

\* resolvePlaylistRunBlockers
ResolveBlocker ==
    /\ handling.pc = "returned" /\ research # "cancelled"
    /\ blocker' = [blocker EXCEPT !.open = FALSE]
    /\ Goto("resolved")
    /\ UNCHANGED <<clock, research, task, checkpoint, resumes, losses>>

CompleteTask ==
    /\ handling.pc = "resolved"
    /\ task' = [task EXCEPT !.status = "complete"]
    /\ handling' = Idle
    /\ UNCHANGED <<clock, research, blocker, checkpoint, resumes, losses>>

-----------------------------------------------------------------------------
(* execute(): the catch block *)

CancelFailing == handling.pc = "failing" /\ CancelTask

\* The run is not cancelled when the error is classified; it may be later.
Classify ==
    /\ handling.pc = "failing" /\ research # "cancelled"
    /\ Goto("deciding")
    /\ UNCHANGED <<clock, research, task, blocker, checkpoint, resumes, losses>>

\* Mutant: the slot is not counted.
OpenedSameSlot(row) ==
    [row EXCEPT !.open = TRUE, !.first = FirstFailure, !.until = Until,
                !.durable = Completed, !.after = KnownAfter,
                !.decision = row.open /\ row.decision]
Opened(row) ==
    [row EXCEPT !.open = TRUE, !.first = FirstFailure, !.until = Until,
                !.durable = Earlier(Slots, Completed + 1), !.after = KnownAfter,
                !.decision = row.open /\ row.decision]

\* The next retry of an outage.
OpenCircuit ==
    /\ handling.pc = "deciding" /\ handling.error = "unavailable" /\ ~WindowPassed
    /\ blocker' = Opened(blocker)
    /\ \E due \in RetryTimes : handling' = [handling EXCEPT !.pc = "retry", !.due = due]
    /\ UNCHANGED <<clock, research, task, checkpoint, resumes, losses>>

\* The window passed during the call.
DecideLate ==
    /\ handling.pc = "deciding" /\ handling.error = "unavailable" /\ WindowPassed
    /\ research = Active
    /\ blocker' = Decided(blocker)
    /\ research' = "needs_decision"
    /\ Goto("resolved")
    /\ UNCHANGED <<clock, task, checkpoint, resumes, losses>>

\* A refusal of the decision in the catch block leaves execute(): the job
\* stays leased until its lease expires.
DecideStale ==
    /\ handling.pc = "deciding" /\ handling.error = "unavailable" /\ WindowPassed
    /\ research # Active
    /\ Abandon
    /\ UNCHANGED <<clock, research, blocker, checkpoint, resumes, losses>>

\* A first exhausted pass is given a second one while attempts are left.
SecondPass == handling.error = "compute1" /\ task.attempts < MaxAttempts
RetryCompute ==
    /\ handling.pc = "deciding" /\ SecondPass
    /\ handling' = [handling EXCEPT !.pc = "retry", !.due = clock + ComputeDelay]
    /\ UNCHANGED <<clock, research, task, blocker, checkpoint, resumes, losses>>

\* quarantineCanonicalExecution: every error that heals by no replay.
QuarantineRun ==
    /\ handling.pc = "deciding" /\ handling.error # "unavailable" /\ ~SecondPass
    /\ research' = IF research = "cancelled" THEN research ELSE "quarantined"
    /\ Goto("close")
    /\ UNCHANGED <<clock, task, blocker, checkpoint, resumes, losses>>

\* failJob without a retry, and with one when attempts are left.
\* Mutant: the exclusions of the sweep.
FailedUnlessFailed == "failed"
FailedRunStatus == IF research \in {"failed", "cancelled", "quarantined"} THEN research ELSE "failed"
FailTask ==
    /\ \/ handling.pc = "close"
       \/ handling.pc = "retry" /\ task.attempts >= MaxAttempts
    /\ task' = [task EXCEPT !.status = "failed"]
    /\ research' = FailedRunStatus
    /\ handling' = Idle
    /\ UNCHANGED <<clock, blocker, checkpoint, resumes, losses>>
Requeue ==
    /\ handling.pc = "retry" /\ task.attempts < MaxAttempts
    /\ task' = [task EXCEPT !.status = "queued", !.due = handling.due]
    /\ handling' = Idle
    /\ UNCHANGED <<clock, research, blocker, checkpoint, resumes, losses>>

-----------------------------------------------------------------------------
(* The visitor, the environment and time *)

\* cancelRunByVisitor cancels the run and its queued job.
CancelRun ==
    /\ research # "cancelled"
    /\ research' = "cancelled"
    /\ task' = IF task.status = "queued" THEN [task EXCEPT !.status = "cancelled"] ELSE task
    /\ UNCHANGED <<clock, handling, blocker, checkpoint, resumes, losses>>

\* resumePlaylistDependencyDecision: a new job for the same plan and stage,
\* due when the provider's Retry-After allows it.
Resumable == blocker.open /\ blocker.decision /\ blocker.until <= clock
Resume ==
    /\ resumes < MaxResumes /\ Later(clock, blocker.after) <= LastOutage
    /\ research = "needs_decision" /\ Resumable
    /\ ~Live
    /\ resumes' = resumes + 1
    /\ task' = [status |-> "queued", due |-> Later(clock, blocker.after), attempts |-> 0, epoch |-> 0]
    /\ blocker' = [blocker EXCEPT !.open = FALSE]
    /\ research' = Active
    /\ handling' = Idle
    /\ UNCHANGED <<clock, checkpoint, losses>>

\* The worker dies or loses its lease; the job stays leased.
LoseExecution ==
    /\ losses < MaxLosses /\ handling.pc # "none"
    /\ clock + LeaseTime <= MaxTime
    /\ losses' = losses + 1
    /\ Abandon
    /\ UNCHANGED <<clock, research, blocker, checkpoint, resumes>>

\* Time passes between executions and during calls and computations; the
\* statements of an execution take none of it.
Tick ==
    /\ clock < MaxTime
    /\ handling.pc \in {"none", "call", "compute"}
    /\ Leasable => clock < task.due + MaxWait
    /\ clock' = clock + 1
    /\ UNCHANGED <<research, task, handling, blocker, checkpoint, resumes, losses>>

Worker ==
    \/ Lease \/ SweepTask
    \/ BeginTask \/ EnterStage \/ Mark \/ MarkStale
    \/ StageDone \/ StageRethrows \/ StartStage
    \/ Unavailable \/ RefuseSave \/ RefuseRun \/ BreakSave \/ BreakRun
    \/ Overrun \/ Fault \/ SaveQuestion \/ AskScope \/ QuestionFails \/ Persist \/ SaveComplete
    \/ CancelReturned \/ ResolveBlocker \/ CompleteTask
    \/ CancelFailing \/ Classify \/ OpenCircuit \/ DecideLate \/ DecideStale
    \/ RetryCompute \/ QuarantineRun \/ FailTask \/ Requeue

CircuitNext == Worker \/ CancelRun \/ Resume \/ LoseExecution \/ Tick

\* A worker polls and finishes what it began, and time passes.
CircuitSpec == CircuitInit /\ [][CircuitNext]_circuitVars
               /\ WF_circuitVars(Worker) /\ WF_circuitVars(Tick)

-----------------------------------------------------------------------------
(* Properties *)

CircuitTypeOK ==
    /\ clock \in Nat /\ resumes \in Nat /\ losses \in Nat
    /\ research \in ResearchStates
    /\ task \in TaskRows /\ task.attempts <= MaxAttempts
    /\ handling \in HandlingRows
    /\ blocker \in BlockerRows
    /\ checkpoint \in CheckpointRows

\* An outage alone never uses up the attempts of its job: the slots, the wake
\* at the horizon and one second pass of the optimizer fit.  With crashes no
\* such bound holds: one between the resolved blocker and the completed job
\* lets the slots begin again.
OutageNotFailed == losses = 0 /\ Slots + 3 <= MaxAttempts => research # "failed"

\* A restart neither extends the window nor repeats a slot: while the blocker
\* is open its first failure and its horizon stay, and the slot and the
\* Retry-After only move forward.
Anchored ==
    blocker.open /\ blocker'.open =>
        /\ blocker'.first = blocker.first /\ blocker'.until = blocker.until
        /\ blocker'.durable >= blocker.durable /\ blocker'.after >= blocker.after
WindowAnchored == [][Anchored]_circuitVars

\* A run that asks for the decision of an outage can be resumed: its blocker
\* is open, carries the decision and its window has passed.
ResumableDecision == research = "needs_decision" => Resumable

\* The provider is never called before the time it named, except after a loss
\* between the blocker and the job's retry time.
Heeds == handling.pc # "call" /\ handling'.pc = "call" => clock >= blocker.after \/ losses > 0
RetryAfterKept == [][Heeds]_circuitVars

\* Without a loss a verdict about the run stands until its visitor acts: a
\* decision until it is resumed or cancelled, a quarantine, a question of
\* scope and a persisted result until it is cancelled.
Verdicts == {"needs_decision", "quarantined", "asked", "settled"}
KeepsVerdict ==
    losses = 0 /\ research \in Verdicts =>
        \/ research' \in {research, "cancelled"}
        \/ research = "needs_decision" /\ resumes' > resumes
VerdictKept == [][KeepsVerdict]_circuitVars

\* A run that is open has a job, except when an execution was lost between the
\* checkpoint of a failed integrity or of a question and the status of the run.
StageStranded == losses > 0 /\ checkpoint.state \in {"broken", "question"}
StageKeepsWork == research \in {Active, "recovering"} => Live \/ StageStranded

\* Every outage comes to a verdict: nothing waits for ever.
OutageEnds == research \in {Active, "recovering"}
                  ~> research \notin {Active, "recovering"} \/ StageStranded

=============================================================================
