------------------------------ MODULE JobQueue ------------------------------
(***************************************************************************)
(* The durable job queue and the worker runner: server/repository.ts       *)
(* (job_queue, playlist_execution_attempts, research_runs) and             *)
(* server/worker-runner.ts (WorkerRunner.run, execute, stop,               *)
(* enforceControls), with the two triggers that fence a lease.             *)
(*                                                                         *)
(* Time is abstract: instead of a clock, a lease is "live" until the       *)
(* action LeaseExpires, and a queued job is "due" after BecomesDue.        *)
(* Every transaction of the repository is one action; an execution (one    *)
(* call of WorkerRunner.execute) is a sequence of such actions.            *)
(***************************************************************************)
EXTENDS Integers, FiniteSets

CONSTANTS
    Jobs,         \* research, matching and publication jobs of job_queue
    Runs,         \* research_runs
    Workers,      \* worker processes: a restarted process has a new identity
    Execs,        \* calls of execute() that can be in progress at once
    Lanes,        \* groups of jobs of which one may hold a live lease
    NoLane, NoWorker, NoExec,
    RunOf,        \* the run a job works for
    KindOf,       \* "research" (research, matching) or "publication"
    LaneOf,       \* the lane of a job, NoLane for a fast job
    Canonical,    \* the corpus_first_v3 jobs: the others are fenced by owner only
    MaxAttempts,  \* job_queue.max_attempts
    Capacity,     \* WORKER_CONCURRENCY: live leases over all workers
    Concurrency,  \* executions one worker process starts
    MaxEpoch,     \* bound: lease generations of a job
    MaxPauses,    \* bound: owner pauses and deferrals for Apple authorization
    MaxRequests,  \* bound: visitor and owner requests (cancel, delete, publish)
    MaxFaults     \* bound: repository calls that fail

ASSUME FiniteAssumption == IsFiniteSet(Jobs)
ASSUME NullAssumption == /\ NoWorker \notin Workers
                         /\ NoExec \notin Execs
                         /\ NoLane \notin Lanes
ASSUME BoundAssumption == /\ MaxAttempts \in Nat \ {0}
                          /\ Capacity \in 1..10
                          /\ Concurrency \in 1..2
                          /\ MaxEpoch \in Nat
                          /\ MaxPauses \in Nat
                          /\ MaxRequests \in Nat
                          /\ MaxFaults \in Nat
ASSUME JobAssumption == /\ RunOf \in [Jobs -> Runs]
                        /\ KindOf \in [Jobs -> {"research", "publication"}]
                        /\ LaneOf \in [Jobs -> Lanes \cup {NoLane}]
                        /\ Canonical \subseteq Jobs

VARIABLES
    job,        \* job_queue rows
    attempt,    \* attempt[j][g]: the playlist_execution_attempts row of generation g
    run,        \* research_runs.status (with the phase owner_cancelled)
    exec,       \* executions in progress
    active,     \* active[w][j]: WorkerRunner.active of process w
    worker,     \* worker processes
    paused,     \* kinds whose owner pause setting is "true"
    spare,      \* what is left of the bounds
    overtaken,  \* ghost: executions whose job another worker has leased since
    blame       \* ghost: what made the execution that quarantined a run give up

vars == <<job, attempt, run, exec, active, worker, paused, spare, overtaken, blame>>

Kinds == {"research", "publication"}
Generations == 0..MaxEpoch
Settled == {"complete", "failed", "cancelled"}

JobRows == [status: {"queued", "leased"} \cup Settled,
            owner: Workers \cup {NoWorker},
            epoch: Generations,
            live: BOOLEAN,      \* lease_expires_at > now()
            due: BOOLEAN,       \* available_at <= now()
            attempts: 0..MaxAttempts]

\* "finished" is complete or blocked, which the write fence still admits;
\* "closed" is failed, cancelled or discarded, which it does not.
AttemptStates == {"none", "running", "finished", "closed"}

\* "active" is every status of work in progress; "publication_failed" and
\* "owner_cancelled" are the status failed with that phase.
RunStates == {"active", "complete", "partial", "failed", "publication_failed",
              "owner_cancelled", "cancelled", "quarantined", "deleted"}

\* How an execution ends: the attempt status it writes, whether it stops when
\* that write is not accepted, and what it does to the job afterwards.
Plans == {"complete", "cancel", "pause", "wait", "retry", "reject", "quarantine"}

FinishAs(p) == IF p \in {"complete", "pause", "wait", "retry"} THEN "finished" ELSE "closed"
MustBeAccepted == {"complete", "wait", "retry", "reject"}
Quarantining == {"reject", "quarantine"}

\* What execute() catches: errors of the handler ("fault" is any error the
\* runner has no class for), an abort reason, a write fence that is lost. An
\* optimizer out of compute budget is "transient" before the last attempt and
\* "rejected" on it.
Errors == {"fault", "integrity", "rejected", "transient", "decision",
           "provider_blocked", "publication_paused"}
Causes == Errors \cup {"none", "aborted", "fence_lost"}

PCs == {"start", "begin", "handler", "finish", "resolve", "quarantine", "settle", "discard"}

ExecRows == [pc: PCs, job: Jobs, worker: Workers, epoch: Generations,
             begun: BOOLEAN,     \* contractAttempt is not null
             lost: BOOLEAN,      \* leaseLost
             aborted: BOOLEAN,   \* controller.signal.aborted
             control: {"none", "pause", "cancel"},
             plan: Plans, cause: Causes,
             catching: BOOLEAN]  \* inside the catch block

Idle == [pc |-> "idle"]

TypeOK ==
    /\ job \in [Jobs -> JobRows]
    /\ attempt \in [Jobs -> [Generations -> AttemptStates]]
    /\ run \in [Runs -> RunStates]
    /\ exec \in [Execs -> ExecRows \cup {Idle}]
    /\ active \in [Workers -> [Jobs -> Execs \cup {NoExec}]]
    /\ worker \in [Workers -> {"up", "stopping", "down"}]
    /\ paused \subseteq Kinds
    /\ spare \in [pauses: 0..MaxPauses, requests: 0..MaxRequests, faults: 0..MaxFaults]
    /\ overtaken \subseteq Execs
    /\ blame \in [Runs -> Causes]

Init ==
    /\ job = [j \in Jobs |-> [status |-> "queued", owner |-> NoWorker, epoch |-> 0,
                              live |-> FALSE, due |-> TRUE, attempts |-> 0]]
    /\ attempt = [j \in Jobs |-> [g \in Generations |-> "none"]]
    /\ run = [r \in Runs |-> "active"]
    /\ exec = [e \in Execs |-> Idle]
    /\ active = [w \in Workers |-> [j \in Jobs |-> NoExec]]
    /\ worker = [w \in Workers |-> "up"]
    /\ paused = {}
    /\ spare = [pauses |-> MaxPauses, requests |-> MaxRequests, faults |-> MaxFaults]
    /\ overtaken = {}
    /\ blame = [r \in Runs |-> "none"]

-----------------------------------------------------------------------------
(* Predicates over the rows: the WHERE clauses of the repository.          *)

Live(j) == job[j].status = "leased" /\ job[j].live
Expired(j) == job[j].status = "leased" /\ ~job[j].live
LiveLeases == {j \in Jobs : Live(j)}
Running(e) == exec[e].pc # "idle"
RunOfExec(e) == RunOf[exec[e].job]

\* Mutant: the generation is not compared.
OwnsByName(e) ==
    LET j == exec[e].job IN
    /\ job[j].status = "leased"
    /\ job[j].owner = exec[e].worker

\* completeJob, failJob, deferJob, cancelLeasedJob: owner, and the epoch for V3.
Owns(e) ==
    LET j == exec[e].job IN
    /\ job[j].status = "leased"
    /\ job[j].owner = exec[e].worker
    /\ j \in Canonical => job[j].epoch = exec[e].epoch

\* quarantineCanonicalExecution: owner and epoch, the expiry is not read.
OwnsGeneration(e) ==
    LET j == exec[e].job IN
    /\ job[j].status = "leased"
    /\ job[j].owner = exec[e].worker
    /\ job[j].epoch = exec[e].epoch

\* beginPlaylistExecutionAttempt, completePlaylistExecutionAttempt.
HoldsLease(e) == OwnsGeneration(e) /\ job[exec[e].job].live

\* assertPipelineV3WriteFence: the lease and the attempt of its generation.
WriteFence(e) ==
    /\ HoldsLease(e)
    /\ attempt[exec[e].job][exec[e].epoch] \in {"running", "finished"}

\* renewJobLease succeeds.
Renewable(e) == Owns(e) /\ job[exec[e].job].live

\* runCancellationReason
Cancelled(r) == run[r] \in {"cancelled", "owner_cancelled", "deleted"}

\* this.active.get(job.id)?.controlAction: the entry may be a newer execution's.
ControlOf(e) ==
    LET entry == active[exec[e].worker][exec[e].job] IN
    IF entry = NoExec THEN "none" ELSE exec[entry].control

-----------------------------------------------------------------------------
(* Row updates, with the triggers that fire on them.                       *)

\* Mutant: there is no such trigger.
CloseNothing(j) == attempt[j]

\* close_reclaimed_playlist_execution_attempt: a row that leaves its lease
\* generation discards the running attempt of that generation.
CloseRunning(j) ==
    [g \in Generations |-> IF g = job[j].epoch /\ attempt[j][g] = "running"
                           THEN "closed" ELSE attempt[j][g]]

\* fence_job_lease_epoch: a new generation starts when the row becomes leased
\* or changes owner, and not when its owner leases it again.
NextEpoch(j, w) ==
    IF job[j].status # "leased" \/ job[j].owner # w THEN job[j].epoch + 1 ELSE job[j].epoch

Released(j, status) ==
    [job[j] EXCEPT !.status = status, !.owner = NoWorker, !.live = FALSE]

\* execute() is over: run() removes the entry if it is still its own.
Leave(e) ==
    LET w == exec[e].worker  j == exec[e].job IN
    /\ exec' = [exec EXCEPT ![e] = Idle]
    /\ active' = [active EXCEPT ![w][j] = IF active[w][j] = e THEN NoExec ELSE active[w][j]]
    /\ overtaken' = overtaken \ {e}

Goto(e, pc) ==
    /\ exec' = [exec EXCEPT ![e] = [@ EXCEPT !.pc = pc]]
    /\ UNCHANGED <<active, overtaken>>
Adopt(e, pc, p) ==
    /\ exec' = [exec EXCEPT ![e] = [@ EXCEPT !.pc = pc, !.plan = p]]
    /\ UNCHANGED <<active, overtaken>>

-----------------------------------------------------------------------------
(* The catch block of execute(). Its tests follow the throw without a      *)
(* yield, up to the read of the run's cancellation.                        *)

Cancelling(e) == Cancelled(RunOfExec(e)) \/ ControlOf(e) = "cancel"
Deferring(e, c) == ControlOf(e) = "pause" \/ c = "publication_paused"

ClassifiedPlan(e, c) ==
    CASE c = "rejected" -> "reject"
      [] c = "transient" -> "retry"
      [] c = "decision" -> "wait"
      [] OTHER -> IF exec[e].begun THEN "quarantine" ELSE "retry"

CaughtPlan(e, c) ==
    IF c = "provider_blocked" THEN "wait"
    ELSE IF c = "integrity" THEN "quarantine"
    ELSE IF Cancelling(e) THEN "cancel"
    ELSE IF Deferring(e, c) THEN "pause"
    ELSE ClassifiedPlan(e, c)

\* A blocker is opened through the write fence before the attempt is finished.
OpensBlocker(e, c) ==
    /\ exec[e].begun
    /\ \/ c \in {"transient", "decision"} /\ ~Cancelling(e) /\ ~Deferring(e, c)
       \/ c = "publication_paused" /\ ~Cancelling(e)

\* A call throws: the catch block of try chooses a plan; a call of the catch
\* block itself ends execute() with the job as it is.
Raise(e, c) ==
    IF exec[e].catching \/ (~exec[e].lost /\ OpensBlocker(e, c) /\ ~WriteFence(e))
    THEN Leave(e)
    ELSE /\ exec' = [exec EXCEPT ![e] =
              IF exec[e].lost THEN [@ EXCEPT !.catching = TRUE, !.pc = "discard"]
              ELSE [@ EXCEPT !.catching = TRUE, !.pc = "finish", !.plan = CaughtPlan(e, c),
                    !.cause = IF CaughtPlan(e, c) \in Quarantining THEN c ELSE "none"]]
         /\ UNCHANGED <<active, overtaken>>

-----------------------------------------------------------------------------
(* leaseNextJob, one transaction under the queue's advisory lock.          *)

\* Leases that expired on the final attempt: they are failed first, and the
\* update commits whether or not a job is then leased.
Exhausted == {j \in Jobs : Expired(j) /\ job[j].attempts >= MaxAttempts}

\* The run status a job that fails for good writes, by its kind.
FailedRun(j) == IF KindOf[j] = "publication" THEN "publication_failed" ELSE "failed"

\* Mutant: the sweep fails the jobs only.
SweptRunUntouched(r) == run[r]

\* The sweep fails a run that is not settled with the exhausted job. It does
\* not exempt a cancelled or quarantined run, as failJob does.
SweptRun(r) ==
    IF /\ \E j \in Exhausted : RunOf[j] = r
       /\ run[r] \notin {"complete", "partial", "failed", "publication_failed",
                         "owner_cancelled", "deleted"}
    THEN FailedRun(CHOOSE j \in Exhausted : RunOf[j] = r)
    ELSE run[r]

\* Mutant: the lane is not looked at.
CandidateAnyLane(j) ==
    /\ \/ job[j].status = "queued" /\ job[j].due
       \/ Expired(j)
    /\ KindOf[j] \notin paused
    /\ job[j].attempts < MaxAttempts

\* A job the poll of a worker may take; a fast job needs no lane.
Candidate(j) ==
    /\ \/ job[j].status = "queued" /\ job[j].due
       \/ Expired(j)
    /\ KindOf[j] \notin paused
    /\ LaneOf[j] # NoLane => \A k \in LiveLeases : LaneOf[k] # LaneOf[j]
    /\ job[j].attempts < MaxAttempts

MayLease(w) ==
    /\ worker[w] = "up"
    /\ Cardinality({j \in Jobs : active[w][j] # NoExec}) < Concurrency

HasCapacity == Cardinality(LiveLeases) < Capacity

Sweep(w) ==
    /\ MayLease(w)
    /\ Exhausted # {}
    /\ HasCapacity => ~\E j \in Jobs : Candidate(j)
    /\ job' = [j \in Jobs |-> IF j \in Exhausted THEN Released(j, "failed") ELSE job[j]]
    /\ attempt' = [j \in Jobs |-> IF j \in Exhausted THEN CloseRunning(j) ELSE attempt[j]]
    /\ run' = [r \in Runs |-> SweptRun(r)]
    /\ UNCHANGED <<exec, active, worker, paused, spare, overtaken, blame>>

\* Mutant: the lease and the start of the execution both count an attempt.
GrantedTwice(j, w) ==
    [job[j] EXCEPT !.status = "leased", !.owner = w, !.live = TRUE,
                   !.epoch = NextEpoch(j, w), !.attempts = @ + 2]

Granted(j, w) ==
    [job[j] EXCEPT !.status = "leased", !.owner = w, !.live = TRUE,
                   !.epoch = NextEpoch(j, w), !.attempts = @ + 1]

LeaseNext(w, j, e) ==
    /\ MayLease(w) /\ HasCapacity /\ Candidate(j) /\ ~Running(e)
    /\ NextEpoch(j, w) \in Generations
    /\ job' = [k \in Jobs |-> IF k \in Exhausted THEN Released(k, "failed")
                              ELSE IF k = j THEN Granted(j, w) ELSE job[k]]
    /\ attempt' = [k \in Jobs |-> IF \/ k \in Exhausted
                                     \/ k = j /\ Expired(j) /\ NextEpoch(j, w) # job[j].epoch
                                  THEN CloseRunning(k) ELSE attempt[k]]
    /\ run' = [r \in Runs |-> SweptRun(r)]
    /\ exec' = [exec EXCEPT ![e] =
                  [pc |-> "start", job |-> j, worker |-> w, epoch |-> NextEpoch(j, w),
                   begun |-> FALSE, lost |-> FALSE, aborted |-> FALSE, control |-> "none",
                   plan |-> "complete", cause |-> "none", catching |-> FALSE]]
    /\ active' = [active EXCEPT ![w][j] = e]
    /\ overtaken' = overtaken \cup
          {x \in Execs : Running(x) /\ exec[x].job = j /\ exec[x].worker # w}
    /\ UNCHANGED <<worker, paused, spare, blame>>

LeaseExpires(j) ==
    /\ Live(j)
    /\ job' = [job EXCEPT ![j] = [@ EXCEPT !.live = FALSE]]
    /\ UNCHANGED <<attempt, run, exec, active, worker, paused, spare, overtaken, blame>>

BecomesDue(j) ==
    /\ job[j].status = "queued" /\ ~job[j].due
    /\ job' = [job EXCEPT ![j] = [@ EXCEPT !.due = TRUE]]
    /\ UNCHANGED <<attempt, run, exec, active, worker, paused, spare, overtaken, blame>>

-----------------------------------------------------------------------------
(* WorkerRunner.execute.                                                   *)

Start(e) ==
    /\ exec[e].pc = "start"
    /\ IF Cancelled(RunOfExec(e)) THEN Adopt(e, "settle", "cancel")
       ELSE Goto(e, IF exec[e].job \in Canonical THEN "begin" ELSE "handler")
    /\ UNCHANGED <<job, attempt, run, worker, paused, spare, blame>>

\* An attempt is created once for a generation: a second begin of the same
\* generation returns the row that exists, whatever its status.
Begun(j, g) ==
    [h \in Generations |-> CASE h = g /\ attempt[j][h] = "none" -> "running"
                             [] h # g /\ attempt[j][h] = "running" -> "closed"
                             [] OTHER -> attempt[j][h]]

\* beginPlaylistExecutionAttempt
BeginAttempt(e) ==
    LET j == exec[e].job  g == exec[e].epoch IN
    /\ exec[e].pc = "begin"
    /\ IF HoldsLease(e)
       THEN /\ attempt' = [attempt EXCEPT ![j] = Begun(j, g)]
            /\ exec' = [exec EXCEPT ![e] = [@ EXCEPT !.pc = "handler", !.begun = TRUE]]
            /\ UNCHANGED <<active, overtaken>>
       ELSE Raise(e, "fence_lost") /\ UNCHANGED attempt
    /\ UNCHANGED <<job, run, worker, paused, spare, blame>>

\* The handler commits the run's outcome, a V3 handler through its write fence.
\* A handler that meets a decided run changes nothing here (the publication
\* handler may: see CompletionKept in ApplePublication).
CommitOutcome(e, s) ==
    /\ exec[e].pc = "handler"
    /\ exec[e].begun => WriteFence(e)
    /\ run[RunOfExec(e)] = "active"
    /\ run' = [run EXCEPT ![RunOfExec(e)] = s]
    /\ UNCHANGED <<job, attempt, exec, active, worker, paused, spare, overtaken, blame>>

HandlerReturns(e) ==
    /\ exec[e].pc = "handler"
    /\ IF exec[e].lost THEN Goto(e, "discard")
       ELSE Adopt(e, "finish",
              IF Cancelling(e) THEN "cancel"
              ELSE IF ControlOf(e) = "pause" THEN "pause" ELSE "complete")
    /\ UNCHANGED <<job, attempt, run, worker, paused, spare, blame>>

\* The handler throws an error of its own. Only V3 handlers raise the typed
\* errors of the pipeline; a deferral for Apple authorization is bounded.
HandlerThrows(e, c) ==
    /\ exec[e].pc = "handler"
    /\ c \in {"fault", "provider_blocked", "publication_paused"} \/ exec[e].begun
    /\ IF c = "publication_paused"
       THEN /\ KindOf[exec[e].job] = "publication" /\ spare.pauses > 0
            /\ spare' = [spare EXCEPT !.pauses = @ - 1]
       ELSE UNCHANGED spare
    /\ Raise(e, c)
    /\ UNCHANGED <<job, attempt, run, worker, paused, blame>>

\* The handler throws the abort reason (abortIfNeeded).
HandlerAborts(e) ==
    /\ exec[e].pc = "handler" /\ exec[e].aborted
    /\ Raise(e, "aborted")
    /\ UNCHANGED <<job, attempt, run, worker, paused, spare, blame>>

\* A fenced write of the handler is refused (job_lease_lost).
FenceRefuses(e) ==
    /\ exec[e].pc = "handler" /\ exec[e].begun /\ ~WriteFence(e)
    /\ Raise(e, "fence_lost")
    /\ UNCHANGED <<job, attempt, run, worker, paused, spare, blame>>

\* completePlaylistExecutionAttempt; an attempt that is not accepted but still
\* runs is discarded, whoever holds the lease.
FinishAttempt(e) ==
    LET j == exec[e].job  g == exec[e].epoch  p == exec[e].plan
        accepted == HoldsLease(e) /\ attempt[j][g] = "running"
    IN
    /\ exec[e].pc = "finish"
    /\ IF exec[e].begun /\ attempt[j][g] = "running"
       THEN attempt' = [attempt EXCEPT ![j] = [attempt[j] EXCEPT ![g] =
                          IF accepted THEN FinishAs(p) ELSE "closed"]]
       ELSE UNCHANGED attempt
    /\ IF exec[e].begun /\ ~accepted /\ p \in MustBeAccepted
       THEN Leave(e)
       ELSE Goto(e, CASE p \in Quarantining -> "quarantine"
                      [] p = "complete" /\ exec[e].begun -> "resolve"
                      [] OTHER -> "settle")
    /\ UNCHANGED <<job, run, worker, paused, spare, blame>>

\* resolvePlaylistRunBlockers, still inside try.
ResolveBlockers(e) ==
    /\ exec[e].pc = "resolve"
    /\ IF WriteFence(e) THEN Goto(e, "settle") ELSE Raise(e, "fence_lost")
    /\ UNCHANGED <<job, attempt, run, worker, paused, spare, blame>>

\* Mutant: a completed run is not exempt.
QuarantinableAlways(r) == run[r] \notin {"cancelled", "deleted", "quarantined"}

Quarantinable(r) == run[r] \notin {"complete", "cancelled", "deleted", "quarantined"}

\* quarantineCanonicalExecution
Quarantine(e) ==
    LET r == RunOfExec(e)
        transition == OwnsGeneration(e) /\ Quarantinable(r)
    IN
    /\ exec[e].pc = "quarantine"
    /\ run' = [run EXCEPT ![r] = IF transition THEN "quarantined" ELSE run[r]]
    /\ blame' = [blame EXCEPT ![r] = IF transition THEN exec[e].cause ELSE blame[r]]
    /\ Goto(e, "settle")
    /\ UNCHANGED <<job, attempt, worker, paused, spare>>

\* Mutant: a deferral keeps the attempt it has spent.
SettledUnrefunded(j, p) ==
    LET requeued == [Released(j, "queued") EXCEPT !.due = FALSE] IN
    CASE p \in {"complete", "wait"} -> Released(j, "complete")
      [] p = "cancel" -> Released(j, "cancelled")
      [] p = "pause" \/ (p = "retry" /\ job[j].attempts < MaxAttempts) -> requeued
      [] OTHER -> Released(j, "failed")

\* completeJob, cancelLeasedJob, deferJob and failJob. failJob fails the run
\* with the job unless the run is already decided.
SettledRow(j, p) ==
    LET requeued == [Released(j, "queued") EXCEPT !.due = FALSE] IN
    CASE p \in {"complete", "wait"} -> Released(j, "complete")
      [] p = "cancel" -> Released(j, "cancelled")
      [] p = "pause" -> [requeued EXCEPT !.attempts = IF @ = 0 THEN 0 ELSE @ - 1]
      [] p = "retry" /\ job[j].attempts < MaxAttempts -> requeued
      [] OTHER -> Released(j, "failed")

Settle(e) ==
    LET j == exec[e].job  r == RunOfExec(e)  row == SettledRow(j, exec[e].plan) IN
    /\ exec[e].pc = "settle"
    /\ IF Owns(e)
       THEN /\ job' = [job EXCEPT ![j] = row]
            /\ attempt' = [attempt EXCEPT ![j] = CloseRunning(j)]
            /\ run' = [run EXCEPT ![r] = IF row.status = "failed" /\ run[r] = "active"
                                         THEN FailedRun(j) ELSE run[r]]
            /\ Leave(e)
       ELSE Raise(e, "fence_lost") /\ UNCHANGED <<job, attempt, run>>
    /\ UNCHANGED <<worker, paused, spare, blame>>

\* discardPlaylistExecutionAttempt: by id and generation, without the lease.
Discard(e) ==
    LET j == exec[e].job  g == exec[e].epoch IN
    /\ exec[e].pc = "discard"
    /\ IF exec[e].begun /\ attempt[j][g] = "running"
       THEN attempt' = [attempt EXCEPT ![j] = [attempt[j] EXCEPT ![g] = "closed"]]
       ELSE UNCHANGED attempt
    /\ Leave(e)
    /\ UNCHANGED <<job, run, worker, paused, spare, blame>>

\* A call of the repository made by the execution fails (database error).
CallFails(e) ==
    /\ exec[e].pc \in {"start", "begin", "finish", "resolve", "quarantine", "settle", "discard"}
    /\ spare.faults > 0
    /\ spare' = [spare EXCEPT !.faults = @ - 1]
    /\ Raise(e, "fault")
    /\ UNCHANGED <<job, attempt, run, worker, paused, blame>>

-----------------------------------------------------------------------------
(* The timers of the runner and the processes.                             *)

\* The renewal timer finds the lease gone; the flag is set only together with
\* the first abort. A renewal that succeeds leaves the lease live. The catch
\* block reads the flags once, when it starts: setting them later has no effect.
RenewalRefused(e) ==
    /\ Running(e) /\ ~exec[e].catching /\ ~Renewable(e) /\ ~exec[e].aborted
    /\ exec' = [exec EXCEPT ![e] = [@ EXCEPT !.lost = TRUE, !.aborted = TRUE]]
    /\ UNCHANGED <<job, attempt, run, active, worker, paused, spare, overtaken, blame>>

\* The renewal call itself fails: the execution counts its lease as lost.
RenewalFails(e) ==
    /\ Running(e) /\ ~exec[e].catching /\ ~exec[e].lost /\ spare.faults > 0
    /\ spare' = [spare EXCEPT !.faults = @ - 1]
    /\ exec' = [exec EXCEPT ![e] = [@ EXCEPT !.lost = TRUE, !.aborted = TRUE]]
    /\ UNCHANGED <<job, attempt, run, active, worker, paused, overtaken, blame>>

\* enforceControls for one entry of WorkerRunner.active.
EnforceControls(w, j) ==
    LET e == active[w][j]
        control == IF Cancelled(RunOf[j]) THEN "cancel" ELSE "pause"
    IN
    /\ worker[w] = "up" /\ e # NoExec /\ ~exec[e].catching
    /\ \/ Cancelled(RunOf[j])
       \/ KindOf[j] \in paused /\ exec[e].control # "cancel"
    /\ exec[e].control # control
    /\ exec' = [exec EXCEPT ![e] = [@ EXCEPT !.control = control, !.aborted = TRUE]]
    /\ UNCHANGED <<job, attempt, run, active, worker, paused, spare, overtaken, blame>>

\* WorkerRunner.stop on SIGTERM: every entry of active is aborted and awaited.
\* A job whose lease is granted and still on its way to run() is missed: it is
\* executed without an abort. A deployment keeps another worker running.
Stop(w) ==
    /\ worker[w] = "up" /\ \E v \in Workers \ {w} : worker[v] = "up"
    /\ worker' = [worker EXCEPT ![w] = "stopping"]
    /\ \E missed \in {e \in Execs : exec[e].pc = "start"} \cup {NoExec} :
         exec' = [e \in Execs |-> IF e # missed /\ \E j \in Jobs : active[w][j] = e
                                 THEN [exec[e] EXCEPT !.aborted = TRUE] ELSE exec[e]]
    /\ UNCHANGED <<job, attempt, run, active, paused, spare, overtaken, blame>>

\* The process ends with whatever it was doing: a crash, a kill, or the exit
\* after stop(). Its executions vanish between two transactions.
Exit(w) ==
    /\ worker[w] # "down" /\ \E v \in Workers \ {w} : worker[v] = "up"
    /\ worker' = [worker EXCEPT ![w] = "down"]
    /\ exec' = [e \in Execs |-> IF Running(e) /\ exec[e].worker = w THEN Idle ELSE exec[e]]
    /\ active' = [active EXCEPT ![w] = [j \in Jobs |-> NoExec]]
    /\ overtaken' = {e \in overtaken : Running(e) /\ exec[e].worker # w}
    /\ UNCHANGED <<job, attempt, run, paused, spare, blame>>

-----------------------------------------------------------------------------
(* The API server: cancellation, deletion, owner pause, publish request. *)

SpendRequest == spare.requests > 0 /\ spare' = [spare EXCEPT !.requests = @ - 1]

CancelQueued(r) ==
    job' = [j \in Jobs |-> IF RunOf[j] = r /\ job[j].status = "queued"
                           THEN Released(j, "cancelled") ELSE job[j]]

CancelByVisitor(r) ==
    /\ run[r] \notin {"complete", "partial", "cancelled", "deleted"}
    /\ SpendRequest
    /\ run' = [run EXCEPT ![r] = "cancelled"]
    /\ CancelQueued(r)
    /\ UNCHANGED <<attempt, exec, active, worker, paused, overtaken, blame>>

CancelByOwner(r) ==
    /\ run[r] \notin {"complete", "partial", "deleted", "owner_cancelled"}
    /\ SpendRequest
    /\ run' = [run EXCEPT ![r] = "owner_cancelled"]
    /\ CancelQueued(r)
    /\ UNCHANGED <<attempt, exec, active, worker, paused, overtaken, blame>>

\* The last visitor access of a run that is not over is deleted: its leased
\* jobs are cancelled under their worker, and keep the owner column.
DeleteByVisitor(r) ==
    LET dropped == {j \in Jobs : RunOf[j] = r /\ job[j].status \in {"queued", "leased"}} IN
    /\ run[r] \in {"active", "quarantined"}
    /\ SpendRequest
    /\ run' = [run EXCEPT ![r] = "deleted"]
    /\ job' = [j \in Jobs |-> IF j \in dropped
                              THEN [job[j] EXCEPT !.status = "cancelled", !.live = FALSE]
                              ELSE job[j]]
    /\ attempt' = [j \in Jobs |-> IF j \in dropped /\ job[j].status = "leased"
                                  THEN CloseRunning(j) ELSE attempt[j]]
    /\ UNCHANGED <<exec, active, worker, paused, overtaken, blame>>

Pause(k) ==
    /\ k \notin paused /\ spare.pauses > 0
    /\ paused' = paused \cup {k}
    /\ spare' = [spare EXCEPT !.pauses = @ - 1]
    /\ UNCHANGED <<job, attempt, run, exec, active, worker, overtaken, blame>>

Unpause(k) ==
    /\ k \in paused
    /\ paused' = paused \ {k}
    /\ UNCHANGED <<job, attempt, run, exec, active, worker, spare, overtaken, blame>>

\* queueManifestPublication for a manifest that has a publication job: a job
\* still in flight makes the run publishing again, a failed or cancelled one
\* is revived if the run is still open or failed by publication.
RequestPublication(j) ==
    LET r == RunOf[j]
        inFlight == job[j].status \in {"queued", "leased"}
        revivable == /\ job[j].status \in {"failed", "cancelled"}
                     /\ run[r] \in {"active", "publication_failed"}
    IN
    /\ KindOf[j] = "publication" /\ "publication" \notin paused
    /\ run[r] \notin {"complete", "partial", "deleted"}
    /\ SpendRequest
    /\ (inFlight /\ run[r] # "active") \/ revivable
    /\ run' = [run EXCEPT ![r] = "active"]
    /\ job' = IF inFlight THEN job
              ELSE [job EXCEPT ![j] = [Released(j, "queued") EXCEPT !.due = TRUE, !.attempts = 0]]
    /\ UNCHANGED <<attempt, exec, active, worker, paused, overtaken, blame>>

-----------------------------------------------------------------------------
ExecStep(e) ==
    \/ Start(e) \/ BeginAttempt(e)
    \/ \E s \in {"complete", "partial"} : CommitOutcome(e, s)
    \/ HandlerReturns(e) \/ \E c \in Errors : HandlerThrows(e, c)
    \/ HandlerAborts(e) \/ FenceRefuses(e)
    \/ FinishAttempt(e) \/ ResolveBlockers(e) \/ Quarantine(e)
    \/ Settle(e) \/ Discard(e)

TimerStep(e) == CallFails(e) \/ RenewalRefused(e) \/ RenewalFails(e)

WorkerStep(w) ==
    \/ Sweep(w)
    \/ \E j \in Jobs, e \in Execs : LeaseNext(w, j, e)
    \/ \E j \in Jobs : EnforceControls(w, j)
    \/ Stop(w) \/ Exit(w)

ApiStep ==
    \/ \E r \in Runs : CancelByVisitor(r) \/ CancelByOwner(r) \/ DeleteByVisitor(r)
    \/ \E k \in Kinds : Pause(k) \/ Unpause(k)
    \/ \E j \in Jobs : RequestPublication(j)

ClockStep == \E j \in Jobs : LeaseExpires(j) \/ BecomesDue(j)

Next ==
    \/ \E e \in Execs : ExecStep(e) \/ TimerStep(e)
    \/ \E w \in Workers : WorkerStep(w)
    \/ ApiStep
    \/ ClockStep

\* A lease that an execution still renews need not expire.
Renewed(j) == \E e \in Execs : Running(e) /\ exec[e].job = j /\ Renewable(e)

\* Executions proceed and handlers end, workers poll, clocks run, an owner
\* lifts a pause. Nothing obliges anyone to stop, crash, cancel or fail.
Fairness ==
    /\ \A e \in Execs : WF_vars(ExecStep(e))
    /\ \A w \in Workers : WF_vars(Sweep(w) \/ \E j \in Jobs, e \in Execs : LeaseNext(w, j, e))
    /\ \A j \in Jobs : /\ WF_vars(LeaseExpires(j) /\ ~Renewed(j))
                       /\ WF_vars(BecomesDue(j))
    /\ \A k \in Kinds : WF_vars(Unpause(k))

Spec == Init /\ [][Next]_vars /\ Fairness

-----------------------------------------------------------------------------
(* Safety.                                                                 *)

\* Two research or matching jobs that are not fast, or two publications of one
\* manifest, never hold live leases at once (leaseNextJob's NOT EXISTS tests),
\* although renewals, expiries and deferrals race with the poll of every worker.
LaneExclusive ==
    \A j, k \in LiveLeases : LaneOf[j] # NoLane /\ LaneOf[j] = LaneOf[k] => j = k

\* The number of live leases never exceeds WORKER_CONCURRENCY, over all workers.
CapacityRespected == Cardinality(LiveLeases) <= Capacity

\* An attempt runs only under the lease generation that its job holds now: no
\* release, reclaim, sweep, deletion or late begin leaves a running attempt
\* behind. In particular a job has at most one running attempt.
AttemptAuthority ==
    \A j \in Jobs, g \in Generations :
        attempt[j][g] = "running" => job[j].status = "leased" /\ job[j].epoch = g

\* The generations of a job order its executions: none is ahead of the job, one
\* that is level with a leased job is its owner's, and one that another worker
\* has overtaken is behind. Releases, requeues, sweeps, deletions and leases of
\* two workers, and of one worker twice, keep that order.
LeaseOrder ==
    \A e \in Execs : Running(e) =>
        LET j == exec[e].job IN
        /\ exec[e].epoch <= job[j].epoch
        /\ exec[e].epoch = job[j].epoch /\ job[j].status = "leased"
              => job[j].owner = exec[e].worker
        /\ e \in overtaken => exec[e].epoch < job[j].epoch

\* An execution of a V3 job that another worker has overtaken changes neither
\* the job nor the run nor the attempt of the current generation, whatever it
\* still does, also when its worker leases the job again later (the ABA case
\* that owner equality alone would let through).
StaleHarmless ==
    [][\A e \in overtaken :
         exec[e].job \in Canonical /\ ExecStep(e) =>
            /\ UNCHANGED <<job, run>>
            /\ LET j == exec[e].job IN attempt'[j][job[j].epoch] = attempt[j][job[j].epoch]]_vars

\* The audit trail of attempts is append-only: an attempt that is no longer
\* running keeps its status, though finish, discard, begin and two triggers
\* of other executions write the same rows.
ClosedAttemptsFinal ==
    [][\A j \in Jobs, g \in Generations :
         attempt[j][g] \notin {"none", "running"} => attempt'[j][g] = attempt[j][g]]_vars

\* A run the handler has completed is never failed, quarantined, cancelled or
\* reopened afterwards by the settlement of its job, a sweep, a late request.
\* What a handler that runs again does to it is ApplePublication's question.
CompletionFinal == [][\A r \in Runs : run[r] = "complete" => run'[r] = "complete"]_vars

\* A job that fails or is cancelled for good never leaves its run open with
\* nothing working on it: failJob, the sweep and the cancellations write the
\* job and the run, and a failed call, an expired lease or another worker can
\* come between the attempt, the run and the job.
NoStrandedRun ==
    \A j \in Jobs : job[j].status \in {"failed", "cancelled"} => run[RunOf[j]] # "active"

-----------------------------------------------------------------------------
(* Liveness.                                                               *)

\* Every job is settled in the end: lost leases, crashes, failed calls, pauses,
\* deferrals and retries do not leave it queued or leased for ever.
JobsSettle == \A j \in Jobs : job[j].status \in {"queued", "leased"} ~> job[j].status \in Settled

-----------------------------------------------------------------------------
(* What documents and tests of the repository say and the code does not do *)
(* (see README.md, Findings).                                              *)

\* "A worker crash or lost lease cannot finalize stale work": at most one
\* execution of a V3 job passes the write fence. Its own worker may lease an
\* expired job again without a new generation.
SoleAuthority ==
    \A d, e \in Execs :
        /\ Running(d) /\ exec[d].begun /\ WriteFence(d)
        /\ Running(e) /\ exec[e].begun /\ WriteFence(e)
        /\ exec[d].job = exec[e].job
        => d = e

\* A worker that is told to shut down does not quarantine a run.
ShutdownResumes == \A r \in Runs : run[r] = "quarantined" => blame[r] # "aborted"
=============================================================================
