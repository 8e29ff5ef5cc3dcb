--------------------------- MODULE JobQueueProofs ---------------------------
(* Theorems about JobQueue, for every value of its constants.              *)
EXTENDS JobQueue, FiniteSetTheorems, TLAPS

(* The inductive invariant: types, what WorkerRunner.active says of the    *)
(* executions, the order of generations and the rules of the queue.        *)

\* An entry of active is an execution of its worker and its job.
ActiveOwn ==
    \A w \in Workers, j \in Jobs : active[w][j] # NoExec =>
        LET e == active[w][j] IN
        Running(e) /\ exec[e].worker = w /\ exec[e].job = j

\* The handler of a V3 job runs on an attempt that was begun.
HandlerBegun ==
    \A e \in Execs : exec[e].pc = "handler" /\ exec[e].job \in Canonical => exec[e].begun

\* An overtaken execution is one in progress.
OvertakenRun == \A e \in overtaken : Running(e)

ExecInv == ActiveOwn /\ HandlerBegun /\ OvertakenRun

-----------------------------------------------------------------------------
(* What steps keep. Every step but LeaseNext keeps the rows of the queue    *)
(* and the identity of the executions in this sense.                       *)

ExecTypes ==
    /\ exec \in [Execs -> ExecRows \cup {Idle}]
    /\ active \in [Workers -> [Jobs -> Execs \cup {NoExec}]]
    /\ overtaken \subseteq Execs

\* No lease is granted, moved or revived.
JobKept ==
    \A j \in Jobs :
        /\ job'[j].epoch = job[j].epoch
        /\ job'[j].status = "leased" => /\ job[j].status = "leased"
                                        /\ job'[j].owner = job[j].owner
                                        /\ job'[j].live => job[j].live

\* No execution starts or changes what it works on.
ExecKept ==
    /\ \A e \in Execs : Running(e)' =>
          /\ Running(e)
          /\ exec'[e].job = exec[e].job
          /\ exec'[e].worker = exec[e].worker
          /\ exec'[e].epoch = exec[e].epoch
    /\ overtaken' \subseteq overtaken

\* One execution rewrites its row.
Rewrites(e) ==
    /\ \E row \in ExecRows :
          /\ exec' = [exec EXCEPT ![e] = row]
          /\ row.job = exec[e].job /\ row.worker = exec[e].worker /\ row.epoch = exec[e].epoch
          /\ row.pc = "handler" /\ row.job \in Canonical => row.begun
    /\ UNCHANGED <<active, overtaken>>

Moves(e) == Leave(e) \/ Rewrites(e)

LEMMA RunningRow ==
    ASSUME TypeOK, NEW e \in Execs, Running(e)
    PROVE  /\ exec[e] \in ExecRows
           /\ exec[e].job \in Jobs /\ exec[e].worker \in Workers
           /\ exec[e].epoch \in Generations /\ exec[e].plan \in Plans
           /\ exec[e].begun \in BOOLEAN /\ RunOfExec(e) \in Runs
  BY JobAssumption DEF TypeOK, Running, Idle, ExecRows, RunOfExec

LEMMA ExecTypesOfTypeOK == TypeOK => ExecTypes
  BY DEF TypeOK, ExecTypes

\* A move of an execution keeps what is said of executions.
LEMMA LeaveKeeps ==
    ASSUME TypeOK, ExecInv, NEW e \in Execs, Running(e), Leave(e)
    PROVE  ExecTypes' /\ ExecInv' /\ ExecKept
  <1>. DEFINE w == exec[e].worker
              j == exec[e].job
  <1>0. w \in Workers /\ j \in Jobs
    BY RunningRow
  <1>1. /\ exec' = [exec EXCEPT ![e] = Idle]
        /\ active' = [active EXCEPT ![w][j] = IF active[w][j] = e THEN NoExec ELSE active[w][j]]
        /\ overtaken' = overtaken \ {e}
    BY DEF Leave
  <1>2. ExecTypes'
    BY <1>0, <1>1 DEF TypeOK, ExecTypes
  <1>3. ActiveOwn'
    <2>. SUFFICES ASSUME NEW v \in Workers, NEW k \in Jobs, active'[v][k] # NoExec
                  PROVE  /\ exec'[active'[v][k]].pc # "idle"
                         /\ exec'[active'[v][k]].worker = v
                         /\ exec'[active'[v][k]].job = k
      BY DEF ActiveOwn, Running
    <2>1. active'[v][k] = active[v][k] /\ active[v][k] # e
      <3>1. CASE v = w /\ k = j
        BY <1>0, <1>1, <3>1 DEF TypeOK
      <3>2. CASE ~(v = w /\ k = j)
        <4>1. active'[v][k] = active[v][k]
          BY <1>0, <1>1, <3>2 DEF TypeOK
        <4>2. active[v][k] # e
          BY <3>2, <4>1 DEF ExecInv, ActiveOwn
        <4>. QED BY <4>1, <4>2
      <3>. QED BY <3>1, <3>2
    <2>2. active[v][k] \in Execs
      BY <2>1 DEF TypeOK
    <2>3. exec'[active[v][k]] = exec[active[v][k]]
      BY <1>1, <2>1, <2>2 DEF TypeOK
    <2>. QED BY <2>1, <2>2, <2>3 DEF ExecInv, ActiveOwn, Running
  <1>4. HandlerBegun' /\ OvertakenRun' /\ ExecKept
    BY <1>1 DEF ExecInv, HandlerBegun, OvertakenRun, ExecKept, TypeOK, Running, Idle
  <1>. QED BY <1>2, <1>3, <1>4 DEF ExecInv

LEMMA RewriteKeeps ==
    ASSUME TypeOK, ExecInv, NEW e \in Execs, Running(e), Rewrites(e)
    PROVE  ExecTypes' /\ ExecInv' /\ ExecKept
  <1>1. PICK row \in ExecRows :
          /\ exec' = [exec EXCEPT ![e] = row]
          /\ row.job = exec[e].job /\ row.worker = exec[e].worker /\ row.epoch = exec[e].epoch
          /\ row.pc = "handler" /\ row.job \in Canonical => row.begun
    BY DEF Rewrites
  <1>2. active' = active /\ overtaken' = overtaken
    BY DEF Rewrites
  <1>3. row.pc # "idle"
    BY DEF ExecRows, PCs
  <1>4. ExecTypes'
    BY <1>1, <1>2 DEF TypeOK, ExecTypes
  <1>5. \A d \in Execs : /\ d # e => exec'[d] = exec[d]
                        /\ exec'[e] = row
    BY <1>1 DEF TypeOK
  <1>6. ActiveOwn'
    <2>. SUFFICES ASSUME NEW v \in Workers, NEW k \in Jobs, active[v][k] # NoExec
                  PROVE  /\ exec'[active[v][k]].pc # "idle"
                         /\ exec'[active[v][k]].worker = v
                         /\ exec'[active[v][k]].job = k
      BY <1>2 DEF ActiveOwn, Running
    <2>1. active[v][k] \in Execs
      BY DEF TypeOK
    <2>. QED BY <1>1, <1>3, <1>5, <2>1 DEF ExecInv, ActiveOwn, Running
  <1>7. HandlerBegun'
    BY <1>1, <1>5 DEF ExecInv, HandlerBegun
  <1>8. OvertakenRun' /\ ExecKept
    BY <1>1, <1>2, <1>3, <1>5 DEF ExecInv, OvertakenRun, ExecKept, Running, TypeOK
  <1>. QED BY <1>4, <1>6, <1>7, <1>8 DEF ExecInv

LEMMA MoveKeeps ==
    ASSUME TypeOK, ExecInv, NEW e \in Execs, Running(e), Moves(e)
    PROVE  ExecTypes' /\ ExecInv' /\ ExecKept
  BY LeaveKeeps, RewriteKeeps DEF Moves

\* The three helpers of the runner are moves.
LEMMA GotoMoves ==
    ASSUME TypeOK, NEW e \in Execs, Running(e), NEW pc \in PCs, Goto(e, pc),
           pc = "handler" => exec[e].job \notin Canonical
    PROVE  Moves(e)
  <1>1. exec' = [exec EXCEPT ![e] = [exec[e] EXCEPT !.pc = pc]]
    BY DEF Goto, TypeOK
  <1>2. [exec[e] EXCEPT !.pc = pc] \in ExecRows
    BY RunningRow DEF ExecRows
  <1>. QED BY <1>1, <1>2, RunningRow DEF Moves, Rewrites, Goto, ExecRows

LEMMA AdoptMoves ==
    ASSUME TypeOK, NEW e \in Execs, Running(e), NEW pc \in PCs \ {"handler"},
           NEW p \in Plans, Adopt(e, pc, p)
    PROVE  Moves(e)
  <1>1. exec' = [exec EXCEPT ![e] = [exec[e] EXCEPT !.pc = pc, !.plan = p]]
    BY DEF Adopt, TypeOK
  <1>2. [exec[e] EXCEPT !.pc = pc, !.plan = p] \in ExecRows
    BY RunningRow DEF ExecRows
  <1>. QED BY <1>1, <1>2, RunningRow DEF Moves, Rewrites, Adopt, ExecRows

LEMMA RaiseMoves ==
    ASSUME TypeOK, NEW e \in Execs, Running(e), NEW c \in Causes, Raise(e, c)
    PROVE  Moves(e)
  <1>1. CASE Leave(e)
    BY <1>1 DEF Moves
  <1>2. CASE ~Leave(e)
    <2>. DEFINE caught == IF CaughtPlan(e, c) \in Quarantining THEN c ELSE "none"
                row == IF exec[e].lost THEN [exec[e] EXCEPT !.catching = TRUE, !.pc = "discard"]
                       ELSE [exec[e] EXCEPT !.catching = TRUE, !.pc = "finish",
                                            !.plan = CaughtPlan(e, c), !.cause = caught]
    <2>1. CaughtPlan(e, c) \in Plans /\ caught \in Causes
      BY DEF CaughtPlan, ClassifiedPlan, Plans, Causes
    <2>2. row \in ExecRows /\ row.job = exec[e].job /\ row.worker = exec[e].worker
          /\ row.epoch = exec[e].epoch /\ row.pc # "handler"
      BY <2>1, RunningRow DEF ExecRows, PCs
    <2>3. exec' = [exec EXCEPT ![e] = row] /\ UNCHANGED <<active, overtaken>>
      BY <1>2 DEF Raise, TypeOK
    <2>. QED BY <2>2, <2>3 DEF Moves, Rewrites
  <1>. QED BY <1>1, <1>2

-----------------------------------------------------------------------------
(* Types, executions and rows of the queue, action by action.              *)

DataTypes ==
    /\ job \in [Jobs -> JobRows]
    /\ attempt \in [Jobs -> [Generations -> AttemptStates]]
    /\ run \in [Runs -> RunStates]
    /\ worker \in [Workers -> {"up", "stopping", "down"}]
    /\ paused \subseteq Kinds
    /\ spare \in [pauses: 0..MaxPauses, requests: 0..MaxRequests, faults: 0..MaxFaults]
    /\ blame \in [Runs -> Causes]

Kept == TypeOK' /\ ExecInv' /\ JobKept /\ ExecKept

LEMMA TypeParts == TypeOK <=> DataTypes /\ ExecTypes
  BY DEF TypeOK, DataTypes, ExecTypes

LEMMA TypePartsNext == TypeOK' <=> DataTypes' /\ ExecTypes'
  BY DEF TypeOK, DataTypes, ExecTypes

LEMMA SameJobs == job' = job => JobKept
  BY DEF JobKept

LEMMA SameExecs ==
    ASSUME TypeOK, ExecInv, UNCHANGED <<exec, active, overtaken>>
    PROVE  ExecTypes' /\ ExecInv' /\ ExecKept
  BY DEF TypeOK, ExecTypes, ExecInv, ExecKept, ActiveOwn, HandlerBegun, OvertakenRun, Running

\* Rows of the queue.
LEMMA ReleasedType ==
    ASSUME TypeOK, NEW j \in Jobs, NEW s \in {"queued"} \cup Settled
    PROVE  /\ Released(j, s) \in JobRows
           /\ Released(j, s).status = s /\ Released(j, s).epoch = job[j].epoch
           /\ Released(j, s).attempts = job[j].attempts
  <1>1. job[j] \in JobRows
    BY DEF TypeOK
  <1>2. NoWorker \in Workers \cup {NoWorker} /\ s \in {"queued", "leased"} \cup Settled
    OBVIOUS
  <1>. QED BY <1>1, <1>2 DEF Released, JobRows

LEMMA CloseRunningType ==
    ASSUME TypeOK, NEW j \in Jobs
    PROVE  CloseRunning(j) \in [Generations -> AttemptStates]
  BY DEF TypeOK, CloseRunning, AttemptStates

LEMMA AttemptWriteType ==
    ASSUME TypeOK, NEW j \in Jobs, NEW g \in Generations, NEW s \in AttemptStates
    PROVE  [attempt EXCEPT ![j] = [attempt[j] EXCEPT ![g] = s]]
              \in [Jobs -> [Generations -> AttemptStates]]
  <1>1. attempt \in [Jobs -> [Generations -> AttemptStates]]
    BY DEF TypeOK
  <1>2. [attempt[j] EXCEPT ![g] = s] \in [Generations -> AttemptStates]
    BY <1>1
  <1>. QED BY <1>1, <1>2

LEMMA SettledRowType ==
    ASSUME TypeOK, NEW j \in Jobs, NEW p \in Plans
    PROVE  /\ SettledRow(j, p) \in JobRows
           /\ SettledRow(j, p).status \in {"queued"} \cup Settled
           /\ SettledRow(j, p).epoch = job[j].epoch
  <1>. DEFINE requeued == [Released(j, "queued") EXCEPT !.due = FALSE]
              refunded == [requeued EXCEPT !.attempts = IF @ = 0 THEN 0 ELSE @ - 1]
  <1>0. /\ Released(j, "queued") \in JobRows
        /\ Released(j, "queued").status = "queued" /\ Released(j, "queued").epoch = job[j].epoch
    BY ReleasedType
  <1>1. requeued \in JobRows /\ requeued.status = "queued" /\ requeued.epoch = job[j].epoch
    BY <1>0 DEF JobRows
  <1>2. refunded \in JobRows /\ refunded.status = "queued" /\ refunded.epoch = job[j].epoch
    <2>1. requeued.attempts \in 0..MaxAttempts
      BY <1>1 DEF JobRows
    <2>2. (IF requeued.attempts = 0 THEN 0 ELSE requeued.attempts - 1) \in 0..MaxAttempts
      BY <2>1, BoundAssumption
    <2>. QED BY <1>1, <2>2 DEF JobRows
  <1>3. \/ SettledRow(j, p) = requeued
        \/ SettledRow(j, p) = refunded
        \/ \E s \in Settled : SettledRow(j, p) = Released(j, s)
    BY DEF SettledRow, Settled
  <1>4. \A s \in Settled : /\ Released(j, s) \in JobRows
                          /\ Released(j, s).status = s /\ Released(j, s).epoch = job[j].epoch
    BY ReleasedType
  <1>. HIDE DEF requeued, refunded
  <1>. QED BY <1>1, <1>2, <1>3, <1>4

LEMMA FailedRunType == \A j \in Jobs : FailedRun(j) \in {"publication_failed", "failed"}
  BY DEF FailedRun

LEMMA SweptRunType ==
    ASSUME TypeOK
    PROVE  \A r \in Runs : \/ SweptRun(r) = run[r]
                           \/ /\ SweptRun(r) \in {"publication_failed", "failed"}
                              /\ run[r] # "complete"
  BY DEF SweptRun, FailedRun

LEMMA SweptRunsType ==
    ASSUME TypeOK
    PROVE  [r \in Runs |-> SweptRun(r)] \in [Runs -> RunStates]
  BY SweptRunType DEF TypeOK, RunStates

LEMMA StartStep ==
    ASSUME TypeOK, ExecInv, NEW e \in Execs, Start(e)
    PROVE  Kept
  <1>1. Running(e) /\ UNCHANGED <<job, attempt, run, worker, paused, spare, blame>>
    BY DEF Start, Running
  <1>2. Moves(e)
    <2>1. CASE Cancelled(RunOfExec(e))
      BY <1>1, <2>1, AdoptMoves DEF Start, PCs, Plans
    <2>2. CASE ~Cancelled(RunOfExec(e)) /\ exec[e].job \in Canonical
      BY <1>1, <2>2, GotoMoves DEF Start, PCs
    <2>3. CASE ~Cancelled(RunOfExec(e)) /\ exec[e].job \notin Canonical
      BY <1>1, <2>3, GotoMoves DEF Start, PCs
    <2>. QED BY <2>1, <2>2, <2>3
  <1>. QED BY <1>1, <1>2, MoveKeeps, SameJobs, TypeParts, TypePartsNext DEF Kept, DataTypes

LEMMA BeginStep ==
    ASSUME TypeOK, ExecInv, NEW e \in Execs, BeginAttempt(e)
    PROVE  Kept
  <1>1. Running(e) /\ UNCHANGED <<job, run, worker, paused, spare, blame>>
    BY DEF BeginAttempt, Running
  <1>2. CASE HoldsLease(e)
    <2>1. exec' = [exec EXCEPT ![e] = [exec[e] EXCEPT !.pc = "handler", !.begun = TRUE]]
      BY <1>2 DEF BeginAttempt, TypeOK
    <2>2. [exec[e] EXCEPT !.pc = "handler", !.begun = TRUE] \in ExecRows
      BY <1>1, RunningRow DEF ExecRows, PCs
    <2>3. Moves(e)
      BY <1>1, <1>2, <2>1, <2>2, RunningRow DEF Moves, Rewrites, BeginAttempt, ExecRows
    <2>4. attempt' \in [Jobs -> [Generations -> AttemptStates]]
      BY <1>1, <1>2, RunningRow DEF BeginAttempt, Begun, TypeOK, AttemptStates
    <2>. QED BY <1>1, <2>3, <2>4, MoveKeeps, SameJobs, TypeParts, TypePartsNext DEF Kept, DataTypes
  <1>3. CASE ~HoldsLease(e)
    <2>1. Moves(e) /\ attempt' = attempt
      BY <1>1, <1>3, RaiseMoves DEF BeginAttempt, Causes
    <2>. QED BY <1>1, <2>1, MoveKeeps, SameJobs, TypeParts, TypePartsNext DEF Kept, DataTypes
  <1>. QED BY <1>2, <1>3

LEMMA CommitStep ==
    ASSUME TypeOK, ExecInv, NEW e \in Execs, NEW s \in {"complete", "partial"}, CommitOutcome(e, s)
    PROVE  Kept
  <1>1. run' \in [Runs -> RunStates]
    BY DEF CommitOutcome, TypeOK, RunStates
  <1>. QED BY <1>1, SameExecs, SameJobs, TypeParts, TypePartsNext DEF Kept, DataTypes, CommitOutcome

LEMMA HandlerReturnsStep ==
    ASSUME TypeOK, ExecInv, NEW e \in Execs, HandlerReturns(e)
    PROVE  Kept
  <1>1. Running(e) /\ UNCHANGED <<job, attempt, run, worker, paused, spare, blame>>
    BY DEF HandlerReturns, Running
  <1>2. Moves(e)
    BY <1>1, GotoMoves, AdoptMoves DEF HandlerReturns, PCs, Plans
  <1>. QED BY <1>1, <1>2, MoveKeeps, SameJobs, TypeParts, TypePartsNext DEF Kept, DataTypes

LEMMA HandlerThrowsStep ==
    ASSUME TypeOK, ExecInv, NEW e \in Execs, NEW c \in Errors, HandlerThrows(e, c)
    PROVE  Kept
  <1>1. Running(e) /\ UNCHANGED <<job, attempt, run, worker, paused, blame>>
    BY DEF HandlerThrows, Running
  <1>2. Moves(e)
    BY <1>1, RaiseMoves DEF HandlerThrows, Causes
  <1>3. spare' \in [pauses: 0..MaxPauses, requests: 0..MaxRequests, faults: 0..MaxFaults]
    <2>1. spare \in [pauses: 0..MaxPauses, requests: 0..MaxRequests, faults: 0..MaxFaults]
      BY DEF TypeOK
    <2>2. spare' = spare \/ (spare.pauses > 0 /\ spare' = [spare EXCEPT !.pauses = @ - 1])
      BY DEF HandlerThrows
    <2>. QED BY <2>1, <2>2, BoundAssumption
  <1>. QED BY <1>1, <1>2, <1>3, MoveKeeps, SameJobs, TypeParts, TypePartsNext DEF Kept, DataTypes

LEMMA HandlerRefusedStep ==
    ASSUME TypeOK, ExecInv, NEW e \in Execs, HandlerAborts(e) \/ FenceRefuses(e) \/ ResolveBlockers(e)
    PROVE  Kept
  <1>1. Running(e) /\ UNCHANGED <<job, attempt, run, worker, paused, spare, blame>>
    BY DEF HandlerAborts, FenceRefuses, ResolveBlockers, Running
  <1>2. Moves(e)
    BY <1>1, RaiseMoves, GotoMoves DEF HandlerAborts, FenceRefuses, ResolveBlockers, Causes, PCs
  <1>. QED BY <1>1, <1>2, MoveKeeps, SameJobs, TypeParts, TypePartsNext DEF Kept, DataTypes

LEMMA FinishStep ==
    ASSUME TypeOK, ExecInv, NEW e \in Execs, FinishAttempt(e)
    PROVE  Kept
  <1>1. Running(e) /\ UNCHANGED <<job, run, worker, paused, spare, blame>>
    BY DEF FinishAttempt, Running
  <1>2. Moves(e)
    BY <1>1, GotoMoves DEF FinishAttempt, Moves, PCs
  <1>3. attempt' \in [Jobs -> [Generations -> AttemptStates]]
    <2>1. attempt' = attempt \/ \E s \in AttemptStates :
              attempt' = [attempt EXCEPT ![exec[e].job] = [attempt[exec[e].job] EXCEPT ![exec[e].epoch] = s]]
      BY DEF FinishAttempt, FinishAs, AttemptStates
    <2>2. /\ attempt \in [Jobs -> [Generations -> AttemptStates]]
          /\ exec[e].job \in Jobs /\ exec[e].epoch \in Generations
      BY <1>1, RunningRow DEF TypeOK
    <2>3. CASE attempt' = attempt
      BY <2>2, <2>3
    <2>4. CASE attempt' # attempt
      <3>1. PICK s \in AttemptStates :
              attempt' = [attempt EXCEPT ![exec[e].job] = [attempt[exec[e].job] EXCEPT ![exec[e].epoch] = s]]
        BY <2>1, <2>4
      <3>. QED BY <2>2, <3>1, AttemptWriteType
    <2>. QED BY <2>3, <2>4
  <1>. QED BY <1>1, <1>2, <1>3, MoveKeeps, SameJobs, TypeParts, TypePartsNext DEF Kept, DataTypes

LEMMA QuarantineStep ==
    ASSUME TypeOK, ExecInv, NEW e \in Execs, Quarantine(e)
    PROVE  Kept
  <1>1. Running(e) /\ UNCHANGED <<job, attempt, worker, paused, spare>>
    BY DEF Quarantine, Running
  <1>2. Moves(e)
    BY <1>1, GotoMoves DEF Quarantine, PCs
  <1>3. run' \in [Runs -> RunStates] /\ blame' \in [Runs -> Causes]
    <2>1. exec[e].cause \in Causes
      BY <1>1, RunningRow DEF ExecRows
    <2>. QED BY <1>1, <2>1, RunningRow DEF Quarantine, TypeOK, RunStates
  <1>. QED BY <1>1, <1>2, <1>3, MoveKeeps, SameJobs, TypeParts, TypePartsNext DEF Kept, DataTypes

LEMMA SettleStep ==
    ASSUME TypeOK, ExecInv, NEW e \in Execs, Settle(e)
    PROVE  Kept
  <1>. DEFINE j == exec[e].job
              r == RunOfExec(e)
              row == SettledRow(j, exec[e].plan)
  <1>1. Running(e) /\ UNCHANGED <<worker, paused, spare, blame>>
    BY DEF Settle, Running
  <1>2. CASE Owns(e)
    <2>1. Moves(e)
      BY <1>2 DEF Settle, Moves
    <2>2. /\ j \in Jobs /\ r \in Runs /\ row \in JobRows
          /\ row.status # "leased" /\ row.epoch = job[j].epoch
      BY <1>1, RunningRow, SettledRowType DEF Settled
    <2>3. job' = [job EXCEPT ![j] = row] /\ attempt' = [attempt EXCEPT ![j] = CloseRunning(j)]
      BY <1>2 DEF Settle
    <2>4. run' \in [Runs -> RunStates]
      BY <1>2, <2>2, FailedRunType DEF Settle, TypeOK, RunStates
    <2>5. JobKept
      BY <2>2, <2>3 DEF JobKept, TypeOK
    <2>6. DataTypes'
      BY <1>1, <2>2, <2>3, <2>4, CloseRunningType DEF DataTypes, TypeOK
    <2>. QED BY <1>1, <2>1, <2>5, <2>6, MoveKeeps, TypePartsNext DEF Kept
  <1>3. CASE ~Owns(e)
    <2>1. Moves(e) /\ UNCHANGED <<job, attempt, run>>
      BY <1>1, <1>3, RaiseMoves DEF Settle, Causes
    <2>. QED BY <1>1, <2>1, MoveKeeps, SameJobs, TypeParts, TypePartsNext DEF Kept, DataTypes
  <1>. QED BY <1>2, <1>3

LEMMA DiscardStep ==
    ASSUME TypeOK, ExecInv, NEW e \in Execs, Discard(e)
    PROVE  Kept
  <1>1. Running(e) /\ UNCHANGED <<job, run, worker, paused, spare, blame>> /\ Moves(e)
    BY DEF Discard, Running, Moves
  <1>2. attempt' \in [Jobs -> [Generations -> AttemptStates]]
    <2>1. attempt' = attempt \/ \E s \in AttemptStates :
              attempt' = [attempt EXCEPT ![exec[e].job] = [attempt[exec[e].job] EXCEPT ![exec[e].epoch] = s]]
      BY DEF Discard, AttemptStates
    <2>2. /\ attempt \in [Jobs -> [Generations -> AttemptStates]]
          /\ exec[e].job \in Jobs /\ exec[e].epoch \in Generations
      BY <1>1, RunningRow DEF TypeOK
    <2>3. CASE attempt' = attempt
      BY <2>2, <2>3
    <2>4. CASE attempt' # attempt
      <3>1. PICK s \in AttemptStates :
              attempt' = [attempt EXCEPT ![exec[e].job] = [attempt[exec[e].job] EXCEPT ![exec[e].epoch] = s]]
        BY <2>1, <2>4
      <3>. QED BY <2>2, <3>1, AttemptWriteType
    <2>. QED BY <2>3, <2>4
  <1>. QED BY <1>1, <1>2, MoveKeeps, SameJobs, TypeParts, TypePartsNext DEF Kept, DataTypes

LEMMA SpareFaults ==
    ASSUME TypeOK, spare.faults > 0, spare' = [spare EXCEPT !.faults = @ - 1]
    PROVE  spare' \in [pauses: 0..MaxPauses, requests: 0..MaxRequests, faults: 0..MaxFaults]
  <1>1. spare \in [pauses: 0..MaxPauses, requests: 0..MaxRequests, faults: 0..MaxFaults]
    BY DEF TypeOK
  <1>. QED BY <1>1, BoundAssumption

LEMMA SpareRequests ==
    ASSUME TypeOK, SpendRequest
    PROVE  spare' \in [pauses: 0..MaxPauses, requests: 0..MaxRequests, faults: 0..MaxFaults]
  <1>1. spare \in [pauses: 0..MaxPauses, requests: 0..MaxRequests, faults: 0..MaxFaults]
    BY DEF TypeOK
  <1>. QED BY <1>1, BoundAssumption DEF SpendRequest

LEMMA CallFailsStep ==
    ASSUME TypeOK, ExecInv, NEW e \in Execs, CallFails(e)
    PROVE  Kept
  <1>1. Running(e) /\ UNCHANGED <<job, attempt, run, worker, paused, blame>>
    BY DEF CallFails, Running
  <1>2. Moves(e)
    BY <1>1, RaiseMoves DEF CallFails, Causes, Errors
  <1>3. spare' \in [pauses: 0..MaxPauses, requests: 0..MaxRequests, faults: 0..MaxFaults]
    BY SpareFaults DEF CallFails
  <1>. QED BY <1>1, <1>2, <1>3, MoveKeeps, SameJobs, TypeParts, TypePartsNext DEF Kept, DataTypes

LEMMA FlagMoves ==
    ASSUME TypeOK, ExecInv, NEW e \in Execs, Running(e), UNCHANGED <<active, overtaken>>,
           NEW row \in ExecRows, exec' = [exec EXCEPT ![e] = row],
           row.job = exec[e].job, row.worker = exec[e].worker, row.epoch = exec[e].epoch,
           row.pc = exec[e].pc, row.begun = exec[e].begun
    PROVE  Moves(e)
  BY RunningRow DEF Moves, Rewrites, ExecInv, HandlerBegun

LEMMA RenewalRefusedStep ==
    ASSUME TypeOK, ExecInv, NEW e \in Execs, RenewalRefused(e)
    PROVE  Kept
  <1>. DEFINE row == [exec[e] EXCEPT !.lost = TRUE, !.aborted = TRUE]
  <1>1. /\ Running(e) /\ UNCHANGED <<job, attempt, run, active, worker, paused, spare, overtaken, blame>>
        /\ exec' = [exec EXCEPT ![e] = row]
    BY DEF RenewalRefused, TypeOK
  <1>2. /\ row \in ExecRows /\ row.job = exec[e].job /\ row.worker = exec[e].worker
        /\ row.epoch = exec[e].epoch /\ row.pc = exec[e].pc /\ row.begun = exec[e].begun
    BY <1>1, RunningRow DEF ExecRows
  <1>3. Moves(e)
    BY <1>1, <1>2, FlagMoves
  <1>. QED BY <1>1, <1>3, MoveKeeps, SameJobs, TypeParts, TypePartsNext DEF Kept, DataTypes

LEMMA RenewalFailsStep ==
    ASSUME TypeOK, ExecInv, NEW e \in Execs, RenewalFails(e)
    PROVE  Kept
  <1>. DEFINE row == [exec[e] EXCEPT !.lost = TRUE, !.aborted = TRUE]
  <1>1. /\ Running(e) /\ UNCHANGED <<job, attempt, run, active, worker, paused, overtaken, blame>>
        /\ exec' = [exec EXCEPT ![e] = row]
    BY DEF RenewalFails, TypeOK
  <1>2. /\ row \in ExecRows /\ row.job = exec[e].job /\ row.worker = exec[e].worker
        /\ row.epoch = exec[e].epoch /\ row.pc = exec[e].pc /\ row.begun = exec[e].begun
    BY <1>1, RunningRow DEF ExecRows
  <1>3. Moves(e)
    BY <1>1, <1>2, FlagMoves
  <1>4. spare' \in [pauses: 0..MaxPauses, requests: 0..MaxRequests, faults: 0..MaxFaults]
    BY SpareFaults DEF RenewalFails
  <1>. QED BY <1>1, <1>3, <1>4, MoveKeeps, SameJobs, TypeParts, TypePartsNext DEF Kept, DataTypes

LEMMA EnforceControlsStep ==
    ASSUME TypeOK, ExecInv, NEW w \in Workers, NEW j \in Jobs, EnforceControls(w, j)
    PROVE  Kept
  <1>. DEFINE e == active[w][j]
              control == IF Cancelled(RunOf[j]) THEN "cancel" ELSE "pause"
              row == [exec[e] EXCEPT !.control = control, !.aborted = TRUE]
  <1>1. /\ e \in Execs /\ Running(e)
        /\ UNCHANGED <<job, attempt, run, active, worker, paused, spare, overtaken, blame>>
        /\ exec' = [exec EXCEPT ![e] = row]
    BY DEF EnforceControls, TypeOK, ExecInv, ActiveOwn
  <1>2. /\ row \in ExecRows /\ row.job = exec[e].job /\ row.worker = exec[e].worker
        /\ row.epoch = exec[e].epoch /\ row.pc = exec[e].pc /\ row.begun = exec[e].begun
    BY <1>1, RunningRow DEF ExecRows
  <1>3. Moves(e)
    BY <1>1, <1>2, FlagMoves
  <1>. HIDE DEF e
  <1>. QED BY <1>1, <1>3, MoveKeeps, SameJobs, TypeParts, TypePartsNext DEF Kept, DataTypes

LEMMA StopStep ==
    ASSUME TypeOK, ExecInv, NEW w \in Workers, Stop(w)
    PROVE  Kept
  <1>1. UNCHANGED <<job, attempt, run, active, paused, spare, overtaken, blame>>
    BY DEF Stop
  <1>2. worker' \in [Workers -> {"up", "stopping", "down"}]
    BY DEF Stop, TypeOK
  <1>3. \A e \in Execs :
           \/ exec'[e] = exec[e]
           \/ Running(e) /\ exec'[e] = [exec[e] EXCEPT !.aborted = TRUE]
    BY NullAssumption DEF Stop, ExecInv, ActiveOwn
  <1>4. exec' = [e \in Execs |-> exec'[e]]
    BY DEF Stop
  <1>5. \A e \in Execs : Running(e) =>
           /\ exec'[e] \in ExecRows
           /\ exec'[e].pc = exec[e].pc /\ exec'[e].job = exec[e].job
           /\ exec'[e].worker = exec[e].worker /\ exec'[e].epoch = exec[e].epoch
           /\ exec'[e].begun = exec[e].begun
    <2>. TAKE e \in Execs
    <2>. HAVE Running(e)
    <2>1. exec[e] \in ExecRows
      BY RunningRow
    <2>. QED BY <1>3, <2>1 DEF ExecRows
  <1>6. \A e \in Execs : ~Running(e) => exec'[e] = exec[e]
    BY <1>3
  <1>7. ExecTypes'
    <2>1. \A e \in Execs : exec'[e] \in ExecRows \cup {Idle}
      BY <1>5, <1>6 DEF TypeOK
    <2>2. exec' \in [Execs -> ExecRows \cup {Idle}]
      BY <1>4, <2>1
    <2>. QED BY <1>1, <2>2 DEF ExecTypes, TypeOK
  <1>8. ExecInv'
    <2>1. ActiveOwn'
      <3>. SUFFICES ASSUME NEW v \in Workers, NEW k \in Jobs, active[v][k] # NoExec
                    PROVE  /\ exec'[active[v][k]].pc # "idle"
                           /\ exec'[active[v][k]].worker = v
                           /\ exec'[active[v][k]].job = k
        BY <1>1 DEF ActiveOwn, Running
      <3>1. active[v][k] \in Execs
        BY DEF TypeOK
      <3>. QED BY <1>5, <3>1 DEF ExecInv, ActiveOwn, Running
    <2>2. HandlerBegun'
      BY <1>5, <1>6 DEF ExecInv, HandlerBegun, Running
    <2>3. OvertakenRun'
      BY <1>1, <1>5 DEF ExecInv, OvertakenRun, Running, TypeOK
    <2>. QED BY <2>1, <2>2, <2>3 DEF ExecInv
  <1>9. ExecKept
    BY <1>1, <1>5, <1>6 DEF ExecKept, Running
  <1>. QED BY <1>1, <1>2, <1>7, <1>8, <1>9, SameJobs, TypeParts, TypePartsNext DEF Kept, DataTypes

LEMMA ExitStep ==
    ASSUME TypeOK, ExecInv, NEW w \in Workers, Exit(w)
    PROVE  Kept
  <1>1. /\ UNCHANGED <<job, attempt, run, paused, spare, blame>>
        /\ exec' = [e \in Execs |-> IF Running(e) /\ exec[e].worker = w THEN Idle ELSE exec[e]]
        /\ active' = [active EXCEPT ![w] = [j \in Jobs |-> NoExec]]
        /\ overtaken' = {e \in overtaken : Running(e) /\ exec[e].worker # w}
    BY DEF Exit
  <1>2. worker' \in [Workers -> {"up", "stopping", "down"}]
    BY DEF Exit, TypeOK
  <1>3. ExecTypes'
    BY <1>1 DEF ExecTypes, TypeOK
  <1>4. ActiveOwn'
    <2>. SUFFICES ASSUME NEW v \in Workers, NEW j \in Jobs, active'[v][j] # NoExec
                  PROVE  /\ exec'[active'[v][j]].pc # "idle"
                         /\ exec'[active'[v][j]].worker = v
                         /\ exec'[active'[v][j]].job = j
      BY DEF ActiveOwn, Running
    <2>1. v # w /\ active'[v][j] = active[v][j] /\ active[v][j] \in Execs
      BY <1>1 DEF TypeOK
    <2>. QED BY <1>1, <2>1 DEF ExecInv, ActiveOwn, Running
  <1>5. HandlerBegun' /\ OvertakenRun' /\ ExecKept
    BY <1>1 DEF ExecInv, HandlerBegun, OvertakenRun, ExecKept, Running, Idle, TypeOK
  <1>. QED BY <1>1, <1>2, <1>3, <1>4, <1>5, SameJobs, TypeParts, TypePartsNext DEF Kept, DataTypes, ExecInv

LEMMA ClockSteps ==
    ASSUME TypeOK, ExecInv, NEW j \in Jobs, LeaseExpires(j) \/ BecomesDue(j)
    PROVE  Kept
  <1>1. /\ UNCHANGED <<attempt, run, exec, active, worker, paused, spare, overtaken, blame>>
        /\ \/ job' = [job EXCEPT ![j] = [job[j] EXCEPT !.live = FALSE]]
           \/ job[j].status # "leased" /\ job' = [job EXCEPT ![j] = [job[j] EXCEPT !.due = TRUE]]
    BY DEF LeaseExpires, BecomesDue, Live, TypeOK
  <1>2. job[j] \in JobRows
    BY DEF TypeOK
  <1>3. /\ [job[j] EXCEPT !.live = FALSE] \in JobRows
        /\ [job[j] EXCEPT !.due = TRUE] \in JobRows
    BY <1>2 DEF JobRows
  <1>4. JobKept
    <2>1. /\ [job[j] EXCEPT !.live = FALSE].epoch = job[j].epoch
          /\ [job[j] EXCEPT !.live = FALSE].owner = job[j].owner
          /\ [job[j] EXCEPT !.live = FALSE].status = job[j].status
          /\ [job[j] EXCEPT !.live = FALSE].live = FALSE
          /\ [job[j] EXCEPT !.due = TRUE].epoch = job[j].epoch
          /\ [job[j] EXCEPT !.due = TRUE].status = job[j].status
      BY <1>2 DEF JobRows
    <2>. QED BY <1>1, <2>1 DEF JobKept, TypeOK
  <1>5. DataTypes'
    BY <1>1, <1>3 DEF TypeOK, DataTypes
  <1>. QED BY <1>1, <1>4, <1>5, SameExecs, TypePartsNext DEF Kept

LEMMA SweepStep ==
    ASSUME TypeOK, ExecInv, NEW w \in Workers, Sweep(w)
    PROVE  Kept
  <1>1. /\ UNCHANGED <<exec, active, worker, paused, spare, overtaken, blame>>
        /\ job' = [j \in Jobs |-> IF j \in Exhausted THEN Released(j, "failed") ELSE job[j]]
        /\ attempt' = [j \in Jobs |-> IF j \in Exhausted THEN CloseRunning(j) ELSE attempt[j]]
        /\ run' = [r \in Runs |-> SweptRun(r)]
    BY DEF Sweep
  <1>2. \A j \in Jobs : /\ Released(j, "failed") \in JobRows
                        /\ Released(j, "failed").status = "failed"
                        /\ Released(j, "failed").epoch = job[j].epoch
    BY ReleasedType DEF Settled
  <1>3. JobKept
    BY <1>1, <1>2 DEF JobKept
  <1>4. DataTypes'
    BY <1>1, <1>2, CloseRunningType, SweptRunsType DEF TypeOK, DataTypes
  <1>. QED BY <1>1, <1>3, <1>4, SameExecs, TypePartsNext DEF Kept

LEMMA CancelStep ==
    ASSUME TypeOK, ExecInv, NEW r \in Runs, CancelByVisitor(r) \/ CancelByOwner(r)
    PROVE  Kept
  <1>1. /\ UNCHANGED <<attempt, exec, active, worker, paused, overtaken, blame>>
        /\ SpendRequest
        /\ job' = [j \in Jobs |-> IF RunOf[j] = r /\ job[j].status = "queued"
                                  THEN Released(j, "cancelled") ELSE job[j]]
    BY DEF CancelByVisitor, CancelByOwner, CancelQueued
  <1>2. \A j \in Jobs : /\ Released(j, "cancelled") \in JobRows
                        /\ Released(j, "cancelled").status = "cancelled"
                        /\ Released(j, "cancelled").epoch = job[j].epoch
    BY ReleasedType DEF Settled
  <1>3. JobKept
    BY <1>1, <1>2 DEF JobKept
  <1>4. run' \in [Runs -> RunStates]
    BY DEF CancelByVisitor, CancelByOwner, TypeOK, RunStates
  <1>5. DataTypes'
    BY <1>1, <1>2, <1>4, SpareRequests DEF TypeOK, DataTypes
  <1>. QED BY <1>1, <1>3, <1>5, SameExecs, TypePartsNext DEF Kept

LEMMA DeleteStep ==
    ASSUME TypeOK, ExecInv, NEW r \in Runs, DeleteByVisitor(r)
    PROVE  Kept
  <1>. DEFINE dropped == {j \in Jobs : RunOf[j] = r /\ job[j].status \in {"queued", "leased"}}
  <1>1. /\ UNCHANGED <<exec, active, worker, paused, overtaken, blame>>
        /\ SpendRequest
        /\ run' = [run EXCEPT ![r] = "deleted"]
        /\ job' = [j \in Jobs |-> IF j \in dropped
                                  THEN [job[j] EXCEPT !.status = "cancelled", !.live = FALSE]
                                  ELSE job[j]]
        /\ attempt' = [j \in Jobs |-> IF j \in dropped /\ job[j].status = "leased"
                                      THEN CloseRunning(j) ELSE attempt[j]]
    BY DEF DeleteByVisitor
  <1>2. \A j \in Jobs : LET row == [job[j] EXCEPT !.status = "cancelled", !.live = FALSE] IN
                        row \in JobRows /\ row.status = "cancelled" /\ row.epoch = job[j].epoch
    <2>1. \A j \in Jobs : job[j] \in JobRows
      BY DEF TypeOK
    <2>. QED BY <2>1 DEF JobRows, Settled
  <1>3. JobKept
    BY <1>1, <1>2 DEF JobKept
  <1>4. DataTypes'
    BY <1>1, <1>2, CloseRunningType, SpareRequests DEF TypeOK, DataTypes, RunStates
  <1>. QED BY <1>1, <1>3, <1>4, SameExecs, TypePartsNext DEF Kept

LEMMA PauseStep ==
    ASSUME TypeOK, ExecInv, NEW k \in Kinds, Pause(k) \/ Unpause(k)
    PROVE  Kept
  <1>1. UNCHANGED <<job, attempt, run, exec, active, worker, overtaken, blame>> /\ paused' \subseteq Kinds
    BY DEF Pause, Unpause, TypeOK
  <1>2. spare' \in [pauses: 0..MaxPauses, requests: 0..MaxRequests, faults: 0..MaxFaults]
    <2>1. spare \in [pauses: 0..MaxPauses, requests: 0..MaxRequests, faults: 0..MaxFaults]
      BY DEF TypeOK
    <2>2. spare' = spare \/ (spare.pauses > 0 /\ spare' = [spare EXCEPT !.pauses = @ - 1])
      BY DEF Pause, Unpause
    <2>. QED BY <2>1, <2>2, BoundAssumption
  <1>. QED BY <1>1, <1>2, SameExecs, SameJobs, TypeParts, TypePartsNext DEF Kept, DataTypes

LEMMA RequestPublicationStep ==
    ASSUME TypeOK, ExecInv, NEW j \in Jobs, RequestPublication(j)
    PROVE  Kept
  <1>. DEFINE row == [Released(j, "queued") EXCEPT !.due = TRUE, !.attempts = 0]
  <1>1. /\ UNCHANGED <<attempt, exec, active, worker, paused, overtaken, blame>>
        /\ SpendRequest
        /\ job' = job \/ job' = [job EXCEPT ![j] = row]
    BY DEF RequestPublication
  <1>2. row \in JobRows /\ row.status = "queued" /\ row.epoch = job[j].epoch
    <2>1. /\ Released(j, "queued") \in JobRows /\ Released(j, "queued").status = "queued"
          /\ Released(j, "queued").epoch = job[j].epoch
      BY ReleasedType
    <2>2. 0 \in 0..MaxAttempts
      BY BoundAssumption
    <2>. QED BY <2>1, <2>2 DEF JobRows
  <1>3. JobKept
    BY <1>1, <1>2 DEF JobKept, TypeOK
  <1>4. run' \in [Runs -> RunStates]
    BY DEF RequestPublication, TypeOK, RunStates
  <1>5. DataTypes'
    BY <1>1, <1>2, <1>4, SpareRequests DEF TypeOK, DataTypes
  <1>. QED BY <1>1, <1>3, <1>5, SameExecs, TypePartsNext DEF Kept

-----------------------------------------------------------------------------
(* leaseNextJob grants a lease: the one step that is not Kept.             *)

\* What a grant does to the queue, its generations and the executions.
LEMMA LeaseFacts ==
    ASSUME TypeOK, NEW w \in Workers, NEW j \in Jobs, NEW e \in Execs, LeaseNext(w, j, e)
    PROVE  /\ ~Running(e) /\ j \notin Exhausted
           /\ Granted(j, w) \in JobRows
           /\ job'[j] = Granted(j, w)
           /\ job'[j].status = "leased" /\ job'[j].owner = w
           /\ job'[j].live /\ job'[j].epoch = NextEpoch(j, w)
           /\ \A k \in Jobs \ {j} : job'[k] = job[k] \/ job'[k] = Released(k, "failed")
           /\ job' \in [Jobs -> JobRows]
  <1>1. /\ Candidate(j) /\ ~Running(e) /\ NextEpoch(j, w) \in Generations
        /\ job' = [k \in Jobs |-> IF k \in Exhausted THEN Released(k, "failed")
                                  ELSE IF k = j THEN Granted(j, w) ELSE job[k]]
    BY DEF LeaseNext
  <1>2. job[j] \in JobRows /\ job[j].attempts \in Nat
    BY BoundAssumption DEF TypeOK, JobRows
  <1>3. j \notin Exhausted
    BY <1>1, <1>2, BoundAssumption DEF Exhausted, Candidate
  <1>4. job[j].attempts + 1 \in 0..MaxAttempts
    BY <1>1, <1>2, BoundAssumption DEF Candidate
  <1>5. /\ Granted(j, w) \in JobRows
        /\ Granted(j, w).status = "leased" /\ Granted(j, w).owner = w
        /\ Granted(j, w).live /\ Granted(j, w).epoch = NextEpoch(j, w)
    BY <1>1, <1>2, <1>4 DEF Granted, JobRows
  <1>6. \A k \in Jobs : Released(k, "failed") \in JobRows
    BY ReleasedType DEF Settled
  <1>. QED BY <1>1, <1>3, <1>5, <1>6 DEF TypeOK

LEMMA LeaseTypes ==
    ASSUME TypeOK, ExecInv, NEW w \in Workers, NEW j \in Jobs, NEW e \in Execs, LeaseNext(w, j, e)
    PROVE  TypeOK' /\ ExecInv'
  <1>. DEFINE row == [pc |-> "start", job |-> j, worker |-> w, epoch |-> NextEpoch(j, w),
                      begun |-> FALSE, lost |-> FALSE, aborted |-> FALSE, control |-> "none",
                      plan |-> "complete", cause |-> "none", catching |-> FALSE]
  <1>1. /\ NextEpoch(j, w) \in Generations
        /\ exec' = [exec EXCEPT ![e] = row]
        /\ active' = [active EXCEPT ![w][j] = e]
        /\ overtaken' = overtaken \cup
              {x \in Execs : Running(x) /\ exec[x].job = j /\ exec[x].worker # w}
        /\ UNCHANGED <<worker, paused, spare, blame>>
    BY DEF LeaseNext
  <1>2. row \in ExecRows
    BY <1>1 DEF ExecRows, PCs, Plans, Causes
  <1>3. ~Running(e) /\ job' \in [Jobs -> JobRows]
    BY LeaseFacts
  <1>4. attempt' \in [Jobs -> [Generations -> AttemptStates]]
    <2>1. \A k \in Jobs : /\ CloseRunning(k) \in [Generations -> AttemptStates]
                          /\ attempt[k] \in [Generations -> AttemptStates]
      BY CloseRunningType DEF TypeOK
    <2>. QED BY <2>1 DEF LeaseNext
  <1>5. run' \in [Runs -> RunStates]
    BY SweptRunsType DEF LeaseNext
  <1>6. DataTypes'
    BY <1>1, <1>3, <1>4, <1>5 DEF DataTypes, TypeOK
  <1>7. ExecTypes'
    BY <1>1, <1>2 DEF ExecTypes, TypeOK
  <1>8. \A d \in Execs : exec'[d] = IF d = e THEN row ELSE exec[d]
    BY <1>1 DEF TypeOK
  <1>9. ActiveOwn'
    <2>. SUFFICES ASSUME NEW v \in Workers, NEW k \in Jobs, active'[v][k] # NoExec
                  PROVE  /\ exec'[active'[v][k]].pc # "idle"
                         /\ exec'[active'[v][k]].worker = v
                         /\ exec'[active'[v][k]].job = k
      BY DEF ActiveOwn, Running
    <2>1. CASE v = w /\ k = j
      <3>1. active'[v][k] = e
        BY <1>1, <2>1 DEF TypeOK
      <3>. QED BY <1>8, <2>1, <3>1
    <2>2. CASE ~(v = w /\ k = j)
      <3>1. active'[v][k] = active[v][k] /\ active[v][k] \in Execs
        BY <1>1, <2>2 DEF TypeOK
      <3>2. Running(active[v][k]) /\ exec[active[v][k]].worker = v /\ exec[active[v][k]].job = k
        BY <3>1 DEF ExecInv, ActiveOwn
      <3>3. active[v][k] # e
        BY <1>3, <3>2
      <3>. QED BY <1>8, <3>1, <3>2, <3>3 DEF Running
    <2>. QED BY <2>1, <2>2
  <1>10. HandlerBegun'
    BY <1>8 DEF ExecInv, HandlerBegun
  <1>11. OvertakenRun'
    BY <1>1, <1>3, <1>8 DEF ExecInv, OvertakenRun, Running, TypeOK
  <1>. QED BY <1>6, <1>7, <1>9, <1>10, <1>11, TypePartsNext DEF ExecInv

-----------------------------------------------------------------------------
(* Type correctness.                                                       *)

LEMMA InitTypes == Init => TypeOK /\ ExecInv
  <1>. SUFFICES ASSUME Init PROVE TypeOK /\ ExecInv
    OBVIOUS
  <1>1. DataTypes
    BY BoundAssumption DEF Init, DataTypes, JobRows, Generations, AttemptStates, RunStates, Causes
  <1>2. ExecTypes
    BY DEF Init, ExecTypes
  <1>3. ExecInv
    BY DEF Init, ExecInv, ActiveOwn, HandlerBegun, OvertakenRun, Idle
  <1>. QED BY <1>1, <1>2, <1>3, TypeParts

LEMMA ExecSteps ==
    ASSUME TypeOK, ExecInv, NEW e \in Execs, ExecStep(e) \/ TimerStep(e)
    PROVE  Kept
  BY StartStep, BeginStep, CommitStep, HandlerReturnsStep, HandlerThrowsStep, HandlerRefusedStep,
     FinishStep, QuarantineStep, SettleStep, DiscardStep, CallFailsStep, RenewalRefusedStep,
     RenewalFailsStep DEF ExecStep, TimerStep

\* Every step keeps the queue or grants a lease.
LEMMA NextCases ==
    ASSUME TypeOK, ExecInv, Next
    PROVE  \/ Kept
           \/ \E w \in Workers, j \in Jobs, e \in Execs : LeaseNext(w, j, e)
  <1>1. CASE \E e \in Execs : ExecStep(e) \/ TimerStep(e)
    BY <1>1, ExecSteps
  <1>2. CASE \E w \in Workers : WorkerStep(w)
    BY <1>2, SweepStep, EnforceControlsStep, StopStep, ExitStep DEF WorkerStep
  <1>3. CASE ApiStep
    BY <1>3, CancelStep, DeleteStep, PauseStep, RequestPublicationStep DEF ApiStep
  <1>4. CASE ClockStep
    BY <1>4, ClockSteps DEF ClockStep
  <1>. QED BY <1>1, <1>2, <1>3, <1>4 DEF Next

LEMMA StutterKept ==
    ASSUME TypeOK, ExecInv, UNCHANGED vars
    PROVE  Kept
  <1>1. UNCHANGED <<job, attempt, run, exec, active, worker, paused, spare, overtaken, blame>>
    BY DEF vars
  <1>. QED BY <1>1, SameExecs, SameJobs, TypeParts, TypePartsNext DEF Kept, DataTypes

LEMMA StepTypes == TypeOK /\ ExecInv /\ [Next]_vars => TypeOK' /\ ExecInv'
  BY NextCases, LeaseTypes, StutterKept DEF Kept

\* The types hold for every number of jobs, workers and executions, and the
\* entries of WorkerRunner.active are executions of their worker and job,
\* though an execution that a newer one of the same job has replaced there
\* ends without removing the newer entry.
THEOREM TypeCorrect == Spec => [](TypeOK /\ ExecInv)
  BY InitTypes, StepTypes, PTL DEF Spec

THEOREM TypeInvariant == Spec => []TypeOK
  BY TypeCorrect, PTL

-----------------------------------------------------------------------------
(* The order of generations.                                               *)

LEMMA KeptOrder ==
    ASSUME TypeOK, LeaseOrder, JobKept, ExecKept
    PROVE  LeaseOrder'
  <1>. SUFFICES ASSUME NEW e \in Execs, Running(e)'
                PROVE  LET j == exec'[e].job IN
                       /\ exec'[e].epoch <= job'[j].epoch
                       /\ exec'[e].epoch = job'[j].epoch /\ job'[j].status = "leased"
                             => job'[j].owner = exec'[e].worker
                       /\ e \in overtaken' => exec'[e].epoch < job'[j].epoch
    BY DEF LeaseOrder
  <1>1. /\ Running(e) /\ exec'[e].job = exec[e].job /\ exec'[e].worker = exec[e].worker
        /\ exec'[e].epoch = exec[e].epoch /\ overtaken' \subseteq overtaken
    BY DEF ExecKept
  <1>2. exec[e].job \in Jobs
    BY <1>1, RunningRow
  <1>. QED BY <1>1, <1>2 DEF LeaseOrder, JobKept

LEMMA LeaseNextOrder ==
    ASSUME TypeOK, ExecInv, LeaseOrder,
           NEW w \in Workers, NEW j \in Jobs, NEW e \in Execs, LeaseNext(w, j, e)
    PROVE  LeaseOrder'
  <1>1. /\ exec'[e].job = j /\ exec'[e].worker = w /\ exec'[e].epoch = NextEpoch(j, w)
        /\ \A d \in Execs \ {e} : exec'[d] = exec[d]
        /\ overtaken' = overtaken \cup
              {x \in Execs : Running(x) /\ exec[x].job = j /\ exec[x].worker # w}
    BY DEF LeaseNext, TypeOK
  <1>2. /\ ~Running(e)
        /\ job'[j].owner = w /\ job'[j].epoch = NextEpoch(j, w)
        /\ \A k \in Jobs \ {j} : job'[k] = job[k] \/ job'[k] = Released(k, "failed")
    BY LeaseFacts
  <1>3. e \notin overtaken'
    BY <1>1, <1>2 DEF ExecInv, OvertakenRun
  <1>4. job[j].epoch \in Int /\ NextEpoch(j, w) \in Int
    BY DEF TypeOK, JobRows, Generations, NextEpoch
  <1>. SUFFICES ASSUME NEW d \in Execs, Running(d)'
                PROVE  LET k == exec'[d].job IN
                       /\ exec'[d].epoch <= job'[k].epoch
                       /\ exec'[d].epoch = job'[k].epoch /\ job'[k].status = "leased"
                             => job'[k].owner = exec'[d].worker
                       /\ d \in overtaken' => exec'[d].epoch < job'[k].epoch
    BY DEF LeaseOrder
  <1>5. CASE d = e
    BY <1>1, <1>2, <1>3, <1>4, <1>5
  <1>6. CASE d # e
    <2>1. /\ Running(d) /\ exec'[d] = exec[d]
          /\ exec[d].job \in Jobs /\ exec[d].epoch \in Int
      <3>1. Running(d) /\ exec'[d] = exec[d]
        BY <1>1, <1>6 DEF Running
      <3>. QED BY <3>1, RunningRow DEF Generations
    <2>2. /\ exec[d].epoch <= job[exec[d].job].epoch
          /\ exec[d].epoch = job[exec[d].job].epoch /\ job[exec[d].job].status = "leased"
                => job[exec[d].job].owner = exec[d].worker
          /\ d \in overtaken => exec[d].epoch < job[exec[d].job].epoch
      BY <2>1 DEF LeaseOrder
    <2>3. CASE exec[d].job = j
      BY <1>1, <1>2, <1>4, <2>1, <2>2, <2>3 DEF NextEpoch
    <2>4. CASE exec[d].job # j
      <3>1. /\ d \in overtaken' => d \in overtaken
            /\ \/ job'[exec[d].job] = job[exec[d].job]
               \/ job'[exec[d].job] = Released(exec[d].job, "failed")
        BY <1>1, <1>2, <2>1, <2>4
      <3>2. /\ Released(exec[d].job, "failed").status # "leased"
            /\ Released(exec[d].job, "failed").epoch = job[exec[d].job].epoch
        BY <2>1, ReleasedType DEF Settled
      <3>. QED BY <2>1, <2>2, <3>1, <3>2
    <2>. QED BY <2>3, <2>4
  <1>. QED BY <1>5, <1>6

LEMMA StepOrder == TypeOK /\ ExecInv /\ LeaseOrder /\ [Next]_vars => LeaseOrder'
  BY NextCases, StutterKept, KeptOrder, LeaseNextOrder DEF Kept

\* No execution is ahead of its job's generation, the owner of a lease is the
\* worker of every execution of its generation, and an overtaken execution is
\* behind: what makes owner and epoch a fence.
THEOREM GenerationsOrdered == Spec => []LeaseOrder
  <1>1. Init => LeaseOrder
    BY DEF Init, LeaseOrder, Running, Idle
  <1>. QED BY <1>1, TypeCorrect, StepOrder, PTL DEF Spec

-----------------------------------------------------------------------------
(* Lanes and capacity.                                                     *)

\* A step that is kept revives no lease; a grant adds the lease of one job.
LEMMA KeptLeases == JobKept => LiveLeases' \subseteq LiveLeases
  BY DEF JobKept, LiveLeases, Live

LEMMA GrantedLeases ==
    ASSUME TypeOK, NEW w \in Workers, NEW j \in Jobs, NEW e \in Execs, LeaseNext(w, j, e)
    PROVE  LiveLeases' \subseteq LiveLeases \cup {j}
  <1>1. \A k \in Jobs \ {j} : job'[k] = job[k] \/ job'[k] = Released(k, "failed")
    BY LeaseFacts
  <1>2. \A k \in Jobs : Released(k, "failed").status # "leased"
    BY ReleasedType DEF Settled
  <1>. QED BY <1>1, <1>2 DEF LiveLeases, Live

LEMMA StepLanes == TypeOK /\ ExecInv /\ LaneExclusive /\ [Next]_vars => LaneExclusive'
  <1>. SUFFICES ASSUME TypeOK, ExecInv, LaneExclusive, [Next]_vars
                PROVE  LaneExclusive'
    OBVIOUS
  <1>1. CASE JobKept
    BY <1>1, KeptLeases DEF LaneExclusive
  <1>2. ASSUME NEW w \in Workers, NEW j \in Jobs, NEW e \in Execs, LeaseNext(w, j, e)
        PROVE  LaneExclusive'
    <2>1. LiveLeases' \subseteq LiveLeases \cup {j}
      BY <1>2, GrantedLeases
    <2>2. LaneOf[j] # NoLane => \A k \in LiveLeases : LaneOf[k] # LaneOf[j]
      BY <1>2 DEF LeaseNext, Candidate
    <2>. QED BY <2>1, <2>2 DEF LaneExclusive
  <1>. QED BY <1>1, <1>2, NextCases, StutterKept DEF Kept

\* A lane never holds two live leases, for any number of lanes and jobs.
THEOREM LanesExclusive == Spec => []LaneExclusive
  <1>1. Init => LaneExclusive
    BY DEF Init, LaneExclusive, LiveLeases, Live
  <1>. QED BY <1>1, TypeCorrect, StepLanes, PTL DEF Spec

LEMMA StepCapacity == TypeOK /\ ExecInv /\ CapacityRespected /\ [Next]_vars => CapacityRespected'
  <1>. SUFFICES ASSUME TypeOK, ExecInv, CapacityRespected, [Next]_vars
                PROVE  CapacityRespected'
    OBVIOUS
  <1>1. IsFiniteSet(LiveLeases) /\ Cardinality(LiveLeases) \in Nat
    BY FiniteAssumption, FS_Subset, FS_CardinalityType DEF LiveLeases
  <1>2. CASE JobKept
    <2>1. LiveLeases' \subseteq LiveLeases
      BY <1>2, KeptLeases
    <2>2. Cardinality(LiveLeases') <= Cardinality(LiveLeases) /\ Cardinality(LiveLeases') \in Nat
      BY <1>1, <2>1, FS_Subset, FS_CardinalityType
    <2>. QED BY <1>1, <2>2, BoundAssumption DEF CapacityRespected
  <1>3. ASSUME NEW w \in Workers, NEW j \in Jobs, NEW e \in Execs, LeaseNext(w, j, e)
        PROVE  CapacityRespected'
    <2>1. LiveLeases' \subseteq LiveLeases \cup {j}
      BY <1>3, GrantedLeases
    <2>2. IsFiniteSet(LiveLeases \cup {j})
          /\ Cardinality(LiveLeases \cup {j}) <= Cardinality(LiveLeases) + 1
      <3>1. /\ IsFiniteSet(LiveLeases \cup {j})
            /\ \/ Cardinality(LiveLeases \cup {j}) = Cardinality(LiveLeases)
               \/ Cardinality(LiveLeases \cup {j}) = Cardinality(LiveLeases) + 1
        BY <1>1, FS_AddElement
      <3>. QED BY <1>1, <3>1
    <2>3. Cardinality(LiveLeases') <= Cardinality(LiveLeases \cup {j})
          /\ Cardinality(LiveLeases') \in Nat /\ Cardinality(LiveLeases \cup {j}) \in Nat
      BY <2>1, <2>2, FS_Subset, FS_CardinalityType
    <2>4. Cardinality(LiveLeases) < Capacity
      BY <1>3 DEF LeaseNext, HasCapacity
    <2>. QED BY <1>1, <2>2, <2>3, <2>4, BoundAssumption DEF CapacityRespected
  <1>. QED BY <1>2, <1>3, NextCases, StutterKept DEF Kept

\* The live leases of all workers together stay within WORKER_CONCURRENCY.
THEOREM CapacityHolds == Spec => []CapacityRespected
  <1>1. Init => CapacityRespected
    <2>. SUFFICES ASSUME Init PROVE CapacityRespected
      OBVIOUS
    <2>1. LiveLeases = {}
      BY DEF Init, LiveLeases, Live
    <2>. QED BY <2>1, FS_EmptySet, BoundAssumption DEF CapacityRespected
  <1>. QED BY <1>1, TypeCorrect, StepCapacity, PTL DEF Spec

-----------------------------------------------------------------------------
(* Attempts.                                                               *)

\* A step starts no attempt, and leaves the lease of those that run.
AttemptsShrink ==
    \A j \in Jobs, g \in Generations : attempt'[j][g] = "running" =>
        /\ attempt[j][g] = "running"
        /\ job'[j].status = job[j].status /\ job'[j].epoch = job[j].epoch

\* The body of ClosedAttemptsFinal.
AttemptsFinal ==
    \A j \in Jobs, g \in Generations :
        attempt[j][g] \notin {"none", "running"} => attempt'[j][g] = attempt[j][g]

Attempts == AttemptAuthority' /\ AttemptsFinal

LEMMA ShrinkAuthority ==
    ASSUME AttemptAuthority, AttemptsShrink
    PROVE  AttemptAuthority'
  BY DEF AttemptAuthority, AttemptsShrink

\* A step that leaves attempts, job statuses and generations alone.
LEMMA SameAttempts ==
    ASSUME AttemptAuthority, attempt' = attempt,
           \A j \in Jobs : job[j].status = "leased" =>
              job'[j].status = job[j].status /\ job'[j].epoch = job[j].epoch
    PROVE  Attempts
  BY DEF AttemptAuthority, Attempts, AttemptsFinal

LEMMA CloseRunningCloses ==
    ASSUME AttemptAuthority, NEW j \in Jobs, NEW g \in Generations
    PROVE  /\ CloseRunning(j)[g] # "running"
           /\ attempt[j][g] \notin {"none", "running"} => CloseRunning(j)[g] = attempt[j][g]
  BY DEF AttemptAuthority, CloseRunning

\* completePlaylistExecutionAttempt and discardPlaylistExecutionAttempt end a
\* running attempt and nothing else.
LEMMA WriteAttempt ==
    ASSUME TypeOK, AttemptAuthority, job' = job, NEW j \in Jobs, NEW g \in Generations,
           attempt[j][g] = "running", NEW s \in AttemptStates \ {"running"},
           attempt' = [attempt EXCEPT ![j] = [attempt[j] EXCEPT ![g] = s]]
    PROVE  Attempts
  <1>1. attempt \in [Jobs -> [Generations -> AttemptStates]]
    BY DEF TypeOK
  <1>2. \A k \in Jobs, h \in Generations :
           attempt'[k][h] = IF k = j /\ h = g THEN s ELSE attempt[k][h]
    BY <1>1
  <1>3. AttemptsShrink /\ AttemptsFinal
    BY <1>2 DEF AttemptsShrink, AttemptsFinal
  <1>. QED BY <1>3, ShrinkAuthority DEF Attempts

LEMMA BeginAttempts ==
    ASSUME TypeOK, AttemptAuthority, NEW e \in Execs, BeginAttempt(e)
    PROVE  Attempts
  <1>. DEFINE j == exec[e].job
              g == exec[e].epoch
  <1>1. job' = job /\ Running(e)
    BY DEF BeginAttempt, Running
  <1>2. CASE ~HoldsLease(e)
    BY <1>1, <1>2, SameAttempts DEF BeginAttempt
  <1>3. CASE HoldsLease(e)
    <2>1. j \in Jobs /\ g \in Generations
      BY <1>1, RunningRow
    <2>2. job[j].status = "leased" /\ job[j].epoch = g
      BY <1>3 DEF HoldsLease, OwnsGeneration
    <2>3. attempt' = [attempt EXCEPT ![j] = Begun(j, g)]
      BY <1>3 DEF BeginAttempt
    <2>4. \A k \in Jobs \ {j} : attempt'[k] = attempt[k]
      BY <2>3 DEF TypeOK
    <2>5. \A h \in Generations :
             /\ attempt'[j][h] = "running" => h = g
             /\ attempt[j][h] \notin {"none", "running"} => attempt'[j][h] = attempt[j][h]
      BY <2>1, <2>3 DEF Begun, TypeOK
    <2>. QED BY <1>1, <2>1, <2>2, <2>4, <2>5 DEF Attempts, AttemptAuthority, AttemptsFinal
  <1>. QED BY <1>2, <1>3

LEMMA FinishAttempts ==
    ASSUME TypeOK, AttemptAuthority, NEW e \in Execs, FinishAttempt(e) \/ Discard(e)
    PROVE  Attempts
  <1>. DEFINE j == exec[e].job
              g == exec[e].epoch
  <1>1. /\ job' = job
        /\ Running(e)
        /\ \/ attempt' = attempt
           \/ /\ attempt[j][g] = "running"
              /\ \E s \in AttemptStates \ {"running"} :
                   attempt' = [attempt EXCEPT ![j] = [attempt[j] EXCEPT ![g] = s]]
    BY DEF FinishAttempt, Discard, FinishAs, AttemptStates, Running
  <1>2. j \in Jobs /\ g \in Generations
    BY <1>1, RunningRow
  <1>3. CASE attempt' = attempt
    BY <1>1, <1>3, SameAttempts
  <1>4. CASE attempt' # attempt
    <2>1. PICK s \in AttemptStates \ {"running"} :
             attempt' = [attempt EXCEPT ![j] = [attempt[j] EXCEPT ![g] = s]]
      BY <1>1, <1>4
    <2>2. attempt[j][g] = "running"
      BY <1>1, <1>4
    <2>. QED BY <1>1, <1>2, <2>1, <2>2, WriteAttempt
  <1>. QED BY <1>3, <1>4

LEMMA SettleAttempts ==
    ASSUME TypeOK, AttemptAuthority, NEW e \in Execs, Settle(e)
    PROVE  Attempts
  <1>. DEFINE j == exec[e].job
  <1>1. j \in Jobs
    BY RunningRow DEF Settle, Running
  <1>2. CASE ~Owns(e)
    BY <1>2, SameAttempts DEF Settle
  <1>3. CASE Owns(e)
    <2>1. /\ job' = [job EXCEPT ![j] = SettledRow(j, exec[e].plan)]
          /\ attempt' = [attempt EXCEPT ![j] = CloseRunning(j)]
      BY <1>3 DEF Settle
    <2>2. /\ attempt'[j] = CloseRunning(j)
          /\ \A k \in Jobs \ {j} : attempt'[k] = attempt[k] /\ job'[k] = job[k]
      BY <1>1, <2>1 DEF TypeOK
    <2>3. \A h \in Generations :
             /\ attempt'[j][h] # "running"
             /\ attempt[j][h] \notin {"none", "running"} => attempt'[j][h] = attempt[j][h]
      BY <1>1, <2>2, CloseRunningCloses
    <2>. QED BY <2>2, <2>3 DEF Attempts, AttemptAuthority, AttemptsFinal
  <1>. QED BY <1>2, <1>3

\* A sweep, a deletion and a grant close the attempts of the rows they move.
LEMMA RowAttempts ==
    ASSUME AttemptAuthority, NEW closing \in SUBSET Jobs,
           attempt' = [k \in Jobs |-> IF k \in closing THEN CloseRunning(k) ELSE attempt[k]],
           \A k \in Jobs \ closing : job[k].status = "leased" =>
              job'[k].status = "leased" /\ job'[k].epoch = job[k].epoch
    PROVE  Attempts
  <1>1. \A k \in closing, h \in Generations :
           /\ attempt'[k][h] # "running"
           /\ attempt[k][h] \notin {"none", "running"} => attempt'[k][h] = attempt[k][h]
    BY CloseRunningCloses
  <1>2. \A k \in Jobs \ closing : attempt'[k] = attempt[k]
    OBVIOUS
  <1>. QED BY <1>1, <1>2 DEF Attempts, AttemptAuthority, AttemptsFinal

LEMMA SweepAttempts ==
    ASSUME TypeOK, AttemptAuthority, NEW w \in Workers, Sweep(w)
    PROVE  Attempts
  <1>1. /\ Exhausted \in SUBSET Jobs
        /\ attempt' = [k \in Jobs |-> IF k \in Exhausted THEN CloseRunning(k) ELSE attempt[k]]
        /\ \A k \in Jobs \ Exhausted : job'[k] = job[k]
    BY DEF Sweep, Exhausted
  <1>. QED BY <1>1, RowAttempts

LEMMA DeleteAttempts ==
    ASSUME TypeOK, AttemptAuthority, NEW r \in Runs, DeleteByVisitor(r)
    PROVE  Attempts
  <1>. DEFINE closing == {k \in Jobs : RunOf[k] = r /\ job[k].status = "leased"}
  <1>1. /\ closing \in SUBSET Jobs
        /\ attempt' = [k \in Jobs |-> IF k \in closing THEN CloseRunning(k) ELSE attempt[k]]
        /\ \A k \in Jobs \ closing : job[k].status = "leased" => job'[k] = job[k]
    BY DEF DeleteByVisitor
  <1>. HIDE DEF closing
  <1>. QED BY <1>1, RowAttempts

LEMMA LeaseAttempts ==
    ASSUME TypeOK, AttemptAuthority,
           NEW w \in Workers, NEW j \in Jobs, NEW e \in Execs, LeaseNext(w, j, e)
    PROVE  Attempts
  <1>. DEFINE reclaimed == Expired(j) /\ NextEpoch(j, w) # job[j].epoch
              closing == {k \in Jobs : k \in Exhausted \/ (k = j /\ reclaimed)}
  <1>1. attempt' = [k \in Jobs |-> IF k \in closing THEN CloseRunning(k) ELSE attempt[k]]
    BY DEF LeaseNext
  <1>2. \A k \in Jobs \ closing : job[k].status = "leased" =>
           job'[k].status = "leased" /\ job'[k].epoch = job[k].epoch
    <2>. SUFFICES ASSUME NEW k \in Jobs \ closing, job[k].status = "leased"
                  PROVE  job'[k].status = "leased" /\ job'[k].epoch = job[k].epoch
      OBVIOUS
    <2>1. CASE k = j
      <3>1. Expired(j)
        BY <2>1 DEF LeaseNext, Candidate, Expired
      <3>. QED BY <2>1, <3>1, LeaseFacts
    <2>2. CASE k # j
      BY <2>2 DEF LeaseNext
    <2>. QED BY <2>1, <2>2
  <1>3. closing \in SUBSET Jobs
    OBVIOUS
  <1>. HIDE DEF closing
  <1>. QED BY <1>1, <1>2, <1>3, RowAttempts

LEMMA ExecAttempts ==
    ASSUME TypeOK, AttemptAuthority, NEW e \in Execs, ExecStep(e) \/ TimerStep(e)
    PROVE  Attempts
  <1>1. CASE BeginAttempt(e) \/ FinishAttempt(e) \/ Discard(e) \/ Settle(e)
    BY <1>1, BeginAttempts, FinishAttempts, SettleAttempts
  <1>2. CASE ~(BeginAttempt(e) \/ FinishAttempt(e) \/ Discard(e) \/ Settle(e))
    <2>1. job' = job /\ attempt' = attempt
      BY <1>2 DEF ExecStep, TimerStep, Start, CommitOutcome, HandlerReturns, HandlerThrows,
         HandlerAborts, FenceRefuses, ResolveBlockers, Quarantine, CallFails,
         RenewalRefused, RenewalFails
    <2>. QED BY <2>1, SameAttempts
  <1>. QED BY <1>1, <1>2

LEMMA ApiAttempts ==
    ASSUME TypeOK, AttemptAuthority, ApiStep
    PROVE  Attempts
  <1>1. ASSUME NEW r \in Runs, CancelByVisitor(r) \/ CancelByOwner(r)
        PROVE  Attempts
    <2>1. /\ attempt' = attempt
          /\ \A j \in Jobs : job[j].status = "leased" => job'[j] = job[j]
      BY <1>1 DEF CancelByVisitor, CancelByOwner, CancelQueued
    <2>. QED BY <2>1, SameAttempts
  <1>2. ASSUME NEW k \in Kinds, Pause(k) \/ Unpause(k)
        PROVE  Attempts
    BY <1>2, SameAttempts DEF Pause, Unpause
  <1>3. ASSUME NEW j \in Jobs, RequestPublication(j)
        PROVE  Attempts
    <2>1. /\ attempt' = attempt
          /\ \A k \in Jobs : job[k].status = "leased" => job'[k] = job[k]
      BY <1>3 DEF RequestPublication, TypeOK
    <2>. QED BY <2>1, SameAttempts
  <1>. QED BY <1>1, <1>2, <1>3, DeleteAttempts DEF ApiStep

LEMMA StepAttempts ==
    ASSUME TypeOK, ExecInv, AttemptAuthority, [Next]_vars
    PROVE  Attempts
  <1>1. CASE UNCHANGED vars
    BY <1>1, SameAttempts DEF vars
  <1>2. ASSUME NEW e \in Execs, ExecStep(e) \/ TimerStep(e)
        PROVE  Attempts
    BY <1>2, ExecAttempts
  <1>3. ASSUME NEW w \in Workers, WorkerStep(w)
        PROVE  Attempts
    <2>1. CASE \E j \in Jobs : EnforceControls(w, j)
      BY <2>1, SameAttempts DEF EnforceControls
    <2>2. CASE Stop(w) \/ Exit(w)
      BY <2>2, SameAttempts DEF Stop, Exit
    <2>. QED BY <1>3, <2>1, <2>2, SweepAttempts, LeaseAttempts DEF WorkerStep
  <1>4. ASSUME NEW j \in Jobs, LeaseExpires(j) \/ BecomesDue(j)
        PROVE  Attempts
    <2>1. /\ attempt' = attempt
          /\ \A k \in Jobs : job'[k].status = job[k].status /\ job'[k].epoch = job[k].epoch
      <3>1. job[j] \in JobRows
        BY DEF TypeOK
      <3>2. /\ [job[j] EXCEPT !.live = FALSE].epoch = job[j].epoch
            /\ [job[j] EXCEPT !.live = FALSE].status = job[j].status
            /\ [job[j] EXCEPT !.due = TRUE].epoch = job[j].epoch
            /\ [job[j] EXCEPT !.due = TRUE].status = job[j].status
        BY <3>1 DEF JobRows
      <3>. QED BY <1>4, <3>2 DEF LeaseExpires, BecomesDue, TypeOK
    <2>. QED BY <2>1, SameAttempts
  <1>. QED BY <1>1, <1>2, <1>3, <1>4, ApiAttempts DEF Next, ClockStep

\* A running attempt belongs to the lease its job holds now.
THEOREM AttemptsAuthorized == Spec => []AttemptAuthority
  <1>1. Init => AttemptAuthority
    BY DEF Init, AttemptAuthority
  <1>2. TypeOK /\ ExecInv /\ AttemptAuthority /\ [Next]_vars => AttemptAuthority'
    BY StepAttempts DEF Attempts
  <1>. QED BY <1>1, <1>2, TypeCorrect, PTL DEF Spec

\* An attempt that has ended keeps its status for ever.
THEOREM AttemptsClosed == Spec => ClosedAttemptsFinal
  <1>1. TypeOK /\ ExecInv /\ AttemptAuthority /\ [Next]_vars => [AttemptsFinal]_vars
    BY StepAttempts DEF Attempts
  <1>. QED BY <1>1, TypeCorrect, AttemptsAuthorized, PTL DEF Spec, ClosedAttemptsFinal, AttemptsFinal

-----------------------------------------------------------------------------
(* Stale executions and completed runs.                                    *)

\* The body of StaleHarmless.
StaleStep ==
    \A e \in overtaken :
        exec[e].job \in Canonical /\ ExecStep(e) =>
            /\ UNCHANGED <<job, run>>
            /\ LET j == exec[e].job IN attempt'[j][job[j].epoch] = attempt[j][job[j].epoch]

LEMMA OvertakenPowerless ==
    ASSUME TypeOK, ExecInv, LeaseOrder, NEW e \in overtaken, exec[e].job \in Canonical
    PROVE  /\ Running(e) /\ e \in Execs
           /\ exec[e].epoch # job[exec[e].job].epoch
           /\ ~Owns(e) /\ ~OwnsGeneration(e) /\ ~HoldsLease(e) /\ ~WriteFence(e)
           /\ exec[e].pc = "handler" => exec[e].begun
  <1>1. e \in Execs /\ Running(e)
    BY DEF TypeOK, ExecInv, OvertakenRun
  <1>2. exec[e].job \in Jobs /\ exec[e].epoch \in Generations
    BY <1>1, RunningRow
  <1>3. job[exec[e].job].epoch \in Generations
    BY <1>2 DEF TypeOK, JobRows
  <1>4. exec[e].epoch < job[exec[e].job].epoch
    BY <1>1 DEF LeaseOrder
  <1>5. exec[e].epoch # job[exec[e].job].epoch
    BY <1>2, <1>3, <1>4 DEF Generations
  <1>. QED BY <1>1, <1>5 DEF Owns, OwnsGeneration, HoldsLease, WriteFence, ExecInv, HandlerBegun

LEMMA StaleSteps == TypeOK /\ ExecInv /\ LeaseOrder => StaleStep
  <1>. SUFFICES ASSUME TypeOK, ExecInv, LeaseOrder, NEW e \in overtaken,
                       exec[e].job \in Canonical, ExecStep(e)
                PROVE  /\ UNCHANGED <<job, run>>
                       /\ attempt'[exec[e].job][job[exec[e].job].epoch]
                             = attempt[exec[e].job][job[exec[e].job].epoch]
    BY DEF StaleStep
  <1>. DEFINE j == exec[e].job
              g == exec[e].epoch
  <1>1. /\ Running(e) /\ e \in Execs /\ g # job[j].epoch
        /\ ~Owns(e) /\ ~OwnsGeneration(e) /\ ~HoldsLease(e) /\ ~WriteFence(e)
        /\ exec[e].pc = "handler" => exec[e].begun
    BY OvertakenPowerless
  <1>2. j \in Jobs /\ g \in Generations /\ job[j].epoch \in Generations /\ RunOfExec(e) \in Runs
    BY <1>1, RunningRow DEF TypeOK, JobRows
  <1>3. CASE FinishAttempt(e) \/ Discard(e)
    <2>1. /\ job' = job /\ run' = run
          /\ \/ attempt' = attempt
             \/ \E s \in AttemptStates :
                  attempt' = [attempt EXCEPT ![j] = [attempt[j] EXCEPT ![g] = s]]
      BY <1>3 DEF FinishAttempt, Discard, FinishAs, AttemptStates
    <2>2. attempt \in [Jobs -> [Generations -> AttemptStates]]
      BY DEF TypeOK
    <2>3. CASE attempt' = attempt
      BY <2>1, <2>3
    <2>4. ASSUME NEW s \in AttemptStates,
                 attempt' = [attempt EXCEPT ![j] = [attempt[j] EXCEPT ![g] = s]]
          PROVE  attempt'[j][job[j].epoch] = attempt[j][job[j].epoch]
      <3>1. attempt'[j] = [attempt[j] EXCEPT ![g] = s]
        BY <1>2, <2>2, <2>4
      <3>2. attempt[j] \in [Generations -> AttemptStates]
        BY <1>2, <2>2
      <3>. QED BY <1>1, <1>2, <3>1, <3>2
    <2>. QED BY <2>1, <2>3, <2>4
  <1>4. CASE BeginAttempt(e) \/ Settle(e)
    BY <1>1, <1>4 DEF BeginAttempt, Settle
  <1>5. CASE Quarantine(e)
    BY <1>1, <1>2, <1>5 DEF Quarantine, TypeOK
  <1>6. CASE \E s \in {"complete", "partial"} : CommitOutcome(e, s)
    BY <1>1, <1>6 DEF CommitOutcome
  <1>7. CASE Start(e) \/ HandlerReturns(e) \/ (\E c \in Errors : HandlerThrows(e, c))
             \/ HandlerAborts(e) \/ FenceRefuses(e) \/ ResolveBlockers(e)
    BY <1>7 DEF Start, HandlerReturns, HandlerThrows, HandlerAborts, FenceRefuses, ResolveBlockers
  <1>. QED BY <1>3, <1>4, <1>5, <1>6, <1>7 DEF ExecStep

\* "A stale generation" can neither settle the job, nor decide the run, nor
\* touch the attempt of the worker that holds the lease now.
THEOREM StaleIsHarmless == Spec => StaleHarmless
  <1>1. TypeOK /\ ExecInv /\ LeaseOrder => [StaleStep]_vars
    BY StaleSteps
  <1>. QED BY <1>1, TypeCorrect, GenerationsOrdered, PTL DEF Spec, StaleHarmless, StaleStep

CompletionStep == \A r \in Runs : run[r] = "complete" => run'[r] = "complete"

LEMMA ExecCompletion ==
    ASSUME TypeOK, NEW e \in Execs, ExecStep(e) \/ TimerStep(e)
    PROVE  CompletionStep
  <1>1. CASE Settle(e)
    BY <1>1 DEF Settle, CompletionStep, TypeOK
  <1>2. CASE Quarantine(e)
    BY <1>2 DEF Quarantine, Quarantinable, CompletionStep, TypeOK
  <1>3. CASE \E s \in {"complete", "partial"} : CommitOutcome(e, s)
    BY <1>3 DEF CommitOutcome, CompletionStep, TypeOK
  <1>4. CASE run' = run
    BY <1>4 DEF CompletionStep
  <1>. QED BY <1>1, <1>2, <1>3, <1>4 DEF ExecStep, TimerStep, Start, BeginAttempt, HandlerReturns,
         HandlerThrows, HandlerAborts, FenceRefuses, FinishAttempt, ResolveBlockers, Discard,
         CallFails, RenewalRefused, RenewalFails

LEMMA StepCompletion == TypeOK /\ [Next]_vars => [CompletionStep]_vars
  <1>. SUFFICES ASSUME TypeOK, Next PROVE CompletionStep
    OBVIOUS
  <1>1. CASE \E e \in Execs : ExecStep(e) \/ TimerStep(e)
    BY <1>1, ExecCompletion
  <1>2. ASSUME NEW w \in Workers, WorkerStep(w)
        PROVE  CompletionStep
    <2>1. \/ run' = run
          \/ run' = [r \in Runs |-> SweptRun(r)]
      BY <1>2 DEF WorkerStep, Sweep, LeaseNext, EnforceControls, Stop, Exit
    <2>. QED BY <2>1, SweptRunType DEF CompletionStep
  <1>3. CASE ApiStep
    BY <1>3 DEF ApiStep, CancelByVisitor, CancelByOwner, DeleteByVisitor, Pause, Unpause,
       RequestPublication, CompletionStep, TypeOK
  <1>4. CASE ClockStep
    BY <1>4 DEF ClockStep, LeaseExpires, BecomesDue, CompletionStep
  <1>. QED BY <1>1, <1>2, <1>3, <1>4 DEF Next

\* Nothing takes a completed run back.
THEOREM CompletionIsFinal == Spec => CompletionFinal
  BY StepCompletion, TypeCorrect, PTL DEF Spec, CompletionFinal, CompletionStep

-----------------------------------------------------------------------------
(* Stranded runs, in a queue without publications: a publish request may   *)
(* reopen the run of a job that is about to be cancelled.                  *)

ResearchOnly == \A j \in Jobs : KindOf[j] = "research"

\* Where an execution has chosen its plan.
Settling == {"finish", "resolve", "quarantine", "settle"}

\* An execution that cancels its job, or is told to, works for a decided run.
CancelInv ==
    \A e \in Execs : Running(e) =>
        /\ exec[e].control = "cancel" => run[RunOfExec(e)] # "active"
        /\ exec[e].pc \in Settling /\ exec[e].plan = "cancel" => run[RunOfExec(e)] # "active"

LEMMA CancellingDecided ==
    ASSUME TypeOK, ExecInv, CancelInv, NEW e \in Execs, Running(e), Cancelling(e)
    PROVE  run[RunOfExec(e)] # "active"
  <1>1. CASE Cancelled(RunOfExec(e))
    BY <1>1 DEF Cancelled
  <1>2. CASE ControlOf(e) = "cancel"
    <2>. DEFINE entry == active[exec[e].worker][exec[e].job]
    <2>1. exec[e].worker \in Workers /\ exec[e].job \in Jobs
      BY RunningRow
    <2>2. entry # NoExec /\ exec[entry].control = "cancel"
      BY <1>2 DEF ControlOf
    <2>3. entry \in Execs /\ Running(entry) /\ exec[entry].job = exec[e].job
      BY <2>1, <2>2 DEF TypeOK, ExecInv, ActiveOwn
    <2>. QED BY <2>2, <2>3 DEF CancelInv, RunOfExec
  <1>. QED BY <1>1, <1>2 DEF Cancelling

\* Without publications no step makes a run active again.
NotReopened == \A r \in Runs : run'[r] = "active" => run[r] = "active"

LEMMA StepNotReopened ==
    ASSUME TypeOK, ResearchOnly, [Next]_vars
    PROVE  NotReopened
  <1>1. CASE run' = run
    BY <1>1 DEF NotReopened
  <1>2. ASSUME NEW e \in Execs, ExecStep(e) \/ TimerStep(e)
        PROVE  NotReopened
    <2>1. CASE Settle(e)
      BY <2>1, RunningRow, FailedRunType DEF Settle, Running, NotReopened, TypeOK
    <2>2. CASE Quarantine(e)
      BY <2>2 DEF Quarantine, NotReopened, TypeOK
    <2>3. CASE \E s \in {"complete", "partial"} : CommitOutcome(e, s)
      BY <2>3 DEF CommitOutcome, NotReopened, TypeOK
    <2>4. CASE run' = run
      BY <1>1, <2>4
    <2>. QED BY <1>2, <2>1, <2>2, <2>3, <2>4 DEF ExecStep, TimerStep, Start, BeginAttempt,
         HandlerReturns, HandlerThrows, HandlerAborts, FenceRefuses, FinishAttempt,
         ResolveBlockers, Discard, CallFails, RenewalRefused, RenewalFails
  <1>3. ASSUME NEW w \in Workers, WorkerStep(w)
        PROVE  NotReopened
    <2>1. run' = run \/ run' = [r \in Runs |-> SweptRun(r)]
      BY <1>3 DEF WorkerStep, Sweep, LeaseNext, EnforceControls, Stop, Exit
    <2>. QED BY <2>1, SweptRunType DEF NotReopened
  <1>4. CASE ApiStep
    BY <1>4 DEF ApiStep, CancelByVisitor, CancelByOwner, DeleteByVisitor, Pause, Unpause,
       RequestPublication, ResearchOnly, NotReopened, TypeOK
  <1>. QED BY <1>1, <1>2, <1>3, <1>4 DEF Next, ClockStep, LeaseExpires, BecomesDue, vars

\* The row of e after a step still satisfies CancelInv, for the run as it was.
CancelRow(e) ==
    Running(e)' =>
        \/ exec'[e].control # "cancel" /\ exec'[e].pc \notin Settling
        \/ /\ Running(e) /\ exec'[e].job = exec[e].job
           /\ exec'[e].control = "cancel" => run[RunOfExec(e)] # "active"
           /\ exec'[e].pc \in Settling /\ exec'[e].plan = "cancel" => run[RunOfExec(e)] # "active"

LEMMA CancelRows ==
    ASSUME TypeOK, NotReopened, \A e \in Execs : CancelRow(e)
    PROVE  CancelInv'
  <1>. SUFFICES ASSUME NEW e \in Execs, Running(e)'
                PROVE  /\ exec'[e].control = "cancel" => run'[RunOf[exec'[e].job]] # "active"
                       /\ exec'[e].pc \in Settling /\ exec'[e].plan = "cancel"
                             => run'[RunOf[exec'[e].job]] # "active"
    BY DEF CancelInv, RunOfExec
  <1>1. CancelRow(e)
    OBVIOUS
  <1>2. Running(e) => RunOfExec(e) \in Runs
    BY RunningRow
  <1>. QED BY <1>1, <1>2 DEF CancelRow, NotReopened, RunOfExec

LEMMA SameRow ==
    ASSUME CancelInv, NEW e \in Execs, exec'[e] = exec[e]
    PROVE  CancelRow(e)
  BY DEF CancelInv, CancelRow, Running

LEMMA GotoRow ==
    ASSUME TypeOK, CancelInv, NEW e \in Execs, Running(e), NEW pc \in PCs, Goto(e, pc),
           pc \in Settling => exec[e].pc \in Settling
    PROVE  CancelRow(e)
  <1>1. exec[e] \in ExecRows
    BY RunningRow
  <1>2. exec'[e] = [exec[e] EXCEPT !.pc = pc]
    BY DEF Goto, TypeOK
  <1>3. /\ exec'[e].pc = pc /\ exec'[e].job = exec[e].job
        /\ exec'[e].control = exec[e].control /\ exec'[e].plan = exec[e].plan
    BY <1>1, <1>2 DEF ExecRows
  <1>. QED BY <1>3 DEF CancelInv, CancelRow

LEMMA AdoptRow ==
    ASSUME TypeOK, CancelInv, NEW e \in Execs, Running(e), NEW pc \in PCs, NEW p \in Plans,
           Adopt(e, pc, p), p = "cancel" => run[RunOfExec(e)] # "active"
    PROVE  CancelRow(e)
  <1>1. exec[e] \in ExecRows
    BY RunningRow
  <1>2. exec'[e] = [exec[e] EXCEPT !.pc = pc, !.plan = p]
    BY DEF Adopt, TypeOK
  <1>3. /\ exec'[e].pc = pc /\ exec'[e].job = exec[e].job
        /\ exec'[e].control = exec[e].control /\ exec'[e].plan = p
    BY <1>1, <1>2 DEF ExecRows
  <1>. QED BY <1>3 DEF CancelInv, CancelRow

LEMMA LeaveRow ==
    ASSUME TypeOK, NEW e \in Execs, Leave(e)
    PROVE  CancelRow(e)
  BY DEF Leave, TypeOK, CancelRow, Running, Idle

LEMMA RaiseRow ==
    ASSUME TypeOK, ExecInv, CancelInv, NEW e \in Execs, Running(e), NEW c \in Causes, Raise(e, c)
    PROVE  CancelRow(e)
  <1>1. exec[e] \in ExecRows
    BY RunningRow
  <1>2. CASE Leave(e)
    BY <1>2, LeaveRow
  <1>3. CASE ~Leave(e) /\ exec[e].lost
    <2>1. exec'[e] = [exec[e] EXCEPT !.catching = TRUE, !.pc = "discard"]
      BY <1>3 DEF Raise, TypeOK
    <2>2. /\ exec'[e].pc = "discard" /\ exec'[e].job = exec[e].job
          /\ exec'[e].control = exec[e].control
      BY <1>1, <2>1 DEF ExecRows
    <2>. QED BY <2>2 DEF CancelInv, CancelRow, Settling
  <1>4. CASE ~Leave(e) /\ ~exec[e].lost
    <2>. DEFINE caught == IF CaughtPlan(e, c) \in Quarantining THEN c ELSE "none"
    <2>1. exec'[e] = [exec[e] EXCEPT !.catching = TRUE, !.pc = "finish",
                                     !.plan = CaughtPlan(e, c), !.cause = caught]
      BY <1>4 DEF Raise, TypeOK
    <2>2. /\ exec'[e].job = exec[e].job /\ exec'[e].control = exec[e].control
          /\ exec'[e].plan = CaughtPlan(e, c)
      BY <1>1, <2>1 DEF ExecRows
    <2>3. CaughtPlan(e, c) = "cancel" => Cancelling(e)
      BY DEF CaughtPlan, ClassifiedPlan
    <2>. QED BY <2>2, <2>3, CancellingDecided DEF CancelInv, CancelRow
  <1>. QED BY <1>2, <1>3, <1>4

LEMMA ExecStepRow ==
    ASSUME TypeOK, ExecInv, CancelInv, NEW e \in Execs, ExecStep(e) \/ CallFails(e)
    PROVE  CancelRow(e)
  <1>1. Running(e)
    BY DEF ExecStep, CallFails, Start, BeginAttempt, CommitOutcome, HandlerReturns, HandlerThrows,
       HandlerAborts, FenceRefuses, FinishAttempt, ResolveBlockers, Quarantine, Settle, Discard, Running
  <1>2. CASE Start(e)
    <2>1. CASE Cancelled(RunOfExec(e))
      BY <1>1, <1>2, <2>1, AdoptRow DEF Start, Cancelled, PCs, Plans
    <2>2. CASE ~Cancelled(RunOfExec(e))
      BY <1>1, <1>2, <2>2, GotoRow DEF Start, PCs, Settling
    <2>. QED BY <2>1, <2>2
  <1>3. CASE BeginAttempt(e)
    <2>1. CASE HoldsLease(e)
      <3>1. exec'[e] = [exec[e] EXCEPT !.pc = "handler", !.begun = TRUE]
        BY <1>3, <2>1 DEF BeginAttempt, TypeOK
      <3>2. /\ exec'[e].pc = "handler" /\ exec'[e].job = exec[e].job
            /\ exec'[e].control = exec[e].control
        BY <1>1, <3>1, RunningRow DEF ExecRows
      <3>. QED BY <1>1, <3>2 DEF CancelRow, CancelInv, Settling
    <2>2. CASE ~HoldsLease(e)
      BY <1>1, <1>3, <2>2, RaiseRow DEF BeginAttempt, Causes
    <2>. QED BY <2>1, <2>2
  <1>4. CASE HandlerReturns(e)
    <2>1. CASE exec[e].lost
      BY <1>1, <1>4, <2>1, GotoRow DEF HandlerReturns, PCs, Settling
    <2>2. CASE ~exec[e].lost /\ Cancelling(e)
      BY <1>1, <1>4, <2>2, AdoptRow, CancellingDecided DEF HandlerReturns, PCs, Plans
    <2>3. CASE ~exec[e].lost /\ ~Cancelling(e)
      BY <1>1, <1>4, <2>3, AdoptRow DEF HandlerReturns, PCs, Plans
    <2>. QED BY <2>1, <2>2, <2>3
  <1>5. CASE HandlerAborts(e) \/ FenceRefuses(e) \/ CallFails(e)
             \/ \E c \in Errors : HandlerThrows(e, c)
    <2>1. \E c \in Causes : Raise(e, c)
      BY <1>5 DEF HandlerAborts, FenceRefuses, CallFails, HandlerThrows, Causes, Errors
    <2>. QED BY <1>1, <2>1, RaiseRow
  <1>6. CASE FinishAttempt(e)
    <2>1. Leave(e) \/ \E pc \in PCs : Goto(e, pc)
      BY <1>6 DEF FinishAttempt, PCs
    <2>2. exec[e].pc \in Settling
      BY <1>6 DEF FinishAttempt, Settling
    <2>. QED BY <1>1, <2>1, <2>2, LeaveRow, GotoRow
  <1>7. CASE ResolveBlockers(e) \/ Quarantine(e)
    <2>1. Raise(e, "fence_lost") \/ Goto(e, "settle")
      BY <1>7 DEF ResolveBlockers, Quarantine
    <2>2. exec[e].pc \in Settling /\ "settle" \in PCs /\ "fence_lost" \in Causes
      BY <1>7 DEF ResolveBlockers, Quarantine, Settling, PCs, Causes
    <2>. QED BY <1>1, <2>1, <2>2, GotoRow, RaiseRow
  <1>8. CASE Settle(e)
    BY <1>1, <1>8, LeaveRow, RaiseRow DEF Settle, Causes
  <1>9. CASE Discard(e)
    BY <1>9, LeaveRow DEF Discard
  <1>10. CASE \E s \in {"complete", "partial"} : CommitOutcome(e, s)
    BY <1>10, SameRow DEF CommitOutcome
  <1>. QED BY <1>2, <1>3, <1>4, <1>5, <1>6, <1>7, <1>8, <1>9, <1>10 DEF ExecStep

LEMMA ExecStepOthers ==
    ASSUME TypeOK, NEW e \in Execs, ExecStep(e) \/ TimerStep(e)
    PROVE  \A d \in Execs \ {e} : exec'[d] = exec[d]
  BY DEF ExecStep, TimerStep, Start, BeginAttempt, CommitOutcome, HandlerReturns, HandlerThrows,
     HandlerAborts, FenceRefuses, FinishAttempt, ResolveBlockers, Quarantine, Settle, Discard,
     CallFails, RenewalRefused, RenewalFails, Goto, Adopt, Leave, Raise, TypeOK

\* A flag set on the row of an execution: aborted, lost, a control.
LEMMA FlagRow ==
    ASSUME TypeOK, CancelInv, NEW e \in Execs, Running(e),
           exec'[e].pc = exec[e].pc, exec'[e].job = exec[e].job, exec'[e].plan = exec[e].plan,
           exec'[e].control = "cancel" =>
              exec[e].control = "cancel" \/ run[RunOfExec(e)] # "active"
    PROVE  CancelRow(e)
  BY DEF CancelRow, CancelInv

LEMMA StepCancel ==
    ASSUME TypeOK, ExecInv, CancelInv, ResearchOnly, [Next]_vars
    PROVE  CancelInv'
  <1>. SUFFICES ASSUME NEW d \in Execs PROVE CancelRow(d)
    BY StepNotReopened, CancelRows
  <1>1. CASE exec' = exec
    BY <1>1, SameRow
  <1>2. ASSUME NEW e \in Execs, ExecStep(e) \/ CallFails(e)
        PROVE  CancelRow(d)
    BY <1>2, ExecStepRow, ExecStepOthers, SameRow DEF TimerStep
  <1>3. ASSUME NEW e \in Execs, RenewalRefused(e) \/ RenewalFails(e)
        PROVE  CancelRow(d)
    <2>1. Running(e) /\ exec' = [exec EXCEPT ![e] = [exec[e] EXCEPT !.lost = TRUE, !.aborted = TRUE]]
      BY <1>3 DEF RenewalRefused, RenewalFails, TypeOK
    <2>2. exec[e] \in ExecRows
      BY <2>1, RunningRow
    <2>3. /\ exec'[e].pc = exec[e].pc /\ exec'[e].job = exec[e].job
          /\ exec'[e].plan = exec[e].plan /\ exec'[e].control = exec[e].control
      BY <2>1, <2>2 DEF TypeOK, ExecRows
    <2>4. d # e => exec'[d] = exec[d]
      BY <2>1 DEF TypeOK
    <2>. QED BY <2>1, <2>3, <2>4, FlagRow, SameRow
  <1>4. ASSUME NEW w \in Workers, NEW j \in Jobs, EnforceControls(w, j)
        PROVE  CancelRow(d)
    <2>. DEFINE e == active[w][j]
                control == IF Cancelled(RunOf[j]) THEN "cancel" ELSE "pause"
    <2>1. e \in Execs /\ Running(e) /\ exec[e].job = j
      BY <1>4 DEF EnforceControls, TypeOK, ExecInv, ActiveOwn
    <2>2. exec' = [exec EXCEPT ![e] = [exec[e] EXCEPT !.control = control, !.aborted = TRUE]]
      BY <1>4 DEF EnforceControls, TypeOK
    <2>3. exec[e] \in ExecRows
      BY <2>1, RunningRow
    <2>4. /\ exec'[e].pc = exec[e].pc /\ exec'[e].job = exec[e].job
          /\ exec'[e].plan = exec[e].plan /\ exec'[e].control = control
      BY <2>1, <2>2, <2>3 DEF TypeOK, ExecRows
    <2>5. control = "cancel" => run[RunOfExec(e)] # "active"
      BY <2>1 DEF Cancelled, RunOfExec
    <2>6. d # e => exec'[d] = exec[d]
      BY <2>2 DEF TypeOK
    <2>. HIDE DEF e, control
    <2>. QED BY <2>1, <2>4, <2>5, <2>6, FlagRow, SameRow
  <1>5. ASSUME NEW w \in Workers, Stop(w)
        PROVE  CancelRow(d)
    <2>1. \/ exec'[d] = exec[d]
          \/ Running(d) /\ exec'[d] = [exec[d] EXCEPT !.aborted = TRUE]
      BY <1>5, NullAssumption DEF Stop, ExecInv, ActiveOwn
    <2>2. Running(d) => exec[d] \in ExecRows
      BY RunningRow
    <2>3. CASE exec'[d] = exec[d]
      BY <2>3, SameRow
    <2>4. CASE Running(d) /\ exec'[d] = [exec[d] EXCEPT !.aborted = TRUE]
      <3>1. /\ exec'[d].pc = exec[d].pc /\ exec'[d].job = exec[d].job
            /\ exec'[d].plan = exec[d].plan /\ exec'[d].control = exec[d].control
        BY <2>2, <2>4 DEF ExecRows
      <3>. QED BY <2>4, <3>1, FlagRow
    <2>. QED BY <2>1, <2>3, <2>4
  <1>6. ASSUME NEW w \in Workers, Exit(w)
        PROVE  CancelRow(d)
    <2>1. exec'[d] = exec[d] \/ exec'[d] = Idle
      BY <1>6 DEF Exit
    <2>. QED BY <2>1, SameRow DEF CancelRow, Running, Idle
  <1>7. ASSUME NEW w \in Workers, NEW j \in Jobs, NEW e \in Execs, LeaseNext(w, j, e)
        PROVE  CancelRow(d)
    <2>1. /\ ~Running(e) /\ exec'[e].pc = "start" /\ exec'[e].control = "none"
          /\ \A x \in Execs \ {e} : exec'[x] = exec[x]
      BY <1>7 DEF LeaseNext, TypeOK
    <2>2. CASE d # e
      BY <2>1, <2>2, SameRow
    <2>3. CASE d = e
      BY <2>1, <2>3 DEF CancelRow, Settling
    <2>. QED BY <2>2, <2>3
  <1>. QED BY <1>1, <1>2, <1>3, <1>4, <1>5, <1>6, <1>7 DEF Next, TimerStep, WorkerStep, Sweep,
         ApiStep, CancelByVisitor, CancelByOwner, DeleteByVisitor, Pause, Unpause,
         RequestPublication, ClockStep, LeaseExpires, BecomesDue, vars

\* A step that writes no job and reopens no run strands none.
LEMMA SameStranded ==
    ASSUME TypeOK, NoStrandedRun, NotReopened,
           \A j \in Jobs : job'[j].status \in {"failed", "cancelled"} =>
              job[j].status = job'[j].status \/ run'[RunOf[j]] # "active"
    PROVE  NoStrandedRun'
  BY JobAssumption DEF NoStrandedRun, NotReopened

LEMMA SweptDecided ==
    ASSUME TypeOK, NEW j \in Exhausted
    PROVE  SweptRun(RunOf[j]) # "active"
  BY FailedRunType, JobAssumption DEF SweptRun, Exhausted

LEMMA SettleStranded ==
    ASSUME TypeOK, ExecInv, CancelInv, NoStrandedRun, NotReopened, NEW e \in Execs, Settle(e)
    PROVE  NoStrandedRun'
  <1>. DEFINE j == exec[e].job
              r == RunOfExec(e)
              row == SettledRow(j, exec[e].plan)
  <1>1. Running(e) /\ exec[e].pc = "settle"
    BY DEF Settle, Running
  <1>2. j \in Jobs /\ r \in Runs /\ r = RunOf[j] /\ exec[e].plan \in Plans
    BY <1>1, RunningRow DEF RunOfExec
  <1>3. CASE ~Owns(e)
    BY <1>3, SameStranded DEF Settle
  <1>4. CASE Owns(e)
    <2>1. /\ job' = [job EXCEPT ![j] = row]
          /\ run' = [run EXCEPT ![r] = IF row.status = "failed" /\ run[r] = "active"
                                      THEN FailedRun(j) ELSE run[r]]
      BY <1>4 DEF Settle
    <2>2. row.status = "failed" => run'[r] # "active"
      BY <1>2, <2>1, FailedRunType DEF TypeOK
    <2>3. row.status = "cancelled" => run'[r] # "active"
      <3>1. row.status = "cancelled" => exec[e].plan = "cancel"
        <4>1. /\ Released(j, "complete").status = "complete"
              /\ Released(j, "failed").status = "failed"
              /\ Released(j, "queued").status = "queued" /\ Released(j, "queued") \in JobRows
          BY <1>2, ReleasedType DEF Settled
        <4>2. /\ [Released(j, "queued") EXCEPT !.due = FALSE].status = "queued"
              /\ [Released(j, "queued") EXCEPT !.due = FALSE] \in JobRows
          BY <4>1 DEF JobRows
        <4>. QED BY <4>1, <4>2 DEF SettledRow, JobRows
      <3>2. exec[e].plan = "cancel" => run[r] # "active"
        BY <1>1 DEF CancelInv, Settling
      <3>. QED BY <1>2, <3>1, <3>2 DEF NotReopened
    <2>4. \A k \in Jobs : job'[k] = IF k = j THEN row ELSE job[k]
      BY <2>1 DEF TypeOK
    <2>5. \A k \in Jobs : job'[k].status \in {"failed", "cancelled"} =>
              job[k].status = job'[k].status \/ run'[RunOf[k]] # "active"
      BY <1>2, <2>2, <2>3, <2>4
    <2>. QED BY <2>5, SameStranded
  <1>. QED BY <1>3, <1>4

LEMMA StepStranded ==
    ASSUME TypeOK, ExecInv, CancelInv, NoStrandedRun, ResearchOnly, [Next]_vars
    PROVE  NoStrandedRun'
  <1>0. NotReopened
    BY StepNotReopened
  <1>1. CASE job' = job
    BY <1>0, <1>1, SameStranded
  <1>2. ASSUME NEW e \in Execs, ExecStep(e) \/ TimerStep(e)
        PROVE  NoStrandedRun'
    <2>1. CASE Settle(e)
      BY <1>0, <2>1, SettleStranded
    <2>. QED BY <1>1, <1>2, <2>1 DEF ExecStep, TimerStep, Start, BeginAttempt, CommitOutcome,
         HandlerReturns, HandlerThrows, HandlerAborts, FenceRefuses, FinishAttempt,
         ResolveBlockers, Quarantine, Discard, CallFails, RenewalRefused, RenewalFails
  <1>3. ASSUME NEW w \in Workers, WorkerStep(w)
        PROVE  NoStrandedRun'
    <2>1. CASE Sweep(w)
      <3>1. /\ \A j \in Jobs \ Exhausted : job'[j] = job[j]
            /\ \A j \in Exhausted : run'[RunOf[j]] = SweptRun(RunOf[j])
        BY <2>1, JobAssumption DEF Sweep, Exhausted
      <3>. QED BY <1>0, <3>1, SweptDecided, SameStranded
    <2>2. ASSUME NEW j \in Jobs, NEW e \in Execs, LeaseNext(w, j, e)
          PROVE  NoStrandedRun'
      <3>1. /\ \A k \in Jobs \ Exhausted : k # j => job'[k] = job[k]
            /\ \A k \in Exhausted : run'[RunOf[k]] = SweptRun(RunOf[k])
        BY <2>2, JobAssumption DEF LeaseNext, Exhausted
      <3>2. job'[j].status = "leased"
        BY <2>2, LeaseFacts
      <3>. QED BY <1>0, <3>1, <3>2, SweptDecided, SameStranded
    <2>. QED BY <1>1, <1>3, <2>1, <2>2 DEF WorkerStep, EnforceControls, Stop, Exit
  <1>4. CASE ApiStep
    <2>1. ASSUME NEW r \in Runs, CancelByVisitor(r) \/ CancelByOwner(r) \/ DeleteByVisitor(r)
          PROVE  NoStrandedRun'
      <3>1. run'[r] # "active"
        BY <2>1 DEF CancelByVisitor, CancelByOwner, DeleteByVisitor, TypeOK
      <3>2. \A j \in Jobs : RunOf[j] # r => job'[j] = job[j]
        BY <2>1 DEF CancelByVisitor, CancelByOwner, CancelQueued, DeleteByVisitor
      <3>. QED BY <1>0, <3>1, <3>2, SameStranded
    <2>. QED BY <1>1, <1>4, <2>1 DEF ApiStep, Pause, Unpause, RequestPublication, ResearchOnly
  <1>5. ASSUME NEW j \in Jobs, LeaseExpires(j) \/ BecomesDue(j)
        PROVE  NoStrandedRun'
    <2>1. job[j] \in JobRows
      BY DEF TypeOK
    <2>2. /\ [job[j] EXCEPT !.live = FALSE].status = job[j].status
          /\ [job[j] EXCEPT !.due = TRUE].status = job[j].status
      BY <2>1 DEF JobRows
    <2>3. \A k \in Jobs : job'[k].status = job[k].status
      BY <1>5, <2>2 DEF LeaseExpires, BecomesDue, TypeOK
    <2>. QED BY <1>0, <2>3, SameStranded
  <1>. QED BY <1>1, <1>2, <1>3, <1>4, <1>5 DEF Next, ClockStep, vars

\* In a queue of research and matching jobs a job that fails or is cancelled
\* never leaves its run open, whatever fails, expires or is cancelled between.
THEOREM RunsNotStranded == ResearchOnly /\ Spec => []NoStrandedRun
  <1>1. Init => CancelInv /\ NoStrandedRun
    BY DEF Init, CancelInv, NoStrandedRun, Running, Idle
  <1>2. TypeOK /\ ExecInv /\ CancelInv /\ NoStrandedRun /\ ResearchOnly /\ [Next]_vars
          => CancelInv' /\ NoStrandedRun'
    BY StepCancel, StepStranded
  <1>. QED
    <2>. SUFFICES ASSUME ResearchOnly PROVE Spec => []NoStrandedRun
      OBVIOUS
    <2>1. TypeOK /\ ExecInv /\ CancelInv /\ NoStrandedRun /\ [Next]_vars
            => CancelInv' /\ NoStrandedRun'
      BY <1>2
    <2>. QED BY <1>1, <2>1, TypeCorrect, PTL DEF Spec
=============================================================================
