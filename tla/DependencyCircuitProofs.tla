----------------------- MODULE DependencyCircuitProofs -----------------------
(***************************************************************************)
(* The safety of the dependency circuit, for any number of slots, any      *)
(* delays, Retry-Afters and windows, and any number of losses and resumes. *)
(* One inductive invariant carries all seven theorems: at every place of   *)
(* an execution it knows what the run may be, that the provider's wish has *)
(* been awaited, and how many attempts the slots account for.  The last    *)
(* part is what bounds the attempts of an outage: every grant is paid for  *)
(* by a slot, by the second pass of the optimizer, or by the horizon,      *)
(* after which no provider is called.  For every action there are two      *)
(* lemmas: one keeps the types, the other the rest of the invariant and    *)
(* what the step promises.  That an outage settles stays with TLC.         *)
(***************************************************************************)
EXTENDS DependencyCircuit, TLAPS

-----------------------------------------------------------------------------
(* The inductive invariant *)

Handler == {"call", "compute", "persisted", "breaking", "refusing", "asking", "returned"}
Caught == {"failing", "deciding"}
Classified == handling.error \in {"unavailable", "refused", "compute1", "compute2"}
Open == research \in {Active, "recovering"}

\* An execution holds its job.
LeasedInv == handling.pc # "none" => task.status = "leased"

\* An open blocker ends with its window and counts no slot twice.
BlockerInv == blocker.open => blocker.until = blocker.first + Window /\ blocker.durable <= Slots

\* A handler starts only within the window.
MarkingInv == handling.pc = "marking" => Expired
StageInv == handling.pc = "stage" => ~Expired
UndecidedInv ==
    \/ handling.pc = "stage" \/ handling.pc \in Handler
    \/ handling.pc \in Caught \cup {"retry"} /\ Classified
    => research # "needs_decision"

\* Whoever wakes at time t finds the provider's Retry-After or the horizon past.
Awaited(t) == t >= blocker.after \/ (blocker.open /\ t >= blocker.until)
WaitInv ==
    losses = 0 =>
        /\ handling.pc = "none" /\ task.status = "queued" => Awaited(task.due)
        /\ handling.pc = "none" /\ task.status = "leased" => Awaited(clock)
        /\ handling.pc \in {"begin", "marking", "stage"} => Awaited(clock)
        /\ handling.pc = "retry" => Awaited(handling.due)
        /\ handling.pc \in Handler => clock >= blocker.after
        /\ handling.pc \in Caught /\ Classified => clock >= blocker.after

\* A verdict is the last word of its execution.
VerdictInv ==
    losses = 0 =>
        /\ research = "needs_decision" => handling.pc = "resolved" \/ ~Live
        /\ research = "quarantined" => handling.pc = "close" \/ ~Live
        /\ research = "asked" => handling.pc \in {"returned", "resolved"} \/ ~Live
        /\ research = "settled" => handling.pc \in {"persisted", "returned", "resolved"} \/ ~Live

\* A finished stage leaves no open run behind.
FinishedInv ==
    /\ checkpoint.state = "complete" => ~Open /\ research # "needs_decision"
    /\ checkpoint.state \in {"broken", "question"} /\ (Open \/ research = "needs_decision")
          => \/ losses > 0 \/ handling.pc \in {"breaking", "asking"}
             \/ handling.pc \in Caught /\ handling.error = "unexpected"
    /\ handling.pc \in {"returned", "resolved"} /\ Open => StageStranded

\* The slots that were used and, once the first pass of the optimizer is
\* exhausted, its retry are all that an execution has to account for.
Used == IF blocker.open THEN blocker.durable ELSE 0
Passed == IF checkpoint.state = "compute1" THEN 1 ELSE 0
AtHorizon(t) == blocker.open /\ t >= blocker.until
AttemptsInv ==
    losses = 0 =>
        /\ handling.pc = "close" => research \in {"quarantined", "cancelled"}
        /\ handling.pc = "none" /\ task.status = "queued"
              => task.attempts <= Used + Passed \/ AtHorizon(task.due)
        /\ handling.pc = "none" /\ task.status = "leased" => AtHorizon(clock) /\ task.attempts <= Slots + 1
        /\ handling.pc = "begin" => task.attempts <= Used + Passed + 1 \/ AtHorizon(clock)
        /\ handling.pc = "stage" => task.attempts <= Used + Passed + 1
        /\ handling.pc = "call" => task.attempts <= Used + 1
        /\ handling.pc \in Caught /\ handling.error = "unavailable" => task.attempts <= Used + 1
        /\ handling.pc \in Caught /\ handling.error = "compute1"
              => task.attempts <= Used + 1 /\ checkpoint.state = "compute1"
        /\ handling.pc = "retry" => /\ task.attempts <= Used + Passed \/ AtHorizon(handling.due)
                                    /\ task.attempts <= Slots + 1 \/ task.attempts < MaxAttempts

Parts == /\ ResumableDecision /\ StageKeepsWork
         /\ LeasedInv /\ BlockerInv /\ MarkingInv /\ StageInv /\ UndecidedInv
         /\ WaitInv /\ VerdictInv /\ FinishedInv /\ AttemptsInv /\ OutageNotFailed
IInv == CircuitTypeOK /\ Parts

\* What a step keeps besides.
Kept == Anchored /\ Heeds /\ KeepsVerdict

-----------------------------------------------------------------------------
(* Types: the operators, then every action *)

PCs == {"none", "begin", "marking", "stage", "call", "compute", "persisted",
                       "breaking", "refusing", "asking", "returned", "resolved",
                       "failing", "deciding", "retry", "close"}
Errors == {"none", "unavailable", "refused", "compute1", "compute2", "unexpected"}

LEMMA GotoType ==
  ASSUME handling \in HandlingRows, NEW pc \in PCs, Goto(pc)
  PROVE  handling' \in HandlingRows
BY DEF Goto, HandlingRows, PCs

LEMMA ThrowType ==
  ASSUME handling \in HandlingRows, NEW error \in Errors, NEW after \in Nat, Throw(error, after)
  PROVE  handling' \in HandlingRows
BY DEF Throw, HandlingRows, Errors

LEMMA IdleType == Idle \in HandlingRows
BY DEF Idle, HandlingRows

LEMMA StatusType ==
  ASSUME task \in TaskRows, NEW s \in {"queued", "leased", "complete", "failed", "cancelled"}
  PROVE  [task EXCEPT !.status = s] \in TaskRows /\ [task EXCEPT !.status = s].attempts = task.attempts
BY DEF TaskRows

LEMMA DueType ==
  ASSUME task \in TaskRows, NEW due \in Nat
  PROVE  [task EXCEPT !.due = due] \in TaskRows /\ [task EXCEPT !.due = due].attempts = task.attempts
BY DEF TaskRows

LEMMA StateType ==
  ASSUME checkpoint \in CheckpointRows,
         NEW s \in {"none", "in_progress", "waiting", "refused", "broken", "question",
                "compute1", "compute2", "complete"}
  PROVE  [checkpoint EXCEPT !.state = s] \in CheckpointRows
BY DEF CheckpointRows

LEMMA CircuitNumbers ==
  ASSUME blocker \in BlockerRows, handling \in HandlingRows, clock \in Nat
  PROVE  /\ FirstFailure \in Nat /\ Until \in Nat /\ KnownAfter \in Nat /\ Completed \in Nat
         /\ Earlier(Slots, Completed + 1) \in Nat
         /\ RetryTimes \subseteq Nat
<1>1. FirstFailure \in Nat /\ Until \in Nat /\ KnownAfter \in Nat
  BY CircuitAssumption DEF FirstFailure, Until, KnownAfter, Earlier, Later, BlockerRows,
     HandlingRows
<1>2. Completed \in 0..Slots
  BY CircuitAssumption DEF Completed, Earlier, BlockerRows
<1>3. RetryTimes \subseteq Nat
  <2>1. \A offset \in Nat : NextSlot(offset) \in Nat
    BY <1>1, CircuitAssumption DEF NextSlot, Earlier, Later
  <2>2. Completed < Slots => Delay[Completed + 1] \subseteq Nat
    BY <1>2, CircuitAssumption
  <2>3. FirstFailure + Window \in Nat /\ (Completed >= Slots \/ Completed < Slots)
    BY <1>1, <1>2, CircuitAssumption
  <2> QED
    BY <2>1, <2>2, <2>3 DEF RetryTimes
<1> QED
  BY <1>1, <1>2, <1>3, CircuitAssumption DEF Earlier

LEMMA DecidedType ==
  ASSUME blocker \in BlockerRows, handling \in HandlingRows, clock \in Nat
  PROVE  Decided(blocker) \in BlockerRows /\ Opened(blocker) \in BlockerRows
<1>1. /\ FirstFailure \in Nat /\ Until \in Nat /\ KnownAfter \in Nat /\ Completed \in Nat
      /\ Earlier(Slots, Completed + 1) \in Nat
  BY CircuitNumbers
<1>2. (blocker.open /\ blocker.decision) \in BOOLEAN
  OBVIOUS
<1>3. Decided(blocker) \in BlockerRows
  BY <1>1 DEF Decided, BlockerRows
<1>4. Opened(blocker) \in BlockerRows
  BY <1>1, <1>2 DEF Opened, BlockerRows
<1> QED
  BY <1>3, <1>4


\* Every action keeps the types.
LEMMA LeaseType == CircuitTypeOK /\ Lease => CircuitTypeOK'
<1> SUFFICES ASSUME CircuitTypeOK, Lease PROVE CircuitTypeOK'
  OBVIOUS
<1>0. task \in TaskRows /\ handling \in HandlingRows /\ blocker \in BlockerRows /\ checkpoint \in CheckpointRows /\ clock \in Nat
  BY DEF CircuitTypeOK
<1>1. task' \in TaskRows /\ task'.attempts <= MaxAttempts
  BY <1>0, CircuitAssumption DEF Lease, CircuitTypeOK, TaskRows
<1>2. handling' \in HandlingRows
  BY <1>0, GotoType DEF Lease, PCs
<1> QED
  BY <1>0, <1>1, <1>2 DEF CircuitTypeOK, Lease

LEMMA SweepTaskType == CircuitTypeOK /\ SweepTask => CircuitTypeOK'
<1> SUFFICES ASSUME CircuitTypeOK, SweepTask PROVE CircuitTypeOK'
  OBVIOUS
<1>0. task \in TaskRows /\ handling \in HandlingRows /\ blocker \in BlockerRows /\ checkpoint \in CheckpointRows /\ clock \in Nat
  BY DEF CircuitTypeOK
<1>1. task' \in TaskRows /\ task'.attempts <= MaxAttempts
  BY <1>0, StatusType DEF SweepTask, CircuitTypeOK
<1>2. research' \in ResearchStates
  BY <1>0 DEF SweepTask, CircuitTypeOK, ResearchStates, Active, UpdateRun, FailedRunStatus
<1> QED
  BY <1>0, <1>1, <1>2 DEF CircuitTypeOK, SweepTask

LEMMA BeginTaskType == CircuitTypeOK /\ BeginTask => CircuitTypeOK'
<1> SUFFICES ASSUME CircuitTypeOK, BeginTask PROVE CircuitTypeOK'
  OBVIOUS
<1>0. task \in TaskRows /\ handling \in HandlingRows /\ blocker \in BlockerRows /\ checkpoint \in CheckpointRows /\ clock \in Nat
  BY DEF CircuitTypeOK
<1>1. task' \in TaskRows /\ task'.attempts <= MaxAttempts
  BY <1>0, StatusType DEF BeginTask, CancelTask, CircuitTypeOK
<1>2. handling' \in HandlingRows
  BY <1>0, IdleType DEF BeginTask, CancelTask
<1> QED
  BY <1>0, <1>1, <1>2 DEF CircuitTypeOK, BeginTask, CancelTask

LEMMA EnterStageType == CircuitTypeOK /\ EnterStage => CircuitTypeOK'
<1> SUFFICES ASSUME CircuitTypeOK, EnterStage PROVE CircuitTypeOK'
  OBVIOUS
<1>0. task \in TaskRows /\ handling \in HandlingRows /\ blocker \in BlockerRows /\ checkpoint \in CheckpointRows /\ clock \in Nat
  BY DEF CircuitTypeOK
<1>1. handling' \in HandlingRows
  BY <1>0, GotoType DEF EnterStage, PCs
<1> QED
  BY <1>0, <1>1 DEF CircuitTypeOK, EnterStage

LEMMA MarkType == CircuitTypeOK /\ Mark => CircuitTypeOK'
<1> SUFFICES ASSUME CircuitTypeOK, Mark PROVE CircuitTypeOK'
  OBVIOUS
<1>0. task \in TaskRows /\ handling \in HandlingRows /\ blocker \in BlockerRows /\ checkpoint \in CheckpointRows /\ clock \in Nat
  BY DEF CircuitTypeOK
<1>1. handling' \in HandlingRows
  BY <1>0, GotoType DEF Mark, PCs
<1>2. blocker' \in BlockerRows
  BY <1>0, DecidedType DEF Mark
<1>3. research' \in ResearchStates
  BY <1>0 DEF Mark, CircuitTypeOK, ResearchStates, Active, UpdateRun, FailedRunStatus
<1> QED
  BY <1>0, <1>1, <1>2, <1>3 DEF CircuitTypeOK, Mark

LEMMA MarkStaleType == CircuitTypeOK /\ MarkStale => CircuitTypeOK'
<1> SUFFICES ASSUME CircuitTypeOK, MarkStale PROVE CircuitTypeOK'
  OBVIOUS
<1>0. task \in TaskRows /\ handling \in HandlingRows /\ blocker \in BlockerRows /\ checkpoint \in CheckpointRows /\ clock \in Nat
  BY DEF CircuitTypeOK
<1>1. handling' \in HandlingRows
  BY <1>0, ThrowType, CircuitAssumption DEF MarkStale, Errors
<1> QED
  BY <1>0, <1>1 DEF CircuitTypeOK, MarkStale

LEMMA StageDoneType == CircuitTypeOK /\ StageDone => CircuitTypeOK'
<1> SUFFICES ASSUME CircuitTypeOK, StageDone PROVE CircuitTypeOK'
  OBVIOUS
<1>0. task \in TaskRows /\ handling \in HandlingRows /\ blocker \in BlockerRows /\ checkpoint \in CheckpointRows /\ clock \in Nat
  BY DEF CircuitTypeOK
<1>1. handling' \in HandlingRows
  BY <1>0, GotoType DEF StageDone, PCs
<1> QED
  BY <1>0, <1>1 DEF CircuitTypeOK, StageDone

LEMMA StageRethrowsType == CircuitTypeOK /\ StageRethrows => CircuitTypeOK'
<1> SUFFICES ASSUME CircuitTypeOK, StageRethrows PROVE CircuitTypeOK'
  OBVIOUS
<1>0. task \in TaskRows /\ handling \in HandlingRows /\ blocker \in BlockerRows /\ checkpoint \in CheckpointRows /\ clock \in Nat
  BY DEF CircuitTypeOK
<1>1. handling' \in HandlingRows
  BY <1>0, ThrowType, CircuitAssumption DEF StageRethrows, Errors, CheckpointRows
<1> QED
  BY <1>0, <1>1 DEF CircuitTypeOK, StageRethrows

LEMMA StartStageType == CircuitTypeOK /\ StartStage => CircuitTypeOK'
<1> SUFFICES ASSUME CircuitTypeOK, StartStage PROVE CircuitTypeOK'
  OBVIOUS
<1>0. task \in TaskRows /\ handling \in HandlingRows /\ blocker \in BlockerRows /\ checkpoint \in CheckpointRows /\ clock \in Nat
  BY DEF CircuitTypeOK
<1>1. handling' \in HandlingRows
  BY <1>0, GotoType DEF StartStage, StageOpen, PCs, HandlingRows
<1>2. checkpoint' \in CheckpointRows
  BY <1>0, CircuitAssumption DEF StartStage, StageOpen, CheckpointRows, TaskRows
<1>3. research' \in ResearchStates
  BY DEF StartStage, StageOpen, ResearchStates, Active, UpdateRun
<1> QED
  BY <1>0, <1>1, <1>2, <1>3 DEF CircuitTypeOK, StartStage

LEMMA UnavailableType == CircuitTypeOK /\ Unavailable => CircuitTypeOK'
<1> SUFFICES ASSUME CircuitTypeOK, Unavailable PROVE CircuitTypeOK'
  OBVIOUS
<1>0. task \in TaskRows /\ handling \in HandlingRows /\ blocker \in BlockerRows /\ checkpoint \in CheckpointRows /\ clock \in Nat
  BY DEF CircuitTypeOK
<1>1. handling' \in HandlingRows
  BY <1>0, ThrowType, CircuitAssumption DEF Unavailable, Errors
<1>2. checkpoint' \in CheckpointRows
  BY <1>0, CircuitAssumption DEF Unavailable, CheckpointRows, TaskRows
<1>3. research' \in ResearchStates
  BY <1>0 DEF Unavailable, CircuitTypeOK, ResearchStates, Active, UpdateRun, FailedRunStatus
<1> QED
  BY <1>0, <1>1, <1>2, <1>3 DEF CircuitTypeOK, Unavailable

LEMMA RefuseSaveType == CircuitTypeOK /\ RefuseSave => CircuitTypeOK'
<1> SUFFICES ASSUME CircuitTypeOK, RefuseSave PROVE CircuitTypeOK'
  OBVIOUS
<1>0. task \in TaskRows /\ handling \in HandlingRows /\ blocker \in BlockerRows /\ checkpoint \in CheckpointRows /\ clock \in Nat
  BY DEF CircuitTypeOK
<1>1. handling' \in HandlingRows
  BY <1>0, GotoType DEF RefuseSave, PCs
<1>2. checkpoint' \in CheckpointRows
  BY <1>0, StateType DEF RefuseSave
<1> QED
  BY <1>0, <1>1, <1>2 DEF CircuitTypeOK, RefuseSave

LEMMA RefuseRunType == CircuitTypeOK /\ RefuseRun => CircuitTypeOK'
<1> SUFFICES ASSUME CircuitTypeOK, RefuseRun PROVE CircuitTypeOK'
  OBVIOUS
<1>0. task \in TaskRows /\ handling \in HandlingRows /\ blocker \in BlockerRows /\ checkpoint \in CheckpointRows /\ clock \in Nat
  BY DEF CircuitTypeOK
<1>1. handling' \in HandlingRows
  BY <1>0, ThrowType, CircuitAssumption DEF RefuseRun, Errors
<1>2. research' \in ResearchStates
  BY DEF RefuseRun, CircuitTypeOK, ResearchStates, Active, UpdateRun, FailedRunStatus
<1> QED
  BY <1>0, <1>1, <1>2 DEF CircuitTypeOK, RefuseRun

LEMMA BreakSaveType == CircuitTypeOK /\ BreakSave => CircuitTypeOK'
<1> SUFFICES ASSUME CircuitTypeOK, BreakSave PROVE CircuitTypeOK'
  OBVIOUS
<1>0. task \in TaskRows /\ handling \in HandlingRows /\ blocker \in BlockerRows /\ checkpoint \in CheckpointRows /\ clock \in Nat
  BY DEF CircuitTypeOK
<1>1. handling' \in HandlingRows
  BY <1>0, GotoType DEF BreakSave, PCs
<1>2. checkpoint' \in CheckpointRows
  BY DEF BreakSave, CheckpointRows
<1> QED
  BY <1>0, <1>1, <1>2 DEF CircuitTypeOK, BreakSave

LEMMA BreakRunType == CircuitTypeOK /\ BreakRun => CircuitTypeOK'
<1> SUFFICES ASSUME CircuitTypeOK, BreakRun PROVE CircuitTypeOK'
  OBVIOUS
<1>0. task \in TaskRows /\ handling \in HandlingRows /\ blocker \in BlockerRows /\ checkpoint \in CheckpointRows /\ clock \in Nat
  BY DEF CircuitTypeOK
<1>1. handling' \in HandlingRows
  BY <1>0, GotoType DEF BreakRun, PCs
<1>2. research' \in ResearchStates
  BY DEF BreakRun, CircuitTypeOK, ResearchStates, Active, UpdateRun, FailedRunStatus
<1> QED
  BY <1>0, <1>1, <1>2 DEF CircuitTypeOK, BreakRun

LEMMA OverrunType == CircuitTypeOK /\ Overrun => CircuitTypeOK'
<1> SUFFICES ASSUME CircuitTypeOK, Overrun PROVE CircuitTypeOK'
  OBVIOUS
<1>0. task \in TaskRows /\ handling \in HandlingRows /\ blocker \in BlockerRows /\ checkpoint \in CheckpointRows /\ clock \in Nat
  BY DEF CircuitTypeOK
<1>1. handling' \in HandlingRows
  BY <1>0, ThrowType, CircuitAssumption DEF Overrun, Errors
<1>2. checkpoint' \in CheckpointRows
  BY <1>0, StateType DEF Overrun
<1>3. research' \in ResearchStates
  BY <1>0 DEF Overrun, CircuitTypeOK, ResearchStates, Active, UpdateRun
<1> QED
  BY <1>0, <1>1, <1>2, <1>3 DEF CircuitTypeOK, Overrun

LEMMA FaultType == CircuitTypeOK /\ Fault => CircuitTypeOK'
<1> SUFFICES ASSUME CircuitTypeOK, Fault PROVE CircuitTypeOK'
  OBVIOUS
<1>0. task \in TaskRows /\ handling \in HandlingRows /\ blocker \in BlockerRows /\ checkpoint \in CheckpointRows /\ clock \in Nat
  BY DEF CircuitTypeOK
<1>1. handling' \in HandlingRows
  BY <1>0, ThrowType, CircuitAssumption DEF Fault, Errors
<1> QED
  BY <1>0, <1>1 DEF CircuitTypeOK, Fault

LEMMA SaveQuestionType == CircuitTypeOK /\ SaveQuestion => CircuitTypeOK'
<1> SUFFICES ASSUME CircuitTypeOK, SaveQuestion PROVE CircuitTypeOK'
  OBVIOUS
<1>0. handling \in HandlingRows
  BY DEF CircuitTypeOK
<1>1. handling' \in HandlingRows
  BY <1>0, GotoType DEF SaveQuestion, PCs
<1>2. checkpoint' \in CheckpointRows
  BY DEF SaveQuestion, CheckpointRows
<1> QED
  BY <1>1, <1>2 DEF CircuitTypeOK, SaveQuestion

LEMMA QuestionFailsType == CircuitTypeOK /\ QuestionFails => CircuitTypeOK'
<1> SUFFICES ASSUME CircuitTypeOK, QuestionFails PROVE CircuitTypeOK'
  OBVIOUS
<1>0. handling \in HandlingRows
  BY DEF CircuitTypeOK
<1>1. handling' \in HandlingRows
  BY <1>0, ThrowType DEF QuestionFails, Errors
<1> QED
  BY <1>0, <1>1 DEF CircuitTypeOK, QuestionFails

LEMMA AskScopeType == CircuitTypeOK /\ AskScope => CircuitTypeOK'
<1> SUFFICES ASSUME CircuitTypeOK, AskScope PROVE CircuitTypeOK'
  OBVIOUS
<1>0. task \in TaskRows /\ handling \in HandlingRows /\ blocker \in BlockerRows /\ checkpoint \in CheckpointRows /\ clock \in Nat
  BY DEF CircuitTypeOK
<1>1. handling' \in HandlingRows
  BY <1>0, GotoType DEF AskScope, PCs
<1>2. research' \in ResearchStates
  BY <1>0 DEF AskScope, CircuitTypeOK, ResearchStates, UpdateRun, FailedRunStatus
<1> QED
  BY <1>0, <1>1, <1>2 DEF CircuitTypeOK, AskScope

LEMMA PersistType == CircuitTypeOK /\ Persist => CircuitTypeOK'
<1> SUFFICES ASSUME CircuitTypeOK, Persist PROVE CircuitTypeOK'
  OBVIOUS
<1>0. task \in TaskRows /\ handling \in HandlingRows /\ blocker \in BlockerRows /\ checkpoint \in CheckpointRows /\ clock \in Nat
  BY DEF CircuitTypeOK
<1>1. handling' \in HandlingRows
  BY <1>0, GotoType DEF Persist, PCs
<1>2. research' \in ResearchStates
  BY DEF Persist, CircuitTypeOK, ResearchStates, Active, UpdateRun, FailedRunStatus
<1> QED
  BY <1>0, <1>1, <1>2 DEF CircuitTypeOK, Persist

LEMMA SaveCompleteType == CircuitTypeOK /\ SaveComplete => CircuitTypeOK'
<1> SUFFICES ASSUME CircuitTypeOK, SaveComplete PROVE CircuitTypeOK'
  OBVIOUS
<1>0. task \in TaskRows /\ handling \in HandlingRows /\ blocker \in BlockerRows /\ checkpoint \in CheckpointRows /\ clock \in Nat
  BY DEF CircuitTypeOK
<1>1. handling' \in HandlingRows
  BY <1>0, GotoType DEF SaveComplete, PCs
<1>2. checkpoint' \in CheckpointRows
  BY <1>0, StateType DEF SaveComplete
<1>3. research' \in ResearchStates
  BY DEF SaveComplete, ResearchStates, UpdateRun, FailedRunStatus
<1> QED
  BY <1>0, <1>1, <1>2, <1>3 DEF CircuitTypeOK, SaveComplete

LEMMA CancelReturnedType == CircuitTypeOK /\ CancelReturned => CircuitTypeOK'
<1> SUFFICES ASSUME CircuitTypeOK, CancelReturned PROVE CircuitTypeOK'
  OBVIOUS
<1>0. task \in TaskRows /\ handling \in HandlingRows /\ blocker \in BlockerRows /\ checkpoint \in CheckpointRows /\ clock \in Nat
  BY DEF CircuitTypeOK
<1>1. task' \in TaskRows /\ task'.attempts <= MaxAttempts
  BY <1>0, StatusType DEF CancelReturned, CancelTask, CircuitTypeOK
<1>2. handling' \in HandlingRows
  BY <1>0, IdleType DEF CancelReturned, CancelTask
<1> QED
  BY <1>0, <1>1, <1>2 DEF CircuitTypeOK, CancelReturned, CancelTask

LEMMA ResolveBlockerType == CircuitTypeOK /\ ResolveBlocker => CircuitTypeOK'
<1> SUFFICES ASSUME CircuitTypeOK, ResolveBlocker PROVE CircuitTypeOK'
  OBVIOUS
<1>0. task \in TaskRows /\ handling \in HandlingRows /\ blocker \in BlockerRows /\ checkpoint \in CheckpointRows /\ clock \in Nat
  BY DEF CircuitTypeOK
<1>1. handling' \in HandlingRows
  BY <1>0, GotoType DEF ResolveBlocker, PCs
<1>2. blocker' \in BlockerRows
  BY <1>0 DEF ResolveBlocker, BlockerRows
<1> QED
  BY <1>0, <1>1, <1>2 DEF CircuitTypeOK, ResolveBlocker

LEMMA CompleteTaskType == CircuitTypeOK /\ CompleteTask => CircuitTypeOK'
<1> SUFFICES ASSUME CircuitTypeOK, CompleteTask PROVE CircuitTypeOK'
  OBVIOUS
<1>0. task \in TaskRows /\ handling \in HandlingRows /\ blocker \in BlockerRows /\ checkpoint \in CheckpointRows /\ clock \in Nat
  BY DEF CircuitTypeOK
<1>1. task' \in TaskRows /\ task'.attempts <= MaxAttempts
  BY <1>0, StatusType DEF CompleteTask, CircuitTypeOK
<1>2. handling' \in HandlingRows
  BY <1>0, IdleType DEF CompleteTask
<1> QED
  BY <1>0, <1>1, <1>2 DEF CircuitTypeOK, CompleteTask

LEMMA CancelFailingType == CircuitTypeOK /\ CancelFailing => CircuitTypeOK'
<1> SUFFICES ASSUME CircuitTypeOK, CancelFailing PROVE CircuitTypeOK'
  OBVIOUS
<1>0. task \in TaskRows /\ handling \in HandlingRows /\ blocker \in BlockerRows /\ checkpoint \in CheckpointRows /\ clock \in Nat
  BY DEF CircuitTypeOK
<1>1. task' \in TaskRows /\ task'.attempts <= MaxAttempts
  BY <1>0, StatusType DEF CancelFailing, CancelTask, CircuitTypeOK
<1>2. handling' \in HandlingRows
  BY <1>0, IdleType DEF CancelFailing, CancelTask
<1> QED
  BY <1>0, <1>1, <1>2 DEF CircuitTypeOK, CancelFailing, CancelTask

LEMMA ClassifyType == CircuitTypeOK /\ Classify => CircuitTypeOK'
<1> SUFFICES ASSUME CircuitTypeOK, Classify PROVE CircuitTypeOK'
  OBVIOUS
<1>0. task \in TaskRows /\ handling \in HandlingRows /\ blocker \in BlockerRows /\ checkpoint \in CheckpointRows /\ clock \in Nat
  BY DEF CircuitTypeOK
<1>1. handling' \in HandlingRows
  BY <1>0, GotoType DEF Classify, PCs
<1> QED
  BY <1>0, <1>1 DEF CircuitTypeOK, Classify

LEMMA OpenCircuitType == CircuitTypeOK /\ OpenCircuit => CircuitTypeOK'
<1> SUFFICES ASSUME CircuitTypeOK, OpenCircuit PROVE CircuitTypeOK'
  OBVIOUS
<1>0. task \in TaskRows /\ handling \in HandlingRows /\ blocker \in BlockerRows /\ checkpoint \in CheckpointRows /\ clock \in Nat
  BY DEF CircuitTypeOK
<1>1. handling' \in HandlingRows
  BY <1>0, CircuitNumbers DEF OpenCircuit, HandlingRows
<1>2. blocker' \in BlockerRows
  BY <1>0, DecidedType DEF OpenCircuit
<1> QED
  BY <1>0, <1>1, <1>2 DEF CircuitTypeOK, OpenCircuit

LEMMA DecideLateType == CircuitTypeOK /\ DecideLate => CircuitTypeOK'
<1> SUFFICES ASSUME CircuitTypeOK, DecideLate PROVE CircuitTypeOK'
  OBVIOUS
<1>0. task \in TaskRows /\ handling \in HandlingRows /\ blocker \in BlockerRows /\ checkpoint \in CheckpointRows /\ clock \in Nat
  BY DEF CircuitTypeOK
<1>1. handling' \in HandlingRows
  BY <1>0, GotoType DEF DecideLate, PCs
<1>2. blocker' \in BlockerRows
  BY <1>0, DecidedType DEF DecideLate
<1>3. research' \in ResearchStates
  BY <1>0 DEF DecideLate, ResearchStates, UpdateRun
<1> QED
  BY <1>0, <1>1, <1>2, <1>3 DEF CircuitTypeOK, DecideLate

LEMMA DecideStaleType == CircuitTypeOK /\ DecideStale => CircuitTypeOK'
<1> SUFFICES ASSUME CircuitTypeOK, DecideStale PROVE CircuitTypeOK'
  OBVIOUS
<1>0. task \in TaskRows /\ handling \in HandlingRows /\ blocker \in BlockerRows /\ checkpoint \in CheckpointRows /\ clock \in Nat
  BY DEF CircuitTypeOK
<1>9. clock + LeaseTime \in Nat
  BY <1>0, CircuitAssumption
<1>1. task' \in TaskRows /\ task'.attempts <= MaxAttempts
  BY <1>0, <1>9, DueType DEF DecideStale, CircuitTypeOK, Abandon
<1>2. handling' \in HandlingRows
  BY <1>0, IdleType DEF DecideStale, Abandon
<1> QED
  BY <1>0, <1>1, <1>2 DEF CircuitTypeOK, DecideStale, Abandon

LEMMA RetryComputeType == CircuitTypeOK /\ RetryCompute => CircuitTypeOK'
<1> SUFFICES ASSUME CircuitTypeOK, RetryCompute PROVE CircuitTypeOK'
  OBVIOUS
<1>0. task \in TaskRows /\ handling \in HandlingRows /\ blocker \in BlockerRows /\ checkpoint \in CheckpointRows /\ clock \in Nat
  BY DEF CircuitTypeOK
<1>9. clock + ComputeDelay \in Nat
  BY <1>0, CircuitAssumption
<1>1. handling' \in HandlingRows
  BY <1>0, <1>9 DEF RetryCompute, HandlingRows
<1> QED
  BY <1>0, <1>1 DEF CircuitTypeOK, RetryCompute

LEMMA QuarantineRunType == CircuitTypeOK /\ QuarantineRun => CircuitTypeOK'
<1> SUFFICES ASSUME CircuitTypeOK, QuarantineRun PROVE CircuitTypeOK'
  OBVIOUS
<1>0. task \in TaskRows /\ handling \in HandlingRows /\ blocker \in BlockerRows /\ checkpoint \in CheckpointRows /\ clock \in Nat
  BY DEF CircuitTypeOK
<1>1. handling' \in HandlingRows
  BY <1>0, GotoType DEF QuarantineRun, PCs
<1>2. research' \in ResearchStates
  BY <1>0 DEF QuarantineRun, ResearchStates, Active, UpdateRun, FailedRunStatus
<1> QED
  BY <1>0, <1>1, <1>2 DEF CircuitTypeOK, QuarantineRun

LEMMA FailTaskType == CircuitTypeOK /\ FailTask => CircuitTypeOK'
<1> SUFFICES ASSUME CircuitTypeOK, FailTask PROVE CircuitTypeOK'
  OBVIOUS
<1>0. task \in TaskRows /\ handling \in HandlingRows /\ blocker \in BlockerRows /\ checkpoint \in CheckpointRows /\ clock \in Nat
  BY DEF CircuitTypeOK
<1>1. task' \in TaskRows /\ task'.attempts <= MaxAttempts
  BY <1>0, StatusType DEF FailTask, CircuitTypeOK
<1>2. handling' \in HandlingRows
  BY <1>0, IdleType DEF FailTask
<1>3. research' \in ResearchStates
  BY <1>0 DEF FailTask, CircuitTypeOK, ResearchStates, UpdateRun, FailedRunStatus
<1> QED
  BY <1>0, <1>1, <1>2, <1>3 DEF CircuitTypeOK, FailTask

LEMMA RequeueType == CircuitTypeOK /\ Requeue => CircuitTypeOK'
<1> SUFFICES ASSUME CircuitTypeOK, Requeue PROVE CircuitTypeOK'
  OBVIOUS
<1>0. task \in TaskRows /\ handling \in HandlingRows /\ blocker \in BlockerRows /\ checkpoint \in CheckpointRows /\ clock \in Nat
  BY DEF CircuitTypeOK
<1>1. task' \in TaskRows /\ task'.attempts <= MaxAttempts
  BY <1>0 DEF Requeue, CircuitTypeOK, TaskRows, HandlingRows
<1>2. handling' \in HandlingRows
  BY <1>0, IdleType DEF Requeue
<1> QED
  BY <1>0, <1>1, <1>2 DEF CircuitTypeOK, Requeue

LEMMA CancelRunType == CircuitTypeOK /\ CancelRun => CircuitTypeOK'
<1> SUFFICES ASSUME CircuitTypeOK, CancelRun PROVE CircuitTypeOK'
  OBVIOUS
<1>0. task \in TaskRows /\ handling \in HandlingRows /\ blocker \in BlockerRows /\ checkpoint \in CheckpointRows /\ clock \in Nat
  BY DEF CircuitTypeOK
<1>1. task' \in TaskRows /\ task'.attempts <= MaxAttempts
  BY <1>0, StatusType DEF CancelRun, CircuitTypeOK
<1>2. research' \in ResearchStates
  BY DEF CancelRun, CircuitTypeOK, ResearchStates, Active, UpdateRun, FailedRunStatus
<1> QED
  BY <1>0, <1>1, <1>2 DEF CircuitTypeOK, CancelRun

LEMMA ResumeType == CircuitTypeOK /\ Resume => CircuitTypeOK'
<1> SUFFICES ASSUME CircuitTypeOK, Resume PROVE CircuitTypeOK'
  OBVIOUS
<1>0. task \in TaskRows /\ handling \in HandlingRows /\ blocker \in BlockerRows /\ checkpoint \in CheckpointRows /\ clock \in Nat
  BY DEF CircuitTypeOK
<1>1. task' \in TaskRows /\ task'.attempts <= MaxAttempts
  BY <1>0, CircuitAssumption DEF Resume, CircuitTypeOK, TaskRows, Later, BlockerRows
<1>2. handling' \in HandlingRows
  BY <1>0, CircuitAssumption DEF Resume, HandlingRows, Idle
<1>3. blocker' \in BlockerRows
  BY <1>0 DEF Resume, BlockerRows
<1>4. research' \in ResearchStates
  BY <1>0 DEF Resume, CircuitTypeOK, ResearchStates, Active, UpdateRun, FailedRunStatus
<1>5. resumes' \in Nat
  BY <1>0 DEF Resume, CircuitTypeOK
<1> QED
  BY <1>1, <1>2, <1>3, <1>4, <1>5 DEF CircuitTypeOK, Resume

LEMMA LoseExecutionType == CircuitTypeOK /\ LoseExecution => CircuitTypeOK'
<1> SUFFICES ASSUME CircuitTypeOK, LoseExecution PROVE CircuitTypeOK'
  OBVIOUS
<1>0. task \in TaskRows /\ handling \in HandlingRows /\ blocker \in BlockerRows /\ checkpoint \in CheckpointRows /\ clock \in Nat
  BY DEF CircuitTypeOK
<1>9. clock + LeaseTime \in Nat
  BY <1>0, CircuitAssumption
<1>1. task' \in TaskRows /\ task'.attempts <= MaxAttempts
  BY <1>0, <1>9, DueType DEF LoseExecution, CircuitTypeOK, Abandon
<1>2. handling' \in HandlingRows
  BY <1>0, IdleType DEF LoseExecution, Abandon
<1>3. losses' \in Nat
  BY DEF LoseExecution, CircuitTypeOK
<1> QED
  BY <1>1, <1>2, <1>3 DEF CircuitTypeOK, LoseExecution, Abandon

LEMMA TickType == CircuitTypeOK /\ Tick => CircuitTypeOK'
<1> SUFFICES ASSUME CircuitTypeOK, Tick PROVE CircuitTypeOK'
  OBVIOUS
<1>0. task \in TaskRows /\ handling \in HandlingRows /\ blocker \in BlockerRows /\ checkpoint \in CheckpointRows /\ clock \in Nat
  BY DEF CircuitTypeOK
<1>1. clock' \in Nat
  BY <1>0 DEF Tick
<1> QED
  BY <1>0, <1>1 DEF CircuitTypeOK, Tick

-----------------------------------------------------------------------------
(* The rest of the invariant and the step: every action *)

\* What the arithmetic of the following leaves needs.
LEMMA IInvNumbers ==
  ASSUME IInv
  PROVE  /\ clock \in Nat /\ task.attempts \in Nat /\ task.due \in Nat /\ handling.due \in Nat
         /\ blocker.until \in Nat /\ blocker.durable \in Nat /\ blocker.first \in Nat
         /\ blocker.after \in Nat /\ handling.after \in Nat
         /\ losses \in Nat /\ blocker.open \in BOOLEAN /\ Slots \in Nat /\ Until \in Nat /\ Completed \in Nat
BY CircuitNumbers, CircuitAssumption DEF IInv, CircuitTypeOK, TaskRows, HandlingRows,
   BlockerRows

\* First what the action does, as facts; then each part from those facts.
LEMMA LeaseKeeps == IInv /\ Lease => Parts' /\ Kept
<1> SUFFICES ASSUME IInv, Lease PROVE Parts' /\ Kept
  OBVIOUS
<1>1. handling.pc = "none" /\ handling'.pc = "begin" /\ task'.status = "leased" /\ Live /\ task.due <= clock
  BY DEF Lease, Leasable, Goto, CircuitTypeOK, HandlingRows, TaskRows
<1>2. losses = 0 => Awaited(clock)
  BY <1>1 DEF IInv, Parts, WaitInv, Awaited, Live, CircuitTypeOK, TaskRows, BlockerRows
<1>3. UNCHANGED <<clock, research, blocker, checkpoint, losses>>
  BY DEF Lease
<1>4. task'.attempts = task.attempts + 1
  BY DEF Lease, TaskRows
<1>5. losses = 0 => task'.attempts <= Used + Passed + 1 \/ AtHorizon(clock)
  BY <1>1, <1>2, <1>3, <1>4, IInvNumbers DEF IInv, Parts, AttemptsInv, Used, Passed, AtHorizon,
     BlockerInv, Leasable, Live, CircuitTypeOK, TaskRows
<1>6. Anchored
  BY <1>1, <1>2, <1>3, <1>4, <1>5, IInvNumbers DEF IInv, Parts, Anchored, BlockerRows
<1>7. Heeds
  BY <1>1, <1>2, <1>3, <1>4, <1>5, IInvNumbers DEF Parts, Heeds, Handler
<1>8. KeepsVerdict
  BY <1>1, <1>3, <1>4, <1>5, IInvNumbers DEF IInv, Parts, KeepsVerdict, VerdictInv, Verdicts,
     Active, Live, LeasedInv, UndecidedInv, Handler, Caught, Classified, Resumable
<1>9. ResumableDecision' /\ LeasedInv' /\ BlockerInv' /\ MarkingInv' /\ StageInv' /\ UndecidedInv'
  BY <1>1, <1>2, <1>3, <1>4, <1>5, IInvNumbers DEF IInv, Parts, ResumableDecision, LeasedInv,
     BlockerInv, MarkingInv, StageInv, UndecidedInv, Active, Resumable, Expired, Handler,
     Caught, Classified
<1>10. WaitInv'
  BY <1>1, <1>2, <1>3, <1>4, <1>5, IInvNumbers DEF IInv, Parts, WaitInv, Awaited, Handler,
     Caught, Classified, LeasedInv, StageInv, UndecidedInv, MarkingInv, Expired,
     ResumableDecision, Resumable
<1>11. StageKeepsWork' /\ VerdictInv' /\ FinishedInv'
  BY <1>1, <1>2, <1>3, <1>4, <1>5, IInvNumbers DEF IInv, Parts, StageKeepsWork, StageStranded, VerdictInv,
     FinishedInv, Live, Open, Active, LeasedInv, UndecidedInv, Handler, Caught,
     ResumableDecision
<1>12. AttemptsInv'
  BY <1>1, <1>2, <1>3, <1>4, <1>5, IInvNumbers, CircuitAssumption DEF IInv, Parts, AttemptsInv,
     Used, Passed, AtHorizon, Caught, LeasedInv, BlockerInv, StageInv, Expired
<1>13. OutageNotFailed'
  BY <1>1, <1>2, <1>3, <1>4, <1>5, IInvNumbers, CircuitAssumption DEF IInv, Parts,
     OutageNotFailed, Active, AttemptsInv, LeasedInv, Used, Passed, AtHorizon, BlockerInv
<1> QED
  BY <1>6, <1>7, <1>8, <1>9, <1>10, <1>11, <1>12, <1>13 DEF Parts, Kept

LEMMA SweepTaskKeeps == IInv /\ SweepTask => Parts' /\ Kept
<1> SUFFICES ASSUME IInv, SweepTask PROVE Parts' /\ Kept
  OBVIOUS
<1>1. handling.pc = "none" /\ task.status = "leased" /\ task'.status = "failed" /\ research' = "failed"
  BY DEF SweepTask, Leasable, IInv
<1>2. UNCHANGED <<clock, handling, blocker, checkpoint, losses>>
  BY DEF SweepTask
<1>3. task.attempts >= MaxAttempts
  BY DEF SweepTask, IInv
<1>4. Anchored
  BY <1>1, <1>2, IInvNumbers DEF IInv, Parts, Anchored, BlockerRows
<1>5. Heeds
  BY <1>1, <1>2, <1>3, IInvNumbers DEF Parts, Heeds, Handler
<1>6. KeepsVerdict
  BY <1>1, <1>2, <1>3, IInvNumbers DEF IInv, Parts, KeepsVerdict, VerdictInv, Verdicts, Active,
     Live, LeasedInv, UndecidedInv, Handler, Caught, Classified, ResumableDecision, Resumable
<1>7. ResumableDecision' /\ LeasedInv' /\ BlockerInv' /\ MarkingInv' /\ StageInv' /\ UndecidedInv'
  BY <1>1, <1>2, <1>3 DEF IInv, Parts, ResumableDecision, LeasedInv, BlockerInv, MarkingInv,
     StageInv, UndecidedInv, Active, Resumable, Expired, Handler, Caught
<1>8. WaitInv'
  BY <1>1, <1>2, <1>3, IInvNumbers DEF IInv, Parts, WaitInv, Awaited, Handler, Caught,
     Classified, LeasedInv, StageInv, UndecidedInv, MarkingInv, Expired, ResumableDecision,
     Resumable
<1>9. StageKeepsWork' /\ VerdictInv' /\ FinishedInv'
  BY <1>1, <1>2, <1>3, IInvNumbers DEF IInv, Parts, StageKeepsWork, StageStranded, VerdictInv, FinishedInv,
     Live, Open, Active, LeasedInv, UndecidedInv, Handler, Caught, Classified,
     ResumableDecision, Resumable
<1>10. AttemptsInv'
  BY <1>1, <1>2, <1>3, IInvNumbers, CircuitAssumption DEF IInv, Parts, AttemptsInv, Used,
     Passed, AtHorizon, Caught, LeasedInv, BlockerInv, StageInv, Expired
<1>11. OutageNotFailed'
  BY <1>1, <1>2, <1>3, IInvNumbers, CircuitAssumption DEF IInv, Parts, OutageNotFailed,
     AttemptsInv, LeasedInv, Passed, AtHorizon, BlockerInv
<1> QED
  BY <1>4, <1>5, <1>6, <1>7, <1>8, <1>9, <1>10, <1>11 DEF Parts, Kept

LEMMA BeginTaskKeeps == IInv /\ BeginTask => Parts' /\ Kept
<1> SUFFICES ASSUME IInv, BeginTask PROVE Parts' /\ Kept
  OBVIOUS
<1>1. handling.pc = "begin" /\ handling'.pc = "none" /\ task'.status = "cancelled" /\ research = "cancelled"
  BY DEF BeginTask, CancelTask, Idle, IInv, HandlingRows, TaskRows
<1>2. UNCHANGED <<clock, research, blocker, checkpoint, losses>>
  BY DEF BeginTask, CancelTask
<1>3. Anchored
  BY <1>2, IInvNumbers DEF IInv, Parts, Anchored, BlockerRows
<1>4. Heeds
  BY <1>1, <1>2, IInvNumbers DEF IInv, Heeds, Handler
<1>5. KeepsVerdict
  BY <1>1, <1>2, IInvNumbers DEF IInv, Parts, KeepsVerdict, Verdicts, Active, Live, LeasedInv,
     UndecidedInv, Handler, Caught, Classified, Resumable
<1>6. ResumableDecision' /\ LeasedInv' /\ BlockerInv' /\ MarkingInv' /\ StageInv' /\ UndecidedInv'
  BY <1>1, <1>2, IInvNumbers DEF IInv, Parts, ResumableDecision, LeasedInv, BlockerInv,
     MarkingInv, StageInv, UndecidedInv, Active, Resumable, Expired, Handler, Caught, Classified
<1>7. WaitInv'
  BY <1>1, <1>2, IInvNumbers DEF IInv, Parts, WaitInv, Awaited, Handler, Caught, Classified,
     LeasedInv, StageInv, UndecidedInv, MarkingInv, ResumableDecision
<1>8. StageKeepsWork' /\ VerdictInv' /\ FinishedInv'
  BY <1>1, <1>2, IInvNumbers DEF IInv, Parts, StageKeepsWork, StageStranded, VerdictInv, FinishedInv, Live,
     Open, Active, LeasedInv, UndecidedInv, Handler, Caught, Classified, ResumableDecision,
     Resumable
<1>9. AttemptsInv'
  BY <1>1, <1>2, IInvNumbers DEF IInv, Parts, AttemptsInv, Used, Passed, AtHorizon, Caught,
     LeasedInv, StageInv, Expired
<1>10. OutageNotFailed'
  BY <1>1, <1>2, CircuitAssumption DEF IInv, Parts, OutageNotFailed, Active, AttemptsInv,
     LeasedInv, Used, AtHorizon, BlockerInv
<1> QED
  BY <1>3, <1>4, <1>5, <1>6, <1>7, <1>8, <1>9, <1>10 DEF Parts, Kept

LEMMA CancelReturnedKeeps == IInv /\ CancelReturned => Parts' /\ Kept
<1> SUFFICES ASSUME IInv, CancelReturned PROVE Parts' /\ Kept
  OBVIOUS
<1>1. handling.pc = "returned" /\ handling'.pc = "none" /\ task'.status = "cancelled" /\ research = "cancelled"
  BY DEF CancelReturned, CancelTask, Idle, IInv, CircuitTypeOK, HandlingRows, TaskRows
<1>2. UNCHANGED <<clock, research, blocker, checkpoint, losses>>
  BY DEF CancelReturned, CancelTask
<1>3. Anchored
  BY <1>2, IInvNumbers DEF Parts, Anchored
<1>4. Heeds
  BY <1>1, <1>2 DEF IInv, Heeds
<1>5. KeepsVerdict
  BY <1>2 DEF IInv, KeepsVerdict, VerdictInv, LeasedInv, UndecidedInv, Classified,
     ResumableDecision
<1>6. ResumableDecision' /\ LeasedInv' /\ BlockerInv' /\ MarkingInv' /\ StageInv' /\ UndecidedInv'
  BY <1>1, <1>2, IInvNumbers DEF IInv, Parts, ResumableDecision, LeasedInv, BlockerInv,
     MarkingInv, StageInv, UndecidedInv, Active, Resumable, Expired, Handler
<1>7. WaitInv'
  BY <1>1, <1>2, IInvNumbers DEF IInv, Parts, WaitInv, Awaited, Handler, Caught, Classified,
     StageInv, UndecidedInv, MarkingInv, ResumableDecision, Resumable
<1>8. StageKeepsWork' /\ VerdictInv' /\ FinishedInv'
  BY <1>1, <1>2, IInvNumbers DEF IInv, Parts, StageKeepsWork, StageStranded, VerdictInv, FinishedInv, Live,
     Open, Active, LeasedInv, UndecidedInv, Handler, Caught, Classified, ResumableDecision,
     Resumable
<1>9. AttemptsInv'
  BY <1>1, IInvNumbers, CircuitAssumption DEF IInv, Parts, AttemptsInv, Used, AtHorizon, Caught,
     LeasedInv, BlockerInv, StageInv, Expired
<1>10. OutageNotFailed'
  BY <1>1, <1>2, IInvNumbers, CircuitAssumption DEF IInv, Parts, OutageNotFailed, Active,
     AttemptsInv, LeasedInv, Used, Passed, AtHorizon, BlockerInv
<1> QED
  BY <1>3, <1>4, <1>5, <1>6, <1>7, <1>8, <1>9, <1>10 DEF Parts, Kept

LEMMA CancelFailingKeeps == IInv /\ CancelFailing => Parts' /\ Kept
<1> SUFFICES ASSUME IInv, CancelFailing PROVE Parts' /\ Kept
  OBVIOUS
<1>1. handling.pc = "failing" /\ handling'.pc = "none" /\ task'.status = "cancelled" /\ research = "cancelled"
  BY DEF CancelFailing, CancelTask, Idle, IInv, CircuitTypeOK, HandlingRows, TaskRows
<1>2. UNCHANGED <<clock, research, blocker, checkpoint, losses>>
  BY DEF CancelFailing, CancelTask
<1>3. Anchored
  BY <1>1, <1>2, IInvNumbers DEF Parts, Anchored, BlockerRows
<1>4. Heeds
  BY <1>1, <1>2, IInvNumbers DEF Parts, Heeds, Handler
<1>5. KeepsVerdict
  BY <1>2, IInvNumbers DEF KeepsVerdict, VerdictInv, Verdicts, Active, Handler,
     ResumableDecision, Resumable
<1>6. ResumableDecision' /\ LeasedInv' /\ BlockerInv' /\ MarkingInv' /\ StageInv' /\ UndecidedInv'
  BY <1>1, <1>2, IInvNumbers DEF IInv, Parts, ResumableDecision, LeasedInv, BlockerInv,
     MarkingInv, StageInv, UndecidedInv, Active, Resumable, Expired, Handler, Caught, Classified
<1>7. WaitInv'
  BY <1>1, <1>2, IInvNumbers DEF IInv, Parts, WaitInv, Awaited, Handler, Caught, Classified,
     UndecidedInv, MarkingInv, Expired, ResumableDecision, Resumable
<1>8. StageKeepsWork' /\ VerdictInv' /\ FinishedInv'
  BY <1>1, <1>2, IInvNumbers DEF IInv, Parts, StageKeepsWork, StageStranded, VerdictInv, FinishedInv, Live,
     Open, Active, LeasedInv, UndecidedInv, Handler, ResumableDecision, Resumable
<1>9. AttemptsInv'
  BY <1>1, IInvNumbers, CircuitAssumption DEF IInv, Parts, AttemptsInv, Used, Passed, AtHorizon,
     Caught, LeasedInv, BlockerInv, Expired
<1>10. OutageNotFailed'
  BY <1>1, <1>2, IInvNumbers DEF Parts, OutageNotFailed, LeasedInv, AtHorizon
<1> QED
  BY <1>3, <1>4, <1>5, <1>6, <1>7, <1>8, <1>9, <1>10 DEF Parts, Kept

LEMMA EnterStageKeeps == IInv /\ EnterStage => Parts' /\ Kept
<1> SUFFICES ASSUME IInv, EnterStage PROVE Parts' /\ Kept
  OBVIOUS
<1>1. /\ handling.pc = "begin"
      /\ \/ handling'.pc = "marking" /\ Expired
         \/ handling'.pc = "stage" /\ ~Expired
  BY DEF EnterStage, Goto, IInv, CircuitTypeOK, HandlingRows
<1>2. UNCHANGED <<clock, research, task, blocker, checkpoint, losses>>
  BY DEF EnterStage
<1>3. Anchored
  BY <1>1, <1>2, IInvNumbers DEF Parts, Anchored, BlockerRows
<1>4. Heeds
  BY <1>1, <1>2, IInvNumbers DEF IInv, Parts, Heeds, Handler
<1>5. KeepsVerdict
  BY <1>1 DEF IInv, Parts, KeepsVerdict, VerdictInv, Verdicts, Active, Live, LeasedInv,
     UndecidedInv, Handler, Caught, Classified, ResumableDecision, Resumable
<1>6. ResumableDecision' /\ LeasedInv' /\ BlockerInv' /\ MarkingInv' /\ StageInv' /\ UndecidedInv'
  BY <1>1, <1>2, IInvNumbers DEF IInv, Parts, ResumableDecision, LeasedInv, BlockerInv,
     MarkingInv, StageInv, UndecidedInv, Active, Resumable, Expired, Handler, Caught, Classified
<1>7. WaitInv'
  BY <1>1, <1>2, IInvNumbers DEF IInv, Parts, WaitInv, Awaited, Handler, Caught, LeasedInv,
     StageInv, MarkingInv, Expired, ResumableDecision, Resumable
<1>8. StageKeepsWork' /\ VerdictInv' /\ FinishedInv'
  BY <1>1, <1>2, IInvNumbers DEF IInv, Parts, StageKeepsWork, StageStranded, VerdictInv, FinishedInv, Live,
     Open, Active, LeasedInv, UndecidedInv, Handler, Caught, Classified, ResumableDecision,
     Resumable
<1>9. AttemptsInv'
  BY <1>1, <1>2, IInvNumbers, CircuitAssumption DEF IInv, Parts, AttemptsInv, Used, Passed,
     AtHorizon, Caught, LeasedInv, BlockerInv, StageInv, Expired
<1>10. OutageNotFailed'
  BY <1>1, <1>2, CircuitAssumption DEF IInv, Parts, OutageNotFailed, Active, AttemptsInv, Used,
     Passed, AtHorizon, BlockerInv
<1> QED
  BY <1>3, <1>4, <1>5, <1>6, <1>7, <1>8, <1>9, <1>10 DEF Parts, Kept

LEMMA MarkKeeps == IInv /\ Mark => Parts' /\ Kept
<1> SUFFICES ASSUME IInv, Mark PROVE Parts' /\ Kept
  OBVIOUS
<1>1. handling.pc = "marking" /\ handling'.pc = "resolved" /\ research = Active /\ research' = "needs_decision"
  BY DEF Mark, Goto, IInv, CircuitTypeOK, HandlingRows
<1>2. /\ blocker'.open /\ blocker'.decision /\ blocker'.first = FirstFailure /\ blocker'.until = Until /\ blocker'.durable = Completed
      /\ blocker'.after = KnownAfter
  BY DEF Mark, Decided, IInv, CircuitTypeOK, BlockerRows
<1>3. /\ blocker'.until = blocker'.first + Window /\ blocker'.durable <= Slots
      /\ blocker.open => /\ blocker'.first = blocker.first /\ blocker'.until = blocker.until
                         /\ blocker'.durable >= blocker.durable /\ blocker'.after >= blocker.after
  BY <1>2, CircuitAssumption DEF IInv, CircuitTypeOK, BlockerRows, Parts, BlockerInv,
     FirstFailure, Until, Earlier, Later, Completed, KnownAfter, HandlingRows
<1>4. blocker'.until <= clock
  BY <1>1, <1>2, <1>3 DEF IInv, Parts, MarkingInv, Expired, WindowPassed, Until, FirstFailure,
     CircuitTypeOK, Earlier
<1>5. UNCHANGED <<clock, task, checkpoint, losses>>
  BY DEF Mark
<1>6. Anchored
  BY <1>1, <1>2, <1>3, <1>4, IInvNumbers DEF IInv, Parts, Anchored, BlockerRows
<1>7. Heeds
  BY <1>1, <1>3 DEF Parts, Heeds, Handler
<1>8. KeepsVerdict
  BY <1>1, <1>2, <1>3, <1>4, IInvNumbers DEF IInv, KeepsVerdict, VerdictInv, Verdicts, Active,
     Live, LeasedInv, UndecidedInv, Handler, Caught, Classified, ResumableDecision, Resumable
<1>9. ResumableDecision' /\ LeasedInv' /\ BlockerInv' /\ MarkingInv' /\ StageInv' /\ UndecidedInv'
  BY <1>1, <1>2, <1>3, <1>4, <1>5, IInvNumbers DEF IInv, Parts, ResumableDecision, LeasedInv,
     BlockerInv, MarkingInv, StageInv, UndecidedInv, Active, Resumable, Expired, Handler,
     Caught, Classified
<1>10. WaitInv'
  BY <1>1, <1>2, <1>4, <1>5, IInvNumbers DEF IInv, Parts, WaitInv, Awaited, Handler, Caught,
     Classified, LeasedInv, StageInv, MarkingInv, Expired, ResumableDecision, Resumable
<1>11. StageKeepsWork' /\ VerdictInv' /\ FinishedInv'
  BY <1>1, <1>2, <1>3, <1>4, <1>5 DEF IInv, Parts, StageKeepsWork, StageStranded, VerdictInv, FinishedInv,
     Live, Open, Active, UndecidedInv, Handler, Caught, Classified, ResumableDecision, Resumable
<1>12. AttemptsInv'
  BY <1>1, <1>2, <1>3, <1>4, <1>5, IInvNumbers, CircuitAssumption DEF IInv, AttemptsInv, Used,
     Passed, Caught, LeasedInv, BlockerInv, StageInv, Expired
<1>13. OutageNotFailed'
  BY <1>1, <1>5, CircuitAssumption DEF IInv, OutageNotFailed, AttemptsInv, Used, BlockerInv
<1> QED
  BY <1>6, <1>7, <1>8, <1>9, <1>10, <1>11, <1>12, <1>13 DEF Parts, Kept

LEMMA MarkStaleKeeps == IInv /\ MarkStale => Parts' /\ Kept
<1> SUFFICES ASSUME IInv, MarkStale PROVE Parts' /\ Kept
  OBVIOUS
<1>1. /\ handling.pc = "marking" /\ handling'.pc = "failing" /\ handling'.error = "unexpected"
      /\ research # Active
  BY DEF MarkStale, Throw, IInv
<1>2. UNCHANGED <<clock, research, task, blocker, checkpoint, losses>>
  BY DEF MarkStale
<1>3. Anchored
  BY <1>1, <1>2, IInvNumbers DEF IInv, Parts, Anchored
<1>4. Heeds
  BY <1>1, <1>2, IInvNumbers DEF IInv, Heeds, Handler
<1>5. KeepsVerdict
  BY <1>1, <1>2, IInvNumbers DEF IInv, Parts, KeepsVerdict, VerdictInv, Verdicts, Live,
     LeasedInv, UndecidedInv, Handler, Classified, ResumableDecision, Resumable
<1>6. ResumableDecision' /\ LeasedInv' /\ BlockerInv' /\ MarkingInv' /\ StageInv' /\ UndecidedInv'
  BY <1>1, <1>2, IInvNumbers DEF IInv, Parts, ResumableDecision, LeasedInv, BlockerInv,
     MarkingInv, StageInv, UndecidedInv, Active, Resumable, Expired, Handler, Caught, Classified
<1>7. WaitInv'
  BY <1>1, <1>2, IInvNumbers DEF IInv, Parts, WaitInv, Awaited, Handler, Caught, Classified,
     LeasedInv, StageInv, UndecidedInv, MarkingInv, Expired, ResumableDecision, Resumable
<1>8. StageKeepsWork' /\ VerdictInv' /\ FinishedInv'
  BY <1>1, <1>2, IInvNumbers DEF IInv, Parts, StageKeepsWork, StageStranded, VerdictInv, FinishedInv, Live,
     Open, Active, LeasedInv, UndecidedInv, Handler, Caught, Classified, ResumableDecision,
     Resumable
<1>9. AttemptsInv'
  BY <1>1, <1>2 DEF IInv, Parts, AttemptsInv, Used, Passed, AtHorizon, Caught, LeasedInv,
     BlockerInv, StageInv, Expired
<1>10. OutageNotFailed'
  BY <1>1, <1>2, IInvNumbers DEF IInv, Parts, OutageNotFailed, Active, AttemptsInv, LeasedInv,
     Passed, AtHorizon, BlockerInv
<1> QED
  BY <1>3, <1>4, <1>5, <1>6, <1>7, <1>8, <1>9, <1>10 DEF Parts, Kept

LEMMA StageDoneKeeps == IInv /\ StageDone => Parts' /\ Kept
<1> SUFFICES ASSUME IInv, StageDone PROVE Parts' /\ Kept
  OBVIOUS
<1>1. /\ handling.pc = "stage" /\ handling'.pc = "returned"
      /\ checkpoint.state \in {"complete", "question", "broken"}
  BY DEF StageDone, DoneStates, Goto, IInv, CircuitTypeOK, HandlingRows
<1>2. UNCHANGED <<clock, research, task, blocker, checkpoint, losses>>
  BY DEF StageDone
<1>3. losses = 0 => clock >= blocker.after
  BY <1>1 DEF IInv, Parts, CircuitTypeOK, BlockerRows, WaitInv, StageInv, Expired, Awaited
<1>4. Anchored
  BY <1>1, <1>2, IInvNumbers DEF IInv, Parts, Anchored, BlockerRows
<1>5. Heeds
  BY <1>1, <1>2, IInvNumbers DEF Heeds
<1>6. KeepsVerdict
  BY <1>1, <1>2, <1>3, IInvNumbers DEF IInv, Parts, KeepsVerdict, VerdictInv, Live, LeasedInv,
     UndecidedInv, Handler, Caught, Classified, ResumableDecision, Resumable
<1>7. ResumableDecision' /\ LeasedInv' /\ BlockerInv' /\ MarkingInv' /\ StageInv' /\ UndecidedInv'
  BY <1>1, <1>2, <1>3, IInvNumbers DEF IInv, Parts, ResumableDecision, LeasedInv, BlockerInv,
     MarkingInv, StageInv, UndecidedInv, Active, Resumable, Expired, Handler, Caught, Classified
<1>8. WaitInv'
  BY <1>1, <1>2, <1>3, IInvNumbers DEF IInv, Parts, WaitInv, Awaited, Handler, Caught,
     Classified, StageInv, MarkingInv, Expired, ResumableDecision, Resumable
<1>9. StageKeepsWork' /\ VerdictInv' /\ FinishedInv'
  BY <1>1, <1>2, <1>3, IInvNumbers DEF IInv, Parts, StageKeepsWork, StageStranded, VerdictInv, FinishedInv,
     Live, Open, Active, LeasedInv, UndecidedInv, Handler, Caught, Classified,
     ResumableDecision, Resumable
<1>10. AttemptsInv'
  BY <1>1, <1>2, <1>3, IInvNumbers, CircuitAssumption DEF IInv, Parts, AttemptsInv, Used,
     Passed, AtHorizon, Caught, LeasedInv, BlockerInv, StageInv, Expired
<1>11. OutageNotFailed'
  BY <1>1, <1>2, <1>3, IInvNumbers, CircuitAssumption DEF IInv, Parts, OutageNotFailed,
     AttemptsInv, LeasedInv, Used, Passed, BlockerInv
<1> QED
  BY <1>4, <1>5, <1>6, <1>7, <1>8, <1>9, <1>10, <1>11 DEF Parts, Kept

LEMMA StageRethrowsKeeps == IInv /\ StageRethrows => Parts' /\ Kept
<1> SUFFICES ASSUME IInv, StageRethrows PROVE Parts' /\ Kept
  OBVIOUS
<1>1. handling.pc = "stage" /\ handling'.pc = "failing"
  BY DEF StageRethrows, Throw, IInv, CircuitTypeOK, HandlingRows
<1>2. UNCHANGED <<clock, research, task, blocker, checkpoint, losses>>
  BY DEF StageRethrows
<1>3. losses = 0 => clock >= blocker.after
  BY <1>1 DEF IInv, Parts, CircuitTypeOK, BlockerRows, WaitInv, StageInv, Expired, Awaited
<1>4. handling'.error # "compute1" /\ (handling'.error = "unavailable" => checkpoint.state = "waiting")
  BY DEF StageRethrows, Throw, IInv, CircuitTypeOK, HandlingRows
<1>5. Anchored
  BY <1>1, <1>2, <1>3, <1>4, IInvNumbers DEF IInv, Parts, Anchored, BlockerRows
<1>6. Heeds
  BY <1>1, <1>2, <1>3, <1>4, IInvNumbers DEF IInv, Parts, Heeds
<1>7. KeepsVerdict
  BY <1>1, <1>2, <1>3, <1>4, IInvNumbers DEF IInv, Parts, KeepsVerdict, VerdictInv, Verdicts,
     Active, Live, UndecidedInv, Handler, Caught, Classified, ResumableDecision
<1>8. ResumableDecision' /\ LeasedInv' /\ BlockerInv' /\ MarkingInv' /\ StageInv' /\ UndecidedInv'
  BY <1>1, <1>2, <1>3, <1>4, IInvNumbers DEF IInv, Parts, ResumableDecision, LeasedInv,
     BlockerInv, MarkingInv, StageInv, UndecidedInv, Active, Resumable, Expired, Handler,
     Caught, Classified
<1>9. WaitInv'
  BY <1>1, <1>2, <1>3, IInvNumbers DEF IInv, Parts, WaitInv, Awaited, Handler, Caught,
     Classified, LeasedInv, StageInv, UndecidedInv, Expired, ResumableDecision, Resumable
<1>10. StageKeepsWork' /\ VerdictInv' /\ FinishedInv'
  BY <1>1, <1>2, <1>3, <1>4, IInvNumbers DEF IInv, Parts, StageKeepsWork, StageStranded, VerdictInv,
     FinishedInv, Live, Open, Active, LeasedInv, UndecidedInv, Handler, Caught, Classified,
     ResumableDecision, Resumable
<1>11. AttemptsInv'
  BY <1>1, <1>2, <1>3, <1>4, IInvNumbers, SMTT(30), CircuitAssumption DEF IInv, Parts, AttemptsInv, Used,
     Passed, AtHorizon, Caught, LeasedInv, BlockerInv, StageInv, Expired
<1>12. OutageNotFailed'
  BY <1>1, <1>2, <1>3, <1>4, IInvNumbers, CircuitAssumption DEF IInv, Parts, OutageNotFailed,
     Active, AttemptsInv, LeasedInv, Used, Passed, AtHorizon, BlockerInv
<1> QED
  BY <1>5, <1>6, <1>7, <1>8, <1>9, <1>10, <1>11, <1>12 DEF Parts, Kept

LEMMA StartStageKeeps == IInv /\ StartStage => Parts' /\ Kept
<1> SUFFICES ASSUME IInv, StartStage PROVE Parts' /\ Kept
  OBVIOUS
<1>1. handling.pc = "stage" /\ handling'.pc \in {"call", "compute"}
  BY DEF StartStage, StageOpen, Goto, IInv, CircuitTypeOK, HandlingRows
<1>2. checkpoint'.state = "in_progress" /\ research' \in {Active, "cancelled"}
  BY DEF StartStage, StageOpen, UpdateRun, IInv, CircuitTypeOK, CheckpointRows
<1>3. UNCHANGED <<clock, task, blocker, losses>>
  BY DEF StartStage
<1>4. losses = 0 => clock >= blocker.after
  BY <1>1 DEF IInv, Parts, CircuitTypeOK, BlockerRows, WaitInv, StageInv, Expired, Awaited
<1>5. handling'.pc = "call" => checkpoint.state # "compute1"
  BY DEF StartStage, StageOpen, Goto, IInv, CircuitTypeOK, HandlingRows
<1>6. Anchored
  BY <1>1, <1>2, <1>3, <1>4, <1>5, IInvNumbers DEF IInv, Parts, Anchored, BlockerRows
<1>7. Heeds
  BY <1>1, <1>2, <1>3, <1>4, <1>5, IInvNumbers DEF IInv, Parts, Heeds
<1>8. KeepsVerdict
  BY <1>1, <1>3, <1>5, IInvNumbers DEF IInv, Parts, KeepsVerdict, VerdictInv, Verdicts, Active,
     Live, LeasedInv, UndecidedInv, Handler, Caught, Classified, ResumableDecision, Resumable
<1>9. ResumableDecision' /\ LeasedInv' /\ BlockerInv' /\ MarkingInv' /\ StageInv' /\ UndecidedInv'
  BY <1>1, <1>2, <1>3, <1>4, <1>5, IInvNumbers DEF IInv, Parts, ResumableDecision, LeasedInv,
     BlockerInv, MarkingInv, StageInv, UndecidedInv, Active, Resumable, Expired, Handler,
     Caught, Classified
<1>10. WaitInv'
  BY <1>1, <1>2, <1>3, <1>4, IInvNumbers DEF IInv, Parts, WaitInv, Awaited, Handler, Caught,
     Classified, LeasedInv, StageInv, UndecidedInv, MarkingInv, ResumableDecision, Resumable
<1>11. StageKeepsWork' /\ VerdictInv' /\ FinishedInv'
  BY <1>1, <1>2, <1>3, <1>4, <1>5, IInvNumbers DEF IInv, Parts, StageKeepsWork, StageStranded, VerdictInv,
     FinishedInv, Live, Open, Active, LeasedInv, UndecidedInv, Handler, Caught, Classified,
     ResumableDecision, Resumable
<1>12. AttemptsInv'
  <2>1. losses = 0 => task.attempts <= Used + Passed + 1
    BY <1>1 DEF IInv, Parts, AttemptsInv
  <2>2. losses = 0 /\ handling'.pc = "call" => task.attempts <= Used + 1
    BY <2>1, <1>5, IInvNumbers DEF Used, Passed
  <2>3. UNCHANGED <<Used, task, losses>>
    BY <1>3 DEF Used
  <2> QED
    BY <2>2, <2>3, <1>1 DEF AttemptsInv, Caught
<1>13. OutageNotFailed'
  BY <1>1, <1>2, <1>3, <1>4, <1>5, IInvNumbers DEF IInv, Parts, OutageNotFailed, Active,
     AttemptsInv, Used, Passed, AtHorizon, BlockerInv
<1> QED
  BY <1>6, <1>7, <1>8, <1>9, <1>10, <1>11, <1>12, <1>13 DEF Parts, Kept

LEMMA UnavailableKeeps == IInv /\ Unavailable => Parts' /\ Kept
<1> SUFFICES ASSUME IInv, Unavailable PROVE Parts' /\ Kept
  OBVIOUS
<1>1. handling.pc = "call" /\ handling'.pc = "failing"
  BY DEF Unavailable, Throw, IInv, CircuitTypeOK, HandlingRows
<1>2. \/ UNCHANGED <<checkpoint, research>>
      \/ checkpoint'.state = "waiting" /\ research' \in {Active, "cancelled"}
  BY DEF Unavailable, UpdateRun, IInv, CircuitTypeOK, CheckpointRows
<1>3. UNCHANGED <<clock, task, blocker, losses>>
  BY DEF Unavailable
<1>4. handling'.error = "unavailable"
  BY DEF Unavailable, Throw, IInv, CircuitTypeOK, HandlingRows
<1>5. Anchored
  BY <1>1, <1>2, <1>3, <1>4, IInvNumbers DEF IInv, Parts, Anchored, BlockerRows
<1>6. Heeds
  BY <1>1, <1>2, <1>3, <1>4, IInvNumbers DEF Parts, Heeds, Handler
<1>7. KeepsVerdict
  BY <1>1, <1>2, <1>3, <1>4, IInvNumbers DEF IInv, Parts, KeepsVerdict, VerdictInv, Verdicts,
     Active, Live, LeasedInv, UndecidedInv, Handler, Caught, Classified, ResumableDecision,
     Resumable
<1>8. ResumableDecision' /\ LeasedInv' /\ BlockerInv' /\ MarkingInv' /\ StageInv' /\ UndecidedInv'
  BY <1>1, <1>2, <1>3, IInvNumbers DEF IInv, Parts, ResumableDecision, LeasedInv, BlockerInv,
     MarkingInv, StageInv, UndecidedInv, Active, Resumable, Expired, Handler, Caught
<1>9. WaitInv'
  BY <1>1, <1>2, <1>3, <1>4, IInvNumbers DEF IInv, Parts, WaitInv, Awaited, Handler, Caught,
     Classified, LeasedInv, StageInv, Expired, ResumableDecision, Resumable
<1>10. StageKeepsWork' /\ VerdictInv' /\ FinishedInv'
  BY <1>1, <1>2, <1>3, <1>4, IInvNumbers DEF IInv, Parts, StageKeepsWork, StageStranded, VerdictInv,
     FinishedInv, Live, Open, Active, LeasedInv, UndecidedInv, Caught, Classified,
     ResumableDecision
<1>11. AttemptsInv'
  BY <1>1, <1>2, <1>3, <1>4, IInvNumbers, CircuitAssumption DEF IInv, Parts, AttemptsInv, Used,
     Passed, AtHorizon, Caught, LeasedInv, BlockerInv, StageInv, Expired
<1>12. OutageNotFailed'
  BY <1>1, <1>2, <1>3, <1>4, IInvNumbers, CircuitAssumption DEF IInv, Parts, OutageNotFailed,
     Active, AttemptsInv, LeasedInv, Used, Passed, AtHorizon, BlockerInv
<1> QED
  BY <1>5, <1>6, <1>7, <1>8, <1>9, <1>10, <1>11, <1>12 DEF Parts, Kept

LEMMA RefuseSaveKeeps == IInv /\ RefuseSave => Parts' /\ Kept
<1> SUFFICES ASSUME IInv, RefuseSave PROVE Parts' /\ Kept
  OBVIOUS
<1>1. handling.pc = "call" /\ handling'.pc = "refusing" /\ checkpoint'.state = "refused"
  BY DEF RefuseSave, Goto, IInv, CircuitTypeOK, HandlingRows, CheckpointRows
<1>2. UNCHANGED <<clock, research, task, blocker, losses>>
  BY DEF RefuseSave
<1>3. Anchored
  BY <1>1, <1>2, IInvNumbers DEF IInv, Parts, Anchored, BlockerRows
<1>4. Heeds
  BY <1>1, <1>2 DEF IInv, Parts, Heeds, Handler
<1>5. KeepsVerdict
  BY <1>1, <1>2, IInvNumbers DEF IInv, Parts, KeepsVerdict, VerdictInv, Verdicts, Active, Live,
     LeasedInv, UndecidedInv, Handler, Caught, Classified, ResumableDecision, Resumable
<1>6. ResumableDecision' /\ LeasedInv' /\ BlockerInv' /\ MarkingInv' /\ StageInv' /\ UndecidedInv'
  BY <1>1, <1>2, IInvNumbers DEF IInv, Parts, ResumableDecision, LeasedInv, BlockerInv,
     MarkingInv, StageInv, UndecidedInv, Active, Resumable, Expired, Handler, Caught, Classified
<1>7. WaitInv'
  BY <1>1, <1>2, IInvNumbers DEF IInv, Parts, WaitInv, Handler, Caught, Classified, LeasedInv,
     UndecidedInv, MarkingInv, Expired, ResumableDecision, Resumable
<1>8. StageKeepsWork' /\ VerdictInv' /\ FinishedInv'
  BY <1>1, <1>2, IInvNumbers DEF IInv, Parts, StageKeepsWork, StageStranded, VerdictInv, FinishedInv, Live,
     Open, Active, LeasedInv, UndecidedInv, Handler, Caught, Classified, ResumableDecision,
     Resumable
<1>9. AttemptsInv'
  BY <1>1, <1>2, IInvNumbers, CircuitAssumption DEF IInv, Parts, AttemptsInv, Used, AtHorizon,
     Caught, LeasedInv, StageInv, Expired
<1>10. OutageNotFailed'
  BY <1>1, <1>2, IInvNumbers, CircuitAssumption DEF IInv, Parts, OutageNotFailed, Active,
     AttemptsInv, LeasedInv, Used, Passed, AtHorizon, BlockerInv
<1> QED
  BY <1>3, <1>4, <1>5, <1>6, <1>7, <1>8, <1>9, <1>10 DEF Parts, Kept

LEMMA RefuseRunKeeps == IInv /\ RefuseRun => Parts' /\ Kept
<1> SUFFICES ASSUME IInv, RefuseRun PROVE Parts' /\ Kept
  OBVIOUS
<1>1. /\ handling.pc = "refusing" /\ handling'.pc = "failing"
      /\ research' \in {"failed_integrity", "cancelled"}
  BY DEF RefuseRun, UpdateRun, Throw, IInv, CircuitTypeOK, HandlingRows
<1>2. UNCHANGED <<clock, task, blocker, checkpoint, losses>>
  BY DEF RefuseRun
<1>3. handling'.error = "refused"
  BY DEF RefuseRun, Throw, IInv, CircuitTypeOK, HandlingRows
<1>4. Anchored
  BY <1>1, <1>2, <1>3, IInvNumbers DEF Parts, Anchored, BlockerRows
<1>5. Heeds
  BY <1>1, <1>3, IInvNumbers DEF Heeds
<1>6. KeepsVerdict
  BY <1>1, <1>2, <1>3, IInvNumbers DEF IInv, Parts, KeepsVerdict, VerdictInv, Verdicts, Active,
     Live, LeasedInv, UndecidedInv, Handler, Caught, Classified, ResumableDecision, Resumable
<1>7. ResumableDecision' /\ LeasedInv' /\ BlockerInv' /\ MarkingInv' /\ StageInv' /\ UndecidedInv'
  BY <1>1, <1>2, <1>3, IInvNumbers DEF IInv, Parts, ResumableDecision, LeasedInv, BlockerInv,
     MarkingInv, StageInv, UndecidedInv, Active, Resumable, Expired, Handler, Caught, Classified
<1>8. WaitInv'
  BY <1>1, <1>2, <1>3, IInvNumbers DEF IInv, Parts, WaitInv, Handler, Caught, Classified,
     LeasedInv, StageInv, UndecidedInv, MarkingInv, Expired, Resumable
<1>9. StageKeepsWork' /\ VerdictInv' /\ FinishedInv'
  BY <1>1, <1>2, <1>3, IInvNumbers DEF IInv, Parts, StageKeepsWork, StageStranded, VerdictInv, FinishedInv,
     Live, Open, Active, LeasedInv, UndecidedInv, Handler, Caught, Classified,
     ResumableDecision, Resumable
<1>10. AttemptsInv'
  BY <1>1, <1>2, <1>3, IInvNumbers, CircuitAssumption DEF IInv, AttemptsInv, Used, Passed,
     AtHorizon, Caught, BlockerInv, StageInv, Expired
<1>11. OutageNotFailed'
  BY <1>1, <1>2, <1>3, CircuitAssumption DEF IInv, Parts, OutageNotFailed, Active, AttemptsInv,
     LeasedInv, Used, Passed, BlockerInv
<1> QED
  BY <1>4, <1>5, <1>6, <1>7, <1>8, <1>9, <1>10, <1>11 DEF Parts, Kept

LEMMA BreakSaveKeeps == IInv /\ BreakSave => Parts' /\ Kept
<1> SUFFICES ASSUME IInv, BreakSave PROVE Parts' /\ Kept
  OBVIOUS
<1>1. /\ handling.pc \in {"stage", "call", "compute"} /\ handling'.pc = "breaking"
      /\ checkpoint'.state = "broken"
  BY DEF BreakSave, StageOpen, Executing, Goto, IInv, CircuitTypeOK, HandlingRows
<1>2. UNCHANGED <<clock, research, task, blocker, losses>>
  BY DEF BreakSave
<1>0. losses = 0 => clock >= blocker.after
  BY <1>1 DEF IInv, Parts, CircuitTypeOK, BlockerRows, WaitInv, StageInv, Handler, Expired, Awaited
<1>3. Anchored
  BY <1>1, <1>2, IInvNumbers DEF IInv, Parts, Anchored
<1>4. Heeds
  BY <1>1, <1>2, IInvNumbers DEF Heeds
<1>5. KeepsVerdict
  BY <1>1, <1>2, IInvNumbers DEF IInv, Parts, KeepsVerdict, Active, Live, LeasedInv,
     UndecidedInv, Handler, Caught, Classified, ResumableDecision, Resumable
<1>6. ResumableDecision' /\ LeasedInv' /\ BlockerInv' /\ MarkingInv' /\ StageInv' /\ UndecidedInv'
  BY <1>1, <1>2, IInvNumbers DEF IInv, Parts, ResumableDecision, LeasedInv, BlockerInv,
     MarkingInv, StageInv, UndecidedInv, Active, Resumable, Expired, Handler
<1>7. WaitInv'
  BY <1>0, <1>1, <1>2, IInvNumbers DEF IInv, Parts, WaitInv, Awaited, Handler, Caught, Classified,
     LeasedInv, StageInv, UndecidedInv, MarkingInv, Expired, ResumableDecision, Resumable
<1>8. StageKeepsWork' /\ VerdictInv' /\ FinishedInv'
  BY <1>1, <1>2, IInvNumbers DEF IInv, Parts, StageKeepsWork, StageStranded, VerdictInv, FinishedInv, Live,
     Open, Active, LeasedInv, UndecidedInv, Handler, Caught, Classified, ResumableDecision,
     Resumable
<1>9. AttemptsInv'
  BY <1>1, <1>2, IInvNumbers, CircuitAssumption DEF Parts, AttemptsInv, Passed, AtHorizon,
     Caught, LeasedInv, BlockerInv, StageInv, Expired
<1>10. OutageNotFailed'
  BY <1>1, <1>2, IInvNumbers DEF IInv, Parts, OutageNotFailed, Active, AttemptsInv, LeasedInv,
     Used, AtHorizon, BlockerInv
<1> QED
  BY <1>3, <1>4, <1>5, <1>6, <1>7, <1>8, <1>9, <1>10 DEF Parts, Kept

LEMMA BreakRunKeeps == IInv /\ BreakRun => Parts' /\ Kept
<1> SUFFICES ASSUME IInv, BreakRun PROVE Parts' /\ Kept
  OBVIOUS
<1>1. /\ handling.pc = "breaking" /\ handling'.pc = "returned"
      /\ research' \in {"failed_integrity", "cancelled"}
  BY DEF BreakRun, UpdateRun, Goto, IInv, CircuitTypeOK, HandlingRows
<1>2. UNCHANGED <<clock, task, blocker, checkpoint, losses>>
  BY DEF BreakRun
<1>3. Anchored
  BY <1>1, <1>2, IInvNumbers DEF IInv, Parts, Anchored, BlockerRows
<1>4. Heeds
  BY <1>1 DEF IInv, Heeds, Handler
<1>5. KeepsVerdict
  BY <1>1, <1>2, IInvNumbers DEF IInv, Parts, KeepsVerdict, VerdictInv, Verdicts, Active, Live,
     LeasedInv, Handler, Caught, ResumableDecision, Resumable
<1>6. ResumableDecision' /\ LeasedInv' /\ BlockerInv' /\ MarkingInv' /\ StageInv' /\ UndecidedInv'
  BY <1>1, <1>2 DEF IInv, Parts, ResumableDecision, LeasedInv, BlockerInv, MarkingInv, StageInv,
     UndecidedInv, Resumable, Expired, Handler, Caught, Classified
<1>7. WaitInv'
  BY <1>1, <1>2, IInvNumbers DEF IInv, Parts, WaitInv, Awaited, Handler, Caught, Classified,
     LeasedInv, StageInv, UndecidedInv, MarkingInv, Expired, ResumableDecision, Resumable
<1>8. StageKeepsWork' /\ VerdictInv' /\ FinishedInv'
  BY <1>1, <1>2, IInvNumbers DEF IInv, Parts, StageKeepsWork, StageStranded, VerdictInv, FinishedInv, Live,
     Open, Active, LeasedInv, UndecidedInv, Handler, Caught, Classified, ResumableDecision,
     Resumable
<1>9. AttemptsInv'
  BY <1>1, <1>2, IInvNumbers DEF IInv, AttemptsInv, Used, Passed, AtHorizon, Caught, LeasedInv,
     BlockerInv, StageInv, Expired
<1>10. OutageNotFailed'
  BY <1>1 DEF IInv, OutageNotFailed, AttemptsInv, Passed, AtHorizon
<1> QED
  BY <1>3, <1>4, <1>5, <1>6, <1>7, <1>8, <1>9, <1>10 DEF Parts, Kept

LEMMA OverrunKeeps == IInv /\ Overrun => Parts' /\ Kept
<1> SUFFICES ASSUME IInv, Overrun PROVE Parts' /\ Kept
  OBVIOUS
<1>1. handling.pc \in {"call", "compute"} /\ handling'.pc = "failing"
  BY DEF Overrun, Executing, Throw, IInv, CircuitTypeOK, HandlingRows
<1>2. checkpoint'.state \in {"compute1", "compute2"} /\ research' \in {"recovering", "cancelled"}
  BY DEF Overrun, UpdateRun, IInv, CircuitTypeOK, CheckpointRows
<1>3. UNCHANGED <<clock, task, blocker, losses>>
  BY DEF Overrun
<1>4. /\ handling'.error \in {"compute1", "compute2"}
      /\ handling'.error = "compute1" => handling.pc = "call" /\ checkpoint'.state = "compute1"
  BY DEF Overrun, Throw, IInv, CircuitTypeOK, HandlingRows, CheckpointRows
<1>5. Anchored
  BY <1>3, <1>4, IInvNumbers DEF Anchored, BlockerRows
<1>6. Heeds
  BY <1>1, <1>2, <1>3, <1>4, IInvNumbers DEF IInv, Parts, Heeds, Handler
<1>7. KeepsVerdict
  BY <1>1, <1>2, <1>3, <1>4, IInvNumbers DEF IInv, Parts, KeepsVerdict, VerdictInv, Verdicts,
     Active, Live, LeasedInv, UndecidedInv, Handler, Caught, Classified, ResumableDecision,
     Resumable
<1>8. ResumableDecision' /\ LeasedInv' /\ BlockerInv' /\ MarkingInv' /\ StageInv' /\ UndecidedInv'
  BY <1>1, <1>2, <1>3, <1>4, IInvNumbers DEF IInv, Parts, ResumableDecision, LeasedInv,
     BlockerInv, MarkingInv, StageInv, UndecidedInv, Active, Resumable, Expired, Handler,
     Caught, Classified
<1>9. WaitInv'
  BY <1>1, <1>2, <1>3, <1>4, IInvNumbers DEF IInv, Parts, WaitInv, Awaited, Handler, Caught,
     Classified, LeasedInv, StageInv, UndecidedInv, MarkingInv, Expired, ResumableDecision,
     Resumable
<1>10. StageKeepsWork' /\ VerdictInv' /\ FinishedInv'
  BY <1>1, <1>2, <1>3, <1>4, IInvNumbers DEF IInv, Parts, StageKeepsWork, StageStranded, VerdictInv,
     FinishedInv, Live, Open, Active, LeasedInv, UndecidedInv, Handler, Caught, Classified,
     ResumableDecision, Resumable
<1>11. AttemptsInv'
  BY <1>1, <1>2, <1>3, <1>4, IInvNumbers, CircuitAssumption DEF IInv, Parts, AttemptsInv, Used,
     AtHorizon, Caught, BlockerInv, StageInv, Expired
<1>12. OutageNotFailed'
  BY <1>1, <1>2, <1>4, IInvNumbers, CircuitAssumption DEF IInv, Parts, OutageNotFailed, Active,
     AttemptsInv, LeasedInv, Passed, AtHorizon, BlockerInv
<1> QED
  BY <1>5, <1>6, <1>7, <1>8, <1>9, <1>10, <1>11, <1>12 DEF Parts, Kept

LEMMA FaultKeeps == IInv /\ Fault => Parts' /\ Kept
<1> SUFFICES ASSUME IInv, Fault PROVE Parts' /\ Kept
  OBVIOUS
<1>1. handling.pc \in {"call", "compute"} /\ handling'.pc = "failing"
  BY DEF Fault, Executing, Throw, IInv, CircuitTypeOK, HandlingRows
<1>2. UNCHANGED <<clock, research, task, blocker, checkpoint, losses>>
  BY DEF Fault
<1>3. handling'.error = "unexpected"
  BY DEF Fault, Throw, IInv, CircuitTypeOK, HandlingRows
<1>4. Anchored
  BY <1>2, IInvNumbers DEF Parts, Anchored
<1>5. Heeds
  BY <1>1, <1>2, <1>3, IInvNumbers DEF IInv, Parts, Heeds
<1>6. KeepsVerdict
  BY <1>1, <1>2, IInvNumbers DEF IInv, Parts, KeepsVerdict, VerdictInv, Verdicts, Active, Live,
     LeasedInv, Handler, Caught, Classified, ResumableDecision, Resumable
<1>7. ResumableDecision' /\ LeasedInv' /\ BlockerInv' /\ MarkingInv' /\ StageInv' /\ UndecidedInv'
  BY <1>1, <1>2, <1>3, IInvNumbers DEF IInv, Parts, ResumableDecision, LeasedInv, BlockerInv,
     MarkingInv, StageInv, UndecidedInv, Active, Resumable, Expired, Handler, Caught, Classified
<1>8. WaitInv'
  BY <1>1, <1>2, <1>3, IInvNumbers DEF IInv, Parts, WaitInv, Awaited, Handler, Caught,
     Classified, LeasedInv, StageInv, UndecidedInv, MarkingInv, Expired, ResumableDecision,
     Resumable
<1>9. StageKeepsWork' /\ VerdictInv' /\ FinishedInv'
  BY <1>1, <1>2, <1>3, IInvNumbers DEF IInv, Parts, StageKeepsWork, StageStranded, VerdictInv, FinishedInv,
     Live, Open, Active, LeasedInv, UndecidedInv, Handler, Caught, Classified,
     ResumableDecision, Resumable
<1>10. AttemptsInv'
  BY <1>1, <1>2, <1>3, IInvNumbers DEF IInv, Parts, AttemptsInv, Used, AtHorizon, Caught,
     LeasedInv, BlockerInv, StageInv, Expired
<1>11. OutageNotFailed'
  BY <1>1, <1>2, <1>3, IInvNumbers, CircuitAssumption DEF IInv, Parts, OutageNotFailed, Active,
     LeasedInv, Used, Passed, BlockerInv
<1> QED
  BY <1>4, <1>5, <1>6, <1>7, <1>8, <1>9, <1>10, <1>11 DEF Parts, Kept

LEMMA SaveQuestionKeeps == IInv /\ SaveQuestion => Parts' /\ Kept
<1> SUFFICES ASSUME IInv, SaveQuestion PROVE Parts' /\ Kept
  OBVIOUS
<1>1. /\ handling.pc \in {"stage", "call", "compute"} /\ handling'.pc = "asking"
      /\ checkpoint'.state = "question"
  BY DEF SaveQuestion, StageOpen, Executing, Goto, IInv, CircuitTypeOK, HandlingRows
<1>2. UNCHANGED <<clock, research, task, blocker, losses>>
  BY DEF SaveQuestion
<1>0. losses = 0 => clock >= blocker.after
  BY <1>1 DEF IInv, Parts, CircuitTypeOK, BlockerRows, WaitInv, StageInv, Handler, Expired, Awaited
<1>3. Anchored
  BY <1>1, <1>2, IInvNumbers DEF IInv, Parts, Anchored
<1>4. Heeds
  BY <1>1, <1>2, IInvNumbers DEF Heeds
<1>5. KeepsVerdict
  BY <1>1, <1>2, IInvNumbers DEF IInv, Parts, KeepsVerdict, Active, Live, LeasedInv,
     UndecidedInv, Handler, Caught, Classified, ResumableDecision, Resumable
<1>6. ResumableDecision' /\ LeasedInv' /\ BlockerInv' /\ MarkingInv' /\ StageInv' /\ UndecidedInv'
  BY <1>1, <1>2, IInvNumbers DEF IInv, Parts, ResumableDecision, LeasedInv, BlockerInv,
     MarkingInv, StageInv, UndecidedInv, Active, Resumable, Expired, Handler
<1>7. WaitInv'
  BY <1>0, <1>1, <1>2, IInvNumbers DEF IInv, Parts, WaitInv, Awaited, Handler, Caught, Classified,
     LeasedInv, StageInv, UndecidedInv, MarkingInv, Expired, ResumableDecision, Resumable
<1>8. StageKeepsWork' /\ VerdictInv' /\ FinishedInv'
  BY <1>1, <1>2, IInvNumbers DEF IInv, Parts, StageKeepsWork, StageStranded, VerdictInv, FinishedInv, Live,
     Open, Active, LeasedInv, UndecidedInv, Handler, Caught, Classified, ResumableDecision,
     Resumable
<1>9. AttemptsInv'
  BY <1>1, <1>2, IInvNumbers, CircuitAssumption DEF Parts, AttemptsInv, Passed, AtHorizon,
     Caught, LeasedInv, BlockerInv, StageInv, Expired
<1>10. OutageNotFailed'
  BY <1>1, <1>2, IInvNumbers DEF IInv, Parts, OutageNotFailed, Active, AttemptsInv, LeasedInv,
     Used, AtHorizon, BlockerInv
<1> QED
  BY <1>3, <1>4, <1>5, <1>6, <1>7, <1>8, <1>9, <1>10 DEF Parts, Kept

LEMMA AskScopeKeeps == IInv /\ AskScope => Parts' /\ Kept
<1> SUFFICES ASSUME IInv, AskScope PROVE Parts' /\ Kept
  OBVIOUS
<1>1. /\ handling.pc = "asking" /\ handling'.pc = "returned"
      /\ research' \in {"asked", "failed_integrity", "cancelled"}
  BY DEF AskScope, UpdateRun, Goto, IInv, HandlingRows
<1>2. UNCHANGED <<clock, task, blocker, checkpoint, losses>>
  BY DEF AskScope
<1>3. Anchored
  BY <1>1, <1>2, IInvNumbers DEF IInv, Parts, Anchored, BlockerRows
<1>4. Heeds
  BY <1>1, IInvNumbers DEF IInv, Parts, Heeds, Handler
<1>5. KeepsVerdict
  BY <1>1, <1>2, IInvNumbers DEF IInv, Parts, KeepsVerdict, VerdictInv, Verdicts, Active, Live,
     LeasedInv, UndecidedInv, Handler, Caught, Classified, ResumableDecision, Resumable
<1>6. ResumableDecision' /\ LeasedInv' /\ BlockerInv' /\ MarkingInv' /\ StageInv' /\ UndecidedInv'
  BY <1>1, <1>2, IInvNumbers DEF IInv, Parts, ResumableDecision, LeasedInv, BlockerInv,
     MarkingInv, StageInv, UndecidedInv, Active, Resumable, Expired, Handler, Caught, Classified
<1>7. WaitInv'
  BY <1>1, <1>2, IInvNumbers DEF IInv, Parts, WaitInv, Awaited, Handler, Caught, Classified,
     LeasedInv, StageInv, UndecidedInv, MarkingInv, Expired, ResumableDecision, Resumable
<1>8. StageKeepsWork' /\ VerdictInv' /\ FinishedInv'
  BY <1>1, <1>2, IInvNumbers DEF IInv, Parts, StageKeepsWork, StageStranded, VerdictInv, FinishedInv, Live,
     Open, Active, LeasedInv, UndecidedInv, Handler, Caught, Classified, ResumableDecision,
     Resumable
<1>9. AttemptsInv'
  BY <1>1, <1>2, IInvNumbers, CircuitAssumption DEF IInv, Parts, AttemptsInv, Used, Passed,
     AtHorizon, Caught, LeasedInv, BlockerInv
<1>10. OutageNotFailed'
  BY <1>1 DEF OutageNotFailed, Active, AttemptsInv, LeasedInv, Passed, AtHorizon
<1> QED
  BY <1>3, <1>4, <1>5, <1>6, <1>7, <1>8, <1>9, <1>10 DEF Parts, Kept

LEMMA QuestionFailsKeeps == IInv /\ QuestionFails => Parts' /\ Kept
<1> SUFFICES ASSUME IInv, QuestionFails PROVE Parts' /\ Kept
  OBVIOUS
<1>1. handling.pc = "asking" /\ handling'.pc = "failing"
  BY DEF QuestionFails, Throw, IInv, CircuitTypeOK, HandlingRows
<1>2. UNCHANGED <<clock, research, task, blocker, checkpoint, losses>>
  BY DEF QuestionFails
<1>3. handling'.error = "unexpected"
  BY DEF QuestionFails, Throw, IInv, CircuitTypeOK, HandlingRows
<1>4. Anchored
  BY <1>2, IInvNumbers DEF Parts, Anchored
<1>5. Heeds
  BY <1>1, <1>2, <1>3, IInvNumbers DEF IInv, Parts, Heeds
<1>6. KeepsVerdict
  BY <1>1, <1>2, IInvNumbers DEF IInv, Parts, KeepsVerdict, VerdictInv, Verdicts, Active, Live,
     LeasedInv, Handler, Caught, Classified, ResumableDecision, Resumable
<1>7. ResumableDecision' /\ LeasedInv' /\ BlockerInv' /\ MarkingInv' /\ StageInv' /\ UndecidedInv'
  BY <1>1, <1>2, <1>3, IInvNumbers DEF IInv, Parts, ResumableDecision, LeasedInv, BlockerInv,
     MarkingInv, StageInv, UndecidedInv, Active, Resumable, Expired, Handler, Caught, Classified
<1>8. WaitInv'
  BY <1>1, <1>2, <1>3, IInvNumbers DEF IInv, Parts, WaitInv, Awaited, Handler, Caught,
     Classified, LeasedInv, StageInv, UndecidedInv, MarkingInv, Expired, ResumableDecision,
     Resumable
<1>9. StageKeepsWork' /\ VerdictInv' /\ FinishedInv'
  BY <1>1, <1>2, <1>3, IInvNumbers DEF IInv, Parts, StageKeepsWork, StageStranded, VerdictInv, FinishedInv,
     Live, Open, Active, LeasedInv, UndecidedInv, Handler, Caught, Classified,
     ResumableDecision, Resumable
<1>10. AttemptsInv'
  BY <1>1, <1>2, <1>3, IInvNumbers DEF IInv, Parts, AttemptsInv, Used, AtHorizon, Caught,
     LeasedInv, BlockerInv, StageInv, Expired
<1>11. OutageNotFailed'
  BY <1>1, <1>2, <1>3, IInvNumbers, CircuitAssumption DEF IInv, Parts, OutageNotFailed, Active,
     LeasedInv, Used, Passed, BlockerInv
<1> QED
  BY <1>4, <1>5, <1>6, <1>7, <1>8, <1>9, <1>10, <1>11 DEF Parts, Kept

LEMMA PersistKeeps == IInv /\ Persist => Parts' /\ Kept
<1> SUFFICES ASSUME IInv, Persist PROVE Parts' /\ Kept
  OBVIOUS
<1>1. handling.pc \in {"call", "compute"} /\ handling'.pc = "persisted" /\ research' = "settled"
  BY DEF Persist, Executing, Goto, IInv, CircuitTypeOK, HandlingRows
<1>2. UNCHANGED <<clock, task, blocker, checkpoint, losses>>
  BY DEF Persist
<1>3. Anchored
  BY <1>1, <1>2, IInvNumbers DEF IInv, Parts, Anchored, BlockerRows
<1>4. Heeds
  BY <1>1, <1>2 DEF Heeds, Handler
<1>5. KeepsVerdict
  BY <1>1, <1>2, IInvNumbers DEF IInv, Parts, KeepsVerdict, VerdictInv, Verdicts, Active, Live,
     LeasedInv, UndecidedInv, Handler, Caught, Classified, ResumableDecision, Resumable
<1>6. ResumableDecision' /\ LeasedInv' /\ BlockerInv' /\ MarkingInv' /\ StageInv' /\ UndecidedInv'
  BY <1>1, <1>2, IInvNumbers DEF IInv, Parts, ResumableDecision, LeasedInv, BlockerInv,
     MarkingInv, StageInv, UndecidedInv, Active, Resumable, Expired, Handler, Caught, Classified
<1>7. WaitInv'
  BY <1>1, <1>2, IInvNumbers DEF IInv, Parts, WaitInv, Awaited, Handler, Classified, StageInv,
     UndecidedInv, MarkingInv, Expired, ResumableDecision, Resumable
<1>8. StageKeepsWork' /\ VerdictInv' /\ FinishedInv'
  BY <1>1, <1>2, IInvNumbers DEF IInv, Parts, StageKeepsWork, StageStranded, VerdictInv, FinishedInv, Live,
     Open, Active, LeasedInv, UndecidedInv, Caught, Classified, ResumableDecision
<1>9. AttemptsInv'
  BY <1>1, <1>2 DEF AttemptsInv, Used, Caught, LeasedInv, Expired
<1>10. OutageNotFailed'
  BY <1>1 DEF IInv, Parts, OutageNotFailed, AttemptsInv, Used, AtHorizon
<1> QED
  BY <1>3, <1>4, <1>5, <1>6, <1>7, <1>8, <1>9, <1>10 DEF Parts, Kept

LEMMA SaveCompleteKeeps == IInv /\ SaveComplete => Parts' /\ Kept
<1> SUFFICES ASSUME IInv, SaveComplete PROVE Parts' /\ Kept
  OBVIOUS
<1>1. /\ handling.pc = "persisted" /\ handling'.pc = "returned" /\ checkpoint'.state = "complete"
      /\ research' \in {"settled", "cancelled"}
  BY DEF SaveComplete, UpdateRun, Goto, CircuitTypeOK, HandlingRows, CheckpointRows
<1>2. UNCHANGED <<clock, task, blocker, losses>>
  BY DEF SaveComplete
<1>3. Anchored
  BY <1>1, <1>2, IInvNumbers DEF IInv, Parts, Anchored, BlockerRows
<1>4. Heeds
  BY <1>1, <1>2, IInvNumbers DEF IInv, Heeds, Handler
<1>5. KeepsVerdict
  BY <1>1, <1>2, IInvNumbers DEF IInv, Parts, KeepsVerdict, VerdictInv, Verdicts, Active, Live,
     LeasedInv, UndecidedInv, Handler, Classified, ResumableDecision
<1>6. ResumableDecision' /\ LeasedInv' /\ BlockerInv' /\ MarkingInv' /\ StageInv' /\ UndecidedInv'
  BY <1>1, <1>2, IInvNumbers DEF IInv, Parts, ResumableDecision, LeasedInv, BlockerInv,
     MarkingInv, StageInv, UndecidedInv, Active, Resumable, Expired, Handler, Caught, Classified
<1>7. WaitInv'
  BY <1>1, <1>2, IInvNumbers DEF IInv, Parts, WaitInv, Awaited, Handler, Caught, Classified,
     LeasedInv, StageInv, UndecidedInv, MarkingInv, Expired, ResumableDecision, Resumable
<1>8. StageKeepsWork' /\ VerdictInv' /\ FinishedInv'
  BY <1>1, <1>2, IInvNumbers DEF IInv, Parts, StageKeepsWork, StageStranded, VerdictInv, FinishedInv, Live,
     Open, Active, LeasedInv, UndecidedInv, Handler, Caught, Classified, ResumableDecision,
     Resumable
<1>9. AttemptsInv'
  BY <1>1, <1>2, IInvNumbers, CircuitAssumption DEF IInv, Parts, AttemptsInv, Used, Passed,
     AtHorizon, Caught, LeasedInv, BlockerInv, StageInv, Expired
<1>10. OutageNotFailed'
  BY <1>1, <1>2 DEF IInv, OutageNotFailed, Active, Used
<1> QED
  BY <1>3, <1>4, <1>5, <1>6, <1>7, <1>8, <1>9, <1>10 DEF Parts, Kept

LEMMA ResolveBlockerKeeps == IInv /\ ResolveBlocker => Parts' /\ Kept
<1> SUFFICES ASSUME IInv, ResolveBlocker PROVE Parts' /\ Kept
  OBVIOUS
<1>1. handling.pc = "returned" /\ handling'.pc = "resolved" /\ ~blocker'.open
  BY DEF ResolveBlocker, Goto, IInv, CircuitTypeOK, HandlingRows, BlockerRows
<1>2. UNCHANGED <<clock, research, task, checkpoint, losses>>
  BY DEF ResolveBlocker
<1>3. Anchored
  BY <1>1 DEF IInv, Parts, Anchored
<1>4. Heeds
  BY <1>1, IInvNumbers DEF IInv, Parts, Heeds, Handler
<1>5. KeepsVerdict
  BY <1>1, <1>2, IInvNumbers DEF IInv, KeepsVerdict, VerdictInv, Verdicts, Active, Live,
     LeasedInv, UndecidedInv, Handler, Caught, Classified, Resumable
<1>6. ResumableDecision' /\ LeasedInv' /\ BlockerInv' /\ MarkingInv' /\ StageInv' /\ UndecidedInv'
  BY <1>1, <1>2, IInvNumbers DEF IInv, Parts, ResumableDecision, LeasedInv, BlockerInv,
     MarkingInv, StageInv, UndecidedInv, Active, Resumable, Expired, Handler, Caught, Classified
<1>7. WaitInv'
  BY <1>1, <1>2, IInvNumbers DEF IInv, Parts, WaitInv, Awaited, Handler, Caught, Classified,
     StageInv, UndecidedInv, MarkingInv, Expired, Resumable
<1>8. StageKeepsWork' /\ VerdictInv' /\ FinishedInv'
  BY <1>1, <1>2, IInvNumbers DEF IInv, Parts, StageKeepsWork, StageStranded, VerdictInv, FinishedInv, Live,
     Open, Active, LeasedInv, UndecidedInv, Handler, Caught, Classified, ResumableDecision,
     Resumable
<1>9. AttemptsInv'
  BY <1>1, <1>2, IInvNumbers DEF IInv, Parts, AttemptsInv, Used, Passed, AtHorizon, Caught,
     LeasedInv, BlockerInv, StageInv
<1>10. OutageNotFailed'
  BY <1>1, <1>2, IInvNumbers, CircuitAssumption DEF IInv, Parts, OutageNotFailed, Active,
     AttemptsInv, LeasedInv, Used, Passed, AtHorizon, BlockerInv
<1> QED
  BY <1>3, <1>4, <1>5, <1>6, <1>7, <1>8, <1>9, <1>10 DEF Parts, Kept

LEMMA CompleteTaskKeeps == IInv /\ CompleteTask => Parts' /\ Kept
<1> SUFFICES ASSUME IInv, CompleteTask PROVE Parts' /\ Kept
  OBVIOUS
<1>1. handling.pc = "resolved" /\ handling'.pc = "none" /\ task'.status = "complete"
  BY DEF CompleteTask, Idle, IInv, CircuitTypeOK, HandlingRows, TaskRows
<1>2. UNCHANGED <<clock, research, blocker, checkpoint, losses>>
  BY DEF CompleteTask
<1>3. Anchored
  BY <1>1, <1>2, IInvNumbers DEF IInv, Anchored, BlockerRows
<1>4. Heeds
  BY <1>1, <1>2, IInvNumbers DEF Parts, Heeds, Handler
<1>5. KeepsVerdict
  BY <1>2 DEF IInv, Parts, KeepsVerdict, VerdictInv, Verdicts, Active, Live, LeasedInv,
     UndecidedInv, Handler, Caught, Classified, ResumableDecision, Resumable
<1>6. ResumableDecision' /\ LeasedInv' /\ BlockerInv' /\ MarkingInv' /\ StageInv' /\ UndecidedInv'
  BY <1>1, <1>2, IInvNumbers DEF IInv, Parts, ResumableDecision, LeasedInv, BlockerInv,
     MarkingInv, StageInv, UndecidedInv, Active, Resumable, Expired, Handler, Caught, Classified
<1>7. WaitInv'
  BY <1>1, <1>2, IInvNumbers DEF IInv, Parts, WaitInv, Handler, Caught, Classified, LeasedInv,
     StageInv, UndecidedInv, MarkingInv, Expired, ResumableDecision
<1>8. StageKeepsWork' /\ VerdictInv' /\ FinishedInv'
  BY <1>1, <1>2, IInvNumbers DEF IInv, Parts, StageKeepsWork, StageStranded, VerdictInv, FinishedInv, Live,
     Open, Active, LeasedInv, UndecidedInv, Handler, Caught, Classified, ResumableDecision,
     Resumable
<1>9. AttemptsInv'
  BY <1>1, <1>2, IInvNumbers, CircuitAssumption DEF IInv, Parts, AttemptsInv, Used, AtHorizon,
     Caught, LeasedInv, BlockerInv, StageInv
<1>10. OutageNotFailed'
  BY <1>1, <1>2, IInvNumbers, CircuitAssumption DEF IInv, Parts, OutageNotFailed, AttemptsInv,
     LeasedInv, Used, Passed, BlockerInv
<1> QED
  BY <1>3, <1>4, <1>5, <1>6, <1>7, <1>8, <1>9, <1>10 DEF Parts, Kept

LEMMA ClassifyKeeps == IInv /\ Classify => Parts' /\ Kept
<1> SUFFICES ASSUME IInv, Classify PROVE Parts' /\ Kept
  OBVIOUS
<1>1. handling.pc = "failing" /\ handling'.pc = "deciding" /\ handling'.error = handling.error
  BY DEF Classify, Goto, IInv, CircuitTypeOK, HandlingRows
<1>2. UNCHANGED <<clock, research, task, blocker, checkpoint, losses>>
  BY DEF Classify
<1>3. Anchored
  BY <1>1, <1>2, IInvNumbers DEF IInv, Parts, Anchored, BlockerRows
<1>4. Heeds
  BY <1>1, <1>2, IInvNumbers DEF IInv, Parts, Heeds, Handler
<1>5. KeepsVerdict
  BY <1>1, <1>2, IInvNumbers DEF IInv, Parts, KeepsVerdict, VerdictInv, Verdicts, Live,
     LeasedInv, UndecidedInv, Handler, Caught, Classified, ResumableDecision
<1>6. ResumableDecision' /\ LeasedInv' /\ BlockerInv' /\ MarkingInv' /\ StageInv' /\ UndecidedInv'
  BY <1>1, <1>2, IInvNumbers DEF IInv, Parts, ResumableDecision, LeasedInv, BlockerInv,
     MarkingInv, StageInv, UndecidedInv, Active, Resumable, Expired, Handler, Caught, Classified
<1>7. WaitInv'
  BY <1>1, <1>2, IInvNumbers DEF IInv, Parts, WaitInv, Awaited, Handler, Caught, Classified,
     LeasedInv, StageInv, UndecidedInv, MarkingInv, Expired, ResumableDecision, Resumable
<1>8. StageKeepsWork' /\ VerdictInv' /\ FinishedInv'
  BY <1>1, <1>2, IInvNumbers DEF IInv, Parts, StageKeepsWork, StageStranded, VerdictInv, FinishedInv, Live,
     Open, Active, LeasedInv, UndecidedInv, Handler, Caught, Classified, ResumableDecision,
     Resumable
<1>9. AttemptsInv'
  BY <1>1, <1>2, IInvNumbers, CircuitAssumption DEF IInv, Parts, AttemptsInv, Used, Passed,
     AtHorizon, Caught, LeasedInv, BlockerInv, StageInv, Expired
<1>10. OutageNotFailed'
  BY <1>1, <1>2, IInvNumbers, CircuitAssumption DEF IInv, Parts, OutageNotFailed, Active,
     AttemptsInv, LeasedInv, Used, Passed, AtHorizon, BlockerInv
<1> QED
  BY <1>3, <1>4, <1>5, <1>6, <1>7, <1>8, <1>9, <1>10 DEF Parts, Kept

LEMMA OpenCircuitKeeps == IInv /\ OpenCircuit => Parts' /\ Kept
<1> SUFFICES ASSUME IInv, OpenCircuit PROVE Parts' /\ Kept
  OBVIOUS
<1>1. /\ handling.pc = "deciding" /\ handling.error = "unavailable"
      /\ handling'.pc = "retry" /\ handling'.due \in RetryTimes
  BY DEF OpenCircuit, IInv, CircuitTypeOK, HandlingRows
<1>2. /\ blocker'.open /\ blocker'.first = FirstFailure /\ blocker'.until = Until
      /\ blocker'.durable = Earlier(Slots, Completed + 1) /\ blocker'.after = KnownAfter
  BY DEF OpenCircuit, Opened, CircuitTypeOK
<1>3. /\ blocker'.until = blocker'.first + Window /\ blocker'.durable <= Slots
      /\ blocker.open => /\ blocker'.first = blocker.first /\ blocker'.until = blocker.until
                         /\ blocker'.durable >= blocker.durable /\ blocker'.after >= blocker.after
  BY <1>2, CircuitAssumption DEF IInv, CircuitTypeOK, BlockerRows, Parts, BlockerInv,
     FirstFailure, Until, Earlier, Later, Completed, KnownAfter, HandlingRows
<1>4. handling'.due >= blocker'.after \/ handling'.due >= blocker'.until
  BY <1>1, <1>2, <1>3, SMTT(30), CircuitAssumption DEF RetryTimes, NextSlot, Earlier, Later, IInv,
     CircuitTypeOK, BlockerRows, HandlingRows, KnownAfter, Until, FirstFailure
<1>5. UNCHANGED <<clock, research, task, checkpoint, losses>>
  BY DEF OpenCircuit
<1>6. Completed >= Slots => handling'.due = FirstFailure + Window
  BY DEF OpenCircuit, RetryTimes, CircuitTypeOK
<1>7. Completed <= Slots /\ (blocker.open => Completed = blocker.durable) /\ (~blocker.open => Completed = 0)
  BY IInvNumbers, CircuitAssumption DEF Parts, BlockerInv, Completed, Earlier, IInv,
     CircuitTypeOK
<1>8. losses = 0 => task.attempts <= Completed + 1
  BY <1>1, <1>2, <1>3, <1>4, <1>5, <1>6, <1>7, IInvNumbers DEF Parts, AttemptsInv, Used, Caught,
     IInv, CircuitTypeOK
<1>9. blocker'.durable \in Nat
  BY <1>1, <1>2, <1>4, <1>5, <1>6, <1>7, <1>8, IInvNumbers DEF Earlier
<1>10. losses = 0 => /\ task.attempts <= blocker'.durable \/ handling'.due >= blocker'.until
                     /\ task.attempts <= Slots + 1
  BY <1>1, <1>2, <1>3, <1>4, <1>5, <1>6, <1>7, <1>8, <1>9, IInvNumbers DEF Earlier
<1>11. Passed' \in {0, 1}
  BY DEF Passed, CircuitTypeOK
<1>12. Anchored
  BY <1>1, <1>2, <1>3, <1>4, <1>6, <1>7, <1>8, <1>9, <1>10, <1>11, IInvNumbers DEF IInv, Parts,
     Anchored
<1>13. Heeds
  BY <1>1, <1>2, <1>4, <1>7, <1>9, <1>11 DEF Heeds
<1>14. KeepsVerdict
  BY <1>1, <1>2, <1>3, <1>4, <1>5, <1>6, <1>7, <1>8, <1>9, <1>10, <1>11, IInvNumbers DEF IInv,
     Parts, KeepsVerdict, VerdictInv, Verdicts, Active, Live, LeasedInv, UndecidedInv, Handler,
     Caught, Classified, ResumableDecision, Resumable
<1>15. ResumableDecision' /\ LeasedInv' /\ BlockerInv' /\ MarkingInv' /\ StageInv' /\ UndecidedInv'
  BY <1>1, <1>2, <1>3, <1>5, <1>6, <1>7, <1>8, <1>9, <1>10, <1>11, IInvNumbers DEF IInv, Parts,
     ResumableDecision, LeasedInv, BlockerInv, MarkingInv, StageInv, UndecidedInv, Active,
     Resumable, Expired, Caught, Classified
<1>16. WaitInv'
  BY <1>1, <1>2, <1>3, <1>4, <1>5, <1>6, <1>7, <1>8, <1>9, <1>10, <1>11, IInvNumbers DEF IInv,
     Parts, WaitInv, Awaited, Handler, Caught, Classified, LeasedInv, StageInv, UndecidedInv,
     MarkingInv, Expired, ResumableDecision, Resumable
<1>17. StageKeepsWork' /\ VerdictInv' /\ FinishedInv'
  BY <1>1, <1>2, <1>3, <1>4, <1>5, <1>7, <1>8, <1>9, <1>10, <1>11, IInvNumbers DEF IInv, Parts,
     StageKeepsWork, StageStranded, VerdictInv, FinishedInv, Live, Open, Active, LeasedInv, Handler, Caught,
     Classified, ResumableDecision, Resumable
<1>18. AttemptsInv'
  BY <1>1, <1>2, <1>3, <1>4, <1>5, <1>6, <1>7, <1>8, <1>9, <1>10, <1>11, IInvNumbers, SMTT(30),
     CircuitAssumption DEF IInv, Parts, AttemptsInv, Used, Passed, AtHorizon, Caught, LeasedInv,
     BlockerInv, StageInv, Expired
<1>19. OutageNotFailed'
  BY <1>1, <1>2, <1>3, <1>4, <1>5, <1>6, <1>7, <1>8, <1>9, <1>10, <1>11, IInvNumbers,
     CircuitAssumption DEF IInv, Parts, OutageNotFailed, Active, AttemptsInv, LeasedInv, Used,
     Passed, AtHorizon, BlockerInv
<1> QED
  BY <1>12, <1>13, <1>14, <1>15, <1>16, <1>17, <1>18, <1>19 DEF Parts, Kept

LEMMA DecideLateKeeps == IInv /\ DecideLate => Parts' /\ Kept
<1> SUFFICES ASSUME IInv, DecideLate PROVE Parts' /\ Kept
  OBVIOUS
<1>1. /\ handling.pc = "deciding" /\ handling.error = "unavailable" /\ WindowPassed
      /\ handling'.pc = "resolved" /\ research = Active /\ research' = "needs_decision"
  BY DEF DecideLate, Goto, IInv, CircuitTypeOK, HandlingRows
<1>2. /\ blocker'.open /\ blocker'.decision /\ blocker'.first = FirstFailure /\ blocker'.until = Until /\ blocker'.durable = Completed
      /\ blocker'.after = KnownAfter
  BY DEF DecideLate, Decided, IInv, CircuitTypeOK, BlockerRows
<1>3. /\ blocker'.until = blocker'.first + Window /\ blocker'.durable <= Slots
      /\ blocker.open => /\ blocker'.first = blocker.first /\ blocker'.until = blocker.until
                         /\ blocker'.durable >= blocker.durable /\ blocker'.after >= blocker.after
  BY <1>2, CircuitAssumption DEF IInv, CircuitTypeOK, BlockerRows, Parts, BlockerInv,
     FirstFailure, Until, Earlier, Later, Completed, KnownAfter, HandlingRows
<1>4. blocker'.until <= clock
  BY <1>1, <1>2, <1>3 DEF IInv, Parts, Expired, WindowPassed, Until, FirstFailure,
     CircuitTypeOK, BlockerRows, Earlier
<1>5. UNCHANGED <<clock, task, checkpoint, losses>>
  BY DEF DecideLate
<1>6. Anchored
  BY <1>1, <1>2, <1>3, <1>4, <1>5 DEF IInv, Parts, Anchored, BlockerRows
<1>7. Heeds
  BY <1>1, <1>2, <1>3, <1>4, <1>5 DEF IInv, Parts, Heeds, Handler
<1>8. KeepsVerdict
  BY <1>1, <1>4, <1>5, IInvNumbers DEF Parts, KeepsVerdict, Verdicts, Active, UndecidedInv
<1>9. ResumableDecision' /\ LeasedInv' /\ BlockerInv' /\ MarkingInv' /\ StageInv' /\ UndecidedInv'
  BY <1>1, <1>2, <1>3, <1>4, <1>5, IInvNumbers DEF IInv, Parts, ResumableDecision, LeasedInv,
     BlockerInv, MarkingInv, StageInv, UndecidedInv, Active, Resumable, Expired, Handler,
     Caught, Classified
<1>10. WaitInv'
  BY <1>1, <1>2, <1>3, <1>4, <1>5, IInvNumbers DEF IInv, Parts, WaitInv, Awaited, Handler,
     Caught, Classified, LeasedInv, StageInv, UndecidedInv, MarkingInv, Expired,
     ResumableDecision, Resumable
<1>11. StageKeepsWork' /\ VerdictInv' /\ FinishedInv'
  BY <1>1, <1>2, <1>3, <1>4, <1>5, IInvNumbers DEF IInv, Parts, StageKeepsWork, StageStranded, VerdictInv,
     FinishedInv, Live, Open, Active, UndecidedInv, Handler, Caught, Classified,
     ResumableDecision
<1>12. AttemptsInv'
  BY <1>1, <1>2, <1>3, <1>4, <1>5, IInvNumbers, CircuitAssumption DEF IInv, Parts, AttemptsInv,
     Used, Passed, AtHorizon, Caught, LeasedInv, BlockerInv, StageInv, Expired
<1>13. OutageNotFailed'
  BY <1>1, <1>2, <1>3, <1>4, <1>5, IInvNumbers, CircuitAssumption DEF IInv, Parts,
     OutageNotFailed, Active, AttemptsInv, LeasedInv, Used, Passed, AtHorizon, BlockerInv
<1> QED
  BY <1>6, <1>7, <1>8, <1>9, <1>10, <1>11, <1>12, <1>13 DEF Parts, Kept

LEMMA DecideStaleKeeps == IInv /\ DecideStale => Parts' /\ Kept
<1> SUFFICES ASSUME IInv, DecideStale PROVE Parts' /\ Kept
  OBVIOUS
<1>1. /\ handling.pc = "deciding" /\ handling.error = "unavailable"
      /\ handling'.pc = "none" /\ task'.status = task.status
  BY DEF DecideStale, Abandon, Idle, IInv, CircuitTypeOK, HandlingRows, TaskRows
<1>2. UNCHANGED <<clock, research, blocker, checkpoint, losses>>
  BY DEF DecideStale
<1>3. task'.attempts = task.attempts
  BY DEF DecideStale, Abandon, IInv, CircuitTypeOK, TaskRows
<1>4. AtHorizon(clock)
  BY CircuitAssumption DEF DecideStale, WindowPassed, FirstFailure, AtHorizon, Parts,
     BlockerInv, IInv, CircuitTypeOK
<1>5. Anchored
  BY <1>1, <1>2, <1>3, IInvNumbers DEF IInv, Parts, Anchored, BlockerRows
<1>6. Heeds
  BY <1>1, <1>4, IInvNumbers DEF Parts, Heeds
<1>7. KeepsVerdict
  BY <1>1, <1>2, IInvNumbers DEF IInv, Parts, KeepsVerdict, VerdictInv, Verdicts, Active, Live,
     LeasedInv, UndecidedInv, Handler, Caught, Classified, ResumableDecision, Resumable
<1>8. ResumableDecision' /\ LeasedInv' /\ BlockerInv' /\ MarkingInv' /\ StageInv' /\ UndecidedInv'
  BY <1>1, <1>2, <1>3, <1>4, IInvNumbers DEF IInv, Parts, ResumableDecision, LeasedInv,
     BlockerInv, MarkingInv, StageInv, UndecidedInv, Active, Resumable, Expired, Handler,
     Caught, Classified
<1>9. WaitInv'
  BY <1>1, <1>2, <1>3, <1>4, IInvNumbers DEF IInv, Parts, WaitInv, Awaited, Handler, Caught,
     Classified, LeasedInv, StageInv, UndecidedInv, MarkingInv, Expired, ResumableDecision,
     Resumable
<1>10. StageKeepsWork' /\ VerdictInv' /\ FinishedInv'
  BY <1>1, <1>2, <1>3, <1>4, IInvNumbers DEF IInv, Parts, StageKeepsWork, StageStranded, VerdictInv,
     FinishedInv, Live, Open, Active, LeasedInv, UndecidedInv, Handler, Caught, Classified,
     ResumableDecision, Resumable
<1>11. AttemptsInv'
  BY <1>1, <1>2, <1>3, <1>4, IInvNumbers, SMTT(30), CircuitAssumption DEF IInv, Parts, AttemptsInv, Used,
     Passed, AtHorizon, Caught, LeasedInv, BlockerInv, StageInv, Expired
<1>12. OutageNotFailed'
  BY <1>1, <1>2, <1>4, IInvNumbers, CircuitAssumption DEF IInv, Parts, OutageNotFailed, Active,
     AttemptsInv, LeasedInv, Passed, AtHorizon, BlockerInv
<1> QED
  BY <1>5, <1>6, <1>7, <1>8, <1>9, <1>10, <1>11, <1>12 DEF Parts, Kept

LEMMA RetryComputeKeeps == IInv /\ RetryCompute => Parts' /\ Kept
<1> SUFFICES ASSUME IInv, RetryCompute PROVE Parts' /\ Kept
  OBVIOUS
<1>1. /\ handling.pc = "deciding" /\ handling.error = "compute1"
      /\ handling'.pc = "retry" /\ handling'.due = clock + ComputeDelay
  BY DEF RetryCompute, SecondPass, IInv
<1>2. handling'.due \in Nat /\ handling'.due >= clock
  BY <1>1, CircuitAssumption DEF IInv, CircuitTypeOK
<1>3. UNCHANGED <<clock, research, task, blocker, checkpoint, losses>>
  BY DEF RetryCompute
<1>4. losses = 0 => clock >= blocker.after
  BY <1>1 DEF IInv, Parts, WaitInv, Caught, Classified
<1>5. task.attempts < MaxAttempts
  BY DEF RetryCompute, SecondPass, IInv, CircuitTypeOK
<1>6. Anchored
  BY <1>1, <1>2, <1>3, <1>4, <1>5, IInvNumbers DEF IInv, Parts, Anchored, BlockerRows
<1>7. Heeds
  BY <1>1, <1>3, <1>5 DEF Heeds, Handler
<1>8. KeepsVerdict
  BY <1>1, <1>2, <1>3, <1>4, <1>5, IInvNumbers DEF IInv, Parts, KeepsVerdict, VerdictInv,
     Verdicts, Active, Live, LeasedInv, UndecidedInv, Caught, Classified, Resumable
<1>9. ResumableDecision' /\ LeasedInv' /\ BlockerInv' /\ MarkingInv' /\ StageInv' /\ UndecidedInv'
  BY <1>1, <1>2, <1>3, <1>4, <1>5, IInvNumbers DEF IInv, Parts, ResumableDecision, LeasedInv,
     BlockerInv, MarkingInv, StageInv, UndecidedInv, Active, Resumable, Expired, Handler,
     Caught, Classified
<1>10. WaitInv'
  BY <1>1, <1>2, <1>3, <1>4, <1>5, IInvNumbers DEF IInv, Parts, WaitInv, Awaited, Handler,
     Caught, Classified, LeasedInv, StageInv, UndecidedInv, MarkingInv, Expired,
     ResumableDecision, Resumable
<1>11. StageKeepsWork' /\ VerdictInv' /\ FinishedInv'
  BY <1>1, <1>2, <1>3, <1>4, <1>5 DEF IInv, Parts, StageKeepsWork, StageStranded, VerdictInv, FinishedInv,
     Live, Open, LeasedInv, UndecidedInv, Handler, Caught, Classified, ResumableDecision,
     Resumable
<1>12. AttemptsInv'
  BY <1>1, <1>2, <1>3, <1>4, <1>5, IInvNumbers, CircuitAssumption DEF IInv, Parts, AttemptsInv,
     Used, Passed, AtHorizon, Caught, LeasedInv, BlockerInv, StageInv, Expired
<1>13. OutageNotFailed'
  BY <1>1, <1>2, <1>3, <1>4, <1>5, IInvNumbers, CircuitAssumption DEF IInv, Parts,
     OutageNotFailed, Active, AttemptsInv, LeasedInv, Used, Passed, AtHorizon, BlockerInv
<1> QED
  BY <1>6, <1>7, <1>8, <1>9, <1>10, <1>11, <1>12, <1>13 DEF Parts, Kept

LEMMA QuarantineRunKeeps == IInv /\ QuarantineRun => Parts' /\ Kept
<1> SUFFICES ASSUME IInv, QuarantineRun PROVE Parts' /\ Kept
  OBVIOUS
<1>1. /\ handling.pc = "deciding" /\ handling'.pc = "close"
      /\ research' \in {"quarantined", "cancelled"}
  BY DEF QuarantineRun, Goto, IInv, CircuitTypeOK, HandlingRows
<1>2. UNCHANGED <<clock, task, blocker, checkpoint, losses>>
  BY DEF QuarantineRun
<1>3. Anchored
  BY <1>2, IInvNumbers DEF IInv, Parts, Anchored, BlockerRows
<1>4. Heeds
  BY <1>1, <1>2, IInvNumbers DEF IInv, Heeds, Handler
<1>5. KeepsVerdict
  BY <1>1, <1>2, IInvNumbers DEF IInv, Parts, KeepsVerdict, VerdictInv, Verdicts, Active, Live,
     LeasedInv, UndecidedInv, Handler, Caught, Classified, ResumableDecision, Resumable
<1>6. ResumableDecision' /\ LeasedInv' /\ BlockerInv' /\ MarkingInv' /\ StageInv' /\ UndecidedInv'
  BY <1>1, <1>2, IInvNumbers DEF IInv, Parts, ResumableDecision, LeasedInv, BlockerInv,
     MarkingInv, StageInv, UndecidedInv, Active, Resumable, Expired, Handler, Caught, Classified
<1>7. WaitInv'
  BY <1>1, <1>2, IInvNumbers DEF IInv, Parts, WaitInv, Awaited, Handler, Caught, Classified,
     LeasedInv, StageInv, UndecidedInv, MarkingInv, Expired, ResumableDecision, Resumable
<1>8. StageKeepsWork' /\ VerdictInv' /\ FinishedInv'
  BY <1>1, <1>2, IInvNumbers DEF IInv, Parts, StageKeepsWork, StageStranded, VerdictInv, FinishedInv, Live,
     Open, Active, LeasedInv, UndecidedInv, Handler, Caught, Classified, ResumableDecision,
     Resumable
<1>9. AttemptsInv'
  BY <1>1, <1>2, IInvNumbers, CircuitAssumption DEF Parts, AttemptsInv, Used, Passed, AtHorizon,
     Caught, LeasedInv, BlockerInv, StageInv
<1>10. OutageNotFailed'
  BY <1>1, <1>2, CircuitAssumption DEF IInv, Parts, OutageNotFailed, Active, AttemptsInv, Used,
     Passed, AtHorizon, BlockerInv
<1> QED
  BY <1>3, <1>4, <1>5, <1>6, <1>7, <1>8, <1>9, <1>10 DEF Parts, Kept

LEMMA FailTaskKeeps == IInv /\ FailTask => Parts' /\ Kept
<1> SUFFICES ASSUME IInv, FailTask PROVE Parts' /\ Kept
  OBVIOUS
<1>1. /\ handling.pc \in {"close", "retry"} /\ handling'.pc = "none" /\ task'.status = "failed"
      /\ research' \in {"failed", "cancelled", "quarantined"}
  BY DEF FailTask, FailedRunStatus, Idle, IInv, HandlingRows, TaskRows
<1>2. research \in {"cancelled", "quarantined"} => research' = research
  BY DEF FailTask, FailedRunStatus, IInv, CircuitTypeOK
<1>3. UNCHANGED <<clock, blocker, checkpoint, losses>>
  BY DEF FailTask
<1>4. handling.pc = "close" \/ task.attempts >= MaxAttempts
  BY DEF FailTask, CircuitTypeOK
<1>5. Anchored
  BY <1>1, <1>2, <1>3, IInvNumbers DEF IInv, Parts, Anchored, BlockerRows
<1>6. Heeds
  BY <1>1, <1>3, <1>4, IInvNumbers DEF IInv, Parts, Heeds, Handler
<1>7. KeepsVerdict
  BY <1>1, <1>2, <1>3, <1>4, IInvNumbers DEF IInv, Parts, KeepsVerdict, VerdictInv, Verdicts,
     Active, Live, LeasedInv, UndecidedInv, Handler, Caught, Classified, ResumableDecision,
     Resumable
<1>8. ResumableDecision' /\ LeasedInv' /\ BlockerInv' /\ MarkingInv' /\ StageInv' /\ UndecidedInv'
  BY <1>1, <1>2, <1>3, <1>4, IInvNumbers DEF IInv, Parts, ResumableDecision, LeasedInv,
     BlockerInv, MarkingInv, StageInv, UndecidedInv, Active, Resumable, Expired, Handler,
     Caught, Classified
<1>9. WaitInv'
  BY <1>1, <1>2, <1>3, <1>4, IInvNumbers DEF IInv, Parts, WaitInv, Awaited, Handler, Caught,
     Classified, LeasedInv, StageInv, UndecidedInv, MarkingInv, Expired, ResumableDecision,
     Resumable
<1>10. StageKeepsWork' /\ VerdictInv' /\ FinishedInv'
  BY <1>1, <1>2, <1>3, <1>4, IInvNumbers DEF IInv, Parts, StageKeepsWork, StageStranded, VerdictInv,
     FinishedInv, Live, Open, Active, LeasedInv, UndecidedInv, Handler, Caught, Classified,
     ResumableDecision, Resumable
<1>11. AttemptsInv'
  BY <1>1, <1>2, <1>3, <1>4, IInvNumbers, CircuitAssumption DEF Parts, AttemptsInv, Passed,
     AtHorizon, Caught, LeasedInv, BlockerInv, StageInv, Expired
<1>12. OutageNotFailed'
  BY <1>1, <1>2, <1>3, <1>4, IInvNumbers, SMTT(30), CircuitAssumption DEF IInv, Parts, OutageNotFailed,
     Active, AttemptsInv, LeasedInv, Used, Passed, AtHorizon, BlockerInv
<1> QED
  BY <1>5, <1>6, <1>7, <1>8, <1>9, <1>10, <1>11, <1>12 DEF Parts, Kept

LEMMA RequeueKeeps == IInv /\ Requeue => Parts' /\ Kept
<1> SUFFICES ASSUME IInv, Requeue PROVE Parts' /\ Kept
  OBVIOUS
<1>1. /\ handling.pc = "retry" /\ handling'.pc = "none"
      /\ task'.status = "queued" /\ task'.due = handling.due
  BY DEF Requeue, Idle, IInv, CircuitTypeOK, HandlingRows, TaskRows
<1>2. UNCHANGED <<clock, research, blocker, checkpoint, losses>>
  BY DEF Requeue
<1>3. task'.attempts = task.attempts
  BY DEF Requeue, IInv, CircuitTypeOK, TaskRows
<1>4. Anchored
  BY <1>1, <1>2, <1>3, IInvNumbers DEF Parts, Anchored, BlockerRows
<1>5. Heeds
  BY <1>1, <1>2, <1>3, IInvNumbers DEF IInv, Heeds, Handler
<1>6. KeepsVerdict
  BY <1>2, <1>3, IInvNumbers DEF IInv, Parts, KeepsVerdict, VerdictInv, Active, Live, LeasedInv,
     UndecidedInv, Handler, Caught, Classified, ResumableDecision, Resumable
<1>7. ResumableDecision' /\ LeasedInv' /\ BlockerInv' /\ MarkingInv' /\ StageInv' /\ UndecidedInv'
  BY <1>1, <1>2, <1>3, IInvNumbers DEF IInv, Parts, ResumableDecision, LeasedInv, BlockerInv,
     MarkingInv, StageInv, UndecidedInv, Active, Resumable, Expired, Handler, Caught, Classified
<1>8. WaitInv'
  BY <1>1, <1>2, <1>3, IInvNumbers DEF IInv, Parts, WaitInv, Awaited, Handler, Caught,
     Classified, LeasedInv, StageInv, UndecidedInv, MarkingInv, Expired, ResumableDecision,
     Resumable
<1>9. StageKeepsWork' /\ VerdictInv' /\ FinishedInv'
  BY <1>1, <1>2, <1>3, IInvNumbers DEF IInv, Parts, StageKeepsWork, StageStranded, VerdictInv, FinishedInv,
     Live, Open, Active, LeasedInv, UndecidedInv, Handler, Caught, Classified,
     ResumableDecision, Resumable
<1>10. AttemptsInv'
  BY <1>1, <1>2, <1>3, CircuitAssumption DEF IInv, Parts, AttemptsInv, Used, Passed, AtHorizon,
     Caught, LeasedInv, BlockerInv, StageInv
<1>11. OutageNotFailed'
  BY <1>1, <1>2, <1>3, IInvNumbers, CircuitAssumption DEF IInv, Parts, OutageNotFailed, Active,
     AttemptsInv, LeasedInv, Used, Passed, AtHorizon, BlockerInv
<1> QED
  BY <1>4, <1>5, <1>6, <1>7, <1>8, <1>9, <1>10, <1>11 DEF Parts, Kept

LEMMA CancelRunKeeps == IInv /\ CancelRun => Parts' /\ Kept
<1> SUFFICES ASSUME IInv, CancelRun PROVE Parts' /\ Kept
  OBVIOUS
<1>1. research' = "cancelled" /\ (task' = task \/ (task.status = "queued" /\ task'.status = "cancelled"))
  BY DEF CancelRun, IInv, CircuitTypeOK, TaskRows
<1>2. UNCHANGED <<clock, handling, blocker, checkpoint, losses>>
  BY DEF CancelRun
<1>3. task'.attempts = task.attempts
  BY DEF CancelRun, IInv
<1>4. Anchored
  BY <1>1, <1>2, <1>3, IInvNumbers DEF IInv, Parts, Anchored, BlockerRows
<1>5. Heeds
  BY <1>1, <1>2, <1>3, IInvNumbers DEF IInv, Parts, Heeds
<1>6. KeepsVerdict
  BY <1>1, <1>2, <1>3, IInvNumbers DEF IInv, Parts, KeepsVerdict, VerdictInv, Verdicts, Active,
     Live, LeasedInv, Handler, Caught, Classified, ResumableDecision
<1>7. ResumableDecision' /\ LeasedInv' /\ BlockerInv' /\ MarkingInv' /\ StageInv' /\ UndecidedInv'
  BY <1>1, <1>2, <1>3, IInvNumbers DEF IInv, Parts, ResumableDecision, LeasedInv, BlockerInv,
     MarkingInv, StageInv, UndecidedInv, Active, Resumable, Expired, Handler, Caught, Classified
<1>8. WaitInv'
  BY <1>1, <1>2, <1>3, IInvNumbers DEF IInv, Parts, WaitInv, Awaited, Handler, Caught,
     Classified, LeasedInv, StageInv, UndecidedInv, MarkingInv, Expired, ResumableDecision,
     Resumable
<1>9. StageKeepsWork' /\ VerdictInv' /\ FinishedInv'
  BY <1>1, <1>2, <1>3, IInvNumbers DEF IInv, Parts, StageKeepsWork, StageStranded, VerdictInv, FinishedInv,
     Live, Open, Active, LeasedInv, UndecidedInv, Handler, Caught, Classified,
     ResumableDecision, Resumable
<1>10. AttemptsInv'
  BY <1>1, <1>2, <1>3, IInvNumbers, CircuitAssumption DEF IInv, Parts, AttemptsInv, Used,
     Passed, AtHorizon, Caught, LeasedInv, BlockerInv, StageInv, Expired
<1>11. OutageNotFailed'
  BY <1>1, <1>2, <1>3, IInvNumbers, CircuitAssumption DEF IInv, Parts, OutageNotFailed, Active,
     AttemptsInv, LeasedInv, Used, Passed, AtHorizon, BlockerInv
<1> QED
  BY <1>4, <1>5, <1>6, <1>7, <1>8, <1>9, <1>10, <1>11 DEF Parts, Kept

LEMMA ResumeKeeps == IInv /\ Resume => Parts' /\ Kept
<1> SUFFICES ASSUME IInv, Resume PROVE Parts' /\ Kept
  OBVIOUS
<1>1. /\ research = "needs_decision" /\ research' = Active /\ ~Live /\ ~blocker'.open
      /\ handling'.pc = "none" /\ task'.status = "queued" /\ task'.due >= blocker.after
  BY DEF Resume, Resumable, Later, Idle, IInv, CircuitTypeOK, HandlingRows, TaskRows,
     BlockerRows
<1>2. blocker'.after = blocker.after /\ resumes' > resumes
  BY DEF Resume, IInv, CircuitTypeOK, BlockerRows
<1>3. UNCHANGED <<clock, checkpoint, losses>>
  BY DEF Resume
<1>4. task'.attempts = 0
  BY DEF Resume, CircuitTypeOK
<1>5. Anchored
  BY <1>1, <1>2, <1>3, IInvNumbers DEF Anchored
<1>6. Heeds
  BY <1>1, <1>3, <1>4, IInvNumbers DEF IInv, Parts, Heeds, Handler
<1>7. KeepsVerdict
  BY <1>1, <1>2, <1>3, <1>4, IInvNumbers DEF IInv, Parts, KeepsVerdict, Verdicts, Active, Live,
     LeasedInv, Handler, Caught, Classified, ResumableDecision, Resumable
<1>8. ResumableDecision' /\ LeasedInv' /\ BlockerInv' /\ MarkingInv' /\ StageInv' /\ UndecidedInv'
  BY <1>1, <1>3, <1>4, IInvNumbers DEF Parts, ResumableDecision, LeasedInv, BlockerInv,
     MarkingInv, StageInv, UndecidedInv, Active, Resumable, Expired, Handler, Caught, Classified
<1>9. WaitInv'
  BY <1>1, <1>2, <1>4, IInvNumbers DEF IInv, Parts, WaitInv, Awaited, Handler, Caught,
     Classified, StageInv, UndecidedInv, MarkingInv, Expired, ResumableDecision, Resumable
<1>10. StageKeepsWork' /\ VerdictInv' /\ FinishedInv'
  BY <1>1, <1>2, <1>3, <1>4, IInvNumbers DEF IInv, Parts, StageKeepsWork, StageStranded, VerdictInv,
     FinishedInv, Live, Open, Active, LeasedInv, UndecidedInv, Handler, Caught, Classified,
     ResumableDecision, Resumable
<1>11. AttemptsInv'
  BY <1>1, <1>2, <1>3, <1>4, IInvNumbers, CircuitAssumption DEF IInv, Parts, AttemptsInv, Used,
     Passed, AtHorizon, Caught, LeasedInv, BlockerInv, StageInv, Expired
<1>12. OutageNotFailed'
  BY <1>1, <1>3, <1>4, IInvNumbers, CircuitAssumption DEF IInv, OutageNotFailed, Active,
     AttemptsInv, LeasedInv, Used, Passed, AtHorizon, BlockerInv
<1> QED
  BY <1>5, <1>6, <1>7, <1>8, <1>9, <1>10, <1>11, <1>12 DEF Parts, Kept

LEMMA LoseExecutionKeeps == IInv /\ LoseExecution => Parts' /\ Kept
<1> SUFFICES ASSUME IInv, LoseExecution PROVE Parts' /\ Kept
  OBVIOUS
<1>1. handling.pc # "none" /\ handling'.pc = "none" /\ task'.status = task.status /\ losses' > 0
  BY DEF LoseExecution, Abandon, Idle, IInv, CircuitTypeOK, HandlingRows, TaskRows
<1>2. UNCHANGED <<clock, research, blocker, checkpoint>>
  BY DEF LoseExecution
<1>3. task'.attempts = task.attempts
  BY DEF LoseExecution, Abandon, IInv, CircuitTypeOK, TaskRows
<1>4. Anchored
  BY <1>1, <1>2, <1>3, IInvNumbers DEF Parts, Anchored, BlockerRows
<1>5. Heeds
  BY <1>1, <1>2, <1>3, IInvNumbers DEF IInv, Parts, Heeds
<1>6. KeepsVerdict
  BY <1>2, <1>3, IInvNumbers DEF IInv, Parts, KeepsVerdict, VerdictInv, Active, Live, LeasedInv,
     UndecidedInv, Handler, Caught, Classified, ResumableDecision, Resumable
<1>7. ResumableDecision' /\ LeasedInv' /\ BlockerInv' /\ MarkingInv' /\ StageInv' /\ UndecidedInv'
  BY <1>1, <1>2, <1>3, IInvNumbers DEF IInv, Parts, ResumableDecision, LeasedInv, BlockerInv,
     MarkingInv, StageInv, UndecidedInv, Active, Resumable, Expired, Handler, Caught, Classified
<1>8. WaitInv'
  BY <1>1, <1>2, <1>3, IInvNumbers DEF IInv, Parts, WaitInv, Awaited, Handler, Caught,
     LeasedInv, StageInv, UndecidedInv, MarkingInv, Expired, ResumableDecision
<1>9. StageKeepsWork' /\ VerdictInv' /\ FinishedInv'
  BY <1>1, <1>2, <1>3, IInvNumbers DEF IInv, Parts, StageKeepsWork, StageStranded, VerdictInv, FinishedInv,
     Live, Open, Active, LeasedInv, UndecidedInv, Handler, Caught, Classified,
     ResumableDecision, Resumable
<1>10. AttemptsInv'
  BY <1>1, <1>2, <1>3, CircuitAssumption DEF IInv, Parts, AttemptsInv, Used, AtHorizon, Caught,
     LeasedInv, BlockerInv, StageInv, Expired
<1>11. OutageNotFailed'
  BY <1>1, <1>2, IInvNumbers, CircuitAssumption DEF Parts, OutageNotFailed, Active, AttemptsInv,
     LeasedInv, Used, Passed, AtHorizon, BlockerInv
<1> QED
  BY <1>4, <1>5, <1>6, <1>7, <1>8, <1>9, <1>10, <1>11 DEF Parts, Kept

LEMMA TickKeeps == IInv /\ Tick => Parts' /\ Kept
<1> SUFFICES ASSUME IInv, Tick PROVE Parts' /\ Kept
  OBVIOUS
<1>1. clock' = clock + 1 /\ handling.pc \in {"none", "call", "compute"}
  BY DEF Tick, IInv, CircuitTypeOK
<1>2. UNCHANGED <<research, task, handling, blocker, checkpoint, losses>>
  BY DEF Tick
<1>3. Anchored
  BY <1>1, <1>2, IInvNumbers DEF IInv, Parts, Anchored, BlockerRows
<1>4. Heeds
  BY <1>2, IInvNumbers DEF IInv, Heeds
<1>5. KeepsVerdict
  BY <1>1, <1>2 DEF IInv, Parts, KeepsVerdict, Verdicts, Classified, Resumable
<1>6. ResumableDecision' /\ LeasedInv' /\ BlockerInv' /\ MarkingInv' /\ StageInv' /\ UndecidedInv'
  BY <1>1, <1>2, IInvNumbers DEF IInv, Parts, ResumableDecision, LeasedInv, BlockerInv,
     MarkingInv, StageInv, UndecidedInv, Active, Resumable, Expired, Handler, Caught, Classified
<1>7. WaitInv'
  BY <1>1, <1>2, IInvNumbers DEF IInv, Parts, WaitInv, Awaited, Handler, Caught, Classified,
     LeasedInv, StageInv, UndecidedInv, MarkingInv, Expired, ResumableDecision, Resumable
<1>8. StageKeepsWork' /\ VerdictInv' /\ FinishedInv'
  BY <1>1, <1>2, IInvNumbers DEF IInv, Parts, StageKeepsWork, StageStranded, VerdictInv, FinishedInv, Live,
     Open, Active, LeasedInv, UndecidedInv, Handler, Caught, Classified, ResumableDecision,
     Resumable
<1>9. AttemptsInv'
  BY <1>1, <1>2, IInvNumbers, SMTT(30), CircuitAssumption DEF IInv, Parts, AttemptsInv, Used, Passed,
     AtHorizon, Caught, LeasedInv, BlockerInv, StageInv, Expired
<1>10. OutageNotFailed'
  BY <1>1, <1>2, IInvNumbers, CircuitAssumption DEF IInv, Parts, OutageNotFailed, Active,
     AttemptsInv, LeasedInv, Used, Passed, AtHorizon, BlockerInv
<1> QED
  BY <1>3, <1>4, <1>5, <1>6, <1>7, <1>8, <1>9, <1>10 DEF Parts, Kept

-----------------------------------------------------------------------------
(* The whole *)

LEMMA CircuitInitial == CircuitInit => IInv
<1> SUFFICES ASSUME CircuitInit PROVE IInv
  OBVIOUS
<1>1. CircuitTypeOK
  BY CircuitAssumption DEF CircuitInit, CircuitTypeOK, ResearchStates, Active, TaskRows,
     HandlingRows, BlockerRows, CheckpointRows, Idle, NoBlocker
<1>2. ResumableDecision /\ StageKeepsWork /\ LeasedInv /\ BlockerInv /\ MarkingInv /\ StageInv
  BY DEF CircuitInit, Idle, NoBlocker, Active, ResumableDecision, StageKeepsWork, StageStranded, Live,
     LeasedInv, BlockerInv, MarkingInv, StageInv
<1>3. UndecidedInv /\ WaitInv /\ VerdictInv /\ FinishedInv
  BY DEF CircuitInit, Idle, NoBlocker, Active, UndecidedInv, Handler, Caught, Classified,
     WaitInv, Awaited, VerdictInv, FinishedInv
<1>4. AttemptsInv /\ OutageNotFailed
  BY DEF CircuitInit, Idle, NoBlocker, Active, AttemptsInv, Used, Passed, Caught,
     OutageNotFailed
<1> QED
  BY <1>1, <1>2, <1>3, <1>4 DEF IInv, Parts

\* Every step of a worker, an action at a time.

LEMMA WorkerKeeps == IInv /\ Worker => IInv' /\ Kept
<1> SUFFICES ASSUME IInv, Worker PROVE IInv' /\ Kept
  OBVIOUS
<1>1. CASE Lease
  BY <1>1, LeaseType, LeaseKeeps DEF IInv
<1>2. CASE SweepTask
  BY <1>2, SweepTaskType, SweepTaskKeeps DEF IInv
<1>3. CASE BeginTask
  BY <1>3, BeginTaskType, BeginTaskKeeps DEF IInv
<1>4. CASE CancelReturned
  BY <1>4, CancelReturnedType, CancelReturnedKeeps DEF IInv
<1>5. CASE CancelFailing
  BY <1>5, CancelFailingType, CancelFailingKeeps DEF IInv
<1>6. CASE EnterStage
  BY <1>6, EnterStageType, EnterStageKeeps DEF IInv
<1>7. CASE Mark
  BY <1>7, MarkType, MarkKeeps DEF IInv
<1>8. CASE MarkStale
  BY <1>8, MarkStaleType, MarkStaleKeeps DEF IInv
<1>9. CASE StageDone
  BY <1>9, StageDoneType, StageDoneKeeps DEF IInv
<1>10. CASE StageRethrows
  BY <1>10, StageRethrowsType, StageRethrowsKeeps DEF IInv
<1>11. CASE StartStage
  BY <1>11, StartStageType, StartStageKeeps DEF IInv
<1>12. CASE Unavailable
  BY <1>12, UnavailableType, UnavailableKeeps DEF IInv
<1>13. CASE RefuseSave
  BY <1>13, RefuseSaveType, RefuseSaveKeeps DEF IInv
<1>14. CASE RefuseRun
  BY <1>14, RefuseRunType, RefuseRunKeeps DEF IInv
<1>15. CASE BreakSave
  BY <1>15, BreakSaveType, BreakSaveKeeps DEF IInv
<1>16. CASE BreakRun
  BY <1>16, BreakRunType, BreakRunKeeps DEF IInv
<1>17. CASE Overrun
  BY <1>17, OverrunType, OverrunKeeps DEF IInv
<1>18. CASE Fault
  BY <1>18, FaultType, FaultKeeps DEF IInv
<1>19. CASE AskScope
  BY <1>19, AskScopeType, AskScopeKeeps DEF IInv
<1>20. CASE Persist
  BY <1>20, PersistType, PersistKeeps DEF IInv
<1>21. CASE SaveComplete
  BY <1>21, SaveCompleteType, SaveCompleteKeeps DEF IInv
<1>22. CASE ResolveBlocker
  BY <1>22, ResolveBlockerType, ResolveBlockerKeeps DEF IInv
<1>23. CASE CompleteTask
  BY <1>23, CompleteTaskType, CompleteTaskKeeps DEF IInv
<1>24. CASE Classify
  BY <1>24, ClassifyType, ClassifyKeeps DEF IInv
<1>25. CASE OpenCircuit
  BY <1>25, OpenCircuitType, OpenCircuitKeeps DEF IInv
<1>26. CASE DecideLate
  BY <1>26, DecideLateType, DecideLateKeeps DEF IInv
<1>27. CASE DecideStale
  BY <1>27, DecideStaleType, DecideStaleKeeps DEF IInv
<1>28. CASE RetryCompute
  BY <1>28, RetryComputeType, RetryComputeKeeps DEF IInv
<1>29. CASE QuarantineRun
  BY <1>29, QuarantineRunType, QuarantineRunKeeps DEF IInv
<1>30. CASE FailTask
  BY <1>30, FailTaskType, FailTaskKeeps DEF IInv
<1>31. CASE Requeue
  BY <1>31, RequeueType, RequeueKeeps DEF IInv
<1>32. CASE SaveQuestion
  BY <1>32, SaveQuestionType, SaveQuestionKeeps DEF IInv
<1>33. CASE QuestionFails
  BY <1>33, QuestionFailsType, QuestionFailsKeeps DEF IInv
<1> QED
  BY <1>1, <1>2, <1>3, <1>4, <1>5, <1>6, <1>7, <1>8, <1>9, <1>10, <1>11, <1>12, <1>13, <1>14,
     <1>15, <1>16, <1>17, <1>18, <1>19, <1>20, <1>21, <1>22, <1>23, <1>24, <1>25, <1>26, <1>27,
     <1>28, <1>29, <1>30, <1>31, <1>32, <1>33 DEF Worker

LEMMA CircuitInductive == IInv /\ [CircuitNext]_circuitVars => IInv'
<1> SUFFICES ASSUME IInv, [CircuitNext]_circuitVars PROVE IInv'
  OBVIOUS
<1>1. CASE Worker
  BY <1>1, WorkerKeeps
<1>2. CASE CancelRun
  BY <1>2, CancelRunType, CancelRunKeeps DEF IInv
<1>3. CASE Resume
  BY <1>3, ResumeType, ResumeKeeps DEF IInv
<1>4. CASE LoseExecution
  BY <1>4, LoseExecutionType, LoseExecutionKeeps DEF IInv
<1>5. CASE Tick
  BY <1>5, TickType, TickKeeps DEF IInv
<1>6. CASE UNCHANGED circuitVars
  <2>1. UNCHANGED <<clock, research, task, handling, blocker, checkpoint, resumes, losses>>
    BY <1>6 DEF circuitVars
  <2>2. CircuitTypeOK'
    BY <2>1 DEF IInv, CircuitTypeOK
  <2>3. (ResumableDecision /\ StageKeepsWork /\ LeasedInv /\ BlockerInv /\ MarkingInv /\ StageInv /\ UndecidedInv)'
    BY <2>1 DEF IInv, Parts, ResumableDecision, Resumable, StageKeepsWork, StageStranded, Live, LeasedInv,
       BlockerInv, MarkingInv, StageInv, Expired, UndecidedInv, Classified
  <2>4. (WaitInv /\ VerdictInv /\ FinishedInv)'
    BY <2>1 DEF IInv, Parts, WaitInv, Awaited, Classified, VerdictInv, Live, FinishedInv, StageStranded,
       Caught, Open
  <2>5. (AttemptsInv /\ OutageNotFailed)'
    BY <2>1 DEF IInv, Parts, AttemptsInv, Used, Passed, AtHorizon, OutageNotFailed
  <2> QED
    BY <2>2, <2>3, <2>4, <2>5 DEF IInv, Parts
<1> QED
  BY <1>1, <1>2, <1>3, <1>4, <1>5, <1>6 DEF CircuitNext

LEMMA CircuitKeeps == IInv /\ [CircuitNext]_circuitVars => [Kept]_circuitVars
<1> SUFFICES ASSUME IInv, CircuitNext PROVE Kept
  OBVIOUS
<1> QED
  BY WorkerKeeps, CancelRunKeeps, ResumeKeeps, LoseExecutionKeeps, TickKeeps DEF CircuitNext

LEMMA CircuitInvariant == CircuitSpec => []IInv
<1> QED
  BY CircuitInitial, CircuitInductive, PTL DEF CircuitSpec

-----------------------------------------------------------------------------
(* The theorems *)

\* Every row of the run, its job, its blocker and its checkpoint stays in its
\* domain, and no job is granted more attempts than it has.
THEOREM CircuitTypes == CircuitSpec => []CircuitTypeOK
<1>1. IInv => CircuitTypeOK
  BY DEF IInv
<1> QED
  BY <1>1, CircuitInvariant, PTL

\* A run that asks for the decision of an outage can be resumed.
THEOREM DecisionsResumable == CircuitSpec => []ResumableDecision
<1>1. IInv => ResumableDecision
  BY DEF IInv, Parts
<1> QED
  BY <1>1, CircuitInvariant, PTL

\* An open run has a job, except after a loss between the checkpoint of a failed
\* integrity or of a question and the run.
THEOREM OpenRunsHaveWork == CircuitSpec => []StageKeepsWork
<1>1. IInv => StageKeepsWork
  BY DEF IInv, Parts
<1> QED
  BY <1>1, CircuitInvariant, PTL

\* An outage alone never uses up the attempts of its job.
THEOREM OutagesNotFailed == CircuitSpec => []OutageNotFailed
<1>1. IInv => OutageNotFailed
  BY DEF IInv, Parts
<1> QED
  BY <1>1, CircuitInvariant, PTL

\* A restart neither extends the window nor repeats a slot.
THEOREM WindowsAnchored == CircuitSpec => WindowAnchored
<1>1. [Kept]_circuitVars => [Anchored]_circuitVars
  BY DEF Kept
<1> QED
  BY <1>1, CircuitInvariant, CircuitKeeps, PTL DEF CircuitSpec, WindowAnchored

\* The provider is never called before the time it named, unless an execution
\* was lost.
THEOREM RetryAftersKept == CircuitSpec => RetryAfterKept
<1>1. [Kept]_circuitVars => [Heeds]_circuitVars
  BY DEF Kept
<1> QED
  BY <1>1, CircuitInvariant, CircuitKeeps, PTL DEF CircuitSpec, RetryAfterKept

\* Without a loss a verdict about the run stands until its visitor acts.
THEOREM VerdictsKept == CircuitSpec => VerdictKept
<1>1. [Kept]_circuitVars => [KeepsVerdict]_circuitVars
  BY DEF Kept
<1> QED
  BY <1>1, CircuitInvariant, CircuitKeeps, PTL DEF CircuitSpec, VerdictKept
=============================================================================
