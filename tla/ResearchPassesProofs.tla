------------------------ MODULE ResearchPassesProofs ------------------------
(***************************************************************************)
(* Theorems about ResearchPasses, for any numbers of passes, segments,     *)
(* retries and attempts, and any interruptions; and about the two          *)
(* pipelines that MCOutages puts side by side.                             *)
(***************************************************************************)
EXTENDS MCOutages, DependencyCircuitProofs, TLAPS

Facts ==
    /\ Phases \in Nat \ {0} /\ GapLimit \in Nat \ {0} /\ SegmentLimit \in Nat \ {0}
    /\ RetrySlots \in Nat /\ PassAttempts \in Nat \ {0} /\ ResumeAttempts \in Nat \ {0}
    /\ MaxInterruptions \in Nat
    /\ Last \in Nat /\ Last >= Phases
    /\ Passes \subseteq Nat /\ 0 \in Passes /\ FirstKey \in JobKeys

LEMMA ConstantFacts == Facts
<1>1. Phases \in Nat \ {0} /\ GapLimit \in Nat \ {0}
  BY ResearchAssumption
<1>2. Last \in Nat /\ Last >= Phases
  BY <1>1 DEF Last
<1>3. Passes \subseteq Nat /\ 0 \in Passes
  BY <1>2 DEF Passes
<1>4. FirstKey \in JobKeys
  BY <1>3 DEF FirstKey, JobKeys
<1> QED
  BY <1>1, <1>2, <1>3, <1>4, ResearchAssumption DEF Facts

-----------------------------------------------------------------------------
(* The rows of the queue *)

JobsOK(rows) == /\ DOMAIN rows \subseteq JobKeys /\ FirstKey \in DOMAIN rows
                /\ \A k \in DOMAIN rows : rows[k] \in ResearchJobs

LEMMA PutKeeps ==
    ASSUME NEW rows, JobsOK(rows), NEW key \in JobKeys, NEW row \in ResearchJobs
    PROVE  /\ JobsOK(Put(rows, key, row))
           /\ DOMAIN Put(rows, key, row) = DOMAIN rows \cup {key}
BY DEF JobsOK, Put

LEMMA PassJobTyped ==
    ASSUME NEW gen \in Nat, NEW seg \in Nat, NEW max \in Nat \ {0}
    PROVE  PassJob(gen, seg, max) \in ResearchJobs
BY DEF PassJob, ResearchJobs

LEMMA RowCancelled ==
    ASSUME NEW row \in ResearchJobs
    PROVE  [row EXCEPT !.status = "cancelled"] \in ResearchJobs
BY DEF ResearchJobs

LEMMA WithoutKeeps ==
    ASSUME JobsOK(jobs), NEW K
    PROVE  JobsOK(Without(K)) /\ DOMAIN Without(K) = DOMAIN jobs
<1>1. \A k \in DOMAIN jobs : [jobs[k] EXCEPT !.status = "cancelled"] \in ResearchJobs
  BY RowCancelled DEF JobsOK
<1> QED
  BY <1>1 DEF JobsOK, Without

LEMMA EnqueuedKeeps ==
    ASSUME JobsOK(jobs), NEW p \in Passes, NEW gen \in Nat, NEW seg \in Nat,
           NEW max \in Nat \ {0}
    PROVE  /\ JobsOK(Enqueued(p, gen, seg, max))
           /\ DOMAIN jobs \subseteq DOMAIN Enqueued(p, gen, seg, max)
           /\ \A k \in DOMAIN Enqueued(p, gen, seg, max) : k \in DOMAIN jobs \/ k.pass = p
<1> DEFINE key == [kind |-> "pass", pass |-> p, number |-> gen]
<1>1. key \in JobKeys /\ key.pass = p
  BY DEF JobKeys
<1>2. PassJob(gen, seg, max) \in ResearchJobs
  BY PassJobTyped
<1> HIDE DEF key
<1>3. /\ JobsOK(Put(jobs, key, PassJob(gen, seg, max)))
      /\ DOMAIN Put(jobs, key, PassJob(gen, seg, max)) = DOMAIN jobs \cup {key}
  BY <1>1, <1>2, PutKeeps
<1>4. Enqueued(p, gen, seg, max) \in {jobs, Put(jobs, key, PassJob(gen, seg, max))}
  BY DEF Enqueued, key
<1> QED
  BY <1>1, <1>3, <1>4

LEMMA RowOf == ASSUME JobsOK(jobs), NEW k \in DOMAIN jobs
               PROVE  jobs[k] \in ResearchJobs /\ k \in JobKeys
BY DEF JobsOK

-----------------------------------------------------------------------------
(* Types *)

TypeInv == ResearchTypeOK /\ JobsOK(jobs)

LEMMA StepKeeps ==
    ASSUME worker \in [pc : Places, job : DOMAIN jobs], NEW pc \in Places, Step(pc)
    PROVE  worker' \in [pc : Places, job : DOMAIN jobs] /\ worker'.pc = pc /\ worker'.job = worker.job
BY DEF Step

LEMMA SetKeeps ==
    ASSUME run \in ResearchRuns, NEW status \in RunStatuses,
           SetStatus(status)
    PROVE  /\ run' \in ResearchRuns
           /\ run'.status = status /\ run'.noNew = run.noNew
BY DEF SetStatus, ResearchRuns

LEMMA CheckpointKeeps ==
    ASSUME NEW p \in Passes, NEW gen \in Nat, NEW seg \in Nat,
           NEW status \in {"none", "active", "queued", "paused", "complete"},
           Checkpoint(p, gen, seg, status)
    PROVE  resume' \in Resumes /\ resume'.pass = p /\ resume'.status = status
BY DEF Checkpoint, Resumes

\* What the job of an execution and the checkpoints hold.
LEMMA TypedParts ==
    ASSUME TypeInv
    PROVE  /\ Pass \in Passes /\ worker.job \in JobKeys /\ worker.job \in DOMAIN jobs
           /\ worker.job.number \in Nat
           /\ Job \in ResearchJobs /\ Job.gen \in Nat /\ Job.seg \in Nat /\ Job.fails \in Nat
           /\ resume.pass \in Passes /\ resume.gen \in Nat /\ resume.seg \in Nat
           /\ resume.status \in {"none", "active", "queued", "paused", "complete"}
           /\ passes[Pass].seg \in Nat
           /\ Failures \in Nat
<1>1. worker.job \in DOMAIN jobs
  BY DEF TypeInv, ResearchTypeOK
<1>2. worker.job \in JobKeys /\ Job \in ResearchJobs
  BY <1>1 DEF TypeInv, JobsOK, Job
<1>3. Pass \in Passes /\ worker.job.number \in Nat
  BY <1>2 DEF JobKeys, Pass
<1>4. Job.gen \in Nat /\ Job.seg \in Nat /\ Job.fails \in Nat
  BY <1>2 DEF ResearchJobs
<1>5. resume \in Resumes /\ passes \in [Passes -> PassRows]
  BY DEF TypeInv, ResearchTypeOK
<1>6. /\ resume.pass \in Passes /\ resume.gen \in Nat /\ resume.seg \in Nat
      /\ resume.status \in {"none", "active", "queued", "paused", "complete"}
  BY <1>5 DEF Resumes
<1>7. passes[Pass].seg \in Nat
  BY <1>3, <1>5 DEF PassRows
<1>8. Failures \in Nat
  BY <1>4 DEF Failures
<1> QED
  BY <1>1, <1>2, <1>3, <1>4, <1>6, <1>7, <1>8

\* What an outage does to the rows and the blocker.
OutageRows(only) ==
    Put(Without(QueuedRetries \cup OtherLeases),
        [kind |-> "retry", pass |-> Pass, number |-> researchBlocker.gen + 1],
        [PassJob(Job.gen, Job.seg, 1) EXCEPT !.fails = Failures, !.only = only])

LEMMA PersistOutageParts ==
    ASSUME PersistOutage
    PROVE  /\ \E only \in BOOLEAN : Opens(only)
           /\ \/ jobs' = Without(QueuedRetries \cup OtherLeases)
              \/ \E only \in BOOLEAN : jobs' = OutageRows(only)
BY DEF PersistOutage, OutageRows

LEMMA OpensTyped ==
    ASSUME TypeInv, NEW only \in BOOLEAN, Opens(only)
    PROVE  researchBlocker' \in [gen : Nat, open : BOOLEAN, fails : Nat, only : BOOLEAN]
<1>1. researchBlocker.gen \in Nat
  BY DEF TypeInv, ResearchTypeOK
<1>2. Failures \in Nat
  BY TypedParts
<1> QED
  BY <1>1, <1>2 DEF Opens

LEMMA OutageRowsKeep ==
    ASSUME TypeInv
    PROVE  /\ \A only \in BOOLEAN : /\ JobsOK(OutageRows(only))
                                  /\ DOMAIN jobs \subseteq DOMAIN OutageRows(only)
                                  /\ \A k \in DOMAIN OutageRows(only) :
                                        k \in DOMAIN jobs \/ k.pass = Pass
           /\ JobsOK(Without(QueuedRetries \cup OtherLeases))
           /\ DOMAIN Without(QueuedRetries \cup OtherLeases) = DOMAIN jobs
<1> DEFINE rows == Without(QueuedRetries \cup OtherLeases)
           key == [kind |-> "retry", pass |-> Pass, number |-> researchBlocker.gen + 1]
           row(only) == [PassJob(Job.gen, Job.seg, 1) EXCEPT !.fails = Failures, !.only = only]
<1>1. JobsOK(rows) /\ DOMAIN rows = DOMAIN jobs
  BY WithoutKeeps DEF TypeInv
<1>2. researchBlocker.gen \in Nat
  BY DEF TypeInv, ResearchTypeOK
<1>3. key \in JobKeys /\ key.pass = Pass
  BY <1>2, TypedParts DEF JobKeys
<1>4. PassJob(Job.gen, Job.seg, 1) \in ResearchJobs
  BY PassJobTyped, TypedParts
<1>5. \A only \in BOOLEAN : row(only) \in ResearchJobs
  BY <1>4, TypedParts DEF ResearchJobs
<1>6. \A only : OutageRows(only) = Put(rows, key, row(only))
  BY DEF OutageRows
<1> HIDE DEF rows, key, row
<1>7. ASSUME NEW only \in BOOLEAN
      PROVE  /\ JobsOK(OutageRows(only))
             /\ DOMAIN OutageRows(only) = DOMAIN jobs \cup {key}
  <2>1. row(only) \in ResearchJobs
    BY <1>5
  <2>2. JobsOK(Put(rows, key, row(only))) /\ DOMAIN Put(rows, key, row(only)) = DOMAIN rows \cup {key}
    BY <1>1, <1>3, <2>1, PutKeeps
  <2> QED
    BY <1>1, <1>6, <2>2
<1> QED
  BY <1>1, <1>3, <1>7 DEF rows

-----------------------------------------------------------------------------
(* What is counted *)

\* The places of an execution that works on the pass of the checkpoint.
InPass == {"starting", "call", "reported", "continued", "counting", "advancing",
           "converged", "handoff", "matching", "pausing", "awaiting", "blocking"}
Counted == {"counting", "advancing", "converged"}

\* No job is ahead of the checkpoint, and an execution in its pass is level.
LevelInv ==
    /\ \A k \in DOMAIN jobs : k.pass <= resume.pass
    /\ worker.pc \in InPass => Pass = resume.pass
    /\ resume.status = "none" => resume.pass = 0
\* The counted passes are the complete ones before the checkpoint's, and
\* perhaps that one.
OrderInv ==
    /\ \A p \in Passes : IsGap(p) /\ p < resume.pass => advanced[p] # NotPrepared
    /\ \A p \in Passes : advanced[p] # NotPrepared =>
          IsGap(p) /\ p <= resume.pass /\ passes[p].status = "complete"
    /\ worker.pc = "reported" => passes[Pass].status = "complete"
    /\ worker.pc \in Counted => advanced[Pass] # NotPrepared
\* The counter of the run is that of the last pass that was counted.
CounterInv ==
    /\ ~IsGap(resume.pass) => run.noNew = 0
    /\ IsGap(resume.pass) /\ advanced[resume.pass] = NotPrepared =>
          run.noNew = CountBefore(resume.pass)
    /\ worker.pc \in {"advancing", "converged"} => run.noNew = advanced[Pass]
CountInv == LevelInv /\ OrderInv /\ CounterInv /\ NoNewExact

LEMMA TypesStep ==
    ASSUME TypeInv, CountInv, [ResearchNext]_researchVars
    PROVE  TypeInv'
<1>1. ASSUME LeasePass PROVE TypeInv'
  <2>1. PICK k \in DOMAIN jobs : /\ jobs' = [jobs EXCEPT ![k].status = "leased", ![k].attempts = @ + 1]
                            /\ worker' = [pc |-> IF jobs[k].only THEN "wake" ELSE "claim", job |-> k]
    BY <1>1 DEF LeasePass
  <2>2. jobs[k] \in ResearchJobs
    BY <1>1, RowOf DEF TypeInv
  <2>3. jobs'[k] \in ResearchJobs
    BY <1>1, <2>1, <2>2 DEF ResearchJobs
  <2>4. JobsOK(jobs') /\ DOMAIN jobs' = DOMAIN jobs
    BY <1>1, <2>1, <2>3 DEF JobsOK, TypeInv
  <2>5. worker' \in [pc : Places, job : DOMAIN jobs]
    BY <1>1, <2>1 DEF Places
  <2> QED
    BY <1>1, <2>1, <2>2, <2>3, <2>4, <2>5 DEF LeasePass, Unmoved, Bound, TypeInv, ResearchTypeOK, JobsOK
<1>2. ASSUME SweepPass PROVE TypeInv'
  <2>1. PICK k \in DOMAIN jobs : jobs' = [jobs EXCEPT ![k].status = "failed"]
    BY <1>2 DEF SweepPass
  <2>2. jobs[k] \in ResearchJobs
    BY <1>2, RowOf DEF TypeInv
  <2>3. jobs'[k] \in ResearchJobs
    BY <1>2, <2>1, <2>2 DEF ResearchJobs
  <2>4. JobsOK(jobs') /\ DOMAIN jobs' = DOMAIN jobs
    BY <1>2, <2>1, <2>3 DEF JobsOK, TypeInv
  <2>5. run' \in ResearchRuns
    BY <1>2, SetKeeps DEF SweepPass, RunStatuses, TypeInv, ResearchTypeOK
  <2> QED
    BY <1>2, <2>1, <2>2, <2>3, <2>4, <2>5 DEF SweepPass, Unmoved, Bound, TypeInv, ResearchTypeOK, JobsOK
<1>3. ASSUME FinishPass PROVE TypeInv'
  <2>1. jobs' = [jobs EXCEPT ![worker.job].status = "complete"]
    BY <1>3 DEF FinishPass
  <2>2. jobs'[worker.job] \in ResearchJobs
    BY <1>3, <2>1, TypedParts DEF ResearchJobs, Job
  <2>3. JobsOK(jobs') /\ DOMAIN jobs' = DOMAIN jobs
    BY <1>3, <2>1, <2>2 DEF JobsOK, TypeInv
  <2>4. worker' \in [pc : Places, job : DOMAIN jobs]
    BY <1>3 DEF FinishPass, NoWork, Places, TypeInv, JobsOK
  <2> QED
    BY <1>3, <2>1, <2>2, <2>3, <2>4 DEF FinishPass, Unmoved, Bound, TypeInv, ResearchTypeOK, JobsOK
<1>4. ASSUME RunMatching PROVE TypeInv'
  <2>1. run' \in ResearchRuns
    BY <1>4, SetKeeps DEF RunMatching, RunStatuses, TypeInv, ResearchTypeOK
  <2> QED
    BY <1>4, <2>1 DEF RunMatching, Unmoved, Bound, TypeInv, ResearchTypeOK, JobsOK
<1>5. ASSUME WakeForDecision PROVE TypeInv'
  <2>1. worker' \in [pc : Places, job : DOMAIN jobs]
    BY <1>5, StepKeeps DEF WakeForDecision, Places, TypeInv, ResearchTypeOK
  <2>2. run' \in ResearchRuns
    BY <1>5, SetKeeps DEF WakeForDecision, RunStatuses, TypeInv, ResearchTypeOK
  <2>3. JobsOK(jobs') /\ DOMAIN jobs' = DOMAIN jobs
    BY <1>5, WithoutKeeps DEF WakeForDecision, TypeInv
  <2>4. researchBlocker' \in [gen : Nat, open : BOOLEAN, fails : Nat, only : BOOLEAN]
    BY <1>5 DEF WakeForDecision, TypeInv, ResearchTypeOK
  <2> QED
    BY <1>5, <2>1, <2>2, <2>3, <2>4 DEF WakeForDecision, Unmoved, Bound, TypeInv, ResearchTypeOK, JobsOK
<1>6. ASSUME ClaimPass PROVE TypeInv'
  <2>1. worker' \in [pc : Places, job : DOMAIN jobs]
    BY <1>6, StepKeeps DEF ClaimPass, Places, TypeInv, ResearchTypeOK
  <2> QED
    BY <1>6, <2>1 DEF ClaimPass, Unmoved, Bound, TypeInv, ResearchTypeOK, JobsOK
<1>7. ASSUME Repair PROVE TypeInv'
  <2>1. worker' \in [pc : Places, job : DOMAIN jobs]
    BY <1>7, StepKeeps DEF Repair, Places, TypeInv, ResearchTypeOK
  <2>2. JobsOK(jobs') /\ DOMAIN jobs \subseteq DOMAIN jobs'
    BY <1>7, EnqueuedKeeps, TypedParts, ConstantFacts DEF Repair, Facts, TypeInv
  <2>3. matching' \in {"none", "queued", "done", "cancelled"}
    BY <1>7 DEF Repair, TypeInv, ResearchTypeOK
  <2> QED
    BY <1>7, <2>1, <2>2, <2>3 DEF Repair, Unmoved, Bound, TypeInv, ResearchTypeOK, JobsOK
<1>8. ASSUME BeginPass PROVE TypeInv'
  <2>1. worker' \in [pc : Places, job : DOMAIN jobs]
    BY <1>8, StepKeeps DEF BeginPass, Places, TypeInv, ResearchTypeOK
  <2>2. resume' \in Resumes
    BY <1>8, CheckpointKeeps, TypedParts, ConstantFacts DEF BeginPass, Facts, TypeInv, ResearchTypeOK
  <2> QED
    BY <1>8, <2>1, <2>2 DEF BeginPass, Unmoved, Bound, TypeInv, ResearchTypeOK, JobsOK
<1>9. ASSUME StartRun PROVE TypeInv'
  <2>1. worker' \in [pc : Places, job : DOMAIN jobs]
    BY <1>9, StepKeeps DEF StartRun, Places, TypeInv, ResearchTypeOK
  <2>2. run' \in ResearchRuns
    BY <1>9, SetKeeps DEF StartRun, RunStatuses, TypeInv, ResearchTypeOK
  <2> QED
    BY <1>9, <2>1, <2>2 DEF StartRun, Unmoved, Bound, TypeInv, ResearchTypeOK, JobsOK
<1>10. ASSUME Replay PROVE TypeInv'
  <2>1. worker' \in [pc : Places, job : DOMAIN jobs]
    BY <1>10, StepKeeps DEF Replay, Places, TypeInv, ResearchTypeOK
  <2> QED
    BY <1>10, <2>1 DEF Replay, Unmoved, Bound, TypeInv, ResearchTypeOK, JobsOK
<1>11. ASSUME ReportPass PROVE TypeInv'
  <2>1. worker' \in [pc : Places, job : DOMAIN jobs]
    BY <1>11, StepKeeps DEF ReportPass, Places, TypeInv, ResearchTypeOK
  <2>2. passes' \in [Passes -> PassRows]
    BY <1>11, TypedParts, ConstantFacts DEF ReportPass, PassRows, Reports, Facts, TypeInv, ResearchTypeOK
  <2>3. coverage' \in {"empty", "partial", "ready"}
    BY <1>11 DEF ReportPass, Covers
  <2> QED
    BY <1>11, <2>1, <2>2, <2>3 DEF ReportPass, Unmoved, Bound, TypeInv, ResearchTypeOK, JobsOK
<1>12. ASSUME EndSegment PROVE TypeInv'
  <2>1. worker' \in [pc : Places, job : DOMAIN jobs]
    BY <1>12, StepKeeps DEF EndSegment, Places, TypeInv, ResearchTypeOK
  <2>2. passes' \in [Passes -> PassRows]
    BY <1>12, TypedParts, ConstantFacts DEF EndSegment, PassRows, Reports, Facts, TypeInv, ResearchTypeOK
  <2>3. coverage' \in {"empty", "partial", "ready"}
    BY <1>12 DEF EndSegment, Covers
  <2>4. interruptions' \in Nat
    BY <1>12 DEF EndSegment, TypeInv, ResearchTypeOK
  <2> QED
    BY <1>12, <2>1, <2>2, <2>3, <2>4 DEF EndSegment, Unmoved, Bound, TypeInv, ResearchTypeOK, JobsOK
<1>13. ASSUME ExhaustBudget PROVE TypeInv'
  <2>1. worker' \in [pc : Places, job : DOMAIN jobs]
    BY <1>13, StepKeeps DEF ExhaustBudget, Places, TypeInv, ResearchTypeOK
  <2>2. run' \in ResearchRuns
    BY <1>13 DEF ExhaustBudget, RunStatuses, ResearchRuns, TypeInv, ResearchTypeOK
  <2>3. interruptions' \in Nat
    BY <1>13 DEF ExhaustBudget, TypeInv, ResearchTypeOK
  <2> QED
    BY <1>13, <2>1, <2>2, <2>3 DEF ExhaustBudget, Unmoved, Bound, TypeInv, ResearchTypeOK, JobsOK
<1>14. ASSUME ProviderFails PROVE TypeInv'
  <2>1. worker' \in [pc : Places, job : DOMAIN jobs]
    BY <1>14, StepKeeps DEF ProviderFails, Places, TypeInv, ResearchTypeOK
  <2>2. interruptions' \in Nat
    BY <1>14 DEF ProviderFails, TypeInv, ResearchTypeOK
  <2> QED
    BY <1>14, <2>1, <2>2 DEF ProviderFails, Unmoved, Bound, TypeInv, ResearchTypeOK, JobsOK
<1>15. ASSUME ProviderRejects PROVE TypeInv'
  <2>1. worker' \in [pc : Places, job : DOMAIN jobs]
    BY <1>15, StepKeeps DEF ProviderRejects, Places, TypeInv, ResearchTypeOK
  <2>2. run' \in ResearchRuns
    BY <1>15, SetKeeps DEF ProviderRejects, RunStatuses, TypeInv, ResearchTypeOK
  <2> QED
    BY <1>15, <2>1, <2>2 DEF ProviderRejects, Unmoved, Bound, TypeInv, ResearchTypeOK, JobsOK
<1>16. ASSUME ResolveOutage PROVE TypeInv'
  <2>1. run' \in ResearchRuns
    BY <1>16, SetKeeps DEF ResolveOutage, RunStatuses, TypeInv, ResearchTypeOK
  <2>2. JobsOK(Without(QueuedRetries)) /\ DOMAIN Without(QueuedRetries) = DOMAIN jobs
    BY <1>16, WithoutKeeps DEF TypeInv
  <2>3. PassJob(Job.gen, Job.seg, PassAttempts) \in ResearchJobs
    BY <1>16, PassJobTyped, TypedParts, ConstantFacts DEF Facts
  <2>4. [worker.job EXCEPT !.kind = "watchdog"] \in JobKeys
    BY <1>16, TypedParts DEF JobKeys
  <2>5. JobsOK(Put(Without(QueuedRetries), [worker.job EXCEPT !.kind = "watchdog"],
                 PassJob(Job.gen, Job.seg, PassAttempts)))
        /\ DOMAIN Put(Without(QueuedRetries), [worker.job EXCEPT !.kind = "watchdog"],
                      PassJob(Job.gen, Job.seg, PassAttempts))
           = DOMAIN jobs \cup {[worker.job EXCEPT !.kind = "watchdog"]}
    BY <2>2, <2>3, <2>4, PutKeeps, SMTT(20)
  <2>6. JobsOK(jobs') /\ DOMAIN jobs \subseteq DOMAIN jobs'
    BY <1>16, <2>5 DEF ResolveOutage
  <2>7. researchBlocker' \in [gen : Nat, open : BOOLEAN, fails : Nat, only : BOOLEAN]
    BY <1>16 DEF ResolveOutage, TypeInv, ResearchTypeOK
  <2> QED
    BY <1>16, <2>1, <2>2, <2>3, <2>4, <2>5, <2>6, <2>7 DEF ResolveOutage, Unmoved, Bound, TypeInv, ResearchTypeOK, JobsOK
<1>17. ASSUME SaveSegment PROVE TypeInv'
  <2>1. worker' \in [pc : Places, job : DOMAIN jobs]
    BY <1>17, StepKeeps DEF SaveSegment, Places, TypeInv, ResearchTypeOK
  <2>2. Job.gen + 1 \in Nat /\ Pass \in Passes /\ passes[Pass].seg \in Nat
    BY <1>17, TypedParts
  <2>3. \/ Checkpoint(Pass, Job.gen + 1, passes[Pass].seg, "complete")
        \/ Checkpoint(Pass, Job.gen + 1, passes[Pass].seg, "queued")
    BY <1>17 DEF SaveSegment
  <2>4. resume' \in Resumes
    BY <1>17, <2>2, <2>3, CheckpointKeeps
  <2> QED
    BY <1>17, <2>1, <2>2, <2>3, <2>4 DEF SaveSegment, Unmoved, Bound, TypeInv, ResearchTypeOK, JobsOK
<1>18. ASSUME SaveNextPass PROVE TypeInv'
  <2>1. worker' \in [pc : Places, job : DOMAIN jobs]
    BY <1>18, StepKeeps DEF SaveNextPass, Places, TypeInv, ResearchTypeOK
  <2>2. Pass + 1 \in Passes
    BY <1>18, TypedParts, ConstantFacts DEF SaveNextPass, IsGap, Passes, Facts
  <2>3. resume' \in Resumes
    BY <1>18, CheckpointKeeps, TypedParts, ConstantFacts, <2>2 DEF SaveNextPass, Facts, TypeInv, ResearchTypeOK
  <2> QED
    BY <1>18, <2>1, <2>2, <2>3 DEF SaveNextPass, Unmoved, Bound, TypeInv, ResearchTypeOK, JobsOK
<1>19. ASSUME EnqueueNext PROVE TypeInv'
  <2>1. worker' \in [pc : Places, job : DOMAIN jobs]
    BY <1>19, StepKeeps DEF EnqueueNext, Places, TypeInv, ResearchTypeOK
  <2>2. JobsOK(jobs') /\ DOMAIN jobs \subseteq DOMAIN jobs'
    BY <1>19, EnqueuedKeeps, TypedParts, ConstantFacts DEF EnqueueNext, Facts, TypeInv
  <2> QED
    BY <1>19, <2>1, <2>2 DEF EnqueueNext, Unmoved, Bound, TypeInv, ResearchTypeOK, JobsOK
<1>20. ASSUME PrepareAdvance PROVE TypeInv'
  <2>1. worker' \in [pc : Places, job : DOMAIN jobs]
    BY <1>20, StepKeeps DEF PrepareAdvance, Places, TypeInv, ResearchTypeOK
  <2>2. CountedOnce \in Nat
    BY <1>20, TypedParts DEF CountedOnce, ResearchRuns, TypeInv, ResearchTypeOK
  <2>3. advanced' \in [Passes -> Nat \cup {NotPrepared}]
    BY <1>20, <2>2 DEF PrepareAdvance, TypeInv, ResearchTypeOK
  <2> QED
    BY <1>20, <2>1, <2>2, <2>3 DEF PrepareAdvance, Unmoved, Bound, TypeInv, ResearchTypeOK, JobsOK
<1>21. ASSUME SetCounter PROVE TypeInv'
  <2>1. worker' \in [pc : Places, job : DOMAIN jobs]
    BY <1>21, StepKeeps DEF SetCounter, Places, TypeInv, ResearchTypeOK
  <2>2. advanced[Pass] \in Nat
    BY <1>21, TypedParts DEF SetCounter, CountInv, OrderInv, Counted, TypeInv, ResearchTypeOK
  <2>3. run' \in ResearchRuns
    BY <1>21, <2>2 DEF SetCounter, ResearchRuns, TypeInv, ResearchTypeOK
  <2> QED
    BY <1>21, <2>1, <2>2, <2>3 DEF SetCounter, Unmoved, Bound, TypeInv, ResearchTypeOK, JobsOK
<1>22. ASSUME Converge PROVE TypeInv'
  <2>1. worker' \in [pc : Places, job : DOMAIN jobs]
    BY <1>22, StepKeeps DEF Converge, Places, TypeInv, ResearchTypeOK
  <2>2. run' \in ResearchRuns
    BY <1>22 DEF Converge, RunStatuses, ResearchRuns, TypeInv, ResearchTypeOK
  <2> QED
    BY <1>22, <2>1, <2>2 DEF Converge, Unmoved, Bound, TypeInv, ResearchTypeOK, JobsOK
<1>23. ASSUME SaveConverged PROVE TypeInv'
  <2>1. worker' \in [pc : Places, job : DOMAIN jobs]
    BY <1>23, StepKeeps DEF SaveConverged, Places, TypeInv, ResearchTypeOK
  <2>2. resume' \in Resumes
    BY <1>23, CheckpointKeeps, TypedParts, ConstantFacts DEF SaveConverged, Facts, TypeInv, ResearchTypeOK
  <2> QED
    BY <1>23, <2>1, <2>2 DEF SaveConverged, Unmoved, Bound, TypeInv, ResearchTypeOK, JobsOK
<1>24. ASSUME SaveGap PROVE TypeInv'
  <2>1. worker' \in [pc : Places, job : DOMAIN jobs]
    BY <1>24, StepKeeps DEF SaveGap, Places, TypeInv, ResearchTypeOK
  <2>2. Pass = Last \/ Pass + 1 \in Passes
    BY <1>24, TypedParts, ConstantFacts DEF Passes, Facts
  <2>3. Pass \in Passes
    BY <1>24, TypedParts
  <2>4. resume' \in Resumes
    BY <1>24, CheckpointKeeps, TypedParts, ConstantFacts, <2>2 DEF SaveGap, Facts, TypeInv, ResearchTypeOK
  <2> QED
    BY <1>24, <2>1, <2>2, <2>3, <2>4 DEF SaveGap, Unmoved, Bound, TypeInv, ResearchTypeOK, JobsOK
<1>25. ASSUME HandOff PROVE TypeInv'
  <2>1. worker' \in [pc : Places, job : DOMAIN jobs]
    BY <1>25, StepKeeps DEF HandOff, Places, TypeInv, ResearchTypeOK
  <2>2. run' \in ResearchRuns
    BY <1>25, SetKeeps DEF HandOff, RunStatuses, TypeInv, ResearchTypeOK
  <2> QED
    BY <1>25, <2>1, <2>2 DEF HandOff, Unmoved, Bound, TypeInv, ResearchTypeOK, JobsOK
<1>26. ASSUME EnqueueMatching PROVE TypeInv'
  <2>1. worker' \in [pc : Places, job : DOMAIN jobs]
    BY <1>26, StepKeeps DEF EnqueueMatching, Places, TypeInv, ResearchTypeOK
  <2>2. matching' \in {"none", "queued", "done", "cancelled"}
    BY <1>26 DEF EnqueueMatching, TypeInv, ResearchTypeOK
  <2> QED
    BY <1>26, <2>1, <2>2 DEF EnqueueMatching, Unmoved, Bound, TypeInv, ResearchTypeOK, JobsOK
<1>27. ASSUME SavePaused PROVE TypeInv'
  <2>1. worker' \in [pc : Places, job : DOMAIN jobs]
    BY <1>27, StepKeeps DEF SavePaused, Places, TypeInv, ResearchTypeOK
  <2>2. (IF resume.gen > Job.gen THEN resume.gen ELSE Job.gen) + 1 \in Nat
    BY <1>27, TypedParts
  <2>3. resume' \in Resumes
    BY <1>27, <2>2, CheckpointKeeps, TypedParts DEF SavePaused
  <2> QED
    BY <1>27, <2>1, <2>2, <2>3 DEF SavePaused, Unmoved, Bound, TypeInv, ResearchTypeOK, JobsOK
<1>28. ASSUME AwaitBudget PROVE TypeInv'
  <2>1. worker' \in [pc : Places, job : DOMAIN jobs]
    BY <1>28, StepKeeps DEF AwaitBudget, Places, TypeInv, ResearchTypeOK
  <2>2. run' \in ResearchRuns
    BY <1>28, SetKeeps DEF AwaitBudget, RunStatuses, TypeInv, ResearchTypeOK
  <2> QED
    BY <1>28, <2>1, <2>2 DEF AwaitBudget, Unmoved, Bound, TypeInv, ResearchTypeOK, JobsOK
<1>29. ASSUME PersistOutage PROVE TypeInv'
  <2>1. worker' \in [pc : Places, job : DOMAIN jobs]
    BY <1>29, StepKeeps DEF PersistOutage, Places, TypeInv, ResearchTypeOK
  <2>2. run' \in ResearchRuns
    BY <1>29, SetKeeps DEF PersistOutage, RunStatuses, TypeInv, ResearchTypeOK
  <2>3. resume' \in Resumes
    BY <1>29, CheckpointKeeps, TypedParts, ConstantFacts DEF PersistOutage, Facts, TypeInv, ResearchTypeOK
  <2>4. researchBlocker' \in [gen : Nat, open : BOOLEAN, fails : Nat, only : BOOLEAN]
    BY <1>29, PersistOutageParts, OpensTyped
  <2>5. JobsOK(jobs') /\ DOMAIN jobs \subseteq DOMAIN jobs'
    BY <1>29, PersistOutageParts, OutageRowsKeep
  <2>6. matching' \in {"none", "queued", "done", "cancelled"}
    BY <1>29 DEF PersistOutage, Withdrawn, TypeInv, ResearchTypeOK
  <2>7. windowPassed' \in BOOLEAN
    BY <1>29 DEF PersistOutage, IsRetry, TypeInv, ResearchTypeOK
  <2> QED
    BY <1>29, <2>1, <2>2, <2>3, <2>4, <2>5, <2>6, <2>7 DEF PersistOutage, Unmoved, Bound, TypeInv, ResearchTypeOK, JobsOK
<1>30. ASSUME QuarantineResearch PROVE TypeInv'
  <2>1. worker' \in [pc : Places, job : DOMAIN jobs]
    BY <1>30, StepKeeps DEF QuarantineResearch, Places, TypeInv, ResearchTypeOK
  <2>2. run' \in ResearchRuns
    BY <1>30, SetKeeps DEF QuarantineResearch, RunStatuses, TypeInv, ResearchTypeOK
  <2> QED
    BY <1>30, <2>1, <2>2 DEF QuarantineResearch, Unmoved, Bound, TypeInv, ResearchTypeOK, JobsOK
<1>31. ASSUME FailPass PROVE TypeInv'
  <2>1. run' \in ResearchRuns
    BY <1>31, SetKeeps DEF FailPass, RunStatuses, TypeInv, ResearchTypeOK
  <2>2. jobs' = [jobs EXCEPT ![worker.job].status = IF Retriable THEN "queued" ELSE "failed"]
    BY <1>31 DEF FailPass
  <2>3. jobs'[worker.job] \in ResearchJobs
    BY <1>31, <2>2, TypedParts DEF ResearchJobs, Job
  <2>4. JobsOK(jobs') /\ DOMAIN jobs' = DOMAIN jobs
    BY <1>31, <2>2, <2>3 DEF JobsOK, TypeInv
  <2>5. worker' \in [pc : Places, job : DOMAIN jobs]
    BY <1>31 DEF FailPass, NoWork, Places, TypeInv, JobsOK
  <2> QED
    BY <1>31, <2>1, <2>2, <2>3, <2>4, <2>5 DEF FailPass, Unmoved, Bound, TypeInv, ResearchTypeOK, JobsOK
<1>32. ASSUME EnqueueResume PROVE TypeInv'
  <2>1. JobsOK(jobs') /\ DOMAIN jobs \subseteq DOMAIN jobs'
    BY <1>32, EnqueuedKeeps, TypedParts, ConstantFacts DEF EnqueueResume, Facts, TypeInv
  <2> QED
    BY <1>32, <2>1 DEF EnqueueResume, Unmoved, Bound, TypeInv, ResearchTypeOK, JobsOK
<1>33. ASSUME ApproveBudget PROVE TypeInv'
  <2>1. run' \in ResearchRuns
    BY <1>33, SetKeeps DEF ApproveBudget, RunStatuses, TypeInv, ResearchTypeOK
  <2> QED
    BY <1>33, <2>1 DEF ApproveBudget, Unmoved, Bound, TypeInv, ResearchTypeOK, JobsOK
<1>34. ASSUME DieInPass PROVE TypeInv'
  <2>1. worker' \in [pc : Places, job : DOMAIN jobs]
    BY <1>34, StepKeeps DEF DieInPass, NoWork, Places, TypeInv, ResearchTypeOK, JobsOK
  <2>2. interruptions' \in Nat
    BY <1>34 DEF DieInPass, TypeInv, ResearchTypeOK
  <2> QED
    BY <1>34, <2>1, <2>2 DEF DieInPass, Unmoved, Bound, TypeInv, ResearchTypeOK, JobsOK
<1>35. ASSUME WindowPasses PROVE TypeInv'
  <2> QED
    BY <1>35 DEF WindowPasses, Unmoved, Bound, TypeInv, ResearchTypeOK, JobsOK
<1>36. CASE UNCHANGED researchVars
  BY <1>36 DEF researchVars, TypeInv, ResearchTypeOK, JobsOK
<1> QED
  BY <1>1, <1>2, <1>3, <1>4, <1>5, <1>6, <1>7, <1>8, <1>9, <1>10, <1>11, <1>12, <1>13, <1>14, <1>15, <1>16, <1>17, <1>18, <1>19, <1>20, <1>21, <1>22, <1>23, <1>24, <1>25, <1>26, <1>27, <1>28, <1>29, <1>30, <1>31, <1>32, <1>33, <1>34, <1>35, <1>36 DEF ResearchNext, Research
-----------------------------------------------------------------------------
(* What is counted: every step *)

LEMMA StepGives ==
    ASSUME TypeInv, NEW pc, Step(pc)
    PROVE  worker'.pc = pc /\ worker'.job = worker.job
BY DEF Step, TypeInv, ResearchTypeOK

LEMMA SetGives ==
    ASSUME TypeInv, NEW status, SetStatus(status)
    PROVE  run'.status = status /\ run'.phase = "other" /\ run'.noNew = run.noNew
BY DEF SetStatus, ResearchRuns, TypeInv, ResearchTypeOK

\* No row is ahead of the checkpoint in these queues.
Level(rows) == \A k \in DOMAIN rows : k.pass <= resume.pass

LEMMA EnqueuedLevel ==
    ASSUME TypeInv, CountInv, NEW max \in Nat \ {0}
    PROVE  Level(Enqueued(resume.pass, resume.gen, resume.seg, max))
<1>1. resume.pass \in Nat
  BY TypedParts, ConstantFacts DEF Facts
<1>2. \A k \in DOMAIN Enqueued(resume.pass, resume.gen, resume.seg, max) :
         k \in DOMAIN jobs \/ k.pass = resume.pass
  BY EnqueuedKeeps, TypedParts DEF TypeInv
<1> QED
  BY <1>1, <1>2 DEF Level, CountInv, LevelInv

\* A step within the pass of the checkpoint that counts nothing.
Calm == /\ UNCHANGED <<passes, advanced>> /\ run'.noNew = run.noNew
        /\ resume'.pass = resume.pass
        /\ resume'.status = "none" => resume'.pass = 0
        /\ Level(jobs')
\* The execution it leaves behind is in the pass, at a place that says
\* nothing of the counter, or nowhere in it.
Plain == /\ worker'.pc \notin Counted \cup {"reported"}
         /\ worker'.pc \in InPass => worker'.job.pass = resume.pass

LEMMA CalmKeeps ==
    ASSUME TypeInv, CountInv, Calm,
           worker'.pc \in InPass => worker'.job.pass = resume.pass,
           worker'.pc = "reported" => passes[worker'.job.pass].status = "complete",
           worker'.pc \in Counted => advanced[worker'.job.pass] # NotPrepared,
           worker'.pc \in {"advancing", "converged"} => run.noNew = advanced[worker'.job.pass]
    PROVE  CountInv'
<1>1. LevelInv'
  BY DEF Calm, Level, LevelInv, Pass
<1>2. OrderInv'
  BY DEF Calm, CountInv, OrderInv, Pass, IsGap
<1>3. CounterInv'
  BY DEF Calm, CountInv, CounterInv, Pass, IsGap, CountBefore
<1>4. NoNewExact'
  BY DEF Calm, CountInv, NoNewExact, IsGap, CountBefore
<1> QED
  BY <1>1, <1>2, <1>3, <1>4 DEF CountInv

LEMMA PlainKeeps == ASSUME TypeInv, CountInv, Calm, Plain PROVE CountInv'
BY CalmKeeps DEF Plain, Counted

LEMMA PutDomain ==
    ASSUME NEW rows, NEW key, NEW row
    PROVE  DOMAIN Put(rows, key, row) = DOMAIN rows \cup {key}
BY DEF Put

LEMMA RowsLevel ==
    ASSUME TypeInv, CountInv, DOMAIN jobs' = DOMAIN jobs
    PROVE  Level(jobs')
BY DEF Level, CountInv, LevelInv


LEMMA PassRowsTyped ==
    ASSUME TypeInv
    PROVE  passes \in [Passes -> [status : {"none", "in_progress", "complete"},
                                  seg : Nat, report : Reports]]
BY DEF TypeInv, ResearchTypeOK, PassRows

LEMMA CountStep ==
    ASSUME TypeInv, CountInv, [ResearchNext]_researchVars
    PROVE  CountInv'
<1>1. ASSUME LeasePass PROVE CountInv'
  <2>1. run'.noNew = run.noNew
    BY <1>1 DEF LeasePass
  <2>2. Level(jobs')
    <3>1. DOMAIN jobs' = DOMAIN jobs
      BY <1>1 DEF LeasePass
    <3> QED
      BY <3>1, RowsLevel
  <2>3. resume'.pass = resume.pass /\ (resume'.status = "none" => resume'.pass = 0)
    BY <1>1 DEF LeasePass, CountInv, LevelInv
  <2>4. Calm
    BY <1>1, <2>1, <2>2, <2>3 DEF LeasePass, Calm
  <2>5. Plain
    BY <1>1 DEF LeasePass, NoWork, Plain, InPass, Counted
  <2> QED
    BY <2>4, <2>5, PlainKeeps
<1>2. ASSUME SweepPass PROVE CountInv'
  <2>1. run'.noNew = run.noNew
    BY <1>2, SetGives DEF SweepPass
  <2>2. Level(jobs')
    <3>1. DOMAIN jobs' = DOMAIN jobs
      BY <1>2 DEF SweepPass
    <3> QED
      BY <3>1, RowsLevel
  <2>3. resume'.pass = resume.pass /\ (resume'.status = "none" => resume'.pass = 0)
    BY <1>2 DEF SweepPass, CountInv, LevelInv
  <2>4. Calm
    BY <1>2, <2>1, <2>2, <2>3 DEF SweepPass, Calm
  <2>5. Plain
    BY <1>2 DEF SweepPass, NoWork, Plain, InPass, Counted
  <2> QED
    BY <2>4, <2>5, PlainKeeps
<1>3. ASSUME FinishPass PROVE CountInv'
  <2>1. run'.noNew = run.noNew
    BY <1>3 DEF FinishPass
  <2>2. Level(jobs')
    <3>1. DOMAIN jobs' = DOMAIN jobs
      BY <1>3 DEF FinishPass
    <3> QED
      BY <3>1, RowsLevel
  <2>3. resume'.pass = resume.pass /\ (resume'.status = "none" => resume'.pass = 0)
    BY <1>3 DEF FinishPass, CountInv, LevelInv
  <2>4. Calm
    BY <1>3, <2>1, <2>2, <2>3 DEF FinishPass, Calm
  <2>5. Plain
    BY <1>3 DEF FinishPass, NoWork, Plain, InPass, Counted
  <2> QED
    BY <2>4, <2>5, PlainKeeps
<1>4. ASSUME RunMatching PROVE CountInv'
  <2>1. run'.noNew = run.noNew
    BY <1>4, SetGives DEF RunMatching
  <2>2. Level(jobs')
    BY <1>4, RowsLevel DEF RunMatching
  <2>3. resume'.pass = resume.pass /\ (resume'.status = "none" => resume'.pass = 0)
    BY <1>4 DEF RunMatching, CountInv, LevelInv
  <2>4. Calm
    BY <1>4, <2>1, <2>2, <2>3 DEF RunMatching, Calm
  <2>5. Plain
    BY <1>4 DEF RunMatching, NoWork, Plain, InPass, Counted
  <2> QED
    BY <2>4, <2>5, PlainKeeps
<1>5. ASSUME WakeForDecision PROVE CountInv'
  <2>1. run'.noNew = run.noNew
    BY <1>5, SetGives DEF WakeForDecision
  <2>2. Level(jobs')
    BY <1>5, WithoutKeeps, RowsLevel DEF WakeForDecision, TypeInv
  <2>3. resume'.pass = resume.pass /\ (resume'.status = "none" => resume'.pass = 0)
    BY <1>5 DEF WakeForDecision, CountInv, LevelInv
  <2>4. Calm
    BY <1>5, <2>1, <2>2, <2>3 DEF WakeForDecision, Calm
  <2>5. Plain
    BY <1>5, StepGives DEF WakeForDecision, Plain, CountInv, LevelInv, Pass, InPass, Counted
  <2> QED
    BY <2>4, <2>5, PlainKeeps
<1>6. ASSUME ClaimPass PROVE CountInv'
  <2>1. run'.noNew = run.noNew
    BY <1>6 DEF ClaimPass
  <2>2. Level(jobs')
    BY <1>6, RowsLevel DEF ClaimPass
  <2>3. resume'.pass = resume.pass /\ (resume'.status = "none" => resume'.pass = 0)
    BY <1>6 DEF ClaimPass, CountInv, LevelInv
  <2>4. Calm
    BY <1>6, <2>1, <2>2, <2>3 DEF ClaimPass, Calm
  <2>5. Plain
    BY <1>6, StepGives DEF ClaimPass, Plain, CountInv, LevelInv, Pass, InPass, Counted
  <2> QED
    BY <2>4, <2>5, PlainKeeps
<1>7. ASSUME Repair PROVE CountInv'
  <2>1. run'.noNew = run.noNew
    BY <1>7 DEF Repair
  <2>2. Level(jobs')
    BY <1>7, EnqueuedLevel, RowsLevel, ConstantFacts DEF Repair, Facts
  <2>3. resume'.pass = resume.pass /\ (resume'.status = "none" => resume'.pass = 0)
    BY <1>7 DEF Repair, CountInv, LevelInv
  <2>4. Calm
    BY <1>7, <2>1, <2>2, <2>3 DEF Repair, Calm
  <2>5. Plain
    BY <1>7, StepGives DEF Repair, Plain, CountInv, LevelInv, Pass, InPass, Counted
  <2> QED
    BY <2>4, <2>5, PlainKeeps
<1>8. ASSUME BeginPass PROVE CountInv'
  <2>1. Pass = resume.pass
    <3>1. worker.job \in DOMAIN jobs /\ Pass \in Nat /\ resume.pass \in Nat
      BY TypedParts, ConstantFacts DEF Facts
    <3>2. Pass <= resume.pass
      BY <3>1 DEF CountInv, LevelInv, Pass
    <3>3. resume.status # "none" => resume.pass <= Pass
      BY <1>8, <3>1 DEF BeginPass, Beyond
    <3>4. resume.status = "none" => resume.pass = 0
      BY DEF CountInv, LevelInv
    <3> QED
      BY <3>1, <3>2, <3>3, <3>4
  <2>2. Calm
    BY <1>8, <2>1, RowsLevel DEF BeginPass, Calm, Checkpoint
  <2>3. Plain
    BY <1>8, <2>1, StepGives DEF BeginPass, Plain, InPass, Counted, Pass
  <2> QED
    BY <2>2, <2>3, PlainKeeps
<1>9. ASSUME StartRun PROVE CountInv'
  <2>1. run'.noNew = run.noNew
    BY <1>9, SetGives DEF StartRun
  <2>2. Level(jobs')
    BY <1>9, RowsLevel DEF StartRun
  <2>3. resume'.pass = resume.pass /\ (resume'.status = "none" => resume'.pass = 0)
    BY <1>9 DEF StartRun, CountInv, LevelInv
  <2>4. Calm
    BY <1>9, <2>1, <2>2, <2>3 DEF StartRun, Calm
  <2>5. Plain
    BY <1>9, StepGives DEF StartRun, Plain, CountInv, LevelInv, Pass, InPass, Counted
  <2> QED
    BY <2>4, <2>5, PlainKeeps
<1>10. ASSUME Replay PROVE CountInv'
  <2>1. Calm
    BY <1>10, RowsLevel DEF Replay, Calm, CountInv, LevelInv
  <2>2. /\ worker'.job = worker.job /\ worker'.pc \in {"reported", "continued"}
        /\ worker'.pc = "reported" => passes[Pass].status = "complete"
    BY <1>10, StepGives DEF Replay
  <2>3. Pass = resume.pass
    BY <1>10 DEF Replay, CountInv, LevelInv, InPass
  <2> QED
    BY <2>1, <2>2, <2>3, CalmKeeps DEF Pass, Counted
<1>11. ASSUME ReportPass PROVE CountInv'
  <2>1. /\ worker'.job = worker.job /\ worker'.pc = "reported" /\ run'.noNew = run.noNew
        /\ worker.pc = "call"
    BY <1>11, StepGives DEF ReportPass, Asks
  <2>2. Pass = resume.pass /\ Pass \in Passes /\ passes[Pass].status # "complete"
    BY <1>11, TypedParts DEF ReportPass, Asks, CountInv, LevelInv, InPass
  <2>3. UNCHANGED <<resume, advanced, jobs>>
    BY <1>11 DEF ReportPass, Unmoved
  <2>4. /\ \A p \in Passes : p # Pass => passes'[p] = passes[p]
        /\ passes'[Pass].status = "complete"
    BY <1>11, <2>2, PassRowsTyped DEF ReportPass
  <2>5. advanced[Pass] = NotPrepared
    BY <2>2 DEF CountInv, OrderInv
  <2>6. LevelInv'
    BY <2>1, <2>2, <2>3 DEF CountInv, LevelInv, Pass
  <2>7. OrderInv'
    BY <2>1, <2>2, <2>3, <2>4, <2>5 DEF CountInv, OrderInv, Pass, IsGap, Counted
  <2>8. CounterInv'
    BY <2>1, <2>3 DEF CountInv, CounterInv, CountBefore, IsGap
  <2>9. NoNewExact'
    BY <2>3, <2>4, <2>5 DEF CountInv, NoNewExact, CountBefore, IsGap
  <2> QED
    BY <2>6, <2>7, <2>8, <2>9 DEF CountInv
<1>12. ASSUME EndSegment PROVE CountInv'
  <2>1. /\ worker'.job = worker.job /\ worker'.pc = "continued" /\ run'.noNew = run.noNew
        /\ worker.pc = "call"
    BY <1>12, StepGives DEF EndSegment, Asks
  <2>2. Pass = resume.pass /\ Pass \in Passes /\ passes[Pass].status # "complete"
    BY <1>12, TypedParts DEF EndSegment, Asks, CountInv, LevelInv, InPass
  <2>3. UNCHANGED <<resume, advanced, jobs>>
    BY <1>12 DEF EndSegment, Unmoved
  <2>4. /\ \A p \in Passes : p # Pass => passes'[p] = passes[p]
        /\ passes'[Pass].status = "in_progress"
    BY <1>12, <2>2, PassRowsTyped DEF EndSegment
  <2>5. advanced[Pass] = NotPrepared
    BY <2>2 DEF CountInv, OrderInv
  <2>6. LevelInv'
    BY <2>1, <2>2, <2>3 DEF CountInv, LevelInv, Pass
  <2>7. OrderInv'
    BY <2>1, <2>2, <2>3, <2>4, <2>5 DEF CountInv, OrderInv, Pass, IsGap, Counted
  <2>8. CounterInv'
    BY <2>1, <2>3 DEF CountInv, CounterInv, CountBefore, IsGap
  <2>9. NoNewExact'
    BY <2>3, <2>4, <2>5 DEF CountInv, NoNewExact, CountBefore, IsGap
  <2> QED
    BY <2>6, <2>7, <2>8, <2>9 DEF CountInv
<1>13. ASSUME ExhaustBudget PROVE CountInv'
  <2>1. run'.noNew = run.noNew
    BY <1>13 DEF ExhaustBudget, ResearchRuns, TypeInv, ResearchTypeOK
  <2>2. Level(jobs')
    BY <1>13, RowsLevel DEF ExhaustBudget
  <2>3. resume'.pass = resume.pass /\ (resume'.status = "none" => resume'.pass = 0)
    BY <1>13 DEF ExhaustBudget, CountInv, LevelInv
  <2>4. Calm
    BY <1>13, <2>1, <2>2, <2>3 DEF ExhaustBudget, Calm
  <2>5. Plain
    BY <1>13, StepGives DEF ExhaustBudget, Plain, CountInv, LevelInv, Pass, InPass, Counted, Asks
  <2> QED
    BY <2>4, <2>5, PlainKeeps
<1>14. ASSUME ProviderFails PROVE CountInv'
  <2>1. run'.noNew = run.noNew
    BY <1>14 DEF ProviderFails
  <2>2. Level(jobs')
    BY <1>14, RowsLevel DEF ProviderFails
  <2>3. resume'.pass = resume.pass /\ (resume'.status = "none" => resume'.pass = 0)
    BY <1>14 DEF ProviderFails, CountInv, LevelInv
  <2>4. Calm
    BY <1>14, <2>1, <2>2, <2>3 DEF ProviderFails, Calm
  <2>5. Plain
    BY <1>14, StepGives DEF ProviderFails, Plain, CountInv, LevelInv, Pass, InPass, Counted, Asks
  <2> QED
    BY <2>4, <2>5, PlainKeeps
<1>15. ASSUME ProviderRejects PROVE CountInv'
  <2>1. run'.noNew = run.noNew
    BY <1>15, SetGives DEF ProviderRejects
  <2>2. Level(jobs')
    BY <1>15, RowsLevel DEF ProviderRejects
  <2>3. resume'.pass = resume.pass /\ (resume'.status = "none" => resume'.pass = 0)
    BY <1>15 DEF ProviderRejects, CountInv, LevelInv
  <2>4. Calm
    BY <1>15, <2>1, <2>2, <2>3 DEF ProviderRejects, Calm
  <2>5. Plain
    BY <1>15, StepGives DEF ProviderRejects, Plain, CountInv, LevelInv, Pass, InPass, Counted, Asks
  <2> QED
    BY <2>4, <2>5, PlainKeeps
<1>16. ASSUME ResolveOutage PROVE CountInv'
  <2>1. Pass = resume.pass
    BY <1>16 DEF ResolveOutage, CountInv, LevelInv, InPass
  <2> DEFINE key == [worker.job EXCEPT !.kind = "watchdog"]
             row == PassJob(Job.gen, Job.seg, PassAttempts)
  <2>2. key.pass = Pass /\ Pass \in Nat
    <3>1. worker.job \in JobKeys /\ Pass \in Nat
      BY TypedParts, ConstantFacts DEF Facts
    <3> QED
      BY <3>1 DEF JobKeys, Pass
  <2>3. DOMAIN jobs' = DOMAIN jobs \cup {key}
    <3>1. jobs' = Put(Without(QueuedRetries), key, row)
      BY <1>16 DEF ResolveOutage
    <3>2. DOMAIN Without(QueuedRetries) = DOMAIN jobs
      BY WithoutKeeps DEF TypeInv
    <3> HIDE DEF key, row
    <3>3. DOMAIN Put(Without(QueuedRetries), key, row)
             = DOMAIN Without(QueuedRetries) \cup {key}
      BY PutDomain
    <3> QED
      BY <3>1, <3>2, <3>3
  <2> HIDE DEF key, row
  <2>4. Level(jobs')
    BY <2>1, <2>2, <2>3 DEF Level, CountInv, LevelInv
  <2>5. Calm
    BY <1>16, <2>4, SetGives DEF ResolveOutage, Calm, CountInv, LevelInv
  <2>6. worker' = worker /\ worker.pc \in {"reported", "continued"}
    BY <1>16 DEF ResolveOutage
  <2> QED
    BY <2>1, <2>5, <2>6, CalmKeeps DEF Pass, Counted, CountInv, OrderInv
<1>17. ASSUME SaveSegment PROVE CountInv'
  <2>1. run'.noNew = run.noNew
    BY <1>17 DEF SaveSegment
  <2>2. Level(jobs')
    BY <1>17, RowsLevel DEF SaveSegment
  <2>3. resume'.pass = resume.pass /\ (resume'.status = "none" => resume'.pass = 0)
    BY <1>17, TypedParts DEF SaveSegment, Checkpoint, CountInv, LevelInv, InPass
  <2>4. Calm
    BY <1>17, <2>1, <2>2, <2>3 DEF SaveSegment, Calm
  <2>5. Plain
    BY <1>17, StepGives DEF SaveSegment, Plain, CountInv, LevelInv, Pass, InPass, Counted
  <2> QED
    BY <2>4, <2>5, PlainKeeps
<1>18. ASSUME SaveNextPass PROVE CountInv'
  <2>1. /\ Pass = resume.pass /\ Pass \in Nat /\ Phases \in Nat
        /\ worker.job \in DOMAIN jobs
    BY <1>18, TypedParts, ConstantFacts DEF SaveNextPass, CountInv, LevelInv, InPass, Facts
  <2>2. /\ resume'.pass = Pass + 1 /\ resume'.status = "queued" /\ worker'.pc = "enqueue"
        /\ UNCHANGED <<run, passes, advanced, jobs>>
    BY <1>18, StepGives DEF SaveNextPass, Checkpoint
  <2>3. LevelInv'
    <3>1. \A k \in DOMAIN jobs : k.pass \in Nat /\ k.pass <= Pass
      BY <2>1, ConstantFacts DEF TypeInv, JobsOK, JobKeys, CountInv, LevelInv, Facts
    <3> QED
      BY <2>1, <2>2, <3>1 DEF LevelInv, InPass
  <2>4. advanced[Pass] # NotPrepared \/ ~IsGap(Pass)
    BY <1>18 DEF SaveNextPass, CountInv, OrderInv, Counted
  <2>5. \A p \in Passes : p \in Nat
    BY ConstantFacts DEF Facts
  <2>6. OrderInv'
    BY <2>1, <2>2, <2>4, <2>5 DEF CountInv, OrderInv, Counted, IsGap
  <2>7. \A p \in Passes : p = Pass + 1 => advanced[p] = NotPrepared
    BY <2>1, <2>5 DEF CountInv, OrderInv
  <2>8. IsGap(Pass + 1) => run.noNew = CountBefore(Pass + 1)
    BY <1>18, <2>1 DEF SaveNextPass, IsGap, CountBefore, CountInv, CounterInv
  <2>9. ~IsGap(Pass + 1) => run.noNew = 0
    BY <1>18, <2>1 DEF SaveNextPass, IsGap, CountInv, CounterInv
  <2>10. CounterInv'
    BY <2>2, <2>8, <2>9 DEF CounterInv, IsGap, CountBefore
  <2>11. NoNewExact'
    BY <2>2 DEF CountInv, NoNewExact, IsGap, CountBefore
  <2> QED
    BY <2>3, <2>6, <2>10, <2>11 DEF CountInv
<1>19. ASSUME EnqueueNext PROVE CountInv'
  <2>1. run'.noNew = run.noNew
    BY <1>19 DEF EnqueueNext
  <2>2. Level(jobs')
    BY <1>19, EnqueuedLevel, ConstantFacts DEF EnqueueNext, Facts
  <2>3. resume'.pass = resume.pass /\ (resume'.status = "none" => resume'.pass = 0)
    BY <1>19 DEF EnqueueNext, CountInv, LevelInv
  <2>4. Calm
    BY <1>19, <2>1, <2>2, <2>3 DEF EnqueueNext, Calm
  <2>5. Plain
    BY <1>19, StepGives DEF EnqueueNext, Plain, CountInv, LevelInv, Pass, InPass, Counted
  <2> QED
    BY <2>4, <2>5, PlainKeeps
<1>20. ASSUME PrepareAdvance PROVE CountInv'
  <2>1. /\ worker'.job = worker.job /\ worker'.pc = "counting" /\ run' = run
        /\ UNCHANGED <<resume, passes, jobs>> /\ worker.pc = "reported" /\ IsGap(Pass)
    BY <1>20, StepGives DEF PrepareAdvance
  <2>2. /\ Pass = resume.pass /\ Pass \in Passes /\ passes[Pass].status = "complete"
        /\ \A p \in Passes : p \in Nat
    BY <2>1, TypedParts, ConstantFacts DEF CountInv, LevelInv, OrderInv, InPass, Facts
  <2>3. /\ advanced'[Pass] = CountedOnce
        /\ \A p \in Passes : p # Pass => advanced'[p] = advanced[p]
    BY <1>20, <2>2 DEF PrepareAdvance, TypeInv, ResearchTypeOK
  <2>4. CountedOnce \in Nat /\ NotPrepared \notin Nat
    BY <1>20, TypedParts DEF CountedOnce, NotPrepared, ResearchRuns, TypeInv, ResearchTypeOK
  <2>5. LevelInv'
    BY <2>1, <2>2 DEF CountInv, LevelInv, Pass
  <2>6. OrderInv'
    BY <2>1, <2>2, <2>3, <2>4 DEF CountInv, OrderInv, Pass, IsGap, Counted
  <2>7. \A p \in Passes : p # Phases /\ p - 1 = Pass => p > resume.pass
    BY <2>2
  <2>8. CounterInv'
    BY <2>1, <2>2, <2>3, <2>4 DEF CountInv, CounterInv, Pass, IsGap, CountBefore
  <2>9. CASE advanced[Pass] # NotPrepared
    <3>1. advanced' = advanced
      BY <1>20, <2>9, <2>2 DEF PrepareAdvance, CountedOnce, TypeInv, ResearchTypeOK
    <3>2. NoNewExact'
      BY <2>1, <3>1 DEF CountInv, NoNewExact, IsGap, CountBefore
    <3> QED
      BY <2>5, <2>6, <2>8, <3>2 DEF CountInv
  <2>10. CASE advanced[Pass] = NotPrepared
    <3>1. run.noNew = CountBefore(Pass)
      BY <2>1, <2>2, <2>10 DEF CountInv, CounterInv
    <3>2. Pass # Phases => Pass - 1 \in Passes /\ Pass - 1 # Pass
      BY <2>1, <2>2, ConstantFacts DEF IsGap, Passes, Facts
    <3>3. CountBefore(Pass) # NotPrepared
      BY <2>1, <2>2, <2>4, <3>1 DEF ResearchRuns, TypeInv, ResearchTypeOK, NotPrepared
    <3>4. \A p \in Passes : IsGap(p) /\ p <= Pass => CountBefore(p)' = CountBefore(p)
      <4>1. SUFFICES ASSUME NEW p \in Passes, IsGap(p), p <= Pass
                     PROVE  CountBefore(p)' = CountBefore(p)
        OBVIOUS
      <4>2. p # Phases => p - 1 \in Passes /\ p - 1 # Pass
        BY <2>2, <4>1, ConstantFacts DEF IsGap, Passes, Facts
      <4> QED
        BY <2>3, <4>2 DEF CountBefore
    <3>5. NoNewExact'
      <4>1. SUFFICES ASSUME NEW p \in Passes, advanced'[p] # NotPrepared
                     PROVE  (/\ IsGap(p) /\ CountBefore(p) # NotPrepared
                             /\ advanced[p] = IF passes[p].report = "found" THEN 0
                                ELSE CountBefore(p) + (IF passes[p].report = "barren" THEN 1 ELSE 0))'
        BY DEF NoNewExact
      <4>2. CASE p = Pass
        <5>1. /\ IsGap(p)' /\ CountBefore(p)' = run.noNew /\ run.noNew # NotPrepared
              /\ passes'[p] = passes[p] /\ advanced'[p] = CountedOnce
          <6>1. IsGap(p) /\ p <= Pass
            BY <2>1, <2>2, <4>2
          <6>2. CountBefore(p)' = CountBefore(p)
            BY <3>4, <6>1
          <6> QED
            BY <2>1, <2>3, <3>1, <3>3, <4>2, <6>1, <6>2 DEF IsGap
        <5>2. CountedOnce = IF passes[p].report = "found" THEN 0
                            ELSE run.noNew + (IF passes[p].report = "barren" THEN 1 ELSE 0)
          <6>1. run.noNew \in Nat
            BY DEF ResearchRuns, TypeInv, ResearchTypeOK
          <6> QED
            BY <2>10, <4>2, <6>1 DEF CountedOnce
        <5> QED
          BY <5>1, <5>2
      <4>3. CASE p # Pass
        <5>1. advanced[p] # NotPrepared /\ advanced'[p] = advanced[p]
          BY <2>3, <4>1, <4>3
        <5>2. IsGap(p) /\ p <= Pass
          BY <2>2, <5>1 DEF CountInv, OrderInv
        <5>3. CountBefore(p)' = CountBefore(p) /\ passes'[p] = passes[p]
          BY <2>1, <3>4, <5>2
        <5> QED
          BY <5>1, <5>2, <5>3 DEF CountInv, NoNewExact, IsGap
      <4> QED
        BY <4>2, <4>3
    <3> QED
      BY <2>5, <2>6, <2>8, <3>5 DEF CountInv
  <2> QED
    BY <2>9, <2>10
<1>21. ASSUME SetCounter PROVE CountInv'
  <2>1. /\ worker'.job = worker.job /\ worker'.pc = "advancing" /\ worker.pc = "counting"
        /\ UNCHANGED <<resume, passes, advanced, jobs>>
    BY <1>21, StepGives DEF SetCounter
  <2>2. run'.noNew = advanced[Pass]
    BY <1>21 DEF SetCounter, TypeInv, ResearchTypeOK
  <2>3. /\ Pass = resume.pass /\ Pass \in Passes /\ advanced[Pass] # NotPrepared /\ IsGap(Pass)
    BY <2>1, TypedParts DEF CountInv, LevelInv, OrderInv, InPass, Counted
  <2>4. LevelInv'
    BY <2>1, <2>3 DEF CountInv, LevelInv, Pass
  <2>5. OrderInv'
    BY <2>1, <2>3 DEF CountInv, OrderInv, Pass, IsGap
  <2>6. CounterInv'
    BY <2>1, <2>2, <2>3 DEF CounterInv, Pass, IsGap
  <2>7. NoNewExact'
    BY <2>1 DEF CountInv, NoNewExact, IsGap, CountBefore
  <2> QED
    BY <2>4, <2>5, <2>6, <2>7 DEF CountInv
<1>22. ASSUME Converge PROVE CountInv'
  <2>1. Calm
    BY <1>22, RowsLevel DEF Converge, ResearchRuns, TypeInv, ResearchTypeOK, Calm, CountInv, LevelInv
  <2>2. worker'.job = worker.job /\ worker'.pc = "converged" /\ worker.pc = "advancing"
    BY <1>22, StepGives DEF Converge
  <2> QED
    BY <2>1, <2>2, CalmKeeps DEF Pass, Counted, InPass, CountInv, LevelInv, OrderInv, CounterInv
<1>23. ASSUME SaveConverged PROVE CountInv'
  <2>1. run'.noNew = run.noNew
    BY <1>23 DEF SaveConverged
  <2>2. Level(jobs')
    BY <1>23, RowsLevel DEF SaveConverged
  <2>3. resume'.pass = resume.pass /\ (resume'.status = "none" => resume'.pass = 0)
    BY <1>23 DEF SaveConverged, Checkpoint, CountInv, LevelInv, InPass
  <2>4. Calm
    BY <1>23, <2>1, <2>2, <2>3 DEF SaveConverged, Calm
  <2>5. Plain
    BY <1>23, StepGives DEF SaveConverged, Plain, CountInv, LevelInv, Pass, InPass, Counted
  <2> QED
    BY <2>4, <2>5, PlainKeeps
<1>24. ASSUME SaveGap PROVE CountInv'
  <2>1. CASE Pass = Last
    <3>1. Calm
      BY <1>24, <2>1, RowsLevel DEF SaveGap, Calm, Checkpoint, CountInv, LevelInv, InPass
    <3>2. Plain
      BY <1>24, <2>1, StepGives DEF SaveGap, Plain, CountInv, LevelInv, InPass, Counted, Pass
    <3> QED
      BY <3>1, <3>2, PlainKeeps
  <2>2. CASE Pass # Last
    <3>1. /\ Pass = resume.pass /\ Pass \in Nat /\ Phases \in Nat
          /\ worker.job \in DOMAIN jobs
      BY <1>24, TypedParts, ConstantFacts DEF SaveGap, CountInv, LevelInv, InPass, Facts
    <3>2. /\ resume'.pass = Pass + 1 /\ resume'.status = "queued" /\ worker'.pc = "enqueue"
          /\ UNCHANGED <<run, passes, advanced, jobs>>
      BY <1>24, <2>2, StepGives DEF SaveGap, Checkpoint
    <3>3. LevelInv'
      <4>1. \A k \in DOMAIN jobs : k.pass \in Nat /\ k.pass <= Pass
        BY <3>1, ConstantFacts DEF TypeInv, JobsOK, JobKeys, CountInv, LevelInv, Facts
      <4> QED
        BY <3>1, <3>2, <4>1 DEF LevelInv, InPass
    <3>4. advanced[Pass] # NotPrepared \/ ~IsGap(Pass)
      BY <1>24 DEF SaveGap, CountInv, OrderInv, Counted
    <3>5. \A p \in Passes : p \in Nat
      BY ConstantFacts DEF Facts
    <3>6. OrderInv'
      BY <3>1, <3>2, <3>4, <3>5 DEF CountInv, OrderInv, Counted, IsGap
    <3>7. \A p \in Passes : p = Pass + 1 => advanced[p] = NotPrepared
      BY <3>1, <3>5 DEF CountInv, OrderInv
    <3>8. IsGap(Pass + 1) => run.noNew = CountBefore(Pass + 1)
      BY <1>24, <3>1 DEF SaveGap, IsGap, CountBefore, CountInv, CounterInv
    <3>9. ~IsGap(Pass + 1) => run.noNew = 0
      BY <1>24, <3>1 DEF SaveGap, IsGap, CountInv, CounterInv
    <3>10. CounterInv'
      BY <3>2, <3>8, <3>9 DEF CounterInv, IsGap, CountBefore
    <3>11. NoNewExact'
      BY <3>2 DEF CountInv, NoNewExact, IsGap, CountBefore
    <3> QED
      BY <3>3, <3>6, <3>10, <3>11 DEF CountInv
  <2> QED
    BY <2>1, <2>2
<1>25. ASSUME HandOff PROVE CountInv'
  <2>1. run'.noNew = run.noNew
    BY <1>25, SetGives DEF HandOff
  <2>2. Level(jobs')
    BY <1>25, RowsLevel DEF HandOff
  <2>3. resume'.pass = resume.pass /\ (resume'.status = "none" => resume'.pass = 0)
    BY <1>25 DEF HandOff, CountInv, LevelInv
  <2>4. Calm
    BY <1>25, <2>1, <2>2, <2>3 DEF HandOff, Calm
  <2>5. Plain
    BY <1>25, StepGives DEF HandOff, Plain, CountInv, LevelInv, Pass, InPass, Counted
  <2> QED
    BY <2>4, <2>5, PlainKeeps
<1>26. ASSUME EnqueueMatching PROVE CountInv'
  <2>1. run'.noNew = run.noNew
    BY <1>26 DEF EnqueueMatching
  <2>2. Level(jobs')
    BY <1>26, RowsLevel DEF EnqueueMatching
  <2>3. resume'.pass = resume.pass /\ (resume'.status = "none" => resume'.pass = 0)
    BY <1>26 DEF EnqueueMatching, CountInv, LevelInv
  <2>4. Calm
    BY <1>26, <2>1, <2>2, <2>3 DEF EnqueueMatching, Calm
  <2>5. Plain
    BY <1>26, StepGives DEF EnqueueMatching, Plain, CountInv, LevelInv, Pass, InPass, Counted
  <2> QED
    BY <2>4, <2>5, PlainKeeps
<1>27. ASSUME SavePaused PROVE CountInv'
  <2>1. run'.noNew = run.noNew
    BY <1>27 DEF SavePaused
  <2>2. Level(jobs')
    BY <1>27, RowsLevel DEF SavePaused
  <2>3. resume'.pass = resume.pass /\ (resume'.status = "none" => resume'.pass = 0)
    BY <1>27 DEF SavePaused, Checkpoint, CountInv, LevelInv, InPass
  <2>4. Calm
    BY <1>27, <2>1, <2>2, <2>3 DEF SavePaused, Calm
  <2>5. Plain
    BY <1>27, StepGives DEF SavePaused, Plain, CountInv, LevelInv, Pass, InPass, Counted
  <2> QED
    BY <2>4, <2>5, PlainKeeps
<1>28. ASSUME AwaitBudget PROVE CountInv'
  <2>1. run'.noNew = run.noNew
    BY <1>28, SetGives DEF AwaitBudget
  <2>2. Level(jobs')
    BY <1>28, RowsLevel DEF AwaitBudget
  <2>3. resume'.pass = resume.pass /\ (resume'.status = "none" => resume'.pass = 0)
    BY <1>28 DEF AwaitBudget, CountInv, LevelInv
  <2>4. Calm
    BY <1>28, <2>1, <2>2, <2>3 DEF AwaitBudget, Calm
  <2>5. Plain
    BY <1>28, StepGives DEF AwaitBudget, Plain, CountInv, LevelInv, Pass, InPass, Counted
  <2> QED
    BY <2>4, <2>5, PlainKeeps
<1>29. ASSUME PersistOutage PROVE CountInv'
  <2>1. run'.noNew = run.noNew
    BY <1>29, SetGives DEF PersistOutage
  <2>2. Level(jobs')
    <3>1. Pass = resume.pass /\ Pass \in Nat
      BY <1>29, TypedParts, ConstantFacts DEF PersistOutage, CountInv, LevelInv, InPass, Facts
    <3>2. \A k \in DOMAIN jobs' : k \in DOMAIN jobs \/ k.pass = Pass
      BY <1>29, PersistOutageParts, OutageRowsKeep
    <3> QED
      BY <3>1, <3>2 DEF Level, CountInv, LevelInv
  <2>3. resume'.pass = resume.pass /\ (resume'.status = "none" => resume'.pass = 0)
    BY <1>29 DEF PersistOutage, Checkpoint, CountInv, LevelInv, InPass
  <2>4. Calm
    BY <1>29, <2>1, <2>2, <2>3 DEF PersistOutage, Calm
  <2>5. worker'.pc = "done"
    BY <1>29, StepGives DEF PersistOutage
  <2>6. Plain
    BY <2>5 DEF Plain, InPass, Counted
  <2> QED
    BY <2>4, <2>6, PlainKeeps
<1>30. ASSUME QuarantineResearch PROVE CountInv'
  <2>1. run'.noNew = run.noNew
    BY <1>30, SetGives DEF QuarantineResearch
  <2>2. Level(jobs')
    BY <1>30, RowsLevel DEF QuarantineResearch
  <2>3. resume'.pass = resume.pass /\ (resume'.status = "none" => resume'.pass = 0)
    BY <1>30 DEF QuarantineResearch, CountInv, LevelInv
  <2>4. Calm
    BY <1>30, <2>1, <2>2, <2>3 DEF QuarantineResearch, Calm
  <2>5. Plain
    BY <1>30, StepGives DEF QuarantineResearch, Plain, CountInv, LevelInv, Pass, InPass, Counted
  <2> QED
    BY <2>4, <2>5, PlainKeeps
<1>31. ASSUME FailPass PROVE CountInv'
  <2>1. run'.noNew = run.noNew
    BY <1>31, SetGives DEF FailPass
  <2>2. Level(jobs')
    <3>1. DOMAIN jobs' = DOMAIN jobs
      BY <1>31 DEF FailPass
    <3> QED
      BY <3>1, RowsLevel
  <2>3. resume'.pass = resume.pass /\ (resume'.status = "none" => resume'.pass = 0)
    BY <1>31 DEF FailPass, CountInv, LevelInv
  <2>4. Calm
    BY <1>31, <2>1, <2>2, <2>3 DEF FailPass, Calm
  <2>5. Plain
    BY <1>31 DEF FailPass, NoWork, Plain, InPass, Counted
  <2> QED
    BY <2>4, <2>5, PlainKeeps
<1>32. ASSUME EnqueueResume PROVE CountInv'
  <2>1. Level(jobs')
    BY <1>32, EnqueuedLevel, ConstantFacts DEF EnqueueResume, Facts
  <2>2. Calm
    BY <1>32, <2>1 DEF EnqueueResume, Calm, CountInv, LevelInv, Unmoved
  <2>3. worker' = worker
    BY <1>32 DEF EnqueueResume
  <2> QED
    BY <2>2, <2>3, CalmKeeps DEF Pass, Counted, CountInv, LevelInv, OrderInv, CounterInv
<1>33. ASSUME ApproveBudget PROVE CountInv'
  <2>1. Level(jobs')
    BY <1>33, RowsLevel DEF ApproveBudget
  <2>2. Calm
    BY <1>33, <2>1, SetGives DEF ApproveBudget, Calm, CountInv, LevelInv, Unmoved
  <2>3. worker' = worker
    BY <1>33 DEF ApproveBudget
  <2> QED
    BY <2>2, <2>3, CalmKeeps DEF Pass, Counted, CountInv, LevelInv, OrderInv, CounterInv
<1>34. ASSUME DieInPass PROVE CountInv'
  <2>1. Calm
    BY <1>34, RowsLevel DEF DieInPass, Calm, CountInv, LevelInv
  <2>2. worker' = worker \/ worker'.pc \in {"none", "failing"}
    BY <1>34, StepGives DEF DieInPass, NoWork
  <2>3. CASE worker' = worker
    BY <2>1, <2>3, CalmKeeps DEF Pass, Counted, CountInv, LevelInv, OrderInv, CounterInv
  <2>4. CASE worker'.pc \in {"none", "failing"}
    BY <2>1, <2>4, PlainKeeps DEF Plain, Counted, InPass
  <2> QED
    BY <2>2, <2>3, <2>4
<1>35. ASSUME WindowPasses PROVE CountInv'
  <2>1. Level(jobs')
    BY <1>35, RowsLevel DEF WindowPasses
  <2>2. Calm
    BY <1>35, <2>1 DEF WindowPasses, Calm, CountInv, LevelInv, Unmoved
  <2>3. worker' = worker
    BY <1>35 DEF WindowPasses
  <2> QED
    BY <2>2, <2>3, CalmKeeps DEF Pass, Counted, CountInv, LevelInv, OrderInv, CounterInv
<1>36. CASE UNCHANGED researchVars
  <2>1. Calm /\ worker' = worker
    BY <1>36, RowsLevel DEF researchVars, Calm, CountInv, LevelInv
  <2> QED
    BY <2>1, CalmKeeps DEF Pass, Counted, CountInv, LevelInv, OrderInv, CounterInv
<1> QED
  BY <1>1, <1>2, <1>3, <1>4, <1>5, <1>6, <1>7, <1>8, <1>9, <1>10, <1>11, <1>12, <1>13, <1>14, <1>15, <1>16, <1>17, <1>18, <1>19, <1>20, <1>21, <1>22, <1>23, <1>24, <1>25, <1>26, <1>27, <1>28, <1>29, <1>30, <1>31, <1>32, <1>33, <1>34, <1>35, <1>36 DEF ResearchNext, Research
-----------------------------------------------------------------------------
(* Outages *)

\* The executions that do not retry hold off the outage: each was claimed
\* with the blocker closed.  Past the report none is left open at all.  A run
\* whose phase says that research is complete has none either, whatever its
\* status was set to since, for a repair trusts the phase.
Early == {"entry", "starting", "call", "reported", "continued"}
Late == {"counting", "advancing", "converged", "handoff", "matching"}
HoldInv ==
    /\ OutageHoldsRun
    /\ worker.pc \in Late => ~researchBlocker.open
    /\ worker.pc \in Early /\ ~IsRetry => ~researchBlocker.open
    /\ run.phase = "research_complete" => ~researchBlocker.open

\* The statuses that say the run was handed on.
HandedOn == {"ready_for_matching", "matched", "no_compatible_tracks"}

\* A step that opens nothing, and hands nothing on while the blocker is open.
Holds == /\ researchBlocker'.open => researchBlocker.open
         /\ \/ run'.status = run.status \/ run'.status \notin HandedOn
            \/ ~researchBlocker.open
         /\ \/ run'.phase = run.phase \/ run'.phase # "research_complete"
            \/ ~researchBlocker.open
         /\ matching' = matching \/ matching' # "queued" \/ ~researchBlocker.open

LEMMA HoldsKeep ==
    ASSUME HoldInv, Holds,
           worker'.pc \in Late => ~researchBlocker.open,
           worker'.pc \in Early /\ ~IsRetry' => ~researchBlocker.open
    PROVE  HoldInv'
BY DEF HoldInv, Holds, OutageHoldsRun, HandedOn

\* An execution that moves within the early places, or the late ones, or
\* leaves both.
LEMMA MovesKeep ==
    ASSUME TypeInv, HoldInv, Holds, NEW pc, Step(pc),
           \/ pc \notin Early \cup Late
           \/ pc \in Early /\ worker.pc \in Early
           \/ pc \in Late /\ worker.pc \in Late
    PROVE  HoldInv'
<1>1. worker'.pc = pc /\ worker'.job = worker.job
  BY StepGives
<1>2. IsRetry' = IsRetry
  BY <1>1 DEF IsRetry
<1> QED
  BY <1>1, <1>2, HoldsKeep DEF HoldInv, Early, Late

LEMMA AwayKeeps ==
    ASSUME HoldInv, Holds, worker' = worker \/ worker'.pc \notin Early \cup Late
    PROVE  HoldInv'
<1>1. CASE worker' = worker
  BY <1>1, HoldsKeep DEF HoldInv, IsRetry
<1>2. CASE worker'.pc \notin Early \cup Late
  BY <1>2, HoldsKeep
<1> QED
  BY <1>1, <1>2


LEMMA HoldStep ==
    ASSUME TypeInv, HoldInv, [ResearchNext]_researchVars
    PROVE  HoldInv'
<1>1. ASSUME LeasePass PROVE HoldInv'
  <2>1. Holds
    BY <1>1 DEF LeasePass, Holds
  <2>2. worker' = worker \/ worker'.pc \notin Early \cup Late
    BY <1>1 DEF LeasePass, NoWork, Early, Late
  <2> QED
    BY <2>1, <2>2, AwayKeeps
<1>2. ASSUME SweepPass PROVE HoldInv'
  <2>1. Holds
    BY <1>2, SetGives DEF SweepPass, Holds, HandedOn
  <2>2. worker' = worker \/ worker'.pc \notin Early \cup Late
    BY <1>2 DEF SweepPass, NoWork, Early, Late
  <2> QED
    BY <2>1, <2>2, AwayKeeps
<1>3. ASSUME FinishPass PROVE HoldInv'
  <2>1. Holds
    BY <1>3 DEF FinishPass, Holds
  <2>2. worker' = worker \/ worker'.pc \notin Early \cup Late
    BY <1>3 DEF FinishPass, NoWork, Early, Late
  <2> QED
    BY <2>1, <2>2, AwayKeeps
<1>4. ASSUME RunMatching PROVE HoldInv'
  <2>1. Holds
    BY <1>4, SetGives DEF RunMatching, Holds, HandedOn
  <2>2. worker' = worker \/ worker'.pc \notin Early \cup Late
    BY <1>4 DEF RunMatching, NoWork, Early, Late
  <2> QED
    BY <2>1, <2>2, AwayKeeps
<1>5. ASSUME WakeForDecision PROVE HoldInv'
  <2>1. Holds
    BY <1>5, SetGives DEF WakeForDecision, Holds, HandedOn, TypeInv, ResearchTypeOK
  <2> QED
    BY <1>5, <2>1, MovesKeep DEF WakeForDecision, Early, Late
<1>6. ASSUME ClaimPass PROVE HoldInv'
  <2>1. Holds
    BY <1>6 DEF ClaimPass, Holds
  <2>2. CASE MayClaim
    <3>1. worker'.pc = "entry" /\ worker'.job = worker.job
      BY <1>6, <2>2, StepGives DEF ClaimPass
    <3>2. ~IsRetry' => ~researchBlocker.open
      BY <2>2, <3>1 DEF MayClaim, IsRetry
    <3> QED
      BY <2>1, <3>1, <3>2, HoldsKeep DEF Late
  <2>3. CASE ~MayClaim
    BY <1>6, <2>1, <2>3, MovesKeep DEF ClaimPass, Early, Late
  <2> QED
    BY <2>2, <2>3
<1>7. ASSUME Repair PROVE HoldInv'
  <2>1. Holds
    BY <1>7 DEF Repair, Holds, HoldInv, OutageHoldsRun, Late, Early
  <2> QED
    BY <1>7, <2>1, MovesKeep DEF Repair, Early, Late
<1>8. ASSUME BeginPass PROVE HoldInv'
  <2>1. Holds
    BY <1>8 DEF BeginPass, Holds
  <2> QED
    BY <1>8, <2>1, MovesKeep DEF BeginPass, Early, Late
<1>9. ASSUME StartRun PROVE HoldInv'
  <2>1. Holds
    BY <1>9, SetGives DEF StartRun, Holds, HandedOn
  <2> QED
    BY <1>9, <2>1, MovesKeep DEF StartRun, Early, Late
<1>10. ASSUME Replay PROVE HoldInv'
  <2>1. Holds
    BY <1>10 DEF Replay, Holds
  <2> QED
    BY <1>10, <2>1, MovesKeep DEF Replay, Early, Late
<1>11. ASSUME ReportPass PROVE HoldInv'
  <2>1. Holds
    BY <1>11 DEF ReportPass, Asks, Holds
  <2> QED
    BY <1>11, <2>1, MovesKeep DEF ReportPass, Asks, Early, Late
<1>12. ASSUME EndSegment PROVE HoldInv'
  <2>1. Holds
    BY <1>12 DEF EndSegment, Asks, Holds
  <2> QED
    BY <1>12, <2>1, MovesKeep DEF EndSegment, Asks, Early, Late
<1>13. ASSUME ExhaustBudget PROVE HoldInv'
  <2>1. Holds
    BY <1>13 DEF ExhaustBudget, ResearchRuns, TypeInv, ResearchTypeOK, Asks, Holds, HandedOn
  <2> QED
    BY <1>13, <2>1, MovesKeep DEF ExhaustBudget, Asks, Early, Late
<1>14. ASSUME ProviderFails PROVE HoldInv'
  <2>1. Holds
    BY <1>14 DEF ProviderFails, Asks, Holds
  <2> QED
    BY <1>14, <2>1, MovesKeep DEF ProviderFails, Asks, Early, Late
<1>15. ASSUME ProviderRejects PROVE HoldInv'
  <2>1. Holds
    BY <1>15, SetGives DEF ProviderRejects, Asks, Holds, HandedOn
  <2> QED
    BY <1>15, <2>1, MovesKeep DEF ProviderRejects, Asks, Early, Late
<1>16. ASSUME ResolveOutage PROVE HoldInv'
  <2>1. Holds
    BY <1>16, SetGives DEF ResolveOutage, Holds, HandedOn, TypeInv, ResearchTypeOK
  <2>2. worker' = worker \/ worker'.pc \notin Early \cup Late
    BY <1>16 DEF ResolveOutage, NoWork, Early, Late
  <2> QED
    BY <2>1, <2>2, AwayKeeps
<1>17. ASSUME SaveSegment PROVE HoldInv'
  <2>1. Holds
    BY <1>17 DEF SaveSegment, Holds
  <2>2. ~researchBlocker.open
    BY <1>17 DEF SaveSegment, Unresolved, HoldInv, Early
  <2> QED
    BY <2>1, <2>2, HoldsKeep
<1>18. ASSUME SaveNextPass PROVE HoldInv'
  <2>1. Holds
    BY <1>18 DEF SaveNextPass, Holds
  <2>2. ~researchBlocker.open
    BY <1>18 DEF SaveNextPass, Unresolved, HoldInv, Early
  <2> QED
    BY <2>1, <2>2, HoldsKeep
<1>19. ASSUME EnqueueNext PROVE HoldInv'
  <2>1. Holds
    BY <1>19 DEF EnqueueNext, Holds
  <2> QED
    BY <1>19, <2>1, MovesKeep DEF EnqueueNext, Early, Late
<1>20. ASSUME PrepareAdvance PROVE HoldInv'
  <2>1. Holds
    BY <1>20 DEF PrepareAdvance, Holds
  <2>2. ~researchBlocker.open
    BY <1>20 DEF PrepareAdvance, Unresolved, HoldInv, Early
  <2> QED
    BY <2>1, <2>2, HoldsKeep
<1>21. ASSUME SetCounter PROVE HoldInv'
  <2>1. Holds
    BY <1>21 DEF SetCounter, Holds, ResearchRuns, TypeInv, ResearchTypeOK
  <2> QED
    BY <1>21, <2>1, MovesKeep DEF SetCounter, Early, Late
<1>22. ASSUME Converge PROVE HoldInv'
  <2>1. Holds
    BY <1>22 DEF Converge, Holds, HandedOn, HoldInv, OutageHoldsRun, Late, Early
  <2> QED
    BY <1>22, <2>1, MovesKeep DEF Converge, Early, Late
<1>23. ASSUME SaveConverged PROVE HoldInv'
  <2>1. Holds
    BY <1>23 DEF SaveConverged, Holds
  <2> QED
    BY <1>23, <2>1, MovesKeep DEF SaveConverged, Early, Late
<1>24. ASSUME SaveGap PROVE HoldInv'
  <2>1. Holds
    BY <1>24 DEF SaveGap, Holds
  <2> QED
    BY <1>24, <2>1, MovesKeep DEF SaveGap, Early, Late
<1>25. ASSUME HandOff PROVE HoldInv'
  <2>1. Holds
    BY <1>25, SetGives DEF HandOff, Holds, HandedOn, HoldInv, OutageHoldsRun, Late, Early
  <2> QED
    BY <1>25, <2>1, MovesKeep DEF HandOff, Early, Late
<1>26. ASSUME EnqueueMatching PROVE HoldInv'
  <2>1. Holds
    BY <1>26 DEF EnqueueMatching, Holds, HoldInv, OutageHoldsRun, Late, Early
  <2> QED
    BY <1>26, <2>1, MovesKeep DEF EnqueueMatching, Early, Late
<1>27. ASSUME SavePaused PROVE HoldInv'
  <2>1. Holds
    BY <1>27 DEF SavePaused, Holds
  <2> QED
    BY <1>27, <2>1, MovesKeep DEF SavePaused, Early, Late
<1>28. ASSUME AwaitBudget PROVE HoldInv'
  <2>1. Holds
    BY <1>28, SetGives DEF AwaitBudget, Holds, HandedOn
  <2> QED
    BY <1>28, <2>1, MovesKeep DEF AwaitBudget, Early, Late
<1>29. ASSUME PersistOutage PROVE HoldInv'
  <2>1. /\ run'.status \in {"needs_decision", "failed_system"} /\ run'.phase = "other"
        /\ matching' = Withdrawn
    BY <1>29, SetGives DEF PersistOutage
  <2>2. worker'.pc = "done"
    BY <1>29, StepGives DEF PersistOutage
  <2> QED
    BY <2>1, <2>2 DEF HoldInv, OutageHoldsRun, Withdrawn, Early, Late
<1>30. ASSUME QuarantineResearch PROVE HoldInv'
  <2>1. Holds
    BY <1>30, SetGives DEF QuarantineResearch, Holds, HandedOn
  <2> QED
    BY <1>30, <2>1, MovesKeep DEF QuarantineResearch, Early, Late
<1>31. ASSUME FailPass PROVE HoldInv'
  <2>1. Holds
    BY <1>31, SetGives DEF FailPass, Holds, HandedOn
  <2>2. worker' = worker \/ worker'.pc \notin Early \cup Late
    BY <1>31 DEF FailPass, NoWork, Early, Late
  <2> QED
    BY <2>1, <2>2, AwayKeeps
<1>32. ASSUME EnqueueResume PROVE HoldInv'
  <2>1. Holds
    BY <1>32 DEF EnqueueResume, Holds
  <2>2. worker' = worker \/ worker'.pc \notin Early \cup Late
    BY <1>32 DEF EnqueueResume, NoWork, Early, Late
  <2> QED
    BY <2>1, <2>2, AwayKeeps
<1>33. ASSUME ApproveBudget PROVE HoldInv'
  <2>1. Holds
    BY <1>33, SetGives DEF ApproveBudget, Holds, HandedOn
  <2>2. worker' = worker \/ worker'.pc \notin Early \cup Late
    BY <1>33 DEF ApproveBudget, NoWork, Early, Late
  <2> QED
    BY <2>1, <2>2, AwayKeeps
<1>34. ASSUME DieInPass PROVE HoldInv'
  <2>1. Holds
    BY <1>34 DEF DieInPass, Holds
  <2>2. worker' = worker \/ worker'.pc \notin Early \cup Late
    BY <1>34, StepGives DEF DieInPass, NoWork, Early, Late
  <2> QED
    BY <2>1, <2>2, AwayKeeps
<1>35. ASSUME WindowPasses PROVE HoldInv'
  <2>1. Holds
    BY <1>35 DEF WindowPasses, Holds
  <2>2. worker' = worker \/ worker'.pc \notin Early \cup Late
    BY <1>35 DEF WindowPasses, NoWork, Early, Late
  <2> QED
    BY <2>1, <2>2, AwayKeeps
<1>36. CASE UNCHANGED researchVars
  BY <1>36, AwayKeeps DEF researchVars, Holds
<1> QED
  BY <1>1, <1>2, <1>3, <1>4, <1>5, <1>6, <1>7, <1>8, <1>9, <1>10, <1>11, <1>12, <1>13, <1>14, <1>15, <1>16, <1>17, <1>18, <1>19, <1>20, <1>21, <1>22, <1>23, <1>24, <1>25, <1>26, <1>27, <1>28, <1>29, <1>30, <1>31, <1>32, <1>33, <1>34, <1>35, <1>36 DEF ResearchNext, Research

-----------------------------------------------------------------------------
(* The theorems *)

ResearchInv == TypeInv /\ CountInv /\ HoldInv

LEMMA Initial == ResearchInit => ResearchInv
<1> SUFFICES ASSUME ResearchInit PROVE ResearchInv
  OBVIOUS
<1>1. TypeInv
  <2>1. JobsOK(jobs)
    BY PassJobTyped, ConstantFacts DEF ResearchInit, JobsOK, Facts
  <2>2. worker \in [pc : Places, job : DOMAIN jobs]
    BY DEF ResearchInit, NoWork, Places
  <2>3. resume \in Resumes
    BY ConstantFacts DEF ResearchInit, Resumes, Facts
  <2>4. passes \in [Passes -> PassRows] /\ advanced \in [Passes -> Nat \cup {NotPrepared}]
    BY DEF ResearchInit, PassRows, Reports
  <2>5. run \in ResearchRuns
    BY DEF ResearchInit, ResearchRuns, RunStatuses
  <2> QED
    BY <2>1, <2>2, <2>3, <2>4, <2>5 DEF ResearchInit, TypeInv, ResearchTypeOK, JobsOK
<1>2. CountInv
  <2>1. LevelInv
    BY DEF ResearchInit, LevelInv, FirstKey, NoWork, InPass
  <2>2. OrderInv
    BY ConstantFacts DEF ResearchInit, OrderInv, NoWork, Counted, Facts, NotPrepared
  <2>3. CounterInv
    BY ConstantFacts DEF ResearchInit, CounterInv, NoWork, IsGap, Facts
  <2>4. NoNewExact
    BY DEF ResearchInit, NoNewExact
  <2> QED
    BY <2>1, <2>2, <2>3, <2>4 DEF CountInv
<1>3. HoldInv
  BY DEF ResearchInit, HoldInv, OutageHoldsRun, NoWork, Early, Late
<1> QED
  BY <1>1, <1>2, <1>3 DEF ResearchInv

LEMMA Inductive == ResearchInv /\ [ResearchNext]_researchVars => ResearchInv'
BY TypesStep, CountStep, HoldStep DEF ResearchInv

LEMMA Invariant == ResearchSpec => []ResearchInv
BY Initial, Inductive, PTL DEF ResearchSpec

\* Every step of the research handlers and of the queue under them leaves the
\* rows, checkpoints and the run in their types, and the execution on a job
\* that is in the queue.
THEOREM ResearchTypes == ResearchSpec => []ResearchTypeOK
<1>1. ResearchInv => ResearchTypeOK
  BY DEF ResearchInv, TypeInv
<1> QED
  BY <1>1, Invariant, PTL

\* The consecutive gap passes without news are counted once each, for any
\* number of passes and whatever is crashed, paused, retried or replayed: the
\* checkpoint that ResearchOrchestrator.advance prepares makes the counter of a
\* pass follow from that of the pass before it and its saved report.
THEOREM PassesCountedOnce == ResearchSpec => []NoNewExact
<1>1. ResearchInv => NoNewExact
  BY DEF ResearchInv, CountInv
<1> QED
  BY <1>1, Invariant, PTL

\* While the blocker of the research provider is open, the run is neither
\* ready for matching nor matched nor short of tracks, and no matching job is
\* queued: claimResearchProviderRetry admits nobody but the blocker's own
\* retry, which resolves it before it hands anything over.
THEOREM OutagesHoldRun == ResearchSpec => []OutageHoldsRun
<1>1. ResearchInv => OutageHoldsRun
  BY DEF ResearchInv, HoldInv
<1> QED
  BY <1>1, Invariant, PTL

-----------------------------------------------------------------------------
(* The two pipelines side by side: a step of Spec is one of the circuit    *)
(* and leaves research as it is, or the other way round.                   *)

LEMMA EitherPipeline == [Next]_vars => [CircuitNext]_circuitVars /\ [ResearchNext]_researchVars
BY DEF Next, CircuitStep, ResearchStep, V2, V3, vars

LEMMA PipelinesInvariant == Spec => [](IInv /\ ResearchInv)
<1>1. Init => IInv /\ ResearchInv
  BY CircuitInitial, Initial DEF Init
<1>2. IInv /\ ResearchInv /\ [Next]_vars => IInv' /\ ResearchInv'
  BY EitherPipeline, CircuitInductive, Inductive
<1> QED BY <1>1, <1>2, PTL DEF Spec

\* Neither the rows of the circuit and its blocker nor those of open research
\* leave their types, whichever pipeline the run has.
THEOREM OutagesTypes == Spec => []OutagesTypeOK
<1>1. IInv /\ ResearchInv => OutagesTypeOK
  BY DEF OutagesTypeOK, IInv, ResearchInv, TypeInv
<1> QED BY <1>1, PipelinesInvariant, PTL
=============================================================================
