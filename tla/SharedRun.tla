------------------------------ MODULE SharedRun ------------------------------
(***************************************************************************)
(* A canonical run that several visitors share.  A visitor gains an access *)
(* by reusing the completed run and deletes it later; the last deletion    *)
(* removes the run, and retention removes it in any case.  When the run    *)
(* fails, every heartbeat tries to file one report of the failure, which   *)
(* quotes the prompt of one access and must not outlive it; the owner may  *)
(* delete the report, which suppresses its event.                          *)
(*                                                                         *)
(* These are transactions at READ COMMITTED that nobody retries: a step is *)
(* a statement that may wait for locks, its writes appear at the commit,   *)
(* and a cycle of waits ends with the database aborting one of its members.*)
(***************************************************************************)
EXTENDS Integers, FiniteSets, FiniteSetsExt

CONSTANTS
    Visitors,      \* numbered in the order in which they gain their access
    Captors,       \* executions that capture failures: hooks and heartbeats
    Ids            \* bound: identities of reports in use at one time

Nobody == 0
Owner == -1
Retention == -2
Processes == Visitors \cup Captors \cup {Owner, Retention}

\* A report and a deletion refer to two identities while a third is made.
ASSUME SharedRunAssumption ==
    /\ Visitors \cup Captors \cup Ids \subseteq Nat \ {Nobody}
    /\ Visitors \cap Captors = {}
    /\ IsFiniteSet(Visitors) /\ IsFiniteSet(Ids) /\ Cardinality(Ids) >= 3

VARIABLES
    canonical,     \* the row of research_runs
    access,        \* the rows of run_accesses, one of each visitor
    report,        \* automatic reports: the access a report quotes, or Nobody
    event,         \* the row feedback-automatic-event of the failure
    due,           \* retention_expires_at has passed
    pc,            \* the statement a transaction is about to execute
    target,        \* the access a capture is about; the report the owner deletes
    drop,          \* reports that an open deletion has deleted
    unmapped,      \* open deletions that have deleted the event
    last           \* open deletions that counted no retained access

sharingVars == <<canonical, access, report, event, due, pc, target, drop, unmapped, last>>
rows == <<canonical, access, report, event, due>>
open == <<target, drop, unmapped, last>>

NoEvent == [id |-> Nobody, of |-> Nobody, suppressed |-> FALSE]

SharingInit ==
    /\ canonical \in {"complete", "failed"}
    /\ \E first \in Visitors : access = [v \in Visitors |-> IF v = first THEN "live" ELSE "none"]
    /\ report = [i \in Ids |-> Nobody]
    /\ event = NoEvent
    /\ due = FALSE
    /\ pc = [p \in Processes |-> "idle"]
    /\ target = [p \in Processes |-> Nobody]
    /\ drop = [p \in Processes |-> {}]
    /\ unmapped = {} /\ last = {}

-----------------------------------------------------------------------------
(* Locks.  A transaction keeps what it has locked until it ends.  The row  *)
(* of the run is locked in KEY SHARE mode by those that refer to it, which *)
(* is one lock for each process, and FOR UPDATE by those that delete it.   *)

RunShare(p) == {<<"run", p>>}
RunRow == {<<"run", p>> : p \in Processes}
AccessRow(v) == {<<"access", v>>}
ReportRows(S) == {<<"report", i>> : i \in S}
EventRow == {<<"event", 0>>}
EventLock == {<<"event lock", 0>>}     \* pg_advisory_xact_lock of the event's key
SourceLock == {<<"source lock", 0>>}   \* pg_advisory_xact_lock of the run
RowOfEvent == IF event = NoEvent THEN {} ELSE EventRow

Filed == {i \in Ids : report[i] # Nobody}
\* deleteAutomaticFailureFeedbackForSource: by run once no access remains.
ReportsOf(v) == IF v \in last THEN Filed ELSE {i \in Filed : report[i] = v}
EventOf(v) == event # NoEvent /\ (event.id \in drop[v] \/ event.of = v \/ v \in last)

LockedBy(p) ==
    CASE p \in Captors ->
           (IF pc[p] \in {"access", "event", "existing", "write"} THEN SourceLock ELSE {})
           \cup (IF pc[p] \in {"event", "existing", "write"} THEN AccessRow(target[p]) ELSE {})
           \cup (IF pc[p] \in {"existing", "write"} THEN EventLock \cup RowOfEvent ELSE {})
      [] p \in Visitors ->
           (IF pc[p] \in {"reports", "event", "count", "run", "purge", "commit"} THEN AccessRow(p) ELSE {})
           \cup ReportRows(drop[p])
           \cup (IF p \in unmapped THEN EventRow ELSE {})
           \cup (IF pc[p] = "joined" THEN RunShare(p) ELSE {})
           \cup (IF pc[p] = "purge" THEN RunRow ELSE {})
      [] p = Owner -> IF pc[p] = "suppress" THEN EventLock \cup ReportRows({target[p]}) ELSE {}
      [] p = Retention ->
           (IF pc[p] # "idle" THEN SourceLock \cup RunRow ELSE {})
           \cup (IF pc[p] = "purged" THEN UNION {AccessRow(v) : v \in Visitors} ELSE {})

\* The locks that the next statement of p takes.
Wants(p) ==
    CASE p \in Captors /\ pc[p] = "source" -> SourceLock
      [] p \in Captors /\ pc[p] = "access" -> AccessRow(target[p])
      [] p \in Captors /\ pc[p] = "event" -> EventLock \cup RowOfEvent
      [] p \in Captors /\ pc[p] = "existing" -> ReportRows({event.id} \cap Filed)
      [] p \in Captors /\ pc[p] = "write" -> RunShare(p)
      [] p \in Visitors /\ pc[p] = "delete" -> AccessRow(p)
      [] p \in Visitors /\ pc[p] = "reports" -> ReportRows(ReportsOf(p))
      [] p \in Visitors /\ pc[p] = "event" -> IF EventOf(p) THEN EventRow ELSE {}
      [] p \in Visitors /\ pc[p] = "run" -> RunRow
      [] p \in Visitors /\ pc[p] = "purge" -> UNION {AccessRow(v) : v \in Visitors}
      [] p \in Visitors /\ pc[p] = "join" -> RunShare(p)
      [] p = Owner /\ pc[p] = "delete" -> EventLock \cup ReportRows({target[p]} \cap Filed)
      [] p = Owner /\ pc[p] = "suppress" -> RowOfEvent
      [] p = Retention /\ pc[p] = "idle" -> SourceLock \cup RunRow
      [] p = Retention /\ pc[p] = "purge" -> UNION {AccessRow(v) : v \in Visitors}
      [] p = Retention /\ pc[p] = "purged" -> ReportRows(Filed) \cup RowOfEvent
      [] OTHER -> {}

WaitsFor(p, q) == p # q /\ Wants(p) \cap LockedBy(q) # {}
Granted(p) ==
    LET wanted == Wants(p)
    IN wanted # {} => \A q \in Processes \ {p} : wanted \cap LockedBy(q) = {}

Reaches(p, step) == pc[p] = step /\ Granted(p)
Continue(p, step) == pc' = [pc EXCEPT ![p] = step]

\* The transaction ends, and its locks with it.
End(p, step) ==
    /\ Continue(p, step)
    /\ target' = [target EXCEPT ![p] = Nobody]
    /\ drop' = [drop EXCEPT ![p] = {}]
    /\ unmapped' = unmapped \ {p}
    /\ last' = last \ {p}
Close(p) == End(p, "idle")
Rollback(p) == End(p, IF p \in Visitors \cup {Owner} THEN "refused" ELSE "idle")

Waiting == {p \in Processes : ~Granted(p)}

\* Every member waits for another one, and another one for it.
Cycle(S) == \A p \in S : (\E q \in S : WaitsFor(p, q)) /\ (\E q \in S : WaitsFor(q, p))

\* The database finds a cycle of waits and aborts one of its members.  A
\* capture is logged and left to the next heartbeat and a purge to the next
\* sweep; a request fails, and to repeat it is to start afresh.
Abort ==
    /\ \E S \in SUBSET Waiting : Cycle(S) /\ (\E p \in S : Rollback(p))
    /\ UNCHANGED rows

-----------------------------------------------------------------------------
(* Visitors: createRunIdempotent reuses the run, deleteRunAccess leaves it. *)

\* The run is looked up without a lock on its row.
FindReusable(v) ==
    /\ access[v] = "none" /\ pc[v] = "idle" /\ canonical = "complete"
    /\ Continue(v, "join")
    /\ UNCHANGED <<rows, open>>

\* The foreign key of the new access refers to the run, which must exist.
InsertAccess(v) ==
    /\ Reaches(v, "join")
    /\ Continue(v, IF canonical = "gone" THEN "idle" ELSE "joined")
    /\ UNCHANGED <<rows, open>>

CommitAccess(v) ==
    /\ pc[v] = "joined"
    /\ access' = [access EXCEPT ![v] = "live"]
    /\ Close(v)
    /\ UNCHANGED <<canonical, report, event, due>>

\* A visitor asks for it, or the sweep does when the access has expired.
RequestDeletion(v) ==
    /\ access[v] = "live" /\ pc[v] = "idle"
    /\ Continue(v, "delete")
    /\ UNCHANGED <<rows, open>>

LockOwnAccess(v) ==
    /\ Reaches(v, "delete")
    /\ Continue(v, IF access[v] = "live" THEN "reports" ELSE "idle")
    /\ UNCHANGED <<rows, open>>

DeleteReports(v) ==
    /\ Reaches(v, "reports")
    /\ drop' = [drop EXCEPT ![v] = @ \cup ReportsOf(v)]
    /\ Continue(v, "event")
    /\ UNCHANGED <<rows, target, unmapped, last>>

DeleteEvent(v) ==
    /\ Reaches(v, "event")
    /\ unmapped' = IF EventOf(v) THEN unmapped \cup {v} ELSE unmapped
    /\ Continue(v, IF v \in last THEN "run" ELSE "count")
    /\ UNCHANGED <<rows, target, drop, last>>

\* A count without locks: it sees what is committed, and its own deletion.
Remaining(v) == {u \in Visitors \ {v} : access[u] = "live"}

CountAccesses(v) ==
    /\ pc[v] = "count"
    /\ last' = IF Remaining(v) = {} THEN last \cup {v} ELSE last
    /\ Continue(v, IF Remaining(v) = {} THEN "reports" ELSE "commit")
    /\ UNCHANGED <<rows, target, drop, unmapped>>

LockRun(v) ==
    /\ Reaches(v, "run")
    /\ Continue(v, IF canonical = "gone" THEN "commit" ELSE "purge")
    /\ UNCHANGED <<rows, open>>

Deleted(v) ==
    /\ report' = [i \in Ids |-> IF i \in drop[v] THEN Nobody ELSE report[i]]
    /\ event' = IF v \in unmapped THEN NoEvent ELSE event
    /\ Close(v)
    /\ UNCHANGED due

CommitDeletion(v) ==
    /\ pc[v] = "commit"
    /\ access' = [access EXCEPT ![v] = "deleted"]
    /\ Deleted(v)
    /\ UNCHANGED canonical

\* The run is deleted, and its accesses with it by ON DELETE CASCADE.
Cascade(except) ==
    [u \in Visitors |-> CASE u \in except -> "deleted"
                          [] access[u] = "live" -> "removed"
                          [] OTHER -> access[u]]

CommitPurge(v) ==
    /\ Reaches(v, "purge")
    /\ canonical' = "gone"
    /\ access' = Cascade({v})
    /\ Deleted(v)

-----------------------------------------------------------------------------
(* captureAutomaticRunFailure, after a terminal transition and by heartbeats. *)

Retained == {v \in Visitors : access[v] = "live"}
\* Mutant: a deleted access is not passed over.
NewestOfAll == Max({v \in Visitors : access[v] # "none"})

\* The newest access that is retained, as read before the transaction.
NewestRetained == Max(Retained)

Collect(k) ==
    /\ pc[k] = "idle" /\ canonical = "failed" /\ Retained # {}
    /\ target' = [target EXCEPT ![k] = NewestRetained]
    /\ Continue(k, "source")
    /\ UNCHANGED <<rows, drop, unmapped, last>>

LockSource(k) ==
    /\ Reaches(k, "source")
    /\ Continue(k, "access")
    /\ UNCHANGED <<rows, open>>

\* Mutant: the access is not validated again under its lock.
SourceOfRun(k) == canonical # "gone"

SourceRetained(k) == access[target[k]] = "live" /\ canonical # "gone"

LockSourceAccess(k) ==
    /\ Reaches(k, "access")
    /\ IF SourceRetained(k)
       THEN Continue(k, "event") /\ UNCHANGED open
       ELSE Close(k)
    /\ UNCHANGED rows

\* Mutant: what the owner has suppressed is read as any other event.
ReadEventOnly(k) ==
    /\ Reaches(k, "event")
    /\ Continue(k, IF event # NoEvent THEN "existing" ELSE "write")
    /\ UNCHANGED <<rows, open>>

\* The advisory lock of the event comes before its row; nothing that holds
\* the row waits for the lock, so the two are one step.
ReadEvent(k) ==
    /\ Reaches(k, "event")
    /\ CASE event.suppressed -> Close(k)
         [] ~event.suppressed /\ event # NoEvent -> Continue(k, "existing") /\ UNCHANGED open
         [] OTHER -> Continue(k, "write") /\ UNCHANGED open
    /\ UNCHANGED rows

\* Mutant: a report that exists does not stop the capture.
ReadExistingToo(k) ==
    /\ Reaches(k, "existing")
    /\ Continue(k, "write")
    /\ UNCHANGED <<rows, open>>

\* The same event delivered again finds its report.
ReadExisting(k) ==
    /\ Reaches(k, "existing")
    /\ IF event.id \in Filed THEN Close(k) ELSE Continue(k, "write") /\ UNCHANGED open
    /\ UNCHANGED rows

\* An identity that nobody refers to, as a random one is.
FreshIds == Ids \ (Filed \cup {event.id, target[Owner]})

\* The audit event refers to the run, whose row must not be locked.  The owner
\* may have paused feedback, in a setting that is read here and locked nowhere.
CommitReport(k) ==
    /\ Reaches(k, "write")
    /\ \E feedbackPaused \in BOOLEAN :
       IF feedbackPaused
       THEN /\ event' = [id |-> Nobody, of |-> target[k], suppressed |-> TRUE]
            /\ UNCHANGED report
       ELSE \E id \in {Min(FreshIds)} :
              /\ report' = [report EXCEPT ![id] = target[k]]
              /\ event' = [id |-> id, of |-> target[k], suppressed |-> FALSE]
    /\ Close(k)
    /\ UNCHANGED <<canonical, access, due>>

-----------------------------------------------------------------------------
(* The owner: deleteFeedbackSubmission.                                    *)

PreviewReport(i) ==
    /\ pc[Owner] = "idle" /\ i \in Filed
    /\ target' = [target EXCEPT ![Owner] = i]
    /\ Continue(Owner, "delete")
    /\ UNCHANGED <<rows, drop, unmapped, last>>

\* As in ReadEvent, the advisory lock and the row are one step.
LockReport ==
    /\ Reaches(Owner, "delete")
    /\ IF target[Owner] \in Filed
       THEN Continue(Owner, "suppress") /\ UNCHANGED open
       ELSE Close(Owner)
    /\ UNCHANGED rows

CommitSuppression ==
    /\ Reaches(Owner, "suppress")
    /\ event' = [id |-> target[Owner], of |-> report[target[Owner]], suppressed |-> TRUE]
    /\ report' = [report EXCEPT ![target[Owner]] = Nobody]
    /\ Close(Owner)
    /\ UNCHANGED <<canonical, access, due>>

-----------------------------------------------------------------------------
(* The run, and runRetentionSweep.                                         *)

\* A run that was reused fails only after it was reopened: a job of it that
\* runs again after the completion may do that (the run `rerun` of
\* ApplePublication), and updateRun has no guard against it.
FailRun ==
    /\ canonical = "complete"
    /\ \A p \in Processes : LockedBy(p) \cap RunRow \in {{}, RunShare(p)}
    /\ canonical' = "failed"
    /\ UNCHANGED <<access, report, event, due, pc, open>>

RetentionDue ==
    /\ ~due /\ due' = TRUE
    /\ UNCHANGED <<canonical, access, report, event, pc, open>>

\* purgeRunToTombstone.
LockForPurge ==
    /\ due /\ canonical # "gone" /\ Reaches(Retention, "idle")
    /\ Continue(Retention, "purge")
    /\ UNCHANGED <<rows, open>>

DeleteRun ==
    /\ Reaches(Retention, "purge")
    /\ Continue(Retention, "purged")
    /\ UNCHANGED <<rows, open>>

CommitRetention ==
    /\ Reaches(Retention, "purged")
    /\ canonical' = "gone"
    /\ access' = Cascade({})
    /\ report' = [i \in Ids |-> Nobody]
    /\ event' = NoEvent
    /\ Close(Retention)
    /\ UNCHANGED due

\* Mutant: the purge is relied on to leave none.
OrphansNone == {}

\* The cleanup of reports whose run is gone, and of events that nothing keeps.
Orphans == IF canonical = "gone" THEN Filed ELSE {}

EventOrphaned == event # NoEvent /\ event.id \notin Filed /\ (~event.suppressed \/ canonical = "gone")

SweepReports ==
    /\ Orphans # {}
    /\ \A p \in Processes : ReportRows(Orphans) \cap LockedBy(p) = {}
    /\ report' = [i \in Ids |-> IF i \in Orphans THEN Nobody ELSE report[i]]
    /\ UNCHANGED <<canonical, access, event, due, pc, open>>

SweepEvent ==
    /\ EventOrphaned
    /\ \A p \in Processes : EventRow \cap LockedBy(p) = {}
    /\ event' = NoEvent
    /\ UNCHANGED <<canonical, access, report, due, pc, open>>

-----------------------------------------------------------------------------
DeletionStep(v) ==
    \/ LockOwnAccess(v) \/ DeleteReports(v) \/ DeleteEvent(v) \/ CountAccesses(v)
    \/ LockRun(v) \/ CommitDeletion(v) \/ CommitPurge(v)
JoinStep(v) == InsertAccess(v) \/ CommitAccess(v)
CaptureStep(k) ==
    \/ Collect(k) \/ LockSource(k) \/ LockSourceAccess(k) \/ ReadEvent(k)
    \/ ReadExisting(k) \/ CommitReport(k)
OwnerStep == LockReport \/ CommitSuppression
PurgeStep == LockForPurge \/ DeleteRun \/ CommitRetention
SweepStep == SweepReports \/ SweepEvent
Over == canonical = "gone" /\ (\A p \in Processes : pc[p] \in {"idle", "refused"}) /\ UNCHANGED sharingVars

SharingNext ==
    \/ \E v \in Visitors : FindReusable(v) \/ RequestDeletion(v) \/ JoinStep(v) \/ DeletionStep(v)
    \/ \E k \in Captors : CaptureStep(k)
    \/ \E i \in Ids : PreviewReport(i)
    \/ OwnerStep \/ PurgeStep \/ SweepStep
    \/ Abort
    \/ FailRun \/ RetentionDue \/ Over

\* The database queues those who wait, so that a deletion or a purge does not
\* wait for ever for locks that captures free again and again; heartbeats and
\* sweeps go on.  Visitors, the owner, the failure and the age of the run are
\* not bound to happen.
SharingFairness ==
    /\ \A v \in Visitors : WF_sharingVars(JoinStep(v)) /\ SF_sharingVars(DeletionStep(v))
    /\ \A k \in Captors : WF_sharingVars(CaptureStep(k))
    /\ WF_sharingVars(OwnerStep) /\ SF_sharingVars(PurgeStep) /\ WF_sharingVars(SweepStep) /\ WF_sharingVars(Abort)

SharingSpec == SharingInit /\ [][SharingNext]_sharingVars /\ SharingFairness

-----------------------------------------------------------------------------
(* Properties.                                                             *)

\* The rows and the transactions that are open have their types.
SharedRunTypeOK ==
    /\ canonical \in {"complete", "failed", "gone"}
    /\ access \in [Visitors -> {"none", "live", "deleted", "removed"}]
    /\ report \in [Ids -> Visitors \cup {Nobody}]
    /\ event \in [id : Ids \cup {Nobody}, of : Visitors, suppressed : BOOLEAN] \cup {NoEvent}
    /\ due \in BOOLEAN
    /\ target \in [Processes -> Visitors \cup Ids \cup {Nobody}]
    /\ drop \in [Processes -> SUBSET Ids]
    /\ unmapped \subseteq Visitors /\ last \subseteq Visitors

\* No report quotes the prompt of an access that its visitor has deleted,
\* whatever the captures that had read the prompt before do afterwards
\* (persistAutomaticFailureFeedback, deleteRunAccess).
DeletedNotReported == \A i \in Filed : access[report[i]] # "deleted"

\* However often a failure is delivered it has one report, and none once it
\* is suppressed.
OneReport ==
    /\ Cardinality(Filed) <= 1
    /\ event.suppressed => Filed = {}

\* What the owner has suppressed stays so until the access the report was
\* about is deleted or the run is gone.
SuppressionKept ==
    [][event.suppressed =>
        \/ event'.suppressed
        \/ access'[event.of] # "live"
        \/ canonical' = "gone"]_sharingVars

\* A failure that some visitor still has access to is reported or suppressed
\* in the end, although captures are lost to aborted transactions.
FailureReported == (canonical = "failed" /\ Retained # {}) ~> (event # NoEvent \/ Retained = {})

\* Once the run's time is over nothing of it is left in the end: neither the
\* run, nor a report, nor its event.
NothingLeft == due ~> [](canonical = "gone" /\ Filed = {} /\ event = NoEvent)

\* When the last visitor has deleted the run and no request is open, the run
\* is gone.
LastDeletionRemovesRun ==
    (\A v \in Visitors : pc[v] = "idle" /\ access[v] \in {"none", "deleted"}) => canonical = "gone"
=============================================================================
