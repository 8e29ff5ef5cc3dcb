-------------------------- MODULE ApplePublication --------------------------
(***************************************************************************)
(* The publication of one locked manifest to the owner's Apple library:    *)
(* publishManifest and appendExactVolume (src/server/publisher.ts) with    *)
(* the reconciliation row, the Apple write permit and the completion fence *)
(* (src/server/repository.ts), the settlement of its job                   *)
(* (src/server/worker-runner.ts), and Apple as those callers see it: a     *)
(* write may be lost, may be applied after its caller gave up, and is read *)
(* back late.                                                              *)
(*                                                                         *)
(* One canonical (V3) run, one manifest revision, one volume. The queue is *)
(* reduced to what JobQueue establishes: executions of the job are         *)
(* numbered by lease generation, and the last one alone may hold it.       *)
(***************************************************************************)
EXTENDS Integers, FiniteSets

CONSTANTS Count,            \* tracks of the manifest
          Batch,            \* APPEND_BATCH_SIZE
          MaxReplacements,  \* MAX_REPLACEMENTS
          MaxExecs,         \* bound: lease generations
          MaxLists,         \* bound: playlists ever created
          MaxTroubles,      \* bound: failures, of any kind, in a behaviour
          MaxKeys,          \* bound: authorizations after the first
          SettledTakeover   \* Apple is consistent again when a job is leased

ASSUME CountAssumption == Count \in Nat \ {0}
ASSUME BatchAssumption == Batch \in Nat \ {0}
ASSUME ReplacementsAssumption == MaxReplacements \in Nat
ASSUME BoundsAssumption ==
    MaxExecs \in Nat /\ MaxLists \in Nat /\ MaxTroubles \in Nat /\ MaxKeys \in Nat
ASSUME SettledAssumption == SettledTakeover \in BOOLEAN

VARIABLES
    job,        \* the publication job: its status and lease generation
    run,        \* research_runs.status
    published,  \* the manifest revision is 'published'
    row,        \* the publication_volumes row
    recon,      \* the playlist_publication_reconciliations row
    orphans,    \* orphan_playlists
    auth,       \* the stored Apple authorization
    permit,     \* the execution whose transaction holds the write permit
    exec,       \* exec[e]: the call of publishManifest under generation e
    lib,        \* the Apple library
    seen,       \* what its reads return at present
    late,       \* writes nobody awaits that Apple may still apply
    troubles    \* failures left

vars == <<job, run, published, row, recon, orphans, auth, permit, exec, lib, seen, late, troubles>>
database == <<job, run, published, row, recon, orphans, auth>>
apple == <<lib, seen, late>>

Execs == 1..MaxExecs
Lists == 1..MaxLists
NoList == 0
NoExec == 0
Prefixes == 0..Count
Attempts == 0..MaxReplacements

ReconStates == {"preflight", "create_pending", "append_pending", "reconciling",
                "authorization_blocked", "complete", "quarantined"}

\* A playlist of the library. The marker in its description names the attempt
\* of the volume it was created for. held counts the tracks of the manifest it
\* holds in order; it is broken when it holds anything else besides, because of
\* our writes or because its owner edited it.
Playlists == [marker: Attempts, held: Prefixes, broken: {"no", "writes", "owner"},
              gone: BOOLEAN]
Nothing == [marker |-> -1]

\* Writes to Apple, as the request body has them.
Requests == [kind: {"create"}, marker: Attempts]
            \cup [kind: {"append"}, list: Lists, from: Prefixes]

\* Where an execution is: the database or Apple call it is about to make. In
\* "creating" and "appending" a write is in flight.
PCs == {"preflight", "decide", "begin", "pend", "control",
        "find", "create", "creating", "refind", "store",
        "announce", "first_look", "look", "note", "orphan", "replace",
        "append", "appending", "raise", "verify", "recheck",
        "share", "finish", "confirm", "commit", "settle",
        "block", "await", "seal", "defer", "failed", "over"}

ExecRows == [pc: PCs,
             next: {"first_look", "look", "loop"},   \* after announce
             list: Lists \cup {NoList},               \* volume.playlistId
             attempt: Attempts,                       \* volume.attempt
             submitted: Prefixes,                     \* submittedCount
             visible: Prefixes,
             diverged: BOOLEAN,
             based: BOOLEAN,                          \* reconciliationBase is set
             key: -1..MaxKeys]                        \* activeAuthorization

Unstarted == [pc |-> "over", next |-> "loop", list |-> NoList, attempt |-> 0,
              submitted |-> 0, visible |-> 0, diverged |-> FALSE,
              based |-> FALSE, key |-> -1]

TypeOK ==
    /\ job \in [status: {"queued", "leased", "expired", "settled"}, gen: 0..MaxExecs]
    /\ run \in {"publishing", "waiting", "needs_decision", "quarantined", "cancelled", "complete"}
    /\ published \in BOOLEAN
    /\ row \in [list: Lists \cup {NoList}, attempt: Attempts, appended: Prefixes, complete: BOOLEAN]
    /\ recon \in [state: ReconStates, exec: 0..MaxExecs, appended: Prefixes, observed: BOOLEAN]
    /\ orphans \subseteq Lists
    /\ auth \in [valid: BOOLEAN, key: 0..MaxKeys]
    /\ permit \in 0..MaxExecs
    /\ exec \in [Execs -> ExecRows]
    /\ lib \in [Lists -> Playlists \cup {Nothing}]
    /\ seen \in [Lists -> Playlists \cup {Nothing}]
    /\ late \subseteq Requests
    /\ troubles \in 0..MaxTroubles

Init ==
    /\ job = [status |-> "queued", gen |-> 0]
    /\ run = "publishing"
    /\ published = FALSE
    /\ row = [list |-> NoList, attempt |-> 0, appended |-> 0, complete |-> FALSE]
    /\ recon = [state |-> "preflight", exec |-> NoExec, appended |-> 0, observed |-> FALSE]
    /\ orphans = {}
    /\ auth = [valid |-> TRUE, key |-> 0]
    /\ permit = NoExec
    /\ exec = [e \in Execs |-> Unstarted]
    /\ lib = [p \in Lists |-> Nothing]
    /\ seen = [p \in Lists |-> Nothing]
    /\ late = {}
    /\ troubles = MaxTroubles

-----------------------------------------------------------------------------
(* The job and its fences.                                                 *)

Cancelled == run = "cancelled"

\* completeJob, failJob, deferJob, quarantineCanonicalExecution: the expiry of
\* the lease is not read.
Owns(e) == job.gen = e /\ job.status \in {"leased", "expired"}

\* assertPublicationReconciliationAuthority: the lease is live, the attempt of
\* its generation runs, the run is not cancelled.
Holds(e) == job.gen = e /\ job.status = "leased" /\ ~Cancelled

\* A failure happens: a crash, a pause, a refused or lost call, an edit.
Trouble == troubles > 0 /\ troubles' = troubles - 1
Calm == UNCHANGED troubles

At(e, pcs) == exec[e].pc \in pcs
Goto(e, pc) == exec' = [exec EXCEPT ![e].pc = pc]
Ends(e) == exec' = [exec EXCEPT ![e] = Unstarted]

Smaller(m, n) == IF m < n THEN m ELSE n

\* submittedCount after the next batch
Target(e) == Smaller(exec[e].submitted + Batch, Count)

-----------------------------------------------------------------------------
(* The Apple library, external: what the client in apple.ts expects of it. *)

Exists(p) == lib[p] # Nothing
Unused(p) == ~Exists(p) /\ \A q \in Lists : q < p => Exists(q)
Shown(p) == seen[p] # Nothing /\ ~seen[p].gone

Created(p, marker) ==
    [lib EXCEPT ![p] = [marker |-> marker, held |-> 0, broken |-> "no", gone |-> FALSE]]

\* A batch is appended at the end, whatever the list holds.
Appended(p, from) ==
    [lib EXCEPT ![p] = IF lib[p].held = from
                       THEN [@ EXCEPT !.held = Smaller(from + Batch, Count)]
                       ELSE [@ EXCEPT !.broken = "writes"]]

\* The write an execution has in flight.
Request(e) == IF At(e, {"creating"})
              THEN [kind |-> "create", marker |-> exec[e].attempt]
              ELSE [kind |-> "append", list |-> exec[e].list, from |-> exec[e].submitted]

\* Apple applies a request; p is the playlist a creation makes.
Applies(r, p) ==
    \/ r.kind = "create" /\ Unused(p) /\ lib' = Created(p, r.marker)
    \/ r.kind = "append" /\ p = r.list /\ ~lib[p].gone /\ lib' = Appended(p, r.from)

\* Nobody learns what becomes of the write of e: it is lost, or it is late.
LeftBehind(e) == late' \in {late, late \cup {Request(e)}}

\* No write is on its way and reads have caught up.
AppleSettled ==
    /\ late = {} /\ seen = lib
    /\ \A e \in Execs : ~At(e, {"creating", "appending"})

\* Reads catch up with writes, list by list, at any time.
Shows(p) ==
    /\ seen[p] # lib[p]
    /\ seen' = [seen EXCEPT ![p] = lib[p]]
    /\ UNCHANGED <<database, permit, exec, lib, late, troubles>>

LateArrives ==
    /\ \E r \in late :
         /\ late' = late \ {r}
         /\ \/ UNCHANGED lib
            \/ \E p \in Lists : Applies(r, p)
    /\ UNCHANGED <<database, permit, exec, seen, troubles>>

\* The owner edits or deletes a playlist in Apple Music.
OwnerEdits(p) ==
    /\ Exists(p) /\ lib[p].broken = "no" /\ Trouble
    /\ lib' = [lib EXCEPT ![p].broken = "owner"]
    /\ UNCHANGED <<database, permit, exec, seen, late>>

OwnerDeletes(p) ==
    /\ Exists(p) /\ ~lib[p].gone /\ Trouble
    /\ lib' = [lib EXCEPT ![p].gone = TRUE]
    /\ UNCHANGED <<database, permit, exec, seen, late>>

-----------------------------------------------------------------------------
(* Leases, control and requests.                                           *)

\* The permit's transaction holds FOR SHARE on the job row.
MayTake == job.status \in {"queued", "expired"} /\ permit = NoExec

\* A worker leases the job and begins the attempt of a new generation.
Take ==
    LET e == job.gen + 1 IN
    /\ MayTake /\ e \in Execs /\ ~Cancelled
    /\ SettledTakeover => AppleSettled
    /\ job' = [status |-> "leased", gen |-> e]
    /\ exec' = [exec EXCEPT ![e] = [Unstarted EXCEPT !.pc = "preflight"]]
    /\ UNCHANGED <<run, published, row, recon, orphans, auth, permit, apple, troubles>>

\* A lease is not renewed: its process is dead or stalls.
LeaseExpires ==
    /\ job.status = "leased"
    /\ IF At(job.gen, {"over"}) THEN Calm ELSE Trouble
    /\ job' = [job EXCEPT !.status = "expired"]
    /\ UNCHANGED <<run, published, row, recon, orphans, auth, permit, exec, apple>>

\* The call ends where it is: a crash, or the abort that follows a lost lease.
\* Its transactions are rolled back, a write in flight is not.
Vanish(e) ==
    /\ ~At(e, {"over"})
    /\ IF Holds(e) THEN Trouble ELSE Calm
    /\ Ends(e)
    /\ permit' = IF permit = e THEN NoExec ELSE permit
    /\ IF At(e, {"creating", "appending"}) THEN LeftBehind(e) ELSE UNCHANGED late
    /\ UNCHANGED <<database, lib, seen>>

\* Mutant: the permit does not lock the run.
MayCancelUnlocked == run \in {"publishing", "waiting"}

\* The permit's transaction holds FOR SHARE on the run.
MayCancel == run \in {"publishing", "waiting"} /\ permit = NoExec

\* A visitor cancels.
Cancel ==
    /\ MayCancel /\ Trouble
    /\ run' = "cancelled"
    /\ UNCHANGED <<job, published, row, recon, orphans, auth, permit, exec, apple>>

\* The session that holds the permit is lost; the write in flight is not.
LoseSession ==
    /\ permit # NoExec /\ Trouble
    /\ permit' = NoExec
    /\ UNCHANGED <<database, exec, apple>>

\* The owner authorizes again, and the token is validated.
Reauthorize ==
    /\ ~auth.valid /\ auth.key < MaxKeys
    /\ auth' = [valid |-> TRUE, key |-> auth.key + 1]
    /\ UNCHANGED <<job, run, published, row, recon, orphans, permit, exec, apple, troubles>>

\* Mutant: waiting runs are looked for only while the token is invalid.
MayRecoverLate == ~auth.valid /\ run = "waiting" /\ job.status = "settled"

MayRecover == auth.valid /\ run = "waiting" /\ job.status = "settled"

\* recoverWaitingApplePublicationJobs enqueues a new job for a waiting run.
Recover ==
    /\ MayRecover
    /\ job' = [job EXCEPT !.status = "queued"]
    /\ UNCHANGED <<run, published, row, recon, orphans, auth, permit, exec, apple, troubles>>

-----------------------------------------------------------------------------
(* assertPublicationControl, before every group of writes. It is a read    *)
(* and fences nothing.                                                     *)

ControlPoints == {"preflight", "control", "create", "append", "share", "commit"}

SameKey(e) == exec[e].key \in {-1, auth.key}
ControlPasses(e) == ~Cancelled /\ auth.valid /\ SameKey(e)

ControlRefuses(e) ==
    /\ At(e, ControlPoints)
    /\ \/ Cancelled /\ Goto(e, "failed")
       \/ ~Cancelled /\ ~auth.valid /\ Goto(e, "block")
       \/ ~Cancelled /\ auth.valid /\ ~SameKey(e) /\ Goto(e, "defer")
    /\ UNCHANGED <<database, permit, apple, troubles>>

\* publishing_paused is set: the job is deferred.
Pause(e) ==
    /\ At(e, ControlPoints) /\ ~Cancelled /\ Trouble
    /\ Goto(e, "defer")
    /\ UNCHANGED <<database, permit, apple>>

-----------------------------------------------------------------------------
(* publishManifest up to the volumes.                                      *)

\* Apple's catalogue is read, then the manifest is revalidated: its revision
\* must be 'locked'.
Preflight(e) ==
    /\ At(e, {"preflight"}) /\ ControlPasses(e)
    /\ exec' = [exec EXCEPT ![e] = [@ EXCEPT
                  !.key = auth.key, !.pc = IF published THEN "decide" ELSE "begin"]]
    /\ UNCHANGED <<database, permit, apple, troubles>>

\* No track of the manifest is left in the storefront.
NoTracksLeft(e) ==
    /\ At(e, {"preflight"}) /\ ControlPasses(e) /\ Trouble
    /\ exec' = [exec EXCEPT ![e] = [@ EXCEPT !.key = auth.key, !.pc = "decide"]]
    /\ UNCHANGED <<database, permit, apple>>

\* commitCanonicalPublicationPreflightDecision
Decide(e) ==
    /\ At(e, {"decide"}) /\ Holds(e)
    /\ run' = "needs_decision"
    /\ Goto(e, "settle")
    /\ UNCHANGED <<job, published, row, recon, orphans, auth, permit, apple, troubles>>

\* beginPublicationReconciliation inserts the row or adopts it, and
\* updateCanonicalPublicationRun follows under the same fence.
Begin(e) ==
    /\ At(e, {"begin"}) /\ Holds(e)
    /\ recon' = [recon EXCEPT !.exec = e]
    /\ run' = "publishing"
    /\ exec' = [exec EXCEPT ![e] = [@ EXCEPT !.pc = "pend", !.based = TRUE]]
    /\ UNCHANGED <<job, published, row, orphans, auth, permit, apple, troubles>>

\* The states with a transition to create_pending.
MayPend == {"preflight", "create_pending", "authorization_blocked"}

\* getOrCreateVolumes reads the row; the reconciliation advances to
\* create_pending, or the transition is a conflict.
Pend(e) ==
    /\ At(e, {"pend"}) /\ Holds(e)
    /\ IF recon.state \in MayPend
       THEN /\ recon' = [recon EXCEPT !.state = "create_pending", !.observed = FALSE]
            /\ exec' = [exec EXCEPT ![e] = [@ EXCEPT !.pc = "control",
                 !.list = row.list, !.attempt = row.attempt, !.submitted = row.appended]]
       ELSE UNCHANGED recon /\ Goto(e, "seal")
    /\ UNCHANGED <<job, run, published, row, orphans, auth, permit, apple, troubles>>

-----------------------------------------------------------------------------
(* ensureApplePlaylist                                                     *)

Control(e) ==
    /\ At(e, {"control"}) /\ ControlPasses(e)
    /\ exec' = [exec EXCEPT ![e] = [@ EXCEPT !.next = "first_look",
                  !.pc = IF exec[e].list = NoList THEN "find" ELSE "announce"]]
    /\ UNCHANGED <<database, permit, apple, troubles>>

\* Mutant: any playlist of the volume will do.
MarkedByVolume(e) == {p \in Lists : Shown(p)}

\* findLibraryPlaylistByMarker: playlists Apple lists with this attempt's marker.
Marked(e) == {p \in Lists : Shown(p) /\ seen[p].marker = exec[e].attempt}

Find(e) ==
    /\ At(e, {"find", "refind"})
    /\ IF Marked(e) = {}
       THEN Goto(e, IF At(e, {"find"}) THEN "create" ELSE "failed")
       ELSE \E p \in Marked(e) :
              exec' = [exec EXCEPT ![e] = [@ EXCEPT !.pc = "store", !.list = p]]
    /\ UNCHANGED <<database, permit, apple, troubles>>

Store(e) ==
    /\ At(e, {"store"}) /\ Holds(e)
    /\ row' = [row EXCEPT !.list = exec[e].list, !.complete = FALSE]
    /\ exec' = [exec EXCEPT ![e] = [@ EXCEPT !.pc = "announce", !.next = "first_look"]]
    /\ UNCHANGED <<job, run, published, recon, orphans, auth, permit, apple, troubles>>

-----------------------------------------------------------------------------
(* withAppleWritePermit: acquireAppleWritePermit, the mutation, release.   *)

\* What the permit's transaction reads, and keeps FOR SHARE.
PermitOpen(e) ==
    /\ Holds(e)
    /\ recon.exec = e
    /\ recon.state \notin {"complete", "quarantined"}

AskToWrite(e) ==
    /\ At(e, {"create", "append"}) /\ ControlPasses(e)
    /\ permit = NoExec /\ PermitOpen(e)
    /\ permit' = e
    /\ Goto(e, IF At(e, {"create"}) THEN "creating" ELSE "appending")
    /\ UNCHANGED <<database, apple, troubles>>

\* The permit is refused, or stays busy: appendExactVolume reads the playlist
\* again before it rethrows.
PermitRefused(e) ==
    /\ At(e, {"create", "append"}) /\ ControlPasses(e)
    /\ IF permit = NoExec /\ ~PermitOpen(e) THEN Calm ELSE Trouble
    /\ Goto(e, IF At(e, {"append"}) THEN "recheck" ELSE "failed")
    /\ UNCHANGED <<database, permit, apple>>

Release(e) == permit' = IF permit = e THEN NoExec ELSE permit

\* Where the call goes when the write ends one way and the permit's session
\* was lost meanwhile: release() throws a plain error instead.
Or(e, pc) == IF permit = e THEN pc
             ELSE IF At(e, {"creating"}) THEN "failed" ELSE "recheck"

Answered(e) ==
    /\ At(e, {"creating", "appending"})
    /\ \E p \in Lists :
         /\ Applies(Request(e), p)
         /\ exec' = [exec EXCEPT ![e] =
              IF At(e, {"creating"})
              THEN [@ EXCEPT !.pc = Or(e, "store"), !.list = IF permit = e THEN p ELSE NoList]
              ELSE [@ EXCEPT !.pc = Or(e, "raise"), !.next = "look",
                             !.visible = IF permit = e THEN Target(e) ELSE exec[e].visible]]
    /\ Release(e)
    /\ UNCHANGED <<database, seen, late, troubles>>

\* Apple refuses the write: the playlist is gone, or for a reason of its own.
Rejected(e) ==
    /\ At(e, {"creating", "appending"})
    /\ IF At(e, {"appending"}) /\ lib[exec[e].list].gone THEN Calm ELSE Trouble
    /\ Goto(e, IF At(e, {"creating"}) THEN "failed" ELSE "recheck")
    /\ Release(e)
    /\ UNCHANGED <<database, apple>>

\* It refuses with 401 or 403.
WriteDenied(e) ==
    /\ At(e, {"creating", "appending"}) /\ Trouble
    /\ Goto(e, Or(e, "block"))
    /\ Release(e)
    /\ UNCHANGED <<database, apple>>

\* uncertainMutation: a playlist is looked for again, an append is verified.
AfterTimeout(e) == IF At(e, {"creating"}) THEN "refind" ELSE "verify"

TimesOut(e) ==
    /\ At(e, {"creating", "appending"}) /\ Trouble
    /\ LeftBehind(e)
    /\ Goto(e, Or(e, AfterTimeout(e)))
    /\ Release(e)
    /\ UNCHANGED <<database, lib, seen>>

-----------------------------------------------------------------------------
(* observeStablePrefix: up to six reads of the playlist, here the one that *)
(* decides. It returns a prefix of the manifest that is long enough, or a  *)
(* divergence; otherwise it throws.                                        *)

Reads == {"first_look", "look", "verify", "recheck"}

\* Mutant: an uncertain append is reconciled against the old high-water mark.
RequiredBefore(e) == exec[e].submitted

\* minimumVisibleCount
Required(e) == IF At(e, {"verify"}) THEN Target(e) ELSE exec[e].submitted

SeenOf(e) == seen[exec[e].list]
Diverges(e) == Shown(exec[e].list) /\ SeenOf(e).broken # "no"
Suffices(e) ==
    Shown(exec[e].list) /\ SeenOf(e).broken = "no" /\ SeenOf(e).held >= Required(e)

\* What the call does with the observation.
AfterLook(e, visible) ==
    IF At(e, {"first_look", "look"}) THEN "note"
    ELSE IF Diverges(e) THEN "orphan"
    ELSE IF At(e, {"verify"}) \/ visible > exec[e].submitted THEN "raise"
    ELSE "failed"

Look(e) ==
    /\ At(e, Reads)
    /\ Diverges(e) \/ Suffices(e)
    /\ exec' = [exec EXCEPT ![e] = [@ EXCEPT
                  !.visible = SeenOf(e).held, !.diverged = Diverges(e),
                  !.pc = AfterLook(e, SeenOf(e).held), !.next = "loop"]]
    /\ UNCHANGED <<database, permit, apple, troubles>>

\* The six reads end without an answer, or Apple answers 404: the first look
\* and the verification abandon the playlist, the others throw.
LookFails(e) ==
    /\ At(e, Reads)
    /\ \/ At(e, {"first_look"}) /\ ~Shown(exec[e].list) /\ Goto(e, "orphan")
       \/ At(e, {"verify"}) /\ Goto(e, "orphan")
       \/ At(e, {"look", "recheck"}) /\ ~Shown(exec[e].list) /\ Goto(e, "failed")
    /\ IF At(e, {"verify"}) \/ lib[exec[e].list].gone THEN Calm ELSE Trouble
    /\ UNCHANGED <<database, permit, apple>>

-----------------------------------------------------------------------------
(* appendExactVolume: the progress it records, and its loop.               *)

\* while (submittedCount < expected.length), and the test after it.
LoopPC(e) ==
    IF exec[e].submitted < Count THEN "append"
    ELSE IF exec[e].visible = Count THEN "share" ELSE "failed"

\* recordProgress append_pending
Announce(e) ==
    /\ At(e, {"announce"}) /\ Holds(e)
    /\ recon' = [recon EXCEPT !.state = "append_pending",
                              !.appended = exec[e].submitted, !.observed = FALSE]
    /\ Goto(e, IF exec[e].next = "loop" THEN LoopPC(e) ELSE exec[e].next)
    /\ UNCHANGED <<job, run, published, row, orphans, auth, permit, apple, troubles>>

\* recordProgress reconciling, after a look. The observation counts as exact
\* by its length.
Note(e) ==
    /\ At(e, {"note"}) /\ Holds(e)
    /\ recon' = [recon EXCEPT !.state = "reconciling", !.appended = exec[e].submitted,
                   !.observed = exec[e].submitted = Count /\ exec[e].visible = Count]
    /\ Goto(e, IF exec[e].diverged THEN "orphan"
               ELSE IF exec[e].visible > exec[e].submitted THEN "raise" ELSE LoopPC(e))
    /\ UNCHANGED <<job, run, published, row, orphans, auth, permit, apple, troubles>>

\* advanceSubmittedCount writes the high-water mark of the volume.
Raise(e) ==
    /\ At(e, {"raise"}) /\ Holds(e)
    /\ row' = [row EXCEPT !.appended = exec[e].visible, !.complete = FALSE]
    /\ exec' = [exec EXCEPT ![e] = [@ EXCEPT !.submitted = exec[e].visible, !.pc = "announce"]]
    /\ UNCHANGED <<job, run, published, recon, orphans, auth, permit, apple, troubles>>

\* abandonPlaylist: markPlaylistOrphan, then the row in a second transaction.
Orphan(e) ==
    /\ At(e, {"orphan"}) /\ Holds(e)
    /\ orphans' = orphans \cup {exec[e].list}
    /\ Goto(e, "replace")
    /\ UNCHANGED <<job, run, published, row, recon, auth, permit, apple, troubles>>

\* Mutant: one replacement too many.
MayReplaceOnceMore(e) == exec[e].attempt <= MaxReplacements

MayReplace(e) == exec[e].attempt < MaxReplacements

\* Mutant: the high-water mark of the abandoned playlist is kept.
ReplacedKept == [row EXCEPT !.list = NoList, !.attempt = @ + 1, !.complete = FALSE]

Replaced == [list |-> NoList, attempt |-> row.attempt + 1, appended |-> 0, complete |-> FALSE]

Replace(e) ==
    /\ At(e, {"replace"})
    /\ IF MayReplace(e)
       THEN /\ Holds(e)
            /\ row' = Replaced
            /\ exec' = [exec EXCEPT ![e] = [@ EXCEPT !.pc = "control", !.list = NoList,
                          !.attempt = exec[e].attempt + 1, !.submitted = 0, !.visible = 0, !.diverged = FALSE]]
       ELSE UNCHANGED row /\ Goto(e, "failed")
    /\ UNCHANGED <<job, run, published, recon, orphans, auth, permit, apple, troubles>>

-----------------------------------------------------------------------------
(* Completion.                                                             *)

\* pollStableShareUrl
Share(e) ==
    /\ At(e, {"share"}) /\ ControlPasses(e)
    /\ Goto(e, "finish")
    /\ UNCHANGED <<database, permit, apple, troubles>>

Finish(e) ==
    /\ At(e, {"finish"}) /\ Holds(e)
    /\ row' = [row EXCEPT !.appended = exec[e].submitted, !.complete = TRUE]
    /\ Goto(e, "confirm")
    /\ UNCHANGED <<job, run, published, recon, orphans, auth, permit, apple, troubles>>

\* The progress of the last volume and that of the manifest: for one volume
\* the same row is written twice.
Confirm(e) ==
    /\ At(e, {"confirm"}) /\ Holds(e)
    /\ recon' = [recon EXCEPT !.state = "reconciling", !.appended = Count, !.observed = TRUE]
    /\ Goto(e, "commit")
    /\ UNCHANGED <<job, run, published, row, orphans, auth, permit, apple, troubles>>

\* The stored volume is the attempt this execution reconciled.
ExactAttempt(e) ==
    /\ row.list = exec[e].list /\ row.attempt = exec[e].attempt
    /\ row.appended = Count /\ row.complete

\* Every fence of commitPublicationCompletion, in one transaction.
MayCommit(e) ==
    /\ Holds(e) /\ run \in {"publishing", "complete"}
    /\ recon.exec = e /\ recon.state \in {"reconciling", "complete"}
    /\ recon.appended = Count /\ recon.observed
    /\ ExactAttempt(e)

Commit(e) ==
    /\ At(e, {"commit"}) /\ ControlPasses(e) /\ MayCommit(e)
    /\ run' = "complete"
    /\ published' = TRUE
    /\ recon' = [recon EXCEPT !.state = "complete"]
    /\ Goto(e, "settle")
    /\ UNCHANGED <<job, row, orphans, auth, permit, apple, troubles>>

CommitRefused(e) ==
    /\ At(e, {"commit"}) /\ ControlPasses(e) /\ ~MayCommit(e)
    /\ Goto(e, "seal")
    /\ UNCHANGED <<database, permit, apple, troubles>>

-----------------------------------------------------------------------------
(* The catch block of publishManifest, and the worker.                     *)

\* The progress after an append that was answered is in the try block of the
\* append: when it fails the playlist is read again.
Caught(e) ==
    IF At(e, {"raise", "announce"}) /\ exec[e].next = "look" THEN "recheck" ELSE "failed"

\* A fenced call is refused.
Fenced == {"decide", "begin", "pend", "store", "announce", "note", "orphan",
           "replace", "raise", "finish", "confirm"}

Refused(e) ==
    /\ At(e, Fenced) /\ ~Holds(e)
    /\ Goto(e, Caught(e))
    /\ UNCHANGED <<database, permit, apple, troubles>>

\* Any other failure: the database, a read from Apple, the share link, the
\* notification after Orphan or Commit.
CallFails(e) ==
    /\ At(e, (Fenced \cup Reads \cup {"preflight", "find", "refind", "share", "commit", "await", "settle"})
             \ {"verify"})
    /\ Trouble
    /\ Goto(e, Caught(e))
    /\ UNCHANGED <<database, permit, apple>>

\* Apple answers a read with 401 or 403.
ReadDenied(e) ==
    /\ At(e, Reads \cup {"preflight", "find", "refind", "share"}) /\ Trouble
    /\ exec' = [exec EXCEPT ![e] = [@ EXCEPT !.pc = "block",
                  !.key = IF exec[e].key = -1 THEN auth.key ELSE exec[e].key]]
    /\ UNCHANGED <<database, permit, apple>>

\* AppleAuthorizationRequiredError: the reconciliation is blocked, begun if
\* it was not; errors of that are swallowed. Then the stored authorization is
\* marked, unless it is another one by now.
Block(e) ==
    /\ At(e, {"block"})
    /\ IF Holds(e)
       THEN recon' = [recon EXCEPT !.exec = e,
              !.state = IF @ \in {"complete", "quarantined"} THEN @ ELSE "authorization_blocked",
              !.observed = @ /\ recon.state \in {"complete", "quarantined"}]
       ELSE UNCHANGED recon
    /\ IF SameKey(e)
       THEN /\ auth' = [auth EXCEPT !.valid = FALSE]
            /\ exec' = [exec EXCEPT ![e] = [@ EXCEPT !.pc = "await", !.based = exec[e].based \/ Holds(e)]]
       ELSE UNCHANGED auth /\ Goto(e, "defer")
    /\ UNCHANGED <<job, run, published, row, orphans, permit, apple, troubles>>

\* The run waits for its owner. An execution that never began its
\* reconciliation writes it with updateRun, which only knows cancelled runs.
Await(e) ==
    /\ At(e, {"await"})
    /\ IF exec[e].based /\ ~Holds(e)
       THEN UNCHANGED run /\ Goto(e, "failed")
       ELSE /\ run' = IF Cancelled THEN run ELSE "waiting"
            /\ Goto(e, "settle")
    /\ UNCHANGED <<job, published, row, recon, orphans, auth, permit, apple, troubles>>

\* A conflict or a stale fence: advance(quarantined), errors swallowed.
Seal(e) ==
    /\ At(e, {"seal"})
    /\ recon' = IF Holds(e) /\ recon.exec = e /\ recon.state # "complete"
                THEN [recon EXCEPT !.state = "quarantined", !.observed = FALSE] ELSE recon
    /\ Goto(e, "failed")
    /\ UNCHANGED <<job, run, published, row, orphans, auth, permit, apple, troubles>>

Settled(e) == job' = IF Owns(e) THEN [job EXCEPT !.status = "settled"] ELSE job

\* completeJob; an execution without the lease is discarded.
Settle(e) ==
    /\ At(e, {"settle"})
    /\ Settled(e) /\ Ends(e)
    /\ UNCHANGED <<run, published, row, recon, orphans, auth, permit, apple, troubles>>

\* deferJob
Defer(e) ==
    /\ At(e, {"defer"})
    /\ job' = IF Owns(e) THEN [job EXCEPT !.status = "queued"] ELSE job
    /\ Ends(e)
    /\ UNCHANGED <<run, published, row, recon, orphans, auth, permit, apple, troubles>>

\* The worker has no retry for a V3 publication that fails: the run is
\* quarantined and the job fails, or is cancelled with its run.
Fail(e) ==
    /\ At(e, {"failed"})
    /\ run' = IF Owns(e) /\ run \notin {"complete", "cancelled", "quarantined"}
              THEN "quarantined" ELSE run
    /\ Settled(e) /\ Ends(e)
    /\ UNCHANGED <<published, row, recon, orphans, auth, permit, apple, troubles>>

-----------------------------------------------------------------------------

\* The steps of an execution that nothing disturbs.
Step(e) ==
    \/ Preflight(e) \/ Decide(e) \/ Begin(e) \/ Pend(e)
    \/ Control(e) \/ ControlRefuses(e) \/ Find(e) \/ Store(e)
    \/ AskToWrite(e) \/ Answered(e) \/ Look(e)
    \/ Announce(e) \/ Note(e) \/ Raise(e) \/ Orphan(e) \/ Replace(e)
    \/ Share(e) \/ Finish(e) \/ Confirm(e) \/ Commit(e) \/ CommitRefused(e)
    \/ Block(e) \/ Await(e) \/ Seal(e) \/ Settle(e) \/ Defer(e) \/ Fail(e)
    \/ Refused(e)

Disturbance(e) ==
    \/ Vanish(e) \/ Pause(e) \/ NoTracksLeft(e) \/ PermitRefused(e) \/ Rejected(e)
    \/ WriteDenied(e) \/ TimesOut(e) \/ LookFails(e) \/ CallFails(e) \/ ReadDenied(e)

Environment ==
    \/ Take \/ LeaseExpires \/ Cancel \/ LoseSession \/ Reauthorize \/ Recover
    \/ LateArrives
    \/ \E p \in Lists : Shows(p) \/ OwnerEdits(p) \/ OwnerDeletes(p)

Next == Environment \/ \E e \in Execs : Step(e) \/ Disturbance(e)

\* Executions go on and their reads end; workers poll; Apple settles; the lease
\* of a dead execution expires; the owner authorizes again in the end.
Fairness ==
    /\ \A e \in Execs : WF_vars(Step(e) \/ LookFails(e) \/ PermitRefused(e) \/ Rejected(e))
    /\ WF_vars(Take) /\ WF_vars(LateArrives)
    /\ WF_vars(LeaseExpires /\ UNCHANGED troubles)
    /\ WF_vars(Reauthorize) /\ WF_vars(Recover)
    /\ \A p \in Lists : WF_vars(Shows(p))

Spec == Init /\ [][Next]_vars /\ Fairness

-----------------------------------------------------------------------------
(* Properties.                                                             *)

\* A complete run has published the manifest: its playlist holds every track.
PublishedHeld ==
    run = "complete" => row.list # NoList /\ lib[row.list].held = Count

\* It holds each once, as far as our writes go, and no write is on its way to it.
PublishedOnce ==
    run = "complete" =>
        /\ lib[row.list].broken # "writes"
        /\ \A r \in late : r.kind = "append" => r.list # row.list

\* The published playlist is the exact manifest, whatever answers were lost, reads
\* lagged and executions were replaced on the way.
PublishedExact == PublishedHeld /\ PublishedOnce

\* A playlist that was recorded as an orphan, for its owner to delete, is never
\* the one a complete run shows.
OrphanNeverPublished == run = "complete" => row.list \notin orphans

\* The stored high-water mark is not ahead of Apple: every track it counts has
\* been applied to the stored playlist, whatever answers and workers were lost.
SubmittedIsApplied ==
    row.appended > 0 => row.list # NoList /\ row.appended <= lib[row.list].held

\* Whoever holds the write permit is the latest lease generation, owns the
\* reconciliation of a run that is neither cancelled nor published, and works on
\* the stored attempt of the volume: no request can change that meanwhile.
PermitLocks ==
    permit # NoExec =>
        /\ Owns(permit)
        /\ run \notin {"cancelled", "complete"}
        /\ recon.exec = permit
        /\ At(permit, {"creating", "appending"})
        /\ row.attempt = exec[permit].attempt
        /\ row.list = exec[permit].list

\* A publication ends: published, refused with a reason, or cancelled.
PublicationEnds ==
    <>(run \in {"complete", "needs_decision", "quarantined", "cancelled"})

\* What publication promises, and this module implements: the playlist of the
\* stored attempt grows by batches as an exact prefix of the manifest, or is given
\* up for an empty one, and is published once, when it is whole; nothing is
\* written to it afterwards.
Exact == INSTANCE ExactPublication WITH
    content <- IF row.list = NoList THEN 0
               ELSE IF lib[row.list].broken = "writes" THEN Count + 1
               ELSE lib[row.list].held,
    status <- IF published THEN "published" ELSE "open"

ImplementsExact == Exact!Spec

\* Publication can be taken up from wherever the reconciliation was left.
ResumesFromAnywhere ==
    \A e \in Execs : At(e, {"pend"}) /\ Holds(e) => recon.state \in MayPend

\* A published playlist stays published.
CompletionKept == published => run = "complete"
=============================================================================
