----------------------- MODULE ExactPublicationProofs -----------------------
(***************************************************************************)
(* ApplePublication implements ExactPublication, and a complete run shows  *)
(* the exact manifest, for every value of the constants, provided that     *)
(* Apple is consistent again when a job is leased (SettledTakeover).       *)
(*                                                                         *)
(* The argument: writes are those of the latest execution, because at a    *)
(* takeover none is left; only the stored playlist of the stored attempt   *)
(* is written to, and the marker tells it from those that were given up;   *)
(* and at most one write to it is on its way, which continues it where it  *)
(* ends, because an execution that does not know what became of its write  *)
(* sends no other before a read has shown its effect.                      *)
(***************************************************************************)
EXTENDS ApplePublicationProofs

-----------------------------------------------------------------------------
(* The inductive invariant, beside IInv.                                   *)

Writing == {"creating", "appending"}

\* Where an execution does not know what became of its append, and where it
\* goes when it gives up to learn it.
Uncertain == {"verify", "recheck"}
Retired == {"failed", "block", "await", "defer", "settle", "seal", "over"}
Away == Uncertain \cup {"orphan", "replace"} \cup Retired

\* Where it has not yet looked at the playlist it found stored, and where it
\* knows how long the playlist is.
Opening == {"preflight", "decide", "begin", "pend", "control", "first_look"}
Knowing == {"look", "append", "appending", "share", "finish", "confirm", "commit"}
Opens(e) == At(e, Opening) \/ (At(e, {"announce"}) /\ exec[e].next = "first_look")
Knows(e) == At(e, Knowing) \/ (At(e, {"announce"}) /\ exec[e].next # "first_look")

\* No marker is ahead of the stored attempt, and reads tell the true one.
MarkersOK ==
    /\ \A p \in Lists : Exists(p) => lib[p].marker <= row.attempt
    /\ \A p \in Lists : seen[p] # Nothing => seen[p].marker = lib[p].marker
    /\ \A r \in late : r.kind = "create" => r.marker <= row.attempt

\* The stored playlist is that of the stored attempt and no write has spoiled
\* it; any other of that attempt is still empty.
StoredOK ==
    /\ row.list # NoList =>
          lib[row.list].marker = row.attempt /\ lib[row.list].broken # "writes"
    /\ \A p \in Lists : Exists(p) /\ lib[p].marker = row.attempt /\ p # row.list =>
          lib[p].held = 0 /\ lib[p].broken # "writes"

\* A request continues the stored playlist, or is for one that was given up.
Fits(r) ==
    /\ r.kind = "create" => r.marker <= row.attempt
    /\ r.kind = "append" =>
          IF r.list = row.list THEN lib[r.list].held = r.from /\ r.from < Count
          ELSE lib[r.list].marker < row.attempt
LateOK == \A r \in late : Fits(r)

\* A late append to the stored playlist is the one the execution is uncertain
\* about, or has given up.
ToStored(r) == r.kind = "append" /\ r.list = row.list
AwaitsLate(e) ==
    \A r \in late : ToStored(r) =>
        At(e, Away) /\ (At(e, Uncertain) => r.from = exec[e].submitted)

\* What the latest execution knows of the stored playlist.
LookOK(e) ==
    /\ At(e, {"note"}) =>
          exec[e].next = "loop" /\ (exec[e].diverged \/ exec[e].visible = lib[row.list].held)
    /\ At(e, {"raise"}) =>
          /\ exec[e].next # "first_look" /\ exec[e].visible = lib[row.list].held
          /\ exec[e].next = "look" => exec[e].visible = Target(e)
LatestOK(e) ==
    /\ At(e, {"store"}) => lib[exec[e].list].marker = row.attempt
    /\ Opens(e) /\ row.list # NoList /\ seen[row.list] # Nothing =>
          seen[row.list].held = lib[row.list].held
    /\ Knows(e) => lib[row.list].held = exec[e].submitted
    /\ At(e, {"append", "appending"}) => exec[e].submitted < Count
    /\ At(e, Uncertain) => lib[row.list].held \in {exec[e].submitted, Target(e)}
    /\ LookOK(e)

WriterOK(e) ==
    /\ At(e, Writing) => e = job.gen
    /\ e = job.gen => AwaitsLate(e) /\ LatestOK(e)

WInv == MarkersOK /\ StoredOK /\ LateOK /\ \A e \in Execs : WriterOK(e)

-----------------------------------------------------------------------------
(* The steps that ExactPublication sees.                                   *)

Still ==
    /\ row'.list = row.list /\ published' = published
    /\ row.list # NoList => lib'[row.list].held = lib[row.list].held
Grows ==
    /\ row'.list = row.list /\ row.list # NoList /\ UNCHANGED published /\ ~published
    /\ lib'[row.list].held \in lib[row.list].held + 1 .. lib[row.list].held + Batch
    /\ lib'[row.list].held <= Count
GivesUp == ~published /\ ~published' /\ row'.list = NoList
StoresEmpty ==
    /\ row.list = NoList /\ row'.list # NoList /\ published' = published
    /\ lib'[row'.list].held = 0
Publishes ==
    /\ ~published /\ published' /\ row'.list = row.list /\ row.list # NoList
    /\ lib'[row.list].held = lib[row.list].held /\ lib[row.list].held = Count
Seen == Still \/ Grows \/ GivesUp \/ StoresEmpty \/ Publishes

-----------------------------------------------------------------------------
(* What steps keep.                                                        *)

OthersSame(e) == \A d \in Execs \ {e} : exec'[d] = exec[d]
SameVolume == row'.list = row.list /\ row'.attempt = row.attempt /\ job'.gen = job.gen

LEMMA WParts ==
    ASSUME WInv, IInv, NEW e \in Execs
    PROVE  /\ MarkersOK /\ StoredOK /\ LateOK /\ WriterOK(e)
           /\ TypeOK /\ ExecOK(e) /\ CopyOK(e) /\ LibInv /\ RowInv
           /\ exec[e] \in ExecRows /\ row.list \in Lists \cup {NoList}
  <1>1. TypeOK /\ ExecOK(e) /\ CopyOK(e) /\ LibInv /\ RowInv
    BY ExecParts
  <1>2. exec[e] \in ExecRows /\ row.list \in Lists \cup {NoList}
    BY <1>1 DEF TypeOK
  <1>. QED BY <1>1, <1>2 DEF WInv

\* A step of one execution that writes neither to Apple nor the stored playlist.
LEMMA OneMoves ==
    ASSUME WInv, NEW e \in Execs, OthersSame(e), SameVolume, UNCHANGED <<lib, seen, late>>,
           At(e, Writing)' => e = job.gen,
           e = job.gen => AwaitsLate(e)' /\ LatestOK(e)'
    PROVE  WInv'
  <1>1. MarkersOK' /\ StoredOK' /\ LateOK'
    BY DEF WInv, MarkersOK, StoredOK, LateOK, Fits, Exists, SameVolume
  <1>2. ASSUME NEW d \in Execs, d # e PROVE WriterOK(d)'
    <2>1. exec'[d] = exec[d] /\ WriterOK(d)
      BY <1>2 DEF OthersSame, WInv
    <2>. QED BY <2>1 DEF WriterOK, AwaitsLate, ToStored, LatestOK, LookOK, Opens, Knows, At,
                        SameVolume, Target
  <1>3. WriterOK(e)'
    BY DEF WriterOK, SameVolume
  <1>. QED BY <1>1, <1>2, <1>3 DEF WInv

\* An execution that was not uncertain knows of no late append.
LEMMA NoneLate ==
    ASSUME NEW e \in Execs, AwaitsLate(e), ~At(e, Away), SameVolume, UNCHANGED late
    PROVE  AwaitsLate(e)'
  BY DEF AwaitsLate, ToStored, SameVolume

\* It gives up.
LEMMA Retires ==
    ASSUME WInv, NEW e \in Execs, OthersSame(e), SameVolume, UNCHANGED <<lib, seen, late>>,
           exec'[e].pc \in Retired
    PROVE  WInv'
  <1>1. AwaitsLate(e)'
    BY DEF AwaitsLate, At, Away, Retired, Uncertain
  <1>2. LatestOK(e)' /\ ~At(e, Writing)'
    BY DEF LatestOK, LookOK, Opens, Knows, At, Retired, Opening, Knowing, Uncertain, Writing
  <1>. QED BY <1>1, <1>2, OneMoves

LEMMA GivesUpLearning ==
    ASSUME WInv, NEW e \in Execs, OthersSame(e), SameVolume, UNCHANGED <<lib, seen, late>>,
           exec'[e].pc \in {"orphan", "replace"}
    PROVE  WInv'
  <1>1. AwaitsLate(e)'
    BY DEF AwaitsLate, At, Away, Uncertain
  <1>2. LatestOK(e)' /\ ~At(e, Writing)'
    BY DEF LatestOK, LookOK, Opens, Knows, At, Retired, Opening, Knowing, Uncertain, Writing
  <1>. QED BY <1>1, <1>2, OneMoves

\* It goes on before it looks.
LEMMA StaysOpening ==
    ASSUME WInv, NEW e \in Execs, OthersSame(e), SameVolume, UNCHANGED <<lib, seen, late>>,
           Opens(e), Opens(e)'
    PROVE  WInv'
  <1>1. ~At(e, Away) /\ ~At(e, Writing)'
    BY DEF Opens, At, Away, Opening, Uncertain, Retired, Writing
  <1>2. ASSUME e = job.gen PROVE AwaitsLate(e)' /\ LatestOK(e)'
    <2>1. AwaitsLate(e) /\ LatestOK(e)
      BY <1>2 DEF WInv, WriterOK
    <2>. QED BY <1>1, <2>1, NoneLate
             DEF LatestOK, LookOK, Opens, Knows, At, Opening, Knowing, Uncertain, SameVolume
  <1>. QED BY <1>1, <1>2, OneMoves

\* It goes on and knows how long the playlist is.
LEMMA StaysKnowing ==
    ASSUME WInv, NEW e \in Execs, OthersSame(e), SameVolume, UNCHANGED <<lib, seen, late>>,
           Knows(e), Knows(e)', exec'[e].submitted = exec[e].submitted,
           At(e, {"append", "appending"})' => exec[e].submitted < Count,
           At(e, Writing)' => e = job.gen
    PROVE  WInv'
  <1>1. ~At(e, Away)
    BY DEF Knows, At, Away, Knowing, Uncertain, Retired
  <1>2. ASSUME e = job.gen PROVE AwaitsLate(e)' /\ LatestOK(e)'
    <2>1. AwaitsLate(e) /\ LatestOK(e)
      BY <1>2 DEF WInv, WriterOK
    <2>. QED BY <1>1, <2>1, NoneLate
             DEF LatestOK, LookOK, Opens, Knows, At, Opening, Knowing, Uncertain, SameVolume
  <1>. QED BY <1>2, OneMoves

\* Where it knows of no playlist there is nothing to know.
LEMMA StaysUnlisted ==
    ASSUME WInv, NEW e \in Execs, OthersSame(e), SameVolume, UNCHANGED <<lib, seen, late>>,
           ~At(e, Away), exec'[e].pc \in Unlisted, At(e, Writing)' => e = job.gen
    PROVE  WInv'
  <1>1. ASSUME e = job.gen PROVE AwaitsLate(e)' /\ LatestOK(e)'
    <2>1. AwaitsLate(e)
      BY <1>1 DEF WInv, WriterOK
    <2>. QED BY <2>1, NoneLate
             DEF LatestOK, LookOK, Opens, Knows, At, Opening, Knowing, Uncertain, Unlisted
  <1>. QED BY <1>1, OneMoves

-----------------------------------------------------------------------------
(* Steps of an execution that leave Apple alone.                           *)

\* A step that writes no volume and nothing to Apple.
LEMMA GoesTo ==
    ASSUME IInv, NEW e \in Execs, NEW x, Goto(e, x)
    PROVE  /\ OthersSame(e) /\ exec'[e].pc = x /\ exec'[e].next = exec[e].next
           /\ exec'[e].submitted = exec[e].submitted /\ exec'[e].visible = exec[e].visible
  <1>1. exec \in [Execs -> ExecRows]
    BY DEF IInv, TypeOK
  <1>2. exec'[e] = [exec[e] EXCEPT !.pc = x] /\ OthersSame(e)
    BY <1>1 DEF Goto, OthersSame
  <1>. QED BY <1>1, <1>2 DEF ExecRows

LEMMA ApartFromApple ==
    ASSUME UNCHANGED <<row, job, published, apple>>
    PROVE  SameVolume /\ Still /\ UNCHANGED <<lib, seen, late>>
  BY DEF SameVolume, Still, apple

\* Every way to give up: refusals, pauses, failed calls, the end of a call.
LEMMA GotoRetired ==
    ASSUME IInv, WInv, NEW e \in Execs, NEW x \in Retired, Goto(e, x),
           SameVolume, Still, UNCHANGED <<lib, seen, late>>
    PROVE  WInv' /\ Seen
  BY GoesTo, Retires DEF Seen

LEMMA ControlRefusesSeen ==
    ASSUME IInv, WInv, NEW e \in Execs, ControlRefuses(e) \/ Pause(e) \/ CommitRefused(e)
    PROVE  WInv' /\ Seen
  <1>1. UNCHANGED <<row, job, published, apple>>
    BY DEF ControlRefuses, Pause, CommitRefused, database
  <1>2. \E x \in Retired : Goto(e, x)
    BY DEF ControlRefuses, Pause, CommitRefused, Retired
  <1>. QED BY <1>1, <1>2, ApartFromApple, GotoRetired

LEMMA EndsSeen ==
    ASSUME IInv, WInv, NEW e \in Execs, Settle(e) \/ Defer(e) \/ Fail(e)
    PROVE  WInv' /\ Seen
  <1>1. UNCHANGED <<row, published, apple>> /\ job'.gen = job.gen
    BY DEF Settle, Defer, Fail, Settled, Owns, IInv, TypeOK
  <1>2. OthersSame(e) /\ exec'[e].pc \in Retired
    <2>1. exec \in [Execs -> ExecRows] /\ Ends(e)
      BY DEF IInv, TypeOK, Settle, Defer, Fail
    <2>. QED BY <2>1 DEF Ends, OthersSame, Retired, Unstarted
  <1>3. SameVolume /\ Still /\ UNCHANGED <<lib, seen, late>>
    BY <1>1 DEF SameVolume, Still, apple
  <1>. QED BY <1>2, <1>3, Retires DEF Seen

LEMMA LeavesSeen ==
    ASSUME IInv, WInv, NEW e \in Execs, Decide(e) \/ Commit(e) \/ Await(e) \/ Seal(e)
    PROVE  WInv'
  <1>1. UNCHANGED <<row, job, apple>>
    BY DEF Decide, Commit, Await, Seal
  <1>2. \E x \in Retired : Goto(e, x)
    BY DEF Decide, Commit, Await, Seal, Retired
  <1>3. SameVolume /\ UNCHANGED <<lib, seen, late>>
    BY <1>1 DEF SameVolume, apple
  <1>. QED BY <1>2, <1>3, GoesTo, Retires

LEMMA BlockSeen ==
    ASSUME IInv, WInv, NEW e \in Execs, Block(e) \/ ReadDenied(e)
    PROVE  WInv' /\ Seen
  <1>1. UNCHANGED <<row, job, published, apple>>
    BY DEF Block, ReadDenied, database
  <1>2. OthersSame(e) /\ exec'[e].pc \in Retired
    <2>1. exec \in [Execs -> ExecRows] /\ exec[e] \in ExecRows
      BY DEF IInv, TypeOK
    <2>2. CASE Block(e) /\ SameKey(e)
      <3>1. exec' = [exec EXCEPT ![e] =
               [exec[e] EXCEPT !.pc = "await", !.based = exec[e].based \/ Holds(e)]]
        BY <2>2 DEF Block
      <3>2. exec'[e].pc = "await"
        BY <2>1, <3>1 DEF ExecRows
      <3>. QED BY <2>1, <3>1, <3>2 DEF OthersSame, Retired
    <2>3. CASE Block(e) /\ ~SameKey(e)
      <3>1. exec' = [exec EXCEPT ![e].pc = "defer"]
        BY <2>3 DEF Block, Goto
      <3>. QED BY <2>1, <3>1 DEF OthersSame, Retired, ExecRows
    <2>4. CASE ReadDenied(e)
      <3>1. exec' = [exec EXCEPT ![e] = [exec[e] EXCEPT !.pc = "block",
               !.key = IF exec[e].key = -1 THEN auth.key ELSE exec[e].key]]
        BY <2>4 DEF ReadDenied
      <3>2. exec'[e].pc = "block"
        BY <2>1, <3>1 DEF ExecRows
      <3>. QED BY <2>1, <3>1, <3>2 DEF OthersSame, Retired
    <2>. QED BY <2>2, <2>3, <2>4
  <1>. QED BY <1>1, <1>2, ApartFromApple, Retires DEF Seen

\* A row that is written is that of one execution.
LEMMA Wrote ==
    ASSUME IInv, NEW e \in Execs, NEW r, Writes(e, r)
    PROVE  exec[e] \in ExecRows /\ exec'[e] = r /\ OthersSame(e)
  BY DEF IInv, TypeOK, Writes, OthersSame

LEMMA OpeningSeen ==
    ASSUME IInv, WInv, NEW e \in Execs, Preflight(e) \/ NoTracksLeft(e) \/ Begin(e)
    PROVE  WInv' /\ Seen
  <1>1. UNCHANGED <<row, job, published, apple>> /\ At(e, Opening)
    BY DEF Preflight, NoTracksLeft, Begin, database, At, Opening
  <1>2. PICK x \in Opening \cap PCs : exec'[e].pc = x /\ OthersSame(e)
    <2>1. /\ "decide" \in Opening \cap PCs /\ "begin" \in Opening \cap PCs
          /\ "pend" \in Opening \cap PCs
      BY DEF Opening, PCs
    <2>2. exec[e] \in ExecRows
      BY ExecParts, RowTypes
    <2>3. CASE Begin(e)
      <3>1. Writes(e, Begun(exec[e], "pend", TRUE))
        BY <2>3 DEF Begin, Writes, Begun
      <3>2. Begun(exec[e], "pend", TRUE).pc = "pend"
        BY <2>1, <2>2, BegunRow
      <3>. QED BY <2>1, <3>1, <3>2, Wrote
    <2>4. ASSUME NEW x \in Opening \cap PCs, Writes(e, Keyed(exec[e], auth.key, x))
          PROVE  exec'[e].pc = x /\ OthersSame(e)
      <3>1. Keyed(exec[e], auth.key, x).pc = x
        BY <2>2, KeyedRow, KeyTyped, ExecParts
      <3>. QED BY <2>4, <3>1, Wrote
    <2>5. CASE NoTracksLeft(e)
      <3>1. Writes(e, Keyed(exec[e], auth.key, "decide"))
        BY <2>5 DEF NoTracksLeft, Writes, Keyed
      <3>. QED BY <2>1, <2>4, <3>1
    <2>6. CASE Preflight(e)
      <3>1. Writes(e, Keyed(exec[e], auth.key, IF published THEN "decide" ELSE "begin"))
        BY <2>6 DEF Preflight, Writes, Keyed
      <3>2. CASE published
        <4>1. Writes(e, Keyed(exec[e], auth.key, "decide"))
          BY <3>1, <3>2
        <4>. QED BY <2>1, <2>4, <4>1
      <3>3. CASE ~published
        <4>1. Writes(e, Keyed(exec[e], auth.key, "begin"))
          BY <3>1, <3>3
        <4>. QED BY <2>1, <2>4, <4>1
      <3>. QED BY <3>2, <3>3
    <2>. QED BY <2>3, <2>5, <2>6
  <1>3. Opens(e) /\ Opens(e)'
    BY <1>1, <1>2 DEF Opens, At
  <1>. QED BY <1>1, <1>2, <1>3, ApartFromApple, StaysOpening DEF Seen

LEMMA PendSeen ==
    ASSUME IInv, WInv, NEW e \in Execs, Pend(e)
    PROVE  WInv' /\ Seen
  <1>1. UNCHANGED <<row, job, published, apple>> /\ At(e, {"pend"})
    BY DEF Pend
  <1>2. CASE recon.state \in MayPend
    <2>1. exec \in [Execs -> ExecRows] /\ exec[e] \in ExecRows
      BY DEF IInv, TypeOK
    <2>2. OthersSame(e) /\ exec'[e].pc = "control"
      BY <1>2, <2>1 DEF Pend, OthersSame, ExecRows
    <2>3. Opens(e) /\ Opens(e)'
      BY <1>1, <2>2 DEF Opens, At, Opening
    <2>. QED BY <1>1, <2>2, <2>3, ApartFromApple, StaysOpening DEF Seen
  <1>3. CASE recon.state \notin MayPend
    BY <1>1, <1>3, ApartFromApple, GotoRetired DEF Pend, Retired
  <1>. QED BY <1>2, <1>3

LEMMA ControlSeen ==
    ASSUME IInv, WInv, NEW e \in Execs, Control(e)
    PROVE  WInv' /\ Seen
  <1>1. UNCHANGED <<row, job, published, apple>> /\ At(e, {"control"})
    BY DEF Control, database
  <1>2. exec \in [Execs -> ExecRows] /\ exec[e] \in ExecRows
    BY DEF IInv, TypeOK
  <1>3. /\ OthersSame(e) /\ exec'[e].next = "first_look"
        /\ exec'[e].pc = IF exec[e].list = NoList THEN "find" ELSE "announce"
    BY <1>2 DEF Control, OthersSame, ExecRows
  <1>4. CASE exec[e].list = NoList
    <2>1. ~At(e, Away) /\ exec'[e].pc \in Unlisted /\ ~At(e, Writing)'
      BY <1>1, <1>3, <1>4 DEF At, Away, Uncertain, Retired, Unlisted, Writing
    <2>. QED BY <1>1, <1>3, <2>1, ApartFromApple, StaysUnlisted DEF Seen
  <1>5. CASE exec[e].list # NoList
    <2>1. Opens(e) /\ Opens(e)'
      BY <1>1, <1>3, <1>5 DEF Opens, At, Opening
    <2>. QED BY <1>1, <1>3, <2>1, ApartFromApple, StaysOpening DEF Seen
  <1>. QED BY <1>4, <1>5

\* A playlist that is found bears the marker of the stored attempt.
LEMMA FindSeen ==
    ASSUME IInv, WInv, NEW e \in Execs, Find(e)
    PROVE  WInv' /\ Seen
  <1>1. UNCHANGED <<row, job, published, apple>> /\ At(e, {"find", "refind"})
    BY DEF Find, database
  <1>2. SameVolume /\ Still /\ UNCHANGED <<lib, seen, late>>
    BY <1>1, ApartFromApple
  <1>3. ~At(e, Away)
    BY <1>1 DEF At, Away, Uncertain, Retired
  <1>4. CASE Goto(e, "create")
    <2>1. exec'[e].pc \in Unlisted /\ OthersSame(e) /\ ~At(e, Writing)'
      BY <1>4, GoesTo DEF Unlisted, At, Writing
    <2>. QED BY <1>2, <1>3, <2>1, StaysUnlisted DEF Seen
  <1>5. CASE Goto(e, "failed")
    BY <1>2, <1>5, GotoRetired DEF Retired
  <1>6. ASSUME NEW p \in Marked(e), exec' = [exec EXCEPT ![e] = [exec[e] EXCEPT !.pc = "store", !.list = p]]
        PROVE  WInv' /\ Seen
    <2>1. exec \in [Execs -> ExecRows] /\ exec[e] \in ExecRows
      BY DEF IInv, TypeOK
    <2>2. OthersSame(e) /\ exec'[e].pc = "store" /\ exec'[e].list = p
      BY <1>6, <2>1 DEF OthersSame, ExecRows
    <2>3. p \in Lists /\ seen[p] # Nothing /\ seen[p].marker = exec[e].attempt
      BY DEF Marked, Shown
    <2>4. lib[p].marker = exec[e].attempt
      BY <2>3 DEF WInv, MarkersOK
    <2>5. ASSUME e = job.gen PROVE AwaitsLate(e)' /\ LatestOK(e)'
      <3>1. exec[e].attempt = row.attempt
        BY <1>1, <2>5, ExecParts DEF CopyOK, At, Unlisted
      <3>2. AwaitsLate(e)'
        BY <1>2, <1>3, <2>5, NoneLate DEF WInv, WriterOK
      <3>. QED BY <1>2, <2>2, <2>4, <3>1, <3>2
               DEF LatestOK, LookOK, Opens, Knows, At, Opening, Knowing, Uncertain, SameVolume
    <2>6. ~At(e, Writing)'
      BY <2>2 DEF At, Writing
    <2>. QED BY <1>2, <2>2, <2>5, <2>6, OneMoves DEF Seen
  <1>. QED BY <1>4, <1>5, <1>6 DEF Find

LEMMA AskToWriteSeen ==
    ASSUME IInv, WInv, NEW e \in Execs, AskToWrite(e)
    PROVE  WInv' /\ Seen
  <1>1. /\ UNCHANGED <<row, job, published, apple>> /\ At(e, {"create", "append"})
        /\ e = job.gen
        /\ Goto(e, IF At(e, {"create"}) THEN "creating" ELSE "appending")
    BY DEF AskToWrite, database, PermitOpen, Holds
  <1>2. SameVolume /\ Still /\ UNCHANGED <<lib, seen, late>>
    BY <1>1, ApartFromApple
  <1>3. CASE At(e, {"create"})
    <2>1. OthersSame(e) /\ ~At(e, Away) /\ exec'[e].pc \in Unlisted
      BY <1>1, <1>3, GoesTo DEF At, Away, Uncertain, Retired, Unlisted
    <2>. QED BY <1>1, <1>2, <2>1, StaysUnlisted DEF Seen
  <1>4. CASE ~At(e, {"create"})
    <2>1. /\ OthersSame(e) /\ At(e, {"append"}) /\ exec'[e].pc = "appending"
          /\ exec'[e].submitted = exec[e].submitted
      BY <1>1, <1>4, GoesTo DEF At
    <2>2. Knows(e) /\ Knows(e)'
      BY <2>1 DEF Knows, At, Knowing
    <2>3. exec[e].submitted < Count
      BY <1>1, <2>1 DEF WInv, WriterOK, LatestOK, At
    <2>. QED BY <1>1, <1>2, <2>1, <2>2, <2>3, StaysKnowing DEF Seen
  <1>. QED BY <1>3, <1>4

\* A run is published when its playlist holds the manifest.
LEMMA EndingsSeen ==
    ASSUME IInv, WInv, NEW e \in Execs, Decide(e) \/ Commit(e) \/ Await(e) \/ Seal(e)
    PROVE  WInv' /\ Seen
  <1>1. WInv'
    BY LeavesSeen
  <1>2. CASE Commit(e)
    <2>1. /\ At(e, {"commit"}) /\ e = job.gen /\ ExactAttempt(e) /\ published'
          /\ UNCHANGED <<row, lib>>
      BY <1>2 DEF Commit, MayCommit, Holds, apple
    <2>2. TypeOK /\ ExecOK(e) /\ CopyOK(e) /\ RowInv
      BY ExecParts
    <2>3. At(e, Listed) /\ ~At(e, Quiet)
      BY <2>1 DEF At, Listed, Quiet
    <2>4. ~published /\ row.list # NoList /\ row.appended = Count
      BY <2>1, <2>2, <2>3 DEF CopyOK, ExecOK, ExactAttempt, At
    <2>5. row.list \in Lists /\ lib[row.list] # Nothing /\ lib[row.list].held >= Count
      BY <2>2, <2>4 DEF RowInv, TypeOK, Exists
    <2>6. lib[row.list].held \in Prefixes
      BY <2>2, <2>5, ListRow DEF TypeOK
    <2>7. lib[row.list].held = Count
      BY <2>5, <2>6, PrefixBounds
    <2>. QED BY <1>1, <2>1, <2>4, <2>7 DEF Publishes, Seen
  <1>3. CASE ~Commit(e)
    <2>1. UNCHANGED <<row, job, published, apple>>
      BY <1>3 DEF Decide, Await, Seal
    <2>. QED BY <1>1, <2>1, ApartFromApple DEF Seen
  <1>. QED BY <1>2, <1>3

\* An execution of which an answer is missing reads the playlist again.
LEMMA ReadsAgain ==
    ASSUME WInv, NEW e \in Execs, OthersSame(e), SameVolume, UNCHANGED <<lib, seen, late>>,
           ~At(e, Away), exec'[e].pc = "recheck", exec'[e].submitted = exec[e].submitted,
           e = job.gen => lib[row.list].held \in {exec[e].submitted, Target(e)}
    PROVE  WInv'
  <1>1. ~At(e, Writing)'
    BY DEF At, Writing
  <1>2. ASSUME e = job.gen PROVE AwaitsLate(e)' /\ LatestOK(e)'
    <2>1. AwaitsLate(e)'
      BY <1>2, NoneLate DEF WInv, WriterOK
    <2>2. Target(e)' = Target(e)
      BY DEF Target
    <2>. QED BY <1>2, <2>1, <2>2
             DEF LatestOK, LookOK, Opens, Knows, At, Opening, Knowing, SameVolume
  <1>. QED BY <1>1, <1>2, OneMoves

LEMMA FailsSeen ==
    ASSUME IInv, WInv, NEW e \in Execs, Refused(e) \/ CallFails(e)
    PROVE  WInv' /\ Seen
  <1>1. UNCHANGED <<row, job, published, apple>> /\ Goto(e, Caught(e))
    BY DEF Refused, CallFails, database
  <1>2. SameVolume /\ Still /\ UNCHANGED <<lib, seen, late>>
    BY <1>1, ApartFromApple
  <1>3. CASE At(e, {"raise", "announce"}) /\ exec[e].next = "look"
    <2>1. Goto(e, "recheck")
      BY <1>1, <1>3 DEF Caught
    <2>2. OthersSame(e) /\ exec'[e].pc = "recheck" /\ exec'[e].submitted = exec[e].submitted
      BY <2>1, GoesTo
    <2>3. ~At(e, Away)
      BY <1>3 DEF At, Away, Uncertain, Retired
    <2>4. ASSUME e = job.gen PROVE lib[row.list].held \in {exec[e].submitted, Target(e)}
      <3>1. LatestOK(e)
        BY <2>4 DEF WInv, WriterOK
      <3>. QED BY <1>3, <3>1 DEF LatestOK, LookOK, Knows, At
    <2>. QED BY <1>2, <2>2, <2>3, <2>4, ReadsAgain DEF Seen
  <1>4. CASE ~(At(e, {"raise", "announce"}) /\ exec[e].next = "look")
    <2>1. Goto(e, "failed")
      BY <1>1, <1>4 DEF Caught
    <2>. QED BY <1>2, <2>1, GotoRetired DEF Retired
  <1>. QED BY <1>3, <1>4

\* A write that did not happen.
LEMMA NotWrittenSeen ==
    ASSUME IInv, WInv, NEW e \in Execs, PermitRefused(e) \/ Rejected(e) \/ WriteDenied(e)
    PROVE  WInv' /\ Seen
  <1>1. UNCHANGED <<row, job, published, apple>>
    BY DEF PermitRefused, Rejected, WriteDenied, database
  <1>2. SameVolume /\ Still /\ UNCHANGED <<lib, seen, late>>
    BY <1>1, ApartFromApple
  <1>3. \/ Goto(e, "failed") \/ Goto(e, "block")
        \/ At(e, {"append", "appending"}) /\ Goto(e, "recheck")
    BY DEF PermitRefused, Rejected, WriteDenied, Or, At
  <1>4. CASE At(e, {"append", "appending"}) /\ Goto(e, "recheck")
    <2>1. OthersSame(e) /\ exec'[e].pc = "recheck" /\ exec'[e].submitted = exec[e].submitted
      BY <1>4, GoesTo
    <2>2. ~At(e, Away) /\ Knows(e)
      BY <1>4 DEF At, Away, Uncertain, Retired, Knows, Knowing
    <2>3. e = job.gen => lib[row.list].held = exec[e].submitted
      BY <2>2 DEF WInv, WriterOK, LatestOK
    <2>. QED BY <1>2, <2>1, <2>2, <2>3, ReadsAgain DEF Seen
  <1>. QED BY <1>2, <1>3, <1>4, GotoRetired DEF Retired

LEMMA LookFailsSeen ==
    ASSUME IInv, WInv, NEW e \in Execs, LookFails(e)
    PROVE  WInv' /\ Seen
  <1>1. UNCHANGED <<row, job, published, apple>> /\ (Goto(e, "orphan") \/ Goto(e, "failed"))
    BY DEF LookFails, database
  <1>2. SameVolume /\ Still /\ UNCHANGED <<lib, seen, late>>
    BY <1>1, ApartFromApple
  <1>3. CASE Goto(e, "orphan")
    BY <1>2, <1>3, GoesTo, GivesUpLearning DEF Seen
  <1>. QED BY <1>1, <1>2, <1>3, GotoRetired DEF Retired

LEMMA OrphanSeen ==
    ASSUME IInv, WInv, NEW e \in Execs, Orphan(e)
    PROVE  WInv' /\ Seen
  <1>1. UNCHANGED <<row, job, published, apple>> /\ Goto(e, "replace")
    BY DEF Orphan
  <1>. QED BY <1>1, ApartFromApple, GoesTo, GivesUpLearning DEF Seen

\* The steps of an execution that knows how long the playlist is.
LEMMA KnowingSeen ==
    ASSUME IInv, WInv, NEW e \in Execs, Share(e) \/ Finish(e) \/ Confirm(e)
    PROVE  WInv' /\ Seen
  <1>1. /\ UNCHANGED <<job, published, lib, seen, late>> /\ At(e, {"share", "finish", "confirm"})
        /\ row'.list = row.list /\ row'.attempt = row.attempt
    <2>1. row \in [list: Lists \cup {NoList}, attempt: Attempts, appended: Prefixes, complete: BOOLEAN]
      BY DEF IInv, TypeOK
    <2>. QED BY <2>1 DEF Share, Finish, Confirm, At, database, apple
  <1>2. PICK x \in {"finish", "confirm", "commit"} : Goto(e, x)
    BY DEF Share, Finish, Confirm
  <1>3. /\ OthersSame(e) /\ exec'[e].pc = x /\ exec'[e].submitted = exec[e].submitted
    BY <1>2, GoesTo
  <1>4. Knows(e) /\ Knows(e)' /\ ~At(e, {"append", "appending"})' /\ ~At(e, Writing)'
    BY <1>1, <1>3 DEF Knows, At, Knowing, Writing
  <1>. QED BY <1>1, <1>3, <1>4, StaysKnowing DEF SameVolume, Still, Seen

\* Where the loop of appendExactVolume goes.
LEMMA LoopsOn ==
    ASSUME IInv, WInv, NEW e \in Execs, Goto(e, LoopPC(e)), SameVolume, Still,
           UNCHANGED <<lib, seen, late>>,
           ~At(e, Away), e = job.gen => lib[row.list].held = exec[e].submitted
    PROVE  WInv' /\ Seen
  <1>1. PICK x \in {"append", "share", "failed"} :
           Goto(e, x) /\ (x = "append" => exec[e].submitted < Count)
    BY DEF LoopPC
  <1>2. /\ OthersSame(e) /\ exec'[e].pc = x /\ exec'[e].submitted = exec[e].submitted
    BY <1>1, GoesTo
  <1>3. CASE x = "failed"
    BY <1>1, <1>3, GotoRetired DEF Retired
  <1>4. CASE x # "failed"
    <2>1. ~At(e, Writing)'
      BY <1>2, <1>4 DEF At, Writing
    <2>2. ASSUME e = job.gen PROVE AwaitsLate(e)' /\ LatestOK(e)'
      <3>1. AwaitsLate(e)'
        BY <2>2, NoneLate DEF WInv, WriterOK
      <3>. QED BY <1>1, <1>2, <1>4, <2>2, <3>1
               DEF LatestOK, LookOK, Opens, Knows, At, Opening, Knowing, Uncertain, SameVolume
    <2>. QED BY <1>2, <2>1, <2>2, OneMoves DEF Seen
  <1>. QED BY <1>3, <1>4

LEMMA AnnounceSeen ==
    ASSUME IInv, WInv, NEW e \in Execs, Announce(e)
    PROVE  WInv' /\ Seen
  <1>1. /\ UNCHANGED <<row, job, published, apple>> /\ At(e, {"announce"})
        /\ Goto(e, IF exec[e].next = "loop" THEN LoopPC(e) ELSE exec[e].next)
    BY DEF Announce
  <1>2. SameVolume /\ Still /\ UNCHANGED <<lib, seen, late>>
    BY <1>1, ApartFromApple
  <1>3. ~At(e, Away) /\ exec[e].next \in {"first_look", "look", "loop"}
    BY <1>1, ExecParts DEF At, Away, Uncertain, Retired, TypeOK, ExecRows
  <1>4. CASE exec[e].next = "first_look"
    <2>1. OthersSame(e) /\ exec'[e].pc = "first_look"
      BY <1>1, <1>4, GoesTo
    <2>2. Opens(e) /\ Opens(e)'
      BY <1>1, <1>4, <2>1 DEF Opens, At, Opening
    <2>. QED BY <1>2, <2>1, <2>2, StaysOpening DEF Seen
  <1>5. CASE exec[e].next # "first_look"
    <2>1. Knows(e)
      BY <1>1, <1>5 DEF Knows, At
    <2>2. e = job.gen => lib[row.list].held = exec[e].submitted
      BY <2>1 DEF WInv, WriterOK, LatestOK
    <2>3. CASE exec[e].next = "loop"
      <3>1. Goto(e, LoopPC(e))
        BY <1>1, <2>3
      <3>. QED BY <1>2, <1>3, <2>2, <3>1, LoopsOn
    <2>4. CASE exec[e].next = "look"
      <3>1. /\ OthersSame(e) /\ exec'[e].pc = "look" /\ exec'[e].submitted = exec[e].submitted
        BY <1>1, <2>4, GoesTo
      <3>2. Knows(e)' /\ ~At(e, {"append", "appending"})' /\ ~At(e, Writing)'
        BY <3>1 DEF Knows, At, Knowing, Writing
      <3>. QED BY <1>2, <2>1, <3>1, <3>2, StaysKnowing DEF Seen
    <2>. QED BY <1>3, <1>5, <2>3, <2>4
  <1>. QED BY <1>4, <1>5

-----------------------------------------------------------------------------
(* Steps that write the copy or the stored volume.                         *)

LEMMA LookedFields ==
    ASSUME NEW r \in ExecRows, NEW visible, NEW diverged, NEW x
    PROVE  LET s == Looked(r, visible, diverged, x) IN
           /\ s.pc = x /\ s.visible = visible /\ s.diverged = diverged
           /\ s.next = "loop" /\ s.submitted = r.submitted
  BY DEF ExecRows, Looked

\* What a look that decides says of a playlist whose length is known, and what
\* one says of an append nobody knows the fate of.
LEMMA LooksRight ==
    ASSUME IInv, WInv, NEW e \in Execs, e = job.gen, At(e, Reads),
           Shown(exec[e].list), ~Diverges(e) => Suffices(e)
    PROVE  /\ row.list = exec[e].list
           /\ At(e, {"first_look"}) => SeenOf(e).held = lib[row.list].held
           /\ At(e, {"look"}) /\ ~Diverges(e) => SeenOf(e).held = lib[row.list].held
           /\ At(e, Uncertain) /\ ~Diverges(e)
                  /\ (At(e, {"verify"}) \/ SeenOf(e).held > exec[e].submitted) =>
                /\ SeenOf(e).held = lib[row.list].held
                /\ \A r \in late : ~ToStored(r)
  <1>1. TypeOK /\ ExecOK(e) /\ CopyOK(e) /\ LibInv /\ WriterOK(e) /\ LateOK
    BY WParts
  <1>2. At(e, Listed)
    BY Places DEF At
  <1>3. row.list = exec[e].list /\ row.list # NoList
    BY <1>1, <1>2 DEF CopyOK, ExecOK, At
  <1>4. row.list \in Lists /\ SeenOf(e) = seen[row.list] /\ seen[row.list] # Nothing
    BY <1>1, <1>3 DEF SeenOf, Shown, TypeOK
  <1>5. SeenOf(e).held \in Marks /\ SeenOf(e).held <= lib[row.list].held
        /\ lib[row.list].held \in Marks /\ exec[e].submitted \in Marks
    BY <1>1, <1>4 DEF LibInv, ExecOK
  <1>6. SeenOf(e).held \in Nat /\ lib[row.list].held \in Nat /\ exec[e].submitted \in Nat
        /\ exec[e].submitted <= Count
    BY <1>5, PrefixBounds
  <1>7. LatestOK(e) /\ AwaitsLate(e)
    BY <1>1 DEF WriterOK
  <1>8. At(e, {"first_look"}) => SeenOf(e).held = lib[row.list].held
    BY <1>3, <1>4, <1>7 DEF LatestOK, Opens, Opening, At
  <1>9. ~Diverges(e) => SeenOf(e).held >= Required(e)
    BY DEF Suffices
  <1>10. ASSUME At(e, {"look"}), ~Diverges(e) PROVE SeenOf(e).held = lib[row.list].held
    <2>1. lib[row.list].held = exec[e].submitted /\ SeenOf(e).held >= exec[e].submitted
      BY <1>7, <1>9, <1>10 DEF LatestOK, Knows, Knowing, Required, At
    <2>. QED BY <1>5, <1>6, <2>1
  <1>11. ASSUME At(e, Uncertain), ~Diverges(e),
                At(e, {"verify"}) \/ SeenOf(e).held > exec[e].submitted
         PROVE  /\ SeenOf(e).held = lib[row.list].held
                /\ \A r \in late : ~ToStored(r)
    <2>1. /\ exec[e].submitted <= Target(e) /\ Target(e) \in Nat
          /\ exec[e].submitted < Count => exec[e].submitted < Target(e)
      BY <1>6, PrefixBounds DEF Target, Smaller
    <2>2. SeenOf(e).held >= Target(e)
      <3>1. CASE At(e, {"verify"})
        BY <1>9, <1>11, <3>1 DEF Required
      <3>2. CASE SeenOf(e).held > exec[e].submitted
        <4>1. exec[e].submitted < SeenOf(e).held
          BY <1>6, <3>2
        <4>. QED BY <1>5, <1>6, <2>1, <4>1, NextMark DEF Target
      <3>. QED BY <1>11, <3>1, <3>2
    <2>3. lib[row.list].held \in {exec[e].submitted, Target(e)}
      BY <1>7, <1>11 DEF LatestOK
    <2>4. lib[row.list].held = Target(e) /\ SeenOf(e).held = lib[row.list].held
      BY <1>5, <1>6, <2>1, <2>2, <2>3
    <2>5. ASSUME NEW r \in late, ToStored(r) PROVE FALSE
      <3>1. r.from = exec[e].submitted
        BY <1>7, <1>11, <2>5 DEF AwaitsLate
      <3>2. lib[row.list].held = r.from /\ r.from < Count
        BY <1>1, <2>5 DEF LateOK, Fits, ToStored
      <3>. QED BY <1>6, <2>1, <2>4, <3>1, <3>2
    <2>. QED BY <2>4, <2>5
  <1>. QED BY <1>3, <1>8, <1>10, <1>11

LEMMA LookSeen ==
    ASSUME IInv, WInv, NEW e \in Execs, Look(e)
    PROVE  WInv' /\ Seen
  <1>1. /\ At(e, Reads) /\ Shown(exec[e].list) /\ (~Diverges(e) => Suffices(e))
        /\ UNCHANGED <<row, job, published, apple>>
        /\ Writes(e, Looked(exec[e], SeenOf(e).held, Diverges(e), AfterLook(e, SeenOf(e).held)))
    BY DEF Look, Writes, Looked, Diverges, Suffices, database
  <1>2. SameVolume /\ Still /\ UNCHANGED <<lib, seen, late>>
    BY <1>1, ApartFromApple
  <1>3. /\ OthersSame(e) /\ exec'[e].pc = AfterLook(e, SeenOf(e).held)
        /\ exec'[e].visible = SeenOf(e).held /\ exec'[e].diverged = Diverges(e)
        /\ exec'[e].next = "loop" /\ exec'[e].submitted = exec[e].submitted
    BY <1>1, Wrote, LookedFields
  <1>4. CASE At(e, {"first_look", "look"})
    <2>1. exec'[e].pc = "note" /\ ~At(e, Away)
      BY <1>3, <1>4 DEF AfterLook, At, Away, Uncertain, Retired
    <2>2. ASSUME e = job.gen PROVE AwaitsLate(e)' /\ LatestOK(e)'
      <3>1. AwaitsLate(e)'
        BY <1>2, <2>1, <2>2, NoneLate DEF WInv, WriterOK
      <3>2. Diverges(e) \/ SeenOf(e).held = lib[row.list].held
        BY <1>1, <1>4, <2>2, LooksRight DEF At
      <3>. QED BY <1>2, <1>3, <2>1, <3>1, <3>2
               DEF LatestOK, LookOK, Opens, Knows, At, Opening, Knowing, Uncertain, SameVolume
    <2>3. ~At(e, Writing)'
      BY <2>1 DEF At, Writing
    <2>. QED BY <1>2, <1>3, <2>2, <2>3, OneMoves DEF Seen
  <1>5. CASE ~At(e, {"first_look", "look"})
    <2>1. At(e, Uncertain)
      BY <1>1, <1>5 DEF At, Reads, Uncertain
    <2>2. CASE exec'[e].pc = "orphan"
      BY <1>2, <1>3, <2>2, GivesUpLearning DEF Seen
    <2>3. CASE exec'[e].pc = "failed"
      BY <1>2, <1>3, <2>3, Retires DEF Retired, Seen
    <2>4. CASE exec'[e].pc \notin {"orphan", "failed"}
      <3>1. /\ exec'[e].pc = "raise" /\ ~Diverges(e)
            /\ At(e, {"verify"}) \/ SeenOf(e).held > exec[e].submitted
        BY <1>3, <1>5, <2>4 DEF AfterLook
      <3>2. ASSUME e = job.gen PROVE AwaitsLate(e)' /\ LatestOK(e)'
        <4>1. SeenOf(e).held = lib[row.list].held /\ \A r \in late : ~ToStored(r)
          BY <1>1, <2>1, <3>1, <3>2, LooksRight
        <4>2. AwaitsLate(e)'
          BY <1>2, <4>1 DEF AwaitsLate, ToStored, SameVolume
        <4>. QED BY <1>2, <1>3, <3>1, <4>1, <4>2
                 DEF LatestOK, LookOK, Opens, Knows, At, Opening, Knowing, Uncertain, SameVolume
      <3>3. ~At(e, Writing)'
        BY <3>1 DEF At, Writing
      <3>. QED BY <1>2, <1>3, <3>2, <3>3, OneMoves DEF Seen
    <2>. QED BY <2>2, <2>3, <2>4
  <1>. QED BY <1>4, <1>5

LEMMA NoteSeen ==
    ASSUME IInv, WInv, NEW e \in Execs, Note(e)
    PROVE  WInv' /\ Seen
  <1>1. /\ UNCHANGED <<row, job, published, apple>> /\ At(e, {"note"}) /\ e = job.gen
    BY DEF Note, Holds
  <1>2. SameVolume /\ Still /\ UNCHANGED <<lib, seen, late>>
    BY <1>1, ApartFromApple
  <1>3. /\ ~At(e, Away) /\ LatestOK(e) /\ AwaitsLate(e)
    BY <1>1 DEF At, Away, Uncertain, Retired, WInv, WriterOK
  <1>4. exec[e].next = "loop" /\ (exec[e].diverged \/ exec[e].visible = lib[row.list].held)
    BY <1>1, <1>3 DEF LatestOK, LookOK
  <1>5. CASE exec[e].diverged
    <2>1. Goto(e, "orphan")
      BY <1>5 DEF Note
    <2>. QED BY <1>2, <2>1, GoesTo, GivesUpLearning DEF Seen
  <1>6. CASE ~exec[e].diverged /\ exec[e].visible > exec[e].submitted
    <2>1. Goto(e, "raise")
      BY <1>6 DEF Note
    <2>2. /\ OthersSame(e) /\ exec'[e].pc = "raise" /\ exec'[e].next = exec[e].next
          /\ exec'[e].visible = exec[e].visible
      BY <2>1, GoesTo
    <2>3. AwaitsLate(e)' /\ ~At(e, Writing)'
      BY <1>2, <1>3, <2>2, NoneLate DEF At, Writing
    <2>4. LatestOK(e)'
      BY <1>2, <1>4, <1>6, <2>2
         DEF LatestOK, LookOK, Opens, Knows, At, Opening, Knowing, Uncertain, SameVolume
    <2>. QED BY <1>2, <2>2, <2>3, <2>4, OneMoves DEF Seen
  <1>7. CASE ~exec[e].diverged /\ ~(exec[e].visible > exec[e].submitted)
    <2>1. Goto(e, LoopPC(e))
      BY <1>7 DEF Note
    <2>2. lib[row.list].held = exec[e].submitted
      <3>1. TypeOK /\ ExecOK(e) /\ CopyOK(e) /\ At(e, Listed)
        BY <1>1, ExecParts DEF At, Listed
      <3>2. exec[e].submitted <= lib[row.list].held
        BY <1>1, <3>1 DEF ExecOK, CopyOK, At
      <3>3. exec[e].submitted \in Nat /\ exec[e].visible \in Nat
        BY <3>1, RowTypes, PrefixBounds
      <3>. QED BY <1>4, <1>7, <3>2, <3>3
    <2>. QED BY <1>2, <1>3, <2>1, <2>2, LoopsOn
  <1>. QED BY <1>5, <1>6, <1>7

LEMMA RaiseSeen ==
    ASSUME IInv, WInv, NEW e \in Execs, Raise(e)
    PROVE  WInv' /\ Seen
  <1>1. /\ At(e, {"raise"}) /\ e = job.gen
        /\ row' = [row EXCEPT !.appended = exec[e].visible, !.complete = FALSE]
        /\ Writes(e, RaisedRow(exec[e]))
        /\ UNCHANGED <<job, published, lib, seen, late>>
    BY DEF Raise, Holds, Writes, RaisedRow, apple
  <1>2. SameVolume /\ Still
    <2>1. row \in [list: Lists \cup {NoList}, attempt: Attempts, appended: Prefixes, complete: BOOLEAN]
      BY DEF IInv, TypeOK
    <2>. QED BY <1>1, <2>1 DEF SameVolume, Still
  <1>3. /\ OthersSame(e) /\ exec'[e].pc = "announce" /\ exec'[e].submitted = exec[e].visible
        /\ exec'[e].next = exec[e].next
    <2>1. exec[e] \in ExecRows /\ exec'[e] = RaisedRow(exec[e]) /\ OthersSame(e)
      BY <1>1, Wrote
    <2>2. RaisedRow(exec[e]).next = exec[e].next
      BY <2>1 DEF ExecRows, RaisedRow
    <2>. QED BY <2>1, <2>2, RaisedFields
  <1>4. /\ ~At(e, Away) /\ LatestOK(e) /\ AwaitsLate(e)
    BY <1>1 DEF At, Away, Uncertain, Retired, WInv, WriterOK
  <1>5. exec[e].next # "first_look" /\ exec[e].visible = lib[row.list].held
    BY <1>1, <1>4 DEF LatestOK, LookOK
  <1>6. AwaitsLate(e)' /\ ~At(e, Writing)'
    BY <1>1, <1>2, <1>3, <1>4, NoneLate DEF At, Writing
  <1>7. LatestOK(e)'
    BY <1>1, <1>2, <1>3, <1>5
       DEF LatestOK, LookOK, Opens, Knows, At, Opening, Knowing, Uncertain, SameVolume
  <1>. QED BY <1>1, <1>2, <1>3, <1>6, <1>7, OneMoves DEF Seen

\* A step of the latest execution that changes what is stored, or what Apple
\* holds or may still apply.
LEMMA LatestWrites ==
    ASSUME WInv, NEW e \in Execs, e = job.gen, OthersSame(e), job'.gen = job.gen,
           MarkersOK', StoredOK', LateOK', AwaitsLate(e)', LatestOK(e)'
    PROVE  WInv'
  <1>1. ASSUME NEW d \in Execs, d # e PROVE WriterOK(d)'
    <2>1. exec'[d] = exec[d] /\ WriterOK(d)
      BY <1>1 DEF OthersSame, WInv
    <2>. QED BY <1>1, <2>1 DEF WriterOK, At
  <1>2. WriterOK(e)'
    BY DEF WriterOK
  <1>. QED BY <1>1, <1>2 DEF WInv

\* The playlist that is stored was created for the stored attempt, and nothing
\* has been written to it.
LEMMA StoreSeen ==
    ASSUME IInv, WInv, NEW e \in Execs, Store(e)
    PROVE  WInv' /\ Seen
  <1>1. /\ At(e, {"store"}) /\ e = job.gen
        /\ row' = [row EXCEPT !.list = exec[e].list, !.complete = FALSE]
        /\ exec' = [exec EXCEPT ![e] = [exec[e] EXCEPT !.pc = "announce", !.next = "first_look"]]
        /\ UNCHANGED <<job, published, lib, seen, late>>
    BY DEF Store, Holds, apple
  <1>2. /\ TypeOK /\ ExecOK(e) /\ CopyOK(e) /\ LibInv /\ RowInv
        /\ MarkersOK /\ StoredOK /\ LateOK /\ WriterOK(e)
    BY WParts
  <1>3. exec[e] \in ExecRows /\ exec[e].list \in Lists /\ lib[exec[e].list] # Nothing
    BY <1>1, <1>2, RowTypes DEF ExecOK, At, Exists
  <1>4. row.list = NoList
    BY <1>1, <1>2 DEF CopyOK
  <1>5. row'.list = exec[e].list /\ row'.attempt = row.attempt
    <2>1. row \in [list: Lists \cup {NoList}, attempt: Attempts, appended: Prefixes, complete: BOOLEAN]
      BY <1>2 DEF TypeOK
    <2>. QED BY <1>1, <2>1
  <1>6. OthersSame(e) /\ exec'[e].pc = "announce" /\ exec'[e].next = "first_look"
    <2>1. Writes(e, Turned(exec[e], "announce", "first_look"))
      <3>1. [exec[e] EXCEPT !.pc = "announce", !.next = "first_look"]
              = Turned(exec[e], "announce", "first_look")
        BY <1>3 DEF Turned, ExecRows
      <3>. QED BY <1>1, <3>1 DEF Writes
    <2>2. /\ Turned(exec[e], "announce", "first_look").pc = "announce"
          /\ Turned(exec[e], "announce", "first_look").next = "first_look"
      BY <1>3 DEF ExecRows, Turned
    <2>. QED BY <2>1, <2>2, Wrote
  <1>7. lib[exec[e].list].marker = row.attempt
    BY <1>1, <1>2 DEF WriterOK, LatestOK
  <1>8. exec[e].list # NoList /\ lib[exec[e].list].held = 0 /\ lib[exec[e].list].broken # "writes"
    BY <1>2, <1>3, <1>4, <1>7, NumbersNotZero DEF StoredOK, Exists
  <1>9. ASSUME NEW r \in late, r.kind = "append"
        PROVE  r.list # exec[e].list /\ lib[r.list].marker < row.attempt
    <2>1. r.list \in Lists
      BY <1>2, <1>9 DEF TypeOK, Requests
    <2>2. lib[r.list].marker < row.attempt
      BY <1>2, <1>4, <1>9, <2>1, NumbersNotZero DEF LateOK, Fits
    <2>3. row.attempt \in Nat
      BY <1>2 DEF TypeOK, Attempts
    <2>. QED BY <1>7, <2>2, <2>3
  <1>10. MarkersOK'
    BY <1>1, <1>2, <1>5 DEF MarkersOK, Exists
  <1>11. StoredOK'
    BY <1>1, <1>2, <1>4, <1>5, <1>7, <1>8, NumbersNotZero DEF StoredOK, Exists
  <1>12. LateOK'
    BY <1>1, <1>2, <1>5, <1>9 DEF LateOK, Fits
  <1>13. AwaitsLate(e)'
    BY <1>1, <1>5, <1>9 DEF AwaitsLate, ToStored
  <1>14. LatestOK(e)'
    <2>1. seen[exec[e].list] # Nothing => seen[exec[e].list].held = lib[exec[e].list].held
      <3>1. SUFFICES ASSUME seen[exec[e].list] # Nothing
                     PROVE  seen[exec[e].list].held = lib[exec[e].list].held
        OBVIOUS
      <3>2. seen[exec[e].list].held \in Marks /\ seen[exec[e].list].held <= 0
        BY <1>2, <1>3, <1>8, <3>1 DEF LibInv
      <3>. QED BY <1>8, <3>2, PrefixBounds
    <2>. QED BY <1>1, <1>5, <1>6, <2>1
             DEF LatestOK, LookOK, Opens, Knows, At, Opening, Knowing, Uncertain
  <1>15. WInv'
    BY <1>1, <1>6, <1>10, <1>11, <1>12, <1>13, <1>14, LatestWrites
  <1>. QED BY <1>1, <1>4, <1>5, <1>8, <1>15 DEF StoresEmpty, Seen

\* A playlist that is given up bears an older marker than the next one.
LEMMA ReplaceSeen ==
    ASSUME IInv, WInv, NEW e \in Execs, Replace(e)
    PROVE  WInv' /\ Seen
  <1>1. /\ At(e, {"replace"}) /\ UNCHANGED <<job, published, lib, seen, late>>
    BY DEF Replace, apple
  <1>2. /\ TypeOK /\ ExecOK(e) /\ CopyOK(e) /\ LibInv /\ RowInv
        /\ MarkersOK /\ StoredOK /\ LateOK /\ WriterOK(e)
    BY WParts
  <1>3. CASE ~MayReplace(e)
    <2>1. UNCHANGED row /\ Goto(e, "failed")
      BY <1>3 DEF Replace
    <2>2. SameVolume /\ Still
      BY <1>1, <2>1 DEF SameVolume, Still
    <2>. QED BY <1>1, <2>1, <2>2, GotoRetired DEF Retired
  <1>4. CASE MayReplace(e)
    <2>1. /\ e = job.gen /\ row' = Replaced /\ Writes(e, RenewedRow(exec[e]))
          /\ exec[e].attempt < MaxReplacements
      BY <1>4 DEF Replace, Holds, Writes, RenewedRow, MayReplace
    <2>2. row.attempt \in Nat /\ row.attempt + 1 \in Attempts /\ ~published
      <3>1. "replace" \in Listed /\ "replace" \notin Quiet
        BY DEF Listed, Quiet
      <3>2. row.attempt = exec[e].attempt /\ ~published /\ row.attempt \in Attempts
        BY <1>1, <1>2, <2>1, <3>1 DEF CopyOK, At, TypeOK
      <3>. QED BY <2>1, <3>2, ReplacementsAssumption DEF Attempts
    <2>3. row'.list = NoList /\ row'.attempt = row.attempt + 1
      BY <2>1 DEF Replaced
    <2>4. exec'[e].pc = "control" /\ OthersSame(e)
      <3>1. exec[e] \in ExecRows /\ exec'[e] = RenewedRow(exec[e]) /\ OthersSame(e)
        BY <2>1, Wrote
      <3>2. RenewedRow(exec[e]).pc = "control"
        BY <3>1 DEF ExecRows, RenewedRow
      <3>. QED BY <3>1, <3>2
    <2>5. ASSUME NEW p \in Lists, lib[p] # Nothing
          PROVE  lib[p].marker \in Nat /\ lib[p].marker < row.attempt + 1
      <3>1. lib[p].marker \in Nat
        BY <1>2, <2>5, ListRow DEF TypeOK, Playlists, Attempts
      <3>. QED BY <1>2, <2>2, <2>5, <3>1 DEF MarkersOK, Exists
    <2>6. ASSUME NEW r \in late, r.kind = "create"
          PROVE  r.marker <= row.attempt + 1
      <3>1. r.marker \in Nat /\ r.marker <= row.attempt
        BY <1>2, <2>6 DEF TypeOK, Requests, Attempts, MarkersOK
      <3>. QED BY <2>2, <3>1
    <2>7. MarkersOK'
      BY <1>1, <1>2, <2>2, <2>3, <2>5, <2>6 DEF MarkersOK, Exists
    <2>8. StoredOK'
      BY <1>1, <2>2, <2>3, <2>5 DEF StoredOK, Exists
    <2>9. ASSUME NEW r \in late, r.kind = "append"
          PROVE  r.list # NoList /\ lib[r.list].marker < row.attempt + 1
      <3>1. r.list \in Lists /\ lib[r.list] # Nothing
        BY <1>2, <2>9 DEF TypeOK, Requests, LibInv, Exists
      <3>. QED BY <2>5, <3>1, NumbersNotZero
    <2>10. LateOK' /\ AwaitsLate(e)'
      BY <1>1, <2>3, <2>6, <2>9 DEF LateOK, Fits, AwaitsLate, ToStored
    <2>11. LatestOK(e)'
      BY <2>3, <2>4 DEF LatestOK, LookOK, Opens, Knows, At, Opening, Knowing, Uncertain
    <2>12. WInv'
      BY <1>1, <2>1, <2>4, <2>7, <2>8, <2>10, <2>11, LatestWrites
    <2>. QED BY <1>1, <2>2, <2>3, <2>12 DEF GivesUp, Seen
  <1>. QED BY <1>3, <1>4

-----------------------------------------------------------------------------
(* Writes to Apple.                                                        *)

\* The request of an execution that may write.
LEMMA RequestFits ==
    ASSUME IInv, WInv, NEW e \in Execs, At(e, Writing)
    PROVE  /\ e = job.gen /\ Request(e) \in Requests /\ Fits(Request(e))
           /\ Request(e).kind = "append" => Exists(Request(e).list) /\ Request(e).from \in Marks
           /\ At(e, {"creating"}) => Request(e).kind = "create" /\ Request(e).marker = row.attempt
           /\ ~At(e, {"creating"}) => /\ At(e, {"appending"}) /\ ToStored(Request(e))
                                      /\ Request(e).from = exec[e].submitted
           /\ \A r \in late : ~ToStored(r)
  <1>1. /\ TypeOK /\ ExecOK(e) /\ CopyOK(e) /\ WriterOK(e)
    BY WParts
  <1>2. e = job.gen /\ AwaitsLate(e) /\ LatestOK(e)
    BY <1>1 DEF WriterOK
  <1>3. \A r \in late : ~ToStored(r)
    BY <1>2 DEF AwaitsLate, At, Writing, Away, Uncertain, Retired
  <1>4. /\ Request(e) \in Requests
        /\ At(e, {"creating"}) => Request(e).kind = "create"
        /\ ~At(e, {"creating"}) =>
             /\ Request(e).kind = "append" /\ Request(e).list = exec[e].list
             /\ Request(e).from = exec[e].submitted
             /\ Exists(exec[e].list) /\ exec[e].submitted \in Marks
    BY <1>1, RequestTyped DEF Writing
  <1>5. exec[e].attempt = row.attempt /\ row.list = exec[e].list
    <2>1. At(e, Listed \cup Unlisted)
      BY DEF At, Writing, Listed, Unlisted
    <2>. QED BY <1>1, <1>2, <2>1 DEF CopyOK, At
  <1>6. CASE At(e, {"creating"})
    <2>1. Request(e).marker = row.attempt /\ row.attempt \in Nat
      BY <1>1, <1>5, <1>6 DEF Request, TypeOK, Attempts
    <2>. QED BY <1>2, <1>3, <1>4, <1>6, <2>1 DEF Fits
  <1>7. CASE ~At(e, {"creating"})
    <2>1. At(e, {"appending"})
      BY <1>7 DEF At, Writing
    <2>2. lib[row.list].held = exec[e].submitted /\ exec[e].submitted < Count
      BY <1>2, <2>1 DEF LatestOK, Knows, Knowing, At
    <2>. QED BY <1>2, <1>3, <1>4, <1>5, <1>7, <2>1, <2>2 DEF Fits, ToStored
  <1>. QED BY <1>6, <1>7

\* What a write changes, playlist by playlist.
LEMMA AppliesTo ==
    ASSUME TypeOK, NEW r, NEW p \in Lists, Applies(r, p), r.kind = "append" => Exists(r.list)
    PROVE  /\ \A q \in Lists : q # p => lib'[q] = lib[q]
           /\ r.kind = "create" => /\ lib[p] = Nothing /\ lib'[p].marker = r.marker
                                   /\ lib'[p].held = 0 /\ lib'[p].broken # "writes"
           /\ r.kind = "append" =>
                /\ p = r.list /\ lib[p] # Nothing /\ lib'[p].marker = lib[p].marker
                /\ lib[p].held = r.from =>
                     /\ lib'[p].held = Smaller(r.from + Batch, Count)
                     /\ lib'[p].broken = lib[p].broken
  <1>1. lib \in [Lists -> Playlists \cup {Nothing}]
    BY DEF TypeOK
  <1>2. CASE r.kind = "create" /\ Unused(p) /\ lib' = Created(p, r.marker)
    BY <1>1, <1>2 DEF Created, Unused, Exists
  <1>3. CASE r.kind = "append" /\ p = r.list /\ lib' = Appended(p, r.from)
    <2>1. lib[p] # Nothing /\ lib[p] \in Playlists
      BY <1>1, <1>3 DEF Exists
    <2>2. CASE lib[p].held = r.from
      <3>1. WritesList(p, Grown(lib[p], Smaller(r.from + Batch, Count)))
        BY <1>3, <2>2 DEF Appended, WritesList, Grown
      <3>2. /\ lib'[p] = Grown(lib[p], Smaller(r.from + Batch, Count))
            /\ \A q \in Lists : q # p => lib'[q] = lib[q]
        BY <1>1, <3>1 DEF WritesList
      <3>3. /\ lib'[p].marker = lib[p].marker /\ lib'[p].broken = lib[p].broken
            /\ lib'[p].held = Smaller(r.from + Batch, Count)
        BY <2>1, <3>2 DEF Grown, Playlists
      <3>. QED BY <1>3, <2>1, <3>2, <3>3
    <2>3. CASE lib[p].held # r.from
      <3>1. WritesList(p, Broken(lib[p], "writes"))
        BY <1>3, <2>3 DEF Appended, WritesList, Broken
      <3>2. lib'[p] = Broken(lib[p], "writes") /\ \A q \in Lists : q # p => lib'[q] = lib[q]
        BY <1>1, <3>1 DEF WritesList
      <3>3. lib'[p].marker = lib[p].marker
        BY <2>1, <3>2 DEF Broken, Playlists
      <3>. QED BY <1>3, <2>1, <2>3, <3>2, <3>3
    <2>. QED BY <2>2, <2>3
  <1>. QED BY <1>2, <1>3 DEF Applies

\* A request that fits keeps the stored playlist an exact prefix.
LEMMA FittingApplied ==
    ASSUME IInv, MarkersOK, StoredOK, LateOK, NEW r \in Requests, Fits(r), NEW p \in Lists,
           Applies(r, p), r.kind = "append" => Exists(r.list),
           UNCHANGED <<row, seen>>, late' \subseteq late,
           \A q \in late' : ToStored(q) => ~ToStored(r)
    PROVE  /\ MarkersOK' /\ StoredOK' /\ LateOK'
           /\ ToStored(r) => lib'[row.list].held = Smaller(r.from + Batch, Count)
           /\ ~ToStored(r) /\ row.list # NoList => lib'[row.list] = lib[row.list]
           /\ \A q \in Lists : lib[q] # Nothing => lib'[q].marker = lib[q].marker
           /\ r.kind = "create" => lib'[p].marker = r.marker
  <1>1. TypeOK /\ LibInv /\ RowInv
    BY DEF IInv
  <1>2. row.list # NoList => row.list \in Lists /\ lib[row.list] # Nothing
    BY <1>1 DEF RowInv, Exists, TypeOK
  <1>3. row.attempt \in Nat /\ r.kind \in {"create", "append"}
    BY <1>1 DEF TypeOK, Attempts, Requests
  <1>4. /\ \A q \in Lists : q # p => lib'[q] = lib[q]
        /\ r.kind = "create" => /\ lib[p] = Nothing /\ lib'[p].marker = r.marker
                                /\ lib'[p].held = 0 /\ lib'[p].broken # "writes"
        /\ r.kind = "append" =>
             /\ p = r.list /\ lib[p] # Nothing /\ lib'[p].marker = lib[p].marker
             /\ lib[p].held = r.from =>
                  /\ lib'[p].held = Smaller(r.from + Batch, Count)
                  /\ lib'[p].broken = lib[p].broken
    BY <1>1, AppliesTo
  <1>5. \A q \in Lists : lib[q] # Nothing => lib'[q].marker = lib[q].marker
    BY <1>3, <1>4
  <1>6. ToStored(r) => /\ lib'[row.list].held = Smaller(r.from + Batch, Count)
                       /\ lib'[row.list].broken = lib[row.list].broken
    BY <1>4 DEF ToStored, Fits
  <1>7. ~ToStored(r) /\ row.list # NoList => lib'[row.list] = lib[row.list]
    BY <1>2, <1>3, <1>4 DEF ToStored
  <1>8. MarkersOK'
    <2>1. ASSUME NEW q \in Lists, lib'[q] # Nothing PROVE lib'[q].marker <= row.attempt
      BY <1>3, <1>4, <2>1 DEF MarkersOK, Exists, Fits
    <2>2. ASSUME NEW q \in Lists, seen[q] # Nothing PROVE seen[q].marker = lib'[q].marker
      <3>1. lib[q] # Nothing
        BY <1>1, <2>2 DEF LibInv, Exists
      <3>. QED BY <1>5, <2>2, <3>1 DEF MarkersOK
    <2>. QED BY <2>1, <2>2 DEF MarkersOK, Exists
  <1>9. StoredOK'
    <2>1. row.list # NoList =>
             lib'[row.list].marker = row.attempt /\ lib'[row.list].broken # "writes"
      BY <1>2, <1>5, <1>6, <1>7 DEF StoredOK
    <2>2. ASSUME NEW q \in Lists, lib'[q] # Nothing, lib'[q].marker = row.attempt, q # row.list
          PROVE  lib'[q].held = 0 /\ lib'[q].broken # "writes"
      <3>1. CASE q # p
        BY <1>4, <2>2, <3>1 DEF StoredOK, Exists
      <3>2. CASE q = p /\ r.kind = "append"
        <4>1. lib[p].marker < row.attempt /\ lib[p].marker = row.attempt
          BY <1>4, <2>2, <3>2 DEF Fits
        <4>. QED BY <1>3, <4>1
      <3>. QED BY <1>3, <1>4, <3>1, <3>2
    <2>. QED BY <2>1, <2>2 DEF StoredOK, Exists
  <1>10. LateOK'
    <2>1. ASSUME NEW q \in late', q.kind = "append", q.list = row.list
          PROVE  lib'[q.list].held = q.from /\ q.from < Count
      <3>1. ~ToStored(r) /\ q \in late
        BY <2>1 DEF ToStored
      <3>2. q.list \in Lists
        BY <1>1, <2>1, <3>1 DEF TypeOK, Requests
      <3>. QED BY <1>7, <2>1, <3>1, <3>2, NumbersNotZero DEF LateOK, Fits
    <2>2. ASSUME NEW q \in late', q.kind = "append", q.list # row.list
          PROVE  lib'[q.list].marker < row.attempt
      <3>1. q \in late /\ q.list \in Lists /\ lib[q.list] # Nothing
        BY <1>1, <2>2 DEF TypeOK, Requests, LibInv, Exists
      <3>. QED BY <1>5, <2>2, <3>1 DEF LateOK, Fits
    <2>. QED BY <2>1, <2>2 DEF LateOK, Fits
  <1>. QED BY <1>4, <1>5, <1>6, <1>7, <1>8, <1>9, <1>10

\* And makes it longer, or leaves it alone.
LEMMA FittingGrows ==
    ASSUME IInv, NEW r \in Requests, Fits(r), UNCHANGED <<row, published>>,
           ToStored(r) => lib'[row.list].held = Smaller(r.from + Batch, Count),
           ~ToStored(r) /\ row.list # NoList => lib'[row.list] = lib[row.list]
    PROVE  Seen
  <1>1. CASE ToStored(r)
    <2>1. r.list \in Lists /\ r.from \in Nat /\ r.from < Count /\ lib[row.list].held = r.from
      BY <1>1, PrefixBounds DEF Fits, ToStored, Requests
    <2>2. row.list # NoList
      BY <1>1, <2>1, NumbersNotZero DEF ToStored
    <2>3. ~published
      BY <2>1, PrefixBounds DEF IInv, RowInv
    <2>4. /\ lib'[row.list].held \in r.from + 1 .. r.from + Batch
          /\ lib'[row.list].held <= Count
      BY <1>1, <2>1, PrefixBounds DEF Smaller
    <2>. QED BY <2>1, <2>2, <2>3, <2>4 DEF Grows, Seen
  <1>2. CASE ~ToStored(r)
    BY <1>2 DEF Still, Seen
  <1>. QED BY <1>1, <1>2

LEMMA AnsweredSeen ==
    ASSUME IInv, WInv, NEW e \in Execs, Answered(e)
    PROVE  WInv' /\ Seen
  <1>1. At(e, Writing) /\ UNCHANGED <<row, job, published, seen, late>>
    BY DEF Answered, Writing, database
  <1>2. PICK p \in Lists :
           /\ Applies(Request(e), p)
           /\ exec' = [exec EXCEPT ![e] =
                IF At(e, {"creating"})
                THEN [exec[e] EXCEPT !.pc = Or(e, "store"), !.list = IF permit = e THEN p ELSE NoList]
                ELSE [exec[e] EXCEPT !.pc = Or(e, "raise"), !.next = "look",
                               !.visible = IF permit = e THEN Target(e) ELSE exec[e].visible]]
    BY DEF Answered
  <1>3. /\ TypeOK /\ ExecOK(e) /\ CopyOK(e) /\ MarkersOK /\ StoredOK /\ LateOK
        /\ exec[e] \in ExecRows
    BY WParts
  <1>4. DEFINE r == Request(e)
  <1>5. /\ e = job.gen /\ r \in Requests /\ Fits(r)
        /\ r.kind = "append" => Exists(r.list)
        /\ At(e, {"creating"}) => r.kind = "create" /\ r.marker = row.attempt
        /\ ~At(e, {"creating"}) => /\ At(e, {"appending"}) /\ ToStored(r)
                                   /\ r.from = exec[e].submitted
        /\ \A q \in late : ~ToStored(q)
    BY <1>1, RequestFits
  <1>6. /\ MarkersOK' /\ StoredOK' /\ LateOK'
        /\ ToStored(r) => lib'[row.list].held = Smaller(r.from + Batch, Count)
        /\ ~ToStored(r) /\ row.list # NoList => lib'[row.list] = lib[row.list]
        /\ r.kind = "create" => lib'[p].marker = r.marker
    <2>1. late' \subseteq late /\ \A q \in late' : ToStored(q) => ~ToStored(r)
      BY <1>1, <1>5
    <2>. QED BY <1>1, <1>2, <1>3, <1>5, <2>1, FittingApplied
  <1>7. Seen
    BY <1>1, <1>5, <1>6, FittingGrows
  <1>8. AwaitsLate(e)'
    BY <1>1, <1>5 DEF AwaitsLate, ToStored
  <1>9. OthersSame(e) /\ LatestOK(e)'
    <2>1. CASE At(e, {"creating"}) /\ permit = e
      <3>1. Writes(e, Taken(exec[e], p))
        BY <1>2, <2>1 DEF Writes, Taken, Or
      <3>2. Taken(exec[e], p).pc = "store" /\ Taken(exec[e], p).list = p
        BY <1>3, TakenRow
      <3>3. OthersSame(e) /\ exec'[e].pc = "store" /\ exec'[e].list = p
        BY <3>1, <3>2, Wrote
      <3>. QED BY <1>1, <1>5, <1>6, <2>1, <3>3
               DEF LatestOK, LookOK, Opens, Knows, At, Opening, Knowing, Uncertain
    <2>2. CASE At(e, {"creating"}) /\ permit # e
      <3>1. Writes(e, Dropped(exec[e]))
        BY <1>2, <2>2 DEF Writes, Dropped, Or
      <3>2. Dropped(exec[e]).pc = "failed"
        BY <1>3 DEF Dropped, ExecRows
      <3>3. OthersSame(e) /\ exec'[e].pc = "failed"
        BY <3>1, <3>2, Wrote
      <3>. QED BY <3>3 DEF LatestOK, LookOK, Opens, Knows, At, Opening, Knowing, Uncertain
    <2>3. CASE ~At(e, {"creating"})
      <3>1. lib'[row.list].held = Target(e)
        BY <1>5, <1>6, <2>3 DEF Target
      <3>2. PICK x \in {"raise", "recheck"}, visible \in Prefixes :
               /\ Writes(e, Applied(exec[e], x, visible))
               /\ x = "raise" => visible = Target(e)
        <4>1. Target(e) \in Prefixes /\ exec[e].visible \in Prefixes
          <5>1. exec[e].submitted \in Marks /\ exec[e].visible \in Prefixes
            BY <1>3, RowTypes DEF ExecOK
          <5>. QED BY <5>1, NextMark, PrefixBounds DEF Target
        <4>2. CASE permit = e
          <5>1. Writes(e, Applied(exec[e], "raise", Target(e)))
            BY <1>2, <2>3, <4>2 DEF Writes, Applied, Or
          <5>. QED BY <4>1, <5>1
        <4>3. CASE permit # e
          <5>1. Writes(e, Applied(exec[e], "recheck", exec[e].visible))
            BY <1>2, <2>3, <4>3 DEF Writes, Applied, Or
          <5>. QED BY <4>1, <5>1
        <4>. QED BY <4>2, <4>3
      <3>3. /\ OthersSame(e) /\ exec'[e].pc = x /\ exec'[e].visible = visible
            /\ exec'[e].next = "look" /\ exec'[e].submitted = exec[e].submitted
        <4>1. x \in PCs
          BY DEF PCs
        <4>2. Applied(exec[e], x, visible).next = "look"
          BY <1>3 DEF Applied, ExecRows
        <4>3. OthersSame(e) /\ exec'[e] = Applied(exec[e], x, visible)
          BY <3>2, Wrote
        <4>. QED BY <1>3, <4>1, <4>2, <4>3, AppliedRow
      <3>4. Target(e)' = Target(e)
        BY <3>3 DEF Target
      <3>. QED BY <1>1, <3>1, <3>2, <3>3, <3>4
               DEF LatestOK, LookOK, Opens, Knows, At, Opening, Knowing, Uncertain
    <2>. QED BY <2>1, <2>2, <2>3
  <1>. QED BY <1>1, <1>5, <1>6, <1>7, <1>8, <1>9, LatestWrites

\* A write whose answer is lost may be late, and its execution verifies it or
\* gives up.
LEMMA LateGains ==
    ASSUME IInv, WInv, NEW e \in Execs, At(e, Writing), LeftBehind(e), OthersSame(e),
           UNCHANGED <<row, lib, seen>>, job'.gen = job.gen,
           \/ exec'[e].pc \in Retired
           \/ exec'[e].pc = "refind" /\ At(e, {"creating"})
           \/ /\ exec'[e].pc \in Uncertain /\ At(e, {"appending"})
              /\ exec'[e].submitted = exec[e].submitted
    PROVE  WInv'
  <1>1. /\ MarkersOK /\ StoredOK /\ LateOK /\ WriterOK(e)
    BY WParts
  <1>2. /\ e = job.gen /\ Fits(Request(e))
        /\ At(e, {"creating"}) => Request(e).kind = "create"
        /\ ~At(e, {"creating"}) => /\ At(e, {"appending"}) /\ ToStored(Request(e))
                                   /\ Request(e).from = exec[e].submitted
        /\ \A r \in late : ~ToStored(r)
    BY RequestFits
  <1>3. \A r \in late' : r \in late \/ r = Request(e)
    BY DEF LeftBehind
  <1>4. LateOK'
    BY <1>1, <1>2, <1>3 DEF LateOK, Fits
  <1>5. MarkersOK' /\ StoredOK'
    BY <1>1, <1>2, <1>3 DEF MarkersOK, StoredOK, Fits, Exists
  <1>6. AwaitsLate(e)'
    <2>1. CASE At(e, {"creating"})
      <3>1. \A r \in late' : ~ToStored(r)
        BY <1>2, <1>3, <2>1 DEF ToStored
      <3>. QED BY <3>1 DEF AwaitsLate, ToStored
    <2>2. CASE ~At(e, {"creating"})
      <3>1. exec'[e].pc \in Away
            /\ (exec'[e].pc \in Uncertain => exec'[e].submitted = exec[e].submitted)
        BY <2>2 DEF Away, Uncertain, Retired
      <3>. QED BY <1>2, <1>3, <2>2, <3>1 DEF AwaitsLate, ToStored, At
    <2>. QED BY <2>1, <2>2
  <1>7. LatestOK(e)'
    <2>1. CASE exec'[e].pc \in Retired \cup {"refind"}
      BY <2>1 DEF LatestOK, LookOK, Opens, Knows, At, Opening, Knowing, Uncertain, Retired
    <2>2. CASE /\ exec'[e].pc \in Uncertain /\ At(e, {"appending"})
               /\ exec'[e].submitted = exec[e].submitted
      <3>1. lib[row.list].held = exec[e].submitted
        BY <1>1, <1>2, <2>2 DEF WriterOK, LatestOK, Knows, Knowing, At
      <3>. QED BY <2>2, <3>1 DEF LatestOK, LookOK, Opens, Knows, At, Opening, Knowing, Uncertain
    <2>. QED BY <2>1, <2>2
  <1>. QED BY <1>2, <1>4, <1>5, <1>6, <1>7, LatestWrites

LEMMA TimesOutSeen ==
    ASSUME IInv, WInv, NEW e \in Execs, TimesOut(e)
    PROVE  WInv' /\ Seen
  <1>1. /\ At(e, Writing) /\ LeftBehind(e) /\ Goto(e, Or(e, AfterTimeout(e)))
        /\ UNCHANGED <<row, job, published, lib, seen>>
    BY DEF TimesOut, Writing, database
  <1>2. /\ OthersSame(e) /\ exec'[e].pc = Or(e, AfterTimeout(e))
        /\ exec'[e].submitted = exec[e].submitted
    BY <1>1, GoesTo
  <1>3. \/ exec'[e].pc \in Retired
        \/ exec'[e].pc = "refind" /\ At(e, {"creating"})
        \/ exec'[e].pc \in Uncertain /\ At(e, {"appending"})
    BY <1>1, <1>2 DEF Or, AfterTimeout, At, Writing, Retired, Uncertain
  <1>. QED BY <1>1, <1>2, <1>3, LateGains DEF Still, Seen

LEMMA VanishSeen ==
    ASSUME IInv, WInv, NEW e \in Execs, Vanish(e)
    PROVE  WInv' /\ Seen
  <1>1. /\ Ends(e) /\ UNCHANGED <<row, job, published, lib, seen>>
        /\ At(e, Writing) => LeftBehind(e)
        /\ ~At(e, Writing) => UNCHANGED late
    BY DEF Vanish, Writing, database
  <1>2. OthersSame(e) /\ exec'[e].pc \in Retired
    <2>1. exec \in [Execs -> ExecRows]
      BY DEF IInv, TypeOK
    <2>. QED BY <1>1, <2>1 DEF Ends, OthersSame, Retired, Unstarted
  <1>3. SameVolume /\ Still
    BY <1>1 DEF SameVolume, Still
  <1>4. CASE At(e, Writing)
    BY <1>1, <1>2, <1>3, <1>4, LateGains DEF Seen
  <1>5. CASE ~At(e, Writing)
    BY <1>1, <1>2, <1>3, <1>5, Retires DEF Seen
  <1>. QED BY <1>4, <1>5

-----------------------------------------------------------------------------
(* Leases, requests and Apple.                                             *)

\* No execution moves, and the volume and Apple stay as they are.
LEMMA OutsideSeen ==
    ASSUME WInv, UNCHANGED <<row, published, exec, lib, seen, late>>, job'.gen = job.gen
    PROVE  WInv' /\ Seen
  <1>1. MarkersOK' /\ StoredOK' /\ LateOK'
    BY DEF WInv, MarkersOK, StoredOK, LateOK, Fits, Exists
  <1>2. ASSUME NEW d \in Execs PROVE WriterOK(d)'
    <2>1. WriterOK(d)
      BY DEF WInv
    <2>. QED BY <2>1 DEF WriterOK, AwaitsLate, ToStored, LatestOK, LookOK, Opens, Knows, At, Target
  <1>3. Still
    BY DEF Still
  <1>. QED BY <1>1, <1>2, <1>3 DEF WInv, Seen

LEMMA RequestsSeen ==
    ASSUME IInv, WInv, LeaseExpires \/ Cancel \/ LoseSession \/ Reauthorize \/ Recover
    PROVE  WInv' /\ Seen
  <1>1. UNCHANGED <<row, published, exec, lib, seen, late>>
    BY DEF LeaseExpires, Cancel, LoseSession, Reauthorize, Recover, database, apple
  <1>2. job'.gen = job.gen
    <2>1. job \in [status: {"queued", "leased", "expired", "settled"}, gen: 0..MaxExecs]
      BY DEF IInv, TypeOK
    <2>. QED BY <2>1 DEF LeaseExpires, Cancel, LoseSession, Reauthorize, Recover, database
  <1>. QED BY <1>1, <1>2, OutsideSeen

\* A new execution finds Apple settled.
LEMMA TakeSeen ==
    ASSUME SettledTakeover, IInv, WInv, Take
    PROVE  WInv' /\ Seen
  <1>1. PICK e \in Execs :
           /\ e = job.gen + 1 /\ job' = [status |-> "leased", gen |-> e]
           /\ exec' = [exec EXCEPT ![e] = [Unstarted EXCEPT !.pc = "preflight"]]
           /\ AppleSettled /\ UNCHANGED <<row, published, lib, seen, late>>
    BY DEF Take, apple
  <1>2. MarkersOK' /\ StoredOK' /\ LateOK'
    BY <1>1 DEF WInv, MarkersOK, StoredOK, LateOK, Fits, Exists
  <1>3. OthersSame(e) /\ exec'[e].pc = "preflight"
    <2>1. exec \in [Execs -> ExecRows]
      BY DEF IInv, TypeOK
    <2>. QED BY <1>1, <2>1 DEF OthersSame, Unstarted
  <1>4. late' = {} /\ seen' = lib' /\ job'.gen = e
    BY <1>1 DEF AppleSettled
  <1>5. ASSUME NEW d \in Execs, d # e PROVE WriterOK(d)'
    BY <1>1, <1>3, <1>4, <1>5 DEF WriterOK, OthersSame, At, Writing, AppleSettled
  <1>6. WriterOK(e)'
    BY <1>3, <1>4 DEF WriterOK, AwaitsLate, LatestOK, LookOK, Opens, Knows, At, Opening, Knowing,
                      Uncertain, Writing
  <1>7. Still
    BY <1>1 DEF Still
  <1>. QED BY <1>2, <1>5, <1>6, <1>7 DEF WInv, Seen

LEMMA ShowsSeen ==
    ASSUME IInv, WInv, NEW p \in Lists, Shows(p)
    PROVE  WInv' /\ Seen
  <1>1. /\ UNCHANGED <<row, job, published, exec, lib, late>>
        /\ \A q \in Lists : seen'[q] = seen[q] \/ seen'[q] = lib[q]
    <2>1. seen \in [Lists -> Playlists \cup {Nothing}]
      BY DEF IInv, TypeOK
    <2>. QED BY <2>1 DEF Shows, database
  <1>2. MarkersOK' /\ StoredOK' /\ LateOK'
    BY <1>1 DEF WInv, MarkersOK, StoredOK, LateOK, Fits, Exists
  <1>3. ASSUME NEW d \in Execs PROVE WriterOK(d)'
    <2>1. WriterOK(d)
      BY DEF WInv
    <2>2. row.list # NoList => row.list \in Lists
      BY DEF IInv, TypeOK
    <2>3. Opens(d)' /\ row.list # NoList /\ seen'[row.list] # Nothing /\ d = job.gen =>
             seen'[row.list].held = lib[row.list].held
      BY <1>1, <2>1, <2>2 DEF WriterOK, LatestOK, Opens, At
    <2>. QED BY <1>1, <2>1, <2>3
             DEF WriterOK, AwaitsLate, ToStored, LatestOK, LookOK, Opens, Knows, At, Target
  <1>4. Still
    BY <1>1 DEF Still
  <1>. QED BY <1>2, <1>3, <1>4 DEF WInv, Seen

\* The owner changes neither the marker nor the tracks of the manifest.
LEMMA OwnerSeen ==
    ASSUME IInv, WInv, NEW p \in Lists, OwnerEdits(p) \/ OwnerDeletes(p)
    PROVE  WInv' /\ Seen
  <1>1. /\ Exists(p) /\ UNCHANGED <<row, job, published, exec, seen, late>>
        /\ WritesList(p, Broken(lib[p], "owner")) \/ WritesList(p, GoneRow(lib[p]))
    BY DEF OwnerEdits, OwnerDeletes, WritesList, Broken, GoneRow, database
  <1>2. TypeOK /\ LibInv /\ RowInv
    BY DEF IInv
  <1>3. lib \in [Lists -> Playlists \cup {Nothing}] /\ lib[p] \in Playlists
    BY <1>1, <1>2 DEF TypeOK, Exists
  <1>4. /\ lib'[p].marker = lib[p].marker /\ lib'[p].held = lib[p].held
        /\ lib[p].broken # "writes" => lib'[p].broken # "writes"
        /\ \A q \in Lists : q # p => lib'[q] = lib[q]
    <2>1. /\ Broken(lib[p], "owner").marker = lib[p].marker
          /\ Broken(lib[p], "owner").held = lib[p].held
          /\ Broken(lib[p], "owner").broken = "owner"
          /\ GoneRow(lib[p]).marker = lib[p].marker /\ GoneRow(lib[p]).held = lib[p].held
          /\ GoneRow(lib[p]).broken = lib[p].broken
      BY <1>3 DEF Broken, GoneRow, Playlists
    <2>2. /\ lib'[p] = Broken(lib[p], "owner") \/ lib'[p] = GoneRow(lib[p])
          /\ \A q \in Lists : q # p => lib'[q] = lib[q]
      BY <1>1, <1>3 DEF WritesList
    <2>. QED BY <2>1, <2>2
  <1>5. /\ \A q \in Lists : /\ lib'[q].marker = lib[q].marker /\ lib'[q].held = lib[q].held
                            /\ lib[q].broken # "writes" => lib'[q].broken # "writes"
                            /\ lib'[q] # Nothing => lib[q] # Nothing
    BY <1>1, <1>4 DEF Exists
  <1>6. row.list # NoList => row.list \in Lists
    BY <1>2 DEF TypeOK
  <1>7. \A r \in late : r.kind = "append" => r.list \in Lists
    BY <1>2 DEF TypeOK, Requests
  <1>8. MarkersOK' /\ StoredOK'
    BY <1>1, <1>5, <1>6 DEF WInv, MarkersOK, StoredOK, Exists
  <1>9. LateOK'
    BY <1>1, <1>5, <1>7 DEF WInv, LateOK, Fits
  <1>10. ASSUME NEW d \in Execs PROVE WriterOK(d)'
    <2>1. WriterOK(d) /\ ExecOK(d) /\ CopyOK(d)
      BY ExecParts DEF WInv
    <2>2. /\ At(d, {"store"}) => exec[d].list \in Lists
          /\ At(d, Listed) /\ d = job.gen => row.list \in Lists
      BY <1>2, <1>6, <2>1, RowTypes DEF ExecOK, CopyOK, At
    <2>3. /\ Knows(d) \/ At(d, Uncertain) \/ At(d, {"note", "raise"}) => At(d, Listed)
      BY DEF Knows, Knowing, Uncertain, At, Listed
    <2>. QED BY <1>1, <1>5, <1>6, <2>1, <2>2, <2>3
             DEF WriterOK, AwaitsLate, ToStored, LatestOK, LookOK, Opens, Knows, At, Target
  <1>11. Still
    BY <1>1, <1>5, <1>6 DEF Still
  <1>. QED BY <1>8, <1>9, <1>10, <1>11 DEF WInv, Seen

\* One late request is applied, or lost for good.
LEMMA LateArrivesSeen ==
    ASSUME IInv, WInv, LateArrives
    PROVE  WInv' /\ Seen
  <1>1. /\ UNCHANGED <<row, job, published, exec, seen>>
        /\ TypeOK /\ LibInv /\ RowInv /\ MarkersOK /\ StoredOK /\ LateOK
    BY DEF LateArrives, database, IInv, WInv
  <1>2. PICK r \in late :
           late' = late \ {r} /\ (UNCHANGED lib \/ \E p \in Lists : Applies(r, p))
    BY DEF LateArrives
  <1>3. r \in Requests /\ Fits(r) /\ (r.kind = "append" => Exists(r.list)) /\ late' \subseteq late
    BY <1>1, <1>2 DEF TypeOK, LibInv, LateOK
  <1>4. CASE UNCHANGED lib
    <2>1. MarkersOK' /\ StoredOK' /\ LateOK'
      BY <1>1, <1>3, <1>4 DEF MarkersOK, StoredOK, LateOK, Fits, Exists
    <2>2. ASSUME NEW d \in Execs PROVE WriterOK(d)'
      <3>1. WriterOK(d)
        BY DEF WInv
      <3>. QED BY <1>1, <1>3, <1>4, <3>1
               DEF WriterOK, AwaitsLate, ToStored, LatestOK, LookOK, Opens, Knows, At, Target
    <2>3. Still
      BY <1>1, <1>4 DEF Still
    <2>. QED BY <2>1, <2>2, <2>3 DEF WInv, Seen
  <1>5. ASSUME NEW p \in Lists, Applies(r, p) PROVE WInv' /\ Seen
    <2>1. ASSUME NEW q \in late', ToStored(q), ToStored(r) PROVE FALSE
      <3>1. q \in Requests /\ Fits(q) /\ q # r
        BY <1>1, <1>2, <1>3 DEF TypeOK, LateOK
      <3>2. q.from = r.from /\ q.list = r.list /\ q.kind = "append" /\ r.kind = "append"
        BY <1>3, <2>1, <3>1 DEF Fits, ToStored
      <3>3. /\ q = [kind |-> "append", list |-> q.list, from |-> q.from]
            /\ r = [kind |-> "append", list |-> r.list, from |-> r.from]
        BY <1>3, <3>1, <3>2 DEF Requests
      <3>. QED BY <3>1, <3>2, <3>3
    <2>2. /\ MarkersOK' /\ StoredOK' /\ LateOK'
          /\ ToStored(r) => lib'[row.list].held = Smaller(r.from + Batch, Count)
          /\ ~ToStored(r) /\ row.list # NoList => lib'[row.list] = lib[row.list]
          /\ \A q \in Lists : lib[q] # Nothing => lib'[q].marker = lib[q].marker
      BY <1>1, <1>3, <1>5, <2>1, FittingApplied
    <2>3. Seen
      BY <1>1, <1>3, <2>2, FittingGrows
    <2>4. ASSUME NEW d \in Execs PROVE WriterOK(d)'
      <3>1. WriterOK(d) /\ ExecOK(d) /\ CopyOK(d)
        BY ExecParts DEF WInv
      <3>2. SUFFICES ASSUME d = job.gen PROVE AwaitsLate(d)' /\ LatestOK(d)'
        BY <1>1, <3>1 DEF WriterOK, At
      <3>3. AwaitsLate(d) /\ LatestOK(d)
        BY <3>1, <3>2 DEF WriterOK
      <3>4. AwaitsLate(d)'
        BY <1>1, <1>3, <3>3 DEF AwaitsLate, ToStored, At
      <3>5. CASE ToStored(r)
        <4>1. At(d, Away) /\ (At(d, Uncertain) => r.from = exec[d].submitted)
          BY <3>3, <3>5 DEF AwaitsLate
        <4>2. At(d, Uncertain) => lib'[row.list].held = Target(d)
          BY <2>2, <3>5, <4>1 DEF Target
        <4>3. /\ ~At(d, {"store"}) /\ ~Opens(d) /\ ~Knows(d)
              /\ ~At(d, {"append", "appending"}) /\ ~At(d, {"note"}) /\ ~At(d, {"raise"})
          BY <4>1 DEF At, Away, Uncertain, Retired, Opens, Opening, Knows, Knowing
        <4>4. LatestOK(d)'
          BY <1>1, <4>2, <4>3 DEF LatestOK, LookOK, Opens, Knows, At, Target
        <4>. QED BY <3>4, <4>4
      <3>6. CASE ~ToStored(r)
        <4>1. At(d, {"store"}) => lib'[exec[d].list].marker = lib[exec[d].list].marker
          BY <1>1, <2>2, <3>1, RowTypes DEF ExecOK, At, Exists
        <4>2. At(d, Listed) => row.list # NoList
          BY <3>1, <3>2 DEF ExecOK, CopyOK, At
        <4>3. Knows(d) \/ At(d, Uncertain) \/ At(d, {"note", "raise"}) => At(d, Listed)
          BY DEF Knows, Knowing, Uncertain, At, Listed
        <4>4. row.list # NoList => lib'[row.list] = lib[row.list]
          BY <2>2, <3>6
        <4>5. LatestOK(d)'
          BY <1>1, <3>3, <4>1, <4>2, <4>3, <4>4 DEF LatestOK, LookOK, Opens, Knows, At, Target
        <4>. QED BY <3>4, <4>5
      <3>. QED BY <3>5, <3>6
    <2>. QED BY <2>2, <2>3, <2>4 DEF WInv
  <1>. QED BY <1>2, <1>4, <1>5

-----------------------------------------------------------------------------
(* The theorems.                                                           *)

LEMMA WInitial == Init => WInv
  <1>1. SUFFICES ASSUME Init PROVE WInv
    OBVIOUS
  <1>2. /\ row.list = NoList /\ late = {} /\ job.gen = 0
        /\ \A p \in Lists : lib[p] = Nothing /\ seen[p] = Nothing
        /\ \A e \in Execs : exec[e].pc = "over"
    BY <1>1 DEF Init, Unstarted
  <1>3. MarkersOK /\ StoredOK /\ LateOK
    BY <1>2 DEF MarkersOK, StoredOK, LateOK, Exists
  <1>4. \A e \in Execs : WriterOK(e)
    BY <1>2, NumbersNotZero DEF WriterOK, At, Writing, NoExec
  <1>. QED BY <1>3, <1>4 DEF WInv

\* Every step keeps what is known of the stored playlist, and is one of those
\* ExactPublication allows.
LEMMA WInductive ==
    ASSUME SettledTakeover
    PROVE  IInv /\ WInv /\ [Next]_vars => WInv' /\ Seen
  <1>1. SUFFICES ASSUME IInv, WInv, [Next]_vars PROVE WInv' /\ Seen
    OBVIOUS
  <1>2. CASE UNCHANGED vars
    <2>1. UNCHANGED <<row, published, exec, lib, seen, late>> /\ job'.gen = job.gen
      BY <1>2 DEF vars
    <2>. QED BY <1>1, <2>1, OutsideSeen
  <1>3. CASE Environment
    <2>1. CASE Take
      BY <1>1, <2>1, TakeSeen
    <2>2. CASE LeaseExpires \/ Cancel \/ LoseSession \/ Reauthorize \/ Recover
      BY <1>1, <2>2, RequestsSeen
    <2>3. CASE LateArrives
      BY <1>1, <2>3, LateArrivesSeen
    <2>4. CASE \E p \in Lists : Shows(p) \/ OwnerEdits(p) \/ OwnerDeletes(p)
      BY <1>1, <2>4, ShowsSeen, OwnerSeen
    <2>. QED BY <1>3, <2>1, <2>2, <2>3, <2>4 DEF Environment
  <1>4. ASSUME NEW e \in Execs, Step(e) PROVE WInv' /\ Seen
    <2>1. CASE Preflight(e) \/ Decide(e) \/ Begin(e) \/ Pend(e)
      BY <1>1, <2>1, OpeningSeen, EndingsSeen, PendSeen
    <2>2. CASE Control(e) \/ ControlRefuses(e) \/ Find(e) \/ Store(e)
      BY <1>1, <2>2, ControlSeen, ControlRefusesSeen, FindSeen, StoreSeen
    <2>3. CASE AskToWrite(e) \/ Answered(e) \/ Look(e)
      BY <1>1, <2>3, AskToWriteSeen, AnsweredSeen, LookSeen
    <2>4. CASE Announce(e) \/ Note(e) \/ Raise(e) \/ Orphan(e) \/ Replace(e)
      BY <1>1, <2>4, AnnounceSeen, NoteSeen, RaiseSeen, OrphanSeen, ReplaceSeen
    <2>5. CASE Share(e) \/ Finish(e) \/ Confirm(e) \/ Commit(e) \/ CommitRefused(e)
      BY <1>1, <2>5, KnowingSeen, EndingsSeen, ControlRefusesSeen
    <2>6. CASE Block(e) \/ Await(e) \/ Seal(e) \/ Settle(e) \/ Defer(e) \/ Fail(e) \/ Refused(e)
      BY <1>1, <2>6, BlockSeen, EndingsSeen, EndsSeen, FailsSeen
    <2>. QED BY <1>4, <2>1, <2>2, <2>3, <2>4, <2>5, <2>6 DEF Step
  <1>5. ASSUME NEW e \in Execs, Disturbance(e) PROVE WInv' /\ Seen
    <2>1. CASE Vanish(e) \/ Pause(e) \/ NoTracksLeft(e) \/ PermitRefused(e) \/ Rejected(e)
      BY <1>1, <2>1, VanishSeen, ControlRefusesSeen, OpeningSeen, NotWrittenSeen
    <2>2. CASE WriteDenied(e) \/ TimesOut(e) \/ LookFails(e) \/ CallFails(e) \/ ReadDenied(e)
      BY <1>1, <2>2, NotWrittenSeen, TimesOutSeen, LookFailsSeen, FailsSeen, BlockSeen
    <2>. QED BY <1>5, <2>1, <2>2 DEF Disturbance
  <1>. QED BY <1>1, <1>2, <1>3, <1>4, <1>5 DEF Next

\* Where takeovers find Apple settled, what is known of the stored playlist is
\* true in every behaviour.
THEOREM WriterInvariance ==
    ASSUME SettledTakeover
    PROVE  Spec => [](IInv /\ WInv)
  <1>1. Init => IInv /\ WInv
    BY Initial, WInitial
  <1>2. IInv /\ WInv /\ [Next]_vars => (IInv /\ WInv)'
    BY Inductive, WInductive
  <1>. QED BY <1>1, <1>2, PTL DEF Spec

\* commitPublicationCompletion after appendExactVolume: a complete run shows a playlist
\* with every track of the manifest, each written once, and no write that is still on
\* its way can change it, whatever answers were lost, reads lagged and executions were
\* replaced, provided that Apple is consistent again when a job is leased.
THEOREM CompleteIsExact ==
    ASSUME SettledTakeover
    PROVE  Spec => []PublishedExact
  <1>1. ASSUME IInv, WInv PROVE PublishedExact
    <2>1. TypeOK /\ RowInv /\ StoredOK /\ LateOK
      BY <1>1 DEF IInv, WInv
    <2>2. PublishedHeld
      BY <2>1 DEF RowInv, PublishedHeld
    <2>3. ASSUME run = "complete" PROVE row.list # NoList /\ lib[row.list].held = Count
      BY <2>2, <2>3 DEF PublishedHeld
    <2>4. ASSUME run = "complete", NEW r \in late, r.kind = "append" PROVE r.list # row.list
      BY <2>1, <2>3, <2>4, PrefixBounds DEF LateOK, Fits
    <2>5. PublishedOnce
      BY <2>1, <2>3, <2>4 DEF PublishedOnce, StoredOK
    <2>. QED BY <2>2, <2>5 DEF PublishedExact
  <1>. QED BY <1>1, WriterInvariance, PTL

-----------------------------------------------------------------------------
(* The refinement.                                                         *)

\* What a reader of the stored playlist sees.
Content == IF row.list = NoList THEN 0
           ELSE IF lib[row.list].broken = "writes" THEN Count + 1
           ELSE lib[row.list].held
Status == IF published THEN "published" ELSE "open"

LEMMA ContentIsHeld ==
    ASSUME StoredOK
    PROVE  Content = IF row.list = NoList THEN 0 ELSE lib[row.list].held
  BY DEF StoredOK, Content

\* A step that is seen is a step of ExactPublication, or none.
LEMMA SeenSteps ==
    ASSUME IInv, StoredOK, StoredOK', Seen
    PROVE  [Exact!Next]_<<Content, Status>>
  <1>1. /\ Content = IF row.list = NoList THEN 0 ELSE lib[row.list].held
        /\ Content' = IF row'.list = NoList THEN 0 ELSE lib'[row'.list].held
    BY ContentIsHeld DEF StoredOK, Content
  <1>2. published \in BOOLEAN
    BY DEF IInv, TypeOK
  <1>3. CASE Still
    BY <1>1, <1>3 DEF Still, Status
  <1>4. CASE Grows
    <2>1. /\ Content' \in Content + 1 .. Content + Batch /\ Content' <= Count
          /\ Status = "open" /\ Status' = Status
      BY <1>1, <1>4 DEF Grows, Status
    <2>. QED BY <2>1 DEF Exact!Next, Exact!Extend, Content, Status
  <1>5. CASE GivesUp
    <2>1. Content' = 0 /\ Status = "open" /\ Status' = Status
      BY <1>1, <1>5 DEF GivesUp, Status
    <2>. QED BY <2>1 DEF Exact!Next, Exact!Restart, Content, Status
  <1>6. CASE StoresEmpty
    BY <1>1, <1>6 DEF StoresEmpty, Status
  <1>7. CASE Publishes
    <2>1. /\ Status = "open" /\ Content = Count /\ Status' = "published" /\ Content' = Content
      BY <1>1, <1>7 DEF Publishes, Status
    <2>. QED BY <2>1 DEF Exact!Next, Exact!Publish, Content, Status
  <1>. QED BY <1>3, <1>4, <1>5, <1>6, <1>7 DEF Seen

\* publishManifest implements its promise: seen through the stored playlist, every step
\* of an execution, of its replacement and of Apple extends an exact prefix of the
\* manifest by at most a batch, gives it up for an empty playlist, publishes it when it
\* is whole, or is not seen; nothing is written after publication.
THEOREM PublicationIsExact ==
    ASSUME SettledTakeover
    PROVE  Spec => ImplementsExact
  <1>1. Init => Exact!Init
    BY DEF Init, Exact!Init
  <1>2. IInv /\ WInv /\ (IInv /\ WInv)' /\ [Next]_vars => [Exact!Next]_<<Content, Status>>
    BY WInductive, SeenSteps DEF WInv
  <1>. QED BY <1>1, <1>2, WriterInvariance, PTL DEF Spec, ImplementsExact, Exact!Spec, Content, Status
=============================================================================
